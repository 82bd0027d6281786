----------------------------- MODULE WriteErrors -----------------------------
(***************************************************************************)
(* One write request and what the caller is told of its answer: the query  *)
(* parameters that `Client::send_lp` asks with, the classification of      *)
(* `send_write_once`, and the reading of an error body by                  *)
(* `parse_write_error` and its helpers.                                    *)
(*                                                                         *)
(* A text is where it was taken from, never its characters: "message" and  *)
(* "error" are those members of the JSON body, "body" is the whole body,   *)
(* "" is the empty text.  A string member is TRUE when it is there, is a   *)
(* string and is not empty: the code tells nothing else about one.         *)
(***************************************************************************)
EXTENDS RetryClasses, Integers, SequencesExt

CONSTANTS
    Code,               \* status codes of answers
    MaxItems            \* bound: elements of a `data` array

ASSUME ConstantsAssumption == Code \subseteq Nat /\ MaxItems \in Nat

\* An element of a `data` array, or a `data` object; a line number that is not
\* an unsigned integer is "other".
Item == [object : BOOLEAN, line_number : {"absent", "other", "number"},
         error_message : BOOLEAN]

\* What the server says: no body (or one that cannot be read), one that is not
\* JSON, a JSON scalar or array, or a JSON object with these members.
Answer == {a \in [code : Code, body : {"none", "plain", "scalar", "object"},
                  message : BOOLEAN, error : BOOLEAN, error_message : BOOLEAN,
                  data : {"absent", "other", "object", "array"}] :
    a.body = "object" \/ /\ ~a.message /\ ~a.error /\ ~a.error_message
                         /\ a.data = "absent"}

\* What `data` can hold.
Elements(data) == CASE data = "array" -> BoundedSeq(Item, MaxItems)
                    [] data = "object" -> {<<item>> : item \in {i \in Item : i.object}}
                    [] OTHER -> {<<>>}

VARIABLES
    opts,               \* the WriteOptions the request depends on
    asked,              \* the query parameters that were sent
    answer,             \* the response to the attempt
    items,              \* the object, or the elements of the array, in `data`
    verdict             \* the WriteAttempt and the Error in it

errorVars == <<opts, asked, answer, items, verdict>>

-----------------------------------------------------------------------------
(* parse_write_error                                                       *)

Verdict(kind, message, details, line_errors) ==
    [kind |-> kind, message |-> message, details |-> details,
     line_errors |-> line_errors, retry |-> FALSE]
Server(message, details) == Verdict("Server", message, details, <<>>)

\* No error, or none yet.
NoError(kind) == Verdict(kind, "", <<>>, <<>>)

\* Whether parse_single_line_error yields a LineError for an element.
parse_single_line_error(item) ==
    item.object /\ item.line_number # "other" /\ item.error_message

\* The places of the elements that yield one.
parse_line_errors ==
    LET line_errors[n \in 0..Len(items)] ==
            IF n = 0 THEN <<>>
            ELSE IF parse_single_line_error(items[n]) THEN Append(line_errors[n - 1], n)
            ELSE line_errors[n - 1]
    IN  line_errors[Len(items)]

\* Mutant of create_error_msg_details: elements that are not typed are left out.
create_details_typed ==
    [i \in DOMAIN parse_line_errors |-> <<"typed", parse_line_errors[i]>>]

\* One detail for each LineError if all elements are typed, else each element
\* as it came.
create_error_msg_details ==
    [i \in DOMAIN items |->
        <<IF Len(parse_line_errors) = Len(items) THEN "typed" ELSE "raw", i>>]

\* Mutant of is_partial_write_error: the endpoint is not looked at.
is_partial_on_any_api ==
    opts.accept_partial /\ answer.code = 400 /\ answer.data = "array" /\ items # <<>>

is_partial_write_error ==
    /\ opts.accept_partial /\ answer.code = 400 /\ ~opts.use_v2_api
    /\ answer.data = "array" /\ items # <<>>

\* The message of `data` if it is an object, of the body if it has no `data`.
format_object_data_error ==
    Server("error",
        IF answer.data = "object" /\ items[1].error_message THEN <<<<"data", 1>>>>
        ELSE IF answer.data = "absent" /\ answer.error_message THEN <<<<"body", 1>>>>
        ELSE <<>>)

PartialWrite ==
    Verdict("PartialWrite", "error", create_error_msg_details, parse_line_errors)

\* Mutant of parse_write_error: an empty "error" is not replaced by the body.
parse_write_error_unfilled ==
    CASE answer.body = "none"   -> Server("", <<>>)
      [] answer.body = "plain"  -> Server("body", <<>>)
      [] answer.message         -> Server("message", <<>>)
      [] is_partial_write_error -> PartialWrite
      [] answer.error           -> format_object_data_error
      [] OTHER                  -> Server("", <<>>)

\* The first that applies: the "message", the whole body, a partial write, the
\* "error" with its details.
parse_write_error ==
    LET json == answer.body \in {"scalar", "object"}
    IN  CASE answer.body = "none" -> Server("", <<>>)
          [] answer.body = "plain" -> Server("body", <<>>)
          [] json /\ answer.message -> Server("message", <<>>)
          [] json /\ ~answer.message /\ ~answer.error -> Server("body", <<>>)
          [] json /\ ~answer.message /\ answer.error ->
                IF is_partial_write_error THEN PartialWrite
                ELSE format_object_data_error

-----------------------------------------------------------------------------
ErrorInit ==
    /\ opts \in [use_v2_api : BOOLEAN, accept_partial : BOOLEAN, no_sync : BOOLEAN]
    /\ ~(opts.use_v2_api /\ opts.no_sync)       \* WriteOptions::validate
    /\ asked = {}
    /\ answer = [code |-> 0]
    /\ items = <<>>
    /\ verdict = NoError("unsent")

\* The query parameters of the endpoint that is written to.
Send ==
    /\ verdict.kind = "unsent"
    /\ asked' = IF opts.use_v2_api THEN {"bucket", "precision"}
                ELSE {"db", "precision",
                      IF opts.accept_partial THEN "accept_partial=true"
                      ELSE "accept_partial=false"}
                     \cup (IF opts.no_sync THEN {"no_sync=true"} ELSE {})
    /\ verdict' = NoError("waiting")
    /\ UNCHANGED <<opts, answer, items>>

\* The server, or a gateway before it, answers as it likes.
Arrive ==
    /\ verdict.kind = "waiting"
    /\ answer' \in Answer
    /\ items' \in Elements(answer'.data)
    /\ verdict' = NoError("answered")
    /\ UNCHANGED <<opts, asked>>

\* WriteAttempt::Ok, else the error, in Retry or in Fatal.
Classify ==
    /\ verdict.kind = "answered"
    /\ verdict' = IF answer.code \in 200..299 THEN NoError("Ok")
                  ELSE [parse_write_error EXCEPT !.retry = retryable_status(answer.code)]
    /\ UNCHANGED <<opts, asked, answer, items>>

ErrorNext == Send \/ Arrive \/ Classify

ErrorSpec == ErrorInit /\ [][ErrorNext]_errorVars

-----------------------------------------------------------------------------
(* Properties                                                              *)

\* A partial write is reported only to a caller whose request asked for one
\* (the v2 endpoint has no such parameter), and it names rejected lines
\* (Error::PartialWrite).
PartialAsAsked == verdict.kind = "PartialWrite" =>
    "accept_partial=true" \in asked /\ items # <<>>

\* The message of a partial write tells of every element the server listed,
\* once and in order, also when some of them are no LineError; line_errors has
\* those that are one, and is then the shorter list (create_error_msg_details).
EveryRejectedLineTold == verdict.kind = "PartialWrite" =>
    /\ Len(verdict.details) = Len(items)
    /\ \A i \in DOMAIN items : verdict.details[i][2] = i
    /\ \A i \in DOMAIN items :
        i \in ToSet(verdict.line_errors) <=> parse_single_line_error(items[i])
    /\ (\E i \in DOMAIN items : ~parse_single_line_error(items[i]))
        <=> Len(verdict.line_errors) < Len(items)

\* The caller is never given an empty message when the server sent a body,
\* whichever of `message`, `error` and `data` are missing, empty or of another
\* type (parse_write_error).
SaysSomething == verdict.kind \in {"Server", "PartialWrite"} =>
    (verdict.message = "" <=> answer.body = "none")

\* The lines of a partial write that were accepted are not sent again ("a
\* deterministic data error, never a transient one", send_write_once).
PartialIsFatal ==
    /\ verdict.retry => verdict.kind = "Server"
    /\ verdict.kind = "PartialWrite" => ~verdict.retry
=============================================================================

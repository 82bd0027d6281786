---------------------------- MODULE Configuration -----------------------------
(***************************************************************************)
(* From the settings a caller gives to the request that leaves the client: *)
(* `ClientConfig::from_env`, `from_connection_string` and the builder, the *)
(* checks of `build`, the setters of a `WriteRequest`, and the head of     *)
(* `send_lp`, `ping` and the Flight query, where a request is made.        *)
(*                                                                         *)
(* A text is its class: a host is "ok", "empty", "not a URL", or "no       *)
(* authority" (`localhost:8181` parses as a URL without one); a token and  *)
(* a header are "ok" or "bad" (not valid in an HTTP header).  A value that *)
(* does not parse is "bad".  Of the write options, the ones that no check  *)
(* and no query parameter looks at stand in `precision`.                   *)
(***************************************************************************)
EXTENDS Integers, SequencesExt

CONSTANTS
    Presets,            \* values of a whole WriteOptions
    MaxSettings,        \* bound: options set on the way to a config
    MaxCalls,           \* bound: options set on a request
    Absent              \* a setting that is not given

Switch == {"use_v2_api", "accept_partial", "no_sync"}
WriteOptions == [use_v2_api : BOOLEAN, accept_partial : BOOLEAN, no_sync : BOOLEAN,
                 precision : {"ns", "s"}]

ASSUME ConstantsAssumption ==
    /\ Presets \subseteq WriteOptions
    /\ MaxSettings \in Nat /\ MaxCalls \in Nat

\* What the caller says besides the write options.
Identity == [host : {Absent, "empty", "not a URL", "no authority", "ok"},
             database : {Absent, "empty", "ok"},
             token : {Absent, "bad", "ok"}, header : {Absent, "bad", "ok"}]

VARIABLES
    source,             \* "env", "string" or "builder"
    identity,
    asked,              \* the options set on the way to the config, in order
    called,             \* and those set on the request
    options,            \* the WriteOptions of the config, then of the request
    stage,              \* "start", "configuring", "built", "requesting", "done"
    request,            \* "write", "query" or "ping"
    sent,               \* what reaches the server of the settings
    error               \* the error the caller is given, or "panic"

vars == <<source, identity, asked, called, options, stage, request, sent, error>>
input == <<source, identity>>

-----------------------------------------------------------------------------
\* WriteOptions::default
Default == [use_v2_api |-> TRUE, accept_partial |-> TRUE, no_sync |-> FALSE, precision |-> "ns"]

Init ==
    /\ source \in {"env", "string", "builder"}
    /\ identity \in Identity
    \* Only the builder can set headers.
    /\ source # "builder" => identity.header = Absent
    /\ asked = <<>> /\ called = <<>>
    /\ options = Default
    /\ stage = "start"
    /\ request = Absent
    /\ sent = Absent
    /\ error = Absent

Fails(why) ==
    /\ error' = why
    /\ stage' = "done"
    /\ UNCHANGED <<input, asked, called, options, request, sent>>

Goto(place) ==
    /\ stage' = place
    /\ UNCHANGED <<input, asked, called, options, request, sent, error>>

-----------------------------------------------------------------------------
(* ClientConfig                                                            *)

\* What comes before the options: the required variables of from_env; the URL
\* of from_connection_string, whose userinfo cannot be cleared without a host.
Start ==
    /\ stage = "start"
    /\ CASE source = "env" /\ identity.host = Absent -> Fails("EnvVar host")
         [] source = "env" /\ identity.host # Absent /\ identity.database = Absent ->
                Fails("EnvVar database")
         [] source = "string" /\ identity.host \in {Absent, "empty", "not a URL"} -> Fails("Url")
         [] source = "string" /\ identity.host = "no authority" -> Fails("host")
         [] OTHER -> Goto("configuring")

\* What can be set: some of the switches, a precision, all options at once.
Settings(switches, precisions, all) ==
    [key : switches, value : BOOLEAN] \cup [key : {"precision"}, value : precisions]
        \cup [key : {"all"}, value : all]

\* from_env reads its variables in this order, each at most once.
EnvOrder == <<"precision", "no_sync", "accept_partial", "use_v2_api">>
Rank(key) == CHOOSE i \in DOMAIN EnvOrder : EnvOrder[i] = key

\* The settings that can come next: pairs of a connection string come in any
\* order and again, as do calls of the builder.
Settable ==
    CASE source = "env" -> {s \in Settings(Switch, {"ns", "s"}, {}) :
            asked # <<>> => Rank(s.key) > Rank(Last(asked).key)}
      [] source = "string" -> Settings(Switch, {"ns", "s"}, {})
      [] source = "builder" -> Settings(Switch, {}, Presets)

\* `write_options(..)` and `with_options(..)` replace every option.
Applied(setting) ==
    IF setting.key = "all" THEN setting.value
    ELSE [options EXCEPT ![setting.key] = setting.value]

Set(setting) ==
    /\ stage = "configuring" /\ Len(asked) < MaxSettings
    /\ asked' = Append(asked, setting)
    /\ options' = Applied(setting)
    /\ UNCHANGED <<input, called, stage, request, sent, error>>

\* parse_precision, parse_usize, parse_bool: a text that is not one.
Malformed ==
    /\ stage = "configuring" /\ source # "builder"
    /\ source = "env" /\ asked # <<>> => Last(asked).key # Last(EnvOrder)
    /\ Fails("value")

\* Mutant of validate: no pair of options is refused.
validateNothing == TRUE

\* WriteOptions::validate
validate == ~(options.use_v2_api /\ options.no_sync)

\* Mutant of Build: the options are left to the first request.
BuildOptionsLater ==
    /\ stage = "configuring"
    /\ CASE identity.host # "ok" -> Fails("host")
         [] identity.host = "ok" /\ identity.database # "ok" -> Fails("database")
         [] OTHER -> IF identity.header = "bad" THEN Fails("header")
                     ELSE IF identity.token = "bad" THEN Fails("token")
                     ELSE Goto("built")

\* ClientConfigBuilder::build: the first check that fails makes the error.
Build ==
    /\ stage = "configuring"
    /\ IF identity.host \in {Absent, "empty", "not a URL"} THEN Fails("host")
       ELSE IF identity.database \in {Absent, "empty"} THEN Fails("database")
       ELSE IF ~validate THEN Fails("options")
       ELSE IF identity.header = "bad" THEN Fails("header")
       ELSE IF identity.token = "bad" THEN Fails("token")
       ELSE Goto("built")

-----------------------------------------------------------------------------
(* Client and WriteRequest                                                 *)

\* Mutant of Request: a write starts from the default options.
RequestFromDefault(kind) ==
    /\ stage = "built"
    /\ request' = kind
    /\ options' = IF kind = "write" THEN Default ELSE options
    /\ stage' = "requesting"
    /\ UNCHANGED <<input, asked, called, sent, error>>

\* `client.write(data)` starts from the options of the config.
Request(kind) ==
    /\ stage = "built"
    /\ request' = kind
    /\ stage' = "requesting"
    /\ UNCHANGED <<input, asked, called, options, sent, error>>

\* `no_sync()` and `use_v2_api()` can only switch on.
OnRequest == {s \in Settings(Switch, {"ns", "s"}, Presets) :
                s.key \in {"no_sync", "use_v2_api"} => s.value}

SetOnRequest(setting) ==
    /\ stage = "requesting" /\ request = "write" /\ Len(called) < MaxCalls
    /\ called' = Append(called, setting)
    /\ options' = Applied(setting)
    /\ UNCHANGED <<input, asked, stage, request, sent, error>>

\* The request leaves the client.
Sends(what) ==
    /\ sent' = what
    /\ stage' = "done"
    /\ UNCHANGED <<input, asked, called, options, request, error>>

\* The endpoint and the query parameters of send_lp.
Params ==
    [endpoint |-> IF options.use_v2_api THEN "v2" ELSE "v3",
     accept_partial |-> IF options.use_v2_api THEN Absent ELSE options.accept_partial,
     no_sync |-> ~options.use_v2_api /\ options.no_sync,
     precision |-> options.precision]

\* Awaiting a write: `validate` again, then send_lp up to its first attempt.
\* `try_clone` gives None for a request to a URL without authority.
Write ==
    /\ stage = "requesting" /\ request = "write"
    /\ IF ~validate THEN Fails("options")
       ELSE IF identity.token = "bad" THEN Fails("token")
       ELSE IF identity.host = "no authority" THEN Fails("panic")
       ELSE Sends([params |-> Params, token |-> identity.token, header |-> identity.header])

\* FlightQueryClient::new and stream; the headers of the config are not sent.
Query ==
    /\ stage = "requesting" /\ request = "query"
    /\ IF identity.host = "no authority" THEN Fails("host")
       ELSE IF identity.token = "bad" THEN Fails("token")
       ELSE Sends([params |-> {}, token |-> identity.token, header |-> Absent])

\* Client::ping; reqwest refuses the URL when it sends.
Ping ==
    /\ stage = "requesting" /\ request = "ping"
    /\ IF identity.token = "bad" THEN Fails("token")
       ELSE IF identity.host = "no authority" THEN Fails("transport")
       ELSE Sends([params |-> {}, token |-> identity.token, header |-> Absent])

Next ==
    \/ Start \/ Malformed \/ Build \/ Write \/ Query \/ Ping
    \/ \E setting \in Settable : Set(setting)
    \/ \E kind \in {"write", "query", "ping"} : Request(kind)
    \/ \E setting \in OnRequest : SetOnRequest(setting)

Spec == Init /\ [][Next]_vars

-----------------------------------------------------------------------------
(* Properties                                                              *)

\* The value of an option that was asked for last, by whatever call: first the
\* source of the config, then the request.
Asked(key) ==
    LET chain == asked \o called
        on == {i \in DOMAIN chain : chain[i].key \in {key, "all"}}
        last == chain[Max(on)]
    IN  IF on = {} THEN Default[key]
        ELSE IF last.key = "all" THEN last.value[key]
        ELSE last.value

Written == sent # Absent /\ request = "write"

\* The last word wins: a write is sent to the endpoint, in the precision and
\* with the tolerance for bad lines that were asked for last, wherever that
\* was, with `write_options` and `with_options` taken as asking for each of
\* their options (ClientConfigBuilder, WriteRequest).
LastWordWins == Written =>
    /\ sent.params.endpoint = (IF Asked("use_v2_api") THEN "v2" ELSE "v3")
    /\ sent.params.precision = Asked("precision")
    /\ sent.params.endpoint = "v3" => sent.params.accept_partial = Asked("accept_partial")

\* Nobody's wish to skip the WAL sync, or to have it, is dropped on the way: a
\* write that the endpoint cannot honour is not sent (WriteOptions::validate).
SyncAsAsked == Written => (sent.params.no_sync <=> Asked("no_sync"))

\* The options and the token that `build` accepted are not refused later:
\* options are refused only to a request that set some of its own ("Surface a
\* malformed token now rather than on the first request", build).
BuiltIsGood == request # Absent /\ error # Absent =>
    /\ error = "options" => \E i \in DOMAIN called :
                                called[i].key \in {"use_v2_api", "no_sync", "all"}
    /\ error = "token" => FALSE

\* "`try_clone().expect("write body is cloneable")`" (send_lp).  The code does
\* not keep this.
BodyIsCloneable == error # "panic"
=============================================================================

---------------------------- MODULE LineRoundTrip -----------------------------
(***************************************************************************)
(* The life of one line: its texts are escaped (`escape_with`), its time   *)
(* is converted to the write precision (`Point::timestamp_datetime`,       *)
(* `Precision::scale_timestamp`, `timestamp_reader`), the server reads it  *)
(* character by character, stores it, and a query reads the time back      *)
(* (`extract_value`).                                                      *)
(*                                                                         *)
(* A character stands for its class: "a" and "n" are letters, and NL a     *)
(* newline (a carriage return and a tab are treated alike).  The integers  *)
(* of a time go from -Half to Half - 1, and each time unit is Factor times *)
(* the one before it (2^63 and 1000 in the code).  The line is followed in *)
(* the body by another one, whose texts are all "a".                       *)
(***************************************************************************)
EXTENDS Precisions, Integers, SequencesExt

CONSTANTS
    Half, Factor,       \* half the integers of 64 bits; between two units
    Longest,            \* bound: the length of a text, or of two
    Beyond,             \* bound: how far a DateTime is from the epoch
    NoTime              \* no timestamp

ASSUME TripAssumption ==
    /\ Half \in Nat \ {0} /\ Factor \in Nat \ {0} /\ Longest \in Nat /\ Beyond \in Nat
    /\ NoTime \notin Int

\* The characters that mean something in a line, and two letters.
Comma == "comma"
Equals == "equals"
Space == "space"
Quote == "quote"
Backslash == "backslash"
NL == "newline"
Char == {"a", "n", Comma, Equals, Space, Backslash, Quote, NL}

\* The texts of a line, in the order they are written.
Part == {"measurement", "tag_key", "tag_value", "field_key", "string"}

\* Units by number: nanoseconds, microseconds, milliseconds, seconds.
Unit == 0..3
Precision == Unit
nanos_per_unit(unit) ==
    CASE unit = 0 -> 1
      [] unit = 1 -> Factor
      [] unit = 2 -> Factor * Factor
      [] unit = 3 -> Factor * Factor * Factor

I64 == (-Half)..(Half - 1)
U64 == 0..(2 * Half - 1)

\* Where the time of a line comes from: nothing, `timestamp_nanos`,
\* `timestamp_datetime`, a Datetime column, or an integer column.
Source ==
    [kind : {"none"}, unit : {0}, value : {0}]
        \cup [kind : {"nanos"}, unit : {0}, value : I64]
        \cup [kind : {"datetime"}, unit : {0}, value : (-Beyond)..Beyond]
        \cup [kind : {"column"}, unit : 0..2, value : I64]
        \cup [kind : {"integer"}, unit : {0}, value : I64 \cup U64]

VARIABLES
    texts, source, precision,   \* what the line is made of
    status,             \* "new", "sent" or "panicked", then "stored" or
                        \* "rejected", then "read"
    body,               \* the characters of the two lines
    sent,               \* the timestamp of the line
    reader,             \* the server's parser: place, part and text so far
    lines,              \* for each line read, its parts
    stored,             \* the nanoseconds the server stored
    asked, read         \* the column a query gives, and the value it becomes

tripVars == <<texts, source, precision, status, body, sent, reader, lines, stored, asked, read>>
line == <<texts, source, precision>>

-----------------------------------------------------------------------------
(* Texts                                                                   *)

\* Mutant of needs_escape: the newlines of tags and field keys go through.
needs_escapeNotNewLines(part) ==
    CASE part = "measurement" -> {Comma, Space, NL}
      [] part = "string" -> {Backslash, Quote, NL}
      [] OTHER -> {Comma, Equals, Space}

\* Mutant of needs_escape: tags are escaped as measurements are.
needs_escapeAlike(part) ==
    IF part = "string" THEN {Backslash, Quote, NL} ELSE {Comma, Space, NL}

\* measurement_needs_escape, string_field_needs_escape, tag_needs_escape
needs_escape(part) ==
    CASE part = "measurement" -> {Comma, Space, NL}
      [] part = "string" -> {Backslash, Quote, NL}
      [] OTHER -> {Comma, Equals, Space, NL}

\* A character to escape follows a backslash; a newline becomes a letter.
escape_with(text, part) == FlattenSeq([i \in DOMAIN text |->
    IF text[i] \notin needs_escape(part) THEN <<text[i]>>
    ELSE <<Backslash, IF text[i] = NL THEN "n" ELSE text[i]>>])

\* A line with one tag and one string field; "0" stands for the timestamp.
write_line_protocol(text, time) ==
    escape_with(text["measurement"], "measurement")
        \o <<Comma>> \o escape_with(text["tag_key"], "tag_key")
        \o <<Equals>> \o escape_with(text["tag_value"], "tag_value")
        \o <<Space>> \o escape_with(text["field_key"], "field_key")
        \o <<Equals, Quote>> \o escape_with(text["string"], "string") \o <<Quote>>
        \o (IF time = NoTime THEN <<>> ELSE <<Space, "0">>)

-----------------------------------------------------------------------------
(* Times                                                                   *)

\* `as i64`, and a product in a release build.
wrapped(n) == ((n + Half) % (2 * Half)) - Half

\* `v * 1_000` and `v * 1_000_000`: too large a product wraps around in a
\* release build, and panics in a debug build.
Overflows(n, unit) == n * nanos_per_unit(unit) \notin I64

\* The timestamp written for the line, in units of the precision.
Timestamp ==
    CASE source.kind = "none" -> NoTime
      [] source.kind = "nanos" -> scale_timestamp(source.value, nanos_per_unit(precision))
      \* `dt.timestamp_nanos_opt()`
      [] source.kind = "datetime" ->
            IF source.value \in I64
            THEN scale_timestamp(source.value, nanos_per_unit(precision)) ELSE NoTime
      \* timestamp_reader: up to nanoseconds and down to the precision
      [] source.kind = "column" ->
            scale_timestamp(wrapped(source.value * nanos_per_unit(source.unit)),
                            nanos_per_unit(precision))
      \* `v as i64`
      [] source.kind = "integer" -> wrapped(source.value)

-----------------------------------------------------------------------------
(* The client                                                              *)

Plain == [p \in Part |-> <<"a">>]

\* Two texts are anything, or the time is.
TripInit ==
    /\ \/ /\ \E p, q \in Part, text, other \in BoundedSeq(Char, Longest) \ {<<>>} :
                /\ Len(text) + Len(other) <= Longest \/ other = <<"a">>
                /\ texts = [Plain EXCEPT ![p] = text, ![q] = other]
          /\ source = [kind |-> "none", unit |-> 0, value |-> 0]
          /\ precision = 0
       \/ /\ texts = Plain
          /\ source \in Source
          /\ precision \in Precision
    /\ status = "new"
    /\ body = <<>>
    /\ sent = NoTime
    /\ reader = [pos |-> 1, part |-> "measurement", text |-> <<>>, parts |-> <<>>]
    /\ lines = <<>>
    /\ stored = NoTime
    /\ asked = NoTime /\ read = NoTime

Write ==
    /\ status = "new"
    /\ \/ /\ status' = "sent"
          /\ sent' = Timestamp
          /\ body' = write_line_protocol(texts, sent') \o <<NL>> \o write_line_protocol(Plain, NoTime)
       \/ /\ source.kind = "column" /\ Overflows(source.value, source.unit)
          /\ status' = "panicked"
          /\ UNCHANGED <<body, sent>>
    /\ UNCHANGED <<line, reader, lines, stored, asked, read>>

-----------------------------------------------------------------------------
(* The server: it cuts a line at the separators that no backslash escapes  *)

\* What a backslash escapes; before any other character it is a character.
Escapable(part) ==
    CASE part = "measurement" -> {Comma, Space, Backslash}
      [] part = "string" -> {Backslash, Quote}
      [] part = "time" -> {}
      [] OTHER -> {Comma, Equals, Space, Backslash}

\* A part, the characters that end it, and the part that begins there.
Separator ==
    {<<"measurement", <<Comma>>, "tag_key">>, <<"measurement", <<Space>>, "field_key">>,
     <<"tag_key", <<Equals>>, "tag_value">>,
     <<"tag_value", <<Comma>>, "tag_key">>, <<"tag_value", <<Space>>, "field_key">>,
     <<"field_key", <<Equals, Quote>>, "string">>, <<"string", <<Quote>>, "time">>,
     <<"time", <<Comma>>, "field_key">>}

Ahead(n) == SubSeq(body, reader.pos, reader.pos + n - 1)
Ended == Append(reader.parts, <<reader.part, reader.text>>)

\* At a newline that is not in a string, or at the end of the body.
AtLineEnd ==
    \/ reader.pos = Len(body) + 1
    \/ reader.pos <= Len(body) /\ body[reader.pos] = NL /\ reader.part # "string"

EndLine ==
    /\ status = "sent" /\ AtLineEnd
    /\ lines' = Append(lines, Ended)
    /\ reader' = [pos |-> reader.pos + 1, part |-> "measurement",
                  text |-> <<>>, parts |-> <<>>]
    /\ UNCHANGED <<line, status, body, sent, stored, asked, read>>

ReadChar ==
    /\ status = "sent" /\ ~AtLineEnd /\ reader.pos <= Len(body)
    /\ LET escapes == Ahead(1) = <<Backslash>> /\ reader.pos < Len(body)
                        /\ body[reader.pos + 1] \in Escapable(reader.part)
           ends == {s \in Separator : s[1] = reader.part /\ Ahead(Len(s[2])) = s[2]}
       IN  \/ /\ escapes
              /\ reader' = [reader EXCEPT !.pos = @ + 2,
                                          !.text = Append(@, body[reader.pos + 1])]
           \/ \E s \in ends :
                reader' = [pos |-> reader.pos + Len(s[2]), part |-> s[3],
                           text |-> <<>>, parts |-> Ended]
           \/ /\ ~escapes /\ ends = {}
              /\ reader' = [reader EXCEPT !.pos = @ + 1, !.text = Append(@, body[reader.pos])]
    /\ UNCHANGED <<line, status, body, sent, lines, stored, asked, read>>

\* The server stores nanoseconds: its own when the line has none (NoTime here).
Store ==
    /\ status = "sent" /\ reader.pos > Len(body) + 1
    /\ IF sent = NoTime THEN status' = "stored" /\ stored' = NoTime
       ELSE IF Overflows(sent, precision) THEN status' = "rejected" /\ stored' = NoTime
       ELSE status' = "stored" /\ stored' = sent * nanos_per_unit(precision)
    /\ UNCHANGED <<line, body, sent, reader, lines, asked, read>>

-----------------------------------------------------------------------------
(* The query                                                               *)

\* Mutant of extract_value: seconds are taken for nanoseconds.
extract_valueAsIs(unit, value) == IF unit = 3 THEN value ELSE wrapped(value * nanos_per_unit(unit))

\* The arms of Timestamp(unit, _): the value in nanoseconds.
extract_value(unit, value) == wrapped(value * nanos_per_unit(unit))

\* A query gives the stored time in a unit of its own, or computes a time.
Query ==
    /\ status = "stored"
    /\ \E unit \in Unit :
        /\ asked' \in [unit : {unit}, value : IF stored = NoTime THEN I64
                                   ELSE {truncated(stored, nanos_per_unit(unit))}]
        /\ \/ status' = "read" /\ read' = extract_value(unit, asked'.value)
           \/ Overflows(asked'.value, unit) /\ status' = "panicked" /\ UNCHANGED read
    /\ UNCHANGED <<line, body, sent, reader, lines, stored>>

TripNext == Write \/ ReadChar \/ EndLine \/ Store \/ Query

TripSpec == TripInit /\ [][TripNext]_tripVars

-----------------------------------------------------------------------------
(* Properties                                                              *)

\* The parts that a reader makes of a line: each newline has become two
\* characters, in a string as elsewhere.
Shown(text) == FlattenSeq([i \in DOMAIN text |->
    IF text[i] = NL THEN <<Backslash, "n">> ELSE <<text[i]>>])

Parts(text, time) ==
    <<<<"measurement", Shown(text["measurement"])>>, <<"tag_key", Shown(text["tag_key"])>>,
      <<"tag_value", Shown(text["tag_value"])>>, <<"field_key", Shown(text["field_key"])>>,
      <<"string", Shown(text["string"])>>,
      <<"time", IF time = NoTime THEN <<>> ELSE <<Space, "0">>>>>>

\* In an unquoted text: a backslash before another, before a character that is
\* escaped, or before the separator.  The server takes it for an escape.
StrayBackslash == \E p \in Part \ {"string"} : \E i \in DOMAIN texts[p] :
    /\ texts[p][i] = Backslash
    /\ i < Len(texts[p]) => texts[p][i + 1] \in needs_escape(p) \cup {Backslash}

\* The server reads in each place of a line the text that the caller gave for
\* it, whatever separators, quotes and backslashes are in it, but for control
\* characters, which it reads as two characters.  Excepted are the backslashes
\* that tag_needs_escape and measurement_needs_escape leave before a character
\* that a backslash escapes.
TextReadBack ==
    lines # <<>> /\ ~StrayBackslash => lines[1] = Parts(texts, sent)

\* The same without the exception: the escaping is that of the reference that
\* point.rs cites, in which a backslash escapes a backslash in a key or a tag
\* too (point.rs:346; "line_protocol_preserves_literal_backslash_sequences").
EveryTextReadBack ==
    lines # <<>> => lines[1] = Parts(texts, sent)

\* No text reaches past its own line: the body has as many lines as points,
\* and the next line is read as it was written, even when the line before it
\* was cut in the wrong places.  Only a stray backslash together with a string
\* that ends in an equals sign is excepted: a server that has lost the sign
\* before the string takes the last two characters for the beginning of one.
NextLineIntact == ~StrayBackslash \/ Last(texts["string"]) # Equals =>
    /\ Len(lines) <= 2
    /\ Len(lines) = 2 => lines[2] = Parts(Plain, NoTime)
    /\ status = "stored" => Len(lines) = 2

\* The time of the source, in nanoseconds.
Exact == source.value * nanos_per_unit(IF source.kind = "integer" THEN precision ELSE source.unit)

\* A time that fits in the nanoseconds of an i64 is stored, less than a unit of
\* the precision from where it was and never farther from the epoch, whichever
\* way it was given; nothing on its way overflows.  A DateTime that does not
\* fit is not replaced by another time, but left to the server.
TimeKept == source.kind # "none" =>
    /\ Exact \in I64 =>
        /\ status \notin {"panicked", "rejected"}
        /\ status \in {"stored", "read"} =>
            LET unit == nanos_per_unit(precision)
                off == Exact - stored
            IN  stored # NoTime /\ stored % unit = 0
                    /\ off * Exact >= 0 /\ -unit < off /\ off < unit
    /\ source.kind = "datetime" /\ Exact \notin I64 => stored = NoTime

\* A time that fits in an i64 of nanoseconds comes back from a query whatever
\* the unit of its column is: cut, towards the epoch, to the coarser of that unit
\* and of the precision it was written with, and no further.
TimeThereAndBack == source.kind # "none" /\ Exact \in I64 /\ status = "read" =>
    LET coarser == Max({nanos_per_unit(precision), nanos_per_unit(asked.unit)})
        off == Exact - read
    IN  read % coarser = 0 /\ off * Exact >= 0 /\ -coarser < off /\ off < coarser
=============================================================================

------------------------- MODULE ConfigurationProofs --------------------------
(***************************************************************************)
(* Proofs about Configuration, for any presets and any number of options   *)
(* set on the way.  The options a client holds are at every moment the     *)
(* ones asked for last (Followed); what `build` checked stays true until   *)
(* the request leaves (Checked).                                           *)
(***************************************************************************)
EXTENDS Configuration, DataLemmas

Option == Switch \cup {"precision"}
Setting == Settings(Switch, {"ns", "s"}, WriteOptions)

\* Asked, for any chain of settings.
AskedIn(chain, key) ==
    LET on == {i \in DOMAIN chain : chain[i].key \in {key, "all"}}
        last == chain[Max(on)]
    IN  IF on = {} THEN Default[key]
        ELSE IF last.key = "all" THEN last.value[key]
        ELSE last.value

Source == {"env", "string", "builder"}

ConfigTypeOK ==
    /\ source \in Source
    /\ options \in WriteOptions
    /\ asked \in Seq(Setting)
    /\ called \in Seq(Setting)

\* The options are those asked for last, wherever that was.
Followed == \A key \in Option : options[key] = Asked(key)

\* A request begins where the config ends.
Staged ==
    /\ stage \in {"start", "configuring", "built"} => called = <<>> /\ request = Absent
    /\ stage # "done" => sent = Absent /\ error = Absent

\* What `build` accepted: a good token, and options that only a setter of the
\* request can have spoilt.
Spoilt == \E i \in DOMAIN called : called[i].key \in {"use_v2_api", "no_sync", "all"}
Checked == stage \in {"built", "requesting"} \/ request # Absent =>
    /\ identity.token # "bad"
    /\ validate \/ Spoilt

\* What a write sent is what its options say, and they are a good pair.
AsOptionsSay == Written => sent.params = Params /\ validate

\* No request is refused for its token.
NotRefused == request # Absent /\ error # Absent =>
    /\ error = "options" => Spoilt
    /\ error # "token"

CInv == ConfigTypeOK /\ Followed /\ Staged /\ Checked /\ AsOptionsSay /\ NotRefused

-----------------------------------------------------------------------------
(* The last word                                                           *)

\* The greatest element of a set to which a greater one is added.
LEMMA MaxOfMore ==
    ASSUME NEW n \in Nat, NEW S \in SUBSET (1..n)
    PROVE  Max(S \cup {n + 1}) = n + 1
  <1>1. n + 1 \in S \cup {n + 1} /\ \A y \in S \cup {n + 1} : n + 1 >= y
    OBVIOUS
  <1>2. \A x \in S \cup {n + 1} : (\A y \in S \cup {n + 1} : x >= y) => x = n + 1
    OBVIOUS
  <1> QED
    BY <1>1, <1>2 DEF Max

\* A setting that is put at the end of a chain decides about its own option, or
\* about all of them, and about no other.
LEMMA LastSetting ==
    ASSUME NEW chain \in Seq(Setting), NEW s \in Setting, NEW key \in Option
    PROVE  AskedIn(Append(chain, s), key) =
             IF s.key = "all" THEN s.value[key]
             ELSE IF s.key = key THEN s.value
             ELSE AskedIn(chain, key)
  <1> DEFINE n == Len(chain)
             longer == Append(chain, s)
             On(c) == {i \in DOMAIN c : c[i].key \in {key, "all"}}
  <1>1. /\ n \in Nat /\ DOMAIN chain = 1..n /\ DOMAIN longer = 1..(n + 1)
        /\ \A i \in 1..n : longer[i] = chain[i]
        /\ longer[n + 1] = s
    OBVIOUS
  <1> HIDE DEF n, longer
  <1>2. On(chain) \subseteq 1..n
    BY <1>1
  <1>3. CASE s.key \in {key, "all"}
    <2>1. On(longer) = On(chain) \cup {n + 1}
      BY <1>1, <1>3
    <2>2. Max(On(longer)) = n + 1
      BY <1>1, <1>2, <2>1, MaxOfMore
    <2> QED
      BY <1>1, <1>3, <2>1, <2>2 DEF AskedIn, longer
  <1>4. CASE s.key \notin {key, "all"}
    <2>1. On(longer) = On(chain)
      BY <1>1, <1>4
    <2>2. CASE On(chain) = {}
      BY <1>4, <2>1, <2>2 DEF AskedIn, longer
    <2>3. CASE On(chain) # {} /\ Max(On(chain)) \in 1..n
      BY <1>1, <1>4, <2>1, <2>3 DEF AskedIn, longer
    <2>4. On(chain) # {} => Max(On(chain)) \in 1..n
      <3>1. On(chain) \in SUBSET (0..n)
        BY <1>1, <1>2
      <3> HIDE DEF On
      <3>2. On(chain) # {} => Max(On(chain)) \in On(chain)
        BY <1>1, <3>1, MaxIsGreatest
      <3> QED
        BY <1>2, <3>2
    <2> QED
      BY <2>2, <2>3, <2>4
  <1> QED
    BY <1>3, <1>4

LEMMA AskedIsAskedIn ==
    \A key : Asked(key) = AskedIn(asked \o called, key)
  BY DEF Asked, AskedIn

\* A setting that a client can be given, wherever it comes from, is one that
\* Applied knows.
LEMMA KnownSettings ==
    ASSUME source \in Source
    PROVE  /\ Settable \subseteq Setting
           /\ OnRequest \subseteq Setting
  <1>1. ASSUME NEW precisions \in SUBSET {"ns", "s"}, NEW all \in SUBSET WriteOptions
        PROVE  Settings(Switch, precisions, all) \subseteq Setting
    BY DEF Settings, Setting
  <1>2. /\ Settings(Switch, {"ns", "s"}, {}) \subseteq Setting
        /\ Settings(Switch, {}, Presets) \subseteq Setting
        /\ Settings(Switch, {"ns", "s"}, Presets) \subseteq Setting
    BY <1>1, ConstantsAssumption
  <1>3. Settable \subseteq Settings(Switch, {"ns", "s"}, {}) \cup Settings(Switch, {}, Presets)
    <2>1. CASE source = "env"
      BY <2>1 DEF Settable
    <2>2. CASE source = "string"
      BY <2>2 DEF Settable
    <2>3. CASE source = "builder"
      BY <2>3 DEF Settable
    <2> QED
      BY <2>1, <2>2, <2>3 DEF Source
  <1> QED
    BY <1>2, <1>3 DEF OnRequest

\* After a setting the options are those asked for last, if they were before.
LEMMA AppliedFollows ==
    ASSUME NEW chain \in Seq(Setting), NEW s \in Setting, options \in WriteOptions,
           \A key \in Option : options[key] = AskedIn(chain, key)
    PROVE  /\ Applied(s) \in WriteOptions
           /\ \A key \in Option : Applied(s)[key] = AskedIn(Append(chain, s), key)
  <1>1. CASE s.key = "all"
    <2>1. Applied(s) = s.value /\ s.value \in WriteOptions
      BY <1>1 DEF Applied, Setting, Settings, Switch
    <2> QED
      BY <1>1, <2>1, LastSetting
  <1>2. CASE s.key # "all"
    <2>1. /\ s.key \in Option
          /\ s.value \in IF s.key = "precision" THEN {"ns", "s"} ELSE BOOLEAN
      BY <1>2 DEF Setting, Settings, Switch, Option
    <2>2. Applied(s) = [options EXCEPT ![s.key] = s.value]
      BY <1>2 DEF Applied
    <2>3. /\ Applied(s) \in WriteOptions
          /\ \A key \in Option :
                Applied(s)[key] = IF s.key = key THEN s.value ELSE options[key]
      BY <2>1, <2>2 DEF WriteOptions, Option, Switch
    <2> QED
      BY <1>2, <2>3, LastSetting
  <1> QED
    BY <1>1, <1>2

-----------------------------------------------------------------------------
(* The inductive invariant                                                 *)

LEMMA InitCInv == Init => CInv
  <1> SUFFICES ASSUME Init PROVE CInv
    OBVIOUS
  <1>1. ConfigTypeOK
    BY DEF Init, ConfigTypeOK, Source, Default, WriteOptions
  <1>2. Followed
    <2> SUFFICES ASSUME NEW key \in Option PROVE options[key] = Asked(key)
      BY DEF Followed
    <2>1. asked \o called = <<>> /\ options = Default
      BY DEF Init
    <2>2. {i \in DOMAIN (asked \o called) : (asked \o called)[i].key \in {key, "all"}} = {}
      BY <2>1
    <2> QED
      BY <2>1, <2>2 DEF Asked
  <1>3. Staged /\ Checked /\ AsOptionsSay /\ NotRefused
    BY DEF Init, Staged, Checked, AsOptionsSay, NotRefused, Written
  <1> QED
    BY <1>1, <1>2, <1>3 DEF CInv

\* A step that sets nothing.
LEMMA SettingsKept ==
    ASSUME CInv, UNCHANGED <<source, asked, called, options>>
    PROVE  ConfigTypeOK' /\ Followed'
  <1>1. ConfigTypeOK'
    BY DEF CInv, ConfigTypeOK
  <1>2. \A key : Asked(key)' = Asked(key)
    BY DEF Asked
  <1>3. Followed'
    BY <1>2 DEF CInv, Followed
  <1> QED
    BY <1>1, <1>3

\* An option is set, on the config or on a request.
LEMMA SetKeeps ==
    ASSUME CInv, NEW s \in Setting, options' = Applied(s), UNCHANGED source,
           \/ asked' = Append(asked, s) /\ called = <<>> /\ UNCHANGED called
           \/ called' = Append(called, s) /\ UNCHANGED asked
    PROVE  ConfigTypeOK' /\ Followed'
  <1> DEFINE chain == asked \o called
  <1>1. /\ options \in WriteOptions /\ asked \in Seq(Setting) /\ called \in Seq(Setting)
        /\ chain \in Seq(Setting)
    BY DEF CInv, ConfigTypeOK
  <1>2. (asked \o called)' = Append(chain, s)
    <2>1. CASE asked' = Append(asked, s) /\ called = <<>> /\ UNCHANGED called
      BY <1>1, <2>1
    <2>2. CASE called' = Append(called, s) /\ UNCHANGED asked
      BY <1>1, <2>2
    <2> QED
      BY <2>1, <2>2
  <1>3. \A key \in Option : options[key] = AskedIn(chain, key)
    BY AskedIsAskedIn DEF CInv, Followed
  <1>4. /\ Applied(s) \in WriteOptions
        /\ \A key \in Option : Applied(s)[key] = AskedIn(Append(chain, s), key)
    BY <1>1, <1>3, AppliedFollows
  <1>5. \A key : Asked(key)' = AskedIn((asked \o called)', key)
    BY DEF Asked, AskedIn
  <1>6. Followed'
    BY <1>2, <1>4, <1>5 DEF Followed
  <1>7. ConfigTypeOK'
    <2>1. /\ Append(asked, s) \in Seq(Setting) /\ Append(called, s) \in Seq(Setting)
          /\ source' \in Source
      BY <1>1 DEF CInv, ConfigTypeOK
    <2>2. asked' \in Seq(Setting) /\ called' \in Seq(Setting)
      BY <1>1, <2>1
    <2> QED
      BY <1>4, <2>1, <2>2 DEF ConfigTypeOK
  <1> QED
    BY <1>6, <1>7

\* The parts of the invariant about the way to a request.
OnTheWay == Staged /\ Checked /\ AsOptionsSay /\ NotRefused

LEMMA NextKeepsCInv == CInv /\ [Next]_vars => CInv'
  <1> SUFFICES ASSUME CInv, [Next]_vars PROVE CInv'
    OBVIOUS
  <1> USE DEF Staged, Checked, AsOptionsSay, NotRefused, Written
  <1>1. OnTheWay
    BY DEF CInv, OnTheWay
  <1>2. ASSUME UNCHANGED <<source, asked, called, options>>, OnTheWay'
        PROVE  CInv'
    BY <1>2, SettingsKept DEF CInv, OnTheWay
  <1>3. CASE Start \/ Malformed
    <2>1. \/ Goto("configuring") /\ stage = "start"
          \/ /\ stage \in {"start", "configuring"}
             /\ \E why : Fails(why)
      BY <1>3 DEF Start, Malformed
    <2> QED
      BY <1>1, <1>2, <2>1 DEF OnTheWay, Goto, Fails, input
  <1>4. CASE Build
    <2>1. stage = "configuring"
      BY <1>4 DEF Build
    <2>2. CASE \E why : Fails(why)
      BY <1>1, <1>2, <2>1, <2>2 DEF OnTheWay, Fails, input
    <2>3. CASE Goto("built") /\ validate /\ identity.token # "bad"
      BY <1>1, <1>2, <2>1, <2>3 DEF OnTheWay, Goto, validate, input
    <2> QED
      BY <1>4, <2>2, <2>3 DEF Build
  <1>5. ASSUME NEW kind \in {"write", "query", "ping"}, Request(kind)
        PROVE  CInv'
    BY <1>1, <1>2, <1>5 DEF OnTheWay, Request, validate, Spoilt, input
  <1>6. ASSUME NEW s \in Settable, Set(s)
        PROVE  CInv'
    <2>1. ConfigTypeOK' /\ Followed'
      BY <1>1, <1>6, KnownSettings, SetKeeps DEF Set, OnTheWay, CInv, ConfigTypeOK, input
    <2>2. OnTheWay'
      BY <1>1, <1>6 DEF Set, OnTheWay, input
    <2> QED
      BY <2>1, <2>2 DEF CInv, OnTheWay
  <1>7. ASSUME NEW s \in OnRequest, SetOnRequest(s)
        PROVE  CInv'
    <2>1. ConfigTypeOK' /\ Followed'
      BY <1>7, KnownSettings, SetKeeps DEF SetOnRequest, CInv, ConfigTypeOK, input
    <2>2. validate' \/ Spoilt'
      <3>1. s \in Setting /\ options \in WriteOptions /\ called \in Seq(Setting)
        BY KnownSettings DEF CInv, ConfigTypeOK
      <3>2. called' = Append(called, s) /\ options' = Applied(s)
        BY <1>7 DEF SetOnRequest
      <3>3. /\ Len(called) + 1 \in DOMAIN called' /\ called'[Len(called) + 1] = s
            /\ \A i \in DOMAIN called : i \in DOMAIN called' /\ called'[i] = called[i]
        BY <3>1, <3>2
      <3>4. CASE s.key \in {"use_v2_api", "no_sync", "all"}
        BY <3>3, <3>4 DEF Spoilt
      <3>5. CASE s.key \notin {"use_v2_api", "no_sync", "all"}
        <4>1. /\ options'.use_v2_api = options.use_v2_api
              /\ options'.no_sync = options.no_sync
          BY <3>1, <3>2, <3>5 DEF Applied, WriteOptions
        <4>2. validate \/ Spoilt
          BY <1>1, <1>7 DEF SetOnRequest, OnTheWay
        <4>3. Spoilt => Spoilt'
          BY <3>3 DEF Spoilt
        <4> QED
          BY <4>1, <4>2, <4>3 DEF validate
      <3> QED
        BY <3>4, <3>5
    <2>3. OnTheWay'
      BY <1>1, <1>7, <2>2 DEF SetOnRequest, OnTheWay, input
    <2> QED
      BY <2>1, <2>3 DEF CInv, OnTheWay
  <1>8. CASE Write
    <2>0. stage = "requesting" /\ identity.token # "bad"
      BY <1>1, <1>8 DEF Write, OnTheWay
    <2>1. CASE ~validate /\ Fails("options")
      BY <1>1, <1>2, <1>8, <2>0, <2>1 DEF OnTheWay, Write, Fails, input, validate, Spoilt
    <2>2. CASE Fails("panic")
      BY <1>1, <1>2, <1>8, <2>0, <2>2 DEF OnTheWay, Write, Fails, input, validate, Spoilt
    <2>3. CASE /\ validate
               /\ Sends([params |-> Params, token |-> identity.token, header |-> identity.header])
      BY <1>1, <1>2, <1>8, <2>0, <2>3 DEF OnTheWay, Write, Sends, input, validate, Spoilt, Params
    <2> QED
      BY <1>8, <2>0, <2>1, <2>2, <2>3 DEF Write
  <1>9. CASE Query \/ Ping
    <2>1. request \in {"query", "ping"} /\ stage = "requesting" /\ identity.token # "bad"
      BY <1>1, <1>9 DEF Query, Ping, OnTheWay
    <2>2. CASE Fails("host") \/ Fails("transport")
      BY <1>1, <1>2, <2>1, <2>2 DEF OnTheWay, Fails, input, validate, Spoilt
    <2>3. CASE \E what : Sends(what)
      BY <1>1, <1>2, <2>1, <2>3 DEF OnTheWay, Sends, input, validate, Spoilt
    <2> QED
      BY <1>9, <2>1, <2>2, <2>3 DEF Query, Ping
  <1>10. CASE UNCHANGED vars
    BY <1>1, <1>2, <1>10 DEF vars, input, OnTheWay, validate, Spoilt, Params
  <1> QED
    BY <1>3, <1>4, <1>5, <1>6, <1>7, <1>8, <1>9, <1>10 DEF Next

\* What a client holds of the settings, and what it has checked, at every step
\* from the first setting to the request.
THEOREM SettingsInvariance == Spec => []CInv
  BY InitCInv, NextKeepsCInv, PTL DEF Spec

-----------------------------------------------------------------------------
(* What a caller relies on                                                 *)

\* A write goes where, and as, it was asked for last.
THEOREM LastWordIsSent == Spec => []LastWordWins
  <1>1. CInv => LastWordWins
    <2> SUFFICES ASSUME CInv, Written PROVE LastWordWins
      BY DEF LastWordWins
    <2>1. sent.params = Params
      BY DEF CInv, AsOptionsSay
    <2>2. /\ options.use_v2_api = Asked("use_v2_api")
          /\ options.accept_partial = Asked("accept_partial")
          /\ options.precision = Asked("precision")
      BY DEF CInv, Followed, Option, Switch, ConfigTypeOK, WriteOptions
    <2> QED
      BY <2>1, <2>2 DEF LastWordWins, Params
  <1> QED
    BY <1>1, SettingsInvariance, PTL

\* The WAL sync is skipped if, and only if, the caller said so last.
THEOREM SyncIsAsAsked == Spec => []SyncAsAsked
  <1>1. CInv => SyncAsAsked
    <2> SUFFICES ASSUME CInv, Written PROVE SyncAsAsked
      BY DEF SyncAsAsked
    <2>1. sent.params = Params /\ validate
      BY DEF CInv, AsOptionsSay
    <2>2. options.no_sync = Asked("no_sync") /\ options \in WriteOptions
      BY DEF CInv, Followed, Option, Switch, ConfigTypeOK
    <2> QED
      BY <2>1, <2>2 DEF SyncAsAsked, Params, validate, WriteOptions
  <1> QED
    BY <1>1, SettingsInvariance, PTL

\* What `build` checked needs no second look: only options that the request set
\* itself are refused to it, and never its token.
THEOREM BuiltStaysGood == Spec => []BuiltIsGood
  <1>1. CInv => BuiltIsGood
    BY DEF CInv, NotRefused, BuiltIsGood, Spoilt
  <1> QED
    BY <1>1, SettingsInvariance, PTL
=============================================================================

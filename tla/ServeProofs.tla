---------------------------- MODULE ServeProofs ----------------------------
(***************************************************************************)
(* Proofs about Startup, Deadlines and Serve, in this order.                *)
(*                                                                         *)
(* Startup: the inductive invariant Inv says which blocks each loop is      *)
(* through with, that every block at fault among those is named, and that   *)
(* no problem is reported of an environment that is sound.                  *)
(*                                                                         *)
(* Serve, which goes on from a started process: whatever the targets'       *)
(* timeouts are, scrapes are answered in time, and only an exit with an     *)
(* error cuts one off (ServeInv).                                           *)
(***************************************************************************)
EXTENDS Serve, FiniteSetTheorems, TLAPS

-----------------------------------------------------------------------------
(* Startup *)

\* The blocks each loop is through with.
Scanned == phase \in {"parse", "validate", "decide", "build"}
AreParsed ==
    CASE phase = "parse" -> {i \in Listed : i < at}
      [] phase \in {"validate", "decide", "build"} -> Listed
      [] OTHER -> {}
AreValidated ==
    CASE phase = "validate" -> {i \in Listed : i < at}
      [] phase \in {"decide", "build"} -> Listed
      [] OTHER -> {}
AreBuilt == IF phase = "build" THEN {i \in Listed : i < at} ELSE {}

Placed ==
    /\ phase \in Phases /\ at \in Nat
    /\ phase \in {"parse", "build"} => at \in Listed
    /\ phase = "validate" => at \in Listed \/ (Listed = {} /\ at = 0)
    /\ phase \notin {"parse", "validate", "build"} => at = 0

Kept ==
    /\ EnvironmentOK(env)
    /\ exposed \subseteq DOMAIN env.blocks
    /\ DOMAIN built \subseteq Listed
    /\ \A i \in AreParsed : target[i] = Parsed(env.blocks[i]) /\ i \notin exposed

Seen ==
    /\ names \subseteq Names /\ urls \subseteq Hosts
    /\ phase \in {"start", "process", "scan", "parse", "validate"} =>
          /\ names = {env.blocks[j].name : j \in AreValidated} \cap Names
          /\ urls = {env.blocks[j].url.key : j \in AreValidated} \cap Hosts

Blamed ==
    /\ Scanned => \A i \in DOMAIN env.blocks :
                     i \notin Listed \/ env.blocks[i].unknownKey => Named(i)
    /\ \A i \in AreParsed : Unread(env.blocks[i]) # {} => Named(i)
    /\ \A i \in AreValidated : ~WellFormed(env.blocks[i]) => Named(i)
    /\ \A i \in AreValidated : \A j \in Listed : j < i /\ Clash(j, i) => Named(i)
    /\ \A i \in AreBuilt : ~Accepted(env.blocks[i]) => Named(i)

Checked ==
    /\ phase \in {"start", "process"} => errs = {}
    /\ phase \in {"process", "scan"} \/ Scanned => ConfigValid
    /\ phase = "scan" \/ Scanned => (errs = {} => env.parses /\ ~env.single)
    /\ Scanned => (errs = {} => env.cap # Unparsable /\ ~env.malformed)
    /\ phase = "decide" => (errs = {} => 0 \in Listed)
    /\ phase \in {"build", "ready"} => Consistent
    /\ phase = "ready" => errs = {} /\ Sound
    /\ phase = "refused" => errs # {}

Rejections ==
    IF phase = "build" THEN \A e \in errs : e[2] = "rejected"
    ELSE phase \in {"start", "process", "scan", "parse", "validate", "decide"} =>
            \A e \in errs : e[2] # "rejected"

\* No problem without a cause.
Justified == errs # {} => ~Sound

Inv ==
    /\ Placed /\ Kept /\ Seen /\ Blamed /\ Checked /\ Rejections /\ Justified
    /\ FailsClosed /\ NamesEveryCulprit /\ RunsAsWritten
-----------------------------------------------------------------------------
(* The data *)

LEMMA ListedFacts ==
    ASSUME EnvironmentOK(env)
    PROVE  /\ Listed \subseteq DOMAIN env.blocks /\ Listed \subseteq Nat
           /\ \A i \in Listed : \A j \in 0..i : j \in Listed
           /\ \A i \in Listed : i + 1 \notin Listed => \A j \in Listed : j < i + 1
           /\ Listed # {} => 0 \in Listed
<1>1. Listed \subseteq DOMAIN env.blocks /\ Listed \subseteq Nat
      BY DEF Listed, EnvironmentOK
<1>2. ASSUME NEW i \in Listed, NEW j \in 0..i PROVE j \in Listed
  <2>1. i \in Nat /\ 0..i \subseteq DOMAIN env.blocks
        BY <1>1, <1>2 DEF Listed
  <2>2. 0..j \subseteq 0..i
        BY <2>1, <1>2
  <2> QED
      BY <2>1, <2>2, <1>2 DEF Listed
<1>3. ASSUME NEW i \in Listed, i + 1 \notin Listed, NEW j \in Listed PROVE j < i + 1
  <2>1. SUFFICES ASSUME ~(j < i + 1) PROVE FALSE
        OBVIOUS
  <2>2. i + 1 \in 0..j
        BY <2>1, <1>1
  <2> QED
      BY <2>2, <1>2, <1>3
<1>4. Listed # {} => 0 \in Listed
  <2>1. \A i \in Listed : 0 \in 0..i
        BY <1>1
  <2> QED
      BY <2>1, <1>2
<1> QED
    BY <1>1, <1>2, <1>3, <1>4

\* What parseTarget keeps of a block.
LEMMA ParsedFacts ==
    ASSUME NEW b, BlockOK(b)
    PROVE  /\ Parsed(b).name = b.name /\ Parsed(b).app = b.app /\ Parsed(b).url = b.url
           /\ Parsed(b).login = b.login
           /\ DOMAIN Parsed(b).own = DOMAIN b.own \ Unread(b)
           /\ \A k \in DOMAIN Parsed(b).own : Parsed(b).own[k] = b.own[k]
           /\ Unread(b) = {} => Parsed(b) = b
<1> DEFINE own == [k \in DOMAIN b.own \ Unread(b) |-> b.own[k]]
<1>1. b.own \in [DOMAIN b.own -> Values]
      BY DEF BlockOK
<1>2. Unread(b) = {} => own = b.own
      BY <1>1
<1>3. Parsed(b) = [b EXCEPT !.own = own]
      BY DEF Parsed
<1> HIDE DEF own
<1>4. /\ Parsed(b).name = b.name /\ Parsed(b).app = b.app /\ Parsed(b).url = b.url
      /\ Parsed(b).login = b.login /\ Parsed(b).own = own
      /\ own = b.own => Parsed(b) = b
      BY <1>3 DEF BlockOK
<1> QED
    BY <1>2, <1>4 DEF own

LEMMA KeyFacts ==
    ASSUME NEW k \in Settings
    PROVE  k \in {"SCRAPE_TIMEOUT", "SERIES_CONCURRENCY",
                  "PROWLARR__BACKFILL_SINCE_DATE", "BAZARR__SERIES_BATCH_SIZE"} /\ k # "login"
BY DEF Settings

LEMMA AllowedApplies ==
    ASSUME NEW k \in Settings, NEW app
    PROVE  AllowedFor(k, app) <=> Applies(k, app)
BY KeyFacts DEF AllowedFor, Applies

LEMMA LoginAllowed == \A app : AllowedFor("login", app) <=> app # "sabnzbd"
BY DEF AllowedFor

-----------------------------------------------------------------------------
(* What the environment decides, and what is reported *)

LEMMA SoundMeans ==
    ASSUME EnvironmentOK(env), Sound
    PROVE  /\ ConfigValid /\ env.parses /\ ~env.single /\ ~env.malformed
           /\ env.cap # Unparsable /\ 0 \in Listed
           /\ Listed = DOMAIN env.blocks
           /\ ~TooSmall(env.cap, Cardinality(Listed))
           /\ \A i \in Listed : WellFormed(env.blocks[i]) /\ Accepted(env.blocks[i])
           /\ \A i, j \in Listed : i # j => ~Clash(i, j)
<1>1. Listed = DOMAIN env.blocks
      BY DEF Sound, Consistent, Listed
<1>2. env.cap \in Int /\ Cardinality(DOMAIN env.blocks) \in Nat
      BY FS_CardinalityType DEF Sound, Consistent, EnvironmentOK, Values
<1>3. ~TooSmall(env.cap, Cardinality(Listed))
      BY <1>1, <1>2 DEF Sound, Consistent, TooSmall
<1> QED
    BY <1>1, <1>3 DEF Sound, Consistent, ConfigValid

LEMMA NamedBy ==
    ASSUME NEW i, NEW what, <<i, what>> \in errs
    PROVE  Named(i)
<1>1. <<i, what>>[2] = what
      OBVIOUS
<1> QED
    BY <1>1 DEF Named

LEMMA NamedByNext ==
    ASSUME NEW i, NEW what, <<i, what>> \in errs'
    PROVE  Named(i)'
<1>1. <<i, what>>[2] = what
      OBVIOUS
<1> QED
    BY <1>1 DEF Named

LEMMA StaysNamed ==
    ASSUME errs \subseteq errs'
    PROVE  \A i : Named(i) => Named(i)'
BY DEF Named

\* Nothing that an environment decides changes while it is kept.
LEMMA SameEnvironment ==
    ASSUME env' = env
    PROVE  /\ Listed' = Listed /\ ConfigValid' = ConfigValid
           /\ EnvironmentOK(env)' = EnvironmentOK(env)
           /\ Consistent' = Consistent /\ Sound' = Sound
           /\ \A i, j : Clash(i, j)' = Clash(i, j)
           /\ \A b : Accepted(b)' = Accepted(b)
           /\ \A b, k : Effective(b, k)' = Effective(b, k)
<1>1. /\ Listed' = Listed /\ ConfigValid' = ConfigValid
      /\ EnvironmentOK(env)' = EnvironmentOK(env)
      BY DEF Listed, ConfigValid, EnvironmentOK
<1>2. \A i, j : Clash(i, j)' = Clash(i, j)
      BY DEF Clash
<1>3. \A b, k : Effective(b, k)' = Effective(b, k)
      BY DEF Effective
<1>4. \A b : Accepted(b)' = Accepted(b)
      BY <1>3 DEF Accepted
<1>5. Consistent' = Consistent
      BY <1>2 DEF Consistent
<1> QED
    BY <1>1, <1>2, <1>3, <1>4, <1>5 DEF Sound

LEMMA BlockFacts ==
    ASSUME EnvironmentOK(env), NEW i \in Listed
    PROVE  /\ i \in DOMAIN env.blocks /\ i \in Nat /\ BlockOK(env.blocks[i])
BY ListedFacts DEF EnvironmentOK

\* Problems and WellFormed: what validate finds wrong with a block is wrong
\* with it, or was seen before; and it misses nothing but what was reported.
LEMMA ProblemsMean ==
    ASSUME NEW b, BlockOK(b)
    PROVE  Problems(Parsed(b)) = {} <=>
              /\ b.name \in Names /\ b.name \notin names
              /\ b.app \in Apps /\ b.url.given /\ b.url.key \notin urls
              /\ \A k \in DOMAIN b.own \ Unread(b) : Applies(k, b.app)
              /\ b.login # "none" => b.app # "sabnzbd"
              /\ "SCRAPE_TIMEOUT" \in DOMAIN b.own \ Unread(b) => b.own["SCRAPE_TIMEOUT"] > 0
<1> DEFINE t == Parsed(b)
           Fits == \A g \in GivenKeys(t) : AllowedFor(g, t.app)
           Late == "SCRAPE_TIMEOUT" \in DOMAIN t.own /\ t.own["SCRAPE_TIMEOUT"] <= 0
<1>1. Problems(t) = {} <=>
         /\ t.name \in Names /\ t.name \notin names
         /\ t.app \in Apps /\ t.url.given /\ t.url.key \notin urls
         /\ Fits /\ ~Late
      BY DEF Problems
<1>2. /\ t.name = b.name /\ t.app = b.app /\ t.url = b.url /\ t.login = b.login
      /\ DOMAIN t.own = DOMAIN b.own \ Unread(b)
      /\ \A k \in DOMAIN t.own : t.own[k] = b.own[k]
      BY ParsedFacts
<1>3. DOMAIN t.own \subseteq Settings /\ \A k \in DOMAIN t.own : t.own[k] \in Int
  <2>1. DOMAIN b.own \subseteq Settings /\ b.own \in [DOMAIN b.own -> Values]
        BY DEF BlockOK
  <2>2. \A k \in DOMAIN b.own \ Unread(b) : b.own[k] \in Int
        BY <2>1 DEF Unread, Values
  <2> QED
      BY <1>2, <2>1, <2>2
<1> HIDE DEF t
<1>4. Fits <=> /\ \A k \in DOMAIN t.own : Applies(k, t.app)
               /\ t.login # "none" => t.app # "sabnzbd"
  <2>1. Fits <=> /\ \A k \in DOMAIN t.own : AllowedFor(k, t.app)
                 /\ t.login # "none" => AllowedFor("login", t.app)
        BY DEF GivenKeys
  <2> QED
      BY <2>1, <1>3, AllowedApplies, LoginAllowed
<1>5. Late <=> ~("SCRAPE_TIMEOUT" \in DOMAIN t.own => t.own["SCRAPE_TIMEOUT"] > 0)
      BY <1>3
<1> HIDE DEF Fits, Late
<1>6. Problems(t) = {} <=>
         /\ t.name \in Names /\ t.name \notin names
         /\ t.app \in Apps /\ t.url.given /\ t.url.key \notin urls
         /\ \A k \in DOMAIN t.own : Applies(k, t.app)
         /\ t.login # "none" => t.app # "sabnzbd"
         /\ "SCRAPE_TIMEOUT" \in DOMAIN t.own => t.own["SCRAPE_TIMEOUT"] > 0
      BY <1>1, <1>4, <1>5
<1> QED
    BY <1>6, <1>2 DEF t

-----------------------------------------------------------------------------
(* Every step keeps the invariant *)

LEMMA InitInv ==
    ASSUME StartupAssumption, Init
    PROVE  Inv
<1>1. EnvironmentOK(env)
      BY DEF Init, StartupAssumption
<1>2. phase = "start" /\ at = 0 /\ errs = {} /\ names = {} /\ urls = {} /\ DOMAIN built = {}
      BY DEF Init, Nothing
<1>3. Placed
      BY <1>2 DEF Placed, Phases
<1>4. AreParsed = {} /\ AreValidated = {} /\ AreBuilt = {} /\ ~Scanned
      BY <1>2 DEF AreParsed, AreValidated, AreBuilt, Scanned
<1>5. Kept
      BY <1>1, <1>2, <1>4 DEF Kept, Init
<1>6. Seen
      BY <1>2, <1>4 DEF Seen
<1>7. Blamed
      BY <1>4 DEF Blamed
<1>8. Checked /\ Rejections /\ Justified
      BY <1>2, <1>4 DEF Checked, Rejections, Justified
<1>9. FailsClosed /\ NamesEveryCulprit /\ RunsAsWritten
      BY <1>2 DEF FailsClosed, NamesEveryCulprit, RunsAsWritten
<1> QED
    BY <1>3, <1>5, <1>6, <1>7, <1>8, <1>9 DEF Inv

LEMMA PreRunStep ==
    ASSUME Inv, PreRun
    PROVE  Inv'
<1>0. Placed /\ Kept /\ Seen /\ Blamed /\ Checked /\ Rejections /\ Justified /\ RunsAsWritten
      BY DEF Inv
<1>1. /\ phase = "start" /\ at = 0 /\ errs = {}
      /\ UNCHANGED <<env, at, target, names, urls, exposed, built>>
      BY <1>0 DEF PreRun, Placed, Checked
<1>2. \/ phase' = "process" /\ errs' = errs /\ ConfigValid
      \/ phase' = "refused" /\ errs' = {<<Process, "config">>} /\ ~ConfigValid
      BY DEF PreRun
<1>3. AreParsed' = {} /\ AreValidated' = {} /\ AreBuilt' = {} /\ ~Scanned'
      BY <1>2 DEF AreParsed, AreValidated, AreBuilt, Scanned
<1>4. AreParsed = {} /\ AreValidated = {}
      BY <1>1 DEF AreParsed, AreValidated
<1>s. /\ EnvironmentOK(env)' = EnvironmentOK(env) /\ Listed' = Listed /\ Sound' = Sound
      /\ ConfigValid' = ConfigValid
      /\ \A b, k : Effective(b, k)' = Effective(b, k)
      BY <1>1, SameEnvironment
<1>5. Placed'
      BY <1>1, <1>2 DEF Placed, Phases
<1>6. Kept'
      BY <1>0, <1>1, <1>3, <1>s DEF Kept
<1>7. Seen'
  <2>1. names = {} /\ urls = {}
        BY <1>0, <1>1, <1>4 DEF Seen
  <2> QED
      BY <2>1, <1>1, <1>3 DEF Seen
<1>8. Blamed'
      BY <1>3 DEF Blamed
<1>9. Checked'
      BY <1>1, <1>2, <1>3, <1>s DEF Checked
<1>10. Rejections'
      BY <1>1, <1>2 DEF Rejections
<1>11. Justified'
  <2>1. ~ConfigValid => ~Sound
        BY DEF Sound, Consistent, ConfigValid
  <2> QED
      BY <2>1, <1>1, <1>2, <1>s DEF Justified
<1>12. FailsClosed'
      BY <1>11, <1>2 DEF FailsClosed, Justified
<1>13. NamesEveryCulprit'
      BY <1>2 DEF NamesEveryCulprit
<1>14. RunsAsWritten'
      BY <1>0, <1>1, <1>s DEF RunsAsWritten
<1> QED
    BY <1>5, <1>6, <1>7, <1>8, <1>9, <1>10, <1>11, <1>12, <1>13, <1>14 DEF Inv

LEMMA CheckProcessConfigStep ==
    ASSUME Inv, CheckProcessConfig
    PROVE  Inv'
<1>0. Placed /\ Kept /\ Seen /\ Checked /\ RunsAsWritten
      BY DEF Inv
<1>1. /\ phase = "process" /\ phase' = "scan" /\ at = 0 /\ errs = {} /\ ConfigValid
      /\ UNCHANGED <<env, at, target, names, urls, exposed, built>>
      BY <1>0 DEF CheckProcessConfig, Placed, Checked
<1>2. \/ errs' = {} /\ env.parses /\ ~env.single
      \/ errs' = {<<Process, "defaults">>} /\ ~env.parses
      \/ errs' = {<<Process, "single">>} /\ env.single
      BY DEF CheckProcessConfig
<1>3. AreParsed' = {} /\ AreValidated' = {} /\ AreBuilt' = {} /\ ~Scanned'
      BY <1>1 DEF AreParsed, AreValidated, AreBuilt, Scanned
<1>4. AreParsed = {} /\ AreValidated = {}
      BY <1>1 DEF AreParsed, AreValidated
<1>s. /\ EnvironmentOK(env)' = EnvironmentOK(env) /\ Listed' = Listed /\ Sound' = Sound
      /\ ConfigValid' = ConfigValid
      /\ \A b, k : Effective(b, k)' = Effective(b, k)
      BY <1>1, SameEnvironment
<1>5. Placed'
      BY <1>1 DEF Placed, Phases
<1>6. Kept'
      BY <1>0, <1>1, <1>3, <1>s DEF Kept
<1>7. Seen'
  <2>1. names = {} /\ urls = {}
        BY <1>0, <1>1, <1>4 DEF Seen
  <2> QED
      BY <2>1, <1>1, <1>3 DEF Seen
<1>8. Blamed'
      BY <1>3 DEF Blamed
<1>9. Checked'
      BY <1>1, <1>2, <1>3, <1>s DEF Checked
<1>10. Rejections'
      BY <1>1, <1>2 DEF Rejections
<1>11. Justified'
  <2>1. ~env.parses \/ env.single => ~Sound
        BY DEF Sound, Consistent
  <2> QED
      BY <2>1, <1>1, <1>2, <1>s DEF Justified
<1>12. FailsClosed'
      BY <1>1 DEF FailsClosed
<1>13. NamesEveryCulprit'
      BY <1>1 DEF NamesEveryCulprit
<1>14. RunsAsWritten'
      BY <1>0, <1>1, <1>s DEF RunsAsWritten
<1> QED
    BY <1>5, <1>6, <1>7, <1>8, <1>9, <1>10, <1>11, <1>12, <1>13, <1>14 DEF Inv

LEMMA ScanStep ==
    ASSUME Inv, Scan
    PROVE  Inv'
<1>0. Placed /\ Kept /\ Seen /\ Checked /\ Rejections /\ Justified /\ RunsAsWritten
      BY DEF Inv
<1>1. /\ phase = "scan" /\ at = 0 /\ ConfigValid
      /\ UNCHANGED <<env, at, target, names, urls, exposed, built>>
      BY <1>0 DEF Scan, Placed, Checked
<1> DEFINE Caps == {e \in {<<Process, "cap">>} : env.cap = Unparsable}
           Bad == {e \in {<<Process, "malformed">>} : env.malformed}
           Gaps == {<<i, "gap">> : i \in DOMAIN env.blocks \ Listed}
           Strange == {<<i, "unknown key">> :
                         i \in {j \in DOMAIN env.blocks : env.blocks[j].unknownKey}}
<1>2. errs' = errs \cup Caps \cup Bad \cup Gaps \cup Strange
      BY DEF Scan
<1>3. phase' = IF 0 \in Listed THEN "parse" ELSE "validate"
      BY DEF Scan
<1>e. EnvironmentOK(env)
      BY <1>0 DEF Kept
<1>s. /\ EnvironmentOK(env)' = EnvironmentOK(env) /\ Listed' = Listed /\ Sound' = Sound
      /\ ConfigValid' = ConfigValid
      /\ \A b, k : Effective(b, k)' = Effective(b, k)
      BY <1>1, SameEnvironment
<1>4. AreParsed' = {} /\ AreValidated' = {} /\ AreBuilt' = {}
  <2>1. \A i \in Listed : i \in Nat
        BY <1>e, ListedFacts
  <2>2. Listed = {} \/ 0 \in Listed
        BY <1>e, ListedFacts
  <2>3. {i \in Listed : i < 0} = {}
        BY <2>1
  <2> QED
      BY <1>1, <1>3, <1>s, <2>2, <2>3 DEF AreParsed, AreValidated, AreBuilt
<1>5. Placed'
      BY <1>1, <1>3, <1>s, <1>e, ListedFacts DEF Placed, Phases
<1>6. Kept'
      BY <1>0, <1>1, <1>4, <1>s DEF Kept
<1>7. Seen'
  <2>1. names = {} /\ urls = {}
        BY <1>0, <1>1 DEF Seen, AreValidated
  <2> QED
      BY <2>1, <1>1, <1>4 DEF Seen
<1>8. Blamed'
  <2>1. ASSUME NEW i \in DOMAIN env.blocks, i \notin Listed \/ env.blocks[i].unknownKey
        PROVE  Named(i)'
    <3>1. <<i, "gap">> \in errs' \/ <<i, "unknown key">> \in errs'
          BY <1>2, <2>1
    <3> QED
        BY <3>1, NamedByNext
  <2> QED
      BY <2>1, <1>1, <1>4, <1>s DEF Blamed
<1>9. Checked'
  <2>1. errs' = {} => errs = {} /\ env.cap # Unparsable /\ ~env.malformed
        BY <1>2
  <2> QED
      BY <2>1, <1>0, <1>1, <1>3, <1>s DEF Checked
<1>10. Rejections'
  <2>1. \A e \in Caps \cup Bad \cup Gaps \cup Strange : e[2] # "rejected"
    <3>1. \A e \in Caps \cup Bad : e[2] # "rejected"
          OBVIOUS
    <3>2. \A e \in Gaps : e[2] # "rejected"
          OBVIOUS
    <3>3. ASSUME NEW e \in Strange PROVE e[2] # "rejected"
      <4>1. PICK i \in DOMAIN env.blocks : e = <<i, "unknown key">>
            OBVIOUS
      <4> QED
          BY <4>1
    <3> HIDE DEF Caps, Bad, Gaps, Strange
    <3> QED
        BY <3>1, <3>2, <3>3
  <2>2. \A e \in errs : e[2] # "rejected"
        BY <1>0, <1>1 DEF Rejections
  <2> QED
      BY <2>1, <2>2, <1>2, <1>3 DEF Rejections
<1>11. Justified'
  <2>1. SUFFICES ASSUME Sound PROVE errs' = {}
        BY <1>s DEF Justified
  <2>2. errs = {}
        BY <1>0, <2>1 DEF Justified
  <2>3. Caps = {} /\ Bad = {} /\ Gaps = {}
        BY <1>e, <2>1, SoundMeans
  <2>4. Strange = {}
        BY <1>e, <2>1, SoundMeans DEF WellFormed
  <2> QED
      BY <1>2, <2>2, <2>3, <2>4
<1>12. FailsClosed'
  <2>1. Listed = {} \/ 0 \in Listed
        BY <1>e, ListedFacts
  <2> QED
      BY <2>1, <1>3, <1>s DEF FailsClosed
<1>13. NamesEveryCulprit'
      BY <1>3 DEF NamesEveryCulprit
<1>14. RunsAsWritten'
      BY <1>0, <1>1, <1>s DEF RunsAsWritten
<1> QED
    BY <1>5, <1>6, <1>7, <1>8, <1>9, <1>10, <1>11, <1>12, <1>13, <1>14 DEF Inv

\* The blocks that a loop is through with after its step.
LEMMA AdvanceFacts ==
    ASSUME EnvironmentOK(env), at \in Listed, NEW next, Advance(next)
    PROVE  \/ /\ at + 1 \in Listed /\ at' = at + 1 /\ phase' = phase
              /\ {i \in Listed : i < at'} = {i \in Listed : i < at} \cup {at}
           \/ /\ at' = 0 /\ phase' = next
              /\ Listed = {i \in Listed : i < at} \cup {at}
<1>1. Listed \subseteq Nat
      BY ListedFacts
<1>2. CASE at + 1 \in Listed
  <2>1. at' = at + 1 /\ phase' = phase
        BY <1>2 DEF Advance
  <2>2. \A i \in Listed : i < at + 1 <=> i < at \/ i = at
        BY <1>1
  <2> QED
      BY <1>2, <2>1, <2>2
<1>3. CASE at + 1 \notin Listed
  <2>1. at' = 0 /\ phase' = next
        BY <1>3 DEF Advance
  <2>2. \A i \in Listed : i < at + 1
        BY <1>3, ListedFacts
  <2>3. \A i \in Listed : i < at \/ i = at
        BY <1>1, <2>2
  <2> QED
      BY <2>1, <2>3
<1> QED
    BY <1>2, <1>3

LEMMA ParseTargetStep ==
    ASSUME Inv, ParseTarget
    PROVE  Inv'
<1>0. Placed /\ Kept /\ Seen /\ Blamed /\ Checked /\ Rejections /\ Justified /\ RunsAsWritten
      BY DEF Inv
<1> DEFINE b == env.blocks[at]
           New == {<<at, k>> : k \in Unread(b)}
<1>1. /\ phase = "parse" /\ at \in Listed /\ ConfigValid
      /\ target' = [i \in 0..at |-> IF i = at THEN Parsed(b) ELSE target[i]]
      /\ errs' = errs \cup New /\ exposed' = exposed \ {at}
      /\ Advance("validate")
      /\ UNCHANGED <<env, names, urls, built>>
      BY <1>0 DEF ParseTarget, Placed, Checked, Scanned
<1>e. EnvironmentOK(env)
      BY <1>0 DEF Kept
<1>s. /\ EnvironmentOK(env)' = EnvironmentOK(env) /\ Listed' = Listed /\ Sound' = Sound
      /\ ConfigValid' = ConfigValid
      /\ \A c, k : Effective(c, k)' = Effective(c, k)
      BY <1>1, SameEnvironment
<1>b. at \in DOMAIN env.blocks /\ at \in Nat /\ BlockOK(b)
      BY <1>1, <1>e, BlockFacts
<1>2. phase' \in {"parse", "validate"}
      BY <1>1, <1>e, AdvanceFacts
<1>3. AreParsed' = AreParsed \cup {at} /\ AreParsed = {i \in Listed : i < at}
      BY <1>1, <1>e, <1>s, AdvanceFacts DEF AreParsed
<1>4. AreValidated' = {} /\ AreBuilt' = {} /\ AreValidated = {}
  <2>1. {i \in Listed : i < 0} = {}
        BY <1>e, ListedFacts
  <2>2. phase' = "parse" \/ (phase' = "validate" /\ at' = 0)
        BY <1>1, <1>e, AdvanceFacts
  <2> QED
      BY <1>1, <2>1, <2>2, <1>s DEF AreValidated, AreBuilt
<1>5. Placed'
  <2>1. \/ phase' = "parse" /\ at' \in Listed
        \/ phase' = "validate" /\ at' = 0 /\ 0 \in Listed
        BY <1>1, <1>e, AdvanceFacts, ListedFacts
  <2>2. Listed \subseteq Nat
        BY <1>e, ListedFacts
  <2> QED
      BY <2>1, <2>2, <1>s DEF Placed, Phases
<1>6. Kept'
  <2>1. exposed' \subseteq DOMAIN env'.blocks /\ DOMAIN built' \subseteq Listed'
        BY <1>0, <1>1, <1>s DEF Kept
  <2>2. ASSUME NEW i \in AreParsed' PROVE target'[i] = Parsed(env.blocks[i]) /\ i \notin exposed'
    <3>1. CASE i = at
          BY <3>1, <1>1, <1>b
    <3>2. CASE i # at
      <4>1. i \in AreParsed /\ i \in Listed /\ i < at
            BY <3>2, <2>2, <1>3
      <4>2. i \in 0..at
            BY <4>1, <1>b, <1>e, ListedFacts
      <4>3. target[i] = Parsed(env.blocks[i]) /\ i \notin exposed
            BY <4>1, <1>0 DEF Kept
      <4> QED
          BY <3>2, <4>2, <4>3, <1>1
    <3> QED
        BY <3>1, <3>2
  <2> QED
      BY <2>1, <2>2, <1>e, <1>s, <1>1 DEF Kept
<1>7. Seen'
  <2>1. names = {} /\ urls = {}
        BY <1>0, <1>1, <1>4 DEF Seen
  <2> QED
      BY <2>1, <1>1, <1>4 DEF Seen
<1>8. Blamed'
  <2>1. \A i : Named(i) => Named(i)'
        BY <1>1, StaysNamed
  <2>2. ASSUME NEW i \in DOMAIN env.blocks, i \notin Listed \/ env.blocks[i].unknownKey
        PROVE  Named(i)'
        BY <2>1, <2>2, <1>0, <1>1 DEF Blamed, Scanned
  <2>3. ASSUME NEW i \in AreParsed', Unread(env.blocks[i]) # {} PROVE Named(i)'
    <3>1. CASE i = at
      <4>1. PICK k \in Unread(b) : TRUE
            BY <2>3, <3>1
      <4>2. <<i, k>> \in errs'
            BY <4>1, <3>1, <1>1
      <4> QED
          BY <4>2, NamedByNext
    <3>2. CASE i \in AreParsed
          BY <3>2, <2>1, <2>3, <1>0 DEF Blamed
    <3> QED
        BY <3>1, <3>2, <1>3
  <2> QED
      BY <2>2, <2>3, <1>1, <1>4, <1>s DEF Blamed
<1>9. Checked'
      BY <1>0, <1>1, <1>2, <1>s DEF Checked, Scanned
<1>10. Rejections'
  <2>1. \A k \in Unread(b) : k # "rejected"
        BY <1>b DEF Unread, BlockOK, Settings
  <2>2. \A e \in New : e[2] # "rejected"
        BY <2>1
  <2>3. \A e \in errs : e[2] # "rejected"
        BY <1>0, <1>1 DEF Rejections
  <2> QED
      BY <2>2, <2>3, <1>1, <1>2 DEF Rejections
<1>11. Justified'
  <2>1. SUFFICES ASSUME Sound PROVE errs' = {}
        BY <1>s DEF Justified
  <2>2. errs = {}
        BY <1>0, <2>1 DEF Justified
  <2>3. Unread(b) = {}
        BY <1>e, <1>1, <2>1, SoundMeans DEF WellFormed, Unread
  <2> QED
      BY <1>1, <2>2, <2>3
<1>12. FailsClosed'
  <2>1. phase' = "validate" => AreParsed' = Listed
        BY <1>s DEF AreParsed
  <2>2. \A i \in AreParsed' : i \notin exposed'
        BY <1>6 DEF Kept
  <2> QED
      BY <2>1, <2>2, <1>2, <1>s DEF FailsClosed
<1>13. NamesEveryCulprit'
      BY <1>2 DEF NamesEveryCulprit
<1>14. RunsAsWritten'
      BY <1>0, <1>1, <1>s DEF RunsAsWritten
<1> QED
    BY <1>5, <1>6, <1>7, <1>8, <1>9, <1>10, <1>11, <1>12, <1>13, <1>14 DEF Inv

LEMMA ValidateTargetStep ==
    ASSUME Inv, ValidateTarget
    PROVE  Inv'
<1>0. Placed /\ Kept /\ Seen /\ Blamed /\ Checked /\ Rejections /\ Justified /\ FailsClosed
      /\ RunsAsWritten
      BY DEF Inv
<1> DEFINE b == env.blocks[at]
           New == {<<at, p>> : p \in Problems(target[at])}
<1>1. /\ phase = "validate" /\ at \in Listed /\ ConfigValid
      /\ errs' = errs \cup New
      /\ names' = names \cup ({target[at].name} \cap Names)
      /\ urls' = urls \cup ({target[at].url.key} \cap Hosts)
      /\ Advance("decide")
      /\ UNCHANGED <<env, target, exposed, built>>
      BY <1>0 DEF ValidateTarget, Checked, Scanned
<1>e. EnvironmentOK(env)
      BY <1>0 DEF Kept
<1>s. /\ EnvironmentOK(env)' = EnvironmentOK(env) /\ Listed' = Listed /\ Sound' = Sound
      /\ ConfigValid' = ConfigValid
      /\ \A i, j : Clash(i, j)' = Clash(i, j)
      /\ \A c, k : Effective(c, k)' = Effective(c, k)
      BY <1>1, SameEnvironment
<1>b. at \in DOMAIN env.blocks /\ at \in Nat /\ BlockOK(b)
      BY <1>1, <1>e, BlockFacts
<1>2. phase' \in {"validate", "decide"}
      BY <1>1, <1>e, AdvanceFacts
<1>3. /\ AreParsed = Listed /\ AreParsed' = Listed /\ AreBuilt' = {}
      /\ AreValidated = {i \in Listed : i < at} /\ AreValidated' = AreValidated \cup {at}
  <2>1. AreParsed = Listed /\ AreParsed' = Listed /\ AreBuilt' = {}
        BY <1>1, <1>2, <1>s DEF AreParsed, AreBuilt
  <2>2. AreValidated = {i \in Listed : i < at} /\ AreValidated' = AreValidated \cup {at}
        BY <1>1, <1>e, <1>s, AdvanceFacts DEF AreValidated
  <2> QED
      BY <2>1, <2>2
<1>t. target[at] = Parsed(b) /\ target[at].name = b.name /\ target[at].url = b.url
      BY <1>0, <1>1, <1>3, <1>b, ParsedFacts DEF Kept
<1>n. /\ names = {env.blocks[j].name : j \in AreValidated} \cap Names
      /\ urls = {env.blocks[j].url.key : j \in AreValidated} \cap Hosts
      BY <1>0, <1>1 DEF Seen
<1>5. Placed'
  <2>1. \/ phase' = "validate" /\ at' \in Listed
        \/ phase' = "decide" /\ at' = 0
        BY <1>1, <1>e, AdvanceFacts
  <2>2. at' = at + 1 \/ at' = 0
        BY <1>1, <1>e, AdvanceFacts
  <2>3. at' \in Nat
        BY <2>2, <1>b
  <2> QED
      BY <2>1, <2>3, <1>2, <1>s DEF Placed, Phases
<1>6. Kept'
      BY <1>0, <1>1, <1>3, <1>s DEF Kept
<1>7. Seen'
  <2>1. names' = {env.blocks[j].name : j \in AreValidated'} \cap Names
        BY <1>1, <1>n, <1>t, <1>3
  <2>2. urls' = {env.blocks[j].url.key : j \in AreValidated'} \cap Hosts
        BY <1>1, <1>n, <1>t, <1>3
  <2>3. names' \subseteq Names /\ urls' \subseteq Hosts
        BY <2>1, <2>2
  <2> QED
      BY <2>1, <2>2, <2>3, <1>1 DEF Seen
<1>8. Blamed'
  <2>1. \A i : Named(i) => Named(i)'
        BY <1>1, StaysNamed
  <2>2. ASSUME NEW i \in DOMAIN env.blocks, i \notin Listed \/ env.blocks[i].unknownKey
        PROVE  Named(i)
        BY <2>2, <1>0, <1>1 DEF Blamed, Scanned
  <2>3. ASSUME NEW i \in Listed, Unread(env.blocks[i]) # {} PROVE Named(i)
        BY <2>3, <1>0, <1>3 DEF Blamed
  <2>4. ASSUME NEW i, i = at, Problems(target[at]) # {} PROVE Named(i)'
    <3>1. PICK p \in Problems(target[at]) : TRUE
          BY <2>4
    <3>2. <<i, p>> \in errs'
          BY <1>1, <2>4, <3>1
    <3> QED
        BY <3>2, NamedByNext
  <2>5. ASSUME NEW i \in AreValidated', ~WellFormed(env.blocks[i]) PROVE Named(i)'
    <3>1. CASE i \in AreValidated
          BY <3>1, <2>1, <2>5, <1>0 DEF Blamed
    <3>2. CASE i = at
      <4>1. CASE b.unknownKey \/ Unread(b) # {}
            BY <4>1, <3>2, <2>1, <2>2, <2>3, <1>1, <1>b
      <4>2. CASE ~b.unknownKey /\ Unread(b) = {}
        <5>1. SUFFICES ASSUME Problems(target[at]) = {} PROVE FALSE
              BY <2>4, <3>2
        <5>2. /\ b.name \in Names /\ b.app \in Apps /\ b.url.given
              /\ \A k \in DOMAIN b.own : Applies(k, b.app)
              /\ b.login # "none" => b.app # "sabnzbd"
              /\ "SCRAPE_TIMEOUT" \in DOMAIN b.own => b.own["SCRAPE_TIMEOUT"] > 0
              BY <5>1, <4>2, <1>b, <1>t, ProblemsMean
        <5>3. \A k \in DOMAIN b.own : b.own[k] # Unparsable
              BY <4>2 DEF Unread
        <5>4. WellFormed(b)
              BY <5>2, <5>3, <4>2 DEF WellFormed
        <5> QED
            BY <5>4, <3>2, <2>5
      <4> QED
          BY <4>1, <4>2
    <3> QED
        BY <3>1, <3>2, <1>3
  <2>6. ASSUME NEW i \in AreValidated', NEW j \in Listed, j < i, Clash(j, i) PROVE Named(i)'
    <3>1. CASE i \in AreValidated
          BY <3>1, <2>1, <2>6, <1>0 DEF Blamed
    <3>2. CASE i = at
      <4>1. j \in AreValidated
            BY <3>2, <2>6, <1>3
      <4>2. \/ env.blocks[j].name = b.name
            \/ env.blocks[j].url.key = b.url.key /\ b.url.key # NoKey
            BY <3>2, <2>6 DEF Clash
      <4>3. b.url.key \in Hosts \cup {NoKey}
            BY <1>b DEF BlockOK, Urls
      <4>4. b.name \notin Names \/ b.name \in names \/ b.url.key \in urls
            BY <4>1, <4>2, <4>3, <1>n
      <4> QED
          BY <4>4, <3>2, <2>4, <1>b, <1>t, ProblemsMean
    <3> QED
        BY <3>1, <3>2, <1>3
  <2>7. \A i \in DOMAIN env.blocks : i \notin Listed \/ env.blocks[i].unknownKey => Named(i)'
        BY <2>1, <2>2
  <2>8. \A i \in Listed : Unread(env.blocks[i]) # {} => Named(i)'
        BY <2>1, <2>3
  <2> HIDE DEF b, New
  <2> QED
      BY <2>5, <2>6, <2>7, <2>8, <1>1, <1>3, <1>s DEF Blamed
<1>9. Checked'
  <2>1. phase' = "decide" => 0 \in Listed
        BY <1>1, <1>e, ListedFacts
  <2>2. errs' = {} => errs = {}
        BY <1>1
  <2> HIDE DEF b, New
  <2> QED
      BY <2>1, <2>2, <1>0, <1>1, <1>2, <1>s DEF Checked, Scanned
<1>10. Rejections'
  <2>1. \A p \in Problems(target[at]) : p # "rejected"
        BY DEF Problems
  <2>2. \A e \in New : e[2] # "rejected"
        BY <2>1
  <2>3. \A e \in errs : e[2] # "rejected"
        BY <1>0, <1>1 DEF Rejections
  <2> QED
      BY <2>2, <2>3, <1>1, <1>2 DEF Rejections
<1>11. Justified'
  <2>1. SUFFICES ASSUME Sound PROVE errs' = {}
        BY <1>s DEF Justified
  <2>2. errs = {}
        BY <1>0, <2>1 DEF Justified
  <2>3. /\ \A i \in Listed : WellFormed(env.blocks[i])
        /\ \A i, j \in Listed : i # j => ~Clash(i, j)
        BY <1>e, <2>1, SoundMeans
  <2>4. b.name \notin names /\ b.url.key \notin urls
    <3>1. SUFFICES ASSUME b.name \in names \/ b.url.key \in urls PROVE FALSE
          OBVIOUS
    <3>2. \E j \in AreValidated :
             \/ env.blocks[j].name = b.name
             \/ env.blocks[j].url.key = b.url.key /\ b.url.key \in Hosts
      <4>1. CASE b.name \in names
            BY <4>1, <1>n
      <4>2. CASE b.url.key \in urls
            BY <4>2, <1>n
      <4> QED
          BY <3>1, <4>1, <4>2
    <3> PICK j \in AreValidated : \/ env.blocks[j].name = b.name
                                  \/ env.blocks[j].url.key = b.url.key /\ b.url.key \in Hosts
        BY <3>2
    <3>3. j \in Listed /\ j # at
          BY <1>3, <1>b
    <3>4. NoKey \notin Hosts
          BY StartupAssumption
    <3>5. Clash(j, at)
          BY <3>4 DEF Clash
    <3> QED
        BY <3>3, <3>5, <2>3, <1>1
  <2>5. /\ b.name \in Names /\ b.app \in Apps /\ b.url.given
        /\ \A k \in DOMAIN b.own : Applies(k, b.app)
        /\ b.login # "none" => b.app # "sabnzbd"
        /\ "SCRAPE_TIMEOUT" \in DOMAIN b.own => b.own["SCRAPE_TIMEOUT"] > 0
        BY <2>3, <1>1 DEF WellFormed
  <2>6. Problems(target[at]) = {}
        BY <2>4, <2>5, <1>b, <1>t, ProblemsMean
  <2> QED
      BY <2>2, <2>6, <1>1
<1>12. FailsClosed'
      BY <1>0, <1>1, <1>2, <1>s DEF FailsClosed
<1>13. NamesEveryCulprit'
      BY <1>2 DEF NamesEveryCulprit
<1>14. RunsAsWritten'
      BY <1>0, <1>1, <1>s DEF RunsAsWritten
<1> QED
    BY <1>5, <1>6, <1>7, <1>8, <1>9, <1>10, <1>11, <1>12, <1>13, <1>14 DEF Inv

LEMMA NoTargetsStep ==
    ASSUME Inv, NoTargets
    PROVE  Inv'
<1>0. Placed /\ Kept /\ Seen /\ Blamed /\ Checked /\ Rejections /\ Justified /\ FailsClosed
      /\ RunsAsWritten
      BY DEF Inv
<1>1. /\ phase = "validate" /\ phase' = "decide" /\ Listed = {} /\ at = 0 /\ ConfigValid
      /\ errs' = errs \cup {<<Process, "no targets">>}
      /\ UNCHANGED <<env, at, target, names, urls, exposed, built>>
      BY <1>0 DEF NoTargets, Placed, Checked, Scanned
<1>e. EnvironmentOK(env)
      BY <1>0 DEF Kept
<1>s. /\ EnvironmentOK(env)' = EnvironmentOK(env) /\ Listed' = Listed /\ Sound' = Sound
      /\ ConfigValid' = ConfigValid
      /\ \A c, k : Effective(c, k)' = Effective(c, k)
      BY <1>1, SameEnvironment
<1>3. AreParsed' = {} /\ AreValidated' = {} /\ AreBuilt' = {}
      BY <1>1, <1>s DEF AreParsed, AreValidated, AreBuilt
<1>5. Placed'
      BY <1>1 DEF Placed, Phases
<1>6. Kept'
      BY <1>0, <1>1, <1>3, <1>s DEF Kept
<1>7. Seen'
      BY <1>0, <1>1 DEF Seen
<1>8. Blamed'
  <2>1. \A i : Named(i) => Named(i)'
        BY <1>1, StaysNamed
  <2>2. \A i \in DOMAIN env.blocks : i \notin Listed \/ env.blocks[i].unknownKey => Named(i)'
        BY <2>1, <1>0, <1>1 DEF Blamed, Scanned
  <2> QED
      BY <2>2, <1>1, <1>3, <1>s DEF Blamed
<1>9. Checked'
      BY <1>1, <1>s DEF Checked
<1>10. Rejections'
  <2>1. <<Process, "no targets">>[2] # "rejected"
        OBVIOUS
  <2> QED
      BY <2>1, <1>0, <1>1 DEF Rejections
<1>11. Justified'
      BY <1>1, <1>e, <1>s, SoundMeans DEF Justified
<1>12. FailsClosed'
      BY <1>1, <1>s DEF FailsClosed
<1>13. NamesEveryCulprit'
      BY <1>1 DEF NamesEveryCulprit
<1>14. RunsAsWritten'
      BY <1>0, <1>1, <1>s DEF RunsAsWritten
<1> QED
    BY <1>5, <1>6, <1>7, <1>8, <1>9, <1>10, <1>11, <1>12, <1>13, <1>14 DEF Inv

LEMMA NobodyNamed ==
    ASSUME errs = {}
    PROVE  \A i : ~Named(i)
BY DEF Named

LEMMA DecideStep ==
    ASSUME Inv, Decide
    PROVE  Inv'
<1>0. Placed /\ Kept /\ Seen /\ Blamed /\ Checked /\ Rejections /\ Justified /\ FailsClosed
      /\ RunsAsWritten
      BY DEF Inv
<1> DEFINE New == {e \in {<<Process, "small cap">>} : TooSmall(env.cap, Cardinality(Listed))}
<1>1. /\ phase = "decide" /\ at = 0 /\ ConfigValid
      /\ errs' = errs \cup New
      /\ phase' = IF errs' = {} THEN "build" ELSE "refused"
      /\ UNCHANGED <<env, at, target, names, urls, exposed, built>>
      BY <1>0 DEF Decide, Placed, Checked, Scanned
<1>e. EnvironmentOK(env)
      BY <1>0 DEF Kept
<1>s. /\ EnvironmentOK(env)' = EnvironmentOK(env) /\ Listed' = Listed /\ Sound' = Sound
      /\ ConfigValid' = ConfigValid /\ Consistent' = Consistent
      /\ \A i, j : Clash(i, j)' = Clash(i, j)
      /\ \A c, k : Effective(c, k)' = Effective(c, k)
      BY <1>1, SameEnvironment
<1>l. Listed \subseteq DOMAIN env.blocks /\ Listed \subseteq Nat
      BY <1>e, ListedFacts
<1>3. AreParsed = Listed /\ AreValidated = Listed
      BY <1>1 DEF AreParsed, AreValidated
<1>4. AreBuilt' = {}
  <2>1. {i \in Listed : i < 0} = {}
        BY <1>l
  <2> QED
      BY <2>1, <1>1, <1>s DEF AreBuilt
<1>n. /\ \A i \in DOMAIN env.blocks : i \notin Listed \/ ~WellFormed(env.blocks[i]) => Named(i)
      /\ \A i, j \in Listed : j < i /\ Clash(j, i) => Named(i)
      BY <1>0, <1>1, <1>3 DEF Blamed, Scanned
<1>c. ASSUME errs' = {}
      PROVE  Consistent /\ 0 \in Listed
  <2>1. errs = {} /\ \A i : ~Named(i)
        BY <1>c, <1>1, NobodyNamed
  <2>2. /\ env.parses /\ ~env.single /\ env.cap # Unparsable /\ ~env.malformed /\ 0 \in Listed
        BY <2>1, <1>0, <1>1 DEF Checked, Scanned
  <2>3. \A i \in DOMAIN env.blocks : i \in Listed /\ WellFormed(env.blocks[i])
        BY <2>1, <1>n
  <2>4. Listed = DOMAIN env.blocks
        BY <2>3, <1>l
  <2>5. \A i, j \in Listed : i # j => ~Clash(i, j)
    <3>1. \A i, j \in Listed : j < i => ~Clash(j, i)
          BY <2>1, <1>n
    <3>2. \A i, j : Clash(i, j) => Clash(j, i)
          BY DEF Clash
    <3>3. \A i, j \in Listed : i # j => i < j \/ j < i
          BY <1>l
    <3> QED
        BY <3>1, <3>2, <3>3
  <2>6. env.cap >= Cardinality(DOMAIN env.blocks) + 1
    <3>1. ~TooSmall(env.cap, Cardinality(Listed))
          BY <1>c, <1>1
    <3>2. env.cap \in Int /\ Cardinality(Listed) \in Nat
          BY <1>e, <2>2, <2>4, FS_CardinalityType DEF EnvironmentOK, Values
    <3> QED
        BY <3>1, <3>2, <2>2, <2>4 DEF TooSmall
  <2>7. \A i \in DOMAIN env.blocks : 0..i \subseteq DOMAIN env.blocks
        BY <2>4 DEF Listed
  <2> QED
      BY <2>2, <2>3, <2>4, <2>5, <2>6, <2>7, <1>1 DEF Consistent, ConfigValid
<1>m. \A i : Named(i) => Named(i)'
      BY <1>1, StaysNamed
<1>5. Placed'
      BY <1>1, <1>c, <1>s DEF Placed, Phases
<1>6. Kept'
  <2>1. AreParsed' \subseteq AreParsed
        BY <1>1, <1>3, <1>s DEF AreParsed
  <2> QED
      BY <2>1, <1>0, <1>1, <1>s DEF Kept
<1>7. Seen'
      BY <1>0, <1>1 DEF Seen
<1>8. Blamed'
  <2>1. AreParsed' \subseteq Listed /\ AreValidated' \subseteq Listed
        BY <1>1, <1>s DEF AreParsed, AreValidated
  <2>2. \A i \in DOMAIN env.blocks : i \notin Listed \/ env.blocks[i].unknownKey => Named(i)'
        BY <1>m, <1>n DEF WellFormed
  <2>3. \A i \in Listed : Unread(env.blocks[i]) # {} => Named(i)'
        BY <1>m, <1>0, <1>3 DEF Blamed
  <2>4. \A i \in Listed : ~WellFormed(env.blocks[i]) => Named(i)'
        BY <1>m, <1>n, <1>l
  <2>5. \A i, j \in Listed : j < i /\ Clash(j, i) => Named(i)'
        BY <1>m, <1>n
  <2> QED
      BY <2>1, <2>2, <2>3, <2>4, <2>5, <1>1, <1>4, <1>s DEF Blamed
<1>9. Checked'
  <2>1. errs' = {} => errs = {}
        BY <1>1
  <2> HIDE DEF New
  <2> QED
      BY <2>1, <1>0, <1>1, <1>c, <1>s DEF Checked, Scanned
<1>r. \A e \in errs' : e[2] # "rejected"
  <2>1. ASSUME NEW e \in New PROVE e[2] # "rejected"
    <3>1. e = <<Process, "small cap">>
          OBVIOUS
    <3> QED
        BY <3>1
  <2> HIDE DEF New
  <2> QED
      BY <2>1, <1>0, <1>1 DEF Rejections
<1>10. Rejections'
      BY <1>1, <1>r DEF Rejections
<1>11. Justified'
  <2>1. SUFFICES ASSUME Sound PROVE errs' = {}
        BY <1>s DEF Justified
  <2>2. errs = {} /\ New = {}
        BY <1>0, <1>e, <2>1, SoundMeans DEF Justified
  <2> QED
      BY <1>1, <2>2
<1>12. FailsClosed'
      BY <1>0, <1>1, <1>11, <1>s DEF FailsClosed, Justified
<1>13. NamesEveryCulprit'
  <2>1. CASE phase' = "build"
        BY <2>1 DEF NamesEveryCulprit
  <2>2. CASE phase' = "refused"
    <3>1. ~\A e \in errs' : e[2] = "rejected"
          BY <2>2, <1>1, <1>r
    <3>2. \A i \in DOMAIN env.blocks : i \notin Listed \/ ~WellFormed(env.blocks[i]) => Named(i)'
          BY <1>m, <1>n
    <3>3. \A p \in Listed \X Listed : p[1] < p[2] /\ Clash(p[1], p[2]) => Named(p[2])'
          BY <1>m, <1>n
    <3> QED
        BY <3>1, <3>2, <3>3, <1>1, <1>s DEF NamesEveryCulprit
  <2> QED
      BY <2>1, <2>2, <1>1
<1>14. RunsAsWritten'
      BY <1>0, <1>1, <1>s DEF RunsAsWritten
<1> QED
    BY <1>5, <1>6, <1>7, <1>8, <1>9, <1>10, <1>11, <1>12, <1>13, <1>14 DEF Inv

\* Two ways to the same settings, and what the builders make of them.
LEMMA ResolvedFacts ==
    ASSUME EnvironmentOK(env), NEW b, BlockOK(b), Unread(b) = {}
    PROVE  /\ \A k \in Settings : Resolve(b)[k] = Effective(b, k) /\ Effective(b, k) \in Int
           /\ HandlerTimeout(b) = Effective(b, "SCRAPE_TIMEOUT")
           /\ BaseTimeout(b) = Effective(b, "SCRAPE_TIMEOUT")
<1>1. \A k \in Settings : Resolve(b)[k] = Effective(b, k)
      BY DEF Resolve, Override, Effective
<1>2. ASSUME NEW k \in Settings PROVE Effective(b, k) \in Int
  <2>1. CASE k \in DOMAIN b.own
    <3>1. b.own[k] \in Values /\ b.own[k] # Unparsable
          BY <2>1 DEF BlockOK, Unread
    <3> QED
        BY <3>1, <2>1 DEF Effective, Values
  <2>2. CASE k \notin DOMAIN b.own
        BY <2>2 DEF Effective, EnvironmentOK
  <2> QED
      BY <2>1, <2>2
<1>3. HandlerTimeout(b) = Effective(b, "SCRAPE_TIMEOUT")
      BY DEF HandlerTimeout, Effective
<1>4. BaseTimeout(b) = Effective(b, "SCRAPE_TIMEOUT")
      BY <1>1 DEF BaseTimeout, Settings
<1> QED
    BY <1>1, <1>2, <1>3, <1>4

LEMMA RejectedMeans ==
    ASSUME EnvironmentOK(env), Consistent, NEW b, BlockOK(b), WellFormed(b)
    PROVE  Unread(b) = {} /\ (Rejected(b, Resolve(b)) <=> ~Accepted(b))
<1>1. Unread(b) = {}
      BY DEF WellFormed, Unread
<1>2. /\ \A k \in Settings : Resolve(b)[k] = Effective(b, k) /\ Effective(b, k) \in Int
      /\ HandlerTimeout(b) = Effective(b, "SCRAPE_TIMEOUT")
      BY <1>1, ResolvedFacts
<1>3. HandlerTimeout(b) \in Int /\ HandlerTimeout(b) > 0
  <2>1. Effective(b, "SCRAPE_TIMEOUT") > 0
        BY DEF Effective, WellFormed, Consistent
  <2> QED
      BY <2>1, <1>2 DEF Settings
<1>4. /\ Resolve(b)["SERIES_CONCURRENCY"] = Effective(b, "SERIES_CONCURRENCY")
      /\ Resolve(b)["PROWLARR__BACKFILL_SINCE_DATE"] = Effective(b, "PROWLARR__BACKFILL_SINCE_DATE")
      /\ Resolve(b)["BAZARR__SERIES_BATCH_SIZE"] = Effective(b, "BAZARR__SERIES_BATCH_SIZE")
      /\ Effective(b, "PROWLARR__BACKFILL_SINCE_DATE") \in Int
      /\ Effective(b, "BAZARR__SERIES_BATCH_SIZE") \in Int
      BY <1>2 DEF Settings
<1>5. ArrRejects(b, Resolve(b)) <=>
         b.app # "sabnzbd" /\ (b.login = "half"
                               \/ Effective(b, "SERIES_CONCURRENCY") \notin 1..MaxSeries)
      BY <1>4 DEF ArrRejects
<1>6. ProwlarrRejects(b, Resolve(b)) <=>
         b.app = "prowlarr" /\ ~(Effective(b, "PROWLARR__BACKFILL_SINCE_DATE") >= 0)
      BY <1>4 DEF ProwlarrRejects
<1>7. BazarrRejects(b, Resolve(b)) <=>
         b.app = "bazarr" /\ ~(Effective(b, "BAZARR__SERIES_BATCH_SIZE") >= 1)
      BY <1>4 DEF BazarrRejects
<1>8. b.login = "half" => b.app # "sabnzbd"
      BY DEF WellFormed
<1>9. ~(HandlerTimeout(b) <= 0)
      BY <1>3
<1> QED
    BY <1>1, <1>5, <1>6, <1>7, <1>8, <1>9 DEF Rejected, Accepted, AnyRejects

LEMMA BuildTargetStep ==
    ASSUME Inv, BuildTarget
    PROVE  Inv'
<1>0. Placed /\ Kept /\ Seen /\ Blamed /\ Checked /\ Rejections /\ Justified /\ FailsClosed
      /\ RunsAsWritten
      BY DEF Inv
<1> DEFINE b == env.blocks[at]
           next == IF errs' = {} THEN "ready" ELSE "refused"
<1>1. /\ phase = "build" /\ at \in Listed /\ ConfigValid /\ Consistent
      /\ Advance(next)
      /\ UNCHANGED <<env, target, names, urls, exposed>>
      BY <1>0 DEF BuildTarget, Placed, Checked, Scanned
<1>e. EnvironmentOK(env)
      BY <1>0 DEF Kept
<1>s. /\ EnvironmentOK(env)' = EnvironmentOK(env) /\ Listed' = Listed /\ Sound' = Sound
      /\ ConfigValid' = ConfigValid /\ Consistent' = Consistent
      /\ \A i, j : Clash(i, j)' = Clash(i, j)
      /\ \A c : Accepted(c)' = Accepted(c)
      /\ \A c, k : Effective(c, k)' = Effective(c, k)
      BY <1>1, SameEnvironment
<1>b. at \in DOMAIN env.blocks /\ at \in Nat /\ BlockOK(b)
      BY <1>1, <1>e, BlockFacts
<1>l. Listed = DOMAIN env.blocks /\ \A i \in Listed : WellFormed(env.blocks[i])
      BY <1>1 DEF Consistent, Listed
<1>c. \A i, j \in Listed : i # j => ~Clash(i, j)
      BY <1>1, <1>l DEF Consistent
<1>u. Unread(b) = {} /\ (Rejected(b, Resolve(b)) <=> ~Accepted(b))
      BY <1>1, <1>e, <1>b, <1>l, RejectedMeans
<1>t. target[at] = b
  <2>1. target[at] = Parsed(b)
        BY <1>0, <1>1 DEF Kept, AreParsed
  <2> QED
      BY <2>1, <1>b, <1>u, ParsedFacts
<1>2. \/ /\ ~Accepted(b) /\ errs' = errs \cup {<<at, "rejected">>} /\ built' = built
      \/ /\ Accepted(b) /\ errs' = errs
         /\ built' = [i \in DOMAIN built \cup {at} |-> IF i = at THEN Build(b) ELSE built[i]]
      BY <1>t, <1>u DEF BuildTarget
<1>3. \/ /\ phase' = "build" /\ at' \in Listed /\ at' = at + 1
         /\ {i \in Listed : i < at'} = {i \in Listed : i < at} \cup {at}
      \/ /\ phase' = next /\ at' = 0 /\ Listed = {i \in Listed : i < at} \cup {at}
      BY <1>1, <1>e, AdvanceFacts
<1>p. phase' \in {"build", "ready", "refused"} /\ (phase' = "ready" => errs' = {})
      /\ (phase' = "refused" => errs' # {})
      BY <1>3
<1> HIDE DEF next
<1>m. \A i : Named(i) => Named(i)'
  <2>1. errs \subseteq errs'
        BY <1>2
  <2> QED
      BY <2>1, StaysNamed
<1>a. \A i \in {j \in Listed : j < at} \cup {at} : ~Accepted(env.blocks[i]) => Named(i)'
  <2>1. \A i \in {j \in Listed : j < at} : ~Accepted(env.blocks[i]) => Named(i)'
        BY <1>m, <1>0, <1>1 DEF Blamed, AreBuilt
  <2>2. ASSUME NEW i, i = at, ~Accepted(env.blocks[i]) PROVE Named(i)'
    <3>1. <<i, "rejected">> \in errs'
          BY <2>2, <1>2
    <3> QED
        BY <3>1, NamedByNext
  <2> QED
      BY <2>1, <2>2
<1>5. Placed'
  <2>1. at' = at + 1 \/ at' = 0
        BY <1>3
  <2>2. at' \in Nat
        BY <2>1, <1>b
  <2>3. \/ phase' = "build" /\ at' \in Listed
        \/ phase' \in {"ready", "refused"} /\ at' = 0
        BY <1>3 DEF next
  <2> QED
      BY <2>2, <2>3, <1>s DEF Placed, Phases
<1>6. Kept'
  <2>1. AreParsed' \subseteq AreParsed
        BY <1>1, <1>p, <1>s DEF AreParsed
  <2>2. DOMAIN built' \subseteq Listed
        BY <1>0, <1>1, <1>2 DEF Kept
  <2> QED
      BY <2>1, <2>2, <1>0, <1>1, <1>s DEF Kept
<1>7. Seen'
      BY <1>0, <1>1, <1>p DEF Seen
<1>8. Blamed'
  <2>1. AreParsed' \subseteq Listed /\ AreValidated' \subseteq Listed
        BY <1>p, <1>s DEF AreParsed, AreValidated
  <2>2. AreBuilt' \subseteq {j \in Listed : j < at} \cup {at}
        BY <1>3, <1>p, <1>s DEF AreBuilt, next
  <2>3. \A i \in DOMAIN env.blocks : i \in Listed /\ ~env.blocks[i].unknownKey
                                     /\ Unread(env.blocks[i]) = {}
        BY <1>l DEF WellFormed, Unread
  <2>4. \A i, j \in Listed : j < i => ~Clash(j, i)
    <3>1. \A i \in Listed : i \in Nat
          BY <1>e, BlockFacts
    <3> QED
        BY <3>1, <1>c
  <2> QED
      BY <2>1, <2>2, <2>3, <2>4, <1>l, <1>a, <1>1, <1>s DEF Blamed
<1>j. Justified'
  <2>1. SUFFICES ASSUME Sound PROVE errs' = {}
        BY <1>s DEF Justified
  <2>2. errs = {} /\ Accepted(b)
        BY <1>0, <1>e, <1>1, <2>1, SoundMeans DEF Justified
  <2> QED
      BY <1>2, <2>2
<1>r. ASSUME phase' = "ready"
      PROVE  errs' = {} /\ Sound
  <2>1. errs' = {}
        BY <1>p, <1>r
  <2>2. \A i : ~Named(i)'
        BY <2>1 DEF Named
  <2>3. \A i \in Listed : Accepted(env.blocks[i])
        BY <2>2, <1>a, <1>3, <1>r
  <2> QED
      BY <2>1, <2>3, <1>1, <1>l DEF Sound
<1>9. Checked'
  <2>1. /\ env.parses /\ ~env.single /\ env.cap # Unparsable /\ ~env.malformed
        BY <1>1 DEF Consistent
  <2> HIDE DEF b
  <2> QED
      BY <2>1, <1>1, <1>p, <1>r, <1>s DEF Checked, Scanned
<1>10. Rejections'
  <2>1. \A e \in errs : e[2] = "rejected"
        BY <1>0, <1>1 DEF Rejections
  <2>2. \A e \in errs' : e[2] = "rejected"
        BY <2>1, <1>2
  <2> QED
      BY <2>2, <1>p DEF Rejections
<1>12. FailsClosed'
  <2>1. exposed' = {}
        BY <1>0, <1>1, <1>l DEF FailsClosed, Kept
  <2>2. phase' = "refused" => ~Sound
        BY <1>p, <1>j, <1>s DEF Justified
  <2> QED
      BY <2>1, <2>2, <1>p, <1>r, <1>s DEF FailsClosed
<1>13. NamesEveryCulprit'
  <2>1. CASE phase' # "refused"
        BY <2>1 DEF NamesEveryCulprit
  <2>2. CASE phase' = "refused"
    <3>1. \A i \in Listed : ~Accepted(env.blocks[i]) => Named(i)'
          BY <2>2, <1>a, <1>3
    <3>2. {i \in DOMAIN env.blocks : i \notin Listed \/ ~WellFormed(env.blocks[i])} = {}
          BY <1>l
    <3>3. {p \in Listed \X Listed : p[1] < p[2] /\ Clash(p[1], p[2])} = {}
      <4>1. \A i \in Listed : i \in Nat
            BY <1>e, BlockFacts
      <4> QED
          BY <4>1, <1>c
    <3> QED
        BY <3>1, <3>2, <3>3, <1>1, <1>s DEF NamesEveryCulprit
  <2> QED
      BY <2>1, <2>2
<1>14. RunsAsWritten'
  <2>1. ASSUME Accepted(b)
        PROVE  /\ Build(b).name = b.name /\ Build(b).app = b.app /\ Build(b).key = b.url.key
               /\ \A k \in Settings : Build(b).settings[k] = Effective(b, k)
               /\ Build(b).scrape = Effective(b, "SCRAPE_TIMEOUT")
               /\ Build(b).collect = CollectTimeout(Build(b).scrape)
    <3>1. /\ \A k \in Settings : Resolve(b)[k] = Effective(b, k)
          /\ HandlerTimeout(b) = Effective(b, "SCRAPE_TIMEOUT")
          /\ BaseTimeout(b) = Effective(b, "SCRAPE_TIMEOUT")
          BY <1>e, <1>b, <1>u, ResolvedFacts
    <3>2. Build(b) = [name |-> b.name, app |-> b.app, key |-> b.url.key, settings |-> Resolve(b),
                      scrape |-> HandlerTimeout(b), collect |-> CollectTimeout(BaseTimeout(b))]
          BY DEF Build
    <3> QED
        BY <3>1, <3>2
  <2>2. \A i \in DOMAIN built' :
           \/ i \in DOMAIN built /\ built'[i] = built[i]
           \/ i = at /\ built'[i] = Build(b) /\ Accepted(b)
        BY <1>2
  <2> HIDE DEF b
  <2>3. ASSUME NEW i \in DOMAIN built'
        PROVE  LET c == env.blocks[i]
               IN /\ built'[i].name = c.name /\ built'[i].app = c.app
                  /\ built'[i].key = c.url.key
                  /\ \A k \in Settings : built'[i].settings[k] = Effective(c, k)
                  /\ built'[i].scrape = Effective(c, "SCRAPE_TIMEOUT")
                  /\ built'[i].collect = CollectTimeout(built'[i].scrape)
    <3>1. CASE i \in DOMAIN built /\ built'[i] = built[i]
          BY <3>1, <1>0 DEF RunsAsWritten
    <3>2. CASE i = at /\ built'[i] = Build(b) /\ Accepted(b)
          BY <3>2, <2>1 DEF b
    <3> QED
        BY <3>1, <3>2, <2>2
  <2> QED
      BY <2>3, <1>1, <1>s DEF RunsAsWritten
<1> QED
    BY <1>5, <1>6, <1>7, <1>8, <1>9, <1>10, <1>j, <1>12, <1>13, <1>14 DEF Inv

LEMMA HandOverStep ==
    ASSUME StartupAssumption, HandOver
    PROVE  Inv'
<1>1. /\ phase' = "served" /\ env' = NoEnvironment /\ at' = 0 /\ errs' = {}
      /\ names' = {} /\ urls' = {} /\ exposed' = {} /\ DOMAIN built' = {}
      BY DEF HandOver, Nothing
<1>2. DOMAIN Nothing = {}
      BY DEF Nothing
<1>3. EnvironmentOK(NoEnvironment)
  <2>1. IsFiniteSet({})
        BY FS_EmptySet
  <2> QED
      BY <1>2, <2>1 DEF EnvironmentOK, NoEnvironment, Values
<1>4. AreParsed' = {} /\ AreValidated' = {} /\ AreBuilt' = {} /\ ~Scanned'
      BY <1>1 DEF AreParsed, AreValidated, AreBuilt, Scanned
<1>5. Placed'
      BY <1>1 DEF Placed, Phases
<1>6. Kept'
      BY <1>1, <1>3, <1>4 DEF Kept
<1>7. Seen' /\ Blamed' /\ Checked' /\ Rejections' /\ Justified'
      BY <1>1, <1>4 DEF Seen, Blamed, Checked, Rejections, Justified
<1>8. FailsClosed' /\ NamesEveryCulprit' /\ RunsAsWritten'
      BY <1>1 DEF FailsClosed, NamesEveryCulprit, RunsAsWritten
<1> QED
    BY <1>5, <1>6, <1>7, <1>8 DEF Inv

LEMMA StutterStep ==
    ASSUME Inv, UNCHANGED vars
    PROVE  Inv'
<1>1. UNCHANGED <<phase, env, at, errs, target, names, urls, exposed, built>>
      BY DEF vars
<1>2. Placed' /\ Kept' /\ Seen' /\ Checked' /\ Rejections' /\ Justified'
  <2>1. Listed' = Listed /\ Consistent' = Consistent /\ Sound' = Sound /\ ConfigValid' = ConfigValid
        /\ EnvironmentOK(env)' = EnvironmentOK(env)
        BY <1>1, SameEnvironment
  <2>2. AreParsed' = AreParsed /\ AreValidated' = AreValidated /\ Scanned' = Scanned
        BY <1>1, <2>1 DEF AreParsed, AreValidated, Scanned
  <2> QED
      BY <1>1, <2>1, <2>2 DEF Inv, Placed, Kept, Seen, Checked, Rejections, Justified
<1>3. /\ Listed' = Listed
      /\ \A i, j : Clash(i, j)' = Clash(i, j)
      /\ \A b : Accepted(b)' = Accepted(b)
      /\ \A b, k : Effective(b, k)' = Effective(b, k)
      /\ Sound' = Sound
      BY <1>1, SameEnvironment
<1>4. \A i : Named(i)' = Named(i)
      BY <1>1 DEF Named
<1>5. Blamed'
  <2>1. AreParsed' = AreParsed /\ AreValidated' = AreValidated /\ AreBuilt' = AreBuilt
        /\ Scanned' = Scanned
        BY <1>1, <1>3 DEF AreParsed, AreValidated, AreBuilt, Scanned
  <2> QED
      BY <2>1, <1>1, <1>3, <1>4 DEF Inv, Blamed
<1>6. FailsClosed'
      BY <1>1, <1>3 DEF Inv, FailsClosed
<1>7. NamesEveryCulprit'
      BY <1>1, <1>3, <1>4 DEF Inv, NamesEveryCulprit
<1>8. RunsAsWritten'
      BY <1>1, <1>3 DEF Inv, RunsAsWritten
<1> QED
    BY <1>2, <1>5, <1>6, <1>7, <1>8 DEF Inv

LEMMA NextInv ==
    ASSUME StartupAssumption, Inv, [Next]_vars
    PROVE  Inv'
<1>1. CASE Prepare
      BY <1>1, PreRunStep, CheckProcessConfigStep, ScanStep, ParseTargetStep,
         ValidateTargetStep, NoTargetsStep, DecideStep, BuildTargetStep DEF Prepare, Load
<1>2. CASE HandOver
      BY <1>2, HandOverStep
<1>3. CASE UNCHANGED vars
      BY <1>3, StutterStep
<1> QED
    BY <1>1, <1>2, <1>3 DEF Next

-----------------------------------------------------------------------------
(* The theorems *)

\* The loops, the blocks that are named and the causes of what is reported
\* agree in every reachable state.
THEOREM Invariance == Spec => []Inv
<1>1. Init => Inv
      BY StartupAssumption, InitInv
<1>2. Inv /\ [Next]_vars => Inv'
      BY StartupAssumption, NextInv
<1> QED
    BY <1>1, <1>2, PTL DEF Spec

\* The variables keep their types, whatever the environment.
THEOREM TypeCorrect == Spec => []TypeOK
<1>1. Inv => TypeOK
      BY DEF Inv, Placed, Kept, Seen, TypeOK
<1> QED
    BY <1>1, Invariance, PTL

\* For every environment, with any number of blocks: what is served is sound,
\* what is refused is not, and no secret stays in os.Environ.
THEOREM ServesOnlySound == Spec => []FailsClosed
<1>1. Inv => FailsClosed
      BY DEF Inv
<1> QED
    BY <1>1, Invariance, PTL

\* For every environment, every block at fault is named by the refusal.
THEOREM CulpritsNamed == Spec => []NamesEveryCulprit
<1>1. Inv => NamesEveryCulprit
      BY DEF Inv
<1> QED
    BY <1>1, Invariance, PTL

\* A target is built with its own settings and the defaults, and with one
\* scrape timeout, for any settings of any other target.
THEOREM OwnSettings == Spec => []RunsAsWritten
<1>1. Inv => RunsAsWritten
      BY DEF Inv
<1> QED
    BY <1>1, Invariance, PTL

\* The arithmetic of the deadlines (config.go:56-61): collectors that end
\* within slack of their deadline leave a scrape time to answer, whatever its
\* timeout is, but for the smallest; and the server's write timeout is later.
THEOREM DeadlineLeavesTime ==
    ASSUME NEW slack \in Nat, NEW limit \in Nat, Leaves(slack, limit)
    PROVE  /\ HasDeadline(CollectTimeout(limit))
           /\ CollectTimeout(limit) + slack < limit
           /\ limit < WriteTimeout(limit)
<1>1. 2 * (limit \div 2) <= limit /\ limit < 2 * (limit \div 2) + 2
      OBVIOUS
<1>2. limit \div 2 \in Int
      OBVIOUS
<1>3. CollectGrace \in Nat \ {0} /\ WriteMargin \in Nat \ {0}
      BY DurationAssumption
<1>4. limit >= 2 /\ limit >= 2 * slack + 1 /\ slack < CollectGrace
      BY DEF Leaves
<1>5. CASE limit - CollectGrace > limit \div 2
      BY <1>1, <1>2, <1>3, <1>4, <1>5 DEF CollectTimeout, HasDeadline, WriteTimeout
<1>6. CASE ~(limit - CollectGrace > limit \div 2)
      BY <1>1, <1>2, <1>3, <1>4, <1>6 DEF CollectTimeout, HasDeadline, WriteTimeout
<1> QED
    BY <1>5, <1>6

-----------------------------------------------------------------------------
(* Serve *)

Status == {"away", "waiting", "data", "timeout", "cut"}

Control ==
    /\ server \in {"off", "up", "stopping", "exited"}
    /\ exit \in {Alive, 0, 1} /\ (exit = Alive <=> server # "exited")
    /\ signal \in BOOLEAN /\ failed \in BOOLEAN
    /\ grace \in 0..GracefulTimeout
    /\ phase \notin {"refused", "served"} => server = "off"
    /\ server = "off" => \A s \in Scrapes : scrape[s] = Away
    /\ server = "exited" => Waiting = {}

Data ==
    /\ scrape \in [Scrapes -> [state : Status, target : Names \cup {Process}, age : Nat]]
    /\ DOMAIN served \subseteq Names
    /\ served \in [DOMAIN served -> [scrape : Nat \ {0}, collect : Int]]
    /\ gather \in [DOMAIN served -> Int]
    /\ \A n \in DOMAIN served : /\ served[n].collect = CollectTimeout(served[n].scrape)
                                /\ write \in Int /\ served[n].scrape < write

\* A gather in flight ends before its target's collectors must have ended, and
\* nobody who waits for it is older than it is.
Timed ==
    /\ \A s \in Scrapes : scrape[s].state # "away" =>
          /\ scrape[s].target \in DOMAIN served
          /\ scrape[s].age <= served[scrape[s].target].scrape
    /\ \A n \in Running : HasDeadline(served[n].collect) =>
          gather[n] \in 0..(served[n].collect + Slack)
    /\ \A s \in Waiting :
          LET n == scrape[s].target
          IN /\ n \in Running
             /\ HasDeadline(served[n].collect) =>
                   scrape[s].age + gather[n] <= served[n].collect + Slack

ServeInv == Inv /\ Control /\ Data /\ Timed /\ AnsweredInTime

-----------------------------------------------------------------------------
(* The longest of the timeouts *)

LEMMA LongestFacts ==
    ASSUME NEW T, T \subseteq Int, T # {}, IsFiniteSet(T)
    PROVE  LongestOf(T) \in T /\ \A u \in T : u <= LongestOf(T)
<1> DEFINE Above(x) == {y \in T : x < y}
           Counts == {Cardinality(Above(x)) : x \in T}
<1>1. \A x \in T : IsFiniteSet(Above(x)) /\ Cardinality(Above(x)) \in Nat
      BY FS_Subset, FS_CardinalityType
<1>2. PICK x \in T : \A z \in T : ~(Cardinality(Above(z)) < Cardinality(Above(x)))
  <2>1. Counts \subseteq Nat /\ Counts # {}
        BY <1>1
  <2>2. \E c \in Counts : \A d \in Counts : <<d, c>> \notin OpToRel(<, Nat)
        BY <2>1, NatLessThanWellFounded, WFMin
  <2>3. PICK c \in Counts : \A d \in Counts : ~(d < c)
        BY <2>1, <2>2 DEF OpToRel
  <2> QED
      BY <2>3
<1>3. Above(x) = {}
  <2>1. SUFFICES ASSUME NEW z \in Above(x) PROVE FALSE
        OBVIOUS
  <2>2. Above(z) \subseteq Above(x) /\ Above(z) # Above(x)
    <3>1. z \in T /\ x < z
          OBVIOUS
    <3>2. \A y \in Above(z) : y \in Above(x)
          BY <3>1
    <3>3. z \notin Above(z)
          BY <3>1
    <3> QED
        BY <3>2, <3>3
  <2>3. /\ Cardinality(Above(z)) <= Cardinality(Above(x))
        /\ Cardinality(Above(x)) = Cardinality(Above(z)) => Above(x) = Above(z)
        BY <1>1, <2>2, FS_Subset
  <2>4. Cardinality(Above(z)) < Cardinality(Above(x))
        BY <1>1, <2>2, <2>3
  <2> QED
      BY <1>2, <2>4
<1>4. \A u \in T : u <= x
      BY <1>3
<1> QED
    BY <1>4 DEF LongestOf
-----------------------------------------------------------------------------
(* Every step keeps the invariant *)

LEMMA ServeInitInv ==
    ASSUME StartupAssumption, ServeAssumption, ServeInit
    PROVE  ServeInv
<1>1. Inv
      BY InitInv DEF ServeInit
<1>2. /\ phase = "start" /\ server = "off" /\ exit = Alive /\ signal = FALSE /\ failed = FALSE
      /\ grace = 0 /\ write = 0 /\ served = Nothing /\ gather = Nothing
      /\ scrape = [s \in Scrapes |-> Away]
      BY DEF ServeInit, Init
<1>3. Waiting = {} /\ \A s \in Scrapes : scrape[s] = Away
      BY <1>2 DEF Waiting, Away
<1>4. Control
  <2>1. grace \in 0..GracefulTimeout
        BY <1>2, ServeAssumption
  <2>2. exit \in {Alive, 0, 1} /\ (exit = Alive <=> server # "exited")
        BY <1>2
  <2> QED
      BY <2>1, <2>2, <1>2, <1>3 DEF Control
<1>5. DOMAIN Nothing = {} /\ Nothing \in [{} -> Nat]
      BY DEF Nothing
<1>6. Data
  <2>1. scrape \in [Scrapes -> [state : Status, target : Names \cup {Process}, age : Nat]]
        BY <1>2 DEF Away, Status
  <2>2. /\ served \in [DOMAIN served -> [scrape : Nat \ {0}, collect : Int]]
        /\ gather \in [DOMAIN served -> Int]
        BY <1>2 DEF Nothing
  <2> QED
      BY <1>2, <1>5, <2>1, <2>2 DEF Data
<1>7. Timed
  <2>1. Running = {}
        BY <1>2, <1>5 DEF Running
  <2> QED
      BY <1>3, <2>1 DEF Timed, Away
<1>8. AnsweredInTime
      BY <1>3 DEF AnsweredInTime, Away
<1> QED
    BY <1>1, <1>4, <1>6, <1>7, <1>8 DEF ServeInv

\* Startup goes on until it is refused or served.
LEMMA PrepareFacts ==
    ASSUME EnvironmentOK(env), Prepare, phase \in {"parse", "build"} => at \in Listed
    PROVE  phase \notin {"refused", "served"} /\ phase' # "served"
<1>1. phase \notin {"refused", "served"}
      BY DEF Prepare, PreRun, CheckProcessConfig, Load, Scan, ParseTarget, ValidateTarget,
             NoTargets, Decide, BuildTarget
<1>2. CASE PreRun
      BY <1>2 DEF PreRun
<1>3. CASE CheckProcessConfig
      BY <1>3 DEF CheckProcessConfig
<1>4. CASE Scan
      BY <1>4 DEF Scan
<1>5. CASE ParseTarget
      BY <1>5 DEF ParseTarget, Advance
<1>6. CASE ValidateTarget
      BY <1>6 DEF ValidateTarget, Advance
<1>7. CASE NoTargets
      BY <1>7 DEF NoTargets
<1>8. CASE Decide
      BY <1>8 DEF Decide
<1>9. CASE BuildTarget
      BY <1>9 DEF BuildTarget, Advance
<1>10. phase' # "served"
      BY <1>2, <1>3, <1>4, <1>5, <1>6, <1>7, <1>8, <1>9 DEF Prepare, Load
<1> QED
    BY <1>1, <1>10

\* The steps that leave serveHTTP's state alone.
LEMMA SameRun ==
    ASSUME ServeInv, UNCHANGED runVars, Inv',
           phase' \notin {"refused", "served"} => phase \notin {"refused", "served"}
    PROVE  ServeInv'
<1>1. UNCHANGED <<server, exit, signal, failed, grace, served, write, scrape, gather>>
      BY DEF runVars
<1>2. Waiting' = Waiting /\ Running' = Running
      BY <1>1 DEF Waiting, Running
<1>3. Control'
      BY <1>1, <1>2 DEF ServeInv, Control
<1>4. Data'
      BY <1>1 DEF ServeInv, Data
<1>5. Timed'
      BY <1>1, <1>2 DEF ServeInv, Timed
<1>6. AnsweredInTime'
      BY <1>1 DEF ServeInv, AnsweredInTime
<1> QED
    BY <1>3, <1>4, <1>5, <1>6 DEF ServeInv

LEMMA BootStep ==
    ASSUME StartupAssumption, ServeInv, Boot
    PROVE  ServeInv'
<1>1. Inv /\ Prepare /\ UNCHANGED runVars
      BY DEF ServeInv, Boot
<1>2. Inv'
      BY <1>1, NextInv DEF Next
<1>3. phase \notin {"refused", "served"}
      BY <1>1, PrepareFacts DEF Inv, Placed, Kept
<1> QED
    BY <1>1, <1>2, <1>3, SameRun

\* The end of the process: what is cut off, the status tells.
LEMMA ExitStep ==
    ASSUME ServeInv, server # "exited", phase' \in {"refused", "served"}, Inv',
           NEW status \in {0, 1}, status = 0 => Waiting = {},
           Exit(status), UNCHANGED <<signal, failed, grace, served, write, gather>>
    PROVE  ServeInv'
<1>0. Control /\ Data /\ Timed /\ AnsweredInTime
      BY DEF ServeInv
<1>1. /\ server' = "exited" /\ exit' = status
      /\ scrape' = [s \in Scrapes |-> IF s \in Waiting THEN Become(s, "cut") ELSE scrape[s]]
      /\ UNCHANGED <<signal, failed, grace, served, write, gather>>
      BY DEF Exit
<1>2. ASSUME NEW s \in Scrapes
      PROVE  /\ scrape'[s] \in [state : Status, target : Names \cup {Process}, age : Nat]
             /\ scrape'[s].target = scrape[s].target /\ scrape'[s].age = scrape[s].age
             /\ s \in Waiting => scrape'[s].state = "cut" /\ scrape[s].state # "away"
             /\ s \notin Waiting => scrape'[s].state = scrape[s].state
  <2>1. scrape[s] \in [state : Status, target : Names \cup {Process}, age : Nat]
        BY <1>0 DEF Data
  <2>2. CASE s \in Waiting
    <3>1. scrape'[s] = [scrape[s] EXCEPT !.state = "cut"]
          BY <2>2, <1>1 DEF Become
    <3> QED
        BY <2>1, <2>2, <3>1 DEF Status, Waiting
  <2>3. CASE s \notin Waiting
        BY <2>1, <2>3, <1>1
  <2> QED
      BY <2>2, <2>3
<1>3. Waiting' = {}
  <2>1. \A s \in Scrapes : scrape'[s].state # "waiting"
        BY <1>2 DEF Waiting
  <2> QED
      BY <2>1 DEF Waiting
<1>4. Control'
      BY <1>0, <1>1, <1>3 DEF Control, Alive
<1>5. Data'
  <2>1. scrape' \in [Scrapes -> [state : Status, target : Names \cup {Process}, age : Nat]]
        BY <1>1, <1>2
  <2> QED
      BY <2>1, <1>0, <1>1 DEF Data
<1>6. Timed'
  <2>1. \A s \in Scrapes : scrape'[s].state # "away" =>
           /\ scrape'[s].target \in DOMAIN served
           /\ scrape'[s].age <= served[scrape'[s].target].scrape
        BY <1>0, <1>2 DEF Timed
  <2>2. \A n \in Running' : HasDeadline(served'[n].collect) =>
           gather'[n] \in 0..(served'[n].collect + Slack)
        BY <1>0, <1>1 DEF Timed, Running
  <2> QED
      BY <2>1, <2>2, <1>1, <1>3 DEF Timed
<1>7. AnsweredInTime'
  <2>1. \A s \in Scrapes : scrape[s].state # "cut"
        BY <1>0 DEF Control, AnsweredInTime, Alive
  <2>2. \A s \in Scrapes : scrape'[s].state = "cut" => exit' = 1
        BY <2>1, <1>1, <1>2
  <2>3. \A s \in Scrapes : scrape'[s].state \in {"data", "timeout"} => scrape'[s].state = scrape[s].state
        BY <1>2
  <2> QED
      BY <2>2, <2>3, <1>0, <1>1, <1>2 DEF AnsweredInTime
<1> QED
    BY <1>4, <1>5, <1>6, <1>7 DEF ServeInv

LEMMA ExitSteps ==
    ASSUME StartupAssumption, ServeInv,
           Refused \/ ListenFails \/ SelectError \/ ShutdownDone \/ ShutdownFails
    PROVE  ServeInv'
<1>0. Inv /\ Control
      BY DEF ServeInv
<1>1. CASE Refused
  <2>1. /\ phase = "refused" /\ server = "off" /\ Exit(1) /\ UNCHANGED vars
        /\ UNCHANGED <<signal, failed, grace, served, write, gather>>
        BY <1>1 DEF Refused, vars
  <2>2. Inv' /\ phase' = "refused"
        BY <1>0, <2>1, StutterStep DEF vars
  <2> QED
      BY <2>1, <2>2, ExitStep
<1>2. CASE ListenFails
  <2>1. /\ HandOver /\ Exit(1) /\ UNCHANGED <<signal, failed, grace, served, write, gather>>
        BY <1>2 DEF ListenFails
  <2>2. Inv' /\ phase' = "served" /\ server = "off"
        BY <1>0, <2>1, HandOverStep DEF HandOver, Control
  <2> QED
      BY <2>1, <2>2, ExitStep
<1>3. CASE SelectError \/ ShutdownFails
  <2>1. /\ server \in {"up", "stopping"} /\ Exit(1) /\ UNCHANGED vars
        /\ UNCHANGED <<signal, failed, grace, served, write, gather>>
        BY <1>3 DEF SelectError, ShutdownFails, vars
  <2>2. Inv' /\ phase' \in {"refused", "served"}
        BY <1>0, <2>1, StutterStep DEF vars, Control
  <2> QED
      BY <2>1, <2>2, ExitStep
<1>4. CASE ShutdownDone
  <2>1. /\ server = "stopping" /\ Waiting = {} /\ Exit(0) /\ UNCHANGED vars
        /\ UNCHANGED <<signal, failed, grace, served, write, gather>>
        BY <1>4 DEF ShutdownDone, vars
  <2>2. Inv' /\ phase' \in {"refused", "served"}
        BY <1>0, <2>1, StutterStep DEF vars, Control
  <2> QED
      BY <2>1, <2>2, ExitStep
<1> QED
    BY <1>1, <1>2, <1>3, <1>4

\* What is handed over: timeouts of targets that are sound.
LEMMA BuiltFacts ==
    ASSUME Inv, phase = "ready", NEW i \in DOMAIN built
    PROVE  /\ built[i].name \in Names /\ built[i].scrape \in Nat \ {0}
           /\ built[i].collect = CollectTimeout(built[i].scrape)
<1> DEFINE b == env.blocks[i]
<1>1. EnvironmentOK(env) /\ Consistent /\ i \in Listed
      BY DEF Inv, Kept, Checked
<1>2. i \in DOMAIN env.blocks /\ BlockOK(b) /\ WellFormed(b)
      BY <1>1, BlockFacts DEF Consistent
<1>3. Unread(b) = {}
      BY <1>2 DEF WellFormed, Unread
<1>4. Effective(b, "SCRAPE_TIMEOUT") \in Int
      BY <1>1, <1>2, <1>3, ResolvedFacts DEF Settings
<1>5. Effective(b, "SCRAPE_TIMEOUT") > 0
      BY <1>1, <1>2 DEF Effective, WellFormed, Consistent
<1>6. /\ built[i].name = b.name /\ built[i].scrape = Effective(b, "SCRAPE_TIMEOUT")
      /\ built[i].collect = CollectTimeout(built[i].scrape)
      BY DEF Inv, RunsAsWritten
<1>7. b.name \in Names
      BY <1>2 DEF WellFormed
<1> HIDE DEF b
<1> QED
    BY <1>4, <1>5, <1>6, <1>7

LEMMA CollectTimeoutType ==
    ASSUME NEW t \in Nat
    PROVE  CollectTimeout(t) \in Int
BY DurationAssumption DEF CollectTimeout

LEMMA ListenStep ==
    ASSUME StartupAssumption, ServeAssumption, ServeInv, Listen
    PROVE  ServeInv'
<1>0. Inv /\ Control /\ Data /\ Timed /\ AnsweredInTime
      BY DEF ServeInv
<1> DEFINE Index(n) == CHOOSE i \in DOMAIN built : built[i].name = n
           Of(n) == [scrape |-> built[Index(n)].scrape, collect |-> built[Index(n)].collect]
           Targets == {built[i].name : i \in DOMAIN built}
           Timeouts == {built[i].scrape : i \in DOMAIN built}
<1>1. /\ HandOver /\ server' = "up"
      /\ served' = [n \in Targets |-> Of(n)]
      /\ write' = WriteTimeout(LongestOf(Timeouts))
      /\ gather' = [n \in DOMAIN served' |-> NoGather]
      /\ UNCHANGED <<exit, signal, failed, grace, scrape>>
      BY DEF Listen, LongestScrape
<1>2. phase = "ready" /\ phase' = "served" /\ server = "off"
      BY <1>0, <1>1 DEF HandOver, Control
<1>3. Inv'
      BY <1>1, HandOverStep
<1>4. \A s \in Scrapes : scrape[s] = Away /\ scrape'[s] = Away
      BY <1>0, <1>1, <1>2 DEF Control
<1>5. Waiting' = {} /\ Running' = {}
      BY <1>1, <1>4 DEF Waiting, Running, Away
<1>6. Control'
      BY <1>0, <1>1, <1>2 DEF Control
<1>7. \A n \in Targets : Index(n) \in DOMAIN built
      OBVIOUS
<1>8. ASSUME NEW n \in Targets
      PROVE  /\ n \in Names /\ Of(n).scrape \in Nat \ {0} /\ Of(n).collect \in Int
             /\ Of(n).collect = CollectTimeout(Of(n).scrape)
             /\ Of(n).scrape \in Timeouts
  <2>1. PICK i \in DOMAIN built : i = Index(n)
        BY <1>7
  <2>2. n = built[i].name
        BY <2>1
  <2>3. Of(n).scrape = built[i].scrape /\ Of(n).collect = built[i].collect
        BY <2>1
  <2>4. /\ built[i].name \in Names /\ built[i].scrape \in Nat \ {0}
        /\ built[i].collect = CollectTimeout(built[i].scrape)
        BY <1>0, <1>2, BuiltFacts
  <2>5. built[i].collect \in Int
        BY <2>4, CollectTimeoutType
  <2> HIDE DEF Index, Of
  <2> QED
      BY <2>2, <2>3, <2>4, <2>5
<1>9. Targets # {} => /\ LongestOf(Timeouts) \in Int
                      /\ \A t \in Timeouts : t <= LongestOf(Timeouts)
  <2>1. SUFFICES ASSUME Targets # {} PROVE Timeouts # {} /\ Timeouts \subseteq Int /\ IsFiniteSet(Timeouts)
        BY LongestFacts
  <2>2. Timeouts # {} /\ Timeouts \subseteq Int
        BY <2>1, <1>0, <1>2, BuiltFacts
  <2>3. IsFiniteSet(DOMAIN built)
    <3>1. DOMAIN built \subseteq DOMAIN env.blocks /\ IsFiniteSet(DOMAIN env.blocks)
          BY <1>0, ListedFacts DEF Inv, Kept, EnvironmentOK
    <3> QED
        BY <3>1, FS_Subset
  <2>4. [i \in DOMAIN built |-> built[i].scrape] \in Surjection(DOMAIN built, Timeouts)
        BY DEF Surjection
  <2>5. IsFiniteSet(Timeouts)
        BY <2>3, <2>4, FS_Surjection
  <2> QED
      BY <2>2, <2>5
<1> HIDE DEF Index, Of, Targets, Timeouts
<1>10. Data'
  <2>1. scrape' \in [Scrapes -> [state : Status, target : Names \cup {Process}, age : Nat]]
        BY <1>0, <1>1 DEF Data
  <2>2. DOMAIN served' = Targets /\ Targets \subseteq Names
        BY <1>1, <1>8
  <2>3. served' \in [Targets -> [scrape : Nat \ {0}, collect : Int]]
    <3>1. \A n \in Targets : Of(n) \in [scrape : Nat \ {0}, collect : Int]
          BY <1>8 DEF Of
    <3> QED
        BY <3>1, <1>1
  <2>4. gather' \in [Targets -> Int]
        BY <1>1, <2>2 DEF NoGather
  <2>5. ASSUME NEW n \in Targets
        PROVE  /\ served'[n].collect = CollectTimeout(served'[n].scrape)
               /\ write' \in Int /\ served'[n].scrape < write'
    <3>1. served'[n] = Of(n)
          BY <1>1
    <3>2. LongestOf(Timeouts) \in Int /\ Of(n).scrape <= LongestOf(Timeouts)
          BY <1>8, <1>9
    <3>3. /\ write' \in Int /\ Of(n).scrape < write'
          BY <3>2, <1>1, <1>8, DurationAssumption DEF WriteTimeout
    <3> QED
        BY <3>1, <3>3, <1>8
  <2> QED
      BY <2>1, <2>2, <2>3, <2>4, <2>5 DEF Data
<1>11. Timed'
      BY <1>4, <1>5 DEF Timed, Away
<1>12. AnsweredInTime'
      BY <1>4 DEF AnsweredInTime, Away
<1> QED
    BY <1>3, <1>6, <1>10, <1>11, <1>12 DEF ServeInv

LEMMA SignalSteps ==
    ASSUME ServeAssumption, ServeInv, AcceptFails \/ Signal \/ SelectSignal
    PROVE  ServeInv'
<1>0. Inv /\ Control /\ Data /\ Timed /\ AnsweredInTime
      BY DEF ServeInv
<1>1. /\ UNCHANGED vars /\ UNCHANGED <<exit, served, write, scrape, gather>>
      /\ server \in {"up", "stopping"} /\ server' \in {"up", "stopping"}
      /\ signal' \in BOOLEAN /\ failed' \in BOOLEAN /\ grace' \in 0..GracefulTimeout
  <2>1. CASE AcceptFails
        BY <2>1, <1>0 DEF AcceptFails, Control, vars
  <2>2. CASE Signal
        BY <2>2, <1>0 DEF Signal, Control, vars
  <2>3. CASE SelectSignal
    <3>1. GracefulTimeout \in 0..GracefulTimeout
          BY ServeAssumption
    <3> QED
        BY <2>3, <3>1, <1>0 DEF SelectSignal, Control, vars
  <2> QED
      BY <2>1, <2>2, <2>3
<1>2. Inv' /\ phase' = phase
      BY <1>0, <1>1, StutterStep DEF vars
<1>3. Waiting' = Waiting /\ Running' = Running
      BY <1>1 DEF Waiting, Running
<1>4. Control'
      BY <1>0, <1>1, <1>2 DEF Control
<1>5. Data' /\ AnsweredInTime'
      BY <1>0, <1>1 DEF Data, AnsweredInTime
<1>6. Timed'
      BY <1>0, <1>1, <1>3 DEF Timed
<1> QED
    BY <1>2, <1>4, <1>5, <1>6 DEF ServeInv

\* The steps of the scrapes leave the rest of the server alone.
LEMMA ScrapeControl ==
    ASSUME ServeInv, server \in {"up", "stopping"}, UNCHANGED vars,
           UNCHANGED <<server, exit, signal, failed>>, grace' \in 0..GracefulTimeout
    PROVE  Inv' /\ Control'
<1>1. Inv' /\ phase' = phase
      BY StutterStep DEF ServeInv, vars
<1> QED
    BY <1>1 DEF ServeInv, Control

LEMMA ArriveStep ==
    ASSUME ServeAssumption, ServeInv, NEW s \in Scrapes, NEW n \in DOMAIN served, Arrive(s, n)
    PROVE  ServeInv'
<1>0. Control /\ Data /\ Timed /\ AnsweredInTime
      BY DEF ServeInv
<1> DEFINE new == [state |-> "waiting", target |-> n, age |-> 0]
           lead == IF HasDeadline(served[n].collect) THEN served[n].collect + Slack ELSE Endless
<1>1. /\ server \in {"up", "stopping"} /\ scrape[s].state = "away"
      /\ scrape' = [scrape EXCEPT ![s] = new]
      /\ gather' = IF n \in Running THEN gather ELSE [gather EXCEPT ![n] = lead]
      /\ UNCHANGED <<vars, server, exit, signal, failed, grace, served, write>>
      BY DEF Arrive
<1>2. Inv' /\ Control'
      BY <1>0, <1>1, ScrapeControl DEF Control, vars
<1>3. /\ scrape'[s] = new
      /\ \A r \in Scrapes \ {s} : scrape'[r] = scrape[r]
      BY <1>0, <1>1 DEF Data
<1>4. /\ served[n].scrape \in Nat \ {0} /\ served[n].collect \in Int /\ n \in Names
      BY <1>0 DEF Data
<1>5. /\ HasDeadline(served[n].collect) => lead \in 0..(served[n].collect + Slack)
      /\ lead \in Int /\ lead # NoGather
      BY <1>4, ServeAssumption DEF HasDeadline, Endless, NoGather
<1>6. \A m \in DOMAIN served : m # n => gather'[m] = gather[m]
      BY <1>0, <1>1 DEF Data
<1>7. n \in Running => gather'[n] = gather[n]
      BY <1>1
<1>8. n \notin Running => gather'[n] = lead
      BY <1>0, <1>1 DEF Data
<1>9. Data'
  <2>1. new \in [state : Status, target : Names \cup {Process}, age : Nat]
        BY <1>4 DEF Status
  <2>2. scrape' \in [Scrapes -> [state : Status, target : Names \cup {Process}, age : Nat]]
        BY <2>1, <1>0, <1>1 DEF Data
  <2>3. gather' \in [DOMAIN served -> Int]
        BY <1>0, <1>1, <1>5 DEF Data
  <2> HIDE DEF new, lead
  <2> QED
      BY <2>2, <2>3, <1>0, <1>1 DEF Data
<1> HIDE DEF lead
<1>10. Running' = Running \cup {n}
  <2>1. DOMAIN gather = DOMAIN served /\ DOMAIN gather' = DOMAIN served
        BY <1>0, <1>9, <1>1 DEF Data
  <2>2. gather'[n] # NoGather
        BY <1>5, <1>7, <1>8 DEF Running
  <2> QED
      BY <2>1, <2>2, <1>6 DEF Running
<1>11. \A m \in Running' : HasDeadline(served[m].collect) => gather'[m] \in 0..(served[m].collect + Slack)
  <2>1. Running \subseteq DOMAIN served
        BY <1>0 DEF Data, Running
  <2> QED
      BY <2>1, <1>0, <1>5, <1>6, <1>7, <1>8, <1>10 DEF Timed
<1>12. Timed'
  <2>1. \A r \in Scrapes : scrape'[r].state # "away" =>
           /\ scrape'[r].target \in DOMAIN served
           /\ scrape'[r].age <= served[scrape'[r].target].scrape
        BY <1>0, <1>3, <1>4 DEF Timed
  <2>2. ASSUME NEW r \in Waiting'
        PROVE  LET m == scrape'[r].target
               IN /\ m \in Running'
                  /\ HasDeadline(served[m].collect) =>
                        scrape'[r].age + gather'[m] <= served[m].collect + Slack
    <3>1. CASE r = s
      <4>1. scrape'[r].target = n /\ scrape'[r].age = 0
            BY <3>1, <1>3
      <4>2. HasDeadline(served[n].collect) => 0 + gather'[n] <= served[n].collect + Slack
            BY <1>4, <1>10, <1>11, ServeAssumption
      <4> QED
          BY <4>1, <4>2, <1>10
    <3>2. CASE r # s
      <4>1. r \in Waiting /\ scrape'[r] = scrape[r]
            BY <3>2, <1>3 DEF Waiting
      <4>2. scrape[r].target \in Running
            BY <4>1, <1>0 DEF Timed
      <4>3. gather'[scrape[r].target] = gather[scrape[r].target]
            BY <4>2, <1>0, <1>6, <1>7 DEF Running, Data
      <4> QED
          BY <4>1, <4>2, <4>3, <1>0, <1>10 DEF Timed
    <3> QED
        BY <3>1, <3>2
  <2> QED
      BY <2>1, <2>2, <1>1, <1>11 DEF Timed
<1>13. AnsweredInTime'
      BY <1>0, <1>1, <1>3 DEF AnsweredInTime
<1> QED
    BY <1>2, <1>9, <1>12, <1>13 DEF ServeInv

LEMMA GatherEndsStep ==
    ASSUME ServeInv, NEW n \in DOMAIN gather, GatherEnds(n)
    PROVE  ServeInv'
<1>0. Control /\ Data /\ Timed /\ AnsweredInTime
      BY DEF ServeInv
<1>1. /\ server \in {"up", "stopping"} /\ n \in Running
      /\ gather' = [gather EXCEPT ![n] = NoGather]
      /\ scrape' = [s \in Scrapes |-> IF s \in Waiting /\ scrape[s].target = n
                                        THEN Become(s, "data") ELSE scrape[s]]
      /\ UNCHANGED <<vars, server, exit, signal, failed, grace, served, write>>
      BY DEF GatherEnds
<1>2. Inv' /\ Control'
      BY <1>0, <1>1, ScrapeControl DEF Control, vars
<1>3. ASSUME NEW s \in Scrapes
      PROVE  /\ scrape'[s] \in [state : Status, target : Names \cup {Process}, age : Nat]
             /\ scrape'[s].target = scrape[s].target /\ scrape'[s].age = scrape[s].age
             /\ \/ scrape'[s].state = "data" /\ scrape[s].state = "waiting"
                \/ scrape'[s].state = scrape[s].state
             /\ scrape'[s].state = "waiting" => scrape[s].target # n
  <2>1. scrape[s] \in [state : Status, target : Names \cup {Process}, age : Nat]
        BY <1>0 DEF Data
  <2>2. CASE s \in Waiting /\ scrape[s].target = n
    <3>1. scrape'[s] = [scrape[s] EXCEPT !.state = "data"]
          BY <2>2, <1>1 DEF Become
    <3> QED
        BY <2>1, <2>2, <3>1 DEF Status, Waiting
  <2>3. CASE ~(s \in Waiting /\ scrape[s].target = n)
        BY <2>1, <2>3, <1>1 DEF Waiting
  <2> QED
      BY <2>2, <2>3
<1>4. Data'
  <2>1. scrape' \in [Scrapes -> [state : Status, target : Names \cup {Process}, age : Nat]]
        BY <1>1, <1>3
  <2>2. gather' \in [DOMAIN served -> Int]
        BY <1>0, <1>1 DEF Data, NoGather
  <2> QED
      BY <2>1, <2>2, <1>0, <1>1 DEF Data
<1>5. Running' = Running \ {n} /\ \A m \in Running' : gather'[m] = gather[m]
      BY <1>0, <1>1 DEF Data, Running
<1>6. Timed'
  <2>1. \A s \in Scrapes : scrape'[s].state # "away" =>
           /\ scrape'[s].target \in DOMAIN served
           /\ scrape'[s].age <= served[scrape'[s].target].scrape
        BY <1>0, <1>3 DEF Timed
  <2>2. \A m \in Running' : HasDeadline(served[m].collect) =>
           gather'[m] \in 0..(served[m].collect + Slack)
        BY <1>0, <1>5 DEF Timed
  <2>3. ASSUME NEW s \in Waiting'
        PROVE  LET m == scrape'[s].target
               IN /\ m \in Running'
                  /\ HasDeadline(served[m].collect) =>
                        scrape'[s].age + gather'[m] <= served[m].collect + Slack
    <3>1. s \in Waiting /\ scrape[s].target # n
          BY <1>3 DEF Waiting
    <3> QED
        BY <3>1, <1>0, <1>3, <1>5 DEF Timed, Waiting
  <2> QED
      BY <2>1, <2>2, <2>3, <1>1 DEF Timed
<1>7. AnsweredInTime'
  <2>1. ASSUME NEW s \in Scrapes, scrape[s].state = "waiting"
        PROVE  scrape[s].age < write
    <3>1. /\ scrape[s].target \in DOMAIN served
          /\ scrape[s].age <= served[scrape[s].target].scrape
          BY <2>1, <1>0 DEF Timed
    <3>2. /\ scrape[s].age \in Nat /\ served[scrape[s].target].scrape \in Nat
          /\ write \in Int /\ served[scrape[s].target].scrape < write
          BY <3>1, <1>0 DEF Data
    <3> QED
        BY <3>1, <3>2
  <2> QED
      BY <2>1, <1>0, <1>1, <1>3 DEF AnsweredInTime
<1> QED
    BY <1>2, <1>4, <1>6, <1>7 DEF ServeInv

\* A scrape that nobody waits for any more.
LEMMA EndOfScrape ==
    ASSUME ServeInv, NEW s \in Scrapes, scrape[s].state # "away",
           server \in {"up", "stopping"},
           NEW new \in [state : Status, target : Names \cup {Process}, age : Nat],
           \/ new = Away
           \/ /\ new = Become(s, "timeout")
              /\ ~Leaves(Slack, served[scrape[s].target].scrape),
           scrape' = [scrape EXCEPT ![s] = new],
           UNCHANGED <<vars, server, exit, signal, failed, grace, served, write, gather>>
    PROVE  ServeInv'
<1>0. Control /\ Data /\ Timed /\ AnsweredInTime
      BY DEF ServeInv
<1>1. Inv' /\ Control'
      BY <1>0, ScrapeControl DEF Control, vars
<1>2. scrape'[s] = new /\ \A r \in Scrapes \ {s} : scrape'[r] = scrape[r]
      BY <1>0 DEF Data
<1>3. Data'
      BY <1>0 DEF Data
<1>4. scrape[s] \in [state : Status, target : Names \cup {Process}, age : Nat]
      BY <1>0 DEF Data
<1>5. \/ new.state = "away"
      \/ /\ new.state = "timeout" /\ new.target = scrape[s].target /\ new.age = scrape[s].age
         /\ ~Leaves(Slack, served[scrape[s].target].scrape)
      BY <1>4 DEF Become, Away
<1>6. Waiting' = Waiting \ {s} /\ Running' = Running
      BY <1>2, <1>5 DEF Waiting, Running
<1>7. Timed'
  <2>1. \A r \in Scrapes : scrape'[r].state # "away" =>
           /\ scrape'[r].target \in DOMAIN served
           /\ scrape'[r].age <= served[scrape'[r].target].scrape
        BY <1>0, <1>2, <1>5 DEF Timed
  <2>2. \A r \in Waiting' : r \in Waiting /\ scrape'[r] = scrape[r]
        BY <1>2, <1>6 DEF Waiting
  <2> QED
      BY <2>1, <2>2, <1>0, <1>6 DEF Timed
<1>8. AnsweredInTime'
  <2>1. /\ scrape[s].target \in DOMAIN served
        /\ scrape[s].age <= served[scrape[s].target].scrape
        BY <1>0 DEF Timed
  <2>2. scrape[s].age < write
    <3>1. /\ scrape[s].age \in Nat /\ served[scrape[s].target].scrape \in Nat
          /\ write \in Int /\ served[scrape[s].target].scrape < write
          BY <2>1, <1>0 DEF Data
    <3> QED
        BY <2>1, <3>1
  <2> QED
      BY <2>2, <1>0, <1>2, <1>5 DEF AnsweredInTime
<1> QED
    BY <1>1, <1>3, <1>7, <1>8 DEF ServeInv

LEMMA TimeOutStep ==
    ASSUME ServeAssumption, ServeInv, NEW s \in Scrapes, TimeOut(s)
    PROVE  ServeInv'
<1>0. Control /\ Data /\ Timed
      BY DEF ServeInv
<1> DEFINE n == scrape[s].target
<1>1. /\ server \in {"up", "stopping"} /\ s \in Waiting /\ scrape[s].age = served[n].scrape
      /\ scrape' = [scrape EXCEPT ![s] = Become(s, "timeout")]
      /\ UNCHANGED <<vars, server, exit, signal, failed, grace, served, write, gather>>
      BY DEF TimeOut, Overdue
<1>2. scrape[s] \in [state : Status, target : Names \cup {Process}, age : Nat]
      BY <1>0 DEF Data
<1>3. /\ Become(s, "timeout") \in [state : Status, target : Names \cup {Process}, age : Nat]
      /\ scrape[s].state # "away"
      BY <1>1, <1>2 DEF Become, Status, Waiting
<1>4. ~Leaves(Slack, served[n].scrape)
  <2>1. SUFFICES ASSUME Leaves(Slack, served[n].scrape) PROVE FALSE
        OBVIOUS
  <2>2. /\ n \in Running /\ n \in DOMAIN served
        /\ HasDeadline(served[n].collect) =>
              /\ scrape[s].age + gather[n] <= served[n].collect + Slack
              /\ gather[n] \in 0..(served[n].collect + Slack)
        BY <1>0, <1>1, <1>3 DEF Timed
  <2>3. /\ served[n].scrape \in Nat /\ served[n].collect = CollectTimeout(served[n].scrape)
        /\ served[n].collect \in Int
        BY <2>2, <1>0 DEF Data
  <2>4. HasDeadline(served[n].collect) /\ served[n].collect + Slack < served[n].scrape
        BY <2>1, <2>3, ServeAssumption, DeadlineLeavesTime
  <2> QED
      BY <2>2, <2>3, <2>4, <1>1, ServeAssumption
<1> QED
    BY <1>1, <1>3, <1>4, EndOfScrape

LEMMA LeaveStep ==
    ASSUME ServeInv, NEW s \in Scrapes, Leave(s)
    PROVE  ServeInv'
<1>1. /\ server \in {"up", "stopping"} /\ scrape[s].state # "away"
      /\ scrape' = [scrape EXCEPT ![s] = Away]
      /\ UNCHANGED <<vars, server, exit, signal, failed, grace, served, write, gather>>
      BY DEF Leave
<1>2. Away \in [state : Status, target : Names \cup {Process}, age : Nat]
      BY DEF Away, Status
<1> QED
    BY <1>1, <1>2, EndOfScrape

LEMMA TickStep ==
    ASSUME ServeAssumption, ServeInv, Tick
    PROVE  ServeInv'
<1>0. Control /\ Data /\ Timed /\ AnsweredInTime
      BY DEF ServeInv
<1>1. /\ server \in {"up", "stopping"}
      /\ \A s \in Waiting : scrape[s].age # served[scrape[s].target].scrape
      /\ \A n \in Running : gather[n] # 0
      /\ server = "stopping" => grace > 0
      /\ grace' = IF server = "stopping" THEN grace - 1 ELSE grace
      /\ scrape' = [s \in Scrapes |-> IF s \in Waiting THEN [scrape[s] EXCEPT !.age = @ + 1]
                                                       ELSE scrape[s]]
      /\ gather' = [n \in DOMAIN gather |-> IF gather[n] > 0 THEN gather[n] - 1 ELSE gather[n]]
      /\ UNCHANGED <<vars, server, exit, signal, failed, served, write>>
      BY DEF Tick, Overdue
<1>2. Inv' /\ Control'
  <2>1. grace' \in 0..GracefulTimeout
        BY <1>0, <1>1, ServeAssumption DEF Control
  <2> QED
      BY <2>1, <1>0, <1>1, ScrapeControl DEF vars
<1>3. ASSUME NEW s \in Scrapes
      PROVE  /\ scrape'[s] \in [state : Status, target : Names \cup {Process}, age : Nat]
             /\ scrape'[s].target = scrape[s].target /\ scrape'[s].state = scrape[s].state
             /\ s \in Waiting => scrape'[s].age = scrape[s].age + 1
             /\ s \notin Waiting => scrape'[s].age = scrape[s].age
  <2>1. scrape[s] \in [state : Status, target : Names \cup {Process}, age : Nat]
        BY <1>0 DEF Data
  <2>2. CASE s \in Waiting
    <3>1. scrape'[s] = [scrape[s] EXCEPT !.age = scrape[s].age + 1]
          BY <2>2, <1>1
    <3> QED
        BY <2>1, <2>2, <3>1
  <2>3. CASE s \notin Waiting
        BY <2>1, <2>3, <1>1
  <2> QED
      BY <2>2, <2>3
<1>4. DOMAIN gather = DOMAIN served /\ \A n \in DOMAIN served : gather[n] \in Int
      BY <1>0 DEF Data
<1>5. Waiting' = Waiting /\ Running' = Running
  <2>1. Waiting' = Waiting
        BY <1>3 DEF Waiting
  <2>2. DOMAIN gather' = DOMAIN gather
        BY <1>1
  <2>3. \A n \in DOMAIN gather : gather'[n] # NoGather <=> gather[n] # NoGather
        BY <1>1, <1>4 DEF NoGather
  <2> QED
      BY <2>1, <2>2, <2>3 DEF Running
<1>6. Data'
  <2>1. scrape' \in [Scrapes -> [state : Status, target : Names \cup {Process}, age : Nat]]
        BY <1>1, <1>3
  <2>2. gather' \in [DOMAIN served -> Int]
        BY <1>1, <1>4
  <2> QED
      BY <2>1, <2>2, <1>0, <1>1 DEF Data
<1>7. ASSUME NEW n \in Running, HasDeadline(served[n].collect)
      PROVE  /\ gather[n] \in 1..(served[n].collect + Slack) /\ gather'[n] = gather[n] - 1
             /\ served[n].collect \in Int
  <2>1. n \in DOMAIN served /\ served[n].collect \in Int
        BY <1>0, <1>4 DEF Data, Running
  <2>2. gather[n] \in 0..(served[n].collect + Slack) /\ gather[n] # 0
        BY <1>0, <1>1, <1>7 DEF Timed
  <2>3. gather'[n] = gather[n] - 1
        BY <1>1, <1>4, <2>1, <2>2, ServeAssumption
  <2> QED
      BY <2>1, <2>2, <2>3, ServeAssumption
<1>8. Timed'
  <2>1. ASSUME NEW s \in Scrapes, scrape'[s].state # "away"
        PROVE  /\ scrape'[s].target \in DOMAIN served
               /\ scrape'[s].age <= served[scrape'[s].target].scrape
    <3>1. /\ scrape[s].target \in DOMAIN served
          /\ scrape[s].age <= served[scrape[s].target].scrape
          BY <2>1, <1>0, <1>3 DEF Timed
    <3>2. scrape[s].age \in Nat /\ served[scrape[s].target].scrape \in Nat
          BY <3>1, <1>0 DEF Data
    <3> QED
        BY <3>1, <3>2, <1>1, <1>3
  <2>2. \A n \in Running' : HasDeadline(served'[n].collect) =>
           gather'[n] \in 0..(served'[n].collect + Slack)
        BY <1>1, <1>5, <1>7, ServeAssumption
  <2>3. ASSUME NEW s \in Waiting
        PROVE  LET n == scrape'[s].target
               IN /\ n \in Running
                  /\ HasDeadline(served[n].collect) =>
                        scrape'[s].age + gather'[n] <= served[n].collect + Slack
    <3>1. s \in Scrapes /\ scrape[s].target \in Running
          BY <1>0 DEF Timed, Waiting
    <3>2. scrape[s].age \in Nat
          BY <3>1, <1>0 DEF Data
    <3>3. SUFFICES ASSUME HasDeadline(served[scrape[s].target].collect)
                   PROVE  scrape[s].age + 1 + gather'[scrape[s].target]
                             <= served[scrape[s].target].collect + Slack
          BY <3>1, <1>3
    <3>4. scrape[s].age + gather[scrape[s].target] <= served[scrape[s].target].collect + Slack
          BY <3>3, <1>0 DEF Timed
    <3> QED
        BY <3>1, <3>2, <3>3, <3>4, <1>7, ServeAssumption
  <2> QED
      BY <2>1, <2>2, <2>3, <1>1, <1>5 DEF Timed
<1>9. AnsweredInTime'
      BY <1>0, <1>1, <1>3 DEF AnsweredInTime, Waiting
<1> QED
    BY <1>2, <1>6, <1>8, <1>9 DEF ServeInv

LEMMA ServeNextInv ==
    ASSUME StartupAssumption, ServeAssumption, ServeInv, [ServeNext]_serveVars
    PROVE  ServeInv'
<1>1. CASE UNCHANGED serveVars
  <2>1. UNCHANGED vars /\ UNCHANGED runVars
        BY <1>1 DEF serveVars
  <2>2. Inv' /\ phase' = phase
        BY <2>1, StutterStep DEF ServeInv, vars
  <2> QED
      BY <2>1, <2>2, SameRun
<1>2. CASE Boot
      BY <1>2, BootStep
<1>3. CASE Listen
      BY <1>3, ListenStep
<1>4. CASE Refused \/ ListenFails \/ SelectError \/ ShutdownDone \/ ShutdownFails
      BY <1>4, ExitSteps
<1>5. CASE AcceptFails \/ Signal \/ SelectSignal
      BY <1>5, SignalSteps
<1>6. ASSUME NEW s \in Scrapes, NEW n \in DOMAIN served, Arrive(s, n)
      PROVE  ServeInv'
      BY <1>6, ArriveStep
<1>7. ASSUME NEW s \in Scrapes, TimeOut(s) \/ Leave(s)
      PROVE  ServeInv'
      BY <1>7, TimeOutStep, LeaveStep
<1>8. ASSUME NEW n \in DOMAIN gather, GatherEnds(n)
      PROVE  ServeInv'
      BY <1>8, GatherEndsStep
<1>9. CASE Tick
      BY <1>9, TickStep
<1>10. CASE Gone
      BY <1>1, <1>10 DEF Gone
<1> QED
    BY <1>1, <1>2, <1>3, <1>4, <1>5, <1>6, <1>7, <1>8, <1>9, <1>10
    DEF ServeNext, Start, Select, Shutdown

-----------------------------------------------------------------------------
(* Theorems *)

\* The invariant that the others follow from: the bookkeeping of startup, and
\* how old a scrape can be by the time its gather has left.
THEOREM ServeInvariance == ServeSpec => []ServeInv
<1>1. ServeInit => ServeInv
      BY StartupAssumption, ServeAssumption, ServeInitInv
<1>2. ServeInv /\ [ServeNext]_serveVars => ServeInv'
      BY StartupAssumption, ServeAssumption, ServeNextInv
<1> QED
    BY <1>1, <1>2, PTL DEF ServeSpec

\* The variables keep their types, for any number of targets and connections.
THEOREM ServeTypeCorrect == ServeSpec => []ServeTypeOK
<1>1. ASSUME ServeInv PROVE ServeTypeOK
  <2>0. Inv /\ Control /\ Data /\ Timed
        BY <1>1 DEF ServeInv
  <2>1. TypeOK
        BY <2>0 DEF Inv, Placed, Kept, Seen, TypeOK
  <2>2. \A n \in DOMAIN served : served[n].scrape > 0 /\ gather[n] \in Int
        BY <2>0 DEF Data
  <2>3. ASSUME NEW s \in Scrapes, scrape[s].state # "away"
        PROVE  /\ scrape[s].target \in DOMAIN served
               /\ scrape[s].age \in 0..served[scrape[s].target].scrape
    <3>1. /\ scrape[s].target \in DOMAIN served
          /\ scrape[s].age <= served[scrape[s].target].scrape
          BY <2>0, <2>3 DEF Timed
    <3>2. scrape[s].age \in Nat /\ served[scrape[s].target].scrape \in Nat
          BY <2>0, <3>1 DEF Data
    <3> QED
        BY <3>1, <3>2
  <2>4. DOMAIN served \subseteq Names /\ DOMAIN gather = DOMAIN served
        BY <2>0 DEF Data
  <2> QED
      BY <2>0, <2>1, <2>2, <2>3, <2>4 DEF ServeTypeOK, Control
<1> QED
    BY <1>1, ServeInvariance, PTL

\* Whatever the timeouts of the targets, and whoever leads or joins a gather: a
\* scrape is answered with what was collected before it times out and before
\* the connection's deadline, and only an exit with an error cuts it off.
THEOREM ScrapesAnswered == ServeSpec => []AnsweredInTime
<1>1. ServeInv => AnsweredInTime
      BY DEF ServeInv
<1> QED
    BY <1>1, ServeInvariance, PTL

\* Serving keeps what startup promises: the steps of the server are steps of
\* Startup or leave it as it is, so FailsClosed holds of the whole process.
THEOREM ServesAsStarted == ServeSpec => Spec
<1>1. ServeInit => Init
      BY DEF ServeInit
<1>2. [ServeNext]_serveVars => [Next]_vars
  <2>1. CASE UNCHANGED serveVars
        BY <2>1 DEF serveVars
  <2>2. CASE Boot
        BY <2>2 DEF Boot, Next
  <2>3. CASE Listen \/ ListenFails
        BY <2>3 DEF Listen, ListenFails, Next
  <2>4. ASSUME \/ Refused \/ Select \/ Shutdown \/ AcceptFails \/ Signal \/ Tick \/ Gone
               \/ \E s \in Scrapes :
                     (\E n \in DOMAIN served : Arrive(s, n)) \/ TimeOut(s) \/ Leave(s)
               \/ \E n \in DOMAIN gather : GatherEnds(n)
        PROVE  UNCHANGED vars
        BY <2>4 DEF Refused, Select, SelectError, SelectSignal, Shutdown, ShutdownDone,
              ShutdownFails, AcceptFails, Signal, Tick, Gone, Arrive, TimeOut, Leave,
              GatherEnds, serveVars
  <2>5. SUFFICES ASSUME ServeNext PROVE [Next]_vars
        BY <2>1
  <2> QED
      BY <2>2, <2>3, <2>4, <2>5 DEF ServeNext, Start
<1> QED
    BY <1>1, <1>2, PTL DEF ServeSpec, Spec
=============================================================================

------------------------------ MODULE Startup ------------------------------
(***************************************************************************)
(* The start of `exportarr serve', from the environment to the targets that *)
(* are served: validation of the process settings (commands/root.go,        *)
(* config/config.go), the scan, parse and check of the TARGET_<n>_* blocks  *)
(* (targets/targets.go), and the resolution and validation of each target   *)
(* by its application's builder (targets/resolve.go, commands/serve.go).    *)
(* The loops over the targets take a step per target.                       *)
(*                                                                         *)
(* A value that the code only compares or copies is an integer, and one per *)
(* kind of setting is modelled.  A url is what the code reads of it: its    *)
(* key (urlKey) and whether ValidateURL accepts it.                         *)
(***************************************************************************)
EXTENDS Deadlines, FiniteSets

CONSTANTS
    Names,          \* what validName accepts
    Hosts,          \* the keys of URLs
    MaxSeries,      \* MaxSeriesConcurrency
    Unparsable,     \* what an env value is read as that does not parse
    Process,        \* where a problem is that is no target's
    Environments    \* the environments serve is started in

Apps == {"sonarr", "prowlarr", "bazarr", "sabnzbd"}     \* sonarr: radarr and lidarr too
Settings == {"SCRAPE_TIMEOUT", "SERIES_CONCURRENCY",
             "PROWLARR__BACKFILL_SINCE_DATE", "BAZARR__SERIES_BATCH_SIZE"}
NoKey == "no key"
Values == Int \cup {Unparsable}

\* The URL that is not given, and URLs that are not absolute, have no key; one
\* that ValidateURL accepts has one.
Urls == {u \in [key : Hosts \cup {NoKey}, given : BOOLEAN, valid : BOOLEAN] :
            (u.valid => u.key # NoKey) /\ (~u.given => u.key = NoKey)}

\* A TARGET_<n>_* block; own holds the settings with a value that is not empty.
BlockOK(b) ==
    /\ b \in [name : Names \cup {"invalid"}, app : Apps \cup {"invalid"}, url : Urls,
              apiKey : BOOLEAN, login : {"none", "half", "full"}, unknownKey : BOOLEAN,
              own : [DOMAIN b.own -> Values]]
    /\ DOMAIN b.own \subseteq Settings

EnvironmentOK(e) ==
    /\ e.valid \in BOOLEAN /\ e.parses \in BOOLEAN /\ e.single \in BOOLEAN
    /\ e.malformed \in BOOLEAN /\ e.cap \in Values
    /\ DOMAIN e.defaults = Settings /\ \A k \in Settings : e.defaults[k] \in Int
    /\ IsFiniteSet(DOMAIN e.blocks) /\ DOMAIN e.blocks \subseteq Nat
    /\ \A i \in DOMAIN e.blocks : BlockOK(e.blocks[i])

ASSUME StartupAssumption ==
    /\ Names \cap {"invalid"} = {} /\ NoKey \notin Hosts /\ MaxSeries \in Nat
    /\ Unparsable \notin Int /\ Process \notin Nat
    /\ \A e \in Environments : EnvironmentOK(e)

VARIABLES
    phase,      \* how far runServe got
    env,        \* the environment it started in
    at,         \* index of the target the loop is at
    errs,       \* the problems found, as <<where, what>>
    target,     \* cfg.Targets: the parsed blocks
    names,      \* the names and URL keys that validate has seen
    urls,
    exposed,    \* the blocks whose secrets are still in os.Environ
    built       \* the targets resolved and built

vars == <<phase, env, at, errs, target, names, urls, exposed, built>>

Phases == {"start", "process", "scan", "parse", "validate", "decide", "build", "ready",
           "refused", "served"}
Nothing == [i \in {} |-> 0]

Init ==
    /\ phase = "start"
    /\ env \in Environments
    /\ at = 0
    /\ errs = {}
    /\ target = Nothing /\ built = Nothing /\ names = {} /\ urls = {}
    /\ exposed = DOMAIN env.blocks

\* The contiguous indices from 0.
Listed == {i \in DOMAIN env.blocks : 0..i \subseteq DOMAIN env.blocks}

\* The next step of a loop over the targets, or what follows the loop.
Mut_Advance(next) ==
    IF at \in Listed THEN at' = at + 1 /\ UNCHANGED phase
                     ELSE at' = 0 /\ phase' = next
Advance(next) ==
    IF at + 1 \in Listed THEN at' = at + 1 /\ UNCHANGED phase
                         ELSE at' = 0 /\ phase' = next

-----------------------------------------------------------------------------
(* Process settings *)

\* Config.Validate.
ConfigValid == env.valid /\ env.defaults["SCRAPE_TIMEOUT"] > 0

\* PersistentPreRunE.
PreRun ==
    /\ phase = "start"
    /\ IF ConfigValid
          THEN phase' = "process" /\ UNCHANGED errs
          ELSE phase' = "refused" /\ errs' = {<<Process, "config">>}
    /\ UNCHANGED <<env, at, target, names, urls, exposed, built>>

\* LoadArrConfig and CheckProcessConfig; Load runs whatever they say.
CheckProcessConfig ==
    /\ phase = "process"
    /\ phase' = "scan"
    /\ errs' = IF ~env.parses THEN {<<Process, "defaults">>}
               ELSE IF env.single THEN {<<Process, "single">>} ELSE {}
    /\ UNCHANGED <<env, at, target, names, urls, exposed, built>>

-----------------------------------------------------------------------------
(* targets.Load *)

\* The cap and scanKeys.
Scan ==
    /\ phase = "scan"
    /\ errs' = errs \cup {e \in {<<Process, "cap">>} : env.cap = Unparsable}
                    \cup {e \in {<<Process, "malformed">>} : env.malformed}
                    \cup {<<i, "gap">> : i \in DOMAIN env.blocks \ Listed}
                    \cup {<<i, "unknown key">> :
                            i \in {j \in DOMAIN env.blocks : env.blocks[j].unknownKey}}
    /\ phase' = IF 0 \in Listed THEN "parse" ELSE "validate"
    /\ UNCHANGED <<env, at, target, names, urls, exposed, built>>

Unread(b) == {k \in DOMAIN b.own : b.own[k] = Unparsable}

\* A setting that does not parse is reported and reset.
Parsed(b) == [b EXCEPT !.own = [k \in DOMAIN b.own \ Unread(b) |-> b.own[k]]]

ParseTarget ==
    /\ phase = "parse"
    /\ target' = [i \in 0..at |-> IF i = at THEN Parsed(env.blocks[at]) ELSE target[i]]
    /\ errs' = errs \cup {<<at, k>> : k \in Unread(env.blocks[at])}
    /\ exposed' = exposed \ {at}
    /\ Advance("validate")
    /\ UNCHANGED <<env, names, urls, built>>

AllowedFor(key, app) ==
    CASE key = "PROWLARR__BACKFILL_SINCE_DATE" -> app = "prowlarr"
      [] key = "BAZARR__SERIES_BATCH_SIZE" -> app = "bazarr"
      [] key \in {"SERIES_CONCURRENCY", "login"} -> app # "sabnzbd"
      [] OTHER -> TRUE

GivenKeys(t) == DOMAIN t.own \cup {k \in {"login"} : t.login # "none"}

Problems(t) ==
       {k \in {"name"} : t.name \notin Names}
  \cup {k \in {"duplicate name"} : t.name \in names}
  \cup {k \in {"app"} : t.app \notin Apps}
  \cup {k \in {"url"} : ~t.url.given}
  \cup {k \in {"same url"} : t.url.key \in urls}
  \cup {k \in {"misplaced"} : t.app \in Apps /\ \E g \in GivenKeys(t) : ~AllowedFor(g, t.app)}
  \cup {k \in {"timeout"} : "SCRAPE_TIMEOUT" \in DOMAIN t.own /\ t.own["SCRAPE_TIMEOUT"] <= 0}

\* Target.validate; the first to use a name or a key keeps it.
Mut_ValidateTarget ==
    /\ phase = "validate" /\ at \in Listed
    /\ errs' = errs \cup {<<at, p>> : p \in Problems(target[at])}
    /\ LET sound == {t \in {target[at]} : Problems(t) = {}}
       IN /\ names' = names \cup {t.name : t \in sound}
          /\ urls' = urls \cup ({t.url.key : t \in sound} \cap Hosts)
    /\ Advance("decide")
    /\ UNCHANGED <<env, target, exposed, built>>
ValidateTarget ==
    /\ phase = "validate" /\ at \in Listed
    /\ errs' = errs \cup {<<at, p>> : p \in Problems(target[at])}
    /\ names' = names \cup ({target[at].name} \cap Names)
    /\ urls' = urls \cup ({target[at].url.key} \cap Hosts)
    /\ Advance("decide")
    /\ UNCHANGED <<env, target, exposed, built>>

NoTargets ==
    /\ phase = "validate" /\ at \notin Listed
    /\ errs' = errs \cup {<<Process, "no targets">>}
    /\ phase' = "decide"
    /\ UNCHANGED <<env, at, target, names, urls, exposed, built>>

Mut_TooSmall(cap, n) == cap # Unparsable /\ cap < n
TooSmall(cap, n) == cap # Unparsable /\ cap < n + 1

\* The cap's bound, and what runServe makes of all that was found.
Decide ==
    /\ phase = "decide"
    /\ errs' = errs \cup {e \in {<<Process, "small cap">>} :
                            TooSmall(env.cap, Cardinality(Listed))}
    /\ phase' = IF errs' = {} THEN "build" ELSE "refused"
    /\ UNCHANGED <<env, at, target, names, urls, exposed, built>>

-----------------------------------------------------------------------------
(* buildTargets *)

\* What a target sets itself, else the default.
Override(t, k) == IF k \in DOMAIN t.own THEN t.own[k] ELSE env.defaults[k]

\* The configuration that the collectors get, and the scrape timeout that their
\* deadline follows from.
Resolve(t) == [k \in Settings |-> Override(t, k)]
Mut_BaseTimeout(t) == env.defaults["SCRAPE_TIMEOUT"]
BaseTimeout(t) == Resolve(t)["SCRAPE_TIMEOUT"]

\* The scrape timeout of the target's handler.
HandlerTimeout(t) ==
    IF "SCRAPE_TIMEOUT" \in DOMAIN t.own THEN t.own["SCRAPE_TIMEOUT"]
                                         ELSE env.defaults["SCRAPE_TIMEOUT"]

\* What the configuration of any application rejects, and of each.  A date is 0
\* when empty, and negative when it is not one.
AnyRejects(t) == ~t.url.valid \/ ~t.apiKey
ArrRejects(t, s) ==
    t.app # "sabnzbd" /\ (t.login = "half" \/ s["SERIES_CONCURRENCY"] \notin 1..MaxSeries)
ProwlarrRejects(t, s) == t.app = "prowlarr" /\ s["PROWLARR__BACKFILL_SINCE_DATE"] < 0
BazarrRejects(t, s) == t.app = "bazarr" /\ s["BAZARR__SERIES_BATCH_SIZE"] < 1

Rejected(t, s) ==
    \/ HandlerTimeout(t) <= 0
    \/ AnyRejects(t) \/ ArrRejects(t, s) \/ ProwlarrRejects(t, s) \/ BazarrRejects(t, s)

\* A target that is built: its handler's timeout, and its collectors'.
Build(t) ==
    [name |-> t.name, app |-> t.app, key |-> t.url.key, settings |-> Resolve(t),
     scrape |-> HandlerTimeout(t), collect |-> CollectTimeout(BaseTimeout(t))]

BuildTarget ==
    /\ phase = "build"
    /\ LET t == target[at]
       IN IF Rejected(t, Resolve(t))
             THEN errs' = errs \cup {<<at, "rejected">>} /\ UNCHANGED built
             ELSE /\ built' = [i \in DOMAIN built \cup {at} |->
                                  IF i = at THEN Build(t) ELSE built[i]]
                  /\ UNCHANGED errs
    /\ Advance(IF errs' = {} THEN "ready" ELSE "refused")
    /\ UNCHANGED <<env, target, names, urls, exposed>>

NoEnvironment ==
    [valid |-> FALSE, parses |-> FALSE, single |-> FALSE, malformed |-> FALSE, cap |-> 0,
     defaults |-> [k \in Settings |-> 0], blocks |-> Nothing]

\* serveHTTP: what runServe read and built is only in the handlers from here on.
HandOver ==
    /\ phase = "ready"
    /\ phase' = "served"
    /\ env' = NoEnvironment
    /\ at' = 0 /\ errs' = {} /\ names' = {} /\ urls' = {} /\ exposed' = {}
    /\ target' = Nothing /\ built' = Nothing

Load == Scan \/ ParseTarget \/ ValidateTarget \/ NoTargets

Prepare == PreRun \/ CheckProcessConfig \/ Load \/ Decide \/ BuildTarget

Next == Prepare \/ HandOver

Spec == Init /\ [][Next]_vars

-----------------------------------------------------------------------------
(* Properties *)

TypeOK ==
    /\ phase \in Phases
    /\ EnvironmentOK(env)
    /\ at \in Nat /\ (phase \in {"parse", "build"} => at \in Listed)
    /\ names \subseteq Names /\ urls \subseteq Hosts
    /\ exposed \subseteq DOMAIN env.blocks
    /\ DOMAIN built \subseteq Listed

Applies(k, app) ==
    /\ k = "SERIES_CONCURRENCY" => app # "sabnzbd"
    /\ k = "PROWLARR__BACKFILL_SINCE_DATE" => app = "prowlarr"
    /\ k = "BAZARR__SERIES_BATCH_SIZE" => app = "bazarr"

\* What a block may be, whatever the others are: known keys that apply to its
\* application, values that parse, a timeout it can be scraped with ...
WellFormed(b) ==
    /\ b.name \in Names /\ b.app \in Apps /\ b.url.given /\ ~b.unknownKey
    /\ \A k \in DOMAIN b.own : b.own[k] # Unparsable /\ Applies(k, b.app)
    /\ b.login # "none" => b.app # "sabnzbd"
    /\ "SCRAPE_TIMEOUT" \in DOMAIN b.own => b.own["SCRAPE_TIMEOUT"] > 0

\* ... and what its application's own subcommand accepts.
Effective(b, k) == IF k \in DOMAIN b.own THEN b.own[k] ELSE env.defaults[k]
Accepted(b) ==
    /\ b.url.valid /\ b.apiKey /\ b.login # "half"
    /\ b.app # "sabnzbd" => Effective(b, "SERIES_CONCURRENCY") \in 1..MaxSeries
    /\ b.app = "prowlarr" => Effective(b, "PROWLARR__BACKFILL_SINCE_DATE") >= 0
    /\ b.app = "bazarr" => Effective(b, "BAZARR__SERIES_BATCH_SIZE") >= 1

\* Two blocks that cannot both be targets.
Clash(i, j) ==
    LET b == env.blocks[i] c == env.blocks[j]
    IN b.name = c.name \/ (b.url.key = c.url.key /\ b.url.key # NoKey)

\* What Load makes sure of before any target is built.
Consistent ==
    /\ env.valid /\ env.defaults["SCRAPE_TIMEOUT"] > 0 /\ env.parses /\ ~env.single
    /\ ~env.malformed /\ 0 \in DOMAIN env.blocks
    /\ env.cap # Unparsable /\ env.cap >= Cardinality(DOMAIN env.blocks) + 1
    /\ \A i \in DOMAIN env.blocks :
          /\ 0..i \subseteq DOMAIN env.blocks
          /\ WellFormed(env.blocks[i])
          /\ \A j \in DOMAIN env.blocks \ {i} : ~Clash(i, j)

Sound == Consistent /\ \A i \in DOMAIN env.blocks : Accepted(env.blocks[i])

\* A problem of the block is reported.
Named(i) == \E what \in {e[2] : e \in errs} : <<i, what>> \in errs

\* "Startup is strict and fails closed" (README.md:163): what is served was
\* sound as a whole - contiguous blocks, each with its own name and URL, the
\* slots of SlotPool's assumption - and what is refused was not.  No block's
\* secrets are in os.Environ by then, nor, once Load is past it, those of a
\* listed block, whatever else is wrong (serve.go:45).
FailsClosed ==
    /\ phase = "ready" => Sound /\ exposed = {}
    /\ phase = "refused" => ~Sound
    /\ phase \in {"validate", "decide", "build"} => exposed \cap Listed = {}

\* Nobody has to fix his blocks one by one: a refusal names every block that is
\* not well formed, and the later of any two that clash, whatever is wrong with
\* the first - or, when all that is in order, every block that its application
\* rejects.
NamesEveryCulprit ==
    LET Listless == {i \in DOMAIN env.blocks : i \notin Listed \/ ~WellFormed(env.blocks[i])}
        Clashing == {p \in Listed \X Listed : p[1] < p[2] /\ Clash(p[1], p[2])}
    IN phase = "refused" /\ <<Process, "config">> \notin errs =>
          /\ \A i \in Listless : Named(i)
          /\ \A p \in Clashing : Named(p[2])
          /\ (\A e \in errs : e[2] = "rejected") =>
                \A i \in Listed : ~Accepted(env.blocks[i]) => Named(i)

\* A target runs with its own settings and the defaults for the rest, in both
\* places that read its scrape timeout, and nothing of another target's.
RunsAsWritten ==
    \A i \in DOMAIN built :
        LET b == env.blocks[i]
        IN /\ built[i].name = b.name /\ built[i].app = b.app /\ built[i].key = b.url.key
           /\ \A k \in Settings : built[i].settings[k] = Effective(b, k)
           /\ built[i].scrape = Effective(b, "SCRAPE_TIMEOUT")
           /\ built[i].collect = CollectTimeout(built[i].scrape)
=============================================================================

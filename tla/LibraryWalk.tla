---------------------------- MODULE LibraryWalk ----------------------------
(***************************************************************************)
(* Collect of the collectors that publish at their end (arr/collector):     *)
(* fetch the library, count each of its items with a bounded group of       *)
(* workers, fetch the rest, publish the totals (sonarr.go, lidarr.go); or   *)
(* fetch one thing after another and publish (radarr.go), or one thing      *)
(* only (history.go, health.go, rootfolder.go, diskspace.go).  One          *)
(* collection follows another: the overlap guard is the business of         *)
(* ScrapeStack.                                                             *)
(*                                                                         *)
(* A fetch is one call of a client (Transport).  A call sent after its      *)
(* context ended fails; one sent before may go either way whenever the      *)
(* context ends, so the outcome is decided when the call is sent.  A panic  *)
(* of a worker is an error of the group (goRecoverable).                    *)
(***************************************************************************)
EXTENDS Naturals, Sequences, FiniteSets

CONSTANTS
    Items,      \* what the library can hold: series or artists
    Limit,      \* seriesConcurrency
    Confs       \* the configurations a collector can be started with

Apps == {"sonarr", "lidarr", "radarr", "single"}
ConfType == [app : Apps, quality : BOOLEAN, entries : BOOLEAN, wanted : BOOLEAN]

ASSUME WalkAssumption == Limit \in Nat \ {0} /\ Confs \subseteq ConfType

If(cond, seq) == IF cond THEN seq ELSE <<>>

RadarrFetches(c) ==
    <<"library", "tag/detail", "qualitydefinition">> \o If(c.wanted, <<"wanted/cutoff">>)

SingleFetch == <<"library">>

\* The fetches of the collection itself before and after the walk, and those
\* of a worker for its item: entries are episodes or albums.
Before(c) ==
    CASE c.app = "radarr" -> RadarrFetches(c)
      [] c.app = "single" -> SingleFetch
      [] OTHER -> <<"library">> \o If(c.quality, <<"qualitydefinition">>)

After(c) ==
    CASE c.app = "sonarr" ->
            If(c.wanted, <<"wanted/missing", "wanted/cutoff">>) \o <<"tag/detail">>
      [] c.app = "lidarr" -> If(c.wanted, <<"wanted/missing">>)
      [] OTHER -> <<>>

Lookups(c) ==
    IF c.app \in {"radarr", "single"} THEN <<>>
    ELSE If(c.quality, <<"files">>) \o If(c.entries, <<"entries">>)

Kinds == {"files", "entries"}

VARIABLES
    conf,       \* the configuration, fixed at start
    phase,      \* "idle", "before", "launch", "go", "wait" or "after"
    fetches,    \* the collection's own fetches of this phase still to make
    library,    \* the items listed
    unvisited,  \* the items the loop has not reached
    running,    \* the workers started and not done
    lookups,    \* the lookups each worker still has to make
    failed,     \* the group has an error
    expired,    \* the collect timeout is over
    counted,    \* the items in each of the totals
    outcome,    \* of the last collection: "none", "error" or "totals"
    late        \* history: workers started after the group's context ended

walk == <<library, unvisited, running, lookups, failed, counted, late>>
vars == <<conf, phase, fetches, expired, outcome, walk>>

NothingCounted == [k \in Kinds |-> {}]

Init ==
    /\ conf \in Confs
    /\ phase = "idle"
    /\ fetches = <<>>
    /\ library = {} /\ unvisited = {} /\ running = {}
    /\ lookups = [i \in Items |-> <<>>]
    /\ failed = FALSE
    /\ expired = FALSE
    /\ counted = NothingCounted
    /\ outcome = "none"
    /\ late = 0

-----------------------------------------------------------------------------
Begin ==
    /\ phase = "idle"
    /\ phase' = "before"
    /\ fetches' = Before(conf)
    /\ library' = {} /\ unvisited' = {}
    /\ failed' = FALSE
    /\ expired' = FALSE
    /\ counted' = NothingCounted
    /\ outcome' = "none"
    /\ late' = 0
    /\ UNCHANGED <<conf, running, lookups>>

Expire ==
    /\ phase # "idle" /\ ~expired
    /\ expired' = TRUE
    /\ UNCHANGED <<conf, phase, fetches, outcome, walk>>

\* emitError, and out.
GiveUp ==
    /\ phase' = "idle"
    /\ fetches' = <<>>
    /\ outcome' = "error"
    /\ UNCHANGED <<conf, expired, walk>>

Fetch ==
    /\ phase \in {"before", "after"} /\ fetches # <<>>
    /\ ~expired
    /\ fetches' = Tail(fetches)
    /\ IF Head(fetches) = "library" THEN library' \in SUBSET Items ELSE UNCHANGED library
    /\ UNCHANGED <<conf, phase, expired, outcome, unvisited, running, lookups, failed, counted, late>>

FetchFails ==
    /\ phase \in {"before", "after"} /\ fetches # <<>>
    /\ GiveUp

StartWalk ==
    /\ phase = "before" /\ fetches = <<>> /\ Lookups(conf) # <<>>
    /\ phase' = "launch"
    /\ unvisited' = library
    /\ UNCHANGED <<conf, fetches, expired, outcome, library, running, lookups, failed, counted, late>>

SkipWalk ==
    /\ phase = "before" /\ fetches = <<>> /\ Lookups(conf) = <<>>
    /\ phase' = "after"
    /\ fetches' = After(conf)
    /\ UNCHANGED <<conf, expired, outcome, walk>>

-----------------------------------------------------------------------------
(* The loop over the items *)

\* egCtx.Err() != nil: the context of the group follows the collection's.
Ended == expired \/ failed

Mut_KeepsLaunching == unvisited # {}
KeepsLaunching == unvisited # {} /\ ~Ended

NextItem ==
    /\ phase = "launch" /\ KeepsLaunching
    /\ phase' = "go"
    /\ UNCHANGED <<conf, fetches, expired, outcome, walk>>

LoopOver ==
    /\ phase = "launch" /\ ~KeepsLaunching
    /\ phase' = "wait"
    /\ UNCHANGED <<conf, fetches, expired, outcome, walk>>

\* eg.Go blocks while Limit workers run; it does not look at the context.
Mut_HasPlace == Cardinality(running) <= Limit
HasPlace == Cardinality(running) < Limit

Go(i) ==
    /\ phase = "go" /\ i \in unvisited
    /\ HasPlace
    /\ phase' = "launch"
    /\ unvisited' = unvisited \ {i}
    /\ running' = running \cup {i}
    /\ lookups' = [lookups EXCEPT ![i] = Lookups(conf)]
    /\ late' = IF Ended THEN late + 1 ELSE late
    /\ UNCHANGED <<conf, fetches, expired, outcome, library, failed, counted>>

\* Wait returns once every worker is done, with the group's first error.
Mut_WaitOver == TRUE
WaitOver == running = {}

Mut_WaitFails == FALSE
WaitFails == failed

WalkFails ==
    /\ phase = "wait" /\ WaitOver /\ WaitFails
    /\ GiveUp

WalkDone ==
    /\ phase = "wait" /\ WaitOver /\ ~WaitFails
    /\ phase' = "after"
    /\ fetches' = After(conf)
    /\ UNCHANGED <<conf, expired, outcome, walk>>

Publish ==
    /\ phase = "after" /\ fetches = <<>>
    /\ phase' = "idle"
    /\ outcome' = "totals"
    /\ UNCHANGED <<conf, fetches, expired, walk>>

-----------------------------------------------------------------------------
(* A worker *)

Lookup(i) ==
    /\ i \in running /\ lookups[i] # <<>>
    /\ ~Ended
    /\ counted' = [counted EXCEPT ![Head(lookups[i])] = @ \cup {i}]
    /\ lookups' = [lookups EXCEPT ![i] = Tail(@)]
    /\ UNCHANGED <<conf, phase, fetches, expired, outcome,
                   library, unvisited, running, failed, late>>

\* The first error cancels the context of the group.
LookupFails(i) ==
    /\ i \in running /\ lookups[i] # <<>>
    /\ failed' = TRUE
    /\ lookups' = [lookups EXCEPT ![i] = <<>>]
    /\ UNCHANGED <<conf, phase, fetches, expired, outcome,
                   library, unvisited, running, counted, late>>

\* Counted or failed, the worker is done and its place in the group is free.
Mut_Leaving(i) == i \in running /\ lookups[i] = <<>> /\ ~failed
Leaving(i) == i \in running /\ lookups[i] = <<>>

Leave(i) ==
    /\ Leaving(i)
    /\ running' = running \ {i}
    /\ UNCHANGED <<conf, phase, fetches, expired, outcome,
                   library, unvisited, lookups, failed, counted, late>>

-----------------------------------------------------------------------------
Loop == NextItem \/ LoopOver \/ WalkFails \/ WalkDone \/ \E i \in Items : Go(i)
Collect == Begin \/ Fetch \/ FetchFails \/ StartWalk \/ SkipWalk \/ Loop \/ Publish
Worker(i) == Lookup(i) \/ LookupFails(i) \/ Leave(i)

Next == Collect \/ Expire \/ \E i \in Items : Worker(i)

Spec == Init /\ [][Next]_vars

\* The goroutines are scheduled, and a call ends: with an answer, or with the
\* deadline of its collection or its client.  Expire has no fairness.
Fairness ==
    /\ WF_vars(Collect)
    /\ \A i \in Items : WF_vars(Worker(i))

FairSpec == Spec /\ Fairness

-----------------------------------------------------------------------------
(* Properties *)

TypeOK ==
    /\ conf \in Confs
    /\ phase \in {"idle", "before", "launch", "go", "wait", "after"}
    /\ outcome \in {"none", "error", "totals"}
    /\ running \subseteq library /\ unvisited \subseteq library /\ library \subseteq Items
    /\ Cardinality(running) <= Limit
    /\ counted \in [Kinds -> SUBSET library]
    /\ failed \in BOOLEAN /\ expired \in BOOLEAN /\ late \in Nat

\* A collection that ran into its deadline or into a failed lookup raises the
\* error gauge; per-item totals are published only when they cover the whole
\* library (README.md:379: a collector cut short by its deadline "raises its
\* error gauge").
TotalsAreComplete ==
    outcome = "totals" =>
        \A k \in Kinds : (\E n \in DOMAIN Lookups(conf) : Lookups(conf)[n] = k) => counted[k] = library

\* The totals are read, and the collector returns and its mutex is given back,
\* only when no worker of this collection is left to write to them; and once an
\* error or the deadline ended the group, the loop launches no more than the one
\* worker it was already blocked on.
NoWorkerLeftBehind ==
    /\ running # {} => phase \in {"launch", "go", "wait"}
    /\ late <= 1

\* However the lookups go, a collection comes to its end and the next scrape
\* finds the collector free.
CollectionEnds == phase # "idle" ~> phase = "idle"
=============================================================================

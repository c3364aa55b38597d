---------------------------- MODULE ScrapeStack ----------------------------
(***************************************************************************)
(* One target's /metrics stack (commands/root.go newMetricsHandler,         *)
(* sharedGatherer): promhttp runs each scrape in a goroutine of its own,     *)
(* which outlives the scrape when that times out, admits a few at once and   *)
(* gathers; overlapping gathers are one (singleflight); a gather runs the    *)
(* collectors side by side, and each of them is guarded by a mutex it only   *)
(* tries (collectMu.TryLock in sonarr.go, lidarr.go and bazarr.go).         *)
(*                                                                         *)
(* promhttp, net/http's TimeoutHandler, the registry and singleflight are    *)
(* libraries: they are modelled as root.go uses them.  A collector that      *)
(* panics ends like any other (recoverCollect, safeCollector).              *)
(***************************************************************************)
EXTENDS Naturals, FiniteSets

CONSTANTS
    Scrapes,             \* requests: one that is over can come again
    Collectors,          \* the collectors in the target's registry
    MaxScrapesInFlight,
    NoOne

ASSUME StackAssumption ==
    /\ IsFiniteSet(Scrapes) /\ NoOne \notin Scrapes
    /\ MaxScrapesInFlight \in Nat \ {0}

VARIABLES
    request,    \* what the client has: "none", "open", "metrics", "refused" or "timeout"
    handler,    \* its goroutine: "none", "enter", "admitted", "lead", "join" or "write"
    call,       \* the scrape whose gather the handler runs or waits for
    flight,     \* the gather in the singleflight group
    progress,   \* by scrape that leads and collector: "none", "started", "ended"
    mutex,      \* each collector's collectMu
    skipped,    \* the collectors that found their mutex taken, by gather
    current     \* history: the gathers in flight at some time since the scrape came

collection == <<progress, mutex, skipped>>
vars == <<request, handler, call, flight, collection, current>>

Init ==
    /\ request = [s \in Scrapes |-> "none"]
    /\ handler = [s \in Scrapes |-> "none"]
    /\ call = [s \in Scrapes |-> NoOne]
    /\ flight = NoOne
    /\ progress = [s \in Scrapes |-> [c \in Collectors |-> "none"]]
    /\ mutex = [c \in Collectors |-> NoOne]
    /\ skipped = [s \in Scrapes |-> {}]
    /\ current = [s \in Scrapes |-> {}]

-----------------------------------------------------------------------------
(* promhttp *)

Arrive(s) ==
    /\ request[s] # "open" /\ handler[s] = "none"
    /\ request' = [request EXCEPT ![s] = "open"]
    /\ handler' = [handler EXCEPT ![s] = "enter"]
    /\ current' = [current EXCEPT ![s] = {flight} \ {NoOne}]
    /\ UNCHANGED <<call, flight, collection>>

InFlight == {s \in Scrapes : handler[s] \notin {"none", "enter"}}

Mut_HasRoom == TRUE
HasRoom == Cardinality(InFlight) < MaxScrapesInFlight

Admit(s) ==
    /\ handler[s] = "enter" /\ HasRoom
    /\ handler' = [handler EXCEPT ![s] = "admitted"]
    /\ UNCHANGED <<request, call, flight, collection, current>>

\* The client is told, unless it is gone already.
Reply(s, what) == request' = [request EXCEPT ![s] = IF @ = "open" THEN what ELSE @]

Refuse(s) ==
    /\ handler[s] = "enter" /\ ~HasRoom
    /\ handler' = [handler EXCEPT ![s] = "none"]
    /\ current' = [current EXCEPT ![s] = {}]
    /\ Reply(s, "refused")
    /\ UNCHANGED <<call, flight, collection>>

\* The scrape timeout, or the client closed the connection: the goroutine of
\* the handler keeps running, and keeps its place.
TimeOut(s) ==
    /\ request[s] = "open"
    /\ Reply(s, "timeout")
    /\ UNCHANGED <<handler, call, flight, collection, current>>

Write(s) ==
    /\ handler[s] = "write"
    /\ handler' = [handler EXCEPT ![s] = "none"]
    /\ call' = [call EXCEPT ![s] = NoOne]
    /\ current' = [current EXCEPT ![s] = {}]
    /\ Reply(s, "metrics")
    /\ UNCHANGED <<flight, collection>>

-----------------------------------------------------------------------------
(* sharedGatherer *)

Mut_Joinable_Never == {}
Mut_Joinable_Last == {s \in Scrapes : \A c \in Collectors : progress[s][c] = "ended"}
Joinable == {flight} \ {NoOne}

\* A gather in flight is joined, at whatever point it is.
Join(s) ==
    /\ handler[s] = "admitted"
    /\ \E l \in Joinable : call' = [call EXCEPT ![s] = l]
    /\ handler' = [handler EXCEPT ![s] = "join"]
    /\ UNCHANGED <<request, flight, collection, current>>

Lead(s) ==
    /\ handler[s] = "admitted" /\ Joinable = {}
    /\ handler' = [handler EXCEPT ![s] = "lead"]
    /\ call' = [call EXCEPT ![s] = s]
    /\ flight' = s
    /\ progress' = [progress EXCEPT ![s] = [c \in Collectors |-> "none"]]
    /\ skipped' = [skipped EXCEPT ![s] = {}]
    /\ current' = [r \in Scrapes |->
                      IF handler[r] # "none" THEN current[r] \cup {s} ELSE current[r]]
    /\ UNCHANGED <<request, mutex>>

Mut_Woken(s) == {s}
Woken(s) == {r \in Scrapes : handler[r] \in {"lead", "join"} /\ call[r] = s}

\* The gather is over: it leaves the group and all that wait for it have the
\* result.
Deliver(s) ==
    /\ handler[s] = "lead"
    /\ \A c \in Collectors : progress[s][c] = "ended"
    /\ handler' = [r \in Scrapes |-> IF r \in Woken(s) THEN "write" ELSE handler[r]]
    /\ flight' = IF flight = s THEN NoOne ELSE flight
    /\ UNCHANGED <<request, call, collection, current>>

-----------------------------------------------------------------------------
(* Collect *)

\* TryLock: walk, or raise the error gauge and return.
Collect(s, c) ==
    /\ handler[s] = "lead" /\ progress[s][c] = "none"
    /\ IF mutex[c] = NoOne
          THEN /\ mutex' = [mutex EXCEPT ![c] = s]
               /\ progress' = [progress EXCEPT ![s][c] = "started"]
               /\ UNCHANGED skipped
          ELSE /\ progress' = [progress EXCEPT ![s][c] = "ended"]
               /\ skipped' = [skipped EXCEPT ![s] = @ \cup {c}]
               /\ UNCHANGED mutex
    /\ UNCHANGED <<request, handler, call, flight, current>>

\* Totals, a failure or a panic: the mutex is given back on the way out.
Mut_Unlocked(c, panicked) == IF panicked THEN mutex ELSE [mutex EXCEPT ![c] = NoOne]
Unlocked(c, panicked) == [mutex EXCEPT ![c] = NoOne]

CollectEnds(s, c) ==
    /\ progress[s][c] = "started"
    /\ progress' = [progress EXCEPT ![s][c] = "ended"]
    /\ \E panicked \in BOOLEAN : mutex' = Unlocked(c, panicked)
    /\ UNCHANGED <<request, handler, call, flight, skipped, current>>

-----------------------------------------------------------------------------
Enter(s) == Admit(s) \/ Refuse(s)
Gather(s) == Join(s) \/ Lead(s) \/ Deliver(s)
Run(s) == Enter(s) \/ Gather(s) \/ Write(s)
Walk(s, c) == Collect(s, c) \/ CollectEnds(s, c)

Next ==
    \/ \E s \in Scrapes : Arrive(s) \/ TimeOut(s) \/ Run(s)
    \/ \E s \in Scrapes, c \in Collectors : Walk(s, c)

Spec == Init /\ [][Next]_vars

\* Goroutines are scheduled and a collection ends (LibraryWalk, Transport).
\* Neither the next scrape nor the timeout has to come.
Fairness ==
    /\ \A s \in Scrapes : WF_vars(Run(s))
    /\ \A s \in Scrapes, c \in Collectors : WF_vars(Walk(s, c))

FairSpec == Spec /\ Fairness

-----------------------------------------------------------------------------
(* Properties *)

TypeOK ==
    /\ request \in [Scrapes -> {"none", "open", "metrics", "refused", "timeout"}]
    /\ handler \in [Scrapes -> {"none", "enter", "admitted", "lead", "join", "write"}]
    /\ call \in [Scrapes -> Scrapes \cup {NoOne}]
    /\ flight \in Scrapes \cup {NoOne}
    /\ progress \in [Scrapes -> [Collectors -> {"none", "started", "ended"}]]
    /\ mutex \in [Collectors -> Scrapes \cup {NoOne}]
    /\ skipped \in [Scrapes -> SUBSET Collectors]
    /\ current \in [Scrapes -> SUBSET Scrapes]
    /\ Cardinality(InFlight) <= MaxScrapesInFlight

\* "an overlapping request never stacks another authenticated walk onto the
\* target" (root.go:197): whatever times out and comes again, the target is
\* walked by one gather at a time.
OneWalkAtATime ==
    /\ Cardinality({s \in Scrapes : handler[s] = "lead"}) <= 1
    /\ \A s \in Scrapes, c \in Collectors :
          progress[s][c] = "started" => mutex[c] = s /\ flight = s

\* "a scrape that arrives while a collection is still running waits for it and
\* is served the same result" (README.md:378): no scrape is answered with the
\* error gauge of a collector that was merely still busy.
NobodyIsSkipped ==
    \A s \in Scrapes : handler[s] = "write" => skipped[call[s]] = {}

\* What a scrape is served was still in flight when it came: a result is shared
\* and never kept.
AnswerIsCurrent ==
    \A s \in Scrapes : call[s] # NoOne => call[s] \in current[s]

\* Once collections end, every scrape has an answer and every place is free
\* again, those of scrapes that timed out included.
PlacesComeBack == \A s \in Scrapes : handler[s] # "none" ~> handler[s] = "none"
=============================================================================

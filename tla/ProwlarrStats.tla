--------------------------- MODULE ProwlarrStats ---------------------------
(***************************************************************************)
(* The Prowlarr statistics (arr/collector/prowlarr.go refreshStats,         *)
(* statcache.go).  Prowlarr tells what happened between two instants; the   *)
(* exporter asks, at each collection, for the time since it last had an     *)
(* answer, and adds the answer up.                                          *)
(*                                                                         *)
(* Time is counted in ticks, Second of them to a second: the window is sent *)
(* in whole seconds (RFC3339), the ends are kept exact.  An indexer event   *)
(* is the tick it happens at; a statistic is how often each event was       *)
(* added.  Prowlarr and the exporter read one clock, which does not go      *)
(* back, and a window includes its start and not its end: what the code     *)
(* takes for granted when it starts a window where the last one ended.      *)
(***************************************************************************)
EXTENDS Integers

CONSTANTS
    Collections,    \* goroutines that collect, one time after another
    Second,         \* ticks in a second
    MaxTime,        \* bound: ticks the model runs for
    Started,        \* tick at which the exporter starts
    NoOne

ASSUME ProwlarrAssumption ==
    /\ Second \in Nat \ {0} /\ MaxTime \in Nat /\ Started \in 0..MaxTime
    /\ NoOne \notin Collections

Ticks == 0..MaxTime

VARIABLES
    now,            \* the clock
    events,         \* Prowlarr's history
    since,          \* lastStatUpdate at the start: the backfill
    lastStatUpdate,
    statsMu,        \* who holds it
    stage,          \* of a collection: "idle", "asking" or "answered"
    window,         \* the window it asked for
    answer,         \* the events Prowlarr told it of
    counted         \* the caches: how often each event was added

collectionVars == <<statsMu, stage, window, answer>>
vars == <<now, events, since, lastStatUpdate, collectionVars, counted>>

NoWindow == [start |-> 0, end |-> 0]

\* NewProwlarrCollector: from the start of the exporter, or a backfill.
Init ==
    /\ now = Started
    /\ events \in SUBSET {0, Started}
    /\ since \in {0, Started}
    /\ lastStatUpdate = since
    /\ statsMu = NoOne
    /\ stage = [c \in Collections |-> "idle"]
    /\ window = [c \in Collections |-> NoWindow]
    /\ answer = [c \in Collections |-> {}]
    /\ counted = [e \in Ticks |-> 0]

-----------------------------------------------------------------------------
(* Prowlarr and the clock *)

Tick ==
    /\ now < MaxTime
    /\ now' = now + 1
    /\ UNCHANGED <<events, since, lastStatUpdate, collectionVars, counted>>

Happen ==
    /\ now \notin events
    /\ events' = events \cup {now}
    /\ UNCHANGED <<now, since, lastStatUpdate, collectionVars, counted>>

Happened(w) == {e \in events : w.start <= e /\ e < w.end}

-----------------------------------------------------------------------------
(* refreshStats *)

\* Format(time.RFC3339).
InSeconds(t) == (t \div Second) * Second

Window == [start |-> lastStatUpdate, end |-> now]

\* What the query says of the window.
Asked(w) == [start |-> InSeconds(w.start), end |-> InSeconds(w.end)]

Mut_Unlocked == TRUE
Unlocked == statsMu = NoOne

Ask(c) ==
    /\ stage[c] = "idle" /\ Unlocked
    /\ statsMu' = c
    /\ window' = [window EXCEPT ![c] = Window]
    /\ stage' = [stage EXCEPT ![c] = "asking"]
    /\ UNCHANGED <<now, events, since, lastStatUpdate, answer, counted>>

Answer(c) ==
    /\ stage[c] = "asking"
    /\ answer' = [answer EXCEPT ![c] = Happened(Asked(window[c]))]
    /\ stage' = [stage EXCEPT ![c] = "answered"]
    /\ UNCHANGED <<now, events, since, lastStatUpdate, statsMu, window, counted>>

Leave(c) ==
    /\ statsMu' = NoOne
    /\ stage' = [stage EXCEPT ![c] = "idle"]
    /\ window' = [window EXCEPT ![c] = NoWindow]
    /\ answer' = [answer EXCEPT ![c] = {}]
    /\ UNCHANGED <<now, events, since>>

\* The answer, or the request, is lost, or the collection panics.
Fail(c) ==
    /\ stage[c] \in {"asking", "answered"}
    /\ Leave(c)
    /\ UNCHANGED <<lastStatUpdate, counted>>

\* The next window starts where this one ended, not where it is answered.
Mut_NextStart(c) == now
NextStart(c) == window[c].end

Accumulate(c) ==
    /\ stage[c] = "answered"
    /\ lastStatUpdate' = NextStart(c)
    /\ counted' = [e \in Ticks |-> IF e \in answer[c] THEN counted[e] + 1 ELSE counted[e]]
    /\ Leave(c)

Next ==
    \/ Tick \/ Happen
    \/ \E c \in Collections : Ask(c) \/ Answer(c) \/ Fail(c) \/ Accumulate(c)

Spec == Init /\ [][Next]_vars

-----------------------------------------------------------------------------
(* Properties *)

TypeOK ==
    /\ now \in Ticks /\ events \subseteq 0..now
    /\ since \in Ticks /\ lastStatUpdate \in since..now
    /\ statsMu \in Collections \cup {NoOne}
    /\ stage \in [Collections -> {"idle", "asking", "answered"}]
    /\ window \in [Collections -> [start : Ticks, end : 0..now]]
    /\ answer \in [Collections -> SUBSET events]
    /\ counted \in [Ticks -> Nat]

\* "Spans read-fetch-accumulate so interleaved scrapes can't count a window
\* twice" (prowlarr.go:214), and none is left out either: whatever fails and
\* however collections interleave, an event is added once if it happened in the
\* seconds up to the last update, and not yet if later.
EachEventOnce ==
    \A e \in Ticks :
        counted[e] = IF e \in events /\ InSeconds(since) <= e /\ e < InSeconds(lastStatUpdate)
                     THEN 1 ELSE 0

\* The windows of the answers that were added follow each other: an update only
\* moves forward, and not beyond what it asked for.
UpdatesAdvance ==
    [][lastStatUpdate' # lastStatUpdate =>
          /\ lastStatUpdate' > lastStatUpdate
          /\ \A e \in Ticks : counted'[e] # counted[e] =>
                InSeconds(lastStatUpdate) <= e /\ e < InSeconds(lastStatUpdate')]_vars
=============================================================================

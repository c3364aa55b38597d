------------------------- MODULE LibraryWalkProofs -------------------------
(***************************************************************************)
(* Proofs about LibraryWalk: for any library, any limit and any faults, a   *)
(* collector that fetches something after its walk publishes totals of the  *)
(* whole library or none.                                                   *)
(***************************************************************************)
EXTENDS LibraryWalk, FiniteSetTheorems, SequenceTheorems, TLAPS

\* What the collectors that can be configured have in common when their totals
\* are safe.
FetchesFollow == \A c \in Confs : After(c) # <<>> \/ Lookups(c) = <<>>

LaterFetches == {"wanted/missing", "wanted/cutoff", "tag/detail"}

In(s) == {s[n] : n \in DOMAIN s}

Wanted == In(Lookups(conf))

Typed ==
    /\ conf \in Confs
    /\ phase \in {"idle", "before", "launch", "go", "wait", "after"}
    /\ outcome \in {"none", "error", "totals"}
    /\ running \subseteq library /\ unvisited \subseteq library /\ library \subseteq Items
    /\ IsFiniteSet(running) /\ Cardinality(running) <= Limit
    /\ counted \in [Kinds -> SUBSET library]
    /\ lookups \in [Items -> Seq(Kinds)]
    /\ failed \in BOOLEAN /\ expired \in BOOLEAN /\ late \in Nat

Control ==
    /\ phase \in {"idle", "before", "after"} => running = {}
    /\ phase = "before" => unvisited = {} /\ counted = NothingCounted /\ late = 0 /\ ~failed
    /\ phase \in {"launch", "go", "wait"} => Lookups(conf) # <<>>
    /\ phase = "after" => fetches \in Seq(LaterFetches) /\ ~failed
    /\ phase = "wait" => unvisited = {} \/ Ended
    /\ phase = "go" => late = 0
    /\ late > 0 => Ended
    /\ late <= 1
    /\ outcome = "totals" => phase = "idle"

\* An item that the loop has reached is counted, or its worker is still to do
\* it, or the group has an error.
Covered ==
    phase \in {"launch", "go", "wait", "after"} /\ ~failed =>
        \A i \in library \ unvisited : \A k \in Wanted :
            i \in counted[k] \/ (i \in running /\ k \in In(lookups[i]))

\* What is skipped at the deadline is betrayed by the fetch that follows.
Betrayed ==
    FetchesFollow /\ phase = "after" /\ unvisited # {} => expired /\ fetches # <<>>

Inv == Typed /\ Control /\ Covered /\ Betrayed /\ (FetchesFollow => TotalsAreComplete)

-----------------------------------------------------------------------------
(* Sequences *)

LEMMA LookupsType ==
    ASSUME NEW c \in ConfType
    PROVE  Lookups(c) \in Seq(Kinds)
<1>1. \A cond \in BOOLEAN : \A k \in Kinds : If(cond, <<k>>) \in Seq(Kinds)
      BY DEF If
<1>2. "files" \in Kinds /\ "entries" \in Kinds /\ c.quality \in BOOLEAN /\ c.entries \in BOOLEAN
      BY DEF Kinds, ConfType
<1>3. If(c.quality, <<"files">>) \in Seq(Kinds) /\ If(c.entries, <<"entries">>) \in Seq(Kinds)
      BY <1>1, <1>2
<1>4. <<>> \in Seq(Kinds)
      OBVIOUS
<1>5. If(c.quality, <<"files">>) \o If(c.entries, <<"entries">>) \in Seq(Kinds)
      BY <1>3, ConcatProperties
<1> QED
    BY <1>4, <1>5 DEF Lookups

LEMMA AfterType ==
    ASSUME NEW c \in ConfType
    PROVE  After(c) \in Seq(LaterFetches)
<1>1. /\ <<"wanted/missing", "wanted/cutoff">> \in Seq(LaterFetches)
      /\ <<"tag/detail">> \in Seq(LaterFetches) /\ <<"wanted/missing">> \in Seq(LaterFetches)
      /\ <<>> \in Seq(LaterFetches)
      BY DEF LaterFetches
<1>2. /\ If(c.wanted, <<"wanted/missing", "wanted/cutoff">>) \in Seq(LaterFetches)
      /\ If(c.wanted, <<"wanted/missing">>) \in Seq(LaterFetches)
      BY <1>1 DEF If
<1>3. If(c.wanted, <<"wanted/missing", "wanted/cutoff">>) \o <<"tag/detail">> \in Seq(LaterFetches)
      BY <1>1, <1>2, ConcatProperties
<1>4. c.app \in Apps
      BY DEF ConfType
<1> QED
    BY <1>1, <1>2, <1>3, <1>4 DEF After, Apps

LEMMA HeadOrTail ==
    ASSUME NEW S, NEW s \in Seq(S), s # <<>>
    PROVE  /\ Head(s) \in S /\ Tail(s) \in Seq(S)
           /\ \A k \in In(s) : k = Head(s) \/ k \in In(Tail(s))
<1>1. Head(s) \in S /\ Tail(s) \in Seq(S) /\ Len(Tail(s)) = Len(s) - 1
      BY HeadTailProperties
<1>2. ASSUME NEW n \in DOMAIN s PROVE s[n] = Head(s) \/ s[n] \in In(Tail(s))
  <2>1. n \in 1..Len(s) /\ Len(s) \in Nat
        BY LenProperties
  <2>2. CASE n = 1
        BY <2>2
  <2>3. CASE n # 1
    <3>1. n - 1 \in 1..Len(Tail(s)) /\ Tail(s)[n - 1] = s[n]
          BY <2>1, <2>3, <1>1
    <3>2. n - 1 \in DOMAIN Tail(s)
          BY <3>1, <1>1, LenProperties
    <3> QED
        BY <3>1, <3>2 DEF In
  <2> QED
      BY <2>2, <2>3
<1> QED
    BY <1>1, <1>2 DEF In

LEMMA WantedKinds ==
    ASSUME WalkAssumption, conf \in Confs
    PROVE  Wanted \subseteq Kinds /\ Lookups(conf) \in Seq(Kinds)
<1>1. Lookups(conf) \in Seq(Kinds)
      BY LookupsType DEF WalkAssumption
<1>2. \A n \in DOMAIN Lookups(conf) : Lookups(conf)[n] \in Kinds
      BY <1>1, ElementOfSeq, LenProperties
<1> QED
    BY <1>1, <1>2 DEF Wanted, In

-----------------------------------------------------------------------------
(* Every step keeps the invariant *)

LEMMA InitInv ==
    ASSUME WalkAssumption, Init
    PROVE  Inv
<1>1. Typed
  <2>1. IsFiniteSet({}) /\ Cardinality({}) = 0
        BY FS_EmptySet
  <2>2. counted \in [Kinds -> SUBSET {}]
        BY DEF Init, NothingCounted
  <2>3. lookups \in [Items -> Seq(Kinds)]
        BY DEF Init
  <2>4. library = {} /\ running = {} /\ unvisited = {} /\ conf \in Confs
        BY DEF Init
  <2>5. /\ phase \in {"idle", "before", "launch", "go", "wait", "after"}
        /\ outcome \in {"none", "error", "totals"}
        /\ failed \in BOOLEAN /\ expired \in BOOLEAN /\ late \in Nat
        BY DEF Init
  <2>6. Cardinality(running) <= Limit
        BY <2>1, <2>4 DEF WalkAssumption
  <2> QED
      BY <2>1, <2>2, <2>3, <2>4, <2>5, <2>6 DEF Typed
<1>2. Control /\ Covered /\ Betrayed /\ TotalsAreComplete
      BY DEF Init, Control, Covered, Betrayed, TotalsAreComplete
<1> QED
    BY <1>1, <1>2 DEF Inv

LEMMA BeginStep ==
    ASSUME Inv, Begin
    PROVE  Inv'
<1>0. Typed /\ Control
      BY DEF Inv
<1>1. /\ phase = "idle" /\ phase' = "before" /\ running = {} /\ running' = {}
      /\ library' = {} /\ unvisited' = {} /\ failed' = FALSE /\ expired' = FALSE
      /\ counted' = NothingCounted /\ outcome' = "none" /\ late' = 0
      /\ UNCHANGED <<conf, lookups>>
      BY <1>0 DEF Begin, Control
<1>2. Typed'
  <2>1. counted' \in [Kinds -> SUBSET {}]
        BY <1>1 DEF NothingCounted
  <2> QED
      BY <2>1, <1>0, <1>1 DEF Typed
<1>3. Control' /\ Covered' /\ Betrayed' /\ TotalsAreComplete'
      BY <1>1 DEF Control, Covered, Betrayed, TotalsAreComplete
<1> QED
    BY <1>2, <1>3 DEF Inv

LEMMA ExpireStep ==
    ASSUME Inv, Expire
    PROVE  Inv'
<1>0. Typed /\ Control /\ Covered /\ Betrayed
      BY DEF Inv
<1>1. /\ phase # "idle" /\ ~expired /\ expired' = TRUE
      /\ UNCHANGED <<conf, phase, fetches, outcome,
                     library, unvisited, running, lookups, failed, counted, late>>
      BY DEF Expire, walk
<1>2. Typed' /\ Control' /\ Betrayed'
      BY <1>0, <1>1 DEF Typed, Control, Betrayed, Ended
<1>3. Covered'
      BY <1>0, <1>1 DEF Covered, Wanted, In
<1>4. TotalsAreComplete'
      BY <1>0, <1>1 DEF Control, TotalsAreComplete
<1> QED
    BY <1>2, <1>3, <1>4 DEF Inv

LEMMA GiveUpStep ==
    ASSUME Inv, GiveUp, running = {}
    PROVE  Inv'
<1>1. /\ phase' = "idle" /\ outcome' = "error"
      /\ UNCHANGED <<conf, expired, library, unvisited, running, lookups, failed, counted, late>>
      BY DEF GiveUp, walk
<1>2. Typed' /\ Control'
      BY <1>1 DEF Inv, Typed, Control, Ended
<1>3. Covered' /\ Betrayed' /\ TotalsAreComplete'
      BY <1>1 DEF Covered, Betrayed, TotalsAreComplete
<1> QED
    BY <1>2, <1>3 DEF Inv

LEMMA FetchStep ==
    ASSUME Inv, Fetch
    PROVE  Inv'
<1>0. Typed /\ Control /\ Covered /\ Betrayed
      BY DEF Inv
<1>1. /\ phase \in {"before", "after"} /\ fetches # <<>> /\ ~expired /\ fetches' = Tail(fetches)
      /\ IF Head(fetches) = "library" THEN library' \in SUBSET Items ELSE UNCHANGED library
      /\ UNCHANGED <<conf, phase, expired, outcome, unvisited, running, lookups, failed, counted, late>>
      BY DEF Fetch
<1>2. phase = "after" => fetches' \in Seq(LaterFetches) /\ library' = library
      BY <1>0, <1>1, HeadOrTail DEF Control, LaterFetches
<1>3. Typed'
  <2>1. phase = "before" => running = {} /\ unvisited = {} /\ counted = NothingCounted
        BY <1>0 DEF Control
  <2>2. library' \subseteq Items
        BY <1>0, <1>1 DEF Typed
  <2>3. counted' \in [Kinds -> SUBSET library']
        BY <1>0, <1>1, <1>2, <2>1 DEF Typed, NothingCounted
  <2> QED
      BY <2>1, <2>2, <2>3, <1>0, <1>1, <1>2 DEF Typed
<1>4. Control'
      BY <1>0, <1>1, <1>2 DEF Control, Ended
<1>5. Covered'
      BY <1>0, <1>1, <1>2 DEF Covered, Wanted, In
<1>6. Betrayed'
      BY <1>0, <1>1 DEF Betrayed
<1>7. TotalsAreComplete'
      BY <1>0, <1>1 DEF Control, TotalsAreComplete
<1> QED
    BY <1>3, <1>4, <1>5, <1>6, <1>7 DEF Inv

\* The steps of the loop that only move it on.
LEMMA MoveStep ==
    ASSUME WalkAssumption, Inv, StartWalk \/ SkipWalk \/ NextItem \/ LoopOver \/ WalkDone
    PROVE  Inv'
<1>0. Typed /\ Control /\ Covered /\ Betrayed
      BY DEF Inv
<1>1. /\ UNCHANGED <<conf, expired, outcome, library, running, lookups, failed, counted, late>>
      /\ outcome # "totals" /\ unvisited' \in {unvisited, library} /\ phase # "idle"
      /\ phase' \in {"launch", "go", "wait", "after"}
      BY <1>0 DEF Control, StartWalk, SkipWalk, NextItem, LoopOver, WalkDone, walk
<1>2. Typed' /\ TotalsAreComplete'
      BY <1>0, <1>1 DEF Typed, TotalsAreComplete
<1>3. phase' = "after" => fetches' = After(conf) /\ fetches' \in Seq(LaterFetches)
  <2>1. After(conf) \in Seq(LaterFetches)
        BY <1>0, AfterType DEF Typed, WalkAssumption
  <2> QED
      BY <2>1 DEF StartWalk, SkipWalk, NextItem, LoopOver, WalkDone
<1>4. Control'
  <2>1. CASE StartWalk
        BY <2>1, <1>0, <1>1 DEF StartWalk, Control, Ended
  <2>2. CASE SkipWalk
        BY <2>2, <1>0, <1>1, <1>3 DEF SkipWalk, Control, Ended
  <2>3. CASE NextItem
        BY <2>3, <1>0, <1>1 DEF NextItem, KeepsLaunching, Control, Typed, Ended, walk
  <2>4. CASE LoopOver
        BY <2>4, <1>0, <1>1 DEF LoopOver, KeepsLaunching, Control, Ended, walk
  <2>5. CASE WalkDone
        BY <2>5, <1>0, <1>1, <1>3 DEF WalkDone, WaitOver, WaitFails, Control, Ended, walk
  <2> QED
      BY <2>1, <2>2, <2>3, <2>4, <2>5
<1>5. Covered'
  <2>1. CASE StartWalk
        BY <2>1, <1>1 DEF StartWalk, Covered
  <2>2. CASE SkipWalk
        BY <2>2, <1>1, <1>0 DEF SkipWalk, Covered, Wanted, In
  <2>3. CASE NextItem \/ LoopOver \/ WalkDone
    <3>1. phase \in {"launch", "wait"} /\ UNCHANGED unvisited
          BY <2>3 DEF NextItem, LoopOver, WalkDone, walk
    <3> QED
        BY <3>1, <1>0, <1>1 DEF Covered, Wanted, In
  <2> QED
      BY <2>1, <2>2, <2>3
<1>6. Betrayed'
  <2>1. CASE SkipWalk
        BY <2>1, <1>0 DEF SkipWalk, Control, Betrayed, walk
  <2>2. CASE WalkDone
    <3>1. /\ unvisited = {} \/ expired
          /\ FetchesFollow => After(conf) # <<>>
          BY <2>2, <1>0 DEF WalkDone, WaitFails, Control, Ended, FetchesFollow, Typed
    <3> QED
        BY <2>2, <3>1, <1>3 DEF WalkDone, Betrayed, walk
  <2>3. CASE StartWalk \/ NextItem \/ LoopOver
        BY <2>3 DEF StartWalk, NextItem, LoopOver, Betrayed
  <2> QED
      BY <2>1, <2>2, <2>3
<1> QED
    BY <1>2, <1>4, <1>5, <1>6 DEF Inv

LEMMA GoStep ==
    ASSUME WalkAssumption, Inv, NEW i \in Items, Go(i)
    PROVE  Inv'
<1>0. Typed /\ Control /\ Covered
      BY DEF Inv
<1>1. /\ phase = "go" /\ i \in unvisited /\ Cardinality(running) < Limit
      /\ phase' = "launch" /\ unvisited' = unvisited \ {i} /\ running' = running \cup {i}
      /\ lookups' = [lookups EXCEPT ![i] = Lookups(conf)]
      /\ late' = IF Ended THEN late + 1 ELSE late
      /\ UNCHANGED <<conf, fetches, expired, outcome, library, failed, counted>>
      BY DEF Go, HasPlace
<1>2. Lookups(conf) \in Seq(Kinds)
      BY <1>0, WantedKinds DEF Typed
<1>3. Typed'
  <2>1. IsFiniteSet(running') /\ Cardinality(running') <= Limit
    <3>1. IsFiniteSet(running') /\ Cardinality(running') \in {Cardinality(running), Cardinality(running) + 1}
          BY <1>0, <1>1, FS_AddElement DEF Typed
    <3>2. Cardinality(running) \in Nat
          BY <1>0, FS_CardinalityType DEF Typed
    <3> QED
        BY <3>1, <3>2, <1>1 DEF WalkAssumption
  <2>2. lookups' \in [Items -> Seq(Kinds)]
        BY <1>0, <1>1, <1>2 DEF Typed
  <2>3. late' \in Nat
        BY <1>0, <1>1 DEF Typed
  <2> QED
      BY <2>1, <2>2, <2>3, <1>0, <1>1 DEF Typed
<1>4. Control'
      BY <1>0, <1>1 DEF Control, Ended
<1>5. Covered'
  <2>1. SUFFICES ASSUME ~failed, NEW j \in library, j \notin unvisited \ {i}, NEW k \in Wanted
                 PROVE  j \in counted[k] \/ (j \in running' /\ k \in In(lookups'[j]))
        BY <1>1 DEF Covered, Wanted, In
  <2>2. CASE j = i
        BY <2>2, <1>0, <1>1 DEF Wanted, Typed
  <2>3. CASE j # i
        BY <2>1, <2>3, <1>0, <1>1 DEF Covered, Typed
  <2> QED
      BY <2>2, <2>3
<1>6. Betrayed' /\ TotalsAreComplete'
      BY <1>0, <1>1 DEF Betrayed, TotalsAreComplete, Control
<1> QED
    BY <1>3, <1>4, <1>5, <1>6 DEF Inv

LEMMA PublishStep ==
    ASSUME WalkAssumption, Inv, Publish
    PROVE  Inv'
<1>0. Typed /\ Control /\ Covered /\ Betrayed
      BY DEF Inv
<1>1. /\ phase = "after" /\ fetches = <<>> /\ phase' = "idle" /\ outcome' = "totals"
      /\ UNCHANGED <<conf, fetches, expired, library, unvisited, running, lookups, failed, counted, late>>
      BY DEF Publish, walk
<1>2. Typed' /\ Control' /\ Covered' /\ Betrayed'
      BY <1>0, <1>1 DEF Typed, Control, Covered, Betrayed, Ended
<1>3. ASSUME FetchesFollow PROVE TotalsAreComplete'
  <2>1. unvisited = {} /\ running = {} /\ ~failed
        BY <1>0, <1>1, <1>3 DEF Betrayed, Control
  <2>2. \A k \in Wanted : library \subseteq counted[k]
        BY <2>1, <1>0, <1>1 DEF Covered
  <2>3. \A k \in Wanted : counted[k] = library
        BY <2>2, <1>0, WantedKinds DEF Typed
  <2> QED
      BY <2>3, <1>1 DEF TotalsAreComplete, Wanted, In
<1> QED
    BY <1>2, <1>3 DEF Inv

\* Workers work while the loop or its wait is on.
LEMMA WorkerStep ==
    ASSUME Inv, NEW i \in Items, Worker(i)
    PROVE  Inv'
<1>0. Typed /\ Control /\ Covered
      BY DEF Inv
<1>1. /\ i \in running /\ phase \in {"launch", "go", "wait"}
      /\ UNCHANGED <<conf, phase, fetches, expired, outcome, library, unvisited, late>>
      BY <1>0 DEF Worker, Lookup, LookupFails, Leaving, Leave, Control, Typed
<1>2. Betrayed' /\ TotalsAreComplete'
      BY <1>0, <1>1 DEF Betrayed, TotalsAreComplete, Control
<1>3. i \in library /\ lookups[i] \in Seq(Kinds)
      BY <1>0, <1>1 DEF Typed
<1>4. CASE Lookup(i)
  <2> DEFINE s == lookups[i]
  <2>1. /\ s # <<>> /\ ~Ended /\ UNCHANGED <<running, failed>>
        /\ counted' = [counted EXCEPT ![Head(s)] = @ \cup {i}]
        /\ lookups' = [lookups EXCEPT ![i] = Tail(s)]
        BY <1>4 DEF Lookup
  <2>2. /\ Head(s) \in Kinds /\ Tail(s) \in Seq(Kinds)
        /\ \A k \in In(s) : k = Head(s) \/ k \in In(Tail(s))
        BY <1>3, <2>1, HeadOrTail
  <2> HIDE DEF s
  <2>3. Typed'
        BY <1>0, <1>1, <1>3, <2>1, <2>2 DEF Typed
  <2>4. Control'
        BY <1>0, <1>1, <2>1 DEF Control, Ended
  <2>5. Covered'
    <3>1. SUFFICES ASSUME ~failed, NEW j \in library \ unvisited, NEW k \in Wanted
                   PROVE  j \in counted'[k] \/ (j \in running /\ k \in In(lookups'[j]))
          BY <1>1, <2>1 DEF Covered, Wanted, In
    <3>2. j \in counted[k] \/ (j \in running /\ k \in In(lookups[j]))
          BY <3>1, <1>0, <1>1 DEF Covered
    <3>3. j \in counted[k] => j \in counted'[k]
          BY <1>0, <2>1, <2>2 DEF Typed
    <3>4. CASE j = i
      <4>1. \A l \in Kinds : l = Head(s) => i \in counted'[l]
            BY <1>0, <2>1, <2>2 DEF Typed
      <4>2. lookups'[i] = Tail(s) /\ lookups[i] = s
            BY <1>0, <2>1 DEF Typed, s
      <4> QED
          BY <3>2, <3>3, <3>4, <4>1, <4>2, <2>2
    <3>5. CASE j # i
          BY <3>2, <3>3, <3>5, <1>0, <2>1 DEF Typed
    <3> QED
        BY <3>4, <3>5
  <2> QED
      BY <2>3, <2>4, <2>5, <1>2 DEF Inv
<1>5. CASE LookupFails(i)
  <2>1. /\ failed' = TRUE /\ lookups' = [lookups EXCEPT ![i] = <<>>]
        /\ UNCHANGED <<running, counted>>
        BY <1>5 DEF LookupFails
  <2>2. Typed'
        BY <1>0, <1>1, <2>1 DEF Typed
  <2>3. Control' /\ Covered'
        BY <1>0, <1>1, <2>1 DEF Control, Covered, Ended
  <2> QED
      BY <2>2, <2>3, <1>2 DEF Inv
<1>6. CASE Leave(i)
  <2>1. /\ lookups[i] = <<>> /\ running' = running \ {i}
        /\ UNCHANGED <<lookups, failed, counted>>
        BY <1>6 DEF Leave, Leaving
  <2>2. Typed'
    <3>1. IsFiniteSet(running') /\ Cardinality(running') <= Cardinality(running)
          BY <1>0, <2>1, FS_Subset DEF Typed
    <3>2. Cardinality(running) \in Nat /\ Cardinality(running') \in Nat
          BY <3>1, <1>0, FS_CardinalityType DEF Typed
    <3>3. Cardinality(running') <= Limit
          BY <3>1, <3>2, <1>0, WalkAssumption DEF Typed
    <3> QED
        BY <3>1, <3>3, <1>0, <1>1, <2>1 DEF Typed
  <2>3. Control'
        BY <1>0, <1>1, <2>1 DEF Control, Ended
  <2>4. Covered'
        BY <1>0, <1>1, <2>1 DEF Covered, Wanted, In
  <2> QED
      BY <2>2, <2>3, <2>4, <1>2 DEF Inv
<1> QED
    BY <1>4, <1>5, <1>6 DEF Worker

LEMMA NextInv ==
    ASSUME WalkAssumption, Inv, [Next]_vars
    PROVE  Inv'
<1>0. Typed /\ Control
      BY DEF Inv
<1>1. CASE UNCHANGED vars
      BY <1>1 DEF vars, walk, Inv, Typed, Control, Covered, Betrayed, TotalsAreComplete,
                  Ended, Wanted, In
<1>2. CASE Begin \/ Expire \/ Fetch \/ Publish
      BY <1>2, BeginStep, ExpireStep, FetchStep, PublishStep
<1>3. CASE FetchFails \/ WalkFails
      BY <1>3, <1>0, GiveUpStep DEF FetchFails, WalkFails, WaitOver, Control
<1>4. CASE StartWalk \/ SkipWalk \/ NextItem \/ LoopOver \/ WalkDone
      BY <1>4, MoveStep
<1>5. ASSUME NEW i \in Items, Go(i) \/ Worker(i) PROVE Inv'
      BY <1>5, GoStep, WorkerStep
<1> QED
    BY <1>1, <1>2, <1>3, <1>4, <1>5 DEF Next, Collect, Loop

-----------------------------------------------------------------------------
(* Theorems *)

\* The loop, its workers and the totals agree in every reachable state.
THEOREM Invariance == Spec => []Inv
<1>1. Init => Inv
      BY WalkAssumption, InitInv
<1>2. Inv /\ [Next]_vars => Inv'
      BY WalkAssumption, NextInv
<1> QED
    BY <1>1, <1>2, PTL DEF Spec

\* The variables keep their types, and no more workers run than the limit of
\* the group (seriesConcurrency), for any library.
THEOREM TypeCorrect == Spec => []TypeOK
<1>1. Inv => TypeOK
      BY DEF Inv, Typed, TypeOK
<1> QED
    BY <1>1, Invariance, PTL

\* A collector all of whose configurations fetch something after the walk, as
\* Sonarr's do, publishes complete totals or raises its error gauge, wherever
\* the deadline falls.  Lidarr without its wanted metrics is outside it.
THEOREM Complete ==
    ASSUME FetchesFollow
    PROVE  Spec => []TotalsAreComplete
<1>1. Inv => TotalsAreComplete
      BY DEF Inv
<1> QED
    BY <1>1, Invariance, PTL

\* Every worker is done before the totals are read, whether the walk succeeds
\* or not, and a group that has ended launches at most one more.
THEOREM AllJoined == Spec => []NoWorkerLeftBehind
<1>1. Inv => NoWorkerLeftBehind
      BY DEF Inv, Typed, Control, NoWorkerLeftBehind
<1> QED
    BY <1>1, Invariance, PTL

\* Sonarr's configurations are of that kind, all of them.
THEOREM SonarrFollows ==
    ASSUME NEW c \in ConfType, c.app = "sonarr"
    PROVE  After(c) # <<>>
<1>1. Len(After(c)) >= 1
  <2>1. /\ <<"tag/detail">> \in Seq(LaterFetches) /\ Len(<<"tag/detail">>) = 1
        BY DEF LaterFetches
  <2>2. If(c.wanted, <<"wanted/missing", "wanted/cutoff">>) \in Seq(LaterFetches)
    <3>1. /\ <<"wanted/missing", "wanted/cutoff">> \in Seq(LaterFetches)
          /\ <<>> \in Seq(LaterFetches)
          BY DEF LaterFetches
    <3> QED
        BY <3>1 DEF If
  <2> QED
      BY <2>1, <2>2, ConcatProperties, LenProperties DEF After
<1> QED
    BY <1>1
=============================================================================

------------------------- MODULE ScrapeStackProofs -------------------------
(***************************************************************************)
(* Proofs about ScrapeStack, for any number of scrapes and collectors and   *)
(* any limit.  The argument: the handler that leads is the one in flight, a  *)
(* handler that joins waits for it, and a collector's mutex is held exactly  *)
(* by a collection of the gather in flight; so the gather in flight finds    *)
(* the mutexes it has not taken itself free, and TryLock never fails.        *)
(***************************************************************************)
EXTENDS ScrapeStack, FiniteSetTheorems, TLAPS

Types ==
    /\ request \in [Scrapes -> {"none", "open", "metrics", "refused", "timeout"}]
    /\ handler \in [Scrapes -> {"none", "enter", "admitted", "lead", "join", "write"}]
    /\ call \in [Scrapes -> Scrapes \cup {NoOne}]
    /\ flight \in Scrapes \cup {NoOne}
    /\ progress \in [Scrapes -> [Collectors -> {"none", "started", "ended"}]]
    /\ mutex \in [Collectors -> Scrapes \cup {NoOne}]
    /\ skipped \in [Scrapes -> SUBSET Collectors]
    /\ current \in [Scrapes -> SUBSET Scrapes]

\* The flight is its leader's, and those that wait, wait for it.
Flight ==
    \A s \in Scrapes :
        /\ handler[s] = "lead" <=> flight = s
        /\ handler[s] = "lead" => call[s] = s
        /\ handler[s] = "join" => call[s] = flight /\ flight # NoOne
        /\ handler[s] \in {"none", "enter", "admitted"} <=> call[s] = NoOne

\* A mutex is held by a collection of the gather in flight.
Mutexes ==
    \A s \in Scrapes, c \in Collectors :
        /\ progress[s][c] = "started" => mutex[c] = s /\ flight = s
        /\ mutex[c] = s => progress[s][c] = "started"

Unskipped == \A s \in Scrapes : skipped[s] = {}

\* A handler knows the gather in flight, and what it calls was in flight.
Known ==
    \A s \in Scrapes :
        /\ handler[s] # "none" /\ flight # NoOne => flight \in current[s]
        /\ call[s] # NoOne => call[s] \in current[s]

Places == IsFiniteSet(InFlight) /\ Cardinality(InFlight) <= MaxScrapesInFlight

IInv == Types /\ Flight /\ Mutexes /\ Unskipped /\ Known /\ Places

-----------------------------------------------------------------------------
LEMMA InitIInv == Init => IInv
<1> SUFFICES ASSUME Init PROVE IInv
  OBVIOUS
<1> USE StackAssumption
<1>1. Types
  BY DEF Init, Types
<1>2. Flight /\ Mutexes /\ Unskipped /\ Known
  BY DEF Init, Flight, Mutexes, Unskipped, Known
<1>3. Places
  <2>1. InFlight = {}
    BY DEF Init, InFlight
  <2> QED
    BY <2>1, FS_EmptySet DEF Places
<1> QED
  BY <1>1, <1>2, <1>3 DEF IInv

-----------------------------------------------------------------------------
(* One lemma per part of the invariant that several actions disturb, and    *)
(* per part one step per action.                                            *)

LEMMA TypesStep == ASSUME Types, Next PROVE Types'
<1> USE StackAssumption DEF Types
<1>1. ASSUME NEW s \in Scrapes, Arrive(s) PROVE Types'
  BY <1>1 DEF Arrive, collection
<1>2. ASSUME NEW s \in Scrapes, TimeOut(s) PROVE Types'
  BY <1>2 DEF TimeOut, Reply, collection
<1>3. ASSUME NEW s \in Scrapes, Admit(s) PROVE Types'
  BY <1>3 DEF Admit, collection
<1>4. ASSUME NEW s \in Scrapes, Refuse(s) PROVE Types'
  BY <1>4 DEF Refuse, Reply, collection
<1>5. ASSUME NEW s \in Scrapes, Join(s) PROVE Types'
  BY <1>5 DEF Join, Joinable, collection
<1>6. ASSUME NEW s \in Scrapes, Lead(s) PROVE Types'
  BY <1>6 DEF Lead
<1>7. ASSUME NEW s \in Scrapes, Deliver(s) PROVE Types'
  BY <1>7 DEF Deliver, collection
<1>8. ASSUME NEW s \in Scrapes, Write(s) PROVE Types'
  BY <1>8 DEF Write, Reply, collection
<1>9. ASSUME NEW s \in Scrapes, NEW c \in Collectors, Collect(s, c) PROVE Types'
  <2>1. mutex' \in [Collectors -> Scrapes \cup {NoOne}]
    BY <1>9 DEF Collect
  <2>2. progress' \in [Scrapes -> [Collectors -> {"none", "started", "ended"}]]
    <3>1. \E v \in {"started", "ended"} : progress' = [progress EXCEPT ![s][c] = v]
      BY <1>9 DEF Collect
    <3> QED
      BY <3>1
  <2>3. skipped' \in [Scrapes -> SUBSET Collectors]
    <3>1. UNCHANGED skipped \/ skipped' = [skipped EXCEPT ![s] = @ \cup {c}]
      BY <1>9 DEF Collect
    <3> QED
      BY <3>1
  <2> QED
    BY <1>9, <2>1, <2>2, <2>3 DEF Collect
<1>10. ASSUME NEW s \in Scrapes, NEW c \in Collectors, CollectEnds(s, c) PROVE Types'
  BY <1>10 DEF CollectEnds, Unlocked
<1> QED
  BY <1>1, <1>2, <1>3, <1>4, <1>5, <1>6, <1>7, <1>8, <1>9, <1>10
     DEF Next, Run, Enter, Gather, Walk

LEMMA FlightStep == ASSUME Types, Flight, Next PROVE Flight'
<1> USE StackAssumption DEF Types, Flight
<1>1. ASSUME NEW s \in Scrapes, Arrive(s) PROVE Flight'
  BY <1>1 DEF Arrive
<1>2. ASSUME NEW s \in Scrapes, TimeOut(s) PROVE Flight'
  BY <1>2 DEF TimeOut
<1>3. ASSUME NEW s \in Scrapes, Admit(s) PROVE Flight'
  BY <1>3 DEF Admit
<1>4. ASSUME NEW s \in Scrapes, Refuse(s) PROVE Flight'
  BY <1>4 DEF Refuse
<1>5. ASSUME NEW s \in Scrapes, Join(s) PROVE Flight'
  BY <1>5 DEF Join, Joinable
<1>6. ASSUME NEW s \in Scrapes, Lead(s) PROVE Flight'
  BY <1>6 DEF Lead, Joinable
<1>7. ASSUME NEW s \in Scrapes, Deliver(s) PROVE Flight'
  BY <1>7 DEF Deliver, Woken
<1>8. ASSUME NEW s \in Scrapes, Write(s) PROVE Flight'
  BY <1>8 DEF Write
<1>9. ASSUME NEW s \in Scrapes, NEW c \in Collectors, Collect(s, c) PROVE Flight'
  BY <1>9 DEF Collect
<1>10. ASSUME NEW s \in Scrapes, NEW c \in Collectors, CollectEnds(s, c) PROVE Flight'
  BY <1>10 DEF CollectEnds
<1> QED
  BY <1>1, <1>2, <1>3, <1>4, <1>5, <1>6, <1>7, <1>8, <1>9, <1>10
     DEF Next, Run, Enter, Gather, Walk

LEMMA MutexesStep == ASSUME Types, Flight, Mutexes, Next PROVE Mutexes'
<1> USE StackAssumption DEF Types, Mutexes
<1>1. CASE UNCHANGED <<flight, progress, mutex>>
  BY <1>1
<1>2. ASSUME NEW s \in Scrapes, Lead(s) PROVE Mutexes'
  <2>1. flight = NoOne
    BY <1>2 DEF Lead, Joinable
  <2>2. \A r \in Scrapes, c \in Collectors : progress[r][c] # "started" /\ mutex[c] # r
    BY <2>1
  <2> QED
    BY <1>2, <2>2 DEF Lead
<1>3. ASSUME NEW s \in Scrapes, Deliver(s) PROVE Mutexes'
  <2>1. flight = s
    BY <1>3 DEF Deliver, Flight
  <2> QED
    BY <1>3, <2>1 DEF Deliver, collection
<1>4. ASSUME NEW s \in Scrapes, NEW c \in Collectors, Collect(s, c) PROVE Mutexes'
  <2>1. flight = s
    BY <1>4 DEF Collect, Flight
  <2> QED
    BY <1>4, <2>1, SMTT(20) DEF Collect
<1>5. ASSUME NEW s \in Scrapes, NEW c \in Collectors, CollectEnds(s, c) PROVE Mutexes'
  BY <1>5 DEF CollectEnds, Unlocked
<1> QED
  BY <1>1, <1>2, <1>3, <1>4, <1>5
     DEF Next, Run, Enter, Gather, Walk, Arrive, TimeOut, Admit, Refuse, Join, Write, collection

LEMMA UnskippedStep == ASSUME Types, Flight, Mutexes, Unskipped, Next PROVE Unskipped'
<1> USE StackAssumption DEF Types, Unskipped
<1>1. CASE UNCHANGED skipped
  BY <1>1
<1>2. ASSUME NEW s \in Scrapes, Lead(s) PROVE Unskipped'
  BY <1>2 DEF Lead
<1>3. ASSUME NEW s \in Scrapes, NEW c \in Collectors, Collect(s, c) PROVE Unskipped'
  <2>1. flight = s /\ progress[s][c] = "none"
    BY <1>3 DEF Collect, Flight
  <2>2. mutex[c] = NoOne
    BY <2>1 DEF Mutexes
  <2> QED
    BY <1>3, <2>2 DEF Collect
<1> QED
  BY <1>1, <1>2, <1>3
     DEF Next, Run, Enter, Gather, Walk, Arrive, TimeOut, Admit, Refuse, Join, Deliver, Write,
         CollectEnds, collection

LEMMA KnownStep == ASSUME Types, Flight, Known, Next PROVE Known'
<1> USE StackAssumption DEF Types, Known
<1>1. ASSUME NEW s \in Scrapes, Arrive(s) PROVE Known'
  BY <1>1 DEF Arrive, Flight
<1>2. ASSUME NEW s \in Scrapes, TimeOut(s) PROVE Known'
  BY <1>2 DEF TimeOut
<1>3. ASSUME NEW s \in Scrapes, Admit(s) PROVE Known'
  BY <1>3 DEF Admit
<1>4. ASSUME NEW s \in Scrapes, Refuse(s) PROVE Known'
  BY <1>4 DEF Refuse, Flight
<1>5. ASSUME NEW s \in Scrapes, Join(s) PROVE Known'
  BY <1>5 DEF Join, Joinable
<1>6. ASSUME NEW s \in Scrapes, Lead(s) PROVE Known'
  BY <1>6 DEF Lead, Flight
<1>7. ASSUME NEW s \in Scrapes, Deliver(s) PROVE Known'
  BY <1>7 DEF Deliver, Woken
<1>8. ASSUME NEW s \in Scrapes, Write(s) PROVE Known'
  BY <1>8 DEF Write
<1>9. CASE UNCHANGED <<handler, call, flight, current>>
  BY <1>9
<1> QED
  BY <1>1, <1>2, <1>3, <1>4, <1>5, <1>6, <1>7, <1>8, <1>9
     DEF Next, Run, Enter, Gather, Walk, Collect, CollectEnds

LEMMA PlacesStep == ASSUME Types, Places, Next PROVE Places'
<1> USE StackAssumption
<1>1. CASE InFlight' \subseteq InFlight
  BY <1>1, FS_Subset, FS_CardinalityType DEF Places
<1>2. ASSUME NEW s \in Scrapes, Admit(s) PROVE Places'
  <2>1. InFlight' = InFlight \cup {s} /\ s \notin InFlight
    BY <1>2 DEF Admit, InFlight, Types
  <2>2. Cardinality(InFlight') = Cardinality(InFlight) + 1 /\ IsFiniteSet(InFlight')
    BY <2>1, FS_AddElement DEF Places
  <2>3. Cardinality(InFlight) < MaxScrapesInFlight
    BY <1>2 DEF Admit, HasRoom
  <2> QED
    BY <2>2, <2>3, FS_CardinalityType DEF Places
<1>3. ASSUME NEW s \in Scrapes, Arrive(s) PROVE InFlight' \subseteq InFlight
  BY <1>3 DEF Arrive, InFlight, Types
<1>4. ASSUME NEW s \in Scrapes, Refuse(s) \/ Join(s) \/ Lead(s) \/ Write(s)
      PROVE  InFlight' \subseteq InFlight
  BY <1>4 DEF Refuse, Join, Lead, Write, InFlight, Types
<1>5. ASSUME NEW s \in Scrapes, Deliver(s) PROVE InFlight' \subseteq InFlight
  BY <1>5 DEF Deliver, Woken, InFlight, Types
<1>6. CASE UNCHANGED handler
  BY <1>1, <1>6 DEF InFlight
<1> QED
  BY <1>1, <1>2, <1>3, <1>4, <1>5, <1>6
     DEF Next, Run, Enter, Gather, Walk, TimeOut, Collect, CollectEnds

LEMMA NextIInv == IInv /\ [Next]_vars => IInv'
<1> SUFFICES ASSUME IInv, [Next]_vars PROVE IInv'
  OBVIOUS
<1>1. CASE Next
  BY <1>1, TypesStep, FlightStep, MutexesStep, UnskippedStep, KnownStep, PlacesStep DEF IInv
<1>2. CASE UNCHANGED vars
  BY <1>2 DEF vars, collection, IInv, Types, Flight, Mutexes, Unskipped, Known, Places, InFlight
<1> QED
  BY <1>1, <1>2

-----------------------------------------------------------------------------
\* The leader, those that wait, the mutexes and the places agree in every
\* reachable state of the stack (root.go:197-236).
THEOREM Invariance == Spec => []IInv
<1> QED
  BY InitIInv, NextIInv, PTL DEF Spec

\* Every variable keeps its type, and no more than MaxScrapesInFlight handlers
\* are at work, those whose scrape timed out included (root.go:213).
THEOREM TypeCorrect == Spec => []TypeOK
<1>1. IInv => TypeOK
  BY DEF IInv, Types, Places, TypeOK
<1> QED
  BY <1>1, Invariance, PTL

\* One gather at a time walks the target, and holds the mutexes (root.go:197).
THEOREM OneWalk == Spec => []OneWalkAtATime
<1>1. IInv => OneWalkAtATime
  <2> SUFFICES ASSUME IInv PROVE OneWalkAtATime
    OBVIOUS
  <2> DEFINE Leaders == {s \in Scrapes : handler[s] = "lead"}
  <2>1. Leaders \subseteq {flight}
    BY DEF IInv, Flight
  <2>2. Cardinality(Leaders) <= 1
    <3>1. IsFiniteSet({flight}) /\ Cardinality({flight}) = 1
      BY FS_Singleton
    <3> HIDE DEF Leaders
    <3>2. Cardinality(Leaders) <= Cardinality({flight})
      BY <2>1, <3>1, FS_Subset
    <3> QED
      BY <3>1, <3>2
  <2> QED
    BY <2>2 DEF IInv, Mutexes, OneWalkAtATime
<1> QED
  BY <1>1, Invariance, PTL

\* collectMu.TryLock never fails: no scrape is answered with the error gauge of
\* a collector that was only busy (README.md:378, sonarr.go:95).
THEOREM TryLockSucceeds == Spec => []NobodyIsSkipped
<1>1. IInv => NobodyIsSkipped
  <2> SUFFICES ASSUME IInv, NEW s \in Scrapes, handler[s] = "write" PROVE skipped[call[s]] = {}
    BY DEF NobodyIsSkipped
  <2>1. call[s] \in Scrapes
    <3>1. call[s] # NoOne /\ call[s] \in Scrapes \cup {NoOne}
      BY DEF IInv, Types, Flight
    <3> QED
      BY <3>1
  <2> QED
    BY <2>1 DEF IInv, Unskipped
<1> QED
  BY <1>1, Invariance, PTL

\* The answer of a scrape is of a gather in flight after the scrape came.
THEOREM Current == Spec => []AnswerIsCurrent
<1>1. IInv => AnswerIsCurrent
  BY DEF IInv, Known, AnswerIsCurrent
<1> QED
  BY <1>1, Invariance, PTL
=============================================================================

--------------------------- MODULE SlotPoolProofs ---------------------------
(* Proofs about the slot pool, for every set of targets and requests and     *)
(* every capacity NewSlotPool accepts.                                       *)
EXTENDS SlotPool, FiniteSetTheorems, SequenceTheorems, TLAPS

-----------------------------------------------------------------------------
(* Sequences and counting *)

\* RemoveAt drops one place of a sequence and moves the later ones up.
LEMMA RemoveAtElements ==
    ASSUME NEW S, NEW s \in Seq(S), NEW i \in 1..Len(s)
    PROVE  /\ SeqExt!RemoveAt(s, i) \in Seq(S)
           /\ Len(SeqExt!RemoveAt(s, i)) = Len(s) - 1
           /\ \A j \in 1..(i - 1) : SeqExt!RemoveAt(s, i)[j] = s[j]
           /\ \A j \in i..(Len(s) - 1) : SeqExt!RemoveAt(s, i)[j] = s[j + 1]
<1> DEFINE front == SubSeq(s, 1, i - 1)
           back  == SubSeq(s, i + 1, Len(s))
<1>1. i \in 1..Len(s) /\ Len(s) \in Nat
  OBVIOUS
<1>2. front \in Seq(S) /\ Len(front) = i - 1 /\ \A k \in 1..(i - 1) : front[k] = s[k]
  BY <1>1
<1>3. back \in Seq(S) /\ Len(back) = Len(s) - i
      /\ \A k \in 1..(Len(s) - i) : back[k] = s[k + i]
  BY <1>1
<1>4. SeqExt!RemoveAt(s, i) = front \o back
  BY DEF SeqExt!RemoveAt
<1> HIDE DEF front, back
<1>5. front \o back \in Seq(S) /\ Len(front \o back) = Len(s) - 1
  <2>1. front \o back \in Seq(S)
    BY <1>2, <1>3
  <2>2. Len(front \o back) = Len(front) + Len(back)
    BY <1>2, <1>3, ConcatProperties
  <2> QED BY <1>1, <1>2, <1>3, <2>1, <2>2
<1>6. ASSUME NEW j \in 1..(i - 1) PROVE (front \o back)[j] = s[j]
  BY <1>1, <1>2, <1>3
<1>7. ASSUME NEW j \in i..(Len(s) - 1) PROVE (front \o back)[j] = s[j + 1]
  <2>1. (front \o back)[j] = back[j - (i - 1)]
    BY <1>1, <1>2, <1>3
  <2>2. j - (i - 1) \in 1..(Len(s) - i) /\ (j - (i - 1)) + i = j + 1
    BY <1>1
  <2>3. back[j - (i - 1)] = s[(j - (i - 1)) + i]
    BY <1>3, <2>2
  <2> QED BY <2>1, <2>2, <2>3
<1> QED BY <1>4, <1>5, <1>6, <1>7

\* Adding or removing one element changes a count by one.
LEMMA CountPlus ==
    ASSUME NEW S, NEW T, NEW x, IsFiniteSet(S), x \notin S, T = S \cup {x}
    PROVE  IsFiniteSet(T) /\ Cardinality(T) = Cardinality(S) + 1
BY FS_AddElement

LEMMA CountMinus ==
    ASSUME NEW S, NEW T, NEW x, IsFiniteSet(S), x \in S, T = S \ {x}
    PROVE  IsFiniteSet(T) /\ Cardinality(T) = Cardinality(S) - 1
BY FS_RemoveElement

-----------------------------------------------------------------------------
(* The inductive invariant *)

ReservedHolders == {r \in Requests : slot[r] = "reserved"}
SharedHolders == {r \in Requests : slot[r] = "shared"}
Counted(t) == {r \in RequestsOf(t) : pc[r] = "held"}

HoldersHaveSlot == \A r \in Requests : slot[r] # "none" <=> r \in Holding

\* A reserved token is one request's and that request is of the target.
ReservedOwned ==
    /\ \A r \in ReservedHolders : reserved[TargetOf[r]] = 1
    /\ \A t \in Targets : reserved[t] = 1 => \E r \in ReservedHolders : TargetOf[r] = t
    /\ \A r, q \in ReservedHolders : TargetOf[r] = TargetOf[q] => r = q

SharedCounted == shared = Cardinality(SharedHolders)

GaugeCounted == \A t \in Targets : inFlight[t] = Cardinality(Counted(t))

\* The queue lists each parked request once and nothing else.
ParkedListed ==
    /\ \A i \in 1..Len(parked) : pc[parked[i]] = "parked"
    /\ \A r \in Requests : pc[r] = "parked" => \E i \in 1..Len(parked) : parked[i] = r
    /\ \A i, j \in 1..Len(parked) : parked[i] = parked[j] => i = j

IInv ==
    /\ TypeOK
    /\ HoldersHaveSlot
    /\ ReservedOwned
    /\ SharedCounted
    /\ GaugeCounted
    /\ ParkedListed
    /\ NoIdleSlotBesideWaiter

\* The sets the invariant counts are finite.
LEMMA Finiteness ==
    /\ SharedCapacity \in Nat
    /\ SharedCapacity >= 1
    /\ IsFiniteSet(Targets) /\ Cardinality(Targets) \in Nat
    /\ \A S \in SUBSET Requests : IsFiniteSet(S) /\ Cardinality(S) \in Nat
<1>1. Cardinality(Targets) \in Nat
  BY PoolAssumption, FS_CardinalityType
<1>2. ASSUME NEW S \in SUBSET Requests PROVE IsFiniteSet(S) /\ Cardinality(S) \in Nat
  BY PoolAssumption, FS_Subset, FS_CardinalityType
<1> QED BY <1>1, <1>2, PoolAssumption DEF SharedCapacity

LEMMA InitIInv == Init => IInv
<1> SUFFICES ASSUME Init PROVE IInv
  OBVIOUS
<1> USE DEF Init
<1>1. TypeOK
  BY Finiteness, PoolAssumption DEF TypeOK, Status
<1>2. HoldersHaveSlot /\ ReservedOwned
  BY DEF HoldersHaveSlot, ReservedOwned, ReservedHolders, Holding
<1>3. SharedCounted
  BY FS_EmptySet DEF SharedCounted, SharedHolders
<1>4. GaugeCounted
  <2>1. \A t \in Targets : Counted(t) = {}
    BY DEF Counted, RequestsOf
  <2> QED BY <2>1, FS_EmptySet DEF GaugeCounted
<1>5. ParkedListed /\ NoIdleSlotBesideWaiter
  BY DEF ParkedListed, NoIdleSlotBesideWaiter
<1> QED BY <1>1, <1>2, <1>3, <1>4, <1>5 DEF IInv

-----------------------------------------------------------------------------
(* Each action preserves the invariant *)

\* Putting a token in the reserved channel, from either select.
LEMMA PutReservedIInv ==
    ASSUME IInv, NEW r \in Requests, pc[r] \in {"idle", "slow"}, PutReserved(r)
    PROVE  IInv'
<1> USE DEF IInv, PutReserved, HasReserved
<1>1. TargetOf \in [Requests -> Targets]
  BY PoolAssumption
<1>2. TypeOK'
  BY <1>1 DEF TypeOK, Status
<1>3. slot[r] = "none"
  BY DEF HoldersHaveSlot, Holding, TypeOK
<1>4. HoldersHaveSlot'
  BY DEF HoldersHaveSlot, Holding, TypeOK
<1>5. ReservedOwned'
  <2>1. ReservedHolders' = ReservedHolders \cup {r}
    BY DEF ReservedHolders, TypeOK
  <2>2. \A q \in ReservedHolders : q \in Requests /\ TargetOf[q] # TargetOf[r]
    BY DEF ReservedOwned, ReservedHolders
  <2>3. reserved' = [reserved EXCEPT ![TargetOf[r]] = 1] /\ reserved \in [Targets -> {0, 1}]
    BY DEF TypeOK
  <2>4. \A q \in ReservedHolders' : reserved'[TargetOf[q]] = 1
    BY <1>1, <2>1, <2>2, <2>3 DEF ReservedOwned
  <2>5. ASSUME NEW t \in Targets, reserved'[t] = 1
        PROVE  \E q \in ReservedHolders' : TargetOf[q] = t
    BY <1>1, <2>1, <2>3, <2>5 DEF ReservedOwned
  <2>6. \A p, q \in ReservedHolders' : TargetOf[p] = TargetOf[q] => p = q
    BY <2>1, <2>2 DEF ReservedOwned
  <2> QED BY <2>4, <2>5, <2>6 DEF ReservedOwned
<1>6. SharedCounted'
  <2>1. SharedHolders' = SharedHolders
    BY <1>3 DEF SharedHolders, TypeOK
  <2> QED BY <2>1 DEF SharedCounted
<1>7. GaugeCounted'
  <2>1. \A t \in Targets : Counted(t)' = Counted(t)
    BY DEF Counted, RequestsOf, TypeOK
  <2> QED BY <2>1 DEF GaugeCounted
<1>8. ParkedListed'
  BY DEF ParkedListed, TypeOK
<1>9. NoIdleSlotBesideWaiter'
  BY <1>1 DEF NoIdleSlotBesideWaiter, HasShared, TypeOK
<1> QED BY <1>2, <1>4, <1>5, <1>6, <1>7, <1>8, <1>9

\* Putting a token in the shared channel.
LEMMA PutSharedIInv ==
    ASSUME IInv, NEW r \in Requests, pc[r] = "slow", PutShared(r)
    PROVE  IInv'
<1> USE DEF IInv, PutShared, HasShared
<1>1. TargetOf \in [Requests -> Targets]
  BY PoolAssumption
<1>2. TypeOK'
  BY Finiteness DEF TypeOK, Status
<1>3. slot[r] = "none"
  BY DEF HoldersHaveSlot, Holding, TypeOK
<1>4. HoldersHaveSlot'
  BY DEF HoldersHaveSlot, Holding, TypeOK
<1>5. ReservedOwned'
  <2>1. ReservedHolders' = ReservedHolders
    BY <1>3 DEF ReservedHolders, TypeOK
  <2> QED BY <1>1, <2>1 DEF ReservedOwned, ReservedHolders
<1>6. SharedCounted'
  <2>1. SharedHolders' = SharedHolders \cup {r} /\ r \notin SharedHolders
    BY <1>3 DEF SharedHolders, TypeOK
  <2>2. IsFiniteSet(SharedHolders)
    BY Finiteness DEF SharedHolders
  <2> QED BY <2>1, <2>2, CountPlus DEF SharedCounted
<1>7. GaugeCounted'
  <2>1. \A t \in Targets : Counted(t)' = Counted(t)
    BY DEF Counted, RequestsOf, TypeOK
  <2> QED BY <2>1 DEF GaugeCounted
<1>8. ParkedListed'
  BY DEF ParkedListed, TypeOK
<1>9. NoIdleSlotBesideWaiter'
  BY DEF NoIdleSlotBesideWaiter, HasReserved, TypeOK
<1> QED BY <1>2, <1>4, <1>5, <1>6, <1>7, <1>8, <1>9

\* A step that moves no token and counts nothing: entering the second select,
\* leaving it at once, dropping a release function.
LEMMA MoveIInv ==
    ASSUME IInv, NEW r \in Requests, AcquireMiss(r) \/ GiveUpAtOnce(r) \/ Forget(r)
    PROVE  IInv'
<1> USE DEF IInv, AcquireMiss, GiveUpAtOnce, Forget
<1>1. TypeOK'
  BY DEF TypeOK, Status
<1>2. HoldersHaveSlot'
  BY DEF HoldersHaveSlot, Holding, TypeOK
<1>3. ReservedOwned' /\ SharedCounted'
  BY DEF ReservedOwned, ReservedHolders, SharedCounted, SharedHolders
<1>4. GaugeCounted'
  <2>1. \A t \in Targets : Counted(t)' = Counted(t)
    BY DEF Counted, RequestsOf, TypeOK
  <2> QED BY <2>1 DEF GaugeCounted
<1>5. ParkedListed'
  <2>1. /\ pc[r] # "parked" /\ pc'[r] # "parked" /\ parked' = parked
        /\ \A q \in Requests \ {r} : pc'[q] = pc[q]
    BY DEF TypeOK
  <2>2. \A i \in 1..Len(parked) : parked[i] \in Requests
    BY DEF TypeOK
  <2> QED BY <2>1, <2>2 DEF ParkedListed
<1>6. NoIdleSlotBesideWaiter'
  BY DEF NoIdleSlotBesideWaiter, HasShared, HasReserved, TypeOK
<1> QED BY <1>1, <1>2, <1>3, <1>4, <1>5, <1>6

LEMMA ParkIInv ==
    ASSUME IInv, NEW r \in Requests, Park(r)
    PROVE  IInv'
<1> USE DEF IInv, Park
<1>1. TypeOK'
  BY DEF TypeOK, Status
<1>2. HoldersHaveSlot'
  BY DEF HoldersHaveSlot, Holding, TypeOK
<1>3. ReservedOwned' /\ SharedCounted'
  BY DEF ReservedOwned, ReservedHolders, SharedCounted, SharedHolders
<1>4. GaugeCounted'
  <2>1. \A t \in Targets : Counted(t)' = Counted(t)
    BY DEF Counted, RequestsOf, TypeOK
  <2> QED BY <2>1 DEF GaugeCounted
<1>5. ParkedListed'
  <2>1. parked \in Seq(Requests) /\ Len(parked) \in Nat
    BY DEF TypeOK
  <2>2. /\ Len(parked') = Len(parked) + 1
        /\ \A i \in 1..Len(parked) : parked'[i] = parked[i]
        /\ parked'[Len(parked) + 1] = r
    BY <2>1
  <2>3. \A i \in 1..Len(parked) : parked[i] # r
    BY DEF ParkedListed
  <2>4. \A i \in 1..Len(parked') : pc'[parked'[i]] = "parked"
    BY <2>1, <2>2 DEF ParkedListed, TypeOK
  <2>5. \A i, j \in 1..Len(parked') : parked'[i] = parked'[j] => i = j
    BY <2>1, <2>2, <2>3 DEF ParkedListed
  <2>6. ASSUME NEW q \in Requests, pc'[q] = "parked"
        PROVE  \E i \in 1..Len(parked') : parked'[i] = q
    BY <2>1, <2>2, <2>6 DEF ParkedListed, TypeOK
  <2> QED BY <2>4, <2>5, <2>6 DEF ParkedListed
<1>6. NoIdleSlotBesideWaiter'
  BY DEF NoIdleSlotBesideWaiter, MayPark, HasShared, HasReserved, TypeOK
<1> QED BY <1>1, <1>2, <1>3, <1>4, <1>5, <1>6

\* Taking one request out of the queue leaves the others in it.
LEMMA DequeueListed ==
    ASSUME TypeOK, ParkedListed, NEW i \in 1..Len(parked),
           parked' = SeqExt!RemoveAt(parked, i)
    PROVE  /\ parked' \in Seq(Requests)
           /\ \A j \in 1..Len(parked') : \E k \in (1..Len(parked)) \ {i} : parked'[j] = parked[k]
           /\ \A k \in (1..Len(parked)) \ {i} : \E j \in 1..Len(parked') : parked'[j] = parked[k]
           /\ \A j, k \in 1..Len(parked') : parked'[j] = parked'[k] => j = k
<1>1. parked \in Seq(Requests) /\ Len(parked) \in Nat
  BY DEF TypeOK
<1>2. /\ parked' \in Seq(Requests)
      /\ Len(parked') = Len(parked) - 1
      /\ \A j \in 1..(i - 1) : parked'[j] = parked[j]
      /\ \A j \in i..(Len(parked) - 1) : parked'[j] = parked[j + 1]
  BY <1>1, RemoveAtElements
<1>3. \A j, k \in 1..Len(parked) : parked[j] = parked[k] => j = k
  BY DEF ParkedListed
<1>4. ASSUME NEW j \in 1..Len(parked')
      PROVE  /\ j < i => j \in (1..Len(parked)) \ {i} /\ parked'[j] = parked[j]
             /\ j >= i => j + 1 \in (1..Len(parked)) \ {i} /\ parked'[j] = parked[j + 1]
  BY <1>1, <1>2
<1>5. \A j \in 1..Len(parked') : \E k \in (1..Len(parked)) \ {i} : parked'[j] = parked[k]
  BY <1>1, <1>2, <1>4
<1>6. ASSUME NEW k \in (1..Len(parked)) \ {i}
      PROVE  \E j \in 1..Len(parked') : parked'[j] = parked[k]
  <2>1. CASE k < i
    BY <1>1, <1>2, <2>1
  <2>2. CASE k > i
    <3>1. k - 1 \in i..(Len(parked) - 1) /\ k - 1 \in 1..Len(parked') /\ (k - 1) + 1 = k
      BY <1>1, <1>2, <2>2
    <3> QED BY <1>2, <3>1
  <2> QED BY <1>1, <2>1, <2>2
<1>7. ASSUME NEW j \in 1..Len(parked'), NEW k \in 1..Len(parked'), parked'[j] = parked'[k]
      PROVE  j = k
  <2>1. CASE j < i /\ k < i
    BY <1>3, <1>4, <1>7, <2>1
  <2>2. CASE j >= i /\ k >= i
    BY <1>1, <1>2, <1>3, <1>4, <1>7, <2>2, SMTT(20)
  <2>3. CASE j < i /\ k >= i
    BY <1>1, <1>2, <1>3, <1>4, <1>7, <2>3
  <2>4. CASE j >= i /\ k < i
    BY <1>1, <1>2, <1>3, <1>4, <1>7, <2>4
  <2> QED BY <1>1, <1>2, <2>1, <2>2, <2>3, <2>4
<1> QED BY <1>2, <1>5, <1>6, <1>7

LEMMA GiveUpParkedIInv ==
    ASSUME IInv, NEW r \in Requests, GiveUpParked(r)
    PROVE  IInv'
<1> USE DEF IInv
<1>1. PICK i \in DOMAIN parked : parked[i] = r /\ parked' = SeqExt!RemoveAt(parked, i)
  BY DEF GiveUpParked
<1>2. /\ pc[r] = "parked" /\ pc' = [pc EXCEPT ![r] = "idle"]
      /\ UNCHANGED <<slot, reserved, shared, inFlight>>
  BY DEF GiveUpParked
<1>3. i \in 1..Len(parked)
  BY <1>1 DEF TypeOK
<1>4. /\ parked' \in Seq(Requests)
      /\ \A j \in 1..Len(parked') : \E k \in (1..Len(parked)) \ {i} : parked'[j] = parked[k]
      /\ \A k \in (1..Len(parked)) \ {i} : \E j \in 1..Len(parked') : parked'[j] = parked[k]
      /\ \A j, k \in 1..Len(parked') : parked'[j] = parked'[k] => j = k
  BY <1>1, <1>3, DequeueListed
<1>5. TypeOK'
  BY <1>2, <1>4 DEF TypeOK, Status
<1>6. HoldersHaveSlot'
  BY <1>2 DEF HoldersHaveSlot, Holding, TypeOK
<1>7. ReservedOwned' /\ SharedCounted'
  BY <1>2 DEF ReservedOwned, ReservedHolders, SharedCounted, SharedHolders
<1>8. GaugeCounted'
  <2>1. \A t \in Targets : Counted(t)' = Counted(t)
    BY <1>2 DEF Counted, RequestsOf, TypeOK
  <2> QED BY <1>2, <2>1 DEF GaugeCounted
<1>9. ParkedListed'
  <2>1. \A k \in 1..Len(parked) : k # i => parked[k] # r /\ parked[k] \in Requests
    BY <1>1, <1>3 DEF ParkedListed, TypeOK
  <2>2. \A q \in Requests : pc'[q] = IF q = r THEN "idle" ELSE pc[q]
    BY <1>2 DEF TypeOK
  <2>3. ASSUME NEW j \in 1..Len(parked') PROVE pc'[parked'[j]] = "parked"
    <3>1. PICK k \in (1..Len(parked)) \ {i} : parked'[j] = parked[k]
      BY <1>4
    <3>2. pc[parked[k]] = "parked" /\ parked[k] # r /\ parked[k] \in Requests
      BY <2>1, <3>1 DEF ParkedListed
    <3> QED BY <2>2, <3>1, <3>2
  <2>4. ASSUME NEW q \in Requests, pc'[q] = "parked"
        PROVE  \E j \in 1..Len(parked') : parked'[j] = q
    <3>1. q # r /\ pc[q] = "parked"
      BY <2>2, <2>4
    <3>2. PICK k \in 1..Len(parked) : parked[k] = q
      BY <3>1 DEF ParkedListed
    <3> QED BY <1>1, <1>4, <3>1, <3>2
  <2> QED BY <1>4, <2>3, <2>4 DEF ParkedListed
<1>10. NoIdleSlotBesideWaiter'
  BY <1>2 DEF NoIdleSlotBesideWaiter, HasShared, HasReserved, TypeOK
<1> QED BY <1>5, <1>6, <1>7, <1>8, <1>9, <1>10

LEMMA HoldIInv ==
    ASSUME IInv, NEW r \in Requests, Hold(r)
    PROVE  IInv'
<1> USE DEF IInv, Hold
<1>1. TargetOf \in [Requests -> Targets]
  BY PoolAssumption
<1>2. TypeOK'
  <2>1. inFlight' \in [Targets -> Int]
    <3>1. /\ TargetOf[r] \in Targets
          /\ inFlight \in [Targets -> Int]
          /\ inFlight' = [inFlight EXCEPT ![TargetOf[r]] = inFlight[TargetOf[r]] + 1]
      BY <1>1 DEF TypeOK
    <3>2. inFlight[TargetOf[r]] + 1 \in Int
      BY <3>1
    <3> QED BY ONLY <3>1, <3>2
  <2>2. pc' \in [Requests -> Status]
    BY DEF TypeOK, Status
  <2> QED BY <2>1, <2>2 DEF TypeOK
<1>3. HoldersHaveSlot'
  BY DEF HoldersHaveSlot, Holding, TypeOK
<1>4. ReservedOwned' /\ SharedCounted'
  BY DEF ReservedOwned, ReservedHolders, SharedCounted, SharedHolders
<1>5. GaugeCounted'
  <2>1. \A t \in Targets \ {TargetOf[r]} : Counted(t)' = Counted(t)
    BY DEF Counted, RequestsOf, TypeOK
  <2>2. Counted(TargetOf[r])' = Counted(TargetOf[r]) \cup {r} /\ r \notin Counted(TargetOf[r])
    BY DEF Counted, RequestsOf, TypeOK
  <2>3. IsFiniteSet(Counted(TargetOf[r]))
    BY Finiteness DEF Counted, RequestsOf
  <2>4. Cardinality(Counted(TargetOf[r])') = Cardinality(Counted(TargetOf[r])) + 1
    BY <2>2, <2>3, CountPlus
  <2> QED BY <1>1, <2>1, <2>4 DEF GaugeCounted, TypeOK
<1>6. ParkedListed'
  <2>1. \A i \in 1..Len(parked) : parked[i] \in Requests
    BY DEF TypeOK
  <2> QED BY <2>1 DEF ParkedListed, TypeOK
<1>7. NoIdleSlotBesideWaiter'
  BY DEF NoIdleSlotBesideWaiter, HasShared, HasReserved, TypeOK
<1> QED BY <1>2, <1>3, <1>4, <1>5, <1>6, <1>7

LEMMA ReleaseIInv ==
    ASSUME IInv, NEW r \in Requests, Release(r)
    PROVE  IInv'
<1> USE DEF IInv, Release, FirstCall
<1>1. TargetOf \in [Requests -> Targets]
  BY PoolAssumption
<1>2. TypeOK'
  <2>1. inFlight' \in [Targets -> Int]
    <3>1. /\ TargetOf[r] \in Targets
          /\ inFlight \in [Targets -> Int]
          /\ inFlight' = [inFlight EXCEPT ![TargetOf[r]] = inFlight[TargetOf[r]] - 1]
      BY <1>1 DEF TypeOK
    <3>2. inFlight[TargetOf[r]] - 1 \in Int
      BY <3>1
    <3> QED BY ONLY <3>1, <3>2
  <2>2. pc' \in [Requests -> Status]
    BY DEF TypeOK, Status
  <2> QED BY <2>1, <2>2 DEF TypeOK
<1>3. HoldersHaveSlot'
  BY DEF HoldersHaveSlot, Holding, TypeOK
<1>4. ReservedOwned' /\ SharedCounted'
  BY DEF ReservedOwned, ReservedHolders, SharedCounted, SharedHolders
<1>5. GaugeCounted'
  <2>1. \A t \in Targets \ {TargetOf[r]} : Counted(t)' = Counted(t)
    BY DEF Counted, RequestsOf, TypeOK
  <2>2. Counted(TargetOf[r])' = Counted(TargetOf[r]) \ {r} /\ r \in Counted(TargetOf[r])
    BY DEF Counted, RequestsOf, TypeOK
  <2>3. IsFiniteSet(Counted(TargetOf[r]))
    BY Finiteness DEF Counted, RequestsOf
  <2>4. Cardinality(Counted(TargetOf[r])') = Cardinality(Counted(TargetOf[r])) - 1
    BY <2>2, <2>3, CountMinus
  <2> QED BY <1>1, <2>1, <2>4 DEF GaugeCounted, TypeOK
<1>6. ParkedListed'
  <2>1. \A i \in 1..Len(parked) : parked[i] \in Requests
    BY DEF TypeOK
  <2> QED BY <2>1 DEF ParkedListed, TypeOK
<1>7. NoIdleSlotBesideWaiter'
  BY DEF NoIdleSlotBesideWaiter, HasShared, HasReserved, TypeOK
<1> QED BY <1>2, <1>3, <1>4, <1>5, <1>6, <1>7

\* The token goes from r to the first request parked on its channel.
LEMMA FreeToParkedIInv ==
    ASSUME IInv, NEW r \in Requests, FreeToParked(r)
    PROVE  IInv'
<1> USE DEF IInv
<1>1. PICK i \in DOMAIN parked :
          /\ IsNext(i, r)
          /\ pc' = [pc EXCEPT ![r] = "released", ![parked[i]] = "taken"]
          /\ slot' = [slot EXCEPT ![r] = "none", ![parked[i]] = slot[r]]
          /\ parked' = SeqExt!RemoveAt(parked, i)
  BY DEF FreeToParked
<1> DEFINE s == parked[i]
<1>2. i \in 1..Len(parked) /\ s \in Requests /\ pc[s] = "parked"
  BY <1>1 DEF TypeOK, ParkedListed
<1>3. /\ pc[r] = "freeing" /\ s # r /\ slot[r] # "none" /\ slot[s] = "none"
      /\ slot[r] = "shared" \/ TargetOf[s] = TargetOf[r]
      /\ UNCHANGED <<reserved, shared, inFlight>>
  BY <1>1, <1>2 DEF FreeToParked, IsNext, WaitsBehind, HoldersHaveSlot, Holding
<1>4. /\ parked' \in Seq(Requests)
      /\ \A j \in 1..Len(parked') : \E k \in (1..Len(parked)) \ {i} : parked'[j] = parked[k]
      /\ \A k \in (1..Len(parked)) \ {i} : \E j \in 1..Len(parked') : parked'[j] = parked[k]
      /\ \A j, k \in 1..Len(parked') : parked'[j] = parked'[k] => j = k
  BY <1>1, <1>2, DequeueListed
<1>5. /\ \A q \in Requests : q # r /\ q # s => pc'[q] = pc[q] /\ slot'[q] = slot[q]
      /\ pc'[r] = "released" /\ slot'[r] = "none"
      /\ pc'[s] = "taken" /\ slot'[s] = slot[r]
  BY <1>1, <1>2, <1>3 DEF TypeOK
<1>6. TypeOK'
  BY <1>1, <1>2, <1>3, <1>4 DEF TypeOK, Status
<1> HIDE DEF s
<1>7. HoldersHaveSlot'
  BY <1>2, <1>3, <1>5 DEF HoldersHaveSlot, Holding
<1>8. ReservedOwned' /\ SharedCounted'
  <2>1. CASE slot[r] = "shared"
    <3>1. ReservedHolders' = ReservedHolders
      BY <1>2, <1>3, <1>5, <2>1 DEF ReservedHolders
    <3>2. SharedHolders' = (SharedHolders \ {r}) \cup {s}
      BY <1>2, <1>3, <1>5, <2>1 DEF SharedHolders
    <3>3. r \in SharedHolders /\ s \notin SharedHolders /\ IsFiniteSet(SharedHolders)
          /\ Cardinality(SharedHolders) \in Nat
      BY <1>3, <2>1, Finiteness DEF SharedHolders
    <3>4. IsFiniteSet(SharedHolders \ {r})
          /\ Cardinality(SharedHolders \ {r}) = Cardinality(SharedHolders) - 1
      BY <3>3, CountMinus
    <3>5. Cardinality(SharedHolders') = (Cardinality(SharedHolders) - 1) + 1
      BY <3>2, <3>3, <3>4, CountPlus
    <3> QED BY <1>3, <3>1, <3>3, <3>5 DEF ReservedOwned, SharedCounted
  <2>2. CASE slot[r] = "reserved"
    <3>1. SharedHolders' = SharedHolders
      BY <1>2, <1>3, <1>5, <2>2 DEF SharedHolders
    <3>2. ReservedHolders' = (ReservedHolders \ {r}) \cup {s} /\ r \in ReservedHolders
      BY <1>2, <1>3, <1>5, <2>2 DEF ReservedHolders
    <3>3. TargetOf[s] = TargetOf[r]
      BY <1>3, <2>2
    <3> QED BY <1>3, <3>1, <3>2, <3>3 DEF ReservedOwned, SharedCounted
  <2> QED BY <1>3, <2>1, <2>2 DEF TypeOK
<1>9. GaugeCounted'
  <2>1. \A t \in Targets : Counted(t)' = Counted(t)
    BY <1>2, <1>3, <1>5 DEF Counted, RequestsOf
  <2> QED BY <1>3, <2>1 DEF GaugeCounted
<1>10. ParkedListed'
  <2>1. ASSUME NEW k \in 1..Len(parked), k # i
        PROVE  parked[k] # s /\ parked[k] # r /\ parked[k] \in Requests
    <3>1. pc[parked[k]] = "parked" /\ parked[k] \in Requests
      BY DEF ParkedListed, TypeOK
    <3>2. parked[k] # s
      BY <1>2, <2>1 DEF ParkedListed, s
    <3> QED BY <1>3, <3>1, <3>2
  <2>2. \A j \in 1..Len(parked') : pc'[parked'[j]] = "parked"
    BY <1>4, <1>5, <2>1 DEF ParkedListed
  <2>3. ASSUME NEW q \in Requests, pc'[q] = "parked"
        PROVE  \E j \in 1..Len(parked') : parked'[j] = q
    <3>1. q # r /\ q # s /\ pc[q] = "parked"
      BY <1>5, <2>3
    <3>2. PICK k \in 1..Len(parked) : parked[k] = q
      BY <3>1 DEF ParkedListed
    <3> QED BY <1>4, <3>1, <3>2 DEF s
  <2> QED BY <1>4, <2>2, <2>3 DEF ParkedListed
<1>11. NoIdleSlotBesideWaiter'
  BY <1>3, <1>5 DEF NoIdleSlotBesideWaiter, HasShared, HasReserved
<1> QED BY <1>6, <1>7, <1>8, <1>9, <1>10, <1>11

\* The token leaves the pool: nobody is parked on its channel.
LEMMA FreeToPoolIInv ==
    ASSUME IInv, NEW r \in Requests, FreeToPool(r)
    PROVE  IInv'
<1> USE DEF IInv
<1>1. TargetOf \in [Requests -> Targets]
  BY PoolAssumption
<1>2. /\ pc[r] = "freeing" /\ slot[r] # "none"
      /\ pc' = [pc EXCEPT ![r] = "released"]
      /\ slot' = [slot EXCEPT ![r] = "none"]
      /\ UNCHANGED <<parked, inFlight>>
  BY DEF FreeToPool, HoldersHaveSlot, Holding
<1>3. HoldersHaveSlot'
  BY <1>2 DEF HoldersHaveSlot, Holding, TypeOK
<1>4. GaugeCounted'
  <2>1. \A t \in Targets : Counted(t)' = Counted(t)
    BY <1>2 DEF Counted, RequestsOf, TypeOK
  <2> QED BY <1>2, <2>1 DEF GaugeCounted
<1>5. ParkedListed'
  <2>1. \A i \in 1..Len(parked) : parked[i] \in Requests
    BY DEF TypeOK
  <2> QED BY <1>2, <2>1 DEF ParkedListed, TypeOK
<1>6. \A q \in Requests : pc'[q] = "parked" => pc[q] = "parked" /\ ~WaitsBehind(q, r)
  <2> SUFFICES ASSUME NEW q \in Requests, pc'[q] = "parked"
               PROVE  pc[q] = "parked" /\ ~WaitsBehind(q, r)
    OBVIOUS
  <2>1. pc[q] = "parked"
    BY <1>2 DEF TypeOK
  <2>2. PICK i \in 1..Len(parked) : parked[i] = q
    BY <2>1 DEF ParkedListed
  <2>3. i \in DOMAIN parked
    BY <2>2 DEF TypeOK
  <2> QED BY <2>1, <2>2, <2>3 DEF FreeToPool
<1>7. CASE slot[r] = "reserved"
  <2>1. reserved' = [reserved EXCEPT ![TargetOf[r]] = 0] /\ shared' = shared
    BY <1>7 DEF FreeToPool
  <2>2. TypeOK'
    BY <1>2, <2>1 DEF TypeOK, Status
  <2>3. SharedHolders' = SharedHolders
    BY <1>2, <1>7 DEF SharedHolders, TypeOK
  <2>4. ReservedHolders' = ReservedHolders \ {r} /\ r \in ReservedHolders
    BY <1>2, <1>7 DEF ReservedHolders, TypeOK
  <2>5. ReservedOwned'
    <3>1. \A q \in ReservedHolders' : q \in Requests /\ TargetOf[q] # TargetOf[r]
      BY <2>4 DEF ReservedOwned, ReservedHolders
    <3>2. \A q \in ReservedHolders' : reserved'[TargetOf[q]] = 1
      BY <1>1, <2>1, <2>4, <3>1 DEF ReservedOwned, TypeOK
    <3>3. ASSUME NEW t \in Targets, reserved'[t] = 1
          PROVE  \E q \in ReservedHolders' : TargetOf[q] = t
      BY <1>1, <2>1, <2>4, <3>3 DEF ReservedOwned, TypeOK
    <3> QED BY <2>4, <3>2, <3>3 DEF ReservedOwned
  <2>6. NoIdleSlotBesideWaiter'
    <3>1. \A q \in Requests : pc'[q] = "parked" => TargetOf[q] # TargetOf[r]
      BY <1>6 DEF WaitsBehind
    <3> QED BY <1>1, <1>6, <2>1, <3>1 DEF NoIdleSlotBesideWaiter, HasShared, HasReserved, TypeOK
  <2> QED BY <1>3, <1>4, <1>5, <2>1, <2>2, <2>3, <2>5, <2>6 DEF SharedCounted
<1>8. CASE slot[r] = "shared"
  <2>1. shared' = shared - 1 /\ reserved' = reserved
    BY <1>8 DEF FreeToPool
  <2>2. SharedHolders' = SharedHolders \ {r} /\ r \in SharedHolders
    BY <1>2, <1>8 DEF SharedHolders, TypeOK
  <2>3. IsFiniteSet(SharedHolders) /\ Cardinality(SharedHolders) \in Nat
        /\ Cardinality(SharedHolders') \in Nat
    BY Finiteness DEF SharedHolders
  <2>4. Cardinality(SharedHolders') = Cardinality(SharedHolders) - 1
    BY <2>2, <2>3, CountMinus
  <2>5. SharedCounted'
    BY <2>1, <2>4 DEF SharedCounted
  <2>6. shared' \in 0..SharedCapacity
    BY <2>1, <2>3, <2>4, Finiteness DEF SharedCounted, TypeOK
  <2>7. TypeOK'
    BY <1>2, <2>1, <2>6 DEF TypeOK, Status
  <2>8. ReservedHolders' = ReservedHolders
    BY <1>2, <1>8 DEF ReservedHolders, TypeOK
  <2>9. ReservedOwned'
    BY <2>1, <2>8 DEF ReservedOwned
  <2>10. NoIdleSlotBesideWaiter'
    BY <1>6, <1>8 DEF NoIdleSlotBesideWaiter, WaitsBehind
  <2> QED BY <1>3, <1>4, <1>5, <2>5, <2>7, <2>9, <2>10
<1> QED BY <1>2, <1>7, <1>8 DEF FreeToPool

LEMMA NextIInv == IInv /\ [Next]_vars => IInv'
<1> SUFFICES ASSUME IInv, [Next]_vars PROVE IInv'
  OBVIOUS
<1>1. ASSUME NEW r \in Requests, AcquireFast(r) PROVE IInv'
  BY <1>1, PutReservedIInv DEF AcquireFast
<1>2. ASSUME NEW r \in Requests, AcquireMiss(r) \/ GiveUpAtOnce(r) \/ Forget(r) PROVE IInv'
  BY <1>2, MoveIInv
<1>3. ASSUME NEW r \in Requests, AcquireSlow(r) PROVE IInv'
  BY <1>3, PutReservedIInv, PutSharedIInv DEF AcquireSlow
<1>4. ASSUME NEW r \in Requests, Park(r) PROVE IInv'
  BY <1>4, ParkIInv
<1>5. ASSUME NEW r \in Requests, GiveUpParked(r) PROVE IInv'
  BY <1>5, GiveUpParkedIInv
<1>6. ASSUME NEW r \in Requests, Hold(r) PROVE IInv'
  BY <1>6, HoldIInv
<1>7. ASSUME NEW r \in Requests, Release(r) PROVE IInv'
  BY <1>7, ReleaseIInv
<1>8. ASSUME NEW r \in Requests, FreeToParked(r) PROVE IInv'
  BY <1>8, FreeToParkedIInv
<1>9. ASSUME NEW r \in Requests, FreeToPool(r) PROVE IInv'
  BY <1>9, FreeToPoolIInv
<1>10. CASE UNCHANGED vars
  BY <1>10 DEF vars, IInv, TypeOK, HoldersHaveSlot, Holding, ReservedOwned, ReservedHolders,
               SharedCounted, SharedHolders, GaugeCounted, Counted, ParkedListed,
               NoIdleSlotBesideWaiter, HasShared, HasReserved
<1> QED BY <1>1, <1>2, <1>3, <1>4, <1>5, <1>6, <1>7, <1>8, <1>9, <1>10
        DEF Next, Acquire, GiveUp, Free

\* The invariant holds in every reachable state.
THEOREM Invariance == Spec => []IInv
<1>1. Init => IInv
  BY InitIInv
<1>2. IInv /\ [Next]_vars => IInv'
  BY NextIInv
<1> QED BY <1>1, <1>2, PTL DEF Spec

-----------------------------------------------------------------------------
(* What it implies *)

\* Acquire and release keep every variable of the pool in its type.
THEOREM TypeCorrect == Spec => []TypeOK
<1>1. IInv => TypeOK
  BY DEF IInv
<1> QED BY <1>1, Invariance, PTL

\* No request blocks beside a slot it could take (the two selects of Acquire
\* and the hand-over of a freed token).
THEOREM WorkConserving == Spec => []NoIdleSlotBesideWaiter
<1>1. IInv => NoIdleSlotBesideWaiter
  BY DEF IInv
<1> QED BY <1>1, Invariance, PTL

\* Whatever its capacity, the pool never gives away the last slot a target
\* without requests could use.
LEMMA RoomFromIInv == IInv => RoomForEveryTarget
<1> SUFFICES ASSUME IInv PROVE RoomForEveryTarget
  OBVIOUS
<1> USE DEF IInv
<1> DEFINE idle == {t \in Targets : RequestsOf(t) \cap Holding = {}}
           busy == Targets \ idle
<1>1. Holding = ReservedHolders \cup SharedHolders /\ ReservedHolders \cap SharedHolders = {}
  BY DEF HoldersHaveSlot, Holding, ReservedHolders, SharedHolders, TypeOK
<1>2. /\ IsFiniteSet(ReservedHolders) /\ Cardinality(ReservedHolders) \in Nat
      /\ IsFiniteSet(SharedHolders) /\ Cardinality(SharedHolders) \in Nat
  BY Finiteness DEF ReservedHolders, SharedHolders
<1>3. Cardinality(Holding) = Cardinality(ReservedHolders) + Cardinality(SharedHolders)
  <2>1. Cardinality(ReservedHolders \cup SharedHolders) =
          Cardinality(ReservedHolders) + Cardinality(SharedHolders)
            - Cardinality(ReservedHolders \cap SharedHolders)
    BY <1>2, FS_Union
  <2>2. Cardinality(ReservedHolders \cap SharedHolders) = 0
    BY <1>1, FS_EmptySet
  <2> QED BY <1>1, <1>2, <2>1, <2>2
<1>4. Cardinality(SharedHolders) <= Capacity - Cardinality(Targets)
  BY Finiteness, PoolAssumption DEF SharedCounted, TypeOK, SharedCapacity
<1>5. /\ IsFiniteSet(busy) /\ Cardinality(busy) \in Nat
      /\ Cardinality(idle) \in Nat
      /\ Cardinality(busy) = Cardinality(Targets) - Cardinality(idle)
  <2>1. IsFiniteSet(Targets) /\ idle \in SUBSET Targets /\ Targets \cap idle = idle
    BY Finiteness
  <2>2. IsFiniteSet(idle) /\ Cardinality(idle) \in Nat
    BY <2>1, FS_Subset, FS_CardinalityType
  <2>3. IsFiniteSet(Targets \ idle)
        /\ Cardinality(Targets \ idle) = Cardinality(Targets) - Cardinality(Targets \cap idle)
    BY <2>1, FS_Difference
  <2> QED BY <2>1, <2>2, <2>3, FS_CardinalityType
<1>6. Cardinality(ReservedHolders) <= Cardinality(busy)
  <2> DEFINE f == [r \in ReservedHolders |-> TargetOf[r]]
  <2>1. \A r \in ReservedHolders : TargetOf[r] \in busy
    BY <1>1, PoolAssumption DEF ReservedHolders, RequestsOf
  <2>2. \A r, q \in ReservedHolders : f[r] = f[q] => r = q
    BY DEF ReservedOwned
  <2>3. f \in Injection(ReservedHolders, busy)
    BY <2>1, <2>2 DEF Injection, IsInjective
  <2> QED BY <1>5, <2>3, FS_Injection
<1> HIDE DEF idle, busy
<1>7. Cardinality(Holding) + Cardinality(idle) <= Capacity
  BY <1>2, <1>3, <1>4, <1>5, <1>6, PoolAssumption, Finiteness
<1> QED BY <1>7 DEF RoomForEveryTarget, idle

\* The cap and the reservations hold in every reachable state.
THEOREM CapRespected == Spec => []RoomForEveryTarget
BY RoomFromIInv, Invariance, PTL

\* The exported gauge counts no request that holds no slot.
LEMMA GaugeSound ==
    ASSUME IInv, NEW t \in Targets
    PROVE  inFlight[t] \in 0..Cardinality(RequestsOf(t) \cap Holding)
<1>1. inFlight[t] = Cardinality(Counted(t))
  BY DEF IInv, GaugeCounted
<1>2. Counted(t) \in SUBSET (RequestsOf(t) \cap Holding)
  BY DEF Counted, RequestsOf, Holding
<1>3. /\ IsFiniteSet(RequestsOf(t) \cap Holding)
      /\ Cardinality(RequestsOf(t) \cap Holding) \in Nat
      /\ Cardinality(Counted(t)) \in Nat
  BY Finiteness DEF RequestsOf, Holding, Counted
<1>4. Cardinality(Counted(t)) <= Cardinality(RequestsOf(t) \cap Holding)
  BY <1>2, <1>3, FS_Subset
<1> QED BY <1>1, <1>3, <1>4

\* No token leaks, none is freed twice, and the gauge counts no request without.
THEOREM NoLeak == Spec => []SlotsAccounted
<1>1. IInv => SlotsAccounted
  <2> SUFFICES ASSUME IInv PROVE SlotsAccounted
    OBVIOUS
  <2> USE DEF IInv
  <2>1. ASSUME NEW t \in Targets
        PROVE  reserved[t] = Cardinality({r \in RequestsOf(t) : slot[r] = "reserved"})
    <3> DEFINE H == {r \in RequestsOf(t) : slot[r] = "reserved"}
    <3>1. reserved[t] \in {0, 1}
      BY DEF TypeOK
    <3>2. CASE reserved[t] = 0
      <4>1. H = {}
        BY <3>2 DEF ReservedOwned, ReservedHolders, RequestsOf
      <4> QED BY <3>2, <4>1, FS_EmptySet
    <3>3. CASE reserved[t] = 1
      <4>1. PICK r \in ReservedHolders : TargetOf[r] = t
        BY <3>3 DEF ReservedOwned
      <4>2. H = {r}
        BY <4>1 DEF ReservedOwned, ReservedHolders, RequestsOf
      <4> QED BY <3>3, <4>2, FS_Singleton
    <3> QED BY <3>1, <3>2, <3>3
  <2> QED
    BY <2>1, GaugeSound DEF SlotsAccounted, HoldersHaveSlot, SharedCounted, SharedHolders
<1> QED BY <1>1, Invariance, PTL

-----------------------------------------------------------------------------
(* The pool implements the abstract cap *)

\* Every step of the pool takes one slot, drops one, hands one over, or
\* changes nothing the abstract cap sees.
LEMMA StepImplementsCap ==
    ASSUME IInv, IInv', [Next]_vars
    PROVE  [Cap!Next]_Holding
<1>1. Cap!Admissible(Holding')
  <2>1. Cap!Idle(Holding') = {t \in Targets : RequestsOf(t) \cap Holding' = {}}
    BY DEF Cap!Idle, RequestsOf, Holding
  <2>2. RoomForEveryTarget'
    BY RoomFromIInv, PTL
  <2>3. Cardinality(Holding')
          + Cardinality({t \in Targets : RequestsOf(t) \cap Holding' = {}}) <= Capacity
    BY <2>2 DEF RoomForEveryTarget, RequestsOf
  <2>4. Cardinality(Holding') + Cardinality(Cap!Idle(Holding')) <= Capacity
    BY <2>1, <2>3
  <2> QED BY <2>4 DEF Cap!Admissible, Cap!Cardinality, Cardinality
<1>2. ASSUME NEW r \in Requests, AcquireFast(r) \/ AcquireSlow(r) PROVE Cap!Take(r)
  <2>1. r \notin Holding /\ Holding' = Holding \cup {r}
    BY <1>2 DEF AcquireFast, AcquireSlow, PutReserved, PutShared, Holding, IInv, TypeOK
  <2> QED BY <1>1, <2>1 DEF Cap!Take
<1>3. ASSUME NEW r \in Requests, FreeToPool(r) PROVE Cap!Drop(r)
  <2>1. r \in Holding /\ Holding' = Holding \ {r}
    BY <1>3 DEF FreeToPool, Holding, IInv, TypeOK
  <2> QED BY <2>1 DEF Cap!Drop
<1>4. ASSUME NEW r \in Requests, FreeToParked(r) PROVE \E s \in Requests : Cap!HandOver(r, s)
  <2>1. PICK i \in DOMAIN parked :
           pc' = [pc EXCEPT ![r] = "released", ![parked[i]] = "taken"]
    BY <1>4 DEF FreeToParked
  <2>2. parked[i] \in Requests /\ pc[parked[i]] = "parked" /\ pc[r] = "freeing"
    BY <1>4 DEF IInv, TypeOK, ParkedListed, FreeToParked
  <2>3. /\ r \in Holding /\ parked[i] \notin Holding
        /\ Holding' = (Holding \ {r}) \cup {parked[i]}
    BY <2>1, <2>2 DEF Holding, IInv, TypeOK
  <2> QED BY <1>1, <2>2, <2>3 DEF Cap!HandOver
<1>5. ASSUME NEW r \in Requests,
             AcquireMiss(r) \/ Park(r) \/ GiveUp(r) \/ Hold(r) \/ Release(r) \/ Forget(r)
      PROVE  Holding' = Holding
  BY <1>5 DEF AcquireMiss, Park, GiveUp, GiveUpAtOnce, GiveUpParked, Hold, Release, FirstCall,
              Forget, Holding, IInv, TypeOK
<1>6. CASE UNCHANGED vars
  BY <1>6 DEF vars, Holding
<1>7. CASE Next
  BY <1>2, <1>3, <1>4, <1>5, <1>7 DEF Next, Acquire, Free, Cap!Next
<1> QED BY <1>6, <1>7

\* The detailed pool is an implementation of UpstreamCap.
THEOREM Refinement == Spec => ImplementsCap
<1>1. Init => Cap!Init
  BY DEF Init, Cap!Init, Holding
<1>2. IInv /\ IInv' /\ [Next]_vars => [Cap!Next]_Holding
  BY StepImplementsCap
<1> QED BY <1>1, <1>2, Invariance, PTL DEF Spec, ImplementsCap, Cap!Spec
=============================================================================

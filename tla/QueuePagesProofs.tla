------------------------- MODULE QueuePagesProofs -------------------------
(***************************************************************************)
(* Proofs about QueuePages, for any page size, bound of pages, number of    *)
(* items and number of changes.                                             *)
(*                                                                         *)
(* While a target keeps its order, the queue is increasing, and every item  *)
(* that was counted comes before those on the pages not read yet (Ahead):   *)
(* none is counted twice.  The items left uncounted on the positions read   *)
(* so far got there because one before them left: one for each removal      *)
(* (Behind).                                                                *)
(***************************************************************************)
EXTENDS QueuePages, FiniteSetTheorems, SequenceTheorems, TLAPS

Reading == stage = "asking" /\ page > 1
Read == (page - 1) * PageSize       \* positions read so far
Paged == target = "pages" /\ changes["reordered"] = 0

Increasing(q) == \A p, r \in DOMAIN q : p < r => q[p] < q[r]

Control ==
    /\ target \in {"pages", "ignores", "lies"} /\ identified \in BOOLEAN
    /\ requests \in Nat
    /\ stage = "asking" => page >= 1 /\ requests = page - 1
    /\ stage = "asking" /\ page = 1 =>
          /\ queue = Entered(entered) /\ found = <<>>
          /\ counted = NotFetched /\ changes = NoChanges /\ failed = FALSE
    /\ Reading => page <= totalPages /\ prev # <<>>

\* The queue is what entered and has not left, in the order it entered.
Line ==
    /\ Len(queue) <= entered
    /\ \A p \in DOMAIN queue : queue[p] <= entered
    /\ changes["reordered"] = 0 => Increasing(queue) /\ \A p \in DOMAIN queue : p <= queue[p]

Known ==
    /\ \A i \in Items : counted[i] > 0 => i <= entered
    /\ Len(found) <= entered /\ found = Entered(Len(found))

Ahead ==
    /\ Reading /\ Paged =>
          /\ \A i \in Items, p \in DOMAIN queue : counted[i] > 0 /\ p > Read => i < queue[p]
          /\ counted[prev[1]] > 0
    /\ Reading /\ target = "ignores" /\ changes = NoChanges => prev = Records(1)

Passed == {i \in Stayed : counted[i] = 0 /\ \E p \in DOMAIN queue : p <= Read /\ queue[p] = i}

Behind ==
    /\ Reading /\ Paged => Cardinality(Passed) <= changes["removed"]
    /\ Reading /\ target = "pages" /\ Len(found) <= MaxQueuePages * PageSize =>
          Len(found) <= totalPages * PageSize

IInv ==
    /\ TypeOK /\ Control /\ WorkIsBounded
    /\ Line /\ Known /\ Ahead /\ CountedAtMostOnce
    /\ Behind /\ MissedAreRemovals

-----------------------------------------------------------------------------
(* Pages and records *)

LEMMA Bounds ==
    /\ PageSize \in Nat /\ PageSize >= 1
    /\ MaxQueuePages \in Nat /\ MaxQueuePages >= 1
    /\ MaxItems \in Nat /\ MaxItems >= 1
    /\ MaxChanges \in Nat /\ MaxChanges >= 1
  BY PagesAssumption

LEMMA Multiples ==
    ASSUME NEW n \in Nat, n >= 1
    PROVE  /\ (n - 1) * PageSize \in Nat
           /\ n * PageSize = (n - 1) * PageSize + PageSize
           /\ ((n + 1) - 1) * PageSize = n * PageSize
  BY Bounds

LEMMA RemoveAtElements ==
    ASSUME NEW S, NEW s \in Seq(S), NEW i \in 1..Len(s)
    PROVE  /\ RemoveAt(s, i) \in Seq(S)
           /\ Len(RemoveAt(s, i)) = Len(s) - 1
           /\ \A j \in 1..(i - 1) : RemoveAt(s, i)[j] = s[j]
           /\ \A j \in i..(Len(s) - 1) : RemoveAt(s, i)[j] = s[j + 1]
<1> DEFINE front == SubSeq(s, 1, i - 1)
           back  == SubSeq(s, i + 1, Len(s))
<1>1. i \in 1..Len(s) /\ Len(s) \in Nat
  OBVIOUS
<1>2. front \in Seq(S) /\ Len(front) = i - 1 /\ \A k \in 1..(i - 1) : front[k] = s[k]
  BY <1>1
<1>3. back \in Seq(S) /\ Len(back) = Len(s) - i
      /\ \A k \in 1..(Len(s) - i) : back[k] = s[k + i]
  BY <1>1
<1>4. RemoveAt(s, i) = front \o back
  BY DEF RemoveAt
<1> HIDE DEF front, back
<1>5. front \o back \in Seq(S) /\ Len(front \o back) = Len(front) + Len(back)
  BY <1>2, <1>3, ConcatProperties
<1>6. ASSUME NEW j \in 1..(i - 1) PROVE (front \o back)[j] = s[j]
  BY <1>1, <1>2, <1>3
<1>7. ASSUME NEW j \in i..(Len(s) - 1) PROVE (front \o back)[j] = s[j + 1]
  <2>1. (front \o back)[j] = back[j - (i - 1)]
    BY <1>1, <1>2, <1>3
  <2>2. j - (i - 1) \in 1..(Len(s) - i) /\ (j - (i - 1)) + i = j + 1
    BY <1>1
  <2> QED BY <1>3, <2>1, <2>2
<1> QED BY <1>1, <1>2, <1>3, <1>4, <1>5, <1>6, <1>7

\* A page is the part of the queue at its positions.
LEMMA RecordsElements ==
    ASSUME TypeOK, NEW n \in Nat, n >= 1
    PROVE  /\ Records(n) \in Seq(Items)
           /\ \A p \in DOMAIN Records(n) :
                 /\ (n - 1) * PageSize + p \in DOMAIN queue /\ p <= PageSize
                 /\ Records(n)[p] = queue[(n - 1) * PageSize + p]
           /\ \A p \in DOMAIN queue : (n - 1) * PageSize < p /\ p <= n * PageSize =>
                 /\ p - (n - 1) * PageSize \in DOMAIN Records(n)
                 /\ Records(n)[p - (n - 1) * PageSize] = queue[p]
<1> DEFINE lo == (n - 1) * PageSize
           hi == IF n * PageSize < Len(queue) THEN n * PageSize ELSE Len(queue)
<1>1. lo \in Nat /\ n * PageSize = lo + PageSize /\ PageSize \in Nat
  BY Bounds, Multiples
<1>2. queue \in Seq(Items) /\ Len(queue) \in Nat /\ DOMAIN queue = 1..Len(queue)
  BY DEF TypeOK
<1>3. hi \in Nat /\ hi <= Len(queue) /\ hi <= lo + PageSize
      /\ \A p \in 1..Len(queue) : p <= lo + PageSize => p <= hi
  BY <1>1, <1>2
<1>4. Records(n) = SubSeq(queue, lo + 1, hi)
  BY DEF Records
<1> HIDE DEF lo, hi
<1>5. /\ SubSeq(queue, lo + 1, hi) \in Seq(Items)
      /\ Len(SubSeq(queue, lo + 1, hi)) = IF lo + 1 <= hi THEN hi - lo ELSE 0
      /\ \A p \in 1..(hi - lo) : SubSeq(queue, lo + 1, hi)[p] = queue[lo + p]
  BY <1>1, <1>2, <1>3
<1>6. DOMAIN Records(n) = 1..(hi - lo)
  BY <1>1, <1>3, <1>4, <1>5
<1>7. ASSUME NEW p \in DOMAIN Records(n)
      PROVE  lo + p \in DOMAIN queue /\ p <= PageSize /\ Records(n)[p] = queue[lo + p]
  <2>1. p \in Int /\ 1 <= p /\ p <= hi - lo
    BY <1>1, <1>3, <1>6
  <2>2. lo + p \in DOMAIN queue /\ p <= PageSize
    BY <1>1, <1>2, <1>3, <2>1
  <2>3. Records(n)[p] = queue[lo + p]
    <3>1. p \in 1..(hi - lo)
      BY <1>6
    <3> QED BY <1>4, <1>5, <3>1
  <2> QED BY <2>2, <2>3
<1>8. ASSUME NEW p \in DOMAIN queue, lo < p, p <= lo + PageSize
      PROVE  p - lo \in DOMAIN Records(n) /\ Records(n)[p - lo] = queue[p]
  <2>1. p - lo \in 1..(hi - lo) /\ lo + (p - lo) = p
    BY <1>1, <1>2, <1>3, <1>8
  <2> QED BY <1>4, <1>5, <1>6, <2>1
<1> QED
  BY <1>1, <1>4, <1>5, <1>7, <1>8 DEF lo

\* Whatever a target answers, its records are in the queue.
LEMMA RepliesType ==
    ASSUME IInv, page > 0, NEW reply \in Replies(page)
    PROVE  /\ reply.records \in Seq(Items)
           /\ \A p \in DOMAIN reply.records :
                 \E r \in DOMAIN queue : reply.records[p] = queue[r]
           /\ reply.totalRecords \in Int /\ reply.pageSize \in Int
           /\ target = "pages" => /\ reply.records = Records(page)
                                  /\ reply.totalRecords = Len(queue)
                                  /\ reply.pageSize = PageSize
           /\ target = "ignores" => reply.records = Records(1)
<1>1. page \in Nat /\ page >= 1 /\ target \in {"pages", "ignores", "lies"} /\ Len(queue) \in Int
  BY Bounds DEF IInv, TypeOK, Control
<1>2. reply.records \in {<<>>, Records(1), Records(page)}
  BY <1>1 DEF Replies
<1>3. /\ reply.totalRecords \in Int /\ reply.pageSize \in Int
      /\ target = "pages" => /\ reply.records = Records(page)
                             /\ reply.totalRecords = Len(queue)
                             /\ reply.pageSize = PageSize
      /\ target = "ignores" => reply.records = Records(1)
  BY <1>1, Bounds DEF Replies
<1>4. <<>> \in Seq(Items) /\ DOMAIN <<>> = {}
  OBVIOUS
<1>5. ASSUME NEW n \in Nat, n >= 1
      PROVE  /\ Records(n) \in Seq(Items)
             /\ \A p \in DOMAIN Records(n) : \E r \in DOMAIN queue : Records(n)[p] = queue[r]
  BY <1>5, RecordsElements DEF IInv
<1>6. /\ reply.records \in Seq(Items)
      /\ \A p \in DOMAIN reply.records : \E r \in DOMAIN queue : reply.records[p] = queue[r]
  <2>1. CASE reply.records = <<>>
    BY <1>4, <2>1
  <2>2. CASE \E n \in {1, page} : reply.records = Records(n)
    BY <1>1, <1>5, <2>2
  <2> QED BY <1>2, <2>1, <2>2
<1> QED
  BY <1>3, <1>6

-----------------------------------------------------------------------------
(* Counting *)

LEMMA ItemsFinite == IsFiniteSet(Items)
  BY Bounds, FS_Interval DEF Items

\* Add counts what is in the records, and nothing else.
LEMMA AddCounts ==
    ASSUME TypeOK, NEW records \in Seq(Items)
    PROVE  /\ Add(records) \in [Items -> Nat]
           /\ \A i \in Items :
                 /\ Add(records)[i] >= counted[i]
                 /\ (\A p \in DOMAIN records : records[p] # i) => Add(records)[i] = counted[i]
                 /\ (\E p \in DOMAIN records : records[p] = i) => Add(records)[i] > 0
                 /\ (\A p, r \in DOMAIN records : records[p] = records[r] => p = r)
                       => Add(records)[i] <= counted[i] + 1
<1> DEFINE At(i) == {p \in DOMAIN records : records[p] = i}
<1>1. IsFiniteSet(DOMAIN records)
  <2>1. Len(records) \in Int /\ DOMAIN records = 1..Len(records)
    OBVIOUS
  <2> QED BY <2>1, FS_Interval
<1>2. ASSUME NEW i \in Items PROVE IsFiniteSet(At(i)) /\ Cardinality(At(i)) \in Nat
  <2>1. At(i) \subseteq DOMAIN records
    OBVIOUS
  <2> HIDE DEF At
  <2> QED BY <1>1, <2>1, FS_Subset, FS_CardinalityType
<1>3. Add(records) = [i \in Items |-> counted[i] + Cardinality(At(i))]
  BY DEF Add
<1>4. counted \in [Items -> Nat]
  BY DEF TypeOK
<1>5. ASSUME NEW i \in Items, \A p \in DOMAIN records : records[p] # i
      PROVE  Cardinality(At(i)) = 0
  <2>1. At(i) = {}
    BY <1>5
  <2> QED BY <2>1, FS_EmptySet
<1>6. ASSUME NEW i \in Items, \E p \in DOMAIN records : records[p] = i
      PROVE  Cardinality(At(i)) > 0
  <2>1. At(i) # {}
    BY <1>6
  <2> HIDE DEF At
  <2> QED BY <1>2, <2>1, FS_EmptySet
<1>7. ASSUME NEW i \in Items, \A p, r \in DOMAIN records : records[p] = records[r] => p = r
      PROVE  Cardinality(At(i)) <= 1
  <2>1. CASE \A p \in DOMAIN records : records[p] # i
    BY <1>5, <2>1
  <2>2. CASE \E p \in DOMAIN records : records[p] = i
    <3>1. PICK p \in DOMAIN records : records[p] = i
      BY <2>2
    <3>2. At(i) = {p}
      BY <1>7, <3>1
    <3>3. Cardinality({p}) = 1
      BY FS_Singleton
    <3> HIDE DEF At
    <3> QED BY <3>2, <3>3
  <2> QED BY <2>1, <2>2
<1> HIDE DEF At
<1>8. Add(records) \in [Items -> Nat]
  BY <1>2, <1>3, <1>4
<1>9. \A i \in Items : Add(records)[i] = counted[i] + Cardinality(At(i)) /\ counted[i] \in Nat
  BY <1>3, <1>4
<1>10. ASSUME NEW i \in Items
       PROVE  /\ Add(records)[i] >= counted[i]
              /\ (\A p \in DOMAIN records : records[p] # i) => Add(records)[i] = counted[i]
              /\ (\E p \in DOMAIN records : records[p] = i) => Add(records)[i] > 0
              /\ (\A p, r \in DOMAIN records : records[p] = records[r] => p = r)
                    => Add(records)[i] <= counted[i] + 1
  <2>1. Cardinality(At(i)) \in Nat /\ counted[i] \in Nat
        /\ Add(records)[i] = counted[i] + Cardinality(At(i))
    BY <1>2, <1>9
  <2> HIDE DEF Add
  <2>2. (\A p \in DOMAIN records : records[p] # i) => Add(records)[i] = counted[i]
    BY <1>5, <2>1
  <2>3. (\E p \in DOMAIN records : records[p] = i) => Add(records)[i] > 0
    BY <1>6, <2>1
  <2>4. (\A p, r \in DOMAIN records : records[p] = records[r] => p = r)
          => Add(records)[i] <= counted[i] + 1
    BY <1>7, <2>1
  <2> QED BY <2>1, <2>2, <2>3, <2>4
<1> QED
  BY <1>8, <1>10

-----------------------------------------------------------------------------
(* The steps that do not count *)

LEMMA EnteredElements ==
    ASSUME NEW n \in 0..MaxItems
    PROVE  /\ Entered(n) \in Seq(Items) /\ Len(Entered(n)) = n /\ DOMAIN Entered(n) = 1..n
           /\ \A p \in 1..n : Entered(n)[p] = p
           /\ n = 0 => Entered(n) = <<>>
<1>1. n \in Nat /\ n <= MaxItems
  BY Bounds
<1>2. Entered(n) \in [1..n -> Items]
  BY <1>1, Bounds DEF Entered, Items
<1>3. Entered(n) \in Seq(Items) /\ Len(Entered(n)) = n
  BY <1>1, <1>2
<1> QED
  BY <1>1, <1>2, <1>3 DEF Entered

LEMMA NoneCounted == NotFetched \in [Items -> Nat] /\ \A i \in Items : NotFetched[i] = 0
  BY DEF NotFetched

LEMMA NoneChanged ==
    /\ NoChanges \in [Kinds -> 0..MaxChanges]
    /\ \A k \in Kinds : NoChanges[k] = 0
  BY Bounds DEF NoChanges

\* Whatever queue a collection starts from, with nothing read and nothing counted.
Start ==
    /\ entered \in 0..MaxItems /\ queue = Entered(entered)
    /\ \/ stage = "idle" /\ page = 0 /\ totalPages = 0
       \/ stage = "asking" /\ page = 1 /\ totalPages = 1
    /\ target \in {"pages", "ignores", "lies"} /\ identified \in BOOLEAN
    /\ changes = NoChanges /\ prev = <<>>
    /\ counted = NotFetched /\ failed = FALSE /\ requests = 0 /\ found = <<>>

LEMMA StartHolds == Start => IInv
<1> SUFFICES ASSUME Start PROVE IInv
  OBVIOUS
<1>1. entered \in Nat /\ entered <= MaxItems /\ ~Reading /\ stage # "done"
  BY Bounds DEF Start, Reading
<1>2. /\ queue \in Seq(Items) /\ Len(queue) = entered /\ DOMAIN queue = 1..entered
      /\ \A p \in 1..entered : queue[p] = p
  BY EnteredElements DEF Start
<1>3. TypeOK
  <2>1. totalPages \in 0..MaxQueuePages /\ page \in 0..(MaxQueuePages + 1)
    BY Bounds DEF Start
  <2>2. entered \in 0..MaxItems /\ stage \in {"idle", "asking", "done"} 
        /\ <<>> \in Seq(Items) /\ prev = <<>> /\ found = <<>>
    BY DEF Start
  <2>3. changes \in [Kinds -> 0..MaxChanges] /\ counted \in [Items -> Nat]
    BY NoneCounted, NoneChanged DEF Start
  <2>4. failed \in BOOLEAN
    BY DEF Start
  <2> QED
    BY <1>2, <2>1, <2>2, <2>3, <2>4 DEF TypeOK
<1>4. Control
  BY <1>1 DEF Control, Start
<1>5. Line
  BY <1>1, <1>2 DEF Line, Increasing
<1>6. Known
  <2>1. Entered(0) = <<>> /\ Len(<<>>) = 0
    BY Bounds, EnteredElements
  <2> QED BY <1>1, <2>1, NoneCounted DEF Known, Start
<1>7. Ahead /\ Behind /\ MissedAreRemovals
  BY <1>1 DEF Ahead, Behind, MissedAreRemovals
<1>8. WorkIsBounded /\ CountedAtMostOnce
  BY Bounds, NoneCounted DEF WorkIsBounded, CountedAtMostOnce, Start
<1> QED
  BY <1>3, <1>4, <1>5, <1>6, <1>7, <1>8 DEF IInv

LEMMA InitHolds == Init => IInv
<1>1. Init => Start
  BY Bounds, EnteredElements DEF Init, Start
<1> QED
  BY <1>1, StartHolds

LEMMA BeginHolds == IInv /\ Begin => IInv'
<1>1. IInv /\ Begin => Start'
  <2> SUFFICES ASSUME IInv, Begin PROVE Start'
    OBVIOUS
  <2>1. target \in {"pages", "ignores", "lies"} /\ identified \in BOOLEAN
    BY DEF IInv, Control
  <2> QED
    BY <2>1 DEF Start, Begin
<1> QED
  BY <1>1, StartHolds, PTL

LEMMA RequestInTime ==
    ASSUME IInv, stage = "asking"
    PROVE  requests \in Nat /\ page = requests + 1 /\ page <= MaxQueuePages
<1>1. /\ page \in Int /\ totalPages \in Int /\ totalPages <= MaxQueuePages
      /\ (page = 1 \/ page <= totalPages) /\ requests \in Nat /\ page - 1 = requests
  BY Bounds DEF IInv, TypeOK, Control, Reading
<1> QED
  BY <1>1, Bounds DEF IInv, Control

LEMMA FailHolds == ASSUME IInv, Fail PROVE IInv'
<1>1. /\ stage = "asking" /\ stage' = "done" /\ failed' = TRUE /\ requests' = requests + 1
      /\ UNCHANGED <<target, identified, queue, entered, changes, page, totalPages, prev,
                     counted, found>>
  BY DEF Fail, queueVars
<1>2. ~Reading'
  BY <1>1 DEF Reading
<1>3. TypeOK'
  <2>1. failed' \in BOOLEAN /\ stage' \in {"idle", "asking", "done"}
    BY <1>1
  <2> QED BY <1>1, <2>1 DEF IInv, TypeOK
<1>4. Control' /\ WorkIsBounded'
  <2>1. target' \in {"pages", "ignores", "lies"} /\ identified' \in BOOLEAN
    BY <1>1 DEF IInv, Control
  <2>2. requests' \in Nat /\ WorkIsBounded'
    BY <1>1, RequestInTime, Bounds DEF WorkIsBounded
  <2> QED BY <1>1, <1>2, <2>1, <2>2 DEF Control
<1>5. Line' /\ Known'
  BY <1>1 DEF IInv, Line, Known, Increasing
<1>6. Ahead' /\ Behind' /\ MissedAreRemovals'
  BY <1>1, <1>2 DEF Ahead, Behind, MissedAreRemovals
<1>7. CountedAtMostOnce'
  BY <1>1 DEF IInv, CountedAtMostOnce
<1> QED
  BY <1>3, <1>4, <1>5, <1>6, <1>7 DEF IInv

-----------------------------------------------------------------------------
(* The queue changes between two pages *)

LEMMA ChangeCounts ==
    ASSUME IInv, NEW kind \in Kinds, Changed(kind)
    PROVE  /\ Reading /\ Reading' /\ changes' \in [Kinds -> 0..MaxChanges]
           /\ changes'[kind] = changes[kind] + 1
           /\ \A k \in Kinds \ {kind} : changes'[k] = changes[k]
           /\ changes' # NoChanges
           /\ UNCHANGED <<target, identified, stage, page, totalPages, prev, counted, failed,
                          requests, found>>
<1>1. changes \in [Kinds -> 0..MaxChanges]
  BY DEF IInv, TypeOK
<1>2. /\ changes["removed"] \in Nat /\ changes["appended"] \in Nat
      /\ changes["reordered"] \in Nat
  BY <1>1, Bounds DEF Kinds
<1>3. changes' = [changes EXCEPT ![kind] = changes[kind] + 1]
  BY DEF Changed
<1>4. changes["removed"] + changes["appended"] + changes["reordered"] < MaxChanges
  BY DEF Changed
<1>5. changes[kind] \in Nat /\ changes[kind] + 1 \in 0..MaxChanges
  BY <1>2, <1>4, Bounds DEF Kinds
<1>6. /\ changes'[kind] = changes[kind] + 1
      /\ \A k \in Kinds \ {kind} : changes'[k] = changes[k]
      /\ changes' \in [Kinds -> 0..MaxChanges]
  BY <1>1, <1>3, <1>5
<1>7. changes' # NoChanges
  BY <1>5, <1>6, NoneChanged
<1>8. UNCHANGED <<target, identified, stage, page, totalPages, prev, counted, failed,
                  requests, found>>
  BY DEF Changed, walkVars
<1>9. Reading /\ Reading'
  BY <1>8 DEF Changed, Reading
<1> QED
  BY <1>6, <1>7, <1>8, <1>9

\* What a change that keeps the order has to show.
LEMMA OrderedChangeHolds ==
    ASSUME IInv, NEW kind \in {"removed", "appended"}, Changed(kind),
           queue' \in Seq(Items), entered' \in 0..MaxItems, entered <= entered', Line',
           Paged => /\ \A i \in Items, p \in DOMAIN queue' :
                            counted[i] > 0 /\ p > Read => i < queue'[p]
                    /\ Cardinality(Passed') <= changes'["removed"]
    PROVE  IInv'
<1>1. /\ Reading /\ Reading' /\ changes' \in [Kinds -> 0..MaxChanges] /\ changes' # NoChanges
      /\ changes'["reordered"] = changes["reordered"]
      /\ UNCHANGED <<target, identified, stage, page, totalPages, prev, counted, failed,
                     requests, found>>
  BY ChangeCounts DEF Kinds
<1>2. (Paged' <=> Paged) /\ Read' = Read /\ stage = "asking" /\ page > 1
  BY <1>1 DEF Paged, Read, Reading
<1>3. TypeOK'
  BY <1>1 DEF IInv, TypeOK
<1>4. Control' /\ WorkIsBounded'
  BY <1>1, <1>2 DEF IInv, Control, WorkIsBounded
<1>5. Known'
  <2>1. entered \in Nat /\ entered' \in Nat /\ counted \in [Items -> Nat] /\ Len(found) \in Nat
    BY Bounds DEF IInv, TypeOK
  <2>2. Items \subseteq Nat
    BY Bounds DEF Items
  <2> QED
    BY <1>1, <2>1, <2>2 DEF IInv, Known
<1>6. Ahead'
  BY <1>1, <1>2 DEF IInv, Ahead
<1>7. CountedAtMostOnce'
  BY <1>1 DEF IInv, CountedAtMostOnce
<1>8. Behind'
  BY <1>1, <1>2 DEF IInv, Behind
<1>9. MissedAreRemovals'
  BY <1>1, <1>2 DEF MissedAreRemovals
<1> QED
  BY <1>3, <1>4, <1>5, <1>6, <1>7, <1>8, <1>9 DEF IInv

LEMMA PassedFinite == ASSUME IInv PROVE IsFiniteSet(Passed)
<1>1. queue \in Seq(Items)
  BY DEF IInv, TypeOK
<1>2. Passed \subseteq Items
  BY <1>1 DEF Passed, Stayed, ToSet
<1> QED
  BY <1>2, ItemsFinite, FS_Subset

LEMMA OneMore ==
    ASSUME NEW S, NEW T, NEW x, IsFiniteSet(T), S \subseteq T \cup {x}
    PROVE  /\ Cardinality(S) \in Nat /\ Cardinality(T) \in Nat
           /\ Cardinality(S) <= Cardinality(T) + 1
<1>1. /\ IsFiniteSet(T \cup {x}) /\ Cardinality(T \cup {x}) \in Nat /\ Cardinality(T) \in Nat
      /\ Cardinality(T \cup {x}) = IF x \in T THEN Cardinality(T) ELSE Cardinality(T) + 1
  BY FS_AddElement, FS_CardinalityType
<1>2. IsFiniteSet(S) /\ Cardinality(S) \in Nat /\ Cardinality(S) <= Cardinality(T \cup {x})
  BY <1>1, FS_Subset, FS_CardinalityType
<1> QED
  BY <1>1, <1>2

LEMMA DequeueHolds == ASSUME IInv, Dequeue PROVE IInv'
<1>1. PICK d \in DOMAIN queue : queue' = RemoveAt(queue, d)
  BY DEF Dequeue
<1>2. Changed("removed") /\ entered' = entered /\ "removed" \in Kinds
  BY DEF Dequeue, Kinds
<1>3. /\ queue \in Seq(Items) /\ Len(queue) \in Nat /\ DOMAIN queue = 1..Len(queue)
      /\ d \in 1..Len(queue) /\ entered \in 0..MaxItems
  BY DEF IInv, TypeOK
<1>4. /\ queue' \in Seq(Items) /\ Len(queue') = Len(queue) - 1
      /\ \A p \in 1..(d - 1) : queue'[p] = queue[p]
      /\ \A p \in d..(Len(queue) - 1) : queue'[p] = queue[p + 1]
  BY <1>1, <1>3, RemoveAtElements
<1>5. DOMAIN queue' = 1..(Len(queue) - 1)
  BY <1>3, <1>4
\* An item stays where it was or moves up by one.
<1>6. ASSUME NEW p \in DOMAIN queue'
      PROVE  \/ p < d /\ p \in DOMAIN queue /\ queue'[p] = queue[p]
             \/ p >= d /\ p + 1 \in DOMAIN queue /\ queue'[p] = queue[p + 1]
  BY <1>3, <1>4, <1>5
<1>7. Items \subseteq Int /\ entered \in Int /\ \A p \in DOMAIN queue : p \in Int /\ queue[p] \in Int
  BY <1>3, Bounds DEF Items
<1>8. Line'
  <2>1. Len(queue') <= entered'
    BY <1>2, <1>3, <1>4, <1>7 DEF IInv, Line
  <2>2. \A p \in DOMAIN queue' : queue'[p] <= entered'
    BY <1>2, <1>6, <1>7 DEF IInv, Line
  <2>3. changes'["reordered"] = changes["reordered"]
    BY <1>2, ChangeCounts DEF Kinds
  <2>4. ASSUME changes["reordered"] = 0, NEW p \in DOMAIN queue' PROVE p <= queue'[p]
    BY <1>5, <1>6, <1>7, <2>4 DEF IInv, Line
  <2>5. ASSUME changes["reordered"] = 0, NEW p \in DOMAIN queue', NEW r \in DOMAIN queue', p < r
        PROVE  queue'[p] < queue'[r]
    <3>1. \A x, y \in DOMAIN queue : x < y => queue[x] < queue[y]
      BY <2>5 DEF IInv, Line, Increasing
    <3>2. p \in Int /\ r \in Int /\ d \in Int
      BY <1>3, <1>5
    <3> QED
      BY <1>6, <2>5, <3>1, <3>2
  <2> QED
    BY <2>1, <2>2, <2>3, <2>4, <2>5 DEF Line, Increasing
<1>9. /\ Reading /\ Reading' /\ page' = page /\ counted' = counted /\ found' = found
      /\ changes'["removed"] = changes["removed"] + 1
  BY <1>2, ChangeCounts
<1>10. Read' = Read /\ Read \in Nat
  <2>1. page \in Nat /\ page >= 1
    BY <1>9, Bounds DEF IInv, TypeOK, Reading
  <2> QED BY <1>9, <2>1, Multiples DEF Read
<1>11. ASSUME Paged, NEW i \in Items, NEW p \in DOMAIN queue', counted[i] > 0, p > Read
       PROVE  i < queue'[p]
  <2>1. \A r \in DOMAIN queue : r > Read => i < queue[r]
    BY <1>9, <1>11 DEF IInv, Ahead
  <2>2. p + 1 > Read
    BY <1>5, <1>10, <1>11
  <2> QED
    BY <1>6, <1>11, <2>1, <2>2
\* Only the item that moves up to the last position read can have been passed.
<1>12. ASSUME Paged PROVE Cardinality(Passed') <= changes'["removed"]
  <2>1. Passed' \subseteq Passed \cup {queue[Read + 1]}
    <3> SUFFICES ASSUME NEW i \in Passed', i # queue[Read + 1] PROVE i \in Passed
      OBVIOUS
    <3>1. PICK p \in DOMAIN queue' : p <= Read /\ queue'[p] = i
      BY <1>10 DEF Passed
    <3>2. counted[i] = 0 /\ i \in ToSet(found)
      BY <1>9 DEF Passed, Stayed
    <3>3. \E r \in DOMAIN queue : r <= Read /\ queue[r] = i
      <4>1. CASE p < d /\ p \in DOMAIN queue /\ queue'[p] = queue[p]
        BY <3>1, <4>1
      <4>2. CASE p >= d /\ p + 1 \in DOMAIN queue /\ queue'[p] = queue[p + 1]
        <5>1. p # Read
          BY <3>1, <4>2
        <5>2. p + 1 <= Read
          BY <1>5, <1>10, <3>1, <5>1
        <5> QED BY <3>1, <4>2, <5>2
      <4> QED BY <1>6, <4>1, <4>2
    <3>4. i \in ToSet(queue)
      BY <3>3 DEF ToSet
    <3> QED
      BY <3>2, <3>3, <3>4 DEF Passed, Stayed
  <2>2. Cardinality(Passed) <= changes["removed"] /\ changes["removed"] \in Nat
    BY <1>9, <1>12, Bounds DEF IInv, Behind, TypeOK, Kinds
  <2>3. IsFiniteSet(Passed)
    BY PassedFinite
  <2>4. /\ Cardinality(Passed') \in Nat /\ Cardinality(Passed) \in Nat
        /\ Cardinality(Passed') <= Cardinality(Passed) + 1
    BY <2>1, <2>3, OneMore
  <2> QED
    BY <1>9, <2>2, <2>4
<1> QED
  BY <1>2, <1>3, <1>4, <1>8, <1>11, <1>12, OrderedChangeHolds

LEMMA EnqueueHolds == ASSUME IInv, Enqueue PROVE IInv'
<1>1. /\ entered' = entered + 1 /\ queue' = Append(queue, entered + 1) /\ entered < MaxItems
      /\ Changed("appended") /\ "appended" \in Kinds
  BY DEF Enqueue, Kinds
<1>2. /\ queue \in Seq(Items) /\ Len(queue) \in Nat /\ DOMAIN queue = 1..Len(queue)
      /\ entered \in Nat /\ entered' \in Items /\ entered' \in 0..MaxItems
      /\ Len(queue) <= entered
  BY <1>1, Bounds DEF IInv, TypeOK, Items, Line
<1>3. /\ queue' \in Seq(Items) /\ Len(queue') = Len(queue) + 1
      /\ DOMAIN queue' = 1..(Len(queue) + 1)
      /\ \A p \in 1..Len(queue) : queue'[p] = queue[p]
      /\ queue'[Len(queue) + 1] = entered'
  BY <1>1, <1>2
<1>4. ASSUME NEW p \in DOMAIN queue'
      PROVE  \/ p \in DOMAIN queue /\ queue'[p] = queue[p]
             \/ p = Len(queue) + 1 /\ queue'[p] = entered + 1
  BY <1>1, <1>2, <1>3
<1>5. \A p \in DOMAIN queue : p \in Int /\ queue[p] \in Int /\ queue[p] <= entered
  BY <1>2, Bounds DEF Items, IInv, Line
<1>6. /\ Reading /\ page' = page /\ counted' = counted /\ found' = found
      /\ changes'["removed"] = changes["removed"]
      /\ changes'["reordered"] = changes["reordered"]
  BY <1>1, ChangeCounts DEF Kinds
<1>7. Line'
  <2>1. Len(queue') <= entered'
    BY <1>1, <1>2, <1>3
  <2>2. \A p \in DOMAIN queue' : queue'[p] <= entered'
    BY <1>1, <1>2, <1>4, <1>5
  <2>3. ASSUME changes["reordered"] = 0, NEW p \in DOMAIN queue' PROVE p <= queue'[p]
    BY <1>2, <1>4, <2>3 DEF IInv, Line
  <2>4. ASSUME changes["reordered"] = 0, NEW p \in DOMAIN queue', NEW r \in DOMAIN queue', p < r
        PROVE  queue'[p] < queue'[r]
    <3>1. \A x, y \in DOMAIN queue : x < y => queue[x] < queue[y]
      BY <2>4 DEF IInv, Line, Increasing
    <3>2. p \in DOMAIN queue /\ queue'[p] = queue[p] /\ queue[p] <= entered /\ queue[p] \in Int
      BY <1>2, <1>3, <1>5, <2>4
    <3> QED
      BY <1>2, <1>4, <2>4, <3>1, <3>2
  <2> QED
    BY <1>6, <2>1, <2>2, <2>3, <2>4 DEF Line, Increasing
<1>8. Read' = Read
  BY <1>6 DEF Read
\* The item that enters is the last, and newer than any that was counted.
<1>9. ASSUME Paged, NEW i \in Items, NEW p \in DOMAIN queue', counted[i] > 0, p > Read
      PROVE  i < queue'[p]
  <2>1. i \in Int /\ i <= entered
    BY <1>9, Bounds DEF IInv, Known, Items
  <2>2. \A r \in DOMAIN queue : r > Read => i < queue[r]
    BY <1>6, <1>9 DEF IInv, Ahead
  <2> QED
    BY <1>2, <1>4, <1>9, <2>1, <2>2
\* It was not there when the first page was read.
<1>10. ASSUME Paged PROVE Cardinality(Passed') <= changes'["removed"]
  <2>1. \A i \in ToSet(found) : i <= entered /\ i \in Int
    <3>1. found = Entered(Len(found)) /\ Len(found) <= entered /\ found \in Seq(Items)
      BY DEF IInv, Known, TypeOK
    <3>2. Len(found) \in 0..MaxItems
      BY <1>1, <1>2, <3>1, Bounds
    <3> QED
      BY <1>2, <3>1, <3>2, EnteredElements DEF ToSet
  <2>2. Passed' \subseteq Passed
    <3> SUFFICES ASSUME NEW i \in Passed' PROVE i \in Passed
      OBVIOUS
    <3>1. PICK p \in DOMAIN queue' : p <= Read /\ queue'[p] = i
      BY <1>8 DEF Passed
    <3>2. counted[i] = 0 /\ i \in ToSet(found)
      BY <1>6 DEF Passed, Stayed
    <3>3. p \in DOMAIN queue /\ queue[p] = i
      BY <1>2, <1>4, <2>1, <3>1, <3>2
    <3> QED
      BY <3>1, <3>2, <3>3 DEF Passed, Stayed, ToSet
  <2>3. /\ Cardinality(Passed) \in Nat /\ Cardinality(Passed') \in Nat
        /\ Cardinality(Passed') <= Cardinality(Passed)
    BY <2>2, PassedFinite, FS_Subset, FS_CardinalityType
  <2>4. Cardinality(Passed) <= changes["removed"] /\ changes["removed"] \in Int
    BY <1>6, <1>10, Bounds DEF IInv, Behind, TypeOK, Kinds
  <2> QED
    BY <1>6, <2>3, <2>4
<1> QED
  BY <1>1, <1>2, <1>3, <1>7, <1>9, <1>10, OrderedChangeHolds

LEMMA ReorderHolds == ASSUME IInv, Reorder PROVE IInv'
<1>1. PICK d, e \in DOMAIN queue : queue' = [queue EXCEPT ![d] = queue[e], ![e] = queue[d]]
  BY DEF Reorder
<1>2. Changed("reordered") /\ entered' = entered /\ "reordered" \in Kinds
  BY DEF Reorder, Kinds
<1>3. /\ queue \in Seq(Items) /\ Len(queue) \in Nat /\ DOMAIN queue = 1..Len(queue)
      /\ entered \in Nat /\ entered \in 0..MaxItems
  BY Bounds DEF IInv, TypeOK
<1>4. queue' \in Seq(Items) /\ Len(queue') = Len(queue) /\ DOMAIN queue' = DOMAIN queue
  BY <1>1, <1>3
<1>5. /\ Reading /\ Reading' /\ changes' \in [Kinds -> 0..MaxChanges] /\ changes' # NoChanges
      /\ changes'["reordered"] = changes["reordered"] + 1
      /\ UNCHANGED <<target, identified, stage, page, totalPages, prev, counted, failed,
                     requests, found>>
  BY <1>2, ChangeCounts
<1>6. changes'["reordered"] # 0
  BY <1>5, Bounds DEF IInv, TypeOK, Kinds
<1>7. stage = "asking" /\ page > 1
  BY <1>5 DEF Reading
<1>8. TypeOK'
  BY <1>2, <1>3, <1>4, <1>5 DEF IInv, TypeOK
<1>9. Control' /\ WorkIsBounded'
  BY <1>5, <1>7 DEF IInv, Control, WorkIsBounded
<1>10. Line'
  <2>1. \A p \in DOMAIN queue' : \E r \in DOMAIN queue : queue'[p] = queue[r]
    BY <1>1, <1>3, <1>4
  <2> QED BY <1>2, <1>4, <1>6, <2>1 DEF IInv, Line
<1>11. Known'
  BY <1>2, <1>5 DEF IInv, Known
<1>12. Ahead' /\ CountedAtMostOnce'
  BY <1>5, <1>6 DEF Ahead, CountedAtMostOnce, Paged
<1>13. Behind'
  BY <1>5, <1>6 DEF IInv, Behind, Paged
<1>14. MissedAreRemovals'
  BY <1>6 DEF MissedAreRemovals
<1> QED
  BY <1>8, <1>9, <1>10, <1>11, <1>12, <1>13, <1>14 DEF IInv

-----------------------------------------------------------------------------
(* A page is read *)

\* How many pages there are, of a valid answer.
LEMMA PagesBounded ==
    ASSUME NEW reply, reply.totalRecords \in Int, reply.pageSize \in Int, ~Invalid(reply)
    PROVE  /\ Bounded(Pages(reply)) \in 0..MaxQueuePages
           /\ reply.pageSize = PageSize /\ reply.totalRecords <= MaxQueuePages * PageSize =>
                 reply.totalRecords <= Bounded(Pages(reply)) * PageSize
<1> DEFINE total == reply.totalRecords
           size  == reply.pageSize
           pages == Pages(reply)
<1>1. total \in Nat /\ size \in Nat
  BY DEF Invalid
<1>2. pages = IF size = 0 THEN 1 ELSE (total + size - 1) \div size
  BY DEF Pages
<1> HIDE DEF pages, total, size
<1>3. pages \in Nat
  BY <1>1, <1>2
<1>4. size = PageSize => total <= pages * PageSize
  <2> SUFFICES ASSUME size = PageSize PROVE total <= pages * PageSize
    OBVIOUS
  <2>1. size >= 1 /\ pages = (total + size - 1) \div size
    BY <1>2, Bounds
  <2>2. total + size - 1 < (pages + 1) * size
    BY <1>1, <2>1
  <2> QED
    BY <1>1, <1>3, <2>1, <2>2
<1>5. Bounded(pages) = IF pages > MaxQueuePages THEN MaxQueuePages ELSE pages
  BY DEF Bounded
<1>6. Bounded(pages) \in 0..MaxQueuePages
  BY <1>3, <1>5, Bounds
<1>7. ASSUME size = PageSize, total <= MaxQueuePages * PageSize
      PROVE  total <= Bounded(pages) * PageSize
  BY <1>4, <1>5, <1>7
<1> QED
  BY <1>6, <1>7 DEF pages, total, size

\* In an increasing queue the records of a page differ, and come after those of the
\* pages before it.
LEMMA PageIncreases ==
    ASSUME IInv, changes["reordered"] = 0, NEW n \in Nat, n >= 1
    PROVE  /\ \A p, r \in DOMAIN Records(n) : Records(n)[p] = Records(n)[r] => p = r
           /\ \A p \in DOMAIN Records(n), r \in DOMAIN queue :
                 n * PageSize < r => Records(n)[p] < queue[r]
<1> DEFINE lo == (n - 1) * PageSize
<1>1. lo \in Nat /\ n * PageSize = lo + PageSize /\ PageSize \in Nat
  BY Bounds, Multiples
<1>2. TypeOK /\ queue \in Seq(Items) /\ Items \subseteq Int
  BY Bounds DEF IInv, TypeOK, Items
<1>3. \A x, y \in DOMAIN queue : x < y => queue[x] < queue[y]
  BY DEF IInv, Line, Increasing
<1>4. \A p \in DOMAIN Records(n) : /\ lo + p \in DOMAIN queue /\ p <= PageSize
                                   /\ Records(n)[p] = queue[lo + p]
  BY <1>2, RecordsElements
<1>5. Records(n) \in Seq(Items)
  BY <1>2, RecordsElements
<1> HIDE DEF lo
<1>6. \A p \in DOMAIN Records(n) : p \in Int
  BY <1>5
<1>7. ASSUME NEW x \in DOMAIN queue PROVE x \in Int /\ queue[x] \in Int
  <2>1. x \in 1..Len(queue) /\ queue[x] \in Items /\ Len(queue) \in Nat
    BY <1>2
  <2>2. queue[x] \in Int
    BY <1>2, <2>1
  <2>3. x \in Int
    BY <2>1
  <2> QED BY <2>2, <2>3
<1>8. ASSUME NEW p \in DOMAIN Records(n), NEW r \in DOMAIN Records(n), Records(n)[p] = Records(n)[r]
      PROVE  p = r
  <2>1. queue[lo + p] = queue[lo + r] /\ lo + p \in DOMAIN queue /\ lo + r \in DOMAIN queue
    BY <1>4, <1>8
  <2>2. ~(lo + p < lo + r) /\ ~(lo + r < lo + p)
    BY <1>3, <1>7, <2>1
  <2> QED BY <1>1, <1>6, <2>2
<1>9. ASSUME NEW p \in DOMAIN Records(n), NEW r \in DOMAIN queue, n * PageSize < r
      PROVE  Records(n)[p] < queue[r]
  <2>1. lo + p < r /\ lo + p \in DOMAIN queue
    BY <1>1, <1>4, <1>6, <1>7, <1>9
  <2> QED BY <1>3, <1>4, <2>1
<1> QED
  BY <1>8, <1>9

LEMMA FirstPageHolds ==
    ASSUME IInv, page > 0, NEW reply \in Replies(page), FirstPage(reply)
    PROVE  IInv'
<1> DEFINE records == reply.records
<1>1. /\ stage = "asking" /\ page = 1 /\ requests' = requests + 1
      /\ found' = queue /\ changes' = NoChanges
      /\ UNCHANGED <<target, identified, queue, entered>>
  BY DEF FirstPage
<1>2. /\ requests = 0 /\ queue = Entered(entered) /\ counted = NotFetched /\ failed = FALSE
      /\ changes = NoChanges /\ entered \in 0..MaxItems
  BY <1>1, Bounds DEF IInv, Control, TypeOK
<1>3. /\ queue \in Seq(Items) /\ Len(queue) = entered /\ DOMAIN queue = 1..entered
      /\ \A p \in 1..entered : queue[p] = p
  BY <1>2, EnteredElements
<1>4. /\ records \in Seq(Items) /\ \A p \in DOMAIN records : \E r \in DOMAIN queue : records[p] = queue[r]
      /\ reply.totalRecords \in Int /\ reply.pageSize \in Int
      /\ target = "pages" => /\ records = Records(1)
                             /\ reply.totalRecords = Len(queue) /\ reply.pageSize = PageSize
      /\ target = "ignores" => records = Records(1)
  BY <1>1, RepliesType
<1>5. changes' \in [Kinds -> 0..MaxChanges] /\ \A k \in Kinds : changes'[k] = 0 /\ changes[k] = 0
  BY <1>1, <1>2, NoneChanged
<1>6. Line'
  BY <1>1, <1>3, <1>5 DEF IInv, Line, Increasing, Kinds
<1>7. found' = Entered(Len(found')) /\ Len(found') <= entered' /\ found' \in Seq(Items)
  BY <1>1, <1>2, <1>3
<1>8. target' \in {"pages", "ignores", "lies"} /\ identified' \in BOOLEAN
  BY <1>1 DEF IInv, Control
<1>9. CASE Invalid(reply)
  <2>1. /\ stage' = "done" /\ failed' = TRUE
        /\ UNCHANGED <<page, totalPages, prev, counted>>
    BY <1>9 DEF FirstPage
  <2>2. TypeOK'
    <3>1. failed' \in BOOLEAN /\ stage' \in {"idle", "asking", "done"}
      BY <2>1
    <3> QED BY <1>1, <1>5, <1>7, <2>1, <3>1 DEF IInv, TypeOK
  <2>3. Control' /\ WorkIsBounded'
    <3>1. requests' \in Nat /\ WorkIsBounded'
      BY <1>1, <1>2, Bounds DEF WorkIsBounded
    <3> QED BY <1>8, <2>1, <3>1 DEF Control, Reading
  <2>4. Known' /\ Ahead' /\ Behind'
    BY <1>1, <1>7, <2>1 DEF IInv, Known, Ahead, Behind, Reading
  <2>5. CountedAtMostOnce' /\ MissedAreRemovals'
    BY <1>2, <2>1, NoneCounted DEF CountedAtMostOnce, MissedAreRemovals
  <2> QED
    BY <1>6, <2>2, <2>3, <2>4, <2>5 DEF IInv
<1>10. CASE ~Invalid(reply)
  <2>1. /\ totalPages' = Bounded(Pages(reply)) /\ counted' = Add(records)
        /\ stage' = IF 1 < totalPages' /\ records # <<>> THEN "asking" ELSE "done"
        /\ page' = 2 /\ prev' = records /\ failed' = failed
    BY <1>1, <1>10 DEF FirstPage, Continue
  <2>2. totalPages' \in 0..MaxQueuePages
    BY <1>4, <1>10, <2>1, PagesBounded
  <2>3. /\ counted' \in [Items -> Nat] /\ \A i \in Items : counted[i] = 0
        /\ \A i \in Items :
              /\ counted'[i] > 0 => \E p \in DOMAIN records : records[p] = i
              /\ (\E p \in DOMAIN records : records[p] = i) => counted'[i] > 0
              /\ (\A p, r \in DOMAIN records : records[p] = records[r] => p = r)
                    => counted'[i] <= 1
    <3>1. TypeOK
      BY DEF IInv
    <3>2. counted' = Add(records) /\ \A i \in Items : counted[i] = 0
      BY <1>2, <2>1, NoneCounted
    <3>3. records \in Seq(Items)
      BY <1>4
    <3> HIDE DEF records
    <3>4. /\ Add(records) \in [Items -> Nat]
          /\ \A i \in Items :
                /\ (\A p \in DOMAIN records : records[p] # i) => Add(records)[i] = counted[i]
                /\ (\E p \in DOMAIN records : records[p] = i) => Add(records)[i] > 0
                /\ (\A p, r \in DOMAIN records : records[p] = records[r] => p = r)
                      => Add(records)[i] <= counted[i] + 1
      BY <3>1, <3>3, AddCounts
    <3> QED
      BY <3>2, <3>4
  <2> HIDE DEF records
  <2>4. TypeOK'
    <3>1. page' \in 0..(MaxQueuePages + 1) /\ stage' \in {"idle", "asking", "done"}
      BY <2>1, Bounds
    <3>2. failed' \in BOOLEAN
      BY <1>2, <2>1
    <3> QED
      BY <1>1, <1>2, <1>3, <1>4, <1>5, <1>7, <2>1, <2>2, <2>3, <3>1, <3>2 DEF TypeOK
  <2>5. Control' /\ WorkIsBounded'
    <3>1. requests' = 1 /\ WorkIsBounded'
      BY <1>1, <1>2, Bounds DEF WorkIsBounded
    <3>2. Reading' => page' <= totalPages' /\ prev' # <<>>
      BY <2>1, <2>2, Bounds DEF Reading
    <3> QED
      BY <1>8, <2>1, <3>1, <3>2 DEF Control
  <2>6. Known'
    <3>1. ASSUME NEW i \in Items, counted'[i] > 0 PROVE i <= entered'
      <4>1. \E r \in DOMAIN queue : i = queue[r]
        BY <1>4, <2>3, <3>1
      <4> QED BY <1>1, <1>3, <4>1, Bounds DEF Items
    <3> QED BY <1>7, <3>1 DEF Known
  <2>7. ASSUME NEW i \in Items, target \in {"pages", "ignores"} PROVE counted'[i] <= 1
    <3>1. records = Records(1) /\ changes["reordered"] = 0
      BY <1>4, <1>5, <2>7 DEF Kinds
    <3>2. \A p, r \in DOMAIN records : records[p] = records[r] => p = r
      BY <3>1, PageIncreases
    <3> QED BY <2>3, <3>2
  <2>8. CountedAtMostOnce'
    BY <1>1, <2>7 DEF CountedAtMostOnce
  <2>9. Read' = PageSize
    BY <2>1, Bounds DEF Read
  <2>10. Ahead'
    <3>1. ASSUME target = "pages", NEW i \in Items, NEW p \in DOMAIN queue',
                 counted'[i] > 0, p > PageSize
          PROVE  i < queue'[p]
      <4>1. PICK r \in DOMAIN Records(1) : Records(1)[r] = i
        BY <1>4, <2>3, <3>1
      <4>2. changes["reordered"] = 0 /\ 1 * PageSize = PageSize /\ p \in DOMAIN queue
        BY <1>1, <1>5, <3>1, Bounds DEF Kinds
      <4> QED BY <1>1, <3>1, <4>1, <4>2, PageIncreases
    <3>2. ASSUME records # <<>> PROVE counted'[prev'[1]] > 0
      <4>1. 1 \in DOMAIN records /\ records[1] \in Items
        BY <1>4, <3>2
      <4> QED BY <2>1, <2>3, <4>1
    <3>3. Reading' => records # <<>>
      BY <2>1 DEF Reading
    <3>4. target = "ignores" => prev' = Records(1)'
      BY <1>1, <1>4, <2>1 DEF Records
    <3> QED
      BY <1>1, <2>9, <3>1, <3>2, <3>3, <3>4 DEF Ahead, Paged
  \* What is on the first page was counted.
  <2>11. ASSUME target = "pages", NEW p \in DOMAIN queue, p <= PageSize
         PROVE  queue[p] \in Items /\ counted'[queue[p]] > 0
    <3>1. (1 - 1) * PageSize = 0 /\ 1 * PageSize = PageSize /\ p - 0 = p /\ 0 < p
      BY <1>3, Bounds
    <3>2. p \in DOMAIN Records(1) /\ Records(1)[p] = queue[p] /\ queue[p] \in Items
      <4>1. TypeOK
        BY DEF IInv
      <4> QED
        BY <1>3, <2>11, <3>1, <4>1, RecordsElements
    <3> QED BY <1>4, <2>3, <2>11, <3>2
  <2>12. Behind'
    <3>1. target = "pages" => Passed' = {}
      BY <1>1, <2>9, <2>11 DEF Passed
    <3>2. target = "pages" /\ Len(found') <= MaxQueuePages * PageSize =>
              Len(found') <= totalPages' * PageSize
      BY <1>1, <1>4, <1>10, <2>1, PagesBounded
    <3>3. target = "pages" => Cardinality(Passed') = 0
      BY <3>1, FS_EmptySet
    <3> QED
      BY <1>1, <1>5, <3>2, <3>3 DEF Behind, Paged, Kinds
  <2>13. MissedAreRemovals'
    <3> SUFFICES ASSUME stage' = "done", target = "pages", Len(queue) <= MaxQueuePages * PageSize
                 PROVE  Cardinality({i \in Stayed' : counted'[i] = 0}) <= changes'["removed"]
      BY <1>1 DEF MissedAreRemovals
    <3>1. Len(queue) <= PageSize
      <4>1. CASE records = <<>>
        <5>1. ~ \E p \in DOMAIN queue : p <= PageSize
          BY <1>3, <1>4, <2>3, <2>11, <4>1
        <5>2. 1 \notin DOMAIN queue
          BY <5>1, Bounds
        <5> QED BY <1>2, <1>3, <5>2, Bounds
      <4>2. CASE ~(1 < totalPages')
        <5>1. Len(queue) <= totalPages' * PageSize
          BY <1>4, <1>10, <2>1, PagesBounded
        <5>2. totalPages' = 0 \/ totalPages' = 1
          BY <2>2, <4>2, Bounds
        <5> QED BY <5>1, <5>2, Bounds
      <4> QED BY <2>1, <4>1, <4>2
    <3> DEFINE missed == {i \in Stayed' : counted'[i] = 0}
    <3>2. missed = {}
      <4>1. ASSUME NEW i \in Stayed' PROVE counted'[i] # 0
        <5>1. PICK p \in DOMAIN queue : queue[p] = i
          BY <1>1 DEF Stayed, ToSet
        <5>2. p <= PageSize
          BY <1>2, <1>3, <3>1, Bounds
        <5> QED BY <2>11, <5>1, <5>2
      <4> QED BY <4>1
    <3>3. Cardinality(missed) = 0 /\ changes'["removed"] = 0
      BY <1>5, <3>2, FS_EmptySet DEF Kinds
    <3> QED
      BY <3>3
  <2> QED
    BY <1>6, <2>4, <2>5, <2>6, <2>8, <2>10, <2>12, <2>13 DEF IInv
<1> QED
  BY <1>9, <1>10

\* What stayed and was not counted was passed: at most one for each removal.
LEMMA MissedWerePassed ==
    ASSUME IInv, Reading, Paged, NEW S, S \subseteq Passed
    PROVE  Cardinality(S) <= changes["removed"]
<1>1. /\ Cardinality(Passed) \in Nat /\ Cardinality(S) \in Nat
      /\ Cardinality(S) <= Cardinality(Passed)
  BY PassedFinite, FS_Subset, FS_CardinalityType
<1>2. Cardinality(Passed) <= changes["removed"] /\ changes["removed"] \in Int
  BY Bounds DEF IInv, Behind, TypeOK, Kinds
<1> QED
  BY <1>1, <1>2

LEMMA ThisPage ==
    ASSUME IInv, Reading
    PROVE  /\ \A p \in DOMAIN Records(page) :
                 /\ p \in Int /\ p >= 1 /\ Read + p \in DOMAIN queue
                 /\ Records(page)[p] = queue[Read + p]
           /\ \A p \in DOMAIN queue : Read < p /\ p <= page * PageSize =>
                 p - Read \in DOMAIN Records(page) /\ Records(page)[p - Read] = queue[p]
<1>1. TypeOK /\ page \in Nat /\ page >= 1
  BY Bounds DEF IInv, TypeOK, Reading
<1>2. Records(page) \in Seq(Items)
  BY <1>1, RecordsElements
<1>3. \A p \in DOMAIN Records(page) : p \in Int /\ p >= 1
  BY <1>2
<1> QED
  BY <1>1, <1>3, RecordsElements DEF Read

LEMMA NextPageHolds ==
    ASSUME IInv, page > 0, NEW reply \in Replies(page), NextPage(reply)
    PROVE  IInv'
<1> DEFINE records == reply.records
<1>1. /\ stage = "asking" /\ page > 1 /\ requests' = requests + 1
      /\ UNCHANGED <<target, identified, queue, entered, changes, totalPages, failed, found>>
  BY DEF NextPage, queueVars
<1>2. /\ Reading /\ page \in Nat /\ page <= totalPages /\ totalPages \in Nat
      /\ totalPages <= MaxQueuePages /\ prev \in Seq(Items) /\ prev # <<>>
  BY <1>1, Bounds DEF IInv, TypeOK, Control, Reading
<1>3. /\ Read \in Nat /\ page * PageSize = Read + PageSize /\ PageSize \in Nat
      /\ Read = (page - 1) * PageSize
  BY <1>1, <1>2, Multiples, Bounds DEF Read
<1>4. /\ queue \in Seq(Items) /\ DOMAIN queue = 1..Len(queue) /\ Len(queue) \in Nat
      /\ Items \subseteq Nat \ {0} /\ counted \in [Items -> Nat] /\ TypeOK
  BY Bounds DEF IInv, TypeOK, Items
<1>5. /\ records \in Seq(Items)
      /\ \A p \in DOMAIN records : \E r \in DOMAIN queue : records[p] = queue[r]
      /\ target = "pages" => records = Records(page)
      /\ target = "ignores" => records = Records(1)
  BY RepliesType
<1> HIDE DEF records
<1>6. target' \in {"pages", "ignores", "lies"} /\ identified' \in BOOLEAN
  BY <1>1 DEF IInv, Control
<1>7. requests' \in Nat /\ WorkIsBounded' /\ requests' = (page + 1) - 1
  BY <1>1, <1>2, RequestInTime DEF WorkIsBounded
<1>8. Line'
  BY <1>1 DEF IInv, Line, Increasing
<1>9. prev[1] \in Items
  BY <1>2
<1>10. ASSUME Paged, NEW i \in Items, NEW p \in DOMAIN queue, counted[i] > 0, p > Read
       PROVE  i < queue[p]
  BY <1>2, <1>10 DEF IInv, Ahead
\* While the target keeps its order, what it sends was not counted before.
<1>11. ASSUME Paged, NEW p \in DOMAIN records PROVE ~(counted[records[p]] > 0)
  <2>1. Read + p \in DOMAIN queue /\ records[p] = queue[Read + p] /\ p > 0 /\ p \in Int
    BY <1>2, <1>5, <1>11, ThisPage DEF Paged
  <2>2. records[p] \in Items /\ records[p] \in Nat
    <3>1. records \in Seq(Items) /\ p \in DOMAIN records
      BY <1>5, <1>11
    <3>2. records[p] \in Items
      BY <3>1
    <3> QED BY <1>4, <3>2
  <2>3. Read + p > Read
    BY <1>3, <2>1
  <2>4. counted[records[p]] > 0 => records[p] < queue[Read + p]
    BY <1>10, <1>11, <2>1, <2>2, <2>3
  <2> QED BY <2>1, <2>2, <2>4
<1>12. CASE Over(records)
  <2>1. stage' = "done" /\ UNCHANGED <<page, prev, counted>>
    BY <1>1, <1>12 DEF NextPage, records
  <2>2. ~Reading'
    BY <2>1 DEF Reading
  <2>3. TypeOK'
    BY <1>1, <2>1 DEF IInv, TypeOK
  <2>4. Control'
    BY <1>6, <1>7, <2>1, <2>2 DEF Control
  <2>5. Known' /\ Ahead' /\ Behind'
    BY <1>1, <2>1, <2>2 DEF IInv, Known, Ahead, Behind
  <2>6. CountedAtMostOnce'
    BY <1>1, <2>1 DEF IInv, CountedAtMostOnce
  <2>7. MissedAreRemovals'
    <3> DEFINE missed == {i \in Stayed : counted[i] = 0}
    <3> SUFFICES ASSUME Paged PROVE Cardinality(missed) <= changes["removed"]
      BY <1>1, <2>1 DEF MissedAreRemovals, Stayed, Paged
    <3>1. records = <<>>
      <4> SUFFICES ASSUME records # <<>> PROVE FALSE
        OBVIOUS
      <4>1. 1 \in DOMAIN records /\ records[1] \in Items
        BY <1>5
      <4>2. ID(prev[1]) # 0 /\ ID(records[1]) = ID(prev[1])
        BY <1>12 DEF Over
      <4>3. records[1] = prev[1]
        BY <4>2 DEF ID
      <4>4. counted[prev[1]] > 0
        BY <1>2 DEF IInv, Ahead
      <4> QED BY <1>11, <4>1, <4>3, <4>4
    <3>2. ASSUME NEW p \in DOMAIN queue PROVE p <= Read
      <4> SUFFICES ASSUME p > Read PROVE FALSE
        BY <1>3, <1>4
      <4> QED
        <5>1. Read + 1 \in DOMAIN queue /\ Read + 1 <= page * PageSize
          BY <1>3, <1>4, Bounds
        <5>2. (Read + 1) - Read \in DOMAIN Records(page)
          BY <1>2, <1>3, <5>1, ThisPage
        <5> QED BY <1>5, <3>1, <5>2 DEF Paged
    <3>3. missed \subseteq Passed
      BY <3>2 DEF Passed, Stayed, ToSet
    <3> HIDE DEF missed
    <3> QED BY <1>2, <3>3, MissedWerePassed
  <2> QED
    BY <1>7, <1>8, <2>3, <2>4, <2>5, <2>6, <2>7 DEF IInv
<1>13. CASE ~Over(records)
  <2>1. /\ counted' = Add(records) /\ records # <<>>
        /\ stage' = IF page < totalPages THEN "asking" ELSE "done"
        /\ page' = page + 1 /\ prev' = records
    BY <1>1, <1>13 DEF NextPage, Continue, Over, records
  <2>2. /\ counted' \in [Items -> Nat]
        /\ \A i \in Items :
              /\ counted'[i] >= counted[i]
              /\ (\A p \in DOMAIN records : records[p] # i) => counted'[i] = counted[i]
              /\ (\E p \in DOMAIN records : records[p] = i) => counted'[i] > 0
              /\ (\A p, r \in DOMAIN records : records[p] = records[r] => p = r)
                    => counted'[i] <= counted[i] + 1
    BY <1>4, <1>5, <2>1, AddCounts
  <2>3. TypeOK'
    <3>1. page' \in 0..(MaxQueuePages + 1) /\ stage' \in {"idle", "asking", "done"}
      BY <1>2, <2>1, Bounds
    <3> QED
      BY <1>1, <1>5, <2>1, <2>2, <3>1 DEF IInv, TypeOK
  <2>4. Control'
    <3>1. page' > 1 /\ page' >= 1 /\ requests' = page' - 1 /\ page' # 1
      BY <1>2, <1>7, <1>1, <2>1
    <3>2. stage' = "asking" => page' <= totalPages'
      BY <1>1, <1>2, <2>1
    <3> QED
      BY <1>6, <1>7, <2>1, <3>1, <3>2 DEF Control, Reading
  <2>5. Known'
    <3>1. ASSUME NEW i \in Items, counted'[i] > 0 PROVE i <= entered'
      <4>1. CASE \E p \in DOMAIN records : records[p] = i
        BY <1>1, <1>5, <4>1 DEF IInv, Line
      <4>2. CASE \A p \in DOMAIN records : records[p] # i
        BY <1>1, <2>2, <3>1, <4>2 DEF IInv, Known
      <4> QED BY <4>1, <4>2
    <3> QED BY <1>1, <3>1 DEF IInv, Known
  <2>6. CountedAtMostOnce'
    <3>1. ASSUME Paged, NEW i \in Items PROVE counted'[i] <= 1
      <4>1. counted[i] <= 1 /\ counted[i] \in Nat /\ counted'[i] \in Nat
        BY <1>4, <2>2, <3>1 DEF IInv, CountedAtMostOnce, Paged
      <4>2. \A p, r \in DOMAIN records : records[p] = records[r] => p = r
        BY <1>1, <1>2, <1>5, <3>1, PageIncreases DEF Paged
      <4>3. CASE \E p \in DOMAIN records : records[p] = i
        <5>1. ~(counted[i] > 0)
          BY <1>11, <3>1, <4>3
        <5> QED BY <2>2, <4>1, <4>2, <5>1
      <4>4. CASE \A p \in DOMAIN records : records[p] # i
        BY <2>2, <4>1, <4>4
      <4> QED BY <4>3, <4>4
    <3>2. ~(target = "ignores" /\ identified /\ changes = NoChanges)
      <4> SUFFICES ASSUME target = "ignores", identified, changes = NoChanges PROVE FALSE
        OBVIOUS
      <4>1. prev = records
        BY <1>2, <1>5 DEF IInv, Ahead
      <4>2. ID(prev[1]) # 0
        BY <1>4, <1>9 DEF ID
      <4> QED BY <1>13, <4>1, <4>2 DEF Over
    <3> QED
      BY <1>1, <3>1, <3>2 DEF CountedAtMostOnce, Paged
  <2>7. Read' = page * PageSize
    <3>1. (page + 1) - 1 = page
      BY <1>2
    <3> QED BY <2>1, <3>1 DEF Read
  <2>8. Ahead'
    <3>1. ASSUME Paged, NEW i \in Items, NEW p \in DOMAIN queue, counted'[i] > 0,
                 p > page * PageSize
          PROVE  i < queue[p]
      <4>1. CASE \E r \in DOMAIN records : records[r] = i
        BY <1>1, <1>2, <1>5, <3>1, <4>1, PageIncreases DEF Paged
      <4>2. CASE \A r \in DOMAIN records : records[r] # i
        <5>1. counted[i] > 0 /\ p > Read
          BY <1>3, <1>4, <2>2, <3>1, <4>2
        <5> QED BY <1>10, <3>1, <5>1
      <4> QED BY <4>1, <4>2
    <3>2. counted'[prev'[1]] > 0
      <4>1. 1 \in DOMAIN records /\ records[1] \in Items
        BY <1>5, <2>1
      <4> QED BY <2>1, <2>2, <4>1
    <3>3. target = "ignores" => prev' = Records(1)'
      BY <1>1, <1>5, <2>1 DEF Records
    <3> QED
      BY <1>1, <2>7, <3>1, <3>2, <3>3 DEF Ahead, Paged
  \* Nothing on this page is left uncounted.
  <2>9. ASSUME Paged, NEW i \in Stayed, counted'[i] = 0, NEW p \in DOMAIN queue, queue[p] = i,
               p <= page * PageSize
        PROVE  i \in Passed
    <3>1. i \in Items /\ p \in Int
      BY <1>4, <2>9
    <3>2. counted[i] = 0
      BY <1>4, <2>2, <2>9, <3>1
    <3>3. p <= Read
      <4> SUFFICES ASSUME Read < p PROVE FALSE
        BY <1>3, <3>1
      <4>1. p - Read \in DOMAIN records /\ records[p - Read] = i
        BY <1>2, <1>5, <2>9, ThisPage DEF Paged
      <4>2. counted'[i] > 0
        BY <2>2, <3>1, <4>1
      <4> QED BY <2>9, <4>2
    <3> QED BY <2>9, <3>2, <3>3 DEF Passed
  <2>10. Stayed' = Stayed
    BY <1>1 DEF Stayed
  <2>11. Behind'
    <3>1. Paged => Passed' \subseteq Passed
      BY <1>1, <2>7, <2>9, <2>10 DEF Passed
    <3>2. Paged => Cardinality(Passed') <= changes["removed"]
      BY <1>2, <3>1, MissedWerePassed
    <3>3. target = "pages" /\ Len(found) <= MaxQueuePages * PageSize =>
              Len(found) <= totalPages * PageSize
      BY <1>2 DEF IInv, Behind
    <3> QED
      BY <1>1, <3>2, <3>3 DEF Behind, Paged
  <2>12. MissedAreRemovals'
    <3> DEFINE missed == {i \in Stayed : counted'[i] = 0}
    <3> SUFFICES ASSUME Paged, stage' = "done", Len(found) <= MaxQueuePages * PageSize
                 PROVE  Cardinality(missed) <= changes["removed"]
      BY <1>1, <2>10 DEF MissedAreRemovals, Paged
    <3>1. Len(found) <= page * PageSize
      <4>1. page = totalPages
        BY <1>2, <2>1
      <4>2. Len(found) <= totalPages * PageSize
        BY <1>2 DEF IInv, Behind, Paged
      <4> QED BY <4>1, <4>2
    <3>2. ASSUME NEW i \in missed PROVE i \in Passed
      <4>1. PICK p \in DOMAIN queue : queue[p] = i
        BY DEF Stayed, ToSet
      <4>2. p <= i /\ i \in Int /\ p \in Int
        <5>1. p <= queue[p]
          BY <4>1 DEF IInv, Line, Paged
        <5> HIDE DEF missed
        <5>2. p \in 1..Len(queue) /\ Len(queue) \in Nat
          BY <1>4
        <5>3. queue[p] \in Items
          BY <1>4
        <5>4. p \in Int /\ queue[p] \in Int
          BY <5>2, <5>3, Bounds DEF Items
        <5> QED BY <4>1, <5>1, <5>4
      <4>3. i <= Len(found) /\ Len(found) \in Int
        <5>1. /\ found = Entered(Len(found)) /\ Len(found) <= entered /\ found \in Seq(Items)
              /\ entered \in 0..MaxItems
          BY DEF IInv, Known, TypeOK
        <5>2. Len(found) \in 0..MaxItems
          BY <5>1, Bounds
        <5>3. i \in ToSet(found)
          BY DEF Stayed
        <5> QED BY <5>1, <5>2, <5>3, EnteredElements, Bounds DEF ToSet
      <4>4. p <= page * PageSize
        BY <1>3, <3>1, <4>2, <4>3
      <4> QED BY <2>9, <4>1, <4>4
    <3>3. missed \subseteq Passed
      BY <3>2
    <3> HIDE DEF missed
    <3> QED BY <1>2, <3>3, MissedWerePassed
  <2> QED
    BY <1>7, <1>8, <2>3, <2>4, <2>5, <2>6, <2>8, <2>11, <2>12 DEF IInv
<1> QED
  BY <1>12, <1>13

-----------------------------------------------------------------------------
(* The theorems *)

LEMMA StutterHolds == ASSUME IInv, UNCHANGED vars PROVE IInv'
<1>1. UNCHANGED <<target, identified, queue, entered, changes, stage, page, totalPages, prev,
                  counted, failed, requests, found>>
  BY DEF vars, queueVars, walkVars
<1>2. TypeOK' /\ Control' /\ WorkIsBounded'
  BY <1>1 DEF IInv, TypeOK, Control, WorkIsBounded, Reading
<1>3. Line' /\ Known' /\ CountedAtMostOnce'
  BY <1>1 DEF IInv, Line, Known, Increasing, CountedAtMostOnce
<1>4. Ahead'
  BY <1>1 DEF IInv, Ahead, Reading, Paged, Read, Records
<1>5. Behind' /\ MissedAreRemovals'
  BY <1>1 DEF IInv, Behind, MissedAreRemovals, Reading, Paged, Passed, Stayed, Read
<1> QED
  BY <1>2, <1>3, <1>4, <1>5 DEF IInv

\* What is counted is behind what is left to read, and what was passed is no more than
\* what was removed.
THEOREM Invariance == Spec => []IInv
<1>1. Init => IInv
  BY InitHolds
<1>2. IInv /\ [Next]_vars => IInv'
  <2> SUFFICES ASSUME IInv, [Next]_vars PROVE IInv'
    OBVIOUS
  <2>1. CASE Dequeue
    BY <2>1, DequeueHolds
  <2>2. CASE Enqueue
    BY <2>2, EnqueueHolds
  <2>3. CASE Reorder
    BY <2>3, ReorderHolds
  <2>4. CASE Begin
    BY <2>4, BeginHolds
  <2>5. CASE Fail
    BY <2>5, FailHolds
  <2>6. CASE page > 0 /\ \E reply \in Replies(page) : FirstPage(reply) \/ NextPage(reply)
    BY <2>6, FirstPageHolds, NextPageHolds
  <2>7. CASE UNCHANGED vars
    BY <2>7, StutterHolds
  <2> QED
    BY <2>1, <2>2, <2>3, <2>4, <2>5, <2>6, <2>7 DEF Next
<1> QED
  BY <1>1, <1>2, PTL DEF Spec

\* Every variable of QueuePages keeps its type; the totals stay in what the bound of pages
\* (queue.go:14, 80) makes of whatever a target reports.
THEOREM TypeCorrect == Spec => []TypeOK
<1>1. IInv => TypeOK
  BY DEF IInv
<1> QED
  BY <1>1, Invariance, PTL

\* A collection sends no more than MaxQueuePages requests, whatever totals and records the
\* target sends (queue.go:80).
THEOREM FewRequests == Spec => []WorkIsBounded
<1>1. IInv => WorkIsBounded
  BY DEF IInv
<1> QED
  BY <1>1, Invariance, PTL

\* No item is counted twice, as long as the target keeps its order or sends an unchanged
\* first page over and over (queue.go:95).
THEOREM NoneTwice == Spec => []CountedAtMostOnce
<1>1. IInv => CountedAtMostOnce
  BY DEF IInv
<1> QED
  BY <1>1, Invariance, PTL

\* Of the items that stayed in a queue in order, no more are missed than left it while it
\* was read.
THEOREM FewMissed == Spec => []MissedAreRemovals
<1>1. IInv => MissedAreRemovals
  BY DEF IInv
<1> QED
  BY <1>1, Invariance, PTL
=============================================================================

----------------------------- MODULE QueuePages -----------------------------
(***************************************************************************)
(* The queue collector (arr/collector/queue.go): it reads the queue page by *)
(* page and counts its items, while the queue changes and the target may    *)
(* answer anything.                                                         *)
(*                                                                         *)
(* The queue is a sequence of items.  A target that keeps its order only    *)
(* removes items and appends new ones; one that sorts by something that     *)
(* changes also reorders them.  `changes` tells what happened since the     *)
(* collection's first page: the properties promise as much as it allows.    *)
(***************************************************************************)
EXTENDS Integers, Sequences, SequencesExt, FiniteSets

CONSTANTS
    PageSize,       \* queuePageSize, or what the target makes of it
    MaxQueuePages,
    MaxItems,       \* bound: items that ever enter the queue
    MaxChanges      \* bound: changes of the queue during a collection

ASSUME PagesAssumption ==
    {PageSize, MaxQueuePages, MaxItems, MaxChanges} \subseteq Nat \ {0}

Items == 1..MaxItems
NotFetched == [i \in Items |-> 0]

VARIABLES
    target,         \* "pages", "ignores" the page parameter or "lies"
    identified,     \* its records have an id
    queue, entered, \* the items in the queue, and how many ever were
    changes,        \* how often it was "removed" from, appended to, "reordered"
    stage,          \* "idle", "asking" or "done"
    page, totalPages,
    prev,           \* the records of the page before
    counted,        \* queueStatusAll: how often an item is in it
    failed,         \* the error gauge is raised
    requests,       \* history: requests of this collection
    found           \* history: the queue its first page was read from

queueVars == <<queue, entered, changes>>
walkVars == <<stage, page, totalPages, prev, counted, failed, requests, found>>
vars == <<target, identified, queueVars, walkVars>>

Kinds == {"removed", "appended", "reordered"}
NoChanges == [kind \in Kinds |-> 0]

Entered(n) == [i \in 1..n |-> i]

Init ==
    /\ target \in {"pages", "ignores", "lies"} /\ identified \in BOOLEAN
    /\ entered = 0 /\ queue = <<>>
    /\ changes = NoChanges
    /\ stage = "idle" /\ page = 0 /\ totalPages = 0 /\ prev = <<>>
    /\ counted = NotFetched /\ failed = FALSE
    /\ requests = 0 /\ found = <<>>

-----------------------------------------------------------------------------
(* The target *)

\* Only what happens between two pages matters: the first may find any queue.
Changed(kind) ==
    /\ stage = "asking" /\ page > 1
    /\ changes["removed"] + changes["appended"] + changes["reordered"] < MaxChanges
    /\ changes' = [changes EXCEPT ![kind] = @ + 1]
    /\ UNCHANGED <<target, identified, walkVars>>

Dequeue ==
    /\ \E p \in DOMAIN queue : queue' = RemoveAt(queue, p)
    /\ Changed("removed") /\ UNCHANGED entered

Enqueue ==
    /\ entered < MaxItems
    /\ entered' = entered + 1 /\ queue' = Append(queue, entered')
    /\ Changed("appended")

Reorder ==
    /\ \E p, q \in DOMAIN queue :
          p < q /\ queue' = [queue EXCEPT ![p] = queue[q], ![q] = queue[p]]
    /\ Changed("reordered") /\ UNCHANGED entered

Records(n) == SubSeq(queue, (n - 1) * PageSize + 1,
                            IF n * PageSize < Len(queue) THEN n * PageSize ELSE Len(queue))

\* What it may answer when asked for page n.
Replies(n) ==
    CASE target = "pages" ->
           {[records |-> Records(n), totalRecords |-> Len(queue), pageSize |-> PageSize]}
      [] target = "ignores" ->
           {[records |-> Records(1), totalRecords |-> Len(queue), pageSize |-> PageSize]}
      [] target = "lies" ->
           [records : {<<>>, Records(1), Records(n)},
            totalRecords : {-1, 0, MaxItems}, pageSize : {-1, 0, 1, PageSize}]

ID(record) == IF identified THEN record ELSE 0

-----------------------------------------------------------------------------
(* Collect *)

Mut_Pages(reply) == reply.totalRecords \div reply.pageSize
Pages(reply) ==
    IF reply.pageSize = 0 THEN 1
    ELSE (reply.totalRecords + reply.pageSize - 1) \div reply.pageSize

Mut_Bounded(n) == n
Bounded(n) == IF n > MaxQueuePages THEN MaxQueuePages ELSE n

Mut_Invalid(reply) == reply.pageSize < 0
Invalid(reply) == reply.totalRecords < 0 \/ reply.pageSize < 0

\* The page is there again, or there is none.
Mut_Over(records) == records = <<>>
Over(records) ==
    \/ records = <<>>
    \/ ID(prev[1]) # 0 /\ ID(records[1]) = ID(prev[1])

Add(records) == [i \in Items |-> counted[i] + Cardinality({p \in DOMAIN records : records[p] = i})]

\* The loop's condition, once a page was read.
Continue(pages, records) ==
    /\ stage' = IF page < pages /\ records # <<>> THEN "asking" ELSE "done"
    /\ page' = page + 1
    /\ prev' = records

\* The collector keeps nothing: a later collection finds any queue.
Begin ==
    /\ stage \in {"idle", "done"}
    /\ entered' \in 0..MaxItems /\ queue' = Entered(entered')
    /\ stage' = "asking" /\ page' = 1 /\ totalPages' = 1 /\ prev' = <<>>
    /\ counted' = NotFetched /\ failed' = FALSE
    /\ requests' = 0 /\ found' = <<>> /\ changes' = NoChanges
    /\ UNCHANGED <<target, identified>>

\* emitError: the gauge is raised, and what was read is not published.
Fail ==
    /\ stage = "asking"
    /\ requests' = requests + 1
    /\ stage' = "done" /\ failed' = TRUE
    /\ UNCHANGED <<target, identified, queueVars, page, totalPages, prev, counted, found>>

FirstPage(reply) ==
    /\ stage = "asking" /\ page = 1
    /\ requests' = requests + 1
    /\ found' = queue /\ changes' = NoChanges
    /\ IF Invalid(reply)
       THEN /\ stage' = "done" /\ failed' = TRUE
            /\ UNCHANGED <<page, totalPages, prev, counted>>
       ELSE /\ totalPages' = Bounded(Pages(reply))
            /\ counted' = Add(reply.records)
            /\ Continue(totalPages', reply.records)
            /\ UNCHANGED failed
    /\ UNCHANGED <<target, identified, queue, entered>>

NextPage(reply) ==
    /\ stage = "asking" /\ page > 1
    /\ requests' = requests + 1
    /\ IF Over(reply.records)
       THEN stage' = "done" /\ UNCHANGED <<page, prev, counted>>
       ELSE counted' = Add(reply.records) /\ Continue(totalPages, reply.records)
    /\ UNCHANGED <<target, identified, queueVars, totalPages, failed, found>>

Next ==
    \/ Dequeue \/ Enqueue \/ Reorder
    \/ Begin \/ Fail
    \/ page > 0 /\ \E reply \in Replies(page) : FirstPage(reply) \/ NextPage(reply)

Spec == Init /\ [][Next]_vars

-----------------------------------------------------------------------------
(* Properties *)

TypeOK ==
    /\ queue \in Seq(Items) /\ entered \in 0..MaxItems
    /\ changes \in [Kinds -> 0..MaxChanges]
    /\ stage \in {"idle", "asking", "done"}
    /\ totalPages \in 0..MaxQueuePages /\ page \in 0..(MaxQueuePages + 1)
    /\ prev \in Seq(Items) /\ found \in Seq(Items)
    /\ counted \in [Items -> Nat] /\ failed \in BOOLEAN

\* The work is bounded whatever totals the target reports and whatever it sends
\* (queue.go:14, 80).
WorkIsBounded == requests <= MaxQueuePages

\* No item is counted twice: neither when the queue changes between two pages,
\* as long as it keeps its order, nor when the target sends the same page over
\* and over (queue.go:95).
CountedAtMostOnce ==
    \/ target = "pages" /\ changes["reordered"] = 0
    \/ target = "ignores" /\ identified /\ changes = NoChanges
    => \A i \in Items : counted[i] <= 1

\* An item that is in the queue all along can only be missed because another
\* one left and moved it to a page that was read already.
Stayed == ToSet(found) \cap ToSet(queue)
MissedAreRemovals ==
    /\ stage = "done" /\ ~failed /\ target = "pages" /\ changes["reordered"] = 0
    /\ Len(found) <= MaxQueuePages * PageSize
    => Cardinality({i \in Stayed : counted[i] = 0}) <= changes["removed"]
=============================================================================

------------------------------ MODULE SlotPool ------------------------------
(***************************************************************************)
(* The upstream slot pool (internal/client/limiter.go).                     *)
(*                                                                         *)
(* The pool is a Go channel per target with room for one token, and one     *)
(* shared channel with room for Capacity - |Targets| tokens.  A request     *)
(* acquires by sending a token and releases by receiving one.  A sender     *)
(* that finds no room parks; the runtime keeps the parked senders of a      *)
(* channel in arrival order, and a receive from a full channel hands the    *)
(* place to the first of them.  `select' enqueues the goroutine on both     *)
(* channels at once, so one sequence, parked, holds both orders.            *)
(*                                                                         *)
(* The context of a request can end at any instant; GiveUp is therefore     *)
(* possible whenever the code listens for it, and no flag remembers it.     *)
(* The wait histogram and the timeout counter are written and never read:   *)
(* they are left out.  The in-flight gauge is kept.                         *)
(***************************************************************************)
EXTENDS Integers, Sequences, FiniteSets

SeqExt == INSTANCE SequencesExt

CONSTANTS
    Targets,    \* the configured upstream targets
    Requests,   \* the goroutines that send HTTP attempts, one after another
    TargetOf,   \* the target each of them sends to
    Capacity    \* --max-upstream-requests

\* NewSlotPool refuses a capacity that leaves no shared slot.
ASSUME PoolAssumption ==
    /\ IsFiniteSet(Targets)
    /\ IsFiniteSet(Requests)
    /\ TargetOf \in [Requests -> Targets]
    /\ Capacity \in Nat
    /\ Capacity >= Cardinality(Targets) + 1

VARIABLES
    pc,         \* where each request is in Acquire or release
    slot,       \* the channel its token is in: "reserved", "shared" or "none"
    reserved,   \* tokens in each target's reserved channel
    shared,     \* tokens in the shared channel
    parked,     \* requests blocked in the select, in arrival order
    inFlight    \* the exported gauge, per target

vars == <<pc, slot, reserved, shared, parked, inFlight>>

Status == {"idle", "slow", "parked", "taken", "held", "freeing", "released"}

SharedCapacity == Capacity - Cardinality(Targets)

RequestsOf(t) == {r \in Requests : TargetOf[r] = t}

\* The requests with a token in a channel: from the send to the receive.
Holding == {r \in Requests : pc[r] \in {"taken", "held", "freeing"}}

Mut_HasShared == shared < Capacity
HasShared == shared < SharedCapacity

HasReserved(t) == reserved[t] = 0

Init ==
    /\ pc = [r \in Requests |-> "idle"]
    /\ slot = [r \in Requests |-> "none"]
    /\ reserved = [t \in Targets |-> 0]
    /\ shared = 0
    /\ parked = <<>>
    /\ inFlight = [t \in Targets |-> 0]

-----------------------------------------------------------------------------
(* Acquire *)

PutReserved(r) ==
    /\ HasReserved(TargetOf[r])
    /\ reserved' = [reserved EXCEPT ![TargetOf[r]] = 1]
    /\ slot' = [slot EXCEPT ![r] = "reserved"]
    /\ pc' = [pc EXCEPT ![r] = "taken"]
    /\ UNCHANGED <<shared, parked, inFlight>>

PutShared(r) ==
    /\ HasShared
    /\ shared' = shared + 1
    /\ slot' = [slot EXCEPT ![r] = "shared"]
    /\ pc' = [pc EXCEPT ![r] = "taken"]
    /\ UNCHANGED <<reserved, parked, inFlight>>

\* The first select: the reserved slot, without waiting and whatever the
\* state of the context.
AcquireFast(r) == pc[r] = "idle" /\ PutReserved(r)

AcquireMiss(r) ==
    /\ pc[r] = "idle"
    /\ ~HasReserved(TargetOf[r])
    /\ pc' = [pc EXCEPT ![r] = "slow"]
    /\ UNCHANGED <<slot, reserved, shared, parked, inFlight>>

\* The second select, when one of its sends can proceed at once.
AcquireSlow(r) == pc[r] = "slow" /\ (PutReserved(r) \/ PutShared(r))

\* ... and when none can.
Mut_MayPark(r) == ~HasShared
MayPark(r) == ~HasShared /\ ~HasReserved(TargetOf[r])

Park(r) ==
    /\ pc[r] = "slow"
    /\ MayPark(r)
    /\ pc' = [pc EXCEPT ![r] = "parked"]
    /\ parked' = Append(parked, r)
    /\ UNCHANGED <<slot, reserved, shared, inFlight>>

\* The context ended: Acquire returns the error and nothing to release.
GiveUpAtOnce(r) ==
    /\ pc[r] = "slow"
    /\ pc' = [pc EXCEPT ![r] = "idle"]
    /\ UNCHANGED <<slot, reserved, shared, parked, inFlight>>

GiveUpParked(r) ==
    /\ pc[r] = "parked"
    /\ \E i \in DOMAIN parked : parked[i] = r /\ parked' = SeqExt!RemoveAt(parked, i)
    /\ pc' = [pc EXCEPT ![r] = "idle"]
    /\ UNCHANGED <<slot, reserved, shared, inFlight>>

\* hold counts the request once its token is in.
Hold(r) ==
    /\ pc[r] = "taken"
    /\ pc' = [pc EXCEPT ![r] = "held"]
    /\ inFlight' = [inFlight EXCEPT ![TargetOf[r]] = @ + 1]
    /\ UNCHANGED <<slot, reserved, shared, parked>>

-----------------------------------------------------------------------------
(* release *)

\* sync.Once: only the first call of a release function does anything.
Mut_FirstCall(r) == pc[r] \in {"held", "released"}
FirstCall(r) == pc[r] = "held"

\* The gauge goes down before the token comes out.
Mut_Release(r) ==
    /\ FirstCall(r)
    /\ pc' = [pc EXCEPT ![r] = "freeing"]
    /\ UNCHANGED <<slot, reserved, shared, parked, inFlight>>
Release(r) ==
    /\ FirstCall(r)
    /\ pc' = [pc EXCEPT ![r] = "freeing"]
    /\ inFlight' = [inFlight EXCEPT ![TargetOf[r]] = @ - 1]
    /\ UNCHANGED <<slot, reserved, shared, parked>>

\* Whether q, when parked, is blocked on the channel r's token is in.
Mut_WaitsBehind(q, r) == slot[r] = "shared"
WaitsBehind(q, r) == slot[r] = "shared" \/ TargetOf[q] = TargetOf[r]

IsNext(i, r) ==
    /\ WaitsBehind(parked[i], r)
    /\ \A j \in 1..(i - 1) : ~WaitsBehind(parked[j], r)

\* The receive, with a sender parked on the channel: its token replaces r's.
FreeToParked(r) ==
    /\ pc[r] = "freeing"
    /\ \E i \in DOMAIN parked :
          /\ IsNext(i, r)
          /\ pc' = [pc EXCEPT ![r] = "released", ![parked[i]] = "taken"]
          /\ slot' = [slot EXCEPT ![r] = "none", ![parked[i]] = slot[r]]
          /\ parked' = SeqExt!RemoveAt(parked, i)
    /\ UNCHANGED <<reserved, shared, inFlight>>

\* The receive, with nobody parked on the channel.
FreeToPool(r) ==
    /\ pc[r] = "freeing"
    /\ \A i \in DOMAIN parked : ~WaitsBehind(parked[i], r)
    /\ \/ slot[r] = "reserved" /\ reserved' = [reserved EXCEPT ![TargetOf[r]] = 0]
                               /\ UNCHANGED shared
       \/ slot[r] = "shared" /\ shared' = shared - 1 /\ UNCHANGED reserved
    /\ pc' = [pc EXCEPT ![r] = "released"]
    /\ slot' = [slot EXCEPT ![r] = "none"]
    /\ UNCHANGED <<parked, inFlight>>

\* The goroutine drops its release function and goes on to another attempt.
Forget(r) ==
    /\ pc[r] = "released"
    /\ pc' = [pc EXCEPT ![r] = "idle"]
    /\ UNCHANGED <<slot, reserved, shared, parked, inFlight>>

-----------------------------------------------------------------------------
Acquire(r) == AcquireFast(r) \/ AcquireMiss(r) \/ AcquireSlow(r) \/ Park(r)

GiveUp(r) == GiveUpAtOnce(r) \/ GiveUpParked(r)

Free(r) == FreeToParked(r) \/ FreeToPool(r)

Next ==
    \E r \in Requests :
        Acquire(r) \/ GiveUp(r) \/ Hold(r) \/ Release(r) \/ Free(r) \/ Forget(r)

Spec == Init /\ [][Next]_vars

-----------------------------------------------------------------------------
(* Properties *)

TypeOK ==
    /\ pc \in [Requests -> Status]
    /\ slot \in [Requests -> {"none", "reserved", "shared"}]
    /\ reserved \in [Targets -> {0, 1}]
    /\ shared \in 0..SharedCapacity
    /\ parked \in Seq(Requests)
    /\ inFlight \in [Targets -> Int]

\* Whatever is in flight, an attempt of a target that has none would still be
\* within the cap: the shared pool can be exhausted, a target's reserved slot
\* cannot be taken from it (SlotPool's comment, limiter.go:18-20).
RoomForEveryTarget ==
    Cardinality(Holding)
      + Cardinality({t \in Targets : RequestsOf(t) \cap Holding = {}}) <= Capacity

\* A request blocks only while both places it could send to are taken: no
\* release leaves a slot free beside a request that could use it.
NoIdleSlotBesideWaiter ==
    \A r \in Requests :
        pc[r] = "parked" => ~HasShared /\ ~HasReserved(TargetOf[r])

\* Every token belongs to exactly one request and every request that holds has
\* one: none leaks when a context ends in the queue, none is freed twice when a
\* body is closed twice (release is idempotent, limiter.go:12-13).  Nor does the
\* gauge ever show more requests than hold a slot, so that its sum never passes
\* exportarr_upstream_requests_max: hold and release touch it inside the token's
\* tenure.
SlotsAccounted ==
    /\ \A r \in Requests : slot[r] # "none" <=> r \in Holding
    /\ \A t \in Targets :
          reserved[t] = Cardinality({r \in RequestsOf(t) : slot[r] = "reserved"})
    /\ shared = Cardinality({r \in Requests : slot[r] = "shared"})
    /\ \A t \in Targets : inFlight[t] \in 0..Cardinality(RequestsOf(t) \cap Holding)

\* Slots move one at a time, within the cap and the reservations.
Cap == INSTANCE UpstreamCap WITH holding <- Holding
ImplementsCap == Cap!Spec
=============================================================================

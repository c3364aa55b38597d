---------------------------- MODULE UpstreamCap ----------------------------
(***************************************************************************)
(* What the process-wide upstream cap promises, with no channel, queue or   *)
(* metric in sight: which HTTP attempts hold a slot at an instant.          *)
(* --max-upstream-requests bounds the attempts in flight, and room for one  *)
(* attempt of every target that has none is never given away.               *)
(***************************************************************************)
EXTENDS Integers, FiniteSets

CONSTANTS
    Targets,    \* the configured upstream targets
    Requests,   \* the goroutines that send HTTP attempts
    TargetOf,   \* the target each of them sends to
    Capacity    \* --max-upstream-requests

VARIABLE holding    \* the requests that hold a slot

Idle(H) == {t \in Targets : \A r \in H : TargetOf[r] # t}

Admissible(H) == Cardinality(H) + Cardinality(Idle(H)) <= Capacity

Init == holding = {}

Take(r) ==
    /\ r \notin holding
    /\ Admissible(holding \cup {r})
    /\ holding' = holding \cup {r}

Drop(r) ==
    /\ r \in holding
    /\ holding' = holding \ {r}

\* A freed slot goes straight to a request that waits for it.
HandOver(r, s) ==
    /\ r \in holding
    /\ s \notin holding
    /\ Admissible((holding \ {r}) \cup {s})
    /\ holding' = (holding \ {r}) \cup {s}

Next ==
    \/ \E r \in Requests : Take(r) \/ Drop(r)
    \/ \E r, s \in Requests : HandOver(r, s)

Spec == Init /\ [][Next]_holding
=============================================================================

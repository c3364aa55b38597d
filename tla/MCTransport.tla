---------------------------- MODULE MCTransport ----------------------------
(* Calls of a few goroutines to two targets, for TLC. *)
EXTENDS Transport, TLC

CONSTANTS a1, a2, b1, b2, ta, tb

MCTargetOf == (a1 :> ta) @@ (a2 :> ta) @@ (b1 :> tb)
MCTargetOf4 == MCTargetOf @@ (b2 :> tb)

MCSymmetry == Permutations({a1, a2})

\* ta never answers, and no deadline helps the calls to it.  tb answers b1, which
\* has no deadline; its answers to b2 come only when the deadline has.
HungSpec ==
    /\ Init
    /\ [][/\ Next
          /\ \A r \in Requests \ {b2} : ended'[r] = ended[r]
          /\ \A r \in {a1, a2} : outcome'[r] = outcome[r]
          /\ outcome'[b2] \in {outcome[b2], "none"} \/ ended[b2]]_vars
    /\ Fairness({b1}) /\ Deadlines({b2})

\* A hung target drains the shared pool and its own mutex, never the reserved
\* slot of another: the calls to tb return (docs/design/multi-target.md
\* section 10), over one slot, the mutex of their login and their backoffs.
IsolatedCallsReturn == AllReturn({b1})

\* A call that nobody answers returns when its deadline comes, also while it
\* waits for a slot or for the mutex, which does not listen to contexts.
DeadlinesEndCalls == AllReturn({b2})
=============================================================================

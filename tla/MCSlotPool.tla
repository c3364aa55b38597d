----------------------------- MODULE MCSlotPool -----------------------------
(* A small pool for TLC: three targets. *)
EXTENDS SlotPool, TLC

CONSTANTS a1, a2, a3, b1, b2, c1, ta, tb, tc

MCTargetOf == (a1 :> ta) @@ (a2 :> ta) @@ (a3 :> ta) @@ 
              (b1 :> tb) @@ (b2 :> tb) @@ (c1 :> tc)
=============================================================================

-------------------------- MODULE MCProwlarrStats --------------------------
(* Two ticks to a second, so that a window can end between two seconds, and *)
(* time for three windows of which one fails.                               *)
EXTENDS ProwlarrStats, TLC

CONSTANTS c1, c2

MCSymmetry == Permutations({c1, c2})
=============================================================================

--------------------------- MODULE MCServerStats ---------------------------
(* The news servers do not touch each other's entries: one server shows the *)
(* counters, a missing answer being the empty one.                          *)
EXTENDS ServerStats

CONSTANTS s1
=============================================================================

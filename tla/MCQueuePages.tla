---------------------------- MODULE MCQueuePages ----------------------------
(* Queues of up to seven items in pages of two, of which three are read.    *)
EXTENDS QueuePages
=============================================================================

--------------------------- MODULE MCReplayBuffer ---------------------------
(* The actor under clients that push and sample any versions, in any order.*)
EXTENDS ReplayBuffer

MCVersions == 0 .. 2
=============================================================================

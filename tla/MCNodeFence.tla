---------------------------- MODULE MCNodeFence -----------------------------
(* NodeFence for TLC.                                                      *)
EXTENDS NodeFence
=============================================================================

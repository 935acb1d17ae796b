---------------------------- MODULE MCYueBench ----------------------------
(* YueBench for TLC.                                                       *)
EXTENDS YueBench
=============================================================================

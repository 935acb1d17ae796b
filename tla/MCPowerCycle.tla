----------------------------- MODULE MCPowerCycle -----------------------------
(* PowerCycle for TLC.                                                     *)
EXTENDS PowerCycle
=============================================================================

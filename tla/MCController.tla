---------------------------- MODULE MCController ----------------------------
(* Instances of Controller for TLC.                                        *)
EXTENDS Controller, TLC

AllTargets == {"none", "yue", "solo", "pair"}

AllFaults ==
    {"call", "launch", "interrupt", "crash", "disk", "exit", "reboot", "foreign"}

\* Every call that changes a node may arrive late.
AllEffects == {"fence", "drain", "cancel", "stop", "unload", "restart", "admit", "launch"}

\* The calls whose late arrival changes a node, the fence apart.
LateEffects == {"drain", "cancel", "stop", "unload", "restart", "admit", "launch"}
=============================================================================

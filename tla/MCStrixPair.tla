---------------------------- MODULE MCStrixPair ----------------------------
(* StrixPair for TLC: no services, a service on one box, a pinned master.  *)
EXTENDS StrixPair, TLC

CONSTANTS b1, b2

MCConfigs == {[services |-> {}, master |-> None], [services |-> {b2}, master |-> None],
              [services |-> {}, master |-> b1]}

Symmetric == Permutations(Commands) \cup Permutations(ClusterModels)
=============================================================================

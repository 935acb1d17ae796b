----------------------------- MODULE FencedNode -----------------------------
(***************************************************************************)
(* What a Spark promises the controller (README "Each node also keeps a    *)
(* generation lock", ADR 0003): the node records one generation, and       *)
(* managed workloads are started and removed on it only by the transition  *)
(* whose generation it records at that moment.  NodeFence implements this  *)
(* with a lock, a state file and a re-check.  Controller and BatchJob rely *)
(* on it: their steps on a node are steps of this specification.           *)
(***************************************************************************)
EXTENDS Naturals

CONSTANTS Nodes,       \* the Sparks, by SSH host
          Generations  \* the generations transitions may use

VARIABLES owner,   \* owner[n]: the generation node n records, 0 before any
          serving  \* serving[n]: the generations with a running workload

vars == <<owner, serving>>

NoGeneration == 0

TypeOK ==
    /\ owner \in [Nodes -> Generations \cup {NoGeneration}]
    /\ serving \in [Nodes -> SUBSET (Generations \cup {NoGeneration})]

\* A node may have been managed before, or run a model that predates that.
Init ==
    /\ owner \in [Nodes -> Generations \cup {NoGeneration}]
    /\ serving \in [Nodes -> SUBSET (Generations \cup {NoGeneration})]
    /\ \A n \in Nodes : serving[n] \subseteq {owner[n]}

\* A transition fences the node: its generation becomes the recorded one.
Fence(n, g) ==
    /\ owner' = [owner EXCEPT ![n] = g]
    /\ UNCHANGED serving

\* The recorded generation, and no other, starts a workload.
Start(n) ==
    /\ owner[n] # NoGeneration
    /\ serving' = [serving EXCEPT ![n] = @ \cup {owner[n]}]
    /\ UNCHANGED owner

\* The recorded generation removes managed workloads of the node.
Remove(n, gone) ==
    /\ owner[n] # NoGeneration
    /\ serving' = [serving EXCEPT ![n] = @ \ gone]
    /\ UNCHANGED owner

\* The machine restarts, or what it serves exits: the record survives.
Reboot(n) ==
    /\ serving' = [serving EXCEPT ![n] = {}]
    /\ UNCHANGED owner

Next ==
    \E n \in Nodes :
        \/ \E g \in Generations : Fence(n, g)
        \/ Start(n)
        \/ \E gone \in SUBSET serving[n] : Remove(n, gone)
        \/ Reboot(n)

Spec == Init /\ [][Next]_vars
=============================================================================

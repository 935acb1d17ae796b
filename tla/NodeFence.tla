----------------------------- MODULE NodeFence ------------------------------
(***************************************************************************)
(* The per-node generation lock of spark_serve_controller.py               *)
(* (guarded_remote_script) and the create-then-start script of the CLI     *)
(* (docker_create_start_script).                                           *)
(*                                                                         *)
(* Transitions are numbered in the order in which they take the            *)
(* controller lock on the Mac, so the number of a transition is its        *)
(* generation (the code draws a fresh uuid4).  Every command a transition  *)
(* sends over SSH runs in a guard process on the node: it polls node.lock  *)
(* for 30 seconds, then either records its generation in node.json (a      *)
(* fence) or, if node.json holds its generation, runs its script in a      *)
(* child that inherits the lock.  The SSH client may give up on a command  *)
(* that is still on the node, so commands of an ended transition linger.   *)
(***************************************************************************)
EXTENDS Naturals

CONSTANTS Nodes,         \* the Sparks
          Cmds,          \* identities of guarded commands
          MaxGeneration  \* bound on the number of transitions

ASSUME NodesAssumption == Nodes # {}
ASSUME MaxGenerationAssumption == MaxGeneration \in Nat

VARIABLES
    current,   \* generation of the transition that holds the controller lock
    contact,   \* contact[n]: what the current transition knows of its fence on n
    req,       \* req[c]: what command c was asked to do, where, for whom
    pc,        \* pc[c]: how far command c has got
    holders,   \* holders[n]: processes that hold an open descriptor of node.lock
    nodeGen,   \* nodeGen[n]: the generation in node.json, 0 when there is none
    containers,\* containers[n]: the catalog containers that exist on n
    newest     \* history: the newest generation ever written to node.json

vars == <<current, contact, req, pc, holders, nodeGen, containers, newest>>

None == 0
Generations == 1..MaxGeneration

\* "drain" stands for the commands stop_yue sends whatever the fences answered;
\* "remove" and "launch" for those sent only once the node is known fenced.
Acts == {"fence", "drain", "remove", "launch"}
Requests == [node : Nodes, gen : Generations \cup {None}, act : Acts]

\* A container has the identity of the command that created it.
Containers == [by : Cmds, running : BOOLEAN]

Inside == {"script", "created", "starting"}       \* the child is running
Active == {"polling", "locked"} \cup Inside       \* some process of it is
Ended  == {"ok", "failed"}
Control == {"unsent"} \cup Active \cup Ended

Node(c) == req[c].node
Gen(c)  == req[c].gen
Is(c, act) == req[c].act = act

Processes == Cmds \X {"guard", "child"}
OfCommand(c) == {c} \X {"guard", "child"}

TypeOK ==
    /\ current \in Generations \cup {None}
    /\ contact \in [Nodes -> {"none", "sent", "fenced"}]
    /\ req \in [Cmds -> Requests]
    /\ pc \in [Cmds -> Control]
    /\ holders \in [Nodes -> SUBSET Processes]
    /\ nodeGen \in [Nodes -> Generations \cup {None}]
    /\ containers \in [Nodes -> SUBSET Containers]
    /\ newest \in [Nodes -> Generations \cup {None}]

Init ==
    /\ current = None
    /\ contact = [n \in Nodes |-> "none"]
    /\ req = [c \in Cmds |-> [node |-> CHOOSE n \in Nodes : TRUE,
                              gen |-> None, act |-> "drain"]]
    /\ pc = [c \in Cmds |-> "unsent"]
    /\ holders = [n \in Nodes |-> {}]
    /\ nodeGen = [n \in Nodes |-> None]
    /\ containers = [n \in Nodes |-> {}]
    /\ newest = [n \in Nodes |-> None]

-----------------------------------------------------------------------------
(* The Mac: one transition after another, each with a fresh generation.    *)

\* The previous transition has returned, failed or been killed.
NewTransition ==
    /\ current < MaxGeneration
    /\ current' = current + 1
    /\ contact' = [n \in Nodes |-> "none"]
    /\ UNCHANGED <<req, pc, holders, nodeGen, containers, newest>>

Send(c, n, act) ==
    /\ pc[c] = "unsent"
    /\ pc' = [pc EXCEPT ![c] = "polling"]
    /\ req' = [req EXCEPT ![c] = [node |-> n, gen |-> current, act |-> act]]
    /\ UNCHANGED <<current, holders, nodeGen, containers, newest>>

\* fence_nodes: one fence per selected node and transition.
SendFence(c, n) ==
    /\ current # None
    /\ contact[n] = "none"
    /\ contact' = [contact EXCEPT ![n] = "sent"]
    /\ Send(c, n, "fence")

\* switch calls stop_yue even when fence_nodes returned errors.
SendDrain(c, n) ==
    /\ contact[n] # "none"
    /\ UNCHANGED contact
    /\ Send(c, n, "drain")

\* Mutant: the error list of fence_nodes is not raised before the launch.
SendMutationUnfenced(c, n) ==
    /\ contact[n] # "none"
    /\ UNCHANGED contact
    /\ \E act \in {"remove", "launch"} : Send(c, n, act)

\* Everything else waits until the node has answered for this generation.
SendMutation(c, n) ==
    /\ contact[n] = "fenced"
    /\ UNCHANGED contact
    /\ \E act \in {"remove", "launch"} : Send(c, n, act)

\* A fence, or a command that could only run fenced, has exited 0.
Answered(c) ==
    /\ pc[c] = "ok"
    /\ Gen(c) = current
    /\ contact[Node(c)] = "sent"
    /\ contact' = [contact EXCEPT ![Node(c)] = "fenced"]
    /\ UNCHANGED <<current, req, pc, holders, nodeGen, containers, newest>>

-----------------------------------------------------------------------------
(* The node: the guard, its child, and what interrupts them.               *)

\* The command is over and its descriptors of node.lock are closed.
Finish(c, result) ==
    /\ pc' = [pc EXCEPT ![c] = result]
    /\ holders' = [holders EXCEPT ![Node(c)] = @ \ OfCommand(c)]

\* flock(LOCK_EX | LOCK_NB) on the guard's descriptor.
Acquire(c) ==
    /\ pc[c] = "polling"
    /\ holders[Node(c)] = {}
    /\ holders' = [holders EXCEPT ![Node(c)] = {<<c, "guard">>}]
    /\ pc' = [pc EXCEPT ![c] = "locked"]
    /\ UNCHANGED <<current, contact, req, nodeGen, containers, newest>>

\* Exit 75: the 30-second deadline passed with the lock held by another.
GiveUp(c) ==
    /\ pc[c] = "polling"
    /\ holders[Node(c)] # {}
    /\ Finish(c, "failed")
    /\ UNCHANGED <<current, contact, req, nodeGen, containers, newest>>

\* action == "fence": node.json is replaced whatever it holds.
WriteFence(c) ==
    /\ pc[c] = "locked"
    /\ Is(c, "fence")
    /\ nodeGen' = [nodeGen EXCEPT ![Node(c)] = Gen(c)]
    /\ newest' = [newest EXCEPT ![Node(c)] = IF Gen(c) > @ THEN Gen(c) ELSE @]
    /\ Finish(c, "ok")
    /\ UNCHANGED <<current, contact, req, containers>>

\* Mutant: no pass_fds, the child runs without the descriptor.
RunScriptUnheld(c) ==
    /\ pc[c] = "locked"
    /\ ~Is(c, "fence")
    /\ nodeGen[Node(c)] = Gen(c)
    /\ pc' = [pc EXCEPT ![c] = "script"]
    /\ UNCHANGED <<current, contact, req, holders, nodeGen, containers, newest>>

\* Mutant: node.json is not compared with the command's generation.
RunScriptUnchecked(c) ==
    /\ pc[c] = "locked"
    /\ ~Is(c, "fence")
    /\ pc' = [pc EXCEPT ![c] = "script"]
    /\ holders' = [holders EXCEPT ![Node(c)] = @ \cup {<<c, "child">>}]
    /\ UNCHANGED <<current, contact, req, nodeGen, containers, newest>>

\* action == "run": the generation matches, the child inherits the descriptor.
RunScript(c) ==
    /\ pc[c] = "locked"
    /\ ~Is(c, "fence")
    /\ nodeGen[Node(c)] = Gen(c)
    /\ pc' = [pc EXCEPT ![c] = "script"]
    /\ holders' = [holders EXCEPT ![Node(c)] = @ \cup {<<c, "child">>}]
    /\ UNCHANGED <<current, contact, req, nodeGen, containers, newest>>

\* Mutant: only a node without node.json refuses; any other mismatch hangs.
RefuseStaleUnrecorded(c) ==
    /\ pc[c] = "locked"
    /\ ~Is(c, "fence")
    /\ nodeGen[Node(c)] = None
    /\ Finish(c, "failed")
    /\ UNCHANGED <<current, contact, req, nodeGen, containers, newest>>

\* Exit 75: "stale remote controller generation; command was not executed".
RefuseStale(c) ==
    /\ pc[c] = "locked"
    /\ ~Is(c, "fence")
    /\ nodeGen[Node(c)] # Gen(c)
    /\ Finish(c, "failed")
    /\ UNCHANGED <<current, contact, req, nodeGen, containers, newest>>

\* Mutant: a child that outlives its guard ends in a state nobody handles.
StatusLost(c) == IF <<c, "guard">> \in holders[Node(c)] THEN "ok" ELSE "lost"

\* What the SSH client sees: the guard's exit status, if the guard survived.
Status(c) == IF <<c, "guard">> \in holders[Node(c)] THEN "ok" ELSE "failed"

Drain(c) ==
    /\ pc[c] = "script"
    /\ Is(c, "drain")
    /\ Finish(c, Status(c))
    /\ UNCHANGED <<current, contact, req, nodeGen, containers, newest>>

\* docker rm -f of the catalog containers the audit listed.
Remove(c) ==
    /\ pc[c] = "script"
    /\ Is(c, "remove")
    /\ containers' = [containers EXCEPT ![Node(c)] = {}]
    /\ Finish(c, Status(c))
    /\ UNCHANGED <<current, contact, req, nodeGen, newest>>

\* docker create: CPU only.
CreateContainer(c) ==
    /\ pc[c] = "script"
    /\ Is(c, "launch")
    /\ containers' = [containers EXCEPT
                        ![Node(c)] = @ \cup {[by |-> c, running |-> FALSE]}]
    /\ pc' = [pc EXCEPT ![c] = "created"]
    /\ UNCHANGED <<current, contact, req, holders, nodeGen, newest>>

\* The start helper reads node.json again before it calls docker start.
RecheckStart(c) ==
    /\ pc[c] = "created"
    /\ IF nodeGen[Node(c)] = Gen(c)
         THEN /\ pc' = [pc EXCEPT ![c] = "starting"]
              /\ UNCHANGED holders
         ELSE Finish(c, "failed")
    /\ UNCHANGED <<current, contact, req, nodeGen, containers, newest>>

\* docker start of the immutable ID create returned.
StartContainer(c) ==
    /\ pc[c] = "starting"
    /\ containers' = [containers EXCEPT ![Node(c)] =
                        (@ \ {[by |-> c, running |-> FALSE]})
                          \cup {[by |-> c, running |-> TRUE]}]
    /\ Finish(c, Status(c))
    /\ UNCHANGED <<current, contact, req, nodeGen, newest>>

\* set -e: any step of the script fails and the rest of it is skipped.
ScriptFails(c) ==
    /\ pc[c] \in Inside
    /\ Finish(c, "failed")
    /\ UNCHANGED <<current, contact, req, nodeGen, containers, newest>>

\* The guard is killed.  Before the child exists the command is over; after,
\* the child goes on and still holds the descriptor it inherited.
KillGuard(c) ==
    /\ pc[c] \in Active
    /\ pc[c] = "polling" \/ <<c, "guard">> \in holders[Node(c)]
    /\ holders' = [holders EXCEPT ![Node(c)] = @ \ {<<c, "guard">>}]
    /\ pc' = [pc EXCEPT ![c] = IF @ \in Inside THEN @ ELSE "failed"]
    /\ UNCHANGED <<current, contact, req, nodeGen, containers, newest>>

\* The machine restarts; node.json was replaced and synced, so it survives.
Reboot(n) ==
    /\ pc' = [c \in Cmds |-> IF pc[c] \in Active /\ Node(c) = n
                               THEN "failed" ELSE pc[c]]
    /\ holders' = [holders EXCEPT ![n] = {}]
    /\ containers' = [containers EXCEPT
                        ![n] = {[by |-> k.by, running |-> FALSE] : k \in @}]
    /\ UNCHANGED <<current, contact, req, nodeGen, newest>>

-----------------------------------------------------------------------------
Mac(c) ==
    \/ \E n \in Nodes : SendFence(c, n) \/ SendDrain(c, n) \/ SendMutation(c, n)
    \/ Answered(c)

\* The steps a command takes by itself.
Command(c) ==
    \/ Acquire(c) \/ GiveUp(c)
    \/ WriteFence(c) \/ RunScript(c) \/ RefuseStale(c)
    \/ Drain(c) \/ Remove(c)
    \/ CreateContainer(c) \/ RecheckStart(c) \/ StartContainer(c)

Next ==
    \/ NewTransition
    \/ \E c \in Cmds : Mac(c) \/ Command(c) \/ ScriptFails(c) \/ KillGuard(c)
    \/ \E n \in Nodes : Reboot(n)

Spec == Init /\ [][Next]_vars

\* The deadline on the lock and the end of every docker or factory command.
FairSpec == Spec /\ \A c \in Cmds : WF_vars(Command(c))

-----------------------------------------------------------------------------
(* Properties                                                              *)

\* A command past its flock call holds the lock, through its guard or through
\* the child that inherited the descriptor, and no other command does.
LockHeldThroughEffects ==
    \A c \in Cmds : pc[c] \in {"locked"} \cup Inside =>
        /\ holders[Node(c)] # {}
        /\ holders[Node(c)] \subseteq OfCommand(c)

\* "A newer transition either waits for an earlier command's effects ...":
\* a script never runs while node.json holds another generation than its own,
\* whoever is killed between the check and the effect.
EffectsUnderOwnGeneration ==
    \A c \in Cmds : pc[c] \in Inside => nodeGen[Node(c)] = Gen(c)

\* ADR 0003: what a transition does to a node happens under the node's lock and
\* while node.json holds the generation of that transition.
EffectsAreFenced == LockHeldThroughEffects /\ EffectsUnderOwnGeneration

\* README "delayed SSH commands for an older transition cannot admit a worker
\* or launch a model after a new transition starts": a launch or a removal
\* belongs to the newest generation ever recorded on its node.
MutationsAreOrdered ==
    \A c \in Cmds : pc[c] \in Inside /\ req[c].act \in {"remove", "launch"}
        => Gen(c) = newest[Node(c)]

\* No script is under way on a node at the moment its generation changes.
FenceWaitsForScripts ==
    [][\A n \in Nodes : nodeGen'[n] # nodeGen[n] =>
         ~ \E c \in Cmds : pc[c] \in Inside /\ Node(c) = n]_vars

\* Every command that reached its node ends: it runs, is refused or gives up.
EveryCommandEnds ==
    \A c \in Cmds : (pc[c] \in Active) ~> (pc[c] \in Ended)

\* The node keeps the promise of FencedNode.
Promise == INSTANCE FencedNode WITH
    Generations <- Generations,
    owner <- nodeGen,
    serving <- [n \in Nodes |-> {Gen(k.by) : k \in {x \in containers[n] : x.running}}]

ImplementsFencedNode == Promise!Spec
=============================================================================

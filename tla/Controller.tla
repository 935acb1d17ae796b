----------------------------- MODULE Controller -----------------------------
(***************************************************************************)
(* Controller.switch and Controller.reconcile_unreachable of               *)
(* spark_serve_controller.py: one transition at a time (controller.lock)   *)
(* fences the selected Sparks, drains YuE, removes the catalog containers, *)
(* verifies that the GPUs are idle and starts the target, recording every  *)
(* stage in controller.json before the remote effects of the next one.     *)
(*                                                                         *)
(* A remote call is one step on its node: NodeFence shows that a guarded   *)
(* script behaves so.  A call whose SSH client gives up may still run      *)
(* later; it waits in "late" and takes effect only if node.json still      *)
(* holds its generation.  Local failures, Ctrl-C, the death of the         *)
(* controller, lost connections and node reboots can strike at any stage.  *)
(***************************************************************************)
EXTENDS Naturals, FiniteSets

CONSTANTS Head, Worker,    \* the two Sparks, in the order of the profile
          Targets,         \* which workloads are asked for
          MaxTransitions,  \* bound on the number of transitions
          FaultKinds,      \* the kinds of faults that strike
          MaxFaults,       \* bound on the number of faults
          FaultyUntil,     \* nothing strikes after this many transitions
          MaxLate,         \* bound on the calls that outlive their client
          LateActs         \* the kinds of calls that may

ASSUME HostsAssumption == Head # Worker
ASSUME TargetsAssumption == Targets \subseteq {"none", "yue", "solo", "pair"}
ASSUME FaultsAssumption ==
    /\ FaultKinds \subseteq {"call", "launch", "interrupt", "crash", "disk", "exit", "reboot",
                             "foreign"}
    /\ LateActs \subseteq {"fence", "drain", "cancel", "stop", "unload", "verify", "restart",
                           "admit", "launch"}
ASSUME BoundsAssumption ==
    /\ MaxTransitions \in Nat /\ MaxFaults \in Nat
    /\ FaultyUntil \in Nat /\ MaxLate \in Nat

VARIABLES
    op,      \* the transition that holds controller.lock, Idle when it is free
    last,    \* the number of transitions begun; a number is a generation
    faults,  \* the number of faults so far
    rec,     \* rec[h]: the record of h in controller.json
    disc,    \* the hosts listed in yue-workers.json
    told,    \* the generations a client may have read from that list
    nodeGen, \* nodeGen[h]: the generation in node.json of h
    ctr,     \* ctr[h]: the catalog containers on h
    yue,     \* yue[h]: the YuE factory of h
    foreign, \* the hosts whose GPU or port something unmanaged uses
    late     \* calls whose client is gone and that have not run yet

disk == <<rec, disc, told>>
node == <<nodeGen, ctr, yue>>
vars == <<op, last, faults, rec, disc, told, nodeGen, ctr, yue, foreign, late>>

Hosts == {Head, Worker}
Generations == 1..MaxTransitions
None == 0
Gens == Generations \cup {None}

\* What went wrong: every message is a pre-connection SSH failure, or not.
Errors == {"ok", "unreachable", "other"}

\* join_errors, then unreachable_only: one other message spoils the list.
Join(a, b) ==
    IF "other" \in {a, b} THEN "other"
    ELSE IF "unreachable" \in {a, b} THEN "unreachable" ELSE "ok"

\* A stage that talks to the nodes carries the name of what it asks of them.
Calls == {"fence", "drain", "cancel", "stop", "unload", "verify",
          "restart", "admit", "launch"}
Stages == Calls \cup {"idle", "scope", "mark", "revoke", "jobs", "stopping",
                      "release", "claim", "ready", "publish", "undo", "fail",
                      "return", "audit", "clear"}

Records == [mode : {"unknown", "none", "vllm", "yue"},
            phase : {"unmanaged", "draining", "stopping", "stopped",
                     "starting", "ready", "failed"},
            alloc : SUBSET Hosts, allocId : Gens, err : Errors]
Containers == [gen : Gens, members : SUBSET Hosts, running : BOOLEAN]
Factories == [up : BOOLEAN, acc : BOOLEAN, gen : Gens, job : BOOLEAN]
Requests == [host : Hosts, gen : Generations, act : Calls,
             ids : SUBSET Gens, members : SUBSET Hosts]

Idle == [pc |-> "idle", target |-> "none", hosts |-> {}, cancel |-> FALSE,
         gen |-> None, todo |-> {}, err |-> "ok", drainFailed |-> FALSE,
         busy |-> {}, started |-> FALSE, undo |-> FALSE]

Operations ==
    [pc : Stages, target : {"none", "yue", "solo", "pair"},
     hosts : SUBSET Hosts, cancel : BOOLEAN, gen : Gens, todo : SUBSET Hosts,
     err : Errors, drainFailed : BOOLEAN, busy : SUBSET Hosts,
     started : BOOLEAN, undo : BOOLEAN]

TypeOK ==
    /\ op \in Operations
    /\ last \in Gens
    /\ faults \in 0..MaxFaults
    /\ rec \in [Hosts -> Records]
    /\ disc \subseteq Hosts
    /\ told \subseteq Generations
    /\ nodeGen \in [Hosts -> Gens]
    /\ ctr \in [Hosts -> SUBSET Containers]
    /\ yue \in [Hosts -> Factories]
    /\ foreign \subseteq Hosts
    /\ late \subseteq Requests

\* node_states without controller.json: nothing is recorded of either node.
Unmanaged == [mode |-> "unknown", phase |-> "unmanaged", alloc |-> {},
              allocId |-> None, err |-> "ok"]

\* A new installation, or one whose state was lost over a distributed model.
Init ==
    /\ op = Idle /\ last = 0 /\ faults = 0
    /\ rec = [h \in Hosts |-> Unmanaged]
    /\ disc = {} /\ told = {}
    /\ nodeGen = [h \in Hosts |-> None]
    /\ \E running \in {{}, {[gen |-> None, members |-> Hosts, running |-> TRUE]}} :
           ctr = [h \in Hosts |-> running]
    /\ yue = [h \in Hosts |-> [up |-> FALSE, acc |-> FALSE, gen |-> None, job |-> FALSE]]
    /\ foreign = {} /\ late = {}

-----------------------------------------------------------------------------
(* How a transition moves through its stages.                              *)

Goto(o, pc) == [o EXCEPT !.pc = pc, !.todo = o.hosts]

\* Host h is done: the next host, or the next stage.
Done(o, h, pc) ==
    IF o.todo \subseteq {h} THEN Goto(o, pc) ELSE [o EXCEPT !.todo = @ \ {h}]

\* An exception.  On the way forward it starts the undo; the undo itself
\* notes the error and goes on with what is left of the cleanup.
Raise(o, e) ==
    LET noted == [o EXCEPT !.err = Join(@, e)]
    IN  IF ~o.undo THEN Goto(noted, "undo")
        ELSE IF o.pc = "unload" THEN Goto(noted, "fail")
        ELSE Goto(noted, "unload")

\* stop_yue has asked every host to drain; any failure is raised only now.
Drained(o, h) ==
    IF ~(o.todo \subseteq {h}) THEN [o EXCEPT !.todo = @ \ {h}]
    ELSE IF o.drainFailed THEN Raise(o, "ok") ELSE Goto(o, "jobs")

\* stop_yue is over; forward, the errors of fence_nodes are raised only now.
YueStopped(o, h) ==
    IF ~(o.todo \subseteq {h}) THEN [o EXCEPT !.todo = @ \ {h}]
    ELSE IF o.undo THEN Goto(o, "unload")
    ELSE IF o.err # "ok" THEN Raise(o, "ok") ELSE Goto(o, "stopping")

\* What a failed call on h does to the transition.
Failed(o, h, e) ==
    LET noted == [o EXCEPT !.err = Join(@, e)]
    IN  IF o.pc = "fence" THEN Done(noted, h, "drain")
        ELSE IF o.pc = "drain" THEN Drained([noted EXCEPT !.drainFailed = TRUE], h)
        ELSE Raise(o, e)

\* Loops visit the head first.  A distributed vLLM starts its worker rank
\* first, a NIM its head rank, so either may be next to launch.
NextHosts ==
    IF op.pc = "launch" THEN op.todo
    ELSE IF Head \in op.todo THEN {Head} ELSE op.todo

\* The call the current stage makes on h.  Removal names the containers the
\* audit listed, by ID.
Call(h) ==
    [host |-> h, gen |-> op.gen, act |-> op.pc,
     ids |-> IF op.pc = "unload" THEN {k.gen : k \in ctr[h]} ELSE {},
     members |-> IF op.pc = "launch" THEN op.hosts ELSE {}]

\* Mutant: node.json is not compared with the generation of the call.
RunsUnfenced(c) == c.act \in Calls

\* guarded_remote_script: a fence always runs, the rest under its generation.
Runs(c) == c.act = "fence" \/ nodeGen[c.host] = c.gen

\* A factory restarts drained, and is admitted only while it is up.
FactoryAfter(y, c) ==
    [up  |-> c.act = "restart" \/ (y.up /\ c.act # "stop"),
     acc |-> IF c.act = "admit" THEN y.up
             ELSE y.acc /\ c.act \notin {"drain", "stop", "restart"},
     gen |-> IF c.act = "admit" THEN c.gen ELSE y.gen,
     job |-> y.job /\ c.act \notin {"cancel", "stop", "restart"}]

ContainersAfter(s, c) ==
    {k \in s : k.gen \notin c.ids}
      \cup IF c.act = "launch"
           THEN {[gen |-> c.gen, members |-> c.members, running |-> TRUE]} ELSE {}

Effect(c) ==
    /\ nodeGen' = IF c.act = "fence" THEN [nodeGen EXCEPT ![c.host] = c.gen]
                  ELSE nodeGen
    /\ yue' = [yue EXCEPT ![c.host] = FactoryAfter(@, c)]
    /\ ctr' = [ctr EXCEPT ![c.host] = ContainersAfter(@, c)]

\* The audit of a host finds its GPU and its ports free.
IdleHost(h) ==
    /\ h \notin foreign
    /\ ~yue[h].up
    /\ \A k \in ctr[h] : ~k.running

\* _save_selected: one atomic write of controller.json.
SaveSelected(updated) ==
    rec' = [h \in Hosts |-> IF h \in op.hosts THEN updated[h] ELSE rec[h]]

\* Mutant: a transition of one node leaves the list as it is.
RevokeWhole == disc' = IF op.hosts = Hosts THEN {} ELSE disc

\* revoke: the list keeps only ready workers of hosts that are not selected.
Revoke == disc' = {h \in Hosts \ op.hosts : rec[h].mode = "yue" /\ rec[h].phase = "ready"}

Local == UNCHANGED <<last, faults, nodeGen, ctr, yue, foreign, late>>
-----------------------------------------------------------------------------
(* switch: before anything is changed.                                     *)

\* The CLI gives a solo model one node; a pair and YuE take both.
Begin ==
    /\ op = Idle
    /\ last < MaxTransitions
    /\ last' = last + 1
    /\ \E t \in Targets, hs \in (SUBSET Hosts) \ {{}}, c \in BOOLEAN :
         /\ t \in {"yue", "pair"} => hs = Hosts
         /\ t = "solo" => hs # Hosts
         /\ op' = [Idle EXCEPT !.pc = "scope", !.target = t, !.hosts = hs,
                               !.cancel = c, !.gen = last + 1]
    /\ UNCHANGED <<faults, disk, node, foreign, late>>

\* Mutant: the containers of the node are not inspected.
InScopeByRecord(hosts) ==
    \/ hosts = Hosts
    \/ /\ \A h \in Hosts : rec[h].mode = "unknown" =>
              rec[h].phase = "unmanaged" /\ rec[h].err = "ok"
       /\ \A h \in Hosts : rec[h].alloc \cap hosts # {} => rec[h].alloc \subseteq hosts

\* _check_scope for one node: its own containers are inspected, and the
\* records of both, so that a distributed allocation is not split.
InScope(hosts) ==
    \/ hosts = Hosts
    \/ /\ \A h \in Hosts : rec[h].mode = "unknown" =>
              rec[h].phase = "unmanaged" /\ rec[h].err = "ok"
       /\ \A h \in Hosts : rec[h].alloc \cap hosts # {} => rec[h].alloc \subseteq hosts
       /\ \A h \in hosts : \A k \in ctr[h] : k.members \subseteq hosts

CheckScope ==
    /\ op.pc = "scope"
    /\ op' = IF InScope(op.hosts) THEN Goto(op, "mark") ELSE Idle
    /\ Local /\ UNCHANGED disk

-----------------------------------------------------------------------------
(* switch: the stages that only write to the controller's directory.       *)

\* From here on the records show that a transition is under way.
Mark ==
    /\ op.pc = "mark"
    /\ SaveSelected([h \in Hosts |-> [rec[h] EXCEPT !.phase = "draining", !.err = "ok"]])
    /\ op' = Goto(op, "revoke")
    /\ Local /\ UNCHANGED <<disc, told>>

RevokeDiscovery ==
    /\ op.pc = "revoke"
    /\ Revoke
    /\ op' = Goto(op, "fence")
    /\ Local /\ UNCHANGED <<rec, told>>

\* Mutant: active jobs do not stop the transition.
JobsIgnored ==
    /\ op.pc = "jobs"
    /\ op' = Goto(op, "stop")
    /\ Local /\ UNCHANGED disk

\* Mutant: --cancel-jobs is not passed on to stop_yue.
JobsNeverCancelled ==
    /\ op.pc = "jobs"
    /\ op' = IF op.busy = {} THEN Goto(op, "stop") ELSE Raise(op, "other")
    /\ Local /\ UNCHANGED disk

\* The jobs the drain reported: cancelled when asked for, else left to finish.
Jobs ==
    /\ op.pc = "jobs"
    /\ op' = IF op.busy = {} THEN Goto(op, "stop")
             ELSE IF op.cancel /\ ~op.undo
             THEN [op EXCEPT !.pc = "cancel", !.todo = op.busy]
             ELSE Raise(op, "other")
    /\ Local /\ UNCHANGED disk

\* YuE is off: the containers are next.
Stopping ==
    /\ op.pc = "stopping"
    /\ SaveSelected([h \in Hosts |-> [rec[h] EXCEPT !.phase = "stopping"]])
    /\ op' = Goto(op, "unload")
    /\ Local /\ UNCHANGED <<disc, told>>

\* Every selected GPU was seen idle: nobody owns the nodes.
Release ==
    /\ op.pc = "release"
    /\ SaveSelected([h \in Hosts |-> [rec[h] EXCEPT !.mode = "none", !.phase = "stopped",
                                                    !.alloc = {}, !.allocId = None]])
    /\ op' = Goto(op, IF op.target = "none" THEN "return" ELSE "claim")
    /\ Local /\ UNCHANGED <<disc, told>>

\* The owner is on disk before the first start is sent.
Claim ==
    /\ op.pc = "claim"
    /\ SaveSelected([h \in Hosts |->
         [rec[h] EXCEPT !.mode = IF op.target = "yue" THEN "yue" ELSE "vllm",
                        !.phase = "starting", !.allocId = op.gen,
                        !.alloc = IF op.target = "yue" THEN {} ELSE op.hosts]])
    /\ op' = Goto([op EXCEPT !.started = TRUE],
                  IF op.target = "yue" THEN "restart" ELSE "launch")
    /\ Local /\ UNCHANGED <<disc, told>>

\* start_yue: both workers have acknowledged; the records, then the list.
ReadyYue ==
    /\ op.pc = "ready" /\ op.target = "yue"
    /\ rec' = [h \in Hosts |-> [rec[h] EXCEPT !.mode = "yue", !.phase = "ready",
                                  !.err = "ok", !.alloc = {h}, !.allocId = op.gen]]
    /\ op' = Goto(op, "publish")
    /\ Local /\ UNCHANGED <<disc, told>>

Publish ==
    /\ op.pc = "publish"
    /\ disc' = Hosts
    /\ told' = told \cup {op.gen}
    /\ op' = Goto(op, "return")
    /\ Local /\ UNCHANGED rec

\* wait_ready watches the launched containers; --no-wait does not.
ReadyModel ==
    /\ op.pc = "ready" /\ op.target # "yue"
    /\ \E phase \in {"starting", "ready"} :
         /\ phase = "ready" => \A h \in op.hosts : \E k \in ctr[h] :
                                   k.gen = op.gen /\ k.running
         /\ SaveSelected([h \in Hosts |-> [rec[h] EXCEPT !.mode = "vllm",
                                                         !.phase = phase, !.err = "ok"]])
    /\ op' = Goto(op, "return")
    /\ Local /\ UNCHANGED <<disc, told>>

\* The transition leaves its try block and lets the lock go.
Return ==
    /\ op.pc = "return"
    /\ op' = Idle
    /\ Local /\ UNCHANGED disk

\* The startup monitor finds a container of this launch gone.
ReadyFails ==
    /\ op.pc = "ready" /\ op.target # "yue"
    /\ \E h \in op.hosts : ~\E k \in ctr[h] : k.gen = op.gen /\ k.running
    /\ op' = Raise(op, "other")
    /\ Local /\ UNCHANGED disk

\* except BaseException: clean up only what this transition started.
Cleanup(o) ==
    IF ~o.started THEN Goto(o, "fail")
    ELSE Goto([o EXCEPT !.undo = TRUE, !.drainFailed = FALSE, !.busy = {}], "drain")

Undo ==
    /\ op.pc = "undo"
    /\ Revoke
    /\ op' = Cleanup(op)
    /\ Local /\ UNCHANGED <<rec, told>>

\* Mutant: after the cleanup the nodes are taken for idle.
FailForgets ==
    /\ op.pc = "fail"
    /\ SaveSelected([h \in Hosts |-> [rec[h] EXCEPT !.mode = "none", !.phase = "failed",
                                                    !.err = op.err]])
    /\ op' = Idle
    /\ Local /\ UNCHANGED <<disc, told>>

Fail ==
    /\ op.pc = "fail"
    /\ SaveSelected([h \in Hosts |-> [rec[h] EXCEPT !.phase = "failed", !.err = op.err]])
    /\ op' = Idle
    /\ Local /\ UNCHANGED <<disc, told>>
-----------------------------------------------------------------------------
(* switch: the calls it makes on the nodes.                                *)

\* The stage after the calls that are made on one host after the other.
Following(o) ==
    [fence |-> "drain", cancel |-> "stop", verify |-> "release", launch |-> "ready",
     unload |-> IF o.undo THEN "fail" ELSE "verify"][o.pc]

\* Where the transition goes when its call on h succeeds.
Succeeded(o, h) ==
    IF o.pc = "drain"
      THEN Drained([o EXCEPT !.busy = IF yue[h].job THEN @ \cup {h} ELSE @], h)
    ELSE IF o.pc = "stop" THEN YueStopped(o, h)
    ELSE IF o.pc = "restart" THEN [o EXCEPT !.pc = "admit"]
    ELSE IF o.pc = "admit" /\ o.todo # {h} THEN [o EXCEPT !.pc = "restart", !.todo = @ \ {h}]
    ELSE IF o.pc = "admit" THEN Goto(o, "ready")
    ELSE Done(o, h, Following(o))

\* The node runs the call and the answer arrives.
CallRuns(h) ==
    /\ op.pc \in Calls
    /\ h \in NextHosts
    /\ Runs(Call(h))
    /\ op.pc = "verify" => IdleHost(h)
    /\ op.pc = "admit" => yue[h].up
    /\ Effect(Call(h))
    /\ op' = Succeeded(op, h)
    /\ UNCHANGED <<last, faults, disk, foreign, late>>

\* A stale generation, a GPU still in use, or a factory that is not running.
CallRefused(h) ==
    /\ op.pc \in Calls
    /\ h \in NextHosts
    /\ \/ ~Runs(Call(h))
       \/ op.pc = "verify" /\ ~IdleHost(h)
       \/ op.pc = "admit" /\ ~yue[h].up
    /\ op' = Failed(op, h, "other")
    /\ Local /\ UNCHANGED disk

Fault(kind) ==
    /\ kind \in FaultKinds
    /\ faults < MaxFaults /\ last <= FaultyUntil
    /\ faults' = faults + 1

\* The call in progress may be on its node although its client is gone.
Lingers ==
    \/ UNCHANGED late
    \/ /\ op.pc \in LateActs
       /\ Cardinality(late) < MaxLate
       /\ \E h \in NextHosts : late' = late \cup {Call(h)}

\* SSH never connected, or the connection or the script failed.
CallFails(h) ==
    /\ Fault("call")
    /\ op.pc \in Calls
    /\ h \in NextHosts
    /\ \/ op' = Failed(op, h, "unreachable") /\ UNCHANGED late
       \/ op' = Failed(op, h, "other") /\ Lingers
    /\ UNCHANGED <<last, disk, node, foreign>>

\* docker create succeeded and docker start did not.
LaunchDies(h) ==
    /\ Fault("launch")
    /\ op.pc = "launch"
    /\ h \in NextHosts
    /\ Runs(Call(h))
    /\ ctr' = [ctr EXCEPT ![h] = @ \cup {[gen |-> op.gen, members |-> op.hosts,
                                          running |-> FALSE]}]
    /\ op' = Failed(op, h, "other")
    /\ UNCHANGED <<last, disk, nodeGen, yue, foreign, late>>

\* Ctrl-C, SystemExit or a local error inside the try block.
Interrupt ==
    /\ Fault("interrupt")
    /\ op.pc \notin {"idle", "scope", "undo", "fail", "audit", "clear"} /\ ~op.undo
    /\ op' = Raise(op, "other")
    /\ Lingers
    /\ UNCHANGED <<last, disk, node, foreign>>

\* The list cannot be written during the cleanup, which goes on regardless.
UndoUnrevoked ==
    /\ Fault("disk")
    /\ op.pc = "undo"
    /\ op' = Cleanup([op EXCEPT !.err = "other"])
    /\ UNCHANGED <<last, disk, node, foreign, late>>

\* The controller is killed or interrupted again while it cleans up; before
\* the try block, any refusal (the audit, a benchmark client) ends it too.
Crash ==
    /\ Fault("crash")
    /\ op # Idle
    /\ op' = Idle
    /\ Lingers
    /\ UNCHANGED <<last, disk, node, foreign>>

-----------------------------------------------------------------------------
(* reconcile_unreachable, at each status poll.                             *)

Candidates == {h \in Hosts : /\ rec[h].phase = "failed"
                             /\ rec[h].mode = "none"
                             /\ rec[h].err = "unreachable"}

Reconcile ==
    /\ op = Idle
    /\ Candidates # {}
    /\ op' = [Idle EXCEPT !.pc = "audit", !.hosts = Candidates, !.todo = Candidates]
    /\ Local /\ UNCHANGED disk

\* busy keeps the hosts whose audit failed or found them in use.
AuditHost(h) ==
    /\ op.pc = "audit"
    /\ h \in NextHosts
    /\ \E idle \in {IdleHost(h), FALSE} :
         op' = Done([op EXCEPT !.busy = IF idle THEN @ ELSE @ \cup {h}], h, "clear")
    /\ Local /\ UNCHANGED disk

\* Mutant: the cleared record gets a phase nobody handles.
ClearUnhandled ==
    /\ op.pc = "clear"
    /\ rec' = [h \in Hosts |-> IF h \in op.hosts \ op.busy
                               THEN [rec[h] EXCEPT !.phase = "idle", !.err = "ok"]
                               ELSE rec[h]]
    /\ op' = Idle
    /\ Local /\ UNCHANGED <<disc, told>>

Clear ==
    /\ op.pc = "clear"
    /\ rec' = [h \in Hosts |-> IF h \in op.hosts \ op.busy
                               THEN [rec[h] EXCEPT !.phase = "stopped", !.err = "ok",
                                                   !.alloc = {}, !.allocId = None]
                               ELSE rec[h]]
    /\ op' = Idle
    /\ Local /\ UNCHANGED <<disc, told>>

-----------------------------------------------------------------------------
(* The nodes and what uses them.                                           *)

\* A call that outlived its client reaches the lock of its node.
LateRuns(c) ==
    /\ late' = late \ {c}
    /\ IF Runs(c) THEN Effect(c) ELSE UNCHANGED node
    /\ UNCHANGED <<op, last, faults, disk, foreign>>

\* A client submits a job under the generation it read from the list; the
\* worker takes it only while it is admitted under that generation.
JobArrives(h) ==
    /\ yue[h].up /\ yue[h].acc /\ ~yue[h].job
    /\ yue[h].gen \in told
    /\ yue' = [yue EXCEPT ![h].job = TRUE]
    /\ UNCHANGED <<op, last, faults, disk, nodeGen, ctr, foreign, late>>

JobDone(h) ==
    /\ yue[h].job
    /\ yue' = [yue EXCEPT ![h].job = FALSE]
    /\ UNCHANGED <<op, last, faults, disk, nodeGen, ctr, foreign, late>>

\* A served model exits: out of memory, or by itself.
ContainerExits(h) ==
    /\ Fault("exit")
    /\ \E k \in ctr[h] : k.running
    /\ ctr' = [ctr EXCEPT ![h] = {[k EXCEPT !.running = FALSE] : k \in @}]
    /\ UNCHANGED <<op, last, disk, nodeGen, yue, foreign, late>>

\* Every process of the node is gone; node.json and the containers stay.  The
\* factory may be a unit that starts at boot: it starts drained.
Reboot(h) ==
    /\ Fault("reboot")
    /\ ctr' = [ctr EXCEPT ![h] = {[k EXCEPT !.running = FALSE] : k \in @}]
    /\ \E up \in BOOLEAN :
         yue' = [yue EXCEPT ![h] = [@ EXCEPT !.up = up, !.acc = FALSE, !.job = FALSE]]
    /\ late' = {c \in late : c.host # h}
    /\ UNCHANGED <<op, last, disk, nodeGen, foreign>>

\* A process outside the catalog takes the GPU.
Foreign(h) ==
    /\ h \notin foreign
    /\ Fault("foreign")
    /\ foreign' = foreign \cup {h}
    /\ UNCHANGED <<op, last, disk, node, late>>

\* It ends.
ForeignEnds(h) ==
    /\ h \in foreign
    /\ foreign' = foreign \ {h}
    /\ UNCHANGED <<op, last, faults, disk, node, late>>

-----------------------------------------------------------------------------
\* What the process that holds the lock does by itself.
Proceed ==
    \/ CheckScope \/ Mark \/ RevokeDiscovery \/ Jobs \/ Stopping \/ Release
    \/ Claim \/ ReadyYue \/ Publish \/ ReadyModel \/ ReadyFails \/ Return
    \/ Undo \/ Fail \/ Clear
    \/ \E h \in Hosts : CallRuns(h) \/ CallRefused(h) \/ AuditHost(h)

Next ==
    \/ Begin \/ Reconcile \/ Proceed
    \/ Interrupt \/ UndoUnrevoked \/ Crash
    \/ \E h \in Hosts : \/ CallFails(h) \/ LaunchDies(h)
                        \/ JobArrives(h) \/ JobDone(h)
                        \/ ContainerExits(h) \/ Reboot(h)
                        \/ Foreign(h) \/ ForeignEnds(h)
    \/ \E c \in late : LateRuns(c)

Spec == Init /\ [][Next]_vars

\* Every remote call and every wait of the code has a timeout.
FairSpec == Spec /\ WF_vars(Proceed)

-----------------------------------------------------------------------------
(* Properties                                                              *)

RunningOn(h) == {k \in ctr[h] : k.running}
Admitted(h) == yue[h].up /\ yue[h].acc

\* The owner of whatever runs on a node is on disk, through failed cleanups,
\* crashes and late starts: a record of mode "none" means that nothing does.
\* A model that predates the controller's state (generation None) is exempt.
RunningIsRecorded ==
    \A h \in Hosts :
        /\ \A k \in RunningOn(h) : k.gen # None =>
              rec[h].mode = "vllm" /\ rec[h].allocId = k.gen /\ h \in rec[h].alloc
        /\ Admitted(h) => rec[h].mode = "yue" /\ rec[h].allocId = yue[h].gen

\* ADR 0003 "workloads competing for the same GPU": a node never serves two
\* managed workloads, whatever earlier transitions left on it or on the wire.
OneWorkloadPerNode ==
    \A h \in Hosts :
        /\ \A j, k \in RunningOn(h) : j = k
        /\ Admitted(h) => RunningOn(h) = {}

\* While one rank of a model runs, the other node of its allocation serves
\* nothing else.
NoStrandedRank ==
    \A h \in Hosts : \A k \in RunningOn(h) : \A m \in k.members :
        /\ ~Admitted(m)
        /\ \A j \in RunningOn(m) : j.gen = k.gen

\* A recorded allocation is never half released or half taken over.
RecordsWhole ==
    \A h \in Hosts : rec[h].mode = "vllm" =>
        \A m \in rec[h].alloc : /\ rec[m].mode = "vllm"
                                /\ rec[m].alloc = rec[h].alloc
                                /\ rec[m].allocId = rec[h].allocId

\* "Reject splitting a distributed allocation", on the nodes and on disk, also
\* after launches that were lost or failed on one of the two.
AllocationsStayWhole == NoStrandedRank /\ RecordsWhole

\* Nodes start and remove workloads, the YuE factory included, only for the
\* transition they record: every call, late ones too, is what FencedNode allows.
Promise == INSTANCE FencedNode WITH
    Nodes <- Hosts,
    owner <- nodeGen,
    serving <- [h \in Hosts |-> {k.gen : k \in RunningOn(h)}
                                  \cup IF Admitted(h) THEN {yue[h].gen} ELSE {}]

RespectsFencedNode == Promise!Spec

\* README "Active renders keep running": a job ends by itself, by an explicit
\* --cancel-jobs or with its machine, never by a service stop or restart.
JobsSurvive ==
    [][\A h \in Hosts : yue[h].job /\ ~yue'[h].job =>
           \/ JobDone(h) \/ Reboot(h)
           \/ op.pc = "cancel" /\ op.cancel
           \/ \E c \in late : c.act = "cancel" /\ LateRuns(c)]_vars

\* README "Discovery is revoked before draining": while at most one fault has
\* struck, wherever it did, a worker that stops accepting was no longer listed,
\* unless its machine restarted.
OneFaultDrainsUnlisted ==
    [][\A h \in Hosts : faults <= 1 /\ Admitted(h) /\ ~Admitted(h)' =>
           h \notin disc \/ Reboot(h)]_vars

\* Whatever the earlier transitions left behind, one undisturbed stop of both
\* nodes with --cancel-jobs ends with both recorded idle.
StopReleases ==
    (/\ op.pc = "mark" /\ op.gen > FaultyUntil
     /\ op.target = "none" /\ op.hosts = Hosts /\ op.cancel /\ foreign = {})
        ~> (\A h \in Hosts : rec[h].mode = "none" /\ rec[h].phase = "stopped")
=============================================================================

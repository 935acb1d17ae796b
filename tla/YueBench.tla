------------------------------ MODULE YueBench ------------------------------
(***************************************************************************)
(* The YuE concurrency benchmark on one Spark: NodeLease and DockerRunner  *)
(* (spark_bench/runtime.py), execute_trial and run_experiment              *)
(* (spark_bench/experiment.py), beside production: the YuE factory, which  *)
(* is external, and the transitions of the Mac's controller, which are     *)
(* reduced here to what meets the benchmark (Controller has them in full). *)
(*                                                                         *)
(* A run takes node.lock, drains the factory, waits until it is idle, runs *)
(* its jobs in containers of its own, at most `level' at a time, removes   *)
(* them and admits the factory again.  One trial per run; telemetry and    *)
(* guards appear as what they do to the run, results as who wrote them.    *)
(***************************************************************************)
EXTENDS Naturals, FiniteSets

CONSTANTS Runs,       \* runs started on the Spark, by remote_run or by hand
          Jobs,       \* the jobs of a trial
          Levels,     \* the concurrency levels
          Transitions \* transitions of the Mac's controller

ASSUME YueBenchAssumption ==
    /\ Levels \subseteq Nat \ {0} /\ Transitions \in Nat
    /\ "free" \notin Runs

VARIABLES
    lock,     \* node.lock: a run, or free; the Mac's guarded calls take it briefly
    nodeGen,  \* the generation in node.json
    factory,  \* the production worker
    vllm,     \* does a model of the Mac's controller run?
    mac,      \* the Mac's controller
    run,      \* run[r]: the process of a run; `drained' is history: it has closed
              \* the factory itself
    job,      \* job[r][j]: the thread of a job, or its place in the queue
    cont,     \* cont[r][j]: its container
    late,     \* late[r]: jobs whose docker start nobody waits for any more
    cut       \* history: a run let the lock go with a docker start on its way

vars == <<lock, nodeGen, factory, vllm, mac, run, job, cont, late, cut>>
production == <<nodeGen, factory, vllm, mac>>

Free == "free"
Gens == 0..Transitions

Labels == {"new", "check", "drain", "idle", "audit", "assets", "trial", "failing", "exit",
           "admit", "redrain", "unlock", "end"}
Processes == [pc : Labels, gen : Gens, level : Levels \cup {0}, restore : BOOLEAN, clean : BOOLEAN,
              stop : BOOLEAN, drained : BOOLEAN,
              report : {"none", "restored", "left_drained"}]
Fresh == [pc |-> "new", gen |-> 0, level |-> 0, restore |-> FALSE, clean |-> TRUE,
          stop |-> FALSE, drained |-> FALSE, report |-> "none"]
Threads == {"queued", "create", "created", "start", "running", "remove", "done", "recorded"}

\* Exactly the run between Acquire and Unlock holds node.lock.
LockHeld == \A r \in Runs : lock = r <=> run[r].pc \notin {"new", "end"}

TypeOK ==
    /\ lock \in Runs \cup {Free}
    /\ nodeGen \in Gens
    /\ factory \in [up : BOOLEAN, accepting : BOOLEAN, gen : Gens, busy : BOOLEAN]
    /\ vllm \in BOOLEAN
    /\ mac \in {"idle", "fenced", "drained", "stopped", "verified"}
    /\ run \in [Runs -> Processes]
    /\ job \in [Runs -> [Jobs -> Threads]]
    /\ cont \in [Runs -> [Jobs -> {"none", "idle", "running"}]]
    /\ late \in [Runs -> SUBSET Jobs]
    /\ cut \in BOOLEAN
    /\ LockHeld

\* The factory is admitted, as remote_run requires of the Mac's records.
Init ==
    /\ lock = Free
    /\ nodeGen = 0
    /\ factory = [up |-> TRUE, accepting |-> TRUE, gen |-> 0, busy |-> FALSE]
    /\ vllm = FALSE
    /\ mac = "idle"
    /\ run = [r \in Runs |-> Fresh]
    /\ job = [r \in Runs |-> [j \in Jobs |-> "queued"]]
    /\ cont = [r \in Runs |-> [j \in Jobs |-> "none"]]
    /\ late = [r \in Runs |-> {}]
    /\ cut = FALSE

-----------------------------------------------------------------------------
(* NodeLease.                                                              *)

At(r, pc) == run[r].pc = pc
Goto(r, pc) == run' = [run EXCEPT ![r].pc = pc]
JobAt(r, j, pc) == job[r][j] = pc
Move(r, j, pc) == job' = [job EXCEPT ![r][j] = pc]

\* Runs with a container on the GPU.
Running == {r \in Runs : \E j \in Jobs : cont[r][j] = "running"}

\* The lock is not waited for.
Acquire(r) ==
    /\ At(r, "new")
    /\ IF lock = Free
       THEN lock' = r /\ Goto(r, "check")
       ELSE UNCHANGED lock /\ Goto(r, "end")
    /\ UNCHANGED <<production, job, cont, late, cut>>

\* Mutant: a factory that is drained already is borrowed all the same.
AdmissibleDrained == factory.up /\ factory.gen = nodeGen

\* The factory must be healthy, admitted, and of node.json's generation.
Admissible == factory.up /\ factory.accepting /\ factory.gen = nodeGen

Check(r) ==
    /\ At(r, "check")
    /\ Admissible
    /\ run' = [run EXCEPT ![r].pc = "drain", ![r].gen = nodeGen, ![r].restore = TRUE]
    /\ UNCHANGED <<lock, production, job, cont, late, cut>>

\* Mutant: a check that fails leaves without giving the lock back.
CheckFailsHolding(r) ==
    /\ At(r, "check")
    /\ Goto(r, "end")
    /\ UNCHANGED <<lock, production, job, cont, late, cut>>

\* Any check fails, those of the assets and of the runtime among them.
CheckFails(r) ==
    /\ At(r, "check")
    /\ Goto(r, "exit")
    /\ UNCHANGED <<lock, production, job, cont, late, cut>>

Drained == factory' = [factory EXCEPT !.accepting = FALSE]

\* A drain that raises may have closed the factory all the same.
Drain(r) ==
    /\ At(r, "drain")
    /\ \/ /\ Drained
          /\ \E pc \in {"idle", "exit"} :
               run' = [run EXCEPT ![r].pc = pc, ![r].drained = factory.accepting]
       \/ UNCHANGED factory /\ Goto(r, "exit")
    /\ UNCHANGED <<lock, nodeGen, vllm, mac, job, cont, late, cut>>

\* Mutant: a job that is about to end counts as gone.
BecomesIdleEarly(r) ==
    /\ At(r, "idle")
    /\ Goto(r, "assets")
    /\ UNCHANGED <<lock, production, job, cont, late, cut>>

BecomesIdle(r) ==
    /\ At(r, "idle") /\ ~factory.busy
    /\ Goto(r, "audit")
    /\ UNCHANGED <<lock, production, job, cont, late, cut>>

\* stop_event or the deadline: the production job is left to finish and the
\* factory stays drained.
WaitEnds(r) ==
    /\ At(r, "idle")
    /\ run' = [run EXCEPT ![r].pc = "exit", ![r].restore = FALSE]
    /\ UNCHANGED <<lock, production, job, cont, late, cut>>

\* A look at the health fails.
HealthFails(r) ==
    /\ At(r, "idle")
    /\ Goto(r, "exit")
    /\ UNCHANGED <<lock, production, job, cont, late, cut>>

GpuIdle == ~vllm /\ ~factory.busy /\ Running = {}

\* Foreign containers and compute processes; a failed audit is never clean.
Audit(r) ==
    /\ At(r, "audit")
    /\ \/ GpuIdle /\ Goto(r, "assets")
       \/ run' = [run EXCEPT ![r].pc = "exit", ![r].clean = FALSE]
    /\ UNCHANGED <<lock, production, job, cont, late, cut>>

Assets(r) ==
    /\ At(r, "assets")
    /\ \/ \E level \in Levels : run' = [run EXCEPT ![r].pc = "trial", ![r].level = level]
       \/ Goto(r, "exit")
    /\ UNCHANGED <<lock, production, job, cont, late, cut>>

Report(r, status) == run' = [run EXCEPT ![r].pc = "unlock", ![r].report = status]

Leave(r) ==
    /\ At(r, "exit")
    /\ \/ run[r].restore /\ run[r].clean /\ GpuIdle /\ Goto(r, "admit")
       \/ ~(run[r].restore /\ run[r].clean) /\ Report(r, "left_drained")
    /\ UNCHANGED <<lock, production, job, cont, late, cut>>

ToRedrain(r) == run' = [run EXCEPT ![r].pc = "redrain", ![r].clean = FALSE]

\* The second audit fails: nothing was admitted.
SecondAuditFails(r) ==
    /\ At(r, "exit") /\ run[r].restore /\ run[r].clean
    /\ ToRedrain(r)
    /\ UNCHANGED <<lock, production, job, cont, late, cut>>

Admitted(g) == factory' = [factory EXCEPT !.accepting = TRUE, !.gen = g]

\* Mutant: an admission that is not confirmed is taken for one that failed.
AdmitUnconfirmed(r) ==
    /\ At(r, "admit")
    /\ \/ Admitted(run[r].gen) /\ Report(r, "restored")
       \/ (Admitted(run[r].gen) \/ UNCHANGED factory) /\ Report(r, "left_drained")
    /\ UNCHANGED <<lock, nodeGen, vllm, mac, job, cont, late, cut>>

\* Admission under the generation of the lease, confirmed or not.
Admit(r) ==
    /\ At(r, "admit")
    /\ \/ Admitted(run[r].gen) /\ Report(r, "restored")
       \/ (Admitted(run[r].gen) \/ UNCHANGED factory) /\ ToRedrain(r)
    /\ UNCHANGED <<lock, nodeGen, vllm, mac, job, cont, late, cut>>

\* The drain is repeated.  When that fails as well nothing is reported.
Redrain(r) ==
    /\ At(r, "redrain")
    /\ \/ Drained /\ Report(r, "left_drained")
       \/ (Drained \/ UNCHANGED factory) /\ Goto(r, "unlock")
    /\ UNCHANGED <<lock, nodeGen, vllm, mac, job, cont, late, cut>>

\* What a process knew ends with it.
Over(r) ==
    /\ lock' = Free
    /\ run' = [run EXCEPT ![r] = [Fresh EXCEPT !.pc = "end"]]

Unlock(r) ==
    /\ At(r, "unlock")
    /\ Over(r)
    /\ job' = [job EXCEPT ![r] = [j \in Jobs |-> "done"]]
    /\ cut' = (cut \/ late[r] # {})
    /\ UNCHANGED <<production, cont, late>>

-----------------------------------------------------------------------------
(* execute_trial: the dispatcher.                                          *)

Launched(r) == {j \in Jobs : job[r][j] \notin {"queued", "recorded"}}

Launch(r, j) ==
    /\ At(r, "trial") /\ ~run[r].stop
    /\ JobAt(r, j, "queued")
    /\ Cardinality(Launched(r)) < run[r].level
    /\ Move(r, j, "create")
    /\ UNCHANGED <<lock, production, run, cont, late, cut>>

\* A finished thread is taken from the pool; running out of memory and a timeout
\* stop the trial.
Collect(r, j) ==
    /\ At(r, "trial") /\ JobAt(r, j, "done")
    /\ Move(r, j, "recorded")
    /\ \E stop \in {run[r].stop, TRUE} : run' = [run EXCEPT ![r].stop = stop]
    /\ UNCHANGED <<lock, production, cont, late, cut>>

\* A signal, or a guard: memory, temperature, swap, or telemetry that is missing.
Stop(r) ==
    /\ run[r].pc \in {"drain", "idle", "audit", "assets", "trial"} /\ ~run[r].stop
    /\ run' = [run EXCEPT ![r].stop = TRUE]
    /\ UNCHANGED <<lock, production, job, cont, late, cut>>

\* The telemetry collector or a write fails: the threads are stopped and joined,
\* and what they did is not recorded.
TrialFails(r) ==
    /\ At(r, "trial")
    /\ run' = [run EXCEPT ![r].pc = "failing", ![r].stop = TRUE]
    /\ UNCHANGED <<lock, production, job, cont, late, cut>>

Joined(r) == \A j \in Launched(r) : job[r][j] = "done"

FailedTrialEnds(r) ==
    /\ At(r, "failing") /\ Joined(r)
    /\ Goto(r, "exit")
    /\ UNCHANGED <<lock, production, job, cont, late, cut>>

\* Jobs that were not launched are recorded as cancelled.
TrialEnds(r) ==
    /\ At(r, "trial") /\ Launched(r) = {}
    /\ run[r].stop \/ \A j \in Jobs : job[r][j] = "recorded"
    /\ Goto(r, "exit")
    /\ UNCHANGED <<lock, production, job, cont, late, cut>>

-----------------------------------------------------------------------------
(* DockerRunner.run: one thread per job.  A thread lives with its process. *)

Alive(r) == run[r].pc \in {"trial", "failing", "exit", "admit", "redrain", "unlock"}
Unclean(r) == run' = [run EXCEPT ![r].clean = FALSE, ![r].stop = TRUE]

Create(r, j) ==
    /\ Alive(r) /\ JobAt(r, j, "create")
    /\ Move(r, j, "created")
    /\ cont' = [cont EXCEPT ![r][j] = "idle"]
    /\ UNCHANGED <<lock, production, run, late, cut>>

\* The create fails but a container of that name is found: it is removed.
CreateFound(r, j) ==
    /\ Alive(r) /\ JobAt(r, j, "create")
    /\ Move(r, j, "remove")
    /\ cont' = [cont EXCEPT ![r][j] = "idle"]
    /\ UNCHANGED <<lock, production, run, late, cut>>

\* None is found, although docker may still create it.
CreateLost(r, j) ==
    /\ Alive(r) /\ JobAt(r, j, "create")
    /\ Move(r, j, "done")
    /\ \E c \in {"none", "idle"} : cont' = [cont EXCEPT ![r][j] = c]
    /\ Unclean(r)
    /\ UNCHANGED <<lock, production, late, cut>>

SendStart(r, j) ==
    /\ Alive(r) /\ JobAt(r, j, "created")
    /\ Move(r, j, IF run[r].stop THEN "remove" ELSE "start")
    /\ UNCHANGED <<lock, production, run, cont, late, cut>>

\* docker runs the start, and the thread gets its answer or an error.  A start
\* that fails leaves the container as it was; one whose client timed out may
\* still be on its way.
Start(r, j) ==
    /\ Alive(r) /\ JobAt(r, j, "start")
    /\ \/ cont' = [cont EXCEPT ![r][j] = "running"] /\ Move(r, j, "running") /\ UNCHANGED late
       \/ cont' = [cont EXCEPT ![r][j] = "running"] /\ Move(r, j, "remove") /\ UNCHANGED late
       \/ UNCHANGED <<cont, late>> /\ Move(r, j, "remove")
       \/ late' = [late EXCEPT ![r] = @ \cup {j}] /\ Move(r, j, "remove") /\ UNCHANGED cont
    /\ UNCHANGED <<lock, production, run, cut>>

\* Such a start takes effect, whatever has become of its run, or never does.
LateStart(r, j) ==
    /\ j \in late[r]
    /\ late' = [late EXCEPT ![r] = @ \ {j}]
    /\ \E c \in {cont[r][j], "running"} : cont' = [cont EXCEPT ![r][j] = c]
    /\ UNCHANGED <<lock, production, run, job, cut>>

Exits(r, j) ==
    /\ cont[r][j] = "running"
    /\ cont' = [cont EXCEPT ![r][j] = "idle"]
    /\ UNCHANGED <<lock, production, run, job, late, cut>>

\* Mutant: a container that never exits is waited for without a limit.
PollForever(r, j) ==
    /\ Alive(r) /\ JobAt(r, j, "running")
    /\ cont[r][j] = "idle" \/ run[r].stop
    /\ Move(r, j, "remove")
    /\ UNCHANGED <<lock, production, run, cont, late, cut>>

\* The container has exited, the run is stopped, or the time is up: in each case
\* the container goes.
Poll(r, j) ==
    /\ Alive(r) /\ JobAt(r, j, "running")
    /\ Move(r, j, "remove")
    /\ UNCHANGED <<lock, production, run, cont, late, cut>>

\* A start still on its way finds no container after this.
Remove(r, j) ==
    /\ Alive(r) /\ JobAt(r, j, "remove")
    /\ cont' = [cont EXCEPT ![r][j] = "none"]
    /\ late' = [late EXCEPT ![r] = @ \ {j}]
    /\ Move(r, j, "done")
    /\ UNCHANGED <<lock, production, run, cut>>

\* rm fails, or the container is still there, or is another one by now.
RemoveFails(r, j) ==
    /\ Alive(r) /\ JobAt(r, j, "remove")
    /\ Move(r, j, "done")
    /\ Unclean(r)
    /\ UNCHANGED <<lock, production, cont, late, cut>>

-----------------------------------------------------------------------------
(* Deaths.                                                                 *)

\* SIGKILL frees the lock; containers and docker calls live on.  The calls do
\* not inherit the lock.
Kill(r) ==
    /\ run[r].pc \notin {"new", "end"}
    /\ Over(r)
    /\ job' = [job EXCEPT ![r] = [j \in Jobs |-> "done"]]
    /\ late' = [late EXCEPT ![r] = @ \cup {j \in Jobs : job[r][j] = "start"}]
    /\ cut' = (cut \/ late'[r] # {})
    /\ UNCHANGED <<production, cont>>

-----------------------------------------------------------------------------
(* Production: the factory and the Mac's controller.                       *)

bench == <<lock, run, job, cont, late, cut>>

Submit ==
    /\ factory.accepting /\ ~factory.busy
    /\ factory' = [factory EXCEPT !.busy = TRUE]
    /\ UNCHANGED <<nodeGen, vllm, mac, bench>>

Render ==
    /\ factory.busy
    /\ factory' = [factory EXCEPT !.busy = FALSE]
    /\ UNCHANGED <<nodeGen, vllm, mac, bench>>

\* Calls that change something take node.lock and give up when they cannot.
MacFence ==
    /\ mac = "idle" /\ nodeGen < Transitions
    /\ lock = Free
    /\ nodeGen' = nodeGen + 1
    /\ mac' = "fenced"
    /\ UNCHANGED <<factory, vllm, bench>>

MacDrain ==
    /\ mac = "fenced" /\ lock = Free
    /\ Drained
    /\ mac' = "drained"
    /\ UNCHANGED <<nodeGen, vllm, bench>>

MacStop ==
    /\ mac = "drained" /\ ~factory.busy /\ lock = Free
    /\ factory' = [factory EXCEPT !.up = FALSE]
    /\ vllm' = FALSE
    /\ mac' = "stopped"
    /\ UNCHANGED <<nodeGen, bench>>

\* verify_idle sees every running container with a GPU, whoever made it.
MacVerify ==
    /\ mac = "stopped" /\ GpuIdle
    /\ mac' = "verified"
    /\ UNCHANGED <<nodeGen, factory, vllm, bench>>

MacStart ==
    /\ mac = "verified" /\ lock = Free
    /\ \/ vllm' = TRUE /\ UNCHANGED factory
       \/ factory' = [up |-> TRUE, accepting |-> TRUE, gen |-> nodeGen, busy |-> FALSE]
          /\ UNCHANGED vllm
    /\ mac' = "idle"
    /\ UNCHANGED <<nodeGen, bench>>

\* A check refuses, a call gives up or the controller dies.
MacFails ==
    /\ mac # "idle"
    /\ mac' = "idle"
    /\ UNCHANGED <<nodeGen, factory, vllm, bench>>

Thread(r, j) ==
    \/ Create(r, j) \/ CreateFound(r, j) \/ CreateLost(r, j) \/ SendStart(r, j)
    \/ Start(r, j) \/ Poll(r, j) \/ Remove(r, j) \/ RemoveFails(r, j)

Dispatcher(r) ==
    \/ \E j \in Jobs : Launch(r, j) \/ Collect(r, j)
    \/ TrialEnds(r) \/ FailedTrialEnds(r)

Lease(r) ==
    \/ Acquire(r) \/ Check(r) \/ CheckFails(r) \/ Drain(r) \/ BecomesIdle(r)
    \/ WaitEnds(r) \/ HealthFails(r) \/ Audit(r) \/ Assets(r) \/ Leave(r)
    \/ SecondAuditFails(r) \/ Admit(r) \/ Redrain(r) \/ Unlock(r)

Next ==
    \/ \E r \in Runs :
         \/ Lease(r) \/ Dispatcher(r) \/ Stop(r) \/ TrialFails(r) \/ Kill(r)
         \/ \E j \in Jobs : Thread(r, j) \/ Exits(r, j) \/ LateStart(r, j)
    \/ Submit \/ Render
    \/ MacFence \/ MacDrain \/ MacStop \/ MacVerify \/ MacStart \/ MacFails

Spec == Init /\ [][Next]_vars

\* A process that has started goes on, with one of its threads or with its lease.
\* Production jobs may go on, containers need not exit, nobody has to send a signal.
Progress(r) ==
    \/ Lease(r) /\ ~At(r, "new")
    \/ Dispatcher(r)
    \/ \E j \in Jobs : Thread(r, j)

Fairness == \A r \in Runs : WF_vars(Progress(r))

FairSpec == Spec /\ Fairness

-----------------------------------------------------------------------------
(* Properties.                                                             *)

Users ==
    (IF vllm THEN {"vllm"} ELSE {}) \cup (IF factory.busy THEN {"factory"} ELSE {})
      \cup Running

\* The GPU is never shared by two of: a production render, a model of the Mac's
\* controller, the containers of one run.  Unless a run let the lock go while
\* docker still had one of its starts: it was killed, or the start timed out and
\* the removal of its container failed.  (NodeLease, and what it leaves to
\* verify_idle.)
GpuAlone == ~cut => Cardinality(Users) <= 1

\* A lease admits only what it drained itself, under the generation that it
\* drained and that node.json still has, and only when its containers are gone:
\* not what an earlier run or the Mac left drained.
ReadmitsItsOwn ==
    [][\A r \in Runs :
         At(r, "admit") /\ factory'.accepting /\ ~factory.accepting =>
           /\ run[r].drained
           /\ factory'.gen = nodeGen /\ lock = r
           /\ \A j \in Jobs : cont[r][j] = "none"]_vars

\* lease-restored.json says "left_drained" of a factory that the run was to
\* restore: until the lock is free it is drained, also when the reply to an
\* admission was lost.
LeftDrainedIsDrained ==
    \A r \in Runs :
      run[r].report = "left_drained" /\ run[r].restore => ~factory.accepting

\* The lock is held for a bounded time, whatever the factory's job, docker and
\* the containers do: every lease ends.
LeaseEnds == \A r \in Runs : lock = r ~> lock # r
=============================================================================

# TLA+ specifications of Spark Serve

Spark Serve runs on a Mac and manages two DGX Sparks over SSH: one workload at a
time, a served model on one or both Sparks, a pair of YuE render workers, or a
batch job. Nothing runs permanently on the Mac: every command is a process of its
own, and a Spark keeps only a lock file and one JSON file. What the system gets
right or wrong lies in how such short-lived processes, their delayed SSH commands
and their failures interact. These modules model that part of the code.

## Inventory

| Component | State | Operations | Hard because of |
|---|---|---|---|
| Node generation lock (`guarded_remote_script`, `docker_create_start_script`) | `node.lock`, `node.json` and the containers of each Spark | fence, run a script, create and start a container | commands that outlive their client, killed guards, reboots |
| Lifecycle controller (`Controller.switch`, `reconcile_unreachable`) | `controller.lock`, `controller.json`, `yue-workers.json` | switch to a model, YuE or nothing; status reconciliation | partial failure on one of two nodes, Ctrl-C and kill at any stage, late calls |
| Startup of a model (`_bring_up`, `_bring_up_nim`, `_StartupMonitor`, `wait_ready`) | container identities per rank, the loop's deadline | launch ranks, the NIM handshake, inspect, probe, gather logs | containers that exit or disappear between looks, lost replies, another server on the port |
| Reboot and power-off (`cmd_reboot`, `cmd_shutdown`, `wait_for_hosts`) | the failed or reported record, boot IDs | drain, issue `systemctl`, poll the hosts | an unfenced command that arrives after the lock is free, SSH outages |
| Benchmark leases (`spark_serve_benchmarks.py`) | a lease file and a file lock per run, the run's request threads | admit, check, post, release; revoke, await, remove | admission and transitions interleave with runs that end, die or sleep |
| Batch jobs (`cmd_batch_up`, `supervisor.py`) | `batch.json`, a copy of `controller.json` on the Spark, `state.json` | launch, run, restore, view, adopt | two controllers that share no lock, lost replies, kills |
| YuE experiments (`spark_bench`) | `node.lock` held by the run, its job threads and containers | lease, drain, audit, run a trial, admit again | containers that outlive their thread or their run, production beside it |
| Strix Halo pair (`spark_serve_strix.py`) | none on the Mac; an engine per box | up, stop, of one box or of the pair | read, decide, act without a common lock; calls that outlive their SSH |
| Metrics monitor, GPU telemetry | counters of the last poll | poll | counter resets |
| Plans, freshness, ranking, analysis, app, recipes | none of their own | validation, display, statistics | - |

Who calls whom: a lifecycle command takes `controller.lock`, revokes the benchmark
leases of its hosts, writes `controller.json`, and sends guarded commands to the
Sparks; a launch and a reboot run inside it. The YuE clients read
`yue-workers.json`. The status poll of the app reconciles failed records and looks
at the batch job. The batch supervisor runs the same lifecycle command on the
Spark, with a state directory of its own. A YuE experiment holds the same
`node.lock` that the guarded commands need. The Strix pair shares nothing with the
Sparks but the CLI.

## Modules

| Module | Models | Depends on |
|---|---|---|
| `FencedNode` | what a node promises: only the generation it records starts and removes workloads on it | - |
| `SharedSparks` | what the benchmark leases promise: a Spark belongs to one benchmark or to one transition | - |
| `HandedOver` | what a batch job promises: the Mac hands the Sparks over and gets them back with the books in order | - |
| `NodeFence` | how `node.lock`, `node.json` and the start helper keep that promise | implements `FencedNode` |
| `Controller` | transitions and reconciliation, with every remote call one step | relies on `FencedNode`, and its nodes keep that promise |
| `Startup` | the launch of a model inside a transition | a transition has drained the Sparks |
| `PowerCycle` | reboot and power-off inside a transition, against later ones | transitions of `Controller` condensed |
| `BenchLease` | benchmark runs against transitions | implements `SharedSparks`; transitions of `Controller` condensed |
| `BatchJob` | batch jobs, supervisor, restore and adoption | implements `HandedOver`; transitions of `Controller` condensed; its GPU keeps the promise of `FencedNode` |
| `YueBench` | YuE experiments beside the factory and the transitions of the Mac | transitions of `Controller` condensed; calls as atomic as `NodeFence` makes them |
| `StrixPair` | up and stop on the pair | - |
| `*_proofs` | the theorems about the module they name | extend it |
| `MC*` | instances for TLC: sets of cases and of symmetric values | the module they name |

### NodeFence

Commands have identities; `pc` says where the guard or its child is, `holders`
which processes have `node.lock` open. `SendFence`, `SendDrain` and `SendMutation`
keep what `switch` guarantees about the order of sending: drains go out whatever
the fences answered, removals and launches only after the node's fence did. The
file lock belongs to the open file description, so a child that inherits the
descriptor keeps the lock when its guard is killed (`KillGuard`). The generation
is a number although the code draws a UUID: transitions are numbered in the order
in which they take `controller.lock`, and the code compares for equality only.

`FencedNode` is the interface between the modules: `NodeFence` implements it with a
lock, a file and a re-check, and `Controller` and `BatchJob`, in which a remote call is
one step, change a node only as it allows (`RespectsFencedNode`). An abstract node may
have been managed before, and may run a model that predates that.

### Controller

`op` is the process that holds `controller.lock` with its local variables; its
`pc` names the stage of `switch`. A stage that calls the nodes visits its hosts
one after another (`todo`). `CallRuns`, `CallRefused`, `CallFails` and
`LaunchDies` are the outcomes of a call; `Raise` and `Cleanup` are the exception
handler; `Interrupt`, `UndoUnrevoked` and `Crash` are what may strike between.
A call that outlives its client waits in `late`; `LateRuns` applies it if
`node.json` still has its generation. `rec`, `disc` and `told` are
`controller.json`, `yue-workers.json` and what clients have read of it. A remote
call is atomic here; that is what `NodeFence` justifies.

The YuE factory is not in the repository. It is modelled from what the controller
asks of it and checks: it starts drained, accepts jobs only while admitted, and
reports its active job.

### Startup

`pc` follows the CLI from the first probe of the port to ready, launched or
failed. `known` is `monitor.containers`: the ranks whose identity came back. A
container of the launch moves through `box` on its own (`Stops`, `Removed`): it
has no restart policy, and one that is created under the same name has another
identity, which `Inspect` takes for missing. The parallel `docker inspect` of a
check reads its containers one by one in any order, and the world may change in
between. `StartFails` is a script that failed after it may have printed the
identity, `StartIsLost` a call that brought no identity back whatever it did.
`leftover` is another server that answers with the expected name. Interrupts and
the cleanup of a failed start are in `Controller`, to which a launch is one call
per rank.

### PowerCycle

`pc[c]` follows a command through `switch` and its `after_idle`. `Issue` is a
`systemctl --no-block` that the host has queued (`accepted`), `sent` one that
outlived its client. It is sent over plain SSH without the generation guard, so
`Arrives` has no guard either. `IssueUnheard` is the exit code 255 that a command
with a sudo password counts as issued, and `SeesOutage` the failed poll that
counts as a host that is down. Boot IDs are what `down` and `booted` say: a host
that comes back has another one.

### BenchLease

Each run has a main thread (`run`), request threads (`thread`), a file lock
(`held`), and a lease file (`lease`). The last check before a request and the
request itself are two steps. A transition reads, marks and awaits leases one by
one; the rest of it is one step that removes and one that records allocations.
`Interrupt` (a signal) and `OutputFails` (nobody reads the progress events) end the
collection of results and enter the pool's join; a signal during the join
(`InterruptJoin`) goes on to release the lock. `breaks` counts them.
`Deadline` and `Expire` are the monotonic and the wall clock.

`SharedSparks` says what this is for, without files, locks and clocks: a benchmark is
granted Sparks that nobody else has, posts to the allocation it was granted, and leaves
when its requests are answered; a transition changes whole allocations, and only Sparks
that nobody has.

### BatchJob

`cmd[c]` is a command on the Mac, `view[v]` one execution of `batch_view`, `sup`
the supervisor. `ctl` and `sctl` are the model each copy of `controller.json`
names and whether its last transition completed; `nodeGen`, `models` and `job`
are the Spark. The Spark of the job and its peer are fenced together and are one
GPU here. `batch stop` only makes the job end or be skipped, as its timeout does,
so `EndJob` and `CheckGpu` cover it. A batch command that fails after it has stopped
a model, be it that another command has the lock, restores it from the Mac
(`AfterFailure`, `Recover`); with nothing stopped it only cleans up.

Commands overlap, replies are lost and several views look at the job at a time, so
the two sides do not always take turns. `crossed` records that somebody has acted out
of turn, and `Crosses` says where the code lets that happen: `switch` never looks at
the record, a second launch is possible while another command is inside `switch`, and a slow
view writes over what another has closed.

`HandedOver` is the promise of ADR 0018 without record, guard, copies and generations.
One side at a time is the `keeper` that may start and remove models; the job runs
while the Spark keeps the GPU, and alone; `books` is the model that the Mac believes
it has, and when the Spark hands back it is brought up to date with whatever runs. In
`BatchJob` the keeper is the Spark from the launch until a view has adopted the result
(or has seen that there is none); after somebody acted out of turn it is "both", and
`Tangle` leaves nothing of the promise but one model at most.

### YueBench

`run[r]` is the process: `NodeLease.__enter__` from `check` to `audit`, the trial,
`__exit__` from `exit` to `unlock`; `restore` and `clean` are the two flags the
exit decides on, `report` what it wrote to `lease-restored.json`. `job[r][j]` is the
thread of a job inside `DockerRunner.run`, `cont[r][j]` its container. A docker call
that is killed or times out may still take effect: `CreateLost`, and for a start
`late` and `LateStart`, whatever has become of the run and its lock, unless the
container was removed first. The telemetry guards appear as `Stop`, `Collect` and `TrialFails`. A `Kill` frees
`node.lock`, which docker calls do not inherit, and leaves the containers. Of a
transition of the Mac what matters is where it needs the lock, that it waits for
the factory's job, and that `verify_idle` sees every container with a GPU.
`remote_run` holds `controller.lock` on the Mac while it lives; the run it
started can outlive it, and that worst case is the one modelled.

### StrixPair

`cmd[c]` is a command with what it has read of each box (`seen`) and the boxes it
still has to stop (`todo`, a cluster's master before its peer, `Comes`); `calls` are the halo-ctl calls under way. A box runs one
call at a time under its own lock, whoever sent it. `GiveUp` is an SSH call that
broke or timed out: halo-ctl goes on or never ran. `Masters` and `Role` are
`_pair`; `MisreadBox` is the probe in `_box` that fails to learn which model an
always-on service answers for. halo-ctl, its widget and the engines are outside
the repository and are modelled from what the CLI relies on.

## Checks

| Run | Instance | Shows |
|---|---|---|
| `NodeFence` | 4 commands, 2 transitions, 1 node, fair | the lock is held through effects and effects run under their own generation; starts and removals are ordered; the promise is kept; every command ends |
| `Controller` | 3 transitions, all targets, 2 faults of any kind, 2 late calls of any kind | what runs is recorded, one workload per node, no stranded rank and no half-recorded allocation, surviving renders |
| `Recovery` | 2 faulty transitions with 2 faults and 1 late call other than a fence, then one without faults, fair | a stop of both nodes with `--cancel-jobs` leaves both recorded idle; while one fault has struck, a worker that stops accepting is not listed |
| `Startup` | 4 shapes of a launch with and without `--no-wait`, up to 2 ranks, fair | ready means this launch with all its ranks; a failure carries the logs of every known container; a start ends |
| `PowerCycle` | 2 hosts, 2 commands of any kind, fair | a reported reboot was one; a reboot that was waited for spares later workloads; the lock is released |
| `BenchLease` | 2 runs of 1 thread on 2 Sparks, a served model, 1 more transition, any number of cancellations, 2 signals or failed outputs, no sleep, fair | exclusive leases, complete revocation, requests only for recorded allocations; the promise of `SharedSparks` is kept; a revoked run lets go |
| `BatchJob` | 2 overlapping commands (and the restores they start), lost replies, 2 views, 2 attempts, fair | never two models; the promise of `HandedOver` is kept until somebody acts out of turn, which includes that the job is alone and that the Mac knows the restored model; the supervisor finishes; a finished job's record is closed |
| `YueBench` | 2 runs of 2 jobs at level 1 or 2, 2 transitions of the Mac, fair | one user of the GPU; a lease admits only the factory that it drained itself, over no container of the run; a factory reported as left drained is drained; a lease ends |
| `StrixPair` | 2 boxes, 1 model of one box and 2 of the cluster, 2 commands, 1 use of the widget, 1 misread probe; no service, a service, a pinned master | an undisturbed command keeps the pair consistent and does what it reports; services are left alone |

Runs that end in a violation show a disagreement between the code and its own
words; `PROJECT.json` quotes them:

| Run | What happens |
|---|---|
| `Asleep` | a lease expires by the wall clock while its run's monotonic deadline sleeps with the Mac; two benchmarks share a Spark |
| `LostReply` | a model was stopped and the launch succeeded, but its reply was lost; the Mac restores the model beside the supervisor |
| `Overtaken` | a command passes `batch_guard`, then a batch job is launched and recorded, then the command begins its transition |

Every property of a passing run has a mutant: a plausible mistake in one mapped
definition (a dropped check, an off-by-one, a swapped order) that makes TLC find
the property violated. The mutants stand in the modules, before the definition
they replace, and are marked as such.

### What the properties do not claim

The properties are limited where the code does not promise more. Each limit is a
premise or a constant, and a hazard in `PROJECT.json` names its line:

* A delayed fence takes `node.json` back to an older generation, and lingering
  drains of that transition then run. So `MutationsAreOrdered` is about starts and
  removals, of which an older generation has none left.
* Late calls of a failed transition may reach a host that `reconcile_unreachable`
  has cleared; they still need its generation.
* YuE records become ready before the list is published. After an interrupt and a
  kill, a transition of the peer rebuilds the list from such records and lists a
  worker that no longer accepts: `OneFaultDrainsUnlisted` is about one fault.
* A signal during the join of the request threads ends it, be it the second signal or
  the first after a failed output, and the lease lock is released over one of the
  threads: `RequestsMeetTheirAllocation` and `ReleasedOnceMeansQuiet` are limited to
  runs that met one such accident at most, and `ImplementsSharedSparks` counts the
  requests of such runs.
* A command that has passed `batch_guard` may begin its transition after the job was
  launched or recorded (`Overtaken`), and a slow view overwrites the Mac's
  `controller.json` with the older restore or reopens the record. From then on
  (`crossed`) `ImplementsHandedOver` promises one model at most and no more: a job may
  share its GPU with the model of that command.
* A leftover server that missed the first probe may be taken for the model
  (`missed` in `ReadyIsReal`), and a launch whose reply was lost has no identity
  whose logs could be saved (`printed`, not `box`, in `FailureIsEvidenced`).
* `systemctl` is unfenced: a reboot that was not waited for, failed or was killed
  may take down a later workload; `wait_for_hosts` takes an SSH outage for a host
  that is down, and exit code 255 for an issued call.
* A YuE run that lets its lock go with a `docker start` on its way leaves a container
  that starts later beside anything (`cut` in `GpuAlone`). It was killed, or the client
  of the start timed out and the removal of the container failed.
* Two Strix commands at the same time, or a command and a widget, can break the
  pair's rule (`lone`, `sane`); ADR 0013 accepts the widget. After any use of a widget
  nothing is claimed of pinned boxes (`acts` in `PinnedLeftAlone`); a probe that misses the name of a service makes its
  box count as a cluster master (`missed` in `PinnedLeftAlone`).

### Bounds

* Transitions, commands, runs: `MaxGeneration`, `MaxTransitions`, `Transitions`,
  `Commands`, `Runs`. Interference needs an older and a newer transition and, for
  late calls, one whose fence is overtaken: three suffice for `Controller`.
  `NodeFence` needs two fences, a start or removal and a drain to interfere on one
  node; for its safety properties the proofs remove the bound. `BenchLease` begins
  after the first transition, on one Spark (either, they are alike) or both. In
  `PowerCycle` and `StrixPair` one command disturbs the other. `YueBench` has two runs
  that contend for the lock and two transitions, so that one may begin before a lease
  and one after it. The proofs remove these bounds for the safety properties of
  every module.
* `Nodes`: `NodeFence` has one; nodes share only the number of the current
  transition. The proofs cover any number.
* `Launches`: one rank; two ranks with one or two readiness URLs; a NIM with its
  handshake. The code has no launch of more than two ranks; the proofs allow it.
* `Jobs` and `Levels`: two jobs are run in parallel at level 2 and one after the
  other at level 1.
* `MaxFaults`, `FaultyUntil`, `MaxLate`: faults are independent of the stage, so
  each bound is a number of accidents and not a choice of where they strike. Two
  faults cover a failure during the cleanup of a failure; the safety
  properties of `Controller` and `StrixPair` are proved for any number. `WidgetActs` and
  `Misreads` are numbers of accidents as well; one of each is what the limits of
  the properties are about.
* `LateActs`: `Recovery` leaves the late fence out. A fence that arrives late makes
  the running transition stale, which is safe but is a second accident, and the
  recovery claim is about an undisturbed stop.
* `Attempts` is 3 in the code; 2 already has a first, a repeated and a last one.
* `Commands` and `Views` of `BatchJob`: a batch command and one that overtakes it, two
  looks at the job. Each batch command that fails adds an `up` of its own.
* `MaxBreaks`: two are enough to break into the join of a run; one in each run is not.
* `MacSleeps` separates what the code guarantees from what `Asleep` shows; `BenchLease`
  excludes the sleep.
* Symmetry is used by runs without liveness only: commands and views of
  `LostReply` and `Overtaken`, commands and cluster models of `StrixPair`.

`CHECK_DEADLOCK FALSE` is set in all cfgs but those of `BenchLease`: when the bounded number
of transitions, commands or leases has been used up, or the one start has ended,
the system rests. `BenchLease` can always be interrupted by a cancellation and is
checked for deadlock.

### Fairness

* `NodeFence`: the guard polls with a deadline of 30 seconds, and the scripts are
  finite docker and systemctl calls. So a command's own steps are weakly fair;
  failures, kills and new transitions are not.
* `Controller`: only the steps of the process that holds the lock are weakly
  fair: each remote call has a timeout (`ssh_cmd`), each wait a deadline. Late
  calls, jobs and users owe nothing.
* `Startup`: the CLI's own steps, whose SSH calls have timeouts, and the deadline
  of its loops. Containers, the handshake and the server owe nothing.
* `PowerCycle`: the steps of each command, for the same reason. Hosts need not go
  down or boot.
* `BenchLease`: a request has a socket timeout and a watcher, and the pool's join
  returns once its threads are idle. Nothing else is fair.
* `BatchJob`: commands and the supervisor proceed, since their calls, the job and
  each attempt have timeouts; the app polls the status, and the Spark is
  reachable again and again (strong fairness of `ReadState`, which a failed read
  disables for a moment).
* `YueBench`: a process that has started goes on, with one of its threads or with
  its lease: docker calls have timeouts, the wait for the factory and each job a
  deadline. The factory's `Worker` is imported and called in the run's own process, so
  that its health, drain and admission return is assumed of that class, which is
  outside the repository and works with docker as well. Production renders, containers and signals owe nothing.
* `StrixPair`: none; its properties are about safety.

## Proofs

| Theorem | Property |
|---|---|
| `NodeFence_proofs`: `TypeCorrect` | `TypeOK` |
| `EffectsLockedAndFenced` (with `LockHeld`, `EffectsFenced`) | `EffectsAreFenced` |
| `FenceWaits` | that `node.json` does not change under a script (`FenceWaitsForScripts`, in no run) |
| `MutationsOrdered` | `MutationsAreOrdered` |
| `Refinement` | `ImplementsFencedNode` |
| `Startup_proofs`: `TypeCorrect` | `TypeOK` |
| `ReadyReal` | `ReadyIsReal` |
| `FailureEvidenced` | `FailureIsEvidenced` |
| `PowerCycle_proofs`: `TypeCorrect` | `TypeOK` |
| `ReportedDone` | `ReportedMeansDone` |
| `RebootSpares` | `RebootSparesWorkloads` |
| `Controller_proofs`: `TypeCorrect` | `TypeOK` |
| `RunningRecorded` | `RunningIsRecorded` |
| `OneWorkload` | `OneWorkloadPerNode` |
| `AllocationsWhole` | `AllocationsStayWhole` |
| `JobsGoOn` | `JobsSurvive` |
| `DrainedUnlisted` | `OneFaultDrainsUnlisted` |
| `NodesAreFenced` | `RespectsFencedNode`, in no run |
| `BenchLease_proofs`: `TypeCorrect` | `TypeOK` |
| `RevocationComplete` | `RevocationIsComplete` |
| `RequestsMeet` | `RequestsMeetTheirAllocation` |
| `ReleasedQuiet` | `ReleasedOnceMeansQuiet`, in no run (the implementation of `SharedSparks` rests on it) |
| `OneBenchmark` (if the Mac does not sleep) | `OneBenchmarkPerHost` |
| `LeasesShare` (if the Mac does not sleep) | `ImplementsSharedSparks` |
| `YueBench_proofs`: `TypeCorrect` | `TypeOK` |
| `GpuIsAlone` | `GpuAlone` |
| `ReadmitsOwn` | `ReadmitsItsOwn` |
| `LeftDrained` | `LeftDrainedIsDrained` |
| `BatchJob_proofs`: `TypeCorrect` | `TypeOK` |
| `OneModelAtATime` | `OneModel` |
| `GpuIsFenced` | `RespectsFencedNode`, in no run |
| `JobIsAlone` | `JobAlone`, in no run (`ImplementsHandedOver` includes it) |
| `OwnerIsKnown` | `MacKnowsOwner`, in no run (likewise) |
| `JobIsHandedOver` | `ImplementsHandedOver` |
| `StrixPair_proofs`: `TypeCorrect` | `TypeOK` |
| `ClusterAlone` | `PairStaysConsistent` |
| `SuccessMeansDone` | `SuccessIsDelivered` |
| `ServicesLeftAlone` | `PinnedLeftAlone` |

### NodeFence

For every non-empty set of nodes, every set of commands and every bound on the
transitions. The assumptions are `NodesAssumption` and `MaxGenerationAssumption`.

*Ownership.* `LockHeldThroughEffects` and `EffectsUnderOwnGeneration` are not
inductive one by one. `OwnerInv` strengthens the first: a command that has passed
`flock` holds the descriptor itself, as the guard before the child exists and as
the child afterwards, and nobody else does. So only the command that holds the lock
can write `node.json`, and then no script is under way: the second is preserved,
and `LockHeld`, `EffectsFenced` and `FenceWaits` follow.

*Order.* Under its own generation does not mean under the newest one, since a late
fence may restore an old generation. `OrderInv` adds what has been sent (one fence
per node and transition, and nothing before it), what is recorded (never more than
the newest, never the current one before its fence was sent), what a pending fence
implies (its generation has not run anything on that node, in particular no start
and no removal was sent for it), and that a start or removal which `node.json` still
matches was not overtaken. The last is `MutationsAreOrdered` without its premise
that the script is already running, and needs the other three: writing an old fence
could revive an old start only if that start had been sent before its fence was
answered.

*Refinement.* `owner` is `node.json`, `serving` the generations of the running
containers. `CreatorInv` says that every container belongs to a command that was
sent, so that its generation can no longer change; with `OwnerInv` each step of
`NodeFence` is a step of `FencedNode` or a stutter.

### Controller

For the two Sparks, all workloads, and any numbers of transitions, faults and late
calls, of any kinds. The assumptions are `HostsAssumption`, `TargetsAssumption`,
`FaultsAssumption` and `BoundsAssumption`; nothing is assumed about which fault
strikes where. `ControlInv` has four parts:

* `StagedOp`: what the local variables of `switch` agree on at each stage, for
  instance that an undo only ever drains, stops and unloads, and that no error has
  been noted past the drain of a transition that goes on.
* `LateKnown`: a call outlives its client only in a transition that then fails. So
  while nothing has gone wrong, no late call has the generation of the running
  transition, and none can touch a node that this transition has fenced. A fence
  and a start of one generation are never late together, since starts are sent
  after the fences were answered: a late fence revives no late start.
* `Claimed`: what is known at each stage. The nodes are empty from `verify_idle` to the
  save that releases them, and while a launch or an admission is under way the
  records name it.
* `Served`: `RunningIsRecorded` and `OneWorkloadPerNode`, and `LateRight`, which says
  the same of a late start that its node would still accept.

`LateRight` is why the properties are not inductive by themselves: a launch that
arrives long after its transition failed is safe only because the failed
transition leaves its claim in the records, and each later transition fences the
node before it empties it.

`AllocationsWhole` adds `AllocInv`: the records of an allocation agree (`Whole`), a
transition of one node has passed `_check_scope` and so splits none (`Unsplit`),
and a model that predates the state keeps its containers on both nodes, until a
transition of both has marked their records (`OldKept`). The last is what
`_check_scope` relies on when it inspects only the containers of its own node.

*Jobs.* `JobsInv` says why a call that would end a render finds none. A transition
stops a factory only after it has seen it drained (`Seen`) and idle but for `Busy`;
from then on the node is `Closed` under its generation: the factory accepts nothing,
or has been admitted by a generation that clients have not been told of
(`ToldWhole`). `HostsShut` says so of the hosts of the running transition,
`CallsShut` of the stops and restarts that it left behind. What could reopen a closed
node is a second fence of its generation or a late admission: a fence reaches each
node once (`FencesOnce`), and a late stop, restart or admission belongs to a
transition that does not come so far as to tell its generation (`LateEnded`).

*The list.* `ListInv` is about one accident. `OneLate`: every call that outlives its
client has cost a fault, so at most one is late, and it was sent by a transition that
then failed. `Unlisted` and `NotReady` follow the running transition: outside the
stages of `Listing` and `Serving` its hosts are not listed and not ready, so that no
transition of the peer can list them from their records. `LateUnlisted` says the same
of the host of a late drain, stop or restart for as long as that call may still run,
and `TurnOver` that a transition in good order has fenced such a call off.

*The nodes.* `NodesAreFenced` shows that all of this stays within what `NodeFence`
provides: `owner` is `node.json`, `serving` the generations of the running containers
and of the admitted factory. The one step that could break the promise is an admission
over an admission, which would drop a generation that the node still serves; by
`Claimed` and `LateRight` it has the generation that the factory is already admitted
under. `LateNames` adds that only removals name containers.

### Startup

For every set of ranks and launches, under `LaunchAssumption` (the head and the rank
that is started first are ranks of the model).

*Ready.* `ReadyInv` adds three facts to the types. `AllKnown`: once no rank is left
to start and nothing has failed, every rank is known. `LeftoverMissed`: past the first
probe another server can only answer if that probe missed it. `LastCheck`: in the
final check, a rank that was not running at the probe and has been inspected makes
`bad` true, since a container that stopped or was removed does not come back. A
start that becomes ready has inspected all known ranks and found none bad.

*Evidence.* `EvidenceInv` says that the identities that were printed are known, and
that while logs are gathered every known rank is in the evidence or still to be read.

### PowerCycle

For every set of hosts and commands, under `PowerAssumption` (the value for nobody
is not a command).

*Reports.* `HostsFollowed` relates the loop of the holder to the hosts: a host that
it no longer waits for, and did not misjudge, has gone down since systemctl was
issued to it, or has come up again in the second loop. Hosts that are off without
that cannot exist when the loop begins, because `Drain` talked to all of them.

*Sparing.* `OffMeansEmpty`: a host that is off runs nothing and has nothing queued.
`IssuedMeansIdle`: while a holder issues and waits, the hosts serve nothing, so no
workload can be hit by its own reboot. `QueuedIsAwaited`: a queued or travelling
call belongs to a command that is still in its loop, that did not wait for it, that
failed or was killed, or that misjudged the host.

### BenchLease

For every set of Sparks, runs and threads and every number of transitions, signals and
failed outputs. `LeaseInv` has two parts besides the types and the properties.
`RunsAreWhole` ties what a run's main thread believes to its lock, its lease file and
its request threads: a live run holds its lock, who holds a lock has a lease file, and
a run that let go after at most one signal or failed output has no request left: such
a run is still in its join, which waits for its threads. `LeasesAreKnown` is
about the transition's loop: every lease of its hosts that is left is one that it has
yet to read, to mark or to await; an admission cannot add one, since it takes
`controller.lock`. `OneBenchmarkPerHost` needs the premise
`~MacSleeps`: the finding of `Asleep` is what happens without it.

*Refinement.* The grant of a run is its scope while it holds its lease lock, the runs
with a request and at most one signal or failed output are posting, and the Sparks of a transition are
changing between its removal and its record. `AllocationsAreWhole` says that the Sparks
of an allocation carry the same record and that a transition never takes a part of one.
`Admit` needs that nobody else has the Sparks, which is `OneBenchmarkPerHost` with its
premise; `Leave` that the run is quiet, which is `ReleasedOnceMeansQuiet`; `Change` that
nobody has them, which is `RevocationIsComplete`.

### YueBench

For every set of runs and jobs, all levels and any number of transitions, under
`YueBenchAssumption`. `YueInv` has these parts besides the types:

* `LeaseIsKept`: from its check to its exit a run relies on a generation that cannot
  change, since fences need the lock, and on a factory that stays drained; and a
  transition of the Mac that is past its drain has found no lease and left none to begin.
* `DrainIsOwn`: a run that is about to drain the factory has found it accepting, and one
  that would admit it later has closed it itself, unless it is open still because the
  drain failed: nobody else closes it while the run has the lock.
* `GpuIsKept` says for every stage who may be on the GPU: a run past its audit and a
  transition past `verify_idle` have it for themselves.
* `ThreadsBelong`, `LatesBelong` and `CleanIsTrue` say that a run which still counts as
  clean has no container and no start on its way that its threads do not know of; a late
  start of a run that let go means `cut`.

`GpuAlone`, `ReadmitsItsOwn` and `LeftDrainedIsDrained` follow. The last rests on the
order in `Redrain`: the report is written after the drain, under the lock.

### BatchJob

For every set of commands and views and every number of attempts, under
`AttemptsAssumption` and `CommandsAssumption`. No theorem excludes overlapping
commands, lost replies or concurrent views.

*One model.* `Drawn`: generations are drawn under the Mac's lock, never exceed the
last one, and a command's is not the supervisor's. `Alone`: whoever is about to start
a model while the Spark records its generation finds none there. So the two
controllers, which share no lock, exclude each other by the generation alone.
`GpuIsFenced` shows in addition that the two together treat the Spark as one fenced node.

*Turns.* `crossed \/ InTurn` is invariant: as long as nobody has acted out of turn,
everything is in order, and `crossed` is never taken back (`CrossedStep`). `InTurn` has
four parts. `Ordered`: between the launch and the closed record no command is inside
`switch`, and a view that is about to adopt has the copy as the restore left it. `Exclusive`: whoever is
about to start a model has seen the end of the job. `Owns` and `Named`: which copy of
`controller.json` names the running model, the Mac's, then the Spark's while the restore
owns it, then, once a view has adopted it, the Mac's again. `JobAlone` and
`MacKnowsOwner` follow. The steps that cross are those of `Crosses`, and every other
step preserves `InTurn`.

*Refinement.* In turn, each release and start falls to the side that keeps the GPU,
which it finds empty by `Alone` and `Owns` and without a job by `Exclusive`; `HandBack`
needs that the adopted copy names whatever runs, which is `Named` after the step. Out of
turn every step is a `Tangle` or a stutter, because one model is all there is.

### StrixPair

For all models, tables and commands and any numbers of widget uses and misread probes,
under `PairAssumption` (two boxes, models of one box and of the cluster apart). The
invariant `PairInv` has three parts besides the types and the consistency of the pair.

* What never depends on luck: a command has one call at most, nothing is started on a
  pinned box (`CallsKnown`), each stage is about an up or a stop (`StagesKnown`), and a
  pinned box runs nothing until its widget is used, and is not reported to run anything
  until a probe misses its service (`PinnedEmpty`). `PinnedLeftAlone` follows, with
  `CallsUnpinned`: a stop leaves out pinned boxes.
* While nothing comes in between (`lone`): there is one command and its call
  (`OneCommand`), what it has read can only have become less (`SeenCurrent`), the peer
  is free once the cluster may start (`PeerFreed`), and every box of a stop is still to
  be stopped, being stopped, passed over with an error, or stopped (`StopSettles`).
* Of the calls themselves (`CallsSafe`): from a consistent pair, a call may run at any
  later moment. This is why cutting a command off is harmless, and it is what makes
  `PairStaysConsistent` inductive.

### Only model-checked

Liveness (`EveryCommandEnds`, `StopReleases`, `StartupEnds`, `LockIsReleased`,
`RevokedRunEnds`, `RestoreEnds`, `BatchIsClosed`, `LeaseEnds`) is out of the prover's
reach. Every invariant and every action property of a passing run is proved.

## Not modelled

* The metrics monitor and GPU telemetry: a sampler that rewrites its file whole and
  has no peer to agree with.
* Benchmark analysis and provenance, NIM and TensorFold plans, freshness, ranking and
  the app: validation, parsing, statistics and display, without a protocol.
* The recipes: most lines of the repository are patches of model runners, vendored
  overlays and acceptance scripts that run inside containers. They hold no
  state that Spark Serve coordinates. The batch supervisor is modelled.
* Of modelled components: the lazy adoption of a version-0 `controller.json`
  (`Controller` starts without a file or with a distributed model that predates it);
  `drop_caches`; uploads, downloads and result files of batch jobs and experiments;
  the schedule of several trials; `bench`, `use` and the poll's backoff of Strix.

`PROJECT.json` gives the reason for each component.

## Plan

1. *Written:* the modules of the table above, the implementations of `FencedNode`,
   `SharedSparks` and `HandedOver`, and the proofs of every safety property that a run checks.
2. *Next:* an abstract specification of a YuE experiment (the GPU is borrowed from the
   factory and returned) with `YueBench` as its implementation.
3. *Then:* the pure helpers (`join_errors` with `unreachable_only`,
   `previous_allocation`, `placement`) against reference definitions.

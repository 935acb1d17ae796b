------------------------------ MODULE BatchJob ------------------------------
(***************************************************************************)
(* Batch jobs with a Spark-side restore, ADR 0018: cmd_batch_up, the guard *)
(* of the other commands and the adoption of the restore (spark-serve),    *)
(* and the detached supervisor (recipes/batch/supervisor.py).              *)
(*                                                                         *)
(* Two controllers take turns at the same GPU: the Mac's, with the lock    *)
(* and the controller.json of its state directory, and the one the         *)
(* supervisor starts for the restore, on a copy of that file.  Only the    *)
(* generation in node.json is common to both.  A transition is its fence,  *)
(* its release (remove the containers, verify that the GPU is idle, record *)
(* that) and its start; Controller has every stage.  The job's Spark and   *)
(* its peer are fenced together and count as one GPU.  One batch job.      *)
(***************************************************************************)
EXTENDS Naturals, FiniteSets

CONSTANTS Commands,  \* commands entered on the Mac: up, stop, a batch up
          Views,     \* the status commands that look at the batch job
          Attempts   \* how often the supervisor tries to restore

ASSUME AttemptsAssumption == Attempts \in Nat \ {0}
ASSUME CommandsAssumption == "unlocked" \notin Commands

VARIABLES
    lock,    \* the command that holds the Mac's controller.lock
    cmd,     \* cmd[c]: a command on the Mac
    view,    \* view[v]: a look at the job
    record,  \* the Mac's batch record
    ctl,     \* the model in the Mac's controller.json
    sctl,    \* the model in the copy on the Spark
    sup,     \* the supervisor
    nodeGen, \* the generation in node.json
    models,  \* the generations of the running models
    job,     \* is the job's process running?
    last,    \* the number of generations drawn
    crossed  \* has anybody acted out of turn?  (history, see Crosses)

vars == <<lock, cmd, view, record, ctl, sctl, sup, nodeGen, models, job, last, crossed>>
spark == <<sctl, sup, nodeGen, models, job>>

None == 0
Gens == Nat
Unlocked == "unlocked"

\* The generation of the model that controller.json records, and whether the
\* last transition completed: phase ready or stopped.
Allocations == [gen : Gens, settled : BOOLEAN]
Empty == [gen |-> None, settled |-> TRUE]

Active == {"starting", "checked", "running", "restoring", "fenced", "released"}

Labels == {"new", "guard", "preflight", "lock", "fence", "release", "start", "launch",
           "record", "recover", "end"}
Processes == [kind : {"up", "stop", "batch"}, gen : Gens, prev : BOOLEAN, pc : Labels]
Looks == [pc : {"load", "read", "fetch", "adopt", "save"}, got : Allocations,
          closed : BOOLEAN]
Supervisors == [pc : Active \cup {"none", "finished", "dead"}, gen : Gens,
                tries : 0..Attempts, restore : BOOLEAN]

TypeOK ==
    /\ lock \in Commands \cup {Unlocked}
    /\ cmd \in [Commands -> Processes]
    /\ view \in [Views -> Looks]
    /\ record \in {"none", "open", "closed"}
    /\ ctl \in Allocations /\ sctl \in Allocations
    /\ sup \in Supervisors
    /\ nodeGen \in Gens
    /\ models \subseteq Gens
    /\ job \in BOOLEAN
    /\ last \in Gens
    /\ crossed \in BOOLEAN

\* A model is ready, or the Sparks are idle.
Init ==
    /\ lock = Unlocked
    /\ cmd = [c \in Commands |-> [kind |-> "stop", gen |-> None, prev |-> FALSE,
                                  pc |-> "new"]]
    /\ view = [v \in Views |-> [pc |-> "load", got |-> Empty, closed |-> FALSE]]
    /\ record = "none"
    /\ ctl \in {Empty, [gen |-> 1, settled |-> TRUE]}
    /\ sctl = Empty
    /\ sup = [pc |-> "none", gen |-> None, tries |-> 0, restore |-> FALSE]
    /\ nodeGen = 1
    /\ models = {ctl.gen} \ {None}
    /\ job = FALSE
    /\ last = 1
    /\ crossed = FALSE

-----------------------------------------------------------------------------
(* The commands on the Mac.                                                *)

At(c, pc) == cmd[c].pc = pc
Goto(c, pc) == cmd' = [cmd EXCEPT ![c].pc = pc]
Unlock(c) == lock' = IF lock = c THEN Unlocked ELSE lock

\* What batch_guard, the record and the Mac's lock leave open.  A command that
\* passed its guard earlier begins its transition beside a job that has no closed
\* record, or is inside it when the job is launched; a slow view writes over what
\* another has closed, with the restore's old state or the record it loaded.
Crosses(out) == crossed' = (crossed \/ out)

\* The user; one batch job is enough.
Enter(c) ==
    /\ At(c, "new")
    /\ \E kind \in {"up", "stop", "batch"} :
         /\ kind = "batch" => \A d \in Commands : cmd[d].kind # "batch"
         /\ cmd' = [cmd EXCEPT ![c].kind = kind, ![c].pc = "guard"]
    /\ UNCHANGED <<lock, view, record, ctl, spark, last, crossed>>

AfterGuard(c) == IF cmd[c].kind = "batch" THEN "preflight" ELSE "lock"

\* batch_guard, and for a batch job previous_allocation, which refuses a model
\* whose transition is under way or failed.  An open record refuses: the look
\* at the job that batch_guard takes first is one of the views.
Guard(c) ==
    /\ At(c, "guard")
    /\ cmd' = [cmd EXCEPT
         ![c].pc = IF \/ record = "open"
                      \/ cmd[c].kind = "batch" /\ ctl.gen # None /\ ~ctl.settled
                   THEN "end" ELSE AfterGuard(c),
         ![c].prev = ctl.gen # None]
    /\ UNCHANGED <<lock, view, record, ctl, spark, last, crossed>>

\* Upload and preflight_script: no supervisor runs on the Spark.
Preflight(c) ==
    /\ At(c, "preflight")
    /\ Goto(c, IF sup.pc \in Active THEN "end"
               ELSE IF cmd[c].prev THEN "lock" ELSE "launch")
    /\ UNCHANGED <<lock, view, record, ctl, spark, last, crossed>>

\* Controller.switch takes the lock, draws its generation and marks the Sparks as
\* draining.  It never looks at the batch record.
Lock(c) ==
    /\ At(c, "lock")
    /\ lock = Unlocked
    /\ lock' = c /\ last' = last + 1
    /\ ctl' = [ctl EXCEPT !.settled = FALSE]
    /\ cmd' = [cmd EXCEPT ![c].pc = "fence", ![c].gen = last + 1]
    /\ Crosses(sup.pc # "none" /\ record # "closed")
    /\ UNCHANGED <<view, record, spark>>

Fence(c) ==
    /\ At(c, "fence")
    /\ nodeGen' = cmd[c].gen
    /\ Goto(c, "release")
    /\ UNCHANGED <<lock, view, record, ctl, sctl, sup, models, job, last, crossed>>

After(c) == [up |-> "start", stop |-> "end", batch |-> "launch"][cmd[c].kind]

\* A batch up that failed after it set stopped; before that, or with nothing to
\* bring back, it only cleans up.
AfterFailure(c) == IF cmd[c].kind = "batch" /\ cmd[c].prev THEN "recover" ELSE "end"

\* Remove the containers, see the GPU idle, record it.
ReleaseGpu(c) ==
    /\ At(c, "release")
    /\ nodeGen = cmd[c].gen
    /\ models' = {}
    /\ IF job THEN Goto(c, AfterFailure(c)) /\ Unlock(c) /\ UNCHANGED ctl
       ELSE /\ ctl' = Empty
            /\ Goto(c, After(c))
            /\ IF cmd[c].kind = "up" THEN UNCHANGED lock ELSE Unlock(c)
    /\ UNCHANGED <<view, record, sctl, sup, nodeGen, job, last, crossed>>

\* Claim the Sparks, start the model and find it ready.
StartModel(c) ==
    /\ At(c, "start")
    /\ nodeGen = cmd[c].gen
    /\ models' = models \cup {cmd[c].gen}
    /\ ctl' = [gen |-> cmd[c].gen, settled |-> TRUE]
    /\ Goto(c, "end") /\ Unlock(c)
    /\ UNCHANGED <<view, record, sctl, sup, nodeGen, job, last, crossed>>

\* What a start that failed leaves behind: claimed Sparks, and the model if its
\* container did start and the clean-up could not remove it.
Stranded(gen, before) ==
    LET claimed == [gen |-> gen, settled |-> FALSE]
    IN  {[ctl |-> before, models |-> models], [ctl |-> claimed, models |-> models]}
          \cup {[ctl |-> claimed, models |-> models \cup {g}] : g \in {nodeGen} \cap {gen}}

\* The lock is taken, or a remote call fails or is stale.
SwitchFails(c) ==
    /\ cmd[c].pc \in {"lock", "fence", "release", "start"}
    /\ IF At(c, "start")
         THEN \E left \in Stranded(cmd[c].gen, ctl) :
                ctl' = left.ctl /\ models' = left.models
         ELSE UNCHANGED <<ctl, models>>
    /\ Goto(c, AfterFailure(c))
    /\ Unlock(c)
    /\ UNCHANGED <<view, record, sctl, sup, nodeGen, job, last, crossed>>

\* launch_script: seed the copy of controller.json and start the supervisor.  The
\* reply may be lost; the clean-up then removes the job's directory if the
\* supervisor has no state.json there yet, and it dies (SupervisorDies).
Launch(c) ==
    /\ At(c, "launch")
    /\ sup' = [pc |-> "starting", gen |-> None, tries |-> 0, restore |-> cmd[c].prev]
    /\ sctl' = ctl
    /\ Goto(c, "record") \/ Goto(c, AfterFailure(c))
    /\ Crosses(lock # Unlocked \/ sup.pc # "none")
    /\ UNCHANGED <<lock, view, record, ctl, nodeGen, models, job, last>>

\* "the job supervisor did not start"
LaunchFails(c) ==
    /\ At(c, "launch")
    /\ Goto(c, AfterFailure(c))
    /\ UNCHANGED <<lock, view, record, ctl, spark, last, crossed>>

SaveRecord(c) ==
    /\ At(c, "record")
    /\ record' = "open"
    /\ Goto(c, "end")
    /\ UNCHANGED <<lock, view, ctl, spark, last, crossed>>

\* _restore_from_mac: an ordinary up of the previous model.
Recover(c) ==
    /\ At(c, "recover")
    /\ cmd' = [cmd EXCEPT ![c].kind = "up", ![c].pc = "guard"]
    /\ UNCHANGED <<lock, view, record, ctl, spark, last, crossed>>

\* The command is killed, or the Mac goes down.
CommandDies(c) ==
    /\ cmd[c].pc \notin {"new", "end"}
    /\ Goto(c, "end") /\ Unlock(c)
    /\ UNCHANGED <<view, record, ctl, spark, last, crossed>>

-----------------------------------------------------------------------------
(* batch_view and _adopt_restore.                                          *)

Load(v) ==
    /\ view[v].pc = "load" /\ record = "open"
    /\ view' = [view EXCEPT ![v] = [pc |-> "read", got |-> Empty, closed |-> FALSE]]
    /\ UNCHANGED <<lock, cmd, record, ctl, spark, last, crossed>>

\* Mutant: a restore that left nothing running is not final.
ReadStateOk(v) ==
    /\ view[v].pc = "read"
    /\ view' = [view EXCEPT
         ![v].pc = IF sup.pc = "finished" /\ sup.restore /\ sctl.gen # None
                   THEN "fetch" ELSE "save",
         ![v].closed = sup.pc = "finished" /\ ~sup.restore]
    /\ UNCHANGED <<lock, cmd, record, ctl, spark, last, crossed>>

\* The job's state.json: with nothing to restore, nothing is adopted.
ReadState(v) ==
    /\ view[v].pc = "read"
    /\ view' = [view EXCEPT
         ![v].pc = IF sup.pc = "finished" /\ sup.restore THEN "fetch" ELSE "save",
         ![v].closed = sup.pc = "finished" /\ ~sup.restore]
    /\ UNCHANGED <<lock, cmd, record, ctl, spark, last, crossed>>

FetchController(v) ==
    /\ view[v].pc = "fetch"
    /\ view' = [view EXCEPT ![v].pc = "adopt", ![v].got = sctl]
    /\ UNCHANGED <<lock, cmd, record, ctl, spark, last, crossed>>

\* Under controller.lock, without another look at the record; while a transition
\* holds the lock the record stays open.
Adopt(v) ==
    /\ view[v].pc = "adopt"
    /\ ctl' = IF lock = Unlocked THEN view[v].got ELSE ctl
    /\ view' = [view EXCEPT ![v].pc = "save", ![v].closed = lock = Unlocked]
    /\ Crosses(lock = Unlocked /\ record = "closed")
    /\ UNCHANGED <<lock, cmd, record, spark, last>>

\* The record as this view loaded it, with what it found.
SaveView(v) ==
    /\ view[v].pc = "save"
    /\ record' = IF view[v].closed THEN "closed" ELSE "open"
    /\ view' = [view EXCEPT ![v].pc = "load"]
    /\ Crosses(record = "closed" /\ ~view[v].closed)
    /\ UNCHANGED <<lock, cmd, ctl, spark, last>>

\* The Spark cannot be reached: nothing is saved.
Unreachable(v) ==
    /\ view[v].pc = "read"
    /\ view' = [view EXCEPT ![v].pc = "load"]
    /\ UNCHANGED <<lock, cmd, record, ctl, spark, last, crossed>>

-----------------------------------------------------------------------------
(* The supervisor and its restore, on the Spark.                           *)

Mac == <<lock, cmd, view, record, ctl, crossed>>

\* gpu_busy, or a cancellation before the job starts: the restore is next.
CheckGpu ==
    /\ sup.pc = "starting"
    /\ \E pc \in {"checked", "restoring"} :
         /\ pc = "checked" => models = {}
         /\ sup' = [sup EXCEPT !.pc = pc]
    /\ UNCHANGED <<Mac, sctl, nodeGen, models, job, last>>

StartJob ==
    /\ sup.pc = "checked"
    /\ job' = TRUE
    /\ sup' = [sup EXCEPT !.pc = "running"]
    /\ UNCHANGED <<Mac, sctl, nodeGen, models, last>>

\* It exits, or is stopped by its timeout or by batch stop.
EndJob ==
    /\ sup.pc = "running"
    /\ job' = FALSE
    /\ sup' = [sup EXCEPT !.pc = "restoring"]
    /\ UNCHANGED <<Mac, sctl, nodeGen, models, last>>

\* A save of state.json raises: the restore runs and the job is left alone.
LoseJob ==
    /\ sup.pc = "running"
    /\ sup' = [sup EXCEPT !.pc = "restoring"]
    /\ UNCHANGED <<Mac, sctl, nodeGen, models, job, last>>

LostJobEnds ==
    /\ job /\ sup.pc # "running"
    /\ job' = FALSE
    /\ UNCHANGED <<Mac, sctl, sup, nodeGen, models, last>>

NoRestore ==
    /\ sup.pc = "restoring" /\ ~sup.restore
    /\ sup' = [sup EXCEPT !.pc = "finished"]
    /\ UNCHANGED <<Mac, sctl, nodeGen, models, job, last>>

\* One attempt is an up of the previous model, with a generation of its own.
RestoreFences ==
    /\ sup.pc = "restoring" /\ sup.restore
    /\ last' = last + 1
    /\ nodeGen' = last + 1
    /\ sctl' = [sctl EXCEPT !.settled = FALSE]
    /\ sup' = [sup EXCEPT !.pc = "fenced", !.gen = last + 1, !.tries = @ + 1]
    /\ UNCHANGED <<Mac, models, job>>

\* Mutant: the idle audit of the restore is skipped.
RestoreReleasesUnverified ==
    /\ sup.pc = "fenced" /\ nodeGen = sup.gen
    /\ models' = {} /\ sctl' = Empty
    /\ sup' = [sup EXCEPT !.pc = "released"]
    /\ UNCHANGED <<Mac, nodeGen, job, last>>

RestoreReleases ==
    /\ sup.pc = "fenced" /\ nodeGen = sup.gen /\ ~job
    /\ models' = {} /\ sctl' = Empty
    /\ sup' = [sup EXCEPT !.pc = "released"]
    /\ UNCHANGED <<Mac, nodeGen, job, last>>

\* Mutant: the start is not fenced by node.json.
RestoreStartsUnfenced ==
    /\ sup.pc = "released"
    /\ models' = models \cup {sup.gen} /\ sctl' = [gen |-> sup.gen, settled |-> TRUE]
    /\ sup' = [sup EXCEPT !.pc = "finished"]
    /\ UNCHANGED <<Mac, nodeGen, job, last>>

RestoreStarts ==
    /\ sup.pc = "released" /\ nodeGen = sup.gen
    /\ models' = models \cup {sup.gen} /\ sctl' = [gen |-> sup.gen, settled |-> TRUE]
    /\ sup' = [sup EXCEPT !.pc = "finished"]
    /\ UNCHANGED <<Mac, nodeGen, job, last>>

\* Mutant: the last attempt is not the last.
RestoreRetriesForever ==
    /\ sup.pc \in {"fenced", "released"}
    /\ sup' = [sup EXCEPT !.pc = "fenced"]
    /\ UNCHANGED <<Mac, sctl, nodeGen, models, job, last>>

\* Mutant: one attempt too many.
RestoreFailsOnceMore ==
    /\ sup.pc = "fenced"
    /\ sup' = [sup EXCEPT !.pc = IF sup.tries <= Attempts THEN "restoring" ELSE "finished"]
    /\ UNCHANGED <<Mac, sctl, nodeGen, models, job, last>>

\* The attempt failed, for whatever reason, or was stale: another one, or the
\* end.
RestoreFails ==
    /\ \/ sup.pc = "fenced" /\ UNCHANGED sctl
          /\ models' = IF nodeGen = sup.gen /\ job THEN {} ELSE models
       \/ sup.pc = "released"
          /\ \E left \in Stranded(sup.gen, sctl) :
               sctl' = left.ctl /\ models' = left.models
    /\ sup' = [sup EXCEPT !.pc = IF sup.tries < Attempts THEN "restoring" ELSE "finished"]
    /\ UNCHANGED <<Mac, nodeGen, job, last>>

\* SIGKILL; the job, a session of its own, goes on.
SupervisorDies ==
    /\ sup.pc \in Active
    /\ sup' = [sup EXCEPT !.pc = "dead"]
    /\ UNCHANGED <<Mac, sctl, nodeGen, models, job, last>>

Reboot ==
    /\ models' = {} /\ job' = FALSE
    /\ sup' = [sup EXCEPT !.pc = IF @ \in Active THEN "dead" ELSE @]
    /\ UNCHANGED <<Mac, sctl, nodeGen, last>>

-----------------------------------------------------------------------------
Command(c) ==
    \/ Guard(c) \/ Preflight(c) \/ Lock(c) \/ Fence(c) \/ ReleaseGpu(c)
    \/ StartModel(c) \/ SwitchFails(c) \/ Launch(c) \/ LaunchFails(c)
    \/ SaveRecord(c) \/ Recover(c)

View(v) == ReadState(v) \/ FetchController(v) \/ Adopt(v) \/ SaveView(v) \/ Load(v)

Supervise ==
    \/ CheckGpu \/ StartJob \/ EndJob \/ NoRestore
    \/ RestoreFences \/ RestoreReleases \/ RestoreStarts \/ RestoreFails

Next ==
    \/ \E c \in Commands : Enter(c) \/ Command(c) \/ CommandDies(c)
    \/ \E v \in Views : View(v) \/ Unreachable(v)
    \/ Supervise \/ LoseJob \/ LostJobEnds \/ SupervisorDies \/ Reboot

Spec == Init /\ [][Next]_vars

\* Calls, the job and each attempt have a timeout; the app polls the status,
\* and reaches the Spark again and again.
FairSpec ==
    /\ Spec
    /\ WF_vars(Supervise)
    /\ \A c \in Commands : WF_vars(Command(c))
    /\ \A v \in Views : WF_vars(View(v)) /\ SF_vars(ReadState(v))

-----------------------------------------------------------------------------
(* Properties                                                              *)

\* Two controllers with locks of their own never have two models on the GPU.
OneModel == Cardinality(models) <= 1

\* The node starts and removes models only for the generation it records,
\* whichever of the two controllers asks: what FencedNode allows.
Promise == INSTANCE FencedNode WITH
    Nodes <- {"gpu"},
    Generations <- Gens,
    owner <- [n \in {"gpu"} |-> nodeGen],
    serving <- [n \in {"gpu"} |-> models]

RespectsFencedNode == Promise!Spec

\* The record is closed, or a view has seen to it and is about to close it.
Adopted ==
    \/ record = "closed"
    \/ \E v \in Views : view[v].pc = "save" /\ view[v].closed

\* The Mac and the Spark take turns: from the launch to the adoption only the
\* supervisor moves a model, the job runs alone, and the Mac never starts a model
\* beside one that it does not know of.  Once somebody has acted out of turn
\* (Crosses) both sides may act, and still there is one model at most.
Handing == INSTANCE HandedOver WITH
    Models <- Gens \ {None},
    keeper <- IF crossed THEN "both"
              ELSE IF sup.pc = "none" \/ Adopted THEN "mac" ELSE "spark",
    books <- {ctl.gen} \ {None}

ImplementsHandedOver == Handing!Spec

\* The job has the GPU for itself, also when it is left running by mistake, until
\* somebody acts out of turn: the up of a model that passed its guard before the
\* job was recorded may start beside it.
JobAlone == ~crossed /\ job => models = {}

\* "The job never started after the stop": the Mac restores the previous model
\* only when the Spark will not.
RecoverOnlyUnstarted ==
    [][\A c \in Commands : Recover(c) => sup.pc \notin Active]_vars

\* "Until then, up, stop, reboot and shutdown refuse": while the record of a batch
\* job is open, no command begins a transition.
NoneBeginsWhileOpen ==
    [][\A c \in Commands : Lock(c) => record # "open"]_vars

\* "so later Mac switches stay fenced": once the job is over and no transition
\* is under way, controller.json on the Mac names the model that runs, unless
\* somebody acted out of turn: a slow view may adopt a state that is outdated.
MacKnowsOwner ==
    /\ record = "closed" /\ lock = Unlocked
    /\ sup.pc \notin Active /\ ~crossed
    => models \subseteq {ctl.gen}

\* "Restore on the Spark, always": a supervisor that is not killed gets through
\* its job and its attempts to restore.
RestoreEnds == sup.pc = "starting" ~> sup.pc \in {"finished", "dead"}

\* A recorded job that finished does not block the Mac for ever.
BatchIsClosed == (record = "open" /\ sup.pc = "finished") ~> record = "closed"
=============================================================================

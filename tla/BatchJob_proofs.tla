---------------------------- MODULE BatchJob_proofs ----------------------------
(* What holds of BatchJob for any commands, views and number of attempts.  *)
EXTENDS BatchJob, FiniteSetTheorems, TLAPS

\* Next, action by action.
LEMMA NextCases ==
    ASSUME Next
    PROVE  \/ \E c \in Commands :
                \/ Enter(c) \/ Guard(c) \/ Preflight(c) \/ Lock(c) \/ Fence(c)
                \/ ReleaseGpu(c) \/ StartModel(c) \/ SwitchFails(c) \/ Launch(c)
                \/ LaunchFails(c) \/ SaveRecord(c) \/ Recover(c) \/ CommandDies(c)
           \/ \E v \in Views : \/ ReadState(v) \/ FetchController(v) \/ Adopt(v)
                               \/ SaveView(v) \/ Load(v) \/ Unreachable(v)
           \/ CheckGpu \/ StartJob \/ EndJob \/ NoRestore \/ RestoreFences
           \/ RestoreReleases \/ RestoreStarts \/ RestoreFails \/ LoseJob \/ LostJobEnds
           \/ SupervisorDies \/ Reboot
BY DEF Next, Command, View, Supervise

\* Attempts are left while the supervisor may begin one.
TriesLeft ==
    sup.pc \in {"starting", "checked", "running", "restoring"} => sup.tries < Attempts

\* A command between its draw and the end of its transition holds the Mac's lock;
\* its generation is not the one of the Spark's controller.
Switching == {"fence", "release", "start"}

Drawn ==
    /\ \A c \in Commands : cmd[c].pc \in Switching =>
         lock = c /\ 1 <= cmd[c].gen /\ cmd[c].gen <= last /\ cmd[c].gen # sup.gen
    /\ sup.gen <= last
    /\ nodeGen <= last

\* Whoever is about to start a model, and owns the Spark, has it empty.
Alone ==
    /\ \A c \in Commands : cmd[c].pc = "start" /\ nodeGen = cmd[c].gen => models = {}
    /\ sup.pc = "released" /\ nodeGen = sup.gen => models = {}

Single == \E g \in Gens : models \subseteq {g}

ModelInv == Drawn /\ Alone /\ Single
BatchInv == TypeOK /\ TriesLeft /\ ModelInv

\* A step that brings nobody closer to the start of a model.
Quiet ==
    /\ nodeGen' = nodeGen /\ last' = last
    /\ models' \subseteq models
    /\ sup'.gen \in {sup.gen, None}
    /\ sup'.pc = "released" => sup.pc = "released" /\ sup'.gen = sup.gen
    /\ \A c \in Commands : cmd'[c].pc \in Switching =>
         /\ cmd[c].pc = cmd'[c].pc /\ cmd[c].gen = cmd'[c].gen
         /\ lock = c => lock' = c

LEMMA QuietKeeps ==
    ASSUME TypeOK, ModelInv, Quiet PROVE ModelInv'
<1>1. sup.gen \in Nat /\ last \in Nat /\ nodeGen \in Nat /\ \A c \in Commands : cmd[c].gen \in Nat
  BY DEF TypeOK, Gens, Processes, Supervisors
<1>2. Drawn'
  BY <1>1 DEF ModelInv, Quiet, Drawn, None
<1>3. Alone'
  BY <1>1 DEF ModelInv, Quiet, Alone, Drawn, Switching, None
<1>4. Single'
  BY DEF ModelInv, Quiet, Single
<1> QED BY <1>2, <1>3, <1>4 DEF ModelInv

LEMMA StrandedLeft ==
    ASSUME NEW gen, NEW before, NEW left \in Stranded(gen, before)
    PROVE  \/ left.ctl = before /\ left.models = models
           \/ /\ left.ctl = [gen |-> gen, settled |-> FALSE]
              /\ \/ left.models = models
                 \/ nodeGen = gen /\ left.models = models \cup {gen}
<1> DEFINE claimed == [gen |-> gen, settled |-> FALSE]
           Claims == {[ctl |-> claimed, models |-> models \cup {g}] : g \in {nodeGen} \cap {gen}}
<1>1. \/ left = [ctl |-> before, models |-> models]
      \/ left = [ctl |-> claimed, models |-> models]
      \/ left \in Claims
  BY DEF Stranded
<1>2. CASE left = [ctl |-> before, models |-> models]
  BY <1>2
<1>3. CASE left = [ctl |-> claimed, models |-> models]
  BY <1>3
<1>4. CASE left \in Claims
  <2>1. PICK g \in {nodeGen} \cap {gen} : left = [ctl |-> claimed, models |-> models \cup {g}]
    BY <1>4
  <2> QED BY <2>1
<1> QED BY <1>1, <1>2, <1>3, <1>4

\* The history of who acted out of turn.
LEMMA CrossedStep ==
    ASSUME [Next]_vars, crossed \in BOOLEAN
    PROVE  crossed' \in BOOLEAN /\ (crossed => crossed')
<1>1. CASE UNCHANGED crossed
  BY <1>1
<1>2. ASSUME NEW c \in Commands, Lock(c) \/ Launch(c) PROVE crossed' \in BOOLEAN /\ (crossed => crossed')
  BY <1>2 DEF Lock, Launch, Crosses
<1>3. ASSUME NEW v \in Views, Adopt(v) \/ SaveView(v) PROVE crossed' \in BOOLEAN /\ (crossed => crossed')
  BY <1>3 DEF Adopt, SaveView, Crosses
<1>4. \/ UNCHANGED crossed
      \/ \E c \in Commands : Lock(c) \/ Launch(c)
      \/ \E v \in Views : Adopt(v) \/ SaveView(v)
  BY NextCases DEF vars, spark, Mac, Enter, Guard, Preflight, Fence, ReleaseGpu,
     StartModel, SwitchFails, LaunchFails, SaveRecord, Recover, CommandDies,
     ReadState, FetchController, Load, Unreachable, CheckGpu, StartJob,
     EndJob, NoRestore, RestoreFences, RestoreReleases, RestoreStarts, RestoreFails, LoseJob,
     LostJobEnds, SupervisorDies, Reboot
<1> QED BY <1>1, <1>2, <1>3, <1>4

LEMMA TypeStep ==
    ASSUME TypeOK, TriesLeft, [Next]_vars PROVE TypeOK'
<1> USE AttemptsAssumption
    DEF TypeOK, Gens, None, Allocations, Empty, Active, Labels, Processes, Looks, Supervisors,
        At, Goto, Unlock, Unlocked, AfterGuard, After, AfterFailure, spark, Mac
<1>0. CASE UNCHANGED vars
  BY <1>0 DEF vars
<1>1. ASSUME NEW c \in Commands, Enter(c) PROVE TypeOK'
  <2>1. cmd[c] \in Processes
    OBVIOUS
  <2>2. cmd' \in [Commands -> Processes]
    BY <1>1, <2>1 DEF Enter
  <2> QED BY <1>1, <2>2 DEF Enter
<1>2. ASSUME NEW c \in Commands, Guard(c) PROVE TypeOK'
  <2>1. cmd[c] \in Processes
    OBVIOUS
  <2>2. cmd' \in [Commands -> Processes]
    BY <1>2, <2>1 DEF Guard
  <2> QED BY <1>2, <2>2 DEF Guard
<1>3. ASSUME NEW c \in Commands, Preflight(c) PROVE TypeOK'
  <2>1. cmd[c] \in Processes
    OBVIOUS
  <2>2. cmd' \in [Commands -> Processes]
    BY <1>3, <2>1 DEF Preflight
  <2> QED BY <1>3, <2>2 DEF Preflight
<1>4. ASSUME NEW c \in Commands, Lock(c) PROVE TypeOK'
  <2>1. cmd[c] \in Processes /\ last + 1 \in Gens
    OBVIOUS
  <2>2. cmd' = [cmd EXCEPT ![c].pc = "fence", ![c].gen = last + 1]
    BY <1>4 DEF Lock
  <2>3. cmd' \in [Commands -> Processes]
    BY <2>1, <2>2
  <2>4. lock' = c /\ last' = last + 1 /\ ctl' = [ctl EXCEPT !.settled = FALSE]
    BY <1>4 DEF Lock
  <2>5. ctl' \in Allocations
    BY <2>4
  <2>6. UNCHANGED <<view, record, sctl, sup, nodeGen, models, job>> /\ crossed' \in BOOLEAN
    BY <1>4, CrossedStep DEF Lock
  <2> HIDE DEF Processes, Looks, Allocations, Supervisors, Gens
  <2> QED BY <2>1, <2>3, <2>4, <2>5, <2>6
<1>5. ASSUME NEW c \in Commands, Fence(c) PROVE TypeOK'
  <2>1. cmd[c] \in Processes
    OBVIOUS
  <2>2. cmd' \in [Commands -> Processes]
    BY <1>5, <2>1 DEF Fence
  <2> QED BY <1>5, <2>2 DEF Fence
<1>6. ASSUME NEW c \in Commands, ReleaseGpu(c) PROVE TypeOK'
  <2>1. cmd[c] \in Processes
    OBVIOUS
  <2>2. After(c) \in Labels /\ AfterFailure(c) \in Labels
    <3>1. cmd[c].kind \in {"up", "stop", "batch"}
      BY <2>1
    <3> QED BY <3>1
  <2>3. CASE job
    <3>1. cmd' = [cmd EXCEPT ![c].pc = AfterFailure(c)]
      BY <1>6, <2>3 DEF ReleaseGpu
    <3> HIDE DEF After, AfterFailure
    <3>2. cmd' \in [Commands -> Processes]
      BY <2>1, <2>2, <3>1
    <3> QED BY <1>6, <2>3, <3>2 DEF ReleaseGpu
  <2>4. CASE ~job
    <3>1. cmd' = [cmd EXCEPT ![c].pc = After(c)]
      BY <1>6, <2>4 DEF ReleaseGpu
    <3> HIDE DEF After, AfterFailure
    <3>2. cmd' \in [Commands -> Processes]
      BY <2>1, <2>2, <3>1
    <3>3. lock' \in Commands \cup {Unlocked}
      BY <1>6, <2>4 DEF ReleaseGpu
    <3>4. ctl' \in Allocations /\ models' \subseteq Gens
      <4>1. ctl' = Empty /\ models' = {}
        BY <1>6, <2>4 DEF ReleaseGpu
      <4>2. Empty \in Allocations
        OBVIOUS
      <4> QED BY <4>1, <4>2
    <3>5. UNCHANGED <<view, record, sctl, sup, nodeGen, job, last, crossed>>
      BY <1>6, <2>4 DEF ReleaseGpu
    <3> HIDE DEF Processes, Looks, Allocations, Supervisors, Gens
    <3> QED BY <3>2, <3>3, <3>4, <3>5
  <2> QED BY <2>3, <2>4
<1>7. ASSUME NEW c \in Commands, StartModel(c) PROVE TypeOK'
  <2>1. cmd[c] \in Processes
    OBVIOUS
  <2>2. cmd' \in [Commands -> Processes]
    BY <1>7, <2>1 DEF StartModel
  <2> QED BY <1>7, <2>2 DEF StartModel
<1>8. ASSUME NEW c \in Commands, SwitchFails(c) PROVE TypeOK'
  <2>1. cmd[c] \in Processes
    OBVIOUS
  <2>2. cmd' \in [Commands -> Processes]
    BY <1>8, <2>1 DEF SwitchFails
  <2>3. ctl' \in Allocations /\ models' \subseteq Gens
    <3>1. CASE At(c, "start")
      <4>1. PICK left \in Stranded(cmd[c].gen, ctl) : ctl' = left.ctl /\ models' = left.models
        BY <1>8, <3>1 DEF SwitchFails
      <4>2. cmd[c].gen \in Gens /\ [gen |-> cmd[c].gen, settled |-> FALSE] \in Allocations
        BY <2>1
      <4> HIDE DEF Allocations, Processes, Gens
      <4>3. \/ left.ctl = ctl /\ left.models = models
            \/ /\ left.ctl = [gen |-> cmd[c].gen, settled |-> FALSE]
               /\ \/ left.models = models
                  \/ nodeGen = cmd[c].gen /\ left.models = models \cup {cmd[c].gen}
        BY StrandedLeft
      <4> QED BY <4>1, <4>2, <4>3
    <3>2. CASE ~At(c, "start")
      BY <1>8, <3>2 DEF SwitchFails
    <3> QED BY <3>1, <3>2
  <2> QED BY <1>8, <2>2, <2>3 DEF SwitchFails
<1>9. ASSUME NEW c \in Commands, Launch(c) PROVE TypeOK'
  <2>1. cmd[c] \in Processes
    OBVIOUS
  <2>2. PICK pc \in {"record", "recover", "end"} : cmd' = [cmd EXCEPT ![c].pc = pc]
    BY <1>9 DEF Launch
  <2>3. cmd' \in [Commands -> Processes]
    BY <2>1, <2>2
  <2>4. sup' \in Supervisors
    BY <1>9, <2>1 DEF Launch
  <2>5. sctl' = ctl /\ UNCHANGED <<lock, view, record, ctl, nodeGen, models, job, last>>
    BY <1>9 DEF Launch
  <2> HIDE DEF Processes, Looks, Allocations, Supervisors, Gens
  <2> QED BY <2>3, <2>4, <2>5, CrossedStep
<1>10. ASSUME NEW c \in Commands, LaunchFails(c) PROVE TypeOK'
  <2>1. cmd[c] \in Processes
    OBVIOUS
  <2>2. cmd' \in [Commands -> Processes]
    BY <1>10, <2>1 DEF LaunchFails
  <2> QED BY <1>10, <2>2 DEF LaunchFails
<1>11. ASSUME NEW c \in Commands, SaveRecord(c) PROVE TypeOK'
  <2>1. cmd[c] \in Processes
    OBVIOUS
  <2>2. cmd' \in [Commands -> Processes]
    BY <1>11, <2>1 DEF SaveRecord
  <2> QED BY <1>11, <2>2 DEF SaveRecord
<1>12. ASSUME NEW c \in Commands, Recover(c) PROVE TypeOK'
  <2>1. cmd[c] \in Processes
    OBVIOUS
  <2>2. cmd' \in [Commands -> Processes]
    BY <1>12, <2>1 DEF Recover
  <2> QED BY <1>12, <2>2 DEF Recover
<1>13. ASSUME NEW c \in Commands, CommandDies(c) PROVE TypeOK'
  <2>1. cmd[c] \in Processes
    OBVIOUS
  <2>2. cmd' \in [Commands -> Processes]
    BY <1>13, <2>1 DEF CommandDies
  <2> QED BY <1>13, <2>2 DEF CommandDies
<1>14. ASSUME NEW v \in Views, ReadState(v) PROVE TypeOK'
  <2>1. view[v] \in Looks
    OBVIOUS
  <2>2. view' \in [Views -> Looks]
    BY <1>14, <2>1 DEF ReadState
  <2> QED BY <1>14, <2>2 DEF ReadState
<1>15. ASSUME NEW v \in Views, FetchController(v) PROVE TypeOK'
  <2>1. view[v] \in Looks
    OBVIOUS
  <2>2. view' \in [Views -> Looks]
    BY <1>15, <2>1 DEF FetchController
  <2> QED BY <1>15, <2>2 DEF FetchController
<1>16. ASSUME NEW v \in Views, Adopt(v) PROVE TypeOK'
  <2>1. view[v] \in Looks
    OBVIOUS
  <2>2. view' \in [Views -> Looks]
    BY <1>16, <2>1 DEF Adopt
  <2>3. ctl' \in Allocations
    BY <1>16, <2>1 DEF Adopt
  <2>4. UNCHANGED <<lock, cmd, record, sctl, sup, nodeGen, models, job, last>>
    BY <1>16 DEF Adopt
  <2> HIDE DEF Processes, Looks, Allocations, Supervisors, Gens
  <2> QED BY <2>2, <2>3, <2>4, CrossedStep
<1>17. ASSUME NEW v \in Views, SaveView(v) PROVE TypeOK'
  <2>1. view[v] \in Looks
    OBVIOUS
  <2>2. view' \in [Views -> Looks]
    BY <1>17, <2>1 DEF SaveView
  <2>3. record' \in {"open", "closed"}
    BY <1>17 DEF SaveView
  <2>4. UNCHANGED <<lock, cmd, ctl, sctl, sup, nodeGen, models, job, last>>
    BY <1>17 DEF SaveView
  <2> HIDE DEF Processes, Looks, Allocations, Supervisors, Gens
  <2> QED BY <2>2, <2>3, <2>4, CrossedStep
<1>18. ASSUME NEW v \in Views, Load(v) PROVE TypeOK'
  <2>1. view[v] \in Looks
    OBVIOUS
  <2>2. view' \in [Views -> Looks]
    BY <1>18, <2>1 DEF Load
  <2> QED BY <1>18, <2>2 DEF Load
<1>19. ASSUME NEW v \in Views, Unreachable(v) PROVE TypeOK'
  <2>1. view[v] \in Looks
    OBVIOUS
  <2>2. view' \in [Views -> Looks]
    BY <1>19, <2>1 DEF Unreachable
  <2> QED BY <1>19, <2>2 DEF Unreachable
<1>20. CASE CheckGpu
  BY <1>20 DEF CheckGpu
<1>21. CASE StartJob
  BY <1>21 DEF StartJob
<1>22. CASE EndJob
  BY <1>22 DEF EndJob
<1>23. CASE NoRestore
  BY <1>23 DEF NoRestore
<1>24. CASE RestoreFences
  <2>1. last + 1 \in Gens /\ sup.tries + 1 \in 0..Attempts
    BY <1>24 DEF RestoreFences, TriesLeft
  <2>2. sup' \in Supervisors
    BY <1>24, <2>1 DEF RestoreFences
  <2>3. sctl' \in Allocations
    BY <1>24 DEF RestoreFences
  <2> QED BY <1>24, <2>1, <2>2, <2>3 DEF RestoreFences, TriesLeft
<1>25. CASE RestoreReleases
  BY <1>25 DEF RestoreReleases
<1>26. CASE RestoreStarts
  BY <1>26 DEF RestoreStarts
<1>27. CASE RestoreFails
  <2>1. sctl' \in Allocations /\ models' \subseteq Gens
    <3>1. CASE sup.pc = "fenced"
      BY <1>27, <3>1 DEF RestoreFails
    <3>2. CASE sup.pc = "released"
      <4>1. PICK left \in Stranded(sup.gen, sctl) : sctl' = left.ctl /\ models' = left.models
        BY <1>27, <3>2 DEF RestoreFails
      <4>2. sup.gen \in Gens /\ [gen |-> sup.gen, settled |-> FALSE] \in Allocations
        OBVIOUS
      <4> HIDE DEF Allocations, Supervisors, Gens
      <4>3. \/ left.ctl = sctl /\ left.models = models
            \/ /\ left.ctl = [gen |-> sup.gen, settled |-> FALSE]
               /\ \/ left.models = models
                  \/ nodeGen = sup.gen /\ left.models = models \cup {sup.gen}
        BY StrandedLeft
      <4> QED BY <4>1, <4>2, <4>3
    <3> QED BY <1>27, <3>1, <3>2 DEF RestoreFails
  <2>2. sup' \in Supervisors
    BY <1>27 DEF RestoreFails
  <2> QED BY <1>27, <2>1, <2>2 DEF RestoreFails
<1>28. CASE LoseJob
  BY <1>28 DEF LoseJob
<1>29. CASE LostJobEnds
  BY <1>29 DEF LostJobEnds
<1>30. CASE SupervisorDies
  BY <1>30 DEF SupervisorDies
<1>31. CASE Reboot
  BY <1>31 DEF Reboot
<1> QED BY NextCases, <1>0, <1>1, <1>2, <1>3, <1>4, <1>5, <1>6, <1>7, <1>8, <1>9, <1>10,
           <1>11, <1>12, <1>13, <1>14, <1>15, <1>16, <1>17, <1>18, <1>19, <1>20, <1>21,
           <1>22, <1>23, <1>24, <1>25, <1>26, <1>27, <1>28, <1>29, <1>30, <1>31

\* Only Launch, the supervisor and a reboot move the supervisor.
LEMMA SupervisorStep ==
    ASSUME [Next]_vars
    PROVE  \/ UNCHANGED sup
           \/ \E c \in Commands : Launch(c)
           \/ CheckGpu \/ StartJob \/ EndJob \/ NoRestore \/ RestoreFences \/ RestoreReleases
           \/ RestoreStarts \/ RestoreFails \/ LoseJob \/ SupervisorDies \/ Reboot
<1>1. CASE UNCHANGED vars
  BY <1>1 DEF vars
<1>2. ASSUME NEW c \in Commands, Enter(c) \/ Command(c) \/ CommandDies(c)
      PROVE  UNCHANGED sup \/ Launch(c)
  BY <1>2 DEF Command, Enter, Guard, Preflight, Lock, Fence, ReleaseGpu, StartModel, SwitchFails,
              LaunchFails, SaveRecord, Recover, CommandDies, spark
<1>3. ASSUME NEW v \in Views, View(v) \/ Unreachable(v) PROVE UNCHANGED sup
  BY <1>3 DEF View, ReadState, FetchController, Adopt, SaveView, Load, Unreachable, spark
<1>4. LostJobEnds => UNCHANGED sup
  BY DEF LostJobEnds
<1> QED BY <1>1, <1>2, <1>3, <1>4 DEF Next, Supervise

LEMMA TriesStep ==
    ASSUME TypeOK, TriesLeft, [Next]_vars PROVE TriesLeft'
<1> USE AttemptsAssumption DEF TypeOK, TriesLeft, Supervisors, Active
<1>1. CASE UNCHANGED sup
  BY <1>1
<1>2. ASSUME NEW c \in Commands, Launch(c) PROVE TriesLeft'
  BY <1>2 DEF Launch
<1>3. CASE CheckGpu \/ StartJob \/ EndJob \/ LoseJob
  BY <1>3 DEF CheckGpu, StartJob, EndJob, LoseJob
<1>4. CASE NoRestore \/ RestoreReleases \/ RestoreStarts
  BY <1>4 DEF NoRestore, RestoreReleases, RestoreStarts
<1>5. CASE RestoreFences
  BY <1>5 DEF RestoreFences
<1>6. CASE RestoreFails
  BY <1>6 DEF RestoreFails
<1>7. CASE SupervisorDies \/ Reboot
  BY <1>7 DEF SupervisorDies, Reboot
<1> QED BY <1>1, <1>2, <1>3, <1>4, <1>5, <1>6, <1>7, SupervisorStep

LEMMA PcMoves ==
    ASSUME TypeOK, NEW c \in Commands, NEW pc, Goto(c, pc)
    PROVE  /\ cmd'[c].pc = pc /\ cmd'[c].gen = cmd[c].gen /\ cmd'[c].kind = cmd[c].kind
           /\ \A d \in Commands : d # c => cmd'[d] = cmd[d]
BY DEF TypeOK, Processes, Goto

\* Another command holds the lock, or the state cannot be written.
Refused(c) == SwitchFails(c) /\ cmd[c].pc = "lock"

\* The commands outside a transition.
LEMMA CommandMoves ==
    ASSUME TypeOK, NEW c \in Commands,
           \/ Enter(c) \/ Guard(c) \/ Preflight(c) \/ Launch(c) \/ LaunchFails(c)
           \/ SaveRecord(c) \/ Recover(c) \/ CommandDies(c) \/ Refused(c)
    PROVE  /\ UNCHANGED <<nodeGen, models, last>>
           /\ UNCHANGED sup \/ (sup'.pc = "starting" /\ sup'.gen = None)
           /\ lock = c \/ lock' = lock
           /\ cmd'[c].pc \notin Switching
           /\ \A d \in Commands : d # c => cmd'[d] = cmd[d]
<1>1. UNCHANGED <<nodeGen, models, last>>
  BY DEF Enter, Guard, Preflight, Launch, LaunchFails, SaveRecord, Recover, CommandDies, Refused,
              SwitchFails, At, spark
<1>2. UNCHANGED sup \/ (sup'.pc = "starting" /\ sup'.gen = None)
  <2>1. Launch(c) => sup'.pc = "starting" /\ sup'.gen = None
    BY DEF Launch
  <2> QED BY <2>1 DEF Enter, Guard, Preflight, LaunchFails, SaveRecord, Recover, CommandDies, Refused,
              SwitchFails, At, spark
<1>3. lock = c \/ lock' = lock
  BY DEF Enter, Guard, Preflight, Launch, LaunchFails, SaveRecord, Recover, CommandDies, Refused,
              SwitchFails, Unlock
<1>4. CASE \E pc : pc \notin Switching /\ Goto(c, pc)
  BY <1>1, <1>2, <1>3, <1>4, PcMoves
<1>5. CASE Enter(c)
  <2>1. PICK kind \in {"up", "stop", "batch"} :
          cmd' = [cmd EXCEPT ![c].kind = kind, ![c].pc = "guard"]
    BY <1>5 DEF Enter
  <2>2. cmd'[c].pc = "guard" /\ \A d \in Commands : d # c => cmd'[d] = cmd[d]
    BY <2>1 DEF TypeOK, Processes
  <2> QED BY <1>1, <1>2, <1>3, <2>2 DEF Switching
<1>6. CASE Guard(c)
  <2>1. AfterGuard(c) \in {"preflight", "lock"}
    BY DEF AfterGuard
  <2>2. /\ cmd'[c].pc \in {"end", AfterGuard(c)}
        /\ \A d \in Commands : d # c => cmd'[d] = cmd[d]
    BY <1>6 DEF Guard, TypeOK, Processes
  <2> QED BY <1>1, <1>2, <1>3, <2>1, <2>2 DEF Switching
<1>7. CASE Recover(c)
  <2>1. cmd'[c].pc \in {"end", "guard"} /\ \A d \in Commands : d # c => cmd'[d] = cmd[d]
    BY <1>7 DEF Recover, TypeOK, Processes
  <2> QED BY <1>1, <1>2, <1>3, <2>1 DEF Switching
<1>8. CASE \/ Preflight(c) \/ LaunchFails(c) \/ SaveRecord(c) \/ CommandDies(c) \/ Launch(c)
           \/ Refused(c)
  <2>1. \E pc \in {"end", "lock", "launch", "recover", "record"} : Goto(c, pc)
    <3>1. Preflight(c) => Goto(c, "end") \/ Goto(c, "lock") \/ Goto(c, "launch")
      BY DEF Preflight
    <3>2. Launch(c) => Goto(c, "record") \/ Goto(c, "recover") \/ Goto(c, "end")
      BY DEF Launch, AfterFailure
    <3>3. LaunchFails(c) \/ Refused(c) => Goto(c, "recover") \/ Goto(c, "end")
      BY DEF LaunchFails, Refused, SwitchFails, AfterFailure
    <3>4. SaveRecord(c) => Goto(c, "end")
      BY DEF SaveRecord
    <3>5. CommandDies(c) => Goto(c, "end")
      BY DEF CommandDies
    <3> QED BY <1>8, <3>1, <3>2, <3>3, <3>4, <3>5
  <2> QED BY <1>4, <2>1 DEF Switching
<1> QED BY <1>5, <1>6, <1>7, <1>8

LEMMA ModelStep ==
    ASSUME TypeOK, ModelInv, [Next]_vars PROVE ModelInv'
<1>0. /\ sup.gen \in Nat /\ last \in Nat /\ nodeGen \in Nat
      /\ \A c \in Commands : cmd[c].gen \in Nat
      /\ cmd = [c \in Commands |-> cmd[c]]
  BY DEF TypeOK, Gens, Processes, Supervisors
<1>1. CASE UNCHANGED vars
  BY <1>1, QuietKeeps DEF vars, Quiet
<1>2. ASSUME NEW c \in Commands,
             \/ Enter(c) \/ Guard(c) \/ Preflight(c) \/ Launch(c) \/ LaunchFails(c)
             \/ SaveRecord(c) \/ Recover(c) \/ CommandDies(c) \/ Refused(c)
      PROVE  ModelInv'
  <2>1. Quiet
    BY <1>2, CommandMoves DEF Quiet
  <2> QED BY <2>1, QuietKeeps
<1>3. ASSUME NEW c \in Commands, Lock(c) PROVE ModelInv'
  <2>1. /\ lock = Unlocked /\ lock' = c /\ last' = last + 1
        /\ UNCHANGED <<nodeGen, models, sup>>
    BY <1>3 DEF Lock, spark
  <2>2. /\ cmd'[c].pc = "fence" /\ cmd'[c].gen = last + 1
        /\ \A d \in Commands : d # c => cmd'[d] = cmd[d]
    BY <1>3 DEF Lock, TypeOK, Processes
  <2>3. \A d \in Commands : cmd[d].pc \notin Switching
    BY <2>1, CommandsAssumption DEF ModelInv, Drawn, Unlocked
  <2>4. Drawn'
    BY <1>0, <2>1, <2>2, <2>3 DEF ModelInv, Drawn
  <2>5. Alone'
    BY <2>1, <2>2 DEF ModelInv, Alone
  <2> QED BY <2>1, <2>4, <2>5 DEF ModelInv, Single
<1>4. ASSUME NEW c \in Commands, cmd[c].pc \in Switching,
             Fence(c) \/ ReleaseGpu(c) \/ StartModel(c) \/ SwitchFails(c)
      PROVE  ModelInv'
  <2>0. \E pc : Goto(c, pc)
    <3>1. Fence(c) => Goto(c, "release")
      BY DEF Fence
    <3>2. ReleaseGpu(c) => Goto(c, AfterFailure(c)) \/ Goto(c, After(c))
      BY DEF ReleaseGpu
    <3>3. StartModel(c) => Goto(c, "end")
      BY DEF StartModel
    <3>4. SwitchFails(c) => Goto(c, AfterFailure(c))
      BY DEF SwitchFails
    <3> QED BY <1>4, <3>1, <3>2, <3>3, <3>4
  <2>1. /\ lock = c /\ cmd[c].gen # sup.gen /\ cmd[c].gen <= last
        /\ UNCHANGED <<sup, last>> /\ lock' \in {c, Unlocked}
    BY <1>4 DEF ModelInv, Drawn, Fence, ReleaseGpu, StartModel, SwitchFails, Unlock
  <2>2. \A d \in Commands : d # c => cmd'[d] = cmd[d] /\ cmd[d].pc \notin Switching
    <3>1. \A d \in Commands : d # c => cmd[d].pc \notin Switching
      BY <2>1 DEF ModelInv, Drawn
    <3> QED BY <2>0, <3>1, PcMoves
  <2>3. cmd'[c].gen = cmd[c].gen
    BY <2>0, PcMoves
  <2>4. cmd'[c].pc \in Switching => lock' = c
    <3> USE PcMoves DEF Switching
    <3>1. CASE Fence(c)
      BY <2>1, <3>1 DEF Fence
    <3>2. CASE ReleaseGpu(c)
      <4>1. cmd[c].kind \in {"up", "stop", "batch"}
        BY DEF TypeOK, Processes
      <4> QED BY <2>1, <3>2, <4>1 DEF ReleaseGpu, After, AfterFailure
    <3>3. CASE StartModel(c)
      BY <3>3 DEF StartModel
    <3>4. CASE SwitchFails(c)
      BY <3>4 DEF SwitchFails, AfterFailure
    <3> QED BY <1>4, <3>1, <3>2, <3>3, <3>4
  <2>5. nodeGen' \in {nodeGen, cmd[c].gen}
    BY <1>4 DEF Fence, ReleaseGpu, StartModel, SwitchFails
  <2>6. Drawn'
    <3>1. cmd'[c].pc \in Switching => 1 <= cmd[c].gen
      BY <1>4 DEF ModelInv, Drawn
    <3> QED BY <1>0, <2>1, <2>2, <2>3, <2>4, <2>5, <3>1 DEF ModelInv, Drawn
  <2>7. Alone' /\ Single'
    <3>1. CASE Fence(c)
      <4>1. cmd'[c].pc = "release" /\ models' = models /\ nodeGen' = cmd[c].gen
        BY <3>1, PcMoves DEF Fence
      <4> QED BY <2>1, <2>2, <4>1 DEF ModelInv, Alone, Single, Switching
    <3>2. CASE ReleaseGpu(c)
      <4>1. models' = {}
        BY <3>2 DEF ReleaseGpu
      <4> QED BY <4>1 DEF Alone, ModelInv, Single
    <3>3. CASE StartModel(c)
      <4>1. /\ models = {} /\ models' = {cmd[c].gen} /\ cmd'[c].pc = "end"
            /\ nodeGen' = cmd[c].gen
        <5>1. models = {}
          BY <3>3 DEF StartModel, ModelInv, Alone, At
        <5> QED BY <3>3, <5>1, PcMoves DEF StartModel
      <4> QED BY <1>0, <2>1, <2>2, <4>1 DEF Alone, Single, Switching, Gens
    <3>4. CASE SwitchFails(c)
      <4>1. cmd'[c].pc \notin Switching /\ nodeGen' = nodeGen
        BY <3>4, PcMoves DEF SwitchFails, AfterFailure, Switching
      <4>2. models' = models \/ (models = {} /\ models' = {cmd[c].gen} /\ nodeGen = cmd[c].gen)
        <5>1. CASE At(c, "start")
          <6>1. PICK left \in Stranded(cmd[c].gen, ctl) : models' = left.models
            BY <3>4, <5>1 DEF SwitchFails
          <6>2. \/ left.models = models
                \/ nodeGen = cmd[c].gen /\ left.models = models \cup {cmd[c].gen}
            BY StrandedLeft
          <6>3. nodeGen = cmd[c].gen => models = {}
            BY <5>1 DEF ModelInv, Alone, At
          <6>4. CASE left.models = models
            BY <6>1, <6>4
          <6>5. CASE nodeGen = cmd[c].gen /\ left.models = models \cup {cmd[c].gen}
            BY <6>1, <6>3, <6>5
          <6> QED BY <6>2, <6>4, <6>5
        <5>2. CASE ~At(c, "start")
          <6>1. UNCHANGED models
            BY <3>4, <5>2 DEF SwitchFails
          <6> QED BY <6>1
        <5> QED BY <5>1, <5>2
      <4> QED BY <1>0, <2>1, <2>2, <4>1, <4>2 DEF ModelInv, Alone, Single, Switching, Gens
    <3> QED BY <1>4, <3>1, <3>2, <3>3, <3>4
  <2> QED BY <2>6, <2>7 DEF ModelInv
<1>5. ASSUME NEW v \in Views, View(v) \/ Unreachable(v) PROVE ModelInv'
  <2>1. UNCHANGED <<lock, cmd, sup, nodeGen, models, last>>
    BY <1>5 DEF View, ReadState, FetchController, Adopt, SaveView, Load, Unreachable, spark
  <2>2. Quiet
    BY <2>1 DEF Quiet
  <2> QED BY <2>2, QuietKeeps
<1>6. CASE \/ CheckGpu \/ StartJob \/ EndJob \/ NoRestore \/ LoseJob \/ LostJobEnds
           \/ SupervisorDies \/ Reboot
  <2>1. /\ UNCHANGED <<lock, cmd, nodeGen, last>>
        /\ models' \subseteq models
    BY <1>6 DEF CheckGpu, StartJob, EndJob, NoRestore, LoseJob, LostJobEnds, SupervisorDies,
                Reboot, Mac
  <2>2. sup'.gen = sup.gen /\ (sup'.pc = "released" => sup.pc = "released")
    <3>1. sup \in Supervisors
      BY DEF TypeOK
    <3>2. \/ sup' = sup
          \/ \E pc \in {"checked", "running", "restoring", "finished", "dead"} :
               sup' = [sup EXCEPT !.pc = pc]
      BY <1>6, <3>1 DEF CheckGpu, StartJob, EndJob, NoRestore, LoseJob, LostJobEnds,
                        SupervisorDies, Reboot, Supervisors
    <3> QED BY <3>1, <3>2 DEF Supervisors
  <2>3. Quiet
    BY <2>1, <2>2 DEF Quiet
  <2> QED BY <2>3, QuietKeeps
<1>7. CASE RestoreFences
  <2>1. /\ UNCHANGED <<lock, cmd, models>> /\ last' = last + 1 /\ nodeGen' = last + 1
        /\ sup'.gen = last + 1 /\ sup'.pc = "fenced"
    BY <1>7 DEF RestoreFences, Mac, TypeOK, Supervisors
  <2>2. Drawn'
    BY <1>0, <2>1 DEF ModelInv, Drawn
  <2>3. Alone'
    BY <1>0, <2>1 DEF ModelInv, Drawn, Alone, Switching
  <2> QED BY <2>1, <2>2, <2>3 DEF ModelInv, Single
<1>8. CASE RestoreReleases
  <2>1. /\ UNCHANGED <<lock, cmd, nodeGen, last>> /\ models' = {} /\ sup'.gen = sup.gen
    BY <1>8 DEF RestoreReleases, Mac, TypeOK, Supervisors
  <2>2. Drawn'
    BY <2>1 DEF ModelInv, Drawn
  <2> QED BY <2>1, <2>2 DEF ModelInv, Single, Alone
<1>9. CASE RestoreStarts \/ RestoreFails
  <2>1. /\ UNCHANGED <<lock, cmd, nodeGen, last>>
        /\ sup'.gen = sup.gen /\ sup'.pc \in {"restoring", "finished"}
    BY <1>9 DEF RestoreStarts, RestoreFails, Mac, TypeOK, Supervisors
  <2>2. models' \subseteq models \/ (models = {} /\ models' = {sup.gen} /\ nodeGen = sup.gen)
    <3>1. CASE RestoreStarts
      <4>1. models = {} /\ nodeGen = sup.gen /\ models' = models \cup {sup.gen}
        BY <3>1 DEF RestoreStarts, ModelInv, Alone
      <4> QED BY <4>1
    <3>2. CASE RestoreFails /\ sup.pc = "fenced"
      <4>1. models' = {} \/ models' = models
        BY <3>2 DEF RestoreFails
      <4> QED BY <4>1
    <3>3. CASE RestoreFails /\ sup.pc = "released"
      <4>1. PICK left \in Stranded(sup.gen, sctl) : models' = left.models
        BY <3>3 DEF RestoreFails
      <4>2. \/ left.models = models
            \/ nodeGen = sup.gen /\ left.models = models \cup {sup.gen}
        BY StrandedLeft
      <4>3. nodeGen = sup.gen => models = {}
        BY <3>3 DEF ModelInv, Alone
      <4>4. CASE left.models = models
        BY <4>1, <4>4
      <4>5. CASE nodeGen = sup.gen /\ left.models = models \cup {sup.gen}
        BY <4>1, <4>3, <4>5
      <4> QED BY <4>2, <4>4, <4>5
    <3> QED BY <1>9, <3>1, <3>2, <3>3 DEF RestoreFails
  <2>3. Drawn'
    BY <2>1 DEF ModelInv, Drawn
  <2>4. Alone' /\ Single'
    BY <1>0, <2>1, <2>2 DEF ModelInv, Drawn, Alone, Single, Switching, Gens
  <2> QED BY <2>3, <2>4 DEF ModelInv
<1>10. ASSUME NEW c \in Commands, Fence(c) \/ ReleaseGpu(c) \/ StartModel(c) \/ SwitchFails(c)
       PROVE  cmd[c].pc \in Switching \/ Refused(c)
  BY <1>10 DEF Fence, ReleaseGpu, StartModel, SwitchFails, At, Switching, Refused
<1> QED BY <1>1, <1>2, <1>3, <1>4, <1>5, <1>6, <1>7, <1>8, <1>9, <1>10
        DEF Next, Command, Supervise

LEMMA InitType == Init => TypeOK /\ TriesLeft
<1> SUFFICES ASSUME Init PROVE TypeOK /\ TriesLeft
  OBVIOUS
<1>1. cmd \in [Commands -> Processes]
  BY DEF Init, Processes, Labels, Gens, None
<1>2. view \in [Views -> Looks]
  BY DEF Init, Looks, Allocations, Empty, Gens, None
<1>3. ctl \in Allocations /\ sctl \in Allocations
  <2>1. Empty \in Allocations /\ [gen |-> 1, settled |-> TRUE] \in Allocations
    BY DEF Allocations, Empty, Gens, None
  <2> QED BY <2>1 DEF Init
<1>4. models \subseteq Gens
  <2>1. ctl.gen \in Gens /\ models = {ctl.gen} \ {None}
    BY <1>3 DEF Init, Allocations
  <2> QED BY <2>1, Zenon
<1>5. sup \in Supervisors /\ TriesLeft
  BY AttemptsAssumption DEF Init, TriesLeft, Supervisors, Active, Gens, None
<1> QED BY <1>1, <1>2, <1>3, <1>4, <1>5 DEF Init, TypeOK, Gens

LEMMA InvHolds == Spec => []BatchInv
<1>1. Init => BatchInv
  <2> SUFFICES ASSUME Init PROVE BatchInv
    OBVIOUS
  <2>1. Drawn /\ Alone
    BY DEF Init, Drawn, Alone, Switching, None
  <2>2. Single
    BY InitType DEF Init, Single, TypeOK, Allocations
  <2> QED BY <2>1, <2>2, InitType DEF BatchInv, ModelInv
<1>2. BatchInv /\ [Next]_vars => BatchInv'
  BY TypeStep, TriesStep, ModelStep DEF BatchInv
<1> QED BY <1>1, <1>2, PTL DEF Spec

(* Every reachable state is well typed: in particular the supervisor never  *)
(* makes more attempts to restore than it may.                              *)
THEOREM TypeCorrect == Spec => []TypeOK
<1>1. BatchInv => TypeOK
  BY DEF BatchInv
<1> QED BY <1>1, InvHolds, PTL

LEMMA AtMostOne ==
    ASSUME NEW S, NEW x, S \subseteq {x} PROVE Cardinality(S) <= 1
<1>1. CASE S = {}
  <2>1. Cardinality(S) = 0
    BY <1>1, FS_EmptySet
  <2> QED BY <2>1
<1>2. CASE S = {x}
  <2>1. Cardinality(S) = 1
    BY <1>2, FS_Singleton, Zenon
  <2> QED BY <2>1
<1> QED BY <1>1, <1>2

(* The Mac's controller and the one that restores on the Spark, with a lock *)
(* each, never have two models on the GPU.                                  *)
THEOREM OneModelAtATime == Spec => []OneModel
<1>1. BatchInv => OneModel
  BY AtMostOne DEF BatchInv, ModelInv, Single, OneModel
<1> QED BY <1>1, InvHolds, PTL

-----------------------------------------------------------------------------
(* The GPU keeps the promise of a fenced node towards both controllers.    *)

Gpu == "gpu"

\* The node has been fenced before the first command, and stays fenced.
Recorded == nodeGen # None

LEMMA RecordedStep ==
    ASSUME TypeOK, ModelInv, Recorded, [Next]_vars PROVE Recorded'
<1>1. ASSUME NEW c \in Commands, Fence(c) PROVE Recorded'
  <2>1. nodeGen' = cmd[c].gen /\ cmd[c].pc = "fence"
    BY <1>1 DEF Fence, At
  <2>2. 1 <= cmd[c].gen
    BY <2>1 DEF ModelInv, Drawn, Switching
  <2> QED BY <2>1, <2>2 DEF Recorded, None
<1>2. CASE RestoreFences
  <2>1. nodeGen' = last + 1 /\ last \in Nat
    BY <1>2 DEF RestoreFences, TypeOK, Gens
  <2> QED BY <2>1 DEF Recorded, None
<1>3. UNCHANGED nodeGen \/ RestoreFences \/ \E c \in Commands : Fence(c)
  BY NextCases DEF vars, spark, Mac, Enter, Guard, Preflight, Lock, ReleaseGpu,
     StartModel, SwitchFails, Launch, LaunchFails, SaveRecord, Recover, CommandDies,
     ReadState, FetchController, Adopt, SaveView, Load, Unreachable, CheckGpu, StartJob,
     EndJob, NoRestore, RestoreReleases, RestoreStarts, RestoreFails, LoseJob,
     LostJobEnds, SupervisorDies, Reboot
<1> QED BY <1>1, <1>2, <1>3 DEF Recorded

\* What the node and its GPU may do, as steps of the abstract node.
LEMMA GpuFences ==
    ASSUME nodeGen' \in Gens, models' = models PROVE Promise!Next
<1>1. PICK n \in {Gpu}, g \in Gens : g = nodeGen'
  OBVIOUS
<1>2. Promise!Fence(n, g)
  BY <1>1 DEF Promise!Fence, Gpu
<1> QED BY <1>2 DEF Promise!Next, Gpu

LEMMA GpuStarts ==
    ASSUME Recorded, nodeGen' = nodeGen, models' = models \cup {nodeGen} PROVE Promise!Next
<1>1. PICK n \in {Gpu} : TRUE
  OBVIOUS
<1>2. Promise!Start(n)
  BY <1>1 DEF Promise!Start, Promise!NoGeneration, Recorded, None, Gpu
<1> QED BY <1>2 DEF Promise!Next, Gpu

LEMMA GpuRemoves ==
    ASSUME Recorded, nodeGen' = nodeGen, models' \subseteq models PROVE Promise!Next
<1>1. PICK n \in {Gpu} : TRUE
  OBVIOUS
<1>2. PICK gone \in SUBSET models : gone = models \ models'
  OBVIOUS
<1>3. models \ gone = models'
  BY <1>2
<1>4. Promise!Remove(n, gone)
  BY <1>1, <1>3 DEF Promise!Remove, Promise!NoGeneration, Recorded, None, Gpu
<1> QED BY <1>1, <1>4 DEF Promise!Next, Gpu

LEMMA GpuStep ==
    ASSUME BatchInv, Recorded, [Next]_vars PROVE [Promise!Next]_(Promise!vars)
<1>1. ASSUME UNCHANGED <<nodeGen, models>> PROVE [Promise!Next]_(Promise!vars)
  BY <1>1 DEF Promise!vars
<1>2. ASSUME nodeGen' = nodeGen,
             models' \subseteq models \/ models' = models \cup {nodeGen}
      PROVE  Promise!Next
  BY <1>2, GpuStarts, GpuRemoves
<1>3. ASSUME NEW c \in Commands, Fence(c) PROVE Promise!Next
  <2>1. nodeGen' = cmd[c].gen /\ models' = models /\ cmd[c].gen \in Gens
    BY <1>3 DEF Fence, BatchInv, TypeOK, Processes
  <2> QED BY <2>1, GpuFences
<1>4. CASE RestoreFences
  <2>1. nodeGen' = last + 1 /\ models' = models /\ last + 1 \in Gens
    BY <1>4 DEF RestoreFences, BatchInv, TypeOK, Gens
  <2> QED BY <2>1, GpuFences
<1>5. ASSUME NEW c \in Commands, ReleaseGpu(c) \/ StartModel(c) PROVE Promise!Next
  <2>1. nodeGen' = nodeGen /\ (models' = {} \/ models' = models \cup {nodeGen})
    BY <1>5 DEF ReleaseGpu, StartModel
  <2> QED BY <1>2, <2>1
<1>6. ASSUME NEW c \in Commands, SwitchFails(c) PROVE [Promise!Next]_(Promise!vars)
  <2>1. nodeGen' = nodeGen
    BY <1>6 DEF SwitchFails
  <2>2. CASE At(c, "start")
    <3>1. PICK left \in Stranded(cmd[c].gen, ctl) : models' = left.models
      BY <1>6, <2>2 DEF SwitchFails
    <3>2. models' = models \/ models' = models \cup {nodeGen}
      BY <3>1, StrandedLeft
    <3> QED BY <1>2, <2>1, <3>2
  <2>3. CASE ~At(c, "start")
    BY <1>1, <1>6, <2>1, <2>3 DEF SwitchFails
  <2> QED BY <2>2, <2>3
<1>7. CASE RestoreReleases \/ RestoreStarts \/ Reboot
  <2>1. nodeGen' = nodeGen /\ (models' = {} \/ models' = models \cup {nodeGen})
    BY <1>7 DEF RestoreReleases, RestoreStarts, Reboot, Mac
  <2> QED BY <1>2, <2>1
<1>8. CASE RestoreFails
  <2>1. nodeGen' = nodeGen
    BY <1>8 DEF RestoreFails
  <2>2. CASE sup.pc = "released"
    <3>1. PICK left \in Stranded(sup.gen, sctl) : models' = left.models
      BY <1>8, <2>2 DEF RestoreFails
    <3>2. models' = models \/ models' = models \cup {nodeGen}
      BY <3>1, StrandedLeft
    <3> QED BY <1>2, <2>1, <3>2
  <2>3. CASE sup.pc # "released"
    <3>1. models' \subseteq models
      BY <1>8, <2>3 DEF RestoreFails
    <3> QED BY <1>2, <2>1, <3>1
  <2> QED BY <2>2, <2>3
<1>9. \/ UNCHANGED <<nodeGen, models>>
      \/ RestoreFences \/ RestoreReleases \/ RestoreStarts \/ Reboot \/ RestoreFails
      \/ \E c \in Commands : Fence(c) \/ ReleaseGpu(c) \/ StartModel(c) \/ SwitchFails(c)
  BY NextCases DEF vars, spark, Mac, Enter, Guard, Preflight, Lock, Launch, LaunchFails,
     SaveRecord, Recover, CommandDies, ReadState, FetchController, Adopt, SaveView, Load,
     Unreachable, CheckGpu, StartJob, EndJob, NoRestore, LoseJob, LostJobEnds,
     SupervisorDies
<1> QED BY <1>1, <1>3, <1>4, <1>5, <1>6, <1>7, <1>8, <1>9

(* The GPU is a fenced node for the two controllers together: every fence,  *)
(* release, start and failed start, of a command on the Mac or of a restore *)
(* on the Spark, is a step that FencedNode allows.                          *)
THEOREM GpuIsFenced == Spec => RespectsFencedNode
<1>1. Init => Promise!Init /\ Recorded
  <2> SUFFICES ASSUME Init PROVE Promise!Init /\ Recorded
    OBVIOUS
  <2>1. nodeGen = 1 /\ models \subseteq {1}
    BY DEF Init, Empty, None
  <2>2. 1 \in Nat /\ models \in SUBSET (Nat \cup {0})
    BY <2>1
  <2>3. Promise!Init
    BY <2>1, <2>2 DEF Promise!Init, Promise!NoGeneration, Gens
  <2> QED BY <2>1, <2>3 DEF Recorded, None
<1>2. BatchInv /\ Recorded /\ [Next]_vars => Recorded' /\ [Promise!Next]_(Promise!vars)
  BY RecordedStep, GpuStep DEF BatchInv
<1> QED BY <1>1, <1>2, InvHolds, PTL DEF Spec, RespectsFencedNode, Promise!Spec
-----------------------------------------------------------------------------
(* The turns of the Mac and the Spark, until somebody acts out of turn:     *)
(* what everything below is about.                                         *)

\* A transition of the Mac comes before the launch or after the record is closed.
\* The record is opened once, by the command that launched the supervisor, and only
\* a view that saw it finished closes it; what it adopts is what the restore left.
Ordered ==
    /\ lock # Unlocked => sup.pc = "none" \/ record = "closed"
    /\ record # "none" => sup.pc # "none"
    /\ record = "closed" => sup.pc = "finished"
    /\ \A c \in Commands : cmd[c].pc = "record" => record = "none" /\ sup.pc # "none"
    /\ \A c, d \in Commands : cmd[c].pc = "record" /\ cmd[d].pc = "record" => c = d
    /\ \A v \in Views :
         /\ view[v].pc # "load" => record # "none"
         /\ \/ view[v].pc \in {"fetch", "adopt"}
            \/ view[v].pc = "save" /\ view[v].closed
            => sup.pc = "finished"
         /\ view[v].pc \in {"fetch", "adopt"} => sup.restore
         /\ view[v].pc = "adopt" => view[v].got = sctl

\* Whoever is about to start a model has seen the GPU idle, and the job begins on
\* a GPU without one.
Exclusive ==
    /\ \A c \in Commands : cmd[c].pc = "start" => ~job
    /\ sup.pc = "released" => ~job
    /\ sup.pc \in {"checked", "running"} => models = {}
    /\ job => models = {}

\* The transition under way owns the Sparks.
Owns ==
    /\ \A c \in Commands : cmd[c].pc \in {"release", "start"} => nodeGen = cmd[c].gen
    /\ sup.pc \in {"fenced", "released"} => nodeGen = sup.gen /\ sup.restore

\* The Mac's controller.json names the running model, unless a supervisor has its
\* model to restore: then the copy on the Spark names it until the Mac adopts that.
Named ==
    /\ sup.pc = "none" \/ ~sup.restore \/ Adopted => models \subseteq {ctl.gen}
    /\ sup.pc # "none" /\ sup.restore /\ record # "closed" => models \subseteq {sctl.gen}
    /\ \A v \in Views :
         view[v].pc = "save" /\ view[v].closed /\ sup.restore /\ record = "open" => ctl = sctl

InTurn == Ordered /\ Exclusive /\ Owns /\ Named

\* The process c goes to pc; the others stay where they are.
Goes(c, pc) ==
    /\ cmd'[c].pc = pc
    /\ \A d \in Commands : d # c => cmd'[d] = cmd[d]

LEMMA CommandGoes ==
    ASSUME TypeOK, NEW c \in Commands
    PROVE  /\ Enter(c) \/ Recover(c) => Goes(c, "guard")
           /\ Guard(c) => Goes(c, "end") \/ Goes(c, "preflight") \/ Goes(c, "lock")
           /\ Preflight(c) => Goes(c, "end") \/ Goes(c, "lock") \/ Goes(c, "launch")
           /\ Lock(c) => Goes(c, "fence")
           /\ Fence(c) => Goes(c, "release")
           /\ ReleaseGpu(c) => \/ Goes(c, "end") \/ Goes(c, "recover") \/ Goes(c, "launch")
                               \/ ~job /\ Goes(c, "start")
           /\ StartModel(c) \/ SaveRecord(c) \/ CommandDies(c) => Goes(c, "end")
           /\ SwitchFails(c) \/ LaunchFails(c) => Goes(c, "recover") \/ Goes(c, "end")
           /\ Launch(c) => Goes(c, "record") \/ Goes(c, "recover") \/ Goes(c, "end")
<1>1. ASSUME NEW pc, Goto(c, pc) PROVE Goes(c, pc)
  BY <1>1, PcMoves DEF Goes
<1>2. cmd \in [Commands -> Processes] /\ cmd[c] \in Processes
  BY DEF TypeOK
<1>3. Enter(c) \/ Recover(c) => Goes(c, "guard")
  <2>1. CASE Enter(c)
    <3>1. PICK kind \in {"up", "stop", "batch"} :
            cmd' = [cmd EXCEPT ![c].kind = kind, ![c].pc = "guard"]
      BY <2>1 DEF Enter
    <3> QED BY <1>2, <3>1 DEF Goes, Processes
  <2>2. CASE Recover(c)
    BY <1>2, <2>2 DEF Recover, Goes, Processes
  <2> QED BY <2>1, <2>2
<1>4. Guard(c) => Goes(c, "end") \/ Goes(c, "preflight") \/ Goes(c, "lock")
  BY <1>2 DEF Guard, AfterGuard, Goes, Processes
<1>5. Preflight(c) => Goes(c, "end") \/ Goes(c, "lock") \/ Goes(c, "launch")
  BY <1>1 DEF Preflight
<1>6. Lock(c) => Goes(c, "fence")
  BY <1>2 DEF Lock, Goes, Processes
<1>7. AfterFailure(c) \in {"recover", "end"}
  BY DEF AfterFailure
<1>8. ReleaseGpu(c) => \/ Goes(c, "end") \/ Goes(c, "recover") \/ Goes(c, "launch")
                       \/ ~job /\ Goes(c, "start")
  <2>1. After(c) \in {"start", "end", "launch"}
    <3>1. cmd[c].kind \in {"up", "stop", "batch"}
      BY <1>2 DEF Processes
    <3> QED BY <3>1 DEF After
  <2>2. ReleaseGpu(c) => Goes(c, AfterFailure(c)) \/ (~job /\ Goes(c, After(c)))
    BY <1>1 DEF ReleaseGpu
  <2> QED BY <1>7, <2>1, <2>2
<1>9. Fence(c) => Goes(c, "release")
  BY <1>1 DEF Fence
<1>10. StartModel(c) \/ SaveRecord(c) \/ CommandDies(c) => Goes(c, "end")
  BY <1>1 DEF StartModel, SaveRecord, CommandDies
<1>11. SwitchFails(c) \/ LaunchFails(c) => Goes(c, "recover") \/ Goes(c, "end")
  <2>1. SwitchFails(c) \/ LaunchFails(c) => Goes(c, AfterFailure(c))
    BY <1>1 DEF SwitchFails, LaunchFails
  <2> QED BY <1>7, <2>1
<1>12. Launch(c) => Goes(c, "record") \/ Goes(c, "recover") \/ Goes(c, "end")
  <2>1. Launch(c) => Goes(c, "record") \/ Goes(c, AfterFailure(c))
    BY <1>1 DEF Launch
  <2> QED BY <1>7, <2>1
<1> QED BY <1>3, <1>4, <1>5, <1>6, <1>8, <1>9, <1>10, <1>11, <1>12

\* What a view and the supervisor leave alone.
LEMMA ViewStays ==
    ASSUME NEW v, View(v) \/ Unreachable(v)
    PROVE  UNCHANGED <<lock, cmd, sctl, sup, nodeGen, models, job, last>>
BY DEF View, Load, ReadState, FetchController, Adopt, SaveView, Unreachable, spark

LEMMA SparkStays ==
    ASSUME Supervise \/ LoseJob \/ LostJobEnds \/ SupervisorDies \/ Reboot
    PROVE  UNCHANGED <<lock, cmd, view, record, ctl>>
BY DEF Supervise, CheckGpu, StartJob, EndJob, NoRestore, RestoreFences, RestoreReleases,
       RestoreStarts, RestoreFails, LoseJob, LostJobEnds, SupervisorDies, Reboot, Mac

\* Once it is over it stays so, and its task does not change.
LEMMA SupervisorGoes ==
    ASSUME TypeOK, Supervise \/ LoseJob \/ LostJobEnds \/ SupervisorDies \/ Reboot
    PROVE  /\ sup'.pc = "none" <=> sup.pc = "none"
           /\ sup.pc = "finished" => sup'.pc = "finished" /\ UNCHANGED sctl
           /\ sup'.restore = sup.restore
<1>1. sup \in Supervisors
  BY DEF TypeOK
<1>2. CASE Supervise
  BY <1>1, <1>2 DEF Supervise, CheckGpu, StartJob, EndJob, NoRestore, RestoreFences,
           RestoreReleases, RestoreStarts, RestoreFails, Supervisors
<1>3. CASE LoseJob \/ LostJobEnds \/ SupervisorDies \/ Reboot
  BY <1>1, <1>3 DEF LoseJob, LostJobEnds, SupervisorDies, Reboot, Supervisors, Active
<1> QED BY <1>2, <1>3

\* While a command is inside its transition, no supervisor is at work.
LEMMA MacIsAlone ==
    ASSUME BatchInv, Ordered, NEW c \in Commands, cmd[c].pc \in Switching
    PROVE  /\ lock = c /\ \A d \in Commands : cmd[d].pc \in Switching => d = c
           /\ sup.pc = "none" \/ record = "closed"
           /\ sup.pc \in {"none", "finished"}
<1>1. \A d \in Commands : cmd[d].pc \in Switching => lock = d
  BY DEF BatchInv, ModelInv, Drawn
<1>2. lock = c /\ lock # Unlocked
  BY <1>1, CommandsAssumption DEF Unlocked
<1> QED BY <1>1, <1>2 DEF Ordered

\* Neither Launch nor SaveRecord nor Lock.
LEMMA CommandStays ==
    ASSUME TypeOK, NEW c \in Commands,
           \/ Enter(c) \/ Guard(c) \/ Preflight(c) \/ Fence(c) \/ ReleaseGpu(c)
           \/ StartModel(c) \/ SwitchFails(c) \/ LaunchFails(c) \/ Recover(c) \/ CommandDies(c)
    PROVE  /\ UNCHANGED <<sup, record, view, sctl, job, crossed>>
           /\ lock' \in {lock, Unlocked}
           /\ \A d \in Commands : cmd'[d].pc = "record" => cmd[d].pc = "record"
<1>1. UNCHANGED <<sup, record, view, sctl, job, crossed>>
  BY DEF Enter, Guard, Preflight, Fence, ReleaseGpu, StartModel, SwitchFails, LaunchFails,
         Recover, CommandDies, spark
<1>2. lock' \in {lock, Unlocked}
  BY DEF Enter, Guard, Preflight, Fence, ReleaseGpu, StartModel, SwitchFails, LaunchFails,
         Recover, CommandDies, Unlock
<1>3. \A d \in Commands : cmd'[d].pc = "record" => cmd[d].pc = "record"
  BY CommandGoes DEF Goes
<1> QED BY <1>1, <1>2, <1>3

\* The launch in its turn is the first, and finds neither record nor view.
LEMMA LaunchIsFirst ==
    ASSUME BatchInv, Ordered, NEW c \in Commands, Launch(c), ~crossed'
    PROVE  /\ sup.pc = "none" /\ record = "none" /\ lock = Unlocked
           /\ sup'.pc = "starting" /\ sctl' = ctl
           /\ \A v \in Views : view[v].pc = "load"
           /\ UNCHANGED <<lock, view, record, ctl, nodeGen, models, job>>
           /\ ~Adopted'
<1>1. /\ sup.pc = "none" /\ lock = Unlocked /\ sup'.pc = "starting" /\ sctl' = ctl
      /\ UNCHANGED <<lock, view, record, ctl, nodeGen, models, job>>
  BY DEF Launch, Crosses
<1>2. record = "none"
  BY <1>1 DEF Ordered
<1>3. \A v \in Views : view[v].pc = "load"
  BY <1>2 DEF Ordered
<1> QED BY <1>1, <1>2, <1>3 DEF Adopted

\* What a view does to itself, to the record and to the Mac's controller.json.
LEMMA ViewGoes ==
    ASSUME BatchInv, Ordered, NEW v \in Views, View(v) \/ Unreachable(v), ~crossed'
    PROVE  /\ \A w \in Views : w # v => view'[w] = view[w]
           /\ record # "none" /\ sup.pc # "none"
           /\ \/ record' = record
              \/ record = "open" /\ record' = "closed" /\ view[v].pc = "save" /\ view[v].closed
           /\ view'[v].pc \in {"fetch", "adopt"} => sup.pc = "finished" /\ sup.restore
           /\ view'[v].pc = "adopt" => view'[v].got = sctl
           /\ view'[v].pc = "save" /\ view'[v].closed => sup.pc = "finished"
           /\ \/ ctl' = ctl /\ (view'[v].pc = "save" /\ view'[v].closed => ~sup.restore)
              \/ /\ ctl' = sctl /\ view'[v].pc = "save" /\ view'[v].closed
                 /\ record = "open" /\ sup.restore /\ sup.pc = "finished"
<1>1. view \in [Views -> Looks] /\ view[v] \in Looks /\ record \in {"none", "open", "closed"}
  BY DEF BatchInv, TypeOK
<1>2. record # "none" /\ sup.pc # "none"
  <2>1. record # "none"
    BY DEF View, Load, ReadState, FetchController, Adopt, SaveView, Unreachable, Ordered
  <2> QED BY <2>1 DEF Ordered
<1>3. CASE Load(v) \/ Unreachable(v)
  BY <1>1, <1>2, <1>3 DEF Load, Unreachable, Looks
<1>4. CASE ReadState(v)
  BY <1>1, <1>2, <1>4 DEF ReadState, Looks
<1>5. CASE FetchController(v)
  <2>1. sup.pc = "finished" /\ sup.restore
    BY <1>5 DEF FetchController, Ordered
  <2> QED BY <1>1, <1>2, <1>5, <2>1 DEF FetchController, Looks
<1>6. CASE Adopt(v)
  <2>1. sup.pc = "finished" /\ sup.restore /\ view[v].got = sctl
    BY <1>6 DEF Adopt, Ordered
  <2>2. /\ lock = Unlocked => record = "open"
    BY <1>1, <1>2, <1>6 DEF Adopt, Crosses
  <2> QED BY <1>1, <1>2, <1>6, <2>1, <2>2 DEF Adopt, Looks
<1>7. CASE SaveView(v)
  <2>1. record = "closed" => view[v].closed
    BY <1>7 DEF SaveView, Crosses
  <2>2. view'[v].pc = "load" /\ \A w \in Views : w # v => view'[w] = view[w]
    BY <1>1, <1>7 DEF SaveView, Looks
  <2>3. /\ ctl' = ctl /\ view[v].pc = "save"
        /\ record' = IF view[v].closed THEN "closed" ELSE "open"
    BY <1>7 DEF SaveView
  <2> QED BY <1>1, <1>2, <2>1, <2>2, <2>3
<1> QED BY <1>3, <1>4, <1>5, <1>6, <1>7 DEF View

LEMMA OrderedStep ==
    ASSUME BatchInv, InTurn, ~crossed', [Next]_vars PROVE Ordered'
<1> USE DEF InTurn
<1>1. CASE UNCHANGED vars
  BY <1>1 DEF vars, Ordered
<1>2. ASSUME NEW c \in Commands,
             \/ Enter(c) \/ Guard(c) \/ Preflight(c) \/ Fence(c) \/ ReleaseGpu(c)
             \/ StartModel(c) \/ SwitchFails(c) \/ LaunchFails(c) \/ Recover(c) \/ CommandDies(c)
      PROVE  Ordered'
  <2>1. /\ UNCHANGED <<sup, record, view, sctl>> /\ lock' \in {lock, Unlocked}
        /\ \A d \in Commands : cmd'[d].pc = "record" => cmd[d].pc = "record"
    BY <1>2, CommandStays DEF BatchInv
  <2> QED BY <2>1 DEF Ordered
<1>3. ASSUME NEW c \in Commands, Lock(c) PROVE Ordered'
  <2>1. UNCHANGED <<sup, record, view, sctl>> /\ (sup.pc = "none" \/ record = "closed")
    BY <1>3 DEF Lock, Crosses, spark
  <2>2. \A d \in Commands : cmd'[d].pc = "record" => cmd[d].pc = "record"
    BY <1>3, CommandGoes DEF Goes, BatchInv
  <2> QED BY <2>1, <2>2 DEF Ordered
<1>4. ASSUME NEW c \in Commands, Launch(c) PROVE Ordered'
  <2>1. \A d \in Commands : cmd'[d].pc = "record" => d = c
    BY <1>4, CommandGoes, LaunchIsFirst DEF Goes, BatchInv, Ordered
  <2> QED BY <1>4, <2>1, LaunchIsFirst DEF Ordered
<1>5. ASSUME NEW c \in Commands, SaveRecord(c) PROVE Ordered'
  <2>1. record' = "open" /\ cmd[c].pc = "record" /\ UNCHANGED <<lock, sup, view, sctl>>
    BY <1>5 DEF SaveRecord, At, spark
  <2>2. record = "none" /\ sup.pc # "none"
    BY <2>1 DEF Ordered
  <2>3. \A d \in Commands : cmd'[d].pc # "record"
    BY <1>5, <2>1, CommandGoes DEF Goes, BatchInv, Ordered
  <2> QED BY <2>1, <2>2, <2>3 DEF Ordered
<1>6. ASSUME NEW v \in Views, View(v) \/ Unreachable(v) PROVE Ordered'
  <2>1. UNCHANGED <<lock, cmd, sctl, sup>>
    BY <1>6, ViewStays
  <2>2. record' # "none" /\ (record = "closed" => record' = "closed")
    BY <1>6, ViewGoes
  <2>3. record' = "closed" => sup.pc = "finished"
    BY <1>6, ViewGoes DEF Ordered
  <2>4. sup.pc # "none" /\ \A c \in Commands : cmd[c].pc # "record"
    BY <1>6, ViewGoes DEF Ordered
  <2>5. \A w \in Views :
          /\ \/ view'[w].pc \in {"fetch", "adopt"}
             \/ view'[w].pc = "save" /\ view'[w].closed
             => sup.pc = "finished"
          /\ view'[w].pc \in {"fetch", "adopt"} => sup.restore
          /\ view'[w].pc = "adopt" => view'[w].got = sctl
    BY <1>6, ViewGoes DEF Ordered
  <2> QED BY <2>1, <2>2, <2>3, <2>4, <2>5 DEF Ordered
<1>7. CASE Supervise \/ LoseJob \/ LostJobEnds \/ SupervisorDies \/ Reboot
  <2>1. UNCHANGED <<lock, cmd, record, view>>
    BY <1>7, SparkStays
  <2>2. /\ sup'.pc = "none" <=> sup.pc = "none"
        /\ sup.pc = "finished" => sup'.pc = "finished" /\ UNCHANGED sctl
        /\ sup'.restore = sup.restore
    BY <1>7, SupervisorGoes DEF BatchInv
  <2> QED BY <2>1, <2>2 DEF Ordered
<1> QED BY <1>1, <1>2, <1>3, <1>4, <1>5, <1>6, <1>7 DEF Next, Command

LEMMA ExclusiveStep ==
    ASSUME BatchInv, InTurn, ~crossed', [Next]_vars PROVE Exclusive'
<1> USE DEF InTurn
<1>1. CASE UNCHANGED vars
  BY <1>1 DEF vars, Exclusive
<1>2. ASSUME NEW c \in Commands, Launch(c) PROVE Exclusive'
  <2>1. UNCHANGED <<job, models>> /\ sup'.pc = "starting"
    BY <1>2 DEF Launch
  <2>2. \A d \in Commands : cmd'[d].pc = "start" => cmd[d].pc = "start"
    BY <1>2, CommandGoes DEF Goes, BatchInv
  <2> QED BY <2>1, <2>2 DEF Exclusive
<1>3. ASSUME NEW c \in Commands, ReleaseGpu(c) PROVE Exclusive'
  <2>1. UNCHANGED <<sup, job>> /\ models' = {}
    BY <1>3 DEF ReleaseGpu
  <2>2. \A d \in Commands : cmd'[d].pc = "start" => cmd[d].pc = "start" \/ ~job
    BY <1>3, CommandGoes DEF Goes, BatchInv
  <2> QED BY <2>1, <2>2 DEF Exclusive
<1>4. ASSUME NEW c \in Commands, StartModel(c) \/ (SwitchFails(c) /\ At(c, "start"))
      PROVE  Exclusive'
  <2>1. UNCHANGED <<sup, job>>
    BY <1>4 DEF StartModel, SwitchFails
  <2>2. \A d \in Commands : cmd'[d].pc = "start" => cmd[d].pc = "start"
    BY <1>4, CommandGoes DEF Goes, BatchInv
  <2>3. cmd[c].pc = "start"
    BY <1>4 DEF StartModel, At
  <2>4. sup.pc \in {"none", "finished"} /\ ~job
    BY <2>3, MacIsAlone DEF Switching, Exclusive
  <2> QED BY <2>1, <2>2, <2>4 DEF Exclusive
<1>5. ASSUME NEW c \in Commands,
             \/ Enter(c) \/ Guard(c) \/ Preflight(c) \/ Lock(c) \/ Fence(c)
             \/ SwitchFails(c) /\ ~At(c, "start")
             \/ LaunchFails(c) \/ SaveRecord(c) \/ Recover(c) \/ CommandDies(c)
      PROVE  Exclusive'
  <2>1. UNCHANGED <<sup, job, models>>
    BY <1>5 DEF Enter, Guard, Preflight, Lock, Fence, SwitchFails, LaunchFails, SaveRecord,
                Recover, CommandDies, spark
  <2>2. \A d \in Commands : cmd'[d].pc = "start" => cmd[d].pc = "start"
    BY <1>5, CommandGoes DEF Goes, BatchInv
  <2> QED BY <2>1, <2>2 DEF Exclusive
<1>6. ASSUME NEW v \in Views, View(v) \/ Unreachable(v) PROVE Exclusive'
  <2>1. UNCHANGED <<sup, cmd, job, models>>
    BY <1>6, ViewStays
  <2> QED BY <2>1 DEF Exclusive
<1>7. CASE CheckGpu \/ NoRestore \/ LoseJob \/ SupervisorDies \/ RestoreFences
  <2>1. UNCHANGED <<cmd, job, models>>
    BY <1>7 DEF CheckGpu, NoRestore, LoseJob, SupervisorDies, RestoreFences, Mac
  <2>2. sup'.pc # "released" /\ (sup'.pc \in {"checked", "running"} => models = {})
    <3>1. sup \in Supervisors
      BY DEF BatchInv, TypeOK
    <3> QED BY <1>7, <3>1 DEF CheckGpu, NoRestore, LoseJob, SupervisorDies, RestoreFences,
                              Supervisors
  <2> QED BY <2>1, <2>2 DEF Exclusive
<1>8. CASE StartJob
  <2>1. UNCHANGED <<cmd, models>> /\ sup.pc = "checked" /\ sup'.pc = "running"
    BY <1>8 DEF StartJob, Mac, BatchInv, TypeOK, Supervisors
  <2>2. \A c \in Commands : cmd[c].pc # "start"
    BY <2>1, MacIsAlone DEF Switching
  <2> QED BY <2>1, <2>2 DEF Exclusive
<1>9. CASE EndJob \/ LostJobEnds \/ Reboot
  <2>1. UNCHANGED cmd /\ ~job' /\ models' \subseteq models
    BY <1>9 DEF EndJob, LostJobEnds, Reboot, Mac
  <2>2. sup'.pc \in {"checked", "running"} => sup.pc = sup'.pc
    BY <1>9 DEF EndJob, LostJobEnds, Reboot, BatchInv, TypeOK, Supervisors, Active
  <2> QED BY <2>1, <2>2 DEF Exclusive
<1>10. CASE RestoreReleases \/ RestoreStarts \/ RestoreFails
  <2>1. UNCHANGED <<cmd, job>>
    BY <1>10 DEF RestoreReleases, RestoreStarts, RestoreFails, Mac
  <2>2. /\ sup'.pc \in {"released", "restoring", "finished"}
        /\ sup'.pc = "released" => ~job
    BY <1>10 DEF RestoreReleases, RestoreStarts, RestoreFails, BatchInv, TypeOK, Supervisors
  <2>3. job => models' \subseteq models
    BY <1>10 DEF RestoreReleases, RestoreStarts, RestoreFails, Exclusive
  <2> QED BY <2>1, <2>2, <2>3 DEF Exclusive
<1> QED BY <1>1, <1>2, <1>3, <1>4, <1>5, <1>6, <1>7, <1>8, <1>9, <1>10
        DEF Next, Command, Supervise

LEMMA OwnsStep ==
    ASSUME BatchInv, InTurn, ~crossed', [Next]_vars PROVE Owns'
<1> USE DEF InTurn
<1>1. CASE UNCHANGED vars
  BY <1>1 DEF vars, Owns
<1>2. ASSUME NEW c \in Commands, Fence(c) PROVE Owns'
  <2>1. /\ nodeGen' = cmd[c].gen /\ UNCHANGED sup /\ cmd'[c].gen = cmd[c].gen
        /\ cmd[c].pc \in Switching
    BY <1>2, PcMoves DEF Fence, At, Switching, BatchInv
  <2>2. /\ sup.pc \in {"none", "finished"}
        /\ \A d \in Commands : cmd[d].pc \in Switching => d = c
    BY <2>1, MacIsAlone
  <2>3. \A d \in Commands : d # c => cmd'[d].pc \notin {"release", "start"}
    BY <1>2, <2>2, CommandGoes DEF Goes, Switching, BatchInv
  <2> QED BY <2>1, <2>2, <2>3 DEF Owns
<1>3. ASSUME NEW c \in Commands, ReleaseGpu(c) PROVE Owns'
  <2>1. UNCHANGED <<nodeGen, sup>> /\ nodeGen = cmd[c].gen
    BY <1>3 DEF ReleaseGpu
  <2>2. cmd'[c].gen = cmd[c].gen
    <3>1. Goto(c, AfterFailure(c)) \/ Goto(c, After(c))
      BY <1>3 DEF ReleaseGpu
    <3> QED BY <3>1, PcMoves DEF BatchInv
  <2>3. \A d \in Commands : d # c => cmd'[d] = cmd[d]
    BY <1>3, CommandGoes DEF Goes, BatchInv
  <2> QED BY <2>1, <2>2, <2>3 DEF Owns
<1>4. ASSUME NEW c \in Commands, \/ Enter(c) \/ Guard(c) \/ Preflight(c) \/ Lock(c)
                                 \/ StartModel(c) \/ SwitchFails(c) \/ Launch(c)
                                 \/ LaunchFails(c) \/ SaveRecord(c) \/ Recover(c)
                                 \/ CommandDies(c)
      PROVE  Owns'
  <2>1. UNCHANGED nodeGen /\ (UNCHANGED sup \/ sup'.pc = "starting")
    BY <1>4 DEF Enter, Guard, Preflight, Lock, StartModel, SwitchFails, Launch, LaunchFails,
                SaveRecord, Recover, CommandDies, spark
  <2>2. /\ cmd'[c].pc \notin {"release", "start"}
        /\ \A d \in Commands : d # c => cmd'[d] = cmd[d]
    BY <1>4, CommandGoes DEF Goes, BatchInv
  <2> QED BY <2>1, <2>2 DEF Owns
<1>5. ASSUME NEW v \in Views, View(v) \/ Unreachable(v) PROVE Owns'
  BY <1>5, ViewStays DEF Owns
<1>6. CASE RestoreFences
  <2>1. /\ UNCHANGED cmd /\ nodeGen' = last + 1 /\ sup'.gen = last + 1 /\ sup'.restore
        /\ sup.pc = "restoring"
    BY <1>6 DEF RestoreFences, Mac, BatchInv, TypeOK, Supervisors
  <2>2. \A c \in Commands : cmd[c].pc \notin Switching
    BY <2>1, MacIsAlone
  <2> QED BY <2>1, <2>2 DEF Owns, Switching
<1>7. CASE \/ CheckGpu \/ StartJob \/ EndJob \/ NoRestore \/ RestoreReleases \/ RestoreStarts
           \/ RestoreFails \/ LoseJob \/ LostJobEnds \/ SupervisorDies \/ Reboot
  <2>1. UNCHANGED <<cmd, nodeGen>>
    BY <1>7 DEF CheckGpu, StartJob, EndJob, NoRestore, RestoreReleases, RestoreStarts,
                RestoreFails, LoseJob, LostJobEnds, SupervisorDies, Reboot, Mac
  <2>2. /\ sup'.gen = sup.gen /\ sup'.restore = sup.restore
        /\ sup'.pc \in {"fenced", "released"} => sup.pc \in {"fenced", "released"}
    <3>1. sup \in Supervisors
      BY DEF BatchInv, TypeOK
    <3>2. CASE CheckGpu \/ StartJob \/ EndJob \/ NoRestore \/ LoseJob \/ LostJobEnds
      BY <3>1, <3>2 DEF CheckGpu, StartJob, EndJob, NoRestore, LoseJob, LostJobEnds, Supervisors
    <3>3. CASE RestoreReleases \/ RestoreStarts \/ RestoreFails
      BY <3>1, <3>3 DEF RestoreReleases, RestoreStarts, RestoreFails, Supervisors
    <3>4. CASE SupervisorDies \/ Reboot
      BY <3>1, <3>4 DEF SupervisorDies, Reboot, Supervisors
    <3> QED BY <1>7, <3>2, <3>3, <3>4
  <2> QED BY <2>1, <2>2 DEF Owns
<1> QED BY <1>1, <1>2, <1>3, <1>4, <1>5, <1>6, <1>7 DEF Next, Command, Supervise

\* Who is about to start a model has removed the others.
LEMMA StartsAlone ==
    ASSUME Owns, Alone
    PROVE  /\ \A c \in Commands : cmd[c].pc = "start" => models = {}
           /\ sup.pc = "released" => models = {}
BY DEF Owns, Alone

\* A failed start on the Mac: nothing has changed, or the books name what is left.
LEMMA CommandFails ==
    ASSUME BatchInv, Owns, NEW c \in Commands, SwitchFails(c)
    PROVE  \/ UNCHANGED <<ctl, models>>
           \/ /\ cmd[c].pc = "start" /\ models = {} /\ ctl'.gen = cmd[c].gen
              /\ models' \subseteq {cmd[c].gen}
<1>1. CASE At(c, "start")
  <2>1. models = {} /\ cmd[c].pc = "start"
    BY <1>1, StartsAlone DEF BatchInv, ModelInv, At
  <2>2. PICK left \in Stranded(cmd[c].gen, ctl) : ctl' = left.ctl /\ models' = left.models
    BY <1>1 DEF SwitchFails
  <2>3. \/ left.ctl = ctl /\ left.models = models
        \/ /\ left.ctl = [gen |-> cmd[c].gen, settled |-> FALSE]
           /\ \/ left.models = models
              \/ nodeGen = cmd[c].gen /\ left.models = models \cup {cmd[c].gen}
    BY StrandedLeft
  <2> QED BY <2>1, <2>2, <2>3
<1>2. CASE ~At(c, "start")
  BY <1>2 DEF SwitchFails
<1> QED BY <1>1, <1>2

LEMMA SupervisorFails ==
    ASSUME BatchInv, Owns, RestoreFails
    PROVE  \/ UNCHANGED <<sctl, models>>
           \/ UNCHANGED sctl /\ models' = {}
           \/ /\ sup.pc = "released" /\ models = {} /\ sctl'.gen = sup.gen
              /\ models' \subseteq {sup.gen}
<1>1. CASE sup.pc = "released"
  <2>1. models = {}
    BY <1>1, StartsAlone DEF BatchInv, ModelInv
  <2>2. PICK left \in Stranded(sup.gen, sctl) : sctl' = left.ctl /\ models' = left.models
    BY <1>1 DEF RestoreFails
  <2>3. \/ left.ctl = sctl /\ left.models = models
        \/ /\ left.ctl = [gen |-> sup.gen, settled |-> FALSE]
           /\ \/ left.models = models
              \/ nodeGen = sup.gen /\ left.models = models \cup {sup.gen}
    BY StrandedLeft
  <2> QED BY <1>1, <2>1, <2>2, <2>3
<1>2. CASE sup.pc # "released"
  BY <1>2 DEF RestoreFails
<1> QED BY <1>1, <1>2

\* A transition of the Mac in its turn: no view has anything to adopt.
LEMMA NamedByMac ==
    ASSUME Ordered, Named, UNCHANGED <<sup, record, view>>, models' \subseteq {ctl'.gen},
           sup.pc = "none" \/ record = "closed"
    PROVE  Named'
BY DEF Ordered, Named, Adopted

LEMMA NamedStep ==
    ASSUME BatchInv, InTurn, ~crossed', [Next]_vars PROVE Named'
<1> USE DEF InTurn
<1>1. CASE UNCHANGED vars
  BY <1>1 DEF vars, Named, Adopted
<1>2. ASSUME NEW c \in Commands,
             \/ Enter(c) \/ Guard(c) \/ Preflight(c) \/ Fence(c) \/ LaunchFails(c)
             \/ Recover(c) \/ CommandDies(c)
      PROVE  Named'
  <2>1. UNCHANGED <<sup, record, view, models, ctl, sctl>>
    BY <1>2 DEF Enter, Guard, Preflight, Fence, LaunchFails, Recover, CommandDies, spark
  <2> QED BY <2>1 DEF Named, Adopted
<1>3. ASSUME NEW c \in Commands, Lock(c) PROVE Named'
  <2>1. /\ UNCHANGED <<sup, record, view, models>> /\ (sup.pc = "none" \/ record = "closed")
    BY <1>3 DEF Lock, Crosses, spark
  <2>2. ctl'.gen = ctl.gen
    BY <1>3 DEF Lock, BatchInv, TypeOK, Allocations
  <2>3. models \subseteq {ctl.gen}
    BY <2>1 DEF Named, Adopted
  <2> QED BY <2>1, <2>2, <2>3, NamedByMac
<1>4. ASSUME NEW c \in Commands, ReleaseGpu(c) \/ StartModel(c) \/ SwitchFails(c)
      PROVE  Named'
  <2>1. UNCHANGED <<sup, record, view, sctl>>
    BY <1>4 DEF ReleaseGpu, StartModel, SwitchFails
  <2>2. CASE UNCHANGED <<ctl, models>>
    BY <2>1, <2>2 DEF Named, Adopted
  <2>3. CASE ~UNCHANGED <<ctl, models>>
    <3>1. cmd[c].pc \in Switching
      BY <1>4, <2>3, CommandFails DEF ReleaseGpu, StartModel, At, Switching
    <3>2. sup.pc = "none" \/ record = "closed"
      BY <3>1, MacIsAlone
    <3>3. models' \subseteq {ctl'.gen}
      <4>1. CASE ReleaseGpu(c)
        <5>1. models' = {}
          BY <4>1 DEF ReleaseGpu
        <5> QED BY <5>1
      <4>2. CASE StartModel(c)
        <5>1. models = {}
          BY <4>2, StartsAlone DEF StartModel, At, BatchInv, ModelInv
        <5>2. models' = {cmd[c].gen} /\ ctl'.gen = cmd[c].gen
          BY <4>2, <5>1 DEF StartModel
        <5> QED BY <5>2
      <4>3. CASE SwitchFails(c)
        BY <2>3, <4>3, CommandFails
      <4> QED BY <1>4, <4>1, <4>2, <4>3
    <3> QED BY <2>1, <3>2, <3>3, NamedByMac
  <2> QED BY <2>2, <2>3
<1>5. ASSUME NEW c \in Commands, Launch(c) PROVE Named'
  <2>1. /\ sup.pc = "none" /\ UNCHANGED <<record, view, models, ctl>> /\ sctl' = ctl
        /\ \A v \in Views : view[v].pc = "load"
        /\ ~Adopted'
    BY <1>5, LaunchIsFirst
  <2>2. models \subseteq {ctl.gen}
    BY <2>1 DEF Named
  <2> QED BY <2>1, <2>2 DEF Named
<1>6. ASSUME NEW c \in Commands, SaveRecord(c) PROVE Named'
  <2>1. /\ UNCHANGED <<sup, view, models, ctl, sctl>> /\ record' = "open"
        /\ cmd[c].pc = "record"
    BY <1>6 DEF SaveRecord, At, spark
  <2>2. record = "none" /\ \A v \in Views : view[v].pc = "load"
    BY <2>1 DEF Ordered
  <2> QED BY <2>1, <2>2 DEF Named, Adopted
<1>7. ASSUME NEW v \in Views, View(v) \/ Unreachable(v) PROVE Named'
  <2>1. UNCHANGED <<sup, models, sctl>>
    BY <1>7, ViewStays
  <2>2. /\ \A w \in Views : w # v => view'[w] = view[w]
        /\ record # "none" /\ sup.pc # "none"
        /\ \/ record' = record
           \/ record = "open" /\ record' = "closed" /\ view[v].pc = "save" /\ view[v].closed
    BY <1>7, ViewGoes
  <2>3. record \in {"none", "open", "closed"}
    BY DEF BatchInv, TypeOK
  <2>4. CASE ctl' = ctl /\ (view'[v].pc = "save" /\ view'[v].closed => ~sup.restore)
    <3>1. Adopted' => Adopted \/ ~sup.restore
      BY <2>2, <2>4 DEF Adopted
    <3> QED BY <2>1, <2>2, <2>4, <3>1 DEF Named
  <2>5. CASE /\ ctl' = sctl /\ view'[v].pc = "save" /\ view'[v].closed
             /\ record = "open" /\ sup.restore
    <3>1. models \subseteq {sctl.gen}
      BY <2>2, <2>5 DEF Named
    <3> QED BY <2>1, <2>2, <2>5, <3>1 DEF Named
  <2> QED BY <1>7, <2>4, <2>5, ViewGoes
<1>8. CASE CheckGpu \/ StartJob \/ EndJob \/ NoRestore \/ LoseJob \/ LostJobEnds \/ SupervisorDies
  <2>1. UNCHANGED <<record, view, models, ctl, sctl>>
    BY <1>8 DEF CheckGpu, StartJob, EndJob, NoRestore, LoseJob, LostJobEnds, SupervisorDies, Mac
  <2>2. sup'.restore = sup.restore /\ (sup'.pc = "none" <=> sup.pc = "none")
    BY <1>8, SupervisorGoes DEF Supervise, BatchInv
  <2> QED BY <2>1, <2>2 DEF Named, Adopted
<1>9. CASE Reboot
  <2>1. models' = {} /\ UNCHANGED <<record, view, ctl, sctl>>
    BY <1>9 DEF Reboot, Mac
  <2>2. sup'.restore = sup.restore
    BY <1>9, SupervisorGoes DEF BatchInv
  <2> QED BY <2>1, <2>2 DEF Named
<1>10. CASE RestoreFences \/ RestoreReleases \/ RestoreStarts \/ RestoreFails
  <2>1. /\ UNCHANGED <<record, view, ctl>> /\ sup'.restore = sup.restore /\ sup'.pc # "none"
        /\ sup.pc \notin {"none", "finished"}
    BY <1>10 DEF RestoreFences, RestoreReleases, RestoreStarts, RestoreFails, Mac, BatchInv,
                 TypeOK, Supervisors
  <2>2. sup.restore
    BY <1>10 DEF RestoreFences, RestoreReleases, RestoreStarts, RestoreFails, Owns
  <2>3. /\ ~Adopted /\ ~Adopted'
        /\ \A v \in Views : ~(view'[v].pc = "save" /\ view'[v].closed)
    BY <2>1 DEF Adopted, Ordered
  <2>4. models \subseteq {sctl.gen}
    BY <2>1, <2>2, <2>3 DEF Named, Adopted
  <2>5. models' \subseteq {sctl'.gen}
    <3>1. CASE RestoreFences
      <4>1. UNCHANGED models /\ sctl'.gen = sctl.gen
        BY <3>1 DEF RestoreFences, BatchInv, TypeOK, Allocations
      <4> QED BY <2>4, <4>1
    <3>2. CASE RestoreReleases
      <4>1. models' = {}
        BY <3>2 DEF RestoreReleases
      <4> QED BY <4>1
    <3>3. CASE RestoreStarts
      <4>1. models = {}
        BY <3>3, StartsAlone DEF RestoreStarts, BatchInv, ModelInv
      <4>2. models' = {sup.gen} /\ sctl'.gen = sup.gen
        BY <3>3, <4>1 DEF RestoreStarts
      <4> QED BY <4>2
    <3>4. CASE RestoreFails
      BY <2>4, <3>4, SupervisorFails
    <3> QED BY <1>10, <3>1, <3>2, <3>3, <3>4
  <2> QED BY <2>1, <2>2, <2>3, <2>5 DEF Named
<1> QED BY <1>1, <1>2, <1>3, <1>4, <1>5, <1>6, <1>7, <1>8, <1>9, <1>10
        DEF Next, Command, Supervise

LEMMA InTurnHolds == Spec => [](crossed \/ InTurn)
<1>1. Init => crossed \/ InTurn
  <2> SUFFICES ASSUME Init PROVE Ordered /\ Exclusive /\ Owns /\ Named
    BY DEF InTurn
  <2> QED BY DEF Init, Ordered, Exclusive, Owns, Named, Adopted, None
<1>2. BatchInv /\ (crossed \/ InTurn) /\ [Next]_vars => (crossed \/ InTurn)'
  <2> SUFFICES ASSUME BatchInv, crossed \/ InTurn, [Next]_vars, ~crossed' PROVE InTurn'
    OBVIOUS
  <2>1. InTurn
    BY CrossedStep DEF BatchInv, TypeOK
  <2> QED BY <2>1, OrderedStep, ExclusiveStep, OwnsStep, NamedStep DEF InTurn
<1> QED BY <1>1, <1>2, InvHolds, PTL DEF Spec

(* Whatever fails, whoever is killed and however the commands overlap, the  *)
(* job is the only process on the GPU until somebody acts out of turn: also *)
(* a job that its supervisor has lost.                                      *)
THEOREM JobIsAlone == Spec => []JobAlone
<1>1. crossed \/ InTurn => JobAlone
  BY DEF InTurn, Exclusive, JobAlone
<1> QED BY <1>1, InTurnHolds, PTL

(* With any number of looks at the job, the Mac's controller.json names the *)
(* model that runs once the record is closed: what the restore left is      *)
(* adopted before the next transition.  Only a view that writes over what   *)
(* another has closed, or a command that overtook the record, undoes that.  *)
THEOREM OwnerIsKnown == Spec => []MacKnowsOwner
<1>1. crossed \/ InTurn => MacKnowsOwner
  BY DEF InTurn, Named, Adopted, MacKnowsOwner
<1> QED BY <1>1, InTurnHolds, PTL

-----------------------------------------------------------------------------
(* The turns of the two sides: BatchJob implements HandedOver.             *)

MacTurn == sup.pc = "none" \/ Adopted
Keeper == IF crossed THEN "both" ELSE IF MacTurn THEN "mac" ELSE "spark"
Books == {ctl.gen} \ {None}

\* Every model that runs was started under a generation.
Real == None \notin models

LEMMA RealStep ==
    ASSUME BatchInv, Recorded, Real, [Next]_vars PROVE Real'
<1>1. ASSUME models' \subseteq models \/ models' = models \cup {nodeGen} PROVE Real'
  BY <1>1 DEF Real, Recorded
<1>2. ASSUME NEW c \in Commands, ReleaseGpu(c) \/ StartModel(c) PROVE Real'
  BY <1>1, <1>2 DEF ReleaseGpu, StartModel
<1>3. ASSUME NEW c \in Commands, SwitchFails(c) PROVE Real'
  <2>1. CASE At(c, "start")
    <3>1. PICK left \in Stranded(cmd[c].gen, ctl) : models' = left.models
      BY <1>3, <2>1 DEF SwitchFails
    <3> QED BY <1>1, <3>1, StrandedLeft
  <2>2. CASE ~At(c, "start")
    BY <1>1, <1>3, <2>2 DEF SwitchFails
  <2> QED BY <2>1, <2>2
<1>4. CASE RestoreReleases \/ RestoreStarts \/ Reboot
  BY <1>1, <1>4 DEF RestoreReleases, RestoreStarts, Reboot
<1>5. CASE RestoreFails
  <2>1. CASE sup.pc = "released"
    <3>1. PICK left \in Stranded(sup.gen, sctl) : models' = left.models
      BY <1>5, <2>1 DEF RestoreFails
    <3> QED BY <1>1, <3>1, StrandedLeft
  <2>2. CASE sup.pc # "released"
    BY <1>1, <1>5, <2>2 DEF RestoreFails
  <2> QED BY <2>1, <2>2
<1>6. \/ UNCHANGED models
      \/ RestoreReleases \/ RestoreStarts \/ Reboot \/ RestoreFails
      \/ \E c \in Commands : ReleaseGpu(c) \/ StartModel(c) \/ SwitchFails(c)
  BY NextCases DEF vars, spark, Mac, Enter, Guard, Preflight, Lock, Fence, Launch,
     LaunchFails, SaveRecord, Recover, CommandDies, ReadState, FetchController, Adopt,
     SaveView, Load, Unreachable, CheckGpu, StartJob, EndJob, NoRestore, RestoreFences,
     LoseJob, LostJobEnds, SupervisorDies
<1> QED BY <1>1, <1>2, <1>3, <1>4, <1>5, <1>6

\* The steps of the two sides, as steps of HandedOver.
LEMMA OneOnTheBooks ==
    ASSUME NEW g \in Gens PROVE Handing!AtMostOne({g} \ {None})
BY DEF Handing!AtMostOne

LEMMA Unseen ==
    ASSUME Keeper' = Keeper, Books' = Books, UNCHANGED <<models, job>>
    PROVE  UNCHANGED Handing!vars
BY DEF Handing!vars, Keeper, MacTurn, Books

LEMMA Tangles ==
    ASSUME crossed', Single', Real', models' \subseteq Gens PROVE Handing!Next
<1>1. Handing!AtMostOne(models')
  <2>1. PICK g \in Gens : models' \subseteq {g}
    BY DEF Single
  <2> QED BY <2>1 DEF Handing!AtMostOne, Real
<1>2. Handing!Tangle
  BY <1>1 DEF Handing!Tangle
<1> QED BY <1>2 DEF Handing!Next

LEMMA MacMoves ==
    ASSUME Keeper = "mac", Keeper' = "mac", job' = job,
           \/ models' = {} /\ Books' \in {{}, Books}
           \/ models = {} /\ ~job /\ ctl'.gen \in Gens /\ models' \subseteq Books'
    PROVE  Handing!Next
<1>1. CASE models' = {} /\ Books' \in {{}, Books}
  <2>1. Handing!MacStops
    BY <1>1 DEF Handing!MacStops, Keeper, MacTurn, Books
  <2> QED BY <2>1 DEF Handing!Next
<1>2. CASE models = {} /\ ~job /\ ctl'.gen \in Gens /\ models' \subseteq Books'
  <2>1. Handing!AtMostOne(Books')
    BY <1>2, OneOnTheBooks DEF Books
  <2>2. Handing!MacStarts
    BY <1>2, <2>1 DEF Handing!MacStarts, Keeper, MacTurn, Books
  <2> QED BY <2>2 DEF Handing!Next
<1> QED BY <1>1, <1>2

LEMMA SparkMoves ==
    ASSUME Keeper = "spark", Keeper' = "spark", Books' = Books, job' = job,
           \/ models' = {}
           \/ /\ models = {} /\ ~job
              /\ \E g \in Gens : models' = {g} \ {None}
    PROVE  Handing!Next
<1>1. CASE models' = {}
  <2>1. Handing!SparkStops
    BY <1>1 DEF Handing!SparkStops, Keeper, MacTurn, Books
  <2> QED BY <2>1 DEF Handing!Next
<1>2. CASE models = {} /\ ~job /\ \E g \in Gens : models' = {g} \ {None}
  <2>1. Handing!AtMostOne(models')
    BY <1>2, OneOnTheBooks
  <2>2. Handing!SparkStarts
    BY <1>2, <2>1 DEF Handing!SparkStarts, Keeper, MacTurn, Books
  <2> QED BY <2>2 DEF Handing!Next
<1> QED BY <1>1, <1>2

LEMMA CommandHands ==
    ASSUME BatchInv, InTurn, Recorded, TypeOK', ~crossed, ~crossed',
           NEW c \in Commands, Enter(c) \/ Command(c) \/ CommandDies(c)
    PROVE  [Handing!Next]_(Handing!vars)
<1> USE DEF InTurn
<1>1. CASE Launch(c)
  <2>1. /\ sup.pc = "none" /\ sup'.pc = "starting" /\ UNCHANGED <<models, ctl, job>>
        /\ ~Adopted'
    BY <1>1, LaunchIsFirst
  <2>2. Handing!HandOver
    BY <2>1 DEF Handing!HandOver
  <2> QED BY <2>2 DEF Handing!Next
<1>2. CASE SaveRecord(c)
  <2>1. /\ UNCHANGED <<sup, view, models, ctl, job>> /\ record' = "open"
        /\ cmd[c].pc = "record"
    BY <1>2 DEF SaveRecord, At, spark
  <2>2. record = "none"
    BY <2>1 DEF Ordered
  <2> QED BY <2>1, <2>2, Unseen DEF Keeper, MacTurn, Adopted, Books
<1>3. CASE \/ Enter(c) \/ Guard(c) \/ Preflight(c) \/ Lock(c) \/ Fence(c) \/ LaunchFails(c)
           \/ Recover(c) \/ CommandDies(c)
  <2>1. UNCHANGED <<sup, record, view, models, job>>
    BY <1>3 DEF Enter, Guard, Preflight, Lock, Fence, LaunchFails, Recover, CommandDies, spark
  <2>2. ctl'.gen = ctl.gen
    <3>1. Lock(c) => ctl'.gen = ctl.gen
      BY DEF Lock, BatchInv, TypeOK, Allocations
    <3> QED BY <1>3, <3>1 DEF Enter, Guard, Preflight, Fence, LaunchFails, Recover, CommandDies
  <2> QED BY <2>1, <2>2, Unseen DEF Keeper, MacTurn, Adopted, Books
<1>4. CASE ReleaseGpu(c) \/ StartModel(c) \/ SwitchFails(c)
  <2>1. UNCHANGED <<sup, record, view, job>> /\ Keeper' = Keeper
    BY <1>4 DEF ReleaseGpu, StartModel, SwitchFails, Keeper, MacTurn, Adopted
  <2>2. CASE UNCHANGED <<ctl, models>>
    BY <2>1, <2>2, Unseen DEF Books
  <2>3. CASE ~UNCHANGED <<ctl, models>>
    <3>1. cmd[c].pc \in Switching
      BY <1>4, <2>3, CommandFails DEF ReleaseGpu, StartModel, At, Switching
    <3>2. Keeper = "mac" /\ Keeper' = "mac"
      BY <2>1, <3>1, MacIsAlone DEF Keeper, MacTurn, Adopted
    <3>3. CASE ReleaseGpu(c)
      <4>1. models' = {} /\ (ctl' = ctl \/ ctl' = Empty)
        BY <3>3 DEF ReleaseGpu
      <4>2. Books' \in {{}, Books}
        BY <4>1 DEF Books, Empty
      <4> QED BY <2>1, <3>2, <4>1, <4>2, MacMoves
    <3>4. CASE StartModel(c) \/ SwitchFails(c)
      <4>1. /\ cmd[c].pc = "start" /\ models = {} /\ ctl'.gen = cmd[c].gen
            /\ models' \subseteq {cmd[c].gen}
        <5>1. CASE StartModel(c)
          <6>1. models = {} /\ cmd[c].pc = "start"
            BY <5>1, StartsAlone DEF StartModel, At, BatchInv, ModelInv
          <6> QED BY <5>1, <6>1 DEF StartModel
        <5>2. CASE SwitchFails(c)
          BY <2>3, <5>2, CommandFails
        <5> QED BY <3>4, <5>1, <5>2
      <4>2. ~job
        BY <4>1 DEF Exclusive
      <4>3. cmd[c].gen # None /\ ctl'.gen \in Gens
        <5>1. 1 <= cmd[c].gen
          BY <3>1 DEF BatchInv, ModelInv, Drawn
        <5> QED BY <5>1 DEF None, TypeOK, Allocations
      <4>4. models' \subseteq Books'
        BY <4>1, <4>3 DEF Books
      <4> QED BY <2>1, <3>2, <4>1, <4>2, <4>3, <4>4, MacMoves
    <3> QED BY <1>4, <3>3, <3>4
  <2> QED BY <2>2, <2>3
<1> QED BY <1>1, <1>2, <1>3, <1>4 DEF Command

LEMMA ViewHands ==
    ASSUME BatchInv, InTurn, Real, TypeOK', Named', ~crossed, ~crossed',
           NEW v \in Views, View(v) \/ Unreachable(v)
    PROVE  [Handing!Next]_(Handing!vars)
<1> USE DEF InTurn
<1>1. UNCHANGED <<sup, models, job>>
  BY ViewStays
<1>2. /\ \A w \in Views : w # v => view'[w] = view[w]
      /\ record \in {"open", "closed"} /\ sup.pc # "none"
      /\ \/ record' = record
         \/ record = "open" /\ record' = "closed" /\ view[v].pc = "save" /\ view[v].closed
  BY ViewGoes DEF BatchInv, TypeOK
<1>3. MacTurn => MacTurn' /\ ctl' = ctl
  <2> SUFFICES ASSUME MacTurn PROVE MacTurn' /\ ctl' = ctl
    OBVIOUS
  <2>1. MacTurn'
    <3>1. CASE record' = "closed"
      BY <3>1 DEF MacTurn, Adopted
    <3>2. CASE record' # "closed"
      <4>1. record = "open" /\ record' = "open"
        BY <1>2, <3>2
      <4>2. PICK w \in Views : view[w].pc = "save" /\ view[w].closed
        BY <1>2, <4>1 DEF MacTurn, Adopted
      <4>3. w # v
        <5>1. SUFFICES ASSUME w = v PROVE FALSE
          OBVIOUS
        <5>2. SaveView(v)
          BY <4>2, <5>1 DEF View, Load, ReadState, FetchController, Adopt, SaveView, Unreachable
        <5> QED BY <4>1, <4>2, <5>1, <5>2 DEF SaveView
      <4> QED BY <1>2, <4>2, <4>3 DEF MacTurn, Adopted
    <3> QED BY <3>1, <3>2
  <2>2. CASE record = "open" /\ ctl' = sctl /\ sup.restore
    <3>1. PICK w \in Views : view[w].pc = "save" /\ view[w].closed
      BY <1>2, <2>2 DEF MacTurn, Adopted
    <3>2. ctl = sctl
      BY <2>2, <3>1 DEF Named
    <3> QED BY <2>1, <2>2, <3>2
  <2> QED BY <2>1, <2>2, ViewGoes
<1>4. ~MacTurn /\ ~MacTurn' => ctl' = ctl
  <2>1. view'[v].pc = "save" /\ view'[v].closed => MacTurn'
    BY DEF MacTurn, Adopted
  <2> QED BY <2>1, ViewGoes
<1>5. CASE ~MacTurn /\ MacTurn'
  <2>1. models \subseteq {ctl'.gen}
    BY <1>1, <1>2, <1>5 DEF Named, MacTurn
  <2>2. Handing!AtMostOne(Books')
    BY OneOnTheBooks DEF Books, TypeOK, Allocations
  <2>3. models \subseteq Books'
    BY <2>1 DEF Real, Books
  <2>4. Handing!HandBack
    BY <1>1, <1>5, <2>2, <2>3 DEF Handing!HandBack, MacTurn, Books
  <2> QED BY <2>4 DEF Handing!Next
<1>6. CASE MacTurn' <=> MacTurn
  BY <1>1, <1>3, <1>4, <1>6, Unseen DEF Keeper, Books
<1> QED BY <1>3, <1>5, <1>6

LEMMA SparkHands ==
    ASSUME BatchInv, InTurn, Recorded, ~crossed, ~crossed',
           Supervise \/ LoseJob \/ LostJobEnds \/ SupervisorDies \/ Reboot
    PROVE  [Handing!Next]_(Handing!vars)
<1> USE DEF InTurn
<1>1. Adopted' = Adopted /\ Books' = Books
  BY SparkStays DEF Adopted, Books
<1>2. Keeper' = Keeper
  BY <1>1, SupervisorGoes DEF Keeper, MacTurn, BatchInv
<1>3. sup.pc \notin {"none", "finished"} => Keeper = "spark"
  BY DEF Keeper, MacTurn, Adopted, Ordered
<1>4. CASE CheckGpu \/ NoRestore \/ RestoreFences \/ LoseJob \/ SupervisorDies
  <2>1. UNCHANGED <<models, job>>
    BY <1>4 DEF CheckGpu, NoRestore, RestoreFences, LoseJob, SupervisorDies
  <2> QED BY <1>1, <1>2, <2>1, Unseen
<1>5. CASE StartJob
  <2>1. models = {} /\ models' = models /\ job' = TRUE /\ Keeper = "spark"
    BY <1>3, <1>5 DEF StartJob, Exclusive
  <2>2. Handing!JobStarts
    BY <1>1, <1>2, <2>1 DEF Handing!JobStarts, Keeper, MacTurn, Books
  <2> QED BY <2>2 DEF Handing!Next
<1>6. CASE EndJob \/ LostJobEnds
  <2>1. models' = models /\ job' = FALSE
    BY <1>6 DEF EndJob, LostJobEnds
  <2>2. Handing!JobEnds
    BY <1>1, <1>2, <2>1 DEF Handing!JobEnds, Keeper, MacTurn, Books
  <2> QED BY <2>2 DEF Handing!Next
<1>7. CASE Reboot
  <2>1. models' = {} /\ job' = FALSE
    BY <1>7 DEF Reboot
  <2>2. Handing!Reboot
    BY <1>1, <1>2, <2>1 DEF Handing!Reboot, Keeper, MacTurn, Books
  <2> QED BY <2>2 DEF Handing!Next
<1>8. CASE RestoreReleases \/ RestoreStarts \/ RestoreFails
  <2>1. sup.pc \in {"fenced", "released"} /\ job' = job
    BY <1>8 DEF RestoreReleases, RestoreStarts, RestoreFails
  <2>2. Keeper = "spark" /\ Keeper' = "spark"
    BY <1>2, <1>3, <2>1
  <2>3. sup.pc = "released" => models = {} /\ ~job
    BY StartsAlone DEF BatchInv, ModelInv, Exclusive
  <2>4. sup.gen \in Gens
    BY DEF BatchInv, TypeOK, Supervisors
  <2>5. CASE models' = {}
    BY <1>1, <2>1, <2>2, <2>5, SparkMoves
  <2>6. ASSUME sup.pc = "released", models' = models \cup {sup.gen}
        PROVE  Handing!Next
    <3>1. nodeGen = sup.gen
      BY <2>6 DEF Owns
    <3>2. models' = {sup.gen} \ {None}
      BY <2>3, <2>6, <3>1 DEF Recorded
    <3> QED BY <1>1, <2>1, <2>2, <2>3, <2>4, <2>6, <3>2, SparkMoves
  <2>7. CASE models' = models
    BY <1>1, <1>2, <2>1, <2>7, Unseen
  <2>8. CASE RestoreFails
    <3>1. models' \in {models, {}} \/ (sup.pc = "released" /\ models' = models \cup {sup.gen})
      BY <2>8, SupervisorFails
    <3> QED BY <2>5, <2>6, <2>7, <3>1
  <2>9. CASE RestoreReleases \/ RestoreStarts
    BY <2>5, <2>6, <2>9 DEF RestoreReleases, RestoreStarts
  <2> QED BY <1>8, <2>8, <2>9
<1> QED BY <1>4, <1>5, <1>6, <1>7, <1>8 DEF Supervise

(* What ADR 0018 promises of a batch job: every step of a command, of a     *)
(* look at the job and of the supervisor is one that HandedOver allows to   *)
(* the side whose turn it is, or changes nothing there, for any commands    *)
(* and views, however they overlap, and a reply that is lost.  It says      *)
(* itself what is left when somebody acts out of turn.                      *)
THEOREM JobIsHandedOver == Spec => ImplementsHandedOver
<1> DEFINE Inv == BatchInv /\ (crossed \/ InTurn) /\ Recorded /\ Real
<1>1. Init => Handing!Init /\ Recorded /\ Real
  <2> SUFFICES ASSUME Init PROVE Handing!Init /\ Recorded /\ Real
    OBVIOUS
  <2>1. /\ nodeGen = 1 /\ sup.pc = "none" /\ job = FALSE /\ ~crossed
        /\ ctl.gen \in {0, 1} /\ models = {ctl.gen} \ {None}
    BY DEF Init, Empty, None
  <2>2. Handing!AtMostOne(models)
    BY <2>1, OneOnTheBooks DEF Gens
  <2>3. Handing!Init
    BY <2>1, <2>2 DEF Handing!Init
  <2> QED BY <2>1, <2>3 DEF Recorded, Real, None
<1>2. Inv /\ Inv' /\ [Next]_vars => [Handing!Next]_(Handing!vars)
  <2> SUFFICES ASSUME Inv, Inv', [Next]_vars PROVE [Handing!Next]_(Handing!vars)
    OBVIOUS
  <2>1. CASE UNCHANGED vars
    BY <2>1, Unseen DEF vars, Keeper, MacTurn, Adopted, Books
  <2>2. CASE crossed'
    BY <2>2, Tangles DEF BatchInv, ModelInv, TypeOK
  <2>3. CASE ~crossed' /\ ~UNCHANGED vars
    <3>1. ~crossed
      BY <2>3, CrossedStep DEF BatchInv, TypeOK
    <3>2. InTurn /\ Named' /\ TypeOK'
      BY <2>3, <3>1 DEF InTurn, BatchInv
    <3> QED BY <2>3, <3>1, <3>2, CommandHands, ViewHands, SparkHands DEF Next
  <2> QED BY <2>1, <2>2, <2>3
<1>3. BatchInv /\ Recorded /\ Real /\ [Next]_vars => Recorded' /\ Real'
  BY RecordedStep, RealStep DEF BatchInv
<1> QED BY <1>1, <1>2, <1>3, InvHolds, InTurnHolds, PTL
        DEF Spec, ImplementsHandedOver, Handing!Spec
=============================================================================

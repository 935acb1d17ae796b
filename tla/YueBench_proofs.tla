--------------------------- MODULE YueBench_proofs ---------------------------
(* What holds of YueBench for any runs, jobs, levels and transitions.      *)
EXTENDS YueBench, FiniteSetTheorems, TLAPS

\* Threads work during a trial only.
Working == {"create", "created", "start", "running", "remove"}

ThreadsBelong ==
    \A r \in Runs, j \in Jobs : job[r][j] \in Working => run[r].pc \in {"trial", "failing"}

\* A run whose container could not be removed leaves the factory drained.
Soiled(r) ==
    /\ run[r].restore /\ ~run[r].clean
    /\ \/ run[r].pc = "exit"
       \/ run[r].pc = "unlock" /\ run[r].report = "left_drained"

\* While docker has a start of a run that nobody waits for, the run has the lock
\* and removes the container, or cannot.
LatesBelong ==
    \A r \in Runs, j \in Jobs : j \in late[r] =>
      /\ run[r].pc \in {"trial", "failing"} \/ Soiled(r) \/ (run[r].pc = "end" /\ cut)
      /\ run[r].clean /\ run[r].pc \in {"trial", "failing"} => job[r][j] = "remove"

\* From its check to its exit a run relies on the factory it found.
Borrowing == {"idle", "audit", "assets", "trial", "failing"}

Leased(r) ==
    \/ run[r].pc \in {"drain", "admit"} \cup Borrowing
    \/ run[r].pc \in {"exit", "redrain", "unlock"} /\ run[r].restore

\* The generation does not change under a lease, a drained factory stays drained,
\* and the Mac has replaced nothing: it would have closed the factory first.
LeaseIsKept ==
    /\ \A r \in Runs : run[r].pc \in {"new", "check"} => ~run[r].restore
    /\ \A r \in Runs : run[r].pc \in {"drain"} \cup Borrowing => run[r].restore
    /\ \A r \in Runs : run[r].pc \in {"new", "check", "drain"} => run[r].clean
    /\ \A r \in Runs : run[r].report # "none" => run[r].pc = "unlock"
    /\ \A r \in Runs : \/ run[r].pc = "redrain"
                       \/ run[r].report = "left_drained" /\ run[r].restore
                       => ~run[r].clean
    /\ \A r \in Runs : Leased(r) => run[r].gen = nodeGen
    /\ \A r \in Runs : run[r].pc \in Borrowing \/ Soiled(r) => ~factory.accepting
    /\ mac \in {"drained", "stopped", "verified"} =>
         ~factory.accepting /\ \A r \in Runs : ~Leased(r)

\* A factory that a lease finds closed was closed by its run.
DrainIsOwn ==
    \A r \in Runs :
      /\ run[r].pc = "drain" => factory.accepting
      /\ \/ run[r].pc \in {"admit"} \cup Borrowing
         \/ run[r].pc = "exit" /\ run[r].restore
         => factory.accepting \/ run[r].drained

\* Who is on the GPU, and who may come: the run past its audit, the Mac past its
\* look at the GPU, and a factory that accepts jobs.
OnlyRun(r) ==
    /\ ~vllm /\ ~factory.busy
    /\ \A q \in Runs, j \in Jobs : cont[q][j] = "running" => q = r
NoBench == ~vllm /\ \A q \in Runs, j \in Jobs : cont[q][j] # "running"

GpuIsKept ==
    ~cut =>
      /\ \A r \in Runs : run[r].pc \in {"assets", "trial", "failing"} => OnlyRun(r)
      /\ \A r \in Runs : run[r].pc = "admit" => NoBench
      /\ \A r \in Runs : late[r] # {} => OnlyRun(r)
      /\ factory.accepting => NoBench
      /\ mac = "verified" => NoBench /\ ~factory.busy
      /\ \/ NoBench
         \/ ~factory.busy /\ \A q \in Runs, j \in Jobs : cont[q][j] # "running"
         \/ \E r \in Runs : OnlyRun(r)

\* A clean run has no container but those of its threads.
CleanIsTrue ==
    \A r \in Runs :
      /\ run[r].clean /\ run[r].pc \notin {"end"} =>
           \A j \in Jobs : job[r][j] \in {"queued", "create", "done", "recorded"} =>
                             cont[r][j] = "none"
      /\ run[r].pc = "admit" => run[r].clean

YueInv ==
    /\ TypeOK /\ ThreadsBelong /\ LatesBelong /\ LeaseIsKept /\ DrainIsOwn
    /\ GpuIsKept /\ CleanIsTrue

\* Next, action by action.
LEMMA NextCases ==
    ASSUME Next
    PROVE  \/ \E r \in Runs :
                \/ Acquire(r) \/ Check(r) \/ CheckFails(r) \/ Drain(r) \/ BecomesIdle(r)
                \/ WaitEnds(r) \/ HealthFails(r) \/ Audit(r) \/ Assets(r) \/ Leave(r)
                \/ SecondAuditFails(r) \/ Admit(r) \/ Redrain(r) \/ Unlock(r) \/ TrialEnds(r)
                \/ FailedTrialEnds(r) \/ Stop(r) \/ TrialFails(r) \/ Kill(r)
           \/ \E r \in Runs, j \in Jobs :
                \/ Launch(r, j) \/ Collect(r, j) \/ Create(r, j) \/ CreateFound(r, j)
                \/ CreateLost(r, j) \/ SendStart(r, j) \/ Start(r, j) \/ Poll(r, j)
                \/ Remove(r, j) \/ RemoveFails(r, j) \/ Exits(r, j) \/ LateStart(r, j)
           \/ Submit \/ Render \/ MacFence \/ MacDrain \/ MacStop \/ MacVerify
           \/ MacStart \/ MacFails
BY DEF Next, Lease, Dispatcher, Thread

\* What the steps with alternatives do to their run.
Others(r) == \A q \in Runs : q # r => run'[q] = run[q]
Moved(r, from, to) ==
    /\ run[r].pc = from /\ run'[r].pc \in to
    /\ run'[r].gen = run[r].gen /\ run'[r].restore = run[r].restore
    /\ Others(r)
Silent(r) == run'[r].report = run[r].report /\ run'[r].drained = run[r].drained

AcquireEffect(r) ==
    /\ Moved(r, "new", {"check", "end"}) /\ Silent(r)
    /\ run'[r].clean = run[r].clean /\ UNCHANGED <<production, job, cont, late, cut>>

LEMMA Acquires ==
    ASSUME TypeOK, NEW r \in Runs, Acquire(r) PROVE AcquireEffect(r)
BY DEF TypeOK, Processes, At, Goto, Moved, Others, Silent, Acquire, AcquireEffect

DrainEffect(r) ==
    /\ Moved(r, "drain", {"idle", "exit"})
    /\ run'[r].clean = run[r].clean /\ run'[r].report = run[r].report
    /\ UNCHANGED <<lock, nodeGen, vllm, mac, job, cont, late, cut>>
    /\ factory'.busy = factory.busy
    /\ \/ ~factory'.accepting /\ (factory.accepting => run'[r].drained)
       \/ run'[r].pc = "exit" /\ factory'.accepting = factory.accepting

LEMMA Drains ==
    ASSUME TypeOK, NEW r \in Runs, Drain(r) PROVE DrainEffect(r)
<1>1. run \in [Runs -> Processes] /\ factory \in [up : BOOLEAN, accepting : BOOLEAN, gen : Gens, busy : BOOLEAN]
  BY DEF TypeOK
<1>2. CASE Drained /\ \E pc \in {"idle", "exit"} :
               run' = [run EXCEPT ![r].pc = pc, ![r].drained = factory.accepting]
  <2>1. PICK pc \in {"idle", "exit"} :
               run' = [run EXCEPT ![r].pc = pc, ![r].drained = factory.accepting]
    BY <1>2
  <2>2. /\ run'[r].pc = pc /\ run'[r].drained = factory.accepting /\ Others(r)
        /\ run'[r].gen = run[r].gen /\ run'[r].restore = run[r].restore
        /\ run'[r].clean = run[r].clean /\ run'[r].report = run[r].report
    BY <1>1, <2>1 DEF Processes, Others
  <2>3. ~factory'.accepting /\ factory'.busy = factory.busy
    BY <1>1, <1>2 DEF Drained
  <2> QED BY <2>2, <2>3 DEF Drain, DrainEffect, Moved, At
<1>3. CASE UNCHANGED factory /\ Goto(r, "exit")
  BY <1>1, <1>3 DEF Drain, DrainEffect, Moved, Others, At, Goto, Processes
<1> QED BY <1>2, <1>3 DEF Drain

AuditEffect(r) ==
    /\ Moved(r, "audit", {"assets", "exit"})
    /\ run'[r].pc = "assets" => GpuIdle
    /\ (run'[r].clean => run[r].clean) /\ Silent(r)
    /\ UNCHANGED <<lock, production, job, cont, late, cut>>

LEMMA Audits ==
    ASSUME TypeOK, NEW r \in Runs, Audit(r) PROVE AuditEffect(r)
<1> USE DEF TypeOK, Processes, At, Goto, Moved, Others, Silent
<1>1. CASE Goto(r, "assets") /\ GpuIdle
  BY <1>1 DEF Audit, AuditEffect
<1>2. CASE run' = [run EXCEPT ![r].pc = "exit", ![r].clean = FALSE]
  BY <1>2 DEF Audit, AuditEffect
<1> QED BY <1>1, <1>2 DEF Audit

AssetsEffect(r) ==
    /\ Moved(r, "assets", {"trial", "exit"}) /\ Silent(r)
    /\ run'[r].clean = run[r].clean /\ UNCHANGED <<lock, production, job, cont, late, cut>>

LEMMA FindsAssets ==
    ASSUME TypeOK, NEW r \in Runs, Assets(r) PROVE AssetsEffect(r)
BY DEF TypeOK, Processes, At, Goto, Moved, Others, Silent, Assets, AssetsEffect

LeaveEffect(r) ==
    /\ Moved(r, "exit", {"admit", "unlock"})
    /\ run'[r].drained = run[r].drained
    /\ run'[r].pc = "admit" => run[r].restore /\ run[r].clean /\ GpuIdle
                                 /\ run'[r].report = run[r].report
    /\ run'[r].pc = "unlock" => ~(run[r].restore /\ run[r].clean)
                                  /\ run'[r].report = "left_drained"
    /\ run'[r].clean = run[r].clean /\ UNCHANGED <<lock, production, job, cont, late, cut>>

LEMMA Leaves ==
    ASSUME TypeOK, NEW r \in Runs, Leave(r) PROVE LeaveEffect(r)
BY DEF TypeOK, Processes, At, Goto, Moved, Others, Report, Leave, LeaveEffect

SecondAuditEffect(r) ==
    /\ Moved(r, "exit", {"redrain"}) /\ Silent(r)
    /\ run[r].restore /\ run[r].clean /\ ~run'[r].clean
    /\ UNCHANGED <<lock, production, job, cont, late, cut>>

LEMMA AuditsAgain ==
    ASSUME TypeOK, NEW r \in Runs, SecondAuditFails(r) PROVE SecondAuditEffect(r)
BY DEF TypeOK, Processes, At, Moved, Others, Silent, ToRedrain, SecondAuditFails,
       SecondAuditEffect

AdmitEffect(r) ==
    /\ Moved(r, "admit", {"redrain", "unlock"})
    /\ run'[r].clean => run[r].clean
    /\ run'[r].drained = run[r].drained
    /\ run'[r].pc = "unlock" => run'[r].report = "restored"
    /\ run'[r].pc = "redrain" => run'[r].report = run[r].report /\ ~run'[r].clean
    /\ UNCHANGED <<lock, nodeGen, vllm, mac, job, cont, late, cut>>
    /\ factory'.busy = factory.busy
    /\ factory'.accepting /\ ~factory.accepting => factory'.gen = run[r].gen
    /\ factory.accepting => factory'.accepting

LEMMA Admits ==
    ASSUME TypeOK, NEW r \in Runs, Admit(r) PROVE AdmitEffect(r)
<1> USE DEF TypeOK, Processes, At, Goto, Moved, Others, Admitted
<1>1. UNCHANGED factory \/ Admitted(run[r].gen)
  BY DEF Admit
<1>2. /\ factory'.busy = factory.busy
      /\ factory'.accepting /\ ~factory.accepting => factory'.gen = run[r].gen
      /\ factory.accepting => factory'.accepting
  BY <1>1
<1>3. CASE Report(r, "restored")
  BY <1>2, <1>3 DEF Admit, AdmitEffect, Report
<1>4. CASE ToRedrain(r)
  BY <1>2, <1>4 DEF Admit, AdmitEffect, ToRedrain
<1> QED BY <1>3, <1>4 DEF Admit

RedrainEffect(r) ==
    /\ Moved(r, "redrain", {"unlock"})
    /\ run'[r].clean = run[r].clean
    /\ UNCHANGED <<lock, nodeGen, vllm, mac, job, cont, late, cut>>
    /\ factory'.busy = factory.busy
    /\ factory'.accepting => factory.accepting
    /\ run'[r].report = "left_drained" => run[r].report = "left_drained" \/ ~factory'.accepting

LEMMA Redrains ==
    ASSUME TypeOK, NEW r \in Runs, Redrain(r) PROVE RedrainEffect(r)
<1> USE DEF TypeOK, Processes, At, Goto, Moved, Others, Drained
<1>1. CASE Drained /\ Report(r, "left_drained")
  BY <1>1 DEF Redrain, RedrainEffect, Report
<1>2. CASE (Drained \/ UNCHANGED factory) /\ Goto(r, "unlock")
  BY <1>2 DEF Redrain, RedrainEffect
<1> QED BY <1>1, <1>2 DEF Redrain

Still(r) == Silent(r) /\ run'[r].clean = run[r].clean
Soils(r) == Silent(r) /\ ~run'[r].clean /\ run'[r].pc = run[r].pc
              /\ run'[r].restore = run[r].restore /\ run'[r].gen = run[r].gen /\ Others(r)

\* The other steps of a process.
LEMMA ProcessMoves ==
    ASSUME TypeOK, NEW r \in Runs
    PROVE  /\ Check(r) => /\ Admissible /\ run[r].pc = "check" /\ run'[r].pc = "drain"
                          /\ run'[r].restore /\ run'[r].gen = nodeGen
                          /\ Still(r) /\ Others(r)
           /\ CheckFails(r) => Moved(r, "check", {"exit"}) /\ Still(r)
           /\ BecomesIdle(r) => Moved(r, "idle", {"audit"}) /\ Still(r)
           /\ HealthFails(r) => Moved(r, "idle", {"exit"}) /\ Still(r)
           /\ WaitEnds(r) => /\ run[r].pc = "idle" /\ run'[r].pc = "exit"
                             /\ ~run'[r].restore /\ Still(r) /\ Others(r)
           /\ TrialEnds(r) => Moved(r, "trial", {"exit"}) /\ Still(r)
           /\ FailedTrialEnds(r) => Moved(r, "failing", {"exit"}) /\ Still(r)
           /\ TrialFails(r) => Moved(r, "trial", {"failing"}) /\ Still(r)
           /\ Stop(r) => Moved(r, run[r].pc, {run[r].pc}) /\ Still(r)
           /\ \A j \in Jobs : Collect(r, j) => Moved(r, "trial", {"trial"}) /\ Still(r)
           /\ Unclean(r) => Soils(r)
<1> run \in [Runs -> Processes]
  BY DEF TypeOK
<1> USE DEF Processes, Moved, Others, Still, Silent, Soils, At, Goto
<1>1. Check(r) => /\ Admissible /\ run[r].pc = "check" /\ run'[r].pc = "drain"
                  /\ run'[r].restore /\ run'[r].gen = nodeGen
                  /\ Still(r) /\ Others(r)
  BY DEF Check
<1>2. CheckFails(r) => Moved(r, "check", {"exit"}) /\ Still(r)
  BY DEF CheckFails
<1>3. BecomesIdle(r) => Moved(r, "idle", {"audit"}) /\ Still(r)
  BY DEF BecomesIdle
<1>4. HealthFails(r) => Moved(r, "idle", {"exit"}) /\ Still(r)
  BY DEF HealthFails
<1>5. WaitEnds(r) => /\ run[r].pc = "idle" /\ run'[r].pc = "exit"
                     /\ ~run'[r].restore /\ Still(r) /\ Others(r)
  BY DEF WaitEnds
<1>6. TrialEnds(r) => Moved(r, "trial", {"exit"}) /\ Still(r)
  BY DEF TrialEnds
<1>7. FailedTrialEnds(r) => Moved(r, "failing", {"exit"}) /\ Still(r)
  BY DEF FailedTrialEnds
<1>8. TrialFails(r) => Moved(r, "trial", {"failing"}) /\ Still(r)
  BY DEF TrialFails
<1>9. Stop(r) => Moved(r, run[r].pc, {run[r].pc}) /\ Still(r)
  BY DEF Stop
<1>10. ASSUME NEW j \in Jobs, Collect(r, j) PROVE Moved(r, "trial", {"trial"}) /\ Still(r)
  BY <1>10 DEF Collect
<1>11. Unclean(r) => Soils(r)
  BY DEF Unclean
<1> HIDE DEF Processes, Moved, Others, Still, Silent, Soils, At, Goto
<1> QED BY <1>1, <1>2, <1>3, <1>4, <1>5, <1>6, <1>7, <1>8, <1>9, <1>10, <1>11

\* A step of a thread: the rest stays as it is.
ThreadEffect(r, j, from, to, c) ==
    /\ Alive(r) /\ job[r][j] = from /\ job'[r][j] \in to /\ cont'[r][j] \in c
    /\ \A q \in Runs, i \in Jobs :
         ~(q = r /\ i = j) => job'[q][i] = job[q][i] /\ cont'[q][i] = cont[q][i]
    /\ UNCHANGED <<lock, production, cut>>

LEMMA ThreadMoves ==
    ASSUME TypeOK, NEW r \in Runs, NEW j \in Jobs
    PROVE  /\ Launch(r, j) => /\ ThreadEffect(r, j, "queued", {"create"}, {cont[r][j]})
                              /\ run[r].pc = "trial" /\ UNCHANGED <<run, late>>
           /\ Collect(r, j) => /\ ThreadEffect(r, j, "done", {"recorded"}, {cont[r][j]})
                               /\ UNCHANGED late
           /\ Create(r, j) => /\ ThreadEffect(r, j, "create", {"created"}, {"idle"})
                              /\ UNCHANGED <<run, late>>
           /\ CreateFound(r, j) => /\ ThreadEffect(r, j, "create", {"remove"}, {"idle"})
                                   /\ UNCHANGED <<run, late>>
           /\ CreateLost(r, j) => /\ ThreadEffect(r, j, "create", {"done"}, {"none", "idle"})
                                  /\ Soils(r) /\ UNCHANGED late
           /\ SendStart(r, j) =>
                /\ ThreadEffect(r, j, "created", {"start", "remove"}, {cont[r][j]})
                /\ UNCHANGED <<run, late>>
           /\ Poll(r, j) => /\ ThreadEffect(r, j, "running", {"remove"}, {cont[r][j]})
                            /\ UNCHANGED <<run, late>>
           /\ RemoveFails(r, j) => /\ ThreadEffect(r, j, "remove", {"done"}, {cont[r][j]})
                                   /\ Soils(r) /\ UNCHANGED late
<1> job \in [Runs -> [Jobs -> Threads]]
      /\ cont \in [Runs -> [Jobs -> {"none", "idle", "running"}]]
  BY DEF TypeOK
<1>0. Unclean(r) => Soils(r)
  BY ProcessMoves
<1> USE DEF ThreadEffect, JobAt, Move, At
<1>1. Launch(r, j) => /\ ThreadEffect(r, j, "queued", {"create"}, {cont[r][j]})
                      /\ run[r].pc = "trial" /\ UNCHANGED <<run, late>>
  BY DEF Launch, Alive
<1>2. Collect(r, j) => /\ ThreadEffect(r, j, "done", {"recorded"}, {cont[r][j]})
                       /\ UNCHANGED late
  BY DEF Collect, Alive
<1>3. Create(r, j) => /\ ThreadEffect(r, j, "create", {"created"}, {"idle"})
                      /\ UNCHANGED <<run, late>>
  BY DEF Create
<1>4. CreateFound(r, j) => /\ ThreadEffect(r, j, "create", {"remove"}, {"idle"})
                           /\ UNCHANGED <<run, late>>
  BY DEF CreateFound
<1>5. CreateLost(r, j) => /\ ThreadEffect(r, j, "create", {"done"}, {"none", "idle"})
                          /\ Soils(r) /\ UNCHANGED late
  BY <1>0 DEF CreateLost
<1>6. SendStart(r, j) =>
        /\ ThreadEffect(r, j, "created", {"start", "remove"}, {cont[r][j]})
        /\ UNCHANGED <<run, late>>
  BY DEF SendStart
<1>7. Poll(r, j) => /\ ThreadEffect(r, j, "running", {"remove"}, {cont[r][j]})
                    /\ UNCHANGED <<run, late>>
  BY DEF Poll
<1>8. RemoveFails(r, j) => /\ ThreadEffect(r, j, "remove", {"done"}, {cont[r][j]})
                           /\ Soils(r) /\ UNCHANGED late
  BY <1>0 DEF RemoveFails
<1> HIDE DEF ThreadEffect, JobAt, Move, At
<1> QED BY <1>1, <1>2, <1>3, <1>4, <1>5, <1>6, <1>7, <1>8

\* The steps that change what is still on its way.
LEMMA Starts ==
    ASSUME TypeOK, NEW r \in Runs, NEW j \in Jobs, Start(r, j)
    PROVE  /\ ThreadEffect(r, j, "start", {"running", "remove"}, {"running", cont[r][j]})
           /\ UNCHANGED run
           /\ \A q \in Runs, i \in Jobs :
                i \in late'[q] => i \in late[q] \/ (q = r /\ i = j /\ job'[r][j] = "remove")
<1> /\ job \in [Runs -> [Jobs -> Threads]] /\ late \in [Runs -> SUBSET Jobs]
    /\ cont \in [Runs -> [Jobs -> {"none", "idle", "running"}]]
  BY DEF TypeOK
<1>1. CASE cont' = [cont EXCEPT ![r][j] = "running"] /\ Move(r, j, "running") /\ UNCHANGED late
  BY <1>1 DEF Start, ThreadEffect, JobAt, Move
<1>2. CASE cont' = [cont EXCEPT ![r][j] = "running"] /\ Move(r, j, "remove") /\ UNCHANGED late
  BY <1>2 DEF Start, ThreadEffect, JobAt, Move
<1>3. CASE UNCHANGED <<cont, late>> /\ Move(r, j, "remove")
  BY <1>3 DEF Start, ThreadEffect, JobAt, Move
<1>4. CASE late' = [late EXCEPT ![r] = @ \cup {j}] /\ Move(r, j, "remove") /\ UNCHANGED cont
  <2>1. ThreadEffect(r, j, "start", {"running", "remove"}, {"running", cont[r][j]})
    BY <1>4 DEF Start, ThreadEffect, JobAt, Move
  <2>2. job'[r][j] = "remove"
    BY <1>4 DEF Move
  <2>3. \A q \in Runs, i \in Jobs : i \in late'[q] => i \in late[q] \/ (q = r /\ i = j)
    BY <1>4
  <2> QED BY <2>1, <2>2, <2>3 DEF Start
<1> QED BY <1>1, <1>2, <1>3, <1>4 DEF Start

LEMMA Removes ==
    ASSUME TypeOK, NEW r \in Runs, NEW j \in Jobs, Remove(r, j)
    PROVE  /\ ThreadEffect(r, j, "remove", {"done"}, {"none"})
           /\ UNCHANGED run
           /\ \A q \in Runs, i \in Jobs :
                i \in late'[q] => i \in late[q] /\ ~(q = r /\ i = j)
<1> /\ job \in [Runs -> [Jobs -> Threads]] /\ late \in [Runs -> SUBSET Jobs]
    /\ cont \in [Runs -> [Jobs -> {"none", "idle", "running"}]]
  BY DEF TypeOK
<1>1. ThreadEffect(r, j, "remove", {"done"}, {"none"})
  BY DEF Remove, ThreadEffect, JobAt, Move
<1>2. \A q \in Runs, i \in Jobs : i \in late'[q] => i \in late[q] /\ ~(q = r /\ i = j)
  BY DEF Remove
<1> QED BY <1>1, <1>2 DEF Remove

LEMMA StartsLate ==
    ASSUME TypeOK, NEW r \in Runs, NEW j \in Jobs, LateStart(r, j)
    PROVE  /\ j \in late[r] /\ cont'[r][j] \in {"running", cont[r][j]}
           /\ \A q \in Runs, i \in Jobs : ~(q = r /\ i = j) => cont'[q][i] = cont[q][i]
           /\ \A q \in Runs : late'[q] \subseteq late[q]
           /\ UNCHANGED <<lock, production, run, job, cut>>
BY DEF TypeOK, LateStart

LEMMA ContainerExits ==
    ASSUME TypeOK, NEW r \in Runs, NEW j \in Jobs, Exits(r, j)
    PROVE  /\ cont'[r][j] = "idle"
           /\ \A q \in Runs, i \in Jobs : ~(q = r /\ i = j) => cont'[q][i] = cont[q][i]
           /\ UNCHANGED <<lock, production, run, job, late, cut>>
BY DEF TypeOK, Exits

\* A process that ends, by itself or not, and its threads with it.
LEMMA Ends ==
    ASSUME TypeOK, NEW r \in Runs, Unlock(r) \/ Kill(r)
    PROVE  /\ run[r].pc \notin {"new", "end"} /\ run'[r].pc = "end" /\ Others(r)
           /\ run'[r].report = "none" /\ ~run'[r].restore
           /\ UNCHANGED <<production, cont>>
           /\ \A j \in Jobs : job'[r][j] = "done"
           /\ \A q \in Runs \ {r} : job'[q] = job[q] /\ late'[q] = late[q]
           /\ \A j \in late'[r] : j \in late[r] \/ (Kill(r) /\ job[r][j] = "start")
           /\ cut' = (cut \/ late'[r] # {})
<1>1. run \in [Runs -> Processes] /\ job \in [Runs -> [Jobs -> Threads]]
        /\ late \in [Runs -> SUBSET Jobs]
  BY DEF TypeOK
<1>2. /\ run[r].pc \notin {"new", "end"} /\ Over(r) /\ UNCHANGED <<production, cont>>
      /\ job' = [job EXCEPT ![r] = [j \in Jobs |-> "done"]]
  BY DEF Unlock, Kill, At
<1>3. run'[r].pc = "end" /\ run'[r].report = "none" /\ ~run'[r].restore /\ Others(r)
  BY <1>1, <1>2 DEF Over, Fresh, Others
<1>4. /\ \A q \in Runs \ {r} : late'[q] = late[q]
      /\ \A j \in late'[r] : j \in late[r] \/ (Kill(r) /\ job[r][j] = "start")
      /\ cut' = (cut \/ late'[r] # {})
  <2>1. CASE Unlock(r)
    BY <1>1, <2>1 DEF Unlock
  <2>2. CASE Kill(r)
    BY <1>1, <2>2 DEF Kill
  <2> QED BY <2>1, <2>2
<1> QED BY <1>1, <1>2, <1>3, <1>4

\* Every step of a run leaves it a process.
LEMMA ProcessesStay ==
    ASSUME TypeOK, NEW r \in Runs,
           \/ Check(r) \/ Drain(r) \/ Audit(r) \/ Assets(r) \/ Leave(r) \/ SecondAuditFails(r)
           \/ Admit(r) \/ Redrain(r) \/ WaitEnds(r) \/ Unlock(r) \/ Kill(r)
    PROVE  run' \in [Runs -> Processes]
<1>1. run \in [Runs -> Processes] /\ run[r] \in Processes /\ nodeGen \in Gens
        /\ factory.accepting \in BOOLEAN
  BY DEF TypeOK
<1>2. SUFFICES run'[r] \in Processes /\ run' = [run EXCEPT ![r] = run'[r]]
  BY <1>1
<1>a. ASSUME NEW pc \in Labels, Goto(r, pc)
      PROVE  run'[r] \in Processes /\ run' = [run EXCEPT ![r] = run'[r]]
  BY <1>1, <1>a DEF Goto, Processes
<1>b. ASSUME NEW s \in {"none", "restored", "left_drained"}, Report(r, s)
      PROVE  run'[r] \in Processes /\ run' = [run EXCEPT ![r] = run'[r]]
  BY <1>1, <1>b DEF Report, Processes, Labels
<1>c. ASSUME ToRedrain(r)
      PROVE  run'[r] \in Processes /\ run' = [run EXCEPT ![r] = run'[r]]
  BY <1>1, <1>c DEF ToRedrain, Processes, Labels
<1>d. ASSUME Over(r)
      PROVE  run'[r] \in Processes /\ run' = [run EXCEPT ![r] = run'[r]]
  <2>1. 0 \in Gens
    BY YueBenchAssumption DEF Gens
  <2>2. [Fresh EXCEPT !.pc = "end"] \in Processes
    BY <2>1 DEF Fresh, Processes, Labels
  <2> QED BY <1>1, <1>d, <2>2 DEF Over
<1>3. CASE Check(r)
  BY <1>1, <1>3 DEF Check, Processes, Labels
<1>4. CASE Drain(r)
  <2>1. ASSUME NEW pc \in {"idle", "exit"},
               run' = [run EXCEPT ![r].pc = pc, ![r].drained = factory.accepting]
        PROVE  run'[r] \in Processes /\ run' = [run EXCEPT ![r] = run'[r]]
    BY <1>1, <2>1 DEF Processes, Labels
  <2> QED BY <1>4, <1>a, <2>1 DEF Drain, Labels
<1>5. CASE Audit(r)
  <2>1. ASSUME run' = [run EXCEPT ![r].pc = "exit", ![r].clean = FALSE]
        PROVE  run'[r] \in Processes /\ run' = [run EXCEPT ![r] = run'[r]]
    BY <1>1, <2>1 DEF Processes, Labels
  <2> QED BY <1>5, <1>a, <2>1 DEF Audit, Labels
<1>6. CASE Assets(r)
  <2>1. ASSUME NEW level \in Levels, run' = [run EXCEPT ![r].pc = "trial", ![r].level = level]
        PROVE  run'[r] \in Processes /\ run' = [run EXCEPT ![r] = run'[r]]
    BY <1>1, <2>1 DEF Processes, Labels
  <2> QED BY <1>6, <1>a, <2>1 DEF Assets, Labels
<1>7. CASE Leave(r)
  BY <1>7, <1>a, <1>b DEF Leave, Labels
<1>8. CASE SecondAuditFails(r)
  BY <1>8, <1>c DEF SecondAuditFails
<1>9. CASE Admit(r)
  BY <1>9, <1>b, <1>c DEF Admit
<1>10. CASE Redrain(r)
  BY <1>10, <1>a, <1>b DEF Redrain, Labels
<1>11. CASE WaitEnds(r)
  BY <1>1, <1>11 DEF WaitEnds, Processes, Labels
<1>12. CASE Unlock(r) \/ Kill(r)
  BY <1>12, <1>d DEF Unlock, Kill
<1> QED BY <1>3, <1>4, <1>5, <1>6, <1>7, <1>8, <1>9, <1>10, <1>11, <1>12

\* A run that goes on keeps the lock.
LEMMA KeepsLock ==
    ASSUME LockHeld, NEW r \in Runs, Others(r), lock' = lock,
           run[r].pc \notin {"new", "end"}, run'[r].pc \notin {"new", "end"}
    PROVE  LockHeld'
BY DEF LockHeld, Others

\* One that ends gives it up.
LEMMA GivesUpLock ==
    ASSUME TypeOK, NEW r \in Runs, Over(r), run[r].pc \notin {"new", "end"}
    PROVE  lock' = Free /\ LockHeld' /\ run'[r].pc = "end" /\ Others(r)
<1>1. run \in [Runs -> Processes]
  BY DEF TypeOK
<1>2. lock' = Free /\ run' = [run EXCEPT ![r] = [Fresh EXCEPT !.pc = "end"]]
  BY DEF Over
<1>3. run'[r].pc = "end" /\ Others(r)
  BY <1>1, <1>2 DEF Fresh, Others
<1>4. lock = r /\ Free \notin Runs
  BY YueBenchAssumption DEF TypeOK, LockHeld, Free
<1> QED BY <1>2, <1>3, <1>4 DEF TypeOK, LockHeld, Others

LEMMA LeaseTypes ==
    ASSUME TypeOK, NEW r \in Runs,
           \/ Check(r) \/ Drain(r) \/ Audit(r) \/ Assets(r) \/ Leave(r) \/ SecondAuditFails(r)
           \/ Admit(r) \/ Redrain(r) \/ WaitEnds(r) \/ Unlock(r) \/ Kill(r)
    PROVE  TypeOK'
<1> DEFINE Workers == [up : BOOLEAN, accepting : BOOLEAN, gen : Gens, busy : BOOLEAN]
<1>1. run \in [Runs -> Processes] /\ run' \in [Runs -> Processes]
  BY ProcessesStay DEF TypeOK
<1>2. factory \in Workers /\ run[r].gen \in Gens
  BY <1>1 DEF TypeOK, Processes
<1> HIDE DEF Workers
<1>a. ASSUME UNCHANGED <<lock, nodeGen, vllm, mac, job, cont, late, cut>>, factory' \in Workers,
             run[r].pc \notin {"new", "end"}, run'[r].pc \notin {"new", "end"}, Others(r)
      PROVE  TypeOK'
  <2>1. LockHeld'
    BY <1>a, KeepsLock DEF TypeOK
  <2> QED BY <1>1, <1>a, <2>1 DEF TypeOK, Workers
<1>3. CASE Check(r)
  <2>1. run[r].pc = "check" /\ run'[r].pc = "drain" /\ Others(r)
    BY <1>1, <1>3 DEF Check, At, Processes, Others
  <2> QED BY <1>2, <1>3, <1>a, <2>1 DEF Check, production
<1>4. CASE Drain(r)
  <2>1. factory' \in Workers
    BY <1>2, <1>4 DEF Drain, Drained, Workers
  <2> QED BY <1>4, <1>a, <2>1, Drains DEF DrainEffect, Moved
<1>5. CASE Audit(r)
  BY <1>2, <1>5, <1>a, Audits DEF AuditEffect, Moved, production
<1>6. CASE Assets(r)
  BY <1>2, <1>6, <1>a, FindsAssets DEF AssetsEffect, Moved, production
<1>7. CASE Leave(r)
  BY <1>2, <1>7, <1>a, Leaves DEF LeaveEffect, Moved, production
<1>8. CASE SecondAuditFails(r)
  BY <1>2, <1>8, <1>a, AuditsAgain DEF SecondAuditEffect, Moved, production
<1>9. CASE Admit(r)
  <2>1. factory' \in Workers
    BY <1>2, <1>9 DEF Admit, Admitted, Workers
  <2> QED BY <1>9, <1>a, <2>1, Admits DEF AdmitEffect, Moved
<1>10. CASE Redrain(r)
  <2>1. factory' \in Workers
    BY <1>2, <1>10 DEF Redrain, Drained, Workers
  <2> QED BY <1>10, <1>a, <2>1, Redrains DEF RedrainEffect, Moved
<1>11. CASE WaitEnds(r)
  <2>1. run[r].pc = "idle" /\ run'[r].pc = "exit" /\ Others(r)
    BY <1>1, <1>11 DEF WaitEnds, At, Processes, Others
  <2> QED BY <1>2, <1>11, <1>a, <2>1 DEF WaitEnds, production
<1>12. CASE Unlock(r)
  <2>1. lock' = Free /\ LockHeld'
    BY <1>12, GivesUpLock DEF Unlock, At
  <2>2. job' \in [Runs -> [Jobs -> Threads]]
    BY <1>12 DEF Unlock, TypeOK, Threads
  <2> QED BY <1>1, <1>12, <2>1, <2>2 DEF TypeOK, Unlock, production
<1>13. CASE Kill(r)
  <2>1. lock' = Free /\ LockHeld'
    BY <1>13, GivesUpLock DEF Kill
  <2>2. job' \in [Runs -> [Jobs -> Threads]]
    BY <1>13 DEF Kill, TypeOK, Threads
  <2>3. late' \in [Runs -> SUBSET Jobs] /\ cut' \in BOOLEAN
    BY <1>13 DEF Kill, TypeOK
  <2> QED BY <1>1, <1>13, <2>1, <2>2, <2>3 DEF TypeOK, Kill, production
<1> QED BY <1>3, <1>4, <1>5, <1>6, <1>7, <1>8, <1>9, <1>10, <1>11, <1>12, <1>13

LEMMA StartTypes ==
    ASSUME TypeOK, NEW r \in Runs, NEW j \in Jobs, Start(r, j) PROVE TypeOK'
<1> DEFINE States == {"none", "idle", "running"}
<1>1. /\ job \in [Runs -> [Jobs -> Threads]] /\ cont \in [Runs -> [Jobs -> States]]
      /\ late \in [Runs -> SUBSET Jobs]
  BY DEF TypeOK
<1>2. "running" \in Threads /\ "remove" \in Threads
  BY DEF Threads
<1>3. job' \in [Runs -> [Jobs -> Threads]]
  <2>1. Move(r, j, "running") \/ Move(r, j, "remove")
    BY DEF Start
  <2>2. \A pc \in Threads : [job EXCEPT ![r][j] = pc] \in [Runs -> [Jobs -> Threads]]
    BY <1>1
  <2> QED BY <1>2, <2>1, <2>2 DEF Move
<1>4. cont' \in [Runs -> [Jobs -> States]]
  <2>1. \/ cont' = cont
        \/ cont' = [cont EXCEPT ![r][j] = "running"]
    BY DEF Start
  <2>2. [cont EXCEPT ![r][j] = "running"] \in [Runs -> [Jobs -> States]]
    BY <1>1
  <2> QED BY <1>1, <2>1, <2>2
<1>5. late' \in [Runs -> SUBSET Jobs]
  BY <1>1 DEF Start
<1> QED BY <1>3, <1>4, <1>5 DEF Start, TypeOK, LockHeld, production

LEMMA TypeStep ==
    ASSUME TypeOK, [Next]_vars PROVE TypeOK'
<1> USE YueBenchAssumption
    DEF TypeOK, Gens, Free, At, Goto, JobAt, Move, Drained, Admitted, Over, Unclean, Alive,
        production, bench, Labels, Processes, Threads, LockHeld
<1>0. CASE UNCHANGED vars
  BY <1>0 DEF vars
<1>1. ASSUME NEW r \in Runs, Acquire(r) PROVE TypeOK'
  <2>0. run[r] \in Processes
    OBVIOUS
  <2>1. CASE lock = Free
    <3>1. run' = [run EXCEPT ![r].pc = "check"] /\ lock' = r
      BY <1>1, <2>1 DEF Acquire
    <3>2. run' \in [Runs -> Processes]
      BY <2>0, <3>1
    <3>3. LockHeld'
      BY <3>1, <2>1, <1>1 DEF Acquire
    <3> QED BY <1>1, <3>1, <3>2, <3>3 DEF Acquire
  <2>2. CASE lock # Free
    <3>1. run' = [run EXCEPT ![r].pc = "end"] /\ lock' = lock
      BY <1>1, <2>2 DEF Acquire
    <3>2. run' \in [Runs -> Processes]
      BY <2>0, <3>1
    <3>3. LockHeld'
      BY <3>1, <2>2, <1>1 DEF Acquire
    <3> QED BY <1>1, <3>1, <3>2, <3>3 DEF Acquire
  <2> QED BY <2>1, <2>2
<1>2. ASSUME NEW r \in Runs, Check(r) PROVE TypeOK'
  BY <1>2, LeaseTypes
<1>3. ASSUME NEW r \in Runs, CheckFails(r) PROVE TypeOK'
  <2>1. run[r] \in Processes
    OBVIOUS
  <2>2. run' \in [Runs -> Processes]
    BY <1>3, <2>1 DEF CheckFails
  <2>3. LockHeld'
    BY <1>3 DEF CheckFails
  <2> QED BY <1>3, <2>2, <2>3 DEF CheckFails
<1>4. ASSUME NEW r \in Runs, Drain(r) PROVE TypeOK'
  BY <1>4, LeaseTypes
<1>5. ASSUME NEW r \in Runs, BecomesIdle(r) PROVE TypeOK'
  <2>1. run[r] \in Processes
    OBVIOUS
  <2>2. run' \in [Runs -> Processes]
    BY <1>5, <2>1 DEF BecomesIdle
  <2>3. LockHeld'
    BY <1>5 DEF BecomesIdle
  <2> QED BY <1>5, <2>2, <2>3 DEF BecomesIdle
<1>6. ASSUME NEW r \in Runs, WaitEnds(r) PROVE TypeOK'
  BY <1>6, LeaseTypes
<1>7. ASSUME NEW r \in Runs, HealthFails(r) PROVE TypeOK'
  <2>1. run[r] \in Processes
    OBVIOUS
  <2>2. run' \in [Runs -> Processes]
    BY <1>7, <2>1 DEF HealthFails
  <2>3. LockHeld'
    BY <1>7 DEF HealthFails
  <2> QED BY <1>7, <2>2, <2>3 DEF HealthFails
<1>8. ASSUME NEW r \in Runs, Audit(r) PROVE TypeOK'
  BY <1>8, LeaseTypes
<1>9. ASSUME NEW r \in Runs, Assets(r) PROVE TypeOK'
  BY <1>9, LeaseTypes
<1>10. ASSUME NEW r \in Runs, Leave(r) PROVE TypeOK'
  BY <1>10, LeaseTypes
<1>11. ASSUME NEW r \in Runs, SecondAuditFails(r) PROVE TypeOK'
  BY <1>11, LeaseTypes
<1>12. ASSUME NEW r \in Runs, Admit(r) PROVE TypeOK'
  BY <1>12, LeaseTypes
<1>39. ASSUME NEW r \in Runs, Redrain(r) PROVE TypeOK'
  BY <1>39, LeaseTypes
<1>13. ASSUME NEW r \in Runs, Unlock(r) PROVE TypeOK'
  BY <1>13, LeaseTypes
<1>14. ASSUME NEW r \in Runs, TrialEnds(r) PROVE TypeOK'
  <2>1. run[r] \in Processes
    OBVIOUS
  <2>2. run' \in [Runs -> Processes]
    BY <1>14, <2>1 DEF TrialEnds
  <2>3. LockHeld'
    BY <1>14 DEF TrialEnds
  <2> QED BY <1>14, <2>2, <2>3 DEF TrialEnds
<1>15. ASSUME NEW r \in Runs, FailedTrialEnds(r) PROVE TypeOK'
  <2>1. run[r] \in Processes
    OBVIOUS
  <2>2. run' \in [Runs -> Processes]
    BY <1>15, <2>1 DEF FailedTrialEnds
  <2>3. LockHeld'
    BY <1>15 DEF FailedTrialEnds
  <2> QED BY <1>15, <2>2, <2>3 DEF FailedTrialEnds
<1>16. ASSUME NEW r \in Runs, Stop(r) PROVE TypeOK'
  <2>1. run[r] \in Processes
    OBVIOUS
  <2>2. run' \in [Runs -> Processes]
    BY <1>16, <2>1 DEF Stop
  <2>3. LockHeld'
    BY <1>16 DEF Stop
  <2> HIDE DEF Processes, Threads, LockHeld
  <2> QED BY <1>16, <2>2, <2>3 DEF Stop
<1>17. ASSUME NEW r \in Runs, TrialFails(r) PROVE TypeOK'
  <2>1. run[r] \in Processes
    OBVIOUS
  <2>2. run' \in [Runs -> Processes]
    BY <1>17, <2>1 DEF TrialFails
  <2>3. LockHeld'
    BY <1>17 DEF TrialFails
  <2> QED BY <1>17, <2>2, <2>3 DEF TrialFails
<1>18. ASSUME NEW r \in Runs, Kill(r) PROVE TypeOK'
  BY <1>18, LeaseTypes
<1>19. ASSUME NEW r \in Runs, NEW j \in Jobs, Launch(r, j) PROVE TypeOK'
  <2>1. run[r] \in Processes
    OBVIOUS
  <2>2. run' \in [Runs -> Processes]
    BY <1>19, <2>1 DEF Launch
  <2>3. LockHeld'
    BY <1>19 DEF Launch
  <2> QED BY <1>19, <2>2, <2>3 DEF Launch
<1>20. ASSUME NEW r \in Runs, NEW j \in Jobs, Collect(r, j) PROVE TypeOK'
  <2>0. run[r] \in Processes
    OBVIOUS
  <2>1. PICK stop \in BOOLEAN : run' = [run EXCEPT ![r].stop = stop]
    <3>1. run[r].stop \in BOOLEAN
      OBVIOUS
    <3> QED BY <1>20, <3>1 DEF Collect
  <2>2. run' \in [Runs -> Processes]
    BY <2>0, <2>1
  <2>3. LockHeld'
    BY <1>20, <2>1 DEF Collect
  <2> QED BY <1>20, <2>2, <2>3 DEF Collect
<1>21. ASSUME NEW r \in Runs, NEW j \in Jobs, Create(r, j) PROVE TypeOK'
  <2>1. run[r] \in Processes
    OBVIOUS
  <2>2. run' \in [Runs -> Processes]
    BY <1>21, <2>1 DEF Create
  <2>3. LockHeld'
    BY <1>21 DEF Create
  <2> QED BY <1>21, <2>2, <2>3 DEF Create
<1>22. ASSUME NEW r \in Runs, NEW j \in Jobs, CreateFound(r, j) PROVE TypeOK'
  <2>1. run[r] \in Processes
    OBVIOUS
  <2>2. run' \in [Runs -> Processes]
    BY <1>22, <2>1 DEF CreateFound
  <2>3. LockHeld'
    BY <1>22 DEF CreateFound
  <2> QED BY <1>22, <2>2, <2>3 DEF CreateFound
<1>23. ASSUME NEW r \in Runs, NEW j \in Jobs, CreateLost(r, j) PROVE TypeOK'
  <2>1. run[r] \in Processes
    OBVIOUS
  <2>2. run' \in [Runs -> Processes]
    BY <1>23, <2>1 DEF CreateLost
  <2>3. LockHeld'
    BY <1>23 DEF CreateLost
  <2> QED BY <1>23, <2>2, <2>3 DEF CreateLost
<1>24. ASSUME NEW r \in Runs, NEW j \in Jobs, SendStart(r, j) PROVE TypeOK'
  <2>1. run[r] \in Processes
    OBVIOUS
  <2>2. run' \in [Runs -> Processes]
    BY <1>24, <2>1 DEF SendStart
  <2>3. LockHeld'
    BY <1>24 DEF SendStart
  <2> QED BY <1>24, <2>2, <2>3 DEF SendStart
<1>25. ASSUME NEW r \in Runs, NEW j \in Jobs, Start(r, j) PROVE TypeOK'
  BY <1>25, StartTypes
<1>26. ASSUME NEW r \in Runs, NEW j \in Jobs, Poll(r, j) PROVE TypeOK'
  <2>1. run[r] \in Processes
    OBVIOUS
  <2>2. run' \in [Runs -> Processes]
    BY <1>26, <2>1 DEF Poll
  <2>3. LockHeld'
    BY <1>26 DEF Poll
  <2> QED BY <1>26, <2>2, <2>3 DEF Poll
<1>27. ASSUME NEW r \in Runs, NEW j \in Jobs, Remove(r, j) PROVE TypeOK'
  <2>1. run[r] \in Processes
    OBVIOUS
  <2>2. run' \in [Runs -> Processes]
    BY <1>27, <2>1 DEF Remove
  <2>3. LockHeld'
    BY <1>27 DEF Remove
  <2> QED BY <1>27, <2>2, <2>3 DEF Remove
<1>28. ASSUME NEW r \in Runs, NEW j \in Jobs, RemoveFails(r, j) PROVE TypeOK'
  <2>1. run[r] \in Processes
    OBVIOUS
  <2>2. run' \in [Runs -> Processes]
    BY <1>28, <2>1 DEF RemoveFails
  <2>3. LockHeld'
    BY <1>28 DEF RemoveFails
  <2> QED BY <1>28, <2>2, <2>3 DEF RemoveFails
<1>29. ASSUME NEW r \in Runs, NEW j \in Jobs, Exits(r, j) PROVE TypeOK'
  <2>1. run[r] \in Processes
    OBVIOUS
  <2>2. run' \in [Runs -> Processes]
    BY <1>29, <2>1 DEF Exits
  <2>3. LockHeld'
    BY <1>29 DEF Exits
  <2> QED BY <1>29, <2>2, <2>3 DEF Exits
<1>30. ASSUME NEW r \in Runs, NEW j \in Jobs, LateStart(r, j) PROVE TypeOK'
  <2>1. PICK c \in {cont[r][j], "running"} : cont' = [cont EXCEPT ![r][j] = c]
    BY <1>30 DEF LateStart
  <2>2. cont' \in [Runs -> [Jobs -> {"none", "idle", "running"}]]
    BY <2>1
  <2> QED BY <1>30, <2>2 DEF LateStart
<1>31. CASE Submit
  BY <1>31 DEF Submit
<1>32. CASE Render
  BY <1>32 DEF Render
<1>33. CASE MacFence
  BY <1>33 DEF MacFence
<1>34. CASE MacDrain
  BY <1>34 DEF MacDrain
<1>35. CASE MacStop
  BY <1>35 DEF MacStop
<1>36. CASE MacVerify
  BY <1>36 DEF MacVerify
<1>37. CASE MacStart
  <2>1. CASE UNCHANGED factory
    BY <1>37, <2>1 DEF MacStart
  <2>2. CASE factory' = [up |-> TRUE, accepting |-> TRUE, gen |-> nodeGen, busy |-> FALSE]
    BY <1>37, <2>2 DEF MacStart
  <2> QED BY <1>37, <2>1, <2>2 DEF MacStart
<1>38. CASE MacFails
  BY <1>38 DEF MacFails
<1> QED BY NextCases, <1>0, <1>1, <1>2, <1>3, <1>4, <1>5, <1>6, <1>7, <1>8, <1>9, <1>10,
          <1>11, <1>12, <1>13, <1>14, <1>15, <1>16, <1>17, <1>18, <1>19, <1>20, <1>21, <1>22,
          <1>23, <1>24, <1>25, <1>26, <1>27, <1>28, <1>29, <1>30, <1>31, <1>32, <1>33, <1>34,
          <1>35, <1>36, <1>37, <1>38, <1>39

LEMMA InitTypes ==
    ASSUME Init PROVE TypeOK
<1>1. 0 \in Gens
  BY YueBenchAssumption DEF Gens
<1>2. Fresh \in Processes
  BY <1>1 DEF Fresh, Processes, Labels
<1>3. \A r \in Runs : run[r].pc = "new"
  BY DEF Init, Fresh
<1>4. LockHeld
  BY <1>3, YueBenchAssumption DEF Init, Free, LockHeld
<1> QED BY <1>1, <1>2, <1>4 DEF Init, TypeOK, Threads, Free

(* Every reachable state is well typed, and exactly the run inside its lease *)
(* holds node.lock.                                                          *)
THEOREM TypeCorrect == Spec => []TypeOK
<1>1. Init => TypeOK
  BY InitTypes
<1>2. TypeOK /\ [Next]_vars => TypeOK'
  BY TypeStep
<1> QED BY <1>1, <1>2, PTL DEF Spec

LEMMA ThreadsStep ==
    ASSUME TypeOK, ThreadsBelong, [Next]_vars PROVE ThreadsBelong'
<1> USE DEF TypeOK, Processes, Threads, ThreadsBelong, Working, At, Goto, JobAt, Move, Drained,
    Admitted, Over, Unclean, Alive,
        production, bench
<1>0. CASE UNCHANGED vars
  BY <1>0 DEF vars
<1>1. ASSUME NEW r \in Runs, Acquire(r) PROVE ThreadsBelong'
  <2>1. AcquireEffect(r)
    BY <1>1, Acquires
  <2>2. LockHeld
    BY DEF TypeOK
  <2> HIDE DEF TypeOK, Processes, Threads
  <2> QED BY <2>1, <2>2 DEF AcquireEffect, Moved, Others, Silent
<1>2. ASSUME NEW r \in Runs, Check(r) PROVE ThreadsBelong'
  BY <1>2 DEF Check
<1>3. ASSUME NEW r \in Runs, CheckFails(r) PROVE ThreadsBelong'
  BY <1>3 DEF CheckFails
<1>4. ASSUME NEW r \in Runs, Drain(r) PROVE ThreadsBelong'
  <2>1. DrainEffect(r)
    BY <1>4, Drains
  <2>2. LockHeld
    BY DEF TypeOK
  <2> HIDE DEF TypeOK, Processes, Threads
  <2> QED BY <2>1, <2>2 DEF DrainEffect, Moved, Others
<1>5. ASSUME NEW r \in Runs, BecomesIdle(r) PROVE ThreadsBelong'
  BY <1>5 DEF BecomesIdle
<1>6. ASSUME NEW r \in Runs, WaitEnds(r) PROVE ThreadsBelong'
  BY <1>6 DEF WaitEnds
<1>7. ASSUME NEW r \in Runs, HealthFails(r) PROVE ThreadsBelong'
  BY <1>7 DEF HealthFails
<1>8. ASSUME NEW r \in Runs, Audit(r) PROVE ThreadsBelong'
  <2>1. AuditEffect(r)
    BY <1>8, Audits
  <2>2. LockHeld
    BY DEF TypeOK
  <2> HIDE DEF TypeOK, Processes, Threads
  <2> QED BY <2>1, <2>2 DEF AuditEffect, Moved, Others, Silent
<1>9. ASSUME NEW r \in Runs, Assets(r) PROVE ThreadsBelong'
  <2>1. AssetsEffect(r)
    BY <1>9, FindsAssets
  <2>2. LockHeld
    BY DEF TypeOK
  <2> HIDE DEF TypeOK, Processes, Threads
  <2> QED BY <2>1, <2>2 DEF AssetsEffect, Moved, Others, Silent
<1>10. ASSUME NEW r \in Runs, Leave(r) PROVE ThreadsBelong'
  <2>1. LeaveEffect(r)
    BY <1>10, Leaves
  <2>2. LockHeld
    BY DEF TypeOK
  <2> HIDE DEF TypeOK, Processes, Threads
  <2> QED BY <2>1, <2>2 DEF LeaveEffect, Moved, Others
<1>11. ASSUME NEW r \in Runs, SecondAuditFails(r) PROVE ThreadsBelong'
  <2>1. SecondAuditEffect(r)
    BY <1>11, AuditsAgain
  <2>2. LockHeld
    BY DEF TypeOK
  <2> HIDE DEF TypeOK, Processes, Threads
  <2> QED BY <2>1, <2>2 DEF SecondAuditEffect, Moved, Others, Silent
<1>12. ASSUME NEW r \in Runs, Admit(r) PROVE ThreadsBelong'
  <2>1. AdmitEffect(r)
    BY <1>12, Admits
  <2>2. LockHeld
    BY DEF TypeOK
  <2> HIDE DEF TypeOK, Processes, Threads
  <2> QED BY <2>1, <2>2 DEF AdmitEffect, Moved, Others
<1>39. ASSUME NEW r \in Runs, Redrain(r) PROVE ThreadsBelong'
  <2>1. RedrainEffect(r)
    BY <1>39, Redrains
  <2>2. LockHeld
    BY DEF TypeOK
  <2> HIDE DEF TypeOK, Processes, Threads
  <2> QED BY <2>1, <2>2 DEF RedrainEffect, Moved, Others
<1>13. ASSUME NEW r \in Runs, Unlock(r) PROVE ThreadsBelong'
  BY <1>13 DEF Unlock
<1>14. ASSUME NEW r \in Runs, TrialEnds(r) PROVE ThreadsBelong'
  BY <1>14 DEF TrialEnds, Launched, Joined
<1>15. ASSUME NEW r \in Runs, FailedTrialEnds(r) PROVE ThreadsBelong'
  BY <1>15 DEF FailedTrialEnds, Launched, Joined
<1>16. ASSUME NEW r \in Runs, Stop(r) PROVE ThreadsBelong'
  BY <1>16 DEF Stop
<1>17. ASSUME NEW r \in Runs, TrialFails(r) PROVE ThreadsBelong'
  BY <1>17 DEF TrialFails
<1>18. ASSUME NEW r \in Runs, Kill(r) PROVE ThreadsBelong'
  <2>1. \A q \in Runs : q # r => run'[q] = run[q] /\ job'[q] = job[q]
    BY <1>18 DEF Kill
  <2>2. \A j \in Jobs : job'[r][j] = "done"
    BY <1>18 DEF Kill
  <2> HIDE DEF TypeOK, Processes, Threads
  <2> QED BY <2>1, <2>2
<1>19. ASSUME NEW r \in Runs, NEW j \in Jobs, Launch(r, j) PROVE ThreadsBelong'
  BY <1>19 DEF Launch
<1>20. ASSUME NEW r \in Runs, NEW j \in Jobs, Collect(r, j) PROVE ThreadsBelong'
  BY <1>20 DEF Collect
<1>21. ASSUME NEW r \in Runs, NEW j \in Jobs, Create(r, j) PROVE ThreadsBelong'
  BY <1>21 DEF Create
<1>22. ASSUME NEW r \in Runs, NEW j \in Jobs, CreateFound(r, j) PROVE ThreadsBelong'
  BY <1>22 DEF CreateFound
<1>23. ASSUME NEW r \in Runs, NEW j \in Jobs, CreateLost(r, j) PROVE ThreadsBelong'
  BY <1>23 DEF CreateLost
<1>24. ASSUME NEW r \in Runs, NEW j \in Jobs, SendStart(r, j) PROVE ThreadsBelong'
  BY <1>24 DEF SendStart
<1>25. ASSUME NEW r \in Runs, NEW j \in Jobs, Start(r, j) PROVE ThreadsBelong'
  BY <1>25 DEF Start
<1>26. ASSUME NEW r \in Runs, NEW j \in Jobs, Poll(r, j) PROVE ThreadsBelong'
  BY <1>26 DEF Poll
<1>27. ASSUME NEW r \in Runs, NEW j \in Jobs, Remove(r, j) PROVE ThreadsBelong'
  BY <1>27 DEF Remove
<1>28. ASSUME NEW r \in Runs, NEW j \in Jobs, RemoveFails(r, j) PROVE ThreadsBelong'
  BY <1>28 DEF RemoveFails
<1>29. ASSUME NEW r \in Runs, NEW j \in Jobs, Exits(r, j) PROVE ThreadsBelong'
  BY <1>29 DEF Exits
<1>30. ASSUME NEW r \in Runs, NEW j \in Jobs, LateStart(r, j) PROVE ThreadsBelong'
  BY <1>30 DEF LateStart
<1>31. CASE Submit
  BY <1>31 DEF Submit
<1>32. CASE Render
  BY <1>32 DEF Render
<1>33. CASE MacFence
  BY <1>33 DEF MacFence
<1>34. CASE MacDrain
  BY <1>34 DEF MacDrain
<1>35. CASE MacStop
  BY <1>35 DEF MacStop
<1>36. CASE MacVerify
  BY <1>36 DEF MacVerify
<1>37. CASE MacStart
  BY <1>37 DEF MacStart
<1>38. CASE MacFails
  BY <1>38 DEF MacFails
<1> QED BY NextCases, <1>0, <1>1, <1>2, <1>3, <1>4, <1>5, <1>6, <1>7, <1>8, <1>9, <1>10,
          <1>11, <1>12, <1>13, <1>14, <1>15, <1>16, <1>17, <1>18, <1>19, <1>20, <1>21, <1>22,
          <1>23, <1>24, <1>25, <1>26, <1>27, <1>28, <1>29, <1>30, <1>31, <1>32, <1>33, <1>34,
          <1>35, <1>36, <1>37, <1>38, <1>39

LEMMA LeaseStep ==
    ASSUME TypeOK, ThreadsBelong, LeaseIsKept, [Next]_vars PROVE LeaseIsKept'
<1> USE YueBenchAssumption
    DEF TypeOK, Processes, LockHeld, Free, LeaseIsKept, Leased, Soiled, Borrowing, Fresh,
        ThreadsBelong, Working, Admissible, At, Goto, JobAt,
        Move, Drained, Admitted, Over, Unclean, Alive,
        production, bench
<1>0. CASE UNCHANGED vars
  BY <1>0 DEF vars
<1>1. ASSUME NEW r \in Runs, Acquire(r) PROVE LeaseIsKept'
  <2>1. AcquireEffect(r)
    BY <1>1, Acquires
  <2>2. LockHeld
    BY DEF TypeOK
  <2> HIDE DEF TypeOK, Processes, Threads
  <2> QED BY <2>1, <2>2 DEF AcquireEffect, Moved, Others, Silent
<1>2. ASSUME NEW r \in Runs, Check(r) PROVE LeaseIsKept'
  BY <1>2 DEF Check
<1>3. ASSUME NEW r \in Runs, CheckFails(r) PROVE LeaseIsKept'
  BY <1>3 DEF CheckFails
<1>4. ASSUME NEW r \in Runs, Drain(r) PROVE LeaseIsKept'
  <2>1. DrainEffect(r)
    BY <1>4, Drains
  <2>2. LockHeld
    BY DEF TypeOK
  <2> HIDE DEF TypeOK, Processes, Threads
  <2> QED BY <2>1, <2>2 DEF DrainEffect, Moved, Others
<1>5. ASSUME NEW r \in Runs, BecomesIdle(r) PROVE LeaseIsKept'
  BY <1>5 DEF BecomesIdle
<1>6. ASSUME NEW r \in Runs, WaitEnds(r) PROVE LeaseIsKept'
  BY <1>6 DEF WaitEnds
<1>7. ASSUME NEW r \in Runs, HealthFails(r) PROVE LeaseIsKept'
  BY <1>7 DEF HealthFails
<1>8. ASSUME NEW r \in Runs, Audit(r) PROVE LeaseIsKept'
  <2>1. AuditEffect(r)
    BY <1>8, Audits
  <2>2. LockHeld
    BY DEF TypeOK
  <2> HIDE DEF TypeOK, Processes, Threads
  <2> QED BY <2>1, <2>2 DEF AuditEffect, Moved, Others, Silent
<1>9. ASSUME NEW r \in Runs, Assets(r) PROVE LeaseIsKept'
  <2>1. AssetsEffect(r)
    BY <1>9, FindsAssets
  <2>2. LockHeld
    BY DEF TypeOK
  <2> HIDE DEF TypeOK, Processes, Threads
  <2> QED BY <2>1, <2>2 DEF AssetsEffect, Moved, Others, Silent
<1>10. ASSUME NEW r \in Runs, Leave(r) PROVE LeaseIsKept'
  <2>1. LeaveEffect(r)
    BY <1>10, Leaves
  <2>2. LockHeld
    BY DEF TypeOK
  <2> HIDE DEF TypeOK, Processes, Threads
  <2> QED BY <2>1, <2>2 DEF LeaveEffect, Moved, Others
<1>11. ASSUME NEW r \in Runs, SecondAuditFails(r) PROVE LeaseIsKept'
  <2>1. SecondAuditEffect(r)
    BY <1>11, AuditsAgain
  <2>2. LockHeld
    BY DEF TypeOK
  <2> HIDE DEF TypeOK, Processes, Threads
  <2> QED BY <2>1, <2>2 DEF SecondAuditEffect, Moved, Others, Silent
<1>12. ASSUME NEW r \in Runs, Admit(r) PROVE LeaseIsKept'
  <2>1. AdmitEffect(r)
    BY <1>12, Admits
  <2>2. LockHeld
    BY DEF TypeOK
  <2> HIDE DEF TypeOK, Processes, Threads
  <2> QED BY <2>1, <2>2 DEF AdmitEffect, Moved, Others
<1>39. ASSUME NEW r \in Runs, Redrain(r) PROVE LeaseIsKept'
  <2>1. RedrainEffect(r)
    BY <1>39, Redrains
  <2>2. LockHeld
    BY DEF TypeOK
  <2> HIDE DEF TypeOK, Processes, Threads
  <2> QED BY <2>1, <2>2 DEF RedrainEffect, Moved, Others
<1>13. ASSUME NEW r \in Runs, Unlock(r) PROVE LeaseIsKept'
  BY <1>13 DEF Unlock
<1>14. ASSUME NEW r \in Runs, TrialEnds(r) PROVE LeaseIsKept'
  BY <1>14 DEF TrialEnds
<1>15. ASSUME NEW r \in Runs, FailedTrialEnds(r) PROVE LeaseIsKept'
  BY <1>15 DEF FailedTrialEnds
<1>16. ASSUME NEW r \in Runs, Stop(r) PROVE LeaseIsKept'
  BY <1>16 DEF Stop
<1>17. ASSUME NEW r \in Runs, TrialFails(r) PROVE LeaseIsKept'
  BY <1>17 DEF TrialFails
<1>18. ASSUME NEW r \in Runs, Kill(r) PROVE LeaseIsKept'
  BY <1>18 DEF Kill
<1>19. ASSUME NEW r \in Runs, NEW j \in Jobs, Launch(r, j) PROVE LeaseIsKept'
  BY <1>19 DEF Launch
<1>20. ASSUME NEW r \in Runs, NEW j \in Jobs, Collect(r, j) PROVE LeaseIsKept'
  BY <1>20 DEF Collect
<1>21. ASSUME NEW r \in Runs, NEW j \in Jobs, Create(r, j) PROVE LeaseIsKept'
  BY <1>21 DEF Create
<1>22. ASSUME NEW r \in Runs, NEW j \in Jobs, CreateFound(r, j) PROVE LeaseIsKept'
  BY <1>22 DEF CreateFound
<1>23. ASSUME NEW r \in Runs, NEW j \in Jobs, CreateLost(r, j) PROVE LeaseIsKept'
  BY <1>23 DEF CreateLost
<1>24. ASSUME NEW r \in Runs, NEW j \in Jobs, SendStart(r, j) PROVE LeaseIsKept'
  BY <1>24 DEF SendStart
<1>25. ASSUME NEW r \in Runs, NEW j \in Jobs, Start(r, j) PROVE LeaseIsKept'
  BY <1>25 DEF Start
<1>26. ASSUME NEW r \in Runs, NEW j \in Jobs, Poll(r, j) PROVE LeaseIsKept'
  BY <1>26 DEF Poll
<1>27. ASSUME NEW r \in Runs, NEW j \in Jobs, Remove(r, j) PROVE LeaseIsKept'
  BY <1>27 DEF Remove
<1>28. ASSUME NEW r \in Runs, NEW j \in Jobs, RemoveFails(r, j) PROVE LeaseIsKept'
  BY <1>28 DEF RemoveFails
<1>29. ASSUME NEW r \in Runs, NEW j \in Jobs, Exits(r, j) PROVE LeaseIsKept'
  BY <1>29 DEF Exits
<1>30. ASSUME NEW r \in Runs, NEW j \in Jobs, LateStart(r, j) PROVE LeaseIsKept'
  BY <1>30 DEF LateStart
<1>31. CASE Submit
  BY <1>31 DEF Submit
<1>32. CASE Render
  BY <1>32 DEF Render
<1>33. CASE MacFence
  BY <1>33 DEF MacFence
<1>34. CASE MacDrain
  <2>1. \A r \in Runs : run[r].pc \in {"new", "end"}
    BY <1>34 DEF MacDrain
  <2>2. ~factory'.accepting /\ UNCHANGED <<nodeGen, run>>
    BY <1>34 DEF MacDrain
  <2> HIDE DEF TypeOK, Processes, LockHeld, ThreadsBelong
  <2> QED BY <2>1, <2>2
<1>35. CASE MacStop
  BY <1>35 DEF MacStop
<1>36. CASE MacVerify
  BY <1>36 DEF MacVerify
<1>37. CASE MacStart
  BY <1>37 DEF MacStart
<1>38. CASE MacFails
  BY <1>38 DEF MacFails
<1> HIDE DEF TypeOK, Processes, LockHeld, Free, LeaseIsKept, Leased, Soiled, Borrowing, Fresh,
        ThreadsBelong, Working, Admissible, At, Goto, JobAt, Move, Drained, Admitted, Over, Unclean,
        Alive, production, bench
<1> QED BY NextCases, <1>0, <1>1, <1>2, <1>3, <1>4, <1>5, <1>6, <1>7, <1>8, <1>9, <1>10,
          <1>11, <1>12, <1>13, <1>14, <1>15, <1>16, <1>17, <1>18, <1>19, <1>20, <1>21, <1>22,
          <1>23, <1>24, <1>25, <1>26, <1>27, <1>28, <1>29, <1>30, <1>31, <1>32, <1>33, <1>34,
          <1>35, <1>36, <1>37, <1>38, <1>39

LEMMA OneHolder ==
    ASSUME TypeOK
    PROVE  /\ \A q, r \in Runs :
                run[q].pc \notin {"new", "end"} /\ run[r].pc \notin {"new", "end"} => q = r
           /\ lock = Free => \A r \in Runs : run[r].pc \in {"new", "end"}
           /\ \A r \in Runs : late[r] \subseteq Jobs
BY YueBenchAssumption DEF TypeOK, LockHeld, Free

LEMMA GpuStep ==
    ASSUME TypeOK, ThreadsBelong, LatesBelong, LeaseIsKept, GpuIsKept, [Next]_vars
    PROVE  GpuIsKept'
<1>w. \A q, r \in Runs :
        run[q].pc \notin {"new", "end"} /\ run[r].pc \notin {"new", "end"} => q = r
  BY OneHolder
<1>f. lock = Free => \A r \in Runs : run[r].pc \in {"new", "end"}
  BY OneHolder
\* Whoever is waited for by nobody belongs to the run that has the lock.
<1>l. ASSUME NEW r \in Runs, late[r] # {}, ~cut
      PROVE  run[r].pc \in {"trial", "failing"} \/ Soiled(r)
  <2>1. PICK j \in Jobs : j \in late[r]
    BY <1>l, OneHolder
  <2> QED BY <1>l, <2>1 DEF LatesBelong
<1>d. ASSUME NEW r \in Runs, run[r].pc \in {"trial", "failing"} \/ Soiled(r)
      PROVE  ~factory.accepting /\ mac \notin {"drained", "stopped", "verified"}
             /\ run[r].pc \notin {"new", "end", "admit", "audit", "assets"}
  BY <1>d DEF LeaseIsKept, Leased, Soiled, Borrowing
\* The steps after which nobody is on the GPU, or may come, who was or might not.
<1>p. ASSUME vllm' => vllm, mac' = "verified" => mac = "verified", cut => cut',
             factory'.busy => factory.busy, factory'.accepting => factory.accepting,
             \A q \in Runs, i \in Jobs : cont'[q][i] = "running" => cont[q][i] = "running",
             \A q \in Runs : late'[q] # {} => cut' \/ late[q] # {},
             \A q \in Runs : /\ run'[q].pc \in {"assets", "trial", "failing"} =>
                                  run[q].pc \in {"assets", "trial", "failing"}
                             /\ run'[q].pc = "admit" => run[q].pc = "admit"
      PROVE  GpuIsKept'
  BY <1>p DEF GpuIsKept, OnlyRun, NoBench
<1>c. ASSUME NEW r \in Runs, Others(r), UNCHANGED <<production, job, cont, late, cut>>,
             /\ run'[r].pc \in {"assets", "trial", "failing"} =>
                  run[r].pc \in {"assets", "trial", "failing"}
             /\ run'[r].pc = "admit" => run[r].pc = "admit"
      PROVE  GpuIsKept'
  BY <1>c, <1>p DEF Others, production
<1>t. ASSUME NEW r \in Runs, NEW j \in Jobs, NEW from, NEW to, NEW c,
             ThreadEffect(r, j, from, to, c), "running" \notin c \/ c = {cont[r][j]},
             \A q \in Runs, i \in Jobs : i \in late'[q] => i \in late[q],
             \A q \in Runs : run'[q].pc = run[q].pc
      PROVE  GpuIsKept'
  <2>1. \A q \in Runs, i \in Jobs : cont'[q][i] = "running" => cont[q][i] = "running"
    BY <1>t DEF ThreadEffect
  <2>2. \A q \in Runs : late'[q] # {} => cut' \/ late[q] # {}
    <3>1. \A q \in Runs : late'[q] \subseteq Jobs
      <4>1. TypeOK'
        BY TypeStep
      <4> QED BY <4>1 DEF TypeOK
    <3> QED BY <1>t, <3>1
  <2> QED BY <1>t, <1>p, <2>1, <2>2 DEF ThreadEffect, production
<1>0. CASE UNCHANGED vars
  BY <1>0, <1>p DEF vars
<1>1. ASSUME NEW r \in Runs, Acquire(r) PROVE GpuIsKept'
  BY <1>1, <1>c, Acquires DEF AcquireEffect, Moved
<1>2. ASSUME NEW r \in Runs, Check(r) PROVE GpuIsKept'
  <2>1. run'[r].pc = "drain" /\ Others(r)
    BY <1>2, ProcessMoves
  <2> QED BY <1>2, <2>1, <1>c DEF Check
<1>3. ASSUME NEW r \in Runs, CheckFails(r) PROVE GpuIsKept'
  BY <1>3, <1>c, ProcessMoves DEF Moved, CheckFails
<1>4. ASSUME NEW r \in Runs, Drain(r) PROVE GpuIsKept'
  BY <1>4, <1>p, Drains DEF DrainEffect, Moved, Others
<1>5. ASSUME NEW r \in Runs, BecomesIdle(r) PROVE GpuIsKept'
  BY <1>5, <1>c, ProcessMoves DEF Moved, BecomesIdle
<1>6. ASSUME NEW r \in Runs, WaitEnds(r) PROVE GpuIsKept'
  BY <1>6, <1>c, ProcessMoves DEF WaitEnds
<1>7. ASSUME NEW r \in Runs, HealthFails(r) PROVE GpuIsKept'
  BY <1>7, <1>c, ProcessMoves DEF Moved, HealthFails
<1>8. ASSUME NEW r \in Runs, Audit(r) PROVE GpuIsKept'
  <2>1. AuditEffect(r)
    BY <1>8, Audits
  <2>2. CASE run'[r].pc = "exit"
    BY <2>1, <2>2, <1>c DEF AuditEffect, Moved
  <2>3. CASE run'[r].pc = "assets"
    <3>1. GpuIdle /\ run[r].pc = "audit" /\ Others(r) /\ ~factory.accepting
      BY <2>1, <2>3 DEF AuditEffect, Moved, LeaseIsKept, Borrowing
    <3>2. ~vllm /\ ~factory.busy /\ \A q \in Runs, j \in Jobs : cont[q][j] # "running"
      BY <3>1 DEF GpuIdle, Running
    <3>3. UNCHANGED <<vllm, factory, mac, cont, late, cut>>
      BY <2>1 DEF AuditEffect, production
    <3>4. \A q \in Runs : q # r => run[q].pc \in {"new", "end"}
      BY <3>1, <1>w
    <3> QED BY <2>3, <3>1, <3>2, <3>3, <3>4, <1>l, <1>d
         DEF GpuIsKept, OnlyRun, NoBench, Others, LeaseIsKept, Leased, Borrowing
  <2> QED BY <2>1, <2>2, <2>3 DEF AuditEffect, Moved
<1>9. ASSUME NEW r \in Runs, Assets(r) PROVE GpuIsKept'
  BY <1>9, <1>c, FindsAssets DEF AssetsEffect, Moved
<1>10. ASSUME NEW r \in Runs, Leave(r) PROVE GpuIsKept'
  <2>1. LeaveEffect(r)
    BY <1>10, Leaves
  <2>2. CASE run'[r].pc = "unlock"
    BY <2>1, <2>2, <1>c DEF LeaveEffect, Moved
  <2>3. CASE run'[r].pc = "admit"
    <3>1. GpuIdle /\ Others(r)
      BY <2>1, <2>3 DEF LeaveEffect, Moved
    <3>2. ~vllm /\ ~factory.busy /\ \A q \in Runs, j \in Jobs : cont[q][j] # "running"
      BY <3>1 DEF GpuIdle, Running
    <3>3. UNCHANGED <<vllm, factory, mac, cont, late, cut>>
      BY <2>1 DEF LeaveEffect, production
    <3> QED BY <2>3, <3>1, <3>2, <3>3 DEF GpuIsKept, OnlyRun, NoBench, Others
  <2> QED BY <2>1, <2>2, <2>3 DEF LeaveEffect, Moved
<1>11. ASSUME NEW r \in Runs, SecondAuditFails(r) PROVE GpuIsKept'
  BY <1>11, <1>c, AuditsAgain DEF SecondAuditEffect, Moved
<1>12. ASSUME NEW r \in Runs, Admit(r) PROVE GpuIsKept'
  <2>1. AdmitEffect(r) /\ run[r].pc = "admit"
    BY <1>12, Admits DEF AdmitEffect, Moved
  <2>2. \A q \in Runs : q # r => run'[q] = run[q]
    BY <2>1 DEF AdmitEffect, Moved, Others
  <2>3. ~cut => NoBench
    BY <2>1 DEF GpuIsKept
  <2>4. UNCHANGED <<vllm, mac, cont, late, cut>> /\ factory'.busy = factory.busy
    BY <2>1 DEF AdmitEffect
  <2>5. run'[r].pc \in {"redrain", "unlock"}
    BY <2>1 DEF AdmitEffect, Moved
  <2> QED BY <2>2, <2>3, <2>4, <2>5 DEF GpuIsKept, OnlyRun, NoBench
<1>39. ASSUME NEW r \in Runs, Redrain(r) PROVE GpuIsKept'
  BY <1>39, <1>p, Redrains DEF RedrainEffect, Moved, Others
<1>13. ASSUME NEW r \in Runs, Unlock(r) \/ Kill(r) PROVE GpuIsKept'
  BY <1>13, <1>p, Ends DEF Others, production
<1>14. ASSUME NEW r \in Runs, TrialEnds(r) PROVE GpuIsKept'
  BY <1>14, <1>c, ProcessMoves DEF Moved, TrialEnds
<1>15. ASSUME NEW r \in Runs, FailedTrialEnds(r) PROVE GpuIsKept'
  BY <1>15, <1>c, ProcessMoves DEF Moved, FailedTrialEnds
<1>16. ASSUME NEW r \in Runs, Stop(r) PROVE GpuIsKept'
  BY <1>16, <1>c, ProcessMoves DEF Moved, Stop
<1>17. ASSUME NEW r \in Runs, TrialFails(r) PROVE GpuIsKept'
  BY <1>17, <1>c, ProcessMoves DEF Moved, TrialFails
<1>19. ASSUME NEW r \in Runs, NEW j \in Jobs, Launch(r, j) PROVE GpuIsKept'
  BY <1>19, <1>t, ThreadMoves
<1>20. ASSUME NEW r \in Runs, NEW j \in Jobs, Collect(r, j) PROVE GpuIsKept'
  <2>1. \A q \in Runs : run'[q].pc = run[q].pc
    BY <1>20, ProcessMoves DEF Moved, Others
  <2>2. ThreadEffect(r, j, "done", {"recorded"}, {cont[r][j]}) /\ UNCHANGED late
    BY <1>20, ThreadMoves
  <2> QED BY <2>1, <2>2, <1>t
<1>21. ASSUME NEW r \in Runs, NEW j \in Jobs, Create(r, j) \/ CreateFound(r, j) \/ SendStart(r, j)
       PROVE  GpuIsKept'
  BY <1>21, <1>t, ThreadMoves
<1>23. ASSUME NEW r \in Runs, NEW j \in Jobs, CreateLost(r, j) \/ RemoveFails(r, j)
       PROVE  GpuIsKept'
  BY <1>23, <1>t, ThreadMoves DEF Soils, Others
<1>25. ASSUME NEW r \in Runs, NEW j \in Jobs, Start(r, j) PROVE GpuIsKept'
  <2>1. /\ ThreadEffect(r, j, "start", {"running", "remove"}, {"running", cont[r][j]})
        /\ UNCHANGED run
        /\ \A q \in Runs, i \in Jobs : i \in late'[q] => i \in late[q] \/ q = r
    BY <1>25, Starts
  <2>2. run[r].pc \in {"trial", "failing"}
    BY <2>1 DEF ThreadEffect, ThreadsBelong, Working
  <2>3. ~cut => OnlyRun(r)
    BY <2>2 DEF GpuIsKept
  <2>4. UNCHANGED <<vllm, factory, mac, cut>>
    BY <2>1 DEF ThreadEffect, production
  <2>5. \A q \in Runs, i \in Jobs : q # r => cont'[q][i] = cont[q][i]
    BY <2>1 DEF ThreadEffect
  <2>6. \A q \in Runs : q # r => run[q].pc \in {"new", "end"}
    BY <2>2, <1>w
  <2>7. \A q \in Runs : late'[q] # {} => late[q] # {} \/ q = r
    <3>1. \A q \in Runs : late'[q] \subseteq Jobs
      <4>1. TypeOK'
        BY TypeStep
      <4> QED BY <4>1 DEF TypeOK
    <3> QED BY <2>1, <3>1
  <2>8. ~cut => \A q \in Runs : late[q] # {} => q = r
    BY <1>l, <1>d, <2>6
  <2> QED BY <2>1, <2>2, <2>3, <2>4, <2>5, <2>6, <2>7, <2>8, <1>d DEF GpuIsKept, OnlyRun, NoBench
<1>26. ASSUME NEW r \in Runs, NEW j \in Jobs, Poll(r, j) PROVE GpuIsKept'
  BY <1>26, <1>t, ThreadMoves
<1>27. ASSUME NEW r \in Runs, NEW j \in Jobs, Remove(r, j) PROVE GpuIsKept'
  <2>1. /\ ThreadEffect(r, j, "remove", {"done"}, {"none"})
        /\ UNCHANGED run
        /\ \A q \in Runs, i \in Jobs : i \in late'[q] => i \in late[q]
    BY <1>27, Removes
  <2>2. "running" \notin {"none"}
    OBVIOUS
  <2> QED BY <2>1, <2>2, <1>t
<1>29. ASSUME NEW r \in Runs, NEW j \in Jobs, Exits(r, j) PROVE GpuIsKept'
  <2>1. \A q \in Runs, i \in Jobs : cont'[q][i] = "running" => cont[q][i] = "running"
    BY <1>29, ContainerExits
  <2>2. UNCHANGED <<factory, vllm, mac, run, late, cut>>
    BY <1>29, ContainerExits DEF production
  <2> QED BY <2>1, <2>2, <1>p
<1>30. ASSUME NEW r \in Runs, NEW j \in Jobs, LateStart(r, j) PROVE GpuIsKept'
  <2>1. /\ late[r] # {}
        /\ \A q \in Runs, i \in Jobs : q # r => cont'[q][i] = cont[q][i]
        /\ \A q \in Runs : late'[q] # {} => late[q] # {}
        /\ UNCHANGED <<vllm, factory, mac, run, cut>>
    BY <1>30, StartsLate DEF production
  <2>2. SUFFICES ASSUME ~cut PROVE GpuIsKept'
    BY <2>1 DEF GpuIsKept
  <2>3. OnlyRun(r) /\ (run[r].pc \in {"trial", "failing"} \/ Soiled(r))
    BY <2>1, <2>2, <1>l DEF GpuIsKept
  <2>4. \A q \in Runs : q # r => run[q].pc \in {"new", "end"}
    BY <2>3, <1>d, <1>w
  <2>5. \A q \in Runs : late[q] # {} => q = r
    BY <1>l, <1>d, <2>2, <2>4
  <2> QED BY <2>1, <2>2, <2>3, <2>4, <2>5, <1>d DEF GpuIsKept, OnlyRun, NoBench
<1>31. CASE Submit
  <2>1. /\ factory.accepting /\ factory'.accepting = factory.accepting
        /\ UNCHANGED <<vllm, mac, run, cont, late, cut>>
    BY <1>31 DEF Submit, TypeOK, bench
  <2>2. ~cut => \A r \in Runs : late[r] = {} /\ run[r].pc \notin {"assets", "trial", "failing"}
    BY <2>1, <1>l, <1>d DEF LeaseIsKept, Borrowing
  <2> QED BY <2>1, <2>2 DEF GpuIsKept, OnlyRun, NoBench, LeaseIsKept
<1>32. CASE Render \/ MacFence \/ MacDrain \/ MacStop \/ MacFails
  BY <1>32, <1>p DEF Render, MacFence, MacDrain, MacStop, MacFails, Drained, TypeOK, bench
<1>36. CASE MacVerify
  <2>1. ~vllm /\ ~factory.busy /\ \A q \in Runs, j \in Jobs : cont[q][j] # "running"
    BY <1>36 DEF MacVerify, GpuIdle, Running
  <2>2. UNCHANGED <<vllm, factory, run, cont, late, cut>>
    BY <1>36 DEF MacVerify, bench
  <2> QED BY <2>1, <2>2 DEF GpuIsKept, OnlyRun, NoBench
<1>37. CASE MacStart
  <2>1. /\ mac = "verified" /\ mac' = "idle" /\ lock = Free
        /\ UNCHANGED <<run, cont, late, cut>>
    BY <1>37 DEF MacStart, bench
  <2>2. \/ vllm' = TRUE /\ UNCHANGED factory
        \/ ~factory'.busy /\ UNCHANGED vllm
    BY <1>37 DEF MacStart
  <2>3. ~cut => \A r \in Runs : late[r] = {} /\ run[r].pc \in {"new", "end"}
    BY <2>1, <1>l, <1>d, <1>f
  <2>4. ~factory.accepting
    BY <2>1 DEF LeaseIsKept
  <2>5. ~cut => NoBench /\ ~factory.busy
    BY <2>1 DEF GpuIsKept
  <2> QED BY <2>1, <2>2, <2>3, <2>4, <2>5 DEF GpuIsKept, OnlyRun, NoBench
<1> QED BY NextCases, <1>0, <1>1, <1>2, <1>3, <1>4, <1>5, <1>6, <1>7, <1>8, <1>9, <1>10,
          <1>11, <1>12, <1>13, <1>14, <1>15, <1>16, <1>17, <1>19, <1>20, <1>21,
          <1>23, <1>25, <1>26, <1>27, <1>29, <1>30, <1>31, <1>32, <1>36, <1>37, <1>39

LEMMA LatesStep ==
    ASSUME TypeOK, ThreadsBelong, LatesBelong, LeaseIsKept, [Next]_vars PROVE LatesBelong'
<1> DEFINE Belongs(q) == run[q].pc \in {"trial", "failing"} \/ Soiled(q) \/ (run[q].pc = "end" /\ cut)
<1>p. ASSUME \A q \in Runs, i \in Jobs : i \in late'[q] => i \in late[q],
             \A q \in Runs, i \in Jobs : i \in late'[q] /\ Belongs(q) => Belongs(q)',
             \A q \in Runs, i \in Jobs :
               i \in late'[q] /\ run'[q].clean /\ run'[q].pc \in {"trial", "failing"} =>
                 run[q].clean /\ run[q].pc \in {"trial", "failing"},
             \A q \in Runs, i \in Jobs :
               i \in late'[q] /\ run'[q].clean /\ job[q][i] = "remove" => job'[q][i] = "remove"
      PROVE  LatesBelong'
  <2>1. ASSUME NEW q \in Runs, NEW i \in Jobs, i \in late'[q]
        PROVE  /\ Belongs(q)'
               /\ run'[q].clean /\ run'[q].pc \in {"trial", "failing"} => job'[q][i] = "remove"
    <3>1. i \in late[q]
      BY <1>p, <2>1
    <3>2. Belongs(q) /\ (run[q].clean /\ run[q].pc \in {"trial", "failing"} => job[q][i] = "remove")
      BY <3>1 DEF LatesBelong
    <3> QED BY <1>p, <2>1, <3>2
  <2> QED BY <2>1 DEF LatesBelong
\* A process goes on, and what it left behind has made it unclean.
<1>c. ASSUME NEW r \in Runs, UNCHANGED <<job, late, cut>>, Others(r),
             run'[r].clean => run[r].clean, run'[r].pc \in {"trial", "failing"} =>
                                              run[r].pc \in {"trial", "failing"} \/ late[r] = {},
             late[r] # {} /\ Belongs(r) => Belongs(r)'
      PROVE  LatesBelong'
  <2>1. \A q \in Runs : q # r => (Belongs(q) => Belongs(q)')
    BY <1>c DEF Others, Soiled
  <2> QED BY <1>c, <1>p, <2>1 DEF Others
\* A step that only a process without late starts can take.
<1>e. ASSUME NEW r \in Runs, UNCHANGED <<job, late, cut>>, Others(r), late[r] = {}
      PROVE  LatesBelong'
  BY <1>e DEF LatesBelong, Others, Soiled
<1>n. ASSUME NEW r \in Runs, run[r].pc \notin {"trial", "failing", "exit", "unlock", "end"}
      PROVE  late[r] = {}
  <2>1. ~Belongs(r)
    BY <1>n DEF Soiled
  <2> QED BY <2>1, OneHolder DEF LatesBelong
<1>t. ASSUME NEW r \in Runs, NEW j \in Jobs, NEW from, NEW to, NEW c,
             ThreadEffect(r, j, from, to, c), from # "remove", UNCHANGED late,
             run' = run \/ Soils(r)
      PROVE  LatesBelong'
  <2>1. \A q \in Runs : /\ run'[q].pc = run[q].pc /\ (run'[q].clean => run[q].clean)
                        /\ run'[q].restore = run[q].restore
                        /\ run'[q].report = run[q].report
    BY <1>t DEF Soils, Silent, Others
  <2>2. cut' = cut /\ \A q \in Runs, i \in Jobs : job[q][i] = "remove" => job'[q][i] = "remove"
    BY <1>t DEF ThreadEffect
  <2>3. \A q \in Runs : Belongs(q) => Belongs(q)'
    BY <2>1, <2>2 DEF Soiled
  <2> QED BY <1>t, <1>p, <2>1, <2>2, <2>3
<1>0. CASE UNCHANGED vars
  BY <1>0 DEF vars, LatesBelong, Soiled
<1>1. ASSUME NEW r \in Runs, Acquire(r) PROVE LatesBelong'
  BY <1>1, <1>e, <1>n, Acquires DEF AcquireEffect, Moved
<1>2. ASSUME NEW r \in Runs, Check(r) PROVE LatesBelong'
  <2>1. run[r].pc = "check" /\ Others(r)
    BY <1>2, ProcessMoves
  <2>2. late[r] = {}
    BY <2>1, <1>n
  <2> QED BY <1>2, <2>1, <2>2, <1>e DEF Check
<1>3. ASSUME NEW r \in Runs, CheckFails(r) PROVE LatesBelong'
  BY <1>3, <1>e, <1>n, ProcessMoves DEF Moved, CheckFails
<1>4. ASSUME NEW r \in Runs, Drain(r) PROVE LatesBelong'
  BY <1>4, <1>e, <1>n, Drains DEF DrainEffect, Moved
<1>5. ASSUME NEW r \in Runs, BecomesIdle(r) PROVE LatesBelong'
  BY <1>5, <1>e, <1>n, ProcessMoves DEF Moved, BecomesIdle
<1>6. ASSUME NEW r \in Runs, WaitEnds(r) PROVE LatesBelong'
  BY <1>6, <1>e, <1>n, ProcessMoves DEF WaitEnds
<1>7. ASSUME NEW r \in Runs, HealthFails(r) PROVE LatesBelong'
  BY <1>7, <1>e, <1>n, ProcessMoves DEF Moved, HealthFails
<1>8. ASSUME NEW r \in Runs, Audit(r) PROVE LatesBelong'
  BY <1>8, <1>e, <1>n, Audits DEF AuditEffect, Moved
<1>9. ASSUME NEW r \in Runs, Assets(r) PROVE LatesBelong'
  BY <1>9, <1>e, <1>n, FindsAssets DEF AssetsEffect, Moved
<1>10. ASSUME NEW r \in Runs, Leave(r) PROVE LatesBelong'
  <2>1. LeaveEffect(r) /\ run[r].pc = "exit" /\ run'[r].pc \in {"admit", "unlock"}
    BY <1>10, Leaves DEF LeaveEffect, Moved
  <2>2. run'[r].restore = run[r].restore /\ Others(r) /\ UNCHANGED <<job, late, cut>>
    BY <2>1 DEF LeaveEffect, Moved
  <2>3. late[r] # {} => Soiled(r)
    BY <2>1, OneHolder DEF LatesBelong
  <2>4. Soiled(r) => Soiled(r)'
    BY <2>1, <2>2 DEF LeaveEffect, Soiled
  <2> QED BY <2>1, <2>2, <2>3, <2>4, <1>c DEF LeaveEffect
<1>11. ASSUME NEW r \in Runs, SecondAuditFails(r) PROVE LatesBelong'
  <2>1. run[r].pc = "exit" /\ run[r].clean /\ Others(r) /\ UNCHANGED <<job, late, cut>>
    BY <1>11, AuditsAgain DEF SecondAuditEffect, Moved
  <2>2. late[r] = {}
    BY <2>1, OneHolder DEF LatesBelong, Soiled
  <2> QED BY <2>1, <2>2, <1>e
<1>12. ASSUME NEW r \in Runs, Admit(r) PROVE LatesBelong'
  BY <1>12, <1>e, <1>n, Admits DEF AdmitEffect, Moved
<1>39. ASSUME NEW r \in Runs, Redrain(r) PROVE LatesBelong'
  BY <1>39, <1>e, <1>n, Redrains DEF RedrainEffect, Moved
<1>13. ASSUME NEW r \in Runs, Unlock(r) \/ Kill(r) PROVE LatesBelong'
  <2>1. run'[r].pc = "end" /\ Others(r)
    BY <1>13, Ends
  <2>2. /\ \A q \in Runs \ {r} : job'[q] = job[q] /\ late'[q] = late[q]
        /\ cut' = (cut \/ late'[r] # {})
    BY <1>13, Ends
  <2>3. ASSUME NEW q \in Runs, NEW i \in Jobs, i \in late'[q]
        PROVE  /\ Belongs(q)'
               /\ run'[q].clean /\ run'[q].pc \in {"trial", "failing"} => job'[q][i] = "remove"
    <3>1. CASE q = r
      <4>1. cut' /\ run'[q].pc = "end"
        BY <3>1, <2>1, <2>2, <2>3
      <4> QED BY <4>1
    <3>2. CASE q # r
      <4>1. run'[q] = run[q] /\ job'[q] = job[q] /\ i \in late[q] /\ (cut => cut')
        BY <3>2, <2>1, <2>2, <2>3 DEF Others
      <4>2. Belongs(q) /\ (run[q].clean /\ run[q].pc \in {"trial", "failing"} => job[q][i] = "remove")
        BY <4>1 DEF LatesBelong
      <4> QED BY <4>1, <4>2 DEF Soiled
    <3> QED BY <3>1, <3>2
  <2> QED BY <2>3 DEF LatesBelong
<1>14. ASSUME NEW r \in Runs, TrialEnds(r) \/ FailedTrialEnds(r) PROVE LatesBelong'
  <2>1. /\ run[r].pc \in {"trial", "failing"} /\ run'[r].pc = "exit"
        /\ run'[r].restore = run[r].restore /\ Still(r) /\ Others(r)
    BY <1>14, ProcessMoves DEF Moved
  <2>2. \A j \in Jobs : job[r][j] # "remove"
    BY <1>14 DEF TrialEnds, FailedTrialEnds, Launched, Joined
  <2>3. late[r] # {} => ~run[r].clean
    BY <2>1, <2>2, OneHolder DEF LatesBelong
  <2>4. run[r].restore
    BY <2>1 DEF LeaseIsKept, Borrowing
  <2>5. UNCHANGED <<job, late, cut>>
    BY <1>14 DEF TrialEnds, FailedTrialEnds
  <2> QED BY <2>1, <2>3, <2>4, <2>5, <1>c DEF Still, Soiled
<1>16. ASSUME NEW r \in Runs, Stop(r) PROVE LatesBelong'
  <2>1. /\ run'[r].pc = run[r].pc /\ run'[r].restore = run[r].restore
        /\ Still(r) /\ Others(r)
    BY <1>16, ProcessMoves DEF Moved
  <2>2. UNCHANGED <<job, late, cut>>
    BY <1>16 DEF Stop
  <2> QED BY <2>1, <2>2, <1>c DEF Still, Silent, Soiled
<1>17. ASSUME NEW r \in Runs, TrialFails(r) PROVE LatesBelong'
  BY <1>17, <1>c, ProcessMoves DEF Moved, Still, TrialFails
<1>19. ASSUME NEW r \in Runs, NEW j \in Jobs, Launch(r, j) PROVE LatesBelong'
  BY <1>19, <1>t, ThreadMoves
<1>20. ASSUME NEW r \in Runs, NEW j \in Jobs, Collect(r, j) PROVE LatesBelong'
  <2>1. ThreadEffect(r, j, "done", {"recorded"}, {cont[r][j]}) /\ UNCHANGED late
    BY <1>20, ThreadMoves
  <2>2. Moved(r, "trial", {"trial"}) /\ Still(r)
    BY <1>20, ProcessMoves
  <2>3. \A q \in Runs : run'[q].pc = run[q].pc /\ run'[q].clean = run[q].clean
                        /\ (Belongs(q) => Belongs(q)')
    BY <2>1, <2>2 DEF Moved, Still, Silent, Others, Soiled, ThreadEffect
  <2>4. \A q \in Runs, i \in Jobs : job[q][i] = "remove" => job'[q][i] = "remove"
    BY <2>1 DEF ThreadEffect
  <2> QED BY <2>1, <2>3, <2>4, <1>p
<1>21. ASSUME NEW r \in Runs, NEW j \in Jobs, Create(r, j) \/ CreateFound(r, j) \/ SendStart(r, j)
       PROVE  LatesBelong'
  BY <1>21, <1>t, ThreadMoves
<1>23. ASSUME NEW r \in Runs, NEW j \in Jobs, CreateLost(r, j) PROVE LatesBelong'
  BY <1>23, <1>t, ThreadMoves
<1>25. ASSUME NEW r \in Runs, NEW j \in Jobs, Start(r, j) PROVE LatesBelong'
  <2>1. ThreadEffect(r, j, "start", {"running", "remove"}, {"running", cont[r][j]})
    BY <1>25, Starts
  <2>2. \A q \in Runs, i \in Jobs :
          i \in late'[q] => i \in late[q] \/ (q = r /\ i = j /\ job'[r][j] = "remove")
    BY <1>25, Starts
  <2>3. run' = run /\ cut' = cut
    BY <1>25, <2>1, Starts DEF ThreadEffect
  <2>4. run[r].pc \in {"trial", "failing"}
    BY <2>1 DEF ThreadEffect, ThreadsBelong, Working
  <2>5. \A q \in Runs, i \in Jobs : job[q][i] = "remove" => job'[q][i] = "remove"
    BY <2>1 DEF ThreadEffect
  <2> QED BY <2>2, <2>3, <2>4, <2>5 DEF LatesBelong, Soiled
<1>26. ASSUME NEW r \in Runs, NEW j \in Jobs, Poll(r, j) PROVE LatesBelong'
  BY <1>26, <1>t, ThreadMoves
<1>27. ASSUME NEW r \in Runs, NEW j \in Jobs, Remove(r, j) PROVE LatesBelong'
  <2>1. ThreadEffect(r, j, "remove", {"done"}, {"none"}) /\ UNCHANGED run
    BY <1>27, Removes
  <2>2. \A q \in Runs, i \in Jobs : i \in late'[q] => i \in late[q] /\ ~(q = r /\ i = j)
    BY <1>27, Removes
  <2>3. cut' = cut /\ \A q \in Runs, i \in Jobs : i \in late'[q] => job'[q][i] = job[q][i]
    BY <2>1, <2>2 DEF ThreadEffect
  <2> QED BY <2>1, <2>2, <2>3 DEF LatesBelong, Soiled
<1>28. ASSUME NEW r \in Runs, NEW j \in Jobs, RemoveFails(r, j) PROVE LatesBelong'
  <2>1. ThreadEffect(r, j, "remove", {"done"}, {cont[r][j]}) /\ UNCHANGED late
    BY <1>28, ThreadMoves
  <2>2. Soils(r)
    BY <1>28, ThreadMoves
  <2>3. \A q \in Runs : /\ run'[q].pc = run[q].pc /\ (run'[q].clean => run[q].clean /\ q # r)
                        /\ (Belongs(q) => Belongs(q)')
    BY <2>1, <2>2 DEF Soils, Silent, Others, Soiled, ThreadEffect
  <2>4. \A q \in Runs, i \in Jobs : q # r => job'[q][i] = job[q][i]
    BY <2>1 DEF ThreadEffect
  <2> QED BY <2>1, <2>3, <2>4, <1>p
<1>29. ASSUME NEW r \in Runs, NEW j \in Jobs, Exits(r, j) PROVE LatesBelong'
  BY <1>29, ContainerExits DEF LatesBelong, Soiled
<1>30. ASSUME NEW r \in Runs, NEW j \in Jobs, LateStart(r, j) PROVE LatesBelong'
  BY <1>30, StartsLate DEF LatesBelong, Soiled
<1>31. CASE Submit \/ Render \/ MacFence \/ MacDrain \/ MacStop \/ MacVerify \/ MacStart \/ MacFails
  BY <1>31 DEF Submit, Render, MacFence, MacDrain, MacStop, MacVerify, MacStart, MacFails, bench,
     LatesBelong, Soiled
<1> QED BY NextCases, <1>0, <1>1, <1>2, <1>3, <1>4, <1>5, <1>6, <1>7, <1>8, <1>9, <1>10,
          <1>11, <1>12, <1>13, <1>14, <1>16, <1>17, <1>19, <1>20, <1>21,
          <1>23, <1>25, <1>26, <1>27, <1>28, <1>29, <1>30, <1>31, <1>39

LEMMA DrainStep ==
    ASSUME TypeOK, LeaseIsKept, DrainIsOwn, [Next]_vars PROVE DrainIsOwn'
<1> DEFINE Lent(q) == \/ run[q].pc \in {"admit"} \cup Borrowing
                      \/ run[q].pc = "exit" /\ run[q].restore
<1>w. \A q, r \in Runs :
        run[q].pc \notin {"new", "end"} /\ run[r].pc \notin {"new", "end"} => q = r
  BY OneHolder
<1>f. lock = Free => \A r \in Runs : run[r].pc \in {"new", "end"}
  BY OneHolder
<1>p. ASSUME NEW r \in Runs, Others(r), factory'.accepting = factory.accepting,
             run'[r].drained = run[r].drained,
             run'[r].pc = "drain" => run[r].pc = "drain" \/ factory.accepting,
             Lent(r)' => Lent(r)
      PROVE  DrainIsOwn'
  <2>1. ASSUME NEW q \in Runs
        PROVE  /\ run'[q].pc = "drain" => run[q].pc = "drain" \/ factory.accepting
               /\ Lent(q)' => Lent(q)
               /\ run'[q].drained = run[q].drained
    <3>1. CASE q = r
      BY <1>p, <3>1
    <3>2. CASE q # r
      BY <1>p, <3>2 DEF Others
    <3> QED BY <3>1, <3>2
  <2>2. ASSUME NEW q \in Runs
        PROVE  /\ run'[q].pc = "drain" => factory.accepting
               /\ Lent(q)' => factory.accepting \/ run'[q].drained
    BY <2>1 DEF DrainIsOwn
  <2> QED BY <1>p, <2>2 DEF DrainIsOwn
\* The run that holds the lock lends nothing.
<1>h. ASSUME NEW r \in Runs, Others(r), run[r].pc \notin {"new", "end"},
             run'[r].pc \in {"redrain", "unlock", "end"}
      PROVE  DrainIsOwn'
  <2>1. \A q \in Runs : q # r => run'[q].pc \in {"new", "end"}
    BY <1>h, <1>w DEF Others
  <2>2. \A q \in Runs : run'[q].pc # "drain" /\ ~Lent(q)'
    BY <1>h, <2>1 DEF Borrowing
  <2> QED BY <2>2 DEF DrainIsOwn
<1>s. ASSUME UNCHANGED run, factory'.accepting = factory.accepting PROVE DrainIsOwn'
  BY <1>s DEF DrainIsOwn
<1>t. ASSUME NEW r \in Runs, Soils(r), UNCHANGED factory PROVE DrainIsOwn'
  BY <1>t, <1>p DEF Soils, Silent
<1>0. CASE UNCHANGED vars
  BY <1>0, <1>s DEF vars
<1>1. ASSUME NEW r \in Runs, Acquire(r) PROVE DrainIsOwn'
  BY <1>1, <1>p, Acquires DEF AcquireEffect, Moved, Silent, production, Borrowing
<1>2. ASSUME NEW r \in Runs, Check(r) PROVE DrainIsOwn'
  <2>1. /\ factory.accepting /\ run'[r].pc = "drain" /\ Others(r)
        /\ run'[r].drained = run[r].drained
    BY <1>2, ProcessMoves DEF Admissible, Still, Silent
  <2> QED BY <1>2, <2>1, <1>p DEF Check, production, Borrowing
<1>3. ASSUME NEW r \in Runs, CheckFails(r) PROVE DrainIsOwn'
  <2>1. run[r].pc = "check" /\ run'[r].pc = "exit" /\ ~run'[r].restore /\ Others(r)
          /\ run'[r].drained = run[r].drained
    BY <1>3, ProcessMoves DEF Moved, Still, Silent, LeaseIsKept
  <2> QED BY <1>3, <2>1, <1>p DEF CheckFails, production, Borrowing
<1>4. ASSUME NEW r \in Runs, Drain(r) PROVE DrainIsOwn'
  <2>1. DrainEffect(r) /\ run[r].pc = "drain" /\ run'[r].pc \in {"idle", "exit"} /\ Others(r)
    BY <1>4, Drains DEF DrainEffect, Moved
  <2>2. factory.accepting
    BY <2>1 DEF DrainIsOwn
  <2>3. factory'.accepting \/ run'[r].drained
    BY <2>1, <2>2 DEF DrainEffect
  <2>4. \A q \in Runs : q # r => run'[q].pc \in {"new", "end"}
    BY <2>1, <1>w DEF Others
  <2> QED BY <2>1, <2>3, <2>4 DEF DrainIsOwn, Borrowing
<1>5. ASSUME NEW r \in Runs, BecomesIdle(r) \/ HealthFails(r) PROVE DrainIsOwn'
  <2>1. Moved(r, "idle", {"audit", "exit"}) /\ Still(r)
    BY <1>5, ProcessMoves DEF Moved
  <2> QED BY <1>5, <2>1, <1>p DEF BecomesIdle, HealthFails, production, Moved, Still, Silent,
       Borrowing
<1>6. ASSUME NEW r \in Runs, WaitEnds(r) PROVE DrainIsOwn'
  <2>1. run[r].pc = "idle" /\ run'[r].pc = "exit" /\ Still(r) /\ Others(r)
    BY <1>6, ProcessMoves
  <2> QED BY <1>6, <2>1, <1>p DEF WaitEnds, production, Still, Silent, Borrowing
<1>8. ASSUME NEW r \in Runs, Audit(r) PROVE DrainIsOwn'
  BY <1>8, <1>p, Audits DEF AuditEffect, Moved, Silent, production, Borrowing
<1>9. ASSUME NEW r \in Runs, Assets(r) PROVE DrainIsOwn'
  BY <1>9, <1>p, FindsAssets DEF AssetsEffect, Moved, Silent, production, Borrowing
<1>10. ASSUME NEW r \in Runs, Leave(r) PROVE DrainIsOwn'
  BY <1>10, <1>p, Leaves DEF LeaveEffect, Moved, production, Borrowing
<1>11. ASSUME NEW r \in Runs, SecondAuditFails(r) PROVE DrainIsOwn'
  BY <1>11, <1>h, AuditsAgain DEF SecondAuditEffect, Moved
<1>12. ASSUME NEW r \in Runs, Admit(r) PROVE DrainIsOwn'
  BY <1>12, <1>h, Admits DEF AdmitEffect, Moved
<1>39. ASSUME NEW r \in Runs, Redrain(r) PROVE DrainIsOwn'
  BY <1>39, <1>h, Redrains DEF RedrainEffect, Moved
<1>13. ASSUME NEW r \in Runs, Unlock(r) \/ Kill(r) PROVE DrainIsOwn'
  BY <1>13, <1>h, Ends
<1>14. ASSUME NEW r \in Runs, TrialEnds(r) \/ FailedTrialEnds(r) \/ TrialFails(r) \/ Stop(r)
       PROVE  DrainIsOwn'
  <2>1. /\ run'[r].pc = run[r].pc
             \/ (run[r].pc \in {"trial", "failing"} /\ run'[r].pc \in {"failing", "exit"})
        /\ run'[r].restore = run[r].restore /\ Still(r) /\ Others(r)
    BY <1>14, ProcessMoves DEF Moved
  <2>2. UNCHANGED factory
    BY <1>14 DEF TrialEnds, FailedTrialEnds, TrialFails, Stop, production
  <2> QED BY <2>1, <2>2, <1>p DEF Still, Silent, Borrowing
<1>19. ASSUME NEW r \in Runs, NEW j \in Jobs,
              Launch(r, j) \/ Create(r, j) \/ CreateFound(r, j) \/ SendStart(r, j) \/ Start(r, j)
                \/ Poll(r, j) \/ Remove(r, j) \/ Exits(r, j) \/ LateStart(r, j)
       PROVE  DrainIsOwn'
  BY <1>19, <1>s DEF Launch, Create, CreateFound, SendStart, Start, Poll, Remove, Exits, LateStart,
     production
<1>20. ASSUME NEW r \in Runs, NEW j \in Jobs, Collect(r, j) PROVE DrainIsOwn'
  <2>1. Moved(r, "trial", {"trial"}) /\ Still(r)
    BY <1>20, ProcessMoves
  <2> QED BY <1>20, <2>1, <1>p DEF Collect, Moved, Still, Silent, production, Borrowing
<1>23. ASSUME NEW r \in Runs, NEW j \in Jobs, CreateLost(r, j) \/ RemoveFails(r, j)
       PROVE  DrainIsOwn'
  BY <1>23, <1>t, ProcessMoves DEF CreateLost, RemoveFails, production
<1>31. CASE Submit \/ Render \/ MacFence \/ MacStop \/ MacVerify \/ MacFails
  BY <1>31, <1>s DEF Submit, Render, MacFence, MacStop, MacVerify, MacFails, bench, TypeOK
<1>34. CASE MacDrain \/ MacStart
  <2>1. \A q \in Runs : run'[q].pc \in {"new", "end"}
    BY <1>34, <1>f DEF MacDrain, MacStart, bench
  <2> QED BY <2>1 DEF DrainIsOwn, Borrowing
<1> QED BY NextCases, <1>0, <1>1, <1>2, <1>3, <1>4, <1>5, <1>6, <1>8, <1>9, <1>10,
          <1>11, <1>12, <1>13, <1>14, <1>19, <1>20, <1>23, <1>31, <1>34, <1>39

LEMMA CleanStep ==
    ASSUME TypeOK, ThreadsBelong, LatesBelong, CleanIsTrue, [Next]_vars PROVE CleanIsTrue'
<1> DEFINE Idle == {"queued", "create", "done", "recorded"}
<1>p. ASSUME \A q \in Runs : run'[q].clean /\ run'[q].pc # "end" =>
                               run[q].clean /\ run[q].pc # "end",
             \A q \in Runs : run'[q].pc = "admit" => run'[q].clean,
             \A q \in Runs, i \in Jobs :
               run'[q].clean /\ run'[q].pc # "end" /\ job'[q][i] \in Idle =>
                 (job[q][i] \in Idle /\ cont'[q][i] = cont[q][i]) \/ cont'[q][i] = "none"
      PROVE  CleanIsTrue'
  BY <1>p DEF CleanIsTrue
<1>c. ASSUME NEW r \in Runs, Others(r), UNCHANGED <<job, cont>>, run[r].pc # "end",
             run'[r].clean => run[r].clean, run'[r].pc = "admit" => run'[r].clean
      PROVE  CleanIsTrue'
  <2>1. \A q \in Runs : /\ run'[q].clean /\ run'[q].pc # "end" => run[q].clean /\ run[q].pc # "end"
                        /\ run'[q].pc = "admit" => run'[q].clean
    BY <1>c DEF Others, CleanIsTrue
  <2> QED BY <1>c, <1>p, <2>1
<1>t. ASSUME NEW r \in Runs, NEW j \in Jobs, NEW from, NEW to, NEW c,
             ThreadEffect(r, j, from, to, c),
             \/ job'[r][j] \notin Idle
             \/ from \in Idle /\ cont'[r][j] = cont[r][j]
             \/ cont'[r][j] = "none",
             run' = run
      PROVE  CleanIsTrue'
  <2>1. \A q \in Runs : run'[q].pc = "admit" => run'[q].clean
    BY <1>t DEF CleanIsTrue
  <2>2. \A q \in Runs, i \in Jobs : job'[q][i] \in Idle =>
          (job[q][i] \in Idle /\ cont'[q][i] = cont[q][i]) \/ cont'[q][i] = "none"
    BY <1>t DEF ThreadEffect
  <2> QED BY <1>t, <1>p, <2>1, <2>2
<1>s. ASSUME NEW r \in Runs, NEW j \in Jobs, NEW from, NEW to, NEW c,
             ThreadEffect(r, j, from, to, c), from \in {"create", "remove"}, Soils(r)
      PROVE  CleanIsTrue'
  <2>1. run[r].pc \in {"trial", "failing"}
    BY <1>s DEF ThreadEffect, ThreadsBelong, Working
  <2>2. \A q \in Runs : /\ run'[q].clean => q # r /\ run[q].clean
                        /\ run'[q].pc = run[q].pc
                        /\ run'[q].pc = "admit" => q # r
    BY <1>s, <2>1 DEF Soils, Others
  <2>3. \A q \in Runs : run'[q].pc = "admit" => run'[q].clean
    BY <1>s, <2>2 DEF Soils, Others, CleanIsTrue
  <2>4. \A q \in Runs, i \in Jobs : q # r => job'[q][i] = job[q][i] /\ cont'[q][i] = cont[q][i]
    BY <1>s DEF ThreadEffect
  <2> QED BY <1>p, <2>2, <2>3, <2>4
<1>0. CASE UNCHANGED vars
  BY <1>0 DEF vars, CleanIsTrue
<1>1. ASSUME NEW r \in Runs, Acquire(r) PROVE CleanIsTrue'
  BY <1>1, <1>c, Acquires DEF AcquireEffect, Moved
<1>2. ASSUME NEW r \in Runs, Check(r) PROVE CleanIsTrue'
  <2>1. run[r].pc = "check" /\ run'[r].pc = "drain" /\ Still(r) /\ Others(r)
    BY <1>2, ProcessMoves
  <2> QED BY <1>2, <2>1, <1>c DEF Check, Still
<1>3. ASSUME NEW r \in Runs,
             \/ CheckFails(r) \/ BecomesIdle(r) \/ HealthFails(r) \/ TrialEnds(r)
             \/ FailedTrialEnds(r) \/ TrialFails(r) \/ WaitEnds(r)
      PROVE  CleanIsTrue'
  <2>1. run[r].pc # "end" /\ run'[r].pc # "admit" /\ Still(r) /\ Others(r)
    BY <1>3, ProcessMoves DEF Moved
  <2>2. UNCHANGED <<job, cont>>
    BY <1>3 DEF CheckFails, BecomesIdle, HealthFails, TrialEnds, FailedTrialEnds, TrialFails,
       WaitEnds
  <2> QED BY <2>1, <2>2, <1>c DEF Still
<1>4. ASSUME NEW r \in Runs, Drain(r) PROVE CleanIsTrue'
  BY <1>4, <1>c, Drains DEF DrainEffect, Moved
<1>8. ASSUME NEW r \in Runs, Audit(r) PROVE CleanIsTrue'
  BY <1>8, <1>c, Audits DEF AuditEffect, Moved
<1>9. ASSUME NEW r \in Runs, Assets(r) PROVE CleanIsTrue'
  BY <1>9, <1>c, FindsAssets DEF AssetsEffect, Moved
<1>10. ASSUME NEW r \in Runs, Leave(r) PROVE CleanIsTrue'
  BY <1>10, <1>c, Leaves DEF LeaveEffect, Moved
<1>11. ASSUME NEW r \in Runs, SecondAuditFails(r) PROVE CleanIsTrue'
  BY <1>11, <1>c, AuditsAgain DEF SecondAuditEffect, Moved
<1>12. ASSUME NEW r \in Runs, Admit(r) PROVE CleanIsTrue'
  BY <1>12, <1>c, Admits DEF AdmitEffect, Moved
<1>39. ASSUME NEW r \in Runs, Redrain(r) PROVE CleanIsTrue'
  BY <1>39, <1>c, Redrains DEF RedrainEffect, Moved
<1>13. ASSUME NEW r \in Runs, Unlock(r) \/ Kill(r) PROVE CleanIsTrue'
  <2>1. run'[r].pc = "end" /\ Others(r) /\ UNCHANGED cont
    BY <1>13, Ends
  <2>2. \A q \in Runs \ {r} : job'[q] = job[q]
    BY <1>13, Ends
  <2> QED BY <2>1, <2>2 DEF CleanIsTrue, Others
<1>16. ASSUME NEW r \in Runs, Stop(r) PROVE CleanIsTrue'
  <2>1. run[r].pc \notin {"end", "admit"} /\ UNCHANGED <<job, cont>>
    BY <1>16 DEF Stop
  <2> QED BY <1>16, <2>1, <1>c, ProcessMoves DEF Moved, Still
<1>19. ASSUME NEW r \in Runs, NEW j \in Jobs, Launch(r, j) PROVE CleanIsTrue'
  <2>1. ThreadEffect(r, j, "queued", {"create"}, {cont[r][j]}) /\ UNCHANGED run
    BY <1>19, ThreadMoves
  <2>2. cont'[r][j] = cont[r][j]
    BY <2>1 DEF ThreadEffect
  <2> QED BY <2>1, <2>2, <1>t
<1>20. ASSUME NEW r \in Runs, NEW j \in Jobs, Collect(r, j) PROVE CleanIsTrue'
  <2>1. ThreadEffect(r, j, "done", {"recorded"}, {cont[r][j]})
    BY <1>20, ThreadMoves
  <2>2. Moved(r, "trial", {"trial"}) /\ Still(r)
    BY <1>20, ProcessMoves
  <2>3. \A q \in Runs : run'[q].pc = run[q].pc /\ run'[q].clean = run[q].clean
    BY <2>2 DEF Moved, Still, Others
  <2>4. \A q \in Runs, i \in Jobs : job'[q][i] \in Idle =>
          job[q][i] \in Idle /\ cont'[q][i] = cont[q][i]
    BY <2>1 DEF ThreadEffect
  <2>5. \A q \in Runs : run'[q].pc = "admit" => run'[q].clean
    BY <2>3 DEF CleanIsTrue
  <2> QED BY <1>p, <2>3, <2>4, <2>5
<1>21. ASSUME NEW r \in Runs, NEW j \in Jobs, Create(r, j) PROVE CleanIsTrue'
  <2>1. ThreadEffect(r, j, "create", {"created"}, {"idle"}) /\ UNCHANGED run
    BY <1>21, ThreadMoves
  <2>2. job'[r][j] = "created"
    BY <2>1 DEF ThreadEffect
  <2> QED BY <2>1, <2>2, <1>t
<1>22. ASSUME NEW r \in Runs, NEW j \in Jobs, CreateFound(r, j) PROVE CleanIsTrue'
  <2>1. ThreadEffect(r, j, "create", {"remove"}, {"idle"}) /\ UNCHANGED run
    BY <1>22, ThreadMoves
  <2>2. job'[r][j] = "remove"
    BY <2>1 DEF ThreadEffect
  <2> QED BY <2>1, <2>2, <1>t
<1>23. ASSUME NEW r \in Runs, NEW j \in Jobs, CreateLost(r, j) \/ RemoveFails(r, j)
       PROVE  CleanIsTrue'
  BY <1>23, <1>s, ThreadMoves
<1>24. ASSUME NEW r \in Runs, NEW j \in Jobs, SendStart(r, j) PROVE CleanIsTrue'
  <2>1. ThreadEffect(r, j, "created", {"start", "remove"}, {cont[r][j]}) /\ UNCHANGED run
    BY <1>24, ThreadMoves
  <2>2. job'[r][j] \in {"start", "remove"}
    BY <2>1 DEF ThreadEffect
  <2> QED BY <2>1, <2>2, <1>t
<1>25. ASSUME NEW r \in Runs, NEW j \in Jobs, Start(r, j) PROVE CleanIsTrue'
  <2>1. ThreadEffect(r, j, "start", {"running", "remove"}, {"running", cont[r][j]})
          /\ UNCHANGED run
    BY <1>25, Starts
  <2>2. job'[r][j] \in {"running", "remove"}
    BY <2>1 DEF ThreadEffect
  <2> QED BY <2>1, <2>2, <1>t
<1>26. ASSUME NEW r \in Runs, NEW j \in Jobs, Poll(r, j) PROVE CleanIsTrue'
  <2>1. ThreadEffect(r, j, "running", {"remove"}, {cont[r][j]}) /\ UNCHANGED run
    BY <1>26, ThreadMoves
  <2>2. job'[r][j] = "remove"
    BY <2>1 DEF ThreadEffect
  <2> QED BY <2>1, <2>2, <1>t
<1>27. ASSUME NEW r \in Runs, NEW j \in Jobs, Remove(r, j) PROVE CleanIsTrue'
  <2>1. ThreadEffect(r, j, "remove", {"done"}, {"none"}) /\ UNCHANGED run
    BY <1>27, Removes
  <2>2. cont'[r][j] = "none"
    BY <2>1 DEF ThreadEffect
  <2> QED BY <2>1, <2>2, <1>t
<1>29. ASSUME NEW r \in Runs, NEW j \in Jobs, Exits(r, j) PROVE CleanIsTrue'
  <2>1. /\ \A q \in Runs, i \in Jobs : ~(q = r /\ i = j) => cont'[q][i] = cont[q][i]
        /\ UNCHANGED <<run, job>>
    BY <1>29, ContainerExits
  <2>2. cont[r][j] # "none"
    BY <1>29 DEF Exits
  <2> QED BY <2>1, <2>2 DEF CleanIsTrue
<1>30. ASSUME NEW r \in Runs, NEW j \in Jobs, LateStart(r, j) PROVE CleanIsTrue'
  <2>1. /\ j \in late[r]
        /\ \A q \in Runs, i \in Jobs : ~(q = r /\ i = j) => cont'[q][i] = cont[q][i]
        /\ UNCHANGED <<run, job>>
    BY <1>30, StartsLate
  <2>2. run[r].clean /\ run[r].pc # "end" => job[r][j] = "remove"
    BY <2>1 DEF LatesBelong, Soiled
  <2> QED BY <2>1, <2>2 DEF CleanIsTrue
<1>31. CASE Submit \/ Render \/ MacFence \/ MacDrain \/ MacStop \/ MacVerify \/ MacStart \/ MacFails
  BY <1>31 DEF Submit, Render, MacFence, MacDrain, MacStop, MacVerify, MacStart, MacFails, bench,
     CleanIsTrue
<1> QED BY NextCases, <1>0, <1>1, <1>2, <1>3, <1>4, <1>8, <1>9, <1>10, <1>11, <1>12, <1>13, <1>16,
          <1>19, <1>20, <1>21, <1>22, <1>23, <1>24, <1>25, <1>26, <1>27, <1>29, <1>30, <1>31, <1>39

LEMMA InvHolds == Spec => []YueInv
<1>1. ASSUME Init PROVE YueInv
  <2>1. TypeOK
    BY <1>1, InitTypes
  <2>2. /\ \A r \in Runs : run[r] = Fresh /\ late[r] = {}
        /\ \A r \in Runs, j \in Jobs : cont[r][j] = "none" /\ job[r][j] = "queued"
        /\ factory.accepting /\ ~factory.busy /\ ~vllm /\ mac = "idle"
    BY <1>1 DEF Init
  <2>3. /\ Fresh.pc = "new" /\ Fresh.clean /\ ~Fresh.restore /\ Fresh.report = "none"
    BY DEF Fresh
  <2>4. ThreadsBelong
    BY <2>2 DEF ThreadsBelong, Working
  <2>5. LatesBelong
    BY <2>2 DEF LatesBelong
  <2>6. LeaseIsKept
    BY <2>2, <2>3 DEF LeaseIsKept, Leased, Borrowing, Soiled
  <2>7. DrainIsOwn
    BY <2>2, <2>3 DEF DrainIsOwn, Borrowing
  <2>8. GpuIsKept
    BY <2>2, <2>3 DEF GpuIsKept, NoBench
  <2>9. CleanIsTrue
    BY <2>2, <2>3 DEF CleanIsTrue
  <2> QED BY <2>1, <2>4, <2>5, <2>6, <2>7, <2>8, <2>9 DEF YueInv
<1>2. YueInv /\ [Next]_vars => YueInv'
  BY TypeStep, ThreadsStep, LatesStep, LeaseStep, DrainStep, GpuStep, CleanStep DEF YueInv
<1> QED BY <1>1, <1>2, PTL DEF Spec

LEMMA AtMostOne ==
    ASSUME NEW S, NEW x, S \subseteq {x} PROVE Cardinality(S) <= 1
<1>1. CASE S = {}
  <2>1. Cardinality(S) = 0
    BY <1>1, FS_EmptySet
  <2> QED BY <2>1
<1>2. CASE S = {x}
  <2>1. Cardinality(S) = 1
    BY <1>2, FS_Singleton, Zenon
  <2> QED BY <2>1
<1> QED BY <1>1, <1>2

(* Production, a model of the Mac and the containers of one run never share *)
(* the GPU, unless a run let the lock go with a docker start on its way.    *)
THEOREM GpuIsAlone == Spec => []GpuAlone
<1>1. ASSUME YueInv PROVE GpuAlone
  <2>1. SUFFICES ASSUME ~cut PROVE Cardinality(Users) <= 1
    BY DEF GpuAlone
  <2>2. CASE NoBench
    <3>1. Users \subseteq {"factory"}
      BY <2>2 DEF NoBench, Users, Running
    <3> QED BY <3>1, AtMostOne
  <2>3. CASE ~factory.busy /\ \A q \in Runs, j \in Jobs : cont[q][j] # "running"
    <3>1. Users \subseteq {"vllm"}
      BY <2>3 DEF Users, Running
    <3> QED BY <3>1, AtMostOne
  <2>4. ASSUME NEW r \in Runs, OnlyRun(r) PROVE Cardinality(Users) <= 1
    <3>1. Users \subseteq {r}
      BY <2>4 DEF OnlyRun, Users, Running
    <3> QED BY <3>1, AtMostOne
  <2> QED BY <1>1, <2>1, <2>2, <2>3, <2>4 DEF YueInv, GpuIsKept
<1> QED BY <1>1, InvHolds, PTL

\* The factory opens for a lease that ends, or for the Mac.
LEMMA WhoOpens ==
    ASSUME TypeOK, Next, ~factory.accepting, factory'.accepting
    PROVE  MacStart \/ \E r \in Runs : Admit(r)
<1>1. ASSUME UNCHANGED factory PROVE FALSE
  BY <1>1
<1>2. ASSUME Drained PROVE FALSE
  BY <1>2 DEF Drained, TypeOK
<1>3. ASSUME NEW r \in Runs, \/ Acquire(r) \/ Check(r) \/ CheckFails(r) \/ BecomesIdle(r)
                             \/ WaitEnds(r) \/ HealthFails(r) \/ Audit(r) \/ Assets(r)
                             \/ Leave(r) \/ Unlock(r) \/ TrialEnds(r) \/ FailedTrialEnds(r)
                             \/ Stop(r) \/ TrialFails(r) \/ Kill(r)
      PROVE  FALSE
  BY <1>1, <1>3 DEF Acquire, Check, CheckFails, BecomesIdle, WaitEnds, HealthFails, Audit, Assets,
     Leave, Unlock, TrialEnds, FailedTrialEnds, Stop, TrialFails, Kill, production
<1>4. ASSUME NEW r \in Runs, Drain(r) \/ SecondAuditFails(r) \/ Redrain(r) PROVE FALSE
  BY <1>1, <1>2, <1>4 DEF Drain, SecondAuditFails, Redrain, production
<1>5. ASSUME NEW r \in Runs, NEW j \in Jobs,
             \/ Launch(r, j) \/ Collect(r, j) \/ Create(r, j) \/ CreateFound(r, j)
             \/ CreateLost(r, j) \/ SendStart(r, j) \/ Start(r, j) \/ Poll(r, j)
             \/ Remove(r, j) \/ RemoveFails(r, j) \/ Exits(r, j) \/ LateStart(r, j)
      PROVE  FALSE
  BY <1>1, <1>5 DEF Launch, Collect, Create, CreateFound, CreateLost, SendStart, Start, Poll,
     Remove, RemoveFails, Exits, LateStart, production
<1>6. CASE Submit \/ Render \/ MacStop
  BY <1>6 DEF Submit, Render, MacStop, TypeOK
<1>7. CASE MacFence \/ MacDrain \/ MacVerify \/ MacFails
  BY <1>1, <1>2, <1>7 DEF MacFence, MacDrain, MacVerify, MacFails
<1> QED BY NextCases, <1>3, <1>4, <1>5, <1>6, <1>7

(* A lease admits what it drained itself, under the generation that         *)
(* node.json still has, when none of its containers is left.                *)
THEOREM ReadmitsOwn == Spec => ReadmitsItsOwn
<1>1. ASSUME YueInv, [Next]_vars
      PROVE  [\A r \in Runs :
                At(r, "admit") /\ factory'.accepting /\ ~factory.accepting =>
                  /\ run[r].drained
                  /\ factory'.gen = nodeGen /\ lock = r
                  /\ \A j \in Jobs : cont[r][j] = "none"]_vars
  <2>1. SUFFICES ASSUME Next, NEW r \in Runs, At(r, "admit"), factory'.accepting,
                        ~factory.accepting
                 PROVE  /\ run[r].drained
                        /\ factory'.gen = nodeGen /\ lock = r
                        /\ \A j \in Jobs : cont[r][j] = "none"
    BY <1>1
  <2>2. lock = r
    BY <1>1, <2>1 DEF YueInv, TypeOK, LockHeld, At
  <2>3. PICK q \in Runs : Admit(q)
    BY <1>1, <2>1, <2>2, WhoOpens, YueBenchAssumption DEF YueInv, MacStart, Free
  <2>4. q = r
    BY <1>1, <2>1, <2>2, <2>3 DEF YueInv, TypeOK, LockHeld, Admit, At
  <2>5. factory'.gen = run[r].gen
    BY <1>1, <2>1, <2>3, <2>4, Admits DEF YueInv, AdmitEffect
  <2>6. run[r].gen = nodeGen
    BY <1>1, <2>1 DEF YueInv, LeaseIsKept, Leased, At
  <2>7. run[r].drained
    BY <1>1, <2>1 DEF YueInv, DrainIsOwn, At
  <2>8. run[r].clean /\ \A j \in Jobs : job[r][j] \notin Working
    BY <1>1, <2>1 DEF YueInv, CleanIsTrue, ThreadsBelong, At
  <2>9. \A j \in Jobs : job[r][j] \in Threads
    BY <1>1 DEF YueInv, TypeOK
  <2>10. \A j \in Jobs : cont[r][j] = "none"
    BY <1>1, <2>1, <2>8, <2>9 DEF YueInv, CleanIsTrue, Working, Threads, At
  <2> QED BY <2>2, <2>5, <2>6, <2>7, <2>10
<1> QED BY <1>1, InvHolds, PTL DEF Spec, ReadmitsItsOwn

(* What lease-restored.json calls "left_drained" is drained as long as the  *)
(* run has the lock, also when the reply to an admission was lost.          *)
THEOREM LeftDrained == Spec => []LeftDrainedIsDrained
<1>1. ASSUME YueInv PROVE LeftDrainedIsDrained
  <2>1. SUFFICES ASSUME NEW r \in Runs, run[r].report = "left_drained", run[r].restore
                 PROVE  ~factory.accepting
    BY DEF LeftDrainedIsDrained
  <2>2. run[r].pc = "unlock" /\ ~run[r].clean
    BY <1>1, <2>1 DEF YueInv, LeaseIsKept
  <2> QED BY <1>1, <2>1, <2>2 DEF YueInv, LeaseIsKept, Soiled
<1> QED BY <1>1, InvHolds, PTL
=============================================================================

---------------------------- MODULE Startup_proofs ----------------------------
(* What holds of Startup for every set of launches: a model of any number  *)
(* of ranks, started in any order.                                         *)
EXTENDS Startup, TLAPS

\* Past the last start the monitor knows every rank.
AllKnown ==
    /\ pc \notin {"gathering", "failed"} => launch.ranks \subseteq known \cup unstarted
    /\ \/ pc \in {"waiting", "path", "models"}
       \/ pc = "checking" /\ after # "logs"
       => unstarted = {}

\* A launch that went on beside a server that still answers had missed it.
LeftoverMissed == pc \notin {"probing", "failed"} /\ leftover => missed

\* In the last check a rank that was dead at the probe is still dead, and is
\* yet to be inspected or has been found.
LastCheck ==
    pc = "checking" /\ after = "ready" =>
        /\ ours \/ missed
        /\ \A r \in dead : box[r] # "running" /\ (r \in todo \/ bad)

\* An identity that was printed is known, and the logs of what is known are
\* read or about to be.
AllGathered ==
    /\ printed \subseteq known
    /\ pc = "probing" => printed = {}
    /\ pc = "gathering" => known \subseteq todo \cup evidence

ReadyInv == TypeOK /\ AllKnown /\ LeftoverMissed /\ LastCheck
EvidenceInv == TypeOK /\ AllGathered

\* Next, action by action.
LEMMA NextCases ==
    ASSUME Next
    PROVE  \/ FindServing \/ FindNothing \/ ReadLogs \/ CheckEnds \/ GatherEnds
           \/ Round \/ TimeOut \/ ProbeMisses \/ ProbePath \/ ProbeModels
           \/ (\E r \in launch.ranks : StartRank(r)) \/ (\E r \in launch.ranks : StartFails(r))
           \/ (\E r \in launch.ranks : StartIsLost(r)) \/ (\E r \in launch.ranks : Inspect(r))
           \/ (\E r \in launch.ranks : InspectFails(r)) \/ (\E r \in launch.ranks : Gather(r))
           \/ Deadline \/ Advertises \/ Serves \/ LeftoverEnds
           \/ (\E r \in launch.ranks : Stops(r)) \/ (\E r \in launch.ranks : Removed(r))
BY DEF Next, Step, World, Start, Watch

\* The type invariant is inductive.
LEMMA TypeStep ==
    ASSUME TypeOK, [Next]_vars PROVE TypeOK'
<1> USE DEF TypeOK, Launch, Ended, Loops, Checked, Goto, Fail, Check, Turn, Running, Sees,
            cli, sparks, history
<1>0. CASE UNCHANGED vars  BY <1>0 DEF vars
<1>1. CASE FindServing     BY <1>1 DEF FindServing
<1>2. CASE FindNothing     BY <1>2 DEF FindNothing
<1>3. CASE ReadLogs        BY <1>3 DEF ReadLogs
<1>4. CASE CheckEnds       BY <1>4 DEF CheckEnds
<1>5. CASE GatherEnds      BY <1>5 DEF GatherEnds
<1>6. CASE Round           BY <1>6 DEF Round
<1>7. CASE TimeOut         BY <1>7 DEF TimeOut
<1>8. CASE ProbeMisses     BY <1>8 DEF ProbeMisses
<1>9. CASE ProbePath       BY <1>9 DEF ProbePath
<1>10. CASE ProbeModels    BY <1>10 DEF ProbeModels
<1>11. ASSUME NEW r \in launch.ranks, StartRank(r)   PROVE TypeOK'
  BY <1>11 DEF StartRank
<1>12. ASSUME NEW r \in launch.ranks, StartFails(r)  PROVE TypeOK'
  BY ZenonT(30), <1>12 DEF StartFails
<1>13. ASSUME NEW r \in launch.ranks, StartIsLost(r) PROVE TypeOK'
  BY ZenonT(30), <1>13 DEF StartIsLost
<1>14. ASSUME NEW r \in launch.ranks, Inspect(r)     PROVE TypeOK'
  BY <1>14 DEF Inspect
<1>15. ASSUME NEW r \in launch.ranks, InspectFails(r) PROVE TypeOK'
  BY <1>15 DEF InspectFails
<1>16. ASSUME NEW r \in launch.ranks, Gather(r)      PROVE TypeOK'
  BY <1>16 DEF Gather
<1>17. CASE Deadline       BY <1>17 DEF Deadline
<1>18. CASE Advertises     BY <1>18 DEF Advertises
<1>19. CASE Serves         BY <1>19 DEF Serves
<1>20. CASE LeftoverEnds   BY ZenonT(30), <1>20 DEF LeftoverEnds
<1>21. ASSUME NEW r \in launch.ranks, Stops(r)       PROVE TypeOK'
  BY ZenonT(30), <1>21 DEF Stops
<1>22. ASSUME NEW r \in launch.ranks, Removed(r)     PROVE TypeOK'
  BY ZenonT(30), <1>22 DEF Removed
<1> QED BY NextCases, <1>0, <1>1, <1>2, <1>3, <1>4, <1>5, <1>6, <1>7, <1>8, <1>9, <1>10,
           <1>11, <1>12, <1>13, <1>14, <1>15, <1>16, <1>17, <1>18, <1>19, <1>20, <1>21, <1>22

(* Every reachable state is well typed.                                    *)
THEOREM TypeCorrect == Spec => []TypeOK
<1>1. Init => TypeOK
  BY LaunchAssumption DEF Init, TypeOK, Launch, Checked, Ended, Loops
<1> QED BY <1>1, TypeStep, PTL DEF Spec
\* In the last check nothing that is dead comes back.
LEMMA ReadyStep ==
    ASSUME ReadyInv, [Next]_vars PROVE (AllKnown /\ LeftoverMissed /\ LastCheck)'
<1> USE DEF ReadyInv, TypeOK, AllKnown, LeftoverMissed, LastCheck, Launch, Ended, Loops, Checked,
            Goto, Fail, Check, Turn, Running, Sees, Answering, cli, sparks, history
<1>0. CASE UNCHANGED vars  BY <1>0 DEF vars
<1>1. CASE FindServing  BY <1>1 DEF FindServing
<1>2. CASE FindNothing  BY <1>2 DEF FindNothing
<1>3. CASE ReadLogs  BY <1>3 DEF ReadLogs
<1>4. CASE CheckEnds  BY <1>4 DEF CheckEnds
<1>5. CASE GatherEnds  BY <1>5 DEF GatherEnds
<1>6. CASE Round  BY <1>6 DEF Round
<1>7. CASE TimeOut  BY <1>7 DEF TimeOut
<1>8. CASE ProbeMisses  BY <1>8 DEF ProbeMisses
<1>9. CASE ProbePath  BY <1>9 DEF ProbePath
<1>10. CASE ProbeModels  BY <1>10 DEF ProbeModels
<1>11. ASSUME NEW r \in launch.ranks, StartRank(r) PROVE (AllKnown /\ LeftoverMissed /\ LastCheck)'
  BY <1>11 DEF StartRank
<1>12. ASSUME NEW r \in launch.ranks, StartFails(r) PROVE (AllKnown /\ LeftoverMissed /\ LastCheck)'
  BY <1>12 DEF StartFails
<1>13. ASSUME NEW r \in launch.ranks, StartIsLost(r)
       PROVE  (AllKnown /\ LeftoverMissed /\ LastCheck)'
  BY <1>13 DEF StartIsLost
<1>14. ASSUME NEW r \in launch.ranks, Inspect(r) PROVE (AllKnown /\ LeftoverMissed /\ LastCheck)'
  BY <1>14 DEF Inspect
<1>15. ASSUME NEW r \in launch.ranks, InspectFails(r)
       PROVE  (AllKnown /\ LeftoverMissed /\ LastCheck)'
  BY <1>15 DEF InspectFails
<1>16. ASSUME NEW r \in launch.ranks, Gather(r) PROVE (AllKnown /\ LeftoverMissed /\ LastCheck)'
  BY <1>16 DEF Gather
<1>17. CASE Deadline  BY <1>17 DEF Deadline
<1>18. CASE Advertises  BY <1>18 DEF Advertises
<1>19. CASE Serves  BY <1>19 DEF Serves
<1>20. CASE LeftoverEnds  BY <1>20 DEF LeftoverEnds
<1>21. ASSUME NEW r \in launch.ranks, Stops(r) PROVE (AllKnown /\ LeftoverMissed /\ LastCheck)'
  BY <1>21 DEF Stops
<1>22. ASSUME NEW r \in launch.ranks, Removed(r) PROVE (AllKnown /\ LeftoverMissed /\ LastCheck)'
  BY <1>22 DEF Removed
<1> QED BY NextCases, <1>0, <1>1, <1>2, <1>3, <1>4, <1>5, <1>6, <1>7, <1>8, <1>9, <1>10, <1>11,
           <1>12, <1>13, <1>14, <1>15, <1>16, <1>17, <1>18, <1>19, <1>20, <1>21, <1>22

(* A model is reported ready only if its launch answered the last probe    *)
(* while all its ranks were running (unless the first probe missed a       *)
(* server that was there before).                                          *)
THEOREM ReadyReal == Spec => ReadyIsReal
<1>1. Init => ReadyInv
  BY LaunchAssumption DEF Init, ReadyInv, TypeOK, AllKnown, LeftoverMissed, LastCheck,
     Launch, Checked, Ended, Loops
<1>2. ReadyInv /\ [Next]_vars => ReadyInv'
  BY TypeStep, ReadyStep DEF ReadyInv
<1>3. ASSUME ReadyInv, [Next]_vars
      PROVE  [(pc # "ready" /\ pc' = "ready") => dead = {} /\ (ours \/ missed)]_vars
  <2>1. SUFFICES ASSUME Next, pc # "ready", pc' = "ready"
                 PROVE  dead = {} /\ (ours \/ missed)
    BY <1>3 DEF vars, cli
  <2>2. CheckEnds
    BY <2>1, NextCases DEF FindServing, FindNothing, ReadLogs, GatherEnds, Round, TimeOut,
       ProbeMisses, ProbePath, ProbeModels, StartRank, StartFails, StartIsLost, Inspect,
       InspectFails, Gather, Deadline, Advertises, Serves, LeftoverEnds, Stops, Removed,
       Goto, Fail, Check, Turn, Loops, cli
  <2>3. pc = "checking" /\ todo = {} /\ ~bad /\ after = "ready"
    BY <2>1, <2>2, <1>3 DEF CheckEnds, Goto, Fail, ReadyInv, TypeOK
  <2> QED BY <2>3, <1>3 DEF ReadyInv, LastCheck
<1> QED BY <1>1, <1>2, <1>3, PTL DEF Spec, ReadyIsReal

\* Nothing that was printed is forgotten.
LEMMA EvidenceStep ==
    ASSUME EvidenceInv, [Next]_vars PROVE AllGathered'
<1> USE DEF EvidenceInv, TypeOK, AllGathered, Launch, Ended, Loops, Checked,
            Goto, Fail, Check, Turn, Running, Sees, Answering, cli, sparks, history
<1>0. CASE UNCHANGED vars  BY <1>0 DEF vars
<1>1. CASE FindServing  BY <1>1 DEF FindServing
<1>2. CASE FindNothing  BY <1>2 DEF FindNothing
<1>3. CASE ReadLogs  BY <1>3 DEF ReadLogs
<1>4. CASE CheckEnds  BY <1>4 DEF CheckEnds
<1>5. CASE GatherEnds  BY <1>5 DEF GatherEnds
<1>6. CASE Round  BY <1>6 DEF Round
<1>7. CASE TimeOut  BY <1>7 DEF TimeOut
<1>8. CASE ProbeMisses  BY <1>8 DEF ProbeMisses
<1>9. CASE ProbePath  BY <1>9 DEF ProbePath
<1>10. CASE ProbeModels  BY <1>10 DEF ProbeModels
<1>11. ASSUME NEW r \in launch.ranks, StartRank(r) PROVE AllGathered'
  BY <1>11 DEF StartRank
<1>12. ASSUME NEW r \in launch.ranks, StartFails(r) PROVE AllGathered'
  BY <1>12 DEF StartFails
<1>13. ASSUME NEW r \in launch.ranks, StartIsLost(r) PROVE AllGathered'
  BY <1>13 DEF StartIsLost
<1>14. ASSUME NEW r \in launch.ranks, Inspect(r) PROVE AllGathered'
  BY <1>14 DEF Inspect
<1>15. ASSUME NEW r \in launch.ranks, InspectFails(r) PROVE AllGathered'
  BY <1>15 DEF InspectFails
<1>16. ASSUME NEW r \in launch.ranks, Gather(r) PROVE AllGathered'
  BY <1>16 DEF Gather
<1>17. CASE Deadline  BY <1>17 DEF Deadline
<1>18. CASE Advertises  BY <1>18 DEF Advertises
<1>19. CASE Serves  BY <1>19 DEF Serves
<1>20. CASE LeftoverEnds  BY <1>20 DEF LeftoverEnds
<1>21. ASSUME NEW r \in launch.ranks, Stops(r) PROVE AllGathered'
  BY <1>21 DEF Stops
<1>22. ASSUME NEW r \in launch.ranks, Removed(r) PROVE AllGathered'
  BY <1>22 DEF Removed
<1> QED BY NextCases, <1>0, <1>1, <1>2, <1>3, <1>4, <1>5, <1>6, <1>7, <1>8, <1>9, <1>10, <1>11,
           <1>12, <1>13, <1>14, <1>15, <1>16, <1>17, <1>18, <1>19, <1>20, <1>21, <1>22

(* A start fails only when the logs of every container it was told of are  *)
(* in the diagnostics.                                                     *)
THEOREM FailureEvidenced == Spec => FailureIsEvidenced
<1>1. Init => EvidenceInv
  BY LaunchAssumption DEF Init, EvidenceInv, TypeOK, AllGathered, Launch, Checked, Ended, Loops
<1>2. EvidenceInv /\ [Next]_vars => EvidenceInv'
  BY TypeStep, EvidenceStep DEF EvidenceInv
<1>3. ASSUME EvidenceInv, [Next]_vars
      PROVE  [(pc # "failed" /\ pc' = "failed") => printed \subseteq evidence]_vars
  <2>1. SUFFICES ASSUME Next, pc # "failed", pc' = "failed"
                 PROVE  printed \subseteq evidence
    BY <1>3 DEF vars, cli
  <2>2. FindServing \/ GatherEnds
    BY <2>1, <1>3, NextCases DEF FindNothing, ReadLogs, CheckEnds, Round, TimeOut,
       ProbeMisses, ProbePath, ProbeModels, StartRank, StartFails, StartIsLost, Inspect,
       InspectFails, Gather, Deadline, Advertises, Serves, LeftoverEnds, Stops, Removed,
       Goto, Fail, Check, Turn, Loops, cli, EvidenceInv, TypeOK, Checked
  <2> QED BY <2>2, <1>3 DEF EvidenceInv, AllGathered, FindServing, GatherEnds
<1> QED BY <1>1, <1>2, <1>3, PTL DEF Spec, FailureIsEvidenced
===============================================================================

--------------------------- MODULE PowerCycle_proofs ---------------------------
(* What holds of PowerCycle for any hosts and any number of commands.      *)
EXTENDS PowerCycle, TLAPS

\* What the command that waits has seen, against what the hosts did since it
\* issued systemctl.
HostsFollowed ==
    /\ \A h \in down : power[h] = "up" => h \in booted
    /\ \A c \in Commands, h \in Hosts :
         /\ pc[c] \in Issued /\ power[h] = "off" => h \in down
         /\ pc[c] = "going down" /\ <<c, h>> \notin misjudged =>
              h \in pending[c] \/ h \in down
         /\ pc[c] = "coming up" /\ <<c, h>> \notin misjudged =>
              h \in down /\ (h \in pending[c] \/ h \in booted)

IInv == TypeOK /\ HostsFollowed

\* Next, action by action.
LEMMA NextCases ==
    ASSUME Next
    PROVE  \/ \E c \in Commands : \/ Begin(c) \/ Refused(c) \/ Kill(c) \/ Drain(c) \/ Fail(c)
                                  \/ Launch(c) \/ AllIssued(c) \/ AllDown(c) \/ AllUp(c)
                                  \/ Deadline(c) \/ TimeOut(c)
           \/ \E c \in Commands, h \in Hosts :
                \/ Issue(c, h) \/ IssueUnheard(c, h) \/ IssueFails(c, h)
                \/ SeesDown(c, h) \/ SeesOutage(c, h) \/ SeesUp(c, h)
           \/ \E h \in Hosts : GoesDown(h) \/ Boots(h)
           \/ \E h \in Hosts, c \in Commands : Arrives(h, c)
BY DEF Next, Step, Host

\* The forms in which a command moves keep its variables well typed.
LEMMA LoopTypes ==
    ASSUME CommandTypes, NEW c \in Commands, NEW label \in Labels, NEW hosts \in SUBSET Hosts,
           Loop(c, label, hosts)
    PROVE  CommandTypes'
BY DEF CommandTypes, Loop

LEMMA GotoTypes ==
    ASSUME CommandTypes, NEW c \in Commands, NEW label \in Labels, Goto(c, label)
    PROVE  CommandTypes'
BY DEF CommandTypes, Goto

LEMMA TickTypes ==
    ASSUME CommandTypes, NEW c \in Commands, NEW h \in Hosts, Tick(c, h)
    PROVE  CommandTypes'
BY DEF CommandTypes, Tick

LEMMA LabelsAre ==
    /\ {"draining", "idle", "issuing", "going down", "coming up", "launched", "rebooted",
        "powered_off", "ready", "failed", "killed", "refused", "new"} \subseteq Labels
    /\ {} \in SUBSET Hosts /\ Hosts \in SUBSET Hosts
BY DEF Labels, Ended, Holding, Issued

\* The types are inductive: of the commands, ...
LEMMA CommandStep ==
    ASSUME TypeOK, [Next]_vars PROVE CommandTypes'
<1>0. CASE UNCHANGED vars
  BY <1>0, LoopTypes, GotoTypes, TickTypes, LabelsAre DEF vars, world, TypeOK, CommandTypes,
      Leave, Asked, Polling
<1>1. ASSUME NEW c \in Commands, Begin(c) PROVE CommandTypes'
  BY <1>1, LoopTypes, GotoTypes, TickTypes, LabelsAre DEF Begin, TypeOK, Leave, Asked, Polling
<1>2. ASSUME NEW c \in Commands, Refused(c) PROVE CommandTypes'
  BY <1>2, LoopTypes, GotoTypes, TickTypes, LabelsAre DEF Refused, TypeOK, Leave, Asked, Polling
<1>3. ASSUME NEW c \in Commands, Kill(c) PROVE CommandTypes'
  BY <1>3, LoopTypes, GotoTypes, TickTypes, LabelsAre DEF Kill, TypeOK, Leave, Asked, Polling
<1>4. ASSUME NEW c \in Commands, Drain(c) PROVE CommandTypes'
  BY <1>4, LoopTypes, GotoTypes, TickTypes, LabelsAre DEF Drain, TypeOK, Leave, Asked, Polling
<1>5. ASSUME NEW c \in Commands, Fail(c) PROVE CommandTypes'
  BY <1>5, LoopTypes, GotoTypes, TickTypes, LabelsAre DEF Fail, TypeOK, Leave, Asked, Polling
<1>6. ASSUME NEW c \in Commands, Launch(c) PROVE CommandTypes'
  BY <1>6, LoopTypes, GotoTypes, TickTypes, LabelsAre DEF Launch, TypeOK, Leave, Asked, Polling
<1>7. ASSUME NEW c \in Commands, AllIssued(c) PROVE CommandTypes'
  BY <1>7, LoopTypes, GotoTypes, TickTypes, LabelsAre DEF AllIssued, TypeOK, Leave, Asked, Polling
<1>8. ASSUME NEW c \in Commands, AllDown(c) PROVE CommandTypes'
  BY <1>8, LoopTypes, GotoTypes, TickTypes, LabelsAre DEF AllDown, TypeOK, Leave, Asked, Polling
<1>9. ASSUME NEW c \in Commands, AllUp(c) PROVE CommandTypes'
  BY <1>9, LoopTypes, GotoTypes, TickTypes, LabelsAre DEF AllUp, TypeOK, Leave, Asked, Polling
<1>10. ASSUME NEW c \in Commands, Deadline(c) PROVE CommandTypes'
  BY <1>10, LoopTypes, GotoTypes, TickTypes, LabelsAre DEF Deadline, TypeOK, CommandTypes, cmds,
      Leave, Asked, Polling
<1>11. ASSUME NEW c \in Commands, TimeOut(c) PROVE CommandTypes'
  BY <1>11, LoopTypes, GotoTypes, TickTypes, LabelsAre DEF TimeOut, TypeOK, Leave, Asked, Polling
<1>12. ASSUME NEW c \in Commands, NEW h \in Hosts, Issue(c, h) PROVE CommandTypes'
  BY <1>12, LoopTypes, GotoTypes, TickTypes, LabelsAre DEF Issue, TypeOK, Leave, Asked, Polling
<1>13. ASSUME NEW c \in Commands, NEW h \in Hosts, IssueUnheard(c, h) PROVE CommandTypes'
  BY <1>13, LoopTypes, GotoTypes, TickTypes, LabelsAre DEF IssueUnheard, TypeOK, Leave, Asked,
      Polling
<1>14. ASSUME NEW c \in Commands, NEW h \in Hosts, IssueFails(c, h) PROVE CommandTypes'
  BY <1>14, LoopTypes, GotoTypes, TickTypes, LabelsAre DEF IssueFails, TypeOK, Leave, Asked, Polling
<1>15. ASSUME NEW c \in Commands, NEW h \in Hosts, SeesDown(c, h) PROVE CommandTypes'
  BY <1>15, LoopTypes, GotoTypes, TickTypes, LabelsAre DEF SeesDown, TypeOK, Leave, Asked, Polling
<1>16. ASSUME NEW c \in Commands, NEW h \in Hosts, SeesOutage(c, h) PROVE CommandTypes'
  BY <1>16, LoopTypes, GotoTypes, TickTypes, LabelsAre DEF SeesOutage, TypeOK, Leave, Asked, Polling
<1>17. ASSUME NEW c \in Commands, NEW h \in Hosts, SeesUp(c, h) PROVE CommandTypes'
  BY <1>17, LoopTypes, GotoTypes, TickTypes, LabelsAre DEF SeesUp, TypeOK, Leave, Asked, Polling
<1>18. ASSUME NEW h \in Hosts, GoesDown(h) PROVE CommandTypes'
  BY <1>18, LoopTypes, GotoTypes, TickTypes, LabelsAre DEF GoesDown, TypeOK, CommandTypes, cmds,
      Leave, Asked, Polling
<1>19. ASSUME NEW h \in Hosts, Boots(h) PROVE CommandTypes'
  BY <1>19, LoopTypes, GotoTypes, TickTypes, LabelsAre DEF Boots, TypeOK, CommandTypes, cmds,
      Leave, Asked, Polling
<1>20. ASSUME NEW h \in Hosts, NEW c \in Commands, Arrives(h, c) PROVE CommandTypes'
  BY <1>20, LoopTypes, GotoTypes, TickTypes, LabelsAre DEF Arrives, TypeOK, CommandTypes, cmds,
      Leave, Asked, Polling
<1> QED
  BY NextCases, <1>0, <1>1, <1>2, <1>3, <1>4, <1>5, <1>6, <1>7, <1>8, <1>9, <1>10,
     <1>11, <1>12, <1>13, <1>14, <1>15, <1>16, <1>17, <1>18, <1>19, <1>20

\* ... of the rest, ...
LEMMA WorldStep ==
    ASSUME TypeOK, [Next]_vars PROVE WorldTypes'
<1>0. CASE UNCHANGED vars
  BY <1>0 DEF vars, world, TypeOK, WorldTypes, CommandTypes, Kinds, Idling, Phases, Leave, Asked,
      Polling, world
<1>1. ASSUME NEW c \in Commands, Begin(c) PROVE WorldTypes'
  BY <1>1 DEF Begin, TypeOK, WorldTypes, CommandTypes, Kinds, Idling, Phases, Leave, Asked,
      Polling, world
<1>2. ASSUME NEW c \in Commands, Refused(c) PROVE WorldTypes'
  BY <1>2 DEF Refused, TypeOK, WorldTypes, CommandTypes, Kinds, Idling, Phases, Leave, Asked,
      Polling, world
<1>3. ASSUME NEW c \in Commands, Kill(c) PROVE WorldTypes'
  BY <1>3 DEF Kill, TypeOK, WorldTypes, CommandTypes, Kinds, Idling, Phases, Leave, Asked,
      Polling, world
<1>4. ASSUME NEW c \in Commands, Drain(c) PROVE WorldTypes'
  BY <1>4 DEF Drain, TypeOK, WorldTypes, CommandTypes, Kinds, Idling, Phases, Leave, Asked,
      Polling, world
<1>5. ASSUME NEW c \in Commands, Fail(c) PROVE WorldTypes'
  BY <1>5 DEF Fail, TypeOK, WorldTypes, CommandTypes, Kinds, Idling, Phases, Leave, Asked,
      Polling, world
<1>6. ASSUME NEW c \in Commands, Launch(c) PROVE WorldTypes'
  BY <1>6 DEF Launch, TypeOK, WorldTypes, CommandTypes, Kinds, Idling, Phases, Leave, Asked,
      Polling, world
<1>7. ASSUME NEW c \in Commands, AllIssued(c) PROVE WorldTypes'
  BY <1>7 DEF AllIssued, TypeOK, WorldTypes, CommandTypes, Kinds, Idling, Phases, Leave, Asked,
      Polling, world
<1>8. ASSUME NEW c \in Commands, AllDown(c) PROVE WorldTypes'
  BY <1>8 DEF AllDown, TypeOK, WorldTypes, CommandTypes, Kinds, Idling, Phases, Leave, Asked,
      Polling, world
<1>9. ASSUME NEW c \in Commands, AllUp(c) PROVE WorldTypes'
  BY <1>9 DEF AllUp, TypeOK, WorldTypes, CommandTypes, Kinds, Idling, Phases, Leave, Asked,
      Polling, world
<1>10. ASSUME NEW c \in Commands, Deadline(c) PROVE WorldTypes'
  BY <1>10 DEF Deadline, TypeOK, WorldTypes, CommandTypes, Kinds, Idling, Phases, Leave, Asked,
      Polling, world
<1>11. ASSUME NEW c \in Commands, TimeOut(c) PROVE WorldTypes'
  BY <1>11 DEF TimeOut, TypeOK, WorldTypes, CommandTypes, Kinds, Idling, Phases, Leave, Asked,
      Polling, world
<1>12. ASSUME NEW c \in Commands, NEW h \in Hosts, Issue(c, h) PROVE WorldTypes'
  BY <1>12 DEF Issue, TypeOK, WorldTypes, CommandTypes, Kinds, Idling, Phases, Leave, Asked,
      Polling, world
<1>13. ASSUME NEW c \in Commands, NEW h \in Hosts, IssueUnheard(c, h) PROVE WorldTypes'
  BY <1>13 DEF IssueUnheard, TypeOK, WorldTypes, CommandTypes, Kinds, Idling, Phases, Leave,
      Asked, Polling, world
<1>14. ASSUME NEW c \in Commands, NEW h \in Hosts, IssueFails(c, h) PROVE WorldTypes'
  BY <1>14 DEF IssueFails, TypeOK, WorldTypes, CommandTypes, Kinds, Idling, Phases, Leave, Asked,
      Polling, world
<1>15. ASSUME NEW c \in Commands, NEW h \in Hosts, SeesDown(c, h) PROVE WorldTypes'
  BY <1>15 DEF SeesDown, TypeOK, WorldTypes, CommandTypes, Kinds, Idling, Phases, Leave, Asked,
      Polling, world
<1>16. ASSUME NEW c \in Commands, NEW h \in Hosts, SeesOutage(c, h) PROVE WorldTypes'
  <2>1. misjudged' \subseteq Commands \X Hosts
    <3>1. misjudged \subseteq Commands \X Hosts
      BY DEF TypeOK, WorldTypes
    <3>2. misjudged' = misjudged \cup {<<c, h>>} /\ <<c, h>> \in Commands \X Hosts
      BY <1>16 DEF SeesOutage
    <3> QED BY <3>1, <3>2
  <2> QED BY <1>16, <2>1 DEF SeesOutage, TypeOK, WorldTypes, world
<1>17. ASSUME NEW c \in Commands, NEW h \in Hosts, SeesUp(c, h) PROVE WorldTypes'
  BY <1>17 DEF SeesUp, TypeOK, WorldTypes, CommandTypes, Kinds, Idling, Phases, Leave, Asked,
      Polling, world
<1>18. ASSUME NEW h \in Hosts, GoesDown(h) PROVE WorldTypes'
  BY <1>18 DEF GoesDown, TypeOK, WorldTypes, CommandTypes, Kinds, Idling, Phases, Leave, Asked,
      Polling, world
<1>19. ASSUME NEW h \in Hosts, Boots(h) PROVE WorldTypes'
  BY <1>19 DEF Boots, TypeOK, WorldTypes, CommandTypes, Kinds, Idling, Phases, Leave, Asked,
      Polling, world
<1>20. ASSUME NEW h \in Hosts, NEW c \in Commands, Arrives(h, c) PROVE WorldTypes'
  BY <1>20 DEF Arrives, TypeOK, WorldTypes, CommandTypes, Kinds, Idling, Phases, Leave, Asked,
      Polling, world
<1> QED
  BY NextCases, <1>0, <1>1, <1>2, <1>3, <1>4, <1>5, <1>6, <1>7, <1>8, <1>9, <1>10,
     <1>11, <1>12, <1>13, <1>14, <1>15, <1>16, <1>17, <1>18, <1>19, <1>20

\* ... and exactly the command inside switch goes on holding the lock.
LEMMA HeldStep ==
    ASSUME TypeOK, [Next]_vars PROVE Held'
<1>0. CASE UNCHANGED vars
  BY <1>0, PowerAssumption DEF vars, world, TypeOK, Held, CommandTypes, WorldTypes, Holding,
      Issued, Ended, Goto, Loop, Leave, Asked, Tick, Polling, cmds
<1>1. ASSUME NEW c \in Commands, Begin(c) PROVE Held'
  BY <1>1, PowerAssumption DEF Begin, TypeOK, Held, CommandTypes, WorldTypes, Holding, Issued,
      Ended, Goto, Loop, Leave, Asked, Tick, Polling, cmds
<1>2. ASSUME NEW c \in Commands, Refused(c) PROVE Held'
  BY <1>2, PowerAssumption DEF Refused, TypeOK, Held, CommandTypes, WorldTypes, Holding, Issued,
      Ended, Goto, Loop, Leave, Asked, Tick, Polling, cmds
<1>3. ASSUME NEW c \in Commands, Kill(c) PROVE Held'
  BY <1>3, PowerAssumption DEF Kill, TypeOK, Held, CommandTypes, WorldTypes, Holding, Issued,
      Ended, Goto, Loop, Leave, Asked, Tick, Polling, cmds
<1>4. ASSUME NEW c \in Commands, Drain(c) PROVE Held'
  BY ZenonT(30), <1>4, PowerAssumption DEF Drain, TypeOK, Held, CommandTypes, WorldTypes,
      Holding, Issued, Ended, Goto, Loop, Leave, Asked, Tick, Polling, cmds
<1>5. ASSUME NEW c \in Commands, Fail(c) PROVE Held'
  BY <1>5, PowerAssumption DEF Fail, TypeOK, Held, CommandTypes, WorldTypes, Holding, Issued,
      Ended, Goto, Loop, Leave, Asked, Tick, Polling, cmds
<1>6. ASSUME NEW c \in Commands, Launch(c) PROVE Held'
  BY <1>6, PowerAssumption DEF Launch, TypeOK, Held, CommandTypes, WorldTypes, Holding, Issued,
      Ended, Goto, Loop, Leave, Asked, Tick, Polling, cmds
<1>7. ASSUME NEW c \in Commands, AllIssued(c) PROVE Held'
  <2>1. CASE c \in waits
    <3>1. kind[c] # "up" /\ lock = c /\ UNCHANGED <<kind, waits, lock>>
      BY <1>7, <2>1 DEF AllIssued, Loop, TypeOK, Held, Holding, Issued
    <3>2. \A d \in Commands : pc'[d] = IF d = c THEN "going down" ELSE pc[d]
      BY <1>7, <2>1 DEF AllIssued, Loop, TypeOK, CommandTypes
    <3> QED BY <2>1, <3>1, <3>2 DEF TypeOK, Held, Holding, Issued
  <2>2. CASE c \notin waits
    BY <1>7, <2>2, PowerAssumption DEF AllIssued, TypeOK, Held, CommandTypes, WorldTypes,
        Holding, Issued, Ended, Goto, Loop, Leave, Asked, Tick, Polling, cmds
  <2> QED BY <2>1, <2>2
<1>8. ASSUME NEW c \in Commands, AllDown(c) PROVE Held'
  BY <1>8, PowerAssumption DEF AllDown, TypeOK, Held, CommandTypes, WorldTypes, Holding, Issued,
      Ended, Goto, Loop, Leave, Asked, Tick, Polling, cmds
<1>9. ASSUME NEW c \in Commands, AllUp(c) PROVE Held'
  BY <1>9, PowerAssumption DEF AllUp, TypeOK, Held, CommandTypes, WorldTypes, Holding, Issued,
      Ended, Goto, Loop, Leave, Asked, Tick, Polling, cmds
<1>10. ASSUME NEW c \in Commands, Deadline(c) PROVE Held'
  BY <1>10, PowerAssumption DEF Deadline, TypeOK, Held, CommandTypes, WorldTypes, Holding,
      Issued, Ended, Goto, Loop, Leave, Asked, Tick, Polling, cmds
<1>11. ASSUME NEW c \in Commands, TimeOut(c) PROVE Held'
  BY <1>11, PowerAssumption DEF TimeOut, TypeOK, Held, CommandTypes, WorldTypes, Holding, Issued,
      Ended, Goto, Loop, Leave, Asked, Tick, Polling, cmds
<1>12. ASSUME NEW c \in Commands, NEW h \in Hosts, Issue(c, h) PROVE Held'
  BY <1>12, PowerAssumption DEF Issue, TypeOK, Held, CommandTypes, WorldTypes, Holding, Issued,
      Ended, Goto, Loop, Leave, Asked, Tick, Polling, cmds
<1>13. ASSUME NEW c \in Commands, NEW h \in Hosts, IssueUnheard(c, h) PROVE Held'
  BY <1>13, PowerAssumption DEF IssueUnheard, TypeOK, Held, CommandTypes, WorldTypes, Holding,
      Issued, Ended, Goto, Loop, Leave, Asked, Tick, Polling, cmds
<1>14. ASSUME NEW c \in Commands, NEW h \in Hosts, IssueFails(c, h) PROVE Held'
  BY <1>14, PowerAssumption DEF IssueFails, TypeOK, Held, CommandTypes, WorldTypes, Holding,
      Issued, Ended, Goto, Loop, Leave, Asked, Tick, Polling, cmds
<1>15. ASSUME NEW c \in Commands, NEW h \in Hosts, SeesDown(c, h) PROVE Held'
  BY <1>15, PowerAssumption DEF SeesDown, TypeOK, Held, CommandTypes, WorldTypes, Holding,
      Issued, Ended, Goto, Loop, Leave, Asked, Tick, Polling, cmds
<1>16. ASSUME NEW c \in Commands, NEW h \in Hosts, SeesOutage(c, h) PROVE Held'
  BY <1>16, PowerAssumption DEF SeesOutage, TypeOK, Held, CommandTypes, WorldTypes, Holding,
      Issued, Ended, Goto, Loop, Leave, Asked, Tick, Polling, cmds
<1>17. ASSUME NEW c \in Commands, NEW h \in Hosts, SeesUp(c, h) PROVE Held'
  BY <1>17, PowerAssumption DEF SeesUp, TypeOK, Held, CommandTypes, WorldTypes, Holding, Issued,
      Ended, Goto, Loop, Leave, Asked, Tick, Polling, cmds
<1>18. ASSUME NEW h \in Hosts, GoesDown(h) PROVE Held'
  BY <1>18, PowerAssumption DEF GoesDown, TypeOK, Held, CommandTypes, WorldTypes, Holding,
      Issued, Ended, Goto, Loop, Leave, Asked, Tick, Polling, cmds
<1>19. ASSUME NEW h \in Hosts, Boots(h) PROVE Held'
  BY <1>19, PowerAssumption DEF Boots, TypeOK, Held, CommandTypes, WorldTypes, Holding, Issued,
      Ended, Goto, Loop, Leave, Asked, Tick, Polling, cmds
<1>20. ASSUME NEW h \in Hosts, NEW c \in Commands, Arrives(h, c) PROVE Held'
  BY <1>20, PowerAssumption DEF Arrives, TypeOK, Held, CommandTypes, WorldTypes, Holding, Issued,
      Ended, Goto, Loop, Leave, Asked, Tick, Polling, cmds
<1> QED
  BY NextCases, <1>0, <1>1, <1>2, <1>3, <1>4, <1>5, <1>6, <1>7, <1>8, <1>9, <1>10,
     <1>11, <1>12, <1>13, <1>14, <1>15, <1>16, <1>17, <1>18, <1>19, <1>20

LEMMA TypeStep ==
    ASSUME TypeOK, [Next]_vars PROVE TypeOK'
BY CommandStep, WorldStep, HeldStep DEF TypeOK

(* Every reachable state is well typed; in particular exactly the command  *)
(* that is inside switch holds controller.lock.                            *)
THEOREM TypeCorrect == Spec => []TypeOK
<1>1. Init => TypeOK
  BY PowerAssumption DEF Init, TypeOK, CommandTypes, WorldTypes, Held, Kinds, Ended, Issued,
      Holding, Labels, Phases
<1> QED BY <1>1, TypeStep, PTL DEF Spec

\* The holder's view stays true whatever the hosts and late calls do.
LEMMA FollowedStep ==
    ASSUME IInv, [Next]_vars PROVE HostsFollowed'
<1> USE PowerAssumption
    DEF IInv, HostsFollowed, TypeOK, CommandTypes, WorldTypes, Held, Kinds, Ended, Issued,
        Holding, Labels, Phases, Goto, Loop, Leave, Idling,
        Asked, Tick, Polling, world, cmds
<1>0. CASE UNCHANGED vars
  BY <1>0 DEF vars
<1>1. ASSUME NEW c \in Commands, Begin(c) PROVE HostsFollowed'
  BY <1>1 DEF Begin
<1>2. ASSUME NEW c \in Commands, Refused(c) PROVE HostsFollowed'
  BY <1>2 DEF Refused
<1>3. ASSUME NEW c \in Commands, Kill(c) PROVE HostsFollowed'
  BY <1>3 DEF Kill
<1>4. ASSUME NEW c \in Commands, Drain(c) PROVE HostsFollowed'
  <2>1. CASE kind[c] = "up"
    BY <1>4, <2>1 DEF Drain
  <2>2. CASE kind[c] # "up"
    BY ZenonT(30), <1>4, <2>2 DEF Drain
  <2> QED BY <2>1, <2>2
<1>5. ASSUME NEW c \in Commands, Fail(c) PROVE HostsFollowed'
  BY <1>5 DEF Fail
<1>6. ASSUME NEW c \in Commands, Launch(c) PROVE HostsFollowed'
  BY <1>6 DEF Launch
<1>7. ASSUME NEW c \in Commands, AllIssued(c) PROVE HostsFollowed'
  <2>1. CASE c \in waits
    BY ZenonT(30), <1>7, <2>1 DEF AllIssued
  <2>2. CASE c \notin waits
    BY ZenonT(30), <1>7, <2>2 DEF AllIssued
  <2> QED BY <2>1, <2>2
<1>8. ASSUME NEW c \in Commands, AllDown(c) PROVE HostsFollowed'
  <2>1. CASE kind[c] = "reboot"
    BY <1>8, <2>1 DEF AllDown
  <2>2. CASE kind[c] # "reboot"
    BY ZenonT(30), <1>8, <2>2 DEF AllDown
  <2> QED BY <2>1, <2>2
<1>9. ASSUME NEW c \in Commands, AllUp(c) PROVE HostsFollowed'
  BY <1>9 DEF AllUp
<1>10. ASSUME NEW c \in Commands, Deadline(c) PROVE HostsFollowed'
  BY <1>10 DEF Deadline
<1>11. ASSUME NEW c \in Commands, TimeOut(c) PROVE HostsFollowed'
  BY <1>11 DEF TimeOut
<1>12. ASSUME NEW c \in Commands, NEW h \in Hosts, Issue(c, h) PROVE HostsFollowed'
  BY <1>12 DEF Issue
<1>13. ASSUME NEW c \in Commands, NEW h \in Hosts, IssueUnheard(c, h) PROVE HostsFollowed'
  BY <1>13 DEF IssueUnheard
<1>14. ASSUME NEW c \in Commands, NEW h \in Hosts, IssueFails(c, h) PROVE HostsFollowed'
  BY <1>14 DEF IssueFails
<1>15. ASSUME NEW c \in Commands, NEW h \in Hosts, SeesDown(c, h) PROVE HostsFollowed'
  BY <1>15 DEF SeesDown
<1>16. ASSUME NEW c \in Commands, NEW h \in Hosts, SeesOutage(c, h) PROVE HostsFollowed'
  BY <1>16 DEF SeesOutage
<1>17. ASSUME NEW c \in Commands, NEW h \in Hosts, SeesUp(c, h) PROVE HostsFollowed'
  BY <1>17 DEF SeesUp
<1>18. ASSUME NEW h \in Hosts, GoesDown(h) PROVE HostsFollowed'
  <2>1. \A g \in Hosts : power'[g] = IF g = h THEN "off" ELSE power[g]
    BY <1>18 DEF GoesDown, WorldTypes
  <2>2. UNCHANGED <<pc, pending, booted, misjudged>> /\ down' = down \cup {h}
    BY <1>18 DEF GoesDown
  <2>3. \A g \in down' : power'[g] = "up" => g \in booted'
    BY <2>1, <2>2
  <2> QED BY <2>1, <2>2, <2>3
<1>19. ASSUME NEW h \in Hosts, Boots(h) PROVE HostsFollowed'
  BY <1>19 DEF Boots
<1>20. ASSUME NEW h \in Hosts, NEW c \in Commands, Arrives(h, c) PROVE HostsFollowed'
  BY <1>20 DEF Arrives
<1> QED
  BY NextCases, <1>0, <1>1, <1>2, <1>3, <1>4, <1>5, <1>6, <1>7, <1>8, <1>9, <1>10,
     <1>11, <1>12, <1>13, <1>14, <1>15, <1>16, <1>17, <1>18, <1>19, <1>20

(* A reported reboot has rebooted every host whose polls were truthful,    *)
(* and a reported power-off has taken it down.                             *)
THEOREM ReportedDone == Spec => ReportedMeansDone
<1> DEFINE Done(c) == \A h \in Hosts : <<c, h>> \notin misjudged =>
                         /\ pc'[c] = "rebooted" => h \in booted
                         /\ pc'[c] = "powered_off" => h \in down
<1>1. Init => IInv
  BY PowerAssumption DEF Init, IInv, HostsFollowed, TypeOK, CommandTypes, WorldTypes, Held,
      Kinds, Ended, Issued, Holding, Labels, Phases
<1>2. IInv /\ [Next]_vars => IInv'
  BY TypeStep, FollowedStep DEF IInv
<1>3. ASSUME IInv, [Next]_vars
      PROVE  [\A c \in Commands : pc'[c] # pc[c] => Done(c)]_vars
  <2>1. SUFFICES ASSUME Next, NEW d \in Commands, pc'[d] # pc[d],
                        pc'[d] \in {"rebooted", "powered_off"}
                 PROVE  Done(d)
    BY <1>3 DEF vars
  <2>2. AllDown(d) \/ AllUp(d)
    <3>1. ASSUME NEW c \in Commands, Begin(c) \/ Refused(c) \/ Kill(c) \/ Drain(c) \/ Fail(c)
                                     \/ Launch(c) \/ AllIssued(c) \/ Deadline(c) \/ TimeOut(c)
          PROVE  FALSE
      BY <3>1, <2>1, <1>3 DEF Begin, Refused, Kill, Drain, Fail, Launch, AllIssued, Deadline,
         TimeOut, Goto, Loop, Leave, IInv, TypeOK, CommandTypes
    <3>2. ASSUME NEW c \in Commands, NEW h \in Hosts,
                 \/ Issue(c, h) \/ IssueUnheard(c, h) \/ IssueFails(c, h)
                 \/ SeesDown(c, h) \/ SeesOutage(c, h) \/ SeesUp(c, h)
          PROVE  FALSE
      BY <3>2, <2>1, <1>3 DEF Issue, IssueUnheard, IssueFails, SeesDown, SeesOutage, SeesUp,
         Tick, Loop, Leave, IInv, TypeOK, CommandTypes
    <3>3. ASSUME NEW h \in Hosts, NEW c \in Commands, GoesDown(h) \/ Boots(h) \/ Arrives(h, c)
          PROVE  FALSE
      BY <3>3, <2>1 DEF GoesDown, Boots, Arrives, cmds
    <3>4. ASSUME NEW c \in Commands, AllDown(c) \/ AllUp(c) PROVE c = d
      BY <3>4, <2>1, <1>3 DEF AllDown, AllUp, Loop, Leave, IInv, TypeOK, CommandTypes
    <3> QED BY <3>1, <3>2, <3>3, <3>4, <2>1, NextCases
  <2>3. CASE AllDown(d)
    BY <2>3, <2>1, <1>3 DEF AllDown, Loop, Leave, IInv, HostsFollowed, TypeOK, CommandTypes,
       WorldTypes, Held, Issued
  <2>4. CASE AllUp(d)
    BY <2>4, <2>1, <1>3 DEF AllUp, Loop, Leave, IInv, HostsFollowed, TypeOK, CommandTypes,
       WorldTypes, Held, Issued
  <2> QED BY <2>2, <2>3, <2>4
<1> QED BY <1>1, <1>2, <1>3, PTL DEF Spec, ReportedMeansDone

\* A host that is off runs nothing and has nothing queued, no workload runs
\* while systemctl is issued and awaited, ...
OffMeansEmpty == \A h \in Hosts : power[h] = "off" => accepted[h] = {} /\ serving[h] = None
IssuedMeansIdle == \A c \in Commands : pc[c] \in Issued => \A h \in Hosts : serving[h] = None

\* ... and a queued reboot belongs to a command that still waits for it, or
\* never will.
Awaited(c, h) ==
    /\ c \in sent[h] => pc[c] = "failed"
    /\ c \in accepted[h] => \/ pc[c] = "launched" \/ pc[c] = "failed" \/ pc[c] = "killed"
                            \/ pc[c] = "issuing"
                            \/ pc[c] = "going down" /\ h \in pending[c]
                            \/ <<c, h>> \in misjudged
QueuedIsAwaited == \A c \in Commands, h \in Hosts : Awaited(c, h)

Spared == OffMeansEmpty /\ IssuedMeansIdle /\ QueuedIsAwaited

LEMMA OffStep ==
    ASSUME TypeOK, OffMeansEmpty, [Next]_vars PROVE OffMeansEmpty'
<1> USE DEF TypeOK, WorldTypes, OffMeansEmpty, Asked, Polling, world
<1>0. CASE UNCHANGED vars
  BY <1>0 DEF vars, world, cmds
<1>1. ASSUME NEW c \in Commands, Begin(c) PROVE OffMeansEmpty'
  BY <1>1 DEF Begin
<1>2. ASSUME NEW c \in Commands, Refused(c) PROVE OffMeansEmpty'
  BY <1>2 DEF Refused
<1>3. ASSUME NEW c \in Commands, Kill(c) PROVE OffMeansEmpty'
  BY <1>3 DEF Kill
<1>4. ASSUME NEW c \in Commands, Drain(c) PROVE OffMeansEmpty'
  BY <1>4 DEF Drain
<1>5. ASSUME NEW c \in Commands, Fail(c) PROVE OffMeansEmpty'
  BY <1>5 DEF Fail
<1>6. ASSUME NEW c \in Commands, Launch(c) PROVE OffMeansEmpty'
  BY <1>6 DEF Launch
<1>7. ASSUME NEW c \in Commands, AllIssued(c) PROVE OffMeansEmpty'
  BY <1>7 DEF AllIssued
<1>8. ASSUME NEW c \in Commands, AllDown(c) PROVE OffMeansEmpty'
  BY <1>8 DEF AllDown
<1>9. ASSUME NEW c \in Commands, AllUp(c) PROVE OffMeansEmpty'
  BY <1>9 DEF AllUp
<1>10. ASSUME NEW c \in Commands, Deadline(c) PROVE OffMeansEmpty'
  BY <1>10 DEF Deadline
<1>11. ASSUME NEW c \in Commands, TimeOut(c) PROVE OffMeansEmpty'
  BY <1>11 DEF TimeOut
<1>12. ASSUME NEW c \in Commands, NEW h \in Hosts, Issue(c, h) PROVE OffMeansEmpty'
  BY <1>12 DEF Issue
<1>13. ASSUME NEW c \in Commands, NEW h \in Hosts, IssueUnheard(c, h) PROVE OffMeansEmpty'
  BY <1>13 DEF IssueUnheard
<1>14. ASSUME NEW c \in Commands, NEW h \in Hosts, IssueFails(c, h) PROVE OffMeansEmpty'
  BY <1>14 DEF IssueFails
<1>15. ASSUME NEW c \in Commands, NEW h \in Hosts, SeesDown(c, h) PROVE OffMeansEmpty'
  BY <1>15 DEF SeesDown
<1>16. ASSUME NEW c \in Commands, NEW h \in Hosts, SeesOutage(c, h) PROVE OffMeansEmpty'
  BY <1>16 DEF SeesOutage
<1>17. ASSUME NEW c \in Commands, NEW h \in Hosts, SeesUp(c, h) PROVE OffMeansEmpty'
  BY <1>17 DEF SeesUp
<1>18. ASSUME NEW h \in Hosts, GoesDown(h) PROVE OffMeansEmpty'
  BY <1>18 DEF GoesDown
<1>19. ASSUME NEW h \in Hosts, Boots(h) PROVE OffMeansEmpty'
  BY <1>19 DEF Boots
<1>20. ASSUME NEW h \in Hosts, NEW c \in Commands, Arrives(h, c) PROVE OffMeansEmpty'
  BY <1>20 DEF Arrives
<1> QED
  BY NextCases, <1>0, <1>1, <1>2, <1>3, <1>4, <1>5, <1>6, <1>7, <1>8, <1>9, <1>10,
     <1>11, <1>12, <1>13, <1>14, <1>15, <1>16, <1>17, <1>18, <1>19, <1>20

LEMMA IdleStep ==
    ASSUME TypeOK, IssuedMeansIdle, [Next]_vars PROVE IssuedMeansIdle'
<1> USE PowerAssumption DEF TypeOK, Held, IssuedMeansIdle, Issued, Holding, Asked, Polling, world
<1>0. CASE UNCHANGED vars
  BY <1>0 DEF vars, world, cmds
<1>1. ASSUME NEW c \in Commands, Begin(c) PROVE IssuedMeansIdle'
  <2>1. \A d \in Commands : pc'[d] = IF d = c THEN "draining" ELSE pc[d]
    BY <1>1 DEF Begin, Goto, TypeOK, CommandTypes
  <2> QED BY <1>1, <2>1 DEF Begin
<1>2. ASSUME NEW c \in Commands, Refused(c) PROVE IssuedMeansIdle'
  <2>1. \A d \in Commands : pc'[d] = IF d = c THEN "refused" ELSE pc[d]
    BY <1>2 DEF Refused, Goto, TypeOK, CommandTypes
  <2> QED BY <1>2, <2>1 DEF Refused
<1>3. ASSUME NEW c \in Commands, Kill(c) PROVE IssuedMeansIdle'
  <2>1. \A d \in Commands : pc'[d] = IF d = c THEN "killed" ELSE pc[d]
    BY <1>3 DEF Kill, Loop, Leave, TypeOK, CommandTypes
  <2> QED BY <1>3, <2>1 DEF Kill
<1>4. ASSUME NEW c \in Commands, Drain(c) PROVE IssuedMeansIdle'
  <2>1. CASE kind[c] = "up"
    <3>1. \A d \in Commands : pc'[d] = IF d = c THEN "idle" ELSE pc[d]
      BY <1>4, <2>1 DEF Drain, Goto, TypeOK, CommandTypes
    <3> QED BY <1>4, <2>1, <3>1 DEF Drain
  <2>2. CASE kind[c] # "up"
    <3>1. \A d \in Commands : pc'[d] = IF d = c THEN "issuing" ELSE pc[d]
      BY <1>4, <2>2 DEF Drain, Loop, TypeOK, CommandTypes
    <3> QED BY <1>4, <2>2, <3>1 DEF Drain
  <2> QED BY <2>1, <2>2
<1>5. ASSUME NEW c \in Commands, Fail(c) PROVE IssuedMeansIdle'
  <2>1. \A d \in Commands : pc'[d] = IF d = c THEN "failed" ELSE pc[d]
    BY <1>5 DEF Fail, Loop, Leave, TypeOK, CommandTypes
  <2> QED BY <1>5, <2>1 DEF Fail
<1>6. ASSUME NEW c \in Commands, Launch(c) PROVE IssuedMeansIdle'
  <2>1. \A d \in Commands : pc'[d] = IF d = c THEN "ready" ELSE pc[d]
    BY <1>6 DEF Launch, Loop, Leave, TypeOK, CommandTypes
  <2> QED BY <1>6, <2>1 DEF Launch
<1>7. ASSUME NEW c \in Commands, AllIssued(c) PROVE IssuedMeansIdle'
  <2>1. CASE c \in waits
    <3>1. \A d \in Commands : pc'[d] = IF d = c THEN "going down" ELSE pc[d]
      BY <1>7, <2>1 DEF AllIssued, Loop, TypeOK, CommandTypes
    <3> QED BY <1>7, <2>1, <3>1 DEF AllIssued
  <2>2. CASE c \notin waits
    <3>1. \A d \in Commands : pc'[d] = IF d = c THEN "launched" ELSE pc[d]
      BY <1>7, <2>2 DEF AllIssued, Loop, Leave, TypeOK, CommandTypes
    <3> QED BY <1>7, <2>2, <3>1 DEF AllIssued
  <2> QED BY <2>1, <2>2
<1>8. ASSUME NEW c \in Commands, AllDown(c) PROVE IssuedMeansIdle'
  <2>1. CASE kind[c] = "reboot"
    <3>1. \A d \in Commands : pc'[d] = IF d = c THEN "coming up" ELSE pc[d]
      BY <1>8, <2>1 DEF AllDown, Loop, TypeOK, CommandTypes
    <3> QED BY <1>8, <2>1, <3>1 DEF AllDown
  <2>2. CASE kind[c] # "reboot"
    <3>1. \A d \in Commands : pc'[d] = IF d = c THEN "powered_off" ELSE pc[d]
      BY <1>8, <2>2 DEF AllDown, Loop, Leave, TypeOK, CommandTypes
    <3> QED BY <1>8, <2>2, <3>1 DEF AllDown
  <2> QED BY <2>1, <2>2
<1>9. ASSUME NEW c \in Commands, AllUp(c) PROVE IssuedMeansIdle'
  <2>1. \A d \in Commands : pc'[d] = IF d = c THEN "rebooted" ELSE pc[d]
    BY <1>9 DEF AllUp, Loop, Leave, TypeOK, CommandTypes
  <2> QED BY <1>9, <2>1 DEF AllUp
<1>10. ASSUME NEW c \in Commands, Deadline(c) PROVE IssuedMeansIdle'
  BY <1>10 DEF Deadline, cmds
<1>11. ASSUME NEW c \in Commands, TimeOut(c) PROVE IssuedMeansIdle'
  <2>1. \A d \in Commands : pc'[d] = IF d = c THEN "failed" ELSE pc[d]
    BY <1>11 DEF TimeOut, Loop, Leave, TypeOK, CommandTypes
  <2> QED BY <1>11, <2>1 DEF TimeOut
<1>12. ASSUME NEW c \in Commands, NEW h \in Hosts, Issue(c, h) PROVE IssuedMeansIdle'
  BY <1>12 DEF Issue, Tick
<1>13. ASSUME NEW c \in Commands, NEW h \in Hosts, IssueUnheard(c, h) PROVE IssuedMeansIdle'
  BY <1>13 DEF IssueUnheard, Tick
<1>14. ASSUME NEW c \in Commands, NEW h \in Hosts, IssueFails(c, h) PROVE IssuedMeansIdle'
  <2>1. \A d \in Commands : pc'[d] = IF d = c THEN "failed" ELSE pc[d]
    BY <1>14 DEF IssueFails, Loop, Leave, TypeOK, CommandTypes
  <2> QED BY <1>14, <2>1 DEF IssueFails
<1>15. ASSUME NEW c \in Commands, NEW h \in Hosts, SeesDown(c, h) PROVE IssuedMeansIdle'
  BY <1>15 DEF SeesDown, Tick
<1>16. ASSUME NEW c \in Commands, NEW h \in Hosts, SeesOutage(c, h) PROVE IssuedMeansIdle'
  BY <1>16 DEF SeesOutage, Tick
<1>17. ASSUME NEW c \in Commands, NEW h \in Hosts, SeesUp(c, h) PROVE IssuedMeansIdle'
  BY <1>17 DEF SeesUp, Tick
<1>18. ASSUME NEW h \in Hosts, GoesDown(h) PROVE IssuedMeansIdle'
  BY <1>18 DEF GoesDown, WorldTypes, cmds
<1>19. ASSUME NEW h \in Hosts, Boots(h) PROVE IssuedMeansIdle'
  BY <1>19 DEF Boots, cmds
<1>20. ASSUME NEW h \in Hosts, NEW c \in Commands, Arrives(h, c) PROVE IssuedMeansIdle'
  BY <1>20 DEF Arrives, cmds
<1> QED
  BY NextCases, <1>0, <1>1, <1>2, <1>3, <1>4, <1>5, <1>6, <1>7, <1>8, <1>9, <1>10,
     <1>11, <1>12, <1>13, <1>14, <1>15, <1>16, <1>17, <1>18, <1>19, <1>20

LEMMA QueuedStep ==
    ASSUME TypeOK, OffMeansEmpty, QueuedIsAwaited, [Next]_vars PROVE QueuedIsAwaited'
<1> SUFFICES ASSUME NEW d \in Commands, NEW g \in Hosts PROVE Awaited(d, g)'
  BY DEF QueuedIsAwaited
<1> Awaited(d, g) /\ (power[g] = "off" => accepted[g] = {})
  BY DEF QueuedIsAwaited, OffMeansEmpty
<1> USE DEF TypeOK, Awaited, Asked, Polling, world
<1>0. CASE UNCHANGED vars
  BY <1>0 DEF vars, world, cmds
<1>1. ASSUME NEW c \in Commands, Begin(c) PROVE Awaited(d, g)'
  <2>1. /\ pc'[d] = IF d = c THEN "draining" ELSE pc[d]
        /\ pending'[d] = pending[d]
    BY <1>1 DEF Begin, Goto, TypeOK, CommandTypes
  <2> QED BY <1>1, <2>1 DEF Begin
<1>2. ASSUME NEW c \in Commands, Refused(c) PROVE Awaited(d, g)'
  <2>1. /\ pc'[d] = IF d = c THEN "refused" ELSE pc[d]
        /\ pending'[d] = pending[d]
    BY <1>2 DEF Refused, Goto, TypeOK, CommandTypes
  <2> QED BY <1>2, <2>1 DEF Refused
<1>3. ASSUME NEW c \in Commands, Kill(c) PROVE Awaited(d, g)'
  <2>1. /\ pc'[d] = IF d = c THEN "killed" ELSE pc[d]
        /\ pending'[d] = IF d = c THEN {} ELSE pending[d]
    BY <1>3 DEF Kill, Loop, Leave, TypeOK, CommandTypes
  <2> QED BY <1>3, <2>1 DEF Kill, Holding, Issued
<1>4. ASSUME NEW c \in Commands, Drain(c) PROVE Awaited(d, g)'
  <2>1. CASE kind[c] = "up"
    <3>1. /\ pc'[d] = IF d = c THEN "idle" ELSE pc[d]
          /\ pending'[d] = pending[d]
      BY <1>4, <2>1 DEF Drain, Goto, TypeOK, CommandTypes
    <3> QED BY <1>4, <2>1, <3>1 DEF Drain
  <2>2. CASE kind[c] # "up"
    <3>1. /\ pc'[d] = IF d = c THEN "issuing" ELSE pc[d]
          /\ pending'[d] = IF d = c THEN Hosts ELSE pending[d]
      BY <1>4, <2>2 DEF Drain, Loop, TypeOK, CommandTypes
    <3> QED BY <1>4, <2>2, <3>1 DEF Drain
  <2> QED BY <2>1, <2>2
<1>5. ASSUME NEW c \in Commands, Fail(c) PROVE Awaited(d, g)'
  <2>1. /\ pc'[d] = IF d = c THEN "failed" ELSE pc[d]
        /\ pending'[d] = IF d = c THEN {} ELSE pending[d]
    BY <1>5 DEF Fail, Loop, Leave, TypeOK, CommandTypes
  <2> QED BY <1>5, <2>1 DEF Fail
<1>6. ASSUME NEW c \in Commands, Launch(c) PROVE Awaited(d, g)'
  <2>1. /\ pc'[d] = IF d = c THEN "ready" ELSE pc[d]
        /\ pending'[d] = IF d = c THEN {} ELSE pending[d]
    BY <1>6 DEF Launch, Loop, Leave, TypeOK, CommandTypes
  <2> QED BY <1>6, <2>1 DEF Launch
<1>7. ASSUME NEW c \in Commands, AllIssued(c) PROVE Awaited(d, g)'
  <2>1. CASE c \in waits
    <3>1. /\ pc'[d] = IF d = c THEN "going down" ELSE pc[d]
          /\ pending'[d] = IF d = c THEN Hosts ELSE pending[d]
      BY <1>7, <2>1 DEF AllIssued, Loop, TypeOK, CommandTypes
    <3> QED BY <1>7, <2>1, <3>1 DEF AllIssued
  <2>2. CASE c \notin waits
    <3>1. /\ pc'[d] = IF d = c THEN "launched" ELSE pc[d]
          /\ pending'[d] = IF d = c THEN {} ELSE pending[d]
      BY <1>7, <2>2 DEF AllIssued, Loop, Leave, TypeOK, CommandTypes
    <3> QED BY <1>7, <2>2, <3>1 DEF AllIssued
  <2> QED BY <2>1, <2>2
<1>8. ASSUME NEW c \in Commands, AllDown(c) PROVE Awaited(d, g)'
  <2>1. CASE kind[c] = "reboot"
    <3>1. /\ pc'[d] = IF d = c THEN "coming up" ELSE pc[d]
          /\ pending'[d] = IF d = c THEN Hosts ELSE pending[d]
      BY <1>8, <2>1 DEF AllDown, Loop, TypeOK, CommandTypes
    <3> QED BY <1>8, <2>1, <3>1 DEF AllDown
  <2>2. CASE kind[c] # "reboot"
    <3>1. /\ pc'[d] = IF d = c THEN "powered_off" ELSE pc[d]
          /\ pending'[d] = IF d = c THEN {} ELSE pending[d]
      BY <1>8, <2>2 DEF AllDown, Loop, Leave, TypeOK, CommandTypes
    <3> QED BY <1>8, <2>2, <3>1 DEF AllDown
  <2> QED BY <2>1, <2>2
<1>9. ASSUME NEW c \in Commands, AllUp(c) PROVE Awaited(d, g)'
  <2>1. /\ pc'[d] = IF d = c THEN "rebooted" ELSE pc[d]
        /\ pending'[d] = IF d = c THEN {} ELSE pending[d]
    BY <1>9 DEF AllUp, Loop, Leave, TypeOK, CommandTypes
  <2> QED BY <1>9, <2>1 DEF AllUp
<1>10. ASSUME NEW c \in Commands, Deadline(c) PROVE Awaited(d, g)'
  BY <1>10 DEF Deadline, cmds
<1>11. ASSUME NEW c \in Commands, TimeOut(c) PROVE Awaited(d, g)'
  <2>1. /\ pc'[d] = IF d = c THEN "failed" ELSE pc[d]
        /\ pending'[d] = IF d = c THEN {} ELSE pending[d]
    BY <1>11 DEF TimeOut, Loop, Leave, TypeOK, CommandTypes
  <2> QED BY <1>11, <2>1 DEF TimeOut
<1>12. ASSUME NEW c \in Commands, NEW h \in Hosts, Issue(c, h) PROVE Awaited(d, g)'
  <2>1. /\ pc'[d] = pc[d]
        /\ pending'[d] = IF d = c THEN pending[c] \ {h} ELSE pending[d]
    BY <1>12 DEF Issue, Tick, TypeOK, CommandTypes
  <2> QED BY <1>12, <2>1 DEF Issue, WorldTypes
<1>13. ASSUME NEW c \in Commands, NEW h \in Hosts, IssueUnheard(c, h) PROVE Awaited(d, g)'
  <2>1. /\ pc'[d] = pc[d]
        /\ pending'[d] = IF d = c THEN pending[c] \ {h} ELSE pending[d]
    BY <1>13 DEF IssueUnheard, Tick, TypeOK, CommandTypes
  <2> QED BY <1>13, <2>1 DEF IssueUnheard
<1>14. ASSUME NEW c \in Commands, NEW h \in Hosts, IssueFails(c, h) PROVE Awaited(d, g)'
  <2>1. /\ pc'[d] = IF d = c THEN "failed" ELSE pc[d]
        /\ pending'[d] = IF d = c THEN {} ELSE pending[d]
    BY <1>14 DEF IssueFails, Loop, Leave, TypeOK, CommandTypes
  <2>2. CASE UNCHANGED sent
    BY <1>14, <2>1, <2>2 DEF IssueFails
  <2>3. CASE sent' = [sent EXCEPT ![h] = @ \cup {c}]
    <3>1. d \in sent'[g] => d \in sent[g] \/ d = c
      BY <2>3 DEF WorldTypes
    <3> QED BY <1>14, <2>1, <3>1 DEF IssueFails
  <2> QED BY <1>14, <2>2, <2>3 DEF IssueFails
<1>15. ASSUME NEW c \in Commands, NEW h \in Hosts, SeesDown(c, h) PROVE Awaited(d, g)'
  <2>1. /\ pc'[d] = pc[d]
        /\ pending'[d] = IF d = c THEN pending[c] \ {h} ELSE pending[d]
    BY <1>15 DEF SeesDown, Tick, TypeOK, CommandTypes
  <2> QED BY <1>15, <2>1 DEF SeesDown
<1>16. ASSUME NEW c \in Commands, NEW h \in Hosts, SeesOutage(c, h) PROVE Awaited(d, g)'
  <2>1. /\ pc'[d] = pc[d]
        /\ pending'[d] = IF d = c THEN pending[c] \ {h} ELSE pending[d]
    BY <1>16 DEF SeesOutage, Tick, TypeOK, CommandTypes
  <2> QED BY <1>16, <2>1 DEF SeesOutage
<1>17. ASSUME NEW c \in Commands, NEW h \in Hosts, SeesUp(c, h) PROVE Awaited(d, g)'
  <2>1. /\ pc'[d] = pc[d]
        /\ pending'[d] = IF d = c THEN pending[c] \ {h} ELSE pending[d]
    BY <1>17 DEF SeesUp, Tick, TypeOK, CommandTypes
  <2> QED BY <1>17, <2>1 DEF SeesUp
<1>18. ASSUME NEW h \in Hosts, GoesDown(h) PROVE Awaited(d, g)'
  BY <1>18 DEF GoesDown, WorldTypes, cmds
<1>19. ASSUME NEW h \in Hosts, Boots(h) PROVE Awaited(d, g)'
  BY <1>19 DEF Boots, cmds
<1>20. ASSUME NEW h \in Hosts, NEW c \in Commands, Arrives(h, c) PROVE Awaited(d, g)'
  BY <1>20 DEF Arrives, WorldTypes, cmds
<1> QED
  BY NextCases, <1>0, <1>1, <1>2, <1>3, <1>4, <1>5, <1>6, <1>7, <1>8, <1>9, <1>10,
     <1>11, <1>12, <1>13, <1>14, <1>15, <1>16, <1>17, <1>18, <1>19, <1>20

LEMMA SparedStep ==
    ASSUME TypeOK, Spared, [Next]_vars PROVE Spared'
BY OffStep, IdleStep, QueuedStep DEF Spared

(* A reboot takes a workload down only if its command did not wait for it: *)
(* a transition after a reported reboot or power-off keeps what it starts. *)
THEOREM RebootSpares == Spec => RebootSparesWorkloads
<1> DEFINE Excuse(h) ==
             \E c \in accepted[h] : \/ pc[c] \in {"launched", "failed", "killed"}
                                    \/ <<c, h>> \in misjudged
<1>1. Init => TypeOK /\ Spared
  BY PowerAssumption DEF Init, Spared, OffMeansEmpty, IssuedMeansIdle, QueuedIsAwaited, Awaited,
      TypeOK, CommandTypes, WorldTypes, Held, Kinds, Ended, Issued,
     Holding, Labels, Phases
<1>2. TypeOK /\ Spared /\ [Next]_vars => (TypeOK /\ Spared)'
  BY TypeStep, SparedStep
<1>3. ASSUME TypeOK, Spared, [Next]_vars
      PROVE  [\A h \in Hosts : serving[h] # None /\ power'[h] = "off" => Excuse(h)]_vars
  <2>1. SUFFICES ASSUME Next, NEW g \in Hosts, serving[g] # None, power'[g] = "off"
                 PROVE  Excuse(g)
    BY <1>3
  <2>2. power[g] = "up"
    BY <2>1, <1>3 DEF Spared, OffMeansEmpty, IssuedMeansIdle, TypeOK, WorldTypes
  <2>3. GoesDown(g)
    <3>1. ASSUME NEW h \in Hosts, GoesDown(h) PROVE h = g
      BY <3>1, <2>1, <2>2 DEF GoesDown, TypeOK, WorldTypes
    <3>2. ASSUME NEW h \in Hosts, Boots(h) PROVE FALSE
      BY <3>2, <2>1, <2>2, <1>3 DEF Boots, TypeOK, WorldTypes
    <3>3. ASSUME NEW h \in Hosts, NEW c \in Commands, Arrives(h, c) PROVE FALSE
      BY <3>3, <2>1, <2>2 DEF Arrives
    <3>4. ASSUME NEW c \in Commands, Begin(c) \/ Refused(c) \/ Kill(c) \/ Drain(c) \/ Fail(c)
                                     \/ Launch(c) \/ AllIssued(c) \/ AllDown(c) \/ AllUp(c)
                                     \/ Deadline(c) \/ TimeOut(c)
          PROVE  FALSE
      BY <3>4, <2>1, <2>2 DEF Begin, Refused, Kill, Drain, Fail, Launch, AllIssued, AllDown, AllUp,
         Deadline, TimeOut, world
    <3>5. ASSUME NEW c \in Commands, NEW h \in Hosts,
                 \/ Issue(c, h) \/ IssueUnheard(c, h) \/ IssueFails(c, h)
                 \/ SeesDown(c, h) \/ SeesOutage(c, h) \/ SeesUp(c, h)
          PROVE  FALSE
      BY <3>5, <2>1, <2>2 DEF Issue, IssueUnheard, IssueFails, SeesDown, SeesOutage, SeesUp, world
    <3> QED BY <3>1, <3>2, <3>3, <3>4, <3>5, <2>1, NextCases
  <2>4. PICK c \in accepted[g] : TRUE
    BY <2>3 DEF GoesDown
  <2>5. pc[c] \notin Issued /\ c \in Commands
    BY <2>1, <2>4, <1>3 DEF Spared, OffMeansEmpty, IssuedMeansIdle, TypeOK, WorldTypes
  <2>6. pc[c] \in {"launched", "failed", "killed"} \/ <<c, g>> \in misjudged
    BY <2>4, <2>5, <1>3 DEF Spared, QueuedIsAwaited, Awaited, Issued
  <2> QED BY <2>4, <2>6
<1> QED BY <1>1, <1>2, <1>3, PTL DEF Spec, RebootSparesWorkloads
================================================================================

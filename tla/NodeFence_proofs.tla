-------------------------- MODULE NodeFence_proofs --------------------------
(***************************************************************************)
(* Proofs about NodeFence, for any nodes, commands and number of           *)
(* transitions.                                                            *)
(***************************************************************************)
EXTENDS NodeFence, TLAPS

-----------------------------------------------------------------------------
(* Types                                                                   *)

\* Every variable of the node lock keeps its type.
THEOREM TypeCorrect == Spec => []TypeOK
<1> USE NodesAssumption, MaxGenerationAssumption
    DEF TypeOK, Generations, None, Requests, Acts, Inside, Active, Ended,
        Control, Processes, OfCommand, Node, Gen, Is
<1>1. Init => TypeOK
  <2>1. (CHOOSE n \in Nodes : TRUE) \in Nodes
    OBVIOUS
  <2>2. SUFFICES ASSUME Init PROVE TypeOK
    OBVIOUS
  <2> DEFINE any == CHOOSE n \in Nodes : TRUE
  <2>3. any \in Nodes
    BY <2>1
  <2> HIDE DEF any
  <2>4. req = [c \in Cmds |-> [node |-> any, gen |-> None, act |-> "drain"]]
    BY <2>2 DEF Init, any
  <2>5. req \in [Cmds -> Requests]
    BY <2>3, <2>4
  <2>6. QED
    BY <2>2, <2>5 DEF Init
<1>2. TypeOK /\ [Next]_vars => TypeOK'
  <2> SUFFICES ASSUME TypeOK, [Next]_vars PROVE TypeOK'
    OBVIOUS
  <2>1. CASE NewTransition
    BY <2>1 DEF NewTransition
  <2>2. ASSUME NEW c \in Cmds, NEW n \in Nodes, SendFence(c, n) PROVE TypeOK'
    BY <2>2 DEF SendFence, Send
  <2>3. ASSUME NEW c \in Cmds, NEW n \in Nodes, SendDrain(c, n) PROVE TypeOK'
    BY <2>3 DEF SendDrain, Send
  <2>4. ASSUME NEW c \in Cmds, NEW n \in Nodes, SendMutation(c, n) PROVE TypeOK'
    BY <2>4 DEF SendMutation, Send
  <2>5. ASSUME NEW c \in Cmds, Answered(c) PROVE TypeOK'
    BY <2>5 DEF Answered
  <2>6. ASSUME NEW c \in Cmds, Acquire(c) PROVE TypeOK'
    BY <2>6 DEF Acquire
  <2>7. ASSUME NEW c \in Cmds, GiveUp(c) PROVE TypeOK'
    BY <2>7 DEF GiveUp, Finish
  <2>8. ASSUME NEW c \in Cmds, WriteFence(c) PROVE TypeOK'
    BY <2>8 DEF WriteFence, Finish
  <2>9. ASSUME NEW c \in Cmds, RunScript(c) PROVE TypeOK'
    BY <2>9 DEF RunScript
  <2>10. ASSUME NEW c \in Cmds, RefuseStale(c) PROVE TypeOK'
    BY <2>10 DEF RefuseStale, Finish
  <2>11. ASSUME NEW c \in Cmds, Drain(c) PROVE TypeOK'
    BY <2>11 DEF Drain, Finish, Status
  <2>12. ASSUME NEW c \in Cmds, Remove(c) PROVE TypeOK'
    BY <2>12 DEF Remove, Finish, Status
  <2>13. ASSUME NEW c \in Cmds, CreateContainer(c) PROVE TypeOK'
    <3>1. [by |-> c, running |-> FALSE] \in Containers
      BY DEF Containers
    <3>2. QED
      BY <2>13, <3>1 DEF CreateContainer
  <2>14. ASSUME NEW c \in Cmds, RecheckStart(c) PROVE TypeOK'
    BY <2>14 DEF RecheckStart, Finish
  <2>15. ASSUME NEW c \in Cmds, StartContainer(c) PROVE TypeOK'
    <3>1. [by |-> c, running |-> TRUE] \in Containers
      BY DEF Containers
    <3>2. QED
      BY <2>15, <3>1 DEF StartContainer, Finish, Status
  <2>16. ASSUME NEW c \in Cmds, ScriptFails(c) PROVE TypeOK'
    BY <2>16 DEF ScriptFails, Finish
  <2>17. ASSUME NEW c \in Cmds, KillGuard(c) PROVE TypeOK'
    BY <2>17 DEF KillGuard
  <2>18. ASSUME NEW n \in Nodes, Reboot(n) PROVE TypeOK'
    <3>1. \A k \in Containers : [by |-> k.by, running |-> FALSE] \in Containers
      BY DEF Containers
    <3>2. {[by |-> k.by, running |-> FALSE] : k \in containers[n]} \subseteq Containers
      BY <3>1
    <3>3. QED
      BY <2>18, <3>2 DEF Reboot
  <2>19. CASE UNCHANGED vars
    BY <2>19 DEF vars
  <2>20. QED
    BY <2>1, <2>2, <2>3, <2>4, <2>5, <2>6, <2>7, <2>8, <2>9, <2>10, <2>11,
       <2>12, <2>13, <2>14, <2>15, <2>16, <2>17, <2>18, <2>19
       DEF Next, Mac, Command
<1>3. QED
  BY <1>1, <1>2, PTL DEF Spec

-----------------------------------------------------------------------------
(* The lock is held through the effects of a command                       *)

\* The guard holds the lock until the child exists, the child from then on.
LockInv ==
    \A c \in Cmds :
        /\ pc[c] = "locked" => <<c, "guard">> \in holders[Node(c)]
        /\ pc[c] \in Inside => <<c, "child">> \in holders[Node(c)]
        /\ pc[c] \in {"locked"} \cup Inside =>
              holders[Node(c)] \subseteq OfCommand(c)

\* A child only runs while node.json holds its generation.
OwnerInv == LockInv /\ EffectsUnderOwnGeneration

\* No step of the Mac, of a guard or of a child breaks the two together: the
\* generation changes under the lock only, and a child inherits the lock.
LEMMA OwnerInvInductive == TypeOK /\ OwnerInv /\ [Next]_vars => OwnerInv'
<1> SUFFICES ASSUME TypeOK, OwnerInv, [Next]_vars PROVE OwnerInv'
  OBVIOUS
<1> USE DEF OwnerInv, LockInv, EffectsUnderOwnGeneration, TypeOK, Requests, Inside,
        OfCommand, Node, Gen, Is
<1>0. ASSUME NEW c \in Cmds, NEW d \in Cmds, Node(c) = Node(d),
             pc[c] \in {"locked"} \cup Inside, pc[d] \in {"locked"} \cup Inside
      PROVE  c = d
  <2>1. PICK x \in {"guard", "child"} : <<d, x>> \in holders[Node(d)]
    BY <1>0
  <2>2. <<d, x>> \in {c} \X {"guard", "child"}
    BY <1>0, <2>1
  <2>3. QED
    BY <2>2
<1>1. CASE NewTransition
  BY <1>1 DEF NewTransition
<1>2. ASSUME NEW c \in Cmds, NEW n \in Nodes, NEW act \in Acts, Send(c, n, act)
      PROVE OwnerInv'
  BY <1>2 DEF Send
<1>3. ASSUME NEW c \in Cmds, Answered(c) PROVE OwnerInv'
  BY <1>3 DEF Answered
<1>4. ASSUME NEW c \in Cmds, Acquire(c) PROVE OwnerInv'
  <2>1. \A d \in Cmds : pc[d] \in {"locked"} \cup Inside => Node(d) # Node(c)
    BY <1>4 DEF Acquire
  <2>2. QED
    BY <1>4, <2>1 DEF Acquire
<1>5. ASSUME NEW c \in Cmds, GiveUp(c) PROVE OwnerInv'
  BY <1>5 DEF GiveUp, Finish
<1>6. ASSUME NEW c \in Cmds, WriteFence(c) PROVE OwnerInv'
  <2>1. \A d \in Cmds : d # c /\ pc[d] \in {"locked"} \cup Inside => Node(d) # Node(c)
    BY <1>0, <1>6 DEF WriteFence
  <2>2. QED
    BY <1>6, <2>1 DEF WriteFence, Finish
<1>7. ASSUME NEW c \in Cmds, RunScript(c) PROVE OwnerInv'
  <2>1. \A d \in Cmds : d # c /\ pc[d] \in {"locked"} \cup Inside => Node(d) # Node(c)
    BY <1>0, <1>7 DEF RunScript
  <2>2. holders'[Node(c)] = holders[Node(c)] \cup {<<c, "child">>}
    BY <1>7 DEF RunScript
  <2>3. /\ <<c, "child">> \in holders'[Node(c)]
        /\ holders'[Node(c)] \subseteq OfCommand(c)
    <3>1. <<c, "child">> \in OfCommand(c)
      BY DEF OfCommand
    <3>2. holders[Node(c)] \subseteq OfCommand(c)
      BY <1>7 DEF RunScript
    <3>3. QED
      BY <2>2, <3>1, <3>2
  <2>4. ASSUME NEW d \in Cmds, d # c
        PROVE  /\ pc'[d] = pc[d]
               /\ pc[d] \in {"locked"} \cup Inside =>
                    holders'[Node(d)] = holders[Node(d)]
    BY <1>7, <2>1, <2>4 DEF RunScript
  <2>5. pc'[c] = "script" /\ nodeGen' = nodeGen /\ req' = req
    BY <1>7 DEF RunScript
  <2>6. QED
    <3> SUFFICES ASSUME NEW d \in Cmds
                 PROVE  /\ pc'[d] = "locked" => <<d, "guard">> \in holders'[Node(d)]
                        /\ pc'[d] \in Inside => <<d, "child">> \in holders'[Node(d)]
                        /\ pc'[d] \in {"locked"} \cup Inside =>
                             holders'[Node(d)] \subseteq OfCommand(d)
                        /\ pc'[d] \in Inside => nodeGen[Node(d)] = Gen(d)
      BY <2>5
    <3>1. CASE d = c
      BY <1>7, <2>3, <2>5, <3>1 DEF RunScript
    <3>2. CASE d # c
      BY <2>4, <3>2
    <3>3. QED
      BY <3>1, <3>2
<1>8. ASSUME NEW c \in Cmds, RefuseStale(c) PROVE OwnerInv'
  BY <1>8 DEF RefuseStale, Finish
<1>9. ASSUME NEW c \in Cmds, Drain(c) PROVE OwnerInv'
  BY <1>9 DEF Drain, Finish, Status
<1>10. ASSUME NEW c \in Cmds, Remove(c) PROVE OwnerInv'
  BY <1>10 DEF Remove, Finish, Status
<1>11. ASSUME NEW c \in Cmds, CreateContainer(c) PROVE OwnerInv'
  BY <1>11 DEF CreateContainer
<1>12. ASSUME NEW c \in Cmds, RecheckStart(c) PROVE OwnerInv'
  BY <1>12 DEF RecheckStart, Finish
<1>13. ASSUME NEW c \in Cmds, StartContainer(c) PROVE OwnerInv'
  BY <1>13 DEF StartContainer, Finish, Status
<1>14. ASSUME NEW c \in Cmds, ScriptFails(c) PROVE OwnerInv'
  BY <1>14 DEF ScriptFails, Finish
<1>15. ASSUME NEW c \in Cmds, KillGuard(c) PROVE OwnerInv'
  BY <1>15 DEF KillGuard
<1>16. ASSUME NEW n \in Nodes, Reboot(n) PROVE OwnerInv'
  BY <1>16 DEF Reboot, Active
<1>17. CASE UNCHANGED vars
  BY <1>17 DEF vars
<1>18. ASSUME NEW c \in Cmds, NEW n \in Nodes,
              SendFence(c, n) \/ SendDrain(c, n) \/ SendMutation(c, n)
       PROVE  \E act \in Acts : Send(c, n, act)
  BY <1>18 DEF SendFence, SendDrain, SendMutation, Acts
<1>19. QED
  BY <1>1, <1>2, <1>3, <1>4, <1>5, <1>6, <1>7, <1>8, <1>9, <1>10, <1>11, <1>12,
     <1>13, <1>14, <1>15, <1>16, <1>17, <1>18
     DEF Next, Mac, Command

\* The strengthened invariant holds in every reachable state.
LEMMA OwnerInvariant == Spec => []OwnerInv
<1>1. Init => OwnerInv
  BY DEF Init, OwnerInv, LockInv, EffectsUnderOwnGeneration, Inside
<1>2. QED
  BY <1>1, OwnerInvInductive, TypeCorrect, PTL DEF Spec

\* A command past its flock call keeps every other command of the node out,
\* also when its guard has been killed.
THEOREM LockHeld == Spec => []LockHeldThroughEffects
<1>1. OwnerInv => LockHeldThroughEffects
  BY DEF OwnerInv, LockInv, LockHeldThroughEffects
<1>2. QED
  BY <1>1, OwnerInvariant, PTL

\* No effect happens on a node while it records another generation.
THEOREM EffectsFenced == Spec => []EffectsUnderOwnGeneration
<1>1. OwnerInv => EffectsUnderOwnGeneration
  BY DEF OwnerInv
<1>2. QED
  BY <1>1, OwnerInvariant, PTL

\* Both together, as the run checks them: effects are locked and fenced.
THEOREM EffectsLockedAndFenced == Spec => []EffectsAreFenced
<1>1. LockHeldThroughEffects /\ EffectsUnderOwnGeneration => EffectsAreFenced
  BY DEF EffectsAreFenced
<1>2. QED
  BY <1>1, LockHeld, EffectsFenced, PTL

\* A fence waits until the script under way on its node has ended.
THEOREM FenceWaits == Spec => FenceWaitsForScripts
<1> DEFINE Waits == \A n \in Nodes : nodeGen'[n] # nodeGen[n] =>
                       ~ \E c \in Cmds : pc[c] \in Inside /\ Node(c) = n
<1>1. TypeOK /\ OwnerInv /\ [Next]_vars => [Waits]_vars
  <2> SUFFICES ASSUME TypeOK, OwnerInv, [Next]_vars,
                      NEW n \in Nodes, nodeGen'[n] # nodeGen[n],
                      NEW d \in Cmds, pc[d] \in Inside, Node(d) = n
               PROVE  FALSE
    OBVIOUS
  <2>1. ASSUME NEW c \in Cmds, WriteFence(c) PROVE Node(c) # n
    <3>1. pc[c] = "locked" /\ c # d
      BY <2>1 DEF WriteFence, Inside
    <3>2. <<c, "guard">> \in holders[Node(c)]
      BY <3>1 DEF OwnerInv, LockInv
    <3>3. holders[n] \subseteq {d} \X {"guard", "child"}
      BY DEF OwnerInv, LockInv, OfCommand
    <3>4. QED
      BY <3>1, <3>2, <3>3
  <2>2. \E c \in Cmds : WriteFence(c)
    BY DEF Next, vars, Mac, Command, NewTransition, SendFence, SendDrain, SendMutation,
       Send, Answered, Acquire, GiveUp, RunScript, RefuseStale, Drain, Remove,
       CreateContainer, RecheckStart, StartContainer, ScriptFails, KillGuard, Reboot
  <2>3. QED
    BY <2>1, <2>2 DEF WriteFence, TypeOK
<1>2. QED
  BY <1>1, OwnerInvariant, TypeCorrect, PTL DEF Spec, FenceWaitsForScripts

-----------------------------------------------------------------------------
(* Launches and removals are ordered                                       *)

PendingFence(d, n, g) ==
    /\ pc[d] \in {"polling", "locked"}
    /\ req[d] = [node |-> n, gen |-> g, act |-> "fence"]

\* What the Mac has sent: one fence per node and transition, nothing before it.
SentInv ==
    /\ \A c \in Cmds : pc[c] # "unsent" =>
          /\ Gen(c) \in 1..current
          /\ Gen(c) = current => contact[Node(c)] # "none"
    /\ \A c, d \in Cmds :
          /\ pc[c] # "unsent" /\ pc[d] # "unsent"
          /\ Is(c, "fence") /\ Is(d, "fence")
          /\ Node(c) = Node(d) /\ Gen(c) = Gen(d)
          => c = d

\* What the nodes have recorded.
RecordedInv ==
    \A n \in Nodes :
        /\ nodeGen[n] <= newest[n]
        /\ newest[n] <= current
        /\ contact[n] = "none" /\ current # None => nodeGen[n] # current
        /\ contact[n] # "none" => current # None

\* A pending fence has not been written, so a node that has done anything for
\* a generation will not be taken back to it.
PendingInv ==
    \A d \in Cmds, n \in Nodes : \A g \in Generations : PendingFence(d, n, g) =>
        /\ nodeGen[n] # g
        /\ contact[n] = "fenced" => g # current
        /\ \A c \in Cmds : Node(c) = n /\ Gen(c) = g =>
             /\ pc[c] # "ok"
             /\ req[c].act \in {"remove", "launch"} => pc[c] = "unsent"

\* A launch or removal that node.json still matches has not been overtaken.
NotOvertaken ==
    \A c \in Cmds :
        /\ pc[c] # "unsent"
        /\ req[c].act \in {"remove", "launch"}
        /\ nodeGen[Node(c)] = Gen(c)
        => newest[Node(c)] = Gen(c)

OrderInv == SentInv /\ RecordedInv /\ PendingInv /\ NotOvertaken

\* Most steps of a node only move commands towards their end.
QuietStep ==
    /\ UNCHANGED <<current, contact, req, nodeGen, newest>>
    /\ \A c \in Cmds :
         \/ pc'[c] = pc[c]
         \/ /\ pc[c] # "unsent"
            /\ pc'[c] # "unsent"
            /\ pc'[c] \in {"polling", "locked"} => pc[c] \in {"polling", "locked"}
            /\ pc'[c] = "ok" => pc[c] \in Inside

SendStep ==
    \E c \in Cmds, n \in Nodes, act \in Acts :
        /\ Send(c, n, act)
        /\ current # None
        /\ contact'[n] # "none"
        /\ \A m \in Nodes : m # n => contact'[m] = contact[m]
        /\ contact'[n] # contact[n] => contact[n] = "none" /\ contact'[n] = "sent"
        /\ act = "fence" => contact[n] = "none"
        /\ act \in {"remove", "launch"} => contact[n] = "fenced" /\ contact'[n] = "fenced"

\* What the Mac does to a command is to send it, or to read its answer.
LEMMA MacSteps ==
    ASSUME TypeOK, RecordedInv, NEW c \in Cmds, Mac(c)
    PROVE  SendStep \/ Answered(c)
<1> USE DEF TypeOK, Acts, RecordedInv
<1>1. ASSUME NEW n \in Nodes, SendFence(c, n) PROVE SendStep
  <2>1. contact'[n] = "sent" /\ \A m \in Nodes : m # n => contact'[m] = contact[m]
    BY <1>1 DEF SendFence
  <2>2. QED
    BY <1>1, <2>1 DEF SendFence, SendStep
<1>2. ASSUME NEW n \in Nodes, SendDrain(c, n) PROVE SendStep
  BY <1>2 DEF SendDrain, SendStep
<1>3. ASSUME NEW n \in Nodes, SendMutation(c, n) PROVE SendStep
  BY <1>3 DEF SendMutation, SendStep
<1>4. QED
  BY <1>1, <1>2, <1>3 DEF Mac

\* A step begins a transition, sends a command, reads an answer, replaces
\* node.json, or changes nothing that the order of generations depends on.
LEMMA StepShape ==
    ASSUME TypeOK, RecordedInv, [Next]_vars
    PROVE  \/ NewTransition
           \/ SendStep
           \/ \E c \in Cmds : Answered(c)
           \/ \E c \in Cmds : WriteFence(c)
           \/ QuietStep
<1> USE DEF TypeOK, Inside, RecordedInv
<1>1. ASSUME NEW c \in Cmds, Mac(c) PROVE SendStep \/ Answered(c)
  BY <1>1, MacSteps
<1>2. ASSUME NEW c \in Cmds PROVE
         /\ Acquire(c) => QuietStep
         /\ GiveUp(c) => QuietStep
         /\ RunScript(c) => QuietStep
         /\ RefuseStale(c) => QuietStep
         /\ Drain(c) => QuietStep
         /\ Remove(c) => QuietStep
         /\ CreateContainer(c) => QuietStep
         /\ RecheckStart(c) => QuietStep
         /\ StartContainer(c) => QuietStep
         /\ ScriptFails(c) => QuietStep
         /\ KillGuard(c) => QuietStep
  <2>1. Acquire(c) => QuietStep
    BY DEF Acquire, QuietStep, Finish, Status
  <2>2. GiveUp(c) => QuietStep
    BY DEF GiveUp, QuietStep, Finish, Status
  <2>3. RunScript(c) => QuietStep
    BY DEF RunScript, QuietStep, Finish, Status
  <2>4. RefuseStale(c) => QuietStep
    BY DEF RefuseStale, QuietStep, Finish, Status
  <2>5. Drain(c) => QuietStep
    BY DEF Drain, QuietStep, Finish, Status
  <2>6. Remove(c) => QuietStep
    BY DEF Remove, QuietStep, Finish, Status
  <2>7. CreateContainer(c) => QuietStep
    BY DEF CreateContainer, QuietStep, Finish, Status
  <2>8. RecheckStart(c) => QuietStep
    BY DEF RecheckStart, QuietStep, Finish, Status
  <2>9. StartContainer(c) => QuietStep
    BY DEF StartContainer, QuietStep, Finish, Status
  <2>10. ScriptFails(c) => QuietStep
    BY DEF ScriptFails, QuietStep, Finish, Status
  <2>11. KillGuard(c) => QuietStep
    BY DEF KillGuard, QuietStep, Active
  <2>12. QED
    BY <2>1, <2>2, <2>3, <2>4, <2>5, <2>6, <2>7, <2>8, <2>9, <2>10, <2>11
<1>3. ASSUME NEW n \in Nodes, Reboot(n) PROVE QuietStep
  BY <1>3 DEF QuietStep, Reboot, Active
<1>4. ASSUME UNCHANGED vars PROVE QuietStep
  BY <1>4 DEF QuietStep, vars
<1>5. QED
  BY <1>1, <1>2, <1>3, <1>4 DEF Next, Command

\* A sent command keeps the generation it was sent for.
LEMMA SentInductive ==
    ASSUME TypeOK, SentInv, RecordedInv, [Next]_vars PROVE SentInv'
<1> USE DEF TypeOK, SentInv, Node, Gen, Is, Generations, None
<1>1. CASE NewTransition
  BY <1>1, MaxGenerationAssumption DEF NewTransition
<1>2. CASE SendStep
  <2>1. PICK c \in Cmds, n \in Nodes, act \in Acts :
          /\ Send(c, n, act)
          /\ current # None
          /\ contact'[n] # "none"
          /\ \A m \in Nodes : m # n => contact'[m] = contact[m]
          /\ act = "fence" => contact[n] = "none"
    BY <1>2 DEF SendStep
  <2>2. /\ current' = current
        /\ req'[c] = [node |-> n, gen |-> current, act |-> act]
        /\ \A d \in Cmds : d # c => req'[d] = req[d] /\ pc'[d] = pc[d]
    BY <2>1 DEF Send
  <2>3. ASSUME NEW d \in Cmds, pc'[d] # "unsent"
        PROVE  Gen(d)' \in 1..current' /\ (Gen(d)' = current' => contact'[Node(d)'] # "none")
    BY <2>1, <2>2, <2>3, MaxGenerationAssumption DEF Requests
  <2>4. ASSUME NEW d \in Cmds, NEW e \in Cmds,
               pc'[d] # "unsent", pc'[e] # "unsent", Is(d, "fence")', Is(e, "fence")',
               Node(d)' = Node(e)', Gen(d)' = Gen(e)'
        PROVE  d = e
    BY <2>1, <2>2, <2>4 DEF Requests
  <2>5. QED
    BY <2>3, <2>4
<1>3. CASE \E c \in Cmds : Answered(c)
  BY <1>3 DEF Answered
<1>4. CASE \E c \in Cmds : WriteFence(c)
  BY <1>4 DEF WriteFence, Finish
<1>5. CASE QuietStep
  BY <1>5 DEF QuietStep
<1>6. QED
  BY <1>1, <1>2, <1>3, <1>4, <1>5, StepShape

\* What node.json holds, or has held, is a generation already begun.
LEMMA RecordedInductive ==
    ASSUME TypeOK, SentInv, RecordedInv, [Next]_vars PROVE RecordedInv'
<1> USE DEF TypeOK, RecordedInv, Generations, None
<1>1. CASE NewTransition
  BY <1>1, MaxGenerationAssumption DEF NewTransition
<1>2. CASE SendStep
  <2>1. PICK c \in Cmds, n \in Nodes, act \in Acts :
          /\ Send(c, n, act)
          /\ current # None
          /\ contact'[n] # "none"
          /\ \A m \in Nodes : m # n => contact'[m] = contact[m]
    BY <1>2 DEF SendStep
  <2>2. QED
    BY <2>1 DEF Send
<1>3. CASE \E c \in Cmds : Answered(c)
  BY <1>3 DEF Answered
<1>4. CASE \E c \in Cmds : WriteFence(c)
  <2>1. PICK c \in Cmds : WriteFence(c)
    BY <1>4
  <2>2. pc[c] # "unsent" /\ Node(c) \in Nodes /\ Gen(c) \in 1..current
    BY <2>1 DEF WriteFence, SentInv, Requests, Node
  <2>3. Gen(c) = current => contact[Node(c)] # "none"
    BY <2>2 DEF SentInv
  <2>4. /\ nodeGen'[Node(c)] = Gen(c)
        /\ newest'[Node(c)] = IF Gen(c) > newest[Node(c)] THEN Gen(c) ELSE newest[Node(c)]
        /\ \A n \in Nodes : n # Node(c) => nodeGen'[n] = nodeGen[n] /\ newest'[n] = newest[n]
        /\ current' = current /\ contact' = contact
    BY <2>1, <2>2 DEF WriteFence
  <2>5. QED
    BY <2>2, <2>3, <2>4, MaxGenerationAssumption
<1>5. CASE QuietStep
  BY <1>5 DEF QuietStep
<1>6. QED
  BY <1>1, <1>2, <1>3, <1>4, <1>5, StepShape

\* A fence still pending on a node names a generation the node does not
\* record yet, and no transition takes its own pending fence for answered.
LEMMA PendingInductive ==
    ASSUME TypeOK, OwnerInv, SentInv, RecordedInv, PendingInv, [Next]_vars
    PROVE  PendingInv'
<1> SUFFICES ASSUME NEW d \in Cmds, NEW n \in Nodes, NEW g \in Generations,
                    PendingFence(d, n, g)'
             PROVE  /\ nodeGen'[n] # g
                    /\ contact'[n] = "fenced" => g # current'
                    /\ \A c \in Cmds : Node(c)' = n /\ Gen(c)' = g =>
                         /\ pc'[c] # "ok"
                         /\ req'[c].act \in {"remove", "launch"} => pc'[c] = "unsent"
  BY DEF PendingInv
<1> USE DEF TypeOK, Node, Gen, Is, None
<1>1. CASE NewTransition
  <2>1. PendingFence(d, n, g)
    BY <1>1 DEF NewTransition, PendingFence
  <2>2. QED
    BY <1>1, <2>1 DEF NewTransition, PendingInv
<1>2. CASE SendStep
  <2>1. PICK c \in Cmds, m \in Nodes, act \in Acts :
          /\ Send(c, m, act)
          /\ current # None
          /\ \A k \in Nodes : k # m => contact'[k] = contact[k]
          /\ contact'[m] # contact[m] => contact[m] = "none" /\ contact'[m] = "sent"
          /\ act = "fence" => contact[m] = "none"
          /\ act \in {"remove", "launch"} => contact[m] = "fenced"
    BY <1>2 DEF SendStep
  <2>2. /\ current' = current /\ nodeGen' = nodeGen
        /\ req'[c] = [node |-> m, gen |-> current, act |-> act]
        /\ pc[c] = "unsent" /\ pc'[c] = "polling"
        /\ \A e \in Cmds : e # c => req'[e] = req[e] /\ pc'[e] = pc[e]
    BY <2>1 DEF Send
  <2>3. CASE d = c
    <3>1. n = m /\ g = current /\ contact[n] = "none" /\ contact'[n] # "fenced"
      BY <2>1, <2>2, <2>3 DEF PendingFence
    <3>2. nodeGen'[n] # g
      BY <2>1, <2>2, <3>1 DEF RecordedInv
    <3>3. ASSUME NEW e \in Cmds, Node(e)' = n, Gen(e)' = g, e # c PROVE pc'[e] = "unsent"
      <4>1. Node(e) = n /\ Gen(e) = current
        BY <2>2, <3>1, <3>3
      <4>2. pc[e] = "unsent"
        BY <3>1, <4>1 DEF SentInv
      <4>3. QED
        BY <2>2, <3>3, <4>2
    <3>4. req'[c].act = "fence"
      BY <2>3 DEF PendingFence
    <3>5. QED
      BY <2>2, <3>1, <3>2, <3>3, <3>4
  <2>4. CASE d # c
    <3>1. PendingFence(d, n, g)
      BY <2>2, <2>4 DEF PendingFence
    <3>2. nodeGen'[n] # g /\ (contact'[n] = "fenced" => g # current')
      BY <2>1, <2>2, <3>1 DEF PendingInv
    <3>3. ASSUME NEW e \in Cmds, Node(e)' = n, Gen(e)' = g, e # c
          PROVE  /\ pc'[e] # "ok"
                 /\ req'[e].act \in {"remove", "launch"} => pc'[e] = "unsent"
      BY <2>2, <3>1, <3>3 DEF PendingInv
    <3>4. ASSUME Node(c)' = n, Gen(c)' = g
          PROVE  req'[c].act \notin {"remove", "launch"}
      BY <2>1, <2>2, <3>1, <3>4 DEF PendingInv
    <3>5. QED
      BY <2>2, <3>2, <3>3, <3>4
  <2>5. QED
    BY <2>3, <2>4
<1>3. CASE \E c \in Cmds : Answered(c)
  <2>1. PICK c \in Cmds : Answered(c)
    BY <1>3
  <2>2. PendingFence(d, n, g)
    BY <2>1 DEF Answered, PendingFence
  <2>3. Node(c) = n => g # current
    BY <2>1, <2>2 DEF Answered, PendingInv
  <2>4. QED
    BY <2>1, <2>2, <2>3 DEF Answered, PendingInv
<1>4. CASE \E c \in Cmds : WriteFence(c)
  <2>1. PICK c \in Cmds : WriteFence(c)
    BY <1>4
  <2>2. d # c /\ PendingFence(d, n, g)
    BY <2>1 DEF WriteFence, Finish, PendingFence
  <2>3. ~ (Node(c) = n /\ Gen(c) = g)
    BY <2>1, <2>2 DEF WriteFence, SentInv, PendingFence
  <2>4. nodeGen'[n] # g
    <3>1. CASE Node(c) = n
      BY <2>1, <2>3, <3>1 DEF WriteFence
    <3>2. CASE Node(c) # n
      BY <2>1, <2>2, <3>2 DEF WriteFence, PendingInv
    <3>3. QED
      BY <3>1, <3>2
  <2>5. /\ contact' = contact /\ current' = current /\ req' = req
        /\ pc'[c] = "ok" /\ \A e \in Cmds : e # c => pc'[e] = pc[e]
        /\ req[c].act = "fence"
    BY <2>1 DEF WriteFence, Finish
  <2>6. QED
    BY <2>2, <2>3, <2>4, <2>5 DEF PendingInv
<1>5. CASE QuietStep
  <2>1. PendingFence(d, n, g)
    BY <1>5 DEF QuietStep, PendingFence
  <2>2. ASSUME NEW c \in Cmds, Node(c) = n, Gen(c) = g, pc'[c] = "ok" PROVE FALSE
    <3>1. pc[c] = "ok" \/ pc[c] \in Inside
      BY <1>5, <2>2 DEF QuietStep
    <3>2. CASE pc[c] = "ok"
      BY <2>1, <2>2, <3>2 DEF PendingInv
    <3>3. CASE pc[c] \in Inside
      BY <2>1, <2>2, <3>3 DEF PendingInv, OwnerInv, EffectsUnderOwnGeneration
    <3>4. QED
      BY <3>1, <3>2, <3>3
  <2>3. QED
    BY <1>5, <2>1, <2>2 DEF QuietStep, PendingInv
<1>6. QED
  BY <1>1, <1>2, <1>3, <1>4, <1>5, StepShape

\* Once a node records the generation of a removal or a launch, that is the
\* newest it has recorded: a lingering older fence makes such a command stale.
LEMMA NotOvertakenInductive ==
    ASSUME TypeOK, SentInv, RecordedInv, PendingInv, NotOvertaken, [Next]_vars
    PROVE  NotOvertaken'
<1> SUFFICES ASSUME NEW c \in Cmds, pc'[c] # "unsent",
                    req'[c].act \in {"remove", "launch"},
                    nodeGen'[Node(c)'] = Gen(c)'
             PROVE  newest'[Node(c)'] = Gen(c)'
  BY DEF NotOvertaken
<1> USE DEF TypeOK, Node, Gen, Is, None
<1>1. CASE NewTransition
  BY <1>1 DEF NewTransition, NotOvertaken
<1>2. CASE SendStep
  <2>1. PICK d \in Cmds, m \in Nodes, act \in Acts :
          /\ Send(d, m, act)
          /\ current # None
    BY <1>2 DEF SendStep
  <2>2. CASE d = c
    <3>1. Node(c)' = m /\ Gen(c)' = current /\ nodeGen' = nodeGen /\ newest' = newest
      BY <2>1, <2>2 DEF Send
    <3>2. nodeGen[m] = current
      BY <3>1
    <3>3. QED
      BY <3>1, <3>2 DEF RecordedInv, Generations
  <2>3. CASE d # c
    BY <2>1, <2>3 DEF Send, NotOvertaken
  <2>4. QED
    BY <2>2, <2>3
<1>3. CASE \E d \in Cmds : Answered(d)
  BY <1>3 DEF Answered, NotOvertaken
<1>4. CASE \E d \in Cmds : WriteFence(d)
  <2>1. PICK d \in Cmds : WriteFence(d)
    BY <1>4
  <2>2. /\ req' = req /\ req[d].act = "fence" /\ pc[c] # "unsent" /\ pc[d] = "locked"
    BY <2>1 DEF WriteFence, Finish
  <2>3. CASE Node(d) = Node(c)
    <3>1. Gen(c) = Gen(d)
      BY <2>1, <2>2, <2>3 DEF WriteFence, Requests
    <3>2. Gen(d) \in Generations
      BY <2>2, MaxGenerationAssumption DEF SentInv, Requests, Generations
    <3>3. PendingFence(d, Node(d), Gen(d))
      <4>1. req[d] = [node |-> req[d].node, gen |-> req[d].gen, act |-> req[d].act]
        BY DEF Requests
      <4>2. QED
        BY <2>2, <4>1 DEF PendingFence
    <3>4. Node(d) \in Nodes
      BY DEF Requests
    <3>5. QED
      BY <2>2, <2>3, <3>1, <3>2, <3>3, <3>4 DEF PendingInv
  <2>4. CASE Node(d) # Node(c)
    <3>1. nodeGen'[Node(c)] = nodeGen[Node(c)] /\ newest'[Node(c)] = newest[Node(c)]
      BY <2>1, <2>4 DEF WriteFence
    <3>2. QED
      BY <2>2, <3>1 DEF NotOvertaken
  <2>5. QED
    BY <2>3, <2>4
<1>5. CASE QuietStep
  BY <1>5 DEF QuietStep, NotOvertaken
<1>6. QED
  BY <1>1, <1>2, <1>3, <1>4, <1>5, StepShape

\* The order of generations on a node holds in every reachable state.
LEMMA OrderInvariant == Spec => []OrderInv
<1>1. Init => OrderInv
  BY DEF Init, OrderInv, SentInv, RecordedInv, PendingInv, PendingFence, NotOvertaken, None
<1>2. TypeOK /\ OwnerInv /\ OrderInv /\ [Next]_vars => OrderInv'
  BY SentInductive, RecordedInductive, PendingInductive, NotOvertakenInductive
     DEF OrderInv
<1>3. QED
  BY <1>1, <1>2, TypeCorrect, OwnerInvariant, PTL DEF Spec

\* However long commands linger on a node, a removal or a launch only ever
\* runs for the newest transition the node has been fenced for.
THEOREM MutationsOrdered == Spec => []MutationsAreOrdered
<1>1. OwnerInv /\ OrderInv => MutationsAreOrdered
  BY DEF OwnerInv, OrderInv, NotOvertaken, EffectsUnderOwnGeneration,
     MutationsAreOrdered, Inside
<1>2. QED
  BY <1>1, OwnerInvariant, OrderInvariant, PTL

-----------------------------------------------------------------------------
(* The node implements FencedNode                                          *)

\* A container belongs to a command that was sent, so its generation is fixed.
CreatorInv ==
    \A n \in Nodes : \A k \in containers[n] : k.by \in Cmds /\ pc[k.by] # "unsent"

\* Every container was created by a command that was sent.
LEMMA CreatorInductive == TypeOK /\ CreatorInv /\ [Next]_vars => CreatorInv'
<1> SUFFICES ASSUME TypeOK, CreatorInv, [Next]_vars PROVE CreatorInv'
  OBVIOUS
<1> USE DEF TypeOK, CreatorInv
<1>1. ASSUME containers' = containers,
             \A c \in Cmds : pc[c] # "unsent" => pc'[c] # "unsent"
      PROVE  CreatorInv'
  BY <1>1
<1>2. \A c \in Cmds : pc[c] # "unsent" => pc'[c] # "unsent"
  <2> DEFINE Sent == \A c \in Cmds : pc[c] # "unsent" => pc'[c] # "unsent"
  <2>1. CASE NewTransition \/ UNCHANGED vars
    BY <2>1 DEF NewTransition, vars
  <2>2. ASSUME NEW c \in Cmds, Mac(c) PROVE Sent
    BY <2>2 DEF Mac, SendFence, SendDrain, SendMutation, Send, Answered
  <2>3. ASSUME NEW c \in Cmds, Acquire(c) \/ GiveUp(c) \/ WriteFence(c) PROVE Sent
    BY <2>3 DEF Acquire, GiveUp, WriteFence, Finish
  <2>4. ASSUME NEW c \in Cmds, RunScript(c) \/ RefuseStale(c) PROVE Sent
    BY <2>4 DEF RunScript, RefuseStale, Finish
  <2>5. ASSUME NEW c \in Cmds, Drain(c) \/ Remove(c) PROVE Sent
    BY <2>5 DEF Drain, Remove, Finish, Status
  <2>6. ASSUME NEW c \in Cmds, CreateContainer(c) \/ RecheckStart(c) PROVE Sent
    BY <2>6 DEF CreateContainer, RecheckStart, Finish
  <2>7. ASSUME NEW c \in Cmds, StartContainer(c) \/ ScriptFails(c) PROVE Sent
    BY <2>7 DEF StartContainer, ScriptFails, Finish, Status
  <2>8. ASSUME NEW c \in Cmds, KillGuard(c) PROVE Sent
    BY <2>8 DEF KillGuard
  <2>9. ASSUME NEW n \in Nodes, Reboot(n) PROVE Sent
    BY <2>9 DEF Reboot
  <2>10. QED
    BY <2>1, <2>2, <2>3, <2>4, <2>5, <2>6, <2>7, <2>8, <2>9 DEF Next, Command
<1>3. ASSUME NEW c \in Cmds, CreateContainer(c) PROVE CreatorInv'
  BY <1>2, <1>3 DEF CreateContainer
<1>4. ASSUME NEW c \in Cmds, StartContainer(c) PROVE CreatorInv'
  BY <1>2, <1>4 DEF StartContainer, Finish, Status
<1>5. ASSUME NEW c \in Cmds, Remove(c) PROVE CreatorInv'
  BY <1>2, <1>5 DEF Remove
<1>6. ASSUME NEW n \in Nodes, Reboot(n) PROVE CreatorInv'
  BY <1>2, <1>6 DEF Reboot
<1>7. \/ containers' = containers
      \/ \E c \in Cmds : CreateContainer(c) \/ StartContainer(c) \/ Remove(c)
      \/ \E n \in Nodes : Reboot(n)
  BY DEF Next, vars, Mac, Command, NewTransition, SendFence, SendDrain, SendMutation, Send,
     Answered, Acquire, GiveUp, WriteFence, RunScript, RefuseStale, Drain, RecheckStart,
     ScriptFails, KillGuard
<1>8. QED
  BY <1>1, <1>2, <1>3, <1>4, <1>5, <1>6, <1>7

\* In every reachable state each container has the command that created it.
LEMMA CreatorInvariant == Spec => []CreatorInv
<1>1. Init => CreatorInv
  BY DEF Init, CreatorInv
<1>2. QED
  BY <1>1, CreatorInductive, TypeCorrect, PTL DEF Spec

Serving == [n \in Nodes |-> {Gen(k.by) : k \in {x \in containers[n] : x.running}}]

\* Each action of the abstract node is a step of its next-state relation.
LEMMA PromiseSteps ==
    ASSUME NEW n \in Nodes
    PROVE  /\ \A g \in Generations : Promise!Fence(n, g) => Promise!Next
           /\ Promise!Start(n) => Promise!Next
           /\ Promise!Remove(n, Serving[n]) => Promise!Next
           /\ Promise!Reboot(n) => Promise!Next
<1>1. Promise!Reboot(n) => Promise!Next
  BY DEF Promise!Next
<1>2. Promise!Start(n) => Promise!Next
  BY DEF Promise!Next
<1>3. \A g \in Generations : Promise!Fence(n, g) => Promise!Next
  BY DEF Promise!Next
<1>4. \A gone \in SUBSET Serving[n] : Promise!Remove(n, gone) => Promise!Next
  BY DEF Promise!Next, Serving
<1>5. PICK gone \in SUBSET Serving[n] : gone = Serving[n]
  OBVIOUS
<1>6. Promise!Remove(n, Serving[n]) => Promise!Remove(n, gone)
  BY <1>5 DEF Promise!Remove
<1>7. QED
  BY <1>1, <1>2, <1>3, <1>4, <1>6

\* Under the refinement mapping every step of a node and of its commands is a
\* fence, a start or a removal by the recorded generation, a reboot, or nothing.
THEOREM Refinement == Spec => ImplementsFencedNode
<1>1. Init => Promise!Init
  BY DEF Init, Promise!Init, Promise!NoGeneration, None
<1>2. TypeOK /\ OwnerInv /\ OrderInv /\ CreatorInv /\ [Next]_vars
        => [Promise!Next]_(Promise!vars)
  <2> SUFFICES ASSUME TypeOK, OwnerInv, OrderInv, CreatorInv, [Next]_vars
               PROVE  [Promise!Next]_(Promise!vars)
    OBVIOUS
  <2> USE DEF TypeOK
  <2>1. ASSUME nodeGen' = nodeGen, Serving' = Serving
        PROVE  [Promise!Next]_(Promise!vars)
    BY <2>1 DEF Promise!vars, Serving
  <2>2. ASSUME containers' = containers,
               \A c \in Cmds : pc[c] # "unsent" => Gen(c)' = Gen(c)
        PROVE  Serving' = Serving
    <3>1. ASSUME NEW n \in Nodes, NEW k \in containers[n] PROVE Gen(k.by)' = Gen(k.by)
      <4>1. k.by \in Cmds /\ pc[k.by] # "unsent"
        BY <3>1 DEF CreatorInv
      <4>2. QED
        BY <2>2, <4>1
    <3>2. QED
      BY <2>2, <3>1 DEF Serving
  <2>3. CASE NewTransition
    BY <2>1, <2>2, <2>3 DEF NewTransition, Gen
  <2>4. CASE SendStep
    <3>1. PICK c \in Cmds, n \in Nodes, act \in Acts : Send(c, n, act)
      BY <2>4 DEF SendStep
    <3>2. \A d \in Cmds : pc[d] # "unsent" => Gen(d)' = Gen(d)
      BY <3>1 DEF Send, Gen
    <3>3. containers' = containers /\ nodeGen' = nodeGen
      BY <3>1 DEF Send
    <3>4. QED
      BY <2>1, <2>2, <3>2, <3>3
  <2>5. CASE \E c \in Cmds : Answered(c)
    BY <2>1, <2>2, <2>5 DEF Answered, Gen
  <2>6. ASSUME NEW c \in Cmds, WriteFence(c) PROVE Promise!Next
    <3>1. Node(c) \in Nodes /\ Gen(c) \in Generations
      <4>1. pc[c] # "unsent"
        BY <2>6 DEF WriteFence
      <4>2. Gen(c) \in 1..current
        BY <4>1 DEF OrderInv, SentInv
      <4>3. QED
        BY <4>2, MaxGenerationAssumption DEF Requests, Node, Generations, None
    <3>2. Serving' = Serving
      BY <2>2, <2>6 DEF WriteFence, Gen
    <3>3. nodeGen' = [nodeGen EXCEPT ![Node(c)] = Gen(c)]
      BY <2>6 DEF WriteFence
    <3>4. PICK n \in Nodes, g \in Generations : n = Node(c) /\ g = Gen(c)
      BY <3>1
    <3>5. Promise!Fence(n, g)
      BY <3>2, <3>3, <3>4 DEF Promise!Fence, Serving
    <3>6. QED
      BY <3>5, PromiseSteps
  <2>7. ASSUME NEW c \in Cmds, StartContainer(c) PROVE Promise!Next
    <3>1. Node(c) \in Nodes /\ nodeGen[Node(c)] = Gen(c) /\ Gen(c) # None
      BY <2>7, MaxGenerationAssumption
         DEF StartContainer, OwnerInv, EffectsUnderOwnGeneration, OrderInv, SentInv,
             Inside, Requests, Node, None
    <3>2. Gen(c)' = Gen(c) /\ nodeGen' = nodeGen
      BY <2>7 DEF StartContainer, Gen
    <3> DEFINE made == [by |-> c, running |-> FALSE]
               started == [by |-> c, running |-> TRUE]
    <3>3. containers' = [containers EXCEPT
                           ![Node(c)] = (@ \ {made}) \cup {started}]
      BY <2>7 DEF StartContainer
    <3>4. /\ made.running = FALSE /\ started.running = TRUE /\ started.by = c
      OBVIOUS
    <3>5. req' = req
      BY <2>7 DEF StartContainer
    <3> HIDE DEF made, started
    <3>6. Serving' = [Serving EXCEPT ![Node(c)] = @ \cup {Gen(c)}]
      <4>1. \A n \in Nodes : n # Node(c) => Serving'[n] = Serving[n]
        BY <3>3, <3>5 DEF Serving, Gen
      <4>2. Serving'[Node(c)] = Serving[Node(c)] \cup {Gen(c)}
        <5>1. containers'[Node(c)] = (containers[Node(c)] \ {made}) \cup {started}
          BY <3>1, <3>3
        <5>2. {x \in containers'[Node(c)] : x.running}
                = {x \in containers[Node(c)] : x.running} \cup {started}
          BY <3>4, <5>1
        <5>3. QED
          BY <3>1, <3>4, <3>5, <5>2 DEF Serving, Gen
      <4>3. QED
        BY <3>1, <4>1, <4>2 DEF Serving
    <3>7. PICK n \in Nodes : n = Node(c)
      BY <3>1
    <3>8. Promise!Start(n)
      BY <3>1, <3>2, <3>6, <3>7 DEF Promise!Start, Promise!NoGeneration, None, Serving
    <3>9. QED
      BY <3>8, PromiseSteps
  <2>8. ASSUME NEW c \in Cmds, Remove(c) PROVE Promise!Next
    <3>1. Node(c) \in Nodes /\ nodeGen[Node(c)] = Gen(c) /\ Gen(c) # None
      BY <2>8, MaxGenerationAssumption
         DEF Remove, OwnerInv, EffectsUnderOwnGeneration, OrderInv, SentInv,
             Inside, Requests, Node, None
    <3>2. containers' = [containers EXCEPT ![Node(c)] = {}] /\ req' = req /\ nodeGen' = nodeGen
      BY <2>8 DEF Remove
    <3>3. Serving' = [Serving EXCEPT ![Node(c)] = {}]
      BY <3>1, <3>2 DEF Serving, Gen
    <3>4. PICK n \in Nodes : n = Node(c)
      BY <3>1
    <3>5. Promise!Remove(n, Serving[n])
      <4>1. Serving' = [Serving EXCEPT ![n] = @ \ Serving[n]]
        BY <3>3, <3>4
      <4>2. QED
        BY <3>1, <3>2, <3>4, <4>1 DEF Promise!Remove, Promise!NoGeneration, None, Serving
    <3>6. QED
      BY <3>5, PromiseSteps
  <2>9. ASSUME NEW n \in Nodes, Reboot(n) PROVE Promise!Next
    <3>1. /\ containers' = [containers EXCEPT
                              ![n] = {[by |-> k.by, running |-> FALSE] : k \in @}]
          /\ req' = req /\ nodeGen' = nodeGen
      BY <2>9 DEF Reboot
    <3>2. \A k \in containers'[n] : k.running = FALSE
      BY <3>1
    <3>3. Serving'[n] = {}
      BY <3>2 DEF Serving
    <3>4. \A m \in Nodes : m # n => Serving'[m] = Serving[m]
      BY <3>1 DEF Serving, Gen
    <3>5. Serving' = [Serving EXCEPT ![n] = {}]
      BY <3>3, <3>4 DEF Serving
    <3>6. Promise!Reboot(n)
      BY <3>1, <3>5 DEF Promise!Reboot, Serving
    <3>7. QED
      BY <3>6, PromiseSteps
  <2>10. ASSUME NEW c \in Cmds, CreateContainer(c) PROVE Serving' = Serving
    <3> DEFINE made == [by |-> c, running |-> FALSE]
    <3>1. containers' = [containers EXCEPT ![Node(c)] = @ \cup {made}] /\ req' = req
      BY <2>10 DEF CreateContainer
    <3>2. made.running = FALSE
      OBVIOUS
    <3> HIDE DEF made
    <3>3. \A n \in Nodes : {x \in containers'[n] : x.running}
                             = {x \in containers[n] : x.running}
      BY <3>1, <3>2
    <3>4. QED
      BY <3>1, <3>3 DEF Serving, Gen
  <2>11. CASE \/ UNCHANGED vars
              \/ \E c \in Cmds : \/ Acquire(c) \/ GiveUp(c) \/ RunScript(c)
                                 \/ RefuseStale(c) \/ Drain(c) \/ RecheckStart(c)
                                 \/ ScriptFails(c) \/ KillGuard(c)
    <3>1. containers' = containers /\ req' = req /\ nodeGen' = nodeGen
      BY <2>11 DEF vars, Acquire, GiveUp, RunScript, RefuseStale, Drain, RecheckStart,
         ScriptFails, KillGuard
    <3>2. QED
      BY <2>1, <2>2, <3>1 DEF Gen
  <2>12. ASSUME NEW c \in Cmds, CreateContainer(c) PROVE [Promise!Next]_(Promise!vars)
    <3>1. nodeGen' = nodeGen
      BY <2>12 DEF CreateContainer
    <3>2. QED
      BY <2>1, <2>10, <2>12, <3>1
  <2>13. ASSUME NEW c \in Cmds, Mac(c) PROVE SendStep \/ Answered(c)
    BY <2>13, MacSteps DEF OrderInv
  <2>14. QED
    BY <2>3, <2>4, <2>5, <2>6, <2>7, <2>8, <2>9, <2>11, <2>12, <2>13 DEF Next, Command
<1>3. QED
  BY <1>1, <1>2, TypeCorrect, OwnerInvariant, OrderInvariant, CreatorInvariant, PTL
     DEF Spec, ImplementsFencedNode, Promise!Spec
=============================================================================

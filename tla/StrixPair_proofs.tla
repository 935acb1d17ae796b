---------------------------- MODULE StrixPair_proofs ----------------------------
(* What holds of StrixPair for any boxes, models, commands and bounds.      *)
EXTENDS StrixPair, TLAPS

\* Next, action by action.
LEMMA NextCases ==
    ASSUME Next
    PROVE  \/ \E c \in Commands :
                \/ Begin(c) \/ RefuseUp(c) \/ UpServed(c)
                \/ FreeWorker(c) \/ StartCluster(c) \/ FreeBox(c) \/ StartSolo(c)
                \/ StartFreed(c) \/ RefuseFreed(c) \/ WaitReady(c) \/ WaitFails(c)
                \/ DecideStop(c) \/ StopNext(c) \/ StopEnds(c) \/ GiveUp(c)
           \/ \E c \in Commands, b \in Boxes : ReadBox(c, b) \/ MisreadBox(c, b)
           \/ \E call \in calls : Run(call) \/ RunFails(call)
           \/ \E b \in Boxes : Load(b) \/ Exit(b) \/ Widget(b)
BY DEF Next

\* Each box has one peer, and is its peer's.
LEMMA PeerKnown ==
    ASSUME NEW b \in Boxes
    PROVE  /\ Peer(b) \in Boxes /\ Peer(b) # b /\ Peer(Peer(b)) = b
           /\ \A d \in Boxes : d = b \/ d = Peer(b)
<1>1. PICK x \in Boxes, y \in Boxes : x # y /\ Boxes = {x, y}
  BY PairAssumption
<1>2. \A d \in Boxes : Peer(d) \in Boxes /\ Peer(d) # d
  <2> TAKE d \in Boxes
  <2>1. \E p \in Boxes : p # d
    BY <1>1
  <2> QED BY <2>1 DEF Peer
<1> QED BY <1>1, <1>2, Zenon

-----------------------------------------------------------------------------
(* The inductive invariant.                                                *)

Views == [Boxes -> Reports \cup {Unread, NoAnswer}]

\* A command has one call at most; it waits for it or has ended.  No call starts
\* an engine on a pinned box.
CallsKnown ==
    /\ \A x, y \in calls : x.cmd = y.cmd => x = y
    /\ \A x \in calls :
         /\ InFlight(x.cmd) \/ cmd[x.cmd].pc \in Ended
         /\ x.model # None => ~Pinned(x.box)
         /\ At(x.cmd, "freeing") => x.box = Peer(cmd[x.cmd].box)
         /\ At(x.cmd, "freeing") \/ At(x.cmd, "stopping") => x.model = None

\* What a command at each stage is about.
StagesKnown ==
    \A c \in Commands :
      /\ IsUp(c) => ~Pinned(cmd[c].box)
      /\ cmd[c].pc \in {"freeing", "freed", "starting", "waiting"} => IsUp(c)
      /\ cmd[c].pc \in {"stopping", "stopped"} => ~IsUp(c)
      /\ \A b \in cmd[c].todo : ~Pinned(b)

\* A pinned box runs nothing until its widget is used, and reports nothing until
\* a probe misses its service.
PinnedEmpty ==
    /\ acts = 0 => \A b \in Boxes : Pinned(b) => engine[b] = None
    /\ missed = 0 /\ acts = 0 =>
         \A c \in Commands, b \in Boxes :
           Pinned(b) /\ Answers(c, b) => cmd[c].seen[b].model = None

\* While nothing comes in between, one command is under way, and its call.
OneCommand ==
    /\ sane => lone
    /\ lone => /\ \A c, d \in Commands : Under(c) /\ Under(d) => c = d
               /\ \A x, y \in calls : x = y
               /\ \A x \in calls, c \in Commands : Under(c) => x.cmd = c

\* Until it decides, engines may have exited since it read them, and no more.
SeenCurrent ==
    lone => \A c \in Commands, b \in Boxes : At(c, "read") /\ Answers(c, b) =>
      /\ engine[b] \in {cmd[c].seen[b].model, None}
      /\ Clients(b) => cmd[c].seen[b].clients
      /\ sane /\ cmd[c].seen[b].model \in ClusterModels => engine[Peer(b)] = None

PeerFreed ==
    lone => \A c \in Commands : At(c, "freed") => engine[Peer(cmd[c].box)] = None

\* A call that is on its way keeps the pair consistent when it runs.
CallsSafe ==
    sane => \A x \in calls :
      /\ x.model \in ClusterModels => engine[Peer(x.box)] = None
      /\ x.model # None => ~Clients(x.box)

\* A box of a stop: to be stopped, passed over, stopped, or being stopped.
Settled(c, b) ==
    \/ b \in cmd[c].todo \/ cmd[c].error \/ engine[b] = None
    \/ At(c, "stopping") /\ \A x \in calls : x.box = b

StopSettles ==
    lone => \A c \in Commands : At(c, "stopping") \/ At(c, "stopped") =>
      IF cmd[c].box = None THEN \A b \in Boxes : Pinned(b) \/ Settled(c, b)
      ELSE /\ Settled(c, cmd[c].box)
           /\ sane => \/ Settled(c, Peer(cmd[c].box)) \/ ~Clients(cmd[c].box)
                      \/ cmd[c].box \in cmd[c].todo /\ ~Answers(c, cmd[c].box)

Known == CallsKnown /\ StagesKnown /\ PinnedEmpty
Current == OneCommand /\ SeenCurrent /\ PeerFreed /\ CallsSafe /\ StopSettles
PairInv == TypeOK /\ Known /\ Current /\ PairStaysConsistent

-----------------------------------------------------------------------------
(* What a step does to the commands.                                       *)

LEMMA CmdFields ==
    ASSUME NEW r \in Cmds
    PROVE  /\ r.pc \in Stages /\ r.model \in Models \cup {None}
           /\ r.box \in Boxes \cup {None} /\ r.todo \in SUBSET Boxes
           /\ r.error \in BOOLEAN /\ r.seen \in Views
BY DEF Cmds, Views

LEMMA BlindView == Blind \in Views
BY DEF Blind, Views

LEMMA CmdUpdates ==
    ASSUME NEW r \in Cmds
    PROVE  /\ \A p \in Stages : [r EXCEPT !.pc = p] \in Cmds
           /\ \A p \in Stages, s \in Views :
                /\ [r EXCEPT !.pc = p, !.seen = s] \in Cmds
                /\ [r EXCEPT !.pc = p, !.todo = {}, !.seen = s] \in Cmds
           /\ \A p \in Stages, t \in SUBSET Boxes : [r EXCEPT !.pc = p, !.todo = t] \in Cmds
           /\ \A t \in SUBSET Boxes : [r EXCEPT !.todo = t, !.error = TRUE] \in Cmds
           /\ \A s \in Views : [r EXCEPT !.seen = s] \in Cmds
BY DEF Cmds, Views

\* Only command c moves: to a stage, with boxes to stop, an error and a view.
Moves(c, p, t, e, s) ==
    /\ cmd' \in [Commands -> Cmds]
    /\ \A d \in Commands \ {c} : cmd'[d] = cmd[d]
    /\ cmd'[c].model = cmd[c].model /\ cmd'[c].box = cmd[c].box
    /\ cmd'[c].pc = p /\ cmd'[c].todo = t /\ cmd'[c].error = e /\ cmd'[c].seen = s

LEMMA GotoMoves ==
    ASSUME TypeOK, NEW c \in Commands, NEW p \in Stages, Goto(c, p)
    PROVE  Moves(c, p, cmd[c].todo, cmd[c].error, cmd[c].seen)
<1>1. cmd[c] \in Cmds /\ cmd \in [Commands -> Cmds]
  BY DEF TypeOK
<1>2. cmd' = [cmd EXCEPT ![c] = [cmd[c] EXCEPT !.pc = p]]
  BY DEF Goto
<1>3. [cmd[c] EXCEPT !.pc = p] \in Cmds
  BY <1>1, CmdUpdates, CmdFields
<1> QED BY <1>1, <1>2, <1>3 DEF Moves, Cmds

LEMMA DecidedMoves ==
    ASSUME TypeOK, NEW c \in Commands, NEW p \in Stages, Decided(c, p)
    PROVE  Moves(c, p, cmd[c].todo, cmd[c].error, Blind)
<1>1. cmd[c] \in Cmds /\ cmd \in [Commands -> Cmds]
  BY DEF TypeOK
<1>2. /\ cmd'[c] = [cmd[c] EXCEPT !.pc = p, !.seen = Blind]
      /\ DOMAIN cmd' = Commands /\ cmd' = [d \in Commands |-> cmd'[d]]
      /\ \A d \in Commands \ {c} : cmd'[d] = cmd[d]
  BY <1>1 DEF Decided
<1>3. cmd'[c] \in Cmds
  <2>1. [cmd[c] EXCEPT !.pc = p, !.seen = Blind] \in Cmds
    BY <1>1, CmdUpdates, BlindView, Zenon
  <2> QED BY <1>2, <2>1
<1>4. cmd' \in [Commands -> Cmds]
  BY <1>1, <1>2, <1>3
<1> QED BY <1>1, <1>2, <1>4 DEF Moves, Cmds

LEMMA EndMoves ==
    ASSUME TypeOK, NEW c \in Commands, NEW p \in Stages, End(c, p)
    PROVE  Moves(c, p, {}, cmd[c].error, Blind)
<1>1. cmd[c] \in Cmds /\ cmd \in [Commands -> Cmds]
  BY DEF TypeOK
<1>2. /\ cmd'[c] = [cmd[c] EXCEPT !.pc = p, !.todo = {}, !.seen = Blind]
      /\ DOMAIN cmd' = Commands /\ cmd' = [d \in Commands |-> cmd'[d]]
      /\ \A d \in Commands \ {c} : cmd'[d] = cmd[d]
  BY <1>1 DEF End
<1>3. cmd'[c] \in Cmds
  <2>1. [cmd[c] EXCEPT !.pc = p, !.todo = {}, !.seen = Blind] \in Cmds
    BY <1>1, CmdUpdates, BlindView, Zenon
  <2> QED BY <1>2, <2>1
<1>4. cmd' \in [Commands -> Cmds]
  BY <1>1, <1>2, <1>3
<1> QED BY <1>1, <1>2, <1>4 DEF Moves, Cmds

-----------------------------------------------------------------------------
(* Engines that exit or load, calls that are lost, commands that end.      *)

\* Engines exit or load, and calls are gone.
Fades ==
    /\ engine' \in [Boxes -> Models \cup {None}]
    /\ \A b \in Boxes : engine'[b] \in {engine[b], None}
    /\ ready' \subseteq Boxes
    /\ calls' \subseteq calls
    /\ UNCHANGED <<config, acts, missed, lone, sane>>

Ends(c) == \E p \in Ended : Moves(c, p, {}, cmd[c].error, Blind)

LEMMA FadeCases ==
    ASSUME TypeOK, NEW b \in Boxes, Load(b) \/ Exit(b)
    PROVE  Fades /\ cmd' = cmd
BY DEF TypeOK, Load, Exit, Fades

LEMMA EndCases ==
    ASSUME TypeOK, NEW c \in Commands,
           \/ RefuseUp(c) \/ RefuseFreed(c) \/ WaitReady(c) \/ WaitFails(c)
           \/ StopEnds(c) \/ GiveUp(c)
    PROVE  Fades /\ Ends(c)
<1>1. \E p \in Ended : End(c, p)
  BY DEF RefuseUp, RefuseFreed, WaitReady, WaitFails, StopEnds, GiveUp, Ended
<1>2. calls' \subseteq calls /\ UNCHANGED world
  BY DEF RefuseUp, RefuseFreed, WaitReady, WaitFails, StopEnds, GiveUp
<1>3. Ended \subseteq Stages
  BY DEF Ended, Stages
<1>4. Fades
  BY <1>2 DEF Fades, world, TypeOK
<1> QED BY <1>1, <1>3, <1>4, EndMoves DEF Ends

LEMMA BlindAnswers ==
    ASSUME NEW b \in Boxes PROVE Blind[b] = Unread
BY DEF Blind

LEMMA TypeKept ==
    ASSUME TypeOK, NEW c \in Commands, NEW p, NEW t, NEW e, NEW s, Moves(c, p, t, e, s)
    PROVE  /\ cmd' \in [Commands -> Cmds]
           /\ \A d \in Commands : cmd'[d].model # None => cmd'[d].box # None
<1>1. \A d \in Commands : cmd'[d].model = cmd[d].model /\ cmd'[d].box = cmd[d].box
  BY DEF Moves
<1> QED BY <1>1 DEF TypeOK, Moves

\* Fewer engines and fewer calls: commands that stay as they are, or end, still
\* know what they knew.
LEMMA FadesStep ==
    ASSUME PairInv, Fades, cmd' = cmd \/ \E c \in Commands : Ends(c)
    PROVE  PairInv'
<1>1. /\ TypeOK /\ CallsKnown /\ StagesKnown /\ PinnedEmpty /\ OneCommand /\ SeenCurrent
      /\ PeerFreed /\ CallsSafe /\ StopSettles /\ PairStaysConsistent
      /\ \A x \in calls : x.cmd \in Commands /\ x.box \in Boxes
      /\ \A c \in Commands : IsUp(c) => cmd[c].box \in Boxes
      /\ \A c \in Commands : cmd[c].box \in Boxes \cup {None}
      /\ \A b \in Boxes : Peer(b) \in Boxes
  BY PeerKnown, CmdFields DEF PairInv, Known, Current, TypeOK, Calls, IsUp
<1>2. /\ \A b \in Boxes : engine'[b] \in {engine[b], None}
      /\ calls' \subseteq calls /\ UNCHANGED <<config, acts, missed, lone, sane>>
  BY DEF Fades
<1>3. /\ \A c \in Commands : cmd'[c].model = cmd[c].model /\ cmd'[c].box = cmd[c].box
      /\ \A c \in Commands :
           \/ cmd'[c] = cmd[c]
           \/ cmd'[c].pc \in Ended /\ cmd'[c].todo = {} /\ cmd'[c].seen = Blind
  <2>1. CASE cmd' = cmd
    BY <2>1
  <2>2. CASE \E c \in Commands : Ends(c)
    <3>1. PICK c \in Commands, p \in Ended : Moves(c, p, {}, cmd[c].error, Blind)
      BY <2>2 DEF Ends
    <3>2. /\ cmd'[c].model = cmd[c].model /\ cmd'[c].box = cmd[c].box
          /\ cmd'[c].pc \in Ended /\ cmd'[c].todo = {} /\ cmd'[c].seen = Blind
          /\ \A d \in Commands \ {c} : cmd'[d] = cmd[d]
      BY <3>1 DEF Moves
    <3> QED BY <3>2
  <2> QED BY <2>1, <2>2
<1>4. None \notin ClusterModels
  BY PairAssumption DEF Models
<1>5. \A b \in Boxes : Clients(b)' => Clients(b)
  BY <1>1, <1>2, <1>4 DEF Clients
<1>6. TypeOK'
  <2>1. /\ cmd' \in [Commands -> Cmds]
        /\ \A d \in Commands : cmd'[d].model # None => cmd'[d].box # None
    BY <1>1, TypeKept DEF TypeOK, Ends
  <2> QED BY <1>1, <2>1 DEF TypeOK, Fades
<1>7. CallsKnown'
  BY <1>1, <1>2, <1>3 DEF CallsKnown, InFlight, At, Pinned, Ended
<1>8. StagesKnown'
  BY <1>1, <1>2, <1>3 DEF StagesKnown, IsUp, Pinned, Ended
<1>9. PinnedEmpty'
  BY <1>1, <1>2, <1>3, BlindAnswers DEF PinnedEmpty, Pinned, Answers
<1>10. OneCommand'
  BY <1>1, <1>2, <1>3 DEF OneCommand, Under
<1>11. SeenCurrent'
  BY <1>1, <1>2, <1>3, <1>5 DEF SeenCurrent, At, Answers, Ended
<1>12. PeerFreed'
  <2>1. \A c \in Commands : At(c, "freed") => cmd[c].box \in Boxes
    BY <1>1 DEF StagesKnown, At
  <2> QED BY <1>1, <1>2, <1>3, <2>1 DEF PeerFreed, At, Ended
<1>13. CallsSafe'
  BY <1>1, <1>2, <1>5 DEF CallsSafe
<1>14. PairStaysConsistent'
  BY <1>1, <1>2, <1>5 DEF PairStaysConsistent, Consistent
<1>15. StopSettles'
  <2>1. \A c \in Commands : At(c, "stopping")' \/ At(c, "stopped")' => cmd'[c] = cmd[c]
    BY <1>3 DEF At, Ended
  <2>2. \A c \in Commands, b \in Boxes : cmd'[c] = cmd[c] /\ Settled(c, b) => Settled(c, b)'
    BY <1>2 DEF Settled, At
  <2> QED BY <1>1, <1>2, <1>5, <2>1, <2>2 DEF StopSettles, At, Pinned, Answers
<1> QED BY <1>6, <1>7, <1>8, <1>9, <1>10, <1>11, <1>12, <1>13, <1>14, <1>15
        DEF PairInv, Known, Current

-----------------------------------------------------------------------------
(* What comes in between: a widget, a probe that misses a service.         *)

LEMMA WidgetStep ==
    ASSUME PairInv, NEW b \in Boxes, Widget(b)
    PROVE  PairInv'
<1>1. /\ acts' = acts + 1 /\ lone' = FALSE /\ sane' = FALSE
      /\ UNCHANGED <<config, cmd, calls, missed>>
  BY DEF Widget
<1>2. /\ TypeOK /\ CallsKnown /\ StagesKnown /\ acts \in Nat
  BY DEF PairInv, Known, TypeOK
<1>3. TypeOK'
  <2>1. acts' \in 0..WidgetActs
    BY PairAssumption DEF PairInv, TypeOK, Widget
  <2>2. engine' \in [Boxes -> Models \cup {None}] /\ ready' \subseteq Boxes
    BY <1>2 DEF TypeOK, Widget
  <2> QED BY <1>1, <1>2, <2>1, <2>2 DEF TypeOK
<1>4. CallsKnown' /\ StagesKnown'
  BY <1>1, <1>2 DEF CallsKnown, StagesKnown, InFlight, At, Pinned, IsUp
<1>5. PinnedEmpty'
  BY <1>1, <1>2 DEF PinnedEmpty
<1>6. Current' /\ PairStaysConsistent'
  BY <1>1 DEF Current, OneCommand, SeenCurrent, PeerFreed, CallsSafe, StopSettles,
              PairStaysConsistent
<1> QED BY <1>3, <1>4, <1>5, <1>6 DEF PairInv, Known

\* A command sees a box anew; nothing else of it moves.
Sees(c, b, report) ==
    /\ cmd' \in [Commands -> Cmds]
    /\ \A d \in Commands \ {c} : cmd'[d] = cmd[d]
    /\ \A d \in Commands : /\ cmd'[d].pc = cmd[d].pc /\ cmd'[d].model = cmd[d].model
                           /\ cmd'[d].box = cmd[d].box /\ cmd'[d].todo = cmd[d].todo
                           /\ cmd'[d].error = cmd[d].error
    /\ cmd'[c].seen[b] = report
    /\ \A d \in Boxes \ {b} : cmd'[c].seen[d] = cmd[c].seen[d]

LEMMA SeesBox ==
    ASSUME TypeOK, NEW c \in Commands, NEW b \in Boxes,
           NEW report \in Reports \cup {NoAnswer},
           cmd' = [cmd EXCEPT ![c].seen[b] = report]
    PROVE  Sees(c, b, report)
<1> DEFINE view == [cmd[c].seen EXCEPT ![b] = report]
<1>1. cmd[c] \in Cmds /\ cmd \in [Commands -> Cmds] /\ cmd[c].seen \in Views
  BY CmdFields DEF TypeOK
<1>2. view \in Views
  BY <1>1 DEF Views
<1>3. view[b] = report /\ \A d \in Boxes \ {b} : view[d] = cmd[c].seen[d]
  BY <1>1 DEF Views
<1>4. /\ cmd'[c] = [cmd[c] EXCEPT !.seen = view]
      /\ cmd' = [d \in Commands |-> cmd'[d]]
      /\ \A d \in Commands \ {c} : cmd'[d] = cmd[d]
  BY <1>1
<1> HIDE DEF view
<1>5. cmd'[c] \in Cmds
  <2>1. [cmd[c] EXCEPT !.seen = view] \in Cmds
    BY <1>1, <1>2, CmdUpdates, Zenon
  <2> QED BY <1>4, <2>1
<1>6. cmd' \in [Commands -> Cmds]
  BY <1>1, <1>4, <1>5
<1>7. /\ cmd'[c].pc = cmd[c].pc /\ cmd'[c].model = cmd[c].model /\ cmd'[c].box = cmd[c].box
      /\ cmd'[c].todo = cmd[c].todo /\ cmd'[c].error = cmd[c].error /\ cmd'[c].seen = view
  BY <1>1, <1>4 DEF Cmds
<1> QED BY <1>3, <1>4, <1>6, <1>7 DEF Sees

LEMMA SeesKeeps ==
    ASSUME PairInv, NEW c \in Commands, NEW b \in Boxes, NEW report, Sees(c, b, report),
           UNCHANGED <<config, engine, ready, calls, acts>>
    PROVE  CallsKnown' /\ StagesKnown'
BY DEF PairInv, Known, TypeOK, Calls, CallsKnown, StagesKnown, InFlight, At, Pinned, IsUp, Sees

LEMMA MisreadStep ==
    ASSUME PairInv, NEW c \in Commands, NEW b \in Boxes, MisreadBox(c, b)
    PROVE  PairInv'
<1>1. /\ missed' = missed + 1 /\ lone' = FALSE /\ sane' = FALSE /\ missed < Misreads
      /\ UNCHANGED <<config, engine, ready, calls, acts>>
  BY DEF MisreadBox
<1>2. TypeOK /\ missed \in Nat /\ (acts = 0 => \A d \in Boxes : Pinned(d) => engine[d] = None)
  BY DEF PairInv, Known, TypeOK, PinnedEmpty
<1>3. PICK m \in ClusterModels :
        cmd' = [cmd EXCEPT ![c].seen[b] = [model |-> m, ready |-> TRUE, clients |-> Clients(b)]]
  BY DEF MisreadBox
<1>4. [model |-> m, ready |-> TRUE, clients |-> Clients(b)] \in Reports
  BY DEF Reports, Models, Clients
<1>5. Sees(c, b, [model |-> m, ready |-> TRUE, clients |-> Clients(b)])
  BY <1>2, <1>3, <1>4, SeesBox
<1>6. CallsKnown' /\ StagesKnown'
  BY <1>1, <1>5, SeesKeeps
<1>7. TypeOK'
  <2>1. missed' \in 0..Misreads
    BY <1>1, <1>2, PairAssumption
  <2>2. cmd' \in [Commands -> Cmds]
        /\ \A d \in Commands : cmd'[d].model # None => cmd'[d].box # None
    BY <1>2, <1>5 DEF Sees, TypeOK
  <2> QED BY <1>1, <1>2, <2>1, <2>2 DEF TypeOK
<1>8. PinnedEmpty'
  BY <1>1, <1>2 DEF PinnedEmpty, Pinned
<1>9. Current' /\ PairStaysConsistent'
  BY <1>1 DEF Current, OneCommand, SeenCurrent, PeerFreed, CallsSafe, StopSettles,
              PairStaysConsistent
<1> QED BY <1>6, <1>7, <1>8, <1>9 DEF PairInv, Known

-----------------------------------------------------------------------------
(* A command begins and reads the boxes.                                   *)

LEMMA ReadStep ==
    ASSUME PairInv, NEW c \in Commands, NEW b \in Boxes, ReadBox(c, b)
    PROVE  PairInv'
<1>1. At(c, "read") /\ UNCHANGED <<config, engine, ready, acts, missed, lone, sane, calls>>
  BY DEF ReadBox, world
<1>2. /\ TypeOK /\ CallsKnown /\ StagesKnown /\ PinnedEmpty /\ OneCommand /\ SeenCurrent
      /\ PeerFreed /\ CallsSafe /\ StopSettles /\ PairStaysConsistent
      /\ \A x \in calls : x.cmd \in Commands /\ x.box \in Boxes
  BY DEF PairInv, Known, Current, TypeOK, Calls
<1> DEFINE seen == [model |-> engine[b], ready |-> b \in ready, clients |-> Clients(b)]
<1>3. PICK report \in {NoAnswer, seen} : cmd' = [cmd EXCEPT ![c].seen[b] = report]
  BY DEF ReadBox
<1>4. seen \in Reports /\ seen.model = engine[b] /\ seen.clients = Clients(b)
  <2>1. engine[b] \in Models \cup {None}
    BY <1>2 DEF TypeOK
  <2>2. (b \in ready) \in BOOLEAN /\ Clients(b) \in BOOLEAN
    BY DEF Clients
  <2> QED BY <2>1, <2>2 DEF Reports
<1> HIDE DEF seen
<1>5. Sees(c, b, report)
  BY <1>2, <1>3, <1>4, SeesBox
<1>6. CallsKnown' /\ StagesKnown'
  BY <1>1, <1>5, SeesKeeps
<1>7. /\ \A d \in Commands \ {c} : cmd'[d] = cmd[d]
      /\ \A d \in Commands : /\ cmd'[d].pc = cmd[d].pc /\ cmd'[d].model = cmd[d].model
                             /\ cmd'[d].box = cmd[d].box /\ cmd'[d].todo = cmd[d].todo
                             /\ cmd'[d].error = cmd[d].error
      /\ cmd'[c].seen[b] = report
      /\ \A d \in Boxes \ {b} : cmd'[c].seen[d] = cmd[c].seen[d]
  BY <1>5 DEF Sees
<1>8. TypeOK'
  BY <1>1, <1>2, <1>5, <1>7 DEF TypeOK, Sees
<1>9. PinnedEmpty'
  BY <1>1, <1>2, <1>3, <1>4, <1>7 DEF PinnedEmpty, Pinned, Answers
<1>10. OneCommand' /\ PeerFreed' /\ CallsSafe' /\ PairStaysConsistent'
  BY <1>1, <1>2, <1>7 DEF OneCommand, PeerFreed, CallsSafe, PairStaysConsistent, Consistent,
                          Under, At, Clients
<1>11. SeenCurrent'
  <2>1. sane /\ engine[b] \in ClusterModels => engine[Peer(b)] = None
    BY <1>2, PeerKnown DEF PairStaysConsistent, Consistent, Clients
  <2> SUFFICES ASSUME lone, NEW d \in Commands, NEW x \in Boxes, At(d, "read"), Answers(d, x)'
               PROVE  /\ engine[x] \in {cmd'[d].seen[x].model, None}
                      /\ Clients(x) => cmd'[d].seen[x].clients
                      /\ sane /\ cmd'[d].seen[x].model \in ClusterModels
                           => engine[Peer(x)] = None
    BY <1>1, <1>7 DEF SeenCurrent, At, Clients
  <2>2. CASE d = c /\ x = b
    <3>1. report = seen
      BY <1>3, <1>7, <2>2 DEF Answers
    <3> QED BY <1>4, <1>7, <2>1, <2>2, <3>1
  <2>3. CASE d # c \/ x # b
    <3>1. cmd'[d].seen[x] = cmd[d].seen[x]
      BY <1>7, <2>3
    <3> QED BY <1>2, <3>1 DEF SeenCurrent, Answers
  <2> QED BY <2>2, <2>3
<1>12. StopSettles'
  <2>1. ~At(c, "stopped") /\ ~At(c, "stopping")
    BY <1>1 DEF At
  <2> QED BY <1>1, <1>2, <1>7, <2>1 DEF StopSettles, Settled, At, Pinned, Clients, Answers
<1> QED BY <1>6, <1>8, <1>9, <1>10, <1>11, <1>12 DEF PairInv, Known, Current

LEMMA BeginStep ==
    ASSUME PairInv, NEW c \in Commands, Begin(c)
    PROVE  PairInv'
<1>1. /\ At(c, "new") /\ UNCHANGED <<config, engine, ready, calls, acts, missed>>
      /\ lone' = (calls = {} /\ \A d \in Commands : ~Under(d))
      /\ sane' = (lone' /\ Consistent)
  BY DEF Begin
<1>2. /\ TypeOK /\ CallsKnown /\ StagesKnown /\ PinnedEmpty
      /\ \A x \in calls : x.cmd \in Commands /\ x.box \in Boxes
      /\ cmd[c] \in Cmds /\ cmd \in [Commands -> Cmds]
  BY DEF PairInv, Known, TypeOK, Calls
<1>3. PICK b \in Boxes \cup {None}, m \in Models \cup {None} :
        /\ m # None => b # None /\ ~Pinned(b)
        /\ cmd' = [cmd EXCEPT ![c] = [Fresh EXCEPT !.pc = "read", !.model = m, !.box = b]]
  BY DEF Begin
<1> DEFINE new == [Fresh EXCEPT !.pc = "read", !.model = m, !.box = b]
<1>4. /\ new \in Cmds
      /\ new.pc = "read" /\ new.model = m /\ new.box = b /\ new.todo = {} /\ new.seen = Blind
  BY BlindView DEF Cmds, Views, Fresh, Stages
<1>5. cmd' = [cmd EXCEPT ![c] = new]
  BY <1>3
<1> HIDE DEF new
<1>6. /\ cmd' \in [Commands -> Cmds] /\ \A d \in Commands \ {c} : cmd'[d] = cmd[d]
      /\ cmd'[c].pc = "read" /\ cmd'[c].model = m /\ cmd'[c].box = b /\ cmd'[c].todo = {}
      /\ cmd'[c].seen = Blind
  BY <1>2, <1>4, <1>5
<1>7. /\ \A d \in Boxes : ~Answers(c, d)'
      /\ \A d \in Commands \ {c}, x \in Boxes : Answers(d, x)' = Answers(d, x)
  BY <1>6, BlindAnswers DEF Answers
<1>8. TypeOK'
  <2>1. lone' \in BOOLEAN /\ sane' \in BOOLEAN
    BY <1>1
  <2> QED BY <1>1, <1>2, <1>3, <1>6, <2>1 DEF TypeOK
<1>9. CallsKnown'
  <2>1. \A x \in calls : x.cmd # c
    BY <1>1, <1>2 DEF CallsKnown, InFlight, At, Ended
  <2> QED BY <1>1, <1>2, <1>6, <2>1 DEF CallsKnown, InFlight, At, Pinned
<1>10. StagesKnown'
  BY <1>1, <1>2, <1>3, <1>6 DEF StagesKnown, IsUp, Pinned
<1>11. PinnedEmpty'
  BY <1>1, <1>2, <1>6, <1>7 DEF PinnedEmpty, Pinned
<1>12. lone' => \A d \in Commands : d # c => ~Under(d)' /\ ~At(d, "freed")'
                                     /\ ~At(d, "stopped")' /\ ~At(d, "stopping")' /\ ~At(d, "read")'
  BY <1>1, <1>6 DEF Under, At, Ended
<1>13. ~At(c, "freed")' /\ ~At(c, "stopped")' /\ ~At(c, "stopping")'
  BY <1>6 DEF At
<1>14. OneCommand' /\ PeerFreed' /\ CallsSafe' /\ StopSettles'
  BY <1>1, <1>12, <1>13 DEF OneCommand, PeerFreed, CallsSafe, StopSettles
<1>15. SeenCurrent'
  BY <1>7, <1>12 DEF SeenCurrent
<1>16. PairStaysConsistent'
  BY <1>1 DEF PairStaysConsistent, Consistent, Clients
<1> QED BY <1>8, <1>9, <1>10, <1>11, <1>14, <1>15, <1>16 DEF PairInv, Known, Current

-----------------------------------------------------------------------------
(* A command decides, and sends its calls.                                 *)

\* A command that is under way and waits for no call has none.
LEMMA NoCalls ==
    ASSUME PairInv, NEW c \in Commands, Under(c), ~InFlight(c)
    PROVE  /\ \A x \in calls : x.cmd # c
           /\ lone => calls = {} /\ \A d \in Commands : Under(d) => d = c
BY DEF PairInv, Known, Current, CallsKnown, OneCommand, Under

\* A command under way moves on without a call.
LEMMA MoveStep ==
    ASSUME PairInv, NEW c \in Commands, Under(c), ~InFlight(c),
           NEW p \in {"waiting", "stopped"}, NEW t \in SUBSET Boxes, NEW e,
           NEW s \in {Blind, cmd[c].seen}, Moves(c, p, t, e, s),
           \A b \in t : ~Pinned(b), p = "waiting" <=> IsUp(c),
           calls' = calls, UNCHANGED world
    PROVE  /\ TypeOK' /\ Known' /\ PairStaysConsistent'
           /\ OneCommand' /\ SeenCurrent' /\ PeerFreed' /\ CallsSafe'
           /\ p = "waiting" => StopSettles'
<1>1. /\ TypeOK /\ CallsKnown /\ StagesKnown /\ PinnedEmpty /\ OneCommand /\ SeenCurrent
      /\ PeerFreed /\ CallsSafe /\ StopSettles /\ PairStaysConsistent
      /\ calls \subseteq Calls /\ \A x \in calls : x.cmd \in Commands
  BY DEF PairInv, Known, Current, TypeOK, Calls
<1>2. /\ config' = config /\ engine' = engine /\ acts' = acts
      /\ missed' = missed /\ lone' = lone /\ sane' = sane
  BY DEF world
<1>3. /\ \A d \in Commands : cmd'[d].model = cmd[d].model /\ cmd'[d].box = cmd[d].box
      /\ \A d \in Commands \ {c} : cmd'[d] = cmd[d]
      /\ cmd'[c].pc = p /\ cmd'[c].todo = t /\ cmd'[c].seen = s
  BY DEF Moves
<1>4. \A x \in calls : x.cmd # c
  BY NoCalls
<1>5. TypeOK'
  BY <1>1, <1>2, TypeKept DEF TypeOK, world
<1>6. CallsKnown'
  BY <1>1, <1>2, <1>3, <1>4 DEF CallsKnown, InFlight, At, Pinned, Ended
<1>7. StagesKnown'
  BY <1>1, <1>2, <1>3 DEF StagesKnown, IsUp, Pinned
<1>8. PinnedEmpty'
  BY <1>1, <1>2, <1>3, BlindAnswers DEF PinnedEmpty, Pinned, Answers
<1>9. OneCommand'
  BY <1>1, <1>2, <1>3 DEF OneCommand, Under, Ended
<1>10. SeenCurrent' /\ PeerFreed'
  BY <1>1, <1>2, <1>3 DEF SeenCurrent, PeerFreed, At, Answers, Clients
<1>11. CallsSafe' /\ PairStaysConsistent'
  BY <1>1, <1>2 DEF CallsSafe, PairStaysConsistent, Consistent, Clients
<1>12. ASSUME p = "waiting" PROVE StopSettles'
  BY <1>1, <1>2, <1>3, <1>12
     DEF StopSettles, Settled, At, Pinned, Clients, Answers
<1> QED BY <1>5, <1>6, <1>7, <1>8, <1>9, <1>10, <1>11, <1>12 DEF Known

\* A command under way sends a call and waits for it.
LEMMA SendStep ==
    ASSUME PairInv, NEW c \in Commands, Under(c), ~InFlight(c),
           NEW p \in {"freeing", "starting", "stopping"}, NEW t \in SUBSET Boxes, NEW e,
           NEW s \in {Blind, cmd[c].seen}, Moves(c, p, t, e, s),
           \A b \in t : ~Pinned(b), p # "stopping" <=> IsUp(c),
           NEW b \in Boxes, NEW m \in Models \cup {None}, Send(c, b, m), UNCHANGED world,
           m # None => ~Pinned(b),
           p = "freeing" => b = Peer(cmd[c].box),
           p # "starting" => m = None,
           sane => /\ m \in ClusterModels => engine[Peer(b)] = None
                   /\ m # None => ~Clients(b)
    PROVE  /\ TypeOK' /\ Known' /\ PairStaysConsistent'
           /\ OneCommand' /\ SeenCurrent' /\ PeerFreed' /\ CallsSafe'
           /\ p # "stopping" => StopSettles'
<1>1. /\ TypeOK /\ CallsKnown /\ StagesKnown /\ PinnedEmpty /\ OneCommand /\ SeenCurrent
      /\ PeerFreed /\ CallsSafe /\ StopSettles /\ PairStaysConsistent
      /\ calls \subseteq Calls /\ \A x \in calls : x.cmd \in Commands
  BY DEF PairInv, Known, Current, TypeOK, Calls
<1>2. /\ config' = config /\ engine' = engine /\ acts' = acts
      /\ missed' = missed /\ lone' = lone /\ sane' = sane
  BY DEF world
<1>3. /\ \A d \in Commands : cmd'[d].model = cmd[d].model /\ cmd'[d].box = cmd[d].box
      /\ \A d \in Commands \ {c} : cmd'[d] = cmd[d]
      /\ cmd'[c].pc = p /\ cmd'[c].todo = t /\ cmd'[c].seen = s
  BY DEF Moves
<1>4. /\ \A x \in calls : x.cmd # c
      /\ lone => calls = {} /\ \A d \in Commands : Under(d) => d = c
  BY NoCalls
<1> DEFINE call == [cmd |-> c, box |-> b, model |-> m]
<1>5. calls' = calls \cup {call}
  BY DEF Send
<1>6. call \in Calls /\ call.cmd = c /\ call.box = b /\ call.model = m
  BY DEF Calls
<1> HIDE DEF call
<1>7. TypeOK'
  BY <1>1, <1>2, <1>5, <1>6, TypeKept DEF TypeOK, world
<1>8. CallsKnown'
  <2>1. \A x, y \in calls' : x.cmd = y.cmd => x = y
    BY <1>1, <1>4, <1>5, <1>6 DEF CallsKnown
  <2>2. \A x \in calls : cmd'[x.cmd] = cmd[x.cmd]
    BY <1>1, <1>3, <1>4
  <2>3. \A x \in calls :
         /\ InFlight(x.cmd)' \/ cmd'[x.cmd].pc \in Ended
         /\ x.model # None => ~Pinned(x.box)'
         /\ At(x.cmd, "freeing")' => x.box = Peer(cmd'[x.cmd].box)
         /\ At(x.cmd, "freeing")' \/ At(x.cmd, "stopping")' => x.model = None
    BY <1>1, <1>2, <2>2 DEF CallsKnown, InFlight, At, Pinned
  <2>4. /\ InFlight(c)'
        /\ m # None => ~Pinned(b)'
        /\ At(c, "freeing")' => b = Peer(cmd'[c].box)
        /\ At(c, "freeing")' \/ At(c, "stopping")' => m = None
    BY <1>2, <1>3 DEF InFlight, At, Pinned
  <2> QED BY <1>5, <1>6, <2>1, <2>3, <2>4 DEF CallsKnown
<1>9. StagesKnown'
  BY <1>1, <1>2, <1>3 DEF StagesKnown, IsUp, Pinned
<1>10. PinnedEmpty'
  BY <1>1, <1>2, <1>3, BlindAnswers DEF PinnedEmpty, Pinned, Answers
<1>11. OneCommand'
  BY <1>1, <1>2, <1>3, <1>4, <1>5, <1>6 DEF OneCommand, Under, Ended
<1>12. SeenCurrent' /\ PeerFreed'
  BY <1>1, <1>2, <1>3 DEF SeenCurrent, PeerFreed, At, Answers, Clients
<1>13. CallsSafe' /\ PairStaysConsistent'
  BY <1>1, <1>2, <1>5, <1>6 DEF CallsSafe, PairStaysConsistent, Consistent, Clients
<1>14. ASSUME p # "stopping" PROVE StopSettles'
  BY <1>2, <1>3, <1>4, <1>14
     DEF StopSettles, At, Under, Ended
<1> QED BY <1>7, <1>8, <1>9, <1>10, <1>11, <1>12, <1>13, <1>14 DEF Known

\* What up finds when it decides.
LEMMA Deciding ==
    ASSUME PairInv, NEW c \in Commands, Decides(c)
    PROVE  /\ At(c, "read") /\ Under(c) /\ ~InFlight(c)
           /\ cmd[c].todo \in SUBSET Boxes /\ \A b \in cmd[c].todo : ~Pinned(b)
           /\ cmd[c].box \in Boxes \cup {None}
           /\ IsUp(c) => /\ cmd[c].box \in Boxes /\ cmd[c].model \in Models
                         /\ ~Pinned(cmd[c].box)
<1>1. TypeOK /\ StagesKnown /\ cmd[c] \in Cmds
  BY DEF PairInv, Known, TypeOK
<1> QED BY <1>1, CmdFields DEF Decides, At, Under, InFlight, Ended, TypeOK, StagesKnown, IsUp

LEMMA UpServedStep ==
    ASSUME PairInv, NEW c \in Commands, UpServed(c)
    PROVE  PairInv'
<1>1. Decides(c) /\ IsUp(c) /\ Decided(c, "waiting") /\ UNCHANGED world /\ calls' = calls
  BY DEF UpServed, MayUp
<1>2. Moves(c, "waiting", cmd[c].todo, cmd[c].error, Blind)
  BY <1>1, DecidedMoves DEF PairInv, Stages
<1> QED BY <1>1, <1>2, Deciding, MoveStep DEF PairInv, Current

LEMMA FreeingStep ==
    ASSUME PairInv, NEW c \in Commands, FreeWorker(c) \/ FreeBox(c)
    PROVE  PairInv'
<1>1. /\ Decides(c) /\ IsUp(c) /\ Send(c, Peer(cmd[c].box), None)
      /\ Decided(c, "freeing") /\ UNCHANGED world
  BY DEF FreeWorker, FreeBox, MayUp
<1>2. Moves(c, "freeing", cmd[c].todo, cmd[c].error, Blind)
  BY <1>1, DecidedMoves DEF PairInv, Stages
<1>3. cmd[c].box \in Boxes /\ Peer(cmd[c].box) \in Boxes
  BY <1>1, Deciding, PeerKnown
<1>4. None \notin ClusterModels
  BY PairAssumption DEF Models
<1> QED BY <1>1, <1>2, <1>3, <1>4, Deciding, SendStep DEF PairInv, Current

\* The rule of the pair, for the engine that up is about to start.
LEMMA StartIsSafe ==
    ASSUME PairInv, NEW c \in Commands, StartCluster(c) \/ StartSolo(c) \/ StartFreed(c), sane
    PROVE  /\ cmd[c].model \in ClusterModels => engine[Peer(cmd[c].box)] = None
           /\ ~Clients(cmd[c].box)
<1>1. /\ TypeOK /\ SeenCurrent /\ PeerFreed /\ StagesKnown /\ PairStaysConsistent
      /\ lone /\ None \notin ClusterModels
  BY PairAssumption DEF PairInv, Known, Current, OneCommand, Models
<1> DEFINE b == cmd[c].box
<1>2. b \in Boxes
  <2>1. IsUp(c)
    BY <1>1 DEF StartCluster, StartSolo, StartFreed, MayUp, StagesKnown, At
  <2> QED BY <1>1, <2>1, CmdFields DEF TypeOK, IsUp
<1>3. Peer(b) \in Boxes /\ Peer(b) # b /\ Peer(Peer(b)) = b
  BY <1>2, PeerKnown
<1> HIDE DEF b
<1>4. CASE StartCluster(c)
  <2>1. At(c, "read") /\ Answers(c, Peer(b)) /\ cmd[c].seen[Peer(b)].model = None
    BY <1>4 DEF StartCluster, MayUp, Decides, Busy, b
  <2>2. engine[Peer(b)] = None
    BY <1>1, <1>3, <2>1 DEF SeenCurrent
  <2> QED BY <1>1, <2>2 DEF Clients, b
<1>5. CASE StartSolo(c)
  <2>1. /\ At(c, "read") /\ Answers(c, b) /\ cmd[c].model \notin ClusterModels
        /\ Role(c, b) # "worker"
    BY <1>5 DEF StartSolo, MayUp, Decides, IsCluster, b
  <2>2. CASE b \in Masters(c)
    <3>1. cmd[c].seen[b].model \in ClusterModels
      BY <2>2 DEF Masters
    <3>2. engine[Peer(b)] = None
      BY <1>1, <1>2, <2>1, <3>1 DEF SeenCurrent
    <3> QED BY <1>1, <2>1, <3>2 DEF Clients, b
  <2>3. CASE b \notin Masters(c)
    <3>1. ~cmd[c].seen[b].clients
      BY <2>1, <2>3 DEF Role
    <3> QED BY <1>1, <1>2, <2>1, <3>1 DEF SeenCurrent, b
  <2> QED BY <2>2, <2>3
<1>6. CASE StartFreed(c)
  <2>1. engine[Peer(b)] = None
    BY <1>1, <1>6 DEF StartFreed, PeerFreed, b
  <2> QED BY <1>1, <2>1 DEF Clients, b
<1> QED BY <1>4, <1>5, <1>6

LEMMA StartStep ==
    ASSUME PairInv, NEW c \in Commands, StartCluster(c) \/ StartSolo(c) \/ StartFreed(c)
    PROVE  PairInv'
<1>1. /\ At(c, "read") \/ At(c, "freed")
      /\ Send(c, cmd[c].box, cmd[c].model) /\ Decided(c, "starting") /\ UNCHANGED world
  BY DEF StartCluster, StartSolo, StartFreed, MayUp, Decides
<1>2. IsUp(c) /\ TypeOK /\ StagesKnown /\ cmd[c] \in Cmds
  BY DEF StartCluster, StartSolo, StartFreed, MayUp, PairInv, Known, StagesKnown, At, TypeOK
<1>3. /\ Under(c) /\ ~InFlight(c) /\ cmd[c].box \in Boxes /\ cmd[c].model \in Models
      /\ ~Pinned(cmd[c].box)
      /\ cmd[c].todo \in SUBSET Boxes /\ \A b \in cmd[c].todo : ~Pinned(b)
  BY <1>1, <1>2, CmdFields DEF Under, InFlight, At, Ended, IsUp, TypeOK, StagesKnown
<1>4. Moves(c, "starting", cmd[c].todo, cmd[c].error, Blind)
  BY <1>1, <1>2, DecidedMoves DEF Stages
<1>5. sane => /\ cmd[c].model \in ClusterModels => engine[Peer(cmd[c].box)] = None
              /\ ~Clients(cmd[c].box)
  BY StartIsSafe
<1> QED BY <1>1, <1>2, <1>3, <1>4, <1>5, SendStep DEF PairInv, Current

-----------------------------------------------------------------------------
(* stop.                                                                   *)

LEMMA TodoMoves ==
    ASSUME TypeOK, NEW c \in Commands, NEW t \in SUBSET Boxes
    PROVE  /\ \A p \in Stages : cmd' = [cmd EXCEPT ![c].pc = p, ![c].todo = t]
                => Moves(c, p, t, cmd[c].error, cmd[c].seen)
           /\ cmd' = [cmd EXCEPT ![c].todo = t, ![c].error = TRUE]
                => Moves(c, cmd[c].pc, t, TRUE, cmd[c].seen)
<1>1. cmd[c] \in Cmds /\ cmd \in [Commands -> Cmds]
  BY DEF TypeOK
<1>2. ASSUME NEW p \in Stages, cmd' = [cmd EXCEPT ![c].pc = p, ![c].todo = t]
      PROVE  Moves(c, p, t, cmd[c].error, cmd[c].seen)
  <2>1. /\ cmd'[c] = [cmd[c] EXCEPT !.pc = p, !.todo = t]
        /\ cmd' = [d \in Commands |-> cmd'[d]]
        /\ \A d \in Commands \ {c} : cmd'[d] = cmd[d]
    BY <1>1, <1>2
  <2>2. [cmd[c] EXCEPT !.pc = p, !.todo = t] \in Cmds
    BY <1>1, CmdUpdates, Zenon
  <2>3. cmd' \in [Commands -> Cmds]
    BY <1>1, <2>1, <2>2
  <2> QED BY <1>1, <2>1, <2>3 DEF Moves, Cmds
<1>3. ASSUME cmd' = [cmd EXCEPT ![c].todo = t, ![c].error = TRUE]
      PROVE  Moves(c, cmd[c].pc, t, TRUE, cmd[c].seen)
  <2>1. /\ cmd'[c] = [cmd[c] EXCEPT !.todo = t, !.error = TRUE]
        /\ cmd' = [d \in Commands |-> cmd'[d]]
        /\ \A d \in Commands \ {c} : cmd'[d] = cmd[d]
    BY <1>1, <1>3
  <2>2. [cmd[c] EXCEPT !.todo = t, !.error = TRUE] \in Cmds
    BY <1>1, CmdUpdates, Zenon
  <2>3. cmd' \in [Commands -> Cmds]
    BY <1>1, <2>1, <2>2
  <2> QED BY <1>1, <2>1, <2>3 DEF Moves, Cmds
<1> QED BY <1>2, <1>3

LEMMA DecideStopStep ==
    ASSUME PairInv, NEW c \in Commands, DecideStop(c)
    PROVE  PairInv'
<1>1. Decides(c) /\ ~IsUp(c) /\ UNCHANGED world /\ calls' = calls
  BY DEF DecideStop
<1>2. TypeOK /\ SeenCurrent
  BY DEF PairInv, Current
<1>3. /\ At(c, "read") /\ Under(c) /\ ~InFlight(c) /\ cmd[c].box \in Boxes \cup {None}
  BY <1>1, Deciding
<1> DEFINE refused == cmd[c].box # None /\ \E b \in Targets(c) : Pinned(b)
           todo == {b \in Targets(c) : ~Pinned(b)}
<1>4. CASE refused
  <2>1. End(c, "failed")
    BY <1>4 DEF DecideStop
  <2>2. "failed" \in Ended /\ "failed" \in Stages
    BY DEF Ended, Stages
  <2>3. Ends(c)
    BY <1>2, <2>1, <2>2, EndMoves DEF Ends
  <2>4. Fades
    BY <1>1, <1>2 DEF Fades, world, TypeOK
  <2> QED BY <2>3, <2>4, FadesStep
<1>5. CASE ~refused
  <2>1. todo \in SUBSET Boxes /\ \A b \in todo : ~Pinned(b)
    BY <1>3 DEF Targets
  <2>2. cmd' = [cmd EXCEPT ![c].pc = "stopped", ![c].todo = todo]
    BY <1>5 DEF DecideStop
  <2>3. /\ cmd[c].box = None => \A b \in Boxes : Pinned(b) \/ b \in todo
        /\ cmd[c].box # None => cmd[c].box \in todo
        /\ cmd[c].box # None /\ Role(c, cmd[c].box) = "worker" => todo = Boxes
    BY <1>3, <1>5 DEF Targets
  <2> HIDE DEF todo, refused
  <2>4. Moves(c, "stopped", todo, cmd[c].error, cmd[c].seen)
    BY <1>2, <2>1, <2>2, TodoMoves DEF Stages
  <2>5. /\ TypeOK' /\ Known' /\ PairStaysConsistent'
        /\ OneCommand' /\ SeenCurrent' /\ PeerFreed' /\ CallsSafe'
    BY <1>1, <1>3, <2>1, <2>4, MoveStep
  <2>6. /\ cmd'[c].box = cmd[c].box /\ cmd'[c].todo = todo /\ cmd'[c].seen = cmd[c].seen
        /\ cmd'[c].pc = "stopped" /\ \A d \in Commands \ {c} : cmd'[d] = cmd[d]
        /\ config' = config /\ engine' = engine /\ lone' = lone /\ sane' = sane
    BY <1>1, <2>4 DEF Moves, world
  <2>7. ASSUME lone, cmd[c].box # None, sane, Role(c, cmd[c].box) # "worker"
        PROVE  ~Clients(cmd[c].box) \/ ~Answers(c, cmd[c].box)
    <3> DEFINE b == cmd[c].box
    <3>1. b \in Boxes /\ b \notin Masters(c) /\ Answers(c, b) => ~cmd[c].seen[b].clients
      BY <1>3, <2>7 DEF Role
    <3>2. b \in Masters(c) => Answers(c, b) /\ cmd[c].seen[b].model \in ClusterModels
      BY DEF Masters
    <3>3. None \notin ClusterModels /\ b \in Boxes
      BY <1>3, <2>7, PairAssumption DEF Models
    <3> QED BY <1>2, <1>3, <2>7, <3>1, <3>2, <3>3 DEF SeenCurrent, Clients
  <2>8. StopSettles'
    <3>1. ASSUME lone PROVE \A d \in Commands : Under(d) => d = c
      BY <1>3, <3>1, NoCalls
    <3>2. \A d \in Commands \ {c} : At(d, "stopping")' \/ At(d, "stopped")' => Under(d)
      BY <2>6 DEF At, Under, Ended
    <3>3. \A b \in Boxes : b \in todo => Settled(c, b)'
      BY <2>6 DEF Settled
    <3>4. Peer(cmd[c].box) \in Boxes \/ cmd[c].box = None
      BY <1>3, PeerKnown
    <3>5. cmd[c].box # None => Answers(c, cmd[c].box)' = Answers(c, cmd[c].box)
                               /\ Clients(cmd[c].box)' = Clients(cmd[c].box)
      BY <2>6 DEF Answers, Clients
    <3> QED BY <1>3, <2>3, <2>6, <2>7, <3>1, <3>2, <3>3, <3>4, <3>5 DEF StopSettles, Pinned
  <2> QED BY <2>5, <2>8 DEF PairInv, Current
<1> QED BY <1>4, <1>5

LEMMA StopNextStep ==
    ASSUME PairInv, NEW c \in Commands, StopNext(c)
    PROVE  PairInv'
<1>1. PICK b \in cmd[c].todo :
        IF Answers(c, b)
        THEN /\ cmd' = [cmd EXCEPT ![c].pc = "stopping", ![c].todo = @ \ {b}]
             /\ Send(c, b, None)
        ELSE /\ cmd' = [cmd EXCEPT ![c].todo = @ \ {b}, ![c].error = TRUE]
             /\ UNCHANGED calls
  BY DEF StopNext
<1>2. At(c, "stopped") /\ UNCHANGED world
  BY DEF StopNext
<1>3. TypeOK /\ StopSettles /\ StagesKnown /\ cmd[c] \in Cmds /\ cmd \in [Commands -> Cmds]
  BY DEF PairInv, Known, Current, TypeOK
<1>4. /\ Under(c) /\ ~InFlight(c) /\ ~IsUp(c) /\ b \in Boxes /\ cmd[c].box \in Boxes \cup {None}
      /\ cmd[c].todo \in SUBSET Boxes /\ \A d \in cmd[c].todo : ~Pinned(d)
  BY <1>2, <1>3, CmdFields DEF Under, InFlight, At, Ended, StagesKnown
<1> DEFINE todo == cmd[c].todo \ {b}
<1>5. todo \in SUBSET Boxes /\ \A d \in todo : ~Pinned(d)
  BY <1>4
<1>6. lone => calls = {} /\ \A d \in Commands : Under(d) => d = c
  BY <1>4, NoCalls
<1>7. None \notin ClusterModels
  BY PairAssumption DEF Models
<1>8. CASE Answers(c, b)
  <2>1. cmd' = [cmd EXCEPT ![c].pc = "stopping", ![c].todo = todo] /\ Send(c, b, None)
    BY <1>1, <1>3, <1>8
  <2> HIDE DEF todo
  <2>2. Moves(c, "stopping", todo, cmd[c].error, cmd[c].seen)
    BY <1>3, <1>5, <2>1, TodoMoves DEF Stages
  <2>3. /\ TypeOK' /\ Known' /\ PairStaysConsistent'
        /\ OneCommand' /\ SeenCurrent' /\ PeerFreed' /\ CallsSafe'
    BY <1>2, <1>4, <1>5, <1>7, <2>1, <2>2, SendStep
  <2>4. /\ cmd'[c].box = cmd[c].box /\ cmd'[c].todo = todo /\ cmd'[c].seen = cmd[c].seen
        /\ cmd'[c].error = cmd[c].error
        /\ cmd'[c].pc = "stopping" /\ \A d \in Commands \ {c} : cmd'[d] = cmd[d]
        /\ config' = config /\ engine' = engine /\ lone' = lone /\ sane' = sane
    BY <1>2, <2>2 DEF Moves, world
  <2>5. ASSUME lone, NEW d \in Boxes, Settled(c, d) PROVE Settled(c, d)'
    <3>1. \A x \in calls' : x.box = b
      BY <1>6, <2>1, <2>5 DEF Send
    <3> QED BY <1>2, <2>4, <2>5, <3>1 DEF Settled, At, todo
  <2>6. StopSettles'
    <3>1. \A d \in Commands \ {c} : At(d, "stopping")' \/ At(d, "stopped")' => Under(d)
      BY <2>4 DEF At, Under, Ended
    <3>2. Peer(cmd[c].box) \in Boxes \/ cmd[c].box = None
      BY <1>4, PeerKnown
    <3>3. Answers(c, cmd[c].box)' = Answers(c, cmd[c].box)
          /\ Clients(cmd[c].box)' = Clients(cmd[c].box)
      BY <2>4 DEF Answers, Clients
    <3>4. ~Answers(c, cmd[c].box) /\ cmd[c].box \in cmd[c].todo => cmd[c].box \in todo
      BY <1>8 DEF todo
    <3> QED BY <1>2, <1>3, <1>4, <1>6, <2>4, <2>5, <3>1, <3>2, <3>3, <3>4
            DEF StopSettles, Pinned
  <2> QED BY <2>3, <2>6 DEF PairInv, Current
<1>9. CASE ~Answers(c, b)
  <2>1. cmd' = [cmd EXCEPT ![c].todo = todo, ![c].error = TRUE] /\ calls' = calls
    BY <1>1, <1>3, <1>9
  <2> HIDE DEF todo
  <2>2. Moves(c, "stopped", todo, TRUE, cmd[c].seen)
    BY <1>2, <1>3, <1>5, <2>1, TodoMoves DEF At
  <2>3. /\ TypeOK' /\ Known' /\ PairStaysConsistent'
        /\ OneCommand' /\ SeenCurrent' /\ PeerFreed' /\ CallsSafe'
    BY <1>2, <1>4, <1>5, <2>1, <2>2, MoveStep
  <2>4. /\ cmd'[c].box = cmd[c].box /\ cmd'[c].error = TRUE
        /\ \A d \in Commands \ {c} : cmd'[d] = cmd[d]
        /\ lone' = lone
    BY <1>2, <2>2 DEF Moves, world
  <2>5. StopSettles'
    <3>1. \A d \in Commands \ {c} : At(d, "stopping")' \/ At(d, "stopped")' => Under(d)
      BY <2>4 DEF At, Under, Ended
    <3>2. \A d \in Boxes \cup {None} : Settled(c, d)'
      BY <2>4 DEF Settled
    <3> QED BY <1>4, <1>6, <2>4, <3>1, <3>2 DEF StopSettles, Settled
  <2> QED BY <2>3, <2>5 DEF PairInv, Current
<1> QED BY <1>8, <1>9

-----------------------------------------------------------------------------
(* halo-ctl runs a call.                                                   *)

LEMMA RunFailsStep ==
    ASSUME PairInv, NEW call \in calls, RunFails(call)
    PROVE  PairInv'
<1>1. /\ call \in Calls /\ TypeOK /\ call.cmd \in Commands /\ call.box \in Boxes
  BY DEF PairInv, TypeOK, Calls
<1>2. Fades
  BY <1>1 DEF RunFails, Fades, TypeOK
<1>3. cmd' = cmd \/ End(call.cmd, "failed")
  BY DEF RunFails
<1>4. cmd' = cmd \/ Ends(call.cmd)
  BY <1>1, <1>3, EndMoves DEF Ends, Ended, Stages
<1> QED BY <1>1, <1>2, <1>4, FadesStep

\* The command that waits for a call gets its answer; another one has ended.
LEMMA RunMoves ==
    ASSUME PairInv, NEW call \in calls, Run(call)
    PROVE  /\ cmd' \in [Commands -> Cmds]
           /\ \A d \in Commands \ {call.cmd} : cmd'[d] = cmd[d]
           /\ \A d \in Commands : /\ cmd'[d].model = cmd[d].model /\ cmd'[d].box = cmd[d].box
                                  /\ cmd'[d].todo = cmd[d].todo /\ cmd'[d].seen = cmd[d].seen
                                  /\ cmd'[d].error = cmd[d].error
           /\ \/ At(call.cmd, "freeing") /\ cmd'[call.cmd].pc = "freed"
              \/ At(call.cmd, "starting") /\ cmd'[call.cmd].pc = "waiting"
              \/ At(call.cmd, "stopping") /\ cmd'[call.cmd].pc = "stopped"
              \/ cmd[call.cmd].pc \in Ended /\ cmd'[call.cmd] = cmd[call.cmd]
<1>1. TypeOK /\ call.cmd \in Commands /\ cmd \in [Commands -> Cmds]
      /\ (InFlight(call.cmd) \/ cmd[call.cmd].pc \in Ended)
  BY DEF PairInv, TypeOK, Calls, Known, CallsKnown
<1>2. CASE InFlight(call.cmd)
  <2>1. Goto(call.cmd, Replied(call.cmd))
    BY <1>2 DEF Run, Awaits
  <2>2. /\ At(call.cmd, "freeing") => Replied(call.cmd) = "freed"
        /\ At(call.cmd, "starting") => Replied(call.cmd) = "waiting"
        /\ At(call.cmd, "stopping") => Replied(call.cmd) = "stopped"
    BY DEF Replied, At
  <2>3. Replied(call.cmd) \in Stages
    BY <1>2, <2>2 DEF InFlight, Stages
  <2>4. Moves(call.cmd, Replied(call.cmd), cmd[call.cmd].todo, cmd[call.cmd].error,
              cmd[call.cmd].seen)
    BY <1>1, <2>1, <2>3, GotoMoves
  <2> QED BY <1>2, <2>2, <2>4 DEF InFlight, Moves
<1>3. CASE ~InFlight(call.cmd)
  <2>1. cmd' = cmd
    BY <1>3 DEF Run, Awaits
  <2> QED BY <1>1, <1>3, <2>1
<1> QED BY <1>2, <1>3

LEMMA RunStep ==
    ASSUME PairInv, NEW call \in calls, Run(call)
    PROVE  PairInv'
<1>1. /\ TypeOK /\ CallsKnown /\ StagesKnown /\ PinnedEmpty /\ OneCommand /\ SeenCurrent
      /\ PeerFreed /\ CallsSafe /\ StopSettles /\ PairStaysConsistent
      /\ \A x \in calls : x.cmd \in Commands /\ x.box \in Boxes
      /\ \A c \in Commands : cmd[c].box \in Boxes \cup {None}
      /\ \A b \in Boxes : Peer(b) \in Boxes
  BY PeerKnown, CmdFields DEF PairInv, Known, Current, TypeOK, Calls
<1> DEFINE c == call.cmd  b == call.box  m == call.model
<1>2. /\ c \in Commands /\ b \in Boxes /\ m \in Models \cup {None}
      /\ m # None => ~Pinned(b)
      /\ At(c, "freeing") => b = Peer(cmd[c].box)
      /\ At(c, "freeing") \/ At(c, "stopping") => m = None
      /\ None \notin ClusterModels
  BY <1>1, PairAssumption DEF TypeOK, Calls, CallsKnown, Models
<1>3. /\ engine' = [engine EXCEPT ![b] = m] /\ ready' = ready \ {b} /\ calls' = calls \ {call}
      /\ UNCHANGED <<config, acts, missed, lone, sane>>
  BY DEF Run
<1>4. engine'[b] = m /\ \A d \in Boxes \ {b} : engine'[d] = engine[d]
  BY <1>1, <1>2, <1>3 DEF TypeOK
<1>5. /\ cmd' \in [Commands -> Cmds]
      /\ \A d \in Commands \ {c} : cmd'[d] = cmd[d]
      /\ \A d \in Commands : /\ cmd'[d].model = cmd[d].model /\ cmd'[d].box = cmd[d].box
                             /\ cmd'[d].todo = cmd[d].todo /\ cmd'[d].seen = cmd[d].seen
                             /\ cmd'[d].error = cmd[d].error
      /\ \/ At(c, "freeing") /\ cmd'[c].pc = "freed"
         \/ At(c, "starting") /\ cmd'[c].pc = "waiting"
         \/ At(c, "stopping") /\ cmd'[c].pc = "stopped"
         \/ cmd[c].pc \in Ended /\ cmd'[c] = cmd[c]
  BY RunMoves
<1>6. lone => calls' = {} /\ \A d \in Commands : Under(d) => d = c
  BY <1>1, <1>3 DEF OneCommand
<1>7. \A d \in Commands : Under(d)' = Under(d)
  BY <1>5 DEF Under, At, Ended
<1>8. ASSUME lone, NEW d \in Commands, Under(d)
      PROVE  d = c /\ InFlight(d)
  <2>1. calls # {}
    OBVIOUS
  <2> QED BY <1>6, <1>8, <2>1, NoCalls
<1> HIDE DEF c, b, m
<1>9. TypeOK'
  BY <1>1, <1>2, <1>3, <1>5 DEF TypeOK
<1>10. CallsKnown'
  <2>1. \A x \in calls' : x \in calls /\ x.cmd # c
    BY <1>1, <1>3 DEF CallsKnown, c
  <2> QED BY <1>1, <1>3, <1>5, <2>1 DEF CallsKnown, InFlight, At, Pinned
<1>11. StagesKnown'
  BY <1>1, <1>3, <1>5 DEF StagesKnown, IsUp, Pinned, At, Ended
<1>12. PinnedEmpty'
  BY <1>1, <1>2, <1>3, <1>4, <1>5 DEF PinnedEmpty, Pinned, Answers
<1>13. OneCommand'
  BY <1>1, <1>3, <1>7 DEF OneCommand
<1>14. SeenCurrent'
  <2>1. ASSUME lone, NEW d \in Commands, At(d, "read")' PROVE FALSE
    <3>1. At(d, "read") /\ Under(d) /\ ~InFlight(d)
      BY <1>5, <2>1 DEF At, Under, InFlight, Ended
    <3> QED BY <1>8, <2>1, <3>1
  <2> QED BY <1>3, <2>1 DEF SeenCurrent
<1>15. PeerFreed'
  <2>1. ASSUME lone, NEW d \in Commands, At(d, "freed")'
        PROVE  engine'[Peer(cmd'[d].box)] = None
    <3>1. Under(d)
      BY <1>7, <2>1 DEF At, Under, Ended
    <3>2. d = c /\ At(c, "freeing")
      BY <1>5, <1>8, <2>1, <3>1 DEF At, InFlight, Ended
    <3> QED BY <1>2, <1>4, <1>5, <3>2
  <2> QED BY <1>3, <2>1 DEF PeerFreed
<1>16. CallsSafe'
  BY <1>1, <1>3, <1>6 DEF CallsSafe, OneCommand
<1>17. PairStaysConsistent'
  <2>1. ASSUME sane, NEW x \in Boxes, engine'[Peer(x)] \in ClusterModels
        PROVE  engine'[x] = None
    <3>1. /\ m \in ClusterModels => engine[Peer(b)] = None
          /\ m # None => engine[Peer(b)] \notin ClusterModels
      BY <1>1, <2>1 DEF CallsSafe, Clients, b, m
    <3>2. engine[Peer(x)] \in ClusterModels => engine[x] = None
      BY <1>1, <2>1 DEF PairStaysConsistent, Consistent, Clients
    <3>3. Peer(x) \in Boxes /\ Peer(x) # x /\ Peer(Peer(x)) = x /\ (b = x \/ b = Peer(x))
      BY <1>2, PeerKnown
    <3> QED BY <1>2, <1>4, <2>1, <3>1, <3>2, <3>3
  <2> QED BY <1>3, <2>1 DEF PairStaysConsistent, Consistent, Clients
<1>18. StopSettles'
  <2> SUFFICES ASSUME lone, NEW d \in Commands, At(d, "stopping")' \/ At(d, "stopped")',
                      NEW k \in Boxes \cup {None}, k = cmd[d].box
               PROVE  IF k = None THEN \A x \in Boxes : Pinned(x) \/ Settled(d, x)'
                      ELSE /\ Settled(d, k)'
                           /\ sane => \/ Settled(d, Peer(k))' \/ ~Clients(k)'
                                      \/ k \in cmd[d].todo /\ ~Answers(d, k)
    BY <1>1, <1>3, <1>5 DEF StopSettles, Pinned, Answers
  <2>1. Under(d)
    BY <1>7 DEF At, Under, Ended
  <2>2. d = c /\ At(d, "stopping") /\ m = None
    BY <1>2, <1>5, <1>8, <2>1 DEF At, InFlight, Ended
  <2>3. \A x \in Boxes : Settled(d, x) => Settled(d, x)'
    BY <1>4, <1>5, <2>2 DEF Settled, b
  <2>4. \A x \in Boxes : Clients(x)' => Clients(x)
    BY <1>1, <1>2, <1>4, <2>2 DEF Clients
  <2>5. IF k = None THEN \A x \in Boxes : Pinned(x) \/ Settled(d, x)
        ELSE /\ Settled(d, k)
             /\ sane => \/ Settled(d, Peer(k)) \/ ~Clients(k)
                        \/ k \in cmd[d].todo /\ ~Answers(d, k)
    BY <1>1, <2>2 DEF StopSettles
  <2>6. k # None => k \in Boxes /\ Peer(k) \in Boxes
    BY <1>1
  <2> QED BY <2>3, <2>4, <2>5, <2>6
<1> QED BY <1>9, <1>10, <1>11, <1>12, <1>13, <1>14, <1>15, <1>16, <1>17, <1>18
        DEF PairInv, Known, Current

-----------------------------------------------------------------------------
(* The theorems.                                                           *)

LEMMA PairStep ==
    ASSUME PairInv, [Next]_vars
    PROVE  PairInv'
<1>1. CASE UNCHANGED vars
  <2>1. Fades /\ cmd' = cmd
    BY <1>1 DEF PairInv, TypeOK, Fades, vars
  <2> QED BY <2>1, FadesStep
<1>2. ASSUME NEW c \in Commands,
             \/ RefuseUp(c) \/ RefuseFreed(c) \/ WaitReady(c) \/ WaitFails(c)
             \/ StopEnds(c) \/ GiveUp(c)
      PROVE  PairInv'
  <2>1. Fades /\ Ends(c)
    BY <1>2, EndCases DEF PairInv
  <2> QED BY <2>1, FadesStep
<1>3. ASSUME NEW b \in Boxes, Load(b) \/ Exit(b) PROVE PairInv'
  <2>1. Fades /\ cmd' = cmd
    BY <1>3, FadeCases DEF PairInv
  <2> QED BY <2>1, FadesStep
<1>4. ASSUME Next PROVE PairInv'
  BY <1>2, <1>3, <1>4, NextCases, BeginStep, ReadStep, MisreadStep, UpServedStep,
     FreeingStep, StartStep, DecideStopStep, StopNextStep, RunStep, RunFailsStep, WidgetStep
<1> QED BY <1>1, <1>4

LEMMA InitHolds == Init => PairInv
<1> SUFFICES ASSUME Init PROVE PairInv
  OBVIOUS
<1>1. Fresh \in Cmds /\ Fresh.pc = "new" /\ Fresh.model = None /\ Fresh.todo = {}
      /\ Fresh.seen = Blind
  BY BlindView DEF Fresh, Cmds, Views, Stages
<1>2. \A c \in Commands : cmd[c] = Fresh
  BY DEF Init
<1>3. TypeOK
  BY <1>1, PairAssumption DEF Init, TypeOK, Models
<1>4. CallsKnown /\ StagesKnown
  BY <1>1, <1>2 DEF Init, CallsKnown, StagesKnown, IsUp
<1>5. PinnedEmpty
  BY <1>1, <1>2, BlindAnswers DEF Init, PinnedEmpty, Answers
<1>6. OneCommand /\ SeenCurrent /\ PeerFreed /\ CallsSafe /\ StopSettles
  BY <1>1, <1>2 DEF Init, OneCommand, SeenCurrent, PeerFreed, CallsSafe, StopSettles, Under, At
<1>7. PairStaysConsistent
  BY PeerKnown DEF Init, PairStaysConsistent, Consistent
<1> QED BY <1>3, <1>4, <1>5, <1>6, <1>7 DEF PairInv, Known, Current

LEMMA InvHolds == Spec => []PairInv
BY InitHolds, PairStep, PTL DEF Spec

(* Commands, reports and calls are of their types; an up always has a box. *)
THEOREM TypeCorrect == Spec => []TypeOK
<1>1. PairInv => TypeOK
  BY DEF PairInv
<1> QED BY <1>1, InvHolds, PTL

(* A command that nothing comes in between keeps a consistent pair so at    *)
(* every moment, whatever becomes of its calls: no engine ever shares a box *)
(* with the memory of a cluster.                                            *)
THEOREM ClusterAlone == Spec => []PairStaysConsistent
<1>1. PairInv => PairStaysConsistent
  BY DEF PairInv
<1> QED BY <1>1, InvHolds, PTL

\* A command succeeds at the end of its wait or of its stops.
LEMMA SuccessMoves ==
    ASSUME PairInv, [Next]_vars, NEW c \in Commands, cmd[c].pc # "ok",
           ~WaitReady(c), ~StopEnds(c)
    PROVE  cmd'[c].pc # "ok"
<1>1. TypeOK
  BY DEF PairInv
<1>2. ASSUME NEW d \in Commands, NEW p \in Stages \ {"ok"},
             End(d, p) \/ Goto(d, p) \/ Decided(d, p)
      PROVE  cmd'[c].pc # "ok"
  BY <1>1, <1>2, EndMoves, GotoMoves, DecidedMoves DEF Moves
<1>3. ASSUME NEW d \in Commands \ {c}, WaitReady(d) \/ StopEnds(d)
      PROVE  cmd'[c].pc # "ok"
  <2>1. \E p \in Stages : End(d, p)
    BY <1>3 DEF WaitReady, StopEnds, Stages, Ended
  <2> QED BY <1>1, <2>1, EndMoves DEF Moves
<1>4. ASSUME NEW d \in Commands,
             RefuseUp(d) \/ RefuseFreed(d) \/ WaitFails(d) \/ GiveUp(d)
      PROVE  cmd'[c].pc # "ok"
  <2>1. End(d, "failed") /\ "failed" \in Stages \ {"ok"}
    BY <1>4 DEF RefuseUp, RefuseFreed, WaitFails, GiveUp, Stages, Ended
  <2> QED BY <1>2, <2>1
<1>5. ASSUME NEW d \in Commands,
             UpServed(d) \/ FreeWorker(d) \/ FreeBox(d) \/ StartCluster(d) \/ StartSolo(d)
             \/ StartFreed(d)
      PROVE  cmd'[c].pc # "ok"
  <2>1. \E p \in Stages \ {"ok"} : Decided(d, p)
    BY <1>5 DEF UpServed, FreeWorker, FreeBox, StartCluster, StartSolo, StartFreed, Stages
  <2> QED BY <1>2, <2>1
<1>6. ASSUME NEW d \in Commands, DecideStop(d) PROVE cmd'[c].pc # "ok"
  <2>1. CASE End(d, "failed")
    BY <1>2, <2>1 DEF Stages, Ended
  <2>2. CASE ~End(d, "failed")
    <3>1. PICK t : cmd' = [cmd EXCEPT ![d].pc = "stopped", ![d].todo = t]
      BY <1>6, <2>2 DEF DecideStop
    <3>2. cmd'[c] = cmd[c] \/ cmd'[c] = [cmd[c] EXCEPT !.pc = "stopped", !.todo = t]
      BY <1>1, <3>1 DEF TypeOK
    <3> QED BY <1>1, <3>2 DEF TypeOK, Cmds
  <2> QED BY <2>1, <2>2
<1>7. ASSUME NEW d \in Commands, StopNext(d) PROVE cmd'[c].pc # "ok"
  <2>1. PICK t : \/ cmd' = [cmd EXCEPT ![d].pc = "stopping", ![d].todo = t]
                 \/ cmd' = [cmd EXCEPT ![d].todo = t, ![d].error = TRUE]
    <3>1. cmd[d] \in Cmds /\ cmd \in [Commands -> Cmds]
      BY <1>1 DEF TypeOK
    <3> QED BY <1>7, <3>1 DEF StopNext
  <2>2. \/ cmd'[c] = cmd[c]
        \/ cmd'[c] = [cmd[c] EXCEPT !.pc = "stopping", !.todo = t]
        \/ cmd'[c] = [cmd[c] EXCEPT !.todo = t, !.error = TRUE]
    BY <1>1, <2>1 DEF TypeOK
  <2> QED BY <1>1, <2>2 DEF TypeOK, Cmds
<1>8. ASSUME NEW d \in Commands, Begin(d) PROVE cmd'[c].pc # "ok"
  <2>1. PICK b, m : cmd' = [cmd EXCEPT ![d] = [Fresh EXCEPT !.pc = "read", !.model = m, !.box = b]]
    BY <1>8 DEF Begin
  <2>2. [Fresh EXCEPT !.pc = "read", !.model = m, !.box = b].pc = "read"
    BY DEF Fresh
  <2> QED BY <1>1, <2>1, <2>2 DEF TypeOK
<1>9. ASSUME NEW d \in Commands, NEW b \in Boxes, ReadBox(d, b) \/ MisreadBox(d, b)
      PROVE  cmd'[c].pc # "ok"
  <2>1. PICK r : cmd' = [cmd EXCEPT ![d].seen[b] = r]
    BY <1>9 DEF ReadBox, MisreadBox
  <2>2. cmd'[c] = cmd[c] \/ cmd'[c] = [cmd[c] EXCEPT !.seen = [cmd[d].seen EXCEPT ![b] = r]]
    BY <1>1, <2>1 DEF TypeOK
  <2> QED BY <1>1, <2>2 DEF TypeOK, Cmds
<1>10. ASSUME NEW call \in calls, Run(call) \/ RunFails(call) PROVE cmd'[c].pc # "ok"
  <2>1. CASE Run(call)
    BY <2>1, RunMoves
  <2>2. CASE RunFails(call)
    <3>1. cmd' = cmd \/ End(call.cmd, "failed")
      BY <2>2 DEF RunFails
    <3>2. call.cmd \in Commands /\ "failed" \in Stages \ {"ok"}
      BY <1>1 DEF TypeOK, Calls, Stages, Ended
    <3> QED BY <1>2, <3>1, <3>2
  <2> QED BY <1>10, <2>1, <2>2
<1>11. ASSUME NEW b \in Boxes, Load(b) \/ Exit(b) \/ Widget(b) PROVE cmd'[c].pc # "ok"
  BY <1>11 DEF Load, Exit, Widget
<1>12. CASE UNCHANGED vars
  BY <1>12 DEF vars
<1>13. CASE Next
  BY <1>3, <1>4, <1>5, <1>6, <1>7, <1>8, <1>9, <1>10, <1>11, <1>13, NextCases
<1> QED BY <1>12, <1>13

(* Such a command has done what it reports when it succeeds, whatever state *)
(* the pair was in before.                                                  *)
THEOREM SuccessMeansDone == Spec => SuccessIsDelivered
<1> DEFINE Told == \A c \in Commands : lone /\ Under(c) /\ cmd'[c].pc = "ok" => Delivered(c)'
<1>1. ASSUME PairInv, [Next]_vars, NEW c \in Commands, lone, Under(c), cmd'[c].pc = "ok"
      PROVE  Delivered(c)'
  <2>1. /\ TypeOK /\ StagesKnown /\ StopSettles /\ cmd[c] \in Cmds /\ cmd[c].pc # "ok"
        /\ cmd[c].box \in Boxes \cup {None} /\ None \notin ClusterModels
    BY <1>1, CmdFields, PairAssumption DEF PairInv, Known, Current, TypeOK, Under, Ended, Models
  <2>2. CASE WaitReady(c)
    <3>1. /\ cmd'[c].model = cmd[c].model /\ cmd'[c].box = cmd[c].box
          /\ UNCHANGED <<engine, ready>> /\ cmd[c].box \in ready
          /\ engine[cmd[c].box] = cmd[c].model
          /\ IsUp(c)
      BY <2>1, <2>2, EndMoves DEF WaitReady, Moves, Stages, Ended, world, StagesKnown, At
    <3> QED BY <3>1 DEF Delivered, IsUp
  <2>3. CASE StopEnds(c)
    <3>1. At(c, "stopped") /\ cmd[c].todo = {} /\ ~IsUp(c) /\ UNCHANGED world
      BY <2>1, <2>3 DEF StopEnds, StagesKnown, At
    <3>2. /\ cmd'[c].model = cmd[c].model /\ cmd'[c].box = cmd[c].box /\ ~cmd[c].error
      BY <1>1, <2>1, <2>3, EndMoves DEF StopEnds, Moves, Stages, Ended
    <3>3. \A b \in Boxes : Settled(c, b) => engine[b] = None
      BY <3>1, <3>2 DEF Settled, At
    <3>4. cmd[c].box # None => Peer(cmd[c].box) \in Boxes
      BY <2>1, PeerKnown
    <3>5. CASE cmd[c].box = None
      BY <1>1, <2>1, <3>1, <3>2, <3>3, <3>5
         DEF StopSettles, Delivered, IsUp, Pinned, world
    <3>6. CASE cmd[c].box # None
      <4>1. engine[cmd[c].box] = None /\ (sane => ~Clients(cmd[c].box))
        BY <1>1, <2>1, <3>1, <3>3, <3>4, <3>6 DEF StopSettles, Clients
      <4> QED BY <3>1, <3>2, <3>6, <4>1 DEF Delivered, IsUp, world, Clients
    <3> QED BY <3>5, <3>6
  <2>4. CASE ~WaitReady(c) /\ ~StopEnds(c)
    BY <1>1, <2>1, <2>4, SuccessMoves
  <2> QED BY <2>2, <2>3, <2>4
<1>2. PairInv /\ [Next]_vars => [Told]_vars
  BY <1>1
<1> QED BY <1>2, InvHolds, PTL DEF Spec, SuccessIsDelivered, Told

\* The calls of a step go to boxes without a service, unless a probe or a widget
\* came in between at some time.
LEMMA CallsUnpinned ==
    ASSUME PairInv, [Next]_vars, NEW call \in calls' \ calls, missed = 0, acts = 0
    PROVE  ~Pinned(call.box)
<1>1. /\ TypeOK /\ StagesKnown /\ PinnedEmpty /\ None \notin ClusterModels
      /\ \A b \in Boxes : Peer(b) \in Boxes
  BY PeerKnown, PairAssumption DEF PairInv, Known, Models
<1>2. ASSUME NEW c \in Commands, NEW b, NEW m, Send(c, b, m), ~Pinned(b)
      PROVE  ~Pinned(call.box)
  BY <1>2 DEF Send
<1>3. ASSUME NEW c \in Commands, FreeWorker(c) PROVE ~Pinned(call.box)
  <2>1. Send(c, Peer(cmd[c].box), None) /\ ~Pinned(Peer(cmd[c].box))
    BY <1>3 DEF FreeWorker, MayUp
  <2> QED BY <1>2, <2>1
<1>4. ASSUME NEW c \in Commands, FreeBox(c) PROVE ~Pinned(call.box)
  <2>1. Send(c, Peer(cmd[c].box), None) /\ Decides(c) /\ IsUp(c)
    BY <1>4 DEF FreeBox, MayUp
  <2>2. Peer(cmd[c].box) \in Boxes
    BY <1>1, <2>1, Deciding
  <2>3. Peer(cmd[c].box) \in Masters(c)
    BY <1>4 DEF FreeBox, Role
  <2>4. ~Pinned(Peer(cmd[c].box))
    BY <1>1, <2>2, <2>3 DEF Masters, PinnedEmpty
  <2> QED BY <1>2, <2>1, <2>4
<1>5. ASSUME NEW c \in Commands, StartCluster(c) \/ StartSolo(c) \/ StartFreed(c)
      PROVE  ~Pinned(call.box)
  <2>1. Send(c, cmd[c].box, cmd[c].model) /\ IsUp(c)
    BY <1>1, <1>5 DEF StartCluster, StartSolo, StartFreed, MayUp, StagesKnown, At
  <2> QED BY <1>1, <1>2, <2>1 DEF StagesKnown
<1>6. ASSUME NEW c \in Commands, StopNext(c) PROVE ~Pinned(call.box)
  <2>1. \E b \in cmd[c].todo : Send(c, b, None)
    BY <1>6 DEF StopNext
  <2> QED BY <1>1, <1>2, <2>1 DEF StagesKnown
<1>7. CASE calls' \subseteq calls
  BY <1>7
<1>8. CASE UNCHANGED vars
  BY <1>8 DEF vars
<1>9. CASE Next
  <2>1. ASSUME NEW c \in Commands,
               \/ Begin(c) \/ RefuseUp(c) \/ UpServed(c) \/ RefuseFreed(c) \/ WaitReady(c)
               \/ WaitFails(c) \/ DecideStop(c) \/ StopEnds(c) \/ GiveUp(c)
        PROVE  calls' \subseteq calls
    BY <2>1 DEF Begin, RefuseUp, UpServed, RefuseFreed, WaitReady, WaitFails, DecideStop,
                StopEnds, GiveUp
  <2>2. ASSUME NEW c \in Commands, NEW b \in Boxes, ReadBox(c, b) \/ MisreadBox(c, b)
        PROVE  calls' \subseteq calls
    BY <2>2 DEF ReadBox, MisreadBox
  <2>3. ASSUME NEW x \in calls, Run(x) \/ RunFails(x) PROVE calls' \subseteq calls
    BY <2>3 DEF Run, RunFails
  <2>4. ASSUME NEW b \in Boxes, Load(b) \/ Exit(b) \/ Widget(b) PROVE calls' \subseteq calls
    BY <2>4 DEF Load, Exit, Widget
  <2> QED BY <1>3, <1>4, <1>5, <1>6, <1>7, <1>9, <2>1, <2>2, <2>3, <2>4, NextCases
<1> QED BY <1>8, <1>9

(* While no widget is used and no probe misses a service, no command sends a *)
(* call to a box with an always-on service.                                 *)
THEOREM ServicesLeftAlone == Spec => PinnedLeftAlone
<1> DEFINE Alone == \A call \in calls' \ calls : Pinned(call.box) => missed > 0 \/ acts > 0
<1>1. ASSUME PairInv, [Next]_vars PROVE [Alone]_vars
  <2>1. missed \in Nat /\ acts \in Nat
    BY <1>1 DEF PairInv, TypeOK
  <2> QED BY <1>1, <2>1, CallsUnpinned
<1> QED BY <1>1, InvHolds, PTL DEF Spec, PinnedLeftAlone, Alone
=============================================================================

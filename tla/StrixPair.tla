------------------------------ MODULE StrixPair ------------------------------
(***************************************************************************)
(* The Strix Halo pair, ADR 0013 and 0019: up and stop of                  *)
(* spark_serve_strix.py, which keep the two boxes consistent from the Mac  *)
(* without a lock of their own.  A command reads both boxes, decides, and  *)
(* then sends halo-ctl calls, each of which one box runs under its own     *)
(* lock.  halo-ctl, its GNOME widget and the engines are outside src/.     *)
(*                                                                         *)
(* The cluster runs on its master and holds the memory of the other box,   *)
(* whose ggml-rpc-server then has an established connection.  Models are   *)
(* abstracted to those of one box and those of the cluster; whether        *)
(* halo-ctl lists a model and the rpc service is active is left open.      *)
(***************************************************************************)
EXTENDS Naturals

CONSTANTS Boxes,        \* the two [strix] hosts
          SoloModels,   \* models of one box
          ClusterModels,
          Configs,      \* the [strix] tables considered, see Config
          Commands,     \* up and stop commands entered on the Mac
          WidgetActs,   \* how often a box's own widget is used
          Misreads,     \* how often a probe misses the name a service answers
          None

Models == SoloModels \cup ClusterModels

\* services: the boxes with an always-on service; master: [strix] master.
Config == [services : SUBSET Boxes, master : Boxes \cup {None}]

ASSUME PairAssumption ==
    /\ \E a, b \in Boxes : a # b /\ Boxes = {a, b}
    /\ SoloModels \cap ClusterModels = {} /\ None \notin Models \cup Boxes
    /\ Configs \subseteq Config
    /\ WidgetActs \in Nat /\ Misreads \in Nat

VARIABLES
    config,  \* the [strix] table, fixed
    engine,  \* engine[b]: the model halo-ctl runs on the box, or None
    ready,   \* the boxes whose engine has loaded
    cmd,     \* cmd[c]: a command on the Mac
    calls,   \* halo-ctl calls that are on their way or waiting for a box's lock
    acts,    \* widget acts so far
    missed,  \* probes that missed a service's name so far
    lone,    \* history: nothing came in between since the newest command began
    sane     \* history: and the pair was consistent then

vars == <<config, engine, ready, cmd, calls, acts, missed, lone, sane>>
world == <<config, engine, ready, acts, missed, lone, sane>>

Peer(b) == CHOOSE p \in Boxes : p # b

\* What a command knows of a box: not read yet, no answer, or halo-ctl's report
\* and whether its rpc server has clients.
Reports == [model : Models \cup {None}, ready : BOOLEAN, clients : BOOLEAN]
Unread == [model |-> "unread"]
NoAnswer == [model |-> "no answer"]
Calls == [cmd : Commands, box : Boxes, model : Models \cup {None}]

Ended == {"ok", "failed"}
Stages == {"new", "read", "freeing", "freed", "starting", "waiting", "stopping",
           "stopped"} \cup Ended

\* A command: up of a model on a box, or stop of a box or of every box; todo are
\* the boxes that are still to be stopped, error whether one was passed over.
Cmds == [pc : Stages, model : Models \cup {None}, box : Boxes \cup {None},
         todo : SUBSET Boxes, error : BOOLEAN,
         seen : [Boxes -> Reports \cup {Unread, NoAnswer}]]

TypeOK ==
    /\ config \in Config
    /\ engine \in [Boxes -> Models \cup {None}]
    /\ ready \subseteq Boxes
    /\ cmd \in [Commands -> Cmds]
    /\ \A c \in Commands : cmd[c].model # None => cmd[c].box # None
    /\ calls \subseteq Calls
    /\ acts \in 0..WidgetActs
    /\ missed \in 0..Misreads
    /\ lone \in BOOLEAN /\ sane \in BOOLEAN

Blind == [b \in Boxes |-> Unread]
Fresh == [pc |-> "new", model |-> None, box |-> None, todo |-> {}, error |-> FALSE,
          seen |-> Blind]

\* Nothing runs yet; what runs before a command is up to the widget and to the
\* commands before it.
Init ==
    /\ config \in Configs
    /\ engine = [b \in Boxes |-> None]
    /\ ready = {}
    /\ cmd = [c \in Commands |-> Fresh]
    /\ calls = {}
    /\ acts = 0 /\ missed = 0
    /\ lone = TRUE /\ sane = TRUE

-----------------------------------------------------------------------------
(* The view of the pair.                                                   *)

At(c, pc) == cmd[c].pc = pc
Goto(c, pc) == cmd' = [cmd EXCEPT ![c].pc = pc]
Decided(c, pc) == cmd' = [cmd EXCEPT ![c].pc = pc, ![c].seen = Blind]
Under(c) == cmd[c].pc \notin {"new"} \cup Ended

\* A command ends and forgets what it has seen.
End(c, pc) == cmd' = [cmd EXCEPT ![c].pc = pc, ![c].todo = {}, ![c].seen = Blind]

IsUp(c) == cmd[c].model # None
IsCluster(c) == cmd[c].model \in ClusterModels

Answers(c, b) == cmd[c].seen[b] \notin {Unread, NoAnswer}

\* _pair: who runs the cluster, and who holds its memory.
Masters(c) == {b \in Boxes : Answers(c, b) /\ cmd[c].seen[b].model \in ClusterModels}
Role(c, b) ==
    IF b \in Masters(c) THEN "master"
    ELSE IF Peer(b) \in Masters(c) \/ (Answers(c, b) /\ cmd[c].seen[b].clients)
         THEN "worker" ELSE "none"

Busy(c, b) == Answers(c, b) /\ cmd[c].seen[b].model # None
Pinned(b) == b \in config.services

\* Masters keep a connection to the rpc server of the other box.
Clients(b) == engine[Peer(b)] \in ClusterModels

\* The rule of the pair: a cluster has both boxes for itself.
Consistent == \A b \in Boxes : Clients(b) => engine[b] = None

-----------------------------------------------------------------------------
(* Commands.                                                               *)

\* Mutant: an up need not name its box.
BeginUnnamed(c) ==
    /\ At(c, "new")
    /\ \E b \in Boxes \cup {None}, m \in Models \cup {None} :
         /\ m # None => ~Pinned(b)
         /\ m \in ClusterModels => config.master \in {None, b}
         /\ cmd' = [cmd EXCEPT ![c] = [Fresh EXCEPT !.pc = "read", !.model = m, !.box = b]]
    /\ LET alone == calls = {} /\ \A d \in Commands : ~Under(d) IN
         /\ lone' = alone
         /\ sane' = (alone /\ Consistent)
    /\ UNCHANGED <<config, engine, ready, calls, acts, missed>>

\* The arguments are checked before anything is read: an up runs on a box that
\* has no always-on service, a cluster on the pinned master if there is one.
\* stop names a box or none, which is every box.
Begin(c) ==
    /\ At(c, "new")
    /\ \E b \in Boxes \cup {None}, m \in Models \cup {None} :
         /\ m # None => b # None /\ ~Pinned(b)
         /\ m \in ClusterModels => config.master \in {None, b}
         /\ cmd' = [cmd EXCEPT ![c] = [Fresh EXCEPT !.pc = "read", !.model = m, !.box = b]]
    /\ LET alone == calls = {} /\ \A d \in Commands : ~Under(d) IN
         /\ lone' = alone
         /\ sane' = (alone /\ Consistent)
    /\ UNCHANGED <<config, engine, ready, calls, acts, missed>>

\* status reads the boxes in parallel, each at its own time.
ReadBox(c, b) ==
    /\ At(c, "read")
    /\ cmd[c].seen[b] = Unread
    /\ \E report \in {NoAnswer, [model |-> engine[b], ready |-> b \in ready,
                                 clients |-> Clients(b)]} :
         cmd' = [cmd EXCEPT ![c].seen[b] = report]
    /\ UNCHANGED <<world, calls>>

\* halo-ctl takes an always-on service on :8081 for a cluster that is ready.
\* _box corrects that by the name the service answers; when that one request
\* gets no answer in its three seconds, the report stands.
MisreadBox(c, b) ==
    /\ At(c, "read")
    /\ cmd[c].seen[b] = Unread /\ Pinned(b) /\ engine[b] = None
    /\ missed < Misreads
    /\ \E m \in ClusterModels :
         cmd' = [cmd EXCEPT ![c].seen[b] = [model |-> m, ready |-> TRUE,
                                            clients |-> Clients(b)]]
    /\ missed' = missed + 1
    /\ lone' = FALSE /\ sane' = FALSE
    /\ UNCHANGED <<config, engine, ready, calls, acts>>

Decides(c) == At(c, "read") /\ \A b \in Boxes : cmd[c].seen[b] # Unread

Send(c, b, m) == calls' = calls \cup {[cmd |-> c, box |-> b, model |-> m]}

\* Serving a model that is not on the box's disk is refused, and so is a cluster
\* whose worker's rpc service is not active: always possible.
RefuseUp(c) ==
    /\ Decides(c) /\ IsUp(c)
    /\ End(c, "failed")
    /\ UNCHANGED <<world, calls>>

\* The box must answer, and for a cluster so must the other one, which may have
\* no always-on service.
MayUp(c) ==
    /\ Decides(c) /\ IsUp(c)
    /\ Answers(c, cmd[c].box)
    /\ IsCluster(c) => Answers(c, Peer(cmd[c].box)) /\ ~Pinned(Peer(cmd[c].box))

Serves(c) == Role(c, cmd[c].box) = "master" /\ cmd[c].seen[cmd[c].box].model = cmd[c].model

\* The cluster runs already: wait for it.
UpServed(c) ==
    /\ MayUp(c) /\ IsCluster(c) /\ Serves(c)
    /\ Decided(c, "waiting")
    /\ UNCHANGED <<world, calls>>

\* What the cluster needs is taken: the other box is stopped first.
FreeWorker(c) ==
    /\ MayUp(c) /\ IsCluster(c) /\ ~Serves(c)
    /\ Busy(c, Peer(cmd[c].box))
    /\ Send(c, Peer(cmd[c].box), None)
    /\ Decided(c, "freeing")
    /\ UNCHANGED world

\* The worker is free, or its client is the master that is replaced here.
StartCluster(c) ==
    /\ MayUp(c) /\ IsCluster(c) /\ ~Serves(c)
    /\ ~Busy(c, Peer(cmd[c].box))
    /\ \/ Role(c, cmd[c].box) = "master"
       \/ ~cmd[c].seen[Peer(cmd[c].box)].clients
    /\ Send(c, cmd[c].box, cmd[c].model)
    /\ Decided(c, "starting")
    /\ UNCHANGED world

\* The box is a worker: its master is stopped first, and must be in sight.
FreeBox(c) ==
    /\ MayUp(c) /\ ~IsCluster(c)
    /\ Role(c, cmd[c].box) = "worker"
    /\ Role(c, Peer(cmd[c].box)) = "master"
    /\ Send(c, Peer(cmd[c].box), None)
    /\ Decided(c, "freeing")
    /\ UNCHANGED world

\* Mutant: only a master in sight makes a box a worker.
StartSoloBlind(c) ==
    /\ MayUp(c) /\ ~IsCluster(c)
    /\ Peer(cmd[c].box) \notin Masters(c)
    /\ Send(c, cmd[c].box, cmd[c].model)
    /\ Decided(c, "starting")
    /\ UNCHANGED world

StartSolo(c) ==
    /\ MayUp(c) /\ ~IsCluster(c)
    /\ Role(c, cmd[c].box) # "worker"
    /\ Send(c, cmd[c].box, cmd[c].model)
    /\ Decided(c, "starting")
    /\ UNCHANGED world

\* The other box was stopped.  A cluster starts without a further look; before a
\* model of one box the rpc server must have lost its client.
StartFreed(c) ==
    /\ At(c, "freed")
    /\ IsCluster(c) \/ ~Clients(cmd[c].box)
    /\ Send(c, cmd[c].box, cmd[c].model)
    /\ Decided(c, "starting")
    /\ UNCHANGED world

\* The rpc server is still in use, or the look fails.
RefuseFreed(c) ==
    /\ At(c, "freed") /\ ~IsCluster(c)
    /\ End(c, "failed")
    /\ UNCHANGED <<world, calls>>

\* _wait_ready, each time the box answers: an answer that is ready ends the
\* wait, and so does an engine that is gone or is another one.
WaitReady(c) ==
    /\ At(c, "waiting")
    /\ cmd[c].box \in ready
    /\ engine[cmd[c].box] = cmd[c].model
    /\ End(c, "ok")
    /\ UNCHANGED <<world, calls>>

\* The engine is gone, is another one, serves another model, or time is up.
WaitFails(c) ==
    /\ At(c, "waiting")
    /\ End(c, "failed")
    /\ UNCHANGED <<world, calls>>

\* stop of a worker also stops its master, and without a box every box is stopped.
Targets(c) == IF cmd[c].box = None \/ Role(c, cmd[c].box) = "worker" THEN Boxes
              ELSE {cmd[c].box}

\* Masters come first, so that their workers let go before anything else stops.
Comes(c, b) ==
    IF cmd[c].box = None
    THEN Role(c, b) = "master" \/ \A d \in cmd[c].todo : Role(c, d) # "master"
    ELSE b # cmd[c].box \/ cmd[c].todo = {b}

\* Mutant: only the box that was named is checked for a service.
DecideStopNamed(c) ==
    /\ Decides(c) /\ ~IsUp(c)
    /\ IF cmd[c].box # None /\ Pinned(cmd[c].box)
       THEN End(c, "failed")
       ELSE cmd' = [cmd EXCEPT ![c].pc = "stopped", ![c].todo = Targets(c)]
    /\ UNCHANGED <<world, calls>>

\* A pinned box is refused by name and passed over otherwise.
DecideStop(c) ==
    /\ Decides(c) /\ ~IsUp(c)
    /\ IF cmd[c].box # None /\ \E b \in Targets(c) : Pinned(b)
       THEN End(c, "failed")
       ELSE cmd' = [cmd EXCEPT ![c].pc = "stopped",
                               ![c].todo = {b \in Targets(c) : ~Pinned(b)}]
    /\ UNCHANGED <<world, calls>>

\* A box that did not answer is passed over and makes the command fail at its end.
StopNext(c) ==
    /\ At(c, "stopped")
    /\ \E b \in cmd[c].todo :
         /\ Comes(c, b)
         /\ IF Answers(c, b)
            THEN /\ cmd' = [cmd EXCEPT ![c].pc = "stopping", ![c].todo = @ \ {b}]
                 /\ Send(c, b, None)
            ELSE /\ cmd' = [cmd EXCEPT ![c].todo = @ \ {b}, ![c].error = TRUE]
                 /\ UNCHANGED calls
    /\ UNCHANGED world

\* Mutant: a box that was passed over does not count.
StopEndsOk(c) ==
    /\ At(c, "stopped") /\ cmd[c].todo = {}
    /\ End(c, "ok")
    /\ UNCHANGED <<world, calls>>

StopEnds(c) ==
    /\ At(c, "stopped") /\ cmd[c].todo = {}
    /\ End(c, IF cmd[c].error THEN "failed" ELSE "ok")
    /\ UNCHANGED <<world, calls>>

-----------------------------------------------------------------------------
(* halo-ctl on a box, and the connection to it.                            *)

InFlight(c) == At(c, "freeing") \/ At(c, "starting") \/ At(c, "stopping")
Awaits(c, call) == call.cmd = c /\ InFlight(c)

Replied(c) ==
    [freeing |-> "freed", starting |-> "waiting", stopping |-> "stopped"][cmd[c].pc]

\* halo-ctl replaces the box's own engine, whatever the other box does.  It
\* returns once the process stays up; loading is left to _wait_ready.  The call
\* of a command that has given up runs just the same.
Run(call) ==
    /\ engine' = [engine EXCEPT ![call.box] = call.model]
    /\ ready' = ready \ {call.box}
    /\ calls' = calls \ {call}
    /\ IF Awaits(call.cmd, call) THEN Goto(call.cmd, Replied(call.cmd))
       ELSE UNCHANGED cmd
    /\ UNCHANGED <<config, acts, missed, lone, sane>>

\* halo-ctl fails, before or after it stopped the old engine.
RunFails(call) ==
    /\ \E m \in {engine[call.box], None} : engine' = [engine EXCEPT ![call.box] = m]
    /\ ready' = IF engine'[call.box] = None THEN ready \ {call.box} ELSE ready
    /\ calls' = calls \ {call}
    /\ IF Awaits(call.cmd, call) THEN End(call.cmd, "failed") ELSE UNCHANGED cmd
    /\ UNCHANGED <<config, acts, missed, lone, sane>>

\* The connection breaks or the time is up: the call may still run, or is lost.
GiveUp(c) ==
    /\ InFlight(c)
    /\ End(c, "failed")
    /\ \/ UNCHANGED calls
       \/ calls' = {call \in calls : call.cmd # c}
    /\ UNCHANGED world

Load(b) ==
    /\ engine[b] # None /\ b \notin ready
    /\ ready' = ready \cup {b}
    /\ UNCHANGED <<config, engine, cmd, calls, acts, missed, lone, sane>>

Exit(b) ==
    /\ engine[b] # None
    /\ engine' = [engine EXCEPT ![b] = None]
    /\ ready' = ready \ {b}
    /\ UNCHANGED <<config, cmd, calls, acts, missed, lone, sane>>

\* The widget runs halo-ctl on its own box and sees nothing of the other.
Widget(b) ==
    /\ acts < WidgetActs
    /\ \E m \in (Models \cup {None}) \ {engine[b]} : engine' = [engine EXCEPT ![b] = m]
    /\ ready' = ready \ {b}
    /\ acts' = acts + 1
    /\ lone' = FALSE /\ sane' = FALSE
    /\ UNCHANGED <<config, cmd, calls, missed>>

Next ==
    \/ \E c \in Commands :
         \/ Begin(c) \/ RefuseUp(c) \/ UpServed(c)
         \/ FreeWorker(c) \/ StartCluster(c) \/ FreeBox(c) \/ StartSolo(c)
         \/ StartFreed(c) \/ RefuseFreed(c) \/ WaitReady(c) \/ WaitFails(c)
         \/ DecideStop(c) \/ StopNext(c) \/ StopEnds(c) \/ GiveUp(c)
         \/ \E b \in Boxes : ReadBox(c, b) \/ MisreadBox(c, b)
    \/ \E call \in calls : Run(call) \/ RunFails(call)
    \/ \E b \in Boxes : Load(b) \/ Exit(b) \/ Widget(b)

Spec == Init /\ [][Next]_vars

-----------------------------------------------------------------------------
(* Properties.                                                             *)

\* From a consistent pair, a command that nothing comes in between keeps it so
\* at every moment, whether it succeeds, fails or is cut off, and although a box
\* may not answer: the cluster never shares a box's memory with another engine.
\* (The order of the stops and starts in up and stop.)
PairStaysConsistent == sane => Consistent

\* A command that nothing comes in between has done what it reports when it
\* succeeds: up serves the model, and stop without a box has stopped every box
\* that has no always-on service, whatever state the pair was in before.  From a
\* consistent pair, stop of a box also frees it of the cluster it works for.
Delivered(c) ==
    \/ IsUp(c) /\ cmd[c].box \in ready /\ engine[cmd[c].box] = cmd[c].model
    \/ ~IsUp(c) /\ cmd[c].box = None /\ \A b \in Boxes : Pinned(b) \/ engine[b] = None
    \/ ~IsUp(c) /\ cmd[c].box # None /\ engine[cmd[c].box] = None
                /\ (sane => ~Clients(cmd[c].box))

SuccessIsDelivered ==
    [][\A c \in Commands :
         lone /\ Under(c) /\ cmd'[c].pc = "ok" => Delivered(c)']_vars

\* A box with an always-on service is sent no halo-ctl call (ADR 0019), by however
\* many commands, overlapping or cut off, as long as no probe has missed the name of
\* a service and no box's widget has been used.  After a use of any widget nothing
\* is claimed: it may start an engine on such a box, which may then be
\* stopped like any other.
PinnedLeftAlone ==
    [][\A call \in calls' \ calls :
         Pinned(call.box) => missed > 0 \/ acts > 0]_vars
=============================================================================

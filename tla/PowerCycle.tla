----------------------------- MODULE PowerCycle -----------------------------
(***************************************************************************)
(* Reboot and power-off of the Sparks: cmd_reboot, cmd_shutdown,           *)
(* issue_host_systemctl and wait_for_hosts of spark-serve, against later   *)
(* transitions (ADR 0012).  Everything happens inside Controller.switch,   *)
(* under controller.lock: the nodes are drained and verified idle, then    *)
(* systemctl is issued host by host over SSH, without the generation guard *)
(* of other remote commands, and the hosts are polled.  Of switch only the *)
(* lock, the drain and the failed record are kept; a command that is not a *)
(* reboot starts a workload on all hosts.                                  *)
(***************************************************************************)
CONSTANTS Hosts, Commands, None

ASSUME PowerAssumption == None \notin Commands

VARIABLES
    kind,       \* kind[c]: what command c does
    waits,      \* the commands without --no-wait
    pc,         \* pc[c]: where it is
    pending,    \* pending[c]: hosts of the loop it is in
    late,       \* the commands that have passed the deadline of their loop
    lock,       \* who holds controller.lock
    phase,      \* phase of controller.json
    power,      \* power[h] \in {"up", "off"}
    sent,       \* sent[h]: commands whose systemctl call is on its way to h
    accepted,   \* accepted[h]: commands whose systemctl h has accepted
    serving,    \* serving[h]: the command that started the workload of h
    down,       \* history: hosts that went down since the holder issued to them
    booted,     \* history: those that came up again
    misjudged   \* history: <<c, h>> if a failed poll of c took h for down while it was up

world == <<power, sent, accepted, serving, down, booted>>
vars == <<kind, waits, pc, pending, late, lock, phase, world, misjudged>>
cmds == <<kind, waits, pc, pending, late>>

Kinds == {"reboot", "poweroff", "up"}
Ended == {"launched", "rebooted", "powered_off", "ready", "failed", "killed", "refused"}
Issued == {"issuing", "going down", "coming up"}
Holding == {"draining", "idle"} \cup Issued
Labels == {"new"} \cup Holding \cup Ended
Phases == {"stopped", "draining", "rebooting", "powering_off", "ready", "failed"}

CommandTypes ==
    /\ kind \in [Commands -> Kinds] /\ waits \subseteq Commands
    /\ pc \in [Commands -> Labels]
    /\ pending \in [Commands -> SUBSET Hosts] /\ late \subseteq Commands

WorldTypes ==
    /\ lock \in Commands \cup {None} /\ phase \in Phases
    /\ power \in [Hosts -> {"up", "off"}]
    /\ sent \in [Hosts -> SUBSET Commands] /\ accepted \in [Hosts -> SUBSET Commands]
    /\ serving \in [Hosts -> Commands \cup {None}]
    /\ booted \subseteq down /\ down \subseteq Hosts
    /\ misjudged \subseteq Commands \X Hosts

\* Exactly the command inside switch holds the lock; who polls was told to wait.
Held ==
    \A c \in Commands :
        /\ pc[c] \in Holding <=> lock = c
        /\ pc[c] \in Issued => kind[c] # "up"
        /\ pc[c] \in {"going down", "coming up"} => c \in waits

TypeOK == CommandTypes /\ WorldTypes /\ Held

Init ==
    /\ kind \in [Commands -> Kinds] /\ waits \in SUBSET Commands
    /\ pc = [c \in Commands |-> "new"]
    /\ pending = [c \in Commands |-> {}] /\ late = {}
    /\ \A c \in Commands : kind[c] = "up" => c \in waits
    /\ lock = None
    /\ phase = "stopped"
    /\ power = [h \in Hosts |-> "up"]
    /\ sent = [h \in Hosts |-> {}] /\ accepted = [h \in Hosts |-> {}]
    /\ serving = [h \in Hosts |-> None]
    /\ down = {} /\ booted = {} /\ misjudged = {}

-----------------------------------------------------------------------------
(* switch.                                                                 *)

Goto(c, label) ==
    /\ pc' = [pc EXCEPT ![c] = label]
    /\ UNCHANGED <<kind, waits, pending, late>>

Loop(c, label, hosts) ==
    /\ pc' = [pc EXCEPT ![c] = label]
    /\ pending' = [pending EXCEPT ![c] = hosts] /\ late' = late \ {c}
    /\ UNCHANGED <<kind, waits>>

\* Leaving switch, with the phase it has saved.
Leave(c, label, saved) ==
    /\ Loop(c, label, {})
    /\ phase' = saved
    /\ lock' = None

Begin(c) ==
    /\ pc[c] = "new" /\ lock = None
    /\ Goto(c, "draining")
    /\ lock' = c /\ phase' = "draining"
    /\ UNCHANGED <<world, misjudged>>

\* The authentication plan fails, or another transition runs: nothing changed.
Refused(c) ==
    /\ pc[c] = "new"
    /\ Goto(c, "refused")
    /\ UNCHANGED <<lock, phase, world, misjudged>>

Idling == [up |-> "stopped", reboot |-> "rebooting", poweroff |-> "powering_off"]

\* Both hosts are fenced, drained and found idle.
Drain(c) ==
    /\ pc[c] = "draining"
    /\ \A h \in Hosts : power[h] = "up"
    /\ serving' = [h \in Hosts |-> None]
    /\ IF kind[c] = "up" THEN Goto(c, "idle") ELSE Loop(c, "issuing", Hosts)
    /\ phase' = Idling[kind[c]]
    /\ IF kind[c] = "up" THEN UNCHANGED <<down, booted>> ELSE down' = {} /\ booted' = {}
    /\ UNCHANGED <<lock, power, sent, accepted, misjudged>>

\* Any call of the transition fails; its cleanup needs no more than the record.
Fail(c) ==
    /\ pc[c] \in {"draining", "idle"}
    /\ Leave(c, "failed", "failed")
    /\ UNCHANGED <<world, misjudged>>

Launch(c) ==
    /\ pc[c] = "idle"
    /\ \A h \in Hosts : power[h] = "up"
    /\ serving' = [h \in Hosts |-> c]
    /\ Leave(c, "ready", "ready")
    /\ UNCHANGED <<power, sent, accepted, down, booted, misjudged>>

Kill(c) ==
    /\ pc[c] \in Holding
    /\ Leave(c, "killed", phase)
    /\ UNCHANGED <<world, misjudged>>

-----------------------------------------------------------------------------
(* after_idle: issue and wait.                                             *)

Asked(c, h) == pc[c] = "issuing" /\ h \in pending[c]
Tick(c, h) ==
    /\ pending' = [pending EXCEPT ![c] = @ \ {h}]
    /\ UNCHANGED <<kind, waits, pc, late>>

\* systemctl --no-block has queued the job.
Issue(c, h) ==
    /\ Asked(c, h) /\ power[h] = "up"
    /\ accepted' = [accepted EXCEPT ![h] = @ \cup {c}]
    /\ down' = down \ {h} /\ booted' = booted \ {h}
    /\ Tick(c, h)
    /\ UNCHANGED <<lock, phase, power, sent, serving, misjudged>>

\* With a sudo password, an SSH that could not connect counts as issued.
IssueUnheard(c, h) ==
    /\ Asked(c, h)
    /\ Tick(c, h)
    /\ UNCHANGED <<lock, phase, world, misjudged>>

\* sudo refuses, or the call times out and may still get through.
IssueFails(c, h) ==
    /\ Asked(c, h)
    /\ \/ UNCHANGED sent
       \/ sent' = [sent EXCEPT ![h] = @ \cup {c}]
    /\ Leave(c, "failed", "failed")
    /\ UNCHANGED <<power, accepted, serving, down, booted, misjudged>>

\* A mutant: --no-wait is not looked at.
AllIssuedWaits(c) ==
    /\ pc[c] = "issuing" /\ pending[c] = {}
    /\ Loop(c, "going down", Hosts)
    /\ UNCHANGED <<lock, phase, world, misjudged>>

AllIssued(c) ==
    /\ pc[c] = "issuing" /\ pending[c] = {}
    /\ IF c \in waits THEN Loop(c, "going down", Hosts) /\ UNCHANGED <<lock, phase>>
       ELSE Leave(c, "launched", "stopped")
    /\ UNCHANGED <<world, misjudged>>

Polling(c, label, h) == pc[c] = label /\ c \notin late /\ h \in pending[c]

SeesDown(c, h) ==
    /\ Polling(c, "going down", h) /\ power[h] = "off"
    /\ Tick(c, h)
    /\ UNCHANGED <<lock, phase, world, misjudged>>

\* SSH to a host that is up fails: it counts as down, too.
SeesOutage(c, h) ==
    /\ Polling(c, "going down", h) /\ power[h] = "up"
    /\ misjudged' = misjudged \cup {<<c, h>>}
    /\ Tick(c, h)
    /\ UNCHANGED <<lock, phase, world>>

\* A mutant: one host that is down is enough.
AllDownAny(c) ==
    /\ pc[c] = "going down" /\ pending[c] # Hosts
    /\ IF kind[c] = "reboot"
       THEN Loop(c, "coming up", Hosts) /\ UNCHANGED <<lock, phase>>
       ELSE Leave(c, "powered_off", "stopped")
    /\ UNCHANGED <<world, misjudged>>

AllDown(c) ==
    /\ pc[c] = "going down" /\ pending[c] = {}
    /\ IF kind[c] = "reboot"
       THEN Loop(c, "coming up", Hosts) /\ UNCHANGED <<lock, phase>>
       ELSE Leave(c, "powered_off", "stopped")
    /\ UNCHANGED <<world, misjudged>>

SeesUp(c, h) ==
    /\ Polling(c, "coming up", h) /\ power[h] = "up"
    /\ Tick(c, h)
    /\ UNCHANGED <<lock, phase, world, misjudged>>

AllUp(c) ==
    /\ pc[c] = "coming up" /\ pending[c] = {}
    /\ Leave(c, "rebooted", "stopped")
    /\ UNCHANGED <<world, misjudged>>

Deadline(c) ==
    /\ pc[c] \in {"going down", "coming up"} /\ c \notin late
    /\ late' = late \cup {c}
    /\ UNCHANGED <<kind, waits, pc, pending, lock, phase, world, misjudged>>

\* A mutant: there is no deadline for the hosts to go down.
TimeOutUp(c) ==
    /\ pc[c] = "coming up" /\ c \in late /\ pending[c] # {}
    /\ Leave(c, "failed", "failed")
    /\ UNCHANGED <<world, misjudged>>

\* The reboot did not take effect, or the host did not come back.
TimeOut(c) ==
    /\ pc[c] \in {"going down", "coming up"} /\ c \in late /\ pending[c] # {}
    /\ Leave(c, "failed", "failed")
    /\ UNCHANGED <<world, misjudged>>

-----------------------------------------------------------------------------
(* The hosts.                                                              *)

\* A call that outlived its client.
Arrives(h, c) ==
    /\ c \in sent[h]
    /\ sent' = [sent EXCEPT ![h] = @ \ {c}]
    /\ accepted' = IF power[h] = "up" THEN [accepted EXCEPT ![h] = @ \cup {c}] ELSE accepted
    /\ UNCHANGED <<cmds, lock, phase, power, serving, down, booted, misjudged>>

\* The host goes down, and with it the workload and all queued jobs.
GoesDown(h) ==
    /\ accepted[h] # {} /\ power[h] = "up"
    /\ power' = [power EXCEPT ![h] = "off"]
    /\ accepted' = [accepted EXCEPT ![h] = {}]
    /\ serving' = [serving EXCEPT ![h] = None]
    /\ down' = down \cup {h}
    /\ UNCHANGED <<cmds, lock, phase, sent, booted, misjudged>>

\* It boots, or somebody presses its power button.
Boots(h) ==
    /\ power[h] = "off"
    /\ power' = [power EXCEPT ![h] = "up"]
    /\ booted' = booted \cup ({h} \cap down)
    /\ UNCHANGED <<cmds, lock, phase, sent, accepted, serving, down, misjudged>>

-----------------------------------------------------------------------------
Step(c) ==
    \/ Drain(c) \/ Fail(c) \/ Launch(c) \/ AllIssued(c) \/ AllDown(c) \/ AllUp(c)
    \/ Deadline(c) \/ TimeOut(c)
    \/ \E h \in Hosts : \/ Issue(c, h) \/ IssueUnheard(c, h) \/ IssueFails(c, h)
                        \/ SeesDown(c, h) \/ SeesOutage(c, h) \/ SeesUp(c, h)

Host(h) == GoesDown(h) \/ Boots(h) \/ \E c \in Commands : Arrives(h, c)

Next ==
    \/ \E c \in Commands : Begin(c) \/ Refused(c) \/ Kill(c) \/ Step(c)
    \/ \E h \in Hosts : Host(h)

Spec == Init /\ [][Next]_vars

\* SSH calls have timeouts and the loops deadlines; hosts owe nothing.
FairSpec == Spec /\ \A c \in Commands : WF_vars(Step(c))

-----------------------------------------------------------------------------
(* A reboot that reports success has rebooted every host, and a power-off  *)
(* has taken every host down, since systemctl was issued to it; except     *)
(* hosts whose SSH failed while they were up, which wait_for_hosts cannot  *)
(* tell from a host that is down.                                          *)
ReportedMeansDone ==
    [][\A c \in Commands : pc'[c] # pc[c] =>
         \A h \in Hosts : <<c, h>> \notin misjudged =>
             /\ pc'[c] = "rebooted" => h \in booted
             /\ pc'[c] = "powered_off" => h \in down]_vars

(* No workload is taken down by a reboot or power-off unless that command  *)
(* did not wait for it: it was told not to, failed, was killed, or         *)
(* misjudged an outage.  So a transition may follow a reported one.        *)
RebootSparesWorkloads ==
    [][\A h \in Hosts : serving[h] # None /\ power'[h] = "off" =>
         \E c \in accepted[h] : \/ pc[c] \in {"launched", "failed", "killed"}
                                \/ <<c, h>> \in misjudged]_vars

(* No reboot keeps controller.lock for ever.                               *)
LockIsReleased == []<>(lock = None)
=============================================================================

------------------------------- MODULE Startup -------------------------------
(***************************************************************************)
(* The start of a model on idle Sparks: _bring_up and _bring_up_nim of     *)
(* spark-serve, with _StartupMonitor, wait_models and wait_ready.  It runs *)
(* inside Controller.switch, which cleans up when it fails; the order of   *)
(* its commands against other transitions is the subject of NodeFence.     *)
(*                                                                         *)
(* A launch starts one container per rank, watches exactly the identities  *)
(* it was told, and polls the API on the head, which is rank Head.  SSH    *)
(* calls are steps, and whatever happens on the Sparks happens in between. *)
(***************************************************************************)
CONSTANTS Launches,  \* the launches considered, see Launch
          AllRanks,  \* ranks of a model: the code has 0 and 1
          Head

\* ranks: what the model needs; first: the rank started first; nim: rank 0
\* must advertise its address before rank 1 starts; path: readiness is asked
\* at two URLs; noWait: --no-wait.
Launch == [ranks : SUBSET AllRanks, first : AllRanks, nim : BOOLEAN,
           path : BOOLEAN, noWait : BOOLEAN]

ASSUME LaunchAssumption ==
    /\ Launches \subseteq Launch
    /\ \A l \in Launches : {l.first, Head} \subseteq l.ranks

VARIABLES
    launch,      \* fixed
    pc,          \* where the CLI is
    unstarted,   \* ranks that have not been started
    known,       \* monitor.containers: ranks whose identity was understood
    after,       \* what follows a check of the containers
    todo,        \* containers still to be inspected, or to be read
    bad,         \* the check has seen a container that is not fine
    late,        \* the deadline of the loop has passed
    evidence,    \* ranks in the startup diagnostics
    box,         \* box[r]: the container this launch created for rank r
    advertised,  \* rank 0 has printed NIM_PRIMARY_NODE
    serving,     \* the head answers for this launch
    leftover,    \* something else answers on the port with the same name
    printed,     \* history: ranks whose launch printed an identity
    missed,      \* history: the first probe got no answer from the leftover
    ours,        \* history: the last probe was answered by this launch
    dead         \* history: ranks that were not running at the last probe

cli == <<pc, unstarted, known, after, todo, bad, late, evidence>>
sparks == <<box, advertised, serving, leftover>>
history == <<printed, missed, ours, dead>>
vars == <<launch, cli, sparks, history>>

Ended == {"ready", "launched", "failed"}
Loops == {"handshake", "waiting"}
Checked == {"logs", "path", "loop", "ready"}

TypeOK ==
    /\ launch \in Launches
    /\ pc \in {"probing", "starting", "logs", "path", "models", "checking",
               "gathering"} \cup Loops \cup Ended
    /\ after \in Checked
    /\ unstarted \subseteq launch.ranks
    /\ known \subseteq launch.ranks \ unstarted
    /\ todo \subseteq known /\ evidence \subseteq known
    /\ bad \in BOOLEAN /\ late \in BOOLEAN /\ missed \in BOOLEAN /\ ours \in BOOLEAN
    /\ advertised \in BOOLEAN /\ serving \in BOOLEAN /\ leftover \in BOOLEAN
    /\ box \in [AllRanks -> {"none", "created", "running", "stopped", "missing"}]
    /\ printed \subseteq launch.ranks /\ dead \subseteq launch.ranks

\* switch has drained the nodes and found no listener, but another server may
\* have taken the port since.
Init ==
    /\ launch \in Launches
    /\ pc = "probing" /\ after = "loop"
    /\ unstarted = launch.ranks
    /\ known = {} /\ todo = {} /\ evidence = {}
    /\ bad = FALSE /\ late = FALSE
    /\ box = [r \in AllRanks |-> "none"]
    /\ advertised = FALSE /\ serving = FALSE
    /\ leftover \in BOOLEAN
    /\ printed = {} /\ missed = FALSE /\ ours = FALSE /\ dead = {}

-----------------------------------------------------------------------------
(* The launch of the ranks.                                                *)

Goto(label) == pc' = label /\ UNCHANGED <<after, todo, bad>>

\* monitor.fail: first the logs of every known container, by identity.
Fail(containers) ==
    /\ pc' = "gathering" /\ todo' = containers
    /\ UNCHANGED <<after, bad>>

\* monitor.check: all known containers are inspected, in parallel.
Check(containers, next) ==
    /\ pc' = "checking" /\ after' = next
    /\ todo' = containers /\ bad' = FALSE

\* A model API that still answers is not replaced; a probe that gets no answer
\* in time cannot tell.
FindServing ==
    /\ pc = "probing" /\ leftover
    /\ Goto("failed")
    /\ UNCHANGED <<launch, unstarted, known, late, evidence, sparks, history>>

FindNothing ==
    /\ pc = "probing"
    /\ Goto("starting")
    /\ missed' = leftover
    /\ UNCHANGED <<launch, unstarted, known, late, evidence, sparks,
                   printed, ours, dead>>

\* The worker goes first, for a NIM the head.
Turn(r) ==
    /\ pc = "starting" /\ r \in unstarted
    /\ launch.first \in unstarted => r = launch.first
    /\ unstarted' = unstarted \ {r}

\* A rank started; a NIM waits for the handshake after its first rank and is
\* checked after its last, other models go on without a look.
StartRank(r) ==
    /\ Turn(r)
    /\ box' = [box EXCEPT ![r] = "running"]
    /\ known' = known \cup {r} /\ printed' = printed \cup {r}
    /\ late' = FALSE
    /\ \/ unstarted' # {} /\ Goto(IF launch.nim THEN "handshake" ELSE "starting")
       \/ unstarted' = {} /\ launch.nim /\ Check(known', "loop")
       \/ unstarted' = {} /\ ~launch.nim
          /\ Goto(IF launch.noWait THEN "launched" ELSE "waiting")
    /\ UNCHANGED <<launch, evidence, advertised, serving, leftover, missed, ours, dead>>

\* A mutant: a failed launch is reported before its identity is remembered.
StartFailsUnremembered(r) ==
    /\ Turn(r)
    /\ \E state \in {"none", "created", "running", "stopped"} :
         /\ box' = [box EXCEPT ![r] = state]
         /\ printed' = IF state = "none" THEN printed ELSE printed \cup {r}
    /\ known' = known
    /\ Fail(known)
    /\ UNCHANGED <<launch, late, evidence, advertised, serving, leftover, missed, ours, dead>>

\* The script failed: before the container was created, or with its identity
\* printed, at or after docker start.
StartFails(r) ==
    /\ Turn(r)
    /\ \E state \in {"none", "created", "running", "stopped"} :
         /\ box' = [box EXCEPT ![r] = state]
         /\ printed' = IF state = "none" THEN printed ELSE printed \cup {r}
    /\ known' = known \cup (printed' \ printed)
    /\ Fail(known')
    /\ UNCHANGED <<launch, late, evidence, advertised, serving, leftover, missed, ours, dead>>

\* The call timed out or was cut and brought no identity, whatever it did.
StartIsLost(r) ==
    /\ Turn(r)
    /\ \E state \in {"none", "created", "running"} : box' = [box EXCEPT ![r] = state]
    /\ Fail(known)
    /\ UNCHANGED <<launch, known, late, evidence, advertised, serving, leftover, history>>

\* The logs of rank 0 give no address yet, or the address, or no answer, or
\* addresses that contradict each other.
ReadLogs ==
    /\ pc = "logs"
    /\ \/ ~advertised /\ Goto("handshake")
       \/ advertised /\ Goto("starting")
       \/ Fail(known)
    /\ UNCHANGED <<launch, unstarted, known, late, evidence, sparks, history>>

-----------------------------------------------------------------------------
(* The containers are inspected by identity.                               *)

\* What is not running is a failure.
Inspect(r) ==
    /\ pc = "checking" /\ r \in todo
    /\ bad' = (bad \/ box[r] # "running")
    /\ todo' = todo \ {r}
    /\ UNCHANGED <<launch, pc, unstarted, known, after, late, evidence, sparks, history>>

\* And so is a container whose state could not be read.
InspectFails(r) ==
    /\ pc = "checking" /\ r \in todo
    /\ bad' = TRUE
    /\ todo' = todo \ {r}
    /\ UNCHANGED <<launch, pc, unstarted, known, after, late, evidence, sparks, history>>

CheckEnds ==
    /\ pc = "checking" /\ todo = {}
    /\ IF bad THEN Fail(known)
       ELSE Goto(IF after # "loop" THEN after
                 ELSE IF launch.noWait THEN "launched" ELSE "waiting")
    /\ late' = (late /\ after # "loop")
    /\ UNCHANGED <<launch, unstarted, known, evidence, sparks, history>>

\* Logs that cannot be read are in the evidence as an error.
Gather(r) ==
    /\ pc = "gathering" /\ r \in todo
    /\ todo' = todo \ {r} /\ evidence' = evidence \cup {r}
    /\ UNCHANGED <<launch, pc, unstarted, known, after, bad, late, sparks, history>>

GatherEnds ==
    /\ pc = "gathering" /\ todo = {}
    /\ Goto("failed")
    /\ UNCHANGED <<launch, unstarted, known, late, evidence, sparks, history>>

-----------------------------------------------------------------------------
(* The loops: the handshake of a NIM and the wait for readiness.           *)

\* A mutant: the ranks that are to come are inspected as well.
RoundOfAll ==
    /\ pc \in Loops /\ ~late
    /\ Check(launch.ranks, IF pc = "handshake" THEN "logs" ELSE "path")
    /\ UNCHANGED <<launch, unstarted, known, late, evidence, sparks, history>>

\* Every round begins with a check.
Round ==
    /\ pc \in Loops /\ ~late
    /\ Check(known, IF pc = "handshake" THEN "logs" ELSE "path")
    /\ UNCHANGED <<launch, unstarted, known, late, evidence, sparks, history>>

\* A mutant: the loop has no end.
TimeOutNever ==
    /\ pc = "handshake" /\ late
    /\ Fail(known)
    /\ UNCHANGED <<launch, unstarted, known, late, evidence, sparks, history>>

TimeOut ==
    /\ pc \in Loops /\ late
    /\ Fail(known)
    /\ UNCHANGED <<launch, unstarted, known, late, evidence, sparks, history>>

Answering == leftover \/ serving
Sees == /\ ours' = ~leftover
        /\ dead' = {r \in launch.ranks : box[r] # "running"}

ProbeMisses ==
    /\ pc \in {"path", "models"}
    /\ Goto("waiting")
    /\ UNCHANGED <<launch, unstarted, known, late, evidence, sparks, history>>

\* The readiness path, where the model has one, or its health.
ProbePath ==
    /\ pc = "path" /\ launch.path /\ Answering
    /\ Goto("models")
    /\ Sees
    /\ UNCHANGED <<launch, unstarted, known, late, evidence, sparks, printed, missed>>

\* A mutant: ready as soon as the name is served.
ProbeModelsUnconfirmed ==
    /\ pc = IF launch.path THEN "models" ELSE "path"
    /\ Answering
    /\ Goto("ready")
    /\ Sees
    /\ UNCHANGED <<launch, unstarted, known, late, evidence, sparks, printed, missed>>

\* The expected name is served: the containers are looked at once more.
ProbeModels ==
    /\ pc = IF launch.path THEN "models" ELSE "path"
    /\ Answering
    /\ Check(known, "ready")
    /\ Sees
    /\ UNCHANGED <<launch, unstarted, known, late, evidence, sparks, printed, missed>>

Deadline ==
    /\ pc \notin Ended /\ ~late
    /\ late' = TRUE
    /\ UNCHANGED <<launch, pc, unstarted, known, after, todo, bad, evidence, sparks, history>>

-----------------------------------------------------------------------------
(* The Sparks.                                                             *)

Running(r) == box[r] = "running"

\* A container exits, is killed for its memory or paused; it has no restart policy.
Stops(r) ==
    /\ Running(r)
    /\ box' = [box EXCEPT ![r] = "stopped"]
    /\ serving' = (serving /\ r # Head)
    /\ UNCHANGED <<launch, cli, advertised, leftover, history>>

\* Somebody removes it; a container that takes its name has another identity.
Removed(r) ==
    /\ box[r] \in {"running", "stopped"}
    /\ box' = [box EXCEPT ![r] = "missing"]
    /\ serving' = (serving /\ r # Head)
    /\ UNCHANGED <<launch, cli, advertised, leftover, history>>

Advertises ==
    /\ launch.nim /\ Running(Head) /\ ~advertised
    /\ advertised' = TRUE
    /\ UNCHANGED <<launch, cli, box, serving, leftover, history>>

\* The engine needs all its ranks to come up, and only its head to answer.
Serves ==
    /\ \A r \in launch.ranks : Running(r)
    /\ ~leftover /\ ~serving
    /\ serving' = TRUE
    /\ UNCHANGED <<launch, cli, box, advertised, leftover, history>>

LeftoverEnds ==
    /\ leftover
    /\ leftover' = FALSE
    /\ UNCHANGED <<launch, cli, box, advertised, serving, history>>

-----------------------------------------------------------------------------
Start(r) == StartRank(r) \/ StartFails(r) \/ StartIsLost(r)
Watch(r) == Inspect(r) \/ InspectFails(r) \/ Gather(r)

Step ==
    \/ FindServing \/ FindNothing \/ ReadLogs \/ CheckEnds \/ GatherEnds
    \/ Round \/ TimeOut \/ ProbeMisses \/ ProbePath \/ ProbeModels
    \/ \E r \in launch.ranks : Start(r) \/ Watch(r)

World ==
    \/ Advertises \/ Serves \/ LeftoverEnds
    \/ \E r \in launch.ranks : Stops(r) \/ Removed(r)

Next == Step \/ Deadline \/ World

Spec == Init /\ [][Next]_vars

\* Each SSH call has a timeout and the loops a deadline; the Sparks owe nothing.
FairSpec == Spec /\ WF_vars(Step) /\ WF_vars(Deadline)

-----------------------------------------------------------------------------
(* When the CLI reports a model ready, it is this launch that answered the *)
(* last probe, while every one of its ranks was running: neither a rank    *)
(* that disappeared before or during the probe nor another server with the *)
(* same name is taken for a ready model.  The second can happen if the     *)
(* first probe got no answer from that server.                             *)
ReadyIsReal ==
    [][(pc # "ready" /\ pc' = "ready") => dead = {} /\ (ours \/ missed)]_vars

(* A failure is raised, and the containers are then cleaned up, only after *)
(* the logs of every container whose identity this launch was told are in  *)
(* the diagnostics, those of the rank whose start failed included.         *)
FailureIsEvidenced ==
    [][(pc # "failed" /\ pc' = "failed") => printed \subseteq evidence]_vars

(* A start ends: ready, launched or failed, whatever the ranks, the probes *)
(* and the handshake do.                                                   *)
StartupEnds == <>(pc \in Ended)
=============================================================================

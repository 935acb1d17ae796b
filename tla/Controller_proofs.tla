--------------------------- MODULE Controller_proofs ---------------------------
(* What holds of Controller for any workloads, faults and late calls.      *)
EXTENDS Controller, FiniteSetTheorems, TLAPS

-----------------------------------------------------------------------------
(* How the record of a transition changes.                                 *)

\* The stages of a transition that nothing has gone wrong in.
Forward ==
    {"scope", "mark", "revoke", "fence", "drain", "jobs", "cancel", "stop", "stopping",
     "unload", "verify", "release", "claim", "restart", "admit", "launch", "ready",
     "publish", "return"}
Well(o) == o.pc \in Forward /\ ~o.undo /\ o.err = "ok"

\* Host h has taken the generation of the transition.
FencedOn(o, h) ==
    /\ h \in o.hosts
    /\ o.pc \notin {"scope", "mark", "revoke"}
    /\ o.pc = "fence" => h \notin o.todo

\* The stages that are reached only when all is well.
Sure ==
    {"stopping", "verify", "release", "claim", "restart", "admit", "launch", "ready",
     "publish", "return"}

StagedOp(o) ==
    /\ o.pc \notin {"idle", "audit", "clear"} => o.gen # None
    /\ o.undo => o.pc \in {"drain", "jobs", "stop", "unload", "fail"}
    /\ o.pc \in Sure \/ (o.pc = "unload" /\ ~o.undo) => o.err = "ok"
    /\ o.pc \in {"scope", "mark", "revoke", "fence"} => ~o.started
    /\ o.pc \in {"launch", "restart", "admit"} => o.started
    /\ o.pc \in {"restart", "admit", "publish"} => o.target = "yue"
    /\ o.pc = "launch" => o.target # "yue"
    /\ o.target = "yue" => o.hosts = Hosts
    /\ o.pc # "cancel" => o.todo \subseteq o.hosts

\* From o to r: the generation stays, or the transition is over, and all is well
\* only if it was, with no more hosts fenced.
Calm(r, o) ==
    /\ \/ r.gen = o.gen /\ (o.started => r.started)
       \/ r.gen = None
    /\ Well(r) => /\ Well(o) /\ r.gen = o.gen
                  /\ \A h \in Hosts : FencedOn(r, h) => FencedOn(o, h)

Kept(r, o) ==
    /\ r \in Operations
    /\ r.target = o.target /\ r.hosts = o.hosts /\ r.gen = o.gen
    /\ r.started = o.started /\ r.undo = o.undo

\* A failure leads to the undo, or, within the undo, on.
Broken(r, o) ==
    /\ Kept(r, o)
    /\ r.todo \subseteq r.hosts
    /\ IF o.undo THEN r.pc \in {"drain", "unload", "fail"}
       ELSE \/ r.pc = "undo"
            \/ r.pc \in {"fence", "drain"} /\ r.err # "ok" /\ (r.pc = "fence" => o.pc = "fence")

LEMMA BrokenIsCalm ==
    ASSUME NEW o \in Operations, NEW r, StagedOp(o), Broken(r, o),
           o.pc \notin {"idle", "audit", "clear"}
    PROVE  r \in Operations /\ StagedOp(r) /\ Calm(r, o) /\ ~Well(r) /\ r.pc \notin Sure
BY DEF Broken, Kept, StagedOp, Calm, Well, Sure, Forward, Operations

LEMMA JoinErrors ==
    ASSUME NEW a \in Errors, NEW b \in Errors
    PROVE  Join(a, b) \in Errors /\ (b # "ok" => Join(a, b) # "ok")
BY DEF Join, Errors

LEMMA GotoKeeps ==
    ASSUME NEW o \in Operations, NEW pc \in Stages
    PROVE  /\ Kept(Goto(o, pc), o)
           /\ Goto(o, pc).pc = pc /\ Goto(o, pc).todo = o.hosts /\ Goto(o, pc).err = o.err
BY DEF Goto, Kept, Operations

LEMMA DoneKeeps ==
    ASSUME NEW o \in Operations, NEW h, NEW pc \in Stages
    PROVE  /\ Kept(Done(o, h, pc), o) /\ Done(o, h, pc).err = o.err
           /\ \/ /\ o.todo \subseteq {h}
                 /\ Done(o, h, pc).pc = pc /\ Done(o, h, pc).todo = o.hosts
              \/ /\ ~(o.todo \subseteq {h})
                 /\ Done(o, h, pc).pc = o.pc /\ Done(o, h, pc).todo = o.todo \ {h}
<1>1. CASE o.todo \subseteq {h}
  BY <1>1, GotoKeeps DEF Done
<1>2. CASE ~(o.todo \subseteq {h})
  BY <1>2 DEF Done, Kept, Operations
<1> QED BY <1>1, <1>2

LEMMA RaiseBreaks ==
    ASSUME NEW o \in Operations, NEW e \in Errors PROVE Broken(Raise(o, e), o)
<1> DEFINE noted == [o EXCEPT !.err = Join(@, e)]
<1>1. o.err \in Errors
  BY DEF Operations
<1>2. Join(o.err, e) \in Errors
  BY <1>1, JoinErrors
<1>3. Kept(noted, o) /\ noted.pc = o.pc
  BY <1>2 DEF Kept, Operations
<1>4. {"undo", "fail", "unload"} \subseteq Stages
  BY DEF Stages, Calls
<1>5. \A pc \in Stages : /\ Kept(Goto(noted, pc), o) /\ Goto(noted, pc).pc = pc
                         /\ Goto(noted, pc).todo = o.hosts
  BY <1>3, GotoKeeps DEF Kept
<1> HIDE DEF noted
<1>6. Raise(o, e) = IF ~o.undo THEN Goto(noted, "undo")
                    ELSE IF o.pc = "unload" THEN Goto(noted, "fail") ELSE Goto(noted, "unload")
  BY DEF Raise, noted
<1> QED BY <1>4, <1>5, <1>6 DEF Broken, Kept

LEMMA DrainedMoves ==
    ASSUME NEW o \in Operations, NEW h, StagedOp(o), o.pc = "drain"
    PROVE  LET r == Drained(o, h)
           IN  \/ Broken(r, o)
               \/ /\ Kept(r, o) /\ r.err = o.err
                  /\ r.pc \in {"drain", "jobs"} /\ r.todo \subseteq o.hosts
<1>1. CASE ~(o.todo \subseteq {h})
  BY <1>1 DEF Drained, Kept, StagedOp, Operations
<1>2. CASE o.todo \subseteq {h} /\ o.drainFailed
  BY <1>2, RaiseBreaks DEF Drained, Errors
<1>3. CASE o.todo \subseteq {h} /\ ~o.drainFailed
  BY <1>3, GotoKeeps DEF Drained, Stages
<1> QED BY <1>1, <1>2, <1>3

LEMMA FailedBreaks ==
    ASSUME NEW o \in Operations, NEW h, NEW e \in Errors \ {"ok"}, StagedOp(o), o.pc \in Calls
    PROVE  Broken(Failed(o, h, e), o)
<1> DEFINE noted == [o EXCEPT !.err = Join(@, e)]
           told2 == [noted EXCEPT !.drainFailed = TRUE]
<1>1. Join(o.err, e) \in Errors \ {"ok"}
  BY JoinErrors DEF Operations
<1>2. /\ Kept(noted, o) /\ noted.pc = o.pc /\ noted.err # "ok" /\ noted.todo = o.todo
      /\ Kept(told2, o) /\ told2.pc = o.pc /\ told2.err # "ok" /\ told2.todo = o.todo
      /\ told2.drainFailed
  BY <1>1 DEF Kept, Operations
<1> HIDE DEF noted
<1>3. CASE o.pc = "fence"
  <2>1. Failed(o, h, e) = Done(noted, h, "drain")
    BY <1>3 DEF Failed, noted
  <2>2. ~o.undo /\ o.todo \subseteq o.hosts
    BY <1>3 DEF StagedOp
  <2>3. noted \in Operations /\ "drain" \in Stages
    BY <1>2 DEF Kept, Stages, Calls
  <2> QED BY <1>2, <1>3, <2>1, <2>2, <2>3, DoneKeeps DEF Broken, Kept
<1>4. CASE o.pc = "drain"
  <2> HIDE DEF told2
  <2>1. Failed(o, h, e) = Drained(told2, h)
    BY <1>4 DEF Failed, noted, told2
  <2>2. o.todo \subseteq o.hosts
    BY <1>4 DEF StagedOp
  <2>3. told2 \in Operations
    BY <1>2 DEF Kept
  <2>4. CASE told2.todo \subseteq {h}
    <3>1. Broken(Raise(told2, "ok"), told2)
      BY <2>3, RaiseBreaks DEF Errors
    <3>2. Drained(told2, h) = Raise(told2, "ok")
      BY <1>2, <2>4 DEF Drained
    <3> QED BY <1>2, <1>4, <2>1, <3>1, <3>2 DEF Broken, Kept
  <2>5. CASE ~(told2.todo \subseteq {h})
    <3>1. Drained(told2, h) = [told2 EXCEPT !.todo = @ \ {h}]
      BY <2>5 DEF Drained
    <3>2. Kept([told2 EXCEPT !.todo = @ \ {h}], told2)
      BY <2>3 DEF Kept, Operations
    <3>3. LET r == [told2 EXCEPT !.todo = @ \ {h}]
          IN  r.pc = "drain" /\ r.err # "ok" /\ r.todo = o.todo \ {h}
      BY <1>2, <1>4, <2>3 DEF Operations
    <3> QED BY <1>2, <2>1, <2>2, <3>1, <3>2, <3>3 DEF Broken, Kept
  <2> QED BY <2>4, <2>5
<1>5. CASE o.pc \notin {"fence", "drain"}
  BY <1>5, RaiseBreaks DEF Failed
<1> QED BY <1>3, <1>4, <1>5

LEMMA YueStoppedMoves ==
    ASSUME NEW o \in Operations, NEW h, StagedOp(o), o.pc = "stop"
    PROVE  LET r == YueStopped(o, h)
           IN  \/ Broken(r, o)
               \/ /\ Kept(r, o) /\ r.err = o.err /\ r.todo \subseteq o.hosts
                  /\ \/ r.pc = "stop"
                     \/ r.pc = "stopping" /\ ~o.undo /\ o.err = "ok"
<1>1. CASE ~(o.todo \subseteq {h})
  BY <1>1 DEF YueStopped, Kept, StagedOp, Operations
<1>2. CASE o.todo \subseteq {h} /\ o.undo
  <2>1. YueStopped(o, h) = Goto(o, "unload")
    BY <1>2 DEF YueStopped
  <2>2. /\ Kept(Goto(o, "unload"), o)
        /\ Goto(o, "unload").pc = "unload" /\ Goto(o, "unload").todo = o.hosts
    BY GotoKeeps DEF Stages, Calls
  <2> QED BY <1>2, <2>1, <2>2 DEF Broken, Kept
<1>3. CASE o.todo \subseteq {h} /\ ~o.undo /\ o.err # "ok"
  BY <1>3, RaiseBreaks DEF YueStopped, Errors
<1>4. CASE o.todo \subseteq {h} /\ ~o.undo /\ o.err = "ok"
  BY <1>4, GotoKeeps DEF YueStopped, Stages
<1> QED BY <1>1, <1>2, <1>3, <1>4

\* Where a successful call on h can lead.
Heads(r, o, h) ==
    /\ r.pc = "fence" => o.pc = "fence" /\ r.todo = o.todo \ {h}
    /\ r.pc = "verify" => \/ o.pc = "unload" /\ r.todo = o.hosts
                          \/ o.pc = "verify" /\ r.todo = o.todo \ {h}
    /\ r.pc = "release" => o.pc = "verify" /\ o.todo \subseteq {h}
    /\ r.pc = "launch" => o.pc = "launch" /\ r.todo = o.todo \ {h}
    /\ r.pc = "ready" => o.pc = IF r.target = "yue" THEN "admit" ELSE "launch"
    /\ r.pc \in {"restart", "admit"} => o.pc \in {"restart", "admit"}
    /\ r.pc \notin {"idle", "scope", "mark", "revoke", "claim", "audit", "clear"}

LEMMA SucceededMoves ==
    ASSUME NEW o \in Operations, NEW h \in o.todo, StagedOp(o), o.pc \in Calls
    PROVE  LET r == Succeeded(o, h)
           IN  /\ r \in Operations /\ StagedOp(r) /\ Heads(r, o, h)
               /\ r.gen = o.gen /\ r.hosts = o.hosts /\ r.target = o.target /\ r.started = o.started
               /\ o.pc # "fence" => Calm(r, o)
               /\ o.pc = "fence" /\ Well(r) =>
                    Well(o) /\ \A g \in Hosts : FencedOn(r, g) => FencedOn(o, g) \/ g = h
<1> DEFINE r == Succeeded(o, h)
<1>0. (o.pc # "cancel" => o.todo \subseteq o.hosts) /\ Calls \subseteq Stages
  BY DEF StagedOp, Stages
<1>1. ASSUME Broken(r, o), o.pc \in {"drain", "stop"}
      PROVE  /\ r \in Operations /\ StagedOp(r) /\ Heads(r, o, h) /\ Calm(r, o)
             /\ r.gen = o.gen /\ r.hosts = o.hosts /\ r.target = o.target /\ r.started = o.started
  BY <1>1, BrokenIsCalm DEF Broken, Kept, Heads
<1>2. CASE o.pc = "drain"
  <2> DEFINE seen == [o EXCEPT !.busy = IF yue[h].job THEN @ \cup {h} ELSE @]
  <2>1. Kept(seen, o) /\ seen.pc = o.pc /\ seen.todo = o.todo /\ seen.err = o.err
    BY <1>0 DEF Kept, Operations
  <2>2. StagedOp(seen)
    BY <1>2, <2>1 DEF StagedOp, Kept
  <2>3. r = Drained(seen, h)
    BY <1>2 DEF Succeeded
  <2> HIDE DEF seen, r
  <2>4. \/ Broken(r, seen)
        \/ /\ Kept(r, seen) /\ r.err = seen.err /\ r.pc \in {"drain", "jobs"}
           /\ r.todo \subseteq seen.hosts
    BY <1>2, <2>1, <2>2, <2>3, DrainedMoves DEF Kept
  <2>5. CASE Broken(r, seen)
    BY <1>1, <1>2, <2>1, <2>5 DEF Broken, Kept, r
  <2>6. CASE /\ Kept(r, seen) /\ r.err = seen.err /\ r.pc \in {"drain", "jobs"}
             /\ r.todo \subseteq seen.hosts
    BY <1>2, <2>1, <2>6 DEF Kept, StagedOp, Heads, Calm, Well, FencedOn, Forward, Sure, r
  <2> QED BY <2>4, <2>5, <2>6 DEF r
<1>3. CASE o.pc = "stop"
  <2>1. r = YueStopped(o, h)
    BY <1>3 DEF Succeeded
  <2> HIDE DEF r
  <2>2. CASE Broken(r, o)
    BY <1>1, <1>3, <2>2 DEF r
  <2>3. CASE /\ Kept(r, o) /\ r.err = o.err /\ r.todo \subseteq o.hosts
             /\ \/ r.pc = "stop"
                \/ r.pc = "stopping" /\ ~o.undo /\ o.err = "ok"
    BY <1>3, <2>3 DEF Kept, StagedOp, Heads, Calm, Well, FencedOn, Forward, Sure, r
  <2> QED BY <1>3, <2>1, <2>2, <2>3, YueStoppedMoves DEF r
<1>4. CASE o.pc = "restart"
  <2>1. r = [o EXCEPT !.pc = "admit"]
    BY <1>4 DEF Succeeded
  <2> HIDE DEF r
  <2>2. Kept(r, o) /\ r.pc = "admit" /\ r.todo = o.todo /\ r.err = o.err
    BY <2>1 DEF Kept, Operations, Stages, Calls
  <2> QED BY <1>0, <1>4, <2>2 DEF Kept, StagedOp, Heads, Calm, Well, FencedOn, Forward, Sure, r
<1>5. CASE o.pc = "admit"
  <2>1. \/ /\ Kept(r, o) /\ r.pc = "restart" /\ r.todo = o.todo \ {h} /\ r.err = o.err
        \/ Kept(r, o) /\ r.pc = "ready" /\ r.todo = o.hosts /\ r.err = o.err
    <3>1. CASE o.todo # {h}
      <4>1. r = [o EXCEPT !.pc = "restart", !.todo = @ \ {h}]
        BY <1>5, <3>1 DEF Succeeded
      <4> HIDE DEF r
      <4> QED BY <4>1 DEF Kept, Operations, Stages, Calls
    <3>2. CASE o.todo = {h}
      <4>1. r = Goto(o, "ready")
        BY <1>5, <3>2 DEF Succeeded
      <4> HIDE DEF r
      <4> QED BY <4>1, GotoKeeps DEF Stages
    <3> QED BY <3>1, <3>2
  <2> HIDE DEF r
  <2> QED BY <1>0, <1>5, <2>1 DEF Kept, StagedOp, Heads, Calm, Well, FencedOn, Forward, Sure, r
<1>6. CASE o.pc \notin {"drain", "stop", "restart", "admit"}
  <2>1. r = Done(o, h, Following(o))
    BY <1>6 DEF Succeeded
  <2>2. o.pc \in {"fence", "cancel", "verify", "launch", "unload"}
    BY <1>6 DEF Calls
  <2>3. /\ Following(o) \in Stages
        /\ o.pc = "fence" => Following(o) = "drain"
        /\ o.pc = "cancel" => Following(o) = "stop"
        /\ o.pc = "verify" => Following(o) = "release"
        /\ o.pc = "launch" => Following(o) = "ready"
        /\ o.pc = "unload" => Following(o) = IF o.undo THEN "fail" ELSE "verify"
    BY <2>2 DEF Following, Stages, Calls
  <2>4. /\ Kept(r, o) /\ r.err = o.err
        /\ \/ o.todo \subseteq {h} /\ r.pc = Following(o) /\ r.todo = o.hosts
           \/ ~(o.todo \subseteq {h}) /\ r.pc = o.pc /\ r.todo = o.todo \ {h}
    BY <2>1, <2>3, DoneKeeps
  <2> HIDE DEF r
  <2>5. CASE o.pc = "fence"
    BY <1>0, <2>3, <2>4, <2>5 DEF Kept, StagedOp, Heads, Calm, Well, FencedOn, Forward, Sure, r
  <2>6. CASE o.pc = "cancel"
    BY <1>0, <2>3, <2>4, <2>6 DEF Kept, StagedOp, Heads, Calm, Well, FencedOn, Forward, Sure, r
  <2>7. CASE o.pc = "verify"
    BY <1>0, <2>3, <2>4, <2>7 DEF Kept, StagedOp, Heads, Calm, Well, FencedOn, Forward, Sure, r
  <2>8. CASE o.pc = "launch"
    BY <1>0, <2>3, <2>4, <2>8 DEF Kept, StagedOp, Heads, Calm, Well, FencedOn, Forward, Sure, r
  <2>9. CASE o.pc = "unload"
    BY <1>0, <2>3, <2>4, <2>9 DEF Kept, StagedOp, Heads, Calm, Well, FencedOn, Forward, Sure, r
  <2> QED BY <2>2, <2>5, <2>6, <2>7, <2>8, <2>9
<1> QED BY <1>2, <1>3, <1>4, <1>5, <1>6

LEMMA CleanupMoves ==
    ASSUME NEW o \in Operations, StagedOp(o), o.pc = "undo"
    PROVE  LET r == Cleanup(o)
           IN  /\ r \in Operations /\ StagedOp(r) /\ Calm(r, o) /\ r.gen = o.gen
               /\ r.pc \in {"drain", "fail"} /\ ~Well(r)
<1>1. CASE ~o.started
  BY <1>1, GotoKeeps DEF Cleanup, Stages, Kept, StagedOp, Calm, Well, Sure, Forward
<1>2. CASE o.started
  <2> DEFINE clean == [o EXCEPT !.undo = TRUE, !.drainFailed = FALSE, !.busy = {}]
  <2>1. /\ clean \in Operations /\ clean.undo /\ clean.gen = o.gen /\ clean.hosts = o.hosts
        /\ clean.target = o.target /\ clean.started = o.started
    BY DEF Operations
  <2>2. Cleanup(o) = Goto(clean, "drain")
    BY <1>2 DEF Cleanup
  <2> DEFINE r == Cleanup(o)
  <2> HIDE DEF clean
  <2>3. /\ r \in Operations /\ r.undo /\ r.gen = o.gen /\ r.hosts = o.hosts /\ r.pc = "drain"
        /\ r.target = o.target /\ r.started = o.started /\ r.todo = o.hosts
    BY <2>1, <2>2, GotoKeeps DEF Stages, Calls, Kept
  <2> HIDE DEF r
  <2>4. StagedOp(r) /\ Calm(r, o) /\ ~Well(r)
    BY <1>2, <2>3 DEF StagedOp, Calm, Well, Sure
  <2> QED BY <2>3, <2>4 DEF r
<1> QED BY <1>1, <1>2

LEMMA GotoStaged ==
    ASSUME NEW o \in Operations, NEW pc \in Stages, StagedOp(o),
           o.pc \notin {"idle", "audit", "clear"},
           ~o.undo \/ pc = "unload" \/ pc = "stop" \/ pc = "fail",
           pc \in Sure => o.err = "ok",
           pc \notin {"scope", "fence", "restart", "admit", "publish", "launch"},
           pc \in {"mark", "revoke"} => ~o.started,
           pc = "unload" => o.err = "ok" \/ o.undo
    PROVE  Goto(o, pc) \in Operations /\ StagedOp(Goto(o, pc))
<1>1. /\ Kept(Goto(o, pc), o) /\ Goto(o, pc).pc = pc
      /\ Goto(o, pc).todo = o.hosts /\ Goto(o, pc).err = o.err
  BY GotoKeeps
<1> QED BY <1>1 DEF Kept, StagedOp

\* The stages whose facts about the nodes have to be established.
Claims == {"verify", "release", "claim", "launch", "restart", "admit", "ready", "audit", "clear"}

\* A step of the transition that establishes nothing, on the way forward or not.
Turn(r, o) ==
    r \in Operations /\ StagedOp(r) /\ Calm(r, o) /\ r.pc \notin Claims

LEMMA IdleTurn ==
    ASSUME NEW o \in Operations PROVE Turn(Idle, o) /\ Idle.gen = None /\ ~Well(Idle)
BY DEF Turn, Idle, Operations, Stages, Gens, None, StagedOp, Calm, Well, Forward, Sure,
       Errors, Claims

LEMMA BrokenTurn ==
    ASSUME NEW o \in Operations, NEW r, StagedOp(o), Broken(r, o),
           o.pc \notin {"idle", "audit", "clear"}
    PROVE  Turn(r, o) /\ ~Well(r)
<1>1. r \in Operations /\ StagedOp(r) /\ Calm(r, o) /\ ~Well(r)
  BY BrokenIsCalm
<1>2. r.pc \in {"drain", "unload", "fail", "undo", "fence"}
  BY DEF Broken
<1> QED BY <1>1, <1>2 DEF Turn, Claims

LEMMA GotoTurn ==
    ASSUME NEW o \in Operations, StagedOp(o), NEW pc \in Stages
    PROVE  /\ o.pc = "scope" /\ pc = "mark" => Turn(Goto(o, pc), o)
           /\ o.pc = "mark" /\ pc = "revoke" => Turn(Goto(o, pc), o)
           /\ o.pc = "revoke" /\ pc = "fence" => Turn(Goto(o, pc), o)
           /\ o.pc = "jobs" /\ pc = "stop" => Turn(Goto(o, pc), o)
           /\ o.pc = "stopping" /\ pc = "unload" => Turn(Goto(o, pc), o)
           /\ o.pc = "release" /\ pc = "return" => Turn(Goto(o, pc), o)
           /\ o.pc = "ready" /\ o.target = "yue" /\ pc = "publish" => Turn(Goto(o, pc), o)
           /\ o.pc = "publish" /\ pc = "return" => Turn(Goto(o, pc), o)
           /\ o.pc = "ready" /\ pc = "return" => Turn(Goto(o, pc), o)
<1> DEFINE r == Goto(o, pc)
<1>1. Kept(r, o) /\ r.pc = pc /\ r.todo = o.hosts /\ r.err = o.err
  BY GotoKeeps
<1> HIDE DEF r
<1> SUFFICES
      ASSUME \/ o.pc = "scope" /\ pc = "mark"
             \/ o.pc = "mark" /\ pc = "revoke"
             \/ o.pc = "revoke" /\ pc = "fence"
             \/ o.pc = "jobs" /\ pc = "stop"
             \/ o.pc = "stopping" /\ pc = "unload"
             \/ o.pc \in {"release", "publish", "ready"} /\ pc = "return"
             \/ o.pc = "ready" /\ o.target = "yue" /\ pc = "publish"
      PROVE  Turn(r, o)
  BY DEF r
<1>2. r \in Operations /\ r.pc \notin Claims
  BY <1>1 DEF Kept, Claims
<1>3. StagedOp(r)
  BY <1>1 DEF Kept, StagedOp, Sure
<1>4. Calm(r, o)
  BY <1>1 DEF Kept, StagedOp, Sure, Calm, Well, Forward, FencedOn
<1> QED BY <1>2, <1>3, <1>4 DEF Turn
LEMMA NextHostIsDue ==
    ASSUME NEW h \in NextHosts PROVE h \in op.todo
BY DEF NextHosts

LEMMA LocalTurns ==
    ASSUME TypeOK, StagedOp(op),
           \/ CheckScope \/ Mark \/ RevokeDiscovery \/ Jobs \/ Stopping \/ ReadyYue
           \/ Publish \/ ReadyModel \/ ReadyFails \/ Return \/ Undo \/ Fail \/ Clear
           \/ Release /\ op.target = "none"
    PROVE  Turn(op', op)
<1>0. op \in Operations
  BY DEF TypeOK
<1>1. CASE CheckScope
  BY <1>0, <1>1, GotoTurn, IdleTurn DEF CheckScope, Stages
<1>2. CASE Mark
  BY <1>0, <1>2, GotoTurn DEF Mark, Stages
<1>3. CASE RevokeDiscovery
  BY <1>0, <1>3, GotoTurn DEF RevokeDiscovery, Stages, Calls
<1>4. CASE Jobs
  <2>1. CASE op.busy = {}
    BY <1>0, <1>4, <2>1, GotoTurn DEF Jobs, Stages, Calls
  <2>2. CASE op.busy # {} /\ op.cancel /\ ~op.undo
    <3>1. op' = [op EXCEPT !.pc = "cancel", !.todo = op.busy] /\ op.pc = "jobs"
      BY <1>4, <2>2 DEF Jobs
    <3>2. /\ op' \in Operations /\ op'.pc = "cancel" /\ op'.gen = op.gen /\ op'.hosts = op.hosts
          /\ op'.started = op.started /\ op'.undo = op.undo /\ op'.err = op.err
          /\ op'.target = op.target
      BY <1>0, <3>1 DEF Operations, Stages, Calls
    <3> QED BY <2>2, <3>1, <3>2 DEF Turn, Claims, StagedOp, Calm, Well, FencedOn, Forward, Sure
  <2>3. CASE op.busy # {} /\ ~(op.cancel /\ ~op.undo)
    <3>1. op' = Raise(op, "other") /\ op.pc = "jobs"
      BY <1>4, <2>3 DEF Jobs
    <3> QED BY <1>0, <3>1, RaiseBreaks, BrokenTurn DEF Errors
  <2> QED BY <2>1, <2>2, <2>3
<1>5. CASE Stopping
  BY <1>0, <1>5, GotoTurn DEF Stopping, Stages, Calls
<1>6. CASE ReadyYue
  BY <1>0, <1>6, GotoTurn DEF ReadyYue, Stages
<1>7. CASE Publish
  BY <1>0, <1>7, GotoTurn DEF Publish, Stages
<1>8. CASE ReadyModel
  BY <1>0, <1>8, GotoTurn DEF ReadyModel, Stages
<1>9. CASE ReadyFails
  <2>1. op' = Raise(op, "other") /\ op.pc = "ready"
    BY <1>9 DEF ReadyFails
  <2> QED BY <1>0, <2>1, RaiseBreaks, BrokenTurn DEF Errors
<1>10. CASE Return \/ Fail \/ Clear
  BY <1>0, <1>10, IdleTurn DEF Return, Fail, Clear
<1>11. CASE Undo
  <2>1. op' = Cleanup(op) /\ op.pc = "undo"
    BY <1>11 DEF Undo
  <2> QED BY <1>0, <2>1, CleanupMoves DEF Turn, Claims
<1>12. CASE Release /\ op.target = "none"
  BY <1>0, <1>12, GotoTurn DEF Release, Stages
<1> QED BY <1>1, <1>2, <1>3, <1>4, <1>5, <1>6, <1>7, <1>8, <1>9, <1>10, <1>11, <1>12

\* What can strike ends the way forward.
LEMMA FaultsTurn ==
    ASSUME TypeOK, StagedOp(op),
           \/ Interrupt \/ UndoUnrevoked \/ Crash
           \/ \E h \in Hosts : CallRefused(h) \/ CallFails(h) \/ LaunchDies(h)
    PROVE  Turn(op', op) /\ ~Well(op')
<1>0. op \in Operations
  BY DEF TypeOK
<1>1. CASE Interrupt
  <2>1. op' = Raise(op, "other") /\ op.pc \notin {"idle", "audit", "clear"}
    BY <1>1 DEF Interrupt
  <2> QED BY <1>0, <2>1, RaiseBreaks, BrokenTurn DEF Errors
<1>2. CASE UndoUnrevoked
  <2> DEFINE noted == [op EXCEPT !.err = "other"]
  <2>1. op' = Cleanup(noted) /\ op.pc = "undo"
    BY <1>2 DEF UndoUnrevoked
  <2>2. noted \in Operations /\ Kept(noted, op) /\ noted.pc = op.pc /\ noted.todo = op.todo
    BY <1>0 DEF Operations, Errors, Kept
  <2> HIDE DEF noted
  <2>3. StagedOp(noted)
    BY <2>1, <2>2 DEF StagedOp, Kept, Sure
  <2>4. op' \in Operations /\ StagedOp(op') /\ Calm(op', noted) /\ op'.pc \in {"drain", "fail"}
        /\ ~Well(op')
    BY <2>1, <2>2, <2>3, CleanupMoves
  <2> QED BY <2>2, <2>4 DEF Turn, Claims, Calm, Kept
<1>3. CASE Crash
  BY <1>0, <1>3, IdleTurn DEF Crash
<1>4. ASSUME NEW h \in Hosts, CallRefused(h) \/ CallFails(h) \/ LaunchDies(h)
      PROVE Turn(op', op) /\ ~Well(op')
  <2>1. /\ op.pc \in Calls
        /\ \E e \in Errors \ {"ok"} : op' = Failed(op, h, e)
    BY <1>4 DEF CallRefused, CallFails, LaunchDies, Errors, Calls
  <2>2. op.pc \notin {"idle", "audit", "clear"}
    BY <2>1 DEF Calls
  <2> QED BY <1>0, <2>1, <2>2, FailedBreaks, BrokenTurn
<1> QED BY <1>1, <1>2, <1>3, <1>4

\* The steps that establish something about the nodes.
LEMMA ClaimingSteps ==
    ASSUME TypeOK, StagedOp(op)
    PROVE  /\ Release /\ op.target # "none" =>
                /\ op' \in Operations /\ StagedOp(op') /\ Calm(op', op)
                /\ op'.pc = "claim" /\ op'.hosts = op.hosts
           /\ Claim =>
                /\ op' \in Operations /\ StagedOp(op') /\ Calm(op', op)
                /\ op'.pc = IF op.target = "yue" THEN "restart" ELSE "launch"
                /\ op'.hosts = op.hosts /\ op'.gen = op.gen /\ op'.todo = op.hosts
           /\ Reconcile =>
                /\ op' \in Operations /\ StagedOp(op') /\ Calm(op', op)
                /\ op'.pc = "audit" /\ op'.hosts = Candidates
           /\ \A h \in Hosts : AuditHost(h) =>
                /\ op' \in Operations /\ StagedOp(op') /\ Calm(op', op)
                /\ op'.pc \in {"audit", "clear"} /\ op'.hosts = op.hosts
<1>0. op \in Operations
  BY DEF TypeOK
<1>1. ASSUME Release, op.target # "none"
      PROVE  /\ op' \in Operations /\ StagedOp(op') /\ Calm(op', op)
             /\ op'.pc = "claim" /\ op'.hosts = op.hosts
  <2>1. op' = Goto(op, "claim") /\ op.pc = "release"
    BY <1>1 DEF Release
  <2>2. Kept(op', op) /\ op'.pc = "claim" /\ op'.todo = op.hosts /\ op'.err = op.err
    BY <1>0, <2>1, GotoKeeps DEF Stages
  <2> QED BY <2>1, <2>2 DEF Kept, StagedOp, Sure, Calm, Well, Forward, FencedOn
<1>2. ASSUME Claim
      PROVE  /\ op' \in Operations /\ StagedOp(op') /\ Calm(op', op)
             /\ op'.pc = IF op.target = "yue" THEN "restart" ELSE "launch"
             /\ op'.hosts = op.hosts /\ op'.gen = op.gen /\ op'.todo = op.hosts
  <2> DEFINE begun == [op EXCEPT !.started = TRUE]
             pc == IF op.target = "yue" THEN "restart" ELSE "launch"
  <2>1. op' = Goto(begun, pc) /\ op.pc = "claim"
    BY <1>2 DEF Claim
  <2>2. /\ begun \in Operations /\ begun.started /\ begun.gen = op.gen /\ begun.hosts = op.hosts
        /\ begun.target = op.target /\ begun.undo = op.undo /\ begun.err = op.err
    BY <1>0 DEF Operations
  <2> HIDE DEF begun
  <2>3. Kept(op', begun) /\ op'.pc = pc /\ op'.todo = begun.hosts /\ op'.err = begun.err
    BY <2>1, <2>2, GotoKeeps DEF Stages, Calls
  <2> QED BY <2>1, <2>2, <2>3 DEF Kept, StagedOp, Sure, Calm, Well, Forward, FencedOn
<1>3. ASSUME Reconcile
      PROVE  /\ op' \in Operations /\ StagedOp(op') /\ Calm(op', op)
             /\ op'.pc = "audit" /\ op'.hosts = Candidates
  <2>1. op' = [Idle EXCEPT !.pc = "audit", !.hosts = Candidates, !.todo = Candidates]
    BY <1>3 DEF Reconcile
  <2>2. /\ op'.pc = "audit" /\ op'.hosts = Candidates /\ op'.todo = Candidates
        /\ op'.gen = None /\ ~op'.undo /\ ~op'.started /\ op'.target = "none"
    BY <2>1 DEF Idle
  <2>3. op' \in Operations
    BY <2>1 DEF Idle, Operations, Stages, Gens, None, Errors, Candidates
  <2> QED BY <2>2, <2>3 DEF StagedOp, Sure, Calm, Well, Forward, None
<1>4. ASSUME NEW h \in Hosts, AuditHost(h)
      PROVE  /\ op' \in Operations /\ StagedOp(op') /\ Calm(op', op)
             /\ op'.pc \in {"audit", "clear"} /\ op'.hosts = op.hosts
  <2>1. PICK idle \in {IdleHost(h), FALSE} :
          op' = Done([op EXCEPT !.busy = IF idle THEN @ ELSE @ \cup {h}], h, "clear")
    BY <1>4 DEF AuditHost
  <2> DEFINE seen == [op EXCEPT !.busy = IF idle THEN @ ELSE @ \cup {h}]
  <2>2. Kept(seen, op) /\ seen.pc = op.pc /\ seen.todo = op.todo /\ seen.err = op.err
    BY <1>0 DEF Kept, Operations
  <2> HIDE DEF seen
  <2>3. op' = Done(seen, h, "clear")
    BY <2>1 DEF seen
  <2>4. /\ Kept(op', seen) /\ op'.err = seen.err
        /\ \/ op'.pc = "clear" /\ op'.todo = seen.hosts
           \/ op'.pc = seen.pc /\ op'.todo = seen.todo \ {h}
    BY <2>2, <2>3, DoneKeeps DEF Kept, Stages
  <2>5. op.pc = "audit"
    BY <1>4 DEF AuditHost
  <2> QED BY <2>2, <2>4, <2>5 DEF Kept, StagedOp, Sure, Calm, Well, Forward
<1> QED BY <1>1, <1>2, <1>3, <1>4

LEMMA BeginStep ==
    ASSUME TypeOK, Begin
    PROVE  /\ op' \in Operations /\ StagedOp(op') /\ op'.pc = "scope"
           /\ op'.gen = last + 1 /\ last' = last + 1 /\ last' \in Gens /\ ~op'.started
<1>1. PICK t \in Targets, hs \in (SUBSET Hosts) \ {{}}, c \in BOOLEAN :
        /\ t \in {"yue", "pair"} => hs = Hosts
        /\ op' = [Idle EXCEPT !.pc = "scope", !.target = t, !.hosts = hs, !.cancel = c,
                              !.gen = last + 1]
  BY DEF Begin
<1>2. last + 1 \in Gens /\ last + 1 # None /\ last' = last + 1
  BY BoundsAssumption DEF Begin, TypeOK, Gens, Generations, None
<1>3. t \in {"none", "yue", "solo", "pair"}
  BY TargetsAssumption
<1>4. op' \in Operations
  BY <1>1, <1>2, <1>3 DEF Idle, Operations, Stages, Errors
<1>5. /\ op'.pc = "scope" /\ op'.target = t /\ op'.hosts = hs /\ op'.gen = last + 1
      /\ op'.todo = {} /\ ~op'.started /\ ~op'.undo
  BY <1>1 DEF Idle
<1> QED BY <1>1, <1>2, <1>4, <1>5 DEF StagedOp, Sure
-----------------------------------------------------------------------------
(* What the transition, the records, the calls under way and the nodes say *)
(* of each other.                                                          *)

\* The calls that make a node serve something, and those its generation lets in.
Dangerous == {"launch", "admit"}
Live(c) == c.act \in Dangerous /\ nodeGen[c.host] = c.gen

\* A call outlives its client only when the transition has failed, so none is left
\* that could reach a node after the transition has fenced it.
LateKnown ==
    /\ op.gen <= last
    /\ \A c \in late : c.gen <= last
    /\ \A c, d \in late : c.act = "fence" /\ d.act \in Dangerous => c.gen # d.gen
    /\ Well(op) => \A c \in late : c.gen # op.gen
    /\ ~op.started => \A c \in late : c.act \in Dangerous => c.gen # op.gen
    /\ Well(op) => \A c \in late : FencedOn(op, c.host) => ~Live(c)

\* What a late call would start is what is recorded, and nothing else runs.
LateRight ==
    \A c \in late : Live(c) =>
        /\ rec[c.host].allocId = c.gen
        /\ \/ /\ c.act = "launch" /\ rec[c.host].mode = "vllm"
              /\ rec[c.host].alloc = c.members /\ c.host \in c.members
              /\ \A k \in RunningOn(c.host) : k.gen = c.gen
           \/ c.act = "admit" /\ rec[c.host].mode = "yue" /\ RunningOn(c.host) = {}

Empty(h) == RunningOn(h) = {} /\ ~Admitted(h)

\* What the transition knows of its hosts when it gets to a stage.
Claimed ==
    /\ op.pc = "verify" => \A h \in op.hosts \ op.todo : Empty(h)
    /\ op.pc \in {"release", "claim"} => \A h \in op.hosts : Empty(h)
    /\ op.pc = "launch" => \A h \in op.todo : RunningOn(h) = {}
    /\ op.pc \in {"restart", "admit"} => \A h \in op.hosts : RunningOn(h) = {}
    /\ op.pc = "launch" \/ (op.pc = "ready" /\ op.target # "yue") =>
         \A h \in op.hosts : /\ rec[h].mode = "vllm" /\ rec[h].allocId = op.gen
                             /\ rec[h].alloc = op.hosts
    /\ op.pc \in {"restart", "admit"} \/ (op.pc = "ready" /\ op.target = "yue") =>
         \A h \in op.hosts : rec[h].mode = "yue" /\ rec[h].allocId = op.gen
    /\ op.pc \in {"audit", "clear"} => \A h \in op.hosts : rec[h].mode = "none"

\* RunningIsRecorded, with the whole allocation.
Recorded ==
    \A h \in Hosts :
        /\ \A k \in RunningOn(h) : k.gen # None =>
              /\ rec[h].mode = "vllm" /\ rec[h].allocId = k.gen
              /\ rec[h].alloc = k.members /\ h \in k.members
        /\ Admitted(h) => rec[h].mode = "yue" /\ rec[h].allocId = yue[h].gen

Served == LateRight /\ Recorded /\ OneWorkloadPerNode
ControlInv == StagedOp(op) /\ LateKnown /\ Claimed /\ Served

-----------------------------------------------------------------------------
(* Steps after which the nodes serve no more than before.                  *)

Lower ==
    /\ nodeGen' = nodeGen
    /\ \A h \in Hosts : /\ RunningOn(h)' \subseteq RunningOn(h)
                        /\ Admitted(h)' => Admitted(h) /\ yue'[h].gen = yue[h].gen

RecSame ==
    \A h \in Hosts : /\ rec'[h].mode = rec[h].mode
                     /\ rec'[h].alloc = rec[h].alloc
                     /\ rec'[h].allocId = rec[h].allocId

LEMMA ServedKept ==
    ASSUME TypeOK, Served, Lower, RecSame, late' \subseteq late PROVE Served'
<1>1. LateRight'
  <2> SUFFICES ASSUME NEW c \in late', Live(c)'
               PROVE  /\ rec'[c.host].allocId = c.gen
                      /\ \/ /\ c.act = "launch" /\ rec'[c.host].mode = "vllm"
                            /\ rec'[c.host].alloc = c.members /\ c.host \in c.members
                            /\ \A k \in RunningOn(c.host)' : k.gen = c.gen
                         \/ c.act = "admit" /\ rec'[c.host].mode = "yue" /\ RunningOn(c.host)' = {}
    BY DEF LateRight
  <2>1. c \in late /\ Live(c) /\ c.host \in Hosts
    BY DEF Lower, Live, TypeOK, Requests
  <2> QED BY <2>1 DEF Served, LateRight, Lower, RecSame
<1>2. Recorded'
  BY DEF Served, Recorded, Lower, RecSame
<1>3. OneWorkloadPerNode'
  BY DEF Served, OneWorkloadPerNode, Lower
<1> QED BY <1>1, <1>2, <1>3 DEF Served

LEMMA LateKept ==
    ASSUME TypeOK, LateKnown, op' = op \/ Calm(op', op), last' = last, nodeGen' = nodeGen,
           late' \subseteq late
    PROVE  LateKnown'
<1>1. last \in Nat /\ op.gen \in Nat /\ \A c \in late : c.gen \in Nat \ {0} /\ c.host \in Hosts
  BY BoundsAssumption DEF TypeOK, Gens, Generations, Requests, Operations, None
<1>2. \A c : Live(c)' <=> Live(c)
  BY DEF Live
<1>3. CASE op' = op
  BY <1>1, <1>2, <1>3 DEF LateKnown
<1>4. CASE Calm(op', op)
  <2>1. op'.gen <= last'
    BY <1>1, <1>4 DEF LateKnown, Calm, None
  <2>2. /\ \A c \in late' : c.gen <= last'
        /\ \A c, d \in late' : c.act = "fence" /\ d.act \in Dangerous => c.gen # d.gen
    BY DEF LateKnown
  <2>3. Well(op)' => \A c \in late' : c.gen # op'.gen
    BY <1>4 DEF LateKnown, Calm, Well
  <2>4. ~op'.started => \A c \in late' : c.act \in Dangerous => c.gen # op'.gen
    BY <1>1, <1>4 DEF LateKnown, Calm, None
  <2>5. Well(op)' => \A c \in late' : FencedOn(op, c.host)' => ~Live(c)'
    <3>1. Well(op)' <=> Well(op')
      BY DEF Well
    <3>2. \A h : FencedOn(op, h)' <=> FencedOn(op', h)
      BY DEF FencedOn
    <3> QED BY <1>1, <1>2, <1>4, <3>1, <3>2 DEF LateKnown, Calm
  <2> QED BY <2>1, <2>2, <2>3, <2>4, <2>5 DEF LateKnown
<1> QED BY <1>3, <1>4
\* A failed call may linger.
Lingering ==
    /\ op.pc \in Calls /\ ~Well(op')
    /\ \E h \in NextHosts : late' = late \cup {Call(h)}

LEMMA CallTyped ==
    ASSUME TypeOK, StagedOp(op), op.pc \in Calls, NEW h \in Hosts
    PROVE  /\ Call(h) \in Requests
           /\ Call(h).host = h /\ Call(h).gen = op.gen /\ Call(h).act = op.pc
           /\ op.pc = "launch" => Call(h).members = op.hosts
<1>1. op.gen \in Generations
  BY DEF TypeOK, StagedOp, Operations, Gens, Calls
<1>2. op.hosts \in SUBSET Hosts /\ \A k \in ctr[h] : k.gen \in Gens
  BY DEF TypeOK, Operations, Containers
<1> QED BY <1>1, <1>2 DEF Call, Requests

\* A lingering call is of a transition that is over, as far as starting goes.
LEMMA LingeringKnown ==
    ASSUME TypeOK, StagedOp(op), LateKnown, Calm(op', op), last' = last, nodeGen' = nodeGen,
           Lingering
    PROVE  LateKnown'
<1>1. PICK h \in NextHosts : late' = late \cup {Call(h)}
  BY DEF Lingering
<1>2. h \in Hosts
  BY NextHostIsDue DEF TypeOK, Operations
<1>3. /\ Call(h).host = h /\ Call(h).gen = op.gen /\ Call(h).act = op.pc
      /\ op.gen \in Nat \ {0} /\ op.gen <= last
  <2>1. Call(h).gen \in Generations
    BY <1>2, CallTyped DEF Lingering, Requests
  <2> QED BY <1>2, <2>1, CallTyped, BoundsAssumption DEF Lingering, LateKnown, Generations
<1>4. last \in Nat /\ \A c \in late : c.gen \in Nat \ {0}
  BY BoundsAssumption DEF TypeOK, Gens, Generations, Requests, None
<1>5. op'.gen <= last'
  BY <1>3, <1>4 DEF LateKnown, Calm, None
<1>6. \A c \in late' : c.gen <= last'
  BY <1>1, <1>3 DEF LateKnown
<1>7. ASSUME NEW c \in late', NEW d \in late', c.act = "fence", d.act \in Dangerous
      PROVE  c.gen # d.gen
  <2>1. CASE d = Call(h) /\ c # Call(h)
    <3>1. Well(op)
      BY <1>3, <1>7, <2>1 DEF StagedOp, Sure, Dangerous, Well, Forward
    <3> QED BY <1>1, <1>3, <2>1, <3>1 DEF LateKnown
  <2>2. CASE c = Call(h) /\ d # Call(h)
    <3>1. ~op.started
      BY <1>3, <1>7, <2>2 DEF StagedOp
    <3> QED BY <1>1, <1>3, <1>7, <2>2, <3>1 DEF LateKnown
  <2>3. CASE c # Call(h) /\ d # Call(h)
    BY <1>1, <1>7, <2>3 DEF LateKnown
  <2>4. CASE c = Call(h) /\ d = Call(h)
    BY <1>3, <1>7, <2>4 DEF Dangerous
  <2> QED BY <2>1, <2>2, <2>3, <2>4
<1>8. ASSUME ~op'.started, NEW c \in late', c.act \in Dangerous PROVE c.gen # op'.gen
  <2>1. CASE op'.gen = None
    BY <1>1, <1>3, <1>4, <2>1 DEF None
  <2>2. CASE op'.gen # None
    <3>1. ~op.started /\ op'.gen = op.gen
      BY <1>8, <2>2 DEF Calm
    <3>2. c # Call(h)
      BY <1>3, <1>8, <3>1 DEF StagedOp, Dangerous
    <3> QED BY <1>1, <1>8, <3>1, <3>2 DEF LateKnown
  <2> QED BY <2>1, <2>2
<1>9. ~Well(op)'
  BY DEF Lingering, Well
<1> QED BY <1>5, <1>6, <1>7, <1>8, <1>9 DEF LateKnown

\* What it would start is what the transition has recorded.
LEMMA LingeringRight ==
    ASSUME TypeOK, StagedOp(op), Claimed, Served, Lower, RecSame, Lingering
    PROVE  Served'
<1>1. PICK h \in NextHosts : late' = late \cup {Call(h)}
  BY DEF Lingering
<1>2. h \in op.todo /\ h \in Hosts
  BY NextHostIsDue DEF TypeOK, Operations
<1>3. /\ Call(h).host = h /\ Call(h).gen = op.gen /\ Call(h).act = op.pc
      /\ op.pc = "launch" => Call(h).members = op.hosts
  BY <1>2, CallTyped DEF Lingering
<1>4. Recorded'
  BY DEF Served, Recorded, Lower, RecSame
<1>5. OneWorkloadPerNode'
  BY DEF Served, OneWorkloadPerNode, Lower
<1>6. ASSUME NEW c \in late', Live(c)'
      PROVE  /\ rec'[c.host].allocId = c.gen
             /\ \/ /\ c.act = "launch" /\ rec'[c.host].mode = "vllm"
                   /\ rec'[c.host].alloc = c.members /\ c.host \in c.members
                   /\ \A k \in RunningOn(c.host)' : k.gen = c.gen
                \/ c.act = "admit" /\ rec'[c.host].mode = "yue" /\ RunningOn(c.host)' = {}
  <2>1. CASE c \in late
    <3>1. Live(c) /\ c.host \in Hosts
      BY <1>6, <2>1 DEF Lower, Live, TypeOK, Requests
    <3> QED BY <2>1, <3>1 DEF Served, LateRight, Lower, RecSame
  <2>2. CASE c = Call(h)
    <3>1. op.pc \in {"launch", "admit"}
      BY <1>3, <1>6, <2>2 DEF Live, Dangerous
    <3>2. h \in op.hosts
      BY <1>2, <3>1 DEF StagedOp
    <3>3. CASE op.pc = "launch"
      <4>1. RunningOn(h)' = {}
        BY <1>2, <3>3 DEF Claimed, Lower
      <4> QED BY <1>2, <1>3, <2>2, <3>2, <3>3, <4>1 DEF Claimed, RecSame
    <3>4. CASE op.pc = "admit"
      <4>1. RunningOn(h)' = {}
        BY <1>2, <3>2, <3>4 DEF Claimed, Lower
      <4> QED BY <1>2, <1>3, <2>2, <3>2, <3>4, <4>1 DEF Claimed, RecSame
    <3> QED BY <3>1, <3>3, <3>4
  <2> QED BY <1>1, <2>1, <2>2
<1>7. LateRight'
  BY <1>6 DEF LateRight
<1> QED BY <1>4, <1>5, <1>7 DEF Served

\* A step that establishes nothing.
Quiet ==
    /\ op' = op \/ Turn(op', op)
    /\ last' = last /\ Lower /\ RecSame
    /\ late' \subseteq late \/ (Turn(op', op) /\ Lingering)

LEMMA QuietKeeps ==
    ASSUME TypeOK, ControlInv, Quiet PROVE ControlInv'
<1>1. StagedOp(op)'
  <2>1. StagedOp(op')
    BY DEF Quiet, ControlInv, Turn
  <2> QED BY <2>1 DEF StagedOp
<1>2. LateKnown'
  BY LateKept, LingeringKnown DEF Quiet, ControlInv, Turn, Lower
<1>3. Served'
  BY ServedKept, LingeringRight DEF Quiet, ControlInv
<1>4. Claimed'
  <2>1. CASE op' = op
    <3>1. \A h \in Hosts : /\ RunningOn(h)' \subseteq RunningOn(h)
                           /\ Admitted(h)' => Admitted(h)
      BY DEF Quiet, Lower
    <3>2. op.hosts \subseteq Hosts /\ op.todo \subseteq Hosts
      BY DEF TypeOK, Operations
    <3>3. /\ op.pc = "launch" => op.todo \subseteq op.hosts
          /\ \A h \in Hosts : Empty(h) => Empty(h)'
      BY <3>1 DEF Empty, ControlInv, StagedOp
    <3> QED BY <2>1, <3>1, <3>2, <3>3 DEF Claimed, ControlInv, Quiet, RecSame
  <2>2. CASE Turn(op', op)
    BY <2>2 DEF Turn, Claimed, Claims
  <2> QED BY <2>1, <2>2 DEF Quiet
<1> QED BY <1>1, <1>2, <1>3, <1>4 DEF ControlInv
-----------------------------------------------------------------------------
(* The steps that establish nothing.                                       *)

LEMMA NodeKept ==
    ASSUME UNCHANGED <<nodeGen, ctr, yue>> PROVE Lower
BY DEF Lower, RunningOn, Admitted

LEMMA EffectOn ==
    ASSUME TypeOK, NEW c \in Requests, Effect(c)
    PROVE  /\ nodeGen' = IF c.act = "fence" THEN [nodeGen EXCEPT ![c.host] = c.gen] ELSE nodeGen
           /\ \A h \in Hosts : \A k \in RunningOn(h)' :
                \/ k \in RunningOn(h)
                \/ /\ c.act = "launch" /\ h = c.host
                   /\ k = [gen |-> c.gen, members |-> c.members, running |-> TRUE]
           /\ \A h \in Hosts : Admitted(h)' =>
                \/ Admitted(h) /\ yue'[h].gen = yue[h].gen
                \/ c.act = "admit" /\ h = c.host /\ yue'[h].gen = c.gen
<1>1. nodeGen' = IF c.act = "fence" THEN [nodeGen EXCEPT ![c.host] = c.gen] ELSE nodeGen
  BY DEF Effect
<1>2. ASSUME NEW h \in Hosts, NEW k \in RunningOn(h)'
      PROVE  \/ k \in RunningOn(h)
             \/ /\ c.act = "launch" /\ h = c.host
                /\ k = [gen |-> c.gen, members |-> c.members, running |-> TRUE]
  <2>1. k \in ctr'[h] /\ k.running
    BY DEF RunningOn
  <2>2. ctr'[h] = IF h = c.host THEN ContainersAfter(ctr[h], c) ELSE ctr[h]
    BY DEF Effect, TypeOK
  <2> QED BY <2>1, <2>2 DEF ContainersAfter, RunningOn
<1>3. ASSUME NEW h \in Hosts, Admitted(h)'
      PROVE  \/ Admitted(h) /\ yue'[h].gen = yue[h].gen
             \/ c.act = "admit" /\ h = c.host /\ yue'[h].gen = c.gen
  <2>1. yue'[h].up /\ yue'[h].acc
    BY <1>3 DEF Admitted
  <2>2. CASE h # c.host
    BY <2>1, <2>2 DEF Effect, TypeOK, Admitted
  <2>3. CASE h = c.host
    <3>1. yue'[h] = FactoryAfter(yue[h], c) /\ yue[h] \in Factories
      BY <2>3 DEF Effect, TypeOK
    <3>2. CASE c.act = "admit"
      BY <2>3, <3>1, <3>2 DEF FactoryAfter
    <3>3. CASE c.act # "admit"
      BY <2>1, <3>1, <3>3 DEF FactoryAfter, Admitted, Factories
    <3> QED BY <3>2, <3>3
  <2> QED BY <2>2, <2>3
<1> QED BY <1>1, <1>2, <1>3

LEMMA EffectLowers ==
    ASSUME TypeOK, NEW c \in Requests, Effect(c), c.act \notin {"fence", "launch", "admit"}
    PROVE  Lower
BY EffectOn DEF Lower

LEMMA QuietOps ==
    ASSUME TypeOK, ControlInv,
           \/ CheckScope \/ Mark \/ RevokeDiscovery \/ Jobs \/ Stopping \/ Publish
           \/ ReadyModel \/ ReadyFails \/ Return \/ Undo \/ Fail
    PROVE  Quiet
<1>1. Turn(op', op)
  BY LocalTurns DEF ControlInv
<1>2. last' = last /\ UNCHANGED <<nodeGen, ctr, yue>> /\ late' = late
  BY DEF CheckScope, Mark, RevokeDiscovery, Jobs, Stopping, Publish, ReadyModel, ReadyFails,
         Return, Undo, Fail, Local
<1>3. Lower
  BY <1>2, NodeKept
<1>4. RecSame
  <2> \A h \in Hosts : rec[h] \in Records
    BY DEF TypeOK
  <2>1. CASE CheckScope \/ RevokeDiscovery \/ Jobs \/ Publish \/ ReadyFails \/ Return \/ Undo
    BY <2>1 DEF CheckScope, RevokeDiscovery, Jobs, Publish, ReadyFails, Return, Undo, RecSame, disk
  <2>2. CASE Mark
    BY <2>2 DEF Mark, SaveSelected, RecSame, Records
  <2>3. CASE Stopping
    BY <2>3 DEF Stopping, SaveSelected, RecSame, Records
  <2>4. CASE Fail
    BY <2>4 DEF Fail, SaveSelected, RecSame, Records
  <2>5. CASE ReadyModel
    <3>1. \A h \in op.hosts : rec[h].mode = "vllm"
      BY <2>5 DEF ReadyModel, ControlInv, Claimed
    <3>2. PICK phase \in {"starting", "ready"} :
            SaveSelected([h \in Hosts |-> [rec[h] EXCEPT !.mode = "vllm", !.phase = phase,
                                                         !.err = "ok"]])
      BY <2>5 DEF ReadyModel
    <3> QED BY <3>1, <3>2 DEF SaveSelected, RecSame, Records
  <2> QED BY <2>1, <2>2, <2>3, <2>4, <2>5
<1> QED BY <1>1, <1>2, <1>3, <1>4 DEF Quiet

LEMMA QuietFaults ==
    ASSUME TypeOK, ControlInv,
           \/ Interrupt \/ UndoUnrevoked \/ Crash
           \/ \E h \in Hosts : CallRefused(h) \/ CallFails(h) \/ LaunchDies(h)
    PROVE  Quiet
<1>1. Turn(op', op) /\ ~Well(op')
  BY FaultsTurn DEF ControlInv
<1>2. last' = last /\ RecSame
  BY DEF Interrupt, UndoUnrevoked, Crash, CallRefused, CallFails, LaunchDies, Local, disk, RecSame
<1>3. Lower
  <2>1. CASE \/ Interrupt \/ UndoUnrevoked \/ Crash
             \/ \E h \in Hosts : CallRefused(h) \/ CallFails(h)
    BY <2>1, NodeKept DEF Interrupt, UndoUnrevoked, Crash, CallRefused, CallFails, Local, node
  <2>2. ASSUME NEW h \in Hosts, LaunchDies(h) PROVE Lower
    <3> DEFINE dead == [gen |-> op.gen, members |-> op.hosts, running |-> FALSE]
    <3>1. ctr' = [ctr EXCEPT ![h] = @ \cup {dead}] /\ UNCHANGED <<nodeGen, yue>>
      BY <2>2 DEF LaunchDies
    <3>2. \A g \in Hosts : \A k \in ctr'[g] : k.running => k \in ctr[g]
      BY <3>1 DEF TypeOK
    <3>3. \A g \in Hosts : RunningOn(g)' \subseteq RunningOn(g)
      BY <3>2 DEF RunningOn
    <3> QED BY <3>1, <3>3 DEF Lower, Admitted
  <2> QED BY <2>1, <2>2
<1>4. late' \subseteq late \/ Lingering
  <2>1. CASE Lingers
    <3>1. LateActs \subseteq Calls
      BY FaultsAssumption DEF Calls
    <3> QED BY <1>1, <2>1, <3>1 DEF Lingers, Lingering
  <2>2. CASE UNCHANGED late
    BY <2>2
  <2> QED BY <2>1, <2>2
          DEF Interrupt, UndoUnrevoked, Crash, CallRefused, CallFails, LaunchDies, Local
<1> QED BY <1>1, <1>2, <1>3, <1>4 DEF Quiet

LEMMA QuietWorld ==
    ASSUME TypeOK, ControlInv,
           \/ UNCHANGED vars
           \/ \E h \in Hosts : \/ JobArrives(h) \/ JobDone(h) \/ ContainerExits(h) \/ Reboot(h)
                               \/ Foreign(h) \/ ForeignEnds(h)
           \/ \E c \in late : LateRuns(c) /\ ~(Runs(c) /\ c.act \in {"fence", "launch", "admit"})
    PROVE  Quiet
<1>1. UNCHANGED <<op, last, rec>> /\ late' \subseteq late
  BY DEF vars, JobArrives, JobDone, ContainerExits, Reboot, Foreign, ForeignEnds, LateRuns, disk
<1>2. Lower
  <2>0. \A h \in Hosts : yue[h] \in Factories /\ ctr[h] \in SUBSET Containers
    BY DEF TypeOK
  <2>1. CASE UNCHANGED vars \/ \E h \in Hosts : Foreign(h) \/ ForeignEnds(h)
    BY <2>1, NodeKept DEF vars, Foreign, ForeignEnds, node
  <2>2. ASSUME NEW h \in Hosts, JobArrives(h) \/ JobDone(h) PROVE Lower
    <3>1. /\ UNCHANGED <<nodeGen, ctr>>
          /\ \E job \in BOOLEAN : yue' = [yue EXCEPT ![h].job = job]
      BY <2>2 DEF JobArrives, JobDone
    <3>2. \A g \in Hosts : yue'[g].up = yue[g].up /\ yue'[g].acc = yue[g].acc
                           /\ yue'[g].gen = yue[g].gen
      BY <2>0, <3>1 DEF TypeOK, Factories
    <3> QED BY <3>1, <3>2 DEF Lower, Admitted, RunningOn
  <2>3. ASSUME NEW h \in Hosts, ContainerExits(h) \/ Reboot(h) PROVE Lower
    <3>1. /\ nodeGen' = nodeGen
          /\ ctr' = [ctr EXCEPT ![h] = {[k EXCEPT !.running = FALSE] : k \in @}]
          /\ \A g \in Hosts : Admitted(g)' => Admitted(g) /\ yue'[g].gen = yue[g].gen
      <4>1. CASE ContainerExits(h)
        BY <4>1 DEF ContainerExits, Admitted
      <4>2. CASE Reboot(h)
        <5>1. PICK up \in BOOLEAN :
                yue' = [yue EXCEPT ![h] = [@ EXCEPT !.up = up, !.acc = FALSE, !.job = FALSE]]
          BY <4>2 DEF Reboot
        <5>2. \A g \in Hosts : IF g = h THEN ~yue'[g].acc ELSE yue'[g] = yue[g]
          BY <2>0, <5>1 DEF TypeOK, Factories
        <5> QED BY <4>2, <5>2 DEF Reboot, Admitted
      <4> QED BY <2>3, <4>1, <4>2
    <3>2. \A g \in Hosts : \A k \in ctr'[g] : k.running => k \in ctr[g]
      <4>1. \A k \in ctr[h] : ~[k EXCEPT !.running = FALSE].running
        BY <2>0 DEF Containers
      <4> QED BY <3>1, <4>1 DEF TypeOK
    <3>3. \A g \in Hosts : RunningOn(g)' \subseteq RunningOn(g)
      BY <3>2 DEF RunningOn
    <3> QED BY <3>1, <3>3 DEF Lower
  <2>4. ASSUME NEW c \in late, LateRuns(c), ~(Runs(c) /\ c.act \in {"fence", "launch", "admit"})
        PROVE  Lower
    <3>1. c \in Requests
      BY DEF TypeOK
    <3>2. CASE Runs(c)
      BY <2>4, <3>1, <3>2, EffectLowers DEF LateRuns
    <3>3. CASE ~Runs(c)
      BY <2>4, <3>3, NodeKept DEF LateRuns, node
    <3> QED BY <3>2, <3>3
  <2> QED BY <2>1, <2>2, <2>3, <2>4
<1> QED BY <1>1, <1>2 DEF Quiet, RecSame
-----------------------------------------------------------------------------
(* The steps that begin a transition or change what is recorded.           *)

LEMMA BeginKeeps ==
    ASSUME TypeOK, ControlInv, Begin PROVE ControlInv'
<1>1. /\ StagedOp(op') /\ op'.pc = "scope" /\ op'.gen = last + 1 /\ last' = last + 1
      /\ UNCHANGED <<rec, nodeGen, ctr, yue, late>>
  BY BeginStep DEF Begin, disk, node
<1>2. last \in Nat /\ \A c \in late : c.gen \in Nat
  BY BoundsAssumption DEF TypeOK, Gens, Generations, Requests, None
<1>3. StagedOp(op)'
  BY <1>1 DEF StagedOp
<1>4. LateKnown'
  <2>1. \A c \in late : c.gen <= last
    BY DEF ControlInv, LateKnown
  <2>2. \A c \in late' : c.gen <= last' /\ c.gen # op'.gen
    BY <1>1, <1>2, <2>1
  <2>3. \A c, d \in late' : c.act = "fence" /\ d.act \in Dangerous => c.gen # d.gen
    BY <1>1 DEF ControlInv, LateKnown
  <2>4. \A h : ~FencedOn(op, h)'
    BY <1>1 DEF FencedOn
  <2>5. op'.gen <= last'
    BY <1>1, <1>2
  <2> QED BY <2>2, <2>3, <2>4, <2>5 DEF LateKnown
<1>5. Served'
  BY <1>1, NodeKept, ServedKept DEF ControlInv, RecSame
<1>6. Claimed'
  BY <1>1 DEF Claimed
<1> QED BY <1>3, <1>4, <1>5, <1>6 DEF ControlInv

\* Past its fences, and while all is well, no late call can reach its hosts.
LEMMA SureIsAlone ==
    ASSUME StagedOp(op), LateKnown, op.pc \in Sure
    PROVE  Well(op) /\ \A c \in late : c.gen # op.gen /\ (c.host \in op.hosts => ~Live(c))
<1>1. Well(op)
  BY DEF StagedOp, Well, Sure, Forward
<1>2. \A h \in op.hosts : FencedOn(op, h)
  BY DEF FencedOn, Sure
<1> QED BY <1>1, <1>2 DEF LateKnown

\* The records of S are rewritten: nothing is to come there, and what is there fits.
LEMMA RecordsWritten ==
    ASSUME TypeOK, Served, UNCHANGED <<nodeGen, ctr, yue, late>>,
           NEW S \in SUBSET Hosts,
           \A h \in Hosts \ S : rec'[h] = rec[h],
           \A c \in late : c.host \in S => ~Live(c),
           \A h \in S : \A k \in RunningOn(h) : k.gen = None,
           \A h \in S : Admitted(h) => rec'[h].mode = "yue" /\ rec'[h].allocId = yue[h].gen
    PROVE  Served'
<1>1. /\ \A h : RunningOn(h)' = RunningOn(h) /\ (Admitted(h)' <=> Admitted(h))
      /\ \A c : Live(c)' <=> Live(c)
  BY DEF RunningOn, Admitted, Live
<1>2. \A c \in late : c.host \in Hosts
  BY DEF TypeOK, Requests
<1>3. LateRight'
  <2> SUFFICES ASSUME NEW c \in late', Live(c)'
               PROVE  /\ rec'[c.host].allocId = c.gen
                      /\ \/ /\ c.act = "launch" /\ rec'[c.host].mode = "vllm"
                            /\ rec'[c.host].alloc = c.members /\ c.host \in c.members
                            /\ \A k \in RunningOn(c.host)' : k.gen = c.gen
                         \/ c.act = "admit" /\ rec'[c.host].mode = "yue" /\ RunningOn(c.host)' = {}
    BY DEF LateRight
  <2>1. c \in late /\ Live(c)
    BY <1>1
  <2>2. rec'[c.host] = rec[c.host] /\ RunningOn(c.host)' = RunningOn(c.host)
    BY <1>1, <1>2, <2>1
  <2> QED BY <2>1, <2>2 DEF Served, LateRight
<1>4. Recorded'
  BY <1>1 DEF Served, Recorded
<1>5. OneWorkloadPerNode'
  BY <1>1 DEF Served, OneWorkloadPerNode
<1> QED BY <1>3, <1>4, <1>5 DEF Served

LEMMA ReleaseKeeps ==
    ASSUME TypeOK, ControlInv, Release PROVE ControlInv'
<1>0. op.pc = "release" /\ UNCHANGED <<last, nodeGen, ctr, yue, late>>
  BY DEF Release, Local
<1>1. /\ op' \in Operations /\ StagedOp(op') /\ Calm(op', op)
      /\ op'.pc \notin Claims \/ (op'.pc = "claim" /\ op'.hosts = op.hosts)
  BY LocalTurns, ClaimingSteps DEF ControlInv, Turn
<1>2. StagedOp(op)'
  BY <1>1 DEF StagedOp
<1>3. LateKnown'
  BY <1>0, <1>1, LateKept DEF ControlInv
<1>4. \A h \in op.hosts : Empty(h) /\ h \in Hosts
  BY <1>0 DEF ControlInv, Claimed, TypeOK, Operations
<1>5. Served'
  <2>1. op.hosts \in SUBSET Hosts
    BY DEF TypeOK, Operations
  <2>2. \A h \in Hosts \ op.hosts : rec'[h] = rec[h]
    BY DEF Release, SaveSelected
  <2>3. \A c \in late : c.host \in op.hosts => ~Live(c)
    BY <1>0, SureIsAlone DEF ControlInv, Sure
  <2> QED BY <1>0, <1>4, <2>1, <2>2, <2>3, RecordsWritten DEF ControlInv, Empty
<1>6. Claimed'
  <2>1. CASE op'.pc \notin Claims
    BY <2>1 DEF Claimed, Claims
  <2>2. CASE op'.pc = "claim" /\ op'.hosts = op.hosts
    <3>1. \A h \in op.hosts : Empty(h)'
      BY <1>0, <1>4 DEF Empty, RunningOn, Admitted
    <3> QED BY <2>2, <3>1 DEF Claimed
  <2> QED BY <1>1, <2>1, <2>2
<1> QED BY <1>2, <1>3, <1>5, <1>6 DEF ControlInv

LEMMA ClaimKeeps ==
    ASSUME TypeOK, ControlInv, Claim PROVE ControlInv'
<1>0. op.pc = "claim" /\ UNCHANGED <<last, nodeGen, ctr, yue, late>>
  BY DEF Claim, Local
<1>1. /\ op' \in Operations /\ StagedOp(op') /\ Calm(op', op)
      /\ op'.pc = IF op.target = "yue" THEN "restart" ELSE "launch"
      /\ op'.hosts = op.hosts /\ op'.gen = op.gen /\ op'.todo = op.hosts
  BY ClaimingSteps DEF ControlInv
<1>2. StagedOp(op)'
  BY <1>1 DEF StagedOp
<1>3. LateKnown'
  BY <1>0, <1>1, LateKept DEF ControlInv
<1>4. \A h \in op.hosts : Empty(h) /\ h \in Hosts
  BY <1>0 DEF ControlInv, Claimed, TypeOK, Operations
<1>5. Served'
  <2>1. op.hosts \in SUBSET Hosts
    BY DEF TypeOK, Operations
  <2>2. \A h \in Hosts \ op.hosts : rec'[h] = rec[h]
    BY DEF Claim, SaveSelected
  <2>3. \A c \in late : c.host \in op.hosts => ~Live(c)
    BY <1>0, SureIsAlone DEF ControlInv, Sure
  <2> QED BY <1>0, <1>4, <2>1, <2>2, <2>3, RecordsWritten DEF ControlInv, Empty
<1>6. Claimed'
  <2>1. \A h \in op.hosts : RunningOn(h)' = {}
    BY <1>0, <1>4 DEF Empty, RunningOn
  <2>2. \A h \in op.hosts :
          /\ rec'[h].mode = IF op.target = "yue" THEN "yue" ELSE "vllm"
          /\ rec'[h].allocId = op.gen
          /\ rec'[h].alloc = IF op.target = "yue" THEN {} ELSE op.hosts
    <3> SUFFICES
          ASSUME NEW h \in op.hosts
          PROVE  /\ rec'[h].mode = IF op.target = "yue" THEN "yue" ELSE "vllm"
                 /\ rec'[h].allocId = op.gen
                 /\ rec'[h].alloc = IF op.target = "yue" THEN {} ELSE op.hosts
      OBVIOUS
    <3>1. h \in Hosts /\ rec[h] \in Records
      BY <1>4 DEF TypeOK
    <3>2. rec'[h] = [rec[h] EXCEPT !.mode = IF op.target = "yue" THEN "yue" ELSE "vllm",
                                   !.phase = "starting", !.allocId = op.gen,
                                   !.alloc = IF op.target = "yue" THEN {} ELSE op.hosts]
      BY <3>1 DEF Claim, SaveSelected
    <3> QED BY <3>1, <3>2 DEF Records
  <2>3. CASE op.target = "yue"
    BY <1>1, <2>1, <2>2, <2>3 DEF Claimed
  <2>4. CASE op.target # "yue"
    BY <1>1, <2>1, <2>2, <2>4 DEF Claimed
  <2> QED BY <2>3, <2>4
<1> QED BY <1>2, <1>3, <1>5, <1>6 DEF ControlInv

LEMMA ReadyYueKeeps ==
    ASSUME TypeOK, ControlInv, ReadyYue PROVE ControlInv'
<1>0. op.pc = "ready" /\ op.target = "yue" /\ UNCHANGED <<last, nodeGen, ctr, yue, late>>
  BY DEF ReadyYue, Local
<1>1. Turn(op', op)
  BY LocalTurns DEF ControlInv
<1>2. StagedOp(op)'
  BY <1>1 DEF StagedOp, Turn
<1>3. LateKnown'
  BY <1>0, <1>1, LateKept DEF ControlInv, Turn
<1>4. op.hosts = Hosts
  BY <1>0 DEF ControlInv, StagedOp
<1>5. \A h \in Hosts : rec[h].mode = "yue" /\ rec[h].allocId = op.gen
  BY <1>0, <1>4 DEF ControlInv, Claimed
<1>6. Served'
  <2>1. \A h \in Hosts : rec'[h].mode = "yue" /\ rec'[h].allocId = op.gen
    <3> SUFFICES ASSUME NEW h \in Hosts
                 PROVE  rec'[h].mode = "yue" /\ rec'[h].allocId = op.gen
      OBVIOUS
    <3>1. rec[h] \in Records
      BY DEF TypeOK
    <3>2. rec'[h] = [rec[h] EXCEPT !.mode = "yue", !.phase = "ready", !.err = "ok",
                                   !.alloc = {h}, !.allocId = op.gen]
      BY DEF ReadyYue
    <3> QED BY <3>1, <3>2 DEF Records
  <2>2. \A c \in late : c.host \in Hosts => ~Live(c)
    BY <1>0, <1>4, SureIsAlone DEF ControlInv, Sure
  <2>3. \A h \in Hosts : \A k \in RunningOn(h) : k.gen = None
    BY <1>5 DEF ControlInv, Served, Recorded
  <2>4. \A h \in Hosts : Admitted(h) => rec[h].allocId = yue[h].gen
    BY DEF ControlInv, Served, Recorded
  <2> QED BY <1>0, <1>5, <2>1, <2>2, <2>3, <2>4, RecordsWritten DEF ControlInv
<1>7. Claimed'
  BY <1>1 DEF Claimed, Turn, Claims
<1> QED BY <1>2, <1>3, <1>6, <1>7 DEF ControlInv

LEMMA ClearKeeps ==
    ASSUME TypeOK, ControlInv, Clear PROVE ControlInv'
<1>0. op.pc = "clear" /\ UNCHANGED <<last, nodeGen, ctr, yue, late>>
  BY DEF Clear, Local
<1>1. Turn(op', op)
  BY LocalTurns DEF ControlInv
<1>2. StagedOp(op)'
  BY <1>1 DEF StagedOp, Turn
<1>3. LateKnown'
  BY <1>0, <1>1, LateKept DEF ControlInv, Turn
<1>4. \A h \in op.hosts : rec[h].mode = "none"
  BY <1>0 DEF ControlInv, Claimed
<1>5. op.hosts \in SUBSET Hosts
  BY DEF TypeOK, Operations
<1>6. Served'
  <2>1. \A h \in Hosts \ op.hosts : rec'[h] = rec[h]
    BY DEF Clear
  <2>2. \A c \in late : c.host \in op.hosts => ~Live(c)
    BY <1>4 DEF ControlInv, Served, LateRight
  <2>3. \A h \in op.hosts : (\A k \in RunningOn(h) : k.gen = None) /\ ~Admitted(h)
    BY <1>4, <1>5 DEF ControlInv, Served, Recorded
  <2> QED BY <1>0, <1>5, <2>1, <2>2, <2>3, RecordsWritten DEF ControlInv
<1>7. Claimed'
  BY <1>1 DEF Claimed, Turn, Claims
<1> QED BY <1>2, <1>3, <1>6, <1>7 DEF ControlInv

LEMMA AuditKeeps ==
    ASSUME TypeOK, ControlInv, Reconcile \/ \E h \in Hosts : AuditHost(h) PROVE ControlInv'
<1>0. UNCHANGED <<last, rec, nodeGen, ctr, yue, late>>
  BY DEF Reconcile, AuditHost, Local, disk
<1>1. /\ op' \in Operations /\ StagedOp(op') /\ Calm(op', op) /\ op'.pc \in {"audit", "clear"}
      /\ \A h \in op'.hosts : rec[h].mode = "none"
  <2>1. CASE Reconcile
    BY <2>1, ClaimingSteps DEF ControlInv, Candidates
  <2>2. ASSUME NEW h \in Hosts, AuditHost(h)
        PROVE  /\ op' \in Operations /\ StagedOp(op') /\ Calm(op', op)
               /\ op'.pc \in {"audit", "clear"}
               /\ \A g \in op'.hosts : rec[g].mode = "none"
    <3>1. op.pc = "audit"
      BY <2>2 DEF AuditHost
    <3> QED BY <2>2, <3>1, ClaimingSteps DEF ControlInv, Claimed
  <2> QED BY <2>1, <2>2
<1>2. StagedOp(op)'
  BY <1>1 DEF StagedOp
<1>3. LateKnown'
  BY <1>0, <1>1, LateKept DEF ControlInv
<1>4. Served'
  BY <1>0, NodeKept, ServedKept DEF ControlInv, RecSame
<1>5. Claimed'
  BY <1>0, <1>1 DEF Claimed
<1> QED BY <1>2, <1>3, <1>4, <1>5 DEF ControlInv
-----------------------------------------------------------------------------
(* A late fence, launch or admission runs.                                 *)

LEMMA LateTyped ==
    ASSUME TypeOK, NEW c \in late
    PROVE  c \in Requests /\ c.host \in Hosts /\ c.gen # None /\ c.gen \in Gens
BY DEF TypeOK, Requests, Generations, Gens, None

\* The facts about calls under way after the late call c has run.
LEMMA LateRunsKnown ==
    ASSUME TypeOK, ControlInv, NEW c \in late, LateRuns(c), Runs(c)
    PROVE  LateKnown' /\ \A d \in late' : Live(d)' => Live(d)
<1>1. Effect(c) /\ UNCHANGED <<op, last>> /\ late' \subseteq late
  BY DEF LateRuns
<1>2. \A h \in Hosts : nodeGen'[h] = IF c.act = "fence" /\ h = c.host THEN c.gen ELSE nodeGen[h]
  BY <1>1, LateTyped, EffectOn DEF TypeOK
<1>3. ASSUME NEW d \in late', Live(d)' PROVE Live(d)
  <2>1. d.act \in Dangerous /\ d.host \in Hosts /\ nodeGen'[d.host] = d.gen /\ d \in late
    BY <1>1, <1>3, LateTyped DEF Live
  <2>2. c.act = "fence" => c.gen # d.gen
    BY <2>1 DEF ControlInv, LateKnown
  <2> QED BY <1>2, <2>1, <2>2 DEF Live
<1>4. LateKnown'
  BY <1>1, <1>3 DEF ControlInv, LateKnown, Well, FencedOn
<1> QED BY <1>3, <1>4

LEMMA LateFenceKeeps ==
    ASSUME TypeOK, ControlInv, NEW c \in late, LateRuns(c), c.act = "fence" PROVE ControlInv'
<1>1. /\ Effect(c) /\ UNCHANGED <<op, last, rec>> /\ late' \subseteq late /\ Runs(c)
      /\ c \in Requests
  BY LateTyped DEF LateRuns, Runs, disk
<1>2. LateKnown' /\ \A d \in late' : Live(d)' => Live(d)
  BY <1>1, LateRunsKnown
<1>3. \A h \in Hosts : /\ RunningOn(h)' \subseteq RunningOn(h)
                       /\ Admitted(h)' => Admitted(h) /\ yue'[h].gen = yue[h].gen
  BY <1>1, EffectOn
<1>4. LateRight'
  BY <1>1, <1>2, <1>3, LateTyped DEF ControlInv, Served, LateRight
<1>5. Recorded' /\ OneWorkloadPerNode'
  BY <1>1, <1>3 DEF ControlInv, Served, Recorded, OneWorkloadPerNode
<1>6. StagedOp(op)'
  BY <1>1 DEF ControlInv, StagedOp
<1>7. Claimed'
  <2>1. op.hosts \subseteq Hosts /\ op.todo \subseteq Hosts
    BY DEF TypeOK, Operations
  <2>2. \A h \in Hosts : Empty(h) => Empty(h)'
    BY <1>3 DEF Empty
  <2> QED BY <1>1, <1>3, <2>1, <2>2 DEF Claimed, ControlInv
<1> QED BY <1>2, <1>4, <1>5, <1>6, <1>7 DEF ControlInv, Served

LEMMA LateStartKeeps ==
    ASSUME TypeOK, ControlInv, NEW c \in late, LateRuns(c), Live(c) PROVE ControlInv'
<1>1. /\ Effect(c) /\ UNCHANGED <<op, last, rec>> /\ late' \subseteq late /\ Runs(c)
      /\ c \in Requests /\ c.host \in Hosts /\ c.gen # None /\ c.act \in {"launch", "admit"}
  BY LateTyped DEF LateRuns, Runs, disk, Live, Dangerous
<1> DEFINE new == [gen |-> c.gen, members |-> c.members, running |-> TRUE]
           g == c.host
<1>2. LateKnown' /\ \A d \in late' : Live(d)' => Live(d)
  BY <1>1, LateRunsKnown
<1>3. /\ \A h \in Hosts : h # g =>
            /\ RunningOn(h)' \subseteq RunningOn(h)
            /\ Admitted(h)' => Admitted(h) /\ yue'[h].gen = yue[h].gen
      /\ RunningOn(g)' \subseteq RunningOn(g) \cup (IF c.act = "launch" THEN {new} ELSE {})
      /\ Admitted(g)' => \/ Admitted(g) /\ yue'[g].gen = yue[g].gen
                         \/ c.act = "admit" /\ yue'[g].gen = c.gen
  BY <1>1, EffectOn
<1>4. /\ rec[g].allocId = c.gen
      /\ \/ /\ c.act = "launch" /\ rec[g].mode = "vllm" /\ rec[g].alloc = c.members
            /\ g \in c.members /\ \A k \in RunningOn(g) : k.gen = c.gen
         \/ c.act = "admit" /\ rec[g].mode = "yue" /\ RunningOn(g) = {}
  BY DEF ControlInv, Served, LateRight
<1>5. c.act = "launch" => \A k \in RunningOn(g)' : k = new
  <2> SUFFICES ASSUME c.act = "launch", NEW k \in RunningOn(g), k # new PROVE FALSE
    BY <1>3
  <2>1. k.gen = c.gen /\ k.members = c.members /\ k.running
    BY <1>1, <1>4 DEF ControlInv, Served, Recorded, RunningOn
  <2>2. k \in Containers
    BY <1>1 DEF TypeOK, RunningOn
  <2> QED BY <2>1, <2>2 DEF Containers
<1>6. c.act = "launch" => ~Admitted(g)'
  BY <1>1, <1>3, <1>4 DEF ControlInv, Served, Recorded
<1>7. c.act = "admit" => RunningOn(g)' = {}
  BY <1>3, <1>4
<1> HIDE DEF new, g
<1>8. Recorded'
  <2> SUFFICES ASSUME NEW h \in Hosts
               PROVE  /\ \A k \in RunningOn(h)' : k.gen # None =>
                            /\ rec'[h].mode = "vllm" /\ rec'[h].allocId = k.gen
                            /\ rec'[h].alloc = k.members /\ h \in k.members
                      /\ Admitted(h)' => rec'[h].mode = "yue" /\ rec'[h].allocId = yue'[h].gen
    BY DEF Recorded
  <2>1. CASE h # g
    BY <1>1, <1>3, <2>1 DEF ControlInv, Served, Recorded
  <2>2. CASE h = g /\ c.act = "launch"
    <3>1. new.gen = c.gen /\ new.members = c.members
      BY DEF new
    <3> QED BY <1>1, <1>4, <1>5, <1>6, <2>2, <3>1
  <2>3. CASE h = g /\ c.act = "admit"
    BY <1>1, <1>3, <1>4, <1>7, <2>3 DEF ControlInv, Served, Recorded
  <2> QED BY <1>1, <2>1, <2>2, <2>3
<1>9. OneWorkloadPerNode'
  <2> SUFFICES ASSUME NEW h \in Hosts
               PROVE  /\ \A j, k \in RunningOn(h)' : j = k
                      /\ Admitted(h)' => RunningOn(h)' = {}
    BY DEF OneWorkloadPerNode
  <2>1. CASE h # g
    BY <1>3, <2>1 DEF ControlInv, Served, OneWorkloadPerNode
  <2>2. CASE h = g
    BY <1>1, <1>5, <1>6, <1>7, <2>2
  <2> QED BY <2>1, <2>2
<1>10. LateRight'
  <2> SUFFICES ASSUME NEW d \in late', Live(d)'
               PROVE  /\ rec'[d.host].allocId = d.gen
                      /\ \/ /\ d.act = "launch" /\ rec'[d.host].mode = "vllm"
                            /\ rec'[d.host].alloc = d.members /\ d.host \in d.members
                            /\ \A k \in RunningOn(d.host)' : k.gen = d.gen
                         \/ d.act = "admit" /\ rec'[d.host].mode = "yue" /\ RunningOn(d.host)' = {}
    BY DEF LateRight
  <2>1. d \in late /\ Live(d) /\ d.host \in Hosts
    BY <1>1, <1>2, LateTyped
  <2>2. /\ rec[d.host].allocId = d.gen
        /\ \/ /\ d.act = "launch" /\ rec[d.host].mode = "vllm"
              /\ rec[d.host].alloc = d.members /\ d.host \in d.members
              /\ \A k \in RunningOn(d.host) : k.gen = d.gen
           \/ d.act = "admit" /\ rec[d.host].mode = "yue" /\ RunningOn(d.host) = {}
    BY <2>1 DEF ControlInv, Served, LateRight
  <2>3. CASE d.host # g
    BY <1>1, <1>3, <2>1, <2>2, <2>3
  <2>4. CASE d.host = g /\ c.act = "launch"
    <3>1. d.gen = c.gen /\ d.act = "launch"
      BY <1>4, <2>2, <2>4
    <3>2. \A k \in RunningOn(g)' : k.gen = c.gen
      BY <1>5, <2>4 DEF new
    <3> QED BY <1>1, <2>2, <2>4, <3>1, <3>2
  <2>5. CASE d.host = g /\ c.act = "admit"
    BY <1>1, <1>4, <1>7, <2>2, <2>5
  <2> QED BY <1>1, <2>3, <2>4, <2>5
<1>11. StagedOp(op)'
  BY <1>1 DEF ControlInv, StagedOp
<1>12. Claimed'
  <2>1. op.hosts \subseteq Hosts /\ (op.pc = "launch" => op.todo \subseteq op.hosts)
    BY DEF TypeOK, Operations, ControlInv, StagedOp
  <2>2. op.pc \in Sure => g \notin op.hosts
    BY SureIsAlone DEF ControlInv, g
  <2>3. \A h \in Hosts : h # g => (Empty(h) => Empty(h)')
    BY <1>3 DEF Empty
  <2>4. CASE op.pc \in Sure
    BY <1>1, <1>3, <2>1, <2>2, <2>3, <2>4 DEF Claimed, ControlInv
  <2>5. CASE op.pc \notin Sure
    BY <1>1, <2>1, <2>5 DEF Claimed, ControlInv, Sure
  <2> QED BY <2>4, <2>5
<1> QED BY <1>2, <1>8, <1>9, <1>10, <1>11, <1>12 DEF ControlInv, Served
-----------------------------------------------------------------------------
(* A call of the transition runs.                                          *)

LEMMA CallRunsOn ==
    ASSUME TypeOK, StagedOp(op), NEW h \in Hosts, CallRuns(h)
    PROVE  /\ op.pc \in Calls /\ h \in op.todo /\ UNCHANGED <<last, rec, late>>
           /\ op' \in Operations /\ StagedOp(op') /\ Heads(op', op, h)
           /\ op'.gen = op.gen /\ op'.hosts = op.hosts /\ op'.target = op.target
           /\ op'.started = op.started
           /\ op.pc # "fence" => Calm(op', op) /\ nodeGen' = nodeGen
           /\ op.pc = "fence" =>
                /\ nodeGen' = [nodeGen EXCEPT ![h] = op.gen]
                /\ Well(op') => Well(op) /\ \A g \in Hosts :
                                              FencedOn(op', g) => FencedOn(op, g) \/ g = h
           /\ \A g \in Hosts : \A k \in RunningOn(g)' :
                \/ k \in RunningOn(g)
                \/ /\ op.pc = "launch" /\ g = h
                   /\ k = [gen |-> op.gen, members |-> op.hosts, running |-> TRUE]
           /\ \A g \in Hosts : Admitted(g)' =>
                \/ Admitted(g) /\ yue'[g].gen = yue[g].gen
                \/ op.pc = "admit" /\ g = h /\ yue'[g].gen = op.gen
<1>1. /\ op.pc \in Calls /\ h \in op.todo /\ UNCHANGED <<last, rec, late>>
      /\ Effect(Call(h)) /\ op' = Succeeded(op, h) /\ op \in Operations
  BY NextHostIsDue DEF CallRuns, disk, TypeOK
<1>2. /\ Call(h) \in Requests /\ Call(h).host = h /\ Call(h).gen = op.gen /\ Call(h).act = op.pc
      /\ op.pc = "launch" => Call(h).members = op.hosts
  BY <1>1, CallTyped
<1>3. /\ op' \in Operations /\ StagedOp(op') /\ Heads(op', op, h)
      /\ op'.gen = op.gen /\ op'.hosts = op.hosts /\ op'.target = op.target
      /\ op'.started = op.started
      /\ op.pc # "fence" => Calm(op', op)
      /\ op.pc = "fence" /\ Well(op') =>
           Well(op) /\ \A g \in Hosts : FencedOn(op', g) => FencedOn(op, g) \/ g = h
  BY <1>1, SucceededMoves
<1>4. /\ nodeGen' = IF op.pc = "fence" THEN [nodeGen EXCEPT ![h] = op.gen] ELSE nodeGen
      /\ \A g \in Hosts : \A k \in RunningOn(g)' :
           \/ k \in RunningOn(g)
           \/ /\ op.pc = "launch" /\ g = h
              /\ k = [gen |-> op.gen, members |-> Call(h).members, running |-> TRUE]
      /\ \A g \in Hosts : Admitted(g)' =>
           \/ Admitted(g) /\ yue'[g].gen = yue[g].gen
           \/ op.pc = "admit" /\ g = h /\ yue'[g].gen = op.gen
  BY <1>1, <1>2, EffectOn
<1> QED BY <1>1, <1>2, <1>3, <1>4

\* No late call comes alive, and none was where a workload is started.
LEMMA CallRunsKnown ==
    ASSUME TypeOK, ControlInv, NEW h \in Hosts, CallRuns(h)
    PROVE  /\ LateKnown'
           /\ \A d \in late : Live(d)' =>
                Live(d) /\ (op.pc \in {"launch", "admit"} => d.host # h)
<1>1. /\ h \in op.todo /\ UNCHANGED <<last, late>> /\ op'.gen = op.gen
      /\ op'.started = op.started
  BY CallRunsOn DEF ControlInv
<1>2. CASE op.pc # "fence"
  <2>1. Calm(op', op) /\ nodeGen' = nodeGen
    BY <1>2, CallRunsOn DEF ControlInv
  <2>2. LateKnown'
    BY <1>1, <2>1, LateKept DEF ControlInv
  <2>3. \A d \in late : Live(d)' => Live(d)
    BY <2>1 DEF Live
  <2>4. ASSUME NEW d \in late, Live(d), op.pc \in {"launch", "admit"} PROVE d.host # h
    <3>1. op.pc \in Sure /\ h \in op.hosts
      BY <1>1, <2>4 DEF ControlInv, StagedOp, Sure
    <3> QED BY <2>4, <3>1, SureIsAlone DEF ControlInv
  <2> QED BY <2>2, <2>3, <2>4
<1>3. CASE op.pc = "fence"
  <2>1. /\ nodeGen' = [nodeGen EXCEPT ![h] = op.gen]
        /\ Well(op') => Well(op) /\ \A g \in Hosts :
                                      FencedOn(op', g) => FencedOn(op, g) \/ g = h
    BY <1>3, CallRunsOn DEF ControlInv
  <2>2. ~op.started
    BY <1>3 DEF ControlInv, StagedOp
  <2>3. ASSUME NEW d \in late, Live(d)' PROVE Live(d) /\ d.host # h
    <3>1. d.act \in Dangerous /\ nodeGen'[d.host] = d.gen /\ d.host \in Hosts
      BY <2>3, LateTyped DEF Live
    <3>2. d.gen # op.gen
      BY <2>2, <3>1 DEF ControlInv, LateKnown
    <3>3. nodeGen'[d.host] = IF d.host = h THEN op.gen ELSE nodeGen[d.host]
      BY <2>1, <3>1 DEF TypeOK
    <3> QED BY <3>1, <3>2, <3>3 DEF Live
  <2>4. op'.gen <= last' /\ \A d \in late' : d.gen <= last'
    BY <1>1 DEF ControlInv, LateKnown
  <2>5. \A c, d \in late' : c.act = "fence" /\ d.act \in Dangerous => c.gen # d.gen
    BY <1>1 DEF ControlInv, LateKnown
  <2>6. Well(op)' => \A d \in late' : d.gen # op'.gen
    BY <1>1, <2>1 DEF ControlInv, LateKnown, Well
  <2>7. ~op'.started => \A d \in late' : d.act \in Dangerous => d.gen # op'.gen
    BY <1>1 DEF ControlInv, LateKnown
  <2>8. ASSUME Well(op'), NEW d \in late', FencedOn(op', d.host), Live(d)' PROVE FALSE
    <3>1. Live(d) /\ d.host # h /\ d \in late /\ d.host \in Hosts
      BY <1>1, <2>3, <2>8, LateTyped
    <3> QED BY <2>1, <2>8, <3>1 DEF ControlInv, LateKnown
  <2>9. Well(op)' => \A d \in late' : FencedOn(op, d.host)' => ~Live(d)'
    BY <2>8 DEF Well, FencedOn
  <2> QED BY <1>3, <2>3, <2>4, <2>5, <2>6, <2>7, <2>9 DEF LateKnown
<1> QED BY <1>2, <1>3

LEMMA CallRunsServed ==
    ASSUME TypeOK, ControlInv, NEW h \in Hosts, CallRuns(h) PROVE Served'
<1>1. /\ h \in op.todo /\ UNCHANGED <<rec, late>>
      /\ \A g \in Hosts : \A k \in RunningOn(g)' :
           \/ k \in RunningOn(g)
           \/ /\ op.pc = "launch" /\ g = h
              /\ k = [gen |-> op.gen, members |-> op.hosts, running |-> TRUE]
      /\ \A g \in Hosts : Admitted(g)' =>
           \/ Admitted(g) /\ yue'[g].gen = yue[g].gen
           \/ op.pc = "admit" /\ g = h /\ yue'[g].gen = op.gen
  BY CallRunsOn DEF ControlInv
<1>2. \A d \in late : Live(d)' => Live(d) /\ (op.pc \in {"launch", "admit"} => d.host # h)
  BY CallRunsKnown
<1>3. op.pc \in {"launch", "admit"} => h \in op.hosts /\ RunningOn(h) = {}
  BY <1>1 DEF ControlInv, StagedOp, Claimed
<1>4. op.pc = "launch" =>
        /\ rec[h].mode = "vllm" /\ rec[h].allocId = op.gen /\ rec[h].alloc = op.hosts
        /\ ~Admitted(h)
  BY <1>3 DEF ControlInv, Claimed, Served, Recorded
<1>5. op.pc = "admit" => rec[h].mode = "yue" /\ rec[h].allocId = op.gen
  BY <1>3 DEF ControlInv, Claimed
<1>6. \A g \in Hosts : g # h \/ op.pc \notin {"launch", "admit"} =>
        /\ RunningOn(g)' \subseteq RunningOn(g)
        /\ Admitted(g)' => Admitted(g) /\ yue'[g].gen = yue[g].gen
  BY <1>1
<1>7. LateRight'
  <2> SUFFICES ASSUME NEW d \in late', Live(d)'
               PROVE  /\ rec'[d.host].allocId = d.gen
                      /\ \/ /\ d.act = "launch" /\ rec'[d.host].mode = "vllm"
                            /\ rec'[d.host].alloc = d.members /\ d.host \in d.members
                            /\ \A k \in RunningOn(d.host)' : k.gen = d.gen
                         \/ d.act = "admit" /\ rec'[d.host].mode = "yue" /\ RunningOn(d.host)' = {}
    BY DEF LateRight
  <2>1. d \in late /\ Live(d) /\ d.host \in Hosts /\ RunningOn(d.host)' \subseteq RunningOn(d.host)
    BY <1>1, <1>2, <1>6, LateTyped
  <2>2. /\ rec[d.host].allocId = d.gen
        /\ \/ /\ d.act = "launch" /\ rec[d.host].mode = "vllm"
              /\ rec[d.host].alloc = d.members /\ d.host \in d.members
              /\ \A k \in RunningOn(d.host) : k.gen = d.gen
           \/ d.act = "admit" /\ rec[d.host].mode = "yue" /\ RunningOn(d.host) = {}
    BY <2>1 DEF ControlInv, Served, LateRight
  <2> QED BY <1>1, <2>1, <2>2
<1>8. Recorded'
  <2> SUFFICES ASSUME NEW g \in Hosts
               PROVE  /\ \A k \in RunningOn(g)' : k.gen # None =>
                            /\ rec'[g].mode = "vllm" /\ rec'[g].allocId = k.gen
                            /\ rec'[g].alloc = k.members /\ g \in k.members
                      /\ Admitted(g)' => rec'[g].mode = "yue" /\ rec'[g].allocId = yue'[g].gen
    BY DEF Recorded
  <2>1. CASE g # h \/ op.pc \notin {"launch", "admit"}
    BY <1>1, <1>6, <2>1 DEF ControlInv, Served, Recorded
  <2>2. CASE g = h /\ op.pc = "launch"
    BY <1>1, <1>3, <1>4, <2>2
  <2>3. CASE g = h /\ op.pc = "admit"
    BY <1>1, <1>3, <1>5, <2>3 DEF ControlInv, Served, Recorded
  <2> QED BY <2>1, <2>2, <2>3
<1>9. OneWorkloadPerNode'
  <2> SUFFICES ASSUME NEW g \in Hosts
               PROVE  /\ \A j, k \in RunningOn(g)' : j = k
                      /\ Admitted(g)' => RunningOn(g)' = {}
    BY DEF OneWorkloadPerNode
  <2>1. CASE g # h \/ op.pc \notin {"launch", "admit"}
    BY <1>6, <2>1 DEF ControlInv, Served, OneWorkloadPerNode
  <2>2. CASE g = h /\ op.pc \in {"launch", "admit"}
    BY <1>1, <1>3, <1>4, <2>2
  <2> QED BY <2>1, <2>2
<1> QED BY <1>7, <1>8, <1>9 DEF Served

LEMMA CallRunsClaims ==
    ASSUME TypeOK, ControlInv, NEW h \in Hosts, CallRuns(h) PROVE Claimed'
<1>1. /\ h \in op.todo /\ UNCHANGED rec /\ StagedOp(op') /\ Heads(op', op, h)
      /\ op'.gen = op.gen /\ op'.hosts = op.hosts /\ op'.target = op.target
      /\ \A g \in Hosts : \A k \in RunningOn(g)' :
           \/ k \in RunningOn(g)
           \/ /\ op.pc = "launch" /\ g = h
              /\ k = [gen |-> op.gen, members |-> op.hosts, running |-> TRUE]
      /\ \A g \in Hosts : Admitted(g)' =>
           \/ Admitted(g) /\ yue'[g].gen = yue[g].gen
           \/ op.pc = "admit" /\ g = h /\ yue'[g].gen = op.gen
  BY CallRunsOn DEF ControlInv
<1>2. op.hosts \subseteq Hosts /\ op.todo \subseteq Hosts
  BY DEF TypeOK, Operations
<1>3. op.pc = "verify" => Empty(h)
  BY DEF CallRuns, IdleHost, Empty, RunningOn, Admitted
<1>4. op.pc \notin {"launch", "admit"} => \A g \in Hosts : Empty(g) => Empty(g)'
  BY <1>1 DEF Empty
<1>5. op'.pc = "verify" => \A g \in op'.hosts \ op'.todo : Empty(g)'
  <2>1. CASE op.pc = "unload" /\ op'.todo = op.hosts
    BY <1>1, <2>1
  <2>2. CASE op.pc = "verify" /\ op'.todo = op.todo \ {h}
    BY <1>1, <1>2, <1>3, <1>4, <2>2 DEF ControlInv, Claimed
  <2> QED BY <1>1, <2>1, <2>2 DEF Heads
<1>6. op'.pc \in {"release", "claim"} => \A g \in op'.hosts : Empty(g)'
  BY <1>1, <1>2, <1>3, <1>4 DEF Heads, ControlInv, Claimed
<1>7. op'.pc = "launch" => \A g \in op'.todo : RunningOn(g)' = {}
  <2> HAVE op'.pc = "launch"
  <2>1. op.pc = "launch" /\ op'.todo = op.todo \ {h}
    BY <1>1 DEF Heads
  <2> QED BY <1>1, <1>2, <2>1 DEF ControlInv, Claimed
<1>8. op'.pc \in {"restart", "admit"} => \A g \in op'.hosts : RunningOn(g)' = {}
  BY <1>1, <1>2 DEF Heads, ControlInv, Claimed
<1>9. op'.pc = "launch" \/ (op'.pc = "ready" /\ op'.target # "yue") =>
        \A g \in op'.hosts : /\ rec'[g].mode = "vllm" /\ rec'[g].allocId = op'.gen
                             /\ rec'[g].alloc = op'.hosts
  BY <1>1 DEF Heads, ControlInv, Claimed
<1>10. op'.pc \in {"restart", "admit"} \/ (op'.pc = "ready" /\ op'.target = "yue") =>
         \A g \in op'.hosts : rec'[g].mode = "yue" /\ rec'[g].allocId = op'.gen
  BY <1>1 DEF Heads, ControlInv, Claimed
<1>11. op'.pc \notin {"audit", "clear"}
  BY <1>1 DEF Heads
<1> QED BY <1>5, <1>6, <1>7, <1>8, <1>9, <1>10, <1>11 DEF Claimed

LEMMA CallRunsKeeps ==
    ASSUME TypeOK, ControlInv, NEW h \in Hosts, CallRuns(h) PROVE ControlInv'
<1>1. StagedOp(op')
  BY CallRunsOn DEF ControlInv
<1>2. StagedOp(op)'
  BY <1>1 DEF StagedOp
<1> QED BY <1>2, CallRunsKnown, CallRunsServed, CallRunsClaims DEF ControlInv
-----------------------------------------------------------------------------
(* Types.                                                                  *)

LEMMA EffectTyped ==
    ASSUME TypeOK, NEW c \in Requests, Effect(c)
    PROVE  /\ nodeGen' \in [Hosts -> Gens]
           /\ ctr' \in [Hosts -> SUBSET Containers]
           /\ yue' \in [Hosts -> Factories]
<1>1. c.gen \in Gens /\ c.host \in Hosts /\ c.members \in SUBSET Hosts
  BY DEF Requests, Gens
<1>2. nodeGen' \in [Hosts -> Gens]
  BY <1>1 DEF Effect, TypeOK
<1>3. ContainersAfter(ctr[c.host], c) \in SUBSET Containers
  <2>1. ctr[c.host] \in SUBSET Containers
    BY <1>1 DEF TypeOK
  <2>2. [gen |-> c.gen, members |-> c.members, running |-> TRUE] \in Containers
    BY <1>1 DEF Containers
  <2> QED BY <2>1, <2>2 DEF ContainersAfter
<1>4. FactoryAfter(yue[c.host], c) \in Factories
  <2>1. yue[c.host] \in Factories
    BY <1>1 DEF TypeOK
  <2> QED BY <1>1, <2>1 DEF FactoryAfter, Factories
<1> QED BY <1>2, <1>3, <1>4 DEF Effect, TypeOK

LEMMA OpTyped ==
    ASSUME TypeOK, StagedOp(op), [Next]_vars PROVE op' \in Operations
<1>1. CASE \/ CheckScope \/ Mark \/ RevokeDiscovery \/ Jobs \/ Stopping \/ ReadyYue
           \/ Publish \/ ReadyModel \/ ReadyFails \/ Return \/ Undo \/ Fail \/ Clear
  BY <1>1, LocalTurns DEF Turn
<1>2. CASE \/ Interrupt \/ UndoUnrevoked \/ Crash
           \/ \E h \in Hosts : CallRefused(h) \/ CallFails(h) \/ LaunchDies(h)
  BY <1>2, FaultsTurn DEF Turn
<1>3. CASE Release
  BY <1>3, LocalTurns, ClaimingSteps DEF Turn
<1>4. CASE Claim \/ Reconcile \/ \E h \in Hosts : AuditHost(h)
  BY <1>4, ClaimingSteps
<1>5. CASE Begin
  BY <1>5, BeginStep
<1>6. CASE \E h \in Hosts : CallRuns(h)
  BY <1>6, CallRunsOn
<1>7. CASE \/ UNCHANGED vars
           \/ \E h \in Hosts : \/ JobArrives(h) \/ JobDone(h) \/ ContainerExits(h) \/ Reboot(h)
                               \/ Foreign(h) \/ ForeignEnds(h)
           \/ \E c \in late : LateRuns(c)
  <2>1. op' = op
    BY <1>7 DEF vars, JobArrives, JobDone, ContainerExits, Reboot, Foreign, ForeignEnds, LateRuns
  <2> QED BY <2>1 DEF TypeOK
<1> QED BY <1>1, <1>2, <1>3, <1>4, <1>5, <1>6, <1>7 DEF Next, Proceed

\* The records stay records when some of their fields are set.
Modes == {"unknown", "none", "vllm", "yue"}
Phases == {"unmanaged", "draining", "stopping", "stopped", "starting", "ready", "failed"}

LEMMA SetPhase ==
    ASSUME NEW r \in Records, NEW p \in Phases PROVE [r EXCEPT !.phase = p] \in Records
  BY DEF Records, Phases

LEMMA SetPhaseErr ==
    ASSUME NEW r \in Records, NEW p \in Phases, NEW e \in Errors
    PROVE  [r EXCEPT !.phase = p, !.err = e] \in Records
  BY DEF Records, Phases

LEMMA SetServing ==
    ASSUME NEW r \in Records, NEW m \in Modes, NEW p \in Phases, NEW e \in Errors
    PROVE  [r EXCEPT !.mode = m, !.phase = p, !.err = e] \in Records
  BY DEF Records, Modes, Phases

LEMMA SetOwner ==
    ASSUME NEW r \in Records, NEW m \in Modes, NEW p \in Phases,
           NEW a \in SUBSET Hosts, NEW g \in Gens
    PROVE  [r EXCEPT !.mode = m, !.phase = p, !.alloc = a, !.allocId = g] \in Records
  BY DEF Records, Modes, Phases

LEMMA SetStart ==
    ASSUME NEW r \in Records, NEW m \in Modes, NEW p \in Phases,
           NEW a \in SUBSET Hosts, NEW g \in Gens
    PROVE  [r EXCEPT !.mode = m, !.phase = p, !.allocId = g, !.alloc = a] \in Records
  BY DEF Records, Modes, Phases

LEMMA SetFree ==
    ASSUME NEW r \in Records, NEW p \in Phases, NEW e \in Errors,
           NEW a \in SUBSET Hosts, NEW g \in Gens
    PROVE  [r EXCEPT !.phase = p, !.err = e, !.alloc = a, !.allocId = g] \in Records
  BY DEF Records, Phases

LEMMA SetReady ==
    ASSUME NEW r \in Records, NEW m \in Modes, NEW p \in Phases, NEW e \in Errors,
           NEW a \in SUBSET Hosts, NEW g \in Gens
    PROVE  [r EXCEPT !.mode = m, !.phase = p, !.err = e, !.alloc = a, !.allocId = g]
               \in Records
  BY DEF Records, Modes, Phases

LEMMA FieldValues ==
    /\ "ok" \in Errors /\ None \in Gens /\ {} \in SUBSET Hosts
    /\ "draining" \in Phases /\ "stopping" \in Phases /\ "stopped" \in Phases
    /\ "starting" \in Phases /\ "ready" \in Phases /\ "failed" \in Phases
    /\ "none" \in Modes /\ "vllm" \in Modes /\ "yue" \in Modes
  BY DEF Modes, Phases, Errors, Gens

\* A save of well-formed records.
LEMMA SavedTyped ==
    ASSUME TypeOK, NEW updated, SaveSelected(updated),
           \A h \in Hosts : updated[h] \in Records
    PROVE  rec' \in [Hosts -> Records]
<1>1. rec' = [h \in Hosts |-> IF h \in op.hosts THEN updated[h] ELSE rec[h]]
  BY DEF SaveSelected
<1>2. \A h \in Hosts : rec[h] \in Records
  BY DEF TypeOK
<1> QED BY <1>1, <1>2

\* The records after every step.
LEMMA RecTyped ==
    ASSUME TypeOK, [Next]_vars PROVE rec' \in [Hosts -> Records]
<1>0. (\A h \in Hosts : rec[h] \in Records) /\ op \in Operations
  BY DEF TypeOK
<1>1. CASE Mark
  <2> DEFINE new == [h \in Hosts |-> [rec[h] EXCEPT !.phase = "draining", !.err = "ok"]]
  <2>1. SaveSelected(new)
    BY <1>1 DEF Mark
  <2>2. \A h \in Hosts : [rec[h] EXCEPT !.phase = "draining", !.err = "ok"] \in Records
    BY <1>0, SetPhaseErr, FieldValues
  <2>3. \A h \in Hosts : new[h] \in Records
    BY <2>2
  <2> HIDE DEF new
  <2> QED BY <2>1, <2>3, SavedTyped
<1>2. CASE Stopping
  <2> DEFINE new == [h \in Hosts |-> [rec[h] EXCEPT !.phase = "stopping"]]
  <2>1. SaveSelected(new)
    BY <1>2 DEF Stopping
  <2>2. \A h \in Hosts : [rec[h] EXCEPT !.phase = "stopping"] \in Records
    BY <1>0, SetPhase, FieldValues
  <2>3. \A h \in Hosts : new[h] \in Records
    BY <2>2
  <2> HIDE DEF new
  <2> QED BY <2>1, <2>3, SavedTyped
<1>3. CASE Release
  <2> DEFINE new == [h \in Hosts |-> [rec[h] EXCEPT !.mode = "none", !.phase = "stopped",
                                                   !.alloc = {}, !.allocId = None]]
  <2>1. SaveSelected(new)
    BY <1>3 DEF Release
  <2>2. \A h \in Hosts : [rec[h] EXCEPT !.mode = "none", !.phase = "stopped",
                                        !.alloc = {}, !.allocId = None] \in Records
    BY <1>0, SetOwner, FieldValues
  <2>3. \A h \in Hosts : new[h] \in Records
    BY <2>2
  <2> HIDE DEF new
  <2> QED BY <2>1, <2>3, SavedTyped
<1>4. CASE Claim
  <2> DEFINE mode == IF op.target = "yue" THEN "yue" ELSE "vllm"
             alloc == IF op.target = "yue" THEN {} ELSE op.hosts
             new == [h \in Hosts |->
                       [rec[h] EXCEPT !.mode = mode, !.phase = "starting", !.allocId = op.gen,
                                      !.alloc = alloc]]
  <2>1. SaveSelected(new)
    BY <1>4 DEF Claim
  <2>2. mode \in Modes /\ alloc \in SUBSET Hosts /\ op.gen \in Gens
    BY <1>0 DEF Operations, Modes
  <2> HIDE DEF mode, alloc
  <2>3. \A h \in Hosts : [rec[h] EXCEPT !.mode = mode, !.phase = "starting",
                                        !.allocId = op.gen, !.alloc = alloc] \in Records
    BY <1>0, <2>2, SetStart, FieldValues
  <2>4. \A h \in Hosts : new[h] \in Records
    BY <2>3
  <2> HIDE DEF new
  <2> QED BY <2>1, <2>4, SavedTyped
<1>5. CASE ReadyYue
  <2>0. op.gen \in Gens /\ \A h \in Hosts : {h} \in SUBSET Hosts
    BY <1>0 DEF Operations
  <2>1. \A h \in Hosts : [rec[h] EXCEPT !.mode = "yue", !.phase = "ready", !.err = "ok",
                                        !.alloc = {h}, !.allocId = op.gen] \in Records
    BY <1>0, <2>0, SetReady, FieldValues
  <2> QED BY <1>5, <2>1 DEF ReadyYue
<1>6. CASE ReadyModel
  <2>1. PICK phase \in {"starting", "ready"} :
          SaveSelected([h \in Hosts |-> [rec[h] EXCEPT !.mode = "vllm", !.phase = phase,
                                                       !.err = "ok"]])
    BY <1>6 DEF ReadyModel
  <2> DEFINE new == [h \in Hosts |-> [rec[h] EXCEPT !.mode = "vllm", !.phase = phase,
                                                   !.err = "ok"]]
  <2>0. phase \in Phases
    BY FieldValues
  <2>2. \A h \in Hosts : [rec[h] EXCEPT !.mode = "vllm", !.phase = phase,
                                        !.err = "ok"] \in Records
    BY <1>0, <2>0, SetServing, FieldValues
  <2>3. SaveSelected(new) /\ \A h \in Hosts : new[h] \in Records
    BY <2>1, <2>2
  <2> HIDE DEF new
  <2> QED BY <2>3, SavedTyped
<1>7. CASE Fail
  <2> DEFINE new == [h \in Hosts |-> [rec[h] EXCEPT !.phase = "failed", !.err = op.err]]
  <2>0. op.err \in Errors
    BY <1>0 DEF Operations
  <2>1. SaveSelected(new)
    BY <1>7 DEF Fail
  <2>2. \A h \in Hosts : [rec[h] EXCEPT !.phase = "failed", !.err = op.err] \in Records
    BY <1>0, <2>0, SetPhaseErr, FieldValues
  <2>3. \A h \in Hosts : new[h] \in Records
    BY <2>2
  <2> HIDE DEF new
  <2> QED BY <2>1, <2>3, SavedTyped
<1>8. CASE Clear
  <2>1. \A h \in Hosts : [rec[h] EXCEPT !.phase = "stopped", !.err = "ok",
                                        !.alloc = {}, !.allocId = None] \in Records
    BY <1>0, SetFree, FieldValues
  <2> QED BY <1>0, <1>8, <2>1 DEF Clear
<1>9. CASE \/ UNCHANGED vars \/ Begin \/ Reconcile
           \/ CheckScope \/ RevokeDiscovery \/ Jobs \/ Publish \/ ReadyFails \/ Return \/ Undo
           \/ Interrupt \/ UndoUnrevoked \/ Crash
           \/ \E h \in Hosts : CallRuns(h) \/ CallRefused(h) \/ AuditHost(h)
                               \/ CallFails(h) \/ LaunchDies(h)
  <2>1. rec' = rec
    BY <1>9 DEF vars, Begin, Reconcile, CheckScope, RevokeDiscovery, Jobs, Publish, ReadyFails,
       Return, Undo, Interrupt, UndoUnrevoked, Crash, CallRuns, CallRefused, AuditHost,
       CallFails, LaunchDies, disk
  <2> QED BY <2>1 DEF TypeOK
<1>10. CASE \/ \E h \in Hosts : \/ JobArrives(h) \/ JobDone(h) \/ ContainerExits(h) \/ Reboot(h)
                                \/ Foreign(h) \/ ForeignEnds(h)
            \/ \E c \in late : LateRuns(c)
  <2>1. rec' = rec
    BY <1>10
       DEF JobArrives, JobDone, ContainerExits, Reboot, Foreign, ForeignEnds, LateRuns, disk
  <2> QED BY <2>1 DEF TypeOK
<1> QED BY <1>1, <1>2, <1>3, <1>4, <1>5, <1>6, <1>7, <1>8, <1>9, <1>10 DEF Next, Proceed

\* The nodes after every step.
LEMMA NodeTyped ==
    ASSUME TypeOK, StagedOp(op), [Next]_vars
    PROVE  /\ nodeGen' \in [Hosts -> Gens]
           /\ ctr' \in [Hosts -> SUBSET Containers]
           /\ yue' \in [Hosts -> Factories]
<1>0. \A h \in Hosts : yue[h] \in Factories /\ ctr[h] \in SUBSET Containers
  BY DEF TypeOK
<1>1. ASSUME NEW h \in Hosts, CallRuns(h)
      PROVE  /\ nodeGen' \in [Hosts -> Gens]
             /\ ctr' \in [Hosts -> SUBSET Containers] /\ yue' \in [Hosts -> Factories]
  <2>1. Effect(Call(h)) /\ Call(h) \in Requests
    BY <1>1, CallTyped DEF CallRuns
  <2> QED BY <2>1, EffectTyped
<1>2. ASSUME NEW c \in late, LateRuns(c)
      PROVE  /\ nodeGen' \in [Hosts -> Gens]
             /\ ctr' \in [Hosts -> SUBSET Containers] /\ yue' \in [Hosts -> Factories]
  <2>1. CASE Runs(c)
    BY <1>2, <2>1, LateTyped, EffectTyped DEF LateRuns
  <2>2. CASE ~Runs(c)
    BY <1>2, <2>2 DEF LateRuns, node, TypeOK
  <2> QED BY <2>1, <2>2
<1>3. ASSUME NEW h \in Hosts, LaunchDies(h)
      PROVE  /\ nodeGen' \in [Hosts -> Gens]
             /\ ctr' \in [Hosts -> SUBSET Containers] /\ yue' \in [Hosts -> Factories]
  <2> DEFINE dead == [gen |-> op.gen, members |-> op.hosts, running |-> FALSE]
  <2>1. ctr' = [ctr EXCEPT ![h] = @ \cup {dead}] /\ UNCHANGED <<nodeGen, yue>>
    BY <1>3 DEF LaunchDies
  <2>2. dead \in Containers
    BY DEF TypeOK, Operations, Containers
  <2> HIDE DEF dead
  <2> QED BY <1>0, <2>1, <2>2 DEF TypeOK
<1>4. ASSUME NEW h \in Hosts, JobArrives(h) \/ JobDone(h)
      PROVE  /\ nodeGen' \in [Hosts -> Gens]
             /\ ctr' \in [Hosts -> SUBSET Containers] /\ yue' \in [Hosts -> Factories]
  <2>1. /\ UNCHANGED <<nodeGen, ctr>>
        /\ \E job \in BOOLEAN : yue' = [yue EXCEPT ![h].job = job]
    BY <1>4 DEF JobArrives, JobDone
  <2>2. \A job \in BOOLEAN : [yue[h] EXCEPT !.job = job] \in Factories
    BY <1>0 DEF Factories
  <2> QED BY <1>0, <2>1, <2>2 DEF TypeOK
<1>5. ASSUME NEW h \in Hosts, ContainerExits(h) \/ Reboot(h)
      PROVE  /\ nodeGen' \in [Hosts -> Gens]
             /\ ctr' \in [Hosts -> SUBSET Containers] /\ yue' \in [Hosts -> Factories]
  <2>1. /\ nodeGen' = nodeGen
        /\ ctr' = [ctr EXCEPT ![h] = {[k EXCEPT !.running = FALSE] : k \in @}]
    BY <1>5 DEF ContainerExits, Reboot
  <2>2. {[k EXCEPT !.running = FALSE] : k \in ctr[h]} \in SUBSET Containers
    BY <1>0 DEF Containers
  <2>3. ctr' \in [Hosts -> SUBSET Containers]
    BY <2>1, <2>2 DEF TypeOK
  <2>4. CASE ContainerExits(h)
    BY <2>1, <2>3, <2>4 DEF ContainerExits, TypeOK
  <2>5. CASE Reboot(h)
    <3>1. PICK up \in BOOLEAN :
            yue' = [yue EXCEPT ![h] = [@ EXCEPT !.up = up, !.acc = FALSE, !.job = FALSE]]
      BY <2>5 DEF Reboot
    <3>2. [yue[h] EXCEPT !.up = up, !.acc = FALSE, !.job = FALSE] \in Factories
      BY <1>0 DEF Factories
    <3> QED BY <2>1, <2>3, <3>1, <3>2 DEF TypeOK
  <2> QED BY <1>5, <2>4, <2>5
<1>6. CASE UNCHANGED <<nodeGen, ctr, yue>>
  BY <1>6 DEF TypeOK
<1>7. CASE \/ UNCHANGED vars \/ Begin \/ Reconcile
           \/ CheckScope \/ Mark \/ RevokeDiscovery \/ Jobs \/ Stopping \/ Release
           \/ Claim \/ ReadyYue \/ Publish \/ ReadyModel \/ ReadyFails \/ Return
           \/ Undo \/ Fail \/ Clear
           \/ Interrupt \/ UndoUnrevoked \/ Crash
           \/ \E h \in Hosts : \/ CallRefused(h) \/ AuditHost(h) \/ CallFails(h)
                               \/ Foreign(h) \/ ForeignEnds(h)
  <2>1. UNCHANGED <<nodeGen, ctr, yue>>
    BY <1>7 DEF vars, Begin, Reconcile, CheckScope, Mark, RevokeDiscovery, Jobs, Stopping,
       Release, Claim, ReadyYue, Publish, ReadyModel, ReadyFails, Return, Undo, Fail, Clear,
       Interrupt, UndoUnrevoked, Crash, CallRefused, AuditHost, CallFails, Foreign,
       ForeignEnds, Local, node
  <2> QED BY <1>6, <2>1
<1> QED BY <1>1, <1>2, <1>3, <1>4, <1>5, <1>7 DEF Next, Proceed

\* What is left of TypeOK: the counters, the lists and the calls under way.
LEMMA CountersTyped ==
    ASSUME TypeOK, [Next]_vars PROVE last' \in Gens /\ faults' \in 0..MaxFaults
<1>1. CASE Begin
  BY <1>1, BeginStep DEF Begin, TypeOK
<1>2. CASE \E kind \in FaultKinds : Fault(kind) /\ last' = last
  <2>1. faults \in 0..MaxFaults /\ faults < MaxFaults /\ faults' = faults + 1 /\ MaxFaults \in Nat
    BY <1>2, BoundsAssumption DEF Fault, TypeOK
  <2> QED BY <1>2, <2>1 DEF TypeOK
<1>3. CASE UNCHANGED <<last, faults>>
  BY <1>3 DEF TypeOK
<1>4. CASE \/ Interrupt \/ UndoUnrevoked \/ Crash
           \/ \E h \in Hosts : \/ CallFails(h) \/ LaunchDies(h) \/ ContainerExits(h)
                               \/ Reboot(h) \/ Foreign(h)
  <2>1. \E kind \in FaultKinds : Fault(kind) /\ last' = last
    BY <1>4 DEF Interrupt, UndoUnrevoked, Crash, CallFails, LaunchDies, ContainerExits, Reboot,
       Foreign, Fault
  <2> QED BY <1>2, <2>1
<1>5. CASE \/ UNCHANGED vars \/ Reconcile \/ Proceed
           \/ \E h \in Hosts : JobArrives(h) \/ JobDone(h) \/ ForeignEnds(h)
           \/ \E c \in late : LateRuns(c)
  <2>1. UNCHANGED <<last, faults>>
    BY <1>5 DEF vars, Reconcile, Proceed, CheckScope, Mark, RevokeDiscovery, Jobs, Stopping,
       Release, Claim, ReadyYue, Publish, ReadyModel, ReadyFails, Return, Undo, Fail, Clear,
       CallRuns, CallRefused, AuditHost, Local, JobArrives, JobDone, ForeignEnds, LateRuns
  <2> QED BY <1>3, <2>1
<1> QED BY <1>1, <1>4, <1>5 DEF Next

LEMMA ListsTyped ==
    ASSUME TypeOK, StagedOp(op), [Next]_vars
    PROVE  disc' \subseteq Hosts /\ told' \subseteq Generations /\ foreign' \subseteq Hosts
<1>1. CASE RevokeDiscovery \/ Undo
  <2>1. disc' \subseteq Hosts
    BY <1>1 DEF RevokeDiscovery, Undo, Revoke
  <2> QED BY <1>1, <2>1 DEF RevokeDiscovery, Undo, Local, TypeOK
<1>2. CASE Publish
  <2>1. op.gen \in Generations
    BY <1>2 DEF Publish, StagedOp, TypeOK, Operations, Gens
  <2> QED BY <1>2, <2>1 DEF Publish, Local, TypeOK
<1>3. CASE \E h \in Hosts : Foreign(h) \/ ForeignEnds(h)
  BY <1>3 DEF Foreign, ForeignEnds, disk, TypeOK
<1>4. CASE UNCHANGED <<disc, told, foreign>>
  BY <1>4 DEF TypeOK
<1>5. CASE \/ UNCHANGED vars \/ Begin \/ Reconcile
           \/ CheckScope \/ Mark \/ Jobs \/ Stopping \/ Release \/ Claim \/ ReadyYue
           \/ ReadyModel \/ ReadyFails \/ Return \/ Fail \/ Clear
           \/ Interrupt \/ UndoUnrevoked \/ Crash
           \/ \E h \in Hosts : \/ CallRuns(h) \/ CallRefused(h) \/ AuditHost(h) \/ CallFails(h)
                               \/ LaunchDies(h) \/ JobArrives(h) \/ JobDone(h)
                               \/ ContainerExits(h) \/ Reboot(h)
           \/ \E c \in late : LateRuns(c)
  <2>1. UNCHANGED <<disc, told, foreign>>
    BY <1>5 DEF vars, Begin, Reconcile, CheckScope, Mark, Jobs, Stopping, Release, Claim,
       ReadyYue, ReadyModel, ReadyFails, Return, Fail, Clear, Interrupt, UndoUnrevoked, Crash,
       CallRuns, CallRefused, AuditHost, CallFails, LaunchDies, JobArrives, JobDone,
       ContainerExits, Reboot, LateRuns, Local, disk
  <2> QED BY <1>4, <2>1
<1> QED BY <1>1, <1>2, <1>3, <1>5 DEF Next, Proceed

LEMMA LateStaysTyped ==
    ASSUME TypeOK, StagedOp(op), [Next]_vars PROVE late' \subseteq Requests
<1>1. CASE Lingers
  <2>1. LateActs \subseteq Calls
    BY FaultsAssumption DEF Calls
  <2>2. \A h \in NextHosts : h \in Hosts
    BY NextHostIsDue DEF TypeOK, Operations
  <2> QED BY <1>1, <2>1, <2>2, CallTyped DEF Lingers, TypeOK
<1>2. CASE late' \subseteq late
  BY <1>2 DEF TypeOK
<1>3. CASE Interrupt \/ Crash \/ \E h \in Hosts : CallFails(h)
  <2>1. Lingers
    BY <1>3 DEF Interrupt, Crash, CallFails, Lingers
  <2> QED BY <1>1, <2>1
<1>4. CASE \/ UNCHANGED vars \/ Begin \/ Reconcile \/ Proceed \/ UndoUnrevoked
           \/ \E h \in Hosts : \/ LaunchDies(h) \/ JobArrives(h) \/ JobDone(h)
                               \/ ContainerExits(h) \/ Reboot(h) \/ Foreign(h) \/ ForeignEnds(h)
           \/ \E c \in late : LateRuns(c)
  <2>1. late' \subseteq late
    BY <1>4 DEF vars, Begin, Reconcile, Proceed, CheckScope, Mark, RevokeDiscovery, Jobs,
       Stopping, Release, Claim, ReadyYue, Publish, ReadyModel, ReadyFails, Return, Undo, Fail,
       Clear, CallRuns, CallRefused, AuditHost, UndoUnrevoked, LaunchDies, JobArrives, JobDone,
       ContainerExits, Reboot, Foreign, ForeignEnds, LateRuns, Local
  <2> QED BY <1>2, <2>1
<1> QED BY <1>3, <1>4 DEF Next

LEMMA TypeStep ==
    ASSUME TypeOK, StagedOp(op), [Next]_vars PROVE TypeOK'
BY OpTyped, RecTyped, NodeTyped, CountersTyped, ListsTyped, LateStaysTyped DEF TypeOK
-----------------------------------------------------------------------------
(* The theorems.                                                           *)

LEMMA Initially ==
    ASSUME Init PROVE TypeOK /\ ControlInv
<1>1. /\ Idle \in Operations /\ StagedOp(Idle) /\ ~Well(Idle) /\ Idle.gen = None
      /\ Idle.pc = "idle"
  BY DEF Idle, Operations, Stages, Gens, None, StagedOp, Well, Forward, Errors, Sure
<1>2. Unmanaged \in Records
  BY DEF Unmanaged, Records, Gens, None, Errors
<1>3. PICK running \in {{}, {[gen |-> None, members |-> Hosts, running |-> TRUE]}} :
        ctr = [h \in Hosts |-> running]
  BY DEF Init
<1>4. running \in SUBSET Containers /\ \A k \in running : k.gen = None
  <2> DEFINE old == [gen |-> None, members |-> Hosts, running |-> TRUE]
  <2>1. old \in Containers /\ old.gen = None
    BY DEF Containers, Gens
  <2> QED BY <2>1
<1>5. \A j, k \in running : j = k
  OBVIOUS
<1>6. [up |-> FALSE, acc |-> FALSE, gen |-> None, job |-> FALSE] \in Factories
  BY DEF Factories, Gens
<1> HIDE DEF Idle, Unmanaged
<1>7. TypeOK
  <2>1. op \in Operations /\ last \in Gens /\ faults \in 0..MaxFaults
    BY <1>1, BoundsAssumption DEF Init, Gens, None
  <2>2. rec \in [Hosts -> Records] /\ nodeGen \in [Hosts -> Gens] /\ yue \in [Hosts -> Factories]
    BY <1>2, <1>6 DEF Init, Gens
  <2>3. ctr \in [Hosts -> SUBSET Containers]
    BY <1>3, <1>4
  <2> QED BY <2>1, <2>2, <2>3 DEF TypeOK, Init
<1>8. LateKnown
  BY <1>1 DEF Init, LateKnown, None
<1>9. Claimed
  BY <1>1 DEF Init, Claimed
<1>10. \A h \in Hosts : ~Admitted(h) /\ RunningOn(h) \subseteq running
  BY <1>3 DEF Init, Admitted, RunningOn
<1>11. Served
  BY <1>4, <1>5, <1>10 DEF Init, Served, LateRight, Recorded, OneWorkloadPerNode
<1> QED BY <1>1, <1>7, <1>8, <1>9, <1>11 DEF ControlInv, Init

LEMMA ControlStep ==
    ASSUME TypeOK, ControlInv, [Next]_vars PROVE ControlInv'
<1>1. CASE Begin
  BY <1>1, BeginKeeps
<1>2. CASE Release
  BY <1>2, ReleaseKeeps
<1>3. CASE Claim
  BY <1>3, ClaimKeeps
<1>4. CASE ReadyYue
  BY <1>4, ReadyYueKeeps
<1>5. CASE Clear
  BY <1>5, ClearKeeps
<1>6. CASE Reconcile \/ \E h \in Hosts : AuditHost(h)
  BY <1>6, AuditKeeps
<1>7. CASE \E h \in Hosts : CallRuns(h)
  BY <1>7, CallRunsKeeps
<1>8. CASE \/ CheckScope \/ Mark \/ RevokeDiscovery \/ Jobs \/ Stopping \/ Publish
           \/ ReadyModel \/ ReadyFails \/ Return \/ Undo \/ Fail
  BY <1>8, QuietOps, QuietKeeps
<1>9. CASE \/ Interrupt \/ UndoUnrevoked \/ Crash
           \/ \E h \in Hosts : CallRefused(h) \/ CallFails(h) \/ LaunchDies(h)
  BY <1>9, QuietFaults, QuietKeeps
<1>10. CASE \/ UNCHANGED vars
            \/ \E h \in Hosts : \/ JobArrives(h) \/ JobDone(h) \/ ContainerExits(h) \/ Reboot(h)
                                \/ Foreign(h) \/ ForeignEnds(h)
  BY <1>10, QuietWorld, QuietKeeps
<1>11. ASSUME NEW c \in late, LateRuns(c) PROVE ControlInv'
  <2>1. CASE c.act = "fence"
    BY <1>11, <2>1, LateFenceKeeps
  <2>2. CASE Live(c)
    BY <1>11, <2>2, LateStartKeeps
  <2>3. CASE c.act # "fence" /\ ~Live(c)
    <3>1. ~(Runs(c) /\ c.act \in {"fence", "launch", "admit"})
      BY <2>3 DEF Runs, Live, Dangerous
    <3> QED BY <1>11, <3>1, QuietWorld, QuietKeeps
  <2> QED BY <2>1, <2>2, <2>3
<1> QED
  BY <1>1, <1>2, <1>3, <1>4, <1>5, <1>6, <1>7, <1>8, <1>9, <1>10, <1>11 DEF Next, Proceed

\* The inductive invariant holds of every behaviour.
LEMMA Controlled == Spec => [](TypeOK /\ ControlInv)
<1>1. Init => TypeOK /\ ControlInv
  BY Initially
<1>2. TypeOK /\ ControlInv /\ [Next]_vars => (TypeOK /\ ControlInv)'
  BY TypeStep, ControlStep DEF ControlInv
<1> QED BY <1>1, <1>2, PTL DEF Spec

\* Every variable of the controller and of its nodes keeps its type, whatever
\* strikes Controller.switch and whatever its abandoned SSH calls still do.
THEOREM TypeCorrect == Spec => []TypeOK
BY Controlled, PTL

\* Whatever a transition of the controller started, and whatever an abandoned
\* start of it starts later, is what controller.json records of the node.
THEOREM RunningRecorded == Spec => []RunningIsRecorded
<1>1. TypeOK /\ ControlInv => RunningIsRecorded
  BY DEF ControlInv, Served, Recorded, RunningIsRecorded
<1> QED BY <1>1, Controlled, PTL

\* No order of transitions, faults, reboots and late calls makes a node serve
\* two models, or a model beside an admitted YuE worker.
THEOREM OneWorkload == Spec => []OneWorkloadPerNode
<1>1. TypeOK /\ ControlInv => OneWorkloadPerNode
  BY DEF ControlInv, Served
<1> QED BY <1>1, Controlled, PTL
-----------------------------------------------------------------------------
(* A distributed allocation is not split.                                  *)

\* Where the lock's holder has not been admitted to its hosts, or audits.
Outside == {"idle", "scope", "audit", "clear"}

\* The records of an allocation agree, and name the node they are about.
Whole ==
    \A h \in Hosts : rec[h].mode = "vllm" =>
        /\ h \in rec[h].alloc
        /\ \A m \in rec[h].alloc : /\ rec[m].mode = "vllm"
                                   /\ rec[m].alloc = rec[h].alloc
                                   /\ rec[m].allocId = rec[h].allocId

\* A transition has its allocations for itself, as _check_scope found.
Unsplit ==
    op.pc \notin Outside /\ op.hosts # Hosts =>
        \A h \in Hosts : rec[h].mode = "vllm" /\ rec[h].alloc \cap op.hosts # {} =>
            rec[h].alloc \subseteq op.hosts

\* A model that predates the state runs.
OldRuns == \E h \in Hosts : \E k \in RunningOn(h) : k.gen = None

\* Its containers stay on both nodes until a transition of both has left a
\* mark in their records, and nothing else is recorded until it is gone.
OldKept ==
    OldRuns =>
      /\ \A h \in Hosts : rec[h].mode = "unknown"
      /\ op.pc \notin Outside => op.hosts = Hosts
      /\ op.started \/ op.pc \notin Outside \cup {"mark", "undo", "fail"} =>
           \A h \in Hosts : rec[h].phase # "unmanaged"
      /\ (\E h \in Hosts : rec[h].phase = "unmanaged") =>
           /\ \A h \in Hosts : \E k \in ctr[h] : k.members = Hosts
           /\ \A c \in late : c.ids = {}

AllocInv ==
    /\ Whole /\ Unsplit /\ OldKept
    /\ op.pc = "scope" => op.hosts # {}

\* Record r continues the transition of record o.
Later(r, o) ==
    /\ o.pc \notin Outside /\ r.hosts = o.hosts /\ r.pc # "scope"
    /\ r.started => o.started \/ o.pc = "claim"
    /\ o.pc \in {"mark", "undo", "fail"} => r.pc \in {"undo", "fail"} \/ o.started

LEMMA GotoLater ==
    ASSUME NEW o \in Operations, NEW pc \in Stages \ {"scope"}, o.pc \notin Outside,
           o.pc \notin {"mark", "undo", "fail"}
    PROVE  Later(Goto(o, pc), o)
BY GotoKeeps DEF Later, Kept

LEMMA RaiseLater ==
    ASSUME NEW o \in Operations, NEW e \in Errors, o.pc \notin Outside,
           o.pc \in {"mark", "undo", "fail"} => ~o.undo
    PROVE  Later(Raise(o, e), o)
<1>1. Kept(Raise(o, e), o) /\ Raise(o, e).pc # "scope"
  BY RaiseBreaks DEF Broken
<1>2. CASE ~o.undo
  <2> DEFINE noted == [o EXCEPT !.err = Join(@, e)]
  <2>1. noted \in Operations
    BY JoinErrors DEF Operations
  <2>2. Raise(o, e) = Goto(noted, "undo")
    BY <1>2 DEF Raise
  <2> HIDE DEF noted
  <2>3. Raise(o, e).pc = "undo"
    BY <2>1, <2>2, GotoKeeps DEF Stages
  <2> QED BY <1>1, <2>3 DEF Later, Kept
<1>3. CASE o.undo
  BY <1>1, <1>3 DEF Later, Kept
<1> QED BY <1>2, <1>3

LEMMA CleanupLater ==
    ASSUME NEW o \in Operations, o.pc = "undo" PROVE Later(Cleanup(o), o)
<1>1. CASE ~o.started
  BY <1>1, GotoKeeps DEF Cleanup, Stages, Kept, Later, Outside
<1>2. CASE o.started
  <2> DEFINE clean == [o EXCEPT !.undo = TRUE, !.drainFailed = FALSE, !.busy = {}]
  <2>1. clean \in Operations /\ clean.hosts = o.hosts
    BY DEF Operations
  <2>2. Cleanup(o) = Goto(clean, "drain")
    BY <1>2 DEF Cleanup
  <2> HIDE DEF clean
  <2>3. Cleanup(o).hosts = o.hosts /\ Cleanup(o).pc = "drain"
    BY <2>1, <2>2, GotoKeeps DEF Stages, Calls, Kept
  <2> QED BY <1>2, <2>3 DEF Later, Outside
<1> QED BY <1>1, <1>2

\* How the process that holds the lock moves.
LEMMA OpMoves ==
    ASSUME TypeOK, StagedOp(op), [Next]_vars
    PROVE  \/ op' = op
           \/ /\ op'.pc \in Outside /\ (op'.started => op.started)
              /\ op'.pc = "scope" => op'.hosts # {}
           \/ /\ CheckScope /\ InScope(op.hosts) /\ op'.pc = "mark" /\ op'.hosts = op.hosts
              /\ op.pc = "scope" /\ (op'.started => op.started)
           \/ /\ Mark /\ op'.pc = "revoke" /\ op.pc = "mark" /\ op'.hosts = op.hosts
              /\ (op'.started => op.started)
           \/ Later(op', op)
<1>0. op \in Operations /\ Idle.pc = "idle" /\ "idle" \in Outside /\ ~Idle.started
  BY DEF TypeOK, Idle, Outside
<1>1. CASE CheckScope
  <2>1. CASE InScope(op.hosts)
    BY <1>0, <1>1, <2>1, GotoKeeps DEF CheckScope, Stages, Kept
  <2>2. CASE ~InScope(op.hosts)
    BY <1>0, <1>1, <2>2 DEF CheckScope
  <2> QED BY <2>1, <2>2
<1>2. CASE Mark
  BY <1>0, <1>2, GotoKeeps DEF Mark, Stages, Kept
<1>3. CASE \/ RevokeDiscovery \/ Stopping \/ ReadyYue \/ Publish \/ ReadyModel \/ Release
  <2>1. PICK pc \in Stages \ {"scope"} :
          op' = Goto(op, pc) /\ op.pc \notin Outside \cup {"mark", "undo", "fail"}
    BY <1>3 DEF RevokeDiscovery, Stopping, ReadyYue, Publish, ReadyModel, Release, Stages, Calls,
       Outside
  <2> QED BY <1>0, <2>1, GotoLater
<1>4. CASE Jobs
  <2>0. op.pc = "jobs" /\ op.pc \notin Outside \cup {"mark", "undo", "fail"}
    BY <1>4 DEF Jobs, Outside
  <2>1. CASE op' = Goto(op, "stop")
    BY <1>0, <2>0, <2>1, GotoLater DEF Stages, Calls
  <2>2. CASE op' = [op EXCEPT !.pc = "cancel", !.todo = op.busy]
    <3>1. op'.hosts = op.hosts /\ op'.started = op.started /\ op'.pc = "cancel"
      BY <1>0, <2>2 DEF Operations
    <3> QED BY <2>0, <3>1 DEF Later
  <2>3. CASE op' = Raise(op, "other")
    BY <1>0, <2>0, <2>3, RaiseLater DEF Errors
  <2> QED BY <1>4, <2>1, <2>2, <2>3 DEF Jobs
<1>5. CASE ReadyFails \/ Interrupt
  <2>1. op' = Raise(op, "other") /\ op.pc \notin Outside
        /\ (op.pc \in {"mark", "undo", "fail"} => ~op.undo)
    BY <1>5 DEF ReadyFails, Interrupt, Outside
  <2> QED BY <1>0, <2>1, RaiseLater DEF Errors
<1>6. CASE Return \/ Fail \/ Clear \/ Crash
  BY <1>0, <1>6 DEF Return, Fail, Clear, Crash
<1>7. CASE Undo
  BY <1>0, <1>7, CleanupLater DEF Undo
<1>8. CASE UndoUnrevoked
  <2> DEFINE noted == [op EXCEPT !.err = "other"]
  <2>1. op' = Cleanup(noted) /\ op.pc = "undo"
    BY <1>8 DEF UndoUnrevoked
  <2>2. /\ noted \in Operations /\ noted.pc = "undo"
        /\ noted.hosts = op.hosts /\ noted.started = op.started
    BY <1>0, <2>1 DEF Operations, Errors
  <2> HIDE DEF noted
  <2>3. Later(op', noted)
    BY <2>1, <2>2, CleanupLater
  <2> QED BY <2>1, <2>2, <2>3 DEF Later
<1>9. CASE Claim
  <2> DEFINE begun == [op EXCEPT !.started = TRUE]
             pc == IF op.target = "yue" THEN "restart" ELSE "launch"
  <2>1. op' = Goto(begun, pc) /\ op.pc = "claim"
    BY <1>9 DEF Claim
  <2>2. begun \in Operations /\ begun.hosts = op.hosts
    BY <1>0 DEF Operations
  <2> HIDE DEF begun
  <2>3. op'.hosts = op.hosts /\ op'.pc = pc
    BY <2>1, <2>2, GotoKeeps DEF Kept, Stages, Calls
  <2> QED BY <2>1, <2>3 DEF Later, Outside
<1>10. CASE Begin
  <2>1. PICK t \in Targets, hs \in (SUBSET Hosts) \ {{}}, c \in BOOLEAN :
          op' = [Idle EXCEPT !.pc = "scope", !.target = t, !.hosts = hs,
                             !.cancel = c, !.gen = last + 1]
    BY <1>10 DEF Begin
  <2>2. op'.hosts = hs
    BY <2>1 DEF Idle
  <2>3. op'.pc = "scope" /\ ~op'.started
    BY <1>10, BeginStep
  <2>4. hs # {}
    BY <2>1
  <2> QED BY <2>2, <2>3, <2>4 DEF Outside
<1>11. CASE Reconcile
  <2>1. op' = [Idle EXCEPT !.pc = "audit", !.hosts = Candidates, !.todo = Candidates]
    BY <1>11 DEF Reconcile
  <2> QED BY <2>1 DEF Idle, Outside
<1>12. ASSUME NEW h \in Hosts, AuditHost(h)
       PROVE  op'.pc \in Outside \ {"scope"} /\ (op'.started => op.started)
  <2>1. PICK idle \in {IdleHost(h), FALSE} :
          op' = Done([op EXCEPT !.busy = IF idle THEN @ ELSE @ \cup {h}], h, "clear")
    BY <1>12 DEF AuditHost
  <2> DEFINE seen == [op EXCEPT !.busy = IF idle THEN @ ELSE @ \cup {h}]
  <2>2. seen \in Operations /\ seen.started = op.started
    BY <1>0 DEF Operations
  <2>3. op' = Done(seen, h, "clear")
    BY <2>1
  <2> HIDE DEF seen
  <2>4. op'.started = op.started
    BY <2>2, <2>3, DoneKeeps DEF Kept, Stages
  <2>5. op'.pc \in {"audit", "clear"}
    BY <1>12, ClaimingSteps
  <2> QED BY <2>4, <2>5 DEF Outside
<1>13. ASSUME NEW h \in Hosts, CallRuns(h) PROVE Later(op', op)
  <2>1. op.pc \in Calls /\ op'.hosts = op.hosts /\ op'.started = op.started /\ op'.pc # "scope"
    BY <1>13, CallRunsOn DEF Heads
  <2> QED BY <2>1 DEF Later, Calls, Outside
<1>14. ASSUME NEW h \in Hosts, CallRefused(h) \/ CallFails(h) \/ LaunchDies(h)
       PROVE Later(op', op)
  <2>1. op.pc \in Calls /\ \E e \in Errors \ {"ok"} : op' = Failed(op, h, e)
    BY <1>14 DEF CallRefused, CallFails, LaunchDies, Errors, Calls
  <2>2. Kept(op', op) /\ op'.pc # "scope"
    BY <1>0, <2>1, FailedBreaks DEF Broken
  <2> QED BY <2>1, <2>2 DEF Later, Kept, Calls, Outside
<1>15. CASE \/ UNCHANGED vars
            \/ \E h \in Hosts : \/ JobArrives(h) \/ JobDone(h) \/ ContainerExits(h) \/ Reboot(h)
                                \/ Foreign(h) \/ ForeignEnds(h)
            \/ \E c \in late : LateRuns(c)
  BY <1>15 DEF vars, JobArrives, JobDone, ContainerExits, Reboot, Foreign, ForeignEnds, LateRuns
<1> QED BY <1>1, <1>2, <1>3, <1>4, <1>5, <1>6, <1>7, <1>8, <1>9, <1>10, <1>11, <1>12, <1>13,
          <1>14, <1>15 DEF Next, Proceed

\* Who starts a container has a generation, and the rest only end.
LEMMA OldRunsBefore ==
    ASSUME TypeOK, ControlInv, [Next]_vars, OldRuns' PROVE OldRuns
<1>1. ASSUME Lower PROVE OldRuns
  BY <1>1 DEF Lower, OldRuns
<1>2. CASE \/ CheckScope \/ Mark \/ RevokeDiscovery \/ Jobs \/ Stopping \/ Publish
           \/ ReadyModel \/ ReadyFails \/ Return \/ Undo \/ Fail
  BY <1>1, <1>2, QuietOps DEF Quiet
<1>3. CASE \/ Interrupt \/ UndoUnrevoked \/ Crash
           \/ \E h \in Hosts : CallRefused(h) \/ CallFails(h) \/ LaunchDies(h)
  BY <1>1, <1>3, QuietFaults DEF Quiet
<1>4. CASE \/ UNCHANGED vars
           \/ \E h \in Hosts : \/ JobArrives(h) \/ JobDone(h) \/ ContainerExits(h) \/ Reboot(h)
                               \/ Foreign(h) \/ ForeignEnds(h)
  BY <1>1, <1>4, QuietWorld DEF Quiet
<1>5. CASE Begin \/ Release \/ Claim \/ ReadyYue \/ Clear \/ Reconcile
           \/ \E h \in Hosts : AuditHost(h)
  <2>1. UNCHANGED <<nodeGen, ctr, yue>>
    BY <1>5 DEF Begin, Release, Claim, ReadyYue, Clear, Reconcile, AuditHost, Local, node
  <2> QED BY <1>1, <2>1, NodeKept
<1>6. ASSUME NEW h \in Hosts, CallRuns(h) PROVE OldRuns
  <2>1. op.gen # None
    BY <1>6 DEF CallRuns, ControlInv, StagedOp, Calls
  <2>2. \A g \in Hosts : \A k \in RunningOn(g)' :
          k \in RunningOn(g) \/ k = [gen |-> op.gen, members |-> op.hosts, running |-> TRUE]
    BY <1>6, CallRunsOn DEF ControlInv
  <2> QED BY <2>1, <2>2 DEF OldRuns
<1>7. ASSUME NEW c \in late, LateRuns(c) PROVE OldRuns
  <2>1. c.gen # None /\ c \in Requests
    BY LateTyped
  <2>2. CASE Runs(c)
    <3>1. \A g \in Hosts : \A k \in RunningOn(g)' :
            k \in RunningOn(g) \/ k = [gen |-> c.gen, members |-> c.members, running |-> TRUE]
      BY <1>7, <2>1, <2>2, EffectOn DEF LateRuns
    <3> QED BY <2>1, <3>1 DEF OldRuns
  <2>3. CASE ~Runs(c)
    BY <1>1, <1>7, <2>3, NodeKept DEF LateRuns, node
  <2> QED BY <2>2, <2>3
<1> QED BY <1>2, <1>3, <1>4, <1>5, <1>6, <1>7 DEF Next, Proceed

\* Only four steps change what is recorded of an owner.
LEMMA RecMoves ==
    ASSUME TypeOK, ControlInv, [Next]_vars, ~(Release \/ Claim \/ ReadyYue \/ Clear)
    PROVE  RecSame
<1>1. CASE \/ CheckScope \/ Mark \/ RevokeDiscovery \/ Jobs \/ Stopping \/ Publish
           \/ ReadyModel \/ ReadyFails \/ Return \/ Undo \/ Fail
  BY <1>1, QuietOps DEF Quiet
<1>2. CASE rec' = rec
  BY <1>2 DEF RecSame
<1>3. CASE \/ UNCHANGED vars \/ Begin \/ Reconcile
           \/ Interrupt \/ UndoUnrevoked \/ Crash
           \/ \E h \in Hosts : \/ CallRuns(h) \/ CallRefused(h) \/ AuditHost(h) \/ CallFails(h)
                               \/ LaunchDies(h) \/ JobArrives(h) \/ JobDone(h)
                               \/ ContainerExits(h) \/ Reboot(h) \/ Foreign(h) \/ ForeignEnds(h)
           \/ \E c \in late : LateRuns(c)
  <2>1. rec' = rec
    BY <1>3 DEF vars, Begin, Reconcile, Interrupt, UndoUnrevoked, Crash, CallRuns, CallRefused,
       AuditHost, CallFails, LaunchDies, JobArrives, JobDone, ContainerExits, Reboot, Foreign,
       ForeignEnds, LateRuns, disk
  <2> QED BY <1>2, <2>1
<1> QED BY <1>1, <1>3 DEF Next, Proceed

\* A record that a transition has marked stays marked.
LEMMA PhaseMoves ==
    ASSUME TypeOK, [Next]_vars, NEW h \in Hosts, rec'[h].phase = "unmanaged"
    PROVE  rec[h].phase = "unmanaged" /\ (Mark => h \notin op.hosts)
<1>0. rec[h] \in Records
  BY DEF TypeOK
<1>1. CASE Mark
  BY <1>0, <1>1 DEF Mark, SaveSelected, Records
<1>2. CASE Stopping
  BY <1>0, <1>2 DEF Stopping, Mark, SaveSelected, Records
<1>3. CASE Release
  BY <1>0, <1>3 DEF Release, Mark, SaveSelected, Records
<1>4. CASE Claim
  BY <1>0, <1>4 DEF Claim, Mark, SaveSelected, Records
<1>5. CASE ReadyYue
  BY <1>0, <1>5 DEF ReadyYue, Mark, Records
<1>6. CASE ReadyModel
  <2>1. PICK phase \in {"starting", "ready"} :
          SaveSelected([g \in Hosts |-> [rec[g] EXCEPT !.mode = "vllm", !.phase = phase,
                                                       !.err = "ok"]])
    BY <1>6 DEF ReadyModel
  <2> QED BY <1>0, <1>6, <2>1 DEF ReadyModel, Mark, SaveSelected, Records
<1>7. CASE Fail
  BY <1>0, <1>7 DEF Fail, Mark, SaveSelected, Records
<1>8. CASE Clear
  BY <1>0, <1>8 DEF Clear, Mark, Records
<1>9. CASE \/ UNCHANGED vars \/ Begin \/ Reconcile
           \/ CheckScope \/ RevokeDiscovery \/ Jobs \/ Publish \/ ReadyFails \/ Return \/ Undo
           \/ Interrupt \/ UndoUnrevoked \/ Crash
           \/ \E g \in Hosts : \/ CallRuns(g) \/ CallRefused(g) \/ AuditHost(g) \/ CallFails(g)
                               \/ LaunchDies(g) \/ JobArrives(g) \/ JobDone(g)
                               \/ ContainerExits(g) \/ Reboot(g) \/ Foreign(g) \/ ForeignEnds(g)
           \/ \E c \in late : LateRuns(c)
  <2>1. rec' = rec
    BY <1>9 DEF vars, Begin, Reconcile, CheckScope, RevokeDiscovery, Jobs, Publish, ReadyFails,
       Return, Undo, Interrupt, UndoUnrevoked, Crash, CallRuns, CallRefused, AuditHost,
       CallFails, LaunchDies, JobArrives, JobDone, ContainerExits, Reboot, Foreign, ForeignEnds,
       LateRuns, disk
  <2>2. Mark => h \notin op.hosts
    BY <1>0, <2>1 DEF Mark, SaveSelected, Records
  <2> QED BY <2>1, <2>2
<1> QED BY <1>1, <1>2, <1>3, <1>4, <1>5, <1>6, <1>7, <1>8, <1>9 DEF Next, Proceed

\* Containers are removed by the removal of a transition, late or not.
LEMMA ContainersStay ==
    ASSUME TypeOK, [Next]_vars, op.pc # "unload", \A c \in late : c.ids = {},
           NEW h \in Hosts, \E k \in ctr[h] : k.members = Hosts
    PROVE  \E k \in ctr'[h] : k.members = Hosts
<1>0. ctr \in [Hosts -> SUBSET Containers]
  BY DEF TypeOK
<1>1. ASSUME NEW c, c.ids = {}, Effect(c) PROVE ctr[h] \subseteq ctr'[h]
  BY <1>0, <1>1 DEF Effect, ContainersAfter
<1>2. ASSUME NEW g \in Hosts, CallRuns(g) PROVE ctr[h] \subseteq ctr'[h]
  <2>1. Call(g).ids = {}
    BY DEF Call
  <2> QED BY <1>1, <1>2, <2>1 DEF CallRuns
<1>3. ASSUME NEW c \in late, LateRuns(c) PROVE ctr[h] \subseteq ctr'[h]
  BY <1>1, <1>3 DEF LateRuns, node
<1>4. ASSUME NEW g \in Hosts, LaunchDies(g) PROVE ctr[h] \subseteq ctr'[h]
  BY <1>0, <1>4 DEF LaunchDies
<1>5. ASSUME NEW g \in Hosts, ContainerExits(g) \/ Reboot(g)
      PROVE  \E k \in ctr'[h] : k.members = Hosts
  <2>1. ctr' = [ctr EXCEPT ![g] = {[k EXCEPT !.running = FALSE] : k \in @}]
    BY <1>5 DEF ContainerExits, Reboot
  <2>2. PICK k \in ctr[h] : k.members = Hosts
    OBVIOUS
  <2>3. [k EXCEPT !.running = FALSE].members = Hosts
    BY <1>0, <2>2 DEF Containers
  <2> QED BY <1>0, <2>1, <2>2, <2>3
<1>6. CASE \/ UNCHANGED vars \/ Begin \/ Reconcile
           \/ CheckScope \/ Mark \/ RevokeDiscovery \/ Jobs \/ Stopping \/ Release
           \/ Claim \/ ReadyYue \/ Publish \/ ReadyModel \/ ReadyFails \/ Return
           \/ Undo \/ Fail \/ Clear \/ Interrupt \/ UndoUnrevoked \/ Crash
           \/ \E g \in Hosts : \/ CallRefused(g) \/ AuditHost(g) \/ CallFails(g)
                               \/ JobArrives(g) \/ JobDone(g) \/ Foreign(g) \/ ForeignEnds(g)
  <2>1. ctr' = ctr
    BY <1>6 DEF vars, Begin, Reconcile, CheckScope, Mark, RevokeDiscovery, Jobs, Stopping,
       Release, Claim, ReadyYue, Publish, ReadyModel, ReadyFails, Return, Undo, Fail, Clear,
       Interrupt, UndoUnrevoked, Crash, CallRefused, AuditHost, CallFails, JobArrives, JobDone,
       Foreign, ForeignEnds, Local, node
  <2> QED BY <2>1
<1> QED BY <1>2, <1>3, <1>4, <1>5, <1>6 DEF Next, Proceed

\* At most one call outlives its client in a step.
LEMMA OneLeft ==
    ASSUME [Next]_vars
    PROVE  \/ late' \subseteq late
           \/ op.pc \in Calls /\ \E h \in NextHosts : late' = late \cup {Call(h)}
<1>1. CASE Interrupt \/ Crash \/ \E h \in Hosts : CallFails(h)
  BY <1>1, FaultsAssumption DEF Interrupt, Crash, CallFails, Lingers, Calls
<1>2. CASE \/ UNCHANGED vars \/ Begin \/ Reconcile \/ Proceed \/ UndoUnrevoked
           \/ \E h \in Hosts : \/ LaunchDies(h) \/ JobArrives(h) \/ JobDone(h)
                               \/ ContainerExits(h) \/ Reboot(h) \/ Foreign(h) \/ ForeignEnds(h)
           \/ \E c \in late : LateRuns(c)
  <2>1. late' \subseteq late
    BY <1>2 DEF vars, Begin, Reconcile, Proceed, CheckScope, Mark, RevokeDiscovery, Jobs,
       Stopping, Release, Claim, ReadyYue, Publish, ReadyModel, ReadyFails, Return, Undo, Fail,
       Clear, CallRuns, CallRefused, AuditHost, UndoUnrevoked, LaunchDies, JobArrives, JobDone,
       ContainerExits, Reboot, Foreign, ForeignEnds, LateRuns, Local
  <2> QED BY <2>1
<1> QED BY <1>1, <1>2 DEF Next

\* Which calls may be under way after a step.
LEMMA LateMoves ==
    ASSUME [Next]_vars
    PROVE  late' \subseteq late \cup {Call(h) : h \in NextHosts}
           /\ (op.pc \notin Calls => late' \subseteq late)
BY OneLeft

\* What the steps other than Claim write of an owner.
LEMMA OwnersWritten ==
    ASSUME TypeOK, NEW h \in Hosts
    PROVE  /\ Release => IF h \in op.hosts THEN rec'[h].mode = "none" ELSE rec'[h] = rec[h]
           /\ ReadyYue => rec'[h].mode = "yue"
           /\ Clear => rec'[h].mode = rec[h].mode /\ (h \notin op.hosts => rec'[h] = rec[h])
<1>0. rec[h] \in Records
  BY DEF TypeOK
<1>1. ASSUME Release
      PROVE  IF h \in op.hosts THEN rec'[h].mode = "none" ELSE rec'[h] = rec[h]
  <2>1. rec'[h] = IF h \in op.hosts
                  THEN [rec[h] EXCEPT !.mode = "none", !.phase = "stopped",
                                      !.alloc = {}, !.allocId = None]
                  ELSE rec[h]
    BY <1>1 DEF Release, SaveSelected
  <2> QED BY <1>0, <2>1 DEF Records
<1>2. ASSUME ReadyYue PROVE rec'[h].mode = "yue"
  <2>1. rec'[h] = [rec[h] EXCEPT !.mode = "yue", !.phase = "ready", !.err = "ok",
                                 !.alloc = {h}, !.allocId = op.gen]
    BY <1>2 DEF ReadyYue
  <2> QED BY <1>0, <2>1 DEF Records
<1>3. ASSUME Clear
      PROVE  rec'[h].mode = rec[h].mode /\ (h \notin op.hosts => rec'[h] = rec[h])
  <2>1. rec'[h] = IF h \in op.hosts \ op.busy
                  THEN [rec[h] EXCEPT !.phase = "stopped", !.err = "ok",
                                      !.alloc = {}, !.allocId = None]
                  ELSE rec[h]
    BY <1>3 DEF Clear
  <2> QED BY <1>0, <2>1 DEF Records
<1> QED BY <1>1, <1>2, <1>3

LEMMA WholeStep ==
    ASSUME TypeOK, ControlInv, AllocInv, [Next]_vars PROVE Whole'
<1>0. /\ op.hosts \subseteq Hosts
      /\ \A h \in Hosts : rec[h] \in Records /\ rec[h].alloc \subseteq Hosts
  BY DEF TypeOK, Operations, Records
<1>1. CASE RecSame
  BY <1>0, <1>1 DEF RecSame, AllocInv, Whole
<1>2. CASE Release
  <2>1. op.pc \notin Outside
    BY <1>2 DEF Release, Outside
  <2>2. \A h \in Hosts :
          IF h \in op.hosts THEN rec'[h].mode = "none" ELSE rec'[h] = rec[h]
    BY <1>2, OwnersWritten
  <2> QED BY <1>0, <2>1, <2>2 DEF AllocInv, Whole, Unsplit
<1>3. CASE Claim
  <2>1. op.pc \notin Outside
    BY <1>3 DEF Claim, Outside
  <2> DEFINE mode == IF op.target = "yue" THEN "yue" ELSE "vllm"
             alloc == IF op.target = "yue" THEN {} ELSE op.hosts
  <2>2. \A h \in Hosts :
          IF h \in op.hosts
          THEN rec'[h] = [rec[h] EXCEPT !.mode = mode, !.phase = "starting",
                                        !.allocId = op.gen, !.alloc = alloc]
          ELSE rec'[h] = rec[h]
    BY <1>3 DEF Claim, SaveSelected
  <2>3. mode = "vllm" => alloc = op.hosts
    OBVIOUS
  <2> HIDE DEF mode, alloc
  <2>4. \A h \in op.hosts :
          rec'[h].mode = mode /\ rec'[h].alloc = alloc /\ rec'[h].allocId = op.gen
    BY <1>0, <2>2 DEF Records
  <2>5. \A h \in Hosts \ op.hosts : rec'[h] = rec[h]
    BY <2>2
  <2>6. \A h \in Hosts \ op.hosts : rec[h].mode = "vllm" => rec[h].alloc \cap op.hosts = {}
    BY <1>0, <2>1 DEF AllocInv, Whole, Unsplit
  <2> SUFFICES ASSUME NEW h \in Hosts, rec'[h].mode = "vllm"
               PROVE  /\ h \in rec'[h].alloc
                      /\ \A m \in rec'[h].alloc : /\ rec'[m].mode = "vllm"
                                                  /\ rec'[m].alloc = rec'[h].alloc
                                                  /\ rec'[m].allocId = rec'[h].allocId
    BY DEF Whole
  <2>7. CASE h \in op.hosts
    BY <2>3, <2>4, <2>7
  <2>8. CASE h \notin op.hosts
    <3>1. rec'[h] = rec[h] /\ rec[h].mode = "vllm"
      BY <2>5, <2>8
    <3>2. \A m \in rec[h].alloc : m \in Hosts \ op.hosts
      BY <1>0, <2>6, <2>8, <3>1
    <3> QED BY <2>5, <3>1, <3>2 DEF AllocInv, Whole
  <2> QED BY <2>7, <2>8
<1>4. CASE ReadyYue
  <2>1. \A h \in Hosts : rec'[h].mode = "yue"
    BY <1>4, OwnersWritten
  <2> QED BY <2>1 DEF Whole
<1>5. CASE Clear
  <2>1. \A h \in op.hosts : rec[h].mode = "none"
    BY <1>5 DEF Clear, ControlInv, Claimed
  <2>2. \A h \in Hosts :
          IF h \in op.hosts THEN rec'[h].mode = "none" ELSE rec'[h] = rec[h]
    BY <1>5, <2>1, OwnersWritten
  <2> QED BY <1>0, <2>1, <2>2 DEF AllocInv, Whole
<1> QED BY <1>1, <1>2, <1>3, <1>4, <1>5, RecMoves

LEMMA UnsplitStep ==
    ASSUME TypeOK, ControlInv, AllocInv, [Next]_vars PROVE Unsplit'
<1>0. /\ op.hosts \subseteq Hosts
      /\ \A h \in Hosts : rec[h] \in Records /\ rec[h].alloc \subseteq Hosts
  BY DEF TypeOK, Operations, Records
<1> SUFFICES ASSUME op'.pc \notin Outside, op'.hosts # Hosts,
                    NEW h \in Hosts, rec'[h].mode = "vllm",
                    rec'[h].alloc \cap op'.hosts # {}
             PROVE  rec'[h].alloc \subseteq op'.hosts
  BY DEF Unsplit
<1>1. CASE CheckScope /\ InScope(op.hosts) /\ op'.hosts = op.hosts
  BY <1>1 DEF CheckScope, InScope, disk
<1>2. CASE op.pc \notin Outside /\ op'.hosts = op.hosts
  <2>1. \A g \in Hosts : rec[g].mode = "vllm" /\ rec[g].alloc \cap op.hosts # {} =>
            rec[g].alloc \subseteq op.hosts
    BY <1>2 DEF AllocInv, Unsplit
  <2>2. CASE RecSame
    BY <1>2, <2>1, <2>2 DEF RecSame
  <2>3. CASE Release
    <3>1. IF h \in op.hosts THEN rec'[h].mode = "none" ELSE rec'[h] = rec[h]
      BY <2>3, OwnersWritten
    <3> QED BY <1>2, <2>1, <3>1
  <2>4. CASE Claim
    <3> DEFINE mode == IF op.target = "yue" THEN "yue" ELSE "vllm"
               alloc == IF op.target = "yue" THEN {} ELSE op.hosts
    <3>1. IF h \in op.hosts
          THEN rec'[h] = [rec[h] EXCEPT !.mode = mode, !.phase = "starting",
                                        !.allocId = op.gen, !.alloc = alloc]
          ELSE rec'[h] = rec[h]
      BY <2>4 DEF Claim, SaveSelected
    <3>2. alloc \subseteq op.hosts
      OBVIOUS
    <3> HIDE DEF mode, alloc
    <3>3. h \in op.hosts => rec'[h].alloc = alloc
      BY <1>0, <3>1 DEF Records
    <3> QED BY <1>2, <2>1, <3>1, <3>2, <3>3
  <2>5. CASE ReadyYue
    BY <2>5, OwnersWritten
  <2>6. CASE Clear
    BY <1>2, <2>6 DEF Clear, Outside
  <2> QED BY <2>2, <2>3, <2>4, <2>5, <2>6, RecMoves
<1> QED BY <1>1, <1>2, OpMoves DEF ControlInv, Later, Outside

LEMMA OldStep ==
    ASSUME TypeOK, ControlInv, AllocInv, [Next]_vars PROVE OldKept'
<1> SUFFICES ASSUME OldRuns'
             PROVE  /\ \A h \in Hosts : rec'[h].mode = "unknown"
                    /\ op'.pc \notin Outside => op'.hosts = Hosts
                    /\ op'.started \/ op'.pc \notin Outside \cup {"mark", "undo", "fail"} =>
                         \A h \in Hosts : rec'[h].phase # "unmanaged"
                    /\ (\E h \in Hosts : rec'[h].phase = "unmanaged") =>
                         /\ \A h \in Hosts : \E k \in ctr'[h] : k.members = Hosts
                         /\ \A c \in late' : c.ids = {}
  BY DEF OldKept
<1>1. /\ OldRuns
      /\ \A h \in Hosts : rec[h].mode = "unknown"
      /\ op.pc \notin Outside => op.hosts = Hosts
      /\ op.started \/ op.pc \notin Outside \cup {"mark", "undo", "fail"} =>
           \A h \in Hosts : rec[h].phase # "unmanaged"
      /\ (\E h \in Hosts : rec[h].phase = "unmanaged") =>
           /\ \A h \in Hosts : \E k \in ctr[h] : k.members = Hosts
           /\ \A c \in late : c.ids = {}
  BY OldRunsBefore DEF AllocInv, OldKept
<1>2. RecSame
  <2>1. CASE Release \/ Claim
    <3>1. op.pc \in {"release", "claim"} /\ op.hosts = Hosts
      BY <1>1, <2>1 DEF Release, Claim, Outside
    <3>2. \A h \in Hosts : RunningOn(h) = {}
      BY <3>1 DEF ControlInv, Claimed, Empty
    <3> QED BY <1>1, <3>2 DEF OldRuns
  <2>2. CASE ReadyYue
    <3>1. op.hosts = Hosts /\ Head \in Hosts
      BY <1>1, <2>2 DEF ReadyYue, Outside, Hosts
    <3>2. rec[Head].mode = "yue"
      BY <2>2, <3>1 DEF ReadyYue, ControlInv, Claimed
    <3> QED BY <1>1, <3>1, <3>2
  <2>3. CASE Clear
    <3>1. \A h \in op.hosts : rec[h].mode = "none" /\ h \in Hosts
      BY <2>3 DEF Clear, ControlInv, Claimed, TypeOK, Operations
    <3>2. op.hosts = {}
      BY <1>1, <3>1
    <3> QED BY <2>3, <3>2 DEF Clear, RecSame, TypeOK
  <2> QED BY <2>1, <2>2, <2>3, RecMoves
<1>3. op'.pc \notin Outside => op'.hosts = Hosts
  <2>1. CASE CheckScope /\ InScope(op.hosts) /\ op.pc = "scope" /\ op'.hosts = op.hosts
    <3> SUFFICES ASSUME op.hosts # Hosts PROVE FALSE
      BY <2>1
    <3>1. PICK h \in op.hosts : h \in Hosts
      BY <2>1 DEF AllocInv, TypeOK, Operations
    <3>2. rec[h].phase = "unmanaged" /\ \A k \in ctr[h] : k.members \subseteq op.hosts
      BY <1>1, <2>1, <3>1 DEF InScope
    <3>3. PICK k \in ctr[h] : k.members = Hosts
      BY <1>1, <3>1, <3>2
    <3>4. op.hosts \subseteq Hosts
      BY DEF TypeOK, Operations
    <3> QED BY <3>2, <3>3, <3>4
  <2>2. CASE op.pc \notin Outside /\ op'.hosts = op.hosts
    BY <1>1, <2>2
  <2> QED BY <2>1, <2>2, OpMoves DEF ControlInv, Later, Outside
<1>4. op'.started \/ op'.pc \notin Outside \cup {"mark", "undo", "fail"} =>
        \A h \in Hosts : rec'[h].phase # "unmanaged"
  <2> SUFFICES ASSUME NEW h \in Hosts, rec'[h].phase = "unmanaged"
               PROVE  ~op'.started /\ op'.pc \in Outside \cup {"mark", "undo", "fail"}
    OBVIOUS
  <2>1. rec[h].phase = "unmanaged" /\ (Mark => h \notin op.hosts)
    BY PhaseMoves
  <2>2. ~op.started /\ op.pc \in Outside \cup {"mark", "undo", "fail"}
    BY <1>1, <2>1
  <2>3. ~(Mark /\ op.pc = "mark")
    BY <1>1, <2>1 DEF Outside
  <2> QED BY <2>2, <2>3, OpMoves DEF ControlInv, Later
<1>5. ASSUME NEW g \in Hosts, rec'[g].phase = "unmanaged"
      PROVE  /\ \A h \in Hosts : \E k \in ctr'[h] : k.members = Hosts
             /\ \A c \in late' : c.ids = {}
  <2>1. rec[g].phase = "unmanaged"
    BY <1>5, PhaseMoves
  <2>2. /\ \A h \in Hosts : \E k \in ctr[h] : k.members = Hosts
        /\ \A c \in late : c.ids = {}
        /\ op.pc # "unload"
    BY <1>1, <2>1 DEF Outside
  <2>3. \A h : Call(h).ids = {}
    BY <2>2 DEF Call
  <2> QED BY <2>2, <2>3, ContainersStay, LateMoves
<1>6. \A h \in Hosts : rec'[h].mode = "unknown"
  BY <1>1, <1>2 DEF RecSame
<1> QED BY <1>3, <1>4, <1>5, <1>6

LEMMA SelectedStep ==
    ASSUME TypeOK, ControlInv, AllocInv, [Next]_vars, op'.pc = "scope" PROVE op'.hosts # {}
BY OpMoves DEF ControlInv, AllocInv, Later

LEMMA AllocInitially ==
    ASSUME Init PROVE AllocInv
<1>1. Idle.pc = "idle" /\ ~Idle.started /\ "idle" \in Outside
  BY DEF Idle, Outside
<1>2. \A h \in Hosts : rec[h].mode = "unknown"
  BY DEF Init, Unmanaged
<1>3. OldRuns => \A h \in Hosts : \E k \in ctr[h] : k.members = Hosts
  <2>1. PICK running \in {{}, {[gen |-> None, members |-> Hosts, running |-> TRUE]}} :
          ctr = [h \in Hosts |-> running]
    BY DEF Init
  <2>2. CASE running = {}
    BY <2>1, <2>2 DEF OldRuns, RunningOn
  <2>3. CASE running = {[gen |-> None, members |-> Hosts, running |-> TRUE]}
    BY <2>1, <2>3
  <2> QED BY <2>1, <2>2, <2>3
<1> QED BY <1>1, <1>2, <1>3 DEF Init, AllocInv, Whole, Unsplit, OldKept

LEMMA AllocationsKept == Spec => [](TypeOK /\ ControlInv /\ AllocInv)
<1>1. Init => AllocInv
  BY AllocInitially
<1>2. TypeOK /\ ControlInv /\ AllocInv /\ [Next]_vars => AllocInv'
  BY WholeStep, UnsplitStep, OldStep, SelectedStep DEF AllocInv
<1> QED BY <1>1, <1>2, Controlled, PTL DEF Spec

\* A distributed allocation is not split, on the nodes or on disk, although a
\* launch may fail or arrive late on one of its nodes, transitions of one node
\* follow, and a model that predates the state may run.
THEOREM AllocationsWhole == Spec => []AllocationsStayWhole
<1>1. TypeOK /\ ControlInv /\ AllocInv => RecordsWhole
  BY DEF AllocInv, Whole, RecordsWhole
<1>2. TypeOK /\ ControlInv /\ AllocInv => NoStrandedRank
  <2> SUFFICES ASSUME TypeOK, ControlInv, AllocInv,
                      NEW h \in Hosts, NEW k \in RunningOn(h), NEW m \in k.members
               PROVE  ~Admitted(m) /\ \A j \in RunningOn(m) : j.gen = k.gen
    BY DEF NoStrandedRank
  <2>1. m \in Hosts
    BY DEF TypeOK, RunningOn, Containers
  <2>2. CASE OldRuns
    <3>1. \A g \in Hosts : rec[g].mode = "unknown"
      BY <2>2 DEF AllocInv, OldKept
    <3> QED BY <2>1, <3>1 DEF ControlInv, Served, Recorded
  <2>3. CASE ~OldRuns
    <3>1. rec[h].mode = "vllm" /\ rec[h].allocId = k.gen /\ m \in rec[h].alloc
      BY <2>3 DEF OldRuns, ControlInv, Served, Recorded
    <3>2. rec[m].mode = "vllm" /\ rec[m].allocId = k.gen
      BY <3>1 DEF AllocInv, Whole
    <3> QED BY <2>1, <2>3, <3>2 DEF OldRuns, ControlInv, Served, Recorded
  <2> QED BY <2>2, <2>3
<1>3. TypeOK /\ ControlInv /\ AllocInv => AllocationsStayWhole
  BY <1>1, <1>2 DEF AllocationsStayWhole
<1> QED BY <1>3, AllocationsKept, PTL
-----------------------------------------------------------------------------
(* A job is not ended by a transition that was not asked to cancel it.     *)

\* The transition is over or on its way there: it makes no more progress.
Ending(o) == o.undo \/ o.pc \in {"undo", "fail", "idle", "audit", "clear"}

\* Its list has not been published.
Unpublished(o) == ~Ending(o) /\ o.pc # "return"

\* The hosts that it has still to fence.
Coming(o) ==
    IF o.pc \in {"scope", "mark", "revoke"} THEN Hosts
    ELSE IF o.pc = "fence" THEN o.todo ELSE {}

\* The hosts whose factory it has seen drained, and those it knows to be busy.
Seen(o) ==
    IF o.pc = "drain" THEN IF o.drainFailed THEN {} ELSE o.hosts \ o.todo
    ELSE IF \/ o.pc \in {"jobs", "cancel", "stop"}
            \/ /\ ~o.undo
               /\ o.pc \in {"stopping", "unload", "verify", "release", "claim", "restart", "admit"}
         THEN o.hosts ELSE {}
Busy(o) ==
    IF o.pc \in {"drain", "jobs"} THEN o.busy ELSE IF o.pc = "cancel" THEN o.todo ELSE {}

LateFence(h, g) == \E c \in late : c.act = "fence" /\ c.host = h /\ c.gen = g

\* A fence of a generation reaches a node once.
FencesOnce ==
    /\ \A h \in Hosts : nodeGen[h] <= last
    /\ \A c \in late : c.act = "fence" => nodeGen[c.host] # c.gen
    /\ \A c, d \in late : c.act = "fence" /\ d.act = "fence" /\ c.host = d.host /\ c.gen = d.gen
                            => c = d
    /\ \A h \in Coming(op) : /\ nodeGen[h] # op.gen
                             /\ \A c \in late : c.gen = op.gen => c.host # h

\* A generation is told when its workers are ready, and not taken back.
ToldWhole ==
    /\ \A g \in told : g <= last
    /\ Unpublished(op) => op.gen \notin told
    /\ \A c \in late : c.act = "admit" => c.gen \notin told

LateEnded ==
    \A c \in late : c.act \in {"stop", "restart", "admit"} /\ c.gen = op.gen => Ending(op)

\* Under generation g nobody submits a job to h any more, or not yet.
Closed(h, g) ==
    /\ ~LateFence(h, g)
    /\ nodeGen[h] = g /\ yue[h].acc => yue[h].gen = g /\ g \notin told

\* What would end a job under its generation finds none.
CallsShut ==
    \A c \in late : c.act \in {"stop", "restart"} =>
        Closed(c.host, c.gen) /\ (nodeGen[c.host] = c.gen => ~yue[c.host].job)
HostsShut ==
    \A h \in Seen(op) :
        Closed(h, op.gen) /\ (nodeGen[h] = op.gen /\ yue[h].job => h \in Busy(op))

JobsInv ==
    /\ FencesOnce /\ ToldWhole /\ LateEnded /\ CallsShut /\ HostsShut
    /\ op.pc = "cancel" => op.cancel

-----------------------------------------------------------------------------
(* How the holder of the lock moves, and what it knows then.               *)

\* Record r follows record o, of the same transition, and knows no more.
Follows(r, o) ==
    /\ r.gen = o.gen /\ r.hosts = o.hosts
    /\ Ending(o) => Ending(r)
    /\ Coming(r) \subseteq Coming(o)
    /\ Unpublished(r) => Unpublished(o)
    /\ r.pc = "cancel" => r.cancel
    /\ Seen(r) = {} \/ (Seen(r) \subseteq Seen(o) /\ Busy(o) \subseteq Busy(r))

\* It has ended.
Ended(r) == r.pc \in {"idle", "audit", "clear"}

LEMMA EndedKnows ==
    ASSUME NEW r, Ended(r)
    PROVE  Ending(r) /\ ~Unpublished(r) /\ Coming(r) = {} /\ Seen(r) = {} /\ r.pc # "cancel"
BY DEF Ended, Ending, Unpublished, Coming, Seen

LEMMA GotoFields ==
    ASSUME NEW o \in Operations, NEW pc \in Stages
    PROVE  /\ Goto(o, pc) \in Operations
           /\ Goto(o, pc).pc = pc /\ Goto(o, pc).todo = o.hosts /\ Goto(o, pc).hosts = o.hosts
           /\ Goto(o, pc).gen = o.gen /\ Goto(o, pc).undo = o.undo
           /\ Goto(o, pc).busy = o.busy /\ Goto(o, pc).drainFailed = o.drainFailed
           /\ Goto(o, pc).cancel = o.cancel
BY DEF Goto, Operations

\* A transition that fails knows nothing and goes to its end.
LEMMA RaiseFollows ==
    ASSUME NEW o \in Operations, NEW e \in Errors
    PROVE  LET r == Raise(o, e)
           IN  /\ r.gen = o.gen /\ r.hosts = o.hosts
               /\ Ending(r) /\ Coming(r) = {} /\ Seen(r) = {} /\ r.pc # "cancel"
<1> DEFINE noted == [o EXCEPT !.err = Join(@, e)]
           r == Raise(o, e)
<1>1. Join(o.err, e) \in Errors
  BY JoinErrors DEF Operations
<1>2. noted \in Operations /\ noted.gen = o.gen /\ noted.hosts = o.hosts /\ noted.undo = o.undo
  BY <1>1 DEF Operations
<1> HIDE DEF noted
<1>3. \A pc \in {"undo", "fail", "unload"} :
        /\ Goto(noted, pc).pc = pc /\ Goto(noted, pc).gen = o.gen
        /\ Goto(noted, pc).hosts = o.hosts /\ Goto(noted, pc).undo = o.undo
  BY <1>2, GotoFields DEF Stages, Calls
<1>4. r = IF ~o.undo THEN Goto(noted, "undo")
          ELSE IF o.pc = "unload" THEN Goto(noted, "fail") ELSE Goto(noted, "unload")
  BY DEF Raise, noted
<1> HIDE DEF r
<1>5. /\ r.gen = o.gen /\ r.hosts = o.hosts /\ r.undo = o.undo
      /\ r.pc \in {"undo", "fail", "unload"} /\ (r.pc = "unload" => o.undo)
  BY <1>3, <1>4
<1> QED BY <1>5 DEF Ending, Coming, Seen, r

LEMMA FailedFollows ==
    ASSUME NEW o \in Operations, NEW h, NEW e \in Errors, o.pc \in Calls
    PROVE  LET r == Failed(o, h, e)
           IN  /\ Follows(r, o) /\ Seen(r) = {} /\ h \notin Coming(r)
               /\ o.pc \notin {"fence", "drain"} => Ending(r)
<1> DEFINE r == Failed(o, h, e)
           noted == [o EXCEPT !.err = Join(@, e)]
           lost == [noted EXCEPT !.drainFailed = TRUE]
<1>1. Join(o.err, e) \in Errors
  BY JoinErrors DEF Operations
<1>2. /\ noted \in Operations /\ noted.gen = o.gen /\ noted.hosts = o.hosts /\ noted.undo = o.undo
      /\ noted.pc = o.pc /\ noted.todo = o.todo
      /\ lost \in Operations /\ lost.gen = o.gen /\ lost.hosts = o.hosts /\ lost.undo = o.undo
      /\ lost.pc = o.pc /\ lost.todo = o.todo /\ lost.drainFailed
  BY <1>1 DEF Operations
<1>3. ASSUME NEW p \in Operations, NEW f \in Errors, r = Raise(p, f),
             p.gen = o.gen, p.hosts = o.hosts
      PROVE  Follows(r, o) /\ Seen(r) = {} /\ h \notin Coming(r) /\ Ending(r)
  BY <1>3, RaiseFollows DEF Follows, Unpublished
<1> HIDE DEF noted
<1>4. CASE o.pc = "fence"
  <2>1. r = IF noted.todo \subseteq {h} THEN Goto(noted, "drain")
            ELSE [noted EXCEPT !.todo = @ \ {h}]
    BY <1>4 DEF Failed, noted, Done
  <2>2. CASE noted.todo \subseteq {h}
    <3>1. /\ r.pc = "drain" /\ r.todo = r.hosts /\ r.gen = o.gen /\ r.hosts = o.hosts
          /\ r.undo = o.undo
      BY <1>2, <2>1, <2>2, GotoFields DEF Stages, Calls
    <3> HIDE DEF r
    <3>2. Seen(r) = {} /\ Coming(r) = {}
      BY <3>1 DEF Seen, Coming
    <3> QED BY <1>4, <3>1, <3>2 DEF Follows, Ending, Unpublished, r
  <2>3. CASE ~(noted.todo \subseteq {h})
    <3>1. /\ r.pc = "fence" /\ r.todo = o.todo \ {h} /\ r.gen = o.gen /\ r.hosts = o.hosts
          /\ r.undo = o.undo
      BY <1>2, <1>4, <2>1, <2>3 DEF Operations
    <3> HIDE DEF r
    <3>2. Seen(r) = {} /\ Coming(r) = Coming(o) \ {h}
      BY <1>4, <3>1 DEF Seen, Coming
    <3> QED BY <1>4, <3>1, <3>2 DEF Follows, Ending, Unpublished, r
  <2> QED BY <2>2, <2>3
<1>5. CASE o.pc = "drain"
  <2> HIDE DEF lost
  <2>1. r = Drained(lost, h)
    BY <1>5 DEF Failed, noted, lost
  <2>2. CASE lost.todo \subseteq {h}
    <3>1. r = Raise(lost, "ok")
      BY <1>2, <2>1, <2>2 DEF Drained
    <3> QED BY <1>2, <1>3, <1>5, <3>1 DEF Errors
  <2>3. CASE ~(lost.todo \subseteq {h})
    <3>1. r = [lost EXCEPT !.todo = @ \ {h}]
      BY <2>1, <2>3 DEF Drained
    <3>2. /\ r.pc = "drain" /\ r.drainFailed /\ r.gen = o.gen /\ r.hosts = o.hosts
          /\ r.undo = o.undo
      BY <1>2, <1>5, <3>1 DEF Operations
    <3> HIDE DEF r
    <3>3. Seen(r) = {} /\ Coming(r) = {}
      BY <3>2 DEF Seen, Coming
    <3> QED BY <1>5, <3>2, <3>3 DEF Follows, Ending, Unpublished, r
  <2> QED BY <2>2, <2>3
<1>6. CASE o.pc \notin {"fence", "drain"}
  <2>1. r = Raise(o, e)
    BY <1>6 DEF Failed
  <2> QED BY <1>3, <2>1
<1> QED BY <1>4, <1>5, <1>6

\* A call that succeeds on h: the transition has fenced h, or seen it drained,
\* with the job it ran, or ended that job.
LEMMA SucceededFollows ==
    ASSUME NEW o \in Operations, NEW h \in Hosts, o.pc \in Calls,
           o.pc = "cancel" => o.cancel
    PROVE  LET r == Succeeded(o, h)
           IN  /\ r.gen = o.gen /\ r.hosts = o.hosts
               /\ Ending(o) => Ending(r)
               /\ Coming(r) \subseteq Coming(o) \ {h}
               /\ Unpublished(r) => Unpublished(o)
               /\ r.pc = "cancel" => r.cancel
               /\ \/ Seen(r) = {}
                  \/ /\ Seen(r) \subseteq Seen(o) \cup (IF o.pc = "drain" THEN {h} ELSE {})
                     /\ Busy(o) \subseteq Busy(r) \cup (IF o.pc = "cancel" THEN {h} ELSE {})
                     /\ o.pc = "drain" /\ yue[h].job => h \in Busy(r)
<1> DEFINE r == Succeeded(o, h)
           Good ==
             /\ r.gen = o.gen /\ r.hosts = o.hosts
             /\ Ending(o) => Ending(r)
             /\ Coming(r) \subseteq Coming(o) \ {h}
             /\ Unpublished(r) => Unpublished(o)
             /\ r.pc = "cancel" => r.cancel
             /\ \/ Seen(r) = {}
                \/ /\ Seen(r) \subseteq Seen(o) \cup (IF o.pc = "drain" THEN {h} ELSE {})
                   /\ Busy(o) \subseteq Busy(r) \cup (IF o.pc = "cancel" THEN {h} ELSE {})
                   /\ o.pc = "drain" /\ yue[h].job => h \in Busy(r)
<1> SUFFICES Good
  OBVIOUS
<1>1. o.hosts \subseteq Hosts /\ o.todo \subseteq Hosts
  BY DEF Operations
<1>2. ASSUME NEW p \in Operations, NEW f \in Errors, r = Raise(p, f),
             p.gen = o.gen, p.hosts = o.hosts
      PROVE  Good
  BY <1>2, RaiseFollows DEF Unpublished
<1>3. \A pc \in Stages :
        LET q == [o EXCEPT !.pc = pc]
            w == [o EXCEPT !.todo = @ \ {h}]
            v == [o EXCEPT !.pc = pc, !.todo = @ \ {h}]
        IN  /\ q.gen = o.gen /\ q.hosts = o.hosts /\ q.undo = o.undo /\ q.pc = pc
            /\ w.gen = o.gen /\ w.hosts = o.hosts /\ w.undo = o.undo /\ w.pc = o.pc
            /\ w.todo = o.todo \ {h} /\ w.busy = o.busy /\ w.cancel = o.cancel
            /\ v.gen = o.gen /\ v.hosts = o.hosts /\ v.undo = o.undo /\ v.pc = pc
  BY DEF Operations
<1>4. CASE o.pc = "drain"
  <2> DEFINE seen == [o EXCEPT !.busy = IF yue[h].job THEN @ \cup {h} ELSE @]
  <2>1. /\ seen \in Operations /\ seen.gen = o.gen /\ seen.hosts = o.hosts /\ seen.undo = o.undo
        /\ seen.pc = o.pc /\ seen.todo = o.todo /\ seen.drainFailed = o.drainFailed
        /\ seen.busy = IF yue[h].job THEN o.busy \cup {h} ELSE o.busy
    BY DEF Operations
  <2>2. r = Drained(seen, h)
    BY <1>4 DEF Succeeded
  <2> HIDE DEF seen
  <2>3. CASE ~(seen.todo \subseteq {h})
    <3>1. r = [seen EXCEPT !.todo = @ \ {h}]
      BY <2>2, <2>3 DEF Drained
    <3>2. /\ r.gen = o.gen /\ r.hosts = o.hosts /\ r.undo = o.undo /\ r.pc = "drain"
          /\ r.todo = o.todo \ {h} /\ r.drainFailed = o.drainFailed /\ r.busy = seen.busy
      BY <1>4, <2>1, <3>1 DEF Operations
    <3> HIDE DEF r
    <3> QED BY <1>4, <2>1, <3>2 DEF Ending, Coming, Unpublished, Seen, Busy
  <2>4. CASE seen.todo \subseteq {h} /\ seen.drainFailed
    BY <1>2, <2>1, <2>2, <2>4 DEF Drained, Errors
  <2>5. CASE seen.todo \subseteq {h} /\ ~seen.drainFailed
    <3>1. r = Goto(seen, "jobs")
      BY <2>2, <2>5 DEF Drained
    <3>2. /\ r.gen = o.gen /\ r.hosts = o.hosts /\ r.undo = o.undo /\ r.pc = "jobs"
          /\ r.busy = seen.busy
      BY <2>1, <3>1, GotoFields DEF Stages
    <3> HIDE DEF r
    <3> QED BY <1>4, <2>1, <2>5, <3>2 DEF Ending, Coming, Unpublished, Seen, Busy
  <2> QED BY <2>3, <2>4, <2>5
<1>5. CASE o.pc = "stop"
  <2>1. r = YueStopped(o, h)
    BY <1>5 DEF Succeeded
  <2>2. CASE ~(o.todo \subseteq {h})
    <3>1. r = [o EXCEPT !.todo = @ \ {h}]
      BY <2>1, <2>2 DEF YueStopped
    <3> HIDE DEF r
    <3> QED BY <1>3, <1>5, <3>1 DEF Ending, Coming, Unpublished, Seen, Busy
  <2>3. CASE o.todo \subseteq {h} /\ ~o.undo /\ o.err # "ok"
    BY <1>2, <2>1, <2>3 DEF YueStopped, Errors
  <2>4. CASE o.todo \subseteq {h} /\ (o.undo \/ o.err = "ok")
    <3>1. r = IF o.undo THEN Goto(o, "unload") ELSE Goto(o, "stopping")
      BY <2>1, <2>4 DEF YueStopped
    <3>2. /\ r.gen = o.gen /\ r.hosts = o.hosts /\ r.undo = o.undo
          /\ r.pc = IF o.undo THEN "unload" ELSE "stopping"
      BY <3>1, GotoFields DEF Stages, Calls
    <3> HIDE DEF r
    <3> QED BY <1>5, <3>2 DEF Ending, Coming, Unpublished, Seen, Busy
  <2> QED BY <2>2, <2>3, <2>4
<1>6. CASE o.pc = "restart"
  <2>1. r = [o EXCEPT !.pc = "admit"]
    BY <1>6 DEF Succeeded
  <2> HIDE DEF r
  <2> QED BY <1>3, <1>6, <2>1 DEF Ending, Coming, Unpublished, Seen, Busy, Stages, Calls
<1>7. CASE o.pc = "admit"
  <2>1. r = IF o.todo # {h} THEN [o EXCEPT !.pc = "restart", !.todo = @ \ {h}]
            ELSE Goto(o, "ready")
    BY <1>7 DEF Succeeded
  <2>2. /\ r.gen = o.gen /\ r.hosts = o.hosts /\ r.undo = o.undo
        /\ r.pc = IF o.todo # {h} THEN "restart" ELSE "ready"
    BY <1>3, <2>1, GotoFields DEF Stages, Calls
  <2> HIDE DEF r
  <2> QED BY <1>7, <2>2 DEF Ending, Coming, Unpublished, Seen, Busy
<1>8. CASE o.pc \in {"fence", "cancel", "verify", "launch", "unload"}
  <2>1. r = IF o.todo \subseteq {h} THEN Goto(o, Following(o)) ELSE [o EXCEPT !.todo = @ \ {h}]
    BY <1>8 DEF Succeeded, Done
  <2>2. /\ Following(o) \in Stages
        /\ o.pc = "fence" => Following(o) = "drain"
        /\ o.pc = "cancel" => Following(o) = "stop"
        /\ o.pc = "verify" => Following(o) = "release"
        /\ o.pc = "launch" => Following(o) = "ready"
        /\ o.pc = "unload" => Following(o) = IF o.undo THEN "fail" ELSE "verify"
    BY <1>8 DEF Following, Stages, Calls
  <2>3. CASE o.todo \subseteq {h}
    <3>1. /\ r.gen = o.gen /\ r.hosts = o.hosts /\ r.undo = o.undo /\ r.pc = Following(o)
          /\ r.todo = r.hosts
      BY <2>1, <2>2, <2>3, GotoFields
    <3> HIDE DEF r
    <3>2. ~o.undo => o.pc # "unload" \/ Following(o) = "verify"
      BY <2>2
    <3> QED BY <1>8, <2>2, <2>3, <3>1 DEF Ending, Coming, Unpublished, Seen, Busy
  <2>4. CASE ~(o.todo \subseteq {h})
    <3>1. r = [o EXCEPT !.todo = @ \ {h}]
      BY <2>1, <2>4
    <3>2. /\ r.gen = o.gen /\ r.hosts = o.hosts /\ r.undo = o.undo /\ r.pc = o.pc
          /\ r.todo = o.todo \ {h} /\ r.busy = o.busy /\ r.cancel = o.cancel
      BY <1>3, <3>1 DEF Stages
    <3> HIDE DEF r
    <3> QED BY <1>8, <3>2 DEF Ending, Coming, Unpublished, Seen, Busy
  <2> QED BY <2>3, <2>4
<1> QED BY <1>4, <1>5, <1>6, <1>7, <1>8 DEF Calls

LEMMA HolderFollows ==
    ASSUME TypeOK, StagedOp(op), op.pc = "cancel" => op.cancel,
           [Next]_vars, ~Begin, \A h \in Hosts : ~CallRuns(h)
    PROVE  Follows(op', op) \/ Ended(op')
<1>0. op \in Operations /\ Idle.pc = "idle"
  BY DEF TypeOK, Idle
<1>1. ASSUME NEW e \in Errors, op' = Raise(op, e) PROVE Follows(op', op)
  <2>1. LET r == Raise(op, e)
        IN  /\ r.gen = op.gen /\ r.hosts = op.hosts
            /\ Ending(r) /\ Coming(r) = {} /\ Seen(r) = {} /\ r.pc # "cancel"
    BY <1>0, RaiseFollows
  <2> QED BY <1>1, <2>1 DEF Follows, Unpublished
<1>2. ASSUME NEW pc \in Stages, op' = Goto(op, pc),
             \/ op.pc = "scope" /\ pc = "mark"
             \/ op.pc = "mark" /\ pc = "revoke"
             \/ op.pc = "revoke" /\ pc = "fence"
             \/ op.pc = "jobs" /\ op.busy = {} /\ pc = "stop"
             \/ op.pc = "stopping" /\ pc = "unload"
             \/ op.pc = "release" /\ pc \in {"claim", "return"}
             \/ op.pc = "ready" /\ pc \in {"publish", "return"}
             \/ op.pc = "publish" /\ pc = "return"
      PROVE  Follows(op', op)
  <2>1. /\ op'.gen = op.gen /\ op'.hosts = op.hosts /\ op'.undo = op.undo
        /\ op'.pc = pc /\ op'.todo = op.hosts
    BY <1>0, <1>2, GotoFields
  <2>2. op.hosts \subseteq Hosts /\ op.todo \subseteq Hosts /\ op.busy \subseteq Hosts
    BY <1>0 DEF Operations
  <2>3. Coming(op') \subseteq Coming(op)
    BY <1>2, <2>1, <2>2 DEF Coming
  <2>4. Seen(op') = {} \/ (Seen(op') \subseteq Seen(op) /\ Busy(op) \subseteq Busy(op'))
    BY <1>2, <2>1 DEF Seen, Busy, StagedOp
  <2> QED BY <1>2, <2>1, <2>3, <2>4 DEF Follows, Ending, Unpublished
<1>3. CASE CheckScope
  BY <1>0, <1>2, <1>3 DEF CheckScope, Stages, Ended
<1>4. CASE Mark \/ RevokeDiscovery \/ Stopping \/ Release \/ ReadyYue \/ Publish \/ ReadyModel
  BY <1>2, <1>4 DEF Mark, RevokeDiscovery, Stopping, Release, ReadyYue, Publish, ReadyModel,
     Stages, Calls
<1>5. CASE Jobs
  <2>1. CASE op.busy = {}
    BY <1>2, <1>5, <2>1 DEF Jobs, Stages, Calls
  <2>2. CASE op.busy # {} /\ op.cancel /\ ~op.undo
    <3>1. op' = [op EXCEPT !.pc = "cancel", !.todo = op.busy] /\ op.pc = "jobs"
      BY <1>5, <2>2 DEF Jobs
    <3>2. /\ op'.pc = "cancel" /\ op'.gen = op.gen /\ op'.hosts = op.hosts
          /\ op'.undo = op.undo /\ op'.todo = op.busy /\ op'.cancel
      BY <1>0, <2>2, <3>1 DEF Operations
    <3> QED BY <2>2, <3>1, <3>2 DEF Follows, Ending, Unpublished, Coming, Seen, Busy
  <2>3. CASE op.busy # {} /\ ~(op.cancel /\ ~op.undo)
    BY <1>1, <1>5, <2>3 DEF Jobs, Errors
  <2> QED BY <2>1, <2>2, <2>3
<1>6. CASE Claim
  <2> DEFINE begun == [op EXCEPT !.started = TRUE]
             pc == IF op.target = "yue" THEN "restart" ELSE "launch"
  <2>1. op' = Goto(begun, pc) /\ op.pc = "claim"
    BY <1>6 DEF Claim
  <2>2. /\ begun \in Operations /\ begun.gen = op.gen /\ begun.hosts = op.hosts
        /\ begun.undo = op.undo
    BY <1>0 DEF Operations
  <2> HIDE DEF begun
  <2>3. op'.gen = op.gen /\ op'.hosts = op.hosts /\ op'.undo = op.undo /\ op'.pc = pc
    BY <2>1, <2>2, GotoFields DEF Stages, Calls
  <2> QED BY <2>1, <2>3 DEF Follows, Ending, Unpublished, Coming, Seen, Busy
<1>7. CASE ReadyFails \/ Interrupt
  BY <1>1, <1>7 DEF ReadyFails, Interrupt, Errors
<1>8. CASE Return \/ Fail \/ Clear \/ Crash
  BY <1>0, <1>8 DEF Return, Fail, Clear, Crash, Ended
<1>9. CASE Reconcile \/ \E h \in Hosts : AuditHost(h)
  BY <1>9, ClaimingSteps DEF Ended
<1>10. ASSUME NEW o \in Operations, o.pc = "undo", o.gen = op.gen, o.hosts = op.hosts,
              op' = Cleanup(o), op.pc = "undo"
       PROVE  Follows(op', op)
  <2>1. CASE ~o.started
    <3>1. op'.gen = op.gen /\ op'.hosts = op.hosts /\ op'.pc = "fail"
      BY <1>10, <2>1, GotoFields DEF Cleanup, Stages
    <3> QED BY <3>1 DEF Follows, Ending, Unpublished, Coming, Seen
  <2>2. CASE o.started
    <3> DEFINE clean == [o EXCEPT !.undo = TRUE, !.drainFailed = FALSE, !.busy = {}]
    <3>1. clean \in Operations /\ clean.gen = op.gen /\ clean.hosts = op.hosts /\ clean.undo
      BY <1>10 DEF Operations
    <3>2. op' = Goto(clean, "drain")
      BY <1>10, <2>2 DEF Cleanup
    <3> HIDE DEF clean
    <3>3. /\ op'.gen = op.gen /\ op'.hosts = op.hosts /\ op'.pc = "drain" /\ op'.undo
          /\ op'.todo = op.hosts
      BY <3>1, <3>2, GotoFields DEF Stages, Calls
    <3> QED BY <3>3 DEF Follows, Ending, Unpublished, Coming, Seen
  <2> QED BY <2>1, <2>2
<1>11. CASE Undo
  BY <1>0, <1>10, <1>11 DEF Undo
<1>12. CASE UndoUnrevoked
  <2> DEFINE noted == [op EXCEPT !.err = "other"]
  <2>1. op' = Cleanup(noted) /\ op.pc = "undo"
    BY <1>12 DEF UndoUnrevoked
  <2>2. noted \in Operations /\ noted.pc = "undo" /\ noted.gen = op.gen /\ noted.hosts = op.hosts
    BY <1>0, <2>1 DEF Operations, Errors
  <2> QED BY <1>10, <2>1, <2>2
<1>13. ASSUME NEW h \in Hosts, CallRefused(h) \/ CallFails(h) \/ LaunchDies(h)
       PROVE  Follows(op', op)
  <2>1. op.pc \in Calls /\ \E e \in Errors : op' = Failed(op, h, e)
    BY <1>13 DEF CallRefused, CallFails, LaunchDies, Errors, Calls
  <2> QED BY <1>0, <2>1, FailedFollows
<1>14. CASE \/ UNCHANGED vars
            \/ \E h \in Hosts : \/ JobArrives(h) \/ JobDone(h) \/ ContainerExits(h) \/ Reboot(h)
                                \/ Foreign(h) \/ ForeignEnds(h)
            \/ \E c \in late : LateRuns(c)
  <2>1. op' = op
    BY <1>14 DEF vars, JobArrives, JobDone, ContainerExits, Reboot, Foreign, ForeignEnds, LateRuns
  <2> QED BY <2>1 DEF Follows
<1> QED BY <1>3, <1>4, <1>5, <1>6, <1>7, <1>8, <1>9, <1>11, <1>12, <1>13, <1>14 DEF Next, Proceed

\* A call outlives its client when the transition leaves it behind.
LEMMA LeftBehind ==
    ASSUME TypeOK, StagedOp(op), [Next]_vars, NEW c \in late' \ late
    PROVE  /\ op.pc \in Calls /\ \A h \in Hosts : ~CallRuns(h)
           /\ UNCHANGED <<nodeGen, yue, disc, told, rec, last>>
           /\ \E h \in NextHosts : c = Call(h)
           /\ c.host \notin Coming(op')
           /\ op.pc \notin {"fence", "drain"} => Ending(op')
<1>0. op \in Operations /\ op.todo \subseteq Hosts
  BY DEF TypeOK, Operations
<1>1. PICK e \in Errors, h \in Hosts :
        \/ Interrupt /\ op' = Raise(op, e)
        \/ Crash /\ op' = Idle
        \/ CallFails(h) /\ op' = Failed(op, h, e)
  <2>1. Interrupt \/ Crash \/ \E h \in Hosts : CallFails(h)
    <3>1. CASE \/ UNCHANGED vars \/ Begin \/ Reconcile \/ Proceed \/ UndoUnrevoked
               \/ \E h \in Hosts : \/ LaunchDies(h) \/ JobArrives(h) \/ JobDone(h)
                                   \/ ContainerExits(h) \/ Reboot(h) \/ Foreign(h)
                                   \/ ForeignEnds(h)
               \/ \E d \in late : LateRuns(d)
      <4>1. late' \subseteq late
        BY <3>1 DEF vars, Begin, Reconcile, Proceed, CheckScope, Mark, RevokeDiscovery, Jobs,
           Stopping, Release, Claim, ReadyYue, Publish, ReadyModel, ReadyFails, Return, Undo,
           Fail, Clear, CallRuns, CallRefused, AuditHost, UndoUnrevoked, LaunchDies, JobArrives,
           JobDone, ContainerExits, Reboot, Foreign, ForeignEnds, LateRuns, Local
      <4> QED BY <4>1
    <3> QED BY <3>1 DEF Next
  <2>2. Head \in Hosts
    BY DEF Hosts
  <2> QED BY <2>1, <2>2 DEF Interrupt, Crash, CallFails, Errors
<1>2. /\ Lingers /\ UNCHANGED <<nodeGen, yue, disc, told, rec, last>>
      /\ \A g \in Hosts : ~CallRuns(g)
  BY <1>1 DEF Interrupt, Crash, CallFails, Lingers, CallRuns, node, disk
<1>3. PICK g \in NextHosts : c = Call(g) /\ op.pc \in Calls
  BY <1>2, FaultsAssumption DEF Lingers, Calls
<1>4. g \in op.todo /\ g \in Hosts /\ c.host = g
  BY <1>0, <1>3, NextHostIsDue, CallTyped
<1>5. CASE Interrupt /\ op' = Raise(op, e)
  BY <1>0, <1>2, <1>3, <1>5, RaiseFollows
<1>6. CASE Crash /\ op' = Idle
  BY <1>2, <1>3, <1>6, EndedKnows DEF Ended, Idle
<1>7. CASE CallFails(h) /\ op' = Failed(op, h, e)
  <2>1. /\ Follows(op', op) /\ h \notin Coming(op')
        /\ op.pc \notin {"fence", "drain"} => Ending(op')
    BY <1>0, <1>3, <1>7, FailedFollows
  <2>2. CASE op.pc = "launch"
    BY <1>2, <1>3, <2>1, <2>2 DEF Follows, Coming
  <2>3. CASE op.pc # "launch"
    <3>1. h \in NextHosts
      BY <1>7 DEF CallFails
    <3>2. g = h
      BY <1>0, <1>3, <2>3, <3>1 DEF NextHosts, Hosts
    <3> QED BY <1>2, <1>3, <1>4, <2>1, <3>2
  <2> QED BY <2>2, <2>3
<1> QED BY <1>1, <1>5, <1>6, <1>7

-----------------------------------------------------------------------------
(* What a step does to a node.                                             *)

\* The call c runs on its node, late or not.
Ran(c) ==
    /\ Runs(c) /\ Effect(c)
    /\ \/ c.host \in op.todo /\ CallRuns(c.host) /\ c = Call(c.host)
       \/ c \in late /\ LateRuns(c)

LEMMA NodeMoves ==
    ASSUME TypeOK, StagedOp(op), [Next]_vars
    PROVE  \/ \E c \in Requests : Ran(c)
           \/ /\ nodeGen' = nodeGen
              /\ \/ yue' = yue
                 \/ \E h \in Hosts : JobArrives(h) \/ JobDone(h) \/ Reboot(h)
<1>1. ASSUME NEW h \in Hosts, CallRuns(h) PROVE Ran(Call(h)) /\ Call(h) \in Requests
  BY <1>1, CallTyped, NextHostIsDue DEF CallRuns, Ran
<1>2. ASSUME NEW c \in late, LateRuns(c), Runs(c) PROVE Ran(c) /\ c \in Requests
  BY <1>2, LateTyped DEF LateRuns, Ran
<1>3. ASSUME NEW c \in late, LateRuns(c), ~Runs(c) PROVE nodeGen' = nodeGen /\ yue' = yue
  BY <1>3 DEF LateRuns, node
<1>4. CASE \/ UNCHANGED vars \/ Begin \/ Reconcile
           \/ CheckScope \/ Mark \/ RevokeDiscovery \/ Jobs \/ Stopping \/ Release
           \/ Claim \/ ReadyYue \/ Publish \/ ReadyModel \/ ReadyFails \/ Return
           \/ Undo \/ Fail \/ Clear \/ Interrupt \/ UndoUnrevoked \/ Crash
           \/ \E h \in Hosts : \/ CallRefused(h) \/ AuditHost(h) \/ CallFails(h) \/ LaunchDies(h)
                               \/ ContainerExits(h) \/ Foreign(h) \/ ForeignEnds(h)
  <2>1. nodeGen' = nodeGen /\ yue' = yue
    BY <1>4 DEF vars, Begin, Reconcile, CheckScope, Mark, RevokeDiscovery, Jobs, Stopping,
       Release, Claim, ReadyYue, Publish, ReadyModel, ReadyFails, Return, Undo, Fail, Clear,
       Interrupt, UndoUnrevoked, Crash, CallRefused, AuditHost, CallFails, LaunchDies,
       ContainerExits, Foreign, ForeignEnds, Local, node
  <2> QED BY <2>1
<1>5. CASE \E h \in Hosts : JobArrives(h) \/ JobDone(h) \/ Reboot(h)
  BY <1>5 DEF JobArrives, JobDone, Reboot
<1> QED BY <1>1, <1>2, <1>3, <1>4, <1>5 DEF Next, Proceed

\* The generation of a node and its factory change as follows.
LEMMA FactoryMoves ==
    ASSUME TypeOK, StagedOp(op), [Next]_vars, NEW h \in Hosts
    PROVE  /\ nodeGen'[h] # nodeGen[h] => \E c \in Requests :
                Ran(c) /\ c.act = "fence" /\ c.host = h /\ nodeGen'[h] = c.gen
           /\ yue'[h].job /\ ~yue[h].job => yue[h].acc /\ yue[h].gen \in told
           /\ yue'[h].acc =>
                \/ yue[h].acc /\ yue'[h].gen = yue[h].gen
                \/ \E c \in Requests : /\ Ran(c) /\ c.act = "admit" /\ c.host = h
                                       /\ nodeGen[h] = c.gen /\ yue'[h].gen = c.gen
           /\ yue[h].job /\ ~yue'[h].job =>
                \/ JobDone(h) \/ Reboot(h)
                \/ \E c \in Requests : /\ Ran(c) /\ c.host = h /\ nodeGen[h] = c.gen
                                       /\ c.act \in {"cancel", "stop", "restart"}
<1>0. yue \in [Hosts -> Factories] /\ nodeGen \in [Hosts -> Gens]
  BY DEF TypeOK
<1>1. CASE yue' = yue /\ nodeGen' = nodeGen
  BY <1>1
<1>2. ASSUME NEW g \in Hosts, JobArrives(g) PROVE
           /\ nodeGen' = nodeGen
           /\ yue'[h].acc = yue[h].acc /\ yue'[h].gen = yue[h].gen
           /\ yue[h].job => yue'[h].job
           /\ yue'[h].job /\ ~yue[h].job => yue[h].acc /\ yue[h].gen \in told
  BY <1>0, <1>2 DEF JobArrives, Factories
<1>3. ASSUME NEW g \in Hosts, JobDone(g) PROVE
           /\ nodeGen' = nodeGen
           /\ yue'[h].acc = yue[h].acc /\ yue'[h].gen = yue[h].gen
           /\ yue'[h].job => yue[h].job
           /\ yue[h].job /\ ~yue'[h].job => g = h
  BY <1>0, <1>3 DEF JobDone, Factories
<1>4. ASSUME NEW g \in Hosts, Reboot(g) PROVE
           /\ nodeGen' = nodeGen
           /\ yue'[h].acc => yue[h].acc /\ yue'[h].gen = yue[h].gen
           /\ yue'[h].job => yue[h].job
           /\ yue[h].job /\ ~yue'[h].job => g = h
  <2>1. PICK up \in BOOLEAN :
          yue' = [yue EXCEPT ![g] = [@ EXCEPT !.up = up, !.acc = FALSE, !.job = FALSE]]
    BY <1>4 DEF Reboot
  <2>2. CASE g = h
    <3>1. ~yue'[h].acc /\ ~yue'[h].job
      BY <1>0, <2>1, <2>2 DEF Factories
    <3> QED BY <1>4, <2>2, <3>1 DEF Reboot
  <2>3. CASE g # h
    <3>1. yue'[h] = yue[h]
      BY <1>0, <2>1, <2>3
    <3> QED BY <1>4, <3>1 DEF Reboot
  <2> QED BY <2>2, <2>3
<1>5. ASSUME NEW c \in Requests, Ran(c) PROVE
           /\ nodeGen'[h] # nodeGen[h] => c.act = "fence" /\ c.host = h /\ nodeGen'[h] = c.gen
           /\ yue'[h].job => yue[h].job
           /\ yue'[h].acc =>
                \/ yue[h].acc /\ yue'[h].gen = yue[h].gen
                \/ c.act = "admit" /\ c.host = h /\ nodeGen[h] = c.gen /\ yue'[h].gen = c.gen
           /\ yue[h].job /\ ~yue'[h].job =>
                c.host = h /\ nodeGen[h] = c.gen /\ c.act \in {"cancel", "stop", "restart"}
  <2>1. c.host \in Hosts /\ Effect(c)
    BY <1>5 DEF Requests, Ran
  <2>2. nodeGen'[h] # nodeGen[h] => c.act = "fence" /\ c.host = h /\ nodeGen'[h] = c.gen
    BY <1>0, <2>1 DEF Effect
  <2>3. CASE c.host # h
    <3>1. yue'[h] = yue[h]
      BY <1>0, <2>1, <2>3 DEF Effect
    <3> QED BY <2>2, <3>1
  <2>4. CASE c.host = h
    <3>1. yue'[h] = FactoryAfter(yue[h], c) /\ yue[h] \in Factories
      BY <1>0, <2>1, <2>4 DEF Effect
    <3>2. c.act = "fence" \/ nodeGen[h] = c.gen
      BY <1>5, <2>4 DEF Ran, Runs
    <3>3. /\ yue'[h].acc = (IF c.act = "admit" THEN yue[h].up
                            ELSE yue[h].acc /\ c.act \notin {"drain", "stop", "restart"})
          /\ yue'[h].gen = (IF c.act = "admit" THEN c.gen ELSE yue[h].gen)
          /\ yue'[h].job = (yue[h].job /\ c.act \notin {"cancel", "stop", "restart"})
      BY <3>1 DEF FactoryAfter
    <3>4. yue[h].job \in BOOLEAN /\ yue[h].acc \in BOOLEAN
      BY <3>1 DEF Factories
    <3>5. yue'[h].job => yue[h].job
      BY <3>3, <3>4
    <3>6. yue[h].job /\ ~yue'[h].job => c.act \in {"cancel", "stop", "restart"}
      BY <3>3, <3>4
    <3>7. yue'[h].acc => \/ yue[h].acc /\ yue'[h].gen = yue[h].gen
                         \/ c.act = "admit" /\ yue'[h].gen = c.gen
      BY <3>3, <3>4
    <3> QED BY <2>2, <2>4, <3>2, <3>5, <3>6, <3>7
  <2> QED BY <2>3, <2>4
<1> QED BY <1>1, <1>2, <1>3, <1>4, <1>5, NodeMoves

LEMMA ListMoves ==
    ASSUME [Next]_vars, told' # told
    PROVE  op.pc = "publish" /\ told' = told \cup {op.gen} /\ UNCHANGED <<nodeGen, yue, late>>
<1>1. Publish
  BY DEF Next, Proceed, vars, Begin, Reconcile, CheckScope, Mark, RevokeDiscovery, Jobs, Stopping,
     Release, Claim, ReadyYue, ReadyModel, ReadyFails, Return, Undo, Fail, Clear,
     Interrupt, UndoUnrevoked, Crash, CallRuns, CallRefused, AuditHost, CallFails, LaunchDies,
     JobArrives, JobDone, ContainerExits, Reboot, Foreign, ForeignEnds, LateRuns, Local, disk
<1> QED BY <1>1 DEF Publish, Local

LEMMA RanCalls ==
    ASSUME TypeOK, StagedOp(op), NEW c \in Requests, Ran(c)
    PROVE  /\ c.host \in Hosts /\ Effect(c) /\ (c.act = "fence" \/ nodeGen[c.host] = c.gen)
           /\ \/ /\ c.host \in op.todo /\ CallRuns(c.host)
                 /\ op.pc \in Calls /\ c.act = op.pc /\ c.gen = op.gen /\ late' = late
              \/ c \in late /\ late' = late \ {c} /\ op' = op /\ last' = last
           /\ UNCHANGED <<told, last>>
<1>1. c.host \in Hosts /\ Effect(c) /\ (c.act = "fence" \/ nodeGen[c.host] = c.gen)
  BY DEF Requests, Ran, Runs
<1>2. CASE c.host \in op.todo /\ CallRuns(c.host) /\ c = Call(c.host)
  <2>1. op.pc \in Calls /\ UNCHANGED <<told, last, late>>
    BY <1>2 DEF CallRuns, disk
  <2>2. c.gen = op.gen /\ c.act = op.pc
    BY <1>1, <1>2, <2>1, CallTyped
  <2> QED BY <1>1, <1>2, <2>1, <2>2
<1>3. CASE c \in late /\ LateRuns(c)
  BY <1>1, <1>3 DEF LateRuns, disk
<1> QED BY <1>2, <1>3 DEF Ran

LEMMA CountersKept ==
    ASSUME [Next]_vars, ~Begin PROVE last' = last
BY DEF Next, Proceed, vars, Reconcile, CheckScope, Mark, RevokeDiscovery, Jobs, Stopping,
   Release, Claim, ReadyYue, Publish, ReadyModel, ReadyFails, Return, Undo, Fail, Clear,
   Interrupt, UndoUnrevoked, Crash, CallRuns, CallRefused, AuditHost, CallFails, LaunchDies,
   JobArrives, JobDone, ContainerExits, Reboot, Foreign, ForeignEnds, LateRuns, Local

\* Where nobody submits jobs under g, nobody will.
LEMMA ClosedKept ==
    ASSUME TypeOK, StagedOp(op), JobsInv, [Next]_vars, NEW h \in Hosts, NEW g, Closed(h, g),
           op.gen = g => h \notin Coming(op) /\ op.pc # "publish"
    PROVE  /\ Closed(h, g)'
           /\ nodeGen'[h] = g => nodeGen[h] = g /\ (yue'[h].job => yue[h].job)
<1>1. ~LateFence(h, g)'
  <2> SUFFICES ASSUME NEW c \in late', c.act = "fence", c.host = h, c.gen = g PROVE FALSE
    BY DEF LateFence
  <2>1. c \notin late
    BY DEF Closed, LateFence
  <2>2. PICK k \in NextHosts : c = Call(k)
    BY <2>1, LeftBehind
  <2>3. op.pc \in Calls /\ k \in op.todo /\ k \in Hosts
    BY <2>1, LeftBehind, NextHostIsDue DEF TypeOK, Operations
  <2>4. op.pc = "fence" /\ h = k /\ op.gen = g
    BY <2>2, <2>3, CallTyped
  <2> QED BY <2>3, <2>4 DEF Coming
<1>2. nodeGen'[h] = g => nodeGen[h] = g
  <2> SUFFICES ASSUME nodeGen'[h] = g, nodeGen[h] # g PROVE FALSE
    OBVIOUS
  <2>1. PICK c \in Requests : Ran(c) /\ c.act = "fence" /\ c.host = h /\ c.gen = g
    BY FactoryMoves
  <2>2. CASE c \in late
    BY <2>1, <2>2 DEF Closed, LateFence
  <2>3. CASE h \in op.todo /\ op.pc = "fence" /\ op.gen = g
    BY <2>3 DEF Coming
  <2> QED BY <2>1, <2>2, <2>3, RanCalls
<1>3. g \notin told => g \notin told'
  BY ListMoves
<1>4. ASSUME nodeGen[h] = g, yue'[h].acc PROVE yue'[h].gen = g /\ g \notin told
  <2>1. CASE yue[h].acc /\ yue'[h].gen = yue[h].gen
    BY <1>4, <2>1 DEF Closed
  <2>2. ASSUME NEW c \in Requests, Ran(c), c.act = "admit", c.host = h, nodeGen[h] = c.gen,
               yue'[h].gen = c.gen
        PROVE  yue'[h].gen = g /\ g \notin told
    <3>1. CASE c \in late
      BY <1>4, <2>2, <3>1 DEF JobsInv, ToldWhole
    <3>2. CASE op.pc = "admit" /\ c.gen = op.gen
      <4>1. Unpublished(op)
        BY <3>2 DEF StagedOp, Unpublished, Ending
      <4> QED BY <1>4, <2>2, <3>2, <4>1 DEF JobsInv, ToldWhole
    <3> QED BY <2>2, <3>1, <3>2, RanCalls
  <2> QED BY <1>4, <2>1, <2>2, FactoryMoves
<1>5. nodeGen[h] = g /\ yue'[h].job => yue[h].job
  BY FactoryMoves DEF Closed
<1> QED BY <1>1, <1>2, <1>3, <1>4, <1>5 DEF Closed

\* The transition that begins has a new generation.
LEMMA BeginIsNew ==
    ASSUME TypeOK, LateKnown, JobsInv, Begin
    PROVE  /\ op'.gen = last + 1 /\ op'.pc = "scope" /\ op'.pc # "cancel"
           /\ Seen(op') = {} /\ last' = last + 1
           /\ UNCHANGED <<nodeGen, yue, late, told>>
           /\ \A h \in Hosts : nodeGen[h] # op'.gen /\ nodeGen[h] <= last'
           /\ \A c \in late : c.gen # op'.gen /\ c.gen <= last'
           /\ op'.gen \notin told /\ \A g \in told : g <= last'
<1>1. op'.gen = last + 1 /\ op'.pc = "scope" /\ last' = last + 1
  BY BeginStep
<1>2. UNCHANGED <<nodeGen, yue, late, told>>
  BY DEF Begin, disk, node
<1>3. /\ last \in Nat /\ \A h \in Hosts : nodeGen[h] \in Nat
      /\ \A c \in late : c.gen \in Nat
      /\ \A g \in told : g \in Nat
  BY BoundsAssumption DEF TypeOK, Gens, Generations, None, Requests
<1>4. /\ \A h \in Hosts : nodeGen[h] <= last
      /\ \A c \in late : c.gen <= last
      /\ \A g \in told : g <= last
  BY DEF JobsInv, FencesOnce, ToldWhole, LateKnown
<1>5. \A n \in Nat : n <= last => n # last + 1 /\ n <= last + 1
  BY <1>3
<1>6. Seen(op') = {}
  BY <1>1 DEF Seen
<1> QED BY <1>1, <1>2, <1>3, <1>4, <1>5, <1>6

-----------------------------------------------------------------------------
(* Each part of the invariant is kept.                                     *)

LEMMA CallFollows ==
    ASSUME TypeOK, StagedOp(op), op.pc = "cancel" => op.cancel, NEW h \in Hosts, CallRuns(h)
    PROVE  /\ op'.gen = op.gen /\ op'.hosts = op.hosts
           /\ Ending(op) => Ending(op')
           /\ Coming(op') \subseteq Coming(op) \ {h}
           /\ Unpublished(op') => Unpublished(op)
           /\ op'.pc = "cancel" => op'.cancel
           /\ \/ Seen(op') = {}
              \/ /\ Seen(op') \subseteq Seen(op) \cup (IF op.pc = "drain" THEN {h} ELSE {})
                 /\ Busy(op) \subseteq Busy(op') \cup (IF op.pc = "cancel" THEN {h} ELSE {})
                 /\ op.pc = "drain" /\ yue[h].job => h \in Busy(op')
<1>1. op' = Succeeded(op, h) /\ op.pc \in Calls /\ op \in Operations
  BY DEF CallRuns, TypeOK
<1> QED BY <1>1, SucceededFollows

LEMMA HolderMoves ==
    ASSUME TypeOK, StagedOp(op), op.pc = "cancel" => op.cancel, [Next]_vars, ~Begin
    PROVE  /\ Ended(op') \/ (op'.gen = op.gen /\ op'.hosts = op.hosts)
           /\ Ending(op) => Ending(op')
           /\ Coming(op') \subseteq Coming(op)
           /\ Unpublished(op') => Unpublished(op)
           /\ op'.pc = "cancel" => op'.cancel
           /\ \A h \in Hosts : CallRuns(h) => h \notin Coming(op')
<1>1. CASE \E h \in Hosts : CallRuns(h)
  BY <1>1, CallFollows
<1>2. CASE \A h \in Hosts : ~CallRuns(h)
  BY <1>2, HolderFollows, EndedKnows DEF Follows
<1> QED BY <1>1, <1>2

LEMMA FencesStep ==
    ASSUME TypeOK, StagedOp(op), LateKnown, JobsInv, [Next]_vars PROVE FencesOnce'
<1>0. /\ op.pc = "cancel" => op.cancel
      /\ \A h \in Hosts : nodeGen[h] <= last
      /\ \A c \in late : c.act = "fence" => nodeGen[c.host] # c.gen
      /\ \A c, d \in late : c.act = "fence" /\ d.act = "fence" /\ c.host = d.host /\ c.gen = d.gen
                              => c = d
      /\ \A h \in Coming(op) : /\ nodeGen[h] # op.gen
                               /\ \A c \in late : c.gen = op.gen => c.host # h
  BY DEF JobsInv, FencesOnce
<1>1. CASE Begin
  <2>1. \A h : h \in Coming(op') => h \in Hosts
    BY <1>1, BeginIsNew DEF Coming
  <2> QED BY <1>0, <1>1, <2>1, BeginIsNew DEF FencesOnce, Coming
<1>2. CASE ~Begin
  <2>1. /\ Ended(op') \/ op'.gen = op.gen
        /\ Coming(op') \subseteq Coming(op)
        /\ \A h \in Hosts : CallRuns(h) => h \notin Coming(op')
        /\ Ended(op') => Coming(op') = {}
        /\ Coming(op) \subseteq Hosts
    BY <1>0, <1>2, HolderMoves, EndedKnows DEF Coming, TypeOK, Operations
  <2>2. \A c \in late : c.host \in Hosts
    BY LateTyped
  <2>3. \A h \in Hosts : nodeGen'[h] = nodeGen[h] \/ nodeGen'[h] = op.gen \/
                         \E c \in late : nodeGen'[h] = c.gen
    BY FactoryMoves, RanCalls
  <2>4. last' = last
    BY <1>2, CountersKept
  <2>5. \A h \in Hosts : nodeGen'[h] <= last'
    BY <1>0, <2>3, <2>4 DEF LateKnown
  \* A node changes its generation by the fence of this transition, or a late one.
  <2>6. ASSUME NEW h \in Hosts, nodeGen'[h] # nodeGen[h]
        PROVE  /\ late' \subseteq late
               /\ \/ nodeGen'[h] = op.gen /\ h \in Coming(op) /\ h \notin Coming(op')
                  \/ \E d \in late \ late' : d.act = "fence" /\ d.host = h /\ nodeGen'[h] = d.gen
    <3>1. PICK c \in Requests : Ran(c) /\ c.act = "fence" /\ c.host = h /\ nodeGen'[h] = c.gen
      BY <2>6, FactoryMoves
    <3> QED BY <2>1, <3>1, RanCalls DEF Coming
  <2>7. ASSUME NEW c \in late' \ late
        PROVE  /\ nodeGen' = nodeGen /\ c.host \notin Coming(op') /\ c.gen = op.gen
               /\ c.host \in op.todo /\ (c.act = "fence" => c.host \in Coming(op))
               /\ \E k \in NextHosts : c = Call(k) /\ c.host = k
    <3>1. PICK k \in NextHosts : c = Call(k)
      BY <2>7, LeftBehind
    <3>2. op.pc \in Calls /\ k \in op.todo /\ k \in Hosts
      BY <2>7, LeftBehind, NextHostIsDue DEF TypeOK, Operations
    <3>3. c.host = k /\ c.gen = op.gen /\ c.act = op.pc
      BY <3>1, <3>2, CallTyped
    <3> QED BY <2>7, <3>1, <3>2, <3>3, LeftBehind DEF Coming
  <2>8. ASSUME NEW c \in late', c.act = "fence" PROVE nodeGen'[c.host] # c.gen
    <3>1. CASE c \notin late
      BY <1>0, <2>7, <2>8, <3>1
    <3>2. CASE c \in late
      <4>1. nodeGen[c.host] # c.gen /\ c.host \in Hosts
        BY <1>0, <2>2, <2>8, <3>2
      <4>2. CASE nodeGen'[c.host] = op.gen /\ c.host \in Coming(op)
        BY <1>0, <3>2, <4>2
      <4>3. ASSUME NEW d \in late \ late', d.act = "fence", d.host = c.host,
                   nodeGen'[c.host] = d.gen
            PROVE  d.gen # c.gen
        BY <1>0, <2>8, <3>2, <4>3
      <4> QED BY <2>6, <4>1, <4>2, <4>3
    <3> QED BY <3>1, <3>2
  <2>9. ASSUME NEW c \in late', NEW d \in late', c.act = "fence", d.act = "fence",
               c.host = d.host, c.gen = d.gen
        PROVE  c = d
    <3>1. CASE c \in late /\ d \in late
      BY <1>0, <2>9, <3>1
    <3>2. CASE c \notin late /\ d \in late
      BY <1>0, <2>7, <2>9, <3>2
    <3>3. CASE c \in late /\ d \notin late
      BY <1>0, <2>7, <2>9, <3>3
    <3>4. CASE c \notin late /\ d \notin late
      BY <2>7, <2>9, <3>4
    <3> QED BY <3>1, <3>2, <3>3, <3>4
  <2>10. ASSUME NEW h \in Coming(op')
         PROVE  nodeGen'[h] # op'.gen /\ \A c \in late' : c.gen = op'.gen => c.host # h
    <3>1. h \in Coming(op) /\ h \in Hosts /\ op'.gen = op.gen
      BY <2>1, <2>10
    <3>2. nodeGen'[h] # op.gen
      BY <1>0, <2>6, <2>10, <3>1
    <3>3. \A c \in late' : c.gen = op.gen => c.host # h
      BY <1>0, <2>7, <2>10, <3>1
    <3> QED BY <3>1, <3>2, <3>3
  <2>11. \A h \in Coming(op)' : /\ nodeGen'[h] # op'.gen
                                /\ \A c \in late' : c.gen = op'.gen => c.host # h
    BY <2>10 DEF Coming
  <2> QED BY <2>5, <2>8, <2>9, <2>11 DEF FencesOnce
<1> QED BY <1>1, <1>2

LEMMA ToldStep ==
    ASSUME TypeOK, StagedOp(op), LateKnown, JobsInv, [Next]_vars PROVE ToldWhole'
<1>0. /\ op.pc = "cancel" => op.cancel
      /\ \A g \in told : g <= last
      /\ Unpublished(op) => op.gen \notin told
      /\ \A c \in late : c.act = "admit" => c.gen \notin told
  BY DEF JobsInv, ToldWhole
<1>1. CASE Begin
  BY <1>0, <1>1, BeginIsNew DEF ToldWhole
<1>2. CASE ~Begin
  <2>1. /\ Ended(op') \/ op'.gen = op.gen
        /\ Unpublished(op') => Unpublished(op)
        /\ Ended(op') => ~Unpublished(op')
    BY <1>0, <1>2, HolderMoves, EndedKnows
  <2>2. last' = last
    BY <1>2, CountersKept
  <2>3. CASE told' = told
    <3>1. ASSUME NEW c \in late' \ late, c.act = "admit" PROVE c.gen \notin told
      <4>1. PICK h \in NextHosts : c = Call(h)
        BY <3>1, LeftBehind
      <4>2. op.pc \in Calls /\ h \in Hosts
        BY <3>1, LeftBehind, NextHostIsDue DEF TypeOK, Operations
      <4>3. op.pc = "admit" /\ c.gen = op.gen
        BY <3>1, <4>1, <4>2, CallTyped
      <4>4. Unpublished(op)
        BY <4>3 DEF StagedOp, Unpublished, Ending
      <4> QED BY <1>0, <4>3, <4>4
    <3>2. Unpublished(op)' => op'.gen \notin told'
      BY <1>0, <2>1, <2>3 DEF Unpublished, Ending
    <3> QED BY <1>0, <2>2, <2>3, <3>1, <3>2 DEF ToldWhole
  <2>4. CASE told' # told
    <3>1. op.pc = "publish" /\ told' = told \cup {op.gen} /\ late' = late
      BY <2>4, ListMoves
    <3>2. Publish
      BY <3>1, <2>4 DEF Next, Proceed, vars, Begin, Reconcile, CheckScope, Mark, RevokeDiscovery,
         Jobs, Stopping, Release, Claim, ReadyYue, ReadyModel, ReadyFails, Return, Undo, Fail,
         Clear, Interrupt, UndoUnrevoked, Crash, CallRuns, CallRefused, AuditHost, CallFails,
         LaunchDies, JobArrives, JobDone, ContainerExits, Reboot, Foreign, ForeignEnds, LateRuns,
         Local, disk
    <3>3. op'.pc = "return"
      BY <3>2, GotoFields DEF Publish, TypeOK, Stages
    <3>4. op.gen <= last
      BY DEF LateKnown
    <3>5. ASSUME NEW c \in late, c.act = "admit" PROVE c.gen # op.gen
      <4>1. ~Ending(op)
        BY <3>1 DEF Ending, StagedOp
      <4> QED BY <3>5, <4>1 DEF JobsInv, LateEnded
    <3>6. ~Unpublished(op)'
      BY <3>3 DEF Unpublished
    <3> QED BY <1>0, <2>2, <3>1, <3>4, <3>5, <3>6 DEF ToldWhole
  <2> QED BY <2>3, <2>4
<1> QED BY <1>1, <1>2

LEMMA EndedStep ==
    ASSUME TypeOK, StagedOp(op), LateKnown, JobsInv, [Next]_vars PROVE LateEnded'
<1>0. op.pc = "cancel" => op.cancel
  BY DEF JobsInv
<1>1. CASE Begin
  BY <1>1, BeginIsNew DEF LateEnded
<1>2. ASSUME ~Begin, NEW c \in late', c.act \in {"stop", "restart", "admit"}, c.gen = op'.gen
      PROVE  Ending(op')
  <2>1. /\ Ended(op') \/ op'.gen = op.gen
        /\ Ending(op) => Ending(op')
        /\ Ended(op') => Ending(op')
    BY <1>0, <1>2, HolderMoves, EndedKnows
  <2>2. CASE c \in late
    BY <1>2, <2>1, <2>2 DEF JobsInv, LateEnded
  <2>3. CASE c \notin late
    <3>1. PICK h \in NextHosts : c = Call(h)
      BY <1>2, <2>3, LeftBehind
    <3>2. op.pc \in Calls /\ h \in Hosts
      BY <1>2, <2>3, LeftBehind, NextHostIsDue DEF TypeOK, Operations
    <3>3. op.pc \in {"stop", "restart", "admit"}
      BY <1>2, <3>1, <3>2, CallTyped
    <3> QED BY <1>2, <2>3, <3>3, LeftBehind
  <2> QED BY <2>2, <2>3
<1> QED BY <1>1, <1>2 DEF LateEnded, Ending

\* A transition that has seen all of its factories drained has fenced them.
LEMMA SeenIsPast ==
    ASSUME NEW o \in Operations, NEW h \in Seen(o)
    PROVE  h \in Hosts /\ Coming(o) = {} /\ o.pc # "publish"
BY DEF Seen, Coming, Operations

LEMMA EndingIsPast ==
    ASSUME StagedOp(op), Ending(op) PROVE Coming(op) = {} /\ op.pc # "publish"
BY DEF StagedOp, Ending, Coming

LEMMA CallsShutStep ==
    ASSUME TypeOK, StagedOp(op), LateKnown, JobsInv, [Next]_vars PROVE CallsShut'
<1> SUFFICES ASSUME NEW c \in late', c.act \in {"stop", "restart"}
             PROVE  /\ Closed(c.host, c.gen)'
                    /\ nodeGen'[c.host] = c.gen => ~yue'[c.host].job
  BY DEF CallsShut
<1>1. /\ c.host \in Hosts /\ Closed(c.host, c.gen)
      /\ nodeGen[c.host] = c.gen => ~yue[c.host].job
      /\ op.gen = c.gen => c.host \notin Coming(op) /\ op.pc # "publish"
  <2>1. CASE c \in late
    <3>1. /\ c.host \in Hosts /\ Closed(c.host, c.gen)
          /\ nodeGen[c.host] = c.gen => ~yue[c.host].job
      BY <2>1, LateTyped DEF JobsInv, CallsShut
    <3>2. op.gen = c.gen => Ending(op)
      BY <2>1 DEF JobsInv, LateEnded
    <3> QED BY <3>1, <3>2, EndingIsPast
  <2>2. CASE c \notin late
    <3>1. PICK h \in NextHosts : c = Call(h)
      BY <2>2, LeftBehind
    <3>2. op.pc \in Calls /\ h \in op.todo /\ h \in Hosts
      BY <2>2, LeftBehind, NextHostIsDue DEF TypeOK, Operations
    <3>3. op.pc \in {"stop", "restart"} /\ c.host = h /\ c.gen = op.gen
      BY <3>1, <3>2, CallTyped
    <3>4. h \in op.hosts /\ (op.pc = "restart" => ~op.undo)
      BY <3>2, <3>3 DEF StagedOp
    <3>5. h \in Seen(op) /\ Busy(op) = {}
      BY <3>3, <3>4 DEF Seen, Busy
    <3>6. Closed(h, op.gen) /\ (nodeGen[h] = op.gen => ~yue[h].job)
      BY <3>5 DEF JobsInv, HostsShut
    <3> QED BY <3>2, <3>3, <3>5, <3>6, SeenIsPast DEF TypeOK
  <2> QED BY <2>1, <2>2
<1> QED BY <1>1, ClosedKept

LEMMA HostsShutStep ==
    ASSUME TypeOK, StagedOp(op), LateKnown, JobsInv, [Next]_vars PROVE HostsShut'
<1>0. op.pc = "cancel" => op.cancel
  BY DEF JobsInv
<1>1. PICK g \in Gens : g = op.gen
  BY DEF TypeOK, Operations
<1>2. ASSUME NEW h \in Seen(op)
      PROVE  /\ Closed(h, g)' /\ h \in Hosts
             /\ nodeGen'[h] = g /\ yue'[h].job => h \in Busy(op)
  <2>1. /\ Closed(h, g) /\ (nodeGen[h] = g /\ yue[h].job => h \in Busy(op))
        /\ h \in Hosts /\ h \notin Coming(op) /\ op.pc # "publish"
    BY <1>1, <1>2, SeenIsPast DEF JobsInv, HostsShut, TypeOK
  <2> QED BY <2>1, ClosedKept
<1>3. CASE Begin \/ Ended(op')
  <2>1. Seen(op') = {}
    BY <1>3, BeginIsNew, EndedKnows
  <2> QED BY <2>1 DEF HostsShut, Seen
<1>4. ASSUME op'.gen = op.gen,
             \A h \in Seen(op') : /\ Closed(h, g)'
                                  /\ nodeGen'[h] = g /\ yue'[h].job => h \in Busy(op')
      PROVE  HostsShut'
  <2>1. Seen(op)' = Seen(op') /\ Busy(op)' = Busy(op')
    BY DEF Seen, Busy
  <2>2. \A h : Closed(h, op.gen)' <=> Closed(h, g)'
    BY <1>1, <1>4 DEF Closed, LateFence
  <2> QED BY <1>1, <1>4, <2>1, <2>2 DEF HostsShut
<1>5. CASE Follows(op', op)
  BY <1>2, <1>4, <1>5 DEF Follows
<1>6. ASSUME NEW k \in Hosts, CallRuns(k) PROVE HostsShut'
  <2>1. /\ op'.gen = op.gen
        /\ \/ Seen(op') = {}
           \/ /\ Seen(op') \subseteq Seen(op) \cup (IF op.pc = "drain" THEN {k} ELSE {})
              /\ Busy(op) \subseteq Busy(op') \cup (IF op.pc = "cancel" THEN {k} ELSE {})
              /\ op.pc = "drain" /\ yue[k].job => k \in Busy(op')
    BY <1>0, <1>6, CallFollows
  <2>2. /\ op.pc \in Calls /\ k \in NextHosts /\ Runs(Call(k)) /\ Effect(Call(k))
        /\ UNCHANGED <<late, told>>
    BY <1>6 DEF CallRuns, disk
  <2>3. Call(k).host = k /\ Call(k).gen = g /\ Call(k).act = op.pc /\ Call(k) \in Requests
    BY <1>1, <2>2, CallTyped
  <2>4. /\ op.pc = "drain" => ~yue'[k].acc /\ (yue'[k].job => yue[k].job)
        /\ op.pc = "cancel" => ~yue'[k].job
    <3>1. PICK c \in Requests : c = Call(k)
      BY <2>3
    <3>2. yue'[k] = FactoryAfter(yue[k], c) /\ yue[k] \in Factories /\ c.act = op.pc
      BY <2>2, <2>3, <3>1 DEF Effect, TypeOK
    <3>3. /\ yue'[k].acc = (IF c.act = "admit" THEN yue[k].up
                            ELSE yue[k].acc /\ c.act \notin {"drain", "stop", "restart"})
          /\ yue'[k].job = (yue[k].job /\ c.act \notin {"cancel", "stop", "restart"})
      BY <3>2 DEF FactoryAfter
    <3> QED BY <3>2, <3>3
  <2>5. ASSUME NEW h \in Seen(op'), h # k \/ op.pc \notin {"drain", "cancel"}
        PROVE  Closed(h, g)' /\ (nodeGen'[h] = g /\ yue'[h].job => h \in Busy(op'))
    BY <1>2, <2>1, <2>5
  <2>6. ASSUME k \in Seen(op'), op.pc = "drain"
        PROVE  Closed(k, g)' /\ (nodeGen'[k] = g /\ yue'[k].job => k \in Busy(op'))
    <3>1. nodeGen[k] = g /\ nodeGen' = nodeGen
      BY <2>2, <2>3, <2>6 DEF Runs, Effect
    <3>2. ~yue'[k].acc /\ (yue'[k].job => yue[k].job)
      BY <2>4, <2>6
    <3>3. ~LateFence(k, g)
      BY <3>1 DEF LateFence, JobsInv, FencesOnce
    <3>4. ~LateFence(k, g)'
      BY <2>2, <3>3 DEF LateFence
    <3> QED BY <2>1, <2>6, <3>2, <3>4 DEF Closed
  <2>7. ASSUME k \in Seen(op'), op.pc = "cancel"
        PROVE  Closed(k, g)' /\ (nodeGen'[k] = g /\ yue'[k].job => k \in Busy(op'))
    BY <1>2, <2>1, <2>4, <2>7
  <2> QED BY <1>4, <2>1, <2>5, <2>6, <2>7
<1> QED BY <1>0, <1>3, <1>5, <1>6, HolderFollows

LEMMA JobsStep ==
    ASSUME TypeOK, ControlInv, JobsInv, [Next]_vars PROVE JobsInv'
<1>1. op'.pc = "cancel" => op'.cancel
  BY HolderMoves, BeginIsNew DEF ControlInv, JobsInv
<1> QED BY <1>1, FencesStep, ToldStep, EndedStep, CallsShutStep, HostsShutStep
        DEF ControlInv, JobsInv

LEMMA JobsInitially ==
    ASSUME Init PROVE JobsInv
<1>1. Idle.pc = "idle" /\ Coming(Idle) = {} /\ Seen(Idle) = {} /\ ~Unpublished(Idle)
  BY DEF Idle, Coming, Seen, Unpublished, Ending
<1> QED BY <1>1 DEF Init, JobsInv, FencesOnce, ToldWhole, LateEnded, CallsShut, HostsShut, None

LEMMA JobsKept == Spec => [](TypeOK /\ ControlInv /\ JobsInv)
<1>1. TypeOK /\ ControlInv /\ JobsInv /\ [Next]_vars => JobsInv'
  BY JobsStep
<1> QED BY <1>1, JobsInitially, Controlled, PTL DEF Spec

\* README "Active renders keep running": whatever strikes and whatever arrives
\* late, a job is ended by itself, by its machine, or by a transition that was
\* asked to cancel jobs, never by one that stops or restarts the service.
THEOREM JobsGoOn == Spec => JobsSurvive
<1>1. ASSUME TypeOK, ControlInv, JobsInv, [Next]_vars,
             NEW h \in Hosts, yue[h].job, ~yue'[h].job
      PROVE  \/ JobDone(h) \/ Reboot(h)
             \/ op.pc = "cancel" /\ op.cancel
             \/ \E c \in late : c.act = "cancel" /\ LateRuns(c)
  <2>1. SUFFICES ASSUME NEW c \in Requests, Ran(c), c.host = h, nodeGen[h] = c.gen,
                        c.act \in {"cancel", "stop", "restart"}
                 PROVE  \/ op.pc = "cancel" /\ op.cancel
                        \/ \E d \in late : d.act = "cancel" /\ LateRuns(d)
    BY <1>1, FactoryMoves DEF ControlInv
  <2>2. CASE c \in late /\ LateRuns(c)
    BY <1>1, <2>1, <2>2 DEF JobsInv, CallsShut
  <2>3. CASE ~(c \in late /\ LateRuns(c))
    <3>1. c.host \in op.todo /\ CallRuns(c.host) /\ c = Call(c.host)
      BY <2>1, <2>3 DEF Ran
    <3>2. op.pc \in Calls
      BY <3>1 DEF CallRuns
    <3>3. c.act = op.pc /\ c.gen = op.gen
      BY <1>1, <2>1, <3>1, <3>2, CallTyped DEF ControlInv
    <3>4. CASE op.pc = "cancel"
      BY <1>1, <3>4 DEF JobsInv
    <3>5. CASE op.pc \in {"stop", "restart"}
      <4>1. h \in op.hosts /\ (op.pc = "restart" => ~op.undo)
        BY <1>1, <2>1, <3>1, <3>5 DEF ControlInv, StagedOp
      <4>2. h \in Seen(op) /\ Busy(op) = {}
        BY <3>5, <4>1 DEF Seen, Busy
      <4> QED BY <1>1, <2>1, <3>3, <4>2 DEF JobsInv, HostsShut
    <3> QED BY <2>1, <3>3, <3>4, <3>5
  <2> QED BY <2>2, <2>3
<1>2. TypeOK /\ ControlInv /\ JobsInv /\ [Next]_vars =>
        [\A h \in Hosts : yue[h].job /\ ~yue'[h].job =>
           \/ JobDone(h) \/ Reboot(h)
           \/ op.pc = "cancel" /\ op.cancel
           \/ \E c \in late : c.act = "cancel" /\ LateRuns(c)]_vars
  BY <1>1
<1> QED BY <1>2, JobsKept, PTL DEF Spec, JobsSurvive

-----------------------------------------------------------------------------
(* While at most one fault has struck, a listed worker goes on accepting.  *)

\* Where the list may still name the hosts of the transition: before it is
\* revoked, after it is published, and when the revocation may fail.
Listing == {"idle", "scope", "mark", "revoke", "return", "undo", "fail", "audit", "clear"}

\* Where their records may say that they are ready.
Serving == {"idle", "scope", "mark", "publish", "return", "audit", "clear"}

\* Every call that outlives its client has cost a fault.
OneLate ==
    /\ faults = 0 => late = {}
    /\ faults <= 1 => \A c, d \in late : c = d

\* A transition in good order that meets a late call has fenced its hosts for good.
TurnOver ==
    faults <= 1 /\ late # {} /\ Well(op) =>
        \A h \in Hosts : FencedOn(op, h) => nodeGen[h] = op.gen

Unlisted ==
    /\ faults <= 1 /\ op.pc \notin Listing => disc \cap op.hosts = {}
    /\ faults = 0 /\ op.pc = "undo" => disc \cap op.hosts = {}

NotReady ==
    faults = 0 /\ op.pc \notin Serving => \A h \in op.hosts : rec[h].phase # "ready"

\* A late call that would drain a worker finds it off the list for as long as the
\* generation of the call stays on the node.
LateUnlisted ==
    faults <= 1 =>
        \A c \in late : c.act \in {"drain", "stop", "restart"} /\ nodeGen[c.host] = c.gen =>
            c.host \notin disc /\ rec[c.host].phase # "ready"

ListInv == OneLate /\ TurnOver /\ Unlisted /\ NotReady /\ LateUnlisted

\* The faults that a step adds, and what it changes without one.
LEMMA FaultMoves ==
    ASSUME TypeOK, [Next]_vars
    PROVE  /\ faults \in Nat
           /\ \/ faults' = faults /\ late' \subseteq late
              \/ faults' = faults + 1
<1>1. faults \in Nat
  BY BoundsAssumption DEF TypeOK
<1>2. CASE \/ UNCHANGED vars \/ Begin \/ Reconcile \/ Proceed
           \/ \E h \in Hosts : JobArrives(h) \/ JobDone(h) \/ ForeignEnds(h)
           \/ \E c \in late : LateRuns(c)
  BY <1>1, <1>2 DEF vars, Begin, Reconcile, Proceed, CheckScope, Mark, RevokeDiscovery, Jobs,
     Stopping, Release, Claim, ReadyYue, Publish, ReadyModel, ReadyFails, Return, Undo, Fail,
     Clear, CallRuns, CallRefused, AuditHost, JobArrives, JobDone, ForeignEnds, LateRuns, Local
<1>3. CASE \/ Interrupt \/ UndoUnrevoked \/ Crash
           \/ \E h \in Hosts : CallFails(h) \/ LaunchDies(h) \/ ContainerExits(h) \/ Reboot(h)
                               \/ Foreign(h)
  BY <1>1, <1>3 DEF Interrupt, UndoUnrevoked, Crash, CallFails, LaunchDies, ContainerExits,
     Reboot, Foreign, Fault
<1> QED BY <1>1, <1>2, <1>3 DEF Next

LEMMA HolderCalm ==
    ASSUME TypeOK, StagedOp(op), [Next]_vars, ~Begin,
           NEW h \in Hosts, Well(op'), FencedOn(op', h)
    PROVE  /\ Well(op) /\ op'.gen = op.gen /\ late' \subseteq late
           /\ \/ FencedOn(op, h)
              \/ op.pc = "fence" /\ CallRuns(h) /\ nodeGen'[h] = op.gen
<1>1. CASE \/ CheckScope \/ Mark \/ RevokeDiscovery \/ Jobs \/ Stopping \/ ReadyYue
           \/ Publish \/ ReadyModel \/ ReadyFails \/ Return \/ Undo \/ Fail \/ Clear
           \/ Release \/ Claim \/ Reconcile \/ \E k \in Hosts : AuditHost(k)
  <2>1. Calm(op', op)
    BY <1>1, LocalTurns, ClaimingSteps DEF Turn
  <2>2. late' = late
    BY <1>1 DEF CheckScope, Mark, RevokeDiscovery, Jobs, Stopping, ReadyYue, Publish, ReadyModel,
       ReadyFails, Return, Undo, Fail, Clear, Release, Claim, Reconcile, AuditHost, Local
  <2> QED BY <2>1, <2>2 DEF Calm
<1>2. CASE \/ Interrupt \/ UndoUnrevoked \/ Crash
           \/ \E k \in Hosts : CallRefused(k) \/ CallFails(k) \/ LaunchDies(k)
  BY <1>2, FaultsTurn
<1>3. ASSUME NEW k \in Hosts, CallRuns(k)
      PROVE  /\ Well(op) /\ op'.gen = op.gen /\ late' \subseteq late
             /\ \/ FencedOn(op, h)
                \/ op.pc = "fence" /\ CallRuns(h) /\ nodeGen'[h] = op.gen
  <2>1. op'.gen = op.gen /\ late' = late
    BY <1>3, CallRunsOn
  <2>2. CASE op.pc # "fence"
    BY <1>3, <2>1, <2>2, CallRunsOn DEF Calm
  <2>3. CASE op.pc = "fence"
    <3>1. /\ nodeGen' = [nodeGen EXCEPT ![k] = op.gen]
          /\ Well(op) /\ (FencedOn(op, h) \/ h = k)
      BY <1>3, <2>3, CallRunsOn
    <3> QED BY <1>3, <2>1, <2>3, <3>1 DEF TypeOK
  <2> QED BY <2>2, <2>3
<1>4. CASE \/ UNCHANGED vars
           \/ \E k \in Hosts : \/ JobArrives(k) \/ JobDone(k) \/ ContainerExits(k) \/ Reboot(k)
                               \/ Foreign(k) \/ ForeignEnds(k)
           \/ \E c \in late : LateRuns(c)
  BY <1>4 DEF vars, JobArrives, JobDone, ContainerExits, Reboot, Foreign, ForeignEnds, LateRuns
<1> QED BY <1>1, <1>2, <1>3, <1>4 DEF Next, Proceed

LEMMA OneLateStep ==
    ASSUME TypeOK, [Next]_vars, OneLate PROVE OneLate'
<1>1. /\ faults \in Nat
      /\ \/ faults' = faults /\ late' \subseteq late
         \/ faults' = faults + 1
  BY FaultMoves
<1>2. CASE faults' = faults /\ late' \subseteq late
  BY <1>2 DEF OneLate
<1>3. CASE faults' = faults + 1
  <2>1. faults' # 0
    BY <1>1, <1>3
  <2>2. ASSUME faults' <= 1, NEW c \in late', NEW d \in late' PROVE c = d
    <3>1. late = {}
      BY <1>1, <1>3, <2>2 DEF OneLate
    <3>2. PICK h \in NextHosts : late' \subseteq {Call(h)}
      BY <2>2, <3>1, OneLeft
    <3> QED BY <2>2, <3>2
  <2> QED BY <2>1, <2>2 DEF OneLate
<1> QED BY <1>1, <1>2, <1>3

\* The stages from which a stage that matters to the list is reached.
LEMMA HolderPlace ==
    ASSUME TypeOK, StagedOp(op), [Next]_vars, ~Begin
    PROVE  /\ op'.pc \notin Listing =>
                op.pc \notin Listing \/ RevokeDiscovery \/ Undo \/ UndoUnrevoked
           /\ op'.pc = "undo" /\ faults' = faults => op' = op \/ op.pc \notin Listing
           /\ op'.pc \notin Serving /\ faults' = faults => op.pc \notin Serving \/ Mark
<1>0. op \in Operations /\ faults \in Nat /\ Idle.pc = "idle"
  BY FaultMoves DEF TypeOK, Idle
<1>1. CASE CheckScope
  BY <1>0, <1>1, GotoFields DEF CheckScope, Stages, Listing, Serving
<1>2. CASE Mark
  <2>1. op'.pc = "revoke"
    BY <1>0, <1>2, GotoFields DEF Mark, Stages
  <2> QED BY <1>2, <2>1 DEF Listing
<1>3. CASE RevokeDiscovery
  BY <1>0, <1>3, GotoFields DEF RevokeDiscovery, Stages, Calls, Listing, Serving
<1>4. CASE Publish
  BY <1>0, <1>4, GotoFields DEF Publish, Stages, Listing, Serving
<1>5. CASE Undo
  <2>1. op'.pc \in {"drain", "fail"} /\ op.pc = "undo"
    BY <1>0, <1>5, CleanupMoves DEF Undo
  <2> QED BY <1>5, <2>1 DEF Serving
<1>6. CASE Return \/ Fail \/ Clear \/ Crash
  BY <1>0, <1>6 DEF Return, Fail, Clear, Crash, Listing, Serving
<1>7. CASE Reconcile \/ \E h \in Hosts : AuditHost(h)
  BY <1>7, ClaimingSteps DEF Listing, Serving
<1>8. CASE Interrupt
  <2>1. op'.pc = "undo"
    <3> DEFINE noted == [op EXCEPT !.err = Join(@, "other")]
    <3>1. noted \in Operations
      BY <1>0, JoinErrors DEF Operations, Errors
    <3>2. op' = Goto(noted, "undo")
      BY <1>8 DEF Interrupt, Raise
    <3> QED BY <3>1, <3>2, GotoFields DEF Stages
  <2>2. faults' # faults
    BY <1>0, <1>8 DEF Interrupt, Fault
  <2> QED BY <2>1, <2>2 DEF Listing
<1>9. CASE UndoUnrevoked
  <2>1. faults' # faults
    BY <1>0, <1>9 DEF UndoUnrevoked, Fault
  <2> QED BY <1>9, <2>1
<1>10. CASE \/ Jobs \/ Stopping \/ Release \/ Claim \/ ReadyYue \/ ReadyModel \/ ReadyFails
            \/ \E h \in Hosts : \/ CallRuns(h) \/ CallRefused(h) \/ CallFails(h) \/ LaunchDies(h)
  <2>1. op.pc \notin Listing \cup Serving
    BY <1>10 DEF Jobs, Stopping, Release, Claim, ReadyYue, ReadyModel, ReadyFails, CallRuns,
       CallRefused, CallFails, LaunchDies, Calls, Listing, Serving
  <2> QED BY <2>1
<1>11. CASE \/ UNCHANGED vars
            \/ \E h \in Hosts : \/ JobArrives(h) \/ JobDone(h) \/ ContainerExits(h) \/ Reboot(h)
                                \/ Foreign(h) \/ ForeignEnds(h)
            \/ \E c \in late : LateRuns(c)
  BY <1>11 DEF vars, JobArrives, JobDone, ContainerExits, Reboot, Foreign, ForeignEnds, LateRuns
<1> QED BY <1>1, <1>2, <1>3, <1>4, <1>5, <1>6, <1>7, <1>8, <1>9, <1>10, <1>11 DEF Next, Proceed

\* Who writes the list.
LEMMA ListWritten ==
    ASSUME [Next]_vars
    PROVE  \/ disc' = disc /\ ~RevokeDiscovery /\ ~Undo
           \/ Revoke /\ (RevokeDiscovery \/ Undo) /\ UNCHANGED <<faults, nodeGen, late, rec>>
           \/ Publish /\ disc' = Hosts
<1>1. CASE RevokeDiscovery \/ Undo
  BY <1>1 DEF RevokeDiscovery, Undo, Local
<1>2. CASE Publish
  BY <1>2 DEF Publish
<1>3. CASE ~(RevokeDiscovery \/ Undo \/ Publish)
  <2>1. disc' = disc
    BY <1>3 DEF Next, Proceed, vars, Begin, Reconcile, CheckScope, Mark, Jobs, Stopping, Release,
       Claim, ReadyYue, ReadyModel, ReadyFails, Return, Fail, Clear, Interrupt, UndoUnrevoked,
       Crash, CallRuns, CallRefused, AuditHost, CallFails, LaunchDies, JobArrives, JobDone,
       ContainerExits, Reboot, Foreign, ForeignEnds, LateRuns, Local, disk
  <2> QED BY <1>3, <2>1
<1> QED BY <1>1, <1>2, <1>3

\* Who writes that a host is ready.
LEMMA ReadyWritten ==
    ASSUME TypeOK, [Next]_vars, NEW h \in Hosts, rec'[h].phase = "ready"
    PROVE  /\ \/ rec[h].phase = "ready"
              \/ /\ op.pc = "ready" /\ (op.target = "yue" \/ h \in op.hosts)
                 /\ op'.pc \in Serving
           /\ Mark => h \notin op.hosts
<1>0. rec[h] \in Records /\ op \in Operations
  BY DEF TypeOK
<1>1. CASE Mark
  BY <1>0, <1>1 DEF Mark, SaveSelected, Records
<1>2. CASE Stopping
  BY <1>0, <1>2 DEF Stopping, Mark, SaveSelected, Records
<1>3. CASE Release
  BY <1>0, <1>3 DEF Release, Mark, SaveSelected, Records
<1>4. CASE Claim
  BY <1>0, <1>4 DEF Claim, Mark, SaveSelected, Records
<1>5. CASE ReadyYue
  <2>1. op'.pc = "publish" /\ op.pc = "ready" /\ op.target = "yue"
    BY <1>0, <1>5, GotoFields DEF ReadyYue, Stages
  <2> QED BY <2>1 DEF Serving, Mark
<1>6. CASE ReadyModel
  <2>1. op'.pc = "return" /\ op.pc = "ready"
    BY <1>0, <1>6, GotoFields DEF ReadyModel, Stages
  <2>2. h \notin op.hosts => rec'[h] = rec[h]
    BY <1>6 DEF ReadyModel, SaveSelected
  <2> QED BY <2>1, <2>2 DEF Serving, Mark
<1>7. CASE Fail
  BY <1>0, <1>7 DEF Fail, Mark, SaveSelected, Records
<1>8. CASE Clear
  BY <1>0, <1>8 DEF Clear, Mark, Records
<1>9. CASE ~(Mark \/ Stopping \/ Release \/ Claim \/ ReadyYue \/ ReadyModel \/ Fail \/ Clear)
  <2>1. rec' = rec
    BY <1>9 DEF Next, Proceed, vars, Begin, Reconcile, CheckScope, RevokeDiscovery, Jobs, Publish,
       ReadyFails, Return, Undo, Interrupt, UndoUnrevoked, Crash, CallRuns, CallRefused,
       AuditHost, CallFails, LaunchDies, JobArrives, JobDone, ContainerExits, Reboot, Foreign,
       ForeignEnds, LateRuns, disk
  <2> QED BY <1>9, <2>1
<1> QED BY <1>1, <1>2, <1>3, <1>4, <1>5, <1>6, <1>7, <1>8, <1>9

\* Who drains a worker.
LEMMA AdmissionMoves ==
    ASSUME TypeOK, StagedOp(op), [Next]_vars, NEW h \in Hosts, Admitted(h), ~Admitted(h)'
    PROVE  \/ Reboot(h)
           \/ \E c \in Requests : /\ Ran(c) /\ c.host = h /\ nodeGen[h] = c.gen
                                  /\ c.act \in {"drain", "stop", "restart"}
<1>0. /\ yue \in [Hosts -> Factories] /\ yue[h] \in Factories
      /\ yue[h].up = TRUE /\ yue[h].acc = TRUE
  BY DEF TypeOK, Admitted, Factories
<1>1. CASE yue' = yue
  BY <1>1 DEF Admitted
<1>2. ASSUME NEW g \in Hosts, JobArrives(g) \/ JobDone(g) PROVE FALSE
  <2>1. yue'[h].up = yue[h].up /\ yue'[h].acc = yue[h].acc
    BY <1>0, <1>2 DEF JobArrives, JobDone, Factories
  <2> QED BY <2>1 DEF Admitted
<1>3. ASSUME NEW g \in Hosts, Reboot(g) PROVE g = h
  <2>1. g # h => yue'[h] = yue[h]
    BY <1>0, <1>3 DEF Reboot
  <2> QED BY <2>1 DEF Admitted
<1>4. ASSUME NEW c \in Requests, Ran(c)
      PROVE c.host = h /\ nodeGen[h] = c.gen /\ c.act \in {"drain", "stop", "restart"}
  <2>1. Effect(c) /\ (c.act = "fence" \/ nodeGen[c.host] = c.gen)
    BY <1>4 DEF Ran, Runs
  <2>2. c.host = h
    <3>1. c.host # h => yue'[h] = yue[h]
      BY <1>0, <2>1 DEF Effect
    <3> QED BY <3>1 DEF Admitted
  <2>3. yue'[h] = FactoryAfter(yue[h], c)
    BY <1>0, <2>1, <2>2 DEF Effect
  <2>4. c.act \notin {"drain", "stop", "restart"} => yue'[h].up /\ yue'[h].acc
    <3>1. /\ yue'[h].up = (c.act = "restart" \/ (yue[h].up /\ c.act # "stop"))
          /\ yue'[h].acc = (IF c.act = "admit" THEN yue[h].up
                            ELSE yue[h].acc /\ c.act \notin {"drain", "stop", "restart"})
      BY <2>3 DEF FactoryAfter
    <3> QED BY <1>0, <3>1
  <2> QED BY <2>1, <2>2, <2>4 DEF Admitted
<1> QED BY <1>1, <1>2, <1>3, <1>4, NodeMoves

-----------------------------------------------------------------------------
(* Each part of this invariant is kept.                                    *)

LEMMA TurnOverStep ==
    ASSUME TypeOK, StagedOp(op), [Next]_vars, ListInv PROVE TurnOver'
<1> SUFFICES ASSUME faults' <= 1, late' # {}, Well(op'), NEW h \in Hosts, FencedOn(op', h)
             PROVE  nodeGen'[h] = op'.gen
  BY DEF TurnOver, Well, FencedOn
<1>1. ~Begin
  BY BeginStep DEF FencedOn
<1>2. /\ Well(op) /\ op'.gen = op.gen /\ late' \subseteq late
      /\ \/ FencedOn(op, h)
         \/ op.pc = "fence" /\ CallRuns(h) /\ nodeGen'[h] = op.gen
  BY <1>1, HolderCalm
<1>3. CASE FencedOn(op, h)
  <2>1. faults <= 1 /\ late # {}
    BY <1>2, FaultMoves
  <2>2. nodeGen[h] = op.gen
    BY <1>2, <1>3, <2>1 DEF ListInv, TurnOver
  <2>3. ASSUME nodeGen'[h] # nodeGen[h] PROVE nodeGen'[h] = op.gen
    <3>1. PICK c \in Requests : Ran(c) /\ c.act = "fence" /\ c.host = h /\ nodeGen'[h] = c.gen
      BY <2>3, FactoryMoves
    <3>2. CASE c.gen = op.gen
      BY <3>1, <3>2
    <3>3. CASE c \in late /\ late' = late \ {c}
      <4>1. late' = {}
        BY <2>1, <3>3 DEF ListInv, OneLate
      <4> QED BY <4>1
    <3> QED BY <3>1, <3>2, <3>3, RanCalls
  <2> QED BY <1>2, <2>2, <2>3
<1> QED BY <1>2, <1>3

LEMMA UnlistedStep ==
    ASSUME TypeOK, StagedOp(op), op.pc = "cancel" => op.cancel, [Next]_vars, ListInv
    PROVE  Unlisted'
<1>0. /\ faults \in Nat /\ (faults' = faults \/ faults' = faults + 1)
  BY FaultMoves
<1>1. CASE Begin
  <2>1. op'.pc = "scope"
    BY <1>1, BeginStep
  <2> QED BY <2>1 DEF Unlisted, Listing
<1>2. ASSUME ~Begin, op'.pc \notin Listing \/ op'.pc = "undo"
      PROVE  op'.hosts = op.hosts
  BY <1>2, HolderMoves DEF Ended, Listing
<1>3. ASSUME ~Begin, faults' <= 1, op'.pc \notin Listing
      PROVE  disc' \cap op'.hosts = {}
  <2>1. op'.hosts = op.hosts
    BY <1>2, <1>3
  <2>2. CASE RevokeDiscovery \/ Undo
    <3>1. Revoke
      BY <2>2 DEF RevokeDiscovery, Undo
    <3> QED BY <2>1, <3>1 DEF Revoke
  <2>3. CASE UndoUnrevoked
    <3>1. faults = 0 /\ op.pc = "undo" /\ disc' = disc
      BY <1>0, <1>3, <2>3 DEF UndoUnrevoked, Fault, disk
    <3> QED BY <2>1, <3>1 DEF ListInv, Unlisted
  <2>4. CASE op.pc \notin Listing /\ ~RevokeDiscovery /\ ~Undo
    <3>1. disc \cap op.hosts = {}
      BY <1>0, <1>3, <2>4 DEF ListInv, Unlisted
    <3>2. ~Publish
      <4>1. Publish => op'.pc = "return"
        BY GotoFields DEF Publish, TypeOK, Stages
      <4> QED BY <1>3, <4>1 DEF Listing
    <3>3. disc' = disc
      BY <2>4, <3>2, ListWritten
    <3> QED BY <2>1, <3>1, <3>3
  <2> QED BY <1>3, <2>2, <2>3, <2>4, HolderPlace
<1>4. ASSUME ~Begin, faults' = 0, op'.pc = "undo" PROVE disc' \cap op'.hosts = {}
  <2>1. op'.hosts = op.hosts /\ faults = 0 /\ faults' = faults
    BY <1>0, <1>2, <1>4
  <2>2. op' = op \/ op.pc \notin Listing
    BY <1>4, <2>1, HolderPlace
  <2>3. disc \cap op.hosts = {}
    BY <1>4, <2>1, <2>2 DEF ListInv, Unlisted
  <2>4. ~Publish
    <3>1. Publish => op'.pc = "return"
      BY GotoFields DEF Publish, TypeOK, Stages
    <3> QED BY <1>4, <3>1
  <2>5. CASE disc' = disc
    BY <2>1, <2>3, <2>5
  <2>6. CASE Revoke
    BY <2>1, <2>6 DEF Revoke
  <2> QED BY <2>4, <2>5, <2>6, ListWritten
<1> QED BY <1>1, <1>3, <1>4 DEF Unlisted

LEMMA NotReadyStep ==
    ASSUME TypeOK, StagedOp(op), op.pc = "cancel" => op.cancel, [Next]_vars, ListInv
    PROVE  NotReady'
<1> SUFFICES ASSUME faults' = 0, op'.pc \notin Serving, NEW h \in op'.hosts,
                    rec'[h].phase = "ready"
             PROVE  FALSE
  BY DEF NotReady
<1>1. faults = 0 /\ faults' = faults
  BY FaultMoves
<1>2. ~Begin
  BY BeginStep DEF Serving
<1>3. op'.hosts = op.hosts /\ (op.pc \notin Serving \/ Mark)
  BY <1>1, <1>2, HolderMoves, HolderPlace DEF Ended, Serving
<1>4. h \in Hosts
  BY <1>3 DEF TypeOK, Operations
<1>5. CASE Mark
  BY <1>3, <1>4, <1>5, ReadyWritten
<1>6. CASE op.pc \notin Serving
  <2>1. rec[h].phase # "ready"
    BY <1>1, <1>3, <1>6 DEF ListInv, NotReady
  <2> QED BY <1>4, <2>1, ReadyWritten
<1> QED BY <1>3, <1>5, <1>6

LEMMA LateUnlistedStep ==
    ASSUME TypeOK, ControlInv, JobsInv, [Next]_vars, ListInv PROVE LateUnlisted'
<1> SUFFICES ASSUME faults' <= 1, NEW c \in late', c.act \in {"drain", "stop", "restart"},
                    nodeGen'[c.host] = c.gen
             PROVE  c.host \notin disc' /\ rec'[c.host].phase # "ready"
  BY DEF LateUnlisted
<1>0. /\ StagedOp(op) /\ LateKnown /\ op \in Operations /\ faults \in Nat
      /\ faults' = faults \/ faults' = faults + 1
  BY FaultMoves DEF ControlInv, TypeOK
<1>1. CASE c \notin late
  <2>1. PICK k \in NextHosts : c = Call(k)
    BY <1>1, LeftBehind DEF ControlInv
  <2>2. op.pc \in Calls /\ k \in op.todo /\ k \in Hosts /\ disc' = disc /\ rec' = rec
    BY <1>0, <1>1, LeftBehind, NextHostIsDue DEF Operations
  <2>3. op.pc \in {"drain", "stop", "restart"} /\ c.host = k
    BY <1>0, <2>1, <2>2, CallTyped
  <2>4. k \in op.hosts /\ op.pc \notin Listing \cup Serving
    BY <1>0, <2>2, <2>3 DEF StagedOp, Listing, Serving
  <2>5. faults = 0
    BY <1>0, <1>1, FaultMoves
  <2> QED BY <2>2, <2>3, <2>4, <2>5 DEF ListInv, Unlisted, NotReady
<1>2. CASE c \in late
  <2>1. faults <= 1 /\ c.host \in Hosts
    BY <1>0, <1>2, LateTyped
  <2>2. nodeGen[c.host] = c.gen
    <3> SUFFICES ASSUME nodeGen'[c.host] # nodeGen[c.host] PROVE FALSE
      OBVIOUS
    <3>1. PICK d \in Requests :
            Ran(d) /\ d.act = "fence" /\ d.host = c.host /\ nodeGen'[c.host] = d.gen
      BY <1>0, <2>1, FactoryMoves
    <3>2. CASE d \in late
      BY <1>2, <2>1, <3>1, <3>2 DEF ListInv, OneLate
    <3>3. CASE d.host \in op.todo /\ op.pc = "fence" /\ d.gen = op.gen
      <4>1. c.host \in Coming(op) /\ c.gen = op.gen
        BY <3>1, <3>3 DEF Coming
      <4> QED BY <1>2, <4>1 DEF JobsInv, FencesOnce
    <3> QED BY <1>0, <3>1, <3>2, <3>3, RanCalls
  <2>3. c.host \notin disc /\ rec[c.host].phase # "ready"
    BY <1>2, <2>1, <2>2 DEF ListInv, LateUnlisted
  \* The transition that makes a worker ready has fenced the late call off.
  <2>4. ASSUME op.pc \in {"ready", "publish"}, op.target = "yue" \/ c.host \in op.hosts
        PROVE  FALSE
    <3>1. Well(op) /\ FencedOn(op, c.host)
      BY <1>0, <2>1, <2>4 DEF StagedOp, Sure, Well, Forward, FencedOn
    <3>2. nodeGen[c.host] = op.gen
      BY <1>2, <2>1, <3>1 DEF ListInv, TurnOver
    <3> QED BY <1>0, <1>2, <2>2, <3>1, <3>2 DEF LateKnown
  <2>5. rec'[c.host].phase # "ready"
    BY <2>1, <2>3, <2>4, ReadyWritten
  <2>6. c.host \notin disc'
    <3>1. CASE Revoke
      BY <2>3, <3>1 DEF Revoke
    <3>2. CASE Publish
      BY <1>0, <2>4, <3>2 DEF Publish, StagedOp
    <3> QED BY <2>3, <3>1, <3>2, ListWritten
  <2> QED BY <2>5, <2>6
<1> QED BY <1>1, <1>2

LEMMA ListKept == Spec => [](TypeOK /\ ControlInv /\ JobsInv /\ ListInv)
<1>1. Init => ListInv
  BY DEF Init, Idle, ListInv, OneLate, TurnOver, Unlisted, NotReady, LateUnlisted, Listing, Serving
<1>2. TypeOK /\ ControlInv /\ JobsInv /\ ListInv /\ [Next]_vars => ListInv'
  BY OneLateStep, TurnOverStep, UnlistedStep, NotReadyStep, LateUnlistedStep
     DEF ControlInv, JobsInv, ListInv
<1> QED BY <1>1, <1>2, JobsKept, PTL DEF Spec

\* README "Discovery is revoked before draining": the order in which the
\* controller revokes the list and drains the workers withstands any one fault,
\* wherever it strikes and whatever call it leaves behind.
THEOREM DrainedUnlisted == Spec => OneFaultDrainsUnlisted
<1>1. ASSUME TypeOK, ControlInv, JobsInv, ListInv, [Next]_vars,
             NEW h \in Hosts, faults <= 1, Admitted(h), ~Admitted(h)'
      PROVE  h \notin disc \/ Reboot(h)
  <2>1. SUFFICES ASSUME NEW c \in Requests, Ran(c), c.host = h, nodeGen[h] = c.gen,
                        c.act \in {"drain", "stop", "restart"}
                 PROVE  h \notin disc
    BY <1>1, AdmissionMoves DEF ControlInv
  <2>2. CASE c \in late
    BY <1>1, <2>1, <2>2 DEF ListInv, LateUnlisted
  <2>3. CASE h \in op.todo /\ op.pc \in {"drain", "stop", "restart"}
    <3>1. h \in op.hosts /\ op.pc \notin Listing
      BY <1>1, <2>3 DEF ControlInv, StagedOp, Listing
    <3> QED BY <1>1, <3>1 DEF ListInv, Unlisted
  <2> QED BY <1>1, <2>1, <2>2, <2>3, RanCalls DEF ControlInv
<1>2. TypeOK /\ ControlInv /\ JobsInv /\ ListInv /\ [Next]_vars =>
        [\A h \in Hosts : faults <= 1 /\ Admitted(h) /\ ~Admitted(h)' =>
           h \notin disc \/ Reboot(h)]_vars
  BY <1>1
<1> QED BY <1>2, ListKept, PTL DEF Spec, OneFaultDrainsUnlisted
-----------------------------------------------------------------------------
(* Every node keeps the promise of a fenced node towards the controller.   *)

\* The generations of what a node serves, the YuE factory included.
Serves(h) == {k.gen : k \in RunningOn(h)} \cup IF Admitted(h) THEN {yue[h].gen} ELSE {}

Elsewhere(g) == \A h \in Hosts : h # g => Serves(h)' = Serves(h)

\* What a node may do, as steps of the abstract node.
LEMMA NodeIdles ==
    ASSUME nodeGen' = nodeGen, \A h \in Hosts : Serves(h)' = Serves(h)
    PROVE  UNCHANGED Promise!vars
BY DEF Promise!vars, Serves

LEMMA NodeFences ==
    ASSUME NEW g \in Hosts, NEW new \in Generations,
           nodeGen' = [nodeGen EXCEPT ![g] = new], \A h \in Hosts : Serves(h)' = Serves(h)
    PROVE  Promise!Next
<1>1. Promise!Fence(g, new)
  BY DEF Promise!Fence, Serves
<1> QED BY <1>1 DEF Promise!Next

LEMMA NodeStarts ==
    ASSUME NEW g \in Hosts, nodeGen[g] # None, nodeGen' = nodeGen, Elsewhere(g),
           Serves(g)' = Serves(g) \cup {nodeGen[g]}
    PROVE  Promise!Next
<1>1. Promise!Start(g)
  BY DEF Promise!Start, Promise!NoGeneration, None, Elsewhere, Serves
<1> QED BY <1>1 DEF Promise!Next

LEMMA NodeRemoves ==
    ASSUME NEW g \in Hosts, nodeGen[g] # None, nodeGen' = nodeGen, Elsewhere(g),
           Serves(g)' \subseteq Serves(g)
    PROVE  Promise!Next
<1>1. PICK gone \in SUBSET Serves(g) : gone = Serves(g) \ Serves(g)'
  OBVIOUS
<1>2. Serves(g)' = Serves(g) \ gone
  BY <1>1
<1>3. Promise!Remove(g, gone)
  BY <1>2 DEF Promise!Remove, Promise!NoGeneration, None, Elsewhere, Serves
<1> QED BY <1>3 DEF Promise!Next, Serves

LEMMA NodeRestarts ==
    ASSUME NEW g \in Hosts, nodeGen' = nodeGen, Elsewhere(g), Serves(g)' = {}
    PROVE  Promise!Next
<1>1. Promise!Reboot(g)
  BY DEF Promise!Reboot, Elsewhere, Serves
<1> QED BY <1>1 DEF Promise!Next

\* Only a removal names containers.
LateNames == \A c \in late : c.act # "unload" => c.ids = {}

LEMMA LateNamesStep == ASSUME LateNames, [Next]_vars PROVE LateNames'
<1>1. \A h : Call(h).act # "unload" => Call(h).ids = {}
  BY DEF Call
<1> QED BY <1>1, LateMoves DEF LateNames

\* What a call that runs does to its node.
LEMMA RanOn ==
    ASSUME TypeOK, LateNames, NEW c \in Requests, Ran(c)
    PROVE  /\ c.host \in Hosts /\ c.gen \in Generations /\ c.gen # None
           /\ c.act # "fence" => nodeGen' = nodeGen /\ nodeGen[c.host] = c.gen
           /\ c.act = "fence" => nodeGen' = [nodeGen EXCEPT ![c.host] = c.gen]
           /\ Elsewhere(c.host)
           /\ yue'[c.host] = FactoryAfter(yue[c.host], c)
           /\ ctr'[c.host] = ContainersAfter(ctr[c.host], c)
           /\ c.act # "unload" => c.ids = {}
<1>1. c.host \in Hosts /\ c.gen \in Generations /\ c.gen # None /\ Effect(c) /\ Runs(c)
  BY BoundsAssumption DEF Requests, Ran, Generations, None
<1>2. c.act # "unload" => c.ids = {}
  BY DEF Ran, Call, LateNames
<1>3. \A h \in Hosts : h # c.host => ctr'[h] = ctr[h] /\ yue'[h] = yue[h]
  BY <1>1 DEF Effect, TypeOK
<1>4. Elsewhere(c.host)
  BY <1>3 DEF Elsewhere, Serves, RunningOn, Admitted
<1>5. /\ yue'[c.host] = FactoryAfter(yue[c.host], c)
      /\ ctr'[c.host] = ContainersAfter(ctr[c.host], c)
  BY <1>1 DEF Effect, TypeOK
<1> QED BY <1>1, <1>2, <1>4, <1>5 DEF Effect, Runs

\* A worker is admitted again only under the generation it is admitted under.
LEMMA AdmittedOnce ==
    ASSUME TypeOK, ControlInv, NEW c \in Requests, Ran(c), c.act = "admit", Admitted(c.host)
    PROVE  yue[c.host].gen = c.gen
<1>1. c.host \in Hosts /\ nodeGen[c.host] = c.gen
  BY RanCalls DEF ControlInv
<1>2. rec[c.host].allocId = yue[c.host].gen
  BY <1>1 DEF ControlInv, Served, Recorded
<1>3. CASE c \in late
  BY <1>1, <1>2, <1>3 DEF ControlInv, Served, LateRight, Live, Dangerous
<1>4. CASE op.pc = "admit" /\ c.gen = op.gen /\ c.host \in op.todo
  <2>1. c.host \in op.hosts
    BY <1>4 DEF ControlInv, StagedOp
  <2> QED BY <1>2, <1>4, <2>1 DEF ControlInv, Claimed
<1> QED BY <1>3, <1>4, RanCalls DEF ControlInv

LEMMA RanKeepsPromise ==
    ASSUME TypeOK, ControlInv, LateNames, NEW c \in Requests, Ran(c)
    PROVE  Promise!Next
<1> DEFINE g == c.host
           new == [gen |-> c.gen, members |-> c.members, running |-> TRUE]
<1>0. /\ yue[g] \in Factories /\ ctr[g] \in SUBSET Containers /\ g \in Hosts
      /\ yue'[g] = FactoryAfter(yue[g], c)
  BY RanOn DEF TypeOK
<1>1. CASE c.act = "fence"
  <2>1. RunningOn(g)' = RunningOn(g)
    BY <1>1, RanOn DEF ContainersAfter, RunningOn
  <2>2. yue'[g].up = yue[g].up /\ yue'[g].acc = yue[g].acc /\ yue'[g].gen = yue[g].gen
    BY <1>0, <1>1 DEF FactoryAfter, Factories
  <2>3. Serves(g)' = Serves(g)
    BY <2>1, <2>2 DEF Serves, Admitted
  <2> QED BY <1>1, <2>3, RanOn, NodeFences DEF Elsewhere
<1>2. CASE c.act = "launch"
  <2>1. RunningOn(g)' = RunningOn(g) \cup {new}
    <3>1. ctr'[g] = ctr[g] \cup {new}
      BY <1>2, RanOn DEF ContainersAfter
    <3> QED BY <3>1 DEF RunningOn
  <2>2. yue'[g].up = yue[g].up /\ yue'[g].acc = yue[g].acc /\ yue'[g].gen = yue[g].gen
    BY <1>0, <1>2 DEF FactoryAfter, Factories
  <2>3. {k.gen : k \in RunningOn(g)'} = {k.gen : k \in RunningOn(g)} \cup {c.gen}
    <3>1. new.gen = c.gen
      OBVIOUS
    <3> HIDE DEF new
    <3> QED BY <2>1, <3>1
  <2>4. Serves(g)' = Serves(g) \cup {c.gen}
    BY <2>2, <2>3 DEF Serves, Admitted
  <2> QED BY <1>2, <2>4, RanOn, NodeStarts
<1>3. CASE c.act = "admit"
  <2>1. RunningOn(g)' = RunningOn(g)
    BY <1>3, RanOn DEF ContainersAfter, RunningOn
  <2>2. yue'[g].up = yue[g].up /\ yue'[g].acc = yue[g].up /\ yue'[g].gen = c.gen
    BY <1>0, <1>3 DEF FactoryAfter, Factories
  <2>3. CASE yue[g].up
    <3>1. Serves(g)' = {k.gen : k \in RunningOn(g)} \cup {c.gen}
      BY <2>1, <2>2, <2>3 DEF Serves, Admitted
    <3>2. Serves(g)' = Serves(g) \cup {c.gen}
      BY <1>3, <3>1, AdmittedOnce DEF Serves
    <3> QED BY <1>3, <3>2, RanOn, NodeStarts
  <2>4. CASE ~yue[g].up
    <3>1. Serves(g)' = Serves(g)
      BY <2>1, <2>2, <2>4 DEF Serves, Admitted
    <3> QED BY <1>3, <3>1, RanOn, NodeRemoves
  <2> QED BY <2>3, <2>4
<1>4. CASE c.act \notin {"fence", "launch", "admit"}
  <2>1. RunningOn(g)' \subseteq RunningOn(g)
    BY <1>4, RanOn DEF ContainersAfter, RunningOn
  <2>2. Admitted(g)' => Admitted(g) /\ yue'[g].gen = yue[g].gen
    <3>1. /\ yue'[g].gen = yue[g].gen
          /\ yue'[g].up = (c.act = "restart" \/ (yue[g].up /\ c.act # "stop"))
          /\ yue'[g].acc = (yue[g].acc /\ c.act \notin {"drain", "stop", "restart"})
      BY <1>0, <1>4 DEF FactoryAfter
    <3>2. yue[g].acc \in BOOLEAN /\ yue[g].up \in BOOLEAN
      BY <1>0 DEF Factories
    <3> QED BY <3>1, <3>2 DEF Admitted
  <2>3. Serves(g)' \subseteq Serves(g)
    BY <2>1, <2>2 DEF Serves
  <2> QED BY <1>4, <2>3, RanOn, NodeRemoves
<1> QED BY <1>1, <1>2, <1>3, <1>4

LEMMA StopsKeepPromise ==
    ASSUME TypeOK, ControlInv, NEW g \in Hosts
    PROVE  ContainerExits(g) \/ Reboot(g) => Promise!Next
<1>0. yue[g] \in Factories /\ ctr[g] \in SUBSET Containers
  BY DEF TypeOK
<1>1. ASSUME nodeGen' = nodeGen,
             ctr' = [ctr EXCEPT ![g] = {[k EXCEPT !.running = FALSE] : k \in @}],
             ~Admitted(g)', \A h \in Hosts : h # g => yue'[h] = yue[h]
      PROVE  Promise!Next
  <2>1. RunningOn(g)' = {}
    <3>1. \A k \in ctr[g] : ~[k EXCEPT !.running = FALSE].running
      BY <1>0 DEF Containers
    <3> QED BY <1>1, <3>1 DEF TypeOK, RunningOn
  <2>2. Serves(g)' = {}
    BY <1>1, <2>1 DEF Serves
  <2>3. Elsewhere(g)
    BY <1>1 DEF Elsewhere, Serves, RunningOn, Admitted, TypeOK
  <2> QED BY <1>1, <2>2, <2>3, NodeRestarts
<1>2. CASE ContainerExits(g)
  <2>1. /\ nodeGen' = nodeGen /\ yue' = yue /\ RunningOn(g) # {}
        /\ ctr' = [ctr EXCEPT ![g] = {[k EXCEPT !.running = FALSE] : k \in @}]
    BY <1>2 DEF ContainerExits, RunningOn
  <2>2. ~Admitted(g)'
    BY <2>1 DEF ControlInv, Served, OneWorkloadPerNode, Admitted
  <2> QED BY <1>1, <2>1, <2>2
<1>3. CASE Reboot(g)
  <2>1. PICK up \in BOOLEAN :
          yue' = [yue EXCEPT ![g] = [@ EXCEPT !.up = up, !.acc = FALSE, !.job = FALSE]]
    BY Zenon, <1>3 DEF Reboot
  <2>2. ~yue'[g].acc /\ \A h \in Hosts : h # g => yue'[h] = yue[h]
    BY <1>0, <2>1 DEF TypeOK, Factories
  <2>3. /\ nodeGen' = nodeGen
        /\ ctr' = [ctr EXCEPT ![g] = {[k EXCEPT !.running = FALSE] : k \in @}]
    BY <1>3 DEF Reboot
  <2> QED BY <1>1, <2>2, <2>3 DEF Admitted
<1> QED BY <1>2, <1>3

LEMMA PromiseStep ==
    ASSUME TypeOK, ControlInv, LateNames, [Next]_vars PROVE [Promise!Next]_(Promise!vars)
<1>1. ASSUME UNCHANGED <<nodeGen, ctr, yue>> PROVE UNCHANGED Promise!vars
  BY <1>1, NodeIdles DEF Serves, RunningOn, Admitted
<1>2. ASSUME NEW h \in Hosts, JobArrives(h) \/ JobDone(h) PROVE UNCHANGED Promise!vars
  <2>1. /\ UNCHANGED <<nodeGen, ctr>>
        /\ \E job \in BOOLEAN : yue' = [yue EXCEPT ![h].job = job]
    BY <1>2 DEF JobArrives, JobDone
  <2>2. \A g \in Hosts : yue'[g].up = yue[g].up /\ yue'[g].acc = yue[g].acc
                         /\ yue'[g].gen = yue[g].gen
    BY <2>1 DEF TypeOK, Factories
  <2> QED BY <2>1, <2>2, NodeIdles DEF Serves, RunningOn, Admitted
<1>3. ASSUME NEW h \in Hosts, LaunchDies(h) PROVE UNCHANGED Promise!vars
  <2> DEFINE dead == [gen |-> op.gen, members |-> op.hosts, running |-> FALSE]
  <2>1. ctr' = [ctr EXCEPT ![h] = @ \cup {dead}] /\ UNCHANGED <<nodeGen, yue>>
    BY <1>3 DEF LaunchDies
  <2>2. \A g \in Hosts : \A k : k \in ctr'[g] /\ k.running <=> k \in ctr[g] /\ k.running
    BY <2>1 DEF TypeOK
  <2>3. \A g \in Hosts : RunningOn(g)' = RunningOn(g)
    BY <2>2 DEF RunningOn
  <2> QED BY <2>1, <2>3, NodeIdles DEF Serves, Admitted
<1>4. ASSUME NEW c \in late, LateRuns(c)
      PROVE  UNCHANGED <<nodeGen, ctr, yue>> \/ \E d \in Requests : Ran(d)
  <2>1. CASE Runs(c)
    BY <1>4, <2>1, LateTyped DEF LateRuns, Ran
  <2>2. CASE ~Runs(c)
    BY <1>4, <2>2 DEF LateRuns, node
  <2> QED BY <2>1, <2>2
<1>5. ASSUME NEW h \in Hosts, CallRuns(h) PROVE \E d \in Requests : Ran(d)
  BY <1>5, CallTyped, NextHostIsDue DEF CallRuns, Ran, ControlInv
<1>6. CASE \/ UNCHANGED vars \/ Begin \/ Reconcile
           \/ CheckScope \/ Mark \/ RevokeDiscovery \/ Jobs \/ Stopping \/ Release
           \/ Claim \/ ReadyYue \/ Publish \/ ReadyModel \/ ReadyFails \/ Return
           \/ Undo \/ Fail \/ Clear \/ Interrupt \/ UndoUnrevoked \/ Crash
           \/ \E h \in Hosts : \/ CallRefused(h) \/ AuditHost(h) \/ CallFails(h)
                               \/ Foreign(h) \/ ForeignEnds(h)
  <2> DEFINE Stays == nodeGen' = nodeGen /\ ctr' = ctr /\ yue' = yue
  <2>1. ASSUME \/ UNCHANGED vars \/ Begin \/ Reconcile
              \/ CheckScope \/ Mark \/ RevokeDiscovery \/ Jobs \/ Stopping \/ Release
              \/ Claim \/ ReadyYue \/ Publish \/ ReadyModel \/ ReadyFails \/ Return
              \/ Undo \/ Fail \/ Clear
        PROVE  Stays
    BY <2>1 DEF vars, Begin, Reconcile, CheckScope, Mark, RevokeDiscovery, Jobs, Stopping,
       Release, Claim, ReadyYue, Publish, ReadyModel, ReadyFails, Return, Undo, Fail, Clear,
       Local, node
  <2>2. ASSUME Interrupt \/ UndoUnrevoked \/ Crash PROVE Stays
    BY <2>2 DEF Interrupt, UndoUnrevoked, Crash, node
  <2>3. ASSUME NEW h \in Hosts, \/ CallRefused(h) \/ AuditHost(h) \/ CallFails(h)
                                \/ Foreign(h) \/ ForeignEnds(h)
        PROVE  Stays
    BY <2>3 DEF CallRefused, AuditHost, CallFails, Foreign, ForeignEnds, Local, node
  <2> QED BY <1>1, <1>6, <2>1, <2>2, <2>3
<1> QED BY <1>1, <1>2, <1>3, <1>4, <1>5, <1>6, RanKeepsPromise, StopsKeepPromise
        DEF Next, Proceed

\* Through every transition, undo, crash and late call, what the controller does
\* to a node is what FencedNode allows: the generation that node.json names, and
\* no other, starts and removes what the node serves.
THEOREM NodesAreFenced == Spec => RespectsFencedNode
<1>1. Init => Promise!Init /\ LateNames
  <2> SUFFICES ASSUME Init PROVE Promise!Init /\ LateNames
    OBVIOUS
  <2>1. \A h \in Hosts : Serves(h) \subseteq {None}
    BY DEF Init, Serves, RunningOn, Admitted
  <2>2. \A h \in Hosts : nodeGen[h] = None
    BY DEF Init
  <2> QED BY <2>1, <2>2 DEF Init, Promise!Init, Promise!NoGeneration, None, Serves, LateNames
<1>2. TypeOK /\ ControlInv /\ LateNames /\ [Next]_vars => LateNames'
  BY LateNamesStep
<1>3. TypeOK /\ ControlInv /\ LateNames /\ [Next]_vars => [Promise!Next]_(Promise!vars)
  BY PromiseStep
<1> QED BY <1>1, <1>2, <1>3, Controlled, PTL DEF Spec, RespectsFencedNode, Promise!Spec
=============================================================================

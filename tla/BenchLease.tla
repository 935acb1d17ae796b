----------------------------- MODULE BenchLease -----------------------------
(***************************************************************************)
(* Benchmark leases, spark_serve_benchmarks.py and ADR 0008.               *)
(*                                                                         *)
(* A benchmark is admitted under controller.lock and then runs without it: *)
(* it keeps a file lock of its own and a lease file that names its hosts.  *)
(* A transition that wants those hosts marks the lease revoked, waits up   *)
(* to five seconds for the file lock and only then changes anything.       *)
(* Admission, which holds controller.lock throughout, is one step; so is   *)
(* the rest of a transition once the leases of its hosts are gone          *)
(* (Controller has its stages).  Lease files are replaced atomically.      *)
(***************************************************************************)
EXTENDS Naturals, FiniteSets, FiniteSetsExt

CONSTANTS Hosts,           \* the Sparks
          Served,          \* the sets of Sparks a model may be served on at first
          Runs,            \* identities of benchmark runs
          Threads,         \* request threads of a run (its concurrency)
          MaxTransitions,  \* bound on the number of transitions
          MaxBreaks,       \* bound on the signals and failed outputs of all runs
          MacSleeps        \* does the Mac sleep while a benchmark runs?

ASSUME ServedAssumption == Served \subseteq SUBSET Hosts
ASSUME MaxTransitionsAssumption == MaxTransitions \in Nat \ {0}
ASSUME MaxBreaksAssumption == MaxBreaks \in Nat
ASSUME MacSleepsAssumption == MacSleeps \in BOOLEAN

VARIABLES
    op,      \* the transition or cancellation that holds controller.lock
    last,    \* the number of transitions begun, the first before Init
    alloc,   \* alloc[h]: the ready allocation controller.json records for h
    run,     \* run[r]: the main thread of run r
    thread,  \* thread[r][t]: how far a request thread is with its request
    held,    \* held[r]: the file lock of r is held
    lease,   \* lease[r]: the lease file of r
    expired  \* expired[r]: the wall clock is past expires_at of that file

vars == <<op, last, alloc, run, thread, held, lease, expired>>
client == <<run, thread, held>>
transition == <<op, last, alloc>>

None == 0
Ids == 1..MaxTransitions
Allocations == [id : Ids \cup {None}, members : SUBSET Hosts]
Free == [id |-> None, members |-> {}]

Idle == [pc |-> "idle", kind |-> "cancel", hosts |-> {},
         todo |-> {}, saving |-> {}, pending |-> {}]

Operations == [pc : {"idle", "mark", "wait", "change"},
               kind : {"switch", "cancel"}, hosts : SUBSET Hosts,
               todo : SUBSET Runs, saving : SUBSET Runs, pending : SUBSET Runs]

Mains == [st : {"new", "running", "joining", "released", "ended"},
          scope : Allocations, invalid : BOOLEAN,
          breaks : Nat]

TypeOK ==
    /\ op \in Operations
    /\ last \in Ids \cup {None}
    /\ alloc \in [Hosts -> Allocations]
    /\ run \in [Runs -> Mains]
    /\ thread \in [Runs -> [Threads -> {"idle", "checked", "inflight"}]]
    /\ held \in [Runs -> BOOLEAN]
    /\ lease \in [Runs -> {"absent", "active", "revoked"}]
    /\ expired \in [Runs -> BOOLEAN]

\* A model is served on some of the hosts, by transition 1.
Init ==
    /\ op = Idle
    /\ last = 1
    /\ \E ms \in Served :
         alloc = [h \in Hosts |-> IF h \in ms THEN [id |-> 1, members |-> ms] ELSE Free]
    /\ run = [r \in Runs |-> [st |-> "new", scope |-> Free, invalid |-> FALSE,
                              breaks |-> 0]]
    /\ thread = [r \in Runs |-> [t \in Threads |-> "idle"]]
    /\ held = [r \in Runs |-> FALSE]
    /\ lease = [r \in Runs |-> "absent"]
    /\ expired = [r \in Runs |-> FALSE]

Covers(r, hosts) == run[r].scope.members \cap hosts # {}
Live(r) == run[r].st \in {"running", "joining"}

-----------------------------------------------------------------------------
(* A benchmark run.                                                        *)

Start(r, a) ==
    /\ run' = [run EXCEPT ![r].st = "running", ![r].scope = a]
    /\ held' = [held EXCEPT ![r] = TRUE]
    /\ lease' = [lease EXCEPT ![r] = "active"]
    /\ UNCHANGED <<transition, thread, expired>>

\* Mutant: a lease that was revoked no longer stands in the way.
AdmitOverRevoked(r) ==
    /\ op = Idle
    /\ run[r].st = "new"
    /\ \E h \in Hosts :
         /\ alloc[h].id # None
         /\ \A q \in Runs : lease[q] = "active" /\ Covers(q, alloc[h].members) => expired[q]
         /\ Start(r, alloc[h])

\* run_benchmark under controller.lock: a ready allocation is recorded and no
\* unexpired lease, revoked or not, covers a host of it.
Admit(r) ==
    /\ op = Idle
    /\ run[r].st = "new"
    /\ \E h \in Hosts :
         /\ alloc[h].id # None
         /\ \A q \in Runs : lease[q] # "absent" /\ Covers(q, alloc[h].members) => expired[q]
         /\ Start(r, alloc[h])

\* _owner_identity: controller.json still records the allocation of r.
Owned(r) == \A h \in run[r].scope.members : alloc[h] = run[r].scope

\* Mutant: the lease file is not read again.
MayGoOnUnread(r) == ~run[r].invalid /\ Owned(r)

\* check, which every request makes before it connects and while it reads.
MayGoOn(r) ==
    /\ ~run[r].invalid
    /\ lease[r] = "active"
    /\ Owned(r)

Move(r, t, from, to) ==
    /\ thread[r][t] = from
    /\ thread' = [thread EXCEPT ![r][t] = to]
    /\ UNCHANGED <<transition, run, held, lease, expired>>

\* Threads of the pool are at work: also behind a join that was broken off.
Working(r) == Live(r) \/ (run[r].st = "released" /\ run[r].breaks > 1)

\* The last check before the request.
Check(r, t) == Working(r) /\ MayGoOn(r) /\ Move(r, t, "idle", "checked")

\* conn.request: what happened since the check is noticed only by the watcher.
Post(r, t) == Move(r, t, "checked", "inflight")

\* The answer is complete, or the watcher has shut the transport down.
EndRequest(r, t) == Move(r, t, "inflight", "idle")

Quiet(r) == \A t \in Threads : thread[r][t] = "idle"

\* Mutant: the pool is left without waiting for its threads.
ReleaseUnjoined(r) ==
    /\ Live(r)
    /\ run' = [run EXCEPT ![r].st = "released"]
    /\ held' = [held EXCEPT ![r] = FALSE]
    /\ UNCHANGED <<transition, thread, lease, expired>>

\* The pool has joined its threads and the history is saved: LOCK_UN.
Release(r) ==
    /\ Live(r)
    /\ Quiet(r)
    /\ run' = [run EXCEPT ![r].st = "released"]
    /\ held' = [held EXCEPT ![r] = FALSE]
    /\ UNCHANGED <<transition, thread, lease, expired>>

\* The lease file is removed and the process ends, with what it remembers.
Unlink(r) ==
    /\ run[r].st = "released"
    /\ run' = [run EXCEPT ![r].st = "ended", ![r].invalid = FALSE]
    /\ lease' = [lease EXCEPT ![r] = "absent"]
    /\ expired' = [expired EXCEPT ![r] = FALSE]
    /\ UNCHANGED <<transition, thread, held>>

\* One more signal or failed output.
Break == MapThenSumSet(LAMBDA r : run[r].breaks, Runs) < MaxBreaks

\* A KeyboardInterrupt in the main thread: while it collects results, or just
\* before, when the run is not marked invalid.
Interrupt(r) ==
    /\ run[r].st = "running"
    /\ Break
    /\ \E invalid \in {run[r].invalid, TRUE} :
         run' = [run EXCEPT ![r].st = "joining", ![r].invalid = invalid,
                            ![r].breaks = @ + 1]
    /\ UNCHANGED <<transition, thread, held, lease, expired>>

\* emit raises: whoever read the progress events is gone, or does not read.
OutputFails(r) ==
    /\ run[r].st = "running"
    /\ Break
    /\ run' = [run EXCEPT ![r].st = "joining", ![r].invalid = TRUE,
                          ![r].breaks = @ + 1]
    /\ UNCHANGED <<transition, thread, held, lease, expired>>

\* A signal while the pool joins its threads, the second one or the first
\* after a failed output, ends the join.
InterruptJoin(r) ==
    /\ run[r].st = "joining"
    /\ Break
    /\ run' = [run EXCEPT ![r].st = "released", ![r].breaks = @ + 1]
    /\ held' = [held EXCEPT ![r] = FALSE]
    /\ UNCHANGED <<transition, thread, lease, expired>>

\* Mutant: the run ends in a state of its own instead of being marked invalid.
ObserveStops(r) ==
    /\ run[r].st = "running"
    /\ run' = [run EXCEPT ![r].st = "invalid"]
    /\ UNCHANGED <<transition, thread, held, lease, expired>>

\* observe: the serving identity changed or could not be verified.
Observe(r) ==
    /\ run[r].st = "running"
    /\ run' = [run EXCEPT ![r].invalid = TRUE]
    /\ UNCHANGED <<transition, thread, held, lease, expired>>

\* The process is killed: its lock is released, its lease file stays.
Kill(r) ==
    /\ run[r].st \in {"running", "joining", "released"}
    /\ Break
    /\ run' = [run EXCEPT ![r].st = "ended", ![r].invalid = FALSE, ![r].breaks = @ + 1]
    /\ thread' = [thread EXCEPT ![r] = [t \in Threads |-> "idle"]]
    /\ held' = [held EXCEPT ![r] = FALSE]
    /\ UNCHANGED <<transition, lease, expired>>

\* time.monotonic() passes the deadline of the run: check raises from now on,
\* as it does once the run is marked invalid.
Deadline(r) ==
    /\ Live(r) /\ ~run[r].invalid
    /\ run' = [run EXCEPT ![r].invalid = TRUE]
    /\ UNCHANGED <<transition, thread, held, lease, expired>>

\* time.time() passes expires_at, five seconds after that deadline: enough for
\* a run to end, unless the Mac slept and the monotonic clock with it.
Expire(r) ==
    /\ lease[r] # "absent" /\ ~expired[r]
    /\ held[r] => MacSleeps
    /\ expired' = [expired EXCEPT ![r] = TRUE]
    /\ UNCHANGED <<transition, client, lease>>

-----------------------------------------------------------------------------
(* A transition, or an explicit cancellation.                              *)

\* A transition of one host does not split an allocation of both.
Begin ==
    /\ op = Idle
    /\ \E hs \in (SUBSET Hosts) \ {{}}, kind \in {"switch", "cancel"} :
         /\ kind = "switch" =>
              last < MaxTransitions /\ \A h \in hs : alloc[h].members \subseteq hs
         /\ last' = IF kind = "switch" THEN last + 1 ELSE last
         /\ op' = [Idle EXCEPT !.pc = "mark", !.kind = kind, !.hosts = hs,
                               !.todo = {r \in Runs : lease[r] # "absent"}]
    /\ UNCHANGED <<alloc, client, lease, expired>>

\* Mutant: a lease that is revoked already is not waited for.
ReadLeaseOnce(r) ==
    /\ op.pc = "mark" /\ op.saving = {} /\ r \in op.todo
    /\ LET mine == lease[r] = "active" /\ Covers(r, op.hosts)
       IN  op' = [op EXCEPT !.todo = @ \ {r},
                            !.saving = IF mine THEN {r} ELSE {},
                            !.pending = IF mine THEN @ \cup {r} ELSE @]
    /\ UNCHANGED <<last, alloc, client, lease, expired>>

\* The next lease file of the directory listing, if it is still there.
ReadLease(r) ==
    /\ op.pc = "mark" /\ op.saving = {} /\ r \in op.todo
    /\ LET mine == lease[r] # "absent" /\ Covers(r, op.hosts)
       IN  op' = [op EXCEPT !.todo = @ \ {r},
                            !.saving = IF mine /\ lease[r] = "active" THEN {r} ELSE {},
                            !.pending = IF mine THEN @ \cup {r} ELSE @]
    /\ UNCHANGED <<last, alloc, client, lease, expired>>

\* The file is written although its run may have ended and removed it.
SaveRevoked(r) ==
    /\ op.pc = "mark" /\ r \in op.saving
    /\ lease' = [lease EXCEPT ![r] = "revoked"]
    /\ op' = [op EXCEPT !.saving = {}]
    /\ UNCHANGED <<last, alloc, client, expired>>

Marked ==
    /\ op.pc = "mark" /\ op.todo = {} /\ op.saving = {}
    /\ op' = [op EXCEPT !.pc = "wait"]
    /\ UNCHANGED <<last, alloc, client, lease, expired>>

\* Mutant: the run is not waited for.
AcknowledgeUnheld(r) ==
    /\ op.pc = "wait" /\ r \in op.pending
    /\ lease' = [lease EXCEPT ![r] = "absent"]
    /\ op' = [op EXCEPT !.pending = @ \ {r}]
    /\ UNCHANGED <<last, alloc, client, expired>>

\* The file lock of r is free: its lease is removed.
Acknowledge(r) ==
    /\ op.pc = "wait" /\ r \in op.pending
    /\ ~held[r]
    /\ lease' = [lease EXCEPT ![r] = "absent"]
    /\ expired' = [expired EXCEPT ![r] = FALSE]
    /\ op' = [op EXCEPT !.pending = @ \ {r}]
    /\ UNCHANGED <<last, alloc, client>>

\* "benchmark did not acknowledge cancellation; retry after it exits"
TimeOut ==
    /\ op.pc = "wait"
    /\ \E r \in op.pending : held[r]
    /\ op' = Idle
    /\ UNCHANGED <<last, alloc, client, lease, expired>>

\* Every lease is gone: a cancellation is over, a transition drains its hosts.
Proceed ==
    /\ op.pc = "wait" /\ op.pending = {}
    /\ IF op.kind = "cancel" THEN op' = Idle /\ UNCHANGED alloc
       ELSE /\ op' = [op EXCEPT !.pc = "change"]
            /\ alloc' = [h \in Hosts |-> IF h \in op.hosts THEN Free ELSE alloc[h]]
    /\ UNCHANGED <<last, client, lease, expired>>

\* The transition ends: nothing is served on its hosts, or a new allocation.
Finish ==
    /\ op.pc = "change"
    /\ \E ms \in {{}, op.hosts} \cup {{h} : h \in op.hosts} :
         alloc' = [h \in Hosts |-> IF h \in ms THEN [id |-> last, members |-> ms]
                                   ELSE alloc[h]]
    /\ op' = Idle
    /\ UNCHANGED <<last, client, lease, expired>>

\* The process is killed.
Die ==
    /\ op # Idle
    /\ op' = Idle
    /\ UNCHANGED <<last, alloc, client, lease, expired>>

-----------------------------------------------------------------------------
Request(r) == \E t \in Threads : Post(r, t) \/ EndRequest(r, t)

Benchmark(r) ==
    \/ Admit(r) \/ Release(r) \/ Unlink(r)
    \/ Interrupt(r) \/ OutputFails(r) \/ InterruptJoin(r) \/ Kill(r)
    \/ Observe(r) \/ Deadline(r) \/ Expire(r)
    \/ Request(r)
    \/ \E t \in Threads : Check(r, t)

Transition ==
    \/ Marked \/ TimeOut \/ Proceed \/ Finish
    \/ \E r \in Runs : ReadLease(r) \/ SaveRevoked(r) \/ Acknowledge(r)

Next ==
    \/ \E r \in Runs : Benchmark(r)
    \/ Begin \/ Transition \/ Die

Spec == Init /\ [][Next]_vars

\* Requests, their connections and the join of the pool have deadlines.
FairSpec == Spec /\ \A r \in Runs : WF_vars(Request(r)) /\ WF_vars(Release(r))

-----------------------------------------------------------------------------
(* Properties                                                              *)

\* native-observability.md "A benchmark leases all participating hosts": two
\* runs never hold leases that share a Spark, revoked ones included.
OneBenchmarkPerHost ==
    \A r, q \in Runs : r # q /\ held[r] /\ held[q] => ~Covers(q, run[r].scope.members)

\* ADR 0008 "await client acknowledgement before changing workloads": a request
\* that has passed its last check, or is on the wire, is for an allocation that
\* controller.json still records, if nothing broke into the join of its run
\* (at most one signal or failed output).
RequestsMeetTheirAllocation ==
    \A r \in Runs : ~Quiet(r) /\ run[r].breaks <= 1 => Owned(r)

\* A transition that changes its hosts has left no lease of them behind, also
\* when runs end, die or remove their files while it works through them.
RevocationIsComplete ==
    op.pc = "change" => \A r \in Runs : Covers(r, op.hosts) => lease[r] = "absent"

\* "A released lock proves no client request can still launch from this unique
\* lease": for runs that met at most one signal, kill or failed output.
ReleasedOnceMeansQuiet ==
    \A r \in Runs : ~held[r] /\ run[r].breaks <= 1 => Quiet(r)

\* The lease files, the file locks and the clocks keep the promise of
\* SharedSparks, that one run or one transition has a Spark.  A run that met a
\* second signal or failed output counts as gone.
Sharing == INSTANCE SharedSparks WITH
    Sparks <- Hosts,
    record <- alloc,
    grant <- [r \in Runs |-> IF held[r] THEN run[r].scope ELSE Free],
    posting <- {r \in Runs : ~Quiet(r) /\ run[r].breaks <= 1},
    changing <- IF op.pc = "change" THEN op.hosts ELSE {}

ImplementsSharedSparks == Sharing!Spec

\* A revoked run lets its file lock go: a retried transition gets its hosts.
RevokedRunEnds ==
    \A r \in Runs : lease[r] = "revoked" /\ held[r] ~> ~held[r]
=============================================================================

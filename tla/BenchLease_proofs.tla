-------------------------- MODULE BenchLease_proofs --------------------------
(* What holds of BenchLease for any Sparks, runs, threads, transitions,    *)
(* signals and failed outputs.                                             *)
EXTENDS BenchLease, TLAPS

\* The life of a run: what its main thread says of its lock, its lease, its
\* threads and its interrupts.
RunIsWhole(r) ==
    /\ held[r] <=> Live(r)
    /\ held[r] => lease[r] # "absent"
    /\ run[r].st = "new" =>
         lease[r] = "absent" /\ ~expired[r] /\ Quiet(r) /\ run[r].breaks = 0
    /\ run[r].st = "joining" => run[r].breaks >= 1
    /\ ~MacSleeps /\ held[r] => ~expired[r]
    /\ ~held[r] /\ run[r].breaks <= 1 => Quiet(r)

RunsAreWhole == \A r \in Runs : RunIsWhole(r)

\* The transition knows every lease of its hosts that is left, and nothing of
\* runs that are not admitted yet.
Known == op.todo \cup op.saving \cup op.pending

LeasesAreKnown ==
    /\ \A r \in Known : run[r].st # "new"
    /\ op.saving \subseteq op.pending
    /\ op.pc = "idle" => op = Idle
    /\ op.pc = "wait" => op.todo = {} /\ op.saving = {}
    /\ op.pc \in {"mark", "wait"} =>
         \A r \in Runs : Covers(r, op.hosts) /\ lease[r] # "absent" => r \in Known

LeaseInv ==
    /\ TypeOK /\ RunsAreWhole /\ LeasesAreKnown
    /\ RevocationIsComplete /\ RequestsMeetTheirAllocation

\* A failed output does to a run what a signal does.
LEMMA FailureInterrupts ==
    ASSUME NEW r \in Runs, OutputFails(r) PROVE Interrupt(r)
BY DEF OutputFails, Interrupt

\* Next, action by action.
LEMMA NextCases ==
    ASSUME Next
    PROVE  \/ \E r \in Runs : \/ Admit(r) \/ Release(r) \/ Unlink(r) \/ Interrupt(r)
                              \/ InterruptJoin(r) \/ Observe(r) \/ Kill(r) \/ Deadline(r)
                              \/ Expire(r) \/ ReadLease(r) \/ SaveRevoked(r) \/ Acknowledge(r)
           \/ \E r \in Runs, t \in Threads : Post(r, t) \/ EndRequest(r, t) \/ Check(r, t)
           \/ Begin \/ Marked \/ TimeOut \/ Proceed \/ Finish \/ Die
BY FailureInterrupts DEF Next, Benchmark, Request, Transition

LEMMA TypeStep ==
    ASSUME TypeOK, [Next]_vars PROVE TypeOK'
<1> USE MaxTransitionsAssumption
    DEF TypeOK, Operations, Mains, Allocations, Ids, None, Free, Idle, client, transition, Move
<1>0. CASE UNCHANGED vars  BY <1>0 DEF vars
<1>1. ASSUME NEW r \in Runs, Admit(r) PROVE TypeOK'
  <2>1. run[r] \in Mains  OBVIOUS
  <2>2. PICK h \in Hosts : Start(r, alloc[h])
    BY <1>1 DEF Admit
  <2>3. alloc[h] \in Allocations  OBVIOUS
  <2>4. run' \in [Runs -> Mains]
    BY <2>1, <2>2, <2>3 DEF Start
  <2> QED BY <1>1, <2>2, <2>4 DEF Admit, Start
<1>2. ASSUME NEW r \in Runs, Release(r) PROVE TypeOK'
  <2>1. run[r] \in Mains  OBVIOUS
  <2>2. run' \in [Runs -> Mains]
    BY <1>2, <2>1 DEF Release
  <2> QED BY <1>2, <2>2 DEF Release
<1>3. ASSUME NEW r \in Runs, Unlink(r) PROVE TypeOK'
  <2>1. run[r] \in Mains  OBVIOUS
  <2>2. run' \in [Runs -> Mains]
    BY <1>3, <2>1 DEF Unlink
  <2> QED BY <1>3, <2>2 DEF Unlink
<1>4. ASSUME NEW r \in Runs, Interrupt(r) PROVE TypeOK'
  <2>1. run[r] \in Mains  OBVIOUS
  <2>2. run[r].breaks + 1 \in Nat  BY <2>1
  <2>3. PICK invalid \in BOOLEAN :
             run' = [run EXCEPT ![r].st = "joining", ![r].invalid = invalid,
                                ![r].breaks = @ + 1]
    BY <1>4, <2>1 DEF Interrupt
  <2>4. run' \in [Runs -> Mains]
    BY <2>1, <2>2, <2>3
  <2> QED BY <1>4, <2>4 DEF Interrupt
<1>5. ASSUME NEW r \in Runs, InterruptJoin(r) PROVE TypeOK'
  <2>1. run[r] \in Mains  OBVIOUS
  <2>2. run[r].breaks + 1 \in Nat  BY <2>1
  <2>3. run' \in [Runs -> Mains]
    BY <1>5, <2>1, <2>2 DEF InterruptJoin
  <2> QED BY <1>5, <2>3 DEF InterruptJoin
<1>6. ASSUME NEW r \in Runs, Observe(r) PROVE TypeOK'
  <2>1. run[r] \in Mains  OBVIOUS
  <2>2. run' \in [Runs -> Mains]
    BY <1>6, <2>1 DEF Observe
  <2> QED BY <1>6, <2>2 DEF Observe
<1>7. ASSUME NEW r \in Runs, Kill(r) PROVE TypeOK'
  <2>1. run[r] \in Mains  OBVIOUS
  <2>2. run[r].breaks + 1 \in Nat  BY <2>1
  <2>3. run' \in [Runs -> Mains]
    BY <1>7, <2>1, <2>2 DEF Kill
  <2> QED BY <1>7, <2>3 DEF Kill
<1>8. ASSUME NEW r \in Runs, Deadline(r) PROVE TypeOK'
  <2>1. run[r] \in Mains  OBVIOUS
  <2>2. run' \in [Runs -> Mains]
    BY <1>8, <2>1 DEF Deadline
  <2> QED BY <1>8, <2>2 DEF Deadline
<1>9. ASSUME NEW r \in Runs, Expire(r) PROVE TypeOK'
  BY <1>9 DEF Expire
<1>10. ASSUME NEW r \in Runs, ReadLease(r) PROVE TypeOK'
  BY <1>10 DEF ReadLease
<1>11. ASSUME NEW r \in Runs, SaveRevoked(r) PROVE TypeOK'
  BY <1>11 DEF SaveRevoked
<1>12. ASSUME NEW r \in Runs, Acknowledge(r) PROVE TypeOK'
  BY <1>12 DEF Acknowledge
<1>13. ASSUME NEW r \in Runs, NEW t \in Threads, Post(r, t) \/ EndRequest(r, t) \/ Check(r, t)
       PROVE  TypeOK'
  <2>1. PICK to \in {"idle", "checked", "inflight"} :
               /\ thread' = [thread EXCEPT ![r][t] = to]
               /\ UNCHANGED <<transition, run, held, lease, expired>>
    BY <1>13 DEF Post, EndRequest, Check
  <2>2. thread' \in [Runs -> [Threads -> {"idle", "checked", "inflight"}]]
    BY <2>1
  <2> QED BY <2>1, <2>2
<1>14. CASE Begin
  <2>1. op' \in Operations
    <3>1. PICK hs \in SUBSET Hosts, kind \in {"switch", "cancel"} :
                op' = [Idle EXCEPT !.pc = "mark", !.kind = kind, !.hosts = hs,
                                   !.todo = {r \in Runs : lease[r] # "absent"}]
      BY <1>14 DEF Begin
    <3>2. op' = [pc |-> "mark", kind |-> kind, hosts |-> hs, saving |-> {}, pending |-> {},
                 todo |-> {r \in Runs : lease[r] # "absent"}]
      BY <3>1
    <3> HIDE DEF Idle
    <3> QED BY <3>2
  <2>2. last' \in Ids \cup {None}
    BY <1>14 DEF Begin
  <2> QED BY <1>14, <2>1, <2>2 DEF Begin
<1>15. CASE Marked
  BY <1>15 DEF Marked
<1>18. CASE TimeOut \/ Die
  BY <1>18 DEF TimeOut, Die
<1>16. CASE Proceed
  BY SMTT(30), <1>16 DEF Proceed
<1>17. CASE Finish
  BY <1>17 DEF Finish
<1> QED BY NextCases, <1>0, <1>1, <1>2, <1>3, <1>4, <1>5, <1>6, <1>7, <1>8, <1>9, <1>10,
           <1>11, <1>12, <1>13, <1>14, <1>15, <1>16, <1>17, <1>18

(* Every reachable state is well typed.                                    *)
THEOREM TypeCorrect == Spec => []TypeOK
<1>1. Init => TypeOK
  BY MaxTransitionsAssumption, ServedAssumption
     DEF Init, TypeOK, Operations, Mains, Allocations, Ids, None, Free, Idle
<1>2. TypeOK /\ [Next]_vars => TypeOK'
  BY TypeStep
<1> QED BY <1>1, <1>2, PTL DEF Spec

LEMMA WholeStep ==
    ASSUME TypeOK, RunsAreWhole, LeasesAreKnown, [Next]_vars PROVE RunsAreWhole'
<1> USE DEF TypeOK, Mains, RunsAreWhole, RunIsWhole, Live, Quiet, Idle, client, transition
<1>0. CASE UNCHANGED vars
  BY <1>0 DEF vars
<1>1. ASSUME NEW r \in Runs, Admit(r) PROVE RunsAreWhole'
  BY <1>1 DEF Admit, Start
<1>2. ASSUME NEW r \in Runs, Release(r) PROVE RunsAreWhole'
  BY <1>2 DEF Release
<1>3. ASSUME NEW r \in Runs, Unlink(r) PROVE RunsAreWhole'
  BY <1>3 DEF Unlink
<1>4. ASSUME NEW r \in Runs, Interrupt(r) PROVE RunsAreWhole'
  BY <1>4 DEF Interrupt
<1>5. ASSUME NEW r \in Runs, InterruptJoin(r) PROVE RunsAreWhole'
  BY <1>5 DEF InterruptJoin
<1>6. ASSUME NEW r \in Runs, Observe(r) PROVE RunsAreWhole'
  BY <1>6 DEF Observe
<1>7. ASSUME NEW r \in Runs, Kill(r) PROVE RunsAreWhole'
  BY <1>7 DEF Kill
<1>8. ASSUME NEW r \in Runs, Deadline(r) PROVE RunsAreWhole'
  BY <1>8 DEF Deadline
<1>9. ASSUME NEW r \in Runs, Expire(r) PROVE RunsAreWhole'
  BY <1>9 DEF Expire
<1>10. ASSUME NEW r \in Runs, ReadLease(r) PROVE RunsAreWhole'
  BY <1>10 DEF ReadLease
<1>11. ASSUME NEW r \in Runs, SaveRevoked(r) PROVE RunsAreWhole'
  BY <1>11 DEF SaveRevoked, LeasesAreKnown, Known
<1>12. ASSUME NEW r \in Runs, Acknowledge(r) PROVE RunsAreWhole'
  BY SMTT(30), <1>12 DEF Acknowledge
<1>13. ASSUME NEW r \in Runs, NEW t \in Threads, Post(r, t) \/ EndRequest(r, t) \/ Check(r, t)
       PROVE  RunsAreWhole'
  <2>1. PICK from \in {"idle", "checked", "inflight"}, to \in {"idle", "checked", "inflight"} :
               /\ Move(r, t, from, to)
               /\ from # "idle" \/ Live(r) \/ run[r].breaks > 1
    BY <1>13 DEF Post, EndRequest, Check, Working
  <2>2. ~Quiet(r) \/ Live(r) \/ run[r].breaks > 1
    BY <2>1 DEF Move
  <2>3. ASSUME NEW q \in Runs, q # r PROVE thread'[q] = thread[q]
    BY <2>1, <2>3 DEF Move
  <2>4. ASSUME NEW q \in Runs PROVE RunIsWhole(q)'
    <3>1. CASE q = r
      <4>1. UNCHANGED <<run, held, lease, expired>>
        BY <2>1 DEF Move
      <4>2. ~held[r] /\ run[r].breaks <= 1 => Quiet(r) /\ ~Live(r)
        OBVIOUS
      <4>3. ~held[r] => ~(run[r].breaks <= 1)
        BY <2>2, <4>2
      <4>4. run[r].st # "new"
        BY <2>2, <4>3
      <4> QED BY <3>1, <4>1, <4>3, <4>4
    <3>2. CASE q # r
      BY <3>2, <2>1, <2>3 DEF Move
    <3> QED BY <3>1, <3>2
  <2> QED BY <2>4
<1>14. CASE Begin
  BY <1>14 DEF Begin
<1>15. CASE Marked
  BY <1>15 DEF Marked
<1>16. CASE TimeOut
  BY <1>16 DEF TimeOut
<1>17. CASE Proceed
  BY <1>17 DEF Proceed
<1>18. CASE Finish
  BY <1>18 DEF Finish
<1>19. CASE Die
  BY <1>19 DEF Die
<1> QED BY NextCases, <1>0, <1>1, <1>2, <1>3, <1>4, <1>5, <1>6, <1>7, <1>8, <1>9, <1>10, <1>11,
          <1>12, <1>13, <1>14, <1>15, <1>16, <1>17, <1>18, <1>19

LEMMA KnownStep ==
    ASSUME TypeOK, RunsAreWhole, LeasesAreKnown, [Next]_vars PROVE LeasesAreKnown'
<1> USE DEF TypeOK, Mains, Operations, RunsAreWhole, RunIsWhole, LeasesAreKnown, Known, Covers,
    Idle, client, transition
<1>0. CASE UNCHANGED vars
  BY <1>0 DEF vars
<1>1. ASSUME NEW r \in Runs, Admit(r) PROVE LeasesAreKnown'
  BY <1>1 DEF Admit, Start
<1>2. ASSUME NEW r \in Runs, Release(r) PROVE LeasesAreKnown'
  BY <1>2 DEF Release
<1>3. ASSUME NEW r \in Runs, Unlink(r) PROVE LeasesAreKnown'
  BY <1>3 DEF Unlink
<1>4. ASSUME NEW r \in Runs, Interrupt(r) PROVE LeasesAreKnown'
  BY <1>4 DEF Interrupt
<1>5. ASSUME NEW r \in Runs, InterruptJoin(r) PROVE LeasesAreKnown'
  BY <1>5 DEF InterruptJoin
<1>6. ASSUME NEW r \in Runs, Observe(r) PROVE LeasesAreKnown'
  BY <1>6 DEF Observe
<1>7. ASSUME NEW r \in Runs, Kill(r) PROVE LeasesAreKnown'
  BY <1>7 DEF Kill
<1>8. ASSUME NEW r \in Runs, Deadline(r) PROVE LeasesAreKnown'
  BY <1>8 DEF Deadline
<1>9. ASSUME NEW r \in Runs, Expire(r) PROVE LeasesAreKnown'
  BY <1>9 DEF Expire
<1>10. ASSUME NEW r \in Runs, ReadLease(r) PROVE LeasesAreKnown'
  BY <1>10 DEF ReadLease
<1>11. ASSUME NEW r \in Runs, SaveRevoked(r) PROVE LeasesAreKnown'
  BY <1>11 DEF SaveRevoked
<1>12. ASSUME NEW r \in Runs, Acknowledge(r) PROVE LeasesAreKnown'
  BY <1>12 DEF Acknowledge
<1>13. ASSUME NEW r \in Runs, NEW t \in Threads, Post(r, t) \/ EndRequest(r, t) \/ Check(r, t)
       PROVE  LeasesAreKnown'
  BY <1>13 DEF Post, EndRequest, Check, Move
<1>14. CASE Begin
  BY <1>14 DEF Begin
<1>15. CASE Marked
  BY <1>15 DEF Marked
<1>16. CASE TimeOut
  BY <1>16 DEF TimeOut
<1>17. CASE Proceed
  <2>1. CASE op.kind = "cancel"
    BY <1>17, <2>1 DEF Proceed
  <2>2. CASE op.kind # "cancel"
    BY <1>17, <2>2 DEF Proceed
  <2> QED BY <2>1, <2>2
<1>18. CASE Finish
  BY <1>18 DEF Finish
<1>19. CASE Die
  BY <1>19 DEF Die
<1> QED BY NextCases, <1>0, <1>1, <1>2, <1>3, <1>4, <1>5, <1>6, <1>7, <1>8, <1>9, <1>10, <1>11,
          <1>12, <1>13, <1>14, <1>15, <1>16, <1>17, <1>18, <1>19

LEMMA RevocationStep ==
    ASSUME TypeOK, LeasesAreKnown, RevocationIsComplete, [Next]_vars
    PROVE  RevocationIsComplete'
<1> USE DEF TypeOK, Mains, Operations, RevocationIsComplete, LeasesAreKnown, Known, Covers, Idle,
    client, transition
<1>0. CASE UNCHANGED vars
  BY <1>0 DEF vars
<1>1. ASSUME NEW r \in Runs, Admit(r) PROVE RevocationIsComplete'
  BY <1>1 DEF Admit, Start
<1>2. ASSUME NEW r \in Runs, Release(r) PROVE RevocationIsComplete'
  BY <1>2 DEF Release
<1>3. ASSUME NEW r \in Runs, Unlink(r) PROVE RevocationIsComplete'
  BY <1>3 DEF Unlink
<1>4. ASSUME NEW r \in Runs, Interrupt(r) PROVE RevocationIsComplete'
  BY <1>4 DEF Interrupt
<1>5. ASSUME NEW r \in Runs, InterruptJoin(r) PROVE RevocationIsComplete'
  BY <1>5 DEF InterruptJoin
<1>6. ASSUME NEW r \in Runs, Observe(r) PROVE RevocationIsComplete'
  BY <1>6 DEF Observe
<1>7. ASSUME NEW r \in Runs, Kill(r) PROVE RevocationIsComplete'
  BY <1>7 DEF Kill
<1>8. ASSUME NEW r \in Runs, Deadline(r) PROVE RevocationIsComplete'
  BY <1>8 DEF Deadline
<1>9. ASSUME NEW r \in Runs, Expire(r) PROVE RevocationIsComplete'
  BY <1>9 DEF Expire
<1>10. ASSUME NEW r \in Runs, ReadLease(r) PROVE RevocationIsComplete'
  BY <1>10 DEF ReadLease
<1>11. ASSUME NEW r \in Runs, SaveRevoked(r) PROVE RevocationIsComplete'
  BY <1>11 DEF SaveRevoked
<1>12. ASSUME NEW r \in Runs, Acknowledge(r) PROVE RevocationIsComplete'
  BY <1>12 DEF Acknowledge
<1>13. ASSUME NEW r \in Runs, NEW t \in Threads, Post(r, t) \/ EndRequest(r, t) \/ Check(r, t)
       PROVE  RevocationIsComplete'
  BY <1>13 DEF Post, EndRequest, Check, Move
<1>14. CASE Begin
  BY <1>14 DEF Begin
<1>15. CASE Marked
  BY <1>15 DEF Marked
<1>16. CASE TimeOut
  BY <1>16 DEF TimeOut
<1>17. CASE Proceed
  <2>1. CASE op.kind = "cancel"
    BY <1>17, <2>1 DEF Proceed
  <2>2. CASE op.kind # "cancel"
    BY <1>17, <2>2 DEF Proceed
  <2> QED BY <2>1, <2>2
<1>18. CASE Finish
  BY <1>18 DEF Finish
<1>19. CASE Die
  BY <1>19 DEF Die
<1> QED BY NextCases, <1>0, <1>1, <1>2, <1>3, <1>4, <1>5, <1>6, <1>7, <1>8, <1>9, <1>10, <1>11,
          <1>12, <1>13, <1>14, <1>15, <1>16, <1>17, <1>18, <1>19

LEMMA RequestsStep ==
    ASSUME TypeOK, RunsAreWhole, LeasesAreKnown, RevocationIsComplete,
           RequestsMeetTheirAllocation, [Next]_vars
    PROVE  RequestsMeetTheirAllocation'
<1> USE DEF TypeOK, Mains, Allocations, RequestsMeetTheirAllocation, RunsAreWhole, RunIsWhole,
    Owned, Quiet, client, transition
<1>0. CASE UNCHANGED vars
  BY <1>0 DEF vars
<1>1. ASSUME NEW r \in Runs, Admit(r) PROVE RequestsMeetTheirAllocation'
  BY <1>1 DEF Admit, Start
<1>2. ASSUME NEW r \in Runs, Release(r) PROVE RequestsMeetTheirAllocation'
  BY <1>2 DEF Release
<1>3. ASSUME NEW r \in Runs, Unlink(r) PROVE RequestsMeetTheirAllocation'
  <2>1. \A q \in Runs : run'[q].scope = run[q].scope /\ run'[q].breaks = run[q].breaks
    BY <1>3 DEF Unlink
  <2>2. thread' = thread /\ alloc' = alloc
    BY <1>3 DEF Unlink
  <2> QED BY <2>1, <2>2
<1>4. ASSUME NEW r \in Runs, Interrupt(r) PROVE RequestsMeetTheirAllocation'
  <2>0. PICK invalid \in BOOLEAN :
             run' = [run EXCEPT ![r].st = "joining", ![r].invalid = invalid,
                                ![r].breaks = @ + 1]
    BY <1>4 DEF Interrupt
  <2>1. \A q \in Runs : run'[q].scope = run[q].scope
    BY <2>0
  <2>2. \A q \in Runs : run'[q].breaks <= 1 => run[q].breaks <= 1
    <3>1. run[r].breaks \in Nat /\ run'[r].breaks = run[r].breaks + 1
      BY <2>0
    <3>2. \A q \in Runs : q # r => run'[q] = run[q]
      BY <2>0
    <3>3. run'[r].breaks <= 1 => run[r].breaks <= 1
      BY <3>1
    <3> HIDE DEF TypeOK, RunsAreWhole, RequestsMeetTheirAllocation
    <3> QED BY <3>2, <3>3
  <2>3. thread' = thread /\ alloc' = alloc
    BY <1>4 DEF Interrupt
  <2> QED BY <2>1, <2>2, <2>3
<1>5. ASSUME NEW r \in Runs, InterruptJoin(r) PROVE RequestsMeetTheirAllocation'
  BY SMTT(30), <1>5 DEF InterruptJoin
<1>6. ASSUME NEW r \in Runs, Observe(r) PROVE RequestsMeetTheirAllocation'
  BY SMTT(30), <1>6 DEF Observe
<1>7. ASSUME NEW r \in Runs, Kill(r) PROVE RequestsMeetTheirAllocation'
  BY <1>7 DEF Kill
<1>8. ASSUME NEW r \in Runs, Deadline(r) PROVE RequestsMeetTheirAllocation'
  BY <1>8 DEF Deadline
<1>9. ASSUME NEW r \in Runs, Expire(r) PROVE RequestsMeetTheirAllocation'
  BY <1>9 DEF Expire
<1>10. ASSUME NEW r \in Runs, ReadLease(r) PROVE RequestsMeetTheirAllocation'
  BY <1>10 DEF ReadLease
<1>11. ASSUME NEW r \in Runs, SaveRevoked(r) PROVE RequestsMeetTheirAllocation'
  BY <1>11 DEF SaveRevoked
<1>12. ASSUME NEW r \in Runs, Acknowledge(r) PROVE RequestsMeetTheirAllocation'
  BY <1>12 DEF Acknowledge
<1>13. ASSUME NEW r \in Runs, NEW t \in Threads, Post(r, t) \/ EndRequest(r, t) \/ Check(r, t)
       PROVE  RequestsMeetTheirAllocation'
  <2>1. PICK from \in {"idle", "checked", "inflight"}, to \in {"idle", "checked", "inflight"} :
               /\ Move(r, t, from, to)
               /\ from # "idle" \/ Owned(r)
    BY <1>13 DEF Post, EndRequest, Check, MayGoOn
  <2>2. ASSUME NEW q \in Runs, q # r PROVE thread'[q] = thread[q]
    BY <2>1, <2>2 DEF Move
  <2>3. ASSUME NEW q \in Runs, (~Quiet(q))', (run[q].breaks <= 1)' PROVE Owned(q)'
    <3>1. CASE q = r
      BY <3>1, <2>1, <2>3 DEF Move
    <3>2. CASE q # r
      BY SMTT(30), <3>2, <2>1, <2>2, <2>3 DEF Move
    <3> QED BY <3>1, <3>2
  <2> QED BY <2>3
<1>14. CASE Begin
  BY <1>14 DEF Begin
<1>15. CASE Marked
  BY <1>15 DEF Marked
<1>16. CASE TimeOut
  BY <1>16 DEF TimeOut
<1>17. CASE Proceed
  <2>1. ASSUME NEW r \in Runs, Covers(r, op.hosts) PROVE Quiet(r) \/ ~(run[r].breaks <= 1)
    BY <1>17, <2>1 DEF Proceed, LeasesAreKnown, Known
  <2>2. ASSUME NEW r \in Runs, ~Quiet(r), run[r].breaks <= 1 PROVE Owned(r)'
    <3>1. run[r].scope.members \subseteq Hosts \ op.hosts
      BY <2>1, <2>2 DEF Covers
    <3>2. \A h \in Hosts \ op.hosts : alloc'[h] = alloc[h]
      BY <1>17 DEF Proceed
    <3>3. run' = run
      BY <1>17 DEF Proceed
    <3> QED BY <3>1, <3>2, <3>3, <2>2
  <2> QED BY <2>2, <1>17 DEF Proceed
<1>18. CASE Finish
  <2>1. ASSUME NEW r \in Runs, Covers(r, op.hosts) PROVE Quiet(r) \/ ~(run[r].breaks <= 1)
    BY <1>18, <2>1 DEF Finish, RevocationIsComplete
  <2>2. ASSUME NEW r \in Runs, ~Quiet(r), run[r].breaks <= 1 PROVE Owned(r)'
    <3>1. run[r].scope.members \subseteq Hosts \ op.hosts
      BY <2>1, <2>2 DEF Covers
    <3> QED BY <3>1, <2>2, <1>18 DEF Finish
  <2> QED BY <2>2, <1>18 DEF Finish
<1>19. CASE Die
  BY <1>19 DEF Die
<1> QED BY NextCases, <1>0, <1>1, <1>2, <1>3, <1>4, <1>5, <1>6, <1>7, <1>8, <1>9, <1>10, <1>11,
          <1>12, <1>13, <1>14, <1>15, <1>16, <1>17, <1>18, <1>19

LEMMA HostStep ==
    ASSUME TypeOK, RunsAreWhole, ~MacSleeps, OneBenchmarkPerHost, [Next]_vars
    PROVE  OneBenchmarkPerHost'
<1> USE DEF TypeOK, Mains, Allocations, OneBenchmarkPerHost, RunsAreWhole, RunIsWhole, Covers,
    client, transition
<1>0. CASE UNCHANGED vars
  BY <1>0 DEF vars
<1>1. ASSUME NEW r \in Runs, Admit(r) PROVE OneBenchmarkPerHost'
  <2>1. PICK h \in Hosts :
               /\ \A q \in Runs : lease[q] # "absent" /\ Covers(q, alloc[h].members) => expired[q]
               /\ Start(r, alloc[h])
    BY <1>1 DEF Admit
  <2>2. ASSUME NEW q \in Runs, q # r, held[q] PROVE run[q].scope.members \cap alloc[h].members = {}
    BY <2>1, <2>2
  <2> QED BY <2>1, <2>2 DEF Start
<1>2. ASSUME NEW r \in Runs, Release(r) PROVE OneBenchmarkPerHost'
  BY <1>2 DEF Release
<1>3. ASSUME NEW r \in Runs, Unlink(r) PROVE OneBenchmarkPerHost'
  BY <1>3 DEF Unlink
<1>4. ASSUME NEW r \in Runs, Interrupt(r) PROVE OneBenchmarkPerHost'
  BY <1>4 DEF Interrupt
<1>5. ASSUME NEW r \in Runs, InterruptJoin(r) PROVE OneBenchmarkPerHost'
  BY <1>5 DEF InterruptJoin
<1>6. ASSUME NEW r \in Runs, Observe(r) PROVE OneBenchmarkPerHost'
  BY <1>6 DEF Observe
<1>7. ASSUME NEW r \in Runs, Kill(r) PROVE OneBenchmarkPerHost'
  BY <1>7 DEF Kill
<1>8. ASSUME NEW r \in Runs, Deadline(r) PROVE OneBenchmarkPerHost'
  BY <1>8 DEF Deadline
<1>9. ASSUME NEW r \in Runs, Expire(r) PROVE OneBenchmarkPerHost'
  BY <1>9 DEF Expire
<1>10. ASSUME NEW r \in Runs, ReadLease(r) PROVE OneBenchmarkPerHost'
  BY <1>10 DEF ReadLease
<1>11. ASSUME NEW r \in Runs, SaveRevoked(r) PROVE OneBenchmarkPerHost'
  BY <1>11 DEF SaveRevoked
<1>12. ASSUME NEW r \in Runs, Acknowledge(r) PROVE OneBenchmarkPerHost'
  BY <1>12 DEF Acknowledge
<1>13. ASSUME NEW r \in Runs, NEW t \in Threads, Post(r, t) \/ EndRequest(r, t) \/ Check(r, t)
       PROVE  OneBenchmarkPerHost'
  BY <1>13 DEF Post, EndRequest, Check, Move
<1>14. CASE Begin
  BY <1>14 DEF Begin
<1>15. CASE Marked
  BY <1>15 DEF Marked
<1>16. CASE TimeOut
  BY <1>16 DEF TimeOut
<1>17. CASE Proceed
  BY <1>17 DEF Proceed
<1>18. CASE Finish
  BY <1>18 DEF Finish
<1>19. CASE Die
  BY <1>19 DEF Die
<1> QED BY NextCases, <1>0, <1>1, <1>2, <1>3, <1>4, <1>5, <1>6, <1>7, <1>8, <1>9, <1>10, <1>11,
          <1>12, <1>13, <1>14, <1>15, <1>16, <1>17, <1>18, <1>19

LEMMA LeaseInvHolds == Spec => []LeaseInv
<1>1. Init => LeaseInv
  <2> USE DEF Init, Idle
  <2>1. Init => TypeOK
    BY MaxTransitionsAssumption, ServedAssumption
       DEF TypeOK, Operations, Mains, Allocations, Ids, None, Free
  <2>2. Init => RunsAreWhole
    BY DEF RunsAreWhole, RunIsWhole, Live, Quiet
  <2>3. Init => LeasesAreKnown
    BY DEF LeasesAreKnown, Known
  <2>4. Init => RevocationIsComplete /\ RequestsMeetTheirAllocation
    BY DEF RevocationIsComplete, RequestsMeetTheirAllocation, Quiet
  <2> QED BY <2>1, <2>2, <2>3, <2>4 DEF LeaseInv
<1>2. LeaseInv /\ [Next]_vars => LeaseInv'
  BY TypeStep, WholeStep, KnownStep, RevocationStep, RequestsStep DEF LeaseInv
<1> QED BY <1>1, <1>2, PTL DEF Spec

(* A transition that changes its hosts has removed every lease of them.    *)
THEOREM RevocationComplete == Spec => []RevocationIsComplete
BY LeaseInvHolds, PTL DEF LeaseInv

(* A request beyond its last check is for an allocation that is recorded.  *)
THEOREM RequestsMeet == Spec => []RequestsMeetTheirAllocation
BY LeaseInvHolds, PTL DEF LeaseInv

(* A file lock that is free means that no request of its run is under way. *)
THEOREM ReleasedQuiet == Spec => []ReleasedOnceMeansQuiet
<1>1. LeaseInv => ReleasedOnceMeansQuiet
  BY DEF LeaseInv, RunsAreWhole, RunIsWhole, ReleasedOnceMeansQuiet
<1> QED BY LeaseInvHolds, <1>1, PTL

(* Two benchmarks never share a Spark while the Mac does not sleep.        *)
THEOREM OneBenchmark == ASSUME ~MacSleeps PROVE Spec => []OneBenchmarkPerHost
<1>1. Init => OneBenchmarkPerHost
  BY DEF Init, OneBenchmarkPerHost
<1>2. LeaseInv /\ OneBenchmarkPerHost /\ [Next]_vars => OneBenchmarkPerHost'
  BY HostStep DEF LeaseInv
<1> QED BY LeaseInvHolds, <1>1, <1>2, PTL DEF Spec

-----------------------------------------------------------------------------
(* The leases keep the promise of SharedSparks.                            *)

\* controller.json records an allocation for all its members or for none, a
\* transition covers whole allocations, and a run was admitted to one.
AllocationsAreWhole ==
    /\ \A h \in Hosts : alloc[h].id # None =>
         /\ h \in alloc[h].members
         /\ \A m \in alloc[h].members : alloc[m] = alloc[h]
    /\ \A h \in Hosts : alloc[h].id = None => alloc[h] = Free
    /\ last # None
    /\ op.kind = "switch" /\ op.pc \in {"mark", "wait"} =>
         \A h \in op.hosts : alloc[h].members \subseteq op.hosts
    /\ op.pc = "change" => \A h \in op.hosts : alloc[h] = Free
    /\ \A r \in Runs : held[r] => run[r].scope.id # None

\* What happens to one run leaves its allocation, the other runs and the
\* transition alone.
OfRun(r) ==
    \/ Release(r) \/ Unlink(r) \/ Interrupt(r) \/ InterruptJoin(r)
    \/ Observe(r) \/ Kill(r) \/ Deadline(r) \/ Expire(r)

LEMMA RunMoves ==
    ASSUME TypeOK, NEW r \in Runs, OfRun(r)
    PROVE  /\ UNCHANGED transition
           /\ \A q \in Runs : run'[q].scope = run[q].scope /\ (held'[q] => held[q])
           /\ \A q \in Runs : q # r => /\ run'[q].breaks = run[q].breaks
                                     /\ held'[q] = held[q] /\ thread'[q] = thread[q]
<1> USE DEF TypeOK, Mains, transition, client
<1>1. CASE Release(r)
  BY <1>1 DEF Release
<1>2. CASE Unlink(r)
  BY <1>2 DEF Unlink
<1>3. CASE Interrupt(r)
  BY <1>3 DEF Interrupt
<1>4. CASE InterruptJoin(r)
  BY <1>4 DEF InterruptJoin
<1>5. CASE Observe(r)
  BY <1>5 DEF Observe
<1>6. CASE Kill(r)
  BY <1>6 DEF Kill
<1>7. CASE Deadline(r)
  BY <1>7 DEF Deadline
<1>8. CASE Expire(r)
  BY <1>8 DEF Expire
<1> QED BY <1>1, <1>2, <1>3, <1>4, <1>5, <1>6, <1>7, <1>8 DEF OfRun

LEMMA AllocationsStep ==
    ASSUME TypeOK, RunsAreWhole, LeasesAreKnown, AllocationsAreWhole, [Next]_vars
    PROVE  AllocationsAreWhole'
<1> USE DEF TypeOK, Mains, Operations, Allocations, Idle, client, transition
<1>a. ASSUME UNCHANGED <<alloc, last>>, op' = Idle \/ (op'.hosts = op.hosts /\ op'.kind = op.kind
                           /\ (op'.pc = op.pc \/ (op'.pc = "wait" /\ op.pc = "mark"))),
             \A r \in Runs : held'[r] => held[r] /\ run'[r].scope = run[r].scope
      PROVE  AllocationsAreWhole'
  BY <1>a DEF AllocationsAreWhole
<1>0. CASE UNCHANGED vars
  BY <1>0, <1>a DEF vars
<1>1. ASSUME NEW r \in Runs, Admit(r) PROVE AllocationsAreWhole'
  <2>1. PICK h \in Hosts : alloc[h].id # None /\ Start(r, alloc[h])
    BY <1>1 DEF Admit
  <2>2. \A q \in Runs : held'[q] =>
          \/ held[q] /\ run'[q].scope = run[q].scope
          \/ run'[q].scope = alloc[h]
    BY <2>1 DEF Start
  <2> QED BY <2>1, <2>2 DEF AllocationsAreWhole, Start
<1>2. ASSUME NEW r \in Runs, OfRun(r) PROVE AllocationsAreWhole'
  BY <1>2, RunMoves, <1>a
<1>3. ASSUME NEW r \in Runs, ReadLease(r) \/ SaveRevoked(r) \/ Acknowledge(r)
      PROVE  AllocationsAreWhole'
  BY <1>3, <1>a DEF ReadLease, SaveRevoked, Acknowledge
<1>4. ASSUME NEW r \in Runs, NEW t \in Threads, Post(r, t) \/ EndRequest(r, t) \/ Check(r, t)
      PROVE  AllocationsAreWhole'
  BY <1>4, <1>a DEF Post, EndRequest, Check, Move
<1>5. CASE Begin
  <2>1. last # None /\ last' # None
    BY <1>5, MaxTransitionsAssumption DEF Begin, AllocationsAreWhole, Ids, None
  <2>2. UNCHANGED <<alloc, run, held>>
    BY <1>5 DEF Begin
  <2>3. op'.pc = "mark" /\ (op'.kind = "switch" => \A h \in op'.hosts : alloc[h].members \subseteq op'.hosts)
    BY <1>5 DEF Begin
  <2> QED BY <2>1, <2>2, <2>3 DEF AllocationsAreWhole
<1>6. CASE Marked \/ TimeOut \/ Die
  BY <1>6, <1>a DEF Marked, TimeOut, Die
<1>7. CASE Proceed
  <2>1. CASE op.kind = "cancel"
    BY <1>7, <2>1, <1>a DEF Proceed
  <2>2. CASE op.kind = "switch"
    <3>1. /\ alloc' = [h \in Hosts |-> IF h \in op.hosts THEN Free ELSE alloc[h]]
          /\ op' = [op EXCEPT !.pc = "change"] /\ UNCHANGED <<last, run, held>>
      BY <1>7, <2>2 DEF Proceed
    <3>2. \A h \in op.hosts : alloc[h].members \subseteq op.hosts
      BY <1>7, <2>2 DEF Proceed, AllocationsAreWhole
    <3>3. ASSUME NEW h \in Hosts, alloc'[h].id # None
          PROVE  h \in alloc'[h].members /\ \A m \in alloc'[h].members : alloc'[m] = alloc'[h]
      <4>1. h \notin op.hosts /\ alloc'[h] = alloc[h]
        BY <3>1, <3>3 DEF Free
      <4>2. \A m \in alloc[h].members : alloc[m] = alloc[h] /\ m \in Hosts
        BY <3>3, <4>1 DEF AllocationsAreWhole
      <4>3. \A m \in alloc[h].members : m \notin op.hosts
        BY <3>2, <3>3, <4>1, <4>2 DEF AllocationsAreWhole
      <4> QED BY <3>1, <3>3, <4>1, <4>2, <4>3 DEF AllocationsAreWhole
    <3>4. \A h \in Hosts : alloc'[h].id = None => alloc'[h] = Free
      BY <3>1 DEF AllocationsAreWhole
    <3>5. op'.pc = "change" /\ op'.hosts = op.hosts
      BY <3>1
    <3> QED BY <3>1, <3>3, <3>4, <3>5 DEF AllocationsAreWhole
  <2> QED BY <2>1, <2>2
<1>8. CASE Finish
  <2>1. PICK ms \in {{}, op.hosts} \cup {{h} : h \in op.hosts} :
             alloc' = [h \in Hosts |-> IF h \in ms THEN [id |-> last, members |-> ms] ELSE alloc[h]]
    BY <1>8 DEF Finish
  <2>0. ms \subseteq op.hosts
    BY <2>1
  <2>2. op' = Idle /\ UNCHANGED <<last, run, held>>
    BY <1>8 DEF Finish
  <2>3. \A h \in op.hosts : alloc[h] = Free
    BY <1>8 DEF Finish, AllocationsAreWhole
  <2>4. ASSUME NEW h \in Hosts, alloc'[h].id # None
        PROVE  h \in alloc'[h].members /\ \A m \in alloc'[h].members : alloc'[m] = alloc'[h]
    <3>1. CASE h \in ms
      BY <2>1, <3>1
    <3>2. CASE h \notin ms
      <4>1. alloc'[h] = alloc[h]
        BY <2>1, <3>2
      <4>2. \A m \in alloc[h].members : alloc[m] = alloc[h] /\ m \in Hosts
        BY <2>4, <4>1 DEF AllocationsAreWhole
      <4>3. \A m \in alloc[h].members : m \notin ms
        BY <2>0, <2>3, <2>4, <4>1, <4>2 DEF Free
      <4> QED BY <2>1, <2>4, <4>1, <4>2, <4>3 DEF AllocationsAreWhole
    <3> QED BY <3>1, <3>2
  <2>5. \A h \in Hosts : alloc'[h].id = None => alloc'[h] = Free
    BY <2>1 DEF AllocationsAreWhole
  <2> QED BY <2>2, <2>4, <2>5 DEF AllocationsAreWhole
<1> QED BY NextCases, <1>0, <1>1, <1>2, <1>3, <1>4, <1>5, <1>6, <1>7, <1>8 DEF OfRun

\* The mapping of BenchLease to SharedSparks.
Grant == [r \in Runs |-> IF held[r] THEN run[r].scope ELSE Free]
Posting == {r \in Runs : ~Quiet(r) /\ run[r].breaks <= 1}
Changing == IF op.pc = "change" THEN op.hosts ELSE {}

\* What the mapping says of a run and of the others.
LEMMA PostingMoves ==
    ASSUME NEW r \in Runs,
           \A q \in Runs : q # r => /\ thread'[q] = thread[q]
                                   /\ run'[q].breaks = run[q].breaks
    PROVE  /\ r \notin Posting' => Posting' = Posting \ {r}
           /\ r \in Posting' => Posting' = Posting \cup {r}
<1>1. \A q \in Runs : q # r => (Quiet(q)' <=> Quiet(q))
  BY DEF Quiet
<1>2. \A q : q # r => (q \in Posting' <=> q \in Posting)
  BY <1>1 DEF Posting
<1>3. Posting' \subseteq Posting \cup {r} /\ Posting \ {r} \subseteq Posting'
  BY <1>2
<1> QED BY <1>2, <1>3

LEMMA SameView ==
    ASSUME UNCHANGED <<alloc, held, thread>>, Changing' = Changing,
           \A q \in Runs : run'[q].scope = run[q].scope /\ run'[q].breaks = run[q].breaks
    PROVE  UNCHANGED Sharing!vars
<1>1. \A q \in Runs : Quiet(q)' <=> Quiet(q)
  BY DEF Quiet
<1>2. Posting' = Posting
  BY <1>1 DEF Posting
<1>3. Grant' = Grant
  BY DEF Grant
<1> QED BY <1>2, <1>3 DEF Sharing!vars, Grant, Posting, Changing

LEMMA RunSteps ==
    ASSUME NEW r \in Runs
    PROVE  /\ \A a \in Allocations : Sharing!Admit(r, a) => Sharing!Next
           /\ Sharing!Post(r) => Sharing!Next
           /\ Sharing!Answer(r) => Sharing!Next
           /\ Sharing!Leave(r) => Sharing!Next
BY DEF Sharing!Next

LEMMA ChangeSteps ==
    /\ \A ms \in SUBSET Hosts : Sharing!Change(ms) => Sharing!Next
    /\ \A a \in Allocations : Sharing!Settle(a) => Sharing!Next
BY DEF Sharing!Next

LEMMA SharingStep ==
    ASSUME TypeOK, RunsAreWhole, LeasesAreKnown, RevocationIsComplete, AllocationsAreWhole,
           OneBenchmarkPerHost, ~MacSleeps, [Next]_vars
    PROVE  [Sharing!Next]_(Sharing!vars)
<1> USE DEF TypeOK, Mains, Operations, Idle, client, transition
<1>s. ASSUME alloc' = alloc, Grant' = Grant, Posting' = Posting, Changing' = Changing
      PROVE  UNCHANGED Sharing!vars
  BY <1>s DEF Sharing!vars, Grant, Posting, Changing
<1>f. Grant \in [Runs -> Allocations]
  BY DEF Grant, Free, Allocations, Ids, None
<1>0. CASE UNCHANGED vars
  BY <1>0, <1>s DEF vars, Grant, Posting, Changing, Quiet
<1>1. ASSUME NEW r \in Runs, Admit(r) PROVE Sharing!Next
  <2>1. PICK h \in Hosts :
          /\ alloc[h].id # None
          /\ \A q \in Runs : lease[q] # "absent" /\ Covers(q, alloc[h].members) => expired[q]
          /\ Start(r, alloc[h])
    BY <1>1 DEF Admit
  <2>0. PICK a \in Allocations : a = alloc[h]
    OBVIOUS
  <2>2. a \in Allocations /\ a # Free
    BY <2>0, <2>1 DEF Free
  <2>3. \A s \in a.members : alloc[s] = a
    BY <2>0, <2>1 DEF AllocationsAreWhole
  <2>4. op' = op /\ Changing = {} /\ Changing' = {}
    BY <1>1, <2>1 DEF Admit, Start, Changing
  <2>5. \A q \in Runs : Grant[q].members \cap a.members = {}
    <3> TAKE q \in Runs
    <3>1. CASE held[q]
      BY <2>0, <2>1, <3>1 DEF RunsAreWhole, RunIsWhole, Covers, Grant
    <3>2. CASE ~held[q]
      BY <3>2 DEF Grant, Free
    <3> QED BY <3>1, <3>2
  <2>6. Grant[r] = Free
    BY <1>1 DEF Admit, RunsAreWhole, RunIsWhole, Live, Grant
  <2>7. Grant' = [Grant EXCEPT ![r] = a]
    <3>1. held'[r] /\ run'[r].scope = a
      BY <2>0, <2>1 DEF Start
    <3>2. \A q \in Runs : q # r => held'[q] = held[q] /\ run'[q].scope = run[q].scope
      BY <2>1 DEF Start
    <3> QED BY <3>1, <3>2 DEF Grant
  <2>8. Posting' = Posting /\ alloc' = alloc
    BY <2>1 DEF Start, Posting, Quiet
  <2>9. Sharing!Admit(r, a)
    BY <2>2, <2>3, <2>4, <2>5, <2>6, <2>7, <2>8
       DEF Sharing!Admit, Sharing!Unused, Grant, Posting, Changing
  <2> QED BY <2>2, <2>9, RunSteps
<1>2. ASSUME NEW r \in Runs, UNCHANGED <<op, alloc>>, ~held'[r],
             \A q \in Runs : /\ q # r => held'[q] = held[q]
                             /\ run'[q].scope = run[q].scope
                             /\ q # r => run'[q].breaks = run[q].breaks
                             /\ q # r => thread'[q] = thread[q],
             r \notin Posting'
      PROVE  Sharing!Next
  <2>1. Grant' = [Grant EXCEPT ![r] = Free]
    BY <1>2 DEF Grant
  <2>2. Posting' = Posting \ {r}
    BY <1>2, PostingMoves
  <2>3. Sharing!Leave(r)
    BY <1>2, <2>1, <2>2 DEF Sharing!Leave, Grant, Posting, Changing
  <2> QED BY <2>3, RunSteps
<1>3. ASSUME NEW r \in Runs, Release(r) \/ InterruptJoin(r) \/ Kill(r)
      PROVE  [Sharing!Next]_(Sharing!vars)
  <2>0. ~held'[r]
    BY <1>3 DEF Release, InterruptJoin, Kill
  <2>1. /\ UNCHANGED <<op, alloc>>
        /\ \A q \in Runs : q # r => held'[q] = held[q] /\ run'[q].breaks = run[q].breaks
        /\ \A q \in Runs : run'[q].scope = run[q].scope
        /\ \A q \in Runs : q # r => thread'[q] = thread[q]
    BY <1>3, RunMoves DEF OfRun
  <2>2. r \notin Posting'
    <3>1. CASE Release(r)
      BY <3>1 DEF Release, Posting, Quiet
    <3>2. CASE InterruptJoin(r)
      BY <3>2 DEF InterruptJoin, RunsAreWhole, RunIsWhole, Posting
    <3>3. CASE Kill(r)
      BY <3>3 DEF Kill, Posting, Quiet
    <3> QED BY <1>3, <3>1, <3>2, <3>3
  <2> QED BY <2>0, <2>1, <2>2, <1>2
<1>4. ASSUME NEW r \in Runs, Unlink(r) \/ Observe(r) \/ Deadline(r) \/ Expire(r)
      PROVE  UNCHANGED Sharing!vars
  <2>1. UNCHANGED <<op, alloc, held, thread>>
    BY <1>4 DEF Unlink, Observe, Deadline, Expire
  <2>2. run'[r].breaks = run[r].breaks
    BY <1>4 DEF Unlink, Observe, Deadline, Expire
  <2>3. \A q \in Runs : run'[q].scope = run[q].scope /\ run'[q].breaks = run[q].breaks
    BY <1>4, <2>2, RunMoves DEF OfRun
  <2> QED BY <2>1, <2>3, SameView DEF Changing
<1>5. ASSUME NEW r \in Runs, Interrupt(r) PROVE [Sharing!Next]_(Sharing!vars)
  <2>1. UNCHANGED <<op, alloc, held, thread>>
    BY <1>5 DEF Interrupt
  <2>2. \A q \in Runs : /\ run'[q].scope = run[q].scope
                        /\ q # r => run'[q].breaks = run[q].breaks
                        /\ q # r => thread'[q] = thread[q]
    BY <1>5 DEF Interrupt
  <2>3. Grant' = Grant /\ Changing' = Changing
    BY <2>1, <2>2 DEF Grant, Changing
  <2>4. Posting' = Posting \/ Posting' = Posting \ {r}
    <3>1. run'[r].breaks = run[r].breaks + 1
      BY <1>5 DEF Interrupt
    <3>2. r \in Posting' => r \in Posting
      BY <2>1, <3>1 DEF Posting, Quiet
    <3>3. /\ r \notin Posting' => Posting' = Posting \ {r}
          /\ r \in Posting' => Posting' = Posting \cup {r}
      BY <2>2, PostingMoves
    <3> QED BY <3>2, <3>3, Zenon
  <2>5. CASE Posting' = Posting \ {r}
    <3>1. Sharing!Answer(r)
      BY <2>1, <2>3, <2>5 DEF Sharing!Answer, Grant, Posting, Changing
    <3> QED BY <3>1, RunSteps
  <2> QED BY <2>1, <2>3, <2>4, <2>5, <1>s
<1>6. ASSUME NEW r \in Runs, ReadLease(r) \/ SaveRevoked(r) \/ Acknowledge(r)
      PROVE  UNCHANGED Sharing!vars
  <2>1. UNCHANGED <<alloc, run, held, thread>> /\ op.pc # "change" /\ op'.pc = op.pc
    BY <1>6 DEF ReadLease, SaveRevoked, Acknowledge
  <2> QED BY <2>1, SameView DEF Changing
<1>7. ASSUME NEW r \in Runs, NEW t \in Threads, Post(r, t) \/ EndRequest(r, t) \/ Check(r, t)
      PROVE  [Sharing!Next]_(Sharing!vars)
  <2>1. UNCHANGED <<op, alloc, held, run>> /\ \A q \in Runs : q # r => thread'[q] = thread[q]
    BY <1>7 DEF Post, EndRequest, Check, Move
  <2>2. Grant' = Grant /\ Changing' = Changing
    BY <2>1 DEF Grant, Changing
  <2>3. \/ Posting' = Posting \/ Posting' = Posting \ {r}
        \/ Posting' = Posting \cup {r} /\ held[r]
    <3>1. CASE Check(r, t)
      <4>1. held[r] \/ ~(run'[r].breaks <= 1)
        BY <2>1, <3>1 DEF Check, Working, RunsAreWhole, RunIsWhole
      <4>2. held[r] \/ r \notin Posting'
        BY <4>1 DEF Posting
      <4> QED BY <2>1, <4>2, PostingMoves
    <3>2. CASE Post(r, t) \/ EndRequest(r, t)
      <4>1. ~Quiet(r)
        BY <3>2 DEF Post, EndRequest, Move, Quiet
      <4>2. r \in Posting' => r \in Posting
        BY <2>1, <4>1 DEF Posting
      <4>3. /\ r \notin Posting' => Posting' = Posting \ {r}
            /\ r \in Posting' => Posting' = Posting \cup {r}
        BY <2>1, PostingMoves
      <4> QED BY <4>2, <4>3, Zenon
    <3> QED BY <1>7, <3>1, <3>2
  <2>4. CASE Posting' = Posting \ {r}
    <3>1. Sharing!Answer(r)
      BY <2>1, <2>2, <2>4 DEF Sharing!Answer, Grant, Posting, Changing
    <3> QED BY <3>1, RunSteps
  <2>5. CASE Posting' = Posting \cup {r} /\ held[r]
    <3>1. Grant[r] # Free
      BY <2>5 DEF Grant, Free, AllocationsAreWhole
    <3>2. Sharing!Post(r)
      BY <2>1, <2>2, <2>5, <3>1 DEF Sharing!Post, Grant, Posting, Changing
    <3> QED BY <3>2, RunSteps
  <2> QED BY <2>1, <2>2, <2>3, <2>4, <2>5, <1>s
<1>8. CASE Begin \/ Marked \/ TimeOut
  <2>1. UNCHANGED <<alloc, run, held, thread>> /\ op.pc # "change" /\ op'.pc # "change"
    <3>1. CASE Begin
      BY <3>1 DEF Begin
    <3>2. CASE Marked \/ TimeOut
      BY <3>2 DEF Marked, TimeOut
    <3> QED BY <1>8, <3>1, <3>2
  <2> QED BY <2>1, SameView DEF Changing
<1>9. CASE Proceed
  <2>1. op.pc = "wait" /\ UNCHANGED <<run, held, thread>>
    BY <1>9 DEF Proceed
  <2>2. Grant' = Grant /\ Posting' = Posting /\ Changing = {}
    BY <2>1 DEF Grant, Posting, Quiet, Changing
  <2>3. CASE op.kind = "cancel"
    BY <1>9, <2>1, <2>2, <2>3, <1>s DEF Proceed, Changing
  <2>4. CASE op.kind = "switch"
    <3> DEFINE ms == op.hosts
    <3>1. /\ alloc' = [h \in Hosts |-> IF h \in ms THEN Free ELSE alloc[h]]
          /\ Changing' = ms
      BY <1>9, <2>4 DEF Proceed, Changing
    <3>2. \A h \in ms : alloc[h].members \subseteq ms
      BY <2>1, <2>4 DEF AllocationsAreWhole
    <3>3. ASSUME NEW q \in Runs PROVE Grant[q].members \cap ms = {}
      <4>1. CASE held[q]
        BY <1>9, <4>1 DEF Proceed, LeasesAreKnown, Known, RunsAreWhole, RunIsWhole, Covers, Grant
      <4>2. CASE ~held[q]
        BY <4>2 DEF Grant, Free
      <4> QED BY <4>1, <4>2
    <3>4. ms \in SUBSET Hosts
      OBVIOUS
    <3> HIDE DEF ms
    <3>5. Sharing!Change(ms)
      BY <2>2, <3>1, <3>2, <3>3 DEF Sharing!Change, Sharing!Unused, Grant, Posting, Changing
    <3> QED BY <3>4, <3>5, ChangeSteps
  <2> QED BY <2>3, <2>4
<1>10. ASSUME NEW a \in Allocations, a.members \subseteq Changing, Changing' = {},
              alloc' = [h \in Hosts |-> IF h \in a.members THEN a ELSE alloc[h]],
              UNCHANGED <<run, held, thread>>
       PROVE  Sharing!Next
  <2>1. Grant' = Grant /\ Posting' = Posting
    BY <1>10 DEF Grant, Posting, Quiet
  <2>2. Sharing!Settle(a)
    BY <1>10, <2>1 DEF Sharing!Settle, Grant, Posting, Changing
  <2> QED BY <2>2, ChangeSteps
<1>11. CASE Finish
  <2>1. PICK ms \in {{}, op.hosts} \cup {{h} : h \in op.hosts} :
             alloc' = [h \in Hosts |-> IF h \in ms THEN [id |-> last, members |-> ms] ELSE alloc[h]]
    BY <1>11 DEF Finish
  <2> DEFINE a == [id |-> last, members |-> ms]
  <2>2. ms \subseteq op.hosts
    BY <2>1
  <2>3. a \in Allocations /\ a.members = ms
    BY <2>2 DEF Allocations
  <2>4. Changing = op.hosts /\ Changing' = {} /\ UNCHANGED <<run, held, thread>>
    BY <1>11 DEF Finish, Changing
  <2>5. alloc' = [h \in Hosts |-> IF h \in a.members THEN a ELSE alloc[h]]
    BY <2>1
  <2> HIDE DEF a
  <2> QED BY <2>2, <2>3, <2>4, <2>5, <1>10
<1>12. CASE Die
  <2>1. UNCHANGED <<alloc, run, held, thread>> /\ Changing' = {}
    BY <1>12 DEF Die, Changing
  <2>2. CASE op.pc # "change"
    BY <2>1, <2>2, SameView DEF Changing
  <2>3. CASE op.pc = "change"
    <3>1. Free \in Allocations /\ Free.members = {}
      BY DEF Allocations, Free, None
    <3>2. alloc' = [h \in Hosts |-> IF h \in Free.members THEN Free ELSE alloc[h]]
      BY <2>1, <3>1
    <3> QED BY <2>1, <3>1, <3>2, <1>10
  <2> QED BY <2>2, <2>3
<1> QED BY NextCases, <1>0, <1>1, <1>3, <1>4, <1>5, <1>6, <1>7, <1>8, <1>9, <1>11, <1>12

(* While the Mac does not sleep, every step of the leases is a step of     *)
(* SharedSparks or none: a Spark belongs to one run or to one transition.  *)
THEOREM LeasesShare ==
    ASSUME ~MacSleeps PROVE Spec => ImplementsSharedSparks
<1>1. Init => Sharing!Init /\ AllocationsAreWhole
  <2> SUFFICES ASSUME Init PROVE Sharing!Init /\ AllocationsAreWhole
    OBVIOUS
  <2>1. PICK ms \in Served :
             alloc = [h \in Hosts |-> IF h \in ms THEN [id |-> 1, members |-> ms] ELSE Free]
    BY DEF Init
  <2>2. ms \subseteq Hosts
    BY ServedAssumption
  <2>3. alloc \in [Hosts -> Allocations]
    BY <2>1, <2>2, MaxTransitionsAssumption DEF Allocations, Free, Ids, None
  <2>4. Sharing!Init
    BY <2>3 DEF Init, Sharing!Init, Quiet, Idle
  <2>5. AllocationsAreWhole
    BY <2>1, <2>2 DEF Init, AllocationsAreWhole, Idle, Free, None
  <2> QED BY <2>4, <2>5
<1>2. LeaseInv /\ AllocationsAreWhole /\ [Next]_vars => AllocationsAreWhole'
  BY AllocationsStep DEF LeaseInv
<1>3. LeaseInv /\ AllocationsAreWhole /\ OneBenchmarkPerHost /\ [Next]_vars
        => [Sharing!Next]_(Sharing!vars)
  BY SharingStep DEF LeaseInv
<1>4. Spec => []OneBenchmarkPerHost
  BY OneBenchmark
<1> QED BY <1>1, <1>2, <1>3, <1>4, LeaseInvHolds, PTL DEF Spec, ImplementsSharedSparks, Sharing!Spec
=============================================================================

---------------------------- MODULE SharedSparks ----------------------------
(***************************************************************************)
(* What the leases promise (native-observability.md "A benchmark leases    *)
(* all participating hosts", ADR 0008): a Spark is used by one benchmark   *)
(* or changed by one transition, never both.  A benchmark uses the whole   *)
(* allocation it was admitted to, which stays recorded as it was, and has  *)
(* requests under way only meanwhile.  How a lease is revoked and when a   *)
(* transition may stop waiting is left to BenchLease, which implements     *)
(* this with files, file locks and clocks.                                 *)
(***************************************************************************)
CONSTANTS Sparks,
          Runs,         \* benchmark runs
          Allocations,  \* what may be recorded of a Spark: its members are served together
          Free          \* the record of a Spark that serves nothing

VARIABLES
    record,    \* record[s]: what controller.json says of Spark s
    grant,     \* grant[r]: the allocation that run r was admitted to, or Free
    posting,   \* the runs that have a request under way
    changing   \* the Sparks that the transition changes

vars == <<record, grant, posting, changing>>

Unused(ms) == \A r \in Runs : grant[r].members \cap ms = {}

Init ==
    /\ record \in [Sparks -> Allocations]
    /\ grant = [r \in Runs |-> Free]
    /\ posting = {}
    /\ changing = {}

\* A run is admitted to an allocation that all its members record and that
\* nobody uses or changes.
Admit(r, a) ==
    /\ grant[r] = Free /\ a # Free
    /\ \A s \in a.members : record[s] = a
    /\ a.members \cap changing = {} /\ Unused(a.members)
    /\ grant' = [grant EXCEPT ![r] = a]
    /\ UNCHANGED <<record, posting, changing>>

Post(r) ==
    /\ grant[r] # Free
    /\ posting' = posting \cup {r}
    /\ UNCHANGED <<record, grant, changing>>

\* The last request under way has ended.
Answer(r) ==
    /\ posting' = posting \ {r}
    /\ UNCHANGED <<record, grant, changing>>

\* A run ends, whatever the cause, and its requests with it.
Leave(r) ==
    /\ grant' = [grant EXCEPT ![r] = Free]
    /\ posting' = posting \ {r}
    /\ UNCHANGED <<record, changing>>

\* One transition at a time takes Sparks that nobody uses, no part of an
\* allocation without the rest.
Change(ms) ==
    /\ changing = {} /\ Unused(ms)
    /\ \A s \in ms : record[s].members \subseteq ms
    /\ changing' = ms
    /\ record' = [s \in Sparks |-> IF s \in ms THEN Free ELSE record[s]]
    /\ UNCHANGED <<grant, posting>>

\* It ends; some of its Sparks serve something new, or none.
Settle(a) ==
    /\ a.members \subseteq changing
    /\ record' = [s \in Sparks |-> IF s \in a.members THEN a ELSE record[s]]
    /\ changing' = {}
    /\ UNCHANGED <<grant, posting>>

Next ==
    \/ \E r \in Runs :
         \/ \E a \in Allocations : Admit(r, a)
         \/ Post(r) \/ Answer(r) \/ Leave(r)
    \/ \E ms \in SUBSET Sparks : Change(ms)
    \/ \E a \in Allocations : Settle(a)

Spec == Init /\ [][Next]_vars
=============================================================================

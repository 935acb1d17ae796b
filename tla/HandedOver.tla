----------------------------- MODULE HandedOver -----------------------------
(***************************************************************************)
(* What a batch job promises (ADR 0018): the Mac hands the Sparks over to  *)
(* the job, the job has the GPU for itself, the Spark restores a model,    *)
(* and the Mac gets the Sparks back with the books in order: while it has  *)
(* them, they name whatever runs.  How each side knows that it is its turn *)
(* is left to BatchJob, which implements this with a record, a guard, two  *)
(* controller.json files and the generation in node.json.  Where these let *)
(* both sides act, one model at most is all that is promised.              *)
(***************************************************************************)
CONSTANT Models

VARIABLES
    keeper,  \* the side that may start and remove models: "mac", "spark" or "both"
    models,  \* the models that run
    books,   \* the model that the Mac has on its books, if any
    job      \* does the job run?

vars == <<keeper, models, books, job>>

AtMostOne(S) == S \subseteq Models /\ \A m, n \in S : m = n

Init ==
    /\ keeper = "mac" /\ job = FALSE
    /\ AtMostOne(models) /\ books = models

\* A transition of the Mac that fails may have removed the model without
\* having it off the books.
MacStops ==
    /\ keeper = "mac"
    /\ models' = {} /\ books' \in {{}, books}
    /\ UNCHANGED <<keeper, job>>

\* The model is on the books first; its start may fail.
MacStarts ==
    /\ keeper = "mac" /\ models = {} /\ ~job
    /\ AtMostOne(books') /\ models' \subseteq books'
    /\ UNCHANGED <<keeper, job>>

HandOver ==
    /\ keeper = "mac" /\ keeper' = "spark"
    /\ UNCHANGED <<models, books, job>>

JobStarts ==
    /\ keeper = "spark" /\ models = {}
    /\ job' = TRUE
    /\ UNCHANGED <<keeper, models, books>>

\* Also one that was left running.
JobEnds ==
    /\ job' = FALSE
    /\ UNCHANGED <<keeper, models, books>>

SparkStops ==
    /\ keeper = "spark" /\ models' = {}
    /\ UNCHANGED <<keeper, books, job>>

SparkStarts ==
    /\ keeper = "spark" /\ models = {} /\ ~job
    /\ AtMostOne(models')
    /\ UNCHANGED <<keeper, books, job>>

\* The books are brought up to date with whatever the Spark left.
HandBack ==
    /\ keeper = "spark" /\ keeper' = "mac"
    /\ AtMostOne(books') /\ models \subseteq books'
    /\ UNCHANGED <<models, job>>

Reboot ==
    /\ models' = {} /\ job' = FALSE
    /\ UNCHANGED <<keeper, books>>

\* One side acts out of turn, and from then on either may.
Tangle ==
    /\ keeper' = "both"
    /\ AtMostOne(models')

Next ==
    \/ MacStops \/ MacStarts \/ HandOver \/ JobStarts \/ JobEnds
    \/ SparkStops \/ SparkStarts \/ HandBack \/ Reboot \/ Tangle

Spec == Init /\ [][Next]_vars
=============================================================================

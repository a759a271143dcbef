---------------------------- MODULE WorkerBatches ----------------------------
(***************************************************************************)
(* The order of PaymentLifecycle among all the others: the two cron        *)
(* workers read at most BatchSize rows a run (take: 20), and what they     *)
(* skip or postpone - a payment under review, a gateway that says VALID    *)
(* and is not recorded, an inquiry that fails - is found again by the next *)
(* run.  The order is handled for certain only in a run whose query finds  *)
(* fewer other rows than the batch has places.                             *)
(***************************************************************************)
EXTENDS PaymentLifecycle

CONSTANT BatchSize    \* rows a worker reads in one run (20 in the code)

ASSUME BatchAssumption == BatchSize \in Nat \ {0}

VARIABLE others       \* other rows the query of a worker finds, the larger of the two counts

batchVars == <<vars, others>>

BatchInit == Init /\ others = 0

\* Other orders fall due, are settled, or are skipped and stay.
OthersChange ==
    /\ others' \in 0 .. BatchSize    \* more than a batch is as good as one
    /\ UNCHANGED vars

Step(A) == A /\ UNCHANGED others

BatchNext == Step(Next) \/ OthersChange

BatchSpec == BatchInit /\ [][BatchNext]_batchVars

\* The expiry query has no order and the one of reconciliation puts other rows
\* first: this order is among the rows taken for certain while the query finds
\* fewer than BatchSize others.
HasRoom == others < BatchSize

\* Started handlers end; the two cron workers run again and again, and their
\* gateway queries and transactions do not fail for ever.
Progress(p) == ~At(p, "idle") /\ Handler(p)

WorkersRun ==
    /\ \A p \in Procs : WF_batchVars(Step(Progress(p)))
    /\ SF_batchVars(Step(HasRoom /\ \E p \in Procs : ExpiryRead(p)))
    /\ SF_batchVars(Step(\E p \in Procs : ExpiryQuery(p)))
    /\ SF_batchVars(Step(\E p \in Procs : ExpiryCommit(p)))
    /\ \A a \in Attempts :
           SF_batchVars(Step(HasRoom /\ \E p \in Procs : ReconcileRead(p, a)))
    /\ SF_batchVars(Step(\E p \in Procs : ReconcileValid(p)))
    /\ SF_batchVars(Step(\E p \in Procs : proc[p].role = "reconcile" /\ ConfirmRead(p)))
    /\ SF_batchVars(Step(\E p \in Procs : proc[p].role = "reconcile" /\ ConfirmValidated(p)))
    /\ SF_batchVars(Step(\E p \in Procs : proc[p].role = "reconcile" /\ ConfirmCommit(p)))

FairSpec == BatchSpec /\ WorkersRun
----------------------------------------------------------------------------
\* The items of an unpaid order are not kept for ever: once its window is over
\* it is cancelled or paid, or an administrator is told - also when the
\* callback of a captured payment is lost and the expiry worker keeps waiting
\* for reconciliation to record it - unless the batch of a worker is again and
\* again full of other rows.
UnpaidOrderIsResolved ==
    \/ []<>~HasRoom
    \/ order = [status |-> "PENDING", pay |-> "PENDING", due |-> TRUE]
            ~> \/ order.status # "PENDING" \/ order.pay # "PENDING"
               \/ \E a \in Attempts : UnderReview(a)
============================================================================

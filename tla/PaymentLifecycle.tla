-------------------------- MODULE PaymentLifecycle --------------------------
(***************************************************************************)
(* One online order and its SSLCommerz payment attempts, with every        *)
(* handler that writes their rows: the browser and IPN callbacks           *)
(* (PaymentConfirmationService), the reconciliation and order-expiry cron  *)
(* workers, the customer's payment initiation and retry (PaymentsService), *)
(* and the administrator's status, courier, review and reconciliation      *)
(* endpoints.                                                              *)
(*                                                                         *)
(* A handler that awaits between reading a row and writing it is several   *)
(* actions, and its activation remembers what it read.  A transaction that *)
(* holds the row locks it decides by is one action.  TypeORM's save() of a *)
(* loaded entity writes every column back, so a save of an entity read     *)
(* without a lock replaces the row by the remembered one.                  *)
(***************************************************************************)
EXTENDS Integers, PaymentStateMachine

CONSTANTS
    Attempts,    \* payment attempts (tran_id) the order can have
    NoAttempt,   \* "no attempt" in an activation
    Procs,       \* handler activations that can be in flight together
    MaxRecon,    \* reconciliation attempts before RECONCILIATION_STUCK (5 in the code)
    MaxHeld,     \* bound on the net number of times the items are taken or given back
    Targets,     \* what administrators set the status of the order to
    Ops          \* the handlers that run in this instance, a subset of AllOps

AllOps == {"initiate", "retry", "fail", "cancel", "reconcile", "expiry",
           "status", "courier", "hold", "approve", "reject", "adminReconcile"}

ASSUME LifecycleAssumption ==
    /\ NoAttempt \notin Attempts
    /\ MaxRecon \in Nat \ {0}
    /\ MaxHeld \in Nat \ {0}
    /\ Ops \subseteq AllOps
    /\ Targets \subseteq OrderStatus

VARIABLES
    order,       \* the row of table orders
    att,         \* the rows of table payments
    gw,          \* what the gateway knows of each attempt
    held,        \* times the items were taken off the shelf minus times given back
    confirmed,   \* PAYMENT_CONFIRMED outbox rows of each attempt (2 = more than one)
    refunded,    \* attempts with an automatic refund row in payment_refunds
    overwritten, \* history: attempts whose row was replaced unread, see Save
    orderLost,   \* history: the order row was replaced unread
    proc         \* handler activations

vars == <<order, att, gw, held, confirmed, refunded, overwritten, orderLost, proc>>
rows == <<order, att, gw, held, confirmed, refunded, overwritten, orderLost>>

----------------------------------------------------------------------------
PaymentStatus == {"PENDING", "PAID", "UNPAID", "FAILED", "REVIEW_REQUIRED"}

OrderRow == [status : OrderStatus, pay : PaymentStatus, due : BOOLEAN]

AttemptRow ==
    [status : PaymentAttemptStatus \cup {"ABSENT"}, review : BOOLEAN, recon : 0 .. MaxRecon]

GatewayState == {"NONE", "OPEN", "VALID", "RISKY", "FAILED", "CANCELLED"}
Captured == {"VALID", "RISKY"}     \* the customer's money is with the gateway

AbsentRow == [status |-> "ABSENT", review |-> FALSE, recon |-> 0]
PlacedOrder == [status |-> "PENDING", pay |-> "PENDING", due |-> FALSE]

Steps == {"idle", "confirm", "validate", "commit", "failSave", "cancelRead", "cancelSave",
          "reconQuery", "reconSave", "expiryQuery", "revive", "session", "sessionSave",
          "refresh", "flagSave", "approved", "adminQuery", "adminCommit", "courierSave"}

Activation ==
    [pc : Steps, role : {"request", "retry", "approve", "reconcile", "expiry"},
     a : Attempts \cup {NoAttempt}, row : AttemptRow, ord : OrderRow,
     todo : SUBSET Attempts]

Idle == [pc |-> "idle", role |-> "request", a |-> NoAttempt, row |-> AbsentRow,
         ord |-> PlacedOrder, todo |-> {}]

\* The order was created by OrdersService.create: PENDING, its items deducted,
\* a payment window of 25 minutes set, no payment attempt yet.
Init ==
    /\ order = PlacedOrder
    /\ att = [a \in Attempts |-> AbsentRow]
    /\ gw = [a \in Attempts |-> "NONE"]
    /\ held = 1
    /\ confirmed = [a \in Attempts |-> 0]
    /\ refunded = {}
    /\ overwritten = {}
    /\ orderLost = FALSE
    /\ proc = [p \in Procs |-> Idle]

----------------------------------------------------------------------------
(* Helpers *)

At(p, step) == proc[p].pc = step
Become(p, activation) == proc' = [proc EXCEPT ![p] = activation]
Finish(p) == Become(p, Idle)

OpenOrPaid == {"PENDING", "PROCESSING", "UNKNOWN", "PAID"}  \* mutant: no conditional update
Open == {"PENDING", "PROCESSING", "UNKNOWN"}     \* statuses a payment is confirmed from
Exists(a) == att[a].status # "ABSENT"
UnderReview(a) == att[a].review \/ att[a].status = "PROCESSING"

\* repo.save(entity): the row becomes `new`, whatever happened to it since it
\* was read as `snapshot`.
Save(a, snapshot, new) ==
    /\ att' = [att EXCEPT ![a] = new]
    /\ overwritten' = IF att[a] = snapshot THEN overwritten ELSE overwritten \cup {a}

OnTimeForAttempt(a) == att[a].status \in Open     \* mutant: the order is not looked at
\* The payment arrived while the order and the attempt still wait for it.
OnTime(a) == att[a].status \in Open /\ order.status # "CANCELLED"

NoEvent(a) == UNCHANGED confirmed                 \* mutant: the event is left out
Emit(a) == confirmed' = [confirmed EXCEPT ![a] = IF @ = 2 THEN 2 ELSE @ + 1]

\* The order-summary rows are stored under orders.id; looked up under the
\* human-readable orders.orderId nothing is found.
HasSummaries(key) == key = "id"

----------------------------------------------------------------------------
(* The gateway and the clock (external) *)

GatewaySettles(a) ==
    /\ gw[a] = "OPEN"
    /\ \E outcome \in {"VALID", "RISKY", "FAILED", "CANCELLED"} :
           gw' = [gw EXCEPT ![a] = outcome]
    /\ UNCHANGED <<order, att, held, confirmed, refunded, overwritten, orderLost, proc>>

PaymentWindowElapses ==
    /\ ~order.due
    /\ order' = [order EXCEPT !.due = TRUE]
    /\ UNCHANGED <<att, gw, held, confirmed, refunded, overwritten, orderLost, proc>>

----------------------------------------------------------------------------
(* PaymentConfirmationService.confirmPayment *)

\* The success callback or the inbox worker delivers a val_id, perhaps again.
ConfirmCall(p, a) ==
    /\ At(p, "idle")
    /\ gw[a] \in Captured \cup {"FAILED"}
    /\ Become(p, [Idle EXCEPT !.pc = "confirm", !.a = a])
    /\ UNCHANGED rows

\* A call that returns: an approving administrator is told the result.
ConfirmReturns(p) ==
    IF proc[p].role = "approve"
    THEN Become(p, [Idle EXCEPT !.pc = "approved", !.role = "approve", !.a = proc[p].a])
    ELSE Finish(p)

\* Step 1: read without a lock; an attempt that is PAID is left alone.
ConfirmRead(p) ==
    LET a == proc[p].a IN
    /\ At(p, "confirm")
    /\ Exists(a)
    /\ \/ att[a].status = "PAID" /\ ConfirmReturns(p)
       \/ att[a].status # "PAID" /\ Become(p, [proc[p] EXCEPT !.pc = "validate", !.row = att[a]])
    /\ UNCHANGED rows

\* Steps 2 and 3: ask the gateway, without a lock.
ConfirmUnvalidated(p) ==   \* mutant: the gateway's answer is not looked at
    /\ At(p, "validate")
    /\ Become(p, [proc[p] EXCEPT !.pc = "commit", !.row = AbsentRow])
    /\ UNCHANGED rows
ConfirmValidated(p) ==
    /\ At(p, "validate")
    /\ gw[proc[p].a] \in Captured
    /\ Become(p, [proc[p] EXCEPT !.pc = "commit", !.row = AbsentRow])
    /\ UNCHANGED rows

ConfirmInvalid(p) ==
    /\ At(p, "validate")
    /\ gw[proc[p].a] \notin Captured
    /\ CanTransition(proc[p].row.status, "FAILED")
    /\ Become(p, [proc[p] EXCEPT !.pc = "failSave"])
    /\ UNCHANGED rows

\* No answer, or an answer for another tran_id, amount or currency.
ConfirmRefused(p) ==
    /\ At(p, "validate")
    /\ ConfirmReturns(p)
    /\ UNCHANGED rows

\* Step 4: one transaction under the order lock and the payment lock.
ConfirmAlreadyPaid(p) ==
    /\ At(p, "commit")
    /\ att[proc[p].a].status = "PAID"
    /\ ConfirmReturns(p)
    /\ UNCHANGED rows

ConfirmFlagRisk(p) ==
    LET a == proc[p].a IN
    /\ At(p, "commit")
    /\ att[a].status # "PAID"
    /\ gw[a] = "RISKY"
    /\ att' = [att EXCEPT ![a].status = "PROCESSING", ![a].review = TRUE]
    /\ order' = [order EXCEPT !.pay = "REVIEW_REQUIRED"]
    /\ ConfirmReturns(p)
    /\ UNCHANGED <<gw, held, confirmed, refunded, overwritten, orderLost>>

ConfirmOrder(p) ==
    LET a == proc[p].a IN
    /\ At(p, "commit")
    /\ gw[a] # "RISKY"
    /\ OnTime(a)
    /\ att' = [att EXCEPT ![a].status = "PAID", ![a].review = FALSE]
    /\ order' = [order EXCEPT !.status = "ORDER_PLACED", !.pay = "PAID"]
    /\ Emit(a)
    /\ ConfirmReturns(p)
    /\ UNCHANGED <<gw, held, refunded, overwritten, orderLost>>

\* tryReReserveStock: looks the items up under the human-readable order id.
TryReReserveStock == HasSummaries("orderId")

\* Money for an order that was cancelled, or for an attempt that was given up:
\* the stock is taken again and the order revived, or an automatic refund is
\* recorded.  A second refund row of the attempt breaks the unique idempotency
\* key and rolls the transaction back (Abort).
LatePayment(p) ==
    LET a == proc[p].a
        recovered == TryReReserveStock
    IN
    /\ At(p, "commit")
    /\ gw[a] # "RISKY"
    /\ att[a].status # "PAID"
    /\ ~OnTime(a)
    /\ ~recovered => a \notin refunded
    /\ att' = [att EXCEPT ![a].status = "PAID", ![a].review = ~recovered]
    /\ order' = IF recovered
                THEN [order EXCEPT !.status = "ORDER_PLACED", !.pay = "PAID"]
                ELSE [order EXCEPT !.pay = "REVIEW_REQUIRED"]
    /\ held' = IF recovered THEN held + 1 ELSE held
    /\ IF recovered
       THEN Emit(a) /\ UNCHANGED refunded
       ELSE refunded' = refunded \cup {a} /\ UNCHANGED confirmed
    /\ ConfirmReturns(p)
    /\ UNCHANGED <<gw, overwritten, orderLost>>

----------------------------------------------------------------------------
(* handleFailedAttempt and handleCancelledAttempt: read, check, save.  The  *)
(* callbacks that start them are public: nothing asks what the gateway says *)
(* of the attempt.                                                          *)

FailRead(p, a) ==
    /\ "fail" \in Ops
    /\ At(p, "idle")
    /\ Exists(a)
    /\ CanTransition(att[a].status, "FAILED")
    /\ Become(p, [Idle EXCEPT !.pc = "failSave", !.a = a, !.row = att[a]])
    /\ UNCHANGED rows

FailSave(p) ==
    LET row == proc[p].row IN
    /\ At(p, "failSave")
    /\ Save(proc[p].a, row, [row EXCEPT !.status = "FAILED"])
    /\ Finish(p)
    /\ UNCHANGED <<order, gw, held, confirmed, refunded, orderLost>>

CancelCall(p, a) ==
    /\ "cancel" \in Ops
    /\ At(p, "idle")
    /\ Become(p, [Idle EXCEPT !.pc = "cancelRead", !.a = a])
    /\ UNCHANGED rows

CancelRead(p) ==
    LET a == proc[p].a IN
    /\ At(p, "cancelRead")
    /\ Exists(a)
    /\ CanTransition(att[a].status, "CANCELLED")
    /\ Become(p, [proc[p] EXCEPT !.pc = "cancelSave", !.row = att[a]])
    /\ UNCHANGED rows

CancelSave(p) ==
    LET row == proc[p].row IN
    /\ At(p, "cancelSave")
    /\ Save(proc[p].a, row, [row EXCEPT !.status = "CANCELLED"])
    /\ Finish(p)
    /\ UNCHANGED <<order, gw, held, confirmed, refunded, orderLost>>

----------------------------------------------------------------------------
(* ReconciliationService, one worker at a time under GET_LOCK *)

CandidateOnceMore(a) ==   \* mutant: one inspection too many
    att[a].status \in Open /\ att[a].recon <= MaxRecon
Candidate(a) ==
    att[a].status \in Open /\ att[a].recon < MaxRecon

Running(role) == \E p \in Procs : proc[p].role = role

ReconcileRead(p, a) ==
    /\ "reconcile" \in Ops
    /\ At(p, "idle")
    /\ ~Running("reconcile")
    /\ Candidate(a)
    /\ Become(p, [Idle EXCEPT !.pc = "reconQuery", !.role = "reconcile", !.a = a, !.row = att[a]])
    /\ UNCHANGED rows

\* The gateway says VALID: confirmPayment reads the row again.
ReconcileValid(p) ==
    /\ At(p, "reconQuery")
    /\ gw[proc[p].a] \in Captured
    /\ Become(p, [proc[p] EXCEPT !.pc = "confirm", !.row = AbsentRow])
    /\ UNCHANGED rows

\* FAILED: handleFailedAttempt is given the row read with the batch.
ReconcileFailed(p) ==
    /\ At(p, "reconQuery")
    /\ gw[proc[p].a] = "FAILED"
    /\ CanTransition(proc[p].row.status, "FAILED")
    /\ Become(p, [proc[p] EXCEPT !.pc = "failSave"])
    /\ UNCHANGED rows

\* CANCELLED or EXPIRED, or UNATTEMPTED while the customer has yet to pay.
ReconcileCancelled(p) ==
    /\ At(p, "reconQuery")
    /\ gw[proc[p].a] \in {"CANCELLED", "OPEN"}
    /\ Become(p, [proc[p] EXCEPT !.pc = "cancelRead", !.row = AbsentRow])
    /\ UNCHANGED rows

\* Still pending at the gateway: back off, give up after MaxRecon.
ReconcilePending(p) ==
    /\ At(p, "reconQuery")
    /\ gw[proc[p].a] = "OPEN"
    /\ Become(p, [proc[p] EXCEPT !.pc = "reconSave"])
    /\ UNCHANGED rows

BackOffSilently(row) == [row EXCEPT !.recon = @ + 1]   \* mutant: nobody is told
BackOff(row) == [row EXCEPT !.recon = @ + 1, !.review = @ \/ row.recon + 1 >= MaxRecon]

ReconcileSave(p) ==
    /\ At(p, "reconSave")
    /\ Save(proc[p].a, proc[p].row, BackOff(proc[p].row))
    /\ Finish(p)
    /\ UNCHANGED <<order, gw, held, confirmed, refunded, orderLost>>

----------------------------------------------------------------------------
(* OrderExpiryWorker, one worker at a time under GET_LOCK *)

ExpiryRead(p) ==
    /\ "expiry" \in Ops
    /\ At(p, "idle")
    /\ ~Running("expiry")
    /\ order = [status |-> "PENDING", pay |-> "PENDING", due |-> TRUE]
    /\ \A a \in Attempts : att[a].status # "PAID" /\ ~UnderReview(a)
    /\ Become(p, [Idle EXCEPT !.pc = "expiryQuery", !.role = "expiry",
                              !.todo = {a \in Attempts : att[a].status \in {"PENDING", "UNKNOWN"}}])
    /\ UNCHANGED rows

\* The gateway is asked about each open attempt: VALID postpones (Abort).
ExpiryQuery(p) ==
    /\ At(p, "expiryQuery")
    /\ \E a \in proc[p].todo :
           /\ gw[a] \notin Captured
           /\ Become(p, [proc[p] EXCEPT !.todo = @ \ {a}])
    /\ UNCHANGED rows

\* The transaction under the order lock: restock, expire the open attempts,
\* cancel the order.
AnyOrder == TRUE                                   \* mutant: not checked under the lock
StillPayable == order.status = "PENDING" /\ order.pay # "PAID"

ExpiryCommit(p) ==
    /\ At(p, "expiryQuery")
    /\ proc[p].todo = {}
    /\ StillPayable
    /\ held' = IF HasSummaries("orderId") THEN held - 1 ELSE held
    /\ att' = [a \in Attempts |-> IF att[a].status \in {"PENDING", "UNKNOWN"}
                                  THEN [att[a] EXCEPT !.status = "EXPIRED"]
                                  ELSE att[a]]
    /\ order' = [order EXCEPT !.status = "CANCELLED", !.pay = "UNPAID"]
    /\ Finish(p)
    /\ UNCHANGED <<gw, confirmed, refunded, overwritten, orderLost>>

----------------------------------------------------------------------------
(* PaymentsService.initiateSslcommerzPayment and retryPayment *)

\* Two minutes after the last PENDING attempt a new session may be opened.
InitiateRead(p) ==
    /\ "initiate" \in Ops
    /\ At(p, "idle")
    /\ order.pay # "PAID"
    /\ order.status # "CANCELLED"
    /\ Become(p, [Idle EXCEPT !.pc = "session"])
    /\ UNCHANGED rows

RetryRead(p) ==
    /\ "retry" \in Ops
    /\ At(p, "idle")
    /\ order.pay # "PAID"
    /\ \A a \in Attempts : att[a].status # "PAID" /\ ~UnderReview(a)
    /\ Become(p, [Idle EXCEPT !.pc = IF order.status = "CANCELLED" THEN "revive" ELSE "session",
                              !.role = "retry"])
    /\ UNCHANGED rows

\* The transaction under the order lock, when the items are in stock.
RetryRevive(p) ==
    /\ At(p, "revive")
    /\ order.pay # "PAID"
    /\ held < MaxHeld
    /\ held' = held + 1
    /\ order' = PlacedOrder
    /\ Become(p, [proc[p] EXCEPT !.pc = "session"])
    /\ UNCHANGED <<att, gw, confirmed, refunded, overwritten, orderLost>>

OpenSession(p) ==
    /\ At(p, "session")
    /\ \E a \in Attempts :
           /\ gw[a] = "NONE"
           /\ gw' = [gw EXCEPT ![a] = "OPEN"]
           /\ Become(p, [proc[p] EXCEPT !.pc = "sessionSave", !.a = a])
    /\ UNCHANGED <<order, att, held, confirmed, refunded, overwritten, orderLost>>

SaveSession(p) ==
    /\ At(p, "sessionSave")
    /\ att' = [att EXCEPT ![proc[p].a] = [AbsentRow EXCEPT !.status = "PENDING"]]
    /\ IF proc[p].role = "retry" /\ order.due
       THEN Become(p, [Idle EXCEPT !.pc = "refresh", !.role = "retry"])
       ELSE Finish(p)
    /\ UNCHANGED <<order, gw, held, confirmed, refunded, overwritten, orderLost>>

RefreshExpiry(p) ==
    /\ At(p, "refresh")
    /\ order' = [order EXCEPT !.due = FALSE]
    /\ Finish(p)
    /\ UNCHANGED <<att, gw, held, confirmed, refunded, overwritten, orderLost>>

----------------------------------------------------------------------------
(* The administrator *)

\* OrdersService.updateOrderStatus, one transaction under the order lock
UpdateOrderStatus(target) ==
    LET restock == order.status \in DeductedStatusGroup /\ target \in RestockedStatusGroup IN
    /\ "status" \in Ops
    /\ target \in Targets \cap AllowedOrderTransitions[order.status]
    /\ restock => held > -MaxHeld
    /\ held' = IF restock THEN held - 1 ELSE held
    /\ order' = [order EXCEPT !.status = target]
    /\ UNCHANGED <<att, gw, confirmed, refunded, overwritten, orderLost, proc>>

\* OrdersService.updateCourierInfo: read, then save the whole row (a window
\* that is over stays over)
CourierRead(p) ==
    /\ "courier" \in Ops
    /\ At(p, "idle")
    /\ Become(p, [Idle EXCEPT !.pc = "courierSave", !.ord = order])
    /\ UNCHANGED rows

CourierSave(p) ==
    /\ At(p, "courierSave")
    /\ order' = [proc[p].ord EXCEPT !.due = @ \/ order.due]
    /\ orderLost' = (orderLost \/ order' # order)
    /\ Finish(p)
    /\ UNCHANGED <<att, gw, held, confirmed, refunded, overwritten>>

\* adminReviewAction HOLD
HoldRead(p, a) ==
    /\ "hold" \in Ops
    /\ At(p, "idle")
    /\ Exists(a)
    /\ Become(p, [Idle EXCEPT !.pc = "flagSave", !.a = a, !.row = att[a]])
    /\ UNCHANGED rows

FlagSave(p) ==
    LET row == proc[p].row IN
    /\ At(p, "flagSave")
    /\ Save(proc[p].a, row, [row EXCEPT !.review = TRUE])
    /\ Finish(p)
    /\ UNCHANGED <<order, gw, held, confirmed, refunded, orderLost>>

\* adminReviewAction APPROVE: the gateway must say VALID, then confirmPayment
ApproveCall(p, a) ==
    /\ "approve" \in Ops
    /\ At(p, "idle")
    /\ Exists(a)
    /\ gw[a] \in Captured
    /\ Become(p, [Idle EXCEPT !.pc = "confirm", !.role = "approve", !.a = a])
    /\ UNCHANGED rows

\* ... and whatever confirmPayment returned, "verified and marked as PAID"
ApproveAnswer(p) ==
    /\ At(p, "approved")
    /\ Finish(p)
    /\ UNCHANGED rows

\* adminReviewAction REJECT, one transaction
AdminReject(a) ==
    LET cancels == order.status # "CANCELLED" IN
    /\ "reject" \in Ops
    /\ Exists(a)
    /\ cancels => held > -MaxHeld
    /\ att' = [att EXCEPT ![a].status = "FAILED", ![a].review = FALSE]
    /\ overwritten' = overwritten \cup {a}
    /\ held' = IF cancels THEN held - 1 ELSE held
    /\ order' = IF cancels THEN [order EXCEPT !.status = "CANCELLED", !.pay = "FAILED"] ELSE order
    /\ UNCHANGED <<gw, confirmed, refunded, orderLost, proc>>

\* adminVerifiedReconciliation: read, ask the gateway, then a transaction
AdminReconcileRead(p, a) ==
    /\ "adminReconcile" \in Ops
    /\ At(p, "idle")
    /\ Exists(a)
    /\ att[a].status # "PAID"
    /\ Become(p, [Idle EXCEPT !.pc = "adminQuery", !.a = a, !.row = att[a]])
    /\ UNCHANGED rows

AdminReconcileMatch(p) ==
    /\ At(p, "adminQuery")
    /\ gw[proc[p].a] \in Captured
    /\ Become(p, [Idle EXCEPT !.pc = "adminCommit", !.a = proc[p].a])
    /\ UNCHANGED rows

\* Another amount or currency than the order's: the row that was read is flagged.
AdminReconcileMismatch(p) ==
    /\ At(p, "adminQuery")
    /\ gw[proc[p].a] \in Captured
    /\ Become(p, [proc[p] EXCEPT !.pc = "flagSave"])
    /\ UNCHANGED rows

AdminReconcileCommit(p) ==
    LET a == proc[p].a IN
    /\ At(p, "adminCommit")
    /\ att[a].status # "PAID"
    /\ att' = [att EXCEPT ![a].status = "PAID", ![a].review = FALSE]
    /\ order' = [order EXCEPT !.status = "ORDER_PLACED", !.pay = "PAID"]
    /\ Emit(a)
    /\ Finish(p)
    /\ UNCHANGED <<gw, held, refunded, overwritten, orderLost>>

----------------------------------------------------------------------------
\* An activation ends here with nothing more written: a guard of the handler
\* is not met, a call to the gateway or the database fails and its transaction
\* rolls back, or the process dies.
Abort(p) ==
    /\ ~At(p, "idle")
    /\ Finish(p)
    /\ UNCHANGED rows

ConfirmCommit(p) ==
    ConfirmAlreadyPaid(p) \/ ConfirmFlagRisk(p) \/ ConfirmOrder(p) \/ LatePayment(p)

Confirm(p) ==
    \/ ConfirmRead(p) \/ ConfirmValidated(p) \/ ConfirmInvalid(p) \/ ConfirmRefused(p)
    \/ ConfirmCommit(p)

Reconcile(p) ==
    \/ ReconcileValid(p) \/ ReconcileFailed(p) \/ ReconcileCancelled(p)
    \/ ReconcilePending(p) \/ ReconcileSave(p)

Handler(p) ==
    \/ Confirm(p)
    \/ FailSave(p) \/ CancelRead(p) \/ CancelSave(p)
    \/ Reconcile(p)
    \/ ExpiryRead(p) \/ ExpiryQuery(p) \/ ExpiryCommit(p)
    \/ InitiateRead(p) \/ RetryRead(p) \/ RetryRevive(p)
    \/ OpenSession(p) \/ SaveSession(p) \/ RefreshExpiry(p)
    \/ CourierRead(p) \/ CourierSave(p)
    \/ FlagSave(p) \/ ApproveAnswer(p)
    \/ AdminReconcileMatch(p) \/ AdminReconcileMismatch(p) \/ AdminReconcileCommit(p)
    \/ Abort(p)

Call(p, a) ==
    \/ ConfirmCall(p, a) \/ FailRead(p, a) \/ CancelCall(p, a) \/ ReconcileRead(p, a)
    \/ HoldRead(p, a) \/ ApproveCall(p, a) \/ AdminReconcileRead(p, a)

Next ==
    \/ \E p \in Procs : Handler(p)
    \/ \E p \in Procs, a \in Attempts : Call(p, a)
    \/ \E a \in Attempts : GatewaySettles(a) \/ AdminReject(a)
    \/ \E target \in OrderStatus : UpdateOrderStatus(target)
    \/ PaymentWindowElapses

Spec == Init /\ [][Next]_vars

----------------------------------------------------------------------------
TypeOK ==
    /\ order \in OrderRow
    /\ att \in [Attempts -> AttemptRow]
    /\ gw \in [Attempts -> GatewayState]
    /\ held \in Int
    /\ confirmed \in [Attempts -> 0 .. 2]
    /\ refunded \subseteq Attempts
    /\ overwritten \subseteq Attempts
    /\ orderLost \in BOOLEAN
    /\ proc \in [Procs -> Activation]

----------------------------------------------------------------------------
(* What the handlers keep *)

\* No row says PAID unless the gateway holds the money: neither a payment
\* attempt nor, through any of its attempts, the order.  Every handler that
\* writes a row it read earlier could break this.
PaidMeansCaptured ==
    /\ \A a \in Attempts : att[a].status = "PAID" => gw[a] \in Captured
    /\ order.pay = "PAID" => \E a \in Attempts : gw[a] \in Captured

\* Callbacks, IPN, reconciliation and administrators may all confirm the same
\* attempt: its money is turned into one PAYMENT_CONFIRMED event or into one
\* automatic refund, never both, never two, and never before the attempt is
\* PAID - unless its row was replaced by a save that did not look.
OneConsequence ==
    \A a \in Attempts \ overwritten :
        IF att[a].status = "PAID"
        THEN (confirmed[a] = 1) # (a \in refunded) /\ confirmed[a] < 2
        ELSE confirmed[a] = 0 /\ a \notin refunded

\* A PAID attempt is left PAID by every step but an unlocked save of an older
\* row and the administrator's REJECT.
PaidStays ==
    [][\A a \in Attempts :
          att[a].status = "PAID" /\ att'[a].status # "PAID" => a \in overwritten']_vars

\* Whoever sees a PAID order finds the PAYMENT_CONFIRMED event of one of its
\* attempts in the outbox: the order and the event are written together.
PaidOrderIsAnnounced ==
    order.pay = "PAID" => \E a \in Attempts : confirmed[a] > 0

\* The expiry worker and a confirmation that ran meanwhile: an order the worker
\* left UNPAID has no confirmed attempt, as long as no whole-row save undid the
\* order and no retry brought it back to PENDING.
ExpiredOrderUnconfirmed ==
    order.pay = "UNPAID" /\ ~orderLost => \A a \in Attempts : confirmed[a] = 0

\* An order that will be shipped has its items off the shelf, however often it
\* was cancelled, paid late, rejected and revived.  (Without the two
\* administrator endpoints that set the status of any order.)
ActiveOrderHoldsStock ==
    order.status \in DeductedStatusGroup => held >= 1

----------------------------------------------------------------------------
(* What a note of the expiry worker says, and the worker does not keep *)

\* order-expiry.worker.ts:272 "Order payment window expired without successful
\* payment. Stock restored."
ExpiredOrderIsRestocked ==
    order.status = "CANCELLED" /\ order.pay = "UNPAID" => held = 0
============================================================================

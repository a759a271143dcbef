---------------------------- MODULE PaymentRefunds ----------------------------
(***************************************************************************)
(* The refunds of one PAID payment attempt: the administrator's two        *)
(* endpoints (PaymentsService.initiateAdminRefund and adminRefundAction),  *)
(* the automatic refund a late payment left behind, and the gateway that   *)
(* returns the money.  A refund is opened in a transaction, the gateway is *)
(* asked after the commit, and its answer is saved with the entity the     *)
(* transaction created.                                                    *)
(***************************************************************************)
EXTENDS Integers, FiniteSets, Functions

CONSTANTS
    Keys,     \* idempotency keys; payment_refunds has one row for each
    Automatic, \* the key of the automatic refund
    Amount    \* the amount of the payment, in units of the smallest refund

ASSUME RefundAssumption ==
    /\ IsFiniteSet(Keys)
    /\ Automatic \in Keys
    /\ Amount \in Nat \ {0}

VARIABLES
    refund,      \* the rows of payment_refunds
    orderPay,    \* orders.paymentStatus
    call,        \* what initiateAdminRefund, after its commit, has yet to do
    returned,    \* refunds whose money the gateway returned
    misjudged,   \* history: a refund was marked otherwise than the gateway did
    overwritten  \* history: the answer of the gateway replaced a mark

refundVars == <<refund, orderPay, call, returned, misjudged, overwritten>>

----------------------------------------------------------------------------
RefundStatus == {"PENDING", "PROCESSING", "SUCCEEDED", "FAILED", "UNKNOWN"}
RefundRow == [status : RefundStatus \cup {"ABSENT"}, amount : 0 .. Amount]
OrderPaymentStatus == {"PAID", "REVIEW_REQUIRED", "PARTIALLY_REFUNDED", "REFUNDED"}
NoRefund == [status |-> "ABSENT", amount |-> 0]

\* The order was paid in time, or its payment came late and an automatic
\* refund of the whole amount was recorded with it.
RefundsInit ==
    /\ \/ refund = [k \in Keys |-> NoRefund] /\ orderPay = "PAID"
       \/ /\ refund = [k \in Keys |-> IF k = Automatic
                                      THEN [status |-> "PENDING", amount |-> Amount]
                                      ELSE NoRefund]
          /\ orderPay = "REVIEW_REQUIRED"
    /\ call = [k \in Keys |-> "none"]
    /\ returned = {}
    /\ misjudged = FALSE
    /\ overwritten = FALSE

RefundTotal(keys) == SumFunctionOnSet([k \in Keys |-> refund[k].amount], keys)
Succeeded == {k \in Keys : refund[k].status = "SUCCEEDED"}

InFlightKnown == {"PENDING", "PROCESSING"}            \* mutant: UNKNOWN taken for FAILED
InFlight == {"PENDING", "PROCESSING", "UNKNOWN"}

\* initiateAdminRefund, the transaction under the payment lock.  The gateway is
\* asked when the payment was made through it.
Initiate(k, amount) ==
    /\ k # Automatic
    /\ refund[k].status = "ABSENT"
    /\ \A other \in Keys : refund[other].status \notin InFlight
    /\ amount <= Amount - RefundTotal(Succeeded)
    /\ refund' = [refund EXCEPT ![k] = [status |-> "PENDING", amount |-> amount]]
    /\ call' \in {call, [call EXCEPT ![k] = "ask"]}
    /\ UNCHANGED <<orderPay, returned, misjudged, overwritten>>

\* The gateway accepts and returns the money, or rejects the refund ...
GatewayAnswers(k) ==
    /\ call[k] = "ask"
    /\ \/ /\ call' = [call EXCEPT ![k] = "PROCESSING"]
          /\ returned' = returned \cup {k}
       \/ /\ call' = [call EXCEPT ![k] = "FAILED"]
          /\ UNCHANGED returned
    /\ UNCHANGED <<refund, orderPay, misjudged, overwritten>>

AfterTimeoutFailed == "FAILED"                        \* mutant: a timeout counts as a failure
AfterTimeout == "UNKNOWN"

\* ... or the answer is lost, whatever the gateway did.
GatewayTimesOut(k) ==
    /\ call[k] = "ask"
    /\ call' = [call EXCEPT ![k] = AfterTimeout]
    /\ returned' \in {returned, returned \cup {k}}
    /\ UNCHANGED <<refund, orderPay, misjudged, overwritten>>

SaveUnawaited(k) ==                           \* mutant: saved before the answer is there
    /\ call[k] # "none"
    /\ refund' = [refund EXCEPT ![k].status = call[k]]
    /\ overwritten' = (overwritten \/ refund[k].status # "PENDING")
    /\ call' = [call EXCEPT ![k] = "none"]
    /\ UNCHANGED <<orderPay, returned, misjudged>>
\* The entity of the transaction is saved with the answer, over any mark.
SaveAnswer(k) ==
    /\ call[k] \in {"PROCESSING", "FAILED", "UNKNOWN"}
    /\ refund' = [refund EXCEPT ![k].status = call[k]]
    /\ overwritten' = (overwritten \/ refund[k].status # "PENDING")
    /\ call' = [call EXCEPT ![k] = "none"]
    /\ UNCHANGED <<orderPay, returned, misjudged>>

\* The process dies; the refund stays as it is, perhaps PENDING for ever.
RefundCrash(k) ==
    /\ call[k] # "none"
    /\ call' = [call EXCEPT ![k] = "none"]
    /\ returned' \in IF call[k] = "ask" THEN {returned, returned \cup {k}} ELSE {returned}
    /\ UNCHANGED <<refund, orderPay, misjudged, overwritten>>

----------------------------------------------------------------------------
\* The administrator marks a refund that is settled, as it was settled.
Judged(k, succeeded) ==
    misjudged' = (misjudged \/ call[k] # "none" \/ (k \in returned) # succeeded)

StatusOfRest(k) ==                            \* mutant: the refund itself is not counted
    IF RefundTotal(Succeeded \ {k}) >= Amount THEN "REFUNDED" ELSE "PARTIALLY_REFUNDED"
StatusAfter(k) ==
    IF RefundTotal(Succeeded \cup {k}) >= Amount THEN "REFUNDED" ELSE "PARTIALLY_REFUNDED"

\* adminRefundAction MARK_SUCCEEDED, one transaction.  The money of a refund
\* that was not asked of the gateway is returned by hand.
MarkSucceeded(k) ==
    /\ refund[k].status \notin {"ABSENT", "SUCCEEDED"}
    /\ refund' = [refund EXCEPT ![k].status = "SUCCEEDED"]
    /\ orderPay' = StatusAfter(k)
    /\ Judged(k, TRUE)
    /\ UNCHANGED <<call, returned, overwritten>>

PayByHand(k) ==
    /\ refund[k].status \in InFlight
    /\ call[k] = "none"
    /\ k \notin returned
    /\ returned' = returned \cup {k}
    /\ UNCHANGED <<refund, orderPay, call, misjudged, overwritten>>

\* MARK_FAILED, from every state but SUCCEEDED
MarkFailed(k) ==
    /\ refund[k].status \notin {"ABSENT", "SUCCEEDED"}
    /\ refund' = [refund EXCEPT ![k].status = "FAILED"]
    /\ Judged(k, FALSE)
    /\ UNCHANGED <<orderPay, call, returned, overwritten>>

RefundsNext ==
    \E k \in Keys :
        \/ \E amount \in 1 .. Amount : Initiate(k, amount)
        \/ GatewayAnswers(k) \/ GatewayTimesOut(k) \/ SaveAnswer(k) \/ RefundCrash(k)
        \/ MarkSucceeded(k) \/ MarkFailed(k) \/ PayByHand(k)

RefundsSpec == RefundsInit /\ [][RefundsNext]_refundVars

----------------------------------------------------------------------------
RefundsTypeOK ==
    /\ refund \in [Keys -> RefundRow]
    /\ orderPay \in OrderPaymentStatus
    /\ call \in [Keys -> {"none", "ask", "PROCESSING", "FAILED", "UNKNOWN"}]
    /\ returned \subseteq Keys
    /\ misjudged \in BOOLEAN
    /\ overwritten \in BOOLEAN

\* No more money goes back than came in, through timeouts, lost answers and
\* crashes, as long as every mark an administrator sets is right: a refund of
\* unknown outcome blocks the next one, and a refund is measured against what
\* has succeeded.
ReturnsWithinPayment ==
    ~misjudged => RefundTotal(returned) <= Amount

\* The payment status of the order tells what the refund rows add up to, as
\* long as no answer of the gateway replaced a mark.
OrderTellsRefunds ==
    ~overwritten =>
        /\ orderPay = "REFUNDED" <=> RefundTotal(Succeeded) >= Amount
        /\ orderPay = "PARTIALLY_REFUNDED" <=> RefundTotal(Succeeded) \in 1 .. Amount - 1

=============================================================================

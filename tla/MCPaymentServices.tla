-------------------------- MODULE MCPaymentServices --------------------------
(***************************************************************************)
(* The inbox of payment notifications and the refunds share no rows; they  *)
(* are checked in one run, each with a small instance: in a behaviour one  *)
(* of them runs and the other rests in an initial state.                   *)
(***************************************************************************)
EXTENDS WebhookInbox, PaymentRefunds

VARIABLE part

servicesVars == <<inboxVars, refundVars, part>>

ServicesInit ==
    /\ part \in {"inbox", "refunds"}
    /\ InboxInit /\ RefundsInit
    /\ part = "inbox" => orderPay = "PAID"

ServicesNext ==
    \/ part = "inbox" /\ InboxNext /\ UNCHANGED <<refundVars, part>>
    \/ part = "refunds" /\ RefundsNext /\ UNCHANGED <<inboxVars, part>>

\* An inbox that rests is empty and owes nothing.
ServicesSpec == ServicesInit /\ [][ServicesNext]_servicesVars /\ Polls

\* The rows of both keep their types.
ServicesTypeOK == InboxTypeOK /\ RefundsTypeOK
==============================================================================

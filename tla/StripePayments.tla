--------------------------- MODULE StripePayments ---------------------------
(***************************************************************************)
(* The Stripe side of PaymentsService: PaymentIntents opened for an order, *)
(* an order paid before it is placed, an order placed by a checkout        *)
(* session; the webhook, the administrator's reconciliation, and the       *)
(* Stripe branch of the order expiry worker.                               *)
(*                                                                         *)
(* One order.  A Stripe call and the transaction that follows it are       *)
(* steps of their own.  A save() of an entity read before writes every     *)
(* column back, as in PaymentLifecycle.                                    *)
(***************************************************************************)
EXTENDS PaymentStateMachine, Naturals, FiniteSets

CONSTANTS
    Intents,     \* payment attempts through initiateStripePayment, with their intents
    Bare,        \* the intent of createPayment, which knows no order
    Own,         \* the intent of the checkout session, which knows no order either
    Requests,    \* handlers in flight
    Nobody,      \* no intent
    MaxAnnounced \* bound on the events of one payment

ASSUME StripeAssumption ==
    /\ Bare # Own /\ {Bare, Own} \cap Intents = {} /\ Nobody \notin Intents \cup {Bare, Own}
    /\ MaxAnnounced \in Nat

VARIABLES
    kind,      \* how the order is made: "orderFirst", "paidFirst" or "session"
    matches,   \* whether amount and currency of Bare or Own are those of the order
    sorder,    \* the row of orders
    spay,      \* rows of payments, one for each intent
    intent,    \* the PaymentIntents at Stripe
    session,   \* the checkout session at Stripe
    hooks,     \* webhook events Stripe has to deliver
    announced, \* PAYMENT_CONFIRMED events in the outbox
    undone,    \* history: payments and order that were PAID and are not, by whom ever
    judged,    \* history: the intents the expiry worker asked about when it cancelled
    req        \* the handlers

stripeVars == <<kind, matches, sorder, spay, intent, session, hooks, announced, undone, judged, req>>

Orderless == {Bare, Own}
All == Intents \cup Orderless

PaymentState == {"UNPAID", "PENDING", "PAID", "FAILED", "REVIEW_REQUIRED"}
OrderRow ==
    [status : OrderStatus \cup {"ABSENT"}, pay : PaymentState, intent : All \cup {Nobody}, late : BOOLEAN]
\* linked: tranId is the id of the intent; fresh: sessionExpiresAt is to come.
PaymentRow ==
    [status : PaymentAttemptStatus \cup {"ABSENT"}, linked : BOOLEAN, fresh : BOOLEAN, review : BOOLEAN]
NoRow == [status |-> "ABSENT", linked |-> FALSE, fresh |-> FALSE, review |-> FALSE]
NewRow == [status |-> "PENDING", linked |-> FALSE, fresh |-> TRUE, review |-> FALSE]

Idle == [at |-> "idle", a |-> Nobody, row |-> NoRow, todo |-> {}, asked |-> {}]

StripeInit ==
    /\ kind \in {"orderFirst", "paidFirst", "session"}
    /\ matches \in IF kind = "orderFirst" THEN {TRUE} ELSE BOOLEAN
    /\ sorder = [status |-> IF kind = "orderFirst" THEN "PENDING" ELSE "ABSENT",
                 pay |-> "PENDING", intent |-> Nobody, late |-> FALSE]
    /\ spay = [a \in All |-> NoRow]
    /\ intent = [a \in All |-> "none"]
    /\ session = "none"
    /\ hooks = {}
    /\ announced = [a \in All |-> 0]
    /\ undone = FALSE
    /\ judged = {}
    /\ req = [r \in Requests |-> Idle]

Placed == sorder.status # "ABSENT"
Does(r, next) == req' = [req EXCEPT ![r] = next]
Ends(r) == Does(r, Idle)

\* Whether a write takes a PAID order or a PAID payment back.
Undoes == undone' = (\/ undone
                     \/ sorder.pay = "PAID" /\ sorder'.pay # "PAID"
                     \/ \E a \in All : spay[a].status = "PAID" /\ spay'[a].status # "PAID")

----------------------------------------------------------------------------
(* Stripe and its customers.                                                *)

\* The card is charged, at once or after a while, or declined.
Charge(a) ==
    /\ a # Own /\ intent[a] \in {"open", "processing"}
    /\ a = Bare \/ spay[a].linked
    /\ \/ intent[a] = "open" /\ intent' = [intent EXCEPT ![a] = "processing"] /\ UNCHANGED hooks
       \/ intent' = [intent EXCEPT ![a] = "succeeded"] /\ hooks' = hooks \cup {<<"succeeded", a>>}
       \/ intent' = [intent EXCEPT ![a] = "open"] /\ hooks' = hooks \cup {<<"failed", a>>}
    /\ UNCHANGED <<kind, matches, sorder, spay, session, announced, undone, judged, req>>

\* The customer of the session is declined, pays, or lets it expire; Stripe reports
\* the session and its intent.
SessionMoves ==
    /\ session = "open"
    /\ \/ UNCHANGED <<session, intent>> /\ hooks' = hooks \cup {<<"failed", Own>>}
       \/ /\ intent[Own] = "open" /\ session' = "completed" /\ intent' = [intent EXCEPT ![Own] = "succeeded"]
          /\ hooks' = hooks \cup {<<"completed", Nobody>>, <<"succeeded", Own>>}
       \/ /\ session' = "expired" /\ intent' = [intent EXCEPT ![Own] = "canceled"]
          /\ hooks' = hooks \cup {<<"expired", Nobody>>}
    /\ UNCHANGED <<kind, matches, sorder, spay, announced, undone, judged, req>>

\* orderPaymentExpiresAt and sessionExpiresAt pass, where somebody looks at them.
TimePasses ==
    /\ \/ /\ kind = "orderFirst" /\ ~sorder.late
          /\ sorder' = [sorder EXCEPT !.late = TRUE]
          /\ UNCHANGED spay
       \/ \E a \in All :
             /\ spay[a].status = "PENDING" /\ spay[a].fresh
             /\ spay' = [spay EXCEPT ![a].fresh = FALSE]
             /\ UNCHANGED sorder
    /\ UNCHANGED <<kind, matches, intent, session, hooks, announced, undone, judged, req>>

----------------------------------------------------------------------------
(* Paying before the order: createPayment, then OrdersService.create.        *)

CreatePayment ==
    /\ kind = "paidFirst" /\ intent[Bare] = "none"
    /\ intent' = [intent EXCEPT ![Bare] = "open"]
    /\ UNCHANGED <<kind, matches, sorder, spay, session, hooks, announced, undone, judged, req>>

PlaceOrder ==
    /\ kind = "paidFirst" /\ ~Placed /\ intent[Bare] = "succeeded"
    /\ sorder' = [status |-> "PENDING", pay |-> "PAID", intent |-> Bare, late |-> FALSE]
    /\ UNCHANGED <<kind, matches, spay, intent, session, hooks, announced, undone, judged, req>>

----------------------------------------------------------------------------
(* createCheckoutSession: the order, the session, the link.                  *)

SessionOrder(r) ==
    /\ kind = "session" /\ ~Placed /\ req[r] = Idle
    /\ sorder' = [sorder EXCEPT !.status = "PENDING"]
    /\ Does(r, [Idle EXCEPT !.at = "session"])
    /\ UNCHANGED <<kind, matches, spay, intent, session, hooks, announced, undone, judged>>

\* The order as it was first saved, with its session, or FAILED; the answer may be
\* lost when the session is open.
SessionCreate(r) ==
    /\ req[r].at = "session"
    /\ \/ session' = "open" /\ intent[Own] = "none" /\ intent' = [intent EXCEPT ![Own] = "open"]
       \/ UNCHANGED <<session, intent>>
    /\ \/ /\ session' = "open"
          /\ sorder' = [sorder EXCEPT !.status = "PENDING", !.pay = "PENDING", !.intent = Nobody]
       \/ sorder' = [sorder EXCEPT !.status = "FAILED", !.pay = "FAILED", !.intent = Nobody]
    /\ Ends(r)
    /\ UNCHANGED <<kind, matches, spay, hooks, announced, judged>>
    /\ Undoes

----------------------------------------------------------------------------
(* initiateStripePayment                                                    *)

\* The attempts whose intent can be used again.
Active == {a \in All : spay[a].status = "PENDING" /\ spay[a].fresh /\ spay[a].linked}

InitiateRead(r) ==
    /\ req[r] = Idle
    /\ Placed /\ sorder.pay # "PAID" /\ sorder.status # "CANCELLED"
    /\ IF Active # {}
       THEN \E a \in Active : Does(r, [Idle EXCEPT !.at = "retrieve", !.a = a])
       ELSE Does(r, [Idle EXCEPT !.at = "open"])
    /\ UNCHANGED <<kind, matches, sorder, spay, intent, session, hooks, announced, undone, judged>>

\* The intent is handed out again unless it is canceled or Stripe is silent.
InitiateRetrieve(r) ==
    /\ req[r].at = "retrieve"
    /\ \/ intent[req[r].a] # "canceled" /\ Ends(r)
       \/ Does(r, [Idle EXCEPT !.at = "open"])
    /\ UNCHANGED <<kind, matches, sorder, spay, intent, session, hooks, announced, undone, judged>>

InitiateSave(r) ==
    /\ req[r].at = "open"
    /\ \E a \in Intents :
          /\ spay[a].status = "ABSENT"
          /\ spay' = [spay EXCEPT ![a] = NewRow]
          /\ Does(r, [Idle EXCEPT !.at = "create", !.a = a, !.row = NewRow])
    /\ UNCHANGED <<kind, matches, sorder, intent, session, hooks, announced, undone, judged>>

\* Stripe opens the intent or not; the answer may be lost.
InitiateCreate(r) ==
    /\ req[r].at = "create"
    /\ \E opened, answered \in BOOLEAN :
          LET failed == [req[r].row EXCEPT !.status = "FAILED"] IN
          /\ intent' = [intent EXCEPT ![req[r].a] = IF opened THEN "open" ELSE @]
          /\ Does(r, [req[r] EXCEPT !.at = "link",
                          !.row = IF opened /\ answered THEN req[r].row ELSE failed])
    /\ UNCHANGED <<kind, matches, sorder, spay, session, hooks, announced, undone, judged>>

\* The attempt as the handler remembers it, with the id of the intent, or FAILED.
InitiateLink(r) ==
    /\ req[r].at = "link"
    /\ LET ok == req[r].row.status = "PENDING" IN
          /\ spay' = [spay EXCEPT ![req[r].a] =
                         [req[r].row EXCEPT !.linked = ok, !.fresh = spay[req[r].a].fresh]]
          /\ IF ok THEN Does(r, [req[r] EXCEPT !.at = "stamp"]) ELSE Ends(r)
    /\ UNCHANGED <<kind, matches, sorder, intent, session, hooks, announced, judged>>
    /\ Undoes

InitiateStamp(r) ==
    /\ req[r].at = "stamp"
    /\ sorder' = [sorder EXCEPT !.intent = req[r].a]
    /\ Ends(r)
    /\ UNCHANGED <<kind, matches, spay, intent, session, hooks, announced, undone, judged>>

----------------------------------------------------------------------------
(* handleWebhookEvent.  Stripe repeats an event until it is answered, and   *)
(* may repeat one that was: a success leaves hooks when Stripe is done with *)
(* it, the others may come again at any time.                               *)

\* Two mutants: no repetition is noticed; a payment that failed before counts as
\* settled.
NeverConfirmed(a) == spay[a].status = "PAID" /\ sorder.pay = "PENDING"
AlreadySettled(a) == spay[a].status \in {"PAID", "FAILED"}
\* A repeated event of a payment that is recorded.
AlreadyConfirmed(a) == spay[a].status = "PAID" /\ sorder.pay = "PAID"

Confirm(a) ==
    /\ spay' = [spay EXCEPT ![a] =
           [status |-> "PAID", linked |-> TRUE, fresh |-> (@.fresh \/ @.status = "ABSENT"), review |-> FALSE]]
    /\ sorder' = [sorder EXCEPT !.status = "ORDER_PLACED", !.pay = "PAID", !.intent = a]
    /\ announced' = [announced EXCEPT ![a] = @ + 1]

\* The order row and the payment row are marked for review; a payment that has
\* no row yet gets one.
Mismatch(a) ==
    /\ spay' = [spay EXCEPT ![a] =
           [IF @.status = "ABSENT" THEN [NewRow EXCEPT !.linked = TRUE] ELSE @ EXCEPT !.review = TRUE]]
    /\ sorder' = [sorder EXCEPT !.pay = "REVIEW_REQUIRED"]
    /\ UNCHANGED announced

\* The metadata of an attempt name its order; another intent must be the order's own.
Found(a) == Placed /\ (a \in Intents \/ sorder.intent = a)
Agrees(a) == a \in Intents \/ matches

\* handlePaymentIntentSucceeded: one transaction under the locks of both rows.
\* An intent that belongs to no order is answered and forgotten.
IntentSucceeded(a) ==
    /\ <<"succeeded", a>> \in hooks
    /\ hooks' \in {hooks, hooks \ {<<"succeeded", a>>}}
    /\ \/ /\ ~Found(a) \/ AlreadyConfirmed(a)
          /\ UNCHANGED <<sorder, spay, announced>>
       \/ /\ Found(a) /\ ~AlreadyConfirmed(a)
          /\ announced[a] < MaxAnnounced
          /\ IF Agrees(a) THEN Confirm(a) ELSE Mismatch(a)
    /\ UNCHANGED <<kind, matches, intent, session, judged, req>>
    /\ Undoes

\* A row as a handler remembers it; the time is what it is when the row is saved.
Remembered(a) == [spay[a] EXCEPT !.fresh = FALSE]

MayFail(a) == spay[a].status \notin {"ABSENT", "PAID"}

\* handlePaymentIntentFailed reads the row without a lock, ...
FailedRead(r, a) ==
    /\ req[r] = Idle
    /\ <<"failed", a>> \in hooks
    /\ MayFail(a)
    /\ Does(r, [Idle EXCEPT !.at = "failed", !.a = a, !.row = Remembered(a)])
    /\ UNCHANGED <<kind, matches, sorder, spay, intent, session, hooks, announced, undone, judged>>

\* ... and saves it.
FailedSave(r) ==
    /\ req[r].at = "failed"
    /\ spay' = [spay EXCEPT ![req[r].a] = [req[r].row EXCEPT !.status = "FAILED", !.fresh = spay[req[r].a].fresh]]
    /\ Ends(r)
    /\ UNCHANGED <<kind, matches, sorder, intent, session, hooks, announced, judged>>
    /\ Undoes

\* handleCheckoutSessionCompleted finds the order by the metadata of the session, ...
SessionRead(r) ==
    /\ req[r] = Idle
    /\ <<"completed", Nobody>> \in hooks
    /\ Does(r, [Idle EXCEPT !.at = "complete"])
    /\ UNCHANGED <<kind, matches, sorder, spay, intent, session, hooks, announced, undone, judged>>

\* ... and saves it with the intent of the session: it sets every column we keep.
SessionSave(r) ==
    /\ req[r].at = "complete"
    /\ sorder' = [sorder EXCEPT !.status = "COMPLETED", !.pay = "PAID", !.intent = Own]
    /\ Ends(r)
    /\ UNCHANGED <<kind, matches, spay, intent, session, hooks, announced, undone, judged>>

\* updateOrderStatusBySession: one UPDATE.
SessionExpired ==
    /\ <<"expired", Nobody>> \in hooks
    /\ sorder' = [sorder EXCEPT !.status = "FAILED", !.pay = "FAILED"]
    /\ UNCHANGED <<kind, matches, spay, intent, session, hooks, announced, judged, req>>
    /\ Undoes

HandleWebhookEvent ==
    \/ \E a \in All : IntentSucceeded(a) \/ \E r \in Requests : FailedRead(r, a)
    \/ SessionExpired \/ \E r \in Requests : SessionRead(r) \/ SessionSave(r)

----------------------------------------------------------------------------
(* adminVerifiedReconciliation of a Stripe payment                          *)

ReconcileRead(r, a) ==
    /\ req[r] = Idle
    /\ Placed /\ spay[a].status \notin {"ABSENT", "PAID"} /\ spay[a].linked
    /\ Does(r, [Idle EXCEPT !.at = "reconcile", !.a = a, !.row = Remembered(a)])
    /\ UNCHANGED <<kind, matches, sorder, spay, intent, session, hooks, announced, undone, judged>>

\* Stripe is asked; the row that was read is saved when the intent is canceled
\* or does not agree with the order.
ReconcileAsk(r) ==
    LET a == req[r].a
        write(row) == spay' = [spay EXCEPT ![a] = [row EXCEPT !.fresh = spay[a].fresh]]
    IN /\ req[r].at = "reconcile"
       /\ \/ /\ intent[a] = "succeeded" /\ Agrees(a)
             /\ Does(r, [req[r] EXCEPT !.at = "commit"])
             /\ UNCHANGED spay
          \/ /\ intent[a] = "succeeded" /\ ~Agrees(a)
             /\ write([req[r].row EXCEPT !.review = TRUE])
             /\ Ends(r)
          \/ /\ intent[a] = "canceled"
             /\ write([req[r].row EXCEPT !.status = "CANCELLED", !.review = FALSE])
             /\ Ends(r)
       /\ UNCHANGED <<kind, matches, sorder, intent, session, hooks, announced, judged>>
       /\ Undoes

\* Both rows are locked; only the payment is looked at again.
ReconcileCommit(r) ==
    LET a == req[r].a IN
    /\ req[r].at = "commit"
    /\ spay[a].status # "PAID"
    /\ announced[a] < MaxAnnounced
    /\ spay' = [spay EXCEPT ![a].status = "PAID", ![a].review = FALSE]
    /\ sorder' = [sorder EXCEPT !.status = "ORDER_PLACED", !.pay = "PAID"]
    /\ announced' = [announced EXCEPT ![a] = @ + 1]
    /\ Ends(r)
    /\ UNCHANGED <<kind, matches, intent, session, hooks, undone, judged>>

----------------------------------------------------------------------------
(* OrderExpiryWorker.processExpiredOrder, the Stripe part, and the order    *)
(* status endpoint.                                                         *)

\* The intent the worker asks about for a payment: its own, or that of the order.
IntentOf(a) == IF spay[a].linked THEN a ELSE sorder.intent

ExpiryRead(r) ==
    /\ req[r] = Idle
    /\ sorder.status = "PENDING" /\ sorder.pay = "PENDING" /\ sorder.late
    /\ \A a \in All : spay[a].status # "PAID" /\ spay[a].status # "PROCESSING" /\ ~spay[a].review
    /\ Does(r, [Idle EXCEPT !.at = "expire",
                    !.todo = {IntentOf(a) : a \in {b \in All : spay[b].status # "ABSENT"}} \ {Nobody}])
    /\ UNCHANGED <<kind, matches, sorder, spay, intent, session, hooks, announced, undone, judged>>

\* Mutant: an intent that is processing lets the worker go on.
Unfinished == {"open", "processing", "canceled"}
\* The states in which the worker goes on: it cancels what is open.
Cancellable == {"open", "canceled"}

\* An intent that is not finished is cancelled at Stripe.
ExpiryAsk(r, a) ==
    /\ req[r].at = "expire" /\ a \in req[r].todo
    /\ intent[a] \in Cancellable
    /\ intent' = [intent EXCEPT ![a] = IF @ = "open" THEN "canceled" ELSE @]
    /\ Does(r, [req[r] EXCEPT !.todo = @ \ {a}, !.asked = @ \cup {a}])
    /\ UNCHANGED <<kind, matches, sorder, spay, session, hooks, announced, undone, judged>>

ExpiryCommit(r) ==
    /\ req[r].at = "expire" /\ req[r].todo = {}
    /\ IF sorder.status = "PENDING" /\ sorder.pay # "PAID"
       THEN /\ sorder' = [sorder EXCEPT !.status = "CANCELLED", !.pay = "UNPAID"]
            /\ spay' = [a \in All |-> IF spay[a].status \in {"PENDING", "UNKNOWN"}
                                      THEN [spay[a] EXCEPT !.status = "EXPIRED"] ELSE spay[a]]
            /\ judged' = req[r].asked
       ELSE UNCHANGED <<sorder, spay, judged>>
    /\ Ends(r)
    /\ UNCHANGED <<kind, matches, intent, session, hooks, announced, undone>>

CancelOrder ==
    /\ Placed /\ "CANCELLED" \in AllowedOrderTransitions[sorder.status]
    /\ sorder' = [sorder EXCEPT !.status = "CANCELLED"]
    /\ UNCHANGED <<kind, matches, spay, intent, session, hooks, announced, undone, judged, req>>

\* A guard that is not met, an error answer, a rollback, a crash.
Abort(r) ==
    /\ req[r] # Idle
    /\ Ends(r)
    /\ UNCHANGED <<kind, matches, sorder, spay, intent, session, hooks, announced, undone, judged>>

----------------------------------------------------------------------------
StripeNext ==
    \/ \E a \in All : Charge(a)
    \/ SessionMoves \/ TimePasses \/ CreatePayment \/ PlaceOrder \/ CancelOrder
    \/ HandleWebhookEvent
    \/ \E r \in Requests :
          \/ SessionOrder(r) \/ SessionCreate(r)
          \/ InitiateRead(r) \/ InitiateRetrieve(r) \/ InitiateSave(r) \/ InitiateCreate(r)
          \/ InitiateLink(r) \/ InitiateStamp(r)
          \/ FailedSave(r) \/ ReconcileAsk(r) \/ ReconcileCommit(r)
          \/ ExpiryRead(r) \/ ExpiryCommit(r) \/ Abort(r)
          \/ \E a \in All : ReconcileRead(r, a) \/ ExpiryAsk(r, a)

StripeSpec == StripeInit /\ [][StripeNext]_stripeVars

\* Stripe delivers an event until it is answered with success, and every handler ends.
StripeFairness ==
    /\ \A a \in All : WF_stripeVars(IntentSucceeded(a))
    /\ SF_stripeVars(\E r \in Requests : SessionRead(r))
    /\ SF_stripeVars(\E r \in Requests : SessionSave(r))
    /\ WF_stripeVars(\E r \in Requests : Abort(r))
StripeFairSpec == StripeSpec /\ StripeFairness

----------------------------------------------------------------------------
(* Properties.                                                              *)

\* Every row keeps its type, and the row of Bare or Own carries its id.
StripeTypeOK ==
    /\ kind \in {"orderFirst", "paidFirst", "session"}
    /\ matches \in BOOLEAN
    /\ sorder \in OrderRow
    /\ spay \in [All -> PaymentRow]
    /\ \A a \in Orderless : spay[a].linked <=> spay[a].status # "ABSENT"
    /\ intent \in [All -> {"none", "open", "processing", "succeeded", "canceled"}]
    /\ session \in {"none", "open", "completed", "expired"}
    /\ hooks \subseteq ({"succeeded", "failed"} \X All) \cup ({"completed", "expired"} \X {Nobody})
    /\ announced \in [All -> 0 .. MaxAnnounced]
    /\ undone \in BOOLEAN
    /\ judged \subseteq All
    /\ req \in [Requests -> [at : {"idle", "session", "retrieve", "open", "create", "link", "stamp",
                                    "failed", "reconcile", "commit", "expire", "complete"},
                              a : All \cup {Nobody}, row : PaymentRow,
                              todo : SUBSET All, asked : SUBSET All]]

\* However often Stripe repeats an event, and whoever reconciles meanwhile, a
\* payment is announced once, until something takes its PAID back.
AnnouncedAgainOnlyIfUndone == \A a \in All : announced[a] <= 1 \/ undone

\* Rows of the right type, and one announcement of a payment.
StripeSafety == StripeTypeOK /\ AnnouncedAgainOnlyIfUndone

\* No money can arrive any more through an intent the expiry worker knew of when
\* it cancelled the order.
ExpiryLeavesNoOpenIntent == \A a \in judged : intent[a] = "canceled"

\* Time and again all the money that Stripe has for the order is recorded: announced,
\* a case for review, or, where the intent knows no order, the order is PAID; in
\* whatever order the events of failed and successful charges and of the session come.
CapturedIsRecorded ==
    []<>(\A a \in All :
           Placed /\ intent[a] = "succeeded" =>
               announced[a] > 0 \/ spay[a].review \/ (a \in Orderless /\ sorder.pay = "PAID"))
=============================================================================

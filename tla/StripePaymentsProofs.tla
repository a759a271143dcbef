------------------------ MODULE StripePaymentsProofs ------------------------
(***************************************************************************)
(* Proofs about StripePayments for any number of intents and handlers:     *)
(* types, one announcement of a payment, and no open intent behind an      *)
(* order that the expiry worker cancelled.                                 *)
(*                                                                         *)
(* A payment that was announced is PAID, as is its order, unless something *)
(* took that back; so a repeated event finds it confirmed.  And a handler  *)
(* opens the intent of a row it has inserted itself and nobody else opens: *)
(* an intent that the expiry worker saw canceled is never opened again.    *)
(***************************************************************************)
EXTENDS StripePayments, TLAPS

Settled(a) == spay[a].status = "PAID" /\ sorder.pay = "PAID"
Counted == \A a \in All : announced[a] >= 1 => undone \/ Settled(a)

\* What a handler remembers: the row it saves is a row that exists; the intent it
\* is about to open is not open; what the expiry worker asked about is canceled.
HandlerInv(r) ==
    /\ req[r].at = "create" =>
           req[r].a \in Intents /\ intent[req[r].a] = "none" /\ spay[req[r].a].status # "ABSENT"
    /\ req[r].at = "link" => req[r].a \in Intents
    /\ req[r].at = "stamp" => req[r].a \in Intents
    /\ req[r].at \in {"create", "link", "failed", "reconcile"} => req[r].row.status # "ABSENT"
    /\ req[r].at \in {"failed", "reconcile", "commit"} =>
           req[r].a \in All /\ (req[r].a \in Orderless => req[r].row.linked /\ spay[req[r].a].linked)
    /\ \A a \in req[r].asked : intent[a] = "canceled"

\* A row is inserted by one handler, and its intent opened by it alone.
OneOpener ==
    \A r, s \in Requests : req[r].at = "create" /\ req[s].at = "create" /\ req[r].a = req[s].a => r = s

\* A payment that has no row has no intent.
NoIntentBefore == \A a \in Intents : spay[a].status = "ABSENT" => intent[a] = "none"

IInv ==
    /\ StripeTypeOK
    /\ AnnouncedAgainOnlyIfUndone
    /\ Counted
    /\ \A r \in Requests : HandlerInv(r)
    /\ OneOpener
    /\ NoIntentBefore
    /\ ExpiryLeavesNoOpenIntent

----------------------------------------------------------------------------
(* Types, and what most steps have in common                                *)

Stages == {"idle", "session", "retrieve", "open", "create", "link", "stamp", "failed", "reconcile",
           "commit", "expire", "complete"}
HandlerRecord ==
    [at : Stages, a : All \cup {Nobody}, row : PaymentRow, todo : SUBSET All, asked : SUBSET All]
IntentState == {"none", "open", "processing", "succeeded", "canceled"}
Hooks == ({"succeeded", "failed"} \X All) \cup ({"completed", "expired"} \X {Nobody})

LEMMA RowTypes == NoRow \in PaymentRow /\ NewRow \in PaymentRow /\ Idle \in HandlerRecord
BY DEF NoRow, NewRow, PaymentRow, PaymentAttemptStatus, Idle, HandlerRecord, Stages

\* A handler that goes on keeps the type of the handlers.
LEMMA TurnType ==
  ASSUME StripeTypeOK, NEW r \in Requests, NEW x \in HandlerRecord, Does(r, x)
  PROVE  /\ req' \in [Requests -> HandlerRecord] /\ req'[r] = x
         /\ \A s \in Requests \ {r} : req'[s] = req[s]
<1>1. req \in [Requests -> HandlerRecord]
  BY DEF StripeTypeOK, HandlerRecord, Stages
<1> QED
  BY <1>1 DEF Does

LEMMA EndType ==
  ASSUME StripeTypeOK, NEW r \in Requests, Ends(r)
  PROVE  /\ req' \in [Requests -> HandlerRecord] /\ req'[r] = Idle
         /\ \A s \in Requests \ {r} : req'[s] = req[s]
BY RowTypes, TurnType DEF Ends

\* A payment or the order that was PAID and is not.
TakesBack ==
    \/ sorder.pay = "PAID" /\ sorder'.pay # "PAID"
    \/ \E a \in All : spay[a].status = "PAID" /\ spay'[a].status # "PAID"
Remembers == undone' \in BOOLEAN /\ (undone => undone') /\ (TakesBack => undone')

LEMMA UndoesRemembers == ASSUME Undoes PROVE Remembers
BY DEF Undoes, Remembers, TakesBack

LEMMA CountKept ==
  ASSUME IInv, UNCHANGED announced, Remembers
  PROVE  Counted' /\ AnnouncedAgainOnlyIfUndone'
BY DEF IInv, Counted, AnnouncedAgainOnlyIfUndone, Remembers, TakesBack, Settled

LEMMA CountRises ==
  ASSUME IInv, NEW a \in All, ~Settled(a), announced' = [announced EXCEPT ![a] = @ + 1],
         undone => undone', spay'[a].status = "PAID", sorder'.pay = "PAID",
         \A b \in All \ {a} : spay'[b] = spay[b]
  PROVE  Counted' /\ AnnouncedAgainOnlyIfUndone'
<1>1. announced[a] = 0 \/ undone
  BY DEF IInv, Counted, StripeTypeOK
<1>2. announced'[a] = announced[a] + 1 /\ \A b \in All \ {a} : announced'[b] = announced[b]
  BY DEF IInv, StripeTypeOK
<1>3. Counted'
  BY <1>2 DEF IInv, Counted, Settled
<1>4. AnnouncedAgainOnlyIfUndone'
  BY <1>1, <1>2 DEF IInv, AnnouncedAgainOnlyIfUndone
<1> QED
  BY <1>3, <1>4

\* Rows stay, and what is canceled stays canceled.
RowsStay ==
    /\ \A a \in All : spay[a].status # "ABSENT" => spay'[a].status # "ABSENT"
    /\ \A o \in Orderless : spay[o].linked => spay'[o].linked
    /\ \A a \in All : intent[a] = "canceled" => intent'[a] = "canceled"

LEMMA HandlerKept ==
  ASSUME IInv, RowsStay, NEW s \in Requests, UNCHANGED req[s],
         req[s].at = "create" => UNCHANGED intent[req[s].a]
  PROVE  HandlerInv(s)'
<1>1. HandlerInv(s) /\ req[s].asked \subseteq All
  BY DEF IInv, StripeTypeOK
<1> QED
  BY <1>1 DEF HandlerInv, RowsStay, All, Orderless

\* A step that moves no handler, opens no intent of Intents and judges nothing.
LEMMA NoHandler ==
  ASSUME IInv, RowsStay, UNCHANGED <<req, judged>>,
         \A a \in Intents : intent[a] = "none" => intent'[a] = "none"
  PROVE  /\ \A r \in Requests : HandlerInv(r)'
         /\ OneOpener' /\ NoIntentBefore' /\ ExpiryLeavesNoOpenIntent'
<1>1. \A r \in Requests : HandlerInv(r)'
  BY HandlerKept DEF IInv, HandlerInv
<1>2. OneOpener'
  BY DEF IInv, OneOpener
<1>3. NoIntentBefore'
  BY DEF IInv, NoIntentBefore, RowsStay, All, Orderless
<1>4. ExpiryLeavesNoOpenIntent'
  BY DEF IInv, ExpiryLeavesNoOpenIntent, RowsStay, StripeTypeOK
<1> QED
  BY <1>1, <1>2, <1>3, <1>4

\* A step of one handler that opens no intent, and does not come to open one.
LEMMA OneHandler ==
  ASSUME IInv, NEW r \in Requests, RowsStay, \A s \in Requests \ {r} : UNCHANGED req[s],
         \A a \in Intents : intent[a] = "none" => intent'[a] = "none",
         req'[r].at # "create", HandlerInv(r)',
         \A a \in judged' : intent'[a] = "canceled"
  PROVE  /\ \A s \in Requests : HandlerInv(s)'
         /\ OneOpener' /\ NoIntentBefore' /\ ExpiryLeavesNoOpenIntent'
<1>1. ASSUME NEW s \in Requests PROVE HandlerInv(s)'
  <2>1. CASE s # r
    BY <2>1, HandlerKept DEF IInv, HandlerInv
  <2> QED
    BY <2>1
<1>2. OneOpener'
  BY DEF IInv, OneOpener
<1>3. NoIntentBefore'
  BY DEF IInv, NoIntentBefore, RowsStay, All, Orderless
<1> QED
  BY <1>1, <1>2, <1>3 DEF ExpiryLeavesNoOpenIntent

----------------------------------------------------------------------------
(* The initial states, Stripe, and time                                     *)

\* The parts of the type, under the names used here.
LEMMA Types ==
  ASSUME StripeTypeOK
  PROVE  /\ sorder \in OrderRow /\ spay \in [All -> PaymentRow]
         /\ intent \in [All -> IntentState] /\ hooks \subseteq Hooks
         /\ announced \in [All -> 0 .. MaxAnnounced] /\ judged \subseteq All
         /\ req \in [Requests -> HandlerRecord]
BY DEF StripeTypeOK, HandlerRecord, Stages, Hooks, IntentState

\* Types of a step, from the types of what it changes.
LEMMA TypesAgain ==
  ASSUME StripeTypeOK, UNCHANGED <<kind, matches>>,
         sorder' \in OrderRow, spay' \in [All -> PaymentRow],
         \A o \in Orderless : spay'[o].linked <=> spay'[o].status # "ABSENT",
         intent' \in [All -> IntentState], session' \in {"none", "open", "completed", "expired"},
         hooks' \subseteq Hooks, announced' \in [All -> 0 .. MaxAnnounced], undone' \in BOOLEAN,
         judged' \subseteq All, req' \in [Requests -> HandlerRecord]
  PROVE  StripeTypeOK'
BY DEF StripeTypeOK, HandlerRecord, Stages, Hooks, IntentState

LEMMA InitInv == StripeInit => IInv
<1> SUFFICES ASSUME StripeInit PROVE IInv
  OBVIOUS
<1> USE StripeAssumption DEF StripeInit
<1>1. sorder \in OrderRow
  BY DEF OrderRow, OrderStatus, PaymentState
<1>2. req \in [Requests -> HandlerRecord]
  BY RowTypes
<1>3. StripeTypeOK
  <2>1. spay \in [All -> PaymentRow] /\ \A o \in Orderless : spay[o] = NoRow
    BY RowTypes DEF All, Orderless
  <2>2. \A o \in Orderless : spay[o].linked <=> spay[o].status # "ABSENT"
    <3>1. NoRow.linked = FALSE /\ NoRow.status = "ABSENT"
      BY DEF NoRow
    <3> QED
      BY <2>1, <3>1, Zenon
  <2>3. matches \in BOOLEAN /\ hooks \subseteq Hooks /\ undone \in BOOLEAN
    OBVIOUS
  <2>4. announced \in [All -> 0 .. MaxAnnounced] /\ intent \in [All -> IntentState]
    BY DEF IntentState
  <2> QED
    BY <1>1, <1>2, <2>1, <2>2, <2>3, <2>4
       DEF StripeTypeOK, HandlerRecord, Stages, Hooks, IntentState
<1>4. \A r \in Requests : HandlerInv(r)
  BY DEF HandlerInv, Idle
<1> QED
  BY <1>3, <1>4
     DEF IInv, AnnouncedAgainOnlyIfUndone, Counted, OneOpener, NoIntentBefore, All, Orderless, Idle,
         ExpiryLeavesNoOpenIntent

\* What is PAID stays so when neither row is written.
LEMMA Untouched ==
  ASSUME IInv, UNCHANGED <<sorder, spay, undone>>
  PROVE  Remembers
BY DEF Remembers, TakesBack, IInv, StripeTypeOK

LEMMA ChargeInv == ASSUME IInv, NEW a \in All, Charge(a) PROVE IInv'
<1>0. StripeTypeOK
  BY DEF IInv
<1>1. UNCHANGED <<kind, matches, sorder, spay, session, announced, undone, judged, req>>
  BY DEF Charge
<1>2. PICK i \in {"open", "processing", "succeeded"} : intent' = [intent EXCEPT ![a] = i]
  BY DEF Charge
<1>3. intent[a] \in {"open", "processing"} /\ intent' \in [All -> IntentState]
  BY <1>0, <1>2, Types DEF Charge, IntentState
<1>4. hooks' \subseteq Hooks
  BY <1>0, Types DEF Charge, Hooks
<1>5. StripeTypeOK'
  BY <1>0, <1>1, <1>3, <1>4, Types, TypesAgain DEF StripeTypeOK
<1>6. RowsStay /\ \A b \in Intents : intent[b] = "none" => intent'[b] = "none"
  BY <1>0, <1>1, <1>2, <1>3, Types DEF RowsStay, All, Orderless
<1> QED
  BY <1>1, <1>5, <1>6, Untouched, CountKept, NoHandler DEF IInv

LEMMA SessionMovesInv == ASSUME IInv, SessionMoves PROVE IInv'
<1>0. StripeTypeOK /\ Own \in All /\ Own \notin Intents
  BY StripeAssumption DEF IInv, All, Orderless
<1>1. UNCHANGED <<kind, matches, sorder, spay, announced, undone, judged, req>>
  BY DEF SessionMoves
<1>2. PICK i \in {intent[Own], "succeeded", "canceled"} :
         intent' = [intent EXCEPT ![Own] = i] /\ (intent[Own] = "canceled" => i = "canceled")
  <2>1. CASE UNCHANGED intent
    BY <1>0, <2>1, Types
  <2>2. CASE intent[Own] = "open" /\ intent' = [intent EXCEPT ![Own] = "succeeded"]
    BY <2>2
  <2>3. CASE intent' = [intent EXCEPT ![Own] = "canceled"]
    BY <2>3
  <2> QED
    BY <2>1, <2>2, <2>3 DEF SessionMoves
<1>3. /\ intent' \in [All -> IntentState] /\ \A a \in All \ {Own} : intent'[a] = intent[a]
      /\ intent[Own] = "canceled" => intent'[Own] = "canceled"
  BY <1>0, <1>2, Types DEF IntentState
<1>4. hooks' \subseteq Hooks /\ session' \in {"none", "open", "completed", "expired"}
  BY <1>0, Types DEF SessionMoves, Hooks, StripeTypeOK
<1>5. StripeTypeOK'
  BY <1>0, <1>1, <1>3, <1>4, Types, TypesAgain DEF StripeTypeOK
<1>6. RowsStay
  BY <1>1, <1>3 DEF RowsStay
<1>7. \A a \in Intents : intent[a] = "none" => intent'[a] = "none"
  BY <1>0, <1>3 DEF All
<1> QED
  BY <1>1, <1>5, <1>6, <1>7, Untouched, CountKept, NoHandler DEF IInv

LEMMA TimePassesInv == ASSUME IInv, TimePasses PROVE IInv'
<1>0. StripeTypeOK
  BY DEF IInv
<1>1. UNCHANGED <<kind, matches, intent, session, hooks, announced, undone, judged, req>>
  BY DEF TimePasses
<1>2. \A row \in PaymentRow : [row EXCEPT !.fresh = FALSE] \in PaymentRow
  BY DEF PaymentRow
<1>3. /\ spay' \in [All -> PaymentRow]
      /\ \A a \in All : spay'[a].status = spay[a].status /\ (spay'[a].linked <=> spay[a].linked)
  <2>1. CASE UNCHANGED spay
    BY <1>0, <2>1, Types
  <2>2. CASE \E a \in All : spay' = [spay EXCEPT ![a].fresh = FALSE]
    <3>1. PICK a \in All : spay' = [spay EXCEPT ![a].fresh = FALSE]
      BY <2>2
    <3>2. spay[a] \in PaymentRow
      BY <1>0, Types
    <3> DEFINE row == [spay[a] EXCEPT !.fresh = FALSE]
    <3>3. row.status = spay[a].status /\ (row.linked <=> spay[a].linked)
      BY <3>2 DEF PaymentRow
    <3>4. row \in PaymentRow
      BY <1>2, <3>2
    <3>5. spay' = [spay EXCEPT ![a] = row]
      BY <3>1
    <3> HIDE DEF row
    <3> QED
      BY <1>0, <3>3, <3>4, <3>5, Types
  <2> QED
    BY <2>1, <2>2 DEF TimePasses
<1>4. sorder' \in OrderRow /\ sorder'.pay = sorder.pay
  BY <1>0, Types DEF TimePasses, OrderRow
<1>5. StripeTypeOK'
  <2>1. Orderless \subseteq All
    BY DEF All
  <2> QED
    BY <1>0, <1>1, <1>3, <1>4, <2>1, Types, TypesAgain DEF StripeTypeOK
<1>6. RowsStay /\ Remembers
  BY <1>0, <1>1, <1>3, <1>4 DEF RowsStay, Remembers, TakesBack, All, Orderless, StripeTypeOK
<1> QED
  BY <1>1, <1>5, <1>6, CountKept, NoHandler DEF IInv

----------------------------------------------------------------------------
(* Paying before the order, cancelling, the session                         *)

LEMMA CreatePaymentInv == ASSUME IInv, CreatePayment PROVE IInv'
<1>0. StripeTypeOK
  BY DEF IInv
<1>1. UNCHANGED <<kind, matches, sorder, spay, session, hooks, announced, undone, judged, req>>
  BY DEF CreatePayment
<1>2. /\ intent' \in [All -> IntentState] /\ intent[Bare] = "none"
      /\ \A a \in All \ {Bare} : intent'[a] = intent[a]
      /\ \A a \in Intents : intent'[a] = intent[a]
  BY <1>0, Types, StripeAssumption DEF CreatePayment, IntentState, All, Orderless
<1>3. StripeTypeOK'
  BY <1>0, <1>1, <1>2, Types, TypesAgain DEF StripeTypeOK
<1>4. RowsStay
  BY <1>1, <1>2 DEF RowsStay
<1> QED
  BY <1>1, <1>2, <1>3, <1>4, Untouched, CountKept, NoHandler DEF IInv

\* Steps that write the order row alone, and do not take its PAID back.
LEMMA OrderWritten ==
  ASSUME IInv, UNCHANGED <<kind, matches, spay, intent, session, hooks, announced, undone, judged, req>>,
         sorder' \in OrderRow, sorder.pay = "PAID" => sorder'.pay = "PAID"
  PROVE  IInv'
<1>1. StripeTypeOK /\ StripeTypeOK'
  BY Types, TypesAgain DEF IInv, StripeTypeOK
<1>2. RowsStay /\ Remembers
  BY <1>1 DEF RowsStay, Remembers, TakesBack, StripeTypeOK
<1> QED
  BY <1>1, <1>2, CountKept, NoHandler DEF IInv

LEMMA PlaceOrderInv == ASSUME IInv, PlaceOrder PROVE IInv'
<1>1. sorder' \in OrderRow /\ sorder'.pay = "PAID"
  BY DEF PlaceOrder, OrderRow, OrderStatus, PaymentState, All, Orderless
<1> QED
  BY <1>1, OrderWritten DEF PlaceOrder

LEMMA CancelOrderInv == ASSUME IInv, CancelOrder PROVE IInv'
<1>1. sorder' \in OrderRow /\ sorder'.pay = sorder.pay
  BY Types DEF CancelOrder, IInv, OrderRow, OrderStatus
<1> QED
  BY <1>1, OrderWritten DEF CancelOrder

\* Steps that move one handler and write nothing else.
LEMMA HandlerMoves ==
  ASSUME IInv, NEW r \in Requests, NEW x \in HandlerRecord, Does(r, x),
         UNCHANGED <<kind, matches, sorder, spay, intent, session, hooks, announced, undone, judged>>,
         x.at # "create", HandlerInv(r)'
  PROVE  IInv'
<1>1. StripeTypeOK /\ StripeTypeOK'
  BY TurnType, Types, TypesAgain DEF IInv, StripeTypeOK
<1>2. RowsStay /\ Remembers
  BY Untouched DEF RowsStay
<1>3. \A a \in judged' : intent'[a] = "canceled"
  BY DEF IInv, ExpiryLeavesNoOpenIntent
<1> QED
  BY <1>1, <1>2, <1>3, TurnType, CountKept, OneHandler DEF IInv

\* A handler that ends, or starts with nothing to remember.
LEMMA Trivial ==
  ASSUME NEW r, req'[r].at \in {"idle", "session", "retrieve", "open", "expire", "complete"},
         req'[r].asked = {}
  PROVE  HandlerInv(r)'
BY DEF HandlerInv

LEMMA AbortInv == ASSUME IInv, NEW r \in Requests, Abort(r) PROVE IInv'
<1>1. Does(r, Idle)
  BY DEF Abort, Ends
<1>2. HandlerInv(r)'
  BY <1>1, RowTypes, TurnType, Trivial DEF IInv, Idle
<1> QED
  BY <1>1, <1>2, RowTypes, HandlerMoves DEF Abort, Idle

LEMMA SessionOrderInv == ASSUME IInv, NEW r \in Requests, SessionOrder(r) PROVE IInv'
<1> DEFINE x == [Idle EXCEPT !.at = "session"]
<1>1. x \in HandlerRecord /\ x.at = "session" /\ x.asked = {}
  BY RowTypes DEF Idle, HandlerRecord, Stages
<1>2. Does(r, x)
  BY DEF SessionOrder
<1> HIDE DEF x
<1>3. sorder' \in OrderRow /\ sorder'.pay = sorder.pay
  BY Types DEF SessionOrder, IInv, OrderRow, OrderStatus
<1>4. HandlerInv(r)'
  BY <1>1, <1>2, TurnType, Trivial DEF IInv
<1>5. UNCHANGED <<kind, matches, spay, intent, session, hooks, announced, undone, judged>>
  BY DEF SessionOrder
<1>6. StripeTypeOK /\ StripeTypeOK'
  BY <1>1, <1>2, <1>3, <1>5, TurnType, Types, TypesAgain DEF IInv, StripeTypeOK
<1>7. RowsStay /\ Remembers
  BY <1>3, <1>5, <1>6 DEF RowsStay, Remembers, TakesBack, StripeTypeOK
<1>8. \A a \in judged' : intent'[a] = "canceled"
  BY <1>5 DEF IInv, ExpiryLeavesNoOpenIntent
<1> QED
  BY <1>1, <1>2, <1>4, <1>5, <1>6, <1>7, <1>8, TurnType, CountKept, OneHandler DEF IInv

\* A handler that writes one or both rows, or opens the session, and ends or goes on.
LEMMA HandlerWrites ==
  ASSUME IInv, NEW r \in Requests, NEW x \in HandlerRecord, Does(r, x),
         UNCHANGED <<kind, matches, hooks, announced, judged>>,
         intent' \in [All -> IntentState], \A a \in Intents : intent'[a] = intent[a],
         sorder' \in OrderRow, spay' \in [All -> PaymentRow],
         \A o \in Orderless : spay'[o].linked <=> spay'[o].status # "ABSENT",
         session' \in {"none", "open", "completed", "expired"},
         RowsStay, Remembers, x.at # "create", HandlerInv(r)'
  PROVE  IInv'
<1>1. StripeTypeOK /\ StripeTypeOK'
  BY TurnType, Types, TypesAgain DEF IInv, StripeTypeOK, Remembers
<1>2. \A a \in judged' : intent'[a] = "canceled"
  BY <1>1, Types DEF IInv, ExpiryLeavesNoOpenIntent, RowsStay
<1> QED
  BY <1>1, <1>2, TurnType, CountKept, OneHandler DEF IInv

\* One that leaves the intents alone.
LEMMA HandlerSaves ==
  ASSUME IInv, NEW r \in Requests, NEW x \in HandlerRecord, Does(r, x),
         UNCHANGED <<kind, matches, intent, hooks, announced, judged>>,
         sorder' \in OrderRow, spay' \in [All -> PaymentRow],
         \A o \in Orderless : spay'[o].linked <=> spay'[o].status # "ABSENT",
         session' \in {"none", "open", "completed", "expired"},
         RowsStay, Remembers, x.at # "create", HandlerInv(r)'
  PROVE  IInv'
<1>1. intent' \in [All -> IntentState] /\ \A a \in Intents : intent'[a] = intent[a]
  BY Types DEF IInv
<1> QED
  BY <1>1, HandlerWrites

LEMMA SessionCreateInv == ASSUME IInv, NEW r \in Requests, SessionCreate(r) PROVE IInv'
<1>1. Does(r, Idle) /\ HandlerInv(r)'
  BY RowTypes, TurnType, Trivial DEF SessionCreate, Ends, IInv, Idle
<1>2. sorder' \in OrderRow
  BY Types DEF SessionCreate, IInv, OrderRow, OrderStatus, PaymentState
<1>3. Remembers
  BY UndoesRemembers DEF SessionCreate
<1>4. UNCHANGED <<kind, matches, spay, hooks, announced, judged>>
  BY DEF SessionCreate
<1>5. /\ intent' \in [All -> IntentState] /\ RowsStay
      /\ \A a \in Intents : intent'[a] = intent[a]
  <2>0. intent \in [All -> IntentState] /\ Own \in All /\ Own \notin Intents /\ Intents \subseteq All
    BY Types, StripeAssumption DEF IInv, All, Orderless
  <2>1. CASE UNCHANGED intent
    BY <1>4, <2>0, <2>1 DEF RowsStay
  <2>2. CASE intent[Own] = "none" /\ intent' = [intent EXCEPT ![Own] = "open"]
    <3>1. intent' \in [All -> IntentState] /\ \A a \in All \ {Own} : intent'[a] = intent[a]
      BY <2>0, <2>2 DEF IntentState
    <3>2. RowsStay
      BY <1>4, <2>2, <3>1 DEF RowsStay
    <3> QED
      BY <2>0, <3>1, <3>2
  <2> QED
    BY <2>1, <2>2 DEF SessionCreate
<1>6. session' \in {"none", "open", "completed", "expired"}
  BY DEF SessionCreate, IInv, StripeTypeOK
<1>7. \A o \in Orderless : spay'[o].linked <=> spay'[o].status # "ABSENT"
  BY <1>4 DEF IInv, StripeTypeOK
<1>8. Idle \in HandlerRecord /\ Idle.at # "create" /\ spay' \in [All -> PaymentRow]
  BY <1>4, RowTypes, Types DEF Idle, IInv
<1> QED
  BY <1>1, <1>2, <1>3, <1>4, <1>5, <1>6, <1>7, <1>8, HandlerWrites

----------------------------------------------------------------------------
(* initiateStripePayment                                                    *)

LEMMA InitiateReadInv == ASSUME IInv, NEW r \in Requests, InitiateRead(r) PROVE IInv'
<1> DEFINE go(a) == [Idle EXCEPT !.at = "retrieve", !.a = a]
           new == [Idle EXCEPT !.at = "open"]
<1>1. \E x \in HandlerRecord : Does(r, x) /\ x.at \in {"retrieve", "open"} /\ x.asked = {}
  <2>1. CASE \E a \in Active : Does(r, go(a))
    <3>1. PICK a \in All : Does(r, go(a))
      BY <2>1 DEF Active
    <3>2. go(a) \in HandlerRecord /\ go(a).at = "retrieve" /\ go(a).asked = {}
      BY RowTypes DEF Idle, HandlerRecord, Stages, All, Orderless
    <3> QED
      BY <3>1, <3>2
  <2>2. CASE Does(r, new)
    <3>1. new \in HandlerRecord /\ new.at = "open" /\ new.asked = {}
      BY RowTypes DEF Idle, HandlerRecord, Stages
    <3> QED
      BY <2>2, <3>1
  <2> QED
    BY <2>1, <2>2 DEF InitiateRead
<1>2. PICK x \in HandlerRecord : Does(r, x) /\ x.at \in {"retrieve", "open"} /\ x.asked = {}
  BY <1>1
<1>3. HandlerInv(r)'
  BY <1>2, TurnType, Trivial DEF IInv
<1> QED
  BY <1>2, <1>3, HandlerMoves DEF InitiateRead

LEMMA InitiateRetrieveInv == ASSUME IInv, NEW r \in Requests, InitiateRetrieve(r) PROVE IInv'
<1> DEFINE new == [Idle EXCEPT !.at = "open"]
<1>1. new \in HandlerRecord /\ new.at = "open" /\ new.asked = {}
  BY RowTypes DEF Idle, HandlerRecord, Stages
<1>2. Idle \in HandlerRecord /\ Idle.at = "idle" /\ Idle.asked = {}
  BY RowTypes DEF Idle
<1>3. Does(r, Idle) \/ Does(r, new)
  BY DEF InitiateRetrieve, Ends
<1> HIDE DEF new
<1>4. PICK x \in HandlerRecord : Does(r, x) /\ x.at \in {"idle", "open"} /\ x.asked = {}
  BY <1>1, <1>2, <1>3
<1>5. HandlerInv(r)'
  BY <1>4, TurnType, Trivial DEF IInv
<1> QED
  BY <1>4, <1>5, HandlerMoves DEF InitiateRetrieve

\* A row is inserted, whose intent nobody has opened and nobody else will.
LEMMA InitiateSaveInv == ASSUME IInv, NEW r \in Requests, InitiateSave(r) PROVE IInv'
<1> DEFINE x(a) == [Idle EXCEPT !.at = "create", !.a = a, !.row = NewRow]
<1>1. PICK a \in Intents : /\ spay[a].status = "ABSENT" /\ spay' = [spay EXCEPT ![a] = NewRow]
                           /\ Does(r, x(a))
  BY DEF InitiateSave
<1>2. /\ x(a) \in HandlerRecord
      /\ x(a).at = "create" /\ x(a).a = a /\ x(a).row = NewRow /\ x(a).asked = {}
  BY RowTypes DEF Idle, HandlerRecord, Stages, All, Orderless
<1>3. UNCHANGED <<kind, matches, sorder, intent, session, hooks, announced, undone, judged>>
  BY DEF InitiateSave
<1> HIDE DEF x
<1>4. /\ req' \in [Requests -> HandlerRecord] /\ req'[r] = x(a)
      /\ \A s \in Requests \ {r} : req'[s] = req[s]
  BY <1>1, <1>2, TurnType DEF IInv
<1>5. /\ spay' \in [All -> PaymentRow] /\ spay'[a] = NewRow /\ a \notin Orderless
      /\ \A b \in All \ {a} : spay'[b] = spay[b]
  BY <1>1, RowTypes, StripeAssumption, Types DEF IInv, All, Orderless
<1>6. StripeTypeOK /\ StripeTypeOK'
  BY <1>3, <1>4, <1>5, Types, TypesAgain DEF IInv, StripeTypeOK, All, Orderless
<1>7. RowsStay /\ Remembers
  BY <1>1, <1>3, <1>5, <1>6 DEF RowsStay, Remembers, TakesBack, NewRow, StripeTypeOK, All, Orderless
<1>8. intent[a] = "none"
  BY <1>1 DEF IInv, NoIntentBefore
<1>9. HandlerInv(r)'
  BY <1>2, <1>3, <1>4, <1>5, <1>8 DEF HandlerInv, NewRow
<1>10. \A s \in Requests : HandlerInv(s)'
  <2>1. \A s \in Requests \ {r} : HandlerInv(s)'
    BY <1>3, <1>4, <1>7, HandlerKept
  <2> QED
    BY <1>9, <2>1
<1>11. OneOpener'
  <2>1. \A s \in Requests : req[s].at = "create" => req[s].a # a
    BY <1>1 DEF IInv, HandlerInv
  <2> QED
    BY <1>2, <1>4, <2>1 DEF IInv, OneOpener
<1>12. NoIntentBefore' /\ ExpiryLeavesNoOpenIntent'
  BY <1>3, <1>5 DEF IInv, NoIntentBefore, ExpiryLeavesNoOpenIntent, NewRow, All, Orderless
<1> QED
  BY <1>3, <1>6, <1>7, <1>10, <1>11, <1>12, CountKept DEF IInv

LEMMA InitiateCreateInv == ASSUME IInv, NEW r \in Requests, InitiateCreate(r) PROVE IInv'
<1> DEFINE a == req[r].a
<1>0. /\ a \in Intents /\ intent[a] = "none" /\ spay[a].status # "ABSENT"
      /\ req[r].at = "create" /\ req[r] \in HandlerRecord /\ req[r].row.status # "ABSENT"
      /\ \A b \in req[r].asked : intent[b] = "canceled"
  BY Types DEF IInv, HandlerInv, InitiateCreate
<1> DEFINE x(row) == [req[r] EXCEPT !.at = "link", !.row = row]
           failed == [req[r].row EXCEPT !.status = "FAILED"]
<1>1. PICK row \in {req[r].row, failed}, i \in {"open", intent[a]} :
          Does(r, x(row)) /\ intent' = [intent EXCEPT ![a] = i]
  <2>1. PICK opened \in BOOLEAN, answered \in BOOLEAN :
            /\ intent' = [intent EXCEPT ![a] = IF opened THEN "open" ELSE @]
            /\ Does(r, x(IF opened /\ answered THEN req[r].row ELSE failed))
    BY DEF InitiateCreate
  <2> HIDE DEF x, failed
  <2> QED
    BY <2>1
<1>2. /\ x(row) \in HandlerRecord
      /\ x(row).at = "link" /\ x(row).a = a /\ x(row).asked = req[r].asked /\ x(row).row = row
      /\ row.status # "ABSENT"
  <2>1. failed \in PaymentRow /\ failed.status = "FAILED"
    BY <1>0 DEF HandlerRecord, PaymentRow, PaymentAttemptStatus
  <2> HIDE DEF failed
  <2>2. row \in PaymentRow /\ row.status # "ABSENT"
    BY <1>0, <2>1 DEF HandlerRecord
  <2> QED
    BY <1>0, <2>2 DEF HandlerRecord, Stages
<1>3. UNCHANGED <<kind, matches, sorder, spay, session, hooks, announced, undone, judged>>
  BY DEF InitiateCreate
<1> HIDE DEF x, failed
<1>4. /\ req' \in [Requests -> HandlerRecord] /\ req'[r] = x(row)
      /\ \A s \in Requests \ {r} : req'[s] = req[s]
  BY <1>1, <1>2, TurnType DEF IInv
<1>5. intent' \in [All -> IntentState] /\ \A b \in All \ {a} : intent'[b] = intent[b]
  BY <1>0, <1>1, Types DEF IInv, IntentState
<1>6. StripeTypeOK /\ StripeTypeOK'
  BY <1>3, <1>4, <1>5, Types, TypesAgain DEF IInv, StripeTypeOK
<1>7. RowsStay /\ Remembers
  BY <1>0, <1>3, <1>5, Untouched DEF RowsStay
<1>8. HandlerInv(r)'
  <2>1. \A b \in req[r].asked : intent'[b] = "canceled"
    BY <1>0, <1>5 DEF HandlerRecord
  <2> QED
    BY <1>0, <1>1, <1>2, <1>4, <2>1 DEF HandlerInv
<1>9. ASSUME NEW s \in Requests PROVE HandlerInv(s)'
  <2>1. CASE s # r
    <3>1. req[s].at = "create" => req[s].a # a /\ req[s].a \in All
      BY <1>0, <2>1 DEF IInv, OneOpener, HandlerInv, All, Orderless
    <3> QED
      BY <1>4, <1>5, <1>7, <2>1, <3>1, HandlerKept
  <2> QED
    BY <1>8, <2>1
<1>10. OneOpener'
  BY <1>2, <1>4 DEF IInv, OneOpener
<1>11. NoIntentBefore'
  BY <1>0, <1>3, <1>5 DEF IInv, NoIntentBefore, All, Orderless
<1>12. ExpiryLeavesNoOpenIntent'
  BY <1>0, <1>3, <1>5, Types DEF IInv, ExpiryLeavesNoOpenIntent
<1> QED
  BY <1>3, <1>6, <1>7, <1>9, <1>10, <1>11, <1>12, CountKept DEF IInv

\* A row saved over another one: what the saves of the module write.
LEMMA RowSaved ==
  ASSUME StripeTypeOK, NEW a \in All, NEW row \in PaymentRow, row.status # "ABSENT",
         a \in Orderless => row.linked,
         spay' = [spay EXCEPT ![a] = row], intent' = intent
  PROVE  /\ spay' \in [All -> PaymentRow] /\ spay'[a] = row
         /\ \A b \in All \ {a} : spay'[b] = spay[b]
         /\ \A o \in Orderless : spay'[o].linked <=> spay'[o].status # "ABSENT"
         /\ RowsStay
<1>1. /\ spay' \in [All -> PaymentRow] /\ spay'[a] = row
      /\ \A b \in All \ {a} : spay'[b] = spay[b]
  BY Types
<1>2. \A o \in Orderless : spay'[o].linked <=> spay'[o].status # "ABSENT"
  <2>1. ASSUME NEW o \in Orderless PROVE spay'[o].linked <=> spay'[o].status # "ABSENT"
    <3>1. CASE o = a
      BY <1>1, <3>1
    <3>2. CASE o # a
      BY <1>1, <3>2 DEF StripeTypeOK, All
    <3> QED
      BY <3>1, <3>2
  <2> QED
    BY <2>1
<1>3. RowsStay
  <2>1. \A b \in All : spay[b].status # "ABSENT" => spay'[b].status # "ABSENT"
    BY <1>1
  <2>2. \A o \in Orderless : spay[o].linked => spay'[o].linked
    BY <1>1, <1>2, <2>1 DEF StripeTypeOK, All, Orderless
  <2> QED
    BY <2>1, <2>2 DEF RowsStay
<1> QED
  BY <1>1, <1>2, <1>3

LEMMA InitiateLinkInv == ASSUME IInv, NEW r \in Requests, InitiateLink(r) PROVE IInv'
<1> DEFINE a == req[r].a
           ok == req[r].row.status = "PENDING"
           row == [req[r].row EXCEPT !.linked = ok, !.fresh = spay[req[r].a].fresh]
           on == [req[r] EXCEPT !.at = "stamp"]
<1>0. /\ a \in Intents /\ a \in All /\ req[r].row.status # "ABSENT" /\ req[r] \in HandlerRecord
      /\ \A b \in req[r].asked : intent[b] = "canceled"
      /\ StripeTypeOK /\ spay[a] \in PaymentRow
  BY Types DEF IInv, HandlerInv, InitiateLink, All, Orderless
<1>1. row \in PaymentRow /\ row.status # "ABSENT"
  <2>1. ok \in BOOLEAN /\ spay[a].fresh \in BOOLEAN /\ req[r].row \in PaymentRow
    BY <1>0 DEF PaymentRow, HandlerRecord
  <2> HIDE DEF ok
  <2> QED
    BY <1>0, <2>1 DEF PaymentRow
<1>2. spay' = [spay EXCEPT ![a] = row] /\ (Does(r, on) \/ Does(r, Idle))
  BY DEF InitiateLink, Ends
<1>3. on \in HandlerRecord /\ on.at = "stamp" /\ on.a = a /\ on.asked = req[r].asked
  BY <1>0 DEF HandlerRecord, Stages
<1>4. UNCHANGED <<kind, matches, sorder, intent, session, hooks, announced, judged>> /\ Remembers
  BY UndoesRemembers DEF InitiateLink
<1>5. a \notin Orderless
  BY <1>0, StripeAssumption DEF Orderless
<1> HIDE DEF row, on
<1>6. /\ spay' \in [All -> PaymentRow] /\ RowsStay
      /\ \A o \in Orderless : spay'[o].linked <=> spay'[o].status # "ABSENT"
  BY <1>0, <1>1, <1>2, <1>4, <1>5, RowSaved
<1>7. HandlerInv(r)'
  <2>1. CASE Does(r, on)
    BY <1>0, <1>3, <1>4, <2>1, TurnType DEF HandlerInv
  <2>2. CASE Does(r, Idle)
    BY <1>0, <2>2, RowTypes, TurnType, Trivial DEF Idle
  <2> QED
    BY <1>2, <2>1, <2>2
<1>8. Idle \in HandlerRecord /\ Idle.at # "create"
  BY RowTypes DEF Idle
<1>9. sorder' \in OrderRow /\ session' \in {"none", "open", "completed", "expired"}
  BY <1>0, <1>4 DEF StripeTypeOK
<1> QED
  BY <1>2, <1>3, <1>4, <1>6, <1>7, <1>8, <1>9, HandlerSaves

LEMMA InitiateStampInv == ASSUME IInv, NEW r \in Requests, InitiateStamp(r) PROVE IInv'
<1>0. req[r].a \in All /\ StripeTypeOK
  BY DEF IInv, HandlerInv, InitiateStamp, All, Orderless
<1>1. sorder' \in OrderRow /\ sorder'.pay = sorder.pay
  BY <1>0, Types DEF InitiateStamp, OrderRow
<1>2. UNCHANGED <<kind, matches, spay, intent, session, hooks, announced, undone, judged>>
  BY DEF InitiateStamp
<1>3. Remembers /\ RowsStay
  BY <1>0, <1>1, <1>2 DEF Remembers, RowsStay, TakesBack, StripeTypeOK
<1>4. Does(r, Idle) /\ HandlerInv(r)'
  BY <1>0, RowTypes, TurnType, Trivial DEF InitiateStamp, Ends, Idle
<1>5. /\ spay' \in [All -> PaymentRow] /\ session' \in {"none", "open", "completed", "expired"}
      /\ \A o \in Orderless : spay'[o].linked <=> spay'[o].status # "ABSENT"
  BY <1>0, <1>2, Types DEF StripeTypeOK
<1>6. Idle \in HandlerRecord /\ Idle.at # "create"
  BY RowTypes DEF Idle
<1> QED
  BY <1>1, <1>2, <1>3, <1>4, <1>5, <1>6, HandlerSaves

----------------------------------------------------------------------------
(* The webhook                                                              *)

\* Whoever reads a row to save it later reads one that exists.
LEMMA ReadInv ==
  ASSUME IInv, NEW r \in Requests, NEW a \in All, NEW at \in {"failed", "reconcile"},
         spay[a].status # "ABSENT",
         Does(r, [Idle EXCEPT !.at = at, !.a = a, !.row = Remembered(a)]),
         UNCHANGED <<kind, matches, sorder, spay, intent, session, hooks, announced, undone, judged>>
  PROVE  IInv'
<1> DEFINE x == [Idle EXCEPT !.at = at, !.a = a, !.row = Remembered(a)]
<1>0. StripeTypeOK /\ spay[a] \in PaymentRow
  BY Types DEF IInv
<1>a. /\ Remembered(a) \in PaymentRow /\ Remembered(a).status = spay[a].status
      /\ Remembered(a).linked = spay[a].linked
  BY <1>0 DEF Remembered, PaymentRow
<1>1. /\ x \in HandlerRecord /\ x.at = at /\ x.a = a /\ x.row = Remembered(a) /\ x.asked = {}
  BY <1>0, <1>a, RowTypes DEF Idle, HandlerRecord, Stages
<1> HIDE DEF x
<1>2. req'[r] = x
  BY <1>0, <1>1, TurnType DEF x
<1>3. a \in Orderless => spay[a].linked
  BY <1>0 DEF StripeTypeOK
<1>4. HandlerInv(r)'
  BY <1>a, <1>1, <1>2, <1>3 DEF HandlerInv
<1> QED
  BY <1>1, <1>4, HandlerMoves DEF x

LEMMA FailedReadInv == ASSUME IInv, NEW r \in Requests, NEW a \in All, FailedRead(r, a) PROVE IInv'
BY ReadInv DEF FailedRead, MayFail

LEMMA FailedSaveInv == ASSUME IInv, NEW r \in Requests, FailedSave(r) PROVE IInv'
<1> DEFINE a == req[r].a
           row == [req[r].row EXCEPT !.status = "FAILED", !.fresh = spay[req[r].a].fresh]
<1>0. /\ a \in All /\ (a \in Orderless => req[r].row.linked) /\ req[r] \in HandlerRecord
      /\ StripeTypeOK /\ spay[a] \in PaymentRow
  BY Types DEF IInv, HandlerInv, FailedSave
<1>1. row \in PaymentRow /\ row.status = "FAILED" /\ (a \in Orderless => row.linked)
  <2>1. spay[a].fresh \in BOOLEAN /\ req[r].row \in PaymentRow
    BY <1>0 DEF PaymentRow, HandlerRecord
  <2> QED
    BY <1>0, <2>1 DEF PaymentRow, PaymentAttemptStatus
<1>2. spay' = [spay EXCEPT ![a] = row] /\ Does(r, Idle)
  BY DEF FailedSave, Ends
<1>3. UNCHANGED <<kind, matches, sorder, intent, session, hooks, announced, judged>> /\ Remembers
  BY UndoesRemembers DEF FailedSave
<1> HIDE DEF row
<1>4. /\ spay' \in [All -> PaymentRow] /\ RowsStay
      /\ \A o \in Orderless : spay'[o].linked <=> spay'[o].status # "ABSENT"
  BY <1>0, <1>1, <1>2, <1>3, RowSaved
<1>5. HandlerInv(r)' /\ Idle \in HandlerRecord /\ Idle.at # "create"
  BY <1>0, <1>2, RowTypes, TurnType, Trivial DEF Idle
<1>6. sorder' \in OrderRow /\ session' \in {"none", "open", "completed", "expired"}
  BY <1>0, <1>3 DEF StripeTypeOK
<1> QED
  BY <1>2, <1>3, <1>4, <1>5, <1>6, HandlerSaves

LEMMA SessionExpiredInv == ASSUME IInv, SessionExpired PROVE IInv'
<1>0. StripeTypeOK
  BY DEF IInv
<1>1. sorder' \in OrderRow
  BY <1>0, Types DEF SessionExpired, OrderRow, OrderStatus, PaymentState
<1>2. UNCHANGED <<kind, matches, spay, intent, session, hooks, announced, judged, req>> /\ Remembers
  BY UndoesRemembers DEF SessionExpired
<1>3. StripeTypeOK'
  BY <1>0, <1>1, <1>2, Types, TypesAgain DEF StripeTypeOK, Remembers
<1>4. RowsStay
  BY <1>2 DEF RowsStay
<1> QED
  BY <1>2, <1>3, <1>4, CountKept, NoHandler DEF IInv

LEMMA SessionReadInv == ASSUME IInv, NEW r \in Requests, SessionRead(r) PROVE IInv'
<1> DEFINE x == [Idle EXCEPT !.at = "complete"]
<1>1. x \in HandlerRecord /\ x.at = "complete" /\ x.asked = {}
  BY RowTypes DEF Idle, HandlerRecord, Stages
<1>2. Does(r, x)
  BY DEF SessionRead
<1> HIDE DEF x
<1>3. HandlerInv(r)'
  BY <1>1, <1>2, TurnType, Trivial DEF IInv
<1> QED
  BY <1>1, <1>2, <1>3, HandlerMoves DEF SessionRead

LEMMA SessionSaveInv == ASSUME IInv, NEW r \in Requests, SessionSave(r) PROVE IInv'
<1>0. StripeTypeOK /\ Own \in All
  BY DEF IInv, All, Orderless
<1>1. sorder' \in OrderRow /\ sorder'.pay = "PAID"
  BY <1>0, Types DEF SessionSave, OrderRow, OrderStatus, PaymentState
<1>2. UNCHANGED <<kind, matches, spay, intent, session, hooks, announced, undone, judged>>
  BY DEF SessionSave
<1>3. Remembers /\ RowsStay
  BY <1>0, <1>1, <1>2 DEF Remembers, RowsStay, TakesBack, StripeTypeOK
<1>4. Does(r, Idle) /\ HandlerInv(r)'
  BY <1>0, RowTypes, TurnType, Trivial DEF SessionSave, Ends, Idle
<1>5. /\ spay' \in [All -> PaymentRow] /\ session' \in {"none", "open", "completed", "expired"}
      /\ \A o \in Orderless : spay'[o].linked <=> spay'[o].status # "ABSENT"
  BY <1>0, <1>2, Types DEF StripeTypeOK
<1>6. Idle \in HandlerRecord /\ Idle.at # "create"
  BY RowTypes DEF Idle
<1> QED
  BY <1>1, <1>2, <1>3, <1>4, <1>5, <1>6, HandlerSaves

\* The payment is recorded: it was not announced, or something took it back.
LEMMA ConfirmWrites ==
  ASSUME IInv, NEW a \in All, Confirm(a), ~Settled(a), announced[a] < MaxAnnounced,
         UNCHANGED <<kind, matches, intent, session, judged, req>>, hooks' \subseteq hooks, Undoes
  PROVE  IInv'
<1> DEFINE row == [status |-> "PAID", linked |-> TRUE,
                   fresh |-> (spay[a].fresh \/ spay[a].status = "ABSENT"), review |-> FALSE]
<1>0. StripeTypeOK
  BY DEF IInv
<1>1. row \in PaymentRow /\ row.status = "PAID" /\ row.linked
  BY DEF PaymentRow, PaymentAttemptStatus
<1>2. spay' = [spay EXCEPT ![a] = row]
  BY DEF Confirm
<1> HIDE DEF row
<1>3. /\ spay' \in [All -> PaymentRow] /\ spay'[a].status = "PAID" /\ RowsStay
      /\ \A o \in Orderless : spay'[o].linked <=> spay'[o].status # "ABSENT"
      /\ \A b \in All \ {a} : spay'[b] = spay[b]
  BY <1>0, <1>1, <1>2, RowSaved
<1>4. sorder' \in OrderRow /\ sorder'.pay = "PAID"
  BY <1>0, Types DEF Confirm, OrderRow, OrderStatus, PaymentState
<1>5. /\ announced' = [announced EXCEPT ![a] = @ + 1]
      /\ announced' \in [All -> 0 .. MaxAnnounced]
  BY <1>0, Types, StripeAssumption DEF Confirm
<1>6. Remembers
  BY UndoesRemembers
<1>7. StripeTypeOK'
  BY <1>0, <1>3, <1>4, <1>5, <1>6, Types, TypesAgain DEF StripeTypeOK, Remembers
<1>8. Counted' /\ AnnouncedAgainOnlyIfUndone'
  BY <1>3, <1>4, <1>5, <1>6, CountRises DEF Remembers
<1> QED
  BY <1>3, <1>7, <1>8, NoHandler DEF IInv

LEMMA MismatchWrites ==
  ASSUME IInv, NEW a \in All, Mismatch(a),
         UNCHANGED <<kind, matches, intent, session, judged, req>>, hooks' \subseteq hooks, Undoes
  PROVE  IInv'
<1> DEFINE new == [NewRow EXCEPT !.linked = TRUE]
           old == IF spay[a].status = "ABSENT" THEN new ELSE spay[a]
           row == [old EXCEPT !.review = TRUE]
<1>0. StripeTypeOK /\ spay[a] \in PaymentRow
  BY Types DEF IInv
<1>1. new \in PaymentRow /\ new.status = "PENDING" /\ new.linked
  BY RowTypes DEF NewRow, PaymentRow
<1>2. old \in PaymentRow /\ old.status # "ABSENT" /\ (a \in Orderless => old.linked)
  BY <1>0, <1>1 DEF StripeTypeOK
<1>3. spay' = [spay EXCEPT ![a] = row]
  BY DEF Mismatch
<1> HIDE DEF old
<1>4. row \in PaymentRow /\ row.status # "ABSENT" /\ (a \in Orderless => row.linked)
  BY <1>2 DEF PaymentRow
<1> HIDE DEF row
<1>5. /\ spay' \in [All -> PaymentRow] /\ RowsStay
      /\ \A o \in Orderless : spay'[o].linked <=> spay'[o].status # "ABSENT"
  BY <1>0, <1>3, <1>4, RowSaved
<1>6. sorder' \in OrderRow /\ UNCHANGED announced /\ Remembers
  BY <1>0, Types, UndoesRemembers DEF Mismatch, OrderRow, PaymentState
<1>7. StripeTypeOK'
  BY <1>0, <1>5, <1>6, Types, TypesAgain DEF StripeTypeOK, Remembers
<1> QED
  BY <1>5, <1>6, <1>7, CountKept, NoHandler DEF IInv

LEMMA IntentSucceededInv == ASSUME IInv, NEW a \in All, IntentSucceeded(a) PROVE IInv'
<1>0. StripeTypeOK
  BY DEF IInv
<1>1. hooks' \subseteq hooks /\ UNCHANGED <<kind, matches, intent, session, judged, req>>
  BY DEF IntentSucceeded
<1>2. Undoes
  BY DEF IntentSucceeded
<1>3. CASE UNCHANGED <<sorder, spay, announced>>
  <2>1. StripeTypeOK' /\ RowsStay /\ Remembers
    <3>1. RowsStay /\ Remembers
      BY <1>1, <1>2, <1>3, UndoesRemembers DEF RowsStay
    <3> QED
      BY <1>0, <1>1, <1>3, <3>1, Types, TypesAgain DEF StripeTypeOK, Remembers
  <2> QED
    BY <1>1, <1>3, <2>1, CountKept, NoHandler DEF IInv
<1>4. CASE ~AlreadyConfirmed(a) /\ announced[a] < MaxAnnounced /\ Confirm(a)
  BY <1>1, <1>2, <1>4, ConfirmWrites DEF AlreadyConfirmed, Settled
<1>5. CASE Mismatch(a)
  BY <1>1, <1>2, <1>5, MismatchWrites
<1> QED
  BY <1>3, <1>4, <1>5 DEF IntentSucceeded

----------------------------------------------------------------------------
(* Reconciliation                                                           *)

LEMMA ReconcileReadInv ==
  ASSUME IInv, NEW r \in Requests, NEW a \in All, ReconcileRead(r, a) PROVE IInv'
BY ReadInv DEF ReconcileRead

LEMMA ReconcileAskInv == ASSUME IInv, NEW r \in Requests, ReconcileAsk(r) PROVE IInv'
<1> DEFINE a == req[r].a
           read == req[r].row
           on == [req[r] EXCEPT !.at = "commit"]
<1>0. /\ a \in All /\ read.status # "ABSENT" /\ (a \in Orderless => read.linked /\ spay[a].linked)
      /\ req[r] \in HandlerRecord /\ StripeTypeOK /\ spay[a] \in PaymentRow
      /\ \A b \in req[r].asked : intent[b] = "canceled"
  BY Types DEF IInv, HandlerInv, ReconcileAsk
<1>1. UNCHANGED <<kind, matches, sorder, intent, session, hooks, announced, judged>> /\ Remembers
  BY UndoesRemembers DEF ReconcileAsk
<1>2. sorder' \in OrderRow /\ session' \in {"none", "open", "completed", "expired"}
  BY <1>0, <1>1 DEF StripeTypeOK
<1>3. CASE Does(r, on) /\ UNCHANGED spay
  <2>1. on \in HandlerRecord /\ on.at = "commit" /\ on.a = a /\ on.row = read /\ on.asked = req[r].asked
    BY <1>0 DEF HandlerRecord, Stages
  <2> HIDE DEF on
  <2>2. HandlerInv(r)'
    BY <1>0, <1>1, <1>3, <2>1, TurnType DEF HandlerInv
  <2>3. /\ spay' \in [All -> PaymentRow] /\ RowsStay
        /\ \A o \in Orderless : spay'[o].linked <=> spay'[o].status # "ABSENT"
    BY <1>0, <1>1, <1>3, Types DEF RowsStay, StripeTypeOK
  <2> QED
    BY <1>1, <1>2, <1>3, <2>1, <2>2, <2>3, HandlerSaves
<1>4. ASSUME NEW row \in PaymentRow, row.status # "ABSENT", a \in Orderless => row.linked,
             spay' = [spay EXCEPT ![a] = [row EXCEPT !.fresh = spay[a].fresh]], Ends(r)
      PROVE  IInv'
  <2> DEFINE saved == [row EXCEPT !.fresh = spay[a].fresh]
  <2>1. saved \in PaymentRow /\ saved.status # "ABSENT" /\ (a \in Orderless => saved.linked)
    BY <1>0, <1>4 DEF PaymentRow
  <2>2. spay' = [spay EXCEPT ![a] = saved]
    BY <1>4
  <2> HIDE DEF saved
  <2>3. /\ spay' \in [All -> PaymentRow] /\ RowsStay
        /\ \A o \in Orderless : spay'[o].linked <=> spay'[o].status # "ABSENT"
    BY <1>0, <1>1, <2>1, <2>2, RowSaved
  <2>4. HandlerInv(r)' /\ Idle \in HandlerRecord /\ Idle.at # "create" /\ Does(r, Idle)
    BY <1>0, <1>4, RowTypes, TurnType, Trivial DEF Idle, Ends
  <2> QED
    BY <1>1, <1>2, <2>3, <2>4, HandlerSaves
<1>5. /\ [read EXCEPT !.review = TRUE] \in PaymentRow
      /\ [read EXCEPT !.review = TRUE].status = read.status
      /\ a \in Orderless => [read EXCEPT !.review = TRUE].linked
  BY <1>0 DEF HandlerRecord, PaymentRow
<1>6. /\ [read EXCEPT !.status = "CANCELLED", !.review = FALSE] \in PaymentRow
      /\ [read EXCEPT !.status = "CANCELLED", !.review = FALSE].status = "CANCELLED"
      /\ a \in Orderless => [read EXCEPT !.status = "CANCELLED", !.review = FALSE].linked
  BY <1>0 DEF HandlerRecord, PaymentRow, PaymentAttemptStatus
<1>7. \/ Does(r, on) /\ UNCHANGED spay
      \/ /\ spay' = [spay EXCEPT ![a] = [[read EXCEPT !.review = TRUE] EXCEPT !.fresh = spay[a].fresh]]
         /\ Ends(r)
      \/ /\ spay' = [spay EXCEPT ![a] = [[read EXCEPT !.status = "CANCELLED", !.review = FALSE]
                                            EXCEPT !.fresh = spay[a].fresh]]
         /\ Ends(r)
  BY DEF ReconcileAsk
<1> QED
  BY <1>0, <1>3, <1>4, <1>5, <1>6, <1>7

LEMMA ReconcileCommitInv == ASSUME IInv, NEW r \in Requests, ReconcileCommit(r) PROVE IInv'
<1> DEFINE a == req[r].a
           row == [spay[a] EXCEPT !.status = "PAID", !.review = FALSE]
<1>0. /\ a \in All /\ (a \in Orderless => spay[a].linked)
      /\ StripeTypeOK /\ spay[a] \in PaymentRow /\ spay[a].status # "PAID"
      /\ announced[a] < MaxAnnounced
  BY Types DEF IInv, HandlerInv, ReconcileCommit
<1>1. row \in PaymentRow /\ row.status = "PAID" /\ (a \in Orderless => row.linked)
  BY <1>0 DEF PaymentRow, PaymentAttemptStatus
<1>2. spay' = [spay EXCEPT ![a] = row]
  BY DEF ReconcileCommit
<1>3. UNCHANGED <<kind, matches, intent, session, hooks, undone, judged>> /\ Does(r, Idle)
  BY DEF ReconcileCommit, Ends
<1> HIDE DEF row
<1>4. /\ spay' \in [All -> PaymentRow] /\ spay'[a].status = "PAID" /\ RowsStay
      /\ \A o \in Orderless : spay'[o].linked <=> spay'[o].status # "ABSENT"
      /\ \A b \in All \ {a} : spay'[b] = spay[b]
  BY <1>0, <1>1, <1>2, <1>3, RowSaved
<1>5. sorder' \in OrderRow /\ sorder'.pay = "PAID"
  BY <1>0, Types DEF ReconcileCommit, OrderRow, OrderStatus, PaymentState
<1>6. announced' = [announced EXCEPT ![a] = @ + 1] /\ announced' \in [All -> 0 .. MaxAnnounced]
  BY <1>0, Types, StripeAssumption DEF ReconcileCommit
<1>7. /\ req' \in [Requests -> HandlerRecord] /\ req'[r] = Idle
      /\ \A s \in Requests \ {r} : req'[s] = req[s]
      /\ HandlerInv(r)' /\ req'[r].at # "create"
  BY <1>0, <1>3, RowTypes, TurnType, Trivial DEF Idle
<1>8. StripeTypeOK'
  BY <1>0, <1>3, <1>4, <1>5, <1>6, <1>7, Types, TypesAgain DEF StripeTypeOK
<1>9. Counted' /\ AnnouncedAgainOnlyIfUndone'
  BY <1>0, <1>3, <1>4, <1>5, <1>6, CountRises DEF Settled
<1>10. \A b \in judged' : intent'[b] = "canceled"
  BY <1>3 DEF IInv, ExpiryLeavesNoOpenIntent
<1> QED
  BY <1>3, <1>4, <1>7, <1>8, <1>9, <1>10, OneHandler DEF IInv

----------------------------------------------------------------------------
(* The expiry worker                                                        *)

LEMMA ExpiryReadInv == ASSUME IInv, NEW r \in Requests, ExpiryRead(r) PROVE IInv'
<1> DEFINE todo == {IntentOf(a) : a \in {b \in All : spay[b].status # "ABSENT"}} \ {Nobody}
           x == [Idle EXCEPT !.at = "expire", !.todo = todo]
<1>0. StripeTypeOK
  BY DEF IInv
<1>1. todo \in SUBSET All
  BY <1>0, Types DEF IntentOf, OrderRow
<1> HIDE DEF todo
<1>2. x \in HandlerRecord /\ x.at = "expire" /\ x.asked = {}
  BY <1>1, RowTypes DEF Idle, HandlerRecord, Stages
<1>3. Does(r, x)
  BY DEF ExpiryRead, todo
<1> HIDE DEF x
<1>4. HandlerInv(r)'
  BY <1>0, <1>2, <1>3, TurnType, Trivial DEF HandlerInv
<1> QED
  BY <1>2, <1>3, <1>4, HandlerMoves DEF ExpiryRead

LEMMA ExpiryAskInv == ASSUME IInv, NEW r \in Requests, NEW a \in All, ExpiryAsk(r, a) PROVE IInv'
<1> DEFINE x == [req[r] EXCEPT !.todo = @ \ {a}, !.asked = @ \cup {a}]
<1>0. /\ StripeTypeOK /\ req[r] \in HandlerRecord /\ req[r].at = "expire"
      /\ \A b \in req[r].asked : intent[b] = "canceled"
  BY Types DEF IInv, HandlerInv, ExpiryAsk
<1>1. x \in HandlerRecord /\ x.at = "expire" /\ x.asked = req[r].asked \cup {a}
  BY <1>0 DEF HandlerRecord, Stages
<1>2. Does(r, x)
  BY DEF ExpiryAsk
<1> HIDE DEF x
<1>3. UNCHANGED <<kind, matches, sorder, spay, session, hooks, announced, undone, judged>>
  BY DEF ExpiryAsk
<1>4. /\ intent' \in [All -> IntentState] /\ intent[a] \in {"open", "canceled"} /\ intent'[a] = "canceled"
      /\ \A b \in All \ {a} : intent'[b] = intent[b]
  BY <1>0, Types DEF ExpiryAsk, Cancellable, IntentState
<1>5. /\ req' \in [Requests -> HandlerRecord] /\ req'[r] = x
      /\ \A s \in Requests \ {r} : req'[s] = req[s]
  BY <1>0, <1>1, <1>2, TurnType
<1>6. StripeTypeOK'
  BY <1>0, <1>3, <1>4, <1>5, Types, TypesAgain DEF StripeTypeOK
<1>7. RowsStay /\ Remembers
  BY <1>3, <1>4, Untouched DEF RowsStay
<1>8. HandlerInv(r)'
  <2>1. \A b \in x.asked : intent'[b] = "canceled"
    BY <1>0, <1>1, <1>4 DEF HandlerRecord
  <2> QED
    BY <1>1, <1>5, <2>1 DEF HandlerInv
<1>9. \A b \in judged' : intent'[b] = "canceled"
  BY <1>0, <1>3, <1>4, Types DEF IInv, ExpiryLeavesNoOpenIntent
<1>10. \A b \in Intents : intent[b] = "none" => intent'[b] = "none"
  BY <1>4 DEF All, Orderless
<1>11. req'[r].at # "create"
  BY <1>1, <1>5
<1> QED
  BY <1>3, <1>5, <1>6, <1>7, <1>8, <1>9, <1>10, <1>11, CountKept, OneHandler DEF IInv

LEMMA ExpiryCommitInv == ASSUME IInv, NEW r \in Requests, ExpiryCommit(r) PROVE IInv'
<1>0. /\ StripeTypeOK /\ req[r] \in HandlerRecord
      /\ \A b \in req[r].asked : intent[b] = "canceled"
  BY Types DEF IInv, HandlerInv
<1>1. UNCHANGED <<kind, matches, intent, session, hooks, announced, undone>> /\ Does(r, Idle)
  BY DEF ExpiryCommit, Ends
<1>2. \/ UNCHANGED <<sorder, spay, judged>>
      \/ /\ sorder.pay # "PAID"
         /\ sorder' = [sorder EXCEPT !.status = "CANCELLED", !.pay = "UNPAID"]
         /\ spay' = [a \in All |-> IF spay[a].status \in {"PENDING", "UNKNOWN"}
                                   THEN [spay[a] EXCEPT !.status = "EXPIRED"] ELSE spay[a]]
         /\ judged' = req[r].asked
  BY DEF ExpiryCommit
<1>3. sorder' \in OrderRow /\ (sorder.pay = "PAID" => sorder'.pay = "PAID")
  BY <1>0, <1>2, Types DEF OrderRow, OrderStatus, PaymentState
<1>4. /\ spay' \in [All -> PaymentRow]
      /\ \A a \in All : /\ spay[a].status # "ABSENT" <=> spay'[a].status # "ABSENT"
                        /\ spay[a].status = "PAID" => spay'[a].status = "PAID"
                        /\ spay[a].linked <=> spay'[a].linked
  <2> DEFINE expired(a) == [spay[a] EXCEPT !.status = "EXPIRED"]
  <2>1. spay \in [All -> PaymentRow]
    BY <1>0, Types
  <2>2. ASSUME NEW a \in All
        PROVE  /\ expired(a) \in PaymentRow /\ expired(a).status = "EXPIRED"
               /\ expired(a).linked <=> spay[a].linked
    <3>1. spay[a] \in PaymentRow
      BY <2>1
    <3> QED
      BY <3>1 DEF PaymentRow, PaymentAttemptStatus
  <2>3. \/ spay' = spay
        \/ spay' = [a \in All |-> IF spay[a].status \in {"PENDING", "UNKNOWN"} THEN expired(a)
                                  ELSE spay[a]]
    BY <1>2
  <2> HIDE DEF expired
  <2> QED
    BY <2>1, <2>2, <2>3
<1>5. /\ req' \in [Requests -> HandlerRecord] /\ req'[r].at # "create" /\ HandlerInv(r)'
      /\ \A s \in Requests \ {r} : req'[s] = req[s]
  BY <1>0, <1>1, RowTypes, TurnType, Trivial DEF Idle
<1>6. judged' \subseteq All
  BY <1>0, <1>2, Types DEF HandlerRecord
<1>7. \A o \in Orderless : spay'[o].linked <=> spay'[o].status # "ABSENT"
  BY <1>0, <1>4 DEF StripeTypeOK, All, Orderless
<1>8. StripeTypeOK'
  BY <1>0, <1>1, <1>3, <1>4, <1>5, <1>6, <1>7, Types, TypesAgain DEF StripeTypeOK
<1>9. RowsStay /\ Remembers
  BY <1>0, <1>1, <1>3, <1>4 DEF RowsStay, Remembers, TakesBack, StripeTypeOK, All, Orderless
<1>10. \A b \in judged' : intent'[b] = "canceled"
  BY <1>0, <1>1, <1>2 DEF IInv, ExpiryLeavesNoOpenIntent
<1> QED
  BY <1>1, <1>5, <1>8, <1>9, <1>10, CountKept, OneHandler DEF IInv

----------------------------------------------------------------------------
(* Theorems                                                                 *)

LEMMA StutterInv == ASSUME IInv, UNCHANGED stripeVars PROVE IInv'
<1> USE DEF stripeVars
<1>1. RowsStay /\ Remembers
  BY Untouched DEF RowsStay
<1>2. StripeTypeOK'
  BY Types, TypesAgain DEF IInv, StripeTypeOK
<1> QED
  BY <1>1, <1>2, CountKept, NoHandler DEF IInv

LEMMA StepInv == IInv /\ [StripeNext]_stripeVars => IInv'
<1> SUFFICES ASSUME IInv, [StripeNext]_stripeVars PROVE IInv'
  OBVIOUS
<1>1. CASE \/ \E a \in All : Charge(a)
           \/ SessionMoves \/ TimePasses \/ CreatePayment \/ PlaceOrder \/ CancelOrder
  BY <1>1, ChargeInv, SessionMovesInv, TimePassesInv, CreatePaymentInv, PlaceOrderInv, CancelOrderInv
<1>2. CASE HandleWebhookEvent
  BY <1>2, IntentSucceededInv, FailedReadInv, SessionReadInv, SessionSaveInv, SessionExpiredInv
     DEF HandleWebhookEvent
<1>3. ASSUME NEW r \in Requests,
             \/ SessionOrder(r) \/ SessionCreate(r)
             \/ InitiateRead(r) \/ InitiateRetrieve(r) \/ InitiateSave(r) \/ InitiateCreate(r)
             \/ InitiateLink(r) \/ InitiateStamp(r)
      PROVE  IInv'
  BY <1>3, SessionOrderInv, SessionCreateInv, InitiateReadInv, InitiateRetrieveInv, InitiateSaveInv,
     InitiateCreateInv, InitiateLinkInv, InitiateStampInv
<1>4. ASSUME NEW r \in Requests,
             \/ FailedSave(r) \/ ReconcileAsk(r) \/ ReconcileCommit(r)
             \/ ExpiryRead(r) \/ ExpiryCommit(r) \/ Abort(r)
             \/ \E a \in All : ReconcileRead(r, a) \/ ExpiryAsk(r, a)
      PROVE  IInv'
  BY <1>4, FailedSaveInv, ReconcileAskInv, ReconcileCommitInv, ExpiryReadInv, ExpiryCommitInv,
     AbortInv, ReconcileReadInv, ExpiryAskInv
<1> QED
  BY <1>1, <1>2, <1>3, <1>4, StutterInv DEF StripeNext

LEMMA Invariance == StripeSpec => []IInv
BY InitInv, StepInv, PTL DEF StripeSpec

\* Rows of the right type, and a payment that is announced once however often
\* Stripe repeats its event and whoever reconciles it meanwhile, until something
\* takes its PAID back.
THEOREM PaymentAnnouncedOnce == StripeSpec => []StripeSafety
<1>1. IInv => StripeSafety
  BY DEF IInv, StripeSafety
<1> QED
  BY <1>1, Invariance, PTL

\* No money can arrive any more through an intent the expiry worker knew of when
\* it cancelled the order.
THEOREM NoOpenIntentLeft == StripeSpec => []ExpiryLeavesNoOpenIntent
<1>1. IInv => ExpiryLeavesNoOpenIntent
  BY DEF IInv
<1> QED
  BY <1>1, Invariance, PTL
=============================================================================

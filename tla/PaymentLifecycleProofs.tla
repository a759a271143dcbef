----------------------- MODULE PaymentLifecycleProofs -----------------------
(***************************************************************************)
(* Proofs about PaymentLifecycle for every value of its constants.         *)
(*                                                                         *)
(* The safety properties relate the rows to what the gateway did, but a    *)
(* handler that read a row, awaited and writes it back acts on what it     *)
(* remembers.  The inductive invariant IInv therefore adds what each       *)
(* activation in flight can rely on (SoundActivation).  A step is analysed *)
(* in two halves: it takes nothing back that the other activations rely on *)
(* (Grows, Kept), and the one that moves lands in a sound place (Turns);   *)
(* TurnStep joins the halves, and each action's lemma adds its rows.       *)
(***************************************************************************)
EXTENDS PaymentLifecycle, TLAPS

\* Steps at which an activation has chosen a payment attempt.
AttemptSteps ==
    {"confirm", "validate", "commit", "failSave", "cancelRead", "cancelSave", "reconQuery",
     "reconSave", "sessionSave", "flagSave", "approved", "adminQuery", "adminCommit"}

\* Steps at which an activation remembers the row of its attempt.
RowSteps ==
    {"validate", "failSave", "cancelSave", "reconQuery", "reconSave", "flagSave", "adminQuery"}

\* What an activation may rely on between two of its steps, although the rows
\* it read are no longer locked: its attempt still exists; a remembered PAID
\* is backed by money; a remembered row about to be saved as FAILED or CANCELLED
\* was not PAID; a transaction is entered only with the gateway's VALID; a
\* session about to be saved has no row yet; a remembered PAID order was
\* announced.
SoundActivation(x) ==
    /\ x.pc \in AttemptSteps => x.a \in Attempts
    /\ x.pc \in RowSteps =>
           /\ Exists(x.a)
           /\ x.row.status # "ABSENT"
           /\ x.row.status = "PAID" => gw[x.a] \in Captured
    /\ x.pc \in {"failSave", "cancelSave"} => x.row.status # "PAID"
    /\ x.pc \in {"commit", "adminCommit"} => Exists(x.a) /\ gw[x.a] \in Captured
    /\ x.pc \in {"reconQuery", "reconSave"} => x.row.recon < MaxRecon
    /\ x.pc = "sessionSave" => ~Exists(x.a) /\ gw[x.a] # "NONE"
    /\ x.pc = "courierSave" /\ x.ord.pay = "PAID" =>
           /\ \E a \in Attempts : gw[a] \in Captured
           /\ \E a \in Attempts : confirmed[a] > 0

\* Every activation is sound.
Sound == \A p \in Procs : SoundActivation(proc[p])

\* Two activations never hold the same fresh tran_id.
SessionsDistinct ==
    \A p, q \in Procs :
        proc[p].pc = "sessionSave" /\ proc[q].pc = "sessionSave" /\ p # q => proc[p].a # proc[q].a

\* A payment row is saved only after its gateway session was opened.
NoSessionNoRow == \A a \in Attempts : gw[a] = "NONE" => ~Exists(a)

\* The inductive invariant.  The three safety properties are not inductive
\* alone: they hold because of what the activations in flight remember.
IInv ==
    /\ TypeOK
    /\ Sound
    /\ SessionsDistinct
    /\ NoSessionNoRow
    /\ PaidMeansCaptured
    /\ OneConsequence
    /\ PaidOrderIsAnnounced

\* A step that creates no payment row.
Kept == \A a \in Attempts : ~Exists(a) => att'[a] = att[a]

\* A step after which every activation is unchanged or is sound again (and
\* holds no session).
Turns ==
    /\ proc' \in [Procs -> Activation]
    /\ \A p \in Procs :
           proc'[p] = proc[p] \/ (SoundActivation(proc[p])' /\ proc'[p].pc # "sessionSave")

\* A step in which only activation p moves, to a sound place.
TurnOf(p) ==
    /\ proc' \in [Procs -> Activation]
    /\ \A q \in Procs \ {p} : proc'[q] = proc[q]
    /\ SoundActivation(proc[p])'
    /\ proc'[p].pc # "sessionSave"

\* A step that takes back nothing an activation relies on: rows stay, money
\* stays, sessions stay open or settled, events stay in the outbox.
Grows ==
    \A a \in Attempts :
        /\ Exists(a) => Exists(a)'
        /\ gw[a] \in Captured => gw'[a] \in Captured
        /\ gw[a] # "NONE" => gw'[a] # "NONE"
        /\ confirmed[a] > 0 => confirmed'[a] > 0

\* The two rows the handlers start from have their types.
LEMMA RowTypes == AbsentRow \in AttemptRow /\ PlacedOrder \in OrderRow
BY LifecycleAssumption
   DEF AbsentRow, AttemptRow, PlacedOrder, OrderRow, OrderStatus, PaymentStatus

\* An idle activation has its type.
LEMMA IdleType == Idle \in Activation
BY RowTypes DEF Idle, Activation, Steps

\* An idle activation relies on nothing.
LEMMA IdleSound == SoundActivation(Idle)
BY DEF Idle, SoundActivation, AttemptSteps, RowSteps

\* A freshly placed order satisfies the inductive invariant.
LEMMA InitHolds == Init => IInv
<1> SUFFICES ASSUME Init PROVE IInv
  OBVIOUS
<1> USE DEF Init
<1>1. order \in OrderRow /\ att \in [Attempts -> AttemptRow]
  BY RowTypes
<1>2. gw \in [Attempts -> GatewayState] /\ confirmed \in [Attempts -> 0 .. 2] /\ held \in Int
  BY DEF GatewayState
<1>3. proc \in [Procs -> Activation]
  BY IdleType
<1>4. TypeOK
  BY <1>1, <1>2, <1>3 DEF TypeOK
<1>5. Sound
  BY IdleSound DEF Sound
<1>6. SessionsDistinct /\ NoSessionNoRow
  BY DEF SessionsDistinct, Idle, NoSessionNoRow, Exists, AbsentRow
<1>7. PaidMeansCaptured /\ OneConsequence /\ PaidOrderIsAnnounced
  BY DEF PaidMeansCaptured, OneConsequence, PaidOrderIsAnnounced, AbsentRow, PlacedOrder
<1> QED
  BY <1>4, <1>5, <1>6, <1>7 DEF IInv

\* An activation that does not move stays sound when the step takes back
\* nothing it relies on.
LEMMA StaysSound ==
  ASSUME TypeOK, Sound, Grows, NEW q \in Procs, proc'[q] = proc[q],
         proc[q].pc = "sessionSave" => att'[proc[q].a] = att[proc[q].a]
  PROVE  SoundActivation(proc[q])'
<1> DEFINE x == proc[q]
<1>1. x \in Activation /\ SoundActivation(x)
  BY DEF TypeOK, Sound
<1>2. x.pc \in AttemptSteps => x.a \in Attempts
  BY <1>1 DEF SoundActivation
<1>3. RowSteps \cup {"commit", "adminCommit", "sessionSave"} \subseteq AttemptSteps
  BY DEF RowSteps, AttemptSteps
<1>4. (\E a \in Attempts : gw[a] \in Captured) => \E a \in Attempts : gw'[a] \in Captured
  BY DEF Grows
<1>5. (\E a \in Attempts : confirmed[a] > 0) => \E a \in Attempts : confirmed'[a] > 0
  BY DEF Grows
<1> QED
  BY <1>1, <1>2, <1>3, <1>4, <1>5 DEF SoundActivation, Grows, Exists

\* The parts of the invariant about activations survive every step that only
\* grows the rows and leaves the moving activation sound.
LEMMA TurnStep ==
  ASSUME TypeOK, Sound, SessionsDistinct, NoSessionNoRow, Grows, Kept, Turns
  PROVE  Sound' /\ SessionsDistinct' /\ NoSessionNoRow'
<1>1. ASSUME NEW q \in Procs PROVE SoundActivation(proc[q])'
  <2>1. proc[q].pc = "sessionSave" => att'[proc[q].a] = att[proc[q].a]
    BY DEF Sound, SoundActivation, Kept, AttemptSteps
  <2> QED
    BY <2>1, StaysSound DEF Turns
<1>2. SessionsDistinct'
  BY DEF SessionsDistinct, Turns
<1>3. NoSessionNoRow'
  BY DEF NoSessionNoRow, Grows, Kept, Exists
<1> QED
  BY <1>1, <1>2, <1>3 DEF Sound

\* A step that writes no row keeps the whole invariant.
LEMMA ReadStep == ASSUME IInv, UNCHANGED rows, Turns PROVE IInv'
<1> USE DEF IInv
<1>1. TypeOK'
  BY DEF TypeOK, Turns, rows
<1>2. Grows /\ Kept
  BY DEF Grows, Kept, Exists, rows
<1>3. PaidMeansCaptured' /\ OneConsequence' /\ PaidOrderIsAnnounced'
  BY DEF PaidMeansCaptured, OneConsequence, PaidOrderIsAnnounced, rows
<1> QED
  BY <1>1, <1>2, <1>3, TurnStep

\* Returning from confirmPayment leaves a sound activation.
LEMMA ReturnTurns ==
  ASSUME IInv, NEW p \in Procs, proc[p].pc \in AttemptSteps, ConfirmReturns(p)
  PROVE  Turns
<1>1. proc[p] \in Activation /\ proc[p].a \in Attempts
  BY DEF IInv, TypeOK, Sound, SoundActivation
<1>2. CASE proc[p].role = "approve"
  <2> DEFINE x == [Idle EXCEPT !.pc = "approved", !.role = "approve", !.a = proc[p].a]
  <2>1. proc' = [proc EXCEPT ![p] = x]
    BY <1>2 DEF ConfirmReturns, Become
  <2>2. x \in Activation /\ x.pc = "approved" /\ x.a \in Attempts
    BY <1>1, IdleType DEF Idle, Activation, Steps
  <2> QED
    BY <2>1, <2>2 DEF Turns, IInv, TypeOK, SoundActivation, RowSteps
<1>3. CASE proc[p].role # "approve"
  <2>1. proc' = [proc EXCEPT ![p] = Idle]
    BY <1>3 DEF ConfirmReturns, Become, Finish
  <2> QED
    BY <2>1, IdleType DEF Turns, IInv, TypeOK, Idle, SoundActivation, RowSteps, AttemptSteps
<1> QED
  BY <1>2, <1>3

\* Finishing leaves an idle, hence sound, activation.
LEMMA FinishTurns == ASSUME IInv, NEW p \in Procs, Finish(p) PROVE Turns
BY IdleType
   DEF Finish, Become, Turns, IInv, TypeOK, Idle, SoundActivation, RowSteps, AttemptSteps

\* The move of one activation is a step of Turns.
LEMMA OneTurn == ASSUME NEW p \in Procs, TurnOf(p) PROVE Turns
BY DEF TurnOf, Turns

\* The steps of confirmPayment before its transaction leave it sound.
LEMMA ConfirmReadsTurn ==
  ASSUME IInv, NEW p \in Procs,
         \/ ConfirmRead(p) \/ ConfirmValidated(p) \/ ConfirmInvalid(p)
         \/ ConfirmRefused(p) \/ ConfirmAlreadyPaid(p)
  PROVE  Turns
<1>1. CASE ConfirmRead(p)
  <2>1. CASE att[proc[p].a].status = "PAID"
    BY <1>1, <2>1, ReturnTurns DEF ConfirmRead, At, AttemptSteps
  <2>2. CASE att[proc[p].a].status # "PAID"
    <3> DEFINE a == proc[p].a
    <3>1. /\ At(p, "confirm") /\ Exists(a)
          /\ Become(p, [proc[p] EXCEPT !.pc = "validate", !.row = att[a]])
          /\ UNCHANGED rows
      BY <1>1, <2>2 DEF ConfirmRead
    <3>2. proc[p] \in Activation /\ a \in Attempts /\ att[a] \in AttemptRow
      BY <3>1 DEF At, IInv, TypeOK, Sound, SoundActivation, AttemptSteps
    <3>3. proc' \in [Procs -> Activation] /\ \A q \in Procs \ {p} : proc'[q] = proc[q]
      BY <3>1, <3>2 DEF Become, Activation, Steps, IInv, TypeOK
    <3>4. SoundActivation(proc[p])' /\ proc'[p].pc # "sessionSave"
      BY <2>2, <3>1, <3>2
         DEF Become, Activation, SoundActivation, AttemptSteps, RowSteps, rows, Exists,
             IInv, TypeOK
    <3> QED
      BY <3>3, <3>4, OneTurn DEF TurnOf
  <2> QED
    BY <2>1, <2>2
<1>2. CASE ConfirmValidated(p)
  <2>1. proc' \in [Procs -> Activation] /\ \A q \in Procs \ {p} : proc'[q] = proc[q]
    BY <1>2, RowTypes, IdleType, ZenonT(40)
       DEF ConfirmValidated, Become, Idle, Activation, Steps, AttemptSteps, RowSteps, At,
            IInv, TypeOK, Sound, SoundActivation
  <2>2. SoundActivation(proc[p])' /\ proc'[p].pc # "sessionSave"
    BY <1>2
       DEF ConfirmValidated, Become, Idle, SoundActivation, AttemptSteps, RowSteps, At,
            rows, Exists, Captured, IInv, TypeOK, Sound
  <2> QED
    BY <2>1, <2>2, OneTurn DEF TurnOf
<1>3. CASE ConfirmInvalid(p)
  <2>1. proc' \in [Procs -> Activation] /\ \A q \in Procs \ {p} : proc'[q] = proc[q]
    BY <1>3, RowTypes, IdleType
       DEF ConfirmInvalid, Become, Idle, Activation, Steps, AttemptSteps, RowSteps, At,
            IInv, TypeOK, Sound, SoundActivation
  <2>2. SoundActivation(proc[p])' /\ proc'[p].pc # "sessionSave"
    BY <1>3
       DEF ConfirmInvalid, Become, Idle, SoundActivation, AttemptSteps, RowSteps, At,
            rows, Exists, Captured, IInv, TypeOK, Sound, CanTransition,
            AllowedPaymentTransitions, PaymentAttemptStatus
  <2> QED
    BY <2>1, <2>2, OneTurn DEF TurnOf
<1>4. CASE ConfirmRefused(p)
  BY <1>4, ReturnTurns DEF ConfirmRefused, At, AttemptSteps
<1>5. CASE ConfirmAlreadyPaid(p)
  BY <1>5, ReturnTurns DEF ConfirmAlreadyPaid, At, AttemptSteps
<1> QED
  BY <1>1, <1>2, <1>3, <1>4, <1>5

\* The reading steps of handleCancelledAttempt and of the reconciliation worker
\* leave it sound.
LEMMA AttemptReadsTurn ==
  ASSUME IInv, NEW p \in Procs,
         \/ CancelRead(p) \/ ReconcileValid(p) \/ ReconcileFailed(p)
         \/ ReconcileCancelled(p) \/ ReconcilePending(p)
  PROVE  Turns
<1>1. CASE CancelRead(p)
  <2>1. proc' \in [Procs -> Activation] /\ \A q \in Procs \ {p} : proc'[q] = proc[q]
    BY <1>1, RowTypes, IdleType, ZenonT(40)
       DEF CancelRead, Become, Idle, Activation, Steps, AttemptSteps, RowSteps, At, IInv,
            TypeOK, Sound, SoundActivation
  <2>2. proc'[p] = [proc[p] EXCEPT !.pc = "cancelSave", !.row = att[proc[p].a]]
    BY <1>1 DEF CancelRead, Become, IInv, TypeOK
  <2>3. /\ proc[p] \in Activation /\ proc[p].pc = "cancelRead" /\ proc[p].a \in Attempts
        /\ Exists(proc[p].a) /\ att[proc[p].a].status # "PAID" /\ UNCHANGED <<att, gw>>
    BY <1>1 DEF CancelRead, At, IInv, TypeOK, Sound, SoundActivation, AttemptSteps, rows, Exists,
                CanTransition, AllowedPaymentTransitions, PaymentAttemptStatus
  <2>4. SoundActivation(proc[p])' /\ proc'[p].pc # "sessionSave"
    BY <2>2, <2>3 DEF SoundActivation, AttemptSteps, RowSteps, Exists, Activation
  <2> QED
    BY <2>1, <2>4, OneTurn DEF TurnOf
<1>2. CASE ReconcileValid(p)
  BY <1>2, OneTurn, RowTypes, IdleType
     DEF ReconcileValid, TurnOf, Idle, Become, IInv, TypeOK, Sound, SoundActivation,
         Activation, Steps, AttemptSteps, RowSteps, Exists, At
<1>3. CASE ReconcileFailed(p)
  <2>1. proc' \in [Procs -> Activation] /\ \A q \in Procs \ {p} : proc'[q] = proc[q]
    BY <1>3, RowTypes, IdleType
       DEF ReconcileFailed, Become, Idle, Activation, Steps, AttemptSteps, RowSteps, At,
            IInv, TypeOK, Sound, SoundActivation
  <2>2. SoundActivation(proc[p])' /\ proc'[p].pc # "sessionSave"
    BY <1>3
       DEF ReconcileFailed, Become, Idle, SoundActivation, AttemptSteps, RowSteps, At,
            rows, Exists, Captured, IInv, TypeOK, Sound, CanTransition,
            AllowedPaymentTransitions, PaymentAttemptStatus
  <2> QED
    BY <2>1, <2>2, OneTurn DEF TurnOf
<1>4. CASE ReconcileCancelled(p)
  BY <1>4, OneTurn, RowTypes, IdleType, ZenonT(40)
     DEF ReconcileCancelled, TurnOf, Idle, Become, IInv, TypeOK, Sound, SoundActivation,
         Activation, Steps, AttemptSteps, RowSteps, Exists, At
<1>5. CASE ReconcilePending(p)
  <2>1. proc' \in [Procs -> Activation] /\ \A q \in Procs \ {p} : proc'[q] = proc[q]
    BY <1>5, RowTypes, IdleType
       DEF ReconcilePending, Become, Idle, Activation, Steps, AttemptSteps, RowSteps, At,
            IInv, TypeOK, Sound, SoundActivation
  <2>2. SoundActivation(proc[p])' /\ proc'[p].pc # "sessionSave"
    BY <1>5
       DEF ReconcilePending, Become, Idle, SoundActivation, AttemptSteps, RowSteps, At,
            rows, Exists, Captured, IInv, TypeOK, Sound
  <2> QED
    BY <2>1, <2>2, OneTurn DEF TurnOf
<1> QED
  BY <1>1, <1>2, <1>3, <1>4, <1>5

\* The reading steps of the expiry worker, of payment initiation and retry, and
\* of updateCourierInfo leave them sound.
LEMMA OrderReadsTurn ==
  ASSUME IInv, NEW p \in Procs,
         ExpiryRead(p) \/ ExpiryQuery(p) \/ InitiateRead(p) \/ RetryRead(p) \/ CourierRead(p)
  PROVE  Turns
<1>1. CASE ExpiryRead(p)
  BY <1>1, OneTurn, RowTypes, IdleType, ZenonT(40)
     DEF ExpiryRead, TurnOf, Idle, Become, IInv, TypeOK, Sound, SoundActivation,
         Activation, Steps, AttemptSteps, RowSteps, Exists, At
<1>2. CASE ExpiryQuery(p)
  BY <1>2, OneTurn, RowTypes, IdleType
     DEF ExpiryQuery, TurnOf, Idle, Become, IInv, TypeOK, Sound, SoundActivation,
         Activation, Steps, AttemptSteps, RowSteps, Exists, At
<1>3. CASE InitiateRead(p)
  BY <1>3, OneTurn, RowTypes, IdleType
     DEF InitiateRead, TurnOf, Idle, Become, IInv, TypeOK, Sound, SoundActivation,
         Activation, Steps, AttemptSteps, RowSteps, Exists, At
<1>4. CASE RetryRead(p)
  BY <1>4, OneTurn, RowTypes, IdleType, ZenonT(40)
     DEF RetryRead, TurnOf, Idle, Become, IInv, TypeOK, Sound, SoundActivation, Activation,
         Steps, AttemptSteps, RowSteps, Exists, At
<1>5. CASE CourierRead(p)
  <2>1. proc' \in [Procs -> Activation] /\ \A q \in Procs \ {p} : proc'[q] = proc[q]
    BY <1>5, RowTypes, IdleType
       DEF CourierRead, Become, Idle, Activation, Steps, AttemptSteps, RowSteps, At, IInv,
            TypeOK, Sound, SoundActivation
  <2>2. SoundActivation(proc[p])' /\ proc'[p].pc # "sessionSave"
    BY <1>5
       DEF CourierRead, Become, Idle, SoundActivation, AttemptSteps, RowSteps, At, rows,
            Exists, Captured, IInv, TypeOK, Sound, PaidMeansCaptured, PaidOrderIsAnnounced
  <2> QED
    BY <2>1, <2>2, OneTurn DEF TurnOf
<1> QED
  BY <1>1, <1>2, <1>3, <1>4, <1>5

\* The reading steps of the administrator's endpoints, and giving up, leave them sound.
LEMMA AdminReadsTurn ==
  ASSUME IInv, NEW p \in Procs,
         ApproveAnswer(p) \/ AdminReconcileMatch(p) \/ AdminReconcileMismatch(p) \/ Abort(p)
  PROVE  Turns
<1>1. CASE ApproveAnswer(p)
  BY <1>1, FinishTurns DEF ApproveAnswer
<1>2. CASE AdminReconcileMatch(p)
  <2>1. proc' \in [Procs -> Activation] /\ \A q \in Procs \ {p} : proc'[q] = proc[q]
    BY <1>2, RowTypes, IdleType
       DEF AdminReconcileMatch, Become, Idle, Activation, Steps, AttemptSteps, RowSteps,
            At, IInv, TypeOK, Sound, SoundActivation
  <2>2. SoundActivation(proc[p])' /\ proc'[p].pc # "sessionSave"
    BY <1>2
       DEF AdminReconcileMatch, Become, Idle, SoundActivation, AttemptSteps, RowSteps, At,
            rows, Exists, Captured, IInv, TypeOK, Sound
  <2> QED
    BY <2>1, <2>2, OneTurn DEF TurnOf
<1>3. CASE AdminReconcileMismatch(p)
  <2>1. proc' \in [Procs -> Activation] /\ \A q \in Procs \ {p} : proc'[q] = proc[q]
    BY <1>3, RowTypes, IdleType
       DEF AdminReconcileMismatch, Become, Idle, Activation, Steps, AttemptSteps,
            RowSteps, At, IInv, TypeOK, Sound, SoundActivation
  <2>2. SoundActivation(proc[p])' /\ proc'[p].pc # "sessionSave"
    BY <1>3
       DEF AdminReconcileMismatch, Become, Idle, SoundActivation, AttemptSteps, RowSteps,
            At, rows, Exists, Captured, IInv, TypeOK, Sound
  <2> QED
    BY <2>1, <2>2, OneTurn DEF TurnOf
<1>4. CASE Abort(p)
  BY <1>4, FinishTurns DEF Abort
<1> QED
  BY <1>1, <1>2, <1>3, <1>4

\* Starting a handler for an attempt leaves a sound activation.
LEMMA CallsTurn ==
  ASSUME IInv, NEW p \in Procs, NEW a \in Attempts,
         \/ ConfirmCall(p, a) \/ FailRead(p, a) \/ CancelCall(p, a) \/ ReconcileRead(p, a)
         \/ HoldRead(p, a) \/ ApproveCall(p, a) \/ AdminReconcileRead(p, a)
  PROVE  Turns
<1>1. CASE ConfirmCall(p, a)
  BY <1>1, OneTurn, RowTypes, IdleType, ZenonT(40)
     DEF ConfirmCall, TurnOf, Idle, Become, IInv, TypeOK, Sound, SoundActivation,
         Activation, Steps, AttemptSteps, RowSteps, Exists, At
<1>2. CASE FailRead(p, a)
  <2>1. proc' \in [Procs -> Activation] /\ \A q \in Procs \ {p} : proc'[q] = proc[q]
    BY <1>2, RowTypes, IdleType
       DEF FailRead, Become, Idle, Activation, Steps, AttemptSteps, RowSteps, At, IInv,
            TypeOK, Sound, SoundActivation
  <2>2. SoundActivation(proc[p])' /\ proc'[p].pc # "sessionSave"
    BY <1>2
       DEF FailRead, Become, Idle, SoundActivation, AttemptSteps, RowSteps, At, rows,
            Exists, Captured, IInv, TypeOK, Sound, CanTransition,
            AllowedPaymentTransitions, PaymentAttemptStatus
  <2> QED
    BY <2>1, <2>2, OneTurn DEF TurnOf
<1>3. CASE CancelCall(p, a)
  BY <1>3, OneTurn, RowTypes, IdleType, ZenonT(40)
     DEF CancelCall, TurnOf, Idle, Become, IInv, TypeOK, Sound, SoundActivation,
         Activation, Steps, AttemptSteps, RowSteps, Exists, At
<1>4. CASE ReconcileRead(p, a)
  <2>1. proc' \in [Procs -> Activation] /\ \A q \in Procs \ {p} : proc'[q] = proc[q]
    BY <1>4, RowTypes, IdleType
       DEF ReconcileRead, Become, Idle, Activation, Steps, AttemptSteps, RowSteps, At,
            IInv, TypeOK, Sound, SoundActivation
  <2>2. SoundActivation(proc[p])' /\ proc'[p].pc # "sessionSave"
    BY <1>4
       DEF ReconcileRead, Become, Idle, SoundActivation, AttemptSteps, RowSteps, At, rows,
            Exists, Captured, IInv, TypeOK, Sound, Candidate, Open
  <2> QED
    BY <2>1, <2>2, OneTurn DEF TurnOf
<1>5. CASE HoldRead(p, a)
  <2>1. proc' \in [Procs -> Activation] /\ \A q \in Procs \ {p} : proc'[q] = proc[q]
    BY <1>5, RowTypes, IdleType
       DEF HoldRead, Become, Idle, Activation, Steps, AttemptSteps, RowSteps, At, IInv,
            TypeOK, Sound, SoundActivation
  <2>2. SoundActivation(proc[p])' /\ proc'[p].pc # "sessionSave"
    BY <1>5
       DEF HoldRead, Become, Idle, SoundActivation, AttemptSteps, RowSteps, At, rows,
            Exists, Captured, IInv, TypeOK, Sound, PaidMeansCaptured
  <2> QED
    BY <2>1, <2>2, OneTurn DEF TurnOf
<1>6. CASE ApproveCall(p, a)
  BY <1>6, OneTurn, RowTypes, IdleType, ZenonT(40)
     DEF ApproveCall, TurnOf, Idle, Become, IInv, TypeOK, Sound, SoundActivation,
         Activation, Steps, AttemptSteps, RowSteps, Exists, At
<1>7. CASE AdminReconcileRead(p, a)
  <2>1. proc' \in [Procs -> Activation] /\ \A q \in Procs \ {p} : proc'[q] = proc[q]
    BY <1>7, RowTypes, IdleType
       DEF AdminReconcileRead, Become, Idle, Activation, Steps, AttemptSteps, RowSteps,
            At, IInv, TypeOK, Sound, SoundActivation
  <2>2. SoundActivation(proc[p])' /\ proc'[p].pc # "sessionSave"
    BY <1>7
       DEF AdminReconcileRead, Become, Idle, SoundActivation, AttemptSteps, RowSteps, At,
            rows, Exists, Captured, IInv, TypeOK, Sound
  <2> QED
    BY <2>1, <2>2, OneTurn DEF TurnOf
<1> QED
  BY <1>1, <1>2, <1>3, <1>4, <1>5, <1>6, <1>7

\* What a transaction that records a payment knows of its attempt.
LEMMA CommitFacts ==
  ASSUME IInv, NEW p \in Procs, proc[p].pc \in {"commit", "adminCommit"}
  PROVE  /\ proc[p].a \in Attempts
         /\ Exists(proc[p].a)
         /\ gw[proc[p].a] \in Captured
         /\ att[proc[p].a] \in AttemptRow
BY DEF IInv, TypeOK, Sound, SoundActivation, AttemptSteps

\* An outbox write keeps the counter of events in its range.
LEMMA EmitType ==
  ASSUME TypeOK, NEW a \in Attempts, Emit(a)
  PROVE  /\ confirmed' \in [Attempts -> 0 .. 2]
         /\ confirmed' = [confirmed EXCEPT ![a] = IF @ = 2 THEN 2 ELSE @ + 1]
BY DEF TypeOK, Emit

\* Flagging a risky payment for review keeps the invariant.
LEMMA ConfirmFlagRiskKeeps == ASSUME IInv, NEW p \in Procs, ConfirmFlagRisk(p) PROVE IInv'
<1> DEFINE a == proc[p].a
<1>1. a \in Attempts /\ Exists(a) /\ att[a] \in AttemptRow
  BY CommitFacts DEF ConfirmFlagRisk, At
<1>2. Turns
  BY ReturnTurns DEF ConfirmFlagRisk, At, AttemptSteps
<1>3. /\ att' = [att EXCEPT ![a].status = "PROCESSING", ![a].review = TRUE]
      /\ order' = [order EXCEPT !.pay = "REVIEW_REQUIRED"]
      /\ att[a].status # "PAID"
      /\ UNCHANGED <<gw, held, confirmed, refunded, overwritten, orderLost>>
  BY DEF ConfirmFlagRisk
<1> USE DEF IInv
<1>4. TypeOK'
  BY <1>1, <1>2, <1>3
     DEF TypeOK, Turns, AttemptRow, PaymentAttemptStatus, OrderRow, PaymentStatus
<1>5. Grows /\ Kept
  BY <1>1, <1>3 DEF Grows, Kept, Exists, TypeOK
<1>6. PaidMeansCaptured' /\ OneConsequence' /\ PaidOrderIsAnnounced'
  BY <1>1, <1>3
     DEF TypeOK, PaidMeansCaptured, OneConsequence, PaidOrderIsAnnounced, OrderRow,
         AttemptRow
<1> QED
  BY <1>2, <1>4, <1>5, <1>6, TurnStep

\* Confirming an attempt on time keeps the invariant: it was not PAID, so it
\* had no event and no refund, and now has exactly one event.
LEMMA ConfirmOrderKeeps == ASSUME IInv, NEW p \in Procs, ConfirmOrder(p) PROVE IInv'
<1> DEFINE a == proc[p].a
<1>1. a \in Attempts /\ Exists(a) /\ att[a] \in AttemptRow /\ gw[a] \in Captured
  BY CommitFacts DEF ConfirmOrder, At
<1>2. Turns
  BY ReturnTurns DEF ConfirmOrder, At, AttemptSteps
<1>3. /\ att' = [att EXCEPT ![a].status = "PAID", ![a].review = FALSE]
      /\ order' = [order EXCEPT !.status = "ORDER_PLACED", !.pay = "PAID"]
      /\ confirmed' \in [Attempts -> 0 .. 2]
      /\ confirmed' = [confirmed EXCEPT ![a] = IF @ = 2 THEN 2 ELSE @ + 1]
      /\ att[a].status # "PAID"
      /\ UNCHANGED <<gw, held, refunded, overwritten, orderLost>>
  BY <1>1, EmitType DEF IInv, ConfirmOrder, OnTime, Open
<1> USE DEF IInv
<1>4. TypeOK'
  BY <1>1, <1>2, <1>3
     DEF TypeOK, Turns, AttemptRow, PaymentAttemptStatus, OrderRow, OrderStatus, PaymentStatus
<1>5. Grows /\ Kept
  BY <1>1, <1>3 DEF Grows, Kept, Exists, TypeOK
<1>6. PaidMeansCaptured' /\ OneConsequence' /\ PaidOrderIsAnnounced'
  BY <1>1, <1>3
     DEF TypeOK, PaidMeansCaptured, OneConsequence, PaidOrderIsAnnounced, OrderRow, AttemptRow
<1> QED
  BY <1>2, <1>4, <1>5, <1>6, TurnStep

\* Recording a late payment keeps the invariant: the attempt gets a refund or
\* an event, whichever branch is taken.
LEMMA LatePaymentKeeps == ASSUME IInv, NEW p \in Procs, LatePayment(p) PROVE IInv'
<1> DEFINE a == proc[p].a
<1>1. a \in Attempts /\ Exists(a) /\ att[a] \in AttemptRow /\ gw[a] \in Captured
  BY CommitFacts DEF LatePayment, At
<1>2. Turns
  BY ReturnTurns DEF LatePayment, At, AttemptSteps
<1> USE DEF IInv
<1>3. CASE TryReReserveStock
  <2>1. /\ att' = [att EXCEPT ![a].status = "PAID", ![a].review = FALSE]
        /\ order' = [order EXCEPT !.status = "ORDER_PLACED", !.pay = "PAID"]
        /\ held' = held + 1
        /\ confirmed' \in [Attempts -> 0 .. 2]
        /\ confirmed' = [confirmed EXCEPT ![a] = IF @ = 2 THEN 2 ELSE @ + 1]
        /\ att[a].status # "PAID"
        /\ UNCHANGED <<gw, refunded, overwritten, orderLost>>
    BY <1>1, <1>3, EmitType DEF LatePayment
  <2>2. TypeOK'
    <3>1. att' \in [Attempts -> AttemptRow]
      BY <1>1, <2>1 DEF TypeOK, AttemptRow, PaymentAttemptStatus
    <3>2. order' \in OrderRow
      BY <2>1 DEF TypeOK, OrderRow, OrderStatus, PaymentStatus
    <3> QED
      BY <1>2, <2>1, <3>1, <3>2 DEF TypeOK, Turns
  <2>3. Grows /\ Kept
    BY <1>1, <2>1 DEF Grows, Kept, Exists, TypeOK
  <2>4. PaidMeansCaptured' /\ OneConsequence' /\ PaidOrderIsAnnounced'
    BY <1>1, <2>1
       DEF TypeOK, PaidMeansCaptured, OneConsequence, PaidOrderIsAnnounced, OrderRow, AttemptRow
  <2> QED
    BY <1>2, <2>2, <2>3, <2>4, TurnStep
<1>4. CASE ~TryReReserveStock
  <2>1. /\ att' = [att EXCEPT ![a].status = "PAID", ![a].review = TRUE]
        /\ order' = [order EXCEPT !.pay = "REVIEW_REQUIRED"]
        /\ refunded' = refunded \cup {a}
        /\ att[a].status # "PAID"
        /\ UNCHANGED <<gw, held, confirmed, overwritten, orderLost>>
    BY <1>4 DEF LatePayment
  <2>2. TypeOK'
    BY <1>1, <1>2, <2>1
       DEF TypeOK, Turns, AttemptRow, PaymentAttemptStatus, OrderRow, PaymentStatus
  <2>3. Grows /\ Kept
    BY <1>1, <2>1 DEF Grows, Kept, Exists, TypeOK
  <2>4. PaidMeansCaptured' /\ OneConsequence' /\ PaidOrderIsAnnounced'
    BY <1>1, <2>1
       DEF TypeOK, PaidMeansCaptured, OneConsequence, PaidOrderIsAnnounced, OrderRow, AttemptRow
  <2> QED
    BY <1>2, <2>2, <2>3, <2>4, TurnStep
<1> QED
  BY <1>3, <1>4

\* An unlocked save: the new row keeps what the invariant says of the
\* remembered one, and the row is overwritten unless it was still the same.
LEMMA SaveKeeps ==
  ASSUME IInv, Turns, NEW a \in Attempts, NEW old \in AttemptRow, NEW new \in AttemptRow,
         Save(a, old, new), Exists(a), new.status # "ABSENT",
         new.status = "PAID" => gw[a] \in Captured,
         (new.status = "PAID") <=> (old.status = "PAID"),
         UNCHANGED <<order, gw, held, confirmed, refunded, orderLost>>
  PROVE  IInv'
<1> USE DEF IInv
<1>1. att' = [att EXCEPT ![a] = new]
  BY DEF Save
<1>2. overwritten' = overwritten \/ overwritten' = overwritten \cup {a}
  BY DEF Save
<1>3. a \notin overwritten' => (att[a].status = "PAID" <=> new.status = "PAID")
  BY DEF Save
<1>4. TypeOK'
  BY <1>1, <1>2 DEF TypeOK, Turns
<1>5. Grows /\ Kept
  BY <1>1 DEF Grows, Kept, Exists, TypeOK
<1>6. PaidMeansCaptured' /\ OneConsequence' /\ PaidOrderIsAnnounced'
  BY <1>1, <1>2, <1>3 DEF TypeOK, PaidMeansCaptured, OneConsequence, PaidOrderIsAnnounced
<1> QED
  BY <1>4, <1>5, <1>6, TurnStep

\* The four handlers that save a remembered payment row keep the invariant.
LEMMA SavesKeep ==
  ASSUME IInv, NEW p \in Procs,
         FailSave(p) \/ CancelSave(p) \/ ReconcileSave(p) \/ FlagSave(p)
  PROVE  IInv'
<1> DEFINE a == proc[p].a
           row == proc[p].row
<1>1. Turns
  BY FinishTurns DEF FailSave, CancelSave, ReconcileSave, FlagSave
<1>2. proc[p].pc \in {"failSave", "cancelSave", "reconSave", "flagSave"}
  BY DEF FailSave, CancelSave, ReconcileSave, FlagSave, At
<1>3. /\ a \in Attempts /\ row \in AttemptRow /\ Exists(a)
      /\ row.status # "ABSENT" /\ (row.status = "PAID" => gw[a] \in Captured)
      /\ proc[p].pc \in {"failSave", "cancelSave"} => row.status # "PAID"
  BY <1>2 DEF IInv, TypeOK, Activation, Sound, SoundActivation, AttemptSteps, RowSteps
<1>4. UNCHANGED <<order, gw, held, confirmed, refunded, orderLost>>
  BY DEF FailSave, CancelSave, ReconcileSave, FlagSave
<1>5. CASE FailSave(p)
  <2>1. Save(a, row, [row EXCEPT !.status = "FAILED"]) /\ row.status # "PAID"
    BY <1>3, <1>5 DEF FailSave, At
  <2>2. [row EXCEPT !.status = "FAILED"] \in AttemptRow
    BY <1>3 DEF AttemptRow, PaymentAttemptStatus
  <2> QED
    BY <1>1, <1>3, <1>4, <2>1, <2>2, SaveKeeps DEF AttemptRow
<1>6. CASE CancelSave(p)
  <2>1. Save(a, row, [row EXCEPT !.status = "CANCELLED"]) /\ row.status # "PAID"
    BY <1>3, <1>6 DEF CancelSave, At
  <2>2. [row EXCEPT !.status = "CANCELLED"] \in AttemptRow
    BY <1>3 DEF AttemptRow, PaymentAttemptStatus
  <2> QED
    BY <1>1, <1>3, <1>4, <2>1, <2>2, SaveKeeps DEF AttemptRow
<1>7. CASE ReconcileSave(p)
  <2>1. Save(a, row, BackOff(row)) /\ BackOff(row).status = row.status
    BY <1>3, <1>7 DEF ReconcileSave, BackOff, AttemptRow
  <2>2. BackOff(row) \in AttemptRow
    <3>1. row.recon < MaxRecon
      BY <1>7 DEF ReconcileSave, At, IInv, Sound, SoundActivation
    <3>2. row.recon + 1 \in 0 .. MaxRecon
      BY <1>3, <3>1, LifecycleAssumption DEF AttemptRow
    <3>3. (row.review \/ row.recon + 1 >= MaxRecon) \in BOOLEAN
      OBVIOUS
    <3> QED
      BY <1>3, <3>2, <3>3 DEF AttemptRow, BackOff
  <2> QED
    BY <1>1, <1>3, <1>4, <2>1, <2>2, SaveKeeps
<1>8. CASE FlagSave(p)
  <2>1. Save(a, row, [row EXCEPT !.review = TRUE])
    BY <1>8 DEF FlagSave
  <2>2. [row EXCEPT !.review = TRUE] \in AttemptRow /\ [row EXCEPT !.review = TRUE].status = row.status
    BY <1>3 DEF AttemptRow
  <2> QED
    BY <1>1, <1>3, <1>4, <2>1, <2>2, SaveKeeps
<1> QED
  BY <1>5, <1>6, <1>7, <1>8

\* The administrator's verified reconciliation keeps the invariant.
LEMMA AdminReconcileCommitKeeps ==
  ASSUME IInv, NEW p \in Procs, AdminReconcileCommit(p) PROVE IInv'
<1> DEFINE a == proc[p].a
<1>1. a \in Attempts /\ Exists(a) /\ att[a] \in AttemptRow /\ gw[a] \in Captured
  BY CommitFacts DEF AdminReconcileCommit, At
<1>2. Turns
  BY FinishTurns DEF AdminReconcileCommit
<1>3. /\ att' = [att EXCEPT ![a].status = "PAID", ![a].review = FALSE]
      /\ order' = [order EXCEPT !.status = "ORDER_PLACED", !.pay = "PAID"]
      /\ confirmed' \in [Attempts -> 0 .. 2]
      /\ confirmed' = [confirmed EXCEPT ![a] = IF @ = 2 THEN 2 ELSE @ + 1]
      /\ att[a].status # "PAID"
      /\ UNCHANGED <<gw, held, refunded, overwritten, orderLost>>
  BY <1>1, EmitType DEF IInv, AdminReconcileCommit
<1> USE DEF IInv
<1>4. TypeOK'
  BY <1>1, <1>2, <1>3
     DEF TypeOK, Turns, AttemptRow, PaymentAttemptStatus, OrderRow, OrderStatus, PaymentStatus
<1>5. Grows /\ Kept
  BY <1>1, <1>3 DEF Grows, Kept, Exists, TypeOK
<1>6. PaidMeansCaptured' /\ OneConsequence' /\ PaidOrderIsAnnounced'
  BY <1>1, <1>3
     DEF TypeOK, PaidMeansCaptured, OneConsequence, PaidOrderIsAnnounced, OrderRow, AttemptRow
<1> QED
  BY <1>2, <1>4, <1>5, <1>6, TurnStep

\* The administrator's REJECT keeps the invariant.
LEMMA AdminRejectKeeps == ASSUME IInv, NEW a \in Attempts, AdminReject(a) PROVE IInv'
<1>1. /\ att' = [att EXCEPT ![a].status = "FAILED", ![a].review = FALSE]
      /\ overwritten' = overwritten \cup {a}
      /\ Exists(a)
      /\ UNCHANGED <<gw, confirmed, refunded, orderLost, proc>>
  BY DEF AdminReject
<1>2. \/ order' = order
      \/ order' = [order EXCEPT !.status = "CANCELLED", !.pay = "FAILED"]
  BY DEF AdminReject
<1>3. held' = held - 1 \/ held' = held
  BY DEF AdminReject
<1> USE DEF IInv
<1>4. TypeOK'
  <2>1. order' \in OrderRow
    BY <1>2 DEF TypeOK, OrderRow, OrderStatus, PaymentStatus
  <2>2. att' \in [Attempts -> AttemptRow]
    BY <1>1, ZenonT(40) DEF TypeOK, AttemptRow, PaymentAttemptStatus
  <2> QED
    BY <1>1, <1>3, <2>1, <2>2 DEF TypeOK
<1>5. Grows /\ Kept
  BY <1>1 DEF Grows, Kept, Exists, TypeOK, AttemptRow
<1>6. Turns
  BY <1>1 DEF Turns, TypeOK
<1>7. PaidMeansCaptured' /\ OneConsequence' /\ PaidOrderIsAnnounced'
  BY <1>1, <1>2, ZenonT(40)
     DEF TypeOK, PaidMeansCaptured, OneConsequence, PaidOrderIsAnnounced, OrderRow, AttemptRow
<1> QED
  BY <1>4, <1>5, <1>6, <1>7, TurnStep

\* The expiry worker's transaction keeps the invariant.
LEMMA ExpiryCommitKeeps == ASSUME IInv, NEW p \in Procs, ExpiryCommit(p) PROVE IInv'
<1> DEFINE left(a) == att[a].status \in {"PENDING", "UNKNOWN"}
<1>1. /\ att' = [a \in Attempts |-> IF left(a) THEN [att[a] EXCEPT !.status = "EXPIRED"] ELSE att[a]]
      /\ order' = [order EXCEPT !.status = "CANCELLED", !.pay = "UNPAID"]
      /\ UNCHANGED <<gw, confirmed, refunded, overwritten, orderLost>>
  BY DEF ExpiryCommit
<1>2. Turns
  BY FinishTurns DEF ExpiryCommit
<1>3. held' = held
  BY DEF ExpiryCommit, HasSummaries
<1>4. \A a \in Attempts :
         /\ ~left(a) => att'[a] = att[a]
         /\ left(a) => att'[a] = [att[a] EXCEPT !.status = "EXPIRED"]
  BY <1>1
<1>5. \A a \in Attempts :
         /\ Exists(a)' <=> Exists(a)
         /\ ~Exists(a) => att'[a] = att[a]
         /\ att'[a].status = "PAID" <=> att[a].status = "PAID"
  BY <1>4 DEF Exists, IInv, TypeOK, AttemptRow
<1> USE DEF IInv
<1>6. TypeOK'
  <2>1. order' \in OrderRow
    BY <1>1 DEF TypeOK, OrderRow, OrderStatus, PaymentStatus
  <2>2. att' \in [Attempts -> AttemptRow]
    BY <1>1 DEF TypeOK, AttemptRow, PaymentAttemptStatus
  <2> QED
    BY <1>1, <1>2, <1>3, <2>1, <2>2 DEF TypeOK, Turns
<1>7. Grows /\ Kept
  BY <1>1, <1>5 DEF Grows, Kept
<1>8. PaidMeansCaptured' /\ OneConsequence' /\ PaidOrderIsAnnounced'
  BY <1>1, <1>5
     DEF TypeOK, PaidMeansCaptured, OneConsequence, PaidOrderIsAnnounced, OrderRow
<1> QED
  BY <1>2, <1>6, <1>7, <1>8, TurnStep

\* The handlers that write the order row alone keep the invariant: none of them
\* makes an order PAID that was not PAID and announced before.
LEMMA OrderWritesKeep ==
  ASSUME IInv, NEW p \in Procs,
         RetryRevive(p) \/ RefreshExpiry(p) \/ CourierSave(p)
  PROVE  IInv'
<1> USE DEF IInv
<1>1. /\ UNCHANGED <<att, gw, confirmed, refunded, overwritten>>
      /\ held' = held + 1 \/ held' = held
  BY DEF RetryRevive, RefreshExpiry, CourierSave
<1>2. orderLost' \in BOOLEAN
  BY DEF RetryRevive, RefreshExpiry, CourierSave, TypeOK
<1>3. /\ order' \in OrderRow
      /\ order'.pay = "PAID" =>
             /\ \E a \in Attempts : gw[a] \in Captured
             /\ \E a \in Attempts : confirmed[a] > 0
  <2>1. CASE RetryRevive(p)
    BY <2>1, RowTypes DEF RetryRevive, PlacedOrder
  <2>2. CASE RefreshExpiry(p)
    <3>1. order' = [order EXCEPT !.due = FALSE]
      BY <2>2 DEF RefreshExpiry
    <3> QED
      BY <3>1 DEF TypeOK, OrderRow, PaidMeansCaptured, PaidOrderIsAnnounced
  <2>3. CASE CourierSave(p)
    <3>1. /\ proc[p].pc = "courierSave"
          /\ order' = [proc[p].ord EXCEPT !.due = proc[p].ord.due \/ order.due]
      BY <2>3 DEF CourierSave, At
    <3>2. proc[p].ord \in OrderRow /\ order \in OrderRow
      BY DEF TypeOK, Activation
    <3>3. /\ order' \in OrderRow
          /\ order'.pay = proc[p].ord.pay
      BY <3>1, <3>2 DEF OrderRow
    <3>4. proc[p].ord.pay = "PAID" =>
             /\ \E a \in Attempts : gw[a] \in Captured
             /\ \E a \in Attempts : confirmed[a] > 0
      BY <3>1 DEF Sound, SoundActivation
    <3> QED
      BY <3>3, <3>4
  <2> QED
    BY <2>1, <2>2, <2>3
<1>4. Turns
  <2>1. CASE RetryRevive(p)
    <3>1. /\ proc[p].pc = "revive"
          /\ proc' = [proc EXCEPT ![p] = [proc[p] EXCEPT !.pc = "session"]]
      BY <2>1 DEF RetryRevive, At, Become
    <3> QED
      BY <3>1, OneTurn
         DEF TurnOf, TypeOK, Activation, Steps, SoundActivation, AttemptSteps, RowSteps
  <2>2. CASE RefreshExpiry(p)
    BY <2>2, FinishTurns DEF RefreshExpiry
  <2>3. CASE CourierSave(p)
    BY <2>3, FinishTurns DEF CourierSave
  <2> QED
    BY <2>1, <2>2, <2>3
<1>5. TypeOK'
  BY <1>1, <1>2, <1>3, <1>4 DEF TypeOK, Turns
<1>6. Grows /\ Kept
  BY <1>1 DEF Grows, Kept, Exists
<1>7. PaidMeansCaptured' /\ OneConsequence' /\ PaidOrderIsAnnounced'
  BY <1>1, <1>3 DEF PaidMeansCaptured, OneConsequence, PaidOrderIsAnnounced
<1> QED
  BY <1>4, <1>5, <1>6, <1>7, TurnStep

\* Opening a gateway session under a fresh tran_id keeps the invariant.
LEMMA OpenSessionKeeps == ASSUME IInv, NEW p \in Procs, OpenSession(p) PROVE IInv'
<1> USE DEF IInv
<1>1. PICK a \in Attempts :
         /\ gw[a] = "NONE"
         /\ gw' = [gw EXCEPT ![a] = "OPEN"]
         /\ proc' = [proc EXCEPT ![p] = [proc[p] EXCEPT !.pc = "sessionSave", !.a = a]]
  BY DEF OpenSession, Become
<1>2. UNCHANGED <<order, att, held, confirmed, refunded, overwritten, orderLost>>
  BY DEF OpenSession
<1>3. proc' \in [Procs -> Activation] /\ gw' \in [Attempts -> GatewayState]
  <2>1. [proc[p] EXCEPT !.pc = "sessionSave", !.a = a] \in Activation
    BY ZenonT(40) DEF TypeOK, Activation, Steps
  <2>2. "OPEN" \in GatewayState
    BY DEF GatewayState
  <2> QED
    BY <1>1, <2>1, <2>2 DEF TypeOK
<1>4. TypeOK'
  BY <1>2, <1>3 DEF TypeOK
<1>5. Grows
  BY <1>1, <1>2 DEF Grows, Exists, TypeOK, Captured
<1>6. Sound'
  <2>1. ASSUME NEW q \in Procs, q # p PROVE SoundActivation(proc[q])'
    BY <1>1, <1>2, <1>5, <2>1, StaysSound DEF TypeOK
  <2>2. SoundActivation(proc[p])'
    <3>1. proc'[p].pc = "sessionSave" /\ proc'[p].a = a
      BY <1>1 DEF TypeOK, Activation
    <3>2. ~Exists(a)' /\ gw'[a] # "NONE"
      BY <1>1, <1>2 DEF NoSessionNoRow, Exists, TypeOK
    <3> QED
      BY <3>1, <3>2 DEF SoundActivation, Exists, RowSteps
  <2> QED
    BY <2>1, <2>2 DEF Sound
<1>7. SessionsDistinct'
  <2>1. \A q \in Procs : proc[q].pc = "sessionSave" => gw[proc[q].a] # "NONE"
    BY DEF Sound, SoundActivation
  <2> QED
    BY <1>1, <2>1 DEF SessionsDistinct, TypeOK, Activation
<1>8. NoSessionNoRow'
  BY <1>1, <1>2 DEF NoSessionNoRow, Exists, TypeOK
<1>9. PaidMeansCaptured' /\ OneConsequence' /\ PaidOrderIsAnnounced'
  BY <1>2, <1>5 DEF Grows, PaidMeansCaptured, OneConsequence, PaidOrderIsAnnounced
<1> QED
  BY <1>4, <1>6, <1>7, <1>8, <1>9

\* Saving the PENDING row of a new session keeps the invariant.
LEMMA SaveSessionKeeps == ASSUME IInv, NEW p \in Procs, SaveSession(p) PROVE IInv'
<1> DEFINE a == proc[p].a
<1> USE DEF IInv
<1>1. proc[p].pc = "sessionSave" /\ a \in Attempts /\ ~Exists(a) /\ gw[a] # "NONE"
  BY DEF SaveSession, At, Sound, SoundActivation, AttemptSteps
<1>2. /\ att' = [att EXCEPT ![a] = [AbsentRow EXCEPT !.status = "PENDING"]]
      /\ UNCHANGED <<order, gw, held, confirmed, refunded, overwritten, orderLost>>
  BY DEF SaveSession
<1>3. TurnOf(p)
  <2>1. CASE Finish(p)
    BY <2>1, IdleType
       DEF TurnOf, Finish, Become, TypeOK, Idle, SoundActivation, AttemptSteps, RowSteps
  <2>2. CASE Become(p, [Idle EXCEPT !.pc = "refresh", !.role = "retry"])
    BY <2>2, IdleType
       DEF TurnOf, Become, TypeOK, Idle, Activation, Steps, SoundActivation,
              AttemptSteps, RowSteps
  <2> QED
    BY <2>1, <2>2 DEF SaveSession
<1>4. TypeOK'
  <2>1. [AbsentRow EXCEPT !.status = "PENDING"] \in AttemptRow
    BY RowTypes DEF AttemptRow, PaymentAttemptStatus
  <2> QED
    BY <1>2, <1>3, <2>1 DEF TypeOK, TurnOf
<1>5. Grows
  BY <1>1, <1>2 DEF Grows, Exists, TypeOK, AbsentRow
<1>6. Sound'
  <2>1. ASSUME NEW q \in Procs, q # p PROVE SoundActivation(proc[q])'
    <3>1. proc[q].pc = "sessionSave" => att'[proc[q].a] = att[proc[q].a]
      BY <1>1, <1>2, <2>1 DEF SessionsDistinct
    <3> QED
      BY <1>3, <1>5, <2>1, <3>1, StaysSound DEF TurnOf
  <2> QED
    BY <1>3, <2>1 DEF Sound, TurnOf
<1>7. SessionsDistinct'
  BY <1>3 DEF SessionsDistinct, TurnOf
<1>8. NoSessionNoRow'
  BY <1>1, <1>2 DEF NoSessionNoRow, Exists, TypeOK
<1>9. PaidMeansCaptured' /\ OneConsequence' /\ PaidOrderIsAnnounced'
  <2>1. att'[a].status = "PENDING" /\ \A b \in Attempts : b # a => att'[b] = att[b]
    BY <1>1, <1>2 DEF TypeOK, AbsentRow
  <2> QED
    BY <1>1, <1>2, <2>1 DEF PaidMeansCaptured, OneConsequence, PaidOrderIsAnnounced, Exists
<1> QED
  BY <1>4, <1>6, <1>7, <1>8, <1>9

\* The gateway, the clock and the administrator's status change keep the
\* invariant.
LEMMA EnvironmentKeeps ==
  ASSUME IInv,
         \/ \E a \in Attempts : GatewaySettles(a)
         \/ PaymentWindowElapses
         \/ \E target \in OrderStatus : UpdateOrderStatus(target)
  PROVE  IInv'
<1> USE DEF IInv
<1>1. /\ UNCHANGED <<att, confirmed, refunded, overwritten, orderLost, proc>>
      /\ held' = held \/ held' = held - 1
  BY DEF GatewaySettles, PaymentWindowElapses, UpdateOrderStatus
<1>2. order' \in OrderRow /\ order'.pay = order.pay
  BY DEF GatewaySettles, PaymentWindowElapses, UpdateOrderStatus, TypeOK, OrderRow
<1>3. /\ gw' \in [Attempts -> GatewayState]
      /\ \A a \in Attempts : gw[a] # "OPEN" => gw'[a] = gw[a]
      /\ \A a \in Attempts : gw[a] # "NONE" => gw'[a] # "NONE"
  BY DEF GatewaySettles, PaymentWindowElapses, UpdateOrderStatus, TypeOK, GatewayState
<1>4. TypeOK'
  BY <1>1, <1>2, <1>3 DEF TypeOK
<1>5. Grows /\ Kept
  BY <1>1, <1>3 DEF Grows, Kept, Exists, Captured
<1>6. Turns
  BY <1>1 DEF Turns, TypeOK
<1>7. PaidMeansCaptured' /\ OneConsequence' /\ PaidOrderIsAnnounced'
  BY <1>1, <1>2, <1>5 DEF Grows, PaidMeansCaptured, OneConsequence, PaidOrderIsAnnounced
<1> QED
  BY <1>4, <1>5, <1>6, <1>7, TurnStep

----------------------------------------------------------------------------
\* Every step of a running handler keeps the invariant.
LEMMA HandlerKeeps == ASSUME IInv, NEW p \in Procs, Handler(p) PROVE IInv'
<1>1. CASE Confirm(p)
  <2>1. CASE ConfirmRead(p) \/ ConfirmValidated(p) \/ ConfirmInvalid(p) \/ ConfirmRefused(p)
             \/ ConfirmAlreadyPaid(p)
    <3>1. UNCHANGED rows
      BY <2>1
         DEF ConfirmRead, ConfirmValidated, ConfirmInvalid, ConfirmRefused,
             ConfirmAlreadyPaid
    <3> QED
      BY <2>1, <3>1, ConfirmReadsTurn, ReadStep
  <2>2. CASE ConfirmFlagRisk(p)
    BY <2>2, ConfirmFlagRiskKeeps
  <2>3. CASE ConfirmOrder(p)
    BY <2>3, ConfirmOrderKeeps
  <2>4. CASE LatePayment(p)
    BY <2>4, LatePaymentKeeps
  <2> QED
    BY <1>1, <2>1, <2>2, <2>3, <2>4 DEF Confirm, ConfirmCommit
<1>2. CASE FailSave(p) \/ CancelSave(p) \/ ReconcileSave(p) \/ FlagSave(p)
  BY <1>2, SavesKeep
<1>3. CASE CancelRead(p) \/ ReconcileValid(p) \/ ReconcileFailed(p) \/ ReconcileCancelled(p)
           \/ ReconcilePending(p)
  <2>1. UNCHANGED rows
    BY <1>3
       DEF CancelRead, ReconcileValid, ReconcileFailed, ReconcileCancelled,
           ReconcilePending
  <2> QED
    BY <1>3, <2>1, AttemptReadsTurn, ReadStep
<1>4. CASE ExpiryRead(p) \/ ExpiryQuery(p) \/ InitiateRead(p) \/ RetryRead(p) \/ CourierRead(p)
  <2>1. UNCHANGED rows
    BY <1>4 DEF ExpiryRead, ExpiryQuery, InitiateRead, RetryRead, CourierRead
  <2> QED
    BY <1>4, <2>1, OrderReadsTurn, ReadStep
<1>5. CASE ApproveAnswer(p) \/ AdminReconcileMatch(p) \/ AdminReconcileMismatch(p) \/ Abort(p)
  <2>1. UNCHANGED rows
    BY <1>5 DEF ApproveAnswer, AdminReconcileMatch, AdminReconcileMismatch, Abort
  <2> QED
    BY <1>5, <2>1, AdminReadsTurn, ReadStep
<1>6. CASE ExpiryCommit(p)
  BY <1>6, ExpiryCommitKeeps
<1>7. CASE RetryRevive(p) \/ RefreshExpiry(p) \/ CourierSave(p)
  BY <1>7, OrderWritesKeep
<1>8. CASE OpenSession(p)
  BY <1>8, OpenSessionKeeps
<1>9. CASE SaveSession(p)
  BY <1>9, SaveSessionKeeps
<1>10. CASE AdminReconcileCommit(p)
  BY <1>10, AdminReconcileCommitKeeps
<1> QED
  BY <1>1, <1>2, <1>3, <1>4, <1>5, <1>6, <1>7, <1>8, <1>9, <1>10 DEF Handler, Reconcile

\* Every call of a handler for an attempt keeps the invariant.
LEMMA CallKeeps == ASSUME IInv, NEW p \in Procs, NEW a \in Attempts, Call(p, a) PROVE IInv'
<1>1. UNCHANGED rows
  BY DEF Call, ConfirmCall, FailRead, CancelCall, ReconcileRead, HoldRead, ApproveCall,
         AdminReconcileRead
<1> QED
  BY <1>1, CallsTurn, ReadStep DEF Call

\* Every step of the system keeps the invariant.
LEMMA StepKeeps == ASSUME IInv, [Next]_vars PROVE IInv'
<1>1. CASE UNCHANGED vars
  <2>1. UNCHANGED rows /\ UNCHANGED proc
    BY <1>1 DEF vars, rows
  <2>2. Turns
    BY <2>1 DEF Turns, IInv, TypeOK
  <2> QED
    BY <2>1, <2>2, ReadStep
<1>2. CASE Next
  <2>1. CASE \E p \in Procs : Handler(p)
    BY <2>1, HandlerKeeps
  <2>2. CASE \E p \in Procs, a \in Attempts : Call(p, a)
    BY <2>2, CallKeeps
  <2>3. CASE \E a \in Attempts : GatewaySettles(a) \/ AdminReject(a)
    BY <2>3, EnvironmentKeeps, AdminRejectKeeps
  <2>4. CASE \E target \in OrderStatus : UpdateOrderStatus(target)
    BY <2>4, EnvironmentKeeps
  <2>5. CASE PaymentWindowElapses
    BY <2>5, EnvironmentKeeps
  <2> QED
    BY <1>2, <2>1, <2>2, <2>3, <2>4, <2>5 DEF Next
<1> QED
  BY <1>1, <1>2

\* The inductive invariant holds in every reachable state, for any number of
\* attempts, activations and reconciliation rounds and any set of handlers.
THEOREM Invariance == Spec => []IInv
<1>1. Init => IInv
  BY InitHolds
<1>2. IInv /\ [Next]_vars => IInv'
  BY StepKeeps
<1> QED
  BY <1>1, <1>2, PTL DEF Spec

\* Every row and every activation always has its type.
THEOREM TypeCorrect == Spec => []TypeOK
<1>1. IInv => TypeOK
  BY DEF IInv
<1> QED
  BY <1>1, Invariance, PTL

\* No attempt and no order says PAID unless the gateway holds the money
\* (PaidMeansCaptured), whichever handlers race.
THEOREM PaidOnlyWithMoney == Spec => []PaidMeansCaptured
<1>1. IInv => PaidMeansCaptured
  BY DEF IInv
<1> QED
  BY <1>1, Invariance, PTL

\* An attempt's money has exactly one consequence, an event or a refund, once
\* it is PAID and none before (OneConsequence), unless an unlocked save or a
\* REJECT replaced its row.
THEOREM MoneyHasOneConsequence == Spec => []OneConsequence
<1>1. IInv => OneConsequence
  BY DEF IInv
<1> QED
  BY <1>1, Invariance, PTL

\* A PAID order always has the PAYMENT_CONFIRMED event of one of its attempts
\* in the outbox (PaidOrderIsAnnounced).
THEOREM PaidOrdersAreAnnounced == Spec => []PaidOrderIsAnnounced
<1>1. IInv => PaidOrderIsAnnounced
  BY DEF IInv
<1> QED
  BY <1>1, Invariance, PTL

----------------------------------------------------------------------------
(* The order row: a PAID attempt stays PAID, an active order holds its      *)
(* stock, and the expiry worker cancels no confirmed order.  The last two   *)
(* hold for the handlers named in their assumption; the runs that refute    *)
(* them with the other handlers, and the findings of PROJECT.json, say why  *)
(* the assumption is needed.                                                *)


\* What a step may do to the order, its stock and its events.
Untouched == UNCHANGED <<order, held, confirmed, orderLost>>

Pays(s) == \* the order row after s has the payment status s
    order' = [order EXCEPT !.pay = s] /\ UNCHANGED <<held, confirmed, orderLost>>

Places == \* the order becomes ORDER_PLACED and PAID
    /\ order' = [order EXCEPT !.status = "ORDER_PLACED", !.pay = "PAID"]
    /\ UNCHANGED <<held, orderLost>>

Expires == \* the expiry worker's transaction
    /\ StillPayable
    /\ order' = [order EXCEPT !.status = "CANCELLED", !.pay = "UNPAID"]
    /\ UNCHANGED <<held, confirmed, orderLost>>

Rejects == \* the administrator's REJECT cancels the order
    /\ order.status # "CANCELLED"
    /\ order' = [order EXCEPT !.status = "CANCELLED", !.pay = "FAILED"]
    /\ held' = held - 1
    /\ UNCHANGED <<confirmed, orderLost>>

Window(b) == \* the payment window elapses or is refreshed
    order' = [order EXCEPT !.due = b] /\ UNCHANGED <<held, confirmed, orderLost>>

Revives == \* retryPayment takes the items again
    order' = PlacedOrder /\ held' = held + 1 /\ UNCHANGED <<confirmed, orderLost>>

\* The order changes in nine ways, and only as its handler's guards allow.
LEMMA OrderStep ==
  ASSUME IInv, [Next]_vars
  PROVE  \/ Untouched
         \/ Pays("REVIEW_REQUIRED")
         \/ Places /\ (order.status # "CANCELLED" \/ \E p \in Procs : proc[p].pc = "adminCommit")
         \/ Expires
         \/ Rejects
         \/ \E b \in BOOLEAN : Window(b)
         \/ Revives /\ \E p \in Procs : proc[p].pc = "revive"
         \/ \E target \in OrderStatus : UpdateOrderStatus(target)
         \/ \E p \in Procs : CourierSave(p)
<1>1. CASE UNCHANGED vars
  BY <1>1 DEF vars, Untouched
<1>2. CASE \E p \in Procs : Handler(p)
  <2> PICK p \in Procs : Handler(p)
    BY <1>2
  <2>1. CASE Confirm(p)
    <3>1. CASE ConfirmRead(p) \/ ConfirmValidated(p) \/ ConfirmInvalid(p)
               \/ ConfirmRefused(p) \/ ConfirmAlreadyPaid(p)
      BY <3>1 DEF ConfirmRead, ConfirmValidated, ConfirmInvalid, ConfirmRefused,
                  ConfirmAlreadyPaid, rows, Untouched
    <3>2. CASE ConfirmFlagRisk(p)
      BY <3>2 DEF ConfirmFlagRisk, Pays
    <3>3. CASE ConfirmOrder(p)
      BY <3>3 DEF ConfirmOrder, Places, OnTime
    <3>4. CASE LatePayment(p)
      BY <3>4 DEF LatePayment, TryReReserveStock, HasSummaries, Pays
    <3> QED
      BY <2>1, <3>1, <3>2, <3>3, <3>4 DEF Confirm, ConfirmCommit
  <2>2. CASE FailSave(p) \/ CancelRead(p) \/ CancelSave(p) \/ Reconcile(p) \/ FlagSave(p)
    BY <2>2 DEF FailSave, CancelRead, CancelSave, Reconcile, ReconcileValid, ReconcileFailed,
                ReconcileCancelled, ReconcilePending, ReconcileSave, FlagSave, rows, Untouched
  <2>3. CASE ExpiryRead(p) \/ ExpiryQuery(p) \/ InitiateRead(p) \/ RetryRead(p)
             \/ OpenSession(p) \/ SaveSession(p) \/ CourierRead(p)
    BY <2>3 DEF ExpiryRead, ExpiryQuery, InitiateRead, RetryRead, OpenSession, SaveSession,
                CourierRead, rows, Untouched
  <2>4. CASE ApproveAnswer(p) \/ AdminReconcileMatch(p) \/ AdminReconcileMismatch(p) \/ Abort(p)
    BY <2>4 DEF ApproveAnswer, AdminReconcileMatch, AdminReconcileMismatch, Abort, rows, Untouched
  <2>5. CASE ExpiryCommit(p)
    BY <2>5 DEF ExpiryCommit, HasSummaries, Expires
  <2>6. CASE RetryRevive(p)
    BY <2>6 DEF RetryRevive, Revives, At
  <2>7. CASE RefreshExpiry(p)
    BY <2>7 DEF RefreshExpiry, Window
  <2>8. CASE CourierSave(p)
    BY <2>8
  <2>9. CASE AdminReconcileCommit(p)
    BY <2>9 DEF AdminReconcileCommit, Places, At
  <2> QED
    BY <2>1, <2>2, <2>3, <2>4, <2>5, <2>6, <2>7, <2>8, <2>9 DEF Handler
<1>3. CASE \E p \in Procs, a \in Attempts : Call(p, a)
  BY <1>3 DEF Call, ConfirmCall, FailRead, CancelCall, ReconcileRead, HoldRead, ApproveCall,
              AdminReconcileRead, rows, Untouched
<1>4. CASE \E a \in Attempts : GatewaySettles(a)
  BY <1>4 DEF GatewaySettles, Untouched
<1>5. CASE \E a \in Attempts : AdminReject(a)
  BY <1>5 DEF AdminReject, Untouched, Rejects
<1>6. CASE PaymentWindowElapses
  BY <1>6 DEF PaymentWindowElapses, Window
<1> QED
  BY <1>1, <1>2, <1>3, <1>4, <1>5, <1>6 DEF Next

----------------------------------------------------------------------------
\* Steps from which the order is written without looking at its status.
Overriding == {"adminQuery", "adminCommit", "courierSave", "revive"}

\* Activation q enters such a step only through the endpoint it belongs to.
Entry(q) ==
    \/ proc'[q].pc = proc[q].pc
    \/ proc'[q].pc \notin Overriding
    \/ proc'[q].pc = "adminCommit" /\ proc[q].pc = "adminQuery"
    \/ proc'[q].pc = "adminQuery" /\ "adminReconcile" \in Ops
    \/ proc'[q].pc = "courierSave" /\ "courier" \in Ops
    \/ proc'[q].pc = "revive" /\ "retry" \in Ops

\* Every step of the system enters those steps as Entry says.
LEMMA StepEntry == ASSUME IInv, [Next]_vars, NEW q \in Procs PROVE Entry(q)
<1>0. /\ proc \in [Procs -> Activation]
      /\ \A p \in Procs : DOMAIN proc[p] = {"pc", "role", "a", "row", "ord", "todo"}
  BY DEF IInv, TypeOK, Activation
<1>1. CASE UNCHANGED proc
  BY <1>1 DEF Entry
<1>2. ASSUME NEW p \in Procs, NEW x, proc' = [proc EXCEPT ![p] = x], x.pc \notin Overriding
      PROVE  Entry(q)
  BY <1>0, <1>2 DEF Entry
<1>3. ASSUME NEW p \in Procs, Finish(p) PROVE Entry(q)
  BY <1>2, <1>3 DEF Finish, Become, Idle, Overriding
<1>4. ASSUME NEW p \in Procs, ConfirmReturns(p) PROVE Entry(q)
  <2>1. CASE proc[p].role = "approve"
    <3> DEFINE x == [Idle EXCEPT !.pc = "approved", !.role = "approve", !.a = proc[p].a]
    <3>1. proc' = [proc EXCEPT ![p] = x] /\ x.pc = "approved"
      BY <1>4, <2>1 DEF ConfirmReturns, Become, Idle
    <3> QED
      BY <1>2, <3>1 DEF Overriding
  <2> QED
    BY <1>3, <1>4, <2>1 DEF ConfirmReturns
<1>5. ASSUME NEW p \in Procs, Handler(p) PROVE Entry(q)
  <2>1. CASE Confirm(p)
    <3>1. CASE ConfirmRead(p)
      BY <1>0, <1>4, <3>1, ZenonT(40) DEF ConfirmRead, Become, Entry, Overriding
    <3>2. CASE ConfirmValidated(p) \/ ConfirmInvalid(p)
      BY <1>0, <3>2 DEF ConfirmValidated, ConfirmInvalid, Become, Entry, Overriding
    <3>3. CASE ConfirmRefused(p) \/ ConfirmCommit(p)
      BY <1>4, <3>3 DEF ConfirmRefused, ConfirmCommit, ConfirmAlreadyPaid, ConfirmFlagRisk,
                        ConfirmOrder, LatePayment
    <3> QED
      BY <2>1, <3>1, <3>2, <3>3 DEF Confirm
  <2>2. CASE FailSave(p) \/ CancelSave(p) \/ ReconcileSave(p) \/ FlagSave(p) \/ ExpiryCommit(p)
             \/ RefreshExpiry(p) \/ CourierSave(p) \/ ApproveAnswer(p)
             \/ AdminReconcileCommit(p) \/ Abort(p)
    BY <1>3, <2>2 DEF FailSave, CancelSave, ReconcileSave, FlagSave, ExpiryCommit,
                      RefreshExpiry, CourierSave, ApproveAnswer, AdminReconcileCommit, Abort
  <2>3. CASE CancelRead(p) \/ ReconcileValid(p) \/ ReconcileFailed(p) \/ ReconcileCancelled(p)
             \/ ReconcilePending(p) \/ ExpiryQuery(p) \/ RetryRevive(p) \/ AdminReconcileMismatch(p)
    <3>1. CASE CancelRead(p) \/ ReconcileValid(p) \/ ReconcileCancelled(p)
      BY <1>0, <3>1, ZenonT(40) DEF CancelRead, ReconcileValid, ReconcileCancelled, Become, Entry, Overriding
    <3>2. CASE ReconcileFailed(p) \/ ReconcilePending(p)
      BY <1>0, <3>2 DEF ReconcileFailed, ReconcilePending, Become, Entry, Overriding
    <3>3. CASE ExpiryQuery(p)
      BY <1>0, <3>3 DEF ExpiryQuery, Become, Entry
    <3>4. CASE RetryRevive(p) \/ AdminReconcileMismatch(p)
      BY <1>0, <3>4 DEF RetryRevive, AdminReconcileMismatch, Become, Entry, Overriding
    <3> QED
      BY <2>3, <3>1, <3>2, <3>3, <3>4
  <2>4. CASE ExpiryRead(p) \/ InitiateRead(p) \/ RetryRead(p) \/ CourierRead(p)
    <3>1. CASE ExpiryRead(p) \/ InitiateRead(p)
      BY <1>0, <3>1, ZenonT(40) DEF ExpiryRead, InitiateRead, Become, Idle, Entry, Overriding
    <3>2. CASE RetryRead(p)
      BY <1>0, <3>2 DEF RetryRead, Become, Idle, Entry, Overriding
    <3>3. CASE CourierRead(p)
      BY <1>0, <3>3 DEF CourierRead, Become, Idle, Entry
    <3> QED
      BY <2>4, <3>1, <3>2, <3>3
  <2>5. CASE OpenSession(p)
    BY <1>0, <2>5 DEF OpenSession, Become, Entry, Overriding
  <2>6. CASE SaveSession(p)
    <3>1. CASE Become(p, [Idle EXCEPT !.pc = "refresh", !.role = "retry"])
      BY <1>0, <3>1 DEF Become, Idle, Entry, Overriding
    <3> QED
      BY <1>3, <2>6, <3>1 DEF SaveSession
  <2>7. CASE AdminReconcileMatch(p)
    BY <1>0, <2>7 DEF AdminReconcileMatch, At, Become, Idle, Entry
  <2> QED
    BY <1>5, <2>1, <2>2, <2>3, <2>4, <2>5, <2>6, <2>7 DEF Handler, Reconcile
<1>6. ASSUME NEW p \in Procs, NEW a \in Attempts, Call(p, a) PROVE Entry(q)
  <2>1. CASE AdminReconcileRead(p, a)
    BY <1>0, <2>1 DEF AdminReconcileRead, Become, Idle, Entry
  <2>2. CASE ConfirmCall(p, a) \/ CancelCall(p, a) \/ ApproveCall(p, a)
    BY <1>0, <2>2, ZenonT(40) DEF ConfirmCall, CancelCall, ApproveCall, Become, Idle, Entry, Overriding
  <2>3. CASE FailRead(p, a) \/ ReconcileRead(p, a) \/ HoldRead(p, a)
    BY <1>0, <2>3, ZenonT(40) DEF FailRead, ReconcileRead, HoldRead, Become, Idle, Entry, Overriding
  <2> QED
    BY <1>6, <2>1, <2>2, <2>3 DEF Call
<1> QED
  BY <1>1, <1>5, <1>6 DEF Next, vars, GatewaySettles, AdminReject, UpdateOrderStatus,
                          PaymentWindowElapses

----------------------------------------------------------------------------
\* The assumption of the stock theorem: without the two endpoints that set the
\* status of any order, and without updateCourierInfo's save of a whole row.
NoStatusEndpoint == Ops \cap {"status", "courier", "adminReconcile"} = {}

\* An order is active with its items taken, or cancelled, and no activation is
\* about to write it unlooked.
StockInv ==
    /\ held \in Int /\ held >= 0
    /\ order.status \in {"PENDING", "ORDER_PLACED", "CANCELLED"}
    /\ order.status # "CANCELLED" => held >= 1
    /\ \A p \in Procs : proc[p].pc \notin {"adminQuery", "adminCommit", "courierSave"}

\* Every step keeps it: whoever cancels an active order gives its items back at
\* most once, and whoever makes a cancelled order active takes them first.
LEMMA StockStep ==
  ASSUME NoStatusEndpoint, IInv, StockInv, [Next]_vars
  PROVE  StockInv'
<1>1. \A p \in Procs : proc'[p].pc \notin {"adminQuery", "adminCommit", "courierSave"}
  BY StepEntry DEF Entry, Overriding, StockInv, NoStatusEndpoint
<1>2. /\ held' \in Int /\ held' >= 0
      /\ order'.status \in {"PENDING", "ORDER_PLACED", "CANCELLED"}
      /\ order'.status # "CANCELLED" => held' >= 1
  <2> USE DEF StockInv
  <2>0. order \in OrderRow
    BY DEF IInv, TypeOK
  <2>1. CASE Untouched
    BY <2>1 DEF Untouched
  <2>2. CASE Pays("REVIEW_REQUIRED") \/ \E b \in BOOLEAN : Window(b)
    BY <2>0, <2>2 DEF Pays, Window, OrderRow
  <2>3. CASE Places /\ order.status # "CANCELLED"
    BY <2>0, <2>3 DEF Places, OrderRow
  <2>4. CASE Expires \/ Rejects
    <3>1. held' = held \/ (held' = held - 1 /\ order.status # "CANCELLED")
      BY <2>4 DEF Expires, StillPayable, Rejects
    <3>2. order'.status = "CANCELLED"
      BY <2>0, <2>4 DEF Expires, StillPayable, Rejects, OrderRow
    <3> QED
      BY <3>1, <3>2
  <2>5. CASE Revives
    BY <2>5 DEF Revives, PlacedOrder
  <2>6. CASE \E target \in OrderStatus : UpdateOrderStatus(target)
    BY <2>6 DEF UpdateOrderStatus, NoStatusEndpoint
  <2>7. CASE \E p \in Procs : CourierSave(p)
    BY <2>7 DEF CourierSave, At
  <2> QED
    BY OrderStep, <2>1, <2>2, <2>3, <2>4, <2>5, <2>6, <2>7
<1> QED
  BY <1>1, <1>2 DEF StockInv

\* An order that will be shipped has its items off the shelf
\* (ActiveOrderHoldsStock), whatever customers, callbacks, workers and reviewers
\* do, when the administrator's status endpoints are not used.
THEOREM ActiveOrdersHoldStock == NoStatusEndpoint => (Spec => []ActiveOrderHoldsStock)
<1> SUFFICES ASSUME NoStatusEndpoint PROVE Spec => []ActiveOrderHoldsStock
  OBVIOUS
<1>1. Init => StockInv
  BY DEF Init, StockInv, PlacedOrder, Idle
<1>2. IInv /\ StockInv /\ [Next]_vars => StockInv'
  BY StockStep
<1>3. StockInv => ActiveOrderHoldsStock
  BY DEF StockInv, ActiveOrderHoldsStock, DeductedStatusGroup
<1> QED
  BY <1>1, <1>2, <1>3, Invariance, PTL DEF Spec

----------------------------------------------------------------------------
\* A confirmed order is neither waiting for its payment nor left UNPAID.
ConfirmedInv ==
    /\ ~orderLost /\ (\E a \in Attempts : confirmed[a] > 0) =>
           order.status # "PENDING" /\ order.pay # "UNPAID"
    /\ \A p \in Procs : proc[p].pc # "revive"

\* Every step keeps it: the expiry worker looks at the order again under its
\* lock, and without a retry no order becomes PENDING again.
LEMMA ConfirmedStep ==
  ASSUME "retry" \notin Ops, IInv, ConfirmedInv, [Next]_vars
  PROVE  ConfirmedInv'
<1>1. \A p \in Procs : proc'[p].pc # "revive"
  BY StepEntry DEF Entry, Overriding, ConfirmedInv
<1>2. ~orderLost' /\ (\E a \in Attempts : confirmed'[a] > 0) =>
          order'.status # "PENDING" /\ order'.pay # "UNPAID"
  <2> USE DEF ConfirmedInv
  <2>0. order \in OrderRow
    BY DEF IInv, TypeOK
  <2>1. CASE Untouched
    BY <2>1 DEF Untouched
  <2>2. CASE Pays("REVIEW_REQUIRED") \/ \E b \in BOOLEAN : Window(b)
    BY <2>0, <2>2 DEF Pays, Window, OrderRow
  <2>3. CASE Places
    BY <2>0, <2>3 DEF Places, OrderRow
  <2>4. CASE Expires \/ Rejects
    BY <2>0, <2>4 DEF Expires, StillPayable, Rejects, OrderRow
  <2>5. CASE Revives /\ \E p \in Procs : proc[p].pc = "revive"
    BY <2>5
  <2>6. CASE \E target \in OrderStatus : UpdateOrderStatus(target)
    <3>1. PICK target \in OrderStatus : UpdateOrderStatus(target)
      BY <2>6
    <3>2. /\ target \in AllowedOrderTransitions[order.status]
          /\ order' = [order EXCEPT !.status = target]
          /\ UNCHANGED <<confirmed, orderLost>>
      BY <3>1 DEF UpdateOrderStatus
    <3>3. target # "PENDING"
      BY <2>0, <3>2 DEF AllowedOrderTransitions, OrderRow
    <3> QED
      BY <2>0, <3>2, <3>3 DEF OrderRow
  <2>7. CASE \E p \in Procs : CourierSave(p)
    BY <2>7 DEF CourierSave
  <2> QED
    BY OrderStep, <2>1, <2>2, <2>3, <2>4, <2>5, <2>6, <2>7
<1> QED
  BY <1>1, <1>2 DEF ConfirmedInv

\* The expiry worker leaves no confirmed order UNPAID (ExpiredOrderUnconfirmed),
\* however its unlocked reads interleave with confirmations, when no retry
\* brings a cancelled order back.
THEOREM ExpiredOrdersUnconfirmed ==
  "retry" \notin Ops => (Spec => []ExpiredOrderUnconfirmed)
<1> SUFFICES ASSUME "retry" \notin Ops PROVE Spec => []ExpiredOrderUnconfirmed
  OBVIOUS
<1>1. Init => ConfirmedInv
  BY DEF Init, ConfirmedInv, PlacedOrder, Idle
<1>2. IInv /\ ConfirmedInv /\ [Next]_vars => ConfirmedInv'
  BY ConfirmedStep
<1>3. IInv /\ ConfirmedInv => ExpiredOrderUnconfirmed
  BY DEF IInv, TypeOK, ConfirmedInv, ExpiredOrderUnconfirmed
<1> QED
  BY <1>1, <1>2, <1>3, Invariance, PTL DEF Spec

----------------------------------------------------------------------------
\* What happened to an attempt is not forgotten: replaced rows, refunds and
\* events are only added.
LEMMA HistoryGrows ==
  ASSUME IInv, [Next]_vars
  PROVE  /\ overwritten \subseteq overwritten'
         /\ refunded \subseteq refunded'
         /\ \A a \in Attempts : confirmed[a] > 0 => confirmed'[a] > 0
<1> DEFINE Same == UNCHANGED <<confirmed, refunded, overwritten>>
<1>1. ASSUME NEW p \in Procs, Handler(p)
      PROVE  /\ overwritten \subseteq overwritten'
             /\ refunded \subseteq refunded'
             /\ \A a \in Attempts : confirmed[a] > 0 => confirmed'[a] > 0
  <2>1. CASE ConfirmOrder(p) \/ AdminReconcileCommit(p)
    <3>1. Emit(proc[p].a) /\ UNCHANGED <<refunded, overwritten>>
      BY <2>1 DEF ConfirmOrder, AdminReconcileCommit
    <3>2. \A b \in Attempts : confirmed[b] \in 0 .. 2
      BY DEF IInv, TypeOK
    <3> QED
      BY <3>1, <3>2 DEF Emit, IInv, TypeOK
  <2>2. CASE LatePayment(p)
    BY <2>2 DEF LatePayment, TryReReserveStock, HasSummaries
  <2>3. CASE ConfirmRead(p) \/ ConfirmValidated(p) \/ ConfirmInvalid(p)
             \/ ConfirmRefused(p) \/ ConfirmAlreadyPaid(p) \/ ConfirmFlagRisk(p)
    <3>1. Same
      BY <2>3 DEF ConfirmRead, ConfirmValidated, ConfirmInvalid, ConfirmRefused,
                  ConfirmAlreadyPaid, ConfirmFlagRisk, rows
    <3> QED
      BY <3>1
  <2>4. CASE FailSave(p) \/ CancelSave(p) \/ ReconcileSave(p) \/ FlagSave(p)
    BY <2>4 DEF FailSave, CancelSave, ReconcileSave, FlagSave, Save
  <2>5. CASE CancelRead(p) \/ ReconcileValid(p) \/ ReconcileFailed(p) \/ ReconcileCancelled(p)
             \/ ReconcilePending(p) \/ ExpiryRead(p) \/ ExpiryQuery(p) \/ ExpiryCommit(p)
    <3>1. Same
      BY <2>5 DEF CancelRead, ReconcileValid, ReconcileFailed, ReconcileCancelled,
                  ReconcilePending, ExpiryRead, ExpiryQuery, ExpiryCommit, rows
    <3> QED
      BY <3>1
  <2>6. CASE InitiateRead(p) \/ RetryRead(p) \/ RetryRevive(p) \/ OpenSession(p)
             \/ SaveSession(p) \/ RefreshExpiry(p) \/ CourierRead(p) \/ CourierSave(p)
    <3>1. Same
      BY <2>6 DEF InitiateRead, RetryRead, RetryRevive, OpenSession, SaveSession,
                  RefreshExpiry, CourierRead, CourierSave, rows
    <3> QED
      BY <3>1
  <2>7. CASE ApproveAnswer(p) \/ AdminReconcileMatch(p) \/ AdminReconcileMismatch(p) \/ Abort(p)
    <3>1. Same
      BY <2>7 DEF ApproveAnswer, AdminReconcileMatch, AdminReconcileMismatch, Abort, rows
    <3> QED
      BY <3>1
  <2> QED
    BY <1>1, <2>1, <2>2, <2>3, <2>4, <2>5, <2>6, <2>7
       DEF Handler, Confirm, ConfirmCommit, Reconcile
<1>2. ASSUME NEW p \in Procs, NEW a \in Attempts, Call(p, a) PROVE Same
  BY <1>2 DEF Call, ConfirmCall, FailRead, CancelCall, ReconcileRead, HoldRead, ApproveCall,
              AdminReconcileRead, rows
<1>3. ASSUME NEW a \in Attempts, GatewaySettles(a) \/ AdminReject(a)
      PROVE  overwritten \subseteq overwritten' /\ UNCHANGED <<confirmed, refunded>>
  BY <1>3 DEF GatewaySettles, AdminReject
<1> QED
  BY <1>1, <1>2, <1>3 DEF Next, vars, UpdateOrderStatus, PaymentWindowElapses

\* A PAID attempt is left PAID by every step but an unlocked save of an older row
\* and the administrator's REJECT (PaidStays): otherwise its event or its refund,
\* which no step takes back, would belong to an attempt that is not PAID.
THEOREM PaidAttemptsStay == Spec => PaidStays
<1>1. IInv /\ IInv' /\ [Next]_vars =>
        [\A a \in Attempts :
            att[a].status = "PAID" /\ att'[a].status # "PAID" => a \in overwritten']_vars
  <2> SUFFICES ASSUME IInv, IInv', [Next]_vars, NEW a \in Attempts,
                      att[a].status = "PAID", att'[a].status # "PAID", a \notin overwritten'
               PROVE  FALSE
    OBVIOUS
  <2>1. a \notin overwritten
    BY HistoryGrows
  <2>2. confirmed[a] > 0 \/ a \in refunded
    BY <2>1 DEF IInv, OneConsequence
  <2>3. confirmed'[a] > 0 \/ a \in refunded'
    BY <2>2, HistoryGrows
  <2>4. confirmed'[a] = 0 /\ a \notin refunded'
    BY DEF IInv, OneConsequence
  <2> QED
    BY <2>3, <2>4
<1> QED
  BY <1>1, Invariance, PTL DEF PaidStays, Spec
=============================================================================

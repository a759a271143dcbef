----------------------------- MODULE WebhookInbox -----------------------------
(***************************************************************************)
(* The durable inbox of payment notifications (PaymentWebhookInboxService):*)
(* an IPN is acknowledged once its row is stored; a cron worker in every   *)
(* instance of the server reads a list of candidate rows without a lock,   *)
(* claims one row after the other under a lease, hands it to               *)
(* confirmPayment, and completes it under a condition on the lease token.  *)
(*                                                                         *)
(* Time is one bit of a row, as in PaymentOutbox.  A claim draws a fresh   *)
(* lease token; tokens are only compared, so one that nobody remembers is  *)
(* fresh.  Retry counts from MaxRetries on behave alike and are one value. *)
(***************************************************************************)
EXTENDS Integers, FiniteSets

CONSTANTS
    Items,       \* notifications, one row for each idempotency key
    Workers,     \* server instances
    None,        \* no item
    MaxRetries   \* failures before a row is a dead letter (5 in the code)

ASSUME InboxAssumption ==
    /\ IsFiniteSet(Items) /\ IsFiniteSet(Workers)
    /\ None \notin Items
    /\ MaxRetries \in Nat \ {0}

VARIABLES
    row,       \* the rows of payment_webhook_inbox
    worker,    \* what each instance is doing
    handled    \* history: notifications for which confirmPayment has returned

inboxVars == <<row, worker, handled>>

----------------------------------------------------------------------------
NoLease == 0
Tokens == 1 .. Cardinality(Items) + Cardinality(Workers) * (Cardinality(Items) + 1) + 1
Lease == Tokens \cup {NoLease}

InboxRow ==
    [status : {"ABSENT", "PENDING", "PROCESSING", "PROCESSED", "DEAD_LETTER"},
     retry : 0 .. MaxRetries, lease : Lease, ripe : BOOLEAN]

InboxWorker ==
    [pc : {"idle", "list", "confirm", "complete", "fail"}, todo : SUBSET Items,
     now : Items \cup {None}, token : Lease,
     seen : [Items -> [retry : 0 .. MaxRetries, lease : Lease]]]

NoRow == [status |-> "ABSENT", retry |-> 0, lease |-> NoLease, ripe |-> FALSE]

NoList ==
    [pc |-> "idle", todo |-> {}, now |-> None, token |-> NoLease,
     seen |-> [e \in Items |-> [retry |-> 0, lease |-> NoLease]]]

InboxInit ==
    /\ row = [e \in Items |-> NoRow]
    /\ worker = [w \in Workers |-> NoList]
    /\ handled = {}

At(w, step) == worker[w].pc = step

FreshToken ==
    CHOOSE token \in Tokens :
        /\ \A e \in Items : row[e].lease # token
        /\ \A w \in Workers : worker[w].token # token
        /\ \A w \in Workers, e \in Items : worker[w].seen[e].lease # token

----------------------------------------------------------------------------
\* ingestWebhook: the notification of a stored key is acknowledged unread.
Ingest(e) ==
    /\ row[e].status = "ABSENT"
    /\ row' = [row EXCEPT ![e] = [NoRow EXCEPT !.status = "PENDING", !.ripe = TRUE]]
    /\ UNCHANGED <<worker, handled>>

\* The next attempt of a row is due, or its lease ends.
TimePasses(e) ==
    /\ row[e].status = "PENDING" \/ row[e].lease # NoLease
    /\ ~row[e].ripe
    /\ row' = [row EXCEPT ![e].ripe = TRUE]
    /\ UNCHANGED <<worker, handled>>

CandidateWhenQueued(e) == row[e].status = "PENDING" /\ row[e].ripe   \* mutant: no take-over
Candidate(e) == row[e].status \in {"PENDING", "PROCESSING"} /\ row[e].ripe

\* processInbox reads its candidates without a lock, the first ten of them.
List(w) ==
    LET candidates == {e \in Items : Candidate(e)} IN
    /\ At(w, "idle")
    /\ candidates # {}
    /\ worker' = [worker EXCEPT ![w] =
           [NoList EXCEPT !.pc = "list", !.todo = candidates,
               !.seen = [e \in Items |-> IF e \in candidates
                                         THEN [retry |-> row[e].retry, lease |-> row[e].lease]
                                         ELSE @[e]]]]
    /\ UNCHANGED <<row, handled>>

ClaimableAnyway(w, e) == TRUE                      \* mutant: claim by id alone
\* The condition of the claim: the lease that was read, none, or an ended one.
Claimable(w, e) ==
    row[e].lease \in {worker[w].seen[e].lease, NoLease} \/ row[e].ripe

ClaimItem(w, e) ==
    /\ At(w, "list")
    /\ e \in worker[w].todo
    /\ Claimable(w, e)
    /\ row' = [row EXCEPT ![e] = [@ EXCEPT !.status = "PROCESSING", !.lease = FreshToken, !.ripe = FALSE]]
    /\ LET rest == worker[w].todo \ {e}
           seen == [worker[w].seen EXCEPT ![e].lease = NoLease]
       IN worker' = [worker EXCEPT ![w] = [@ EXCEPT !.pc = "confirm", !.todo = rest, !.now = e,
                                                    !.token = FreshToken, !.seen = seen]]
    /\ UNCHANGED handled

\* A row whose turn is over is not remembered.
Forgotten(w, e) == [worker[w].seen EXCEPT ![e] = NoList.seen[e]]

\* Another worker claimed the row in the meantime.
ClaimLost(w, e) ==
    /\ At(w, "list")
    /\ e \in worker[w].todo
    /\ ~Claimable(w, e)
    /\ LET rest == worker[w].todo \ {e} IN
       worker' = [worker EXCEPT ![w] = [@ EXCEPT !.todo = rest, !.seen = Forgotten(w, e)]]
    /\ UNCHANGED <<row, handled>>

----------------------------------------------------------------------------
\* confirmPayment returns, with success or without, ...
ConfirmReturns(w) ==
    /\ At(w, "confirm")
    /\ handled' = handled \cup {worker[w].now}
    /\ worker' = [worker EXCEPT ![w].pc = "complete"]
    /\ UNCHANGED row

\* ... or throws.
ConfirmThrows(w) ==
    /\ At(w, "confirm")
    /\ worker' = [worker EXCEPT ![w].pc = "fail"]
    /\ UNCHANGED <<row, handled>>

NextItem(w) ==
    worker' = [worker EXCEPT ![w] = [@ EXCEPT !.pc = "list", !.now = None, !.token = NoLease,
                                              !.seen = Forgotten(w, worker[w].now)]]

CompletesBeforeCall(w) == At(w, "confirm") \/ At(w, "complete")   \* mutant: not awaited
Completes(w) == At(w, "complete")

\* The fenced completion; the row keeps its lease token.
Complete(w) ==
    LET e == worker[w].now IN
    /\ Completes(w)
    /\ row' = IF row[e].lease = worker[w].token
              THEN [row EXCEPT ![e].status = "PROCESSED"]
              ELSE row
    /\ NextItem(w)
    /\ UNCHANGED handled

CompleteThrows(w) ==
    /\ At(w, "complete")
    /\ worker' = [worker EXCEPT ![w].pc = "fail"]
    /\ UNCHANGED <<row, handled>>

GivesUpAtLimit(retry) == retry = MaxRetries         \* mutant: a count past the limit goes on
GivesUp(retry) == retry >= MaxRetries

\* The catch branch writes the row by its id: the retry count read with the
\* list plus one, and no lease.
Fail(w) ==
    LET e == worker[w].now
        retry == worker[w].seen[e].retry + 1
    IN
    /\ At(w, "fail")
    /\ row' = [row EXCEPT ![e] =
           [status |-> IF GivesUp(retry) THEN "DEAD_LETTER" ELSE "PENDING",
            retry |-> IF GivesUp(retry) THEN MaxRetries ELSE retry,
            lease |-> NoLease, ripe |-> FALSE]]
    /\ NextItem(w)
    /\ UNCHANGED handled

\* The list is done, or an update outside the try block throws.
FinishList(w) ==
    /\ At(w, "list") \/ At(w, "fail")
    /\ worker' = [worker EXCEPT ![w] = NoList]
    /\ UNCHANGED <<row, handled>>

\* An instance is restarted.
Restart(w) ==
    /\ ~At(w, "idle")
    /\ worker' = [worker EXCEPT ![w] = NoList]
    /\ UNCHANGED <<row, handled>>

----------------------------------------------------------------------------
InboxNext ==
    \/ \E e \in Items : Ingest(e) \/ TimePasses(e)
    \/ \E w \in Workers, e \in Items : ClaimItem(w, e) \/ ClaimLost(w, e)
    \/ \E w \in Workers :
           \/ List(w) \/ ConfirmReturns(w) \/ ConfirmThrows(w)
           \/ Complete(w) \/ CompleteThrows(w) \/ Fail(w)
           \/ FinishList(w) \/ Restart(w)

InboxSpec == InboxInit /\ [][InboxNext]_inboxVars

\* Time passes and the cron jobs poll.  Restarts, and calls that throw where
\* nothing catches them, do not hit an item at the same step for ever.
Polls ==
    /\ \A w \in Workers : WF_inboxVars(~At(w, "idle") /\ (FinishList(w) \/ Complete(w)))
    /\ \A w \in Workers : SF_inboxVars(List(w))
    /\ \A e \in Items :
           /\ WF_inboxVars(TimePasses(e))
           /\ SF_inboxVars(\E w \in Workers : ClaimItem(w, e))
           /\ SF_inboxVars(\E w \in Workers : worker[w].now = e /\ (ConfirmReturns(w) \/ ConfirmThrows(w)))
           /\ SF_inboxVars(\E w \in Workers : worker[w].now = e /\ Fail(w))

InboxFairSpec == InboxSpec /\ Polls

----------------------------------------------------------------------------
InboxTypeOK ==
    /\ row \in [Items -> InboxRow]
    /\ worker \in [Workers -> InboxWorker]
    /\ handled \subseteq Items

\* A notification counts as processed only after confirmPayment has returned
\* for it, whichever of several workers, with whatever old list, completes it.
ProcessedWasConfirmed ==
    \A e \in Items : row[e].status = "PROCESSED" => e \in handled

\* No worker claims an item whose lease runs, however old its list is: the
\* lease it read with the list had ended by then, and a lease is never renewed.
LiveLeaseNotClaimed ==
    [][\A e \in Items :
          row[e].status = "PROCESSING" /\ ~row[e].ripe =>
              row'[e].lease \in {row[e].lease, NoLease}]_inboxVars

\* A notification that was acknowledged to the gateway is handed to
\* confirmPayment until that returns, or becomes a dead letter an administrator
\* can see, although workers die with it and write old retry counts back.
AcknowledgedIsHandled ==
    \A e \in Items :
        row[e].status = "PENDING" ~> e \in handled \/ row[e].status = "DEAD_LETTER"
=============================================================================

---------------------------- MODULE PaymentOutbox ----------------------------
(***************************************************************************)
(* The transactional outbox of the payments module: rows written with the  *)
(* payment they announce, dispatched by a cron worker in every instance of *)
(* the server (PaymentOutboxService).  A worker claims a batch under a     *)
(* lease, renews the lease while it dispatches, and completes or fails     *)
(* each row under a condition on the lease token; an administrator may     *)
(* replay a row that was given up.                                         *)
(*                                                                         *)
(* Time is one bit of a row: whether the moment it waits for has come, the *)
(* next attempt of a PENDING row or the end of the lease of a PROCESSING   *)
(* one.  The lease token of a batch is the name of its worker: a worker    *)
(* has one batch at a time and only conditions on it for rows of the batch.*)
(***************************************************************************)
EXTENDS Integers, FiniteSets

CONSTANTS
    Events,      \* outbox rows
    Workers,     \* server instances
    None,        \* no lease, no row
    BatchSize,   \* rows claimed together (10 in the code)
    MaxRetries,  \* failed dispatches before a row is given up (5 in the code)
    MaxQueued,   \* bound on how often faults and replays queue a row again
    LockTables   \* the driver accepts a list of tables to lock, as PostgreSQL's
                 \* does; MySQL's, which typeorm.config.ts selects, throws

ASSUME OutboxAssumption ==
    /\ None \notin Events \cup Workers
    /\ IsFiniteSet(Workers)
    /\ BatchSize \in Nat \ {0}
    /\ MaxRetries \in Nat \ {0}
    /\ MaxQueued \in Nat \ {0}
    /\ LockTables \in BOOLEAN

VARIABLES
    row,       \* the rows of payment_outbox_events
    worker,    \* what each instance is doing
    queued,    \* history: times a row became PENDING
    accepted,  \* history: times a completion of a row was accepted
    logged     \* rows of payment_outbox_delivery_attempts that say PUBLISHED

vars == <<row, worker, queued, accepted, logged>>

----------------------------------------------------------------------------
OutboxRow ==
    [status : {"ABSENT", "PENDING", "PROCESSING", "PUBLISHED", "FAILED"},
     retry : 0 .. MaxRetries, lease : Workers \cup {None}, ripe : BOOLEAN]

OutboxWorker ==
    [busy : BOOLEAN, pc : {"idle", "loop", "record", "fail"}, batch : SUBSET Events,
     todo : SUBSET Events, now : Events \cup {None}, owned : BOOLEAN, aborted : BOOLEAN,
     seen : [Events -> 0 .. MaxRetries]]

NoRow == [status |-> "ABSENT", retry |-> 0, lease |-> None, ripe |-> FALSE]

Resting ==
    [busy |-> FALSE, pc |-> "idle", batch |-> {}, todo |-> {}, now |-> None,
     owned |-> FALSE, aborted |-> FALSE, seen |-> [e \in Events |-> 0]]

Init ==
    /\ row = [e \in Events |-> NoRow]
    /\ worker = [w \in Workers |-> Resting]
    /\ queued = [e \in Events |-> 0]
    /\ accepted = [e \in Events |-> 0]
    /\ logged = [e \in Events |-> 0]

----------------------------------------------------------------------------
At(w, step) == worker[w].pc = step

\* enqueueEvent, in the transaction of a payment that was confirmed.
Enqueue(e) ==
    /\ row[e].status = "ABSENT"
    /\ row' = [row EXCEPT ![e] = [NoRow EXCEPT !.status = "PENDING", !.ripe = TRUE]]
    /\ queued' = [queued EXCEPT ![e] = 1]
    /\ UNCHANGED <<worker, accepted, logged>>

\* The next attempt of a row is due, or its lease ends.
TimePasses(e) ==
    /\ row[e].status \in {"PENDING", "PROCESSING"}
    /\ ~row[e].ripe
    /\ row' = [row EXCEPT ![e].ripe = TRUE]
    /\ UNCHANGED <<worker, queued, accepted, logged>>

\* Two mutants: a lease never ends; a lease is not looked at.
ClaimableWhenQueued(e) == row[e].status = "PENDING" /\ row[e].ripe
ClaimableWhileLeased(e) == row[e].status \in {"PENDING", "PROCESSING"}
\* A row that is due, or whose worker let its lease run out.
Claimable(e) == row[e].status \in {"PENDING", "PROCESSING"} /\ row[e].ripe

\* processOutbox: one transaction claims a batch, FOR UPDATE SKIP LOCKED as its
\* comment says.  The code passes SKIP LOCKED to setLock as the tables to lock:
\* a driver that has no such list fails every claim (ClaimFails).
Claim(w) ==
    /\ LockTables
    /\ ~worker[w].busy
    /\ \E batch \in SUBSET {e \in Events : Claimable(e)} :
           /\ batch # {}
           /\ Cardinality(batch) <= BatchSize
           /\ row' = [e \in Events |->
                         IF e \in batch
                         THEN [row[e] EXCEPT !.status = "PROCESSING", !.lease = w, !.ripe = FALSE]
                         ELSE row[e]]
           /\ worker' = [worker EXCEPT ![w] =
                  [Resting EXCEPT !.busy = TRUE, !.pc = "loop", !.batch = batch, !.todo = batch,
                                  !.seen = [e \in Events |-> row[e].retry]]]
    /\ UNCHANGED <<queued, accepted, logged>>

\* Nothing is due: the early return leaves isProcessing set.
ClaimNothing(w) ==
    /\ ~worker[w].busy
    /\ \A e \in Events : ~Claimable(e)
    /\ worker' = [worker EXCEPT ![w].busy = TRUE]
    /\ UNCHANGED <<row, queued, accepted, logged>>

\* The claim fails and is rolled back, every time without LockTables: the same
\* early return.
ClaimFails(w) ==
    /\ ~worker[w].busy
    /\ worker' = [worker EXCEPT ![w].busy = TRUE]
    /\ UNCHANGED <<row, queued, accepted, logged>>

\* Every 20 seconds of a batch: rows still leased get a new lease; when there
\* is none, or the update fails, the batch is aborted.
Renewed(w) == {e \in worker[w].batch : row[e].status = "PROCESSING" /\ row[e].lease = w}

Heartbeat(w) ==
    /\ worker[w].pc # "idle"
    /\ ~worker[w].aborted
    /\ IF Renewed(w) = {}
       THEN /\ worker' = [worker EXCEPT ![w].aborted = TRUE]
            /\ UNCHANGED row
       ELSE /\ row' = [e \in Events |->
                          IF e \in Renewed(w) THEN [row[e] EXCEPT !.ripe = FALSE] ELSE row[e]]
            /\ UNCHANGED worker
    /\ UNCHANGED <<queued, accepted, logged>>

HeartbeatFails(w) ==
    /\ worker[w].pc # "idle"
    /\ ~worker[w].aborted
    /\ worker' = [worker EXCEPT ![w].aborted = TRUE]
    /\ UNCHANGED <<row, queued, accepted, logged>>

----------------------------------------------------------------------------
(* dispatchEventWithLease *)

OwnsAny(w, e) == TRUE                              \* mutant: completion by id alone
Owns(w, e) == row[e].lease = w /\ row[e].status = "PROCESSING"

\* The fenced completion of the next row of the batch.
Complete(w) ==
    /\ At(w, "loop")
    /\ ~worker[w].aborted
    /\ \E e \in worker[w].todo :
           /\ row' = IF Owns(w, e)
                     THEN [row EXCEPT ![e].status = "PUBLISHED", ![e].lease = None]
                     ELSE row
           /\ accepted' = IF Owns(w, e) THEN [accepted EXCEPT ![e] = @ + 1] ELSE accepted
           /\ worker' = [worker EXCEPT ![w].pc = "record", ![w].todo = @ \ {e}, ![w].now = e,
                                       ![w].owned = Owns(w, e)]
    /\ UNCHANGED <<queued, logged>>

\* The completion throws: the catch branch follows.
CompleteFails(w) ==
    /\ At(w, "loop")
    /\ ~worker[w].aborted
    /\ \E e \in worker[w].todo :
           /\ queued[e] < MaxQueued
           /\ worker' = [worker EXCEPT ![w].pc = "fail", ![w].todo = @ \ {e}, ![w].now = e]
    /\ UNCHANGED <<row, queued, accepted, logged>>

RecordAnyway(w) ==                        \* mutant: PUBLISHED without looking at the result
    /\ At(w, "record")
    /\ logged' = [logged EXCEPT ![worker[w].now] = @ + 1]
    /\ worker' = [worker EXCEPT ![w].pc = "loop", ![w].now = None, ![w].owned = FALSE]
    /\ UNCHANGED <<row, queued, accepted>>
\* The attempt row: PUBLISHED when the completion was accepted, else ABORTED.
Record(w) ==
    /\ At(w, "record")
    /\ logged' = IF worker[w].owned THEN [logged EXCEPT ![worker[w].now] = @ + 1] ELSE logged
    /\ worker' = [worker EXCEPT ![w].pc = "loop", ![w].now = None, ![w].owned = FALSE]
    /\ UNCHANGED <<row, queued, accepted>>

\* ... or its update throws, after the completion: the same catch branch.
RecordFails(w) ==
    /\ At(w, "record")
    /\ queued[worker[w].now] < MaxQueued
    /\ worker' = [worker EXCEPT ![w].pc = "fail", ![w].owned = FALSE]
    /\ UNCHANGED <<row, queued, accepted, logged>>

GivesUpLate(retry) == retry > MaxRetries          \* mutant: one retry too many
GivesUp(retry) == retry >= MaxRetries

\* The catch branch: the retry count read with the batch, plus one, is written
\* when the row carries this worker's lease or none at all.
Fail(w) ==
    LET e == worker[w].now
        retry == worker[w].seen[e] + 1
    IN
    /\ At(w, "fail")
    /\ IF row[e].lease \in {w, None}
       THEN /\ row' = [row EXCEPT ![e] =
                  [status |-> IF GivesUp(retry) THEN "FAILED" ELSE "PENDING",
                   retry |-> retry, lease |-> None, ripe |-> FALSE]]
            /\ queued' = [queued EXCEPT ![e] = @ + 1]
       ELSE UNCHANGED <<row, queued>>
    /\ worker' = [worker EXCEPT ![w].pc = "loop", ![w].now = None]
    /\ UNCHANGED <<accepted, logged>>

\* The batch ends, at its end, after an abort, or because the catch branch
\* throws as well: here isProcessing is reset.
FinishBatch(w) ==
    /\ \/ At(w, "loop") /\ (worker[w].todo = {} \/ worker[w].aborted)
       \/ At(w, "fail")
    /\ worker' = [worker EXCEPT ![w] = Resting]
    /\ UNCHANGED <<row, queued, accepted, logged>>

\* An instance is restarted.
Restart(w) ==
    /\ worker[w] # Resting
    /\ worker' = [worker EXCEPT ![w] = Resting]
    /\ UNCHANGED <<row, queued, accepted, logged>>

\* PaymentsService.replayOutboxEvent, a conditional update.
Replay(e) ==
    /\ row[e].status = "FAILED" \/ row[e].retry >= MaxRetries
    /\ queued[e] < MaxQueued
    /\ row' = [row EXCEPT ![e] = [NoRow EXCEPT !.status = "PENDING", !.ripe = TRUE]]
    /\ queued' = [queued EXCEPT ![e] = @ + 1]
    /\ UNCHANGED <<worker, accepted, logged>>

----------------------------------------------------------------------------
Dispatch(w) ==
    \/ Complete(w) \/ CompleteFails(w) \/ Record(w) \/ RecordFails(w) \/ Fail(w)
    \/ FinishBatch(w)

Next ==
    \/ \E e \in Events : Enqueue(e) \/ TimePasses(e) \/ Replay(e)
    \/ \E w \in Workers :
           \/ Claim(w) \/ ClaimNothing(w) \/ ClaimFails(w)
           \/ Heartbeat(w) \/ HeartbeatFails(w)
           \/ Dispatch(w)
           \/ Restart(w)

Spec == Init /\ [][Next]_vars

\* Time passes, the cron job of each instance polls, and a batch that was
\* started goes on.  Restarts, aborts and ended leases do not hit every batch
\* before its first completion: a lease of 60 seconds is renewed every 20 and
\* dispatching a row is a single update.
Publish == \E w \in Workers : Complete(w) /\ row' # row

Polls ==
    /\ \A e \in Events : WF_vars(TimePasses(e))
    /\ \A w \in Workers : SF_vars(Claim(w)) /\ WF_vars(Dispatch(w))
    /\ SF_vars(Publish)

FairSpec == Spec /\ Polls

----------------------------------------------------------------------------
TypeOK ==
    /\ row \in [Events -> OutboxRow]
    /\ worker \in [Workers -> OutboxWorker]
    /\ queued \in [Events -> Nat]
    /\ accepted \in [Events -> Nat]
    /\ logged \in [Events -> Nat]

\* A row is published at most once for each time it was queued, although its
\* lease may end, a second worker may claim it and both may then complete it:
\* the completion is conditional on the lease and the status.
OneDeliveryPerQueueing ==
    \A e \in Events : accepted[e] <= queued[e]

\* The delivery log says PUBLISHED no more often than a completion was
\* accepted: a worker that lost its lease is logged as ABORTED.
LogIsTrue ==
    \A e \in Events : logged[e] <= accepted[e]

\* A row counts as given up exactly when its retries are used up, also when
\* two workers failed it from different counts: the two halves of the guard of
\* replayOutboxEvent never disagree.
DeadLetterIffExhausted ==
    \A e \in Events : row[e].status = "FAILED" <=> row[e].retry = MaxRetries

\* A row whose lease runs is touched by nobody but the worker that leased it.
LiveLeaseRespected ==
    [][\A e \in Events, w \in Workers :
          row[e].lease = w /\ ~row[e].ripe /\ row'[e].lease # w => worker'[w] # worker[w]]_vars

\* A claimed row does not stay claimed for ever: it is published, queued again
\* or given up even if its worker dies, as long as some instance still polls.
ClaimedRowSettles ==
    \A e \in Events :
        row[e].status = "PROCESSING"
            ~> \/ row[e].status # "PROCESSING"
               \/ \A w \in Workers : worker[w].busy /\ At(w, "idle")

----------------------------------------------------------------------------
(* What the comments say, and the code does not do *)

\* payment-outbox.service.ts:52 "Runs every 10 seconds." and :50 "PENDING
\* events whose nextAttemptAt <= now": a queued row is claimed.
QueuedRowIsClaimed ==
    \A e \in Events : row[e].status = "PENDING" ~> row[e].status # "PENDING"
=============================================================================

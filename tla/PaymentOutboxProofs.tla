-------------------------- MODULE PaymentOutboxProofs --------------------------
(***************************************************************************)
(* Proofs about PaymentOutbox for any number of rows and instances, any    *)
(* batch size and any retry limit: types, at most one accepted completion  *)
(* for each time a row was queued, dead letters, and leases that hold.     *)
(*                                                                         *)
(* The fence of a completion is its condition on status and lease.  What   *)
(* makes the properties inductive is what a worker may rely on without     *)
(* looking: the rows of its batch had retries left when it read them, a    *)
(* leased row is PROCESSING, and a queued row has a delivery to its credit.*)
(***************************************************************************)
EXTENDS PaymentOutbox, FiniteSetTheorems, TLAPS

\* A batch is claimed of rows that may fail once more.
BatchInv ==
    \A w \in Workers :
        /\ worker[w].todo \subseteq worker[w].batch
        /\ worker[w].pc \in {"record", "fail"} => worker[w].now \in worker[w].batch
        /\ \A e \in worker[w].batch : worker[w].seen[e] < MaxRetries

LeasedIsProcessing ==
    \A e \in Events : row[e].lease # None => row[e].status = "PROCESSING"

\* A row that waits for its dispatch was queued once more than it was delivered.
DeliveryInv ==
    \A e \in Events :
        /\ accepted[e] <= queued[e]
        /\ row[e].status \in {"PENDING", "PROCESSING"} => accepted[e] < queued[e]
        /\ row[e].status = "ABSENT" => accepted[e] = 0

IInv == TypeOK /\ BatchInv /\ DeadLetterIffExhausted /\ LeasedIsProcessing /\ DeliveryInv

----------------------------------------------------------------------------
LEMMA InitInv == Init => IInv
<1> SUFFICES ASSUME Init PROVE IInv
  OBVIOUS
<1> USE OutboxAssumption DEF Init
<1>1. row \in [Events -> OutboxRow]
  BY DEF OutboxRow, NoRow
<1>2. worker \in [Workers -> OutboxWorker]
  BY DEF OutboxWorker, Resting
<1>3. TypeOK
  BY <1>1, <1>2 DEF TypeOK
<1>4. BatchInv
  BY DEF BatchInv, Resting
<1>5. DeadLetterIffExhausted /\ LeasedIsProcessing /\ DeliveryInv
  BY DEF DeadLetterIffExhausted, LeasedIsProcessing, DeliveryInv, NoRow
<1> QED
  BY <1>3, <1>4, <1>5 DEF IInv

----------------------------------------------------------------------------
(* The rows *)

\* How one row may change: it is queued, its time comes, a worker claims it,
\* the heartbeat renews it, its lease holder publishes it, a failure is written
\* by its lease holder or when it is not leased, or it is replayed.
Queues(e) == row[e].status = "ABSENT" /\ row'[e] = [NoRow EXCEPT !.status = "PENDING", !.ripe = TRUE]
Ripens(e) == row'[e] = [row[e] EXCEPT !.ripe = TRUE]
ClaimedBy(e, w) ==
    /\ Claimable(e)
    /\ row'[e] = [row[e] EXCEPT !.status = "PROCESSING", !.lease = w, !.ripe = FALSE]
RenewedBy(e, w) == Owns(w, e) /\ row'[e] = [row[e] EXCEPT !.ripe = FALSE]
PublishedBy(e, w) == Owns(w, e) /\ row'[e] = [row[e] EXCEPT !.status = "PUBLISHED", !.lease = None]
FailedBy(e, w) ==
    /\ row[e].lease \in {w, None}
    /\ worker[w].pc = "fail" /\ worker[w].now = e
    /\ row'[e] = [status |-> IF GivesUp(worker[w].seen[e] + 1) THEN "FAILED" ELSE "PENDING",
                  retry |-> worker[w].seen[e] + 1, lease |-> None, ripe |-> FALSE]
Replayed(e) ==
    /\ row[e].status = "FAILED" \/ row[e].retry >= MaxRetries
    /\ row'[e] = [NoRow EXCEPT !.status = "PENDING", !.ripe = TRUE]

Uncounted(e) == queued'[e] = queued[e] /\ accepted'[e] = accepted[e]
Requeued(e) == queued'[e] = queued[e] + 1 /\ accepted'[e] = accepted[e]

RowStep(e) ==
    \/ row'[e] = row[e] /\ Uncounted(e)
    \/ Queues(e) /\ queued'[e] = 1 /\ accepted'[e] = accepted[e]
    \/ Ripens(e) /\ Uncounted(e)
    \/ \E w \in Workers : (ClaimedBy(e, w) \/ RenewedBy(e, w)) /\ Uncounted(e)
    \/ \E w \in Workers : PublishedBy(e, w) /\ queued'[e] = queued[e] /\ accepted'[e] = accepted[e] + 1
    \/ \E w \in Workers : FailedBy(e, w) /\ Requeued(e)
    \/ Replayed(e) /\ Requeued(e)

\* No step changes a row in any other way, nor the domain of the counters.
LEMMA RowsStep ==
  ASSUME IInv, [Next]_vars
  PROVE  /\ \A e \in Events : RowStep(e)
         /\ row' = [e \in Events |-> row'[e]]
         /\ queued' = [e \in Events |-> queued'[e]]
         /\ accepted' = [e \in Events |-> accepted'[e]]
<1> USE DEF IInv, TypeOK, Uncounted
<1>1. CASE UNCHANGED vars
  BY <1>1 DEF vars, RowStep
<1>2. CASE \E e \in Events : Enqueue(e)
  BY <1>2 DEF Enqueue, RowStep, Queues
<1>3. CASE \E e \in Events : TimePasses(e)
  BY <1>3 DEF TimePasses, RowStep, Ripens
<1>4. CASE \E e \in Events : Replay(e)
  BY <1>4 DEF Replay, RowStep, Replayed, Requeued
<1>5. CASE \E w \in Workers : Claim(w)
  BY <1>5 DEF Claim, RowStep, ClaimedBy
<1>6. CASE \E w \in Workers : Heartbeat(w)
  BY <1>6 DEF Heartbeat, Renewed, RowStep, RenewedBy, Owns
<1>7. CASE \E w \in Workers : Complete(w)
  <2> PICK w \in Workers : Complete(w)
    BY <1>7
  <2> PICK e \in worker[w].todo :
           /\ row' = IF Owns(w, e)
                     THEN [row EXCEPT ![e].status = "PUBLISHED", ![e].lease = None]
                     ELSE row
           /\ accepted' = IF Owns(w, e) THEN [accepted EXCEPT ![e] = @ + 1] ELSE accepted
           /\ queued' = queued
    BY DEF Complete
  <2>1. e \in Events
    BY DEF OutboxWorker
  <2> QED
    BY <2>1 DEF RowStep, PublishedBy
<1>8. CASE \E w \in Workers : Fail(w)
  <2> PICK w \in Workers : Fail(w)
    BY <1>8
  <2> DEFINE e == worker[w].now
  <2>1. e \in Events
    BY DEF Fail, At, BatchInv, OutboxWorker
  <2> QED
    BY <2>1, ZenonT(40) DEF Fail, At, RowStep, FailedBy, Requeued
<1>9. CASE \E w \in Workers :
              \/ ClaimNothing(w) \/ ClaimFails(w) \/ HeartbeatFails(w) \/ CompleteFails(w)
              \/ Record(w) \/ RecordFails(w) \/ FinishBatch(w) \/ Restart(w)
  BY <1>9 DEF ClaimNothing, ClaimFails, HeartbeatFails, CompleteFails, Record, RecordFails,
              FinishBatch, Restart, RowStep
<1> QED
  BY <1>1, <1>2, <1>3, <1>4, <1>5, <1>6, <1>7, <1>8, <1>9 DEF Next, Dispatch

----------------------------------------------------------------------------
(* The workers *)

\* A worker r that keeps what BatchInv asks of it.
Keeps(r) ==
    /\ r.todo \subseteq r.batch
    /\ r.pc \in {"record", "fail"} => r.now \in r.batch
    /\ \A e \in r.batch : r.seen[e] < MaxRetries

LEMMA OneWorkerChanges ==
  ASSUME IInv, NEW w \in Workers, NEW r \in OutboxWorker, Keeps(r),
         worker' = [worker EXCEPT ![w] = r]
  PROVE  worker' \in [Workers -> OutboxWorker] /\ BatchInv'
BY DEF IInv, TypeOK, Keeps, BatchInv

LEMMA WorkerType == ASSUME IInv, NEW w \in Workers PROVE worker[w] \in OutboxWorker /\ Keeps(worker[w])
BY DEF IInv, TypeOK, BatchInv, Keeps

\* A mark on the instance leaves its batch alone.
LEMMA Mark ==
  ASSUME NEW old \in OutboxWorker, NEW r, Keeps(old),
         r = [old EXCEPT !.busy = TRUE] \/ r = [old EXCEPT !.aborted = TRUE]
  PROVE  r \in OutboxWorker /\ Keeps(r)
<1>1. r \in OutboxWorker
  BY DEF OutboxWorker
<1>2. r.pc = old.pc /\ r.todo = old.todo /\ r.now = old.now /\ r.batch = old.batch /\ r.seen = old.seen
  BY DEF OutboxWorker
<1> QED
  BY <1>1, <1>2 DEF Keeps

\* A step of the dispatch: the row it turns to is one of the batch.
LEMMA DispatchKeeps ==
  ASSUME IInv, NEW w \in Workers, NEW step \in {"loop", "record", "fail"},
         NEW todo \in SUBSET worker[w].todo, NEW now \in Events \cup {None}, NEW owned \in BOOLEAN,
         step = "loop" \/ now \in worker[w].batch,
         worker' = [worker EXCEPT ![w] =
             [worker[w] EXCEPT !.pc = step, !.todo = todo, !.now = now, !.owned = owned]]
  PROVE  worker' \in [Workers -> OutboxWorker] /\ BatchInv'
<1> DEFINE r == [worker[w] EXCEPT !.pc = step, !.todo = todo, !.now = now, !.owned = owned]
<1>1. worker[w] \in OutboxWorker /\ Keeps(worker[w])
  BY WorkerType
<1>2. todo \in SUBSET Events /\ step \in {"idle", "loop", "record", "fail"}
  BY <1>1 DEF OutboxWorker
<1>3. worker' = [worker EXCEPT ![w] = r]
  OBVIOUS
<1>4. r = [worker[w] EXCEPT !.pc = step, !.todo = todo, !.now = now, !.owned = owned]
  OBVIOUS
<1> HIDE DEF r
<1>5. /\ r \in OutboxWorker
      /\ r.pc = step /\ r.todo = todo /\ r.now = now
      /\ r.batch = worker[w].batch /\ r.seen = worker[w].seen
  BY <1>1, <1>2, <1>4 DEF OutboxWorker
<1>6. Keeps(r)
  BY <1>1, <1>5 DEF Keeps
<1> QED
  BY <1>3, <1>5, <1>6, OneWorkerChanges

\* What a step makes of one worker keeps its batch claimable.
LEMMA WorkersStep ==
  ASSUME IInv, [Next]_vars
  PROVE  worker' \in [Workers -> OutboxWorker] /\ BatchInv'
<1>0. worker \in [Workers -> OutboxWorker] /\ row \in [Events -> OutboxRow]
  BY DEF IInv, TypeOK
<1>1. CASE UNCHANGED worker
  BY <1>0, <1>1 DEF IInv, BatchInv
<1>2. CASE \E w \in Workers : Claim(w)
  <2> PICK w \in Workers, batch \in SUBSET {e \in Events : Claimable(e)} :
        worker' = [worker EXCEPT ![w] =
            [Resting EXCEPT !.busy = TRUE, !.pc = "loop", !.batch = batch, !.todo = batch,
                            !.seen = [e \in Events |-> row[e].retry]]]
    BY <1>2 DEF Claim
  <2> DEFINE seen == [e \in Events |-> row[e].retry]
             r == [Resting EXCEPT !.busy = TRUE, !.pc = "loop", !.batch = batch, !.todo = batch,
                                  !.seen = seen]
  <2>1. \A e \in Events : row[e].retry \in 0 .. MaxRetries
    BY <1>0 DEF OutboxRow
  <2>2. seen \in [Events -> 0 .. MaxRetries] /\ \A e \in batch : seen[e] < MaxRetries
    BY <2>1, OutboxAssumption DEF Claimable, IInv, DeadLetterIffExhausted
  <2>3. worker' = [worker EXCEPT ![w] = r]
    OBVIOUS
  <2>4. batch \in SUBSET Events /\ Resting \in OutboxWorker
    BY OutboxAssumption DEF Resting, OutboxWorker
  <2> HIDE DEF seen
  <2>5. r \in OutboxWorker /\ r.pc = "loop" /\ r.todo = batch /\ r.batch = batch /\ r.seen = seen
    BY <2>2, <2>4 DEF OutboxWorker
  <2> HIDE DEF r
  <2> QED
    BY <2>2, <2>3, <2>5, OneWorkerChanges DEF Keeps
<1>3. CASE \E w \in Workers :
              \/ worker' = [worker EXCEPT ![w].busy = TRUE]
              \/ worker' = [worker EXCEPT ![w].aborted = TRUE]
  <2> PICK w \in Workers : \/ worker' = [worker EXCEPT ![w] = [worker[w] EXCEPT !.busy = TRUE]]
                           \/ worker' = [worker EXCEPT ![w] = [worker[w] EXCEPT !.aborted = TRUE]]
    BY <1>3
  <2> QED
    BY WorkerType, Mark, OneWorkerChanges
<1>4. CASE \E w \in Workers : Complete(w)
  <2> PICK w \in Workers : Complete(w)
    BY <1>4
  <2> PICK e \in worker[w].todo :
        worker' = [worker EXCEPT ![w].pc = "record", ![w].todo = @ \ {e}, ![w].now = e,
                                 ![w].owned = Owns(w, e)]
    BY DEF Complete
  <2>1. Owns(w, e) \in BOOLEAN /\ e \in Events /\ e \in worker[w].batch
    BY WorkerType DEF Owns, Keeps, OutboxWorker
  <2>2. worker' = [worker EXCEPT ![w] = [worker[w] EXCEPT
            !.pc = "record", !.todo = worker[w].todo \ {e}, !.now = e, !.owned = Owns(w, e)]]
    OBVIOUS
  <2> QED
    BY DispatchKeeps, <2>1, <2>2, ZenonT(40)
<1>5. CASE \E w \in Workers : CompleteFails(w)
  <2> PICK w \in Workers : CompleteFails(w)
    BY <1>5
  <2> PICK e \in worker[w].todo :
        worker' = [worker EXCEPT ![w].pc = "fail", ![w].todo = @ \ {e}, ![w].now = e]
    BY DEF CompleteFails
  <2>1. worker[w].owned \in BOOLEAN /\ e \in Events /\ e \in worker[w].batch
    BY WorkerType DEF Keeps, OutboxWorker
  <2>2. [worker[w] EXCEPT !.pc = "fail", !.todo = worker[w].todo \ {e}, !.now = e]
          = [worker[w] EXCEPT !.pc = "fail", !.todo = worker[w].todo \ {e}, !.now = e,
                              !.owned = worker[w].owned]
    BY WorkerType DEF OutboxWorker
  <2>3. worker' = [worker EXCEPT ![w] = [worker[w] EXCEPT
            !.pc = "fail", !.todo = worker[w].todo \ {e}, !.now = e, !.owned = worker[w].owned]]
    BY <2>2
  <2> QED
    BY DispatchKeeps, <2>1, <2>3, ZenonT(40)
<1>7. CASE \E w \in Workers : Record(w)
  <2> PICK w \in Workers : Record(w)
    BY <1>7
  <2>1. [worker[w] EXCEPT !.pc = "loop", !.now = None, !.owned = FALSE]
          = [worker[w] EXCEPT !.pc = "loop", !.todo = worker[w].todo, !.now = None, !.owned = FALSE]
    BY WorkerType DEF OutboxWorker
  <2>2. worker' = [worker EXCEPT ![w] = [worker[w] EXCEPT
            !.pc = "loop", !.todo = worker[w].todo, !.now = None, !.owned = FALSE]]
    BY <2>1 DEF Record
  <2> QED
    BY DispatchKeeps, <2>2
<1>8. CASE \E w \in Workers : RecordFails(w)
  <2> PICK w \in Workers : RecordFails(w)
    BY <1>8
  <2>1. worker[w].now \in worker[w].batch /\ worker[w].now \in Events
    BY WorkerType DEF RecordFails, At, Keeps, OutboxWorker
  <2>2. [worker[w] EXCEPT !.pc = "fail", !.owned = FALSE]
          = [worker[w] EXCEPT !.pc = "fail", !.todo = worker[w].todo, !.now = worker[w].now,
                              !.owned = FALSE]
    BY WorkerType DEF OutboxWorker
  <2>3. worker' = [worker EXCEPT ![w] = [worker[w] EXCEPT
            !.pc = "fail", !.todo = worker[w].todo, !.now = worker[w].now, !.owned = FALSE]]
    BY <2>2 DEF RecordFails
  <2> QED
    BY DispatchKeeps, <2>1, <2>3
<1>9. CASE \E w \in Workers : Fail(w)
  <2> PICK w \in Workers : Fail(w)
    BY <1>9
  <2>1. [worker[w] EXCEPT !.pc = "loop", !.now = None]
          = [worker[w] EXCEPT !.pc = "loop", !.todo = worker[w].todo, !.now = None,
                              !.owned = worker[w].owned]
    BY WorkerType DEF OutboxWorker
  <2>2. worker[w].owned \in BOOLEAN
    BY WorkerType DEF OutboxWorker
  <2>3. worker' = [worker EXCEPT ![w] = [worker[w] EXCEPT
            !.pc = "loop", !.todo = worker[w].todo, !.now = None, !.owned = worker[w].owned]]
    BY <2>1 DEF Fail
  <2> QED
    BY DispatchKeeps, <2>2, <2>3
<1>6. CASE \E w \in Workers : worker' = [worker EXCEPT ![w] = Resting]
  <2>1. Resting \in OutboxWorker /\ Keeps(Resting)
    BY OutboxAssumption DEF Resting, OutboxWorker, Keeps
  <2> QED
    BY <1>6, <2>1, OneWorkerChanges
<1> QED
  BY <1>1, <1>2, <1>3, <1>4, <1>5, <1>6, <1>7, <1>8, <1>9
     DEF Next, Dispatch, Enqueue, TimePasses, Replay, vars, ClaimNothing, ClaimFails, Heartbeat,
         HeartbeatFails, FinishBatch, Restart

----------------------------------------------------------------------------
LEMMA NextInv == IInv /\ [Next]_vars => IInv'
<1> SUFFICES ASSUME IInv, [Next]_vars PROVE IInv'
  OBVIOUS
<1>1. worker' \in [Workers -> OutboxWorker] /\ BatchInv'
  BY WorkersStep
<1>2. \A e \in Events : RowStep(e)
  BY RowsStep
<1>3. ASSUME NEW e \in Events
      PROVE  /\ row'[e] \in OutboxRow
             /\ row'[e].status = "FAILED" <=> row'[e].retry = MaxRetries
             /\ row'[e].lease # None => row'[e].status = "PROCESSING"
  <2>0. /\ row[e] \in OutboxRow
        /\ row[e].status = "FAILED" <=> row[e].retry = MaxRetries
        /\ row[e].lease # None => row[e].status = "PROCESSING"
    BY DEF IInv, TypeOK, DeadLetterIffExhausted, LeasedIsProcessing
  <2>1. CASE row'[e] = row[e] \/ Ripens(e)
    BY <2>0, <2>1 DEF Ripens, OutboxRow
  <2>2. CASE Queues(e) \/ Replayed(e)
    <3>1. row'[e] = [status |-> "PENDING", retry |-> 0, lease |-> None, ripe |-> TRUE]
      BY <2>2 DEF Queues, Replayed, NoRow
    <3> QED
      BY <3>1, OutboxAssumption DEF OutboxRow
  <2>3. CASE \E w \in Workers : ClaimedBy(e, w) \/ RenewedBy(e, w)
    BY <2>0, <2>3, ZenonT(40) DEF ClaimedBy, Claimable, RenewedBy, Owns, OutboxRow
  <2>4. CASE \E w \in Workers : PublishedBy(e, w)
    BY <2>0, <2>4 DEF PublishedBy, Owns, OutboxRow
  <2>5. CASE \E w \in Workers : FailedBy(e, w)
    <3> PICK w \in Workers : FailedBy(e, w)
      BY <2>5
    <3>1. worker[w].seen[e] \in 0 .. MaxRetries /\ worker[w].seen[e] < MaxRetries
      BY DEF FailedBy, IInv, TypeOK, OutboxWorker, BatchInv
    <3> QED
      BY <3>1, OutboxAssumption DEF FailedBy, GivesUp, OutboxRow
  <2> QED
    BY <1>2, <2>1, <2>2, <2>3, <2>4, <2>5 DEF RowStep
<1>4. ASSUME NEW e \in Events
      PROVE  /\ queued'[e] \in Nat /\ accepted'[e] \in Nat
             /\ accepted'[e] <= queued'[e]
             /\ row'[e].status \in {"PENDING", "PROCESSING"} => accepted'[e] < queued'[e]
             /\ row'[e].status = "ABSENT" => accepted'[e] = 0
  <2>0. /\ queued[e] \in Nat /\ accepted[e] \in Nat /\ row[e] \in OutboxRow
        /\ accepted[e] <= queued[e]
        /\ row[e].status \in {"PENDING", "PROCESSING"} => accepted[e] < queued[e]
        /\ row[e].status = "ABSENT" => accepted[e] = 0
    BY DEF IInv, TypeOK, DeliveryInv
  <2>1. CASE row'[e] = row[e] /\ Uncounted(e)
    BY <2>0, <2>1 DEF Uncounted
  <2>2. CASE Queues(e) /\ queued'[e] = 1 /\ accepted'[e] = accepted[e]
    BY <2>0, <2>2 DEF Queues, NoRow
  <2>3. CASE Ripens(e) /\ Uncounted(e)
    BY <2>0, <2>3 DEF Ripens, Uncounted, OutboxRow
  <2>4. CASE \E w \in Workers : (ClaimedBy(e, w) \/ RenewedBy(e, w)) /\ Uncounted(e)
    BY <2>0, <2>4 DEF ClaimedBy, Claimable, RenewedBy, Owns, Uncounted, OutboxRow
  <2>5. CASE \E w \in Workers :
               PublishedBy(e, w) /\ queued'[e] = queued[e] /\ accepted'[e] = accepted[e] + 1
    BY <2>0, <2>5 DEF PublishedBy, Owns, OutboxRow
  <2>6. CASE \E w \in Workers : FailedBy(e, w) /\ Requeued(e)
    BY <2>0, <2>6 DEF FailedBy, Requeued
  <2>7. CASE Replayed(e) /\ Requeued(e)
    BY <2>0, <2>7 DEF Replayed, Requeued, NoRow
  <2> QED
    BY <1>2, <2>1, <2>2, <2>3, <2>4, <2>5, <2>6, <2>7 DEF RowStep
<1>5. logged' \in [Events -> Nat]
  <2>1. CASE \E w \in Workers : Record(w)
    BY <2>1 DEF Record, At, IInv, TypeOK, BatchInv, OutboxWorker
  <2>2. CASE UNCHANGED logged
    BY <2>2 DEF IInv, TypeOK
  <2> QED
    BY <2>1, <2>2
       DEF Next, Dispatch, vars, Enqueue, TimePasses, Replay, Claim, ClaimNothing, ClaimFails,
           Heartbeat, HeartbeatFails, Complete, CompleteFails, RecordFails, Fail, FinishBatch, Restart
<1>6. TypeOK'
  BY <1>1, <1>3, <1>4, <1>5, RowsStep DEF TypeOK
<1> QED
  BY <1>1, <1>3, <1>4, <1>6
     DEF IInv, DeadLetterIffExhausted, LeasedIsProcessing, DeliveryInv

LEMMA Invariance == Spec => []IInv
BY InitInv, NextInv, PTL DEF Spec

----------------------------------------------------------------------------
(* The delivery log *)

\* The instances whose completion of e was accepted and is not logged yet.
Unlogged(e) ==
    {w \in Workers : worker[w].pc = "record" /\ worker[w].owned /\ worker[w].now = e}

LogInv == \A e \in Events : logged[e] + Cardinality(Unlogged(e)) <= accepted[e]

\* An accepted completion adds one instance to those that will log it; a log
\* entry takes its instance away.
LogStep(e) ==
    \/ Unlogged(e)' \subseteq Unlogged(e) /\ logged'[e] = logged[e] /\ accepted'[e] = accepted[e]
    \/ \E w \in Workers : /\ Unlogged(e)' \subseteq Unlogged(e) \cup {w}
                          /\ logged'[e] = logged[e] /\ accepted'[e] = accepted[e] + 1
    \/ \E w \in Unlogged(e) : /\ Unlogged(e)' \subseteq Unlogged(e) \ {w}
                              /\ logged'[e] = logged[e] + 1 /\ accepted'[e] = accepted[e]

LEMMA LogSteps ==
  ASSUME IInv, [Next]_vars, NEW e \in Events
  PROVE  LogStep(e)
<1> USE DEF LogStep, Unlogged
<1>0. /\ worker \in [Workers -> OutboxWorker]
      /\ accepted \in [Events -> Nat] /\ logged \in [Events -> Nat]
  BY DEF IInv, TypeOK
<1>a. \A w \in Workers : DOMAIN worker[w] = {"busy", "pc", "batch", "todo", "now", "owned", "aborted", "seen"}
  BY <1>0 DEF OutboxWorker
<1>1. CASE UNCHANGED <<worker, accepted, logged>>
  BY <1>1
<1>2. CASE \E w \in Workers :
              Claim(w) \/ ClaimNothing(w) \/ ClaimFails(w) \/ Heartbeat(w) \/ HeartbeatFails(w)
  <2> PICK w \in Workers :
              Claim(w) \/ ClaimNothing(w) \/ ClaimFails(w) \/ Heartbeat(w) \/ HeartbeatFails(w)
    BY <1>2
  <2>1. accepted' = accepted /\ logged' = logged /\ \A v \in Workers : v # w => worker'[v] = worker[v]
    BY <1>0, <1>2 DEF Claim, ClaimNothing, ClaimFails, Heartbeat, HeartbeatFails
  <2>2. CASE Claim(w)
    <3>1. worker'[w].pc = "loop"
      BY <1>0, <2>2, ZenonT(40) DEF Claim, Resting
    <3> QED
      BY <2>1, <3>1
  <2>3. CASE ~Claim(w)
    <3>1. worker'[w].pc = worker[w].pc /\ worker'[w].owned = worker[w].owned
            /\ worker'[w].now = worker[w].now
      BY <1>0, <1>a, <2>3 DEF ClaimNothing, ClaimFails, Heartbeat, HeartbeatFails
    <3> QED
      BY <2>1, <3>1
  <2> QED
    BY <2>2, <2>3
<1>3. CASE \E w \in Workers : Complete(w)
  <2> PICK w \in Workers : Complete(w)
    BY <1>3
  <2> PICK d \in worker[w].todo :
           /\ accepted' = IF Owns(w, d) THEN [accepted EXCEPT ![d] = @ + 1] ELSE accepted
           /\ worker' = [worker EXCEPT ![w].pc = "record", ![w].todo = @ \ {d}, ![w].now = d,
                                       ![w].owned = Owns(w, d)]
           /\ logged' = logged
    BY DEF Complete
  <2>1. \A v \in Workers : v # w => worker'[v] = worker[v]
    BY <1>0
  <2>2. worker'[w].now = d /\ worker'[w].owned = Owns(w, d)
    BY <1>0, <1>a
  <2>3. CASE d = e /\ Owns(w, d)
    <3>1. accepted'[e] = accepted[e] + 1
      BY <1>0, <2>3
    <3> QED
      BY <2>1, <3>1
  <2>4. CASE ~(d = e /\ Owns(w, d))
    <3>1. accepted'[e] = accepted[e]
      BY <1>0, <2>4
    <3> QED
      BY <2>1, <2>2, <2>4, <3>1
  <2> QED
    BY <2>3, <2>4
<1>4. CASE \E w \in Workers : Record(w)
  <2> PICK w \in Workers : Record(w)
    BY <1>4
  <2>1. /\ \A v \in Workers : v # w => worker'[v] = worker[v]
        /\ worker'[w].pc = "loop" /\ worker[w].pc = "record" /\ accepted' = accepted
    BY <1>0, <1>a DEF Record, At
  <2>2. CASE worker[w].owned /\ worker[w].now = e
    <3>1. logged'[e] = logged[e] + 1
      BY <1>0, <2>2 DEF Record
    <3>2. w \in Unlogged(e) /\ Unlogged(e)' \subseteq Unlogged(e) \ {w}
      BY <2>1, <2>2
    <3> QED
      BY <2>1, <3>1, <3>2
  <2>3. CASE ~(worker[w].owned /\ worker[w].now = e)
    <3>1. logged'[e] = logged[e]
      BY <1>0, <2>3 DEF Record
    <3> QED
      BY <2>1, <3>1
  <2> QED
    BY <2>2, <2>3
<1>5. CASE \E w \in Workers :
              CompleteFails(w) \/ RecordFails(w) \/ Fail(w) \/ FinishBatch(w) \/ Restart(w)
  <2> PICK w \in Workers :
              CompleteFails(w) \/ RecordFails(w) \/ Fail(w) \/ FinishBatch(w) \/ Restart(w)
    BY <1>5
  <2>1. accepted' = accepted /\ logged' = logged /\ \A v \in Workers : v # w => worker'[v] = worker[v]
    BY <1>0 DEF CompleteFails, RecordFails, Fail, FinishBatch, Restart
  <2>2. CASE FinishBatch(w) \/ Restart(w)
    <3>1. worker'[w].pc = "idle"
      BY <1>0, <2>2 DEF FinishBatch, Restart, Resting
    <3> QED
      BY <2>1, <3>1
  <2>3. CASE CompleteFails(w) \/ RecordFails(w) \/ Fail(w)
    <3>1. worker'[w].pc \in {"fail", "loop"}
      BY <1>0, <1>a, <2>3, ZenonT(40) DEF CompleteFails, RecordFails, Fail
    <3> QED
      BY <2>1, <3>1
  <2> QED
    BY <2>2, <2>3
<1> QED
  BY <1>1, <1>2, <1>3, <1>4, <1>5 DEF Next, Dispatch, vars, Enqueue, TimePasses, Replay

LEMMA LogInvariance == Spec => []LogInv
<1> USE OutboxAssumption
<1>1. Init => LogInv
  <2> SUFFICES ASSUME Init, NEW e \in Events PROVE logged[e] + Cardinality(Unlogged(e)) <= accepted[e]
    BY DEF LogInv
  <2>1. Unlogged(e) = {}
    BY DEF Init, Unlogged, Resting
  <2> QED
    BY <2>1, FS_EmptySet DEF Init
<1>2. IInv /\ LogInv /\ [Next]_vars => LogInv'
  <2> SUFFICES ASSUME IInv, LogInv, [Next]_vars, NEW e \in Events
               PROVE  logged'[e] + Cardinality(Unlogged(e)') <= accepted'[e]
    BY DEF LogInv
  <2> DEFINE U == Unlogged(e)
             V == Unlogged(e)'
  <2>1. IsFiniteSet(U) /\ Cardinality(U) \in Nat
    BY FS_Subset, FS_CardinalityType DEF Unlogged
  <2>2. logged[e] \in Nat /\ accepted[e] \in Nat /\ logged[e] + Cardinality(U) <= accepted[e]
    BY DEF LogInv, IInv, TypeOK
  <2>3. LogStep(e)
    BY LogSteps
  <2> HIDE DEF U, V
  <2>4. CASE V \subseteq U /\ logged'[e] = logged[e] /\ accepted'[e] = accepted[e]
    BY <2>1, <2>2, <2>4, FS_Subset, FS_CardinalityType DEF U, V
  <2>5. CASE \E w \in Workers : /\ V \subseteq U \cup {w}
                                /\ logged'[e] = logged[e] /\ accepted'[e] = accepted[e] + 1
    <3> PICK w \in Workers : V \subseteq U \cup {w}
      BY <2>5
    <3>1. IsFiniteSet(U \cup {w}) /\ Cardinality(U \cup {w}) <= Cardinality(U) + 1
      <4>1. CASE w \in U
        <5>1. U \cup {w} = U
          BY <4>1
        <5> QED
          BY <2>1, <5>1
      <4>2. CASE w \notin U
        <5>1. IsFiniteSet(U \cup {w}) /\ Cardinality(U \cup {w}) = Cardinality(U) + 1
          BY <2>1, <4>2, FS_AddElement
        <5> QED
          BY <2>1, <5>1
      <4> QED
        BY <4>1, <4>2
    <3>2. Cardinality(V) <= Cardinality(U) + 1 /\ Cardinality(V) \in Nat
      BY <2>1, <3>1, FS_Subset, FS_CardinalityType
    <3> QED
      BY <2>1, <2>2, <2>5, <3>2 DEF V
  <2>6. CASE \E w \in U : /\ V \subseteq U \ {w}
                          /\ logged'[e] = logged[e] + 1 /\ accepted'[e] = accepted[e]
    <3> PICK w \in U : V \subseteq U \ {w}
      BY <2>6
    <3>1. IsFiniteSet(U \ {w}) /\ Cardinality(U \ {w}) = Cardinality(U) - 1
      BY <2>1, FS_RemoveElement
    <3>2. Cardinality(V) <= Cardinality(U) - 1 /\ Cardinality(V) \in Nat
      BY <2>1, <3>1, FS_Subset, FS_CardinalityType
    <3> QED
      BY <2>1, <2>2, <2>6, <3>2 DEF V
  <2> QED
    BY <2>3, <2>4, <2>5, <2>6 DEF LogStep, U, V
<1> QED
  BY <1>1, <1>2, Invariance, PTL DEF Spec

----------------------------------------------------------------------------
(* Theorems *)

\* Every reachable state has the declared types.
THEOREM TypeCorrect == Spec => []TypeOK
BY Invariance, PTL DEF IInv

\* However many instances hold a batch with the row, whenever leases end, and
\* whatever fails: no row is delivered more often than it was queued.
THEOREM DeliveredOncePerQueueing == Spec => []OneDeliveryPerQueueing
<1>1. IInv => OneDeliveryPerQueueing
  BY DEF IInv, DeliveryInv, OneDeliveryPerQueueing
<1> QED
  BY <1>1, Invariance, PTL

\* The delivery log never says PUBLISHED more often than a completion of the row
\* was accepted, whichever instance writes its entry last.
THEOREM DeliveryLogIsTrue == Spec => []LogIsTrue
<1>1. IInv /\ LogInv => LogIsTrue
  <2> SUFFICES ASSUME IInv, LogInv, NEW e \in Events PROVE logged[e] <= accepted[e]
    BY DEF LogIsTrue
  <2>1. Cardinality(Unlogged(e)) \in Nat
    BY OutboxAssumption, FS_Subset, FS_CardinalityType DEF Unlogged
  <2> QED
    BY <2>1 DEF LogInv, IInv, TypeOK
<1> QED
  BY <1>1, Invariance, LogInvariance, PTL

\* A row is given up exactly when its retries are used up, also after two
\* instances failed it from different counts.
THEOREM DeadLettersAreExhausted == Spec => []DeadLetterIffExhausted
BY Invariance, PTL DEF IInv

\* While its lease runs, only the worker that leased a row changes its lease.
THEOREM LeasesHold == Spec => LiveLeaseRespected
<1> DEFINE Takes(e, w) == row[e].lease = w /\ ~row[e].ripe /\ row'[e].lease # w
<1>1. ASSUME IInv, [Next]_vars, NEW e \in Events, NEW w \in Workers, Takes(e, w)
      PROVE  worker'[w] # worker[w]
  <2>0. /\ w # None /\ row[e].status = "PROCESSING" /\ row[e].retry < MaxRetries
        /\ row[e] \in OutboxRow /\ worker \in [Workers -> OutboxWorker]
    <3>1. row[e] \in OutboxRow /\ worker \in [Workers -> OutboxWorker]
      BY <1>1 DEF IInv, TypeOK
    <3>2. w # None /\ row[e].status = "PROCESSING"
      BY <1>1, OutboxAssumption DEF IInv, LeasedIsProcessing
    <3> QED
      BY <1>1, <3>1, <3>2, OutboxAssumption DEF IInv, DeadLetterIffExhausted, OutboxRow
  <2>1. CASE \E v \in Workers : Complete(v)
    <3> PICK v \in Workers : Complete(v)
      BY <2>1
    <3>1. v = w
      BY <1>1 DEF Complete, Owns, IInv, TypeOK
    <3> QED
      BY <2>0, <3>1 DEF Complete, At, OutboxWorker
  <2>2. CASE \E v \in Workers : Fail(v)
    <3> PICK v \in Workers : Fail(v)
      BY <2>2
    <3>1. v = w
      BY <1>1, <2>0 DEF Fail, IInv, TypeOK
    <3> QED
      BY <2>0, <3>1 DEF Fail, At, OutboxWorker
  <2>3. CASE UNCHANGED row
    BY <1>1, <2>3
  <2>4. CASE \E d \in Events : Enqueue(d) \/ TimePasses(d) \/ Replay(d)
    BY <1>1, <2>0, <2>4, OutboxAssumption
       DEF Enqueue, TimePasses, Replay, IInv, TypeOK, OutboxRow
  <2>5. CASE \E v \in Workers : Claim(v)
    <3>1. ~Claimable(e)
      BY <1>1 DEF Claimable
    <3> QED
      BY <1>1, <2>5, <3>1 DEF Claim
  <2>6. CASE \E v \in Workers : Heartbeat(v)
    BY <1>1, <2>0, <2>6 DEF Heartbeat, IInv, TypeOK, OutboxRow
  <2> QED
    BY <1>1, <2>1, <2>2, <2>3, <2>4, <2>5, <2>6
       DEF Next, Dispatch, vars, ClaimNothing, ClaimFails, HeartbeatFails, CompleteFails, Record,
           RecordFails, FinishBatch, Restart
<1>2. IInv /\ [Next]_vars
        => [\A e \in Events, w \in Workers : Takes(e, w) => worker'[w] # worker[w]]_vars
  BY <1>1
<1>3. [][\A e \in Events, w \in Workers : Takes(e, w) => worker'[w] # worker[w]]_vars
        <=> LiveLeaseRespected
  BY DEF LiveLeaseRespected
<1> QED
  BY <1>2, <1>3, Invariance, PTL DEF Spec
=============================================================================

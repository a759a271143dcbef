------------------------ MODULE PaymentServicesProofs ------------------------
(***************************************************************************)
(* Proofs about WebhookInbox and PaymentRefunds for any number of          *)
(* notifications, workers and refunds and any amount.                      *)
(*                                                                         *)
(* Inbox: a lease token is never drawn twice while somebody remembers it,  *)
(* so whoever finds the lease that it read finds it ended.  Refunds: while *)
(* no mark is wrong, one refund at most is in flight, and it fits into     *)
(* what the succeeded ones leave of the payment.                           *)
(***************************************************************************)
EXTENDS MCPaymentServices, SetSums

----------------------------------------------------------------------------
(* The inbox                                                                *)

WorkerInv(w) ==
    /\ worker[w].pc \in {"confirm", "complete", "fail"} => worker[w].now \in Items
    /\ worker[w].pc = "complete" => worker[w].now \in handled
    /\ \A e \in worker[w].todo :
           worker[w].seen[e].lease # NoLease /\ row[e].lease = worker[w].seen[e].lease => row[e].ripe

InboxInv ==
    /\ InboxTypeOK
    /\ \A w \in Workers : WorkerInv(w)
    /\ \A e \in Items : row[e].status = "PROCESSING" => row[e].lease # NoLease
    /\ ProcessedWasConfirmed

----------------------------------------------------------------------------
(* The refunds                                                              *)

Inflight(k) == refund[k].status \in InFlight

\* What an administrator's right marks leave true of a refund.
Judgeable(k) ==
    /\ call[k] # "none" => refund[k].status = "PENDING"
    /\ call[k] \in {"ask", "FAILED"} => k \notin returned
    /\ call[k] = "PROCESSING" => k \in returned
    /\ k \in returned => Inflight(k) \/ k \in Succeeded
    /\ k \in Succeeded => k \in returned

Fits ==
    /\ \A k, l \in Keys : Inflight(k) /\ Inflight(l) => k = l
    /\ RefundTotal(Succeeded) <= Amount
    /\ \A k \in Keys : Inflight(k) => refund[k].amount + RefundTotal(Succeeded) <= Amount

RefundsInv ==
    /\ RefundsTypeOK
    /\ \A k \in Keys : refund[k].status # "ABSENT" => refund[k].amount >= 1
    /\ \A k \in Keys : call[k] # "none" => refund[k].status # "ABSENT"
    /\ ~misjudged => (\A k \in Keys : Judgeable(k)) /\ Fits
    /\ OrderTellsRefunds

ServicesInv == InboxInv /\ RefundsInv

----------------------------------------------------------------------------
(* What refunds add up to                                                   *)

LEMMA SucceededFinite ==
  ASSUME NEW S \in SUBSET Keys PROVE IsFiniteSet(S)
BY RefundAssumption, FS_Subset

LEMMA TotalType ==
  ASSUME RefundsTypeOK, NEW S \in SUBSET Keys PROVE RefundTotal(S) \in Nat
<1> DEFINE f == [k \in Keys |-> refund[k].amount]
<1>1. \A k \in S : f[k] \in Nat
  BY RefundAssumption DEF RefundsTypeOK, RefundRow
<1> HIDE DEF f
<1>2. SumFunctionOnSet(f, S) \in Nat
  BY <1>1, SucceededFinite, SumType
<1> QED
  BY <1>2 DEF RefundTotal, f

LEMMA TotalAdd ==
  ASSUME RefundsTypeOK, NEW S \in SUBSET Keys, NEW k \in Keys \ S
  PROVE  RefundTotal(S \cup {k}) = refund[k].amount + RefundTotal(S)
<1> DEFINE f == [l \in Keys |-> refund[l].amount]
           T == S \cup {k}
<1>1. \A l \in T : f[l] \in Int
  BY RefundAssumption DEF RefundsTypeOK, RefundRow
<1>2. f[k] = refund[k].amount /\ k \in T /\ T \ {k} = S /\ T \in SUBSET Keys
  OBVIOUS
<1> HIDE DEF f, T
<1>3. IsFiniteSet(T)
  BY <1>2, SucceededFinite
<1>4. SumFunctionOnSet(f, T) = f[k] + SumFunctionOnSet(f, T \ {k})
  BY <1>1, <1>2, <1>3, SumRemove
<1> QED
  BY <1>2, <1>4 DEF RefundTotal, f, T

\* The total is that of before when the refunds that count are.
LEMMA TotalKept ==
  ASSUME UNCHANGED Succeeded, \A k \in Succeeded : refund'[k].amount = refund[k].amount
  PROVE  RefundTotal(Succeeded)' = RefundTotal(Succeeded)
<1> DEFINE f == [k \in Keys |-> refund[k].amount]
           g == [k \in Keys |-> refund'[k].amount]
           S == Succeeded
<1>1. \A k \in S : f[k] = g[k]
  BY DEF Succeeded
<1>2. IsFiniteSet(S)
  BY SucceededFinite DEF Succeeded
<1> HIDE DEF f, g, S
<1>3. SumFunctionOnSet(f, S) = SumFunctionOnSet(g, S)
  BY <1>1, <1>2, SumSame
<1> QED
  BY <1>3 DEF RefundTotal, f, g, S

\* One more refund succeeds.
LEMMA TotalRises ==
  ASSUME RefundsTypeOK, NEW k \in Keys \ Succeeded,
         Succeeded' = Succeeded \cup {k}, \A l \in Keys : refund'[l].amount = refund[l].amount
  PROVE  /\ RefundTotal(Succeeded)' = RefundTotal(Succeeded \cup {k})
         /\ RefundTotal(Succeeded)' = refund[k].amount + RefundTotal(Succeeded)
<1>1. [l \in Keys |-> refund'[l].amount] = [l \in Keys |-> refund[l].amount]
  OBVIOUS
<1>2. RefundTotal(Succeeded)' = RefundTotal(Succeeded \cup {k})
  BY <1>1 DEF RefundTotal
<1>3. Succeeded \in SUBSET Keys
  BY DEF Succeeded
<1> QED
  BY <1>2, <1>3, TotalAdd

----------------------------------------------------------------------------
(* The refunds step by step                                                 *)

LEMMA RefundTypes ==
  ASSUME RefundsTypeOK, NEW k \in Keys
  PROVE  /\ refund[k] \in RefundRow /\ refund[k].status \in RefundStatus \cup {"ABSENT"}
         /\ refund[k].amount \in Nat /\ refund[k].amount <= Amount
BY RefundAssumption DEF RefundsTypeOK, RefundRow

\* A refund whose status is written.
LEMMA StatusWritten ==
  ASSUME RefundsTypeOK, NEW k \in Keys, NEW st \in RefundStatus,
         refund' = [refund EXCEPT ![k].status = st]
  PROVE  /\ refund' \in [Keys -> RefundRow]
         /\ refund'[k].status = st
         /\ \A l \in Keys : refund'[l].amount = refund[l].amount
         /\ \A l \in Keys \ {k} : refund'[l] = refund[l]
<1> DEFINE r == [refund[k] EXCEPT !.status = st]
<1>1. r \in RefundRow /\ r.status = st /\ r.amount = refund[k].amount
  BY RefundTypes DEF RefundRow
<1>2. refund' = [refund EXCEPT ![k] = r] /\ refund \in [Keys -> RefundRow]
  BY DEF RefundsTypeOK
<1> HIDE DEF r
<1> QED
  BY <1>1, <1>2

LEMMA RefundsInitInv == RefundsInit => RefundsInv
<1> SUFFICES ASSUME RefundsInit PROVE RefundsInv
  OBVIOUS
<1> USE RefundAssumption DEF RefundsInit
<1>1. \A k \in Keys : refund[k].status \in {"ABSENT", "PENDING"} /\ refund[k].amount \in {0, Amount}
  BY DEF NoRefund
<1>2. RefundsTypeOK
  <2>1. NoRefund \in RefundRow /\ [status |-> "PENDING", amount |-> Amount] \in RefundRow
    BY DEF NoRefund, RefundRow, RefundStatus
  <2>2. refund \in [Keys -> RefundRow]
    BY <2>1
  <2> QED
    BY <2>2 DEF RefundsTypeOK, OrderPaymentStatus
<1>3. Succeeded = {}
  BY <1>1 DEF Succeeded
<1>4. RefundTotal(Succeeded) = 0
  <2>1. IsFiniteSet({})
    BY FS_EmptySet
  <2> QED
    BY <1>3, <2>1, SumZero DEF RefundTotal
<1>5. \A k \in Keys : refund[k].status # "ABSENT" => k = Automatic /\ refund[k].amount = Amount
  BY DEF NoRefund
<1>6. \A k \in Keys : Judgeable(k)
  BY <1>1, <1>3 DEF Judgeable
<1>7. Fits
  BY <1>4, <1>5 DEF Fits, Inflight, InFlight
<1>8. OrderTellsRefunds
  BY <1>4 DEF OrderTellsRefunds
<1> QED
  BY <1>2, <1>5, <1>6, <1>7, <1>8 DEF RefundsInv

LEMMA InitiateInv ==
  ASSUME RefundsInv, NEW k \in Keys, NEW amount \in 1 .. Amount, Initiate(k, amount)
  PROVE  RefundsInv'
<1> DEFINE r == [status |-> "PENDING", amount |-> amount]
<1> USE RefundAssumption
<1>0. RefundsTypeOK /\ refund[k].status = "ABSENT"
  BY DEF RefundsInv, Initiate
<1>1. r \in RefundRow /\ r.status = "PENDING" /\ r.amount = amount
  BY DEF RefundRow, RefundStatus
<1>2. refund' = [refund EXCEPT ![k] = r]
  BY DEF Initiate
<1> HIDE DEF r
<1>3. /\ refund' \in [Keys -> RefundRow] /\ refund'[k] = r
      /\ \A l \in Keys \ {k} : refund'[l] = refund[l]
  BY <1>0, <1>1, <1>2 DEF RefundsTypeOK
<1>4. /\ call' \in [Keys -> {"none", "ask", "PROCESSING", "FAILED", "UNKNOWN"}]
      /\ call'[k] \in {call[k], "ask"} /\ \A l \in Keys \ {k} : call'[l] = call[l]
  BY <1>0 DEF Initiate, RefundsTypeOK
<1>5. UNCHANGED <<orderPay, returned, misjudged, overwritten>>
  BY DEF Initiate
<1>6. RefundsTypeOK'
  BY <1>0, <1>3, <1>4, <1>5 DEF RefundsTypeOK
<1>7. call[k] = "none"
  BY <1>0 DEF RefundsInv
<1>8. Succeeded' = Succeeded /\ k \notin Succeeded /\ \A l \in Succeeded : l # k
  BY <1>0, <1>1, <1>3 DEF Succeeded
<1>9. RefundTotal(Succeeded)' = RefundTotal(Succeeded)
  BY <1>3, <1>8, TotalKept DEF Succeeded
<1>10. amount + RefundTotal(Succeeded) <= Amount /\ RefundTotal(Succeeded) \in Nat
  <2>1. RefundTotal(Succeeded) \in Nat
    BY <1>0, TotalType DEF Succeeded
  <2> QED
    BY <2>1 DEF Initiate
<1>11. ~misjudged' => (\A l \in Keys : Judgeable(l)') /\ Fits'
  <2> SUFFICES ASSUME ~misjudged' PROVE (\A l \in Keys : Judgeable(l)') /\ Fits'
    OBVIOUS
  <2>1. (\A l \in Keys : Judgeable(l)) /\ Fits
    BY <1>5 DEF RefundsInv
  <2>2. k \notin returned
    BY <1>0, <1>8, <2>1 DEF Judgeable, Inflight, InFlight
  <2>3. \A l \in Keys : Judgeable(l)'
    BY <1>1, <1>3, <1>4, <1>5, <1>7, <1>8, <2>1, <2>2 DEF Judgeable, Inflight, InFlight
  <2>4. \A l \in Keys \ {k} : ~Inflight(l)'
    BY <1>3 DEF Initiate, Inflight
  <2>5. Fits'
    BY <1>1, <1>3, <1>9, <1>10, <2>4 DEF Fits
  <2> QED
    BY <2>3, <2>5
<1>12. OrderTellsRefunds'
  BY <1>5, <1>9 DEF RefundsInv, OrderTellsRefunds
<1>13. \A l \in Keys : /\ refund'[l].status # "ABSENT" => refund'[l].amount >= 1
                       /\ call'[l] # "none" => refund'[l].status # "ABSENT"
  BY <1>1, <1>3, <1>4 DEF RefundsInv
<1> QED
  BY <1>6, <1>11, <1>12, <1>13 DEF RefundsInv

\* Steps that leave the rows alone.
LEMMA RowsLeft ==
  ASSUME RefundsInv, UNCHANGED <<refund, orderPay, misjudged, overwritten>>,
         call' \in [Keys -> {"none", "ask", "PROCESSING", "FAILED", "UNKNOWN"}],
         returned' \subseteq Keys, \A k \in Keys : call[k] = "none" => call'[k] = "none",
         ~misjudged => \A k \in Keys : Judgeable(k)'
  PROVE  RefundsInv'
<1>1. RefundsTypeOK'
  BY DEF RefundsInv, RefundsTypeOK
<1>2. RefundTotal(Succeeded)' = RefundTotal(Succeeded) /\ UNCHANGED Succeeded
  BY DEF RefundTotal, Succeeded
<1>3. OrderTellsRefunds' /\ (Fits => Fits')
  BY <1>2 DEF RefundsInv, OrderTellsRefunds, Fits, Inflight
<1> QED
  BY <1>1, <1>3 DEF RefundsInv

LEMMA GatewayInv ==
  ASSUME RefundsInv, NEW k \in Keys,
         GatewayAnswers(k) \/ GatewayTimesOut(k) \/ RefundCrash(k) \/ PayByHand(k)
  PROVE  RefundsInv'
<1> USE DEF GatewayAnswers, GatewayTimesOut, RefundCrash, PayByHand, AfterTimeout
<1>1. UNCHANGED <<refund, orderPay, misjudged, overwritten>>
  OBVIOUS
<1>2. RefundsTypeOK
  BY DEF RefundsInv
<1>3. call' \in [Keys -> {"none", "ask", "PROCESSING", "FAILED", "UNKNOWN"}] /\ returned' \subseteq Keys
  BY <1>2 DEF RefundsTypeOK
<1>4. /\ \A l \in Keys \ {k} : call'[l] = call[l] /\ (l \in returned' <=> l \in returned)
      /\ call[k] = "none" => call'[k] = "none"
  BY <1>2 DEF RefundsTypeOK
<1>5. ASSUME ~misjudged PROVE \A l \in Keys : Judgeable(l)'
  <2>1. \A l \in Keys : Judgeable(l)
    BY <1>5 DEF RefundsInv
  <2>2. \A l \in Keys \ {k} : Judgeable(l)'
    BY <1>1, <1>4, <2>1 DEF Judgeable, Inflight, Succeeded
  <2>3. Judgeable(k)'
    BY <1>1, <1>2, <2>1 DEF Judgeable, Inflight, InFlight, Succeeded, RefundsTypeOK
  <2> QED
    BY <2>2, <2>3
<1> QED
  BY <1>1, <1>3, <1>4, <1>5, RowsLeft

\* Steps that give a refund a status in which it has not succeeded: nothing is in
\* flight that was not, and the total stays.
LEMMA StatusNotSucceeded ==
  ASSUME RefundsInv, NEW k \in Keys, NEW st \in RefundStatus \ {"SUCCEEDED"},
         refund' = [refund EXCEPT ![k].status = st], refund[k].status # "ABSENT",
         UNCHANGED <<orderPay, returned>>,
         call' \in [Keys -> {"none", "ask", "PROCESSING", "FAILED", "UNKNOWN"}],
         call'[k] # "none" => call[k] # "none", \A l \in Keys \ {k} : call'[l] = call[l],
         misjudged' \in BOOLEAN, overwritten' \in BOOLEAN,
         misjudged => misjudged', overwritten => overwritten',
         k \in Succeeded => misjudged' /\ overwritten',
         ~misjudged' => Judgeable(k)' /\ (st \in InFlight => Inflight(k))
  PROVE  RefundsInv'
<1>0. RefundsTypeOK /\ st \in RefundStatus
  BY DEF RefundsInv
<1>1. /\ refund' \in [Keys -> RefundRow] /\ refund'[k].status = st
      /\ \A l \in Keys : refund'[l].amount = refund[l].amount
      /\ \A l \in Keys \ {k} : refund'[l] = refund[l]
  BY <1>0, StatusWritten
<1>2. RefundsTypeOK'
  BY <1>0, <1>1 DEF RefundsTypeOK
<1>3. k \notin Succeeded => /\ UNCHANGED Succeeded
                            /\ RefundTotal(Succeeded)' = RefundTotal(Succeeded)
  <2> SUFFICES ASSUME k \notin Succeeded
               PROVE  UNCHANGED Succeeded /\ RefundTotal(Succeeded)' = RefundTotal(Succeeded)
    OBVIOUS
  <2>1. UNCHANGED Succeeded
    BY <1>1 DEF Succeeded
  <2> QED
    BY <1>1, <2>1, TotalKept DEF Succeeded
<1>4. ASSUME ~misjudged' PROVE (\A l \in Keys : Judgeable(l)') /\ Fits'
  <2>1. (\A l \in Keys : Judgeable(l)) /\ Fits /\ k \notin Succeeded
    BY <1>4 DEF RefundsInv
  <2>2. \A l \in Keys \ {k} : Judgeable(l)'
    BY <1>1, <1>3, <2>1 DEF Judgeable, Inflight
  <2>3. \A l \in Keys : Inflight(l)' => Inflight(l)
    BY <1>1, <1>4 DEF Inflight
  <2>4. Fits'
    BY <1>1, <1>3, <2>1, <2>3 DEF Fits
  <2> QED
    BY <1>4, <2>2, <2>4
<1>5. OrderTellsRefunds'
  BY <1>3 DEF RefundsInv, OrderTellsRefunds
<1>6. \A l \in Keys : /\ refund'[l].status # "ABSENT" => refund'[l].amount >= 1
                      /\ call'[l] # "none" => refund'[l].status # "ABSENT"
  BY <1>1 DEF RefundsInv, RefundStatus
<1> QED
  BY <1>2, <1>4, <1>5, <1>6 DEF RefundsInv

LEMMA SaveAnswerInv == ASSUME RefundsInv, NEW k \in Keys, SaveAnswer(k) PROVE RefundsInv'
<1> DEFINE st == call[k]
<1>0. RefundsTypeOK /\ st \in {"PROCESSING", "FAILED", "UNKNOWN"} /\ refund[k].status # "ABSENT"
  BY DEF RefundsInv, SaveAnswer
<1>1. st \in RefundStatus \ {"SUCCEEDED"}
  BY <1>0 DEF RefundStatus
<1>2. refund' = [refund EXCEPT ![k].status = st] /\ UNCHANGED <<orderPay, returned, misjudged>>
  BY DEF SaveAnswer
<1>3. /\ call' \in [Keys -> {"none", "ask", "PROCESSING", "FAILED", "UNKNOWN"}]
      /\ call'[k] = "none" /\ \A l \in Keys \ {k} : call'[l] = call[l]
  BY <1>0 DEF SaveAnswer, RefundsTypeOK
<1>4. overwritten' \in BOOLEAN /\ (overwritten => overwritten')
      /\ (refund[k].status # "PENDING" => overwritten')
  BY DEF SaveAnswer
<1>5. misjudged \in BOOLEAN
  BY <1>0 DEF RefundsTypeOK
<1>6. ~misjudged => Judgeable(k) /\ refund[k].status = "PENDING"
  BY <1>0 DEF RefundsInv, Judgeable
<1>7. refund'[k].status = st /\ (st \in InFlight <=> st # "FAILED")
  BY <1>0, <1>1, <1>2, StatusWritten DEF InFlight
<1>8. ~misjudged' => Judgeable(k)' /\ Inflight(k)
  BY <1>0, <1>2, <1>3, <1>6, <1>7 DEF Judgeable, Inflight, InFlight, Succeeded
<1>9. k \in Succeeded => misjudged' /\ overwritten'
  BY <1>2, <1>4, <1>6 DEF Succeeded
<1> HIDE DEF st
<1> QED
  BY <1>0, <1>1, <1>2, <1>3, <1>4, <1>5, <1>8, <1>9, StatusNotSucceeded

LEMMA MarkFailedInv == ASSUME RefundsInv, NEW k \in Keys, MarkFailed(k) PROVE RefundsInv'
<1>0. RefundsTypeOK /\ refund[k].status \notin {"ABSENT", "SUCCEEDED"}
  BY DEF RefundsInv, MarkFailed
<1>1. "FAILED" \in RefundStatus \ {"SUCCEEDED"}
  BY DEF RefundStatus
<1>2. refund' = [refund EXCEPT ![k].status = "FAILED"] /\ UNCHANGED <<orderPay, call, returned, overwritten>>
  BY DEF MarkFailed
<1>3. misjudged' \in BOOLEAN /\ (misjudged => misjudged')
      /\ (~misjudged' => call[k] = "none" /\ k \notin returned)
  BY DEF MarkFailed, Judged
<1>4. refund'[k].status = "FAILED" /\ "FAILED" \notin InFlight
  BY <1>0, <1>1, <1>2, StatusWritten DEF InFlight
<1>5. ~misjudged' => Judgeable(k)'
  BY <1>2, <1>3, <1>4 DEF Judgeable, Succeeded
<1>6. k \notin Succeeded /\ overwritten \in BOOLEAN
  BY <1>0 DEF Succeeded, RefundsTypeOK
<1>7. call' \in [Keys -> {"none", "ask", "PROCESSING", "FAILED", "UNKNOWN"}]
  BY <1>0, <1>2 DEF RefundsTypeOK
<1> QED
  BY <1>0, <1>1, <1>2, <1>3, <1>4, <1>5, <1>6, <1>7, StatusNotSucceeded

\* The refund that succeeds was the one in flight, and fitted.
LEMMA MarkSucceededInv == ASSUME RefundsInv, NEW k \in Keys, MarkSucceeded(k) PROVE RefundsInv'
<1> USE RefundAssumption
<1>0. RefundsTypeOK /\ refund[k].status \notin {"ABSENT", "SUCCEEDED"} /\ k \in Keys \ Succeeded
  BY DEF RefundsInv, MarkSucceeded, Succeeded
<1>1. /\ refund' \in [Keys -> RefundRow] /\ refund'[k].status = "SUCCEEDED"
      /\ \A l \in Keys : refund'[l].amount = refund[l].amount
      /\ \A l \in Keys \ {k} : refund'[l] = refund[l]
  BY <1>0, StatusWritten DEF MarkSucceeded, RefundStatus
<1>2. UNCHANGED <<call, returned, overwritten>>
  BY DEF MarkSucceeded
<1>3. misjudged' \in BOOLEAN /\ (misjudged => misjudged')
      /\ (~misjudged' => call[k] = "none" /\ k \in returned)
  BY DEF MarkSucceeded, Judged
<1>4. Succeeded' = Succeeded \cup {k}
  BY <1>1 DEF Succeeded
<1>5. /\ RefundTotal(Succeeded)' = RefundTotal(Succeeded \cup {k})
      /\ RefundTotal(Succeeded)' = refund[k].amount + RefundTotal(Succeeded)
  BY <1>0, <1>1, <1>4, TotalRises
<1>6. RefundTotal(Succeeded) \in Nat /\ refund[k].amount \in Nat /\ refund[k].amount >= 1
  BY <1>0, TotalType, RefundTypes DEF RefundsInv, Succeeded
<1>7. orderPay' = IF RefundTotal(Succeeded)' >= Amount THEN "REFUNDED" ELSE "PARTIALLY_REFUNDED"
  BY <1>5 DEF MarkSucceeded, StatusAfter
<1>8. RefundsTypeOK'
  BY <1>0, <1>1, <1>2, <1>3, <1>7 DEF RefundsTypeOK, OrderPaymentStatus
<1>9. OrderTellsRefunds'
  <2> DEFINE total == RefundTotal(Succeeded)'
  <2>1. total \in Nat /\ total >= 1
    BY <1>5, <1>6
  <2> HIDE DEF total
  <2>2. (total \in 1 .. Amount - 1) <=> ~(total >= Amount)
    BY <2>1
  <2> QED
    BY <1>7, <2>2 DEF OrderTellsRefunds, total
<1>10. ASSUME ~misjudged' PROVE (\A l \in Keys : Judgeable(l)') /\ Fits'
  <2>1. (\A l \in Keys : Judgeable(l)) /\ Fits /\ call[k] = "none" /\ k \in returned
    BY <1>3, <1>10 DEF RefundsInv
  <2>2. Inflight(k)
    BY <1>0, <2>1 DEF Judgeable
  <2>3. \A l \in Keys : ~Inflight(l)'
    BY <1>1, <2>1, <2>2 DEF Fits, Inflight, InFlight
  <2>4. Fits'
    BY <1>5, <2>1, <2>2, <2>3 DEF Fits
  <2>5. Judgeable(k)'
    BY <1>2, <1>4, <2>1 DEF Judgeable
  <2>6. ASSUME NEW l \in Keys \ {k} PROVE Judgeable(l)'
    <3>1. (l \in Succeeded' <=> l \in Succeeded) /\ (Inflight(l)' <=> Inflight(l))
      BY <1>1, <1>4 DEF Inflight
    <3> QED
      BY <1>1, <1>2, <2>1, <3>1 DEF Judgeable
  <2> QED
    BY <2>4, <2>5, <2>6
<1>11. \A l \in Keys : /\ refund'[l].status # "ABSENT" => refund'[l].amount >= 1
                       /\ call'[l] # "none" => refund'[l].status # "ABSENT"
  BY <1>0, <1>1, <1>2 DEF RefundsInv
<1> QED
  BY <1>8, <1>9, <1>10, <1>11 DEF RefundsInv

LEMMA RefundsStutter == ASSUME RefundsInv, UNCHANGED refundVars PROVE RefundsInv'
<1>1. UNCHANGED <<Succeeded, RefundTotal(Succeeded)>>
  BY DEF refundVars, Succeeded, RefundTotal
<1>2. \A k \in Keys : Judgeable(k) => Judgeable(k)'
  BY <1>1 DEF refundVars, Judgeable, Inflight
<1> QED
  BY <1>1, <1>2 DEF refundVars, RefundsInv, RefundsTypeOK, Fits, Inflight, OrderTellsRefunds

LEMMA RefundsStep == RefundsInv /\ [RefundsNext]_refundVars => RefundsInv'
BY InitiateInv, GatewayInv, SaveAnswerInv, MarkSucceededInv, MarkFailedInv, RefundsStutter
   DEF RefundsNext

LEMMA RefundsInvariance == RefundsSpec => []RefundsInv
BY RefundsInitInv, RefundsStep, PTL DEF RefundsSpec

\* While no mark is wrong, what was returned are the refunds that succeeded and
\* perhaps the one in flight.
LEMMA ReturnsFit == RefundsInv => ReturnsWithinPayment
<1> SUFFICES ASSUME RefundsInv, ~misjudged PROVE RefundTotal(returned) <= Amount
  BY DEF ReturnsWithinPayment
<1>1. RefundsTypeOK /\ (\A k \in Keys : Judgeable(k)) /\ Fits /\ Succeeded \in SUBSET Keys
  BY DEF RefundsInv, Succeeded
<1>2. CASE returned = Succeeded
  BY <1>1, <1>2 DEF Fits
<1>3. CASE returned # Succeeded
  <2>1. Succeeded \subseteq returned /\ returned \subseteq Keys
    BY <1>1 DEF Judgeable, RefundsTypeOK, Succeeded
  <2>2. PICK k \in returned \ Succeeded : TRUE
    BY <1>3, <2>1
  <2>3. \A l \in returned \ Succeeded : Inflight(l) /\ l = k
    BY <1>1, <2>1, <2>2 DEF Judgeable, Fits
  <2>4. returned = Succeeded \cup {k} /\ k \in Keys \ Succeeded /\ Inflight(k)
    BY <2>1, <2>2, <2>3
  <2>5. RefundTotal(Succeeded \cup {k}) = refund[k].amount + RefundTotal(Succeeded)
    BY <1>1, <2>4, TotalAdd
  <2> QED
    BY <1>1, <2>4, <2>5 DEF Fits
<1> QED
  BY <1>2, <1>3

\* No more money goes back than came in, through timeouts, lost answers and
\* crashes, while every mark is right.
THEOREM ReturnsAreBounded == RefundsSpec => []ReturnsWithinPayment
BY RefundsInvariance, ReturnsFit, PTL

\* The payment status of the order tells what the refunds add up to.
THEOREM OrderTellsTheRefunds == RefundsSpec => []OrderTellsRefunds
<1>1. RefundsInv => OrderTellsRefunds
  BY DEF RefundsInv
<1> QED
  BY <1>1, RefundsInvariance, PTL

----------------------------------------------------------------------------
(* Lease tokens                                                             *)

\* The image of a finite set is no larger.
LEMMA ImageSize ==
  ASSUME NEW S, IsFiniteSet(S), NEW f \in [S -> Nat]
  PROVE  IsFiniteSet({f[x] : x \in S}) /\ Cardinality({f[x] : x \in S}) <= Cardinality(S)
<1> DEFINE T == {f[x] : x \in S}
<1>1. f \in Surjection(S, T)
  BY DEF Surjection
<1> HIDE DEF T
<1>2. IsFiniteSet(T) /\ Cardinality(T) <= Cardinality(S)
  BY <1>1, FS_Surjection
<1> QED
  BY <1>2 DEF T

\* There are more tokens than anybody remembers.
LEMMA FreshTokenExists ==
  ASSUME InboxTypeOK
  PROVE  /\ FreshToken \in Tokens
         /\ \A e \in Items : row[e].lease # FreshToken
         /\ \A w \in Workers : worker[w].token # FreshToken
         /\ \A w \in Workers, e \in Items : worker[w].seen[e].lease # FreshToken
<1> DEFINE I == Cardinality(Items)
           W == Cardinality(Workers)
           a == [e \in Items |-> row[e].lease]
           b == [w \in Workers |-> worker[w].token]
           c == [p \in Workers \X Items |-> worker[p[1]].seen[p[2]].lease]
           A == {a[e] : e \in Items}
           B == {b[w] : w \in Workers}
           C == {c[p] : p \in Workers \X Items}
<1>1. I \in Nat /\ W \in Nat /\ IsFiniteSet(Items) /\ IsFiniteSet(Workers)
  BY InboxAssumption, FS_CardinalityType
<1>2. IsFiniteSet(Workers \X Items) /\ Cardinality(Workers \X Items) = W * I
  BY <1>1, FS_Product
<1>3. Lease \subseteq Nat /\ W * I \in Nat /\ W * (I + 1) = W * I + W
  <2>1. W * I \in Nat /\ W * (I + 1) = W * I + W
    BY <1>1
  <2> QED
    BY <1>1, <2>1 DEF Lease, Tokens, NoLease
<1>4. a \in [Items -> Nat] /\ b \in [Workers -> Nat] /\ c \in [Workers \X Items -> Nat]
  <2>1. \A e \in Items : row[e].lease \in Lease
    BY DEF InboxTypeOK, InboxRow
  <2>2. \A w \in Workers : worker[w].token \in Lease /\ \A e \in Items : worker[w].seen[e].lease \in Lease
    BY DEF InboxTypeOK, InboxWorker
  <2>3. \A p \in Workers \X Items : p[1] \in Workers /\ p[2] \in Items
    OBVIOUS
  <2> QED
    BY <1>3, <2>1, <2>2, <2>3
<1>13. /\ \A e \in Items : row[e].lease = a[e]
       /\ \A w \in Workers : worker[w].token = b[w]
       /\ \A w \in Workers, e \in Items : worker[w].seen[e].lease = c[<<w, e>>]
  OBVIOUS
<1> HIDE DEF a, b, c
<1>5. IsFiniteSet(A) /\ Cardinality(A) <= I
  BY <1>1, <1>4, ImageSize
<1>6. IsFiniteSet(B) /\ Cardinality(B) <= W
  BY <1>1, <1>4, ImageSize
<1>7. IsFiniteSet(C) /\ Cardinality(C) <= W * I
  BY <1>2, <1>4, ImageSize
<1> HIDE DEF A, B, C
<1>8. IsFiniteSet(A \cup B) /\ Cardinality(A \cup B) <= I + W
  <2>1. IsFiniteSet(A \cap B)
    BY <1>5, FS_Subset
  <2> QED
    <3>1. /\ IsFiniteSet(A \cup B)
          /\ Cardinality(A \cup B) = Cardinality(A) + Cardinality(B) - Cardinality(A \cap B)
      BY <1>5, <1>6, FS_Union
    <3>2. Cardinality(A) \in Nat /\ Cardinality(B) \in Nat /\ Cardinality(A \cap B) \in Nat
      BY <1>5, <1>6, <2>1, FS_CardinalityType
    <3> HIDE DEF I, W
    <3> QED
      BY <1>1, <1>5, <1>6, <3>1, <3>2
<1>9. IsFiniteSet(A \cup B \cup C) /\ Cardinality(A \cup B \cup C) <= I + W + W * I
  <2>1. IsFiniteSet((A \cup B) \cap C)
    BY <1>8, FS_Subset
  <2>2. /\ Cardinality((A \cup B) \cup C) = Cardinality(A \cup B) + Cardinality(C)
                                             - Cardinality((A \cup B) \cap C)
        /\ IsFiniteSet((A \cup B) \cup C)
    BY <1>7, <1>8, FS_Union
  <2>3. /\ Cardinality(A \cup B) \in Nat /\ Cardinality(C) \in Nat
        /\ Cardinality((A \cup B) \cap C) \in Nat
    BY <1>7, <1>8, <2>1, FS_CardinalityType
  <2> QED
    BY <1>1, <1>3, <1>7, <1>8, <2>2, <2>3
<1>10. Cardinality(Tokens) = I + (W * I + W) + 1
  <2> DEFINE n == I + (W * I + W) + 1
  <2>1. Tokens = 1 .. n /\ n \in Nat /\ n >= 1
    <3>1. Tokens = 1 .. (I + W * (I + 1) + 1)
      BY DEF Tokens
    <3> HIDE DEF I, W
    <3> QED
      BY <1>1, <1>3, <3>1
  <2> HIDE DEF n
  <2>2. Cardinality(1 .. n) = IF 1 > n THEN 0 ELSE n - 1 + 1
    BY <2>1, FS_Interval
  <2> QED
    BY <2>1, <2>2 DEF n
<1>11. \E token \in Tokens : token \notin A \cup B \cup C
  <2> SUFFICES ASSUME Tokens \subseteq A \cup B \cup C PROVE FALSE
    OBVIOUS
  <2>1. Cardinality(Tokens) <= Cardinality(A \cup B \cup C)
    BY <1>9, FS_Subset
  <2>2. Cardinality(A \cup B \cup C) \in Nat
    BY <1>9, FS_CardinalityType
  <2> HIDE DEF I, W
  <2> QED
    BY <1>1, <1>3, <1>9, <1>10, <2>1, <2>2
<1>12. \E token \in Tokens :
           /\ \A e \in Items : row[e].lease # token
           /\ \A w \in Workers : worker[w].token # token
           /\ \A w \in Workers, e \in Items : worker[w].seen[e].lease # token
  <2>1. PICK token \in Tokens : token \notin A \cup B \cup C
    BY <1>11
  <2>2. \A e \in Items : a[e] # token
    BY <2>1 DEF A
  <2>3. \A w \in Workers : b[w] # token
    BY <2>1 DEF B
  <2>4. \A w \in Workers, e \in Items : c[<<w, e>>] # token
    <3> SUFFICES ASSUME NEW w \in Workers, NEW e \in Items PROVE c[<<w, e>>] # token
      OBVIOUS
    <3>1. <<w, e>> \in Workers \X Items
      OBVIOUS
    <3>2. c[<<w, e>>] \in C
      BY <3>1 DEF C
    <3> QED
      BY <2>1, <3>2
  <2>5. /\ \A e \in Items : row[e].lease # token
        /\ \A w \in Workers : worker[w].token # token
    BY <1>13, <2>2, <2>3
  <2>6. \A w \in Workers, e \in Items : worker[w].seen[e].lease # token
    BY <1>13, <2>4
  <2> QED
    BY <2>1, <2>5, <2>6
<1> QED
  BY <1>12 DEF FreshToken

----------------------------------------------------------------------------
(* The inbox step by step                                                   *)

RowStatus == {"ABSENT", "PENDING", "PROCESSING", "PROCESSED", "DEAD_LETTER"}
SeenRecord == [retry : 0 .. MaxRetries, lease : Lease]

LEMMA InboxTypes ==
  ASSUME InboxTypeOK
  PROVE  /\ \A e \in Items : row[e] \in InboxRow
         /\ \A w \in Workers : worker[w] \in InboxWorker /\ worker[w].seen \in [Items -> SeenRecord]
         /\ NoRow \in InboxRow /\ NoList \in InboxWorker
BY InboxAssumption
   DEF InboxTypeOK, InboxRow, InboxWorker, SeenRecord, NoRow, NoList, Lease, NoLease

\* A worker whose new state is known.
LEMMA WorkerTurn ==
  ASSUME InboxTypeOK, NEW w \in Workers, NEW x \in InboxWorker, worker' = [worker EXCEPT ![w] = x]
  PROVE  /\ worker' \in [Workers -> InboxWorker] /\ worker'[w] = x
         /\ \A v \in Workers \ {w} : worker'[v] = worker[v]
BY DEF InboxTypeOK

LEMMA RowTurn ==
  ASSUME InboxTypeOK, NEW e \in Items, NEW x \in InboxRow, row' = [row EXCEPT ![e] = x]
  PROVE  /\ row' \in [Items -> InboxRow] /\ row'[e] = x
         /\ \A d \in Items \ {e} : row'[d] = row[d]
BY DEF InboxTypeOK

\* What a worker relies on stays true when it stays as it is, when confirmed
\* notifications stay so, and when no row gets back the lease it had.
LEMMA WorkerKept ==
  ASSUME InboxInv, NEW w \in Workers, UNCHANGED worker[w], handled \subseteq handled',
         \A e \in Items : row'[e].lease = worker[w].seen[e].lease /\ worker[w].seen[e].lease # NoLease
                              => row'[e].lease = row[e].lease /\ (row[e].ripe => row'[e].ripe)
  PROVE  WorkerInv(w)'
<1>1. worker[w].todo \subseteq Items /\ WorkerInv(w)
  BY InboxTypes DEF InboxInv, InboxWorker
<1> QED
  BY <1>1 DEF WorkerInv

\* A row gets another status, or its time comes: leases stay.
LEMMA LeasesStay ==
  ASSUME InboxInv, \A e \in Items : row'[e].lease = row[e].lease /\ (row[e].ripe => row'[e].ripe),
         handled \subseteq handled', NEW w \in Workers, UNCHANGED worker[w]
  PROVE  WorkerInv(w)'
BY WorkerKept

LEMMA InboxInitInv == InboxInit => InboxInv
<1> SUFFICES ASSUME InboxInit PROVE InboxInv
  OBVIOUS
<1>1. NoRow \in InboxRow /\ NoList \in InboxWorker
  BY InboxAssumption DEF InboxRow, InboxWorker, NoRow, NoList, Lease, NoLease
<1>2. InboxTypeOK
  BY <1>1 DEF InboxInit, InboxTypeOK
<1>3. \A w \in Workers : WorkerInv(w)
  BY DEF InboxInit, WorkerInv, NoList
<1> QED
  BY <1>2, <1>3 DEF InboxInv, InboxInit, ProcessedWasConfirmed, NoRow

LEMMA IngestInv == ASSUME InboxInv, NEW e \in Items, Ingest(e) PROVE InboxInv'
<1> DEFINE x == [NoRow EXCEPT !.status = "PENDING", !.ripe = TRUE]
<1>0. InboxTypeOK
  BY DEF InboxInv
<1>1. x \in InboxRow /\ x.status = "PENDING" /\ x.lease = NoLease
  BY <1>0, InboxTypes DEF InboxRow, NoRow
<1>2. row' = [row EXCEPT ![e] = x] /\ UNCHANGED <<worker, handled>>
  BY DEF Ingest
<1> HIDE DEF x
<1>3. row' \in [Items -> InboxRow] /\ row'[e] = x /\ \A d \in Items \ {e} : row'[d] = row[d]
  BY <1>0, <1>1, <1>2, RowTurn
<1>4. InboxTypeOK'
  BY <1>0, <1>2, <1>3 DEF InboxTypeOK
<1>5. \A w \in Workers : WorkerInv(w)'
  BY <1>1, <1>2, <1>3, WorkerKept
<1> QED
  BY <1>1, <1>2, <1>3, <1>4, <1>5 DEF InboxInv, ProcessedWasConfirmed

LEMMA TimeInv == ASSUME InboxInv, NEW e \in Items, TimePasses(e) PROVE InboxInv'
<1> DEFINE x == [row[e] EXCEPT !.ripe = TRUE]
<1>0. InboxTypeOK
  BY DEF InboxInv
<1>1. x \in InboxRow /\ x.status = row[e].status /\ x.lease = row[e].lease /\ x.ripe
  BY <1>0, InboxTypes DEF InboxRow
<1>2. row' = [row EXCEPT ![e] = x] /\ UNCHANGED <<worker, handled>>
  BY DEF TimePasses
<1> HIDE DEF x
<1>3. row' \in [Items -> InboxRow] /\ row'[e] = x /\ \A d \in Items \ {e} : row'[d] = row[d]
  BY <1>0, <1>1, <1>2, RowTurn
<1>4. InboxTypeOK'
  BY <1>0, <1>2, <1>3 DEF InboxTypeOK
<1>5. \A w \in Workers : WorkerInv(w)'
  BY <1>1, <1>2, <1>3, LeasesStay
<1> QED
  BY <1>1, <1>2, <1>3, <1>4, <1>5 DEF InboxInv, ProcessedWasConfirmed

\* Steps of one worker that leave the rows alone.
LEMMA WorkerMoves ==
  ASSUME InboxInv, NEW w \in Workers, NEW x \in InboxWorker, worker' = [worker EXCEPT ![w] = x],
         UNCHANGED row, handled' \subseteq Items, handled \subseteq handled', WorkerInv(w)'
  PROVE  InboxInv'
<1>0. InboxTypeOK
  BY DEF InboxInv
<1>1. worker' \in [Workers -> InboxWorker] /\ \A v \in Workers \ {w} : worker'[v] = worker[v]
  BY <1>0, WorkerTurn
<1>2. \A v \in Workers \ {w} : WorkerInv(v)'
  BY <1>1, LeasesStay
<1>3. \A v \in Workers : WorkerInv(v)'
  BY <1>2
<1> QED
  BY <1>0, <1>1, <1>3 DEF InboxInv, InboxTypeOK, ProcessedWasConfirmed

LEMMA ListInv == ASSUME InboxInv, NEW w \in Workers, List(w) PROVE InboxInv'
<1> DEFINE candidates == {e \in Items : Candidate(e)}
           seen == [e \in Items |-> IF e \in candidates
                                    THEN [retry |-> row[e].retry, lease |-> row[e].lease]
                                    ELSE NoList.seen[e]]
           x == [NoList EXCEPT !.pc = "list", !.todo = candidates, !.seen = seen]
<1>0. InboxTypeOK
  BY DEF InboxInv
<1>1. seen \in [Items -> SeenRecord]
  <2>1. \A e \in Items : [retry |-> row[e].retry, lease |-> row[e].lease] \in SeenRecord
    BY <1>0, InboxTypes DEF InboxRow, SeenRecord
  <2>2. \A e \in Items : NoList.seen[e] \in SeenRecord
    BY <1>0, InboxTypes DEF InboxWorker, SeenRecord
  <2> QED
    BY <2>1, <2>2
<1>2. candidates \in SUBSET Items /\ \A e \in candidates : row[e].ripe
  BY DEF Candidate
<1>3. worker' = [worker EXCEPT ![w] = x]
  BY DEF List, NoList
<1> HIDE DEF candidates, seen
<1>4. x \in InboxWorker /\ x.pc = "list" /\ x.todo = candidates
  BY <1>0, <1>1, <1>2, InboxTypes DEF InboxWorker, SeenRecord, NoList
<1> HIDE DEF x
<1>5. UNCHANGED <<row, handled>>
  BY DEF List
<1>6. WorkerInv(w)'
  BY <1>0, <1>2, <1>3, <1>4, <1>5, WorkerTurn DEF WorkerInv
<1> QED
  BY <1>0, <1>3, <1>4, <1>5, <1>6, WorkerMoves DEF InboxTypeOK

\* A claim draws a token that nobody has read: the other lists stay as they are.
LEMMA ClaimItemInv == ASSUME InboxInv, NEW w \in Workers, NEW e \in Items, ClaimItem(w, e) PROVE InboxInv'
<1> DEFINE x == [row[e] EXCEPT !.status = "PROCESSING", !.lease = FreshToken, !.ripe = FALSE]
           seen == [worker[w].seen EXCEPT ![e].lease = NoLease]
           y == [worker[w] EXCEPT !.pc = "confirm", !.todo = worker[w].todo \ {e}, !.now = e,
                                  !.token = FreshToken, !.seen = seen]
<1>0. InboxTypeOK
  BY DEF InboxInv
<1>1. FreshToken \in Lease /\ FreshToken # NoLease
  BY <1>0, FreshTokenExists DEF Lease, NoLease, Tokens
<1>2. x \in InboxRow /\ x.status = "PROCESSING" /\ x.lease = FreshToken
  BY <1>0, <1>1, InboxTypes DEF InboxRow
<1>3. row' = [row EXCEPT ![e] = x]
  BY DEF ClaimItem
<1> HIDE DEF x
<1>4. seen \in [Items -> SeenRecord]
  BY <1>0, InboxTypes DEF SeenRecord, Lease
<1>5. worker' = [worker EXCEPT ![w] = y]
  BY DEF ClaimItem
<1> HIDE DEF seen
<1>6. y \in InboxWorker /\ y.pc = "confirm" /\ y.now = e /\ y.todo = worker[w].todo \ {e}
  BY <1>0, <1>1, <1>4, InboxTypes DEF InboxWorker, SeenRecord
<1> HIDE DEF y
<1>7. /\ row' \in [Items -> InboxRow] /\ row'[e] = x /\ \A d \in Items \ {e} : row'[d] = row[d]
  BY <1>0, <1>2, <1>3, RowTurn
<1>8. /\ worker' \in [Workers -> InboxWorker] /\ worker'[w] = y
      /\ \A v \in Workers \ {w} : worker'[v] = worker[v]
  BY <1>0, <1>5, <1>6, WorkerTurn
<1>9. UNCHANGED handled
  BY DEF ClaimItem
<1>10. InboxTypeOK'
  BY <1>0, <1>7, <1>8, <1>9 DEF InboxTypeOK
<1>11. \A v \in Workers \ {w} : WorkerInv(v)'
  <2> SUFFICES ASSUME NEW v \in Workers \ {w} PROVE WorkerInv(v)'
    OBVIOUS
  <2>1. \A d \in Items : worker[v].seen[d].lease # FreshToken
    BY <1>0, FreshTokenExists
  <2> QED
    BY <1>2, <1>7, <1>8, <1>9, <2>1, WorkerKept
<1>12. WorkerInv(w)'
  <2>1. \A d \in worker[w].todo \ {e} : y.seen[d] = worker[w].seen[d]
    BY <1>0, InboxTypes DEF y, seen, InboxWorker
  <2>2. worker[w].todo \subseteq Items
    BY <1>0, InboxTypes DEF InboxWorker
  <2> QED
    BY <1>6, <1>7, <1>8, <2>1, <2>2 DEF InboxInv, WorkerInv
<1>13. \A v \in Workers : WorkerInv(v)'
  BY <1>11, <1>12
<1> QED
  BY <1>1, <1>2, <1>7, <1>9, <1>10, <1>13 DEF InboxInv, ProcessedWasConfirmed

\* A worker that goes on to another step with the list it has.
LEMMA StepTurn ==
  ASSUME InboxTypeOK, NEW w \in Workers,
         NEW pc \in {"idle", "list", "confirm", "complete", "fail"},
         worker' = [worker EXCEPT ![w].pc = pc]
  PROVE  \E x \in InboxWorker : /\ worker' = [worker EXCEPT ![w] = x]
                                /\ x.pc = pc /\ x.now = worker[w].now /\ x.todo = worker[w].todo
                                /\ x.seen = worker[w].seen
<1> DEFINE x == [worker[w] EXCEPT !.pc = pc]
<1>1. x \in InboxWorker /\ x.pc = pc /\ x.now = worker[w].now /\ x.todo = worker[w].todo
      /\ x.seen = worker[w].seen
  BY InboxTypes DEF InboxWorker
<1>2. worker' = [worker EXCEPT ![w] = x]
  OBVIOUS
<1> QED
  BY <1>1, <1>2

LEMMA ConfirmInv ==
  ASSUME InboxInv, NEW w \in Workers, ConfirmReturns(w) \/ ConfirmThrows(w) \/ CompleteThrows(w)
  PROVE  InboxInv'
<1>0. /\ InboxTypeOK /\ WorkerInv(w) /\ worker[w].pc \in {"confirm", "complete"}
      /\ UNCHANGED row
  BY DEF InboxInv, ConfirmReturns, ConfirmThrows, CompleteThrows, At
<1>1. PICK pc \in {"complete", "fail"} :
          /\ worker' = [worker EXCEPT ![w].pc = pc]
          /\ pc = "complete" => handled' = handled \cup {worker[w].now}
          /\ pc = "fail" => handled' = handled
  BY DEF ConfirmReturns, ConfirmThrows, CompleteThrows
<1>2. PICK x \in InboxWorker : /\ worker' = [worker EXCEPT ![w] = x]
                               /\ x.pc = pc /\ x.now = worker[w].now /\ x.todo = worker[w].todo
                               /\ x.seen = worker[w].seen
  <2>1. pc \in {"idle", "list", "confirm", "complete", "fail"}
    OBVIOUS
  <2> QED
    BY <1>0, <1>1, <2>1, StepTurn
<1>3. worker'[w] = x
  BY <1>0, <1>2, WorkerTurn
<1>4. worker[w].now \in Items /\ handled' \subseteq Items /\ handled \subseteq handled'
  BY <1>0, <1>1 DEF WorkerInv, InboxTypeOK
<1>5. WorkerInv(w)'
  BY <1>0, <1>1, <1>2, <1>3, <1>4 DEF WorkerInv
<1> QED
  BY <1>0, <1>2, <1>4, <1>5, WorkerMoves

LEMMA LeaveInv == ASSUME InboxInv, NEW w \in Workers, FinishList(w) \/ Restart(w) PROVE InboxInv'
<1>0. InboxTypeOK /\ NoList \in InboxWorker
  BY InboxTypes DEF InboxInv
<1>1. worker' = [worker EXCEPT ![w] = NoList] /\ UNCHANGED <<row, handled>>
  BY DEF FinishList, Restart
<1>2. WorkerInv(w)'
  BY <1>0, <1>1, WorkerTurn DEF WorkerInv, NoList
<1> QED
  BY <1>0, <1>1, <1>2, WorkerMoves DEF InboxTypeOK

\* What a worker has when it has dropped an item of its list.
LEMMA Forgets ==
  ASSUME InboxTypeOK, NEW w \in Workers, NEW e \in Items
  PROVE  /\ Forgotten(w, e) \in [Items -> SeenRecord]
         /\ \A d \in Items \ {e} : Forgotten(w, e)[d] = worker[w].seen[d]
         /\ Forgotten(w, e)[e].lease = NoLease
<1>1. NoList.seen[e] \in SeenRecord /\ NoList.seen[e].lease = NoLease
  BY InboxAssumption DEF NoList, SeenRecord, Lease, NoLease
<1> QED
  BY <1>1, InboxTypes DEF Forgotten

LEMMA ClaimLostInv == ASSUME InboxInv, NEW w \in Workers, NEW e \in Items, ClaimLost(w, e) PROVE InboxInv'
<1> DEFINE seen == Forgotten(w, e)
           x == [worker[w] EXCEPT !.todo = worker[w].todo \ {e}, !.seen = seen]
<1>0. InboxTypeOK /\ WorkerInv(w) /\ worker[w] \in InboxWorker /\ At(w, "list")
  BY InboxTypes DEF InboxInv, ClaimLost
<1>1. /\ seen \in [Items -> SeenRecord] /\ \A d \in Items \ {e} : seen[d] = worker[w].seen[d]
  BY <1>0, Forgets
<1>2. worker' = [worker EXCEPT ![w] = x] /\ UNCHANGED <<row, handled>>
  BY DEF ClaimLost
<1> HIDE DEF seen
<1>3. x \in InboxWorker /\ x.pc = "list" /\ x.todo = worker[w].todo \ {e} /\ x.seen = seen
  BY <1>0, <1>1 DEF InboxWorker, SeenRecord, At
<1> HIDE DEF x
<1>4. worker[w].todo \subseteq Items
  BY <1>0 DEF InboxWorker
<1>5. WorkerInv(w)'
  BY <1>0, <1>1, <1>2, <1>3, <1>4, WorkerTurn DEF WorkerInv
<1> QED
  BY <1>0, <1>2, <1>3, <1>5, WorkerMoves DEF InboxTypeOK

\* A worker that is done with an item goes on with its list.
LEMMA NextTurn ==
  ASSUME InboxTypeOK, NEW w \in Workers, worker[w].now \in Items, NextItem(w)
  PROVE  \E x \in InboxWorker : /\ worker' = [worker EXCEPT ![w] = x]
                                /\ x.pc = "list" /\ x.todo = worker[w].todo
                                /\ \A d \in Items : \/ x.seen[d] = worker[w].seen[d]
                                                    \/ x.seen[d].lease = NoLease
<1> DEFINE seen == Forgotten(w, worker[w].now)
           x == [worker[w] EXCEPT !.pc = "list", !.now = None, !.token = NoLease, !.seen = seen]
<1>1. /\ seen \in [Items -> SeenRecord]
      /\ \A d \in Items : seen[d] = worker[w].seen[d] \/ seen[d].lease = NoLease
  BY Forgets
<1>2. worker' = [worker EXCEPT ![w] = x]
  BY DEF NextItem
<1> HIDE DEF seen
<1>3. x \in InboxWorker /\ x.pc = "list" /\ x.todo = worker[w].todo /\ x.seen = seen
  BY <1>1, InboxTypes DEF InboxWorker, SeenRecord, Lease
<1> HIDE DEF x
<1> QED
  BY <1>1, <1>2, <1>3

\* A step that writes the row of an item and goes on with the list.
LEMMA RowAndNext ==
  ASSUME InboxInv, NEW w \in Workers, NEW e \in Items, worker[w].now = e, NextItem(w),
         NEW r \in InboxRow, row' = row \/ row' = [row EXCEPT ![e] = r], UNCHANGED handled,
         r.lease = NoLease \/ (r.lease = row[e].lease /\ (row[e].ripe => r.ripe)),
         r.status = "PROCESSING" => r.lease # NoLease,
         r.status = "PROCESSED" => e \in handled
  PROVE  InboxInv'
<1>0. InboxTypeOK /\ WorkerInv(w) /\ worker[w].todo \subseteq Items
  BY InboxTypes DEF InboxInv, InboxWorker
<1>1. PICK x \in InboxWorker : /\ worker' = [worker EXCEPT ![w] = x]
                               /\ x.pc = "list" /\ x.todo = worker[w].todo
                               /\ \A d \in Items : \/ x.seen[d] = worker[w].seen[d]
                                                   \/ x.seen[d].lease = NoLease
  BY <1>0, NextTurn
<1>2. /\ worker' \in [Workers -> InboxWorker] /\ worker'[w] = x
      /\ \A v \in Workers \ {w} : worker'[v] = worker[v]
  BY <1>0, <1>1, WorkerTurn
<1>3. row' \in [Items -> InboxRow] /\ row'[e] \in {row[e], r} /\ \A d \in Items \ {e} : row'[d] = row[d]
  BY <1>0, RowTurn DEF InboxTypeOK
<1>4. InboxTypeOK'
  BY <1>0, <1>2, <1>3 DEF InboxTypeOK
<1>5. \A d \in Items : \/ row'[d].lease = NoLease
                       \/ row'[d].lease = row[d].lease /\ (row[d].ripe => row'[d].ripe)
  BY <1>3
<1>6. \A v \in Workers \ {w} : WorkerInv(v)'
  BY <1>2, <1>5, WorkerKept
<1>7. WorkerInv(w)'
  BY <1>0, <1>1, <1>2, <1>5 DEF WorkerInv
<1>8. \A v \in Workers : WorkerInv(v)'
  BY <1>6, <1>7
<1> QED
  BY <1>3, <1>4, <1>8 DEF InboxInv, ProcessedWasConfirmed

LEMMA CompleteInv == ASSUME InboxInv, NEW w \in Workers, Complete(w) PROVE InboxInv'
<1> DEFINE e == worker[w].now
           r == [row[e] EXCEPT !.status = "PROCESSED"]
<1>0. e \in Items /\ e \in handled /\ InboxTypeOK
  BY DEF InboxInv, WorkerInv, Complete, Completes, At
<1>1. r \in InboxRow /\ r.status = "PROCESSED" /\ r.lease = row[e].lease /\ r.ripe = row[e].ripe
  BY <1>0, InboxTypes DEF InboxRow
<1>2. (row' = row \/ row' = [row EXCEPT ![e] = r]) /\ NextItem(w) /\ UNCHANGED handled
  BY DEF Complete
<1> HIDE DEF r
<1> QED
  BY <1>0, <1>1, <1>2, RowAndNext

LEMMA FailInv == ASSUME InboxInv, NEW w \in Workers, Fail(w) PROVE InboxInv'
<1> DEFINE e == worker[w].now
           retry == worker[w].seen[e].retry + 1
           st == IF GivesUp(retry) THEN "DEAD_LETTER" ELSE "PENDING"
           n == IF GivesUp(retry) THEN MaxRetries ELSE retry
           r == [status |-> st, retry |-> n, lease |-> NoLease, ripe |-> FALSE]
<1>0. e \in Items /\ InboxTypeOK
  BY DEF InboxInv, WorkerInv, Fail, At
<1>1. n \in 0 .. MaxRetries
  <2>1. worker[w].seen[e].retry \in 0 .. MaxRetries
    BY <1>0, InboxTypes DEF SeenRecord
  <2> QED
    BY <2>1, InboxAssumption DEF GivesUp
<1>2. st \in {"DEAD_LETTER", "PENDING"}
  OBVIOUS
<1>3. row' = [row EXCEPT ![e] = r] /\ NextItem(w) /\ UNCHANGED handled
  BY DEF Fail
<1> HIDE DEF n, st
<1>4. r \in InboxRow /\ r.lease = NoLease /\ r.status \notin {"PROCESSING", "PROCESSED"}
  BY <1>1, <1>2 DEF InboxRow, Lease
<1> HIDE DEF r
<1> QED
  BY <1>0, <1>3, <1>4, RowAndNext

LEMMA InboxStutter == ASSUME InboxInv, UNCHANGED inboxVars PROVE InboxInv'
BY DEF inboxVars, InboxInv, InboxTypeOK, WorkerInv, ProcessedWasConfirmed

LEMMA InboxStep == InboxInv /\ [InboxNext]_inboxVars => InboxInv'
BY IngestInv, TimeInv, ClaimItemInv, ClaimLostInv, ListInv, ConfirmInv, CompleteInv, FailInv, LeaveInv,
   InboxStutter
   DEF InboxNext

LEMMA InboxInvariance == InboxSpec => []InboxInv
BY InboxInitInv, InboxStep, PTL DEF InboxSpec

\* A notification counts as processed only after confirmPayment has returned for
\* it, whichever of several workers, with whatever old list, completes it.
THEOREM ProcessedMeansConfirmed == InboxSpec => []ProcessedWasConfirmed
<1>1. InboxInv => ProcessedWasConfirmed
  BY DEF InboxInv
<1> QED
  BY <1>1, InboxInvariance, PTL

\* No worker claims an item whose lease runs, however old its list is.
THEOREM LiveLeasesHold == InboxSpec => LiveLeaseNotClaimed
<1> DEFINE A == \A e \in Items : row[e].status = "PROCESSING" /\ ~row[e].ripe =>
                                     row'[e].lease \in {row[e].lease, NoLease}
<1>1. ASSUME InboxInv, [InboxNext]_inboxVars PROVE [A]_inboxVars
  <2>0. InboxTypeOK
    BY <1>1 DEF InboxInv
  <2> SUFFICES ASSUME NEW e \in Items, row[e].status = "PROCESSING", ~row[e].ripe
               PROVE  row'[e].lease \in {row[e].lease, NoLease}
    OBVIOUS
  <2>1. row[e].lease # NoLease
    BY <1>1 DEF InboxInv
  <2>2. CASE \E d \in Items : Ingest(d) \/ TimePasses(d)
    BY <2>0, <2>2 DEF Ingest, TimePasses, InboxTypeOK, InboxRow
  <2>3. ASSUME NEW w \in Workers, NEW d \in Items, ClaimItem(w, d)
        PROVE  row'[e] = row[e]
    <3>1. d # e
      <4>1. worker[w].seen[d].lease = NoLease \/ row[d].lease # worker[w].seen[d].lease \/ row[d].ripe
        BY <1>1, <2>3 DEF InboxInv, WorkerInv, ClaimItem
      <4> QED
        BY <2>1, <2>3, <4>1 DEF ClaimItem, Claimable
    <3> QED
      BY <2>0, <2>3, <3>1 DEF ClaimItem, InboxTypeOK
  <2>4. ASSUME NEW w \in Workers, Complete(w) \/ Fail(w)
        PROVE  row'[e].lease \in {row[e].lease, NoLease}
    <3>1. worker[w].now \in Items
      BY <1>1, <2>4 DEF InboxInv, WorkerInv, Complete, Completes, Fail, At
    <3> QED
      BY <2>0, <2>4, <3>1 DEF Complete, Fail, InboxTypeOK, InboxRow
  <2>5. CASE \E w \in Workers :
                 \/ List(w) \/ ConfirmReturns(w) \/ ConfirmThrows(w) \/ CompleteThrows(w)
                 \/ FinishList(w) \/ Restart(w) \/ \E d \in Items : ClaimLost(w, d)
    BY <2>5 DEF List, ConfirmReturns, ConfirmThrows, CompleteThrows, FinishList, Restart, ClaimLost
  <2> QED
    BY <1>1, <2>2, <2>3, <2>4, <2>5 DEF InboxNext, inboxVars
<1> QED
  BY <1>1, InboxInvariance, PTL DEF InboxSpec, LiveLeaseNotClaimed

----------------------------------------------------------------------------
(* Both side by side                                                        *)

\* The composition that the run checks: the rows of both keep their types.
THEOREM ServicesTypes == ServicesSpec => []ServicesTypeOK
<1>1. ServicesInit => InboxInv /\ RefundsInv
  BY InboxInitInv, RefundsInitInv DEF ServicesInit
<1>2. [ServicesNext]_servicesVars => [InboxNext]_inboxVars /\ [RefundsNext]_refundVars
  BY DEF ServicesNext, servicesVars
<1>3. InboxInv /\ RefundsInv /\ [ServicesNext]_servicesVars => InboxInv' /\ RefundsInv'
  BY <1>2, InboxStep, RefundsStep
<1>4. InboxInv /\ RefundsInv => ServicesTypeOK
  BY DEF InboxInv, RefundsInv, ServicesTypeOK
<1> QED
  BY <1>1, <1>3, <1>4, PTL DEF ServicesSpec
==============================================================================

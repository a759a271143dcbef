------------------------- MODULE RiskCheckoutProofs -------------------------
(***************************************************************************)
(* Proofs about RiskCheckout for any forms, addresses, blacklist entries   *)
(* and processors: types, one order for a key, no order of a blocked       *)
(* customer, and no event given up early.                                  *)
(*                                                                         *)
(* A checkout that has read the blacklist holds the locks of its address,  *)
(* phone and network.  So whoever adds an entry that covers it, written in *)
(* the same way, waits: what the checkout concluded stays true until it    *)
(* commits.                                                                *)
(***************************************************************************)
EXTENDS RiskCheckout, TLAPS

AtWork(c) == checkout[c].pc \in {"lock", "decide"}

CheckoutInv(c) ==
    /\ checkout[c].locked \subseteq LockKeys(c)
    /\ AtWork(c) => ~keyRow[checkout[c].form.key].done
    /\ checkout[c].pc = "decide" => checkout[c].locked = LockKeys(c)
    /\ checkout[c].pc = "decide" /\ ~checkout[c].hard /\ ~checkout[c].blind
           => ~Barred(checkout[c].form)
    /\ AtWork(c) => ~Ordered(c)
    /\ Ordered(c) => keyRow[checkout[c].form.key].done

\* The row of a key is held by one call at most.
KeysExclude ==
    \A c, d \in Checkouts :
        AtWork(c) /\ AtWork(d) /\ checkout[c].form.key = checkout[d].form.key => c = d

IInv ==
    /\ RiskTypeOK
    /\ \A c \in Checkouts : CheckoutInv(c)
    /\ KeysExclude
    /\ OneOrderPerKey

----------------------------------------------------------------------------
(* Types and the initial states                                             *)

Pcs == {"idle", "lock", "decide", "replayed", "conflict", "rejected", "ordered"}
LockRows == UNION {LockKeys(c) : c \in Checkouts}
CallRecord ==
    [pc : Pcs, form : Forms, locked : SUBSET LockRows, hard : BOOLEAN, blind : BOOLEAN,
     score : 0 .. 100]
KeyRecord == [done : BOOLEAN, body : {0} \cup {f.body : f \in Forms}, code : {0, 201, 403}]
RiskRecord ==
    [review : {"NONE", "NOT_REQUIRED", "PENDING_REVIEW", "APPROVED", "REJECTED"}, hold : BOOLEAN]
EventRecord ==
    [st : {"NONE", "PENDING", "PROCESSING", "PROCESSED", "FAILED"},
     due : BOOLEAN, lapsed : BOOLEAN, attempts : 0 .. MaxClaims]
ProcessorRecord ==
    [pc : {"idle", "claim", "publish"}, batch : SUBSET Checkouts,
     attempts : [Checkouts -> 0 .. MaxClaims]]

LEMMA FormType ==
  ASSUME NEW f \in Forms
  PROVE  f.key \in OrderKeys /\ f.phone \in Phones /\ f.ip \in Addresses
BY RiskAssumption DEF OrderKeys, Phones

LEMMA CallType ==
  ASSUME IInv, NEW c \in Checkouts
  PROVE  /\ checkout[c] \in CallRecord
         /\ checkout[c].form \in Forms
         /\ checkout[c].form.key \in OrderKeys
         /\ checkout[c].form.phone \in Phones
<1>1. checkout[c] \in CallRecord
  BY DEF IInv, RiskTypeOK, CallRecord, Pcs, LockRows
<1>2. checkout[c].form \in Forms
  BY <1>1 DEF CallRecord
<1> QED
  BY <1>1, <1>2, FormType

LEMMA InitInv == RiskInit => IInv
<1> SUFFICES ASSUME RiskInit PROVE IInv
  OBVIOUS
<1> USE RiskAssumption DEF RiskInit
<1>1. \A c \in Checkouts : \E f \in Forms : checkout[c] = NoCheckout(f)
  OBVIOUS
<1>2. \A f \in Forms : NoCheckout(f) \in CallRecord
  BY DEF NoCheckout, CallRecord, Pcs
<1>3. checkout \in [Checkouts -> CallRecord]
  BY <1>2
<1>4. keyRow \in [OrderKeys -> KeyRecord]
  BY DEF KeyRecord, NoKey
<1>5. subject \in [Phones -> [known : BOOLEAN, orders : Nat, returned : Nat]]
  OBVIOUS
<1>6. event \in [Checkouts -> EventRecord]
  BY DEF EventRecord, NoEvent
<1>7. processor \in [Processors -> ProcessorRecord]
  BY DEF ProcessorRecord, Resting
<1>8. RiskTypeOK
  BY <1>3, <1>4, <1>5, <1>6, <1>7
     DEF RiskTypeOK, CallRecord, Pcs, LockRows, KeyRecord, EventRecord, ProcessorRecord
<1>9. \A c \in Checkouts : ~AtWork(c) /\ ~Ordered(c) /\ checkout[c].locked = {}
  BY <1>1 DEF NoCheckout, AtWork, Ordered
<1>10. \A c \in Checkouts : CheckoutInv(c)
  BY <1>9 DEF CheckoutInv, AtWork
<1>11. KeysExclude /\ OneOrderPerKey
  BY <1>9 DEF KeysExclude, OneOrderPerKey
<1> QED
  BY <1>8, <1>10, <1>11 DEF IInv

----------------------------------------------------------------------------
(* A checkout alone                                                         *)

LEMMA BarredKept ==
  ASSUME UNCHANGED blacklist, NEW f
  PROVE  Barred(f)' <=> Barred(f)
BY DEF Barred, IpBarred, PhoneBarred, Active

\* One call changes its record, and nothing else happens.
LEMMA CallTurns ==
  ASSUME IInv, NEW c \in Checkouts, NEW x \in CallRecord, Turns(c, x),
         x.form = checkout[c].form, x.locked \subseteq LockKeys(c),
         x.pc \in {"lock", "decide"} => AtWork(c) \/ (KeyFree(x.form.key) /\ ~keyRow[x.form.key].done),
         x.pc \in {"lock", "decide"} => ~Ordered(c),
         x.pc = "decide" => x.locked = LockKeys(c) /\ (x.hard \/ x.blind \/ ~Barred(x.form)),
         UNCHANGED <<keyRow, subject, blacklist, risked, event, processor>>
  PROVE  IInv'
<1>1. checkout \in [Checkouts -> CallRecord]
  BY DEF IInv, RiskTypeOK, CallRecord, Pcs, LockRows
<1>2. checkout'[c] = x /\ \A d \in Checkouts \ {c} : checkout'[d] = checkout[d]
  BY <1>1 DEF Turns
<1>3. \A d \in Checkouts : checkout'[d].form = checkout[d].form
  BY <1>2
<1>4. \A d \in Checkouts : LockKeys(d)' = LockKeys(d)
  BY <1>3 DEF LockKeys
<1>5. LockRows' = LockRows
  BY <1>4 DEF LockRows
<1>6. CallRecord' = CallRecord
  BY <1>5 DEF CallRecord
<1>7. checkout' \in [Checkouts -> CallRecord']
  BY <1>1, <1>6 DEF Turns
<1>8. RiskTypeOK'
  BY <1>7 DEF IInv, RiskTypeOK, CallRecord, Pcs, LockRows
<1>9. \A d \in Checkouts : Ordered(d)' = Ordered(d)
  BY DEF Ordered
<1>10. \A d \in Checkouts : Barred(checkout[d].form)' <=> Barred(checkout'[d].form)
  BY <1>3, BarredKept
<1>11. ASSUME NEW d \in Checkouts PROVE CheckoutInv(d)'
  <2>1. CheckoutInv(d) /\ CheckoutInv(c)
    BY DEF IInv
  <2>2. CASE d = c
    BY <1>2, <1>3, <1>4, <1>9, <1>10, <2>1, <2>2 DEF CheckoutInv, AtWork
  <2>3. CASE d # c
    BY <1>2, <1>3, <1>4, <1>9, <1>10, <2>1, <2>3 DEF CheckoutInv, AtWork
  <2> QED
    BY <2>2, <2>3
<1>12. KeysExclude'
  BY <1>2, <1>3 DEF IInv, KeysExclude, AtWork, KeyFree
<1>13. OneOrderPerKey'
  BY <1>3, <1>9 DEF IInv, OneOrderPerKey
<1> QED
  BY <1>8, <1>11, <1>12, <1>13 DEF IInv

\* Ends and rollbacks.
LEMMA CallEnds ==
  ASSUME IInv, NEW c \in Checkouts, NEW how \in Pcs \ {"lock", "decide"}, Ended(c, how),
         UNCHANGED <<keyRow, subject, blacklist, risked, event, processor>>
  PROVE  IInv'
<1> DEFINE x == [NoCheckout(checkout[c].form) EXCEPT !.pc = how]
<1>1. x \in CallRecord /\ x.form = checkout[c].form /\ x.locked = {} /\ x.pc = how
  <2>1. checkout[c].form \in Forms
    BY CallType
  <2>2. NoCheckout(checkout[c].form) \in CallRecord
    BY <2>1 DEF NoCheckout, CallRecord, Pcs
  <2>3. x \in CallRecord
    BY <2>2 DEF CallRecord
  <2>4. x.form = checkout[c].form /\ x.locked = {} /\ x.pc = how
    BY DEF NoCheckout
  <2> QED
    BY <2>3, <2>4
<1>2. Turns(c, x)
  BY DEF Ended
<1> HIDE DEF x
<1> QED
  BY <1>1, <1>2, CallTurns

LEMMA ClaimInv == ASSUME IInv, NEW c \in Checkouts, Claim(c) PROVE IInv'
<1> DEFINE f == checkout[c].form
           x == [checkout[c] EXCEPT !.pc = "lock"]
<1>1. CASE keyRow[f.key].done
  <2>1. \E how \in {"replayed", "conflict"} : Ended(c, how)
    BY <1>1 DEF Claim
  <2> QED
    BY <2>1, CallEnds DEF Claim, Pcs
<1>2. CASE ~keyRow[f.key].done
  <2>1. Turns(c, x)
    BY <1>2 DEF Claim
  <2>2. x \in CallRecord /\ x.form = f /\ x.locked = checkout[c].locked /\ x.pc = "lock"
    BY CallType DEF CallRecord, Pcs
  <2>3. x.locked \subseteq LockKeys(c) /\ ~Ordered(c)
    BY <1>2, <2>2 DEF IInv, CheckoutInv
  <2>4. KeyFree(f.key)
    BY DEF Claim
  <2> HIDE DEF x
  <2> QED
    BY <1>2, <2>1, <2>2, <2>3, <2>4, CallTurns DEF Claim
<1> QED
  BY <1>1, <1>2

\* There is a lock to take, as long as one of the three is missing.
LEMMA KeyToLockIn ==
  ASSUME NEW c \in Checkouts, checkout[c].locked \subseteq LockKeys(c),
         LockKeys(c) # checkout[c].locked
  PROVE  KeyToLock(c) \in LockKeys(c)
<1> DEFINE f == checkout[c].form
           K == LockKeys(c) \ checkout[c].locked
           ip == <<"IP", f.ip>>
           phone == <<"PHONE", f.phone>>
           net == NetKey(f.ip)
<1>1. LockKeys(c) = {ip, phone, net} /\ K # {}
  BY DEF LockKeys
<1>2. Rank(ip) = 1 /\ Rank(phone) = 2 /\ Rank(net) = 3
  BY DEF Rank, NetKey
<1> HIDE DEF ip, phone, net
<1>3. \E k \in K : \A l \in K : Rank(k) <= Rank(l)
  <2>1. CASE ip \in K
    BY <1>1, <1>2, <2>1
  <2>2. CASE ip \notin K /\ phone \in K
    BY <1>1, <1>2, <2>2
  <2>3. CASE ip \notin K /\ phone \notin K
    BY <1>1, <1>2, <2>3
  <2> QED
    BY <2>1, <2>2, <2>3
<1> QED
  BY <1>3 DEF KeyToLock

LEMMA LockInv == ASSUME IInv, NEW c \in Checkouts, LockSubject(c) PROVE IInv'
<1> DEFINE k == KeyToLock(c)
           x == [checkout[c] EXCEPT !.locked = @ \cup {k}]
<1>1. CheckoutInv(c) /\ checkout[c] \in CallRecord
  BY CallType DEF IInv
<1>2. k \in LockKeys(c) /\ k \in LockRows
  BY <1>1, KeyToLockIn DEF LockSubject, CheckoutInv, LockRows
<1>3. Turns(c, x)
  BY DEF LockSubject
<1> HIDE DEF k
<1>4. x \in CallRecord /\ x.form = checkout[c].form /\ x.locked = checkout[c].locked \cup {k}
          /\ x.pc = "lock"
  BY <1>1, <1>2 DEF CallRecord, LockSubject
<1>5. ~Ordered(c) /\ AtWork(c)
  BY <1>1 DEF CheckoutInv, AtWork, LockSubject
<1> HIDE DEF x
<1> QED
  BY <1>1, <1>2, <1>3, <1>4, <1>5, CallTurns DEF CheckoutInv, LockSubject

\* What the blacklist says under the locks, when both of its queries succeed.
LEMMA BlacklistRead ==
  ASSUME NEW f, PhoneBlocked(f, FALSE), ~IpBlocked(f)
  PROVE  ~Barred(f)
<1>1. CASE PhoneEntries(f) = {}
  BY <1>1 DEF PhoneEntries, Active, Barred, PhoneBarred, IpBarred, IpBlocked
<1>2. CASE \E e \in PhoneEntries(f) : blacklist[e] # "active"
  BY <1>2 DEF PhoneEntries, Active, Barred, PhoneBarred, IpBarred, IpBlocked
<1> QED
  BY <1>1, <1>2 DEF PhoneBlocked

LEMMA EvaluateInv == ASSUME IInv, NEW c \in Checkouts, Evaluate(c) PROVE IInv'
<1> DEFINE f == checkout[c].form
           flagged(failed) == Flagged(f) /\ "flags" \notin failed
<1>1. CheckoutInv(c) /\ checkout[c] \in CallRecord /\ f \in Forms
  BY CallType DEF IInv
<1>2. PICK blocked \in BOOLEAN, failed \in SUBSET {"phone", "ip", "flags"} :
          /\ PhoneBlocked(f, blocked)
          /\ Turns(c, [checkout[c] EXCEPT
                 !.pc = "decide", !.blind = (failed # {}),
                 !.hard = (blocked /\ "phone" \notin failed) \/ (IpBlocked(f) /\ "ip" \notin failed),
                 !.score = RiskScore(Flagged(f) /\ "flags" \notin failed, SubjectOf(f))])
  BY DEF Evaluate
<1> DEFINE hard == (blocked /\ "phone" \notin failed) \/ (IpBlocked(f) /\ "ip" \notin failed)
           score == RiskScore(Flagged(f) /\ "flags" \notin failed, SubjectOf(f))
           x == [checkout[c] EXCEPT !.pc = "decide", !.blind = (failed # {}), !.hard = hard,
                                    !.score = score]
<1>3. score \in 0 .. 100
  BY DEF RiskScore
<1>4. x \in CallRecord
  <2>1. hard \in BOOLEAN /\ (failed # {}) \in BOOLEAN
    BY DEF IpBlocked
  <2> HIDE DEF hard, score
  <2> QED
    BY <1>1, <1>3, <2>1 DEF CallRecord, Pcs
<1>5. x.form = f /\ x.locked = checkout[c].locked /\ x.pc = "decide"
  BY <1>1 DEF CallRecord
<1>6. hard \/ failed # {} \/ ~Barred(f)
  <2>1. CASE blocked = FALSE /\ ~IpBlocked(f)
    BY <1>2, <2>1, BlacklistRead
  <2>2. CASE failed = {} /\ (blocked \/ IpBlocked(f))
    BY <2>2
  <2> QED
    BY <2>1, <2>2
<1>7. ~Ordered(c) /\ AtWork(c) /\ checkout[c].locked = LockKeys(c)
  BY <1>1 DEF CheckoutInv, AtWork, Evaluate
<1>8. Turns(c, x)
  BY <1>2
<1>9. x.hard \/ x.blind \/ ~Barred(x.form)
  <2>1. x.hard = hard /\ x.blind = (failed # {})
    BY <1>1 DEF CallRecord
  <2> QED
    BY <1>5, <1>6, <2>1
<1>10. UNCHANGED <<keyRow, subject, blacklist, risked, event, processor>>
  BY DEF Evaluate
<1>11. x.locked = LockKeys(c) /\ x.locked \subseteq LockKeys(c)
  BY <1>5, <1>7
<1> HIDE DEF x
<1> QED
  BY <1>4, <1>5, <1>7, <1>8, <1>9, <1>10, <1>11, CallTurns

LEMMA RollBackInv == ASSUME IInv, NEW c \in Checkouts, RollBack(c) PROVE IInv'
BY CallEnds DEF RollBack, Pcs

----------------------------------------------------------------------------
(* The commit                                                               *)

LEMMA DecideEnds ==
  ASSUME IInv, NEW c \in Checkouts, Decide(c)
  PROVE  /\ checkout' \in [Checkouts -> CallRecord]
         /\ checkout'[c].pc \in {"rejected", "ordered"}
         /\ checkout'[c].locked = {}
         /\ \A d \in Checkouts \ {c} : checkout'[d] = checkout[d]
         /\ \A d \in Checkouts : checkout'[d].form = checkout[d].form
         /\ keyRow'[checkout[c].form.key].done
         /\ \A k \in OrderKeys \ {checkout[c].form.key} : keyRow'[k] = keyRow[k]
         /\ keyRow' \in [OrderKeys -> KeyRecord]
<1> DEFINE f == checkout[c].form
<1>1. f \in Forms /\ f.key \in OrderKeys /\ checkout \in [Checkouts -> CallRecord]
  BY CallType DEF IInv, RiskTypeOK, CallRecord, Pcs, LockRows
<1>2. PICK code \in {201, 403} : Recorded(f, code)
  BY DEF Decide
<1>3. PICK how \in {"rejected", "ordered"} : Ended(c, how)
  BY DEF Decide
<1>4. keyRow \in [OrderKeys -> KeyRecord]
  BY DEF IInv, RiskTypeOK, KeyRecord
<1>5. /\ keyRow' \in [OrderKeys -> KeyRecord]
      /\ keyRow'[f.key].done
      /\ \A k \in OrderKeys \ {f.key} : keyRow'[k] = keyRow[k]
  BY <1>1, <1>2, <1>4 DEF Recorded, KeyRecord
<1> DEFINE x == [NoCheckout(f) EXCEPT !.pc = how]
<1>6. NoCheckout(f) \in CallRecord
  BY <1>1 DEF NoCheckout, CallRecord, Pcs
<1>7. x \in CallRecord
  BY <1>6 DEF CallRecord, Pcs
<1>8. x.form = f /\ x.locked = {} /\ x.pc = how
  BY DEF NoCheckout
<1>9. checkout' = [checkout EXCEPT ![c] = x]
  BY <1>3 DEF Ended, Turns
<1> HIDE DEF x
<1> QED
  BY <1>1, <1>5, <1>7, <1>8, <1>9

\* Which orders there are after the commit.
LEMMA DecideOrders ==
  ASSUME IInv, NEW c \in Checkouts, Decide(c)
  PROVE  \A d \in Checkouts \ {c} : Ordered(d)' = Ordered(d)
BY DEF Decide, Ordered, IInv, RiskTypeOK

LEMMA SubjectType ==
  ASSUME RiskTypeOK, NEW f \in Forms
  PROVE  SubjectOf(f) \in [known : BOOLEAN, orders : Nat, returned : Nat]
BY FormType DEF RiskTypeOK, SubjectOf

LEMMA DecideType == ASSUME IInv, NEW c \in Checkouts, Decide(c) PROVE RiskTypeOK'
<1> DEFINE f == checkout[c].form
<1>1. f \in Forms /\ f.phone \in Phones
  BY CallType
<1>2. \A d \in Checkouts : LockKeys(d)' = LockKeys(d)
  BY DecideEnds DEF LockKeys
<1>3. LockRows' = LockRows
  BY <1>2 DEF LockRows
<1>4. CallRecord' = CallRecord
  BY <1>3 DEF CallRecord
<1>5. checkout' \in [Checkouts -> CallRecord']
  BY <1>4, DecideEnds
<1>6. subject' \in [Phones -> [known : BOOLEAN, orders : Nat, returned : Nat]]
  <2> DEFINE s == SubjectOf(f)
             one == [s EXCEPT !.orders = @ + 1]
             p == f.phone
  <2>1. s \in [known : BOOLEAN, orders : Nat, returned : Nat]
    BY <1>1, SubjectType DEF IInv
  <2>2. one \in [known : BOOLEAN, orders : Nat, returned : Nat]
    <3> HIDE DEF s
    <3> QED
      BY <2>1
  <2>3. subject' = [subject EXCEPT ![p] = s] \/ subject' = [subject EXCEPT ![p] = one]
    BY DEF Decide
  <2>4. subject \in [Phones -> [known : BOOLEAN, orders : Nat, returned : Nat]] /\ p \in Phones
    BY <1>1 DEF IInv, RiskTypeOK
  <2> HIDE DEF s, one, p
  <2> QED
    BY <2>1, <2>2, <2>3, <2>4
<1>7. risked' \in [Checkouts -> RiskRecord]
  <2> DEFINE held == Decision(checkout[c].score) = "MANUAL_REVIEW"
             row == [review |-> IF held THEN "PENDING_REVIEW" ELSE "NOT_REQUIRED", hold |-> held]
  <2>1. row \in RiskRecord
    <3> held \in BOOLEAN
      OBVIOUS
    <3> HIDE DEF held
    <3> QED
      BY DEF RiskRecord
  <2>2. risked' = risked \/ risked' = [risked EXCEPT ![c] = row]
    BY DEF Decide
  <2>3. risked \in [Checkouts -> RiskRecord]
    BY DEF IInv, RiskTypeOK, RiskRecord
  <2> HIDE DEF row
  <2> QED
    BY <2>1, <2>2, <2>3
<1>8. event' \in [Checkouts -> EventRecord]
  <2> DEFINE row == [NoEvent EXCEPT !.st = "PENDING", !.due = TRUE]
  <2>1. NoEvent \in EventRecord
    BY RiskAssumption DEF EventRecord, NoEvent
  <2>2. row \in EventRecord
    <3>1. \A r \in EventRecord : [r EXCEPT !.st = "PENDING", !.due = TRUE] \in EventRecord
      BY DEF EventRecord
    <3> QED
      BY <2>1, <3>1
  <2>3. event' = event \/ event' = [event EXCEPT ![c] = row]
    BY DEF Decide
  <2>4. event \in [Checkouts -> EventRecord]
    BY DEF IInv, RiskTypeOK, EventRecord
  <2> HIDE DEF row
  <2> QED
    BY <2>2, <2>3, <2>4
<1>9. UNCHANGED <<blacklist, processor>>
  BY DEF Decide
<1> QED
  BY <1>5, <1>6, <1>7, <1>8, <1>9, DecideEnds
     DEF IInv, RiskTypeOK, CallRecord, Pcs, LockRows, KeyRecord, EventRecord, RiskRecord

LEMMA DecideInv == ASSUME IInv, NEW c \in Checkouts, Decide(c) PROVE IInv'
<1>1. AtWork(c) /\ CheckoutInv(c) /\ ~Ordered(c)
  BY DEF Decide, AtWork, IInv, CheckoutInv
<1>2. UNCHANGED blacklist
  BY DEF Decide
<1>3. ASSUME NEW d \in Checkouts PROVE CheckoutInv(d)'
  <2>1. LockKeys(d)' = LockKeys(d)
    BY DecideEnds DEF LockKeys
  <2>2. CASE d = c
    BY <2>1, <2>2, DecideEnds DEF CheckoutInv, AtWork
  <2>3. CASE d # c
    <3>1. CheckoutInv(d) /\ checkout'[d] = checkout[d] /\ (Ordered(d)' <=> Ordered(d))
      BY <2>3, DecideEnds, DecideOrders DEF IInv
    <3>2. Barred(checkout[d].form)' <=> Barred(checkout[d].form)
      BY <1>2, <3>1, BarredKept
    <3>3. AtWork(d) => checkout[d].form.key # checkout[c].form.key
      BY <1>1, <2>3 DEF IInv, KeysExclude
    <3>4. checkout[d].form.key \in OrderKeys
      BY CallType
    <3>5. AtWork(d) => ~keyRow'[checkout[d].form.key].done
      BY <3>1, <3>3, <3>4, DecideEnds DEF CheckoutInv
    <3>6. Ordered(d) => keyRow'[checkout[d].form.key].done
      BY <3>1, <3>4, DecideEnds DEF CheckoutInv
    <3> QED
      BY <2>1, <3>1, <3>2, <3>5, <3>6 DEF CheckoutInv, AtWork
  <2> QED
    BY <2>2, <2>3
<1>4. KeysExclude'
  BY DecideEnds DEF IInv, KeysExclude, AtWork
<1>5. OneOrderPerKey'
  <2>1. \A d \in Checkouts \ {c} : Ordered(d)' => checkout[d].form.key # checkout[c].form.key
    BY <1>1, DecideOrders DEF IInv, CheckoutInv
  <2> QED
    BY <2>1, DecideEnds, DecideOrders DEF IInv, OneOrderPerKey
<1> QED
  BY <1>3, <1>4, <1>5, DecideType DEF IInv

----------------------------------------------------------------------------
(* Reviews, the blacklist and the outbox                                    *)

\* Types carry over when no call turns.
LEMMA SameRows ==
  ASSUME RiskTypeOK, UNCHANGED checkout
  PROVE  checkout' \in [Checkouts -> CallRecord']
<1>1. LockRows' = LockRows
  BY DEF LockRows, LockKeys
<1> QED
  BY <1>1 DEF RiskTypeOK, CallRecord, Pcs, LockRows

LEMMA ResolveInv == ASSUME IInv, NEW c \in Checkouts, ResolveReview(c) PROVE IInv'
<1>1. UNCHANGED <<checkout, keyRow, subject, blacklist, event, processor>>
  BY DEF ResolveReview
<1>2. risked' \in [Checkouts ->
          [review : {"NONE", "NOT_REQUIRED", "PENDING_REVIEW", "APPROVED", "REJECTED"}, hold : BOOLEAN]]
  BY DEF ResolveReview, IInv, RiskTypeOK
<1>3. \A d \in Checkouts : Ordered(d)' <=> Ordered(d)
  BY DEF ResolveReview, Ordered, IInv, RiskTypeOK
<1>4. RiskTypeOK'
  BY <1>1, <1>2, SameRows DEF IInv, RiskTypeOK, CallRecord, Pcs, LockRows
<1>5. \A d \in Checkouts : CheckoutInv(d)'
  <2>1. \A d \in Checkouts : Barred(checkout[d].form)' <=> Barred(checkout[d].form)
    BY <1>1, BarredKept
  <2> QED
    BY <1>1, <1>3, <2>1 DEF IInv, CheckoutInv, AtWork, LockKeys
<1>6. KeysExclude' /\ OneOrderPerKey'
  BY <1>1, <1>3 DEF IInv, KeysExclude, OneOrderPerKey, AtWork
<1> QED
  BY <1>4, <1>5, <1>6 DEF IInv

\* An entry that covers the phone of a checkout, or its address in the same
\* spelling, is one whose author locks a row that the checkout locks.
CoversAlike(e, f) == CoversIp(e, f) /\ NetKey(e.ip) = NetKey(f.ip)

LEMMA CoverIsLocked ==
  ASSUME NEW c \in Checkouts, NEW e \in Entries,
         CoversAlike(e, checkout[c].form) \/ CoversPhone(e, checkout[c].form)
  PROVE  EntryKey(e) \in LockKeys(c)
<1> DEFINE f == checkout[c].form
<1>1. CASE CoversPhone(e, f)
  BY <1>1 DEF CoversPhone, EntryKey, LockKeys
<1>2. CASE CoversAlike(e, f)
  <2>1. e.type # "PHONE"
    BY <1>2 DEF CoversAlike, CoversIp
  <2> QED
    BY <1>2, <2>1 DEF CoversAlike, EntryKey, LockKeys
<1> QED
  BY <1>1, <1>2

\* Whoever has decided under the locks is not overtaken.
LEMMA NotOvertaken ==
  ASSUME IInv, BlacklistNext, NEW c \in Checkouts, checkout[c].pc = "decide",
         ~Barred(checkout[c].form)
  PROVE  ~Barred(checkout[c].form)'
<1> DEFINE f == checkout[c].form
<1>1. UNCHANGED checkout /\ f \in Forms /\ checkout[c].locked = LockKeys(c)
  BY CallType DEF BlacklistNext, CreateBlacklist, RevokeBlacklist, Expires, IInv, CheckoutInv
<1>2. blacklist \in [Entries -> {"absent", "active", "expired", "revoked"}]
  BY DEF IInv, RiskTypeOK
<1>3. CASE \E e \in Entries : CreateBlacklist(e)
  <2> PICK e \in Entries : CreateBlacklist(e)
    BY <1>3
  <2>1. ~CoversAlike(e, f) /\ ~CoversPhone(e, f)
    BY <1>1, CoverIsLocked DEF CreateBlacklist, LockFree
  <2>2. \A d \in Entries \ {e} : blacklist'[d] = blacklist[d]
    BY <1>2 DEF CreateBlacklist
  <2> QED
    BY <1>1, <2>1, <2>2 DEF Barred, IpBarred, PhoneBarred, Active, CoversAlike
<1>4. CASE \E e \in Entries : RevokeBlacklist(e) \/ Expires(e)
  <2> PICK e \in Entries : RevokeBlacklist(e) \/ Expires(e)
    BY <1>4
  <2>1. /\ blacklist[e] \in {"active", "expired"} /\ blacklist'[e] \in {"expired", "revoked"}
        /\ \A d \in Entries \ {e} : blacklist'[d] = blacklist[d]
    BY <1>2 DEF RevokeBlacklist, Expires
  <2>2. ~IpBarred(f)'
    BY <1>1, <2>1 DEF Barred, IpBarred, Active
  <2>3. ~PhoneBarred(f)'
    BY <1>1, <2>1 DEF Barred, PhoneBarred
  <2> QED
    BY <2>2, <2>3 DEF Barred
<1> QED
  BY <1>3, <1>4 DEF BlacklistNext

LEMMA BlacklistInv == ASSUME IInv, BlacklistNext PROVE IInv'
<1>1. UNCHANGED <<checkout, keyRow, subject, risked, event, processor>>
  BY DEF BlacklistNext, CreateBlacklist, RevokeBlacklist, Expires
<1>2. blacklist' \in [Entries -> {"absent", "active", "expired", "revoked"}]
  <2>1. blacklist \in [Entries -> {"absent", "active", "expired", "revoked"}]
    BY DEF IInv, RiskTypeOK
  <2>2. PICK e \in Entries : CreateBlacklist(e) \/ RevokeBlacklist(e) \/ Expires(e)
    BY DEF BlacklistNext
  <2>3. \E st \in {"absent", "active", "expired", "revoked"} : blacklist' = [blacklist EXCEPT ![e] = st]
    BY <2>2 DEF CreateBlacklist, RevokeBlacklist, Expires
  <2> QED
    BY <2>1, <2>3
<1>3. RiskTypeOK'
  BY <1>1, <1>2, SameRows DEF IInv, RiskTypeOK, CallRecord, Pcs, LockRows
<1>4. ASSUME NEW c \in Checkouts PROVE CheckoutInv(c)'
  <2>1. CheckoutInv(c) /\ UNCHANGED <<LockKeys(c), Ordered(c), AtWork(c)>>
    BY <1>1 DEF IInv, LockKeys, Ordered, AtWork
  <2>2. checkout[c].pc = "decide" /\ ~Barred(checkout[c].form) => ~Barred(checkout[c].form)'
    BY NotOvertaken
  <2> QED
    BY <1>1, <2>1, <2>2 DEF CheckoutInv
<1>5. KeysExclude' /\ OneOrderPerKey'
  BY <1>1 DEF IInv, KeysExclude, OneOrderPerKey, AtWork, Ordered
<1> QED
  BY <1>3, <1>4, <1>5 DEF IInv

LEMMA OutboxInv == ASSUME IInv, OutboxNext PROVE IInv'
<1> USE RiskAssumption
<1>0. event \in [Checkouts -> EventRecord] /\ processor \in [Processors -> ProcessorRecord]
  BY DEF IInv, RiskTypeOK, EventRecord, ProcessorRecord
<1>1. UNCHANGED <<checkout, keyRow, subject, blacklist, risked>>
  BY DEF OutboxNext, Time, Recover, ClaimEvents, ClaimThrows, Dispatch, Publish, FailPublish, Crash,
         checkoutVars
<1>2. event' \in [Checkouts -> EventRecord] /\ processor' \in [Processors -> ProcessorRecord]
  <2> Resting \in ProcessorRecord
    BY DEF Resting, ProcessorRecord
  <2>1. CASE \E c \in Checkouts : Time(c)
    <3>1. PICK c \in Checkouts : Time(c)
      BY <2>1
    <3> DEFINE due == [event[c] EXCEPT !.due = TRUE]
               lapsed == [event[c] EXCEPT !.lapsed = TRUE]
    <3>2. due \in EventRecord /\ lapsed \in EventRecord
      BY <1>0 DEF EventRecord
    <3>3. /\ event' = [event EXCEPT ![c] = due] \/ event' = [event EXCEPT ![c] = lapsed]
          /\ processor' = processor
      BY <3>1 DEF Time
    <3> HIDE DEF due, lapsed
    <3> QED
      BY <1>0, <3>2, <3>3
  <2>2. CASE \E w \in Processors : Recover(w)
    <3>1. PICK w \in Processors : Recover(w)
      BY <2>2
    <3>2. \A r \in EventRecord : [r EXCEPT !.st = "PENDING", !.lapsed = FALSE] \in EventRecord
      BY DEF EventRecord
    <3>3. event' \in [Checkouts -> EventRecord]
      BY <1>0, <3>1, <3>2 DEF Recover
    <3>4. \A p \in ProcessorRecord : [p EXCEPT !.pc = "claim"] \in ProcessorRecord
      BY DEF ProcessorRecord
    <3>5. processor' \in [Processors -> ProcessorRecord]
      BY <1>0, <3>1, <3>4 DEF Recover
    <3> QED
      BY <3>3, <3>5
  <2>3. CASE \E w \in Processors : ClaimEvents(w)
    <3>1. PICK w \in Processors : ClaimEvents(w)
      BY <2>3
    <3> DEFINE claimed(r) == [r EXCEPT !.st = "PROCESSING", !.lapsed = FALSE, !.attempts = @ + 1]
               counts(batch) == [c \in Checkouts |-> IF c \in batch THEN event[c].attempts ELSE 0]
               carried(batch) == [pc |-> "publish", batch |-> batch, attempts |-> counts(batch)]
    <3>2. PICK batch \in SUBSET Checkouts :
              /\ \A c \in batch : event[c].attempts < MaxClaims
              /\ processor' = [processor EXCEPT ![w] = IF batch = {} THEN Resting ELSE carried(batch)]
              /\ event' = [c \in Checkouts |-> IF c \notin batch THEN event[c] ELSE claimed(event[c])]
      BY <3>1 DEF ClaimEvents
    <3>3. ASSUME NEW r \in EventRecord, r.attempts < MaxClaims PROVE claimed(r) \in EventRecord
      <4>1. r.attempts + 1 \in 0 .. MaxClaims
        BY <3>3 DEF EventRecord
      <4> QED
        BY <4>1 DEF EventRecord
    <3>4. counts(batch) \in [Checkouts -> 0 .. MaxClaims]
      BY <1>0 DEF EventRecord
    <3>5. carried(batch) \in ProcessorRecord
      <4> HIDE DEF counts
      <4> QED
        BY <3>4 DEF ProcessorRecord
    <3> HIDE DEF claimed, counts, carried
    <3>6. event' \in [Checkouts -> EventRecord]
      BY <1>0, <3>2, <3>3
    <3>7. processor' \in [Processors -> ProcessorRecord]
      BY <1>0, <3>2, <3>5
    <3> QED
      BY <3>6, <3>7
  <2>4. ASSUME NEW w \in Processors, NEW c \in Checkouts, Leaves(w, c)
        PROVE  processor' \in [Processors -> ProcessorRecord]
    <3> DEFINE p == processor[w]
               left == [p EXCEPT !.batch = p.batch \ {c}, !.attempts = [p.attempts EXCEPT ![c] = 0]]
    <3>1. p \in ProcessorRecord
      BY <1>0
    <3>2. left \in ProcessorRecord
      <4> HIDE DEF p
      <4>1. [p.attempts EXCEPT ![c] = 0] \in [Checkouts -> 0 .. MaxClaims]
        BY <3>1 DEF ProcessorRecord
      <4> QED
        BY <3>1, <4>1 DEF ProcessorRecord
    <3>3. processor' = [processor EXCEPT ![w] = IF p.batch = {c} THEN Resting ELSE left]
      BY <2>4 DEF Leaves
    <3> HIDE DEF p, left
    <3> QED
      BY <1>0, <3>2, <3>3
  <2>5. CASE \E w \in Processors, c \in Checkouts : Publish(w, c)
    <3>1. PICK w \in Processors, c \in Checkouts : Publish(w, c)
      BY <2>5
    <3>2. [event[c] EXCEPT !.st = "PROCESSED", !.lapsed = FALSE] \in EventRecord
      BY <1>0 DEF EventRecord
    <3>3. event' \in [Checkouts -> EventRecord]
      BY <1>0, <3>1, <3>2 DEF Publish
    <3> QED
      BY <2>4, <3>1, <3>3 DEF Publish
  <2>6. CASE \E w \in Processors, c \in Checkouts : FailPublish(w, c)
    <3>1. PICK w \in Processors, c \in Checkouts : FailPublish(w, c)
      BY <2>6
    <3> DEFINE gone == [event[c] EXCEPT !.st = "FAILED", !.lapsed = FALSE]
               later == [event[c] EXCEPT !.st = "PENDING", !.lapsed = FALSE, !.due = FALSE]
    <3>2. gone \in EventRecord /\ later \in EventRecord
      BY <1>0 DEF EventRecord
    <3>3. event' = [event EXCEPT ![c] = gone] \/ event' = [event EXCEPT ![c] = later]
      BY <3>1 DEF FailPublish
    <3> HIDE DEF gone, later
    <3>4. event' \in [Checkouts -> EventRecord]
      BY <1>0, <3>2, <3>3
    <3> QED
      BY <2>4, <3>1, <3>4 DEF FailPublish
  <2>7. CASE \E w \in Processors : Crash(w) \/ ClaimThrows(w)
    BY <1>0, <2>7 DEF Crash, ClaimThrows
  <2> QED
    BY <2>1, <2>2, <2>3, <2>5, <2>6, <2>7 DEF OutboxNext, Dispatch
<1>3. RiskTypeOK'
  BY <1>1, <1>2, SameRows
     DEF IInv, RiskTypeOK, CallRecord, Pcs, LockRows, EventRecord, ProcessorRecord
<1>4. \A c \in Checkouts : Barred(checkout[c].form)' <=> Barred(checkout[c].form)
  BY <1>1, BarredKept
<1>5. \A c \in Checkouts : CheckoutInv(c)'
  BY <1>1, <1>4 DEF IInv, CheckoutInv, LockKeys, Ordered, AtWork
<1>6. KeysExclude' /\ OneOrderPerKey'
  BY <1>1 DEF IInv, KeysExclude, OneOrderPerKey, AtWork, Ordered
<1> QED
  BY <1>3, <1>5, <1>6 DEF IInv

LEMMA StutterInv == ASSUME IInv, UNCHANGED riskVars PROVE IInv'
<1> USE DEF riskVars
<1>1. RiskTypeOK'
  BY SameRows DEF IInv, RiskTypeOK, CallRecord, Pcs, LockRows
<1>2. \A c \in Checkouts : Barred(checkout[c].form)' <=> Barred(checkout[c].form)
  BY BarredKept
<1>3. \A c \in Checkouts : CheckoutInv(c)'
  BY <1>2 DEF IInv, CheckoutInv, LockKeys, Ordered, AtWork
<1> QED
  BY <1>1, <1>3 DEF IInv, KeysExclude, OneOrderPerKey, AtWork, Ordered

LEMMA StepInv == IInv /\ [RiskNext]_riskVars => IInv'
BY ClaimInv, LockInv, EvaluateInv, DecideInv, RollBackInv, ResolveInv, BlacklistInv, OutboxInv,
   StutterInv
   DEF RiskNext, CheckoutNext

LEMMA Invariance == RiskSpec => []IInv
BY InitInv, StepInv, PTL DEF RiskSpec

----------------------------------------------------------------------------
(* The counts of the events                                                 *)

\* A processor remembers of an event in its batch a count from before a claim, so
\* less than the row has, which never falls: also after the lease is lost.
EventInv(c) ==
    /\ ~Ordered(c) => event[c].st = "NONE" /\ event[c].attempts = 0
    /\ event[c].st = "FAILED" => event[c].attempts > MaxAttempts
    /\ \A w \in Processors :
           c \in processor[w].batch => processor[w].attempts[c] < event[c].attempts

LEMMA EventInit == RiskInit => \A c \in Checkouts : EventInv(c)
BY DEF RiskInit, EventInv, Ordered, NoEvent, Resting

\* A row changes in a way that keeps its count, and no batch gains it.
LEMMA EventKept ==
  ASSUME NEW c \in Checkouts, IInv, EventInv(c), Ordered(c)' <=> Ordered(c),
         event'[c].attempts = event[c].attempts,
         ~Ordered(c) => event'[c].st = "NONE",
         event'[c].st = "FAILED" => event[c].attempts > MaxAttempts,
         \A w \in Processors :
             c \in processor'[w].batch =>
                 c \in processor[w].batch /\ processor'[w].attempts[c] = processor[w].attempts[c]
  PROVE  EventInv(c)'
BY DEF EventInv

LEMMA LeavesKeep ==
  ASSUME IInv, NEW w \in Processors, NEW d \in Checkouts, Leaves(w, d)
  PROVE  \A v \in Processors, c \in Checkouts :
             c \in processor'[v].batch =>
                 c \in processor[v].batch /\ processor'[v].attempts[c] = processor[v].attempts[c]
<1> SUFFICES ASSUME NEW v \in Processors, NEW c \in Checkouts, c \in processor'[v].batch
             PROVE  c \in processor[v].batch /\ processor'[v].attempts[c] = processor[v].attempts[c]
  OBVIOUS
<1> DEFINE p == processor[w]
           left == [p EXCEPT !.batch = p.batch \ {d}, !.attempts = [p.attempts EXCEPT ![d] = 0]]
<1>1. processor \in [Processors -> ProcessorRecord] /\ p \in ProcessorRecord
  BY DEF IInv, RiskTypeOK, ProcessorRecord
<1>2. left.batch = p.batch \ {d} /\ \A e \in Checkouts \ {d} : left.attempts[e] = p.attempts[e]
  BY <1>1 DEF ProcessorRecord
<1>3. processor' = [processor EXCEPT ![w] = IF p.batch = {d} THEN Resting ELSE left]
  BY DEF Leaves
<1> HIDE DEF left
<1>4. CASE v # w
  BY <1>1, <1>3, <1>4
<1>5. CASE v = w
  <2>1. processor'[v] = left
    BY <1>1, <1>3, <1>5 DEF Resting
  <2> QED
    BY <1>2, <1>5, <2>1
<1> QED
  BY <1>4, <1>5

LEMMA EventStep ==
  ASSUME IInv, \A c \in Checkouts : EventInv(c), [RiskNext]_riskVars
  PROVE  \A c \in Checkouts : EventInv(c)'
<1> SUFFICES ASSUME NEW c \in Checkouts PROVE EventInv(c)'
  OBVIOUS
<1>0. /\ event \in [Checkouts -> EventRecord] /\ processor \in [Processors -> ProcessorRecord]
      /\ EventInv(c)
  BY DEF IInv, RiskTypeOK, EventRecord, ProcessorRecord
<1>1. CASE UNCHANGED <<risked, event, processor>>
  BY <1>0, <1>1 DEF EventInv, Ordered
<1>2. ASSUME NEW d \in Checkouts, Decide(d) PROVE EventInv(c)'
  <2>1. UNCHANGED processor /\ ~Ordered(d)
    BY <1>2 DEF Decide, IInv, CheckoutInv, AtWork
  <2>2. CASE d # c \/ UNCHANGED <<risked, event>>
    <3>1. event'[c] = event[c] /\ risked'[c] = risked[c]
      BY <1>2, <2>2, <1>0 DEF Decide, IInv, RiskTypeOK
    <3> QED
      BY <1>0, <2>1, <3>1 DEF EventInv, Ordered
  <2>3. CASE d = c /\ ~UNCHANGED <<risked, event>>
    <3> DEFINE row == [NoEvent EXCEPT !.st = "PENDING", !.due = TRUE]
    <3>1. row.st = "PENDING" /\ row.attempts = 0
      BY DEF NoEvent
    <3>2. event' = [event EXCEPT ![c] = row]
      BY <1>2, <2>3 DEF Decide
    <3>3. event'[c].st = "PENDING" /\ event'[c].attempts = 0 /\ event[c].attempts = 0
      BY <1>0, <2>1, <2>3, <3>1, <3>2 DEF EventInv
    <3>4. Ordered(c)'
      BY <1>2, <2>1, <2>3, DecideOrders DEF Decide, Ordered, IInv, RiskTypeOK
    <3> QED
      BY <1>0, <2>1, <3>3, <3>4 DEF EventInv
  <2> QED
    BY <2>2, <2>3
<1>3. ASSUME NEW d \in Checkouts, ResolveReview(d) PROVE EventInv(c)'
  <2>1. Ordered(c)' <=> Ordered(c)
    BY <1>3 DEF ResolveReview, Ordered, IInv, RiskTypeOK
  <2> QED
    BY <1>0, <1>3, <2>1 DEF ResolveReview, EventInv
<1>4. CASE OutboxNext
  <2>0. Ordered(c)' <=> Ordered(c)
    BY <1>4 DEF OutboxNext, Time, Recover, ClaimEvents, ClaimThrows, Dispatch, Publish, FailPublish,
                Crash, checkoutVars, Ordered
  <2>1. ASSUME NEW d \in Checkouts, Time(d) PROVE EventInv(c)'
    <3>1. event'[c].attempts = event[c].attempts /\ event'[c].st = event[c].st
      BY <1>0, <2>1 DEF Time, EventRecord
    <3> QED
      BY <1>0, <2>0, <2>1, <3>1, EventKept DEF Time, EventInv
  <2>2. ASSUME NEW w \in Processors, Recover(w) PROVE EventInv(c)'
    <3>1. /\ event'[c].attempts = event[c].attempts
          /\ event'[c].st = event[c].st \/ (event[c].st = "PROCESSING" /\ event'[c].st = "PENDING")
      BY <1>0, <2>2 DEF Recover, Recoverable, EventRecord
    <3>2. \A v \in Processors : /\ processor'[v].batch = processor[v].batch
                               /\ processor'[v].attempts = processor[v].attempts
      BY <1>0, <2>2 DEF Recover, ProcessorRecord
    <3> QED
      BY <1>0, <2>0, <3>1, <3>2, EventKept DEF EventInv
  <2>3. ASSUME NEW w \in Processors, ClaimEvents(w) PROVE EventInv(c)'
    <3> DEFINE claimed(r) == [r EXCEPT !.st = "PROCESSING", !.lapsed = FALSE, !.attempts = @ + 1]
               counts(batch) == [d \in Checkouts |-> IF d \in batch THEN event[d].attempts ELSE 0]
               carried(batch) == [pc |-> "publish", batch |-> batch, attempts |-> counts(batch)]
    <3>1. PICK batch \in SUBSET {d \in Checkouts : event[d].st = "PENDING" /\ event[d].due} :
              /\ processor' = [processor EXCEPT ![w] = IF batch = {} THEN Resting ELSE carried(batch)]
              /\ event' = [d \in Checkouts |-> IF d \notin batch THEN event[d] ELSE claimed(event[d])]
      BY <2>3 DEF ClaimEvents
    <3>2. \A v \in Processors \ {w} : processor'[v] = processor[v]
      BY <1>0, <3>1
    <3>3. /\ batch = {} => processor'[w].batch = {}
          /\ batch # {} => processor'[w].batch = batch
                              /\ (c \in batch => processor'[w].attempts[c] = event[c].attempts)
      BY <1>0, <3>1 DEF Resting
    <3>4. CASE c \notin batch
      <4>1. event'[c] = event[c] /\ c \notin processor'[w].batch
        BY <3>1, <3>3, <3>4
      <4> QED
        BY <1>0, <2>0, <3>2, <4>1, EventKept DEF EventInv
    <3>5. CASE c \in batch
      <4>1. event[c] \in EventRecord /\ event'[c] = claimed(event[c]) /\ event[c].st = "PENDING"
        BY <1>0, <3>1, <3>5
      <4>2. /\ event'[c].attempts = event[c].attempts + 1 /\ event'[c].st = "PROCESSING"
            /\ event[c].attempts \in Nat
        BY <4>1 DEF EventRecord
      <4>3. \A v \in Processors : processor[v].attempts[c] \in Nat
        BY <1>0 DEF ProcessorRecord
      <4>4. Ordered(c)'
        BY <1>0, <2>0, <4>1 DEF EventInv
      <4>5. ASSUME NEW v \in Processors, c \in processor'[v].batch
            PROVE  processor'[v].attempts[c] < event'[c].attempts
        <5>1. CASE v = w
          BY <3>3, <3>5, <4>2, <5>1
        <5>2. CASE v # w
          <6>1. processor'[v] = processor[v] /\ processor[v].attempts[c] < event[c].attempts
            BY <1>0, <3>2, <4>5, <5>2 DEF EventInv
          <6> QED
            BY <4>2, <4>3, <6>1
        <5> QED
          BY <5>1, <5>2
      <4> QED
        BY <4>2, <4>4, <4>5 DEF EventInv
    <3> QED
      BY <3>4, <3>5
  <2>4. ASSUME NEW w \in Processors, NEW d \in Checkouts, Publish(w, d) PROVE EventInv(c)'
    <3>1. /\ event'[c].attempts = event[c].attempts
          /\ event'[c].st = event[c].st \/ (event[c].st = "PROCESSING" /\ event'[c].st = "PROCESSED")
      BY <1>0, <2>4 DEF Publish, EventRecord
    <3> QED
      BY <1>0, <2>0, <2>4, <3>1, LeavesKeep, EventKept DEF Publish, EventInv
  <2>5. ASSUME NEW w \in Processors, NEW d \in Checkouts, FailPublish(w, d) PROVE EventInv(c)'
    <3>1. CASE d # c
      <4>1. event'[c] = event[c]
        BY <1>0, <2>5, <3>1 DEF FailPublish
      <4> QED
        BY <1>0, <2>0, <2>5, <4>1, LeavesKeep, EventKept DEF FailPublish, EventInv
    <3>2. CASE d = c
      <4> DEFINE gone == [event[c] EXCEPT !.st = "FAILED", !.lapsed = FALSE]
                 later == [event[c] EXCEPT !.st = "PENDING", !.lapsed = FALSE, !.due = FALSE]
      <4>1. processor[w].attempts[c] < event[c].attempts
        BY <1>0, <2>5, <3>2 DEF FailPublish, EventInv
      <4>2. processor[w].attempts[c] \in Nat /\ event[c].attempts \in Nat
        BY <1>0 DEF ProcessorRecord, EventRecord
      <4>3. /\ gone.st = "FAILED" /\ gone.attempts = event[c].attempts
            /\ later.st = "PENDING" /\ later.attempts = event[c].attempts
        BY <1>0 DEF EventRecord
      <4>4. event'[c] = IF GivesUp(processor[w].attempts[c]) THEN gone ELSE later
        BY <1>0, <2>5, <3>2 DEF FailPublish
      <4>5. event'[c].st = "FAILED" => event[c].attempts > MaxAttempts
        <5> HIDE DEF gone, later
        <5> QED
          BY <4>1, <4>2, <4>3, <4>4, RiskAssumption DEF GivesUp
      <4>6. event'[c].attempts = event[c].attempts /\ Ordered(c)
        <5>1. event'[c].attempts = event[c].attempts
          BY <4>3, <4>4
        <5>2. Ordered(c)
          BY <1>0, <4>1, <4>2 DEF EventInv
        <5> QED
          BY <5>1, <5>2
      <4> QED
        BY <1>0, <2>0, <2>5, <4>5, <4>6, LeavesKeep, EventKept DEF FailPublish
    <3> QED
      BY <3>1, <3>2
  <2>6. ASSUME NEW w \in Processors, Crash(w) \/ ClaimThrows(w) PROVE EventInv(c)'
    <3>1. \A v \in Processors : processor'[v] = processor[v] \/ processor'[v].batch = {}
      BY <1>0, <2>6 DEF Crash, ClaimThrows, Resting
    <3>2. UNCHANGED event
      BY <2>6 DEF Crash, ClaimThrows
    <3> QED
      BY <1>0, <2>0, <3>1, <3>2, EventKept DEF EventInv
  <2> QED
    BY <1>4, <2>1, <2>2, <2>3, <2>4, <2>5, <2>6 DEF OutboxNext, Dispatch
<1>5. CASE UNCHANGED riskVars
  BY <1>1, <1>5 DEF riskVars
<1>6. CASE BlacklistNext
  BY <1>1, <1>6 DEF BlacklistNext, CreateBlacklist, RevokeBlacklist, Expires
<1>7. ASSUME NEW d \in Checkouts, Claim(d) \/ LockSubject(d) \/ Evaluate(d) \/ RollBack(d)
      PROVE  EventInv(c)'
  BY <1>1, <1>7 DEF Claim, LockSubject, Evaluate, RollBack
<1> QED
  BY <1>2, <1>3, <1>4, <1>5, <1>6, <1>7 DEF RiskNext, CheckoutNext

----------------------------------------------------------------------------
(* Theorems                                                                 *)

\* Rows of the right type, and one order for a key, whatever calls race for it.
THEOREM CheckoutIsSafe == RiskSpec => []RiskSafety
<1>1. IInv => RiskSafety
  BY DEF IInv, RiskSafety
<1> QED
  BY <1>1, Invariance, PTL

\* No event is given up before it was claimed more often than MAX_ATTEMPTS, however
\* many processors remember old counts of it.
THEOREM GivenUpLast == RiskSpec => []GivenUpWhenExhausted
<1> DEFINE E == \A c \in Checkouts : EventInv(c)
<1>1. RiskInit => E
  BY EventInit
<1>2. IInv /\ E /\ [RiskNext]_riskVars => E'
  BY EventStep
<1>3. E => GivenUpWhenExhausted
  BY DEF EventInv, GivenUpWhenExhausted
<1> HIDE DEF E
<1> QED
  BY <1>1, <1>2, <1>3, Invariance, PTL DEF RiskSpec

\* No order is placed against a block that was in the blacklist by then.
THEOREM BlockedPlaceNoOrder == RiskSpec => NoOrderOfBlocked
<1> DEFINE A == \A c \in Checkouts :
                    ~Ordered(c) /\ Ordered(c)' => checkout[c].blind \/ ~Barred(checkout[c].form)
<1>1. ASSUME IInv, [RiskNext]_riskVars PROVE [A]_riskVars
  <2> SUFFICES ASSUME NEW c \in Checkouts, ~Ordered(c), Ordered(c)'
               PROVE  checkout[c].blind \/ ~Barred(checkout[c].form)
    OBVIOUS
  <2>1. Decide(c)
    <3>1. UNCHANGED risked => FALSE
      BY DEF Ordered
    <3>2. \A d \in Checkouts : Decide(d) => d = c
      BY <1>1, DecideOrders
    <3>3. \A d \in Checkouts : ~ResolveReview(d)
      BY <1>1 DEF ResolveReview, Ordered, IInv, RiskTypeOK
    <3>4. CASE \E d \in Checkouts :
                  Claim(d) \/ LockSubject(d) \/ Evaluate(d) \/ RollBack(d)
      BY <3>1, <3>4 DEF Claim, LockSubject, Evaluate, RollBack
    <3>5. CASE BlacklistNext \/ OutboxNext \/ UNCHANGED riskVars
      BY <3>1, <3>5
         DEF BlacklistNext, CreateBlacklist, RevokeBlacklist, Expires, OutboxNext, Time, Recover,
             ClaimEvents, ClaimThrows, Dispatch, Publish, FailPublish, Crash, checkoutVars, riskVars
    <3> QED
      BY <1>1, <3>2, <3>3, <3>4, <3>5 DEF RiskNext, CheckoutNext
  <2>2. ~checkout[c].hard
    BY <1>1, <2>1 DEF Decide, Ordered
  <2>3. CheckoutInv(c) /\ checkout[c].pc = "decide"
    BY <1>1, <2>1 DEF IInv, Decide
  <2> QED
    BY <2>2, <2>3 DEF CheckoutInv
<1>2. IInv /\ [RiskNext]_riskVars => [A]_riskVars
  BY <1>1
<1> QED
  BY <1>2, Invariance, PTL DEF RiskSpec, NoOrderOfBlocked
=============================================================================

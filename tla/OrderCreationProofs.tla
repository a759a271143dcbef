------------------------ MODULE OrderCreationProofs ------------------------
(***************************************************************************)
(* Proofs about OrderCreation for any products, carts, calls of create,    *)
(* administrators, limits and pools: types, the balance of the stock, the  *)
(* coupon, the absence of waiting circles, and the refinement of           *)
(* StockLedger.                                                            *)
(*                                                                         *)
(* The invariant says what a transaction may rely on because of the rows   *)
(* it has locked (CallInv, AdminInv) and that locks exclude (LocksExclude).*)
(* The steps that touch one call, or one administrator, are treated at     *)
(* once (CallAlone, AdminAlone): what they lock was free.                  *)
(***************************************************************************)
EXTENDS OrderCreation, SetSums

USE DEF desk

\* What a call of create may rely on.  Once its products are locked, the stock
\* it read is the stock there is, and it is enough; while it holds the coupon,
\* the count it read is the count there is, and there is a redemption left.
StockHolds(c) ==
    \A p \in Products : HasItems(c, p) =>
        /\ p \in call[c].locked
        /\ call[c].read[p] = product[p]
        /\ call[c].req.cart[p].total <= product[p].qty

CallInv(c) ==
    /\ call[c].pc \in {"idle", "verify"} => call[c].attempt = 0
    /\ call[c].pc = "connect" => call[c].attempt < MaxRetries
    /\ call[c].locked # {} => call[c].pc \in InTransaction
    /\ \A p \in call[c].locked : HasItems(c, p)
    /\ \A p \in call[c].locked, q \in ToLock(c) : p < q
    /\ call[c].pc \in {"number", "redeem", "insert"} => StockHolds(c)
    /\ CouponHeld(c) => call[c].count = coupon.used /\ UnderLimit(c)
    /\ call[c].pc # "placed" => ~Placed(c) /\ c \notin usages

\* A row is locked by one transaction at most.
LocksExclude ==
    /\ \A c \in Calls : \A d \in Calls \ {c} :
           /\ call[c].locked \cap call[d].locked = {}
           /\ ~(CouponHeld(c) /\ CouponHeld(d))
    /\ \A c \in Calls, a \in Admins : call[c].locked \cap admin[a].locked = {}
    /\ \A a \in Admins : \A b \in Admins \ {a} :
           /\ admin[a].locked \cap admin[b].locked = {}
           /\ admin[a].pc = "restock" /\ admin[b].pc = "restock" => admin[a].target # admin[b].target

\* The order whose items are given back has not given them back.
AdminInv(a) ==
    /\ admin[a].pc = "idle" => admin[a].locked = {}
    /\ admin[a].pc = "restock" =>
           admin[a].target \in Calls /\ Restocks(order[admin[a].target].status, admin[a].to)

\* The orders administrators have still to save have been placed.
UnsavedInv == \A e \in unsaved.order : Placed(e.id) /\ e.row.status # "ABSENT"

IInv ==
    /\ TypeOK
    /\ UnsavedInv
    /\ \A c \in Calls : CallInv(c)
    /\ \A a \in Admins : AdminInv(a)
    /\ LocksExclude

----------------------------------------------------------------------------
(* Types and the initial states                                             *)

CallRecord ==
    [pc : Steps \cup Ends, req : Requests, attempt : 0 .. MaxRetries,
     locked : SUBSET Products, seen : SUBSET Calls, count : Nat, read : [Products -> Stock]]

LEMMA RequestType ==
  ASSUME NEW r \in Requests, NEW p \in Products
  PROVE  /\ r.coupon \in BOOLEAN /\ r.method \in Methods
         /\ r.cart[p].total \in Nat /\ r.cart[p].sized \in 0 .. r.cart[p].total
BY CreationAssumption DEF Item

LEMMA InitInv == Init => IInv
<1> SUFFICES ASSUME Init PROVE IInv
  OBVIOUS
<1> USE CreationAssumption DEF Init
<1>1. product \in [Products -> Stock]
  BY DEF Stock
<1>2. coupon \in Coupon
  BY DEF Coupon
<1>3. order \in [Calls -> OrderRow]
  BY DEF OrderRow, NoOrder
<1>4. \A c \in Calls : \E r \in Requests : call[c] = NoCall(r)
  OBVIOUS
<1>5. \A r \in Requests : NoCall(r) \in CallRecord
  BY DEF NoCall, CallRecord, Steps, NoStock, Stock
<1>6. call \in [Calls -> CallRecord]
  BY <1>5
<1>7. admin \in [Admins -> [pc : {"idle", "restock"}, target : Calls \cup {None},
                              to : OrderStatus, locked : SUBSET Products]]
  BY DEF NoChange, OrderStatus
<1>8. TypeOK
  BY <1>1, <1>2, <1>3, <1>6, <1>7 DEF TypeOK, CallRecord
<1>12. UnsavedInv
  BY DEF UnsavedInv
<1>9. ASSUME NEW c \in Calls PROVE CallInv(c)
  BY <1>4 DEF CallInv, NoCall, StockHolds, CouponHeld, Placed, NoOrder, InTransaction, ToLock
<1>10. \A a \in Admins : AdminInv(a)
  BY DEF AdminInv, NoChange
<1>11. LocksExclude
  BY <1>4 DEF LocksExclude, NoCall, NoChange, CouponHeld
<1> QED
  BY <1>8, <1>9, <1>10, <1>11, <1>12 DEF IInv

----------------------------------------------------------------------------
(* A call alone                                                             *)

\* A step that changes the record of one call and nothing else.  What it locks
\* was free, and so was the coupon when it takes it.
CallAlone(c) ==
    /\ call' = [call EXCEPT ![c] = call'[c]]
    /\ call'[c] \in CallRecord
    /\ call'[c].req = call[c].req
    /\ \A p \in call'[c].locked : p \in call[c].locked \/ ProductFree(p)
    /\ CouponHeld(c)' => CouponHeld(c) \/ CouponFree
    /\ CallInv(c)'
    /\ UNCHANGED <<product, coupon, usages, order, admin, desk, pool>>

\* A call that ends without an order, or starts anew, holds nothing.
LEMMA Releases ==
  ASSUME IInv, NEW c \in Calls, call[c].pc # "placed",
         NEW x \in CallRecord, x.req = call[c].req, x.locked = {},
         x.pc \in (Ends \ {"placed"}) \cup {"connect"},
         x.pc = "connect" => x.attempt < MaxRetries,
         call' = [call EXCEPT ![c] = x],
         UNCHANGED <<product, coupon, usages, order, admin, desk, pool>>
  PROVE  CallAlone(c)
<1>1. call'[c] = x
  BY DEF IInv, TypeOK
<1>2. CallInv(c)'
  BY <1>1 DEF CallInv, CouponHeld, Placed, Ends, InTransaction, IInv
<1> QED
  BY <1>1, <1>2 DEF CallAlone, CouponHeld, Ends

LEMMA CallType ==
  ASSUME TypeOK, NEW c \in Calls
  PROVE  call[c] \in CallRecord /\ call[c].req \in Requests
BY DEF TypeOK, CallRecord

LEMMA AnswersAlone ==
  ASSUME IInv, NEW c \in Calls, NEW end \in Ends \ {"placed"}, call[c].pc # "placed",
         Answers(c, end),
         UNCHANGED <<product, coupon, usages, order, admin, desk, pool>>
  PROVE  CallAlone(c)
<1> DEFINE x == [NoCall(call[c].req) EXCEPT !.pc = end]
<1>1. call[c].req \in Requests
  BY CallType DEF IInv
<1>2. x \in CallRecord
  <2>1. 0 \in 0 .. MaxRetries /\ 0 \in Nat
    BY CreationAssumption
  <2> QED
    BY <1>1, <2>1 DEF NoCall, CallRecord, NoStock, Stock
<1>3. x.req = call[c].req /\ x.locked = {} /\ x.pc = end
  BY DEF NoCall
<1>4. end # "connect"
  BY DEF Ends
<1> QED
  BY <1>2, <1>3, <1>4, Releases DEF Answers

LEMMA GoesAlone ==
  ASSUME IInv, NEW c \in Calls, NEW step \in Steps, Goes(c, step),
         \/ call[c].pc = "idle" /\ step = "verify"
         \/ call[c].pc = "verify" /\ step = "connect"
         \/ /\ call[c].pc = "number" /\ step \in {"redeem", "insert"}
            /\ step = "insert" => ~call[c].req.coupon,
         UNCHANGED <<product, coupon, usages, order, admin, desk, pool>>
  PROVE  CallAlone(c)
<1> DEFINE x == [call[c] EXCEPT !.pc = step]
<1>1. call[c] \in CallRecord
  BY CallType DEF IInv
<1>2. call'[c] = x /\ x.pc = step /\ x.locked = call[c].locked /\ x.req = call[c].req
          /\ x.read = call[c].read /\ x.attempt = call[c].attempt
  BY <1>1 DEF Goes, IInv, TypeOK, CallRecord
<1>3. x \in CallRecord
  BY <1>1 DEF CallRecord
<1>4. CallInv(c)
  BY DEF IInv
<1>5. CallInv(c)'
  <2>1. StockHolds(c) => StockHolds(c)'
    BY <1>2 DEF StockHolds, HasItems
  <2> QED
    BY <1>2, <1>4, <2>1, CreationAssumption
       DEF CallInv, CouponHeld, Placed, InTransaction, HasItems, ToLock
<1> QED
  BY <1>2, <1>3, <1>5 DEF CallAlone, Goes, CouponHeld

LEMMA SubmitAlone == ASSUME IInv, NEW c \in Calls, Submit(c) PROVE CallAlone(c)
<1>1. CASE Goes(c, "verify")
  BY <1>1, GoesAlone DEF Submit, Steps
<1>2. CASE \E end \in {"replayed", "conflict"} : Answers(c, end)
  BY <1>2, AnswersAlone DEF Submit, Ends
<1> QED
  BY <1>1, <1>2 DEF Submit

LEMMA VerifyAlone == ASSUME IInv, NEW c \in Calls, VerifyPayment(c) PROVE CallAlone(c)
<1>1. CASE Goes(c, "connect")
  BY <1>1, GoesAlone DEF VerifyPayment, Steps
<1>2. CASE Answers(c, "refused")
  BY <1>2, AnswersAlone DEF VerifyPayment, Ends
<1> QED
  BY <1>1, <1>2 DEF VerifyPayment

LEMMA StartAlone == ASSUME IInv, NEW c \in Calls, StartTransaction(c) PROVE CallAlone(c)
<1> DEFINE x == [call[c] EXCEPT !.pc = "lock", !.attempt = @ + 1]
<1>1. call[c] \in CallRecord /\ CallInv(c)
  BY CallType DEF IInv
<1>2. call[c].pc = "connect" /\ call[c].locked = {} /\ call[c].attempt + 1 \in 0 .. MaxRetries
  BY <1>1, CreationAssumption DEF StartTransaction, CallInv, InTransaction, CallRecord
<1>3. call' = [call EXCEPT ![c] = x]
  BY DEF StartTransaction
<1>4. x \in CallRecord
  BY <1>1, <1>2 DEF CallRecord, Steps
<1>5. call'[c] = x /\ x.pc = "lock" /\ x.locked = {} /\ x.req = call[c].req
  BY <1>1, <1>2, <1>3 DEF IInv, TypeOK, CallRecord
<1>6. CallInv(c)'
  BY <1>1, <1>2, <1>5 DEF CallInv, CouponHeld, Placed, InTransaction, StartTransaction
<1> QED
  BY <1>3, <1>4, <1>5, <1>6 DEF CallAlone, StartTransaction, CouponHeld

\* The lowest of a set of products is in it.
LEMMA LowestIn ==
  ASSUME NEW S \in SUBSET Products, S # {}
  PROVE  Lowest(S) \in S /\ \A q \in S : Lowest(S) <= q
<1> DEFINE B == {1 .. p : p \in S}
<1>1. IsFiniteSet(Products)
  BY CreationAssumption, FS_Interval DEF Products
<1>2. B \in SUBSET SUBSET Products /\ B # {}
  <2>1. \A p \in S : 1 .. p \subseteq Products
    BY CreationAssumption DEF Products
  <2>2. PICK p \in S : TRUE
    OBVIOUS
  <2>3. 1 .. p \in B
    OBVIOUS
  <2> QED
    BY <2>1, <2>3
<1>3. \E s \in B : \A t \in B : t \subseteq s => t = s
  <2> HIDE DEF B
  <2> QED
    BY <1>1, <1>2, MinimalSubset
<1>4. \E p \in S : \A q \in S : 1 .. q \subseteq 1 .. p => 1 .. q = 1 .. p
  <2>1. PICK s \in B : \A t \in B : t \subseteq s => t = s
    BY <1>3
  <2>2. PICK p \in S : s = 1 .. p
    OBVIOUS
  <2>3. \A q \in S : 1 .. q \in B
    OBVIOUS
  <2>4. \A q \in S : 1 .. q \subseteq 1 .. p => 1 .. q = 1 .. p
    BY <2>1, <2>2, <2>3
  <2> QED
    BY <2>4
<1> PICK p \in S : \A q \in S : 1 .. q \subseteq 1 .. p => 1 .. q = 1 .. p
  BY <1>4
<1>5. ASSUME NEW q \in S PROVE p <= q
  <2>1. p \in Nat \ {0} /\ q \in Nat \ {0}
    BY DEF Products
  <2>2. q < p => 1 .. q \subseteq 1 .. p /\ p \in 1 .. p /\ p \notin 1 .. q
    BY <2>1
  <2> QED
    BY <2>1, <2>2
<1> QED
  BY <1>5 DEF Lowest

LEMMA LockAlone == ASSUME IInv, NEW c \in Calls, LockProduct(c) PROVE CallAlone(c)
<1> DEFINE p == NextToLock(c)
           x == [call[c] EXCEPT !.locked = @ \cup {p}]
<1>1. call[c] \in CallRecord /\ CallInv(c) /\ call[c].pc = "lock"
  BY CallType DEF IInv, LockProduct
<1>2. p \in ToLock(c) /\ \A q \in ToLock(c) : p <= q
  BY LowestIn DEF LockProduct, NextToLock, ToLock
<1>3. p \in Products /\ HasItems(c, p) /\ ProductFree(p)
  BY <1>2 DEF ToLock, LockProduct
<1>4. CASE call' = [call EXCEPT ![c] = x]
  <2>1. x \in CallRecord
    BY <1>1, <1>3 DEF CallRecord
  <2>2. call'[c] = x /\ x.pc = "lock" /\ x.req = call[c].req /\ x.locked = call[c].locked \cup {p}
    BY <1>1, <1>4 DEF IInv, TypeOK, CallRecord
  <2>3. ToLock(c)' = ToLock(c) \ {p}
    BY <2>2 DEF ToLock, HasItems
  <2>4. \A q \in x.locked, r \in ToLock(c)' : q < r
    <3>1. call[c].locked \subseteq Nat /\ ToLock(c) \subseteq Nat
      BY <1>1 DEF CallRecord, ToLock, Products
    <3> HIDE DEF p, x
    <3> QED
      BY <3>1, <2>2, <2>3, <1>1, <1>2 DEF CallInv
  <2>5. CallInv(c)'
    <3> HIDE DEF p, x
    <3> QED
      BY <1>1, <1>3, <2>2, <2>4 DEF CallInv, CouponHeld, Placed, InTransaction, LockProduct, HasItems
  <2> QED
    BY <1>3, <1>4, <2>1, <2>2, <2>5 DEF CallAlone, LockProduct, CouponHeld
<1>5. CASE Answers(c, "refused")
  BY <1>1, <1>5, AnswersAlone DEF LockProduct, Ends
<1> QED
  BY <1>4, <1>5 DEF LockProduct

LEMMA CheckAlone == ASSUME IInv, NEW c \in Calls, CheckStock(c) PROVE CallAlone(c)
<1> DEFINE x == [call[c] EXCEPT !.pc = "number", !.seen = usages, !.read = product]
<1>1. call[c] \in CallRecord /\ CallInv(c) /\ call[c].pc = "lock" /\ ToLock(c) = {}
  BY CallType DEF IInv, CheckStock
<1>2. CASE Enough(c) /\ call' = [call EXCEPT ![c] = x]
  <2>1. x \in CallRecord
    BY <1>1 DEF CallRecord, IInv, TypeOK, Steps
  <2>2. call'[c] = x /\ x.pc = "number" /\ x.req = call[c].req /\ x.locked = call[c].locked
            /\ x.read = product
    BY <1>1, <1>2 DEF IInv, TypeOK, CallRecord
  <2>3. StockHolds(c)'
    BY <1>1, <1>2, <2>2 DEF StockHolds, ToLock, HasItems, Enough, CheckStock
  <2>4. CallInv(c)'
    BY <1>1, <2>2, <2>3 DEF CallInv, CouponHeld, Placed, InTransaction, CheckStock, HasItems, ToLock
  <2> QED
    BY <1>2, <2>1, <2>2, <2>4 DEF CallAlone, CheckStock, CouponHeld
<1>3. CASE Answers(c, "refused")
  BY <1>1, <1>3, AnswersAlone DEF CheckStock, Ends
<1> QED
  BY <1>2, <1>3 DEF CheckStock

LEMMA DrawAlone == ASSUME IInv, NEW c \in Calls, DrawNumber(c) PROVE CallAlone(c)
<1>1. CASE call[c].req.coupon
  BY <1>1, GoesAlone DEF DrawNumber, Steps
<1>2. CASE ~call[c].req.coupon
  BY <1>2, GoesAlone DEF DrawNumber, Steps
<1> QED
  BY <1>1, <1>2

LEMMA RedeemAlone == ASSUME IInv, NEW c \in Calls, Redeem(c) PROVE CallAlone(c)
<1> DEFINE x == [call[c] EXCEPT !.pc = "insert", !.count = coupon.used]
<1>1. call[c] \in CallRecord /\ CallInv(c) /\ call[c].pc = "redeem"
  BY CallType DEF IInv, Redeem
<1>2. CASE UnderLimit(c) /\ call' = [call EXCEPT ![c] = x]
  <2>1. x \in CallRecord
    BY <1>1 DEF CallRecord, IInv, TypeOK, Coupon, Steps
  <2>2. call'[c] = x /\ x.pc = "insert" /\ x.req = call[c].req /\ x.locked = call[c].locked
            /\ x.read = call[c].read /\ x.count = coupon.used
    BY <1>1, <1>2 DEF IInv, TypeOK, CallRecord
  <2>3. StockHolds(c)'
    BY <1>1, <2>2 DEF CallInv, StockHolds, HasItems, Redeem
  <2>4. CallInv(c)'
    BY <1>1, <1>2, <2>2, <2>3
       DEF CallInv, CouponHeld, UnderLimit, Placed, InTransaction, Redeem, HasItems, ToLock
  <2> QED
    BY <1>2, <2>1, <2>2, <2>4 DEF CallAlone, Redeem
<1>3. CASE Answers(c, "refused")
  BY <1>1, <1>3, AnswersAlone DEF Redeem, Ends
<1> QED
  BY <1>2, <1>3 DEF Redeem

LEMMA FailAlone == ASSUME IInv, NEW c \in Calls, Fail(c) PROVE CallAlone(c)
BY AnswersAlone DEF Fail, InTransaction, Ends

LEMMA ContendAlone == ASSUME IInv, NEW c \in Calls, Contend(c) PROVE CallAlone(c)
<1> DEFINE x == [NoCall(call[c].req) EXCEPT !.pc = "connect", !.attempt = call[c].attempt]
<1>1. call[c] \in CallRecord /\ call[c].req \in Requests /\ call[c].pc # "placed"
  BY CallType DEF IInv, Contend, Waits
<1>2. CASE call[c].attempt < MaxRetries /\ call' = [call EXCEPT ![c] = x]
  <2>1. x \in CallRecord
    BY <1>1 DEF NoCall, CallRecord, NoStock, Stock, Steps
  <2>2. x.req = call[c].req /\ x.locked = {} /\ x.pc = "connect" /\ x.attempt = call[c].attempt
    BY DEF NoCall
  <2> QED
    BY <1>1, <1>2, <2>1, <2>2, Releases DEF Contend
<1>3. CASE Answers(c, "contended")
  BY <1>1, <1>3, AnswersAlone DEF Contend, Ends
<1> QED
  BY <1>2, <1>3 DEF Contend, TriesAgain

LEMMA AloneSteps ==
  ASSUME IInv, NEW c \in Calls,
         \/ Submit(c) \/ VerifyPayment(c) \/ StartTransaction(c) \/ LockProduct(c)
         \/ CheckStock(c) \/ DrawNumber(c) \/ Redeem(c) \/ Contend(c) \/ Fail(c)
  PROVE  CallAlone(c)
BY SubmitAlone, VerifyAlone, StartAlone, LockAlone, CheckAlone, DrawAlone, RedeemAlone,
   ContendAlone, FailAlone

----------------------------------------------------------------------------
(* What a call relies on is left alone by the others                        *)

LEMMA CallKept ==
  ASSUME IInv, NEW d \in Calls, call'[d] = call[d],
         \A p \in call[d].locked : product'[p] = product[p],
         CouponHeld(d) => UNCHANGED coupon,
         call[d].pc # "placed" => order'[d].status = order[d].status /\ d \notin usages'
  PROVE  CallInv(d)'
<1>1. CallInv(d)
  BY DEF IInv
<1>2. StockHolds(d) => StockHolds(d)'
  BY DEF StockHolds, HasItems
<1> QED
  BY <1>1, <1>2 DEF CallInv, CouponHeld, UnderLimit, Placed, HasItems, ToLock

LEMMA UnsavedKept ==
  ASSUME IInv, unsaved'.order \subseteq unsaved.order,
         \A d \in Calls : Placed(d) => order'[d].status # "ABSENT"
  PROVE  UnsavedInv'
<1>1. \A e \in unsaved.order : e.id \in Calls
  BY DEF IInv, TypeOK
<1> QED
  BY <1>1 DEF IInv, UnsavedInv, Placed

LEMMA AloneInv == ASSUME IInv, NEW c \in Calls, CallAlone(c) PROVE IInv'
<1> USE DEF CallAlone
<1>1. call' \in [Calls -> CallRecord] /\ \A d \in Calls \ {c} : call'[d] = call[d]
  <2>1. call \in [Calls -> CallRecord]
    BY DEF IInv, TypeOK, CallRecord
  <2> QED
    BY <2>1
<1>2. TypeOK'
  BY <1>1 DEF IInv, TypeOK, CallRecord
<1>3. ASSUME NEW d \in Calls PROVE CallInv(d)'
  <2>1. CASE d = c
    BY <2>1
  <2>2. CASE d # c
    BY <1>1, <2>2, CallKept DEF IInv, CallInv
  <2> QED
    BY <2>1, <2>2
<1>4. \A a \in Admins : AdminInv(a)'
  BY DEF IInv, AdminInv
<1>5. LocksExclude'
  <2>1. ASSUME NEW d \in Calls, NEW e \in Calls \ {d}
        PROVE  (call[d].locked \cap call[e].locked = {} /\ ~(CouponHeld(d) /\ CouponHeld(e)))'
    <3>1. \A f \in Calls \ {c} : CouponHeld(f)' <=> CouponHeld(f)
      BY <1>1 DEF CouponHeld
    <3>2. call[d].locked \cap call[e].locked = {} /\ ~(CouponHeld(d) /\ CouponHeld(e))
      BY DEF IInv, LocksExclude
    <3>3. CASE d = c
      BY <1>1, <3>1, <3>2, <3>3 DEF ProductFree, CouponFree
    <3>4. CASE e = c
      BY <1>1, <3>1, <3>2, <3>4 DEF ProductFree, CouponFree
    <3> QED
      BY <1>1, <3>1, <3>2, <3>3, <3>4
  <2>2. ASSUME NEW d \in Calls, NEW a \in Admins
        PROVE  call'[d].locked \cap admin'[a].locked = {}
    BY <1>1 DEF IInv, LocksExclude, ProductFree
  <2> QED
    BY <2>1, <2>2 DEF IInv, LocksExclude
<1>6. UnsavedInv'
  BY DEF IInv, UnsavedInv, Placed
<1> QED
  BY <1>2, <1>3, <1>4, <1>5, <1>6 DEF IInv

----------------------------------------------------------------------------
(* The commit of an order                                                   *)

\* What the commit does to the stock, given what the call relies on: the items
\* are there, and they leave the shelf.
LEMMA CommitTakes ==
  ASSUME IInv, NEW c \in Calls, Commit(c), NEW p \in Products
  PROVE  /\ call[c].req.cart[p].total <= product[p].qty
         /\ product'[p] \in Stock
         /\ product'[p].qty = product[p].qty - call[c].req.cart[p].total
         /\ p \notin call[c].locked => product'[p] = product[p]
<1> DEFINE item == call[c].req.cart[p]
           row == product[p]
<1>1. call[c] \in CallRecord /\ call[c].pc = "insert" /\ CallInv(c) /\ row \in Stock
  BY CallType DEF IInv, TypeOK, Commit
<1>2. item.total \in Nat /\ item.sized \in Nat
  BY <1>1, RequestType DEF CallRecord
<1>3. StockHolds(c)
  BY <1>1 DEF CallInv
<1>4. product'[p] = Taken(c)[p]
  BY DEF Commit
<1>5. CASE p \in call[c].locked
  <2>1. call[c].read[p] = row /\ item.total <= row.qty
    BY <1>1, <1>3, <1>5 DEF CallInv, StockHolds
  <2>2. product'[p] = [row EXCEPT !.qty = Less(@, item.total),
                                  !.size = IF p \in Sized THEN Less(@, item.sized) ELSE @]
    BY <1>4, <1>5, <2>1 DEF Taken
  <2>3. Less(row.qty, item.total) = row.qty - item.total
    BY <1>1, <1>2, <2>1 DEF Less, Stock
  <2>4. Less(row.size, item.sized) \in Nat
    BY <1>1, <1>2 DEF Less, Stock
  <2>5. row.qty - item.total \in Nat
    BY <1>1, <1>2, <2>1 DEF Stock
  <2> DEFINE size == IF p \in Sized THEN Less(row.size, item.sized) ELSE row.size
  <2>6. size \in Nat
    BY <1>1, <2>4 DEF Stock
  <2>7. product'[p] = [row EXCEPT !.qty = row.qty - item.total, !.size = size]
    BY <2>2, <2>3
  <2> HIDE DEF item, row, size
  <2>8. product'[p] \in Stock /\ product'[p].qty = row.qty - item.total
    BY <1>1, <2>5, <2>6, <2>7 DEF Stock
  <2> QED
    BY <1>5, <2>1, <2>8 DEF item, row
<1>6. CASE p \notin call[c].locked
  <2>1. item.total = 0
    BY <1>2, <1>3, <1>6 DEF StockHolds, HasItems
  <2>2. product'[p] = row
    BY <1>4, <1>6 DEF Taken
  <2> QED
    BY <1>1, <1>6, <2>1, <2>2 DEF Stock
<1> QED
  BY <1>5, <1>6

LEMMA CommitCall ==
  ASSUME IInv, NEW c \in Calls, Commit(c)
  PROVE  /\ call' \in [Calls -> CallRecord]
         /\ \A d \in Calls \ {c} : call'[d] = call[d]
         /\ call'[c].pc = "placed" /\ call'[c].locked = {} /\ call'[c].req = call[c].req
<1> DEFINE x == [NoCall(call[c].req) EXCEPT !.pc = "placed"]
<1>1. call[c].req \in Requests /\ call \in [Calls -> CallRecord]
  BY CallType DEF IInv, TypeOK, CallRecord
<1>2. x \in CallRecord
  <2>1. 0 \in 0 .. MaxRetries /\ 0 \in Nat
    BY CreationAssumption
  <2> QED
    BY <1>1, <2>1 DEF NoCall, CallRecord, NoStock, Stock, Ends
<1>3. x.pc = "placed" /\ x.locked = {} /\ x.req = call[c].req
  BY DEF NoCall
<1>4. call' = [call EXCEPT ![c] = x]
  BY DEF Commit, Answers
<1> HIDE DEF x
<1> QED
  BY <1>1, <1>2, <1>3, <1>4

LEMMA CommitInv == ASSUME IInv, NEW c \in Calls, Commit(c) PROVE IInv'
<1>1. call[c] \in CallRecord /\ call[c].pc = "insert" /\ CallInv(c)
  BY CallType DEF IInv, Commit
<1>2. TypeOK'
  <2>1. product' \in [Products -> Stock]
    <3>1. product' = [p \in Products |-> product'[p]]
      BY DEF Commit, Taken
    <3> QED
      BY <3>1, CommitTakes
  <2>2. order' \in [Calls -> OrderRow]
    <3> DEFINE row == [status |-> "PENDING", paid |-> call[c].req.method = "STRIPE",
                       deleted |-> FALSE]
    <3>1. row \in OrderRow
      BY DEF OrderRow, OrderStatus
    <3>2. order' = [order EXCEPT ![c] = row]
      BY DEF Commit
    <3> HIDE DEF row
    <3> QED
      BY <3>1, <3>2 DEF IInv, TypeOK
  <2>3. coupon' \in Coupon /\ usages' \subseteq Calls
    <3>1. coupon \in Coupon /\ usages \subseteq Calls /\ call[c].count \in Nat
      BY <1>1 DEF IInv, TypeOK, CallRecord
    <3> QED
      BY <3>1 DEF Commit, Coupon
  <2> QED
    BY <2>1, <2>2, <2>3, CommitCall DEF Commit, IInv, TypeOK, CallRecord
<1>3. ASSUME NEW d \in Calls PROVE CallInv(d)'
  <2>1. CASE d = c
    BY <2>1, CommitCall DEF CallInv, CouponHeld, InTransaction
  <2>2. CASE d # c
    <3>1. \A p \in call[d].locked : product'[p] = product[p]
      <4>1. call[d].locked \subseteq Products /\ call[c].locked \cap call[d].locked = {}
        BY <2>2, CallType DEF IInv, LocksExclude, CallRecord
      <4> QED
        BY <4>1, CommitTakes
    <3>2. CouponHeld(d) => UNCHANGED coupon
      BY <1>1, <2>2 DEF IInv, LocksExclude, CouponHeld, Commit
    <3>3. call[d].pc # "placed" => order'[d].status = order[d].status /\ d \notin usages'
      BY <2>2 DEF Commit, IInv, TypeOK, CallInv
    <3> QED
      BY <2>2, <3>1, <3>2, <3>3, CommitCall, CallKept
  <2> QED
    BY <2>1, <2>2
<1>4. ASSUME NEW a \in Admins PROVE AdminInv(a)'
  <2>1. admin[a].pc = "restock" => admin[a].target # c
    BY <1>1 DEF IInv, AdminInv, CallInv, Placed, Restocks, DeductedStatusGroup
  <2> QED
    BY <2>1 DEF IInv, TypeOK, AdminInv, Commit
<1>5. LocksExclude'
  <2>1. \A d \in Calls : call'[d].locked \subseteq call[d].locked /\ (CouponHeld(d)' => CouponHeld(d))
    BY CommitCall DEF CouponHeld
  <2>2. admin' = admin
    BY DEF Commit
  <2> QED
    BY <2>1, <2>2 DEF IInv, LocksExclude
<1>6. UnsavedInv'
  BY UnsavedKept DEF Commit, IInv, TypeOK, Placed
<1> QED
  BY <1>2, <1>3, <1>4, <1>5, <1>6 DEF IInv

----------------------------------------------------------------------------
(* Administrators                                                           *)

AdminRecord ==
    [pc : {"idle", "restock"}, target : Calls \cup {None}, to : OrderStatus,
     locked : SUBSET Products]

\* The calls rely on nothing that a step without them has changed.
LEMMA CallsKept ==
  ASSUME IInv, UNCHANGED <<call, usages>>,
         \A d \in Calls : order[d].status = "ABSENT" => order'[d].status = "ABSENT",
         \A d \in Calls : \A p \in call[d].locked : product'[p] = product[p],
         CouponFree \/ UNCHANGED coupon
  PROVE  \A d \in Calls : CallInv(d)'
<1> TAKE d \in Calls
<1>1. CallInv(d)
  BY DEF IInv
<1>2. CouponHeld(d) => UNCHANGED coupon
  BY DEF CouponFree
<1>3. call[d].pc # "placed" => order'[d].status = order[d].status /\ d \notin usages'
  BY <1>1 DEF CallInv, Placed
<1> QED
  BY <1>2, <1>3, CallKept

\* A step that changes the record of one administrator and nothing else.
AdminAlone(a) ==
    /\ admin' = [admin EXCEPT ![a] = admin'[a]]
    /\ admin'[a] \in AdminRecord
    /\ AdminInv(a)'
    /\ \A p \in admin'[a].locked : p \in admin[a].locked \/ ProductFree(p)
    /\ admin'[a].pc = "restock" =>
           \A b \in Admins \ {a} : admin[b].pc = "restock" => admin[b].target # admin'[a].target
    /\ UNCHANGED <<product, coupon, usages, order, call, desk, pool>>

LEMMA AdminAloneInv == ASSUME IInv, NEW a \in Admins, AdminAlone(a) PROVE IInv'
<1> USE DEF AdminAlone
<1>1. admin' \in [Admins -> AdminRecord] /\ \A b \in Admins \ {a} : admin'[b] = admin[b]
  <2>1. admin \in [Admins -> AdminRecord]
    BY DEF IInv, TypeOK, AdminRecord
  <2> QED
    BY <2>1
<1>2. TypeOK'
  BY <1>1 DEF IInv, TypeOK, AdminRecord
<1>3. \A d \in Calls : CallInv(d)'
  BY CallsKept
<1>4. \A b \in Admins : AdminInv(b)'
  BY <1>1 DEF IInv, AdminInv
<1>5. LocksExclude'
  <2>1. ASSUME NEW c \in Calls, NEW d \in Calls \ {c}
        PROVE  (call[c].locked \cap call[d].locked = {} /\ ~(CouponHeld(c) /\ CouponHeld(d)))'
    BY DEF IInv, LocksExclude, CouponHeld
  <2>2. ASSUME NEW d \in Calls, NEW b \in Admins
        PROVE  call'[d].locked \cap admin'[b].locked = {}
    BY <1>1 DEF IInv, LocksExclude, ProductFree
  <2>3. ASSUME NEW b \in Admins, NEW e \in Admins \ {b}
        PROVE  /\ admin'[b].locked \cap admin'[e].locked = {}
               /\ admin'[b].pc = "restock" /\ admin'[e].pc = "restock"
                      => admin'[b].target # admin'[e].target
    <3>1. /\ admin[b].locked \cap admin[e].locked = {}
          /\ admin[b].pc = "restock" /\ admin[e].pc = "restock"
                 => admin[b].target # admin[e].target
      BY DEF IInv, LocksExclude
    <3>2. CASE b = a
      BY <1>1, <3>1, <3>2 DEF ProductFree
    <3>3. CASE e = a
      BY <1>1, <3>1, <3>3 DEF ProductFree
    <3> QED
      BY <1>1, <3>1, <3>2, <3>3
  <2> QED
    BY <2>1, <2>2, <2>3 DEF LocksExclude
<1>6. UnsavedInv'
  BY DEF IInv, UnsavedInv, Placed
<1> QED
  BY <1>2, <1>3, <1>4, <1>5, <1>6 DEF IInv

LEMMA AdminType == ASSUME TypeOK, NEW a \in Admins PROVE admin[a] \in AdminRecord
BY DEF TypeOK, AdminRecord

LEMMA FailStatusInv == ASSUME IInv, NEW a \in Admins, FailStatus(a) PROVE IInv'
<1>1. admin' = [admin EXCEPT ![a] = NoChange] /\ admin'[a] = NoChange
  BY DEF FailStatus, IInv, TypeOK
<1>2. NoChange \in AdminRecord
  BY DEF NoChange, AdminRecord, OrderStatus
<1>3. AdminInv(a)'
  BY <1>1 DEF AdminInv, NoChange
<1>4. AdminAlone(a)
  <2>1. NoChange.locked = {} /\ NoChange.pc = "idle"
    BY DEF NoChange
  <2> QED
    BY <1>1, <1>2, <1>3, <2>1 DEF AdminAlone, FailStatus
<1> QED
  BY <1>4, AdminAloneInv

LEMMA LockReturnedInv == ASSUME IInv, NEW a \in Admins, LockReturned(a) PROVE IInv'
<1> DEFINE p == Lowest(ToRestock(a))
           y == [admin[a] EXCEPT !.locked = @ \cup {p}]
<1>1. admin[a] \in AdminRecord /\ admin[a].pc = "restock" /\ AdminInv(a)
  BY AdminType DEF IInv, LockReturned
<1>2. p \in Products /\ ProductFree(p)
  BY LowestIn DEF LockReturned, ToRestock
<1>3. admin' = [admin EXCEPT ![a] = y]
  BY DEF LockReturned
<1> HIDE DEF p
<1>4. y \in AdminRecord
  BY <1>1, <1>2 DEF AdminRecord
<1>5. admin'[a] = y /\ y.pc = "restock" /\ y.target = admin[a].target /\ y.to = admin[a].to
          /\ y.locked = admin[a].locked \cup {p}
  BY <1>1, <1>3 DEF IInv, TypeOK, AdminRecord
<1>6. AdminInv(a)'
  BY <1>1, <1>5 DEF AdminInv, LockReturned
<1>7. \A b \in Admins \ {a} : admin[b].pc = "restock" => admin[b].target # admin'[a].target
  BY <1>1, <1>5 DEF IInv, LocksExclude
<1>8. AdminAlone(a)
  BY <1>2, <1>3, <1>4, <1>5, <1>6, <1>7 DEF AdminAlone, LockReturned
<1> QED
  BY <1>8, AdminAloneInv

\* The row a status change leaves.
LEMMA DeliveredType ==
  ASSUME IInv, NEW o \in Calls, NEW to \in OrderStatus, Placed(o)
  PROVE  /\ Delivered(o, to) \in OrderRow
         /\ Delivered(o, to).status = to
         /\ to # "ABSENT"
<1>1. order[o] \in OrderRow /\ call[o].req \in Requests
  BY CallType DEF IInv, TypeOK
<1>2. to # "ABSENT"
  BY DEF OrderStatus
<1> QED
  BY <1>1, <1>2 DEF Delivered, OrderRow, OrderStatus

\* A status change of one order that no administrator is returning.
LEMMA OrderAloneInv ==
  ASSUME IInv, NEW o \in Calls, Placed(o), OrderFree(o), NEW row \in OrderRow,
         order' = [order EXCEPT ![o] = row], row.status # "ABSENT",
         \/ UNCHANGED <<unsaved, rewound>>
         \/ /\ \E e \in unsaved.order : Forgets("order", e)
            /\ rewound' \in {rewound, rewound \cup {o}},
         UNCHANGED <<product, coupon, usages, call, admin, form, supply, edits, pool>>
  PROVE  IInv'
<1>1. order' \in [Calls -> OrderRow] /\ \A d \in Calls \ {o} : order'[d] = order[d]
  BY DEF IInv, TypeOK
<1>7. /\ unsaved' \in [product : SUBSET [no : Nat, id : Products, row : Stock],
                      order : SUBSET [no : Nat, id : Calls, row : OrderRow],
                      coupon : SUBSET [no : Nat, row : Coupon]]
      /\ unsaved'.order \subseteq unsaved.order
      /\ rewound' \subseteq Calls
  <2>1. /\ unsaved \in [product : SUBSET [no : Nat, id : Products, row : Stock],
                       order : SUBSET [no : Nat, id : Calls, row : OrderRow],
                       coupon : SUBSET [no : Nat, row : Coupon]]
        /\ rewound \subseteq Calls
    BY DEF IInv, TypeOK
  <2>2. CASE UNCHANGED <<unsaved, rewound>>
    BY <2>1, <2>2
  <2>3. CASE /\ \E e \in unsaved.order : Forgets("order", e)
             /\ rewound' \in {rewound, rewound \cup {o}}
    <3> PICK e \in unsaved.order : unsaved' = [unsaved EXCEPT !["order"] = @ \ {e}]
      BY <2>3 DEF Forgets
    <3>1. unsaved'.order = unsaved.order \ {e} /\ unsaved'.product = unsaved.product
              /\ unsaved'.coupon = unsaved.coupon
      BY <2>1
    <3>2. unsaved' = [product |-> unsaved'.product, order |-> unsaved'.order,
                      coupon |-> unsaved'.coupon]
      BY <2>1
    <3>3. rewound' \subseteq Calls
      BY <2>1, <2>3
    <3> QED
      BY <2>1, <3>1, <3>2, <3>3
  <2> QED
    BY <2>2, <2>3
<1>2. TypeOK'
  BY <1>1, <1>7 DEF IInv, TypeOK
<1>8. UnsavedInv'
  <2>1. \A d \in Calls : Placed(d) => order'[d].status # "ABSENT"
    BY <1>1 DEF Placed, IInv, TypeOK
  <2> QED
    BY <1>7, <2>1, UnsavedKept
<1>3. \A d \in Calls : order[d].status = "ABSENT" => order'[d].status = "ABSENT"
  BY <1>1 DEF Placed
<1>4. \A d \in Calls : CallInv(d)'
  BY <1>3, CallsKept
<1>5. \A a \in Admins : AdminInv(a)'
  BY <1>1 DEF IInv, AdminInv, OrderFree
<1>6. LocksExclude'
  BY DEF IInv, LocksExclude, CouponHeld
<1> QED
  BY <1>2, <1>4, <1>5, <1>6, <1>8 DEF IInv

LEMMA ChangeStatusInv == ASSUME IInv, NEW a \in Admins, ChangeStatus(a) PROVE IInv'
<1>1. PICK o \in Placers, to \in Statuses :
          /\ OrderFree(o)
          /\ IF Restocks(order[o].status, to)
             THEN /\ admin' = [admin EXCEPT ![a] =
                         [pc |-> "restock", target |-> o, to |-> to, locked |-> {}]]
                  /\ UNCHANGED order
             ELSE /\ order' = [order EXCEPT ![o] = Delivered(o, to)]
                  /\ UNCHANGED admin
  BY DEF ChangeStatus
<1>2. o \in Calls /\ Placed(o) /\ to \in OrderStatus
  BY CreationAssumption DEF Placers
<1>3. CASE Restocks(order[o].status, to)
  <2> DEFINE y == [pc |-> "restock", target |-> o, to |-> to, locked |-> {}]
  <2>1. admin' = [admin EXCEPT ![a] = y] /\ admin'[a] = y /\ UNCHANGED order
    BY <1>1, <1>3 DEF IInv, TypeOK
  <2>2. y \in AdminRecord
    BY <1>2 DEF AdminRecord
  <2>3. AdminInv(a)'
    BY <1>2, <1>3, <2>1 DEF AdminInv
  <2>4. y.locked = {} /\ y.target = o
    OBVIOUS
  <2>5. \A b \in Admins \ {a} : admin[b].pc = "restock" => admin[b].target # o
    BY <1>1 DEF OrderFree
  <2> HIDE DEF y
  <2>6. AdminAlone(a)
    BY <2>1, <2>2, <2>3, <2>4, <2>5 DEF AdminAlone, ChangeStatus
  <2> QED
    BY <2>6, AdminAloneInv
<1>4. CASE ~Restocks(order[o].status, to)
  BY <1>1, <1>2, <1>4, DeliveredType, OrderAloneInv DEF ChangeStatus, IInv, TypeOK
<1> QED
  BY <1>3, <1>4

\* What the commit of a status change does to the stock: the items come back,
\* and the products without items, which are not locked, are left alone.
LEMMA CommitStatusReturns ==
  ASSUME IInv, NEW a \in Admins, CommitStatus(a), NEW p \in Products
  PROVE  /\ product'[p] \in Stock
         /\ product'[p].qty = product[p].qty + call[admin[a].target].req.cart[p].total
         /\ p \notin admin[a].locked => product'[p] = product[p]
<1> DEFINE o == admin[a].target
           item == call[o].req.cart[p]
           row == product[p]
           size == IF p \in Sized THEN row.size + item.sized ELSE row.size
           qty == row.qty + item.total
<1>1. o \in Calls /\ admin[a].pc = "restock" /\ ToRestock(a) = {}
  BY DEF IInv, AdminInv, CommitStatus
<1>2. item.total \in Nat /\ item.sized \in 0 .. item.total
  BY <1>1, CallType, RequestType DEF IInv
<1>3. product'[p] = [row EXCEPT !.qty = qty, !.size = size]
  BY DEF CommitStatus
<1>4. row \in Stock /\ row.qty \in Nat /\ row.size \in Nat /\ qty \in Nat /\ size \in Nat
  <2>1. row \in Stock
    BY DEF IInv, TypeOK
  <2>2. row.qty \in Nat /\ row.size \in Nat
    <3> HIDE DEF row
    <3> QED
      BY <2>1 DEF Stock
  <2>3. item.sized \in Nat
    <3> HIDE DEF item
    <3> QED
      BY <1>2
  <2> HIDE DEF row, item
  <2> QED
    BY <1>2, <2>1, <2>2, <2>3
<1>5. product'[p] \in Stock /\ product'[p].qty = qty
  <2> HIDE DEF row, size, qty
  <2> QED
    BY <1>3, <1>4 DEF Stock
<1>6. CASE p \notin admin[a].locked
  <2>1. item.total = 0 /\ item.sized = 0
    <3>1. ~HasItems(o, p)
      BY <1>1, <1>6 DEF ToRestock
    <3>2. ~(item.total > 0)
      BY <3>1 DEF HasItems
    <3> HIDE DEF item
    <3> QED
      BY <1>2, <3>2
  <2>2. qty = row.qty /\ size = row.size
    BY <1>4, <2>1
  <2>3. product'[p] = row
    <3> HIDE DEF row, size, qty
    <3> QED
      BY <1>3, <1>4, <2>2 DEF Stock
  <2> QED
    BY <1>5, <2>3
<1> QED
  BY <1>5, <1>6

LEMMA CommitStatusInv == ASSUME IInv, NEW a \in Admins, CommitStatus(a) PROVE IInv'
<1> DEFINE o == admin[a].target
           cart == call[o].req.cart
<1>1. admin[a] \in AdminRecord /\ admin[a].pc = "restock" /\ o \in Calls
          /\ Restocks(order[o].status, admin[a].to)
  BY AdminType DEF IInv, AdminInv, CommitStatus
<1>2. Placed(o) /\ admin[a].to \in OrderStatus
  BY <1>1 DEF Restocks, DeductedStatusGroup, Placed, AdminRecord
<1>3. order' = [order EXCEPT ![o] = Delivered(o, admin[a].to)]
  BY DEF CommitStatus
<1>4. /\ order' \in [Calls -> OrderRow]
      /\ \A d \in Calls \ {o} : order'[d] = order[d]
      /\ order'[o].status # "ABSENT"
  BY <1>1, <1>2, <1>3, DeliveredType DEF IInv, TypeOK
<1>5. ASSUME NEW p \in Products
      PROVE  /\ product'[p] \in Stock
             /\ product'[p].qty = product[p].qty + cart[p].total
             /\ p \notin admin[a].locked => product'[p] = product[p]
  BY CommitStatusReturns
<1>6. TypeOK'
  <2>1. product' = [p \in Products |-> product'[p]]
    BY DEF CommitStatus
  <2>2. product' \in [Products -> Stock]
    BY <1>5, <2>1
  <2>3. admin' \in [Admins -> AdminRecord]
    BY DEF CommitStatus, NoChange, IInv, TypeOK, AdminRecord, OrderStatus
  <2> QED
    BY <1>4, <2>2, <2>3 DEF CommitStatus, IInv, TypeOK, AdminRecord
<1>7. \A d \in Calls : CallInv(d)'
  <2>1. \A d \in Calls : order[d].status = "ABSENT" => order'[d].status = "ABSENT"
    BY <1>2, <1>4 DEF Placed
  <2>2. ASSUME NEW d \in Calls, NEW p \in call[d].locked PROVE product'[p] = product[p]
    <3>1. p \in Products
      BY CallType DEF IInv, CallRecord
    <3>2. p \notin admin[a].locked
      BY DEF IInv, LocksExclude
    <3> QED
      BY <1>5, <3>1, <3>2
  <2> QED
    BY <2>1, <2>2, CallsKept DEF CommitStatus
<1>8. ASSUME NEW b \in Admins PROVE AdminInv(b)' /\ admin'[b].locked \subseteq admin[b].locked
  <2>1. CASE b = a
    BY <2>1 DEF CommitStatus, NoChange, AdminInv, IInv, TypeOK
  <2>2. CASE b # a
    <3>1. admin'[b] = admin[b]
      BY <2>2 DEF CommitStatus, IInv, TypeOK
    <3>2. admin[b].pc = "restock" => admin[b].target # o
      BY <1>1, <2>2 DEF IInv, LocksExclude
    <3> QED
      BY <1>4, <3>1, <3>2 DEF IInv, AdminInv
  <2> QED
    BY <2>1, <2>2
<1>9. LocksExclude'
  <2>1. \A b \in Admins : admin'[b].pc = "restock" => admin'[b] = admin[b]
    BY DEF CommitStatus, NoChange, IInv, TypeOK
  <2>2. UNCHANGED call
    BY DEF CommitStatus
  <2> QED
    BY <1>8, <2>1, <2>2 DEF IInv, LocksExclude, CouponHeld
<1>10. UnsavedInv'
  <2>1. ASSUME NEW d \in Calls, Placed(d) PROVE order'[d].status # "ABSENT"
    <3>a. order'[o].status # "ABSENT" /\ \A e \in Calls \ {o} : order'[e] = order[e]
      BY <1>4
    <3> HIDE DEF o
    <3>1. CASE d = o
      BY <3>a, <3>1
    <3>2. CASE d # o
      BY <2>1, <3>a, <3>2 DEF Placed
    <3> QED
      BY <3>1, <3>2
  <2> QED
    BY <2>1, UnsavedKept DEF CommitStatus
<1> QED
  BY <1>6, <1>7, <1>8, <1>9, <1>10 DEF IInv

\* What a save leaves of an order.
LEMMA SaveOrderRow ==
  ASSUME IInv, SaveOrder
  PROVE  \E o \in Calls, row \in OrderRow :
            /\ Placed(o) /\ OrderFree(o) /\ row.status # "ABSENT"
            /\ order' = [order EXCEPT ![o] = row]
            /\ rewound' = IF row.status = order[o].status THEN rewound ELSE rewound \cup {o}
            /\ \E e \in unsaved.order : Forgets("order", e)
<1>1. PICK e \in unsaved.order :
          /\ OrderFree(e.id)
          /\ \E status \in {e.row.status, order[e.id].status},
                paid \in {e.row.paid, order[e.id].paid},
                deleted \in {e.row.deleted, e.row.deleted \/ order[e.id].deleted} :
                 /\ order' = [order EXCEPT ![e.id] =
                        [status |-> status, paid |-> paid, deleted |-> deleted]]
                 /\ rewound' = IF status = order[e.id].status THEN rewound
                               ELSE rewound \cup {e.id}
          /\ Forgets("order", e)
  BY DEF SaveOrder
<1>2. PICK status \in {e.row.status, order[e.id].status},
           paid \in {e.row.paid, order[e.id].paid},
           deleted \in {e.row.deleted, e.row.deleted \/ order[e.id].deleted} :
                 /\ order' = [order EXCEPT ![e.id] =
                        [status |-> status, paid |-> paid, deleted |-> deleted]]
                 /\ rewound' = IF status = order[e.id].status THEN rewound
                               ELSE rewound \cup {e.id}
  BY <1>1
<1>3. e.id \in Calls /\ e.row \in OrderRow /\ order[e.id] \in OrderRow
  BY DEF IInv, TypeOK
<1>4. Placed(e.id) /\ e.row.status # "ABSENT" /\ status # "ABSENT"
  BY DEF IInv, UnsavedInv, Placed
<1> DEFINE row == [status |-> status, paid |-> paid, deleted |-> deleted]
<1>5. row \in OrderRow
  <2>1. status \in OrderStatus \cup {"ABSENT"} /\ paid \in BOOLEAN /\ deleted \in BOOLEAN
    BY <1>3 DEF OrderRow
  <2> QED
    BY <2>1 DEF OrderRow
<1>6. row.status = status
  OBVIOUS
<1> HIDE DEF row
<1>7. order' = [order EXCEPT ![e.id] = row]
  BY <1>2 DEF row
<1> QED
  BY <1>1, <1>2, <1>3, <1>4, <1>5, <1>6, <1>7

LEMMA SaveOrderInv == ASSUME IInv, SaveOrder PROVE IInv'
<1>1. PICK o \in Calls, row \in OrderRow :
          /\ Placed(o) /\ OrderFree(o) /\ row.status # "ABSENT"
          /\ order' = [order EXCEPT ![o] = row]
          /\ rewound' = IF row.status = order[o].status THEN rewound ELSE rewound \cup {o}
          /\ \E e \in unsaved.order : Forgets("order", e)
  BY SaveOrderRow
<1>2. UNCHANGED <<product, coupon, usages, call, admin, form, supply, edits, pool>>
  BY DEF SaveOrder
<1> QED
  BY <1>1, <1>2, OrderAloneInv

\* The units in orders that keep their items.
LEMMA UnitsType ==
  ASSUME TypeOK, NEW p \in Products
  PROVE  /\ \A c \in Calls : Sold(c, p) \in Nat
         /\ ActiveUnits(p) \in Nat
<1>1. \A c \in Calls : Sold(c, p) \in Nat
  BY CallType, RequestType DEF Sold
<1> QED
  BY <1>1, SumType, CreationAssumption DEF ActiveUnits

Rows ==
    [product : SUBSET [no : Nat, id : Products, row : Stock],
     order : SUBSET [no : Nat, id : Calls, row : OrderRow],
     coupon : SUBSET [no : Nat, row : Coupon]]

\* A row that is read is remembered as it is, but for the flag.
LEMMA ReadInv ==
  ASSUME IInv, \/ \E c \in Calls : ReadOrder(c)
               \/ \E p \in Products : ReadProduct(p)
               \/ ReadCoupon
  PROVE  IInv'
<1>1. edits \in Nat /\ edits' \in 0 .. MaxEdits /\ unsaved \in Rows
  <2>1. Edit /\ edits \in 0 .. MaxEdits /\ unsaved \in Rows
    BY DEF ReadOrder, ReadProduct, ReadCoupon, IInv, TypeOK, Rows
  <2> QED
    BY <2>1, CreationAssumption DEF Edit
<1>2. unsaved' \in Rows /\ \A e \in unsaved'.order :
          e \in unsaved.order \/ (e.id \in Calls /\ Placed(e.id) /\ e.row.status # "ABSENT")
  <2>1. CASE \E c \in Calls : ReadOrder(c)
    <3> PICK c \in Calls : ReadOrder(c)
      BY <2>1
    <3> PICK removed \in BOOLEAN :
            Remembers("order",
                [no |-> edits, id |-> c, row |-> [order[c] EXCEPT !.deleted = removed]])
      BY DEF ReadOrder
    <3> DEFINE row == [order[c] EXCEPT !.deleted = removed]
               e == [no |-> edits, id |-> c, row |-> row]
    <3>1. row \in OrderRow /\ row.status = order[c].status
      <4>1. order[c] \in OrderRow
        BY DEF IInv, TypeOK
      <4> QED
        BY <4>1 DEF OrderRow
    <3>2. Placed(c) /\ unsaved' = [unsaved EXCEPT !["order"] = @ \cup {e}]
      BY DEF ReadOrder, Remembers
    <3> HIDE DEF row
    <3>3. e \in [no : Nat, id : Calls, row : OrderRow]
      BY <1>1, <3>1
    <3>4. e.id = c /\ e.row.status # "ABSENT"
      BY <3>1, <3>2 DEF Placed
    <3> HIDE DEF e
    <3> QED
      BY <1>1, <3>2, <3>3, <3>4 DEF Rows
  <2>2. CASE \E p \in Products : ReadProduct(p)
    <3> PICK p \in Products : ReadProduct(p)
      BY <2>2
    <3> DEFINE row == [product[p] EXCEPT !.live = FALSE]
               e == [no |-> edits, id |-> p, row |-> row]
    <3>1. row \in Stock
      <4>1. product[p] \in Stock
        BY DEF IInv, TypeOK
      <4> QED
        BY <4>1 DEF Stock
    <3>2. unsaved' = [unsaved EXCEPT !["product"] = @ \cup {e}]
      BY DEF ReadProduct, Remembers
    <3> HIDE DEF row
    <3>3. e \in [no : Nat, id : Products, row : Stock]
      BY <1>1, <3>1
    <3> HIDE DEF e
    <3> QED
      BY <1>1, <3>2, <3>3 DEF Rows
  <2>3. CASE ReadCoupon
    <3> DEFINE row == [coupon EXCEPT !.active = FALSE]
               e == [no |-> edits, row |-> row]
    <3>1. row \in Coupon
      <4>1. coupon \in Coupon
        BY DEF IInv, TypeOK
      <4> QED
        BY <4>1 DEF Coupon
    <3>2. unsaved' = [unsaved EXCEPT !["coupon"] = @ \cup {e}]
      BY <2>3 DEF ReadCoupon, Remembers
    <3> HIDE DEF row
    <3>3. e \in [no : Nat, row : Coupon]
      BY <1>1, <3>1
    <3> HIDE DEF e
    <3> QED
      BY <1>1, <3>2, <3>3 DEF Rows
  <2> QED
    BY <2>1, <2>2, <2>3
<1>3. UNCHANGED <<product, coupon, usages, order, call, admin, form, rewound, supply, pool>>
  BY DEF ReadOrder, ReadProduct, ReadCoupon
<1>4. TypeOK'
  BY <1>1, <1>2, <1>3 DEF IInv, TypeOK, Rows
<1>5. UnsavedInv'
  BY <1>2, <1>3 DEF IInv, UnsavedInv, Placed
<1>6. \A d \in Calls : CallInv(d)'
  BY <1>3, CallsKept
<1>7. (\A a \in Admins : AdminInv(a)') /\ LocksExclude'
  BY <1>3 DEF IInv, AdminInv, LocksExclude, CouponHeld
<1> QED
  BY <1>4, <1>5, <1>6, <1>7 DEF IInv

\* A save of the shop's data waits for the locks of the row it writes.
LEMMA SaveInv ==
  ASSUME IInv, SaveProduct \/ SaveCoupon PROVE IInv'
<1>1. unsaved' \in Rows /\ unsaved'.order = unsaved.order
  <2>1. unsaved \in Rows
    BY DEF IInv, TypeOK, Rows
  <2>2. CASE SaveProduct
    <3> PICK e \in unsaved.product : unsaved' = [unsaved EXCEPT !["product"] = @ \ {e}]
      BY <2>2 DEF SaveProduct, Forgets
    <3> QED
      BY <2>1 DEF Rows
  <2>3. CASE SaveCoupon
    <3> PICK e \in unsaved.coupon : unsaved' = [unsaved EXCEPT !["coupon"] = @ \ {e}]
      BY <2>3 DEF SaveCoupon, Forgets
    <3> QED
      BY <2>1 DEF Rows
  <2> QED
    BY <2>2, <2>3
<1>2. UNCHANGED <<usages, order, call, admin, form, rewound, supply, edits, pool>>
  BY DEF SaveProduct, SaveCoupon
<1>3. UNCHANGED product \/ \E q \in Products, row \in Stock :
          ProductFree(q) /\ product' = [product EXCEPT ![q] = row]
  <2>1. CASE SaveProduct
    <3>1. PICK e \in unsaved.product :
              /\ ProductFree(e.id)
              /\ \E qty \in {e.row.qty, product[e.id].qty},
                    size \in {e.row.size, product[e.id].size} :
                    product' = [product EXCEPT ![e.id] =
                                   [qty |-> qty, size |-> size, live |-> FALSE]]
      BY <2>1 DEF SaveProduct
    <3>2. e.id \in Products /\ e.row \in Stock /\ product[e.id] \in Stock
      BY DEF IInv, TypeOK
    <3>3. PICK qty \in Nat, size \in Nat :
              product' = [product EXCEPT ![e.id] = [qty |-> qty, size |-> size, live |-> FALSE]]
      BY <3>1, <3>2 DEF Stock
    <3>4. [qty |-> qty, size |-> size, live |-> FALSE] \in Stock
      BY DEF Stock
    <3> QED
      BY <3>1, <3>2, <3>3, <3>4
  <2>2. CASE SaveCoupon
    BY <2>2 DEF SaveCoupon
  <2> QED
    BY <2>1, <2>2
<1>4. UNCHANGED coupon \/ (CouponFree /\ coupon' \in Coupon)
  <2>1. CASE SaveCoupon
    <3>1. PICK e \in unsaved.coupon :
              /\ CouponFree
              /\ \E limit \in {e.row.limit, coupon.limit}, used \in {e.row.used, coupon.used} :
                    coupon' = [active |-> FALSE, limit |-> limit, used |-> used]
      BY <2>1 DEF SaveCoupon
    <3>2. e.row \in Coupon /\ coupon \in Coupon
      BY DEF IInv, TypeOK
    <3> QED
      BY <3>1, <3>2 DEF Coupon
  <2>2. CASE SaveProduct
    BY <2>2 DEF SaveProduct
  <2> QED
    BY <2>1, <2>2
<1>5. TypeOK'
  <2>1. product' \in [Products -> Stock]
    BY <1>3 DEF IInv, TypeOK
  <2>2. coupon' \in Coupon
    BY <1>4 DEF IInv, TypeOK
  <2> QED
    BY <1>1, <1>2, <2>1, <2>2 DEF IInv, TypeOK, Rows
<1>6. UnsavedInv'
  BY <1>1, <1>2 DEF IInv, UnsavedInv, Placed
<1>7. ASSUME NEW d \in Calls, NEW p \in call[d].locked PROVE product'[p] = product[p]
  <2>1. p \in Products
    BY CallType DEF IInv, CallRecord
  <2> QED
    BY <1>3, <2>1 DEF ProductFree, IInv, TypeOK
<1>8. \A d \in Calls : CallInv(d)'
  BY <1>2, <1>4, <1>7, CallsKept
<1>9. (\A a \in Admins : AdminInv(a)') /\ LocksExclude'
  BY <1>2 DEF IInv, AdminInv, LocksExclude, CouponHeld
<1> QED
  BY <1>5, <1>6, <1>8, <1>9 DEF IInv

\* An edit of the shop's data: it waits for the locks of the rows it writes.
LEMMA EditInv ==
  ASSUME IInv,
         (\E p \in Products : UpdateStock(p)) \/ CheckLimit \/ WriteLimit
  PROVE  IInv'
<1> USE CreationAssumption
<1>1. UNCHANGED <<call, admin, order, usages, unsaved, rewound, pool>>
  BY DEF UpdateStock, CheckLimit, WriteLimit
<1>2. TypeOK'
  <2>1. CASE \E p \in Products : UpdateStock(p)
    <3> PICK p \in Products, n \in StockForms :
            /\ product' = [product EXCEPT ![p].qty = n, ![p].size = IF p \in Sized THEN n ELSE @]
            /\ supply' = [supply EXCEPT ![p] = n + ActiveUnits(p)]
            /\ Edit
            /\ UNCHANGED <<coupon, form>>
      BY <2>1 DEF UpdateStock
    <3>1. n + ActiveUnits(p) \in Nat
      BY UnitsType DEF IInv
    <3> DEFINE size == IF p \in Sized THEN n ELSE product[p].size
    <3>2. product[p] \in Stock /\ size \in Nat /\ n \in Nat
      BY DEF IInv, TypeOK, Stock
    <3> DEFINE row == [product[p] EXCEPT !.qty = n, !.size = size]
    <3>3. product' = [product EXCEPT ![p] = row]
      OBVIOUS
    <3>4. product' \in [Products -> Stock]
      <4> HIDE DEF size
      <4>1. row \in Stock
        BY <3>2 DEF Stock
      <4> HIDE DEF row
      <4> QED
        BY <3>3, <4>1, ZenonT(90) DEF IInv, TypeOK
    <3> QED
      BY <1>1, <3>1, <3>4 DEF IInv, TypeOK, Edit
  <2>3. CASE CheckLimit
    BY <1>1, <2>3 DEF CheckLimit, Edit, IInv, TypeOK
  <2>4. CASE WriteLimit
    BY <1>1, <2>4 DEF WriteLimit, IInv, TypeOK, Coupon
  <2> QED
    BY <2>1, <2>3, <2>4
<1>3. ASSUME NEW d \in Calls, NEW p \in call[d].locked PROVE product'[p] = product[p]
  <2>1. p \in Products
    BY CallType DEF IInv, CallRecord
  <2> QED
    <3>1. CASE UNCHANGED product
      BY <3>1
    <3>2. CASE \E q \in Products : ProductFree(q) /\ product' = [product EXCEPT ![q] = product'[q]]
      BY <2>1, <3>2 DEF ProductFree, IInv, TypeOK
    <3>3. \A q \in Products :
             UpdateStock(q)
                 => ProductFree(q) /\ product' = [product EXCEPT ![q] = product'[q]]
      BY DEF UpdateStock, IInv, TypeOK
    <3> QED
      BY <3>1, <3>2, <3>3 DEF CheckLimit, WriteLimit
<1>4. CouponFree \/ UNCHANGED coupon
  BY DEF UpdateStock, CheckLimit, WriteLimit
<1>5. \A d \in Calls : CallInv(d)'
  BY <1>1, <1>3, <1>4, CallsKept
<1>6. (\A a \in Admins : AdminInv(a)') /\ LocksExclude'
  BY <1>1 DEF IInv, AdminInv, LocksExclude, CouponHeld
<1>7. UnsavedInv'
  BY <1>1 DEF IInv, UnsavedInv, Placed
<1> QED
  BY <1>2, <1>5, <1>6, <1>7 DEF IInv

LEMMA StepInv == IInv /\ [Next]_vars => IInv'
<1> SUFFICES ASSUME IInv, [Next]_vars PROVE IInv'
  OBVIOUS
<1>1. CASE \E c \in Calls :
              \/ Submit(c) \/ VerifyPayment(c) \/ StartTransaction(c) \/ LockProduct(c)
              \/ CheckStock(c) \/ DrawNumber(c) \/ Redeem(c) \/ Contend(c) \/ Fail(c)
  BY <1>1, AloneSteps, AloneInv
<1>2. CASE \E c \in Calls : Commit(c)
  BY <1>2, CommitInv
<1>3. CASE \/ \E c \in Calls : ReadOrder(c)
           \/ \E p \in Products : ReadProduct(p)
           \/ ReadCoupon
  BY <1>3, ReadInv
<1>7. CASE SaveOrder \/ SaveProduct \/ SaveCoupon
  BY <1>7, SaveOrderInv, SaveInv
<1>4. CASE \E a \in Admins :
              ChangeStatus(a) \/ LockReturned(a) \/ CommitStatus(a) \/ FailStatus(a)
  BY <1>4, ChangeStatusInv, LockReturnedInv, CommitStatusInv, FailStatusInv
<1>5. CASE (\E p \in Products : UpdateStock(p)) \/ CheckLimit \/ WriteLimit
  BY <1>5, EditInv
<1>6. CASE UNCHANGED vars
  BY <1>6 DEF vars, IInv, TypeOK, CallInv, StockHolds, HasItems, ToLock, CouponHeld, UnderLimit,
              Placed, AdminInv, LocksExclude, UnsavedInv
<1> QED
  BY <1>1, <1>2, <1>3, <1>4, <1>5, <1>6, <1>7 DEF Next, CreateStep, StatusStep

LEMMA Invariance == Spec => []IInv
BY InitInv, StepInv, PTL DEF Spec

\* Types: whatever the number of products, calls and administrators.
THEOREM TypeCorrect == Spec => []TypeOK
<1>1. IInv => TypeOK
  BY DEF IInv
<1> QED
  BY <1>1, Invariance, PTL

----------------------------------------------------------------------------
(* The coupon                                                               *)

\* The coupon and its redemptions change with a commit, and the coupon with
\* an edit.
LEMMA CouponSteps ==
  ASSUME IInv, [Next]_vars
  PROVE  \/ UNCHANGED <<coupon, usages>>
         \/ \E c \in Calls : Commit(c) /\ call[c].req.coupon
         \/ WriteLimit \/ SaveCoupon
<1>1. CASE \E c \in Calls :
              \/ Submit(c) \/ VerifyPayment(c) \/ StartTransaction(c) \/ LockProduct(c)
              \/ CheckStock(c) \/ DrawNumber(c) \/ Redeem(c) \/ Contend(c) \/ Fail(c)
  BY <1>1, AloneSteps DEF CallAlone
<1>2. CASE \E c \in Calls : Commit(c)
  BY <1>2 DEF Commit
<1>3. CASE \E a \in Admins :
              ChangeStatus(a) \/ LockReturned(a) \/ CommitStatus(a) \/ FailStatus(a)
  BY <1>3 DEF ChangeStatus, LockReturned, CommitStatus, FailStatus
<1>4. CASE \/ \E c \in Calls : ReadOrder(c)
           \/ \E p \in Products : UpdateStock(p) \/ ReadProduct(p)
           \/ CheckLimit \/ ReadCoupon \/ SaveOrder \/ SaveProduct
  BY <1>4 DEF ReadOrder, UpdateStock, ReadProduct, CheckLimit, ReadCoupon, SaveOrder, SaveProduct
<1>5. CASE UNCHANGED vars
  BY <1>5 DEF vars
<1> QED
  BY <1>1, <1>2, <1>3, <1>4, <1>5 DEF Next, CreateStep, StatusStep

\* A redemption counts one up, on the count there is and below the limit.
LEMMA Redemption ==
  ASSUME IInv, EveryUseCounted, NEW c \in Calls, Commit(c), call[c].req.coupon
  PROVE  /\ coupon.active /\ coupon' = [coupon EXCEPT !.used = Cardinality(usages')]
         /\ coupon.limit = 0 \/ Cardinality(usages') <= coupon.limit
<1>1. coupon' = [coupon EXCEPT !.used = call[c].count + 1] /\ usages' = usages \cup {c}
  BY DEF Commit
<1>2. call[c].count = coupon.used /\ c \notin usages /\ UnderLimit(c)
  BY DEF Commit, IInv, CallInv, CouponHeld
<1>3. IsFiniteSet(usages)
  BY CreationAssumption, FS_Subset DEF IInv, TypeOK
<1>4. Cardinality(usages \cup {c}) = Cardinality(usages) + 1
  BY <1>2, <1>3, FS_AddElement
<1>5. coupon.active /\ coupon.used = Cardinality(usages)
  BY <1>2 DEF EveryUseCounted, UnderLimit
<1>6. coupon.used \in Nat /\ coupon.limit \in Nat
  BY DEF IInv, TypeOK, Coupon
<1> QED
  BY <1>1, <1>2, <1>4, <1>5, <1>6 DEF UnderLimit

LEMMA UsesStep ==
  ASSUME IInv, EveryUseCounted, [Next]_vars PROVE EveryUseCounted'
<1>1. coupon \in Coupon
  BY DEF IInv, TypeOK
<1>2. CASE UNCHANGED <<coupon, usages>>
  BY <1>2 DEF EveryUseCounted
<1>3. CASE \E c \in Calls : Commit(c) /\ call[c].req.coupon
  BY <1>1, <1>3, Redemption DEF EveryUseCounted, Coupon
<1>4. CASE WriteLimit
  BY <1>1, <1>4 DEF WriteLimit, EveryUseCounted, Coupon
<1>5. CASE SaveCoupon
  <2>1. ~coupon'.active
    BY <1>5 DEF SaveCoupon
  <2> QED
    BY <2>1 DEF EveryUseCounted
<1> QED
  BY <1>2, <1>3, <1>4, <1>5, CouponSteps

\* The usage count is the number of redemptions while there can be another.
THEOREM UsesAreCounted == Spec => []EveryUseCounted
<1>1. Init => EveryUseCounted
  BY FS_EmptySet DEF Init, EveryUseCounted
<1> QED
  BY <1>1, UsesStep, Invariance, PTL DEF Spec

\* No redemption exceeds the limit of its moment, which may have been lowered
\* below the count by an administrator before.
THEOREM LimitIsKept == Spec => RedeemsWithinLimit
<1> DEFINE A == usages' # usages => coupon'.limit = 0 \/ Cardinality(usages') <= coupon'.limit
<1>1. ASSUME IInv, EveryUseCounted, [Next]_vars PROVE A
  <2>1. CASE UNCHANGED usages
    BY <2>1
  <2>2. CASE \E c \in Calls : Commit(c) /\ call[c].req.coupon
    <3>1. coupon \in Coupon
      BY <1>1 DEF IInv, TypeOK
    <3> QED
      BY <1>1, <2>2, <3>1, Redemption DEF Coupon
  <2> QED
    BY <1>1, <2>1, <2>2, CouponSteps DEF WriteLimit, SaveCoupon
<1>2. IInv /\ EveryUseCounted /\ [Next]_vars => [A]_vars
  BY <1>1
<1> QED
  BY <1>2, Invariance, UsesAreCounted, PTL DEF Spec, RedeemsWithinLimit

----------------------------------------------------------------------------
(* Waiting                                                                  *)

\* Creations lock their products in ascending order and the coupon last.  In a
\* set of calls that all wait within the set, nobody holds the coupon; when none
\* of them draws its number, there is one that waits for a product, for a
\* connection is held by one that does; and the one that waits for the highest
\* product waits for one that waits for a higher one.
LEMMA NoCircle == IInv => CreationsDoNotDeadlock
<1> SUFFICES ASSUME IInv, NEW R \in SUBSET Calls, R # {},
                    \A c \in R : WaitsWithin(c, R),
                    \A c \in R : call[c].pc # "number"
             PROVE  FALSE
  BY DEF CreationsDoNotDeadlock
<1> DEFINE S == {c \in R : call[c].pc = "lock"}
<1>a. \A c \in R : call[c].pc \in {"lock", "connect"}
  <2>1. \A c \in R : call[c].pc # "insert"
    BY DEF WaitsWithin, WaitsFor
  <2> QED
    BY <2>1 DEF WaitsWithin, WaitsFor, CouponHeld
<1>b. \A c \in S : ToLock(c) # {} /\ \E d \in S : NextToLock(c) \in call[d].locked
  <2> TAKE c \in S
  <2>1. PICK d \in R : WaitsFor(c, d)
    BY DEF WaitsWithin
  <2>2. NextToLock(c) \in call[d].locked /\ ToLock(c) # {}
    BY <2>1 DEF WaitsFor
  <2>3. call[d].pc \in InTransaction
    BY <2>2 DEF IInv, CallInv
  <2>4. d \in S
    BY <1>a, <2>3 DEF InTransaction
  <2> QED
    BY <2>2, <2>4
<1>c. S # {}
  <2> SUFFICES ASSUME S = {} PROVE FALSE
    OBVIOUS
  <2>1. PICK c \in R : call[c].pc = "connect"
    BY <1>a
  <2>2. /\ ~FreeConnection
        /\ \A d \in Calls : call[d].pc \in InTransaction => d \in R
        /\ \A a \in Admins : admin[a].pc = "idle"
    BY <2>1 DEF WaitsWithin, WaitsFor
  <2>3. {d \in Calls : call[d].pc \in InTransaction} = {}
    BY <1>a, <2>2 DEF InTransaction
  <2>4. {a \in Admins : admin[a].pc = "restock"} = {}
    BY <2>2
  <2>5. Cardinality({d \in Calls : call[d].pc \in InTransaction}) = 0
    BY <2>3, FS_EmptySet, Zenon
  <2>6. Cardinality({a \in Admins : admin[a].pc = "restock"}) = 0
    BY <2>4, FS_EmptySet, Zenon
  <2>7. InUse = 0
    BY <2>5, <2>6 DEF InUse
  <2> QED
    BY <2>2, <2>7, CreationAssumption DEF FreeConnection, IInv, TypeOK
<1>d. S \in SUBSET Calls
  OBVIOUS
<1> HIDE DEF S
<1> DEFINE n(c) == NextToLock(c)
<1>2. \A c \in S : n(c) \in Products /\ n(c) \in ToLock(c)
  <2>1. \A c \in S : ToLock(c) \in SUBSET Products
    BY DEF ToLock
  <2>2. \A c \in S : Lowest(ToLock(c)) \in ToLock(c)
    BY <1>b, <2>1, LowestIn
  <2> QED
    BY <2>1, <2>2 DEF NextToLock
<1>3. \A c \in S : \E d \in S : n(c) < n(d)
  <2> TAKE c \in S
  <2>1. PICK d \in S : n(c) \in call[d].locked
    BY <1>b
  <2>2. n(c) < n(d)
    BY <1>2, <1>d, <2>1 DEF IInv, CallInv
  <2> QED
    BY <2>2
<1> DEFINE Above(c) == n(c) .. NumProducts
           B == {Above(c) : c \in S}
<1>4. IsFiniteSet(Products)
  BY CreationAssumption, FS_Interval DEF Products
<1>5. B \in SUBSET SUBSET Products /\ B # {}
  <2>1. \A c \in S : Above(c) \subseteq Products
    BY <1>2, CreationAssumption DEF Products
  <2>2. PICK c \in S : TRUE
    BY <1>c
  <2>3. Above(c) \in B
    OBVIOUS
  <2> QED
    BY <2>1, <2>3
<1>6. \E s \in B : \A t \in B : t \subseteq s => t = s
  <2> HIDE DEF B
  <2> QED
    BY <1>4, <1>5, MinimalSubset
<1>7. PICK c \in S : \A t \in B : t \subseteq Above(c) => t = Above(c)
  BY <1>6
<1>8. PICK d \in S : n(c) < n(d)
  BY <1>3
<1>9. Above(d) \subseteq Above(c) /\ n(c) \in Above(c) /\ n(c) \notin Above(d)
  <2>1. n(c) \in 1 .. NumProducts /\ n(d) \in 1 .. NumProducts
    BY <1>2 DEF Products
  <2> HIDE DEF n
  <2> QED
    BY <2>1, <1>8, CreationAssumption
<1>10. Above(d) \in B
  OBVIOUS
<1> QED
  BY <1>7, <1>9, <1>10

\* Calls of create wait for each other in a circle only where the pool is
\* exhausted by a call that draws its number.
THEOREM NoDeadlockOfCreations == Spec => []CreationsDoNotDeadlock
BY NoCircle, Invariance, PTL

----------------------------------------------------------------------------
(* The stock                                                                *)

\* How the units in orders change when one order changes.
LEMMA UnitsChange ==
  ASSUME TypeOK, TypeOK', NEW p \in Products, NEW o \in Calls,
         \A c \in Calls : call'[c].req = call[c].req,
         \A c \in Calls \ {o} : order'[c].status = order[c].status
  PROVE  ActiveUnits(p)' = ActiveUnits(p) - Sold(o, p) + Sold(o, p)'
<1> DEFINE f == [c \in Calls |-> Sold(c, p)]
           g == [c \in Calls |-> Sold(c, p)']
<1>1. \A c \in Calls : Sold(c, p) \in Int /\ Sold(c, p)' \in Int
  <2>1. \A c \in Calls : Sold(c, p) \in Nat
    BY UnitsType
  <2>2. \A c \in Calls : Sold(c, p)' \in Nat
    BY CallType, RequestType DEF Sold
  <2> QED
    BY <2>1, <2>2
<1>2. \A c \in Calls \ {o} : Sold(c, p)' = Sold(c, p)
  BY DEF Sold
<1>3. SumFunctionOnSet(g, Calls) = SumFunctionOnSet(f, Calls) - f[o] + g[o]
  <2>1. \A c \in Calls : f[c] \in Int /\ g[c] \in Int
    BY <1>1
  <2>2. \A c \in Calls \ {o} : f[c] = g[c]
    BY <1>2
  <2> HIDE DEF f, g
  <2> QED
    BY <2>1, <2>2, SumChange, CreationAssumption
<1> QED
  BY <1>3 DEF ActiveUnits

\* ... and that they do not when none does.
LEMMA UnitsSame ==
  ASSUME TypeOK, TypeOK', NEW p \in Products,
         \A c \in Calls : call'[c].req = call[c].req,
         \A c \in Calls : Sold(c, p)' = Sold(c, p)
  PROVE  ActiveUnits(p)' = ActiveUnits(p)
<1> DEFINE f == [c \in Calls |-> Sold(c, p)]
           g == [c \in Calls |-> Sold(c, p)']
<1>1. f = g
  OBVIOUS
<1>2. ActiveUnits(p)' = SumFunctionOnSet(g, Calls) /\ ActiveUnits(p) = SumFunctionOnSet(f, Calls)
  BY DEF ActiveUnits
<1> QED
  BY <1>1, <1>2

\* A status that administrators may set keeps the group of the status, but for
\* a change that restocks.
LEMMA KeepsGroup ==
  ASSUME NEW from \in OrderStatus, NEW to \in AllowedOrderTransitions[from], ~Restocks(from, to)
  PROVE  from \in DeductedStatusGroup <=> to \in DeductedStatusGroup
BY DEF OrderStatus, AllowedOrderTransitions, Restocks, DeductedStatusGroup, RestockedStatusGroup

Balanced(p) == product[p].qty + ActiveUnits(p) = supply[p]

\* The books of one product in a step that changes no status of an order and no
\* quantity: they stay as they are.
LEMMA BooksSame ==
  ASSUME IInv, IInv', NEW p \in Products, Balanced(p),
         \A c \in Calls : call'[c].req = call[c].req /\ order'[c].status = order[c].status,
         product'[p].qty = product[p].qty,
         UNCHANGED supply
  PROVE  Balanced(p)'
<1>1. \A c \in Calls : Sold(c, p)' = Sold(c, p)
  BY DEF Sold
<1>2. ActiveUnits(p)' = ActiveUnits(p)
  BY <1>1, UnitsSame DEF IInv
<1> QED
  BY <1>2 DEF Balanced

LEMMA BooksOfCommit ==
  ASSUME IInv, IInv', NEW p \in Products, Balanced(p), NEW c \in Calls, Commit(c)
  PROVE  Balanced(p)'
<1> DEFINE total == call[c].req.cart[p].total
<1>1. \A d \in Calls : call'[d].req = call[d].req
  BY CommitCall
<1>2. order'[c].status = "PENDING" /\ \A d \in Calls \ {c} : order'[d].status = order[d].status
  BY DEF Commit, IInv, TypeOK
<1>3. Sold(c, p) = 0
  BY DEF IInv, CallInv, Placed, Commit, Sold, DeductedStatusGroup
<1>4. Sold(c, p)' = total
  BY <1>1, <1>2 DEF Sold, DeductedStatusGroup
<1>5. ActiveUnits(p)' = ActiveUnits(p) - Sold(c, p) + Sold(c, p)'
  BY <1>1, <1>2, UnitsChange DEF IInv
<1>6. product'[p].qty = product[p].qty - total
  BY CommitTakes
<1>7. product[p].qty \in Nat /\ ActiveUnits(p) \in Nat /\ total \in Nat
  BY UnitsType, CallType, RequestType DEF IInv, TypeOK, Stock
<1>8. supply' = supply /\ product[p].qty + ActiveUnits(p) = supply[p]
  BY DEF Commit, Balanced
<1> HIDE DEF total
<1> QED
  BY <1>3, <1>4, <1>5, <1>6, <1>7, <1>8 DEF Balanced

LEMMA BooksOfCommitStatus ==
  ASSUME IInv, IInv', NEW p \in Products, Balanced(p), NEW a \in Admins, CommitStatus(a)
  PROVE  Balanced(p)'
<1>0. PICK o \in Calls : o = admin[a].target
  BY DEF IInv, AdminInv, CommitStatus
<1> DEFINE total == call[o].req.cart[p].total
<1>1. Restocks(order[o].status, admin[a].to) /\ admin[a].to \in OrderStatus
  BY <1>0, AdminType DEF IInv, AdminInv, CommitStatus, AdminRecord
<1>2. Placed(o)
  BY <1>1 DEF Restocks, DeductedStatusGroup, Placed
<1>3. order'[o].status = admin[a].to /\ \A d \in Calls \ {o} : order'[d].status = order[d].status
  BY <1>0, <1>1, <1>2, DeliveredType DEF CommitStatus, IInv, TypeOK
<1>4. UNCHANGED <<call, supply>>
  BY DEF CommitStatus
<1>5. Sold(o, p) = total
  BY <1>1 DEF Sold, Restocks
<1>6. Sold(o, p)' = 0
  BY <1>1, <1>3 DEF Sold, Restocks, DeductedStatusGroup, RestockedStatusGroup
<1>7. ActiveUnits(p)' = ActiveUnits(p) - Sold(o, p) + Sold(o, p)'
  BY <1>1, <1>3, <1>4, UnitsChange DEF IInv
<1>8. product'[p].qty = product[p].qty + total
  BY <1>0, CommitStatusReturns
<1>9. product[p].qty \in Nat /\ ActiveUnits(p) \in Nat /\ total \in Nat
  BY <1>1, UnitsType, CallType, RequestType DEF IInv, TypeOK, Stock
<1>10. product[p].qty + ActiveUnits(p) = supply[p]
  BY DEF Balanced
<1> HIDE DEF total
<1> QED
  BY <1>4, <1>5, <1>6, <1>7, <1>8, <1>9, <1>10 DEF Balanced

LEMMA BooksOfChangeStatus ==
  ASSUME IInv, IInv', NEW p \in Products, Balanced(p), NEW a \in Admins, ChangeStatus(a)
  PROVE  Balanced(p)'
<1>1. PICK o \in Placers, to \in Statuses :
          /\ to \in AllowedOrderTransitions[order[o].status]
          /\ ~Restocks(order[o].status, to) => order' = [order EXCEPT ![o] = Delivered(o, to)]
          /\ Restocks(order[o].status, to) => UNCHANGED order
  BY DEF ChangeStatus
<1>2. o \in Calls /\ Placed(o) /\ to \in OrderStatus
  BY CreationAssumption DEF Placers
<1>3. UNCHANGED <<call, product, supply>>
  BY DEF ChangeStatus
<1>4. CASE Restocks(order[o].status, to)
  BY <1>1, <1>3, <1>4, BooksSame
<1>5. CASE ~Restocks(order[o].status, to)
  <2>1. order'[o].status = to /\ \A d \in Calls \ {o} : order'[d].status = order[d].status
    BY <1>1, <1>2, <1>5, DeliveredType DEF IInv, TypeOK
  <2>2. order[o].status \in OrderStatus
    BY <1>2 DEF IInv, TypeOK, OrderRow, Placed
  <2>3. order[o].status \in DeductedStatusGroup <=> to \in DeductedStatusGroup
    BY <1>1, <1>5, <2>2, KeepsGroup
  <2>4. \A c \in Calls : Sold(c, p)' = Sold(c, p)
    BY <1>3, <2>1, <2>3 DEF Sold
  <2>5. ActiveUnits(p)' = ActiveUnits(p)
    BY <1>3, <2>4, UnitsSame DEF IInv
  <2> QED
    BY <1>3, <2>5 DEF Balanced
<1> QED
  BY <1>4, <1>5

LEMMA BooksOfUpdate ==
  ASSUME IInv, IInv', NEW p \in Products, Balanced(p), NEW q \in Products, UpdateStock(q)
  PROVE  Balanced(p)'
<1>1. PICK n \in StockForms :
          /\ product' = [product EXCEPT ![q].qty = n, ![q].size = IF q \in Sized THEN n ELSE @]
          /\ supply' = [supply EXCEPT ![q] = n + ActiveUnits(q)]
  BY DEF UpdateStock
<1>2. UNCHANGED <<call, order>>
  BY DEF UpdateStock
<1>3. \A c \in Calls : Sold(c, p)' = Sold(c, p)
  BY <1>2 DEF Sold
<1>4. ActiveUnits(p)' = ActiveUnits(p)
  BY <1>2, <1>3, UnitsSame DEF IInv
<1>5. CASE p = q
  BY <1>1, <1>4, <1>5 DEF IInv, TypeOK, Stock, Balanced
<1>6. CASE p # q
  BY <1>1, <1>4, <1>6 DEF IInv, TypeOK, Balanced
<1> QED
  BY <1>5, <1>6

\* A save that changes the status of an order is remembered: the products whose
\* books are kept are not in it.
LEMMA BooksOfSaveOrder ==
  ASSUME IInv, IInv', NEW p \in Products, Balanced(p), SaveOrder, KeepsBooks(p)'
  PROVE  Balanced(p)'
<1>1. PICK o \in Calls, row \in OrderRow :
          /\ order' = [order EXCEPT ![o] = row]
          /\ rewound' = IF row.status = order[o].status THEN rewound ELSE rewound \cup {o}
  BY SaveOrderRow
<1>2. UNCHANGED <<product, call, supply>>
  BY DEF SaveOrder
<1>3. order'[o] = row /\ \A d \in Calls \ {o} : order'[d] = order[d]
  BY <1>1 DEF IInv, TypeOK
<1>4. ASSUME NEW c \in Calls PROVE Sold(c, p)' = Sold(c, p)
  <2>1. CASE order'[c].status = order[c].status
    BY <1>2, <2>1 DEF Sold
  <2>2. CASE order'[c].status # order[c].status
    <3>1. c \in rewound'
      BY <1>1, <1>3, <2>2
    <3>2. ~HasItems(c, p)
      BY <1>2, <3>1 DEF KeepsBooks, HasItems
    <3>3. call[c].req.cart[p].total = 0
      BY <3>2, CallType, RequestType DEF IInv, HasItems
    <3> QED
      BY <1>2, <3>3 DEF Sold
  <2> QED
    BY <2>1, <2>2
<1>5. ActiveUnits(p)' = ActiveUnits(p)
  BY <1>2, <1>4, UnitsSame DEF IInv
<1> QED
  BY <1>2, <1>5 DEF Balanced

\* A removed product stays removed, and an order whose status was set back stays
\* known.
LEMMA BooksKept ==
  ASSUME IInv, IInv', [Next]_vars, NEW p \in Products, KeepsBooks(p)'
  PROVE  KeepsBooks(p)
<1>1. rewound \subseteq rewound'
  BY DEF Next, vars, CreateStep, StatusStep, Submit, VerifyPayment, StartTransaction,
         LockProduct, CheckStock, DrawNumber, Redeem, Commit, Fail, Contend, ChangeStatus,
         LockReturned, CommitStatus, FailStatus, ReadOrder, SaveOrder, UpdateStock, ReadProduct,
         SaveProduct, CheckLimit, WriteLimit, ReadCoupon, SaveCoupon
<1>2. \A d \in Calls : call'[d].req = call[d].req
  <2>1. CASE \E c \in Calls :
                \/ Submit(c) \/ VerifyPayment(c) \/ StartTransaction(c) \/ LockProduct(c)
                \/ CheckStock(c) \/ DrawNumber(c) \/ Redeem(c) \/ Contend(c) \/ Fail(c)
    BY <2>1, AloneSteps DEF CallAlone, IInv, TypeOK
  <2>2. CASE \E c \in Calls : Commit(c)
    BY <2>2, CommitCall
  <2>3. CASE UNCHANGED call
    BY <2>3
  <2> QED
    BY <2>1, <2>2, <2>3
       DEF Next, vars, CreateStep, StatusStep, ChangeStatus, LockReturned, CommitStatus,
           FailStatus, ReadOrder, SaveOrder, UpdateStock, ReadProduct, SaveProduct, CheckLimit,
           WriteLimit, ReadCoupon, SaveCoupon
<1>3. product'[p].live => product[p].live
  <2>1. CASE UNCHANGED product
    BY <2>1
  <2>2. CASE \E c \in Calls : Commit(c)
    <3> PICK c \in Calls : Commit(c)
      BY <2>2
    <3>1. product'[p] = Taken(c)[p]
      BY DEF Commit
    <3>2. CASE p \in call[c].locked
      <4>1. call[c].read[p] = product[p]
        BY <3>2 DEF IInv, CallInv, StockHolds, Commit
      <4>2. product[p] \in Stock
        BY DEF IInv, TypeOK
      <4> QED
        BY <3>1, <3>2, <4>1, <4>2 DEF Taken, Stock
    <3>3. CASE p \notin call[c].locked
      BY <3>1, <3>3 DEF Taken
    <3> QED
      BY <3>2, <3>3
  <2>3. CASE \E a \in Admins : CommitStatus(a)
    <3> PICK a \in Admins : CommitStatus(a)
      BY <2>3
    <3> DEFINE item == call[admin[a].target].req.cart[p]
               row == product[p]
               qty == row.qty + item.total
               size == IF p \in Sized THEN row.size + item.sized ELSE row.size
    <3>1. product'[p] = [row EXCEPT !.qty = qty, !.size = size]
      BY DEF CommitStatus
    <3>2. row \in Stock
      BY DEF IInv, TypeOK
    <3> HIDE DEF row, qty, size
    <3>3. product'[p].live = row.live
      BY <3>1, <3>2 DEF Stock
    <3> QED
      BY <3>3 DEF row
  <2>4. CASE \E q \in Products : UpdateStock(q)
    BY <2>4 DEF UpdateStock, IInv, TypeOK, Stock
  <2>5. CASE SaveProduct
    BY <2>5 DEF SaveProduct, IInv, TypeOK
  <2> QED
    BY <2>1, <2>2, <2>3, <2>4, <2>5
       DEF Next, vars, CreateStep, StatusStep, Submit, VerifyPayment, StartTransaction,
           LockProduct, CheckStock, DrawNumber, Redeem, Fail, Contend, ChangeStatus,
           LockReturned, FailStatus, ReadOrder, SaveOrder, ReadProduct, CheckLimit, WriteLimit,
           ReadCoupon, SaveCoupon
<1> QED
  <2>1. \A c \in rewound : c \in Calls /\ c \in rewound'
    BY <1>1 DEF IInv, TypeOK
  <2>2. \A c \in Calls : HasItems(c, p)' <=> HasItems(c, p)
    BY <1>2 DEF HasItems
  <2> QED
    BY <1>3, <2>1, <2>2 DEF KeepsBooks

LEMMA BooksInit == Init => StockBalance
<1> SUFFICES ASSUME Init, NEW p \in Products PROVE Balanced(p)
  BY DEF Balanced, StockBalance
<1>1. \A c \in Calls : Sold(c, p) = 0
  BY DEF Init, NoOrder, Sold, DeductedStatusGroup
<1>2. ActiveUnits(p) = 0
  BY <1>1, SumZero, CreationAssumption DEF ActiveUnits
<1> QED
  BY <1>2, CreationAssumption DEF Init, Balanced

\* What is on the shelf and in orders is what was put up for sale.
THEOREM StockIsBalanced == Spec => []StockBalance
<1>1. ASSUME IInv, IInv', StockBalance, [Next]_vars PROVE StockBalance'
  <2> SUFFICES ASSUME NEW p \in Products, KeepsBooks(p)' PROVE Balanced(p)'
    BY DEF StockBalance, Balanced
  <2>a. Balanced(p)
    BY <1>1, BooksKept DEF StockBalance, Balanced
  <2>1. CASE \E c \in Calls :
                \/ Submit(c) \/ VerifyPayment(c) \/ StartTransaction(c) \/ LockProduct(c)
                \/ CheckStock(c) \/ DrawNumber(c) \/ Redeem(c) \/ Contend(c) \/ Fail(c)
    <3> PICK c \in Calls : CallAlone(c)
      BY <1>1, <2>1, AloneSteps
    <3>1. \A d \in Calls : call'[d].req = call[d].req
      BY <1>1 DEF CallAlone, IInv, TypeOK
    <3> QED
      BY <1>1, <2>a, <3>1, BooksSame DEF CallAlone
  <2>2. CASE \E c \in Calls : Commit(c)
    BY <1>1, <2>a, <2>2, BooksOfCommit
  <2>3. CASE \/ \E c \in Calls : ReadOrder(c)
             \/ \E q \in Products : ReadProduct(q)
             \/ ReadCoupon \/ CheckLimit \/ WriteLimit \/ SaveCoupon \/ UNCHANGED vars
    BY <1>1, <2>a, <2>3, BooksSame
       DEF ReadOrder, ReadProduct, ReadCoupon, CheckLimit, WriteLimit, SaveCoupon, vars
  <2>4. CASE \E a \in Admins : ChangeStatus(a)
    BY <1>1, <2>a, <2>4, BooksOfChangeStatus
  <2>5. CASE \E a \in Admins : CommitStatus(a)
    BY <1>1, <2>a, <2>5, BooksOfCommitStatus
  <2>6. CASE \E a \in Admins : LockReturned(a) \/ FailStatus(a)
    BY <1>1, <2>a, <2>6, BooksSame DEF LockReturned, FailStatus
  <2>7. CASE \E q \in Products : UpdateStock(q)
    BY <1>1, <2>a, <2>7, BooksOfUpdate
  <2>8. CASE SaveProduct
    <3>1. product'[p].qty = product[p].qty
      BY <1>1, <2>8 DEF SaveProduct, KeepsBooks, IInv, TypeOK
    <3> QED
      BY <1>1, <2>a, <2>8, <3>1, BooksSame DEF SaveProduct
  <2>9. CASE SaveOrder
    BY <1>1, <2>a, <2>9, BooksOfSaveOrder
  <2> QED
    BY <1>1, <2>1, <2>2, <2>3, <2>4, <2>5, <2>6, <2>7, <2>8, <2>9 DEF Next, CreateStep, StatusStep
<1> QED
  BY <1>1, BooksInit, Invariance, PTL DEF Spec

----------------------------------------------------------------------------
(* The abstract ledger                                                      *)

\* What the refinement mapping reads off the shop.
Shelf == [p \in Products |-> product[p].qty]
StateOf(c) ==
    IF ~Placed(c) THEN "none"
    ELSE IF order[c].status \in DeductedStatusGroup THEN "placed" ELSE "returned"
States == [c \in Calls |-> StateOf(c)]
CartOf(c) == [p \in Products |-> call[c].req.cart[p].total]
TakenBy(c) == [p \in Products |-> IF Placed(c) THEN call[c].req.cart[p].total ELSE 0]
TakenUnits == [c \in Calls |-> TakenBy(c)]

\* The steps of the ledger.
Places(c) ==
    /\ States[c] = "none"
    /\ \A p \in Products : CartOf(c)[p] <= Shelf[p]
    /\ States' = [States EXCEPT ![c] = "placed"]
    /\ TakenUnits' = [TakenUnits EXCEPT ![c] = CartOf(c)]
    /\ Shelf' = [p \in Products |-> Shelf[p] - CartOf(c)[p]]
    /\ UNCHANGED rewound

Returns(c) ==
    /\ States[c] = "placed"
    /\ States' = [States EXCEPT ![c] = "returned"]
    /\ Shelf' = [p \in Products |-> Shelf[p] + TakenUnits[c][p]]
    /\ UNCHANGED <<TakenUnits, rewound>>

SetsAnew(p) ==
    /\ Shelf'[p] \in Nat
    /\ Shelf' = [Shelf EXCEPT ![p] = Shelf'[p]]
    /\ UNCHANGED <<States, TakenUnits, rewound>>

Rewinds(c) ==
    /\ States[c] # "none"
    /\ \E again \in {"placed", "returned"} : States' = [States EXCEPT ![c] = again]
    /\ rewound' = rewound \cup {c}
    /\ UNCHANGED <<Shelf, TakenUnits>>

Stutters == UNCHANGED <<Shelf, States, TakenUnits, rewound>>

LEMMA LedgerStep ==
  ASSUME IInv, \/ \E c \in Calls : Places(c) \/ Returns(c) \/ Rewinds(c)
               \/ \E p \in Products : SetsAnew(p)
               \/ Stutters
  PROVE  [Ledger!LedgerNext]_<<Shelf, States, TakenUnits, rewound>>
<1>1. ASSUME NEW c \in Calls, Places(c) PROVE Ledger!LedgerNext
  <2>1. CartOf(c) \in {[p \in Products |-> r.cart[p].total] : r \in Requests}
    BY CallType DEF IInv, CartOf
  <2>2. PICK cart \in {[p \in Products |-> r.cart[p].total] : r \in Requests} : cart = CartOf(c)
    BY <2>1
  <2>3. Ledger!Place(c, cart)
    BY <1>1, <2>2 DEF Places, Ledger!Place, Shelf, States, StateOf, TakenUnits, TakenBy
  <2> QED
    BY <2>3 DEF Ledger!LedgerNext
<1>2. ASSUME NEW c \in Calls, Returns(c) PROVE Ledger!LedgerNext
  <2>1. Ledger!Return(c)
    BY <1>2 DEF Returns, Ledger!Return, Shelf, States, StateOf, TakenUnits, TakenBy
  <2> QED
    BY <2>1 DEF Ledger!LedgerNext
<1>3. ASSUME NEW p \in Products, SetsAnew(p) PROVE Ledger!LedgerNext
  <2>1. Ledger!SetAnew(p)
    BY <1>3 DEF SetsAnew, Ledger!SetAnew, Shelf, States, StateOf, TakenUnits, TakenBy
  <2> QED
    BY <2>1 DEF Ledger!LedgerNext
<1>4. ASSUME NEW c \in Calls, Rewinds(c) PROVE Ledger!LedgerNext
  <2>1. Ledger!Rewind(c)
    BY <1>4 DEF Rewinds, Ledger!Rewind, Shelf, States, StateOf, TakenUnits, TakenBy
  <2> QED
    BY <2>1 DEF Ledger!LedgerNext
<1> QED
  BY <1>1, <1>2, <1>3, <1>4 DEF Stutters

\* A step that changes no status and no quantity is none of the ledger's.
LEMMA LedgerStutters ==
  ASSUME IInv,
         \A c \in Calls : call'[c].req = call[c].req /\ order'[c].status = order[c].status,
         \A p \in Products : product'[p].qty = product[p].qty,
         UNCHANGED rewound
  PROVE  Stutters
<1>1. Shelf' = Shelf
  BY DEF Shelf
<1>2. \A c \in Calls : Placed(c)' = Placed(c)
  BY DEF Placed
<1>3. States' = States
  BY <1>2 DEF States, StateOf
<1>4. \A c \in Calls : TakenBy(c)' = TakenBy(c)
  BY <1>2 DEF TakenBy
<1>5. TakenUnits' = TakenUnits
  BY <1>4 DEF TakenUnits
<1> QED
  BY <1>1, <1>3, <1>5 DEF Stutters

LEMMA LedgerCommit == ASSUME IInv, NEW c \in Calls, Commit(c) PROVE Places(c)
<1>1. \A d \in Calls : call'[d].req = call[d].req
  BY CommitCall
<1>2. order'[c].status = "PENDING" /\ \A d \in Calls \ {c} : order'[d].status = order[d].status
  BY DEF Commit, IInv, TypeOK
<1>3. ~Placed(c) /\ Placed(c)'
  BY <1>2 DEF IInv, CallInv, Placed, Commit
<1>4. \A d \in Calls \ {c} : Placed(d)' = Placed(d)
  BY <1>2 DEF Placed
<1>5. States[c] = "none" /\ States' = [States EXCEPT ![c] = "placed"]
  <2>1. StateOf(c)' = "placed" /\ \A d \in Calls \ {c} : StateOf(d)' = StateOf(d)
    BY <1>2, <1>3, <1>4 DEF StateOf, DeductedStatusGroup
  <2> QED
    BY <1>3, <2>1 DEF States, StateOf
<1>6. TakenUnits' = [TakenUnits EXCEPT ![c] = CartOf(c)]
  <2>1. TakenBy(c)' = CartOf(c) /\ \A d \in Calls \ {c} : TakenBy(d)' = TakenBy(d)
    BY <1>1, <1>3, <1>4 DEF TakenBy, CartOf
  <2> QED
    BY <2>1 DEF TakenUnits
<1>7. \A p \in Products : CartOf(c)[p] <= Shelf[p]
  BY CommitTakes DEF CartOf, Shelf
<1>8. Shelf' = [p \in Products |-> Shelf[p] - CartOf(c)[p]]
  BY CommitTakes DEF CartOf, Shelf
<1> QED
  BY <1>5, <1>6, <1>7, <1>8 DEF Places, Commit

LEMMA LedgerReturn ==
  ASSUME IInv, NEW a \in Admins, CommitStatus(a)
  PROVE  \E o \in Calls : Returns(o)
<1>1. PICK o \in Calls : o = admin[a].target
  BY DEF IInv, AdminInv, CommitStatus
<1>2. Restocks(order[o].status, admin[a].to) /\ admin[a].to \in OrderStatus
  BY <1>1, AdminType DEF IInv, AdminInv, CommitStatus, AdminRecord
<1>3. Placed(o)
  BY <1>2 DEF Restocks, DeductedStatusGroup, Placed
<1>4. order'[o].status = admin[a].to /\ \A d \in Calls \ {o} : order'[d].status = order[d].status
  BY <1>1, <1>2, <1>3, DeliveredType DEF CommitStatus, IInv, TypeOK
<1>5. UNCHANGED call
  BY DEF CommitStatus
<1>6. \A d \in Calls : Placed(d)' = Placed(d)
  BY <1>2, <1>3, <1>4 DEF Placed, OrderStatus
<1>7. States[o] = "placed" /\ States' = [States EXCEPT ![o] = "returned"]
  <2>1. StateOf(o)' = "returned" /\ \A d \in Calls \ {o} : StateOf(d)' = StateOf(d)
    BY <1>2, <1>3, <1>4, <1>6 DEF StateOf, Restocks, DeductedStatusGroup, RestockedStatusGroup
  <2>2. StateOf(o) = "placed"
    BY <1>2, <1>3 DEF StateOf, Restocks
  <2> QED
    BY <2>1, <2>2 DEF States
<1>8. UNCHANGED TakenUnits
  <2>1. \A d \in Calls : TakenBy(d)' = TakenBy(d)
    BY <1>5, <1>6 DEF TakenBy
  <2> QED
    BY <2>1 DEF TakenUnits
<1>9. Shelf' = [p \in Products |-> Shelf[p] + TakenUnits[o][p]]
  BY <1>1, <1>3, CommitStatusReturns DEF Shelf, TakenUnits, TakenBy
<1> QED
  BY <1>7, <1>8, <1>9 DEF Returns, CommitStatus

LEMMA LedgerChangeStatus ==
  ASSUME IInv, NEW a \in Admins, ChangeStatus(a)
  PROVE  Stutters
<1>1. PICK o \in Placers, to \in Statuses :
          /\ to \in AllowedOrderTransitions[order[o].status]
          /\ ~Restocks(order[o].status, to) => order' = [order EXCEPT ![o] = Delivered(o, to)]
          /\ Restocks(order[o].status, to) => UNCHANGED order
  BY DEF ChangeStatus
<1>2. o \in Calls /\ Placed(o) /\ to \in OrderStatus
  BY CreationAssumption DEF Placers
<1>3. UNCHANGED <<call, product>>
  BY DEF ChangeStatus
<1>4. CASE Restocks(order[o].status, to)
  BY <1>1, <1>3, <1>4, LedgerStutters DEF ChangeStatus
<1>5. CASE ~Restocks(order[o].status, to)
  <2>1. order'[o].status = to /\ to # "ABSENT"
            /\ \A d \in Calls \ {o} : order'[d].status = order[d].status
    BY <1>1, <1>2, <1>5, DeliveredType DEF IInv, TypeOK
  <2>2. order[o].status \in OrderStatus
    BY <1>2 DEF IInv, TypeOK, OrderRow, Placed
  <2>3. order[o].status \in DeductedStatusGroup <=> to \in DeductedStatusGroup
    BY <1>1, <1>5, <2>2, KeepsGroup
  <2>4. \A c \in Calls : Placed(c)' = Placed(c) /\ StateOf(c)' = StateOf(c)
    BY <1>2, <2>1, <2>3 DEF Placed, StateOf
  <2>5. \A c \in Calls : TakenBy(c)' = TakenBy(c)
    BY <1>3, <2>4 DEF TakenBy
  <2> QED
    BY <1>3, <2>4, <2>5 DEF Stutters, Shelf, States, TakenUnits, ChangeStatus
<1> QED
  BY <1>4, <1>5

LEMMA LedgerUpdate ==
  ASSUME IInv, IInv', NEW q \in Products, UpdateStock(q)
  PROVE  SetsAnew(q)
<1>1. UNCHANGED <<call, order>> /\ \A p \in Products \ {q} : product'[p] = product[p]
  BY DEF UpdateStock, IInv, TypeOK
<1>2. product'[q].qty \in Nat
  BY DEF IInv, TypeOK, Stock
<1>3. Shelf' = [Shelf EXCEPT ![q] = Shelf'[q]]
  BY <1>1 DEF Shelf
<1>4. Shelf'[q] \in Nat
  BY <1>2 DEF Shelf
<1>5. UNCHANGED <<States, TakenUnits, rewound>>
  BY <1>1 DEF UpdateStock, States, StateOf, TakenUnits, TakenBy, Placed
<1> QED
  BY <1>3, <1>4, <1>5 DEF SetsAnew

\* A save of a product sets one quantity anew, a save of an order its state.
LEMMA LedgerSaveProduct ==
  ASSUME IInv, IInv', SaveProduct
  PROVE  \E q \in Products : SetsAnew(q)
<1>1. PICK q \in Products : \A p \in Products \ {q} : product'[p] = product[p]
  BY DEF SaveProduct, IInv, TypeOK
<1>2. UNCHANGED <<call, order, rewound>>
  BY DEF SaveProduct
<1>3. product'[q].qty \in Nat
  BY DEF IInv, TypeOK, Stock
<1>4. Shelf' = [Shelf EXCEPT ![q] = Shelf'[q]] /\ Shelf'[q] \in Nat
  BY <1>1, <1>3 DEF Shelf
<1>5. UNCHANGED <<States, TakenUnits>>
  BY <1>2 DEF States, StateOf, TakenUnits, TakenBy, Placed
<1> QED
  BY <1>2, <1>4, <1>5 DEF SetsAnew

LEMMA LedgerSaveOrder ==
  ASSUME IInv, SaveOrder
  PROVE  Stutters \/ \E o \in Calls : Rewinds(o)
<1>1. PICK o \in Calls, row \in OrderRow :
          /\ Placed(o) /\ row.status # "ABSENT"
          /\ order' = [order EXCEPT ![o] = row]
          /\ rewound' = IF row.status = order[o].status THEN rewound ELSE rewound \cup {o}
  BY SaveOrderRow
<1>2. UNCHANGED <<product, call>>
  BY DEF SaveOrder
<1>3. order'[o] = row /\ \A d \in Calls \ {o} : order'[d] = order[d]
  BY <1>1 DEF IInv, TypeOK
<1>4. \A d \in Calls : Placed(d)' = Placed(d)
  BY <1>1, <1>3 DEF Placed
<1>5. Shelf' = Shelf /\ TakenUnits' = TakenUnits
  <2>1. \A d \in Calls : TakenBy(d)' = TakenBy(d)
    BY <1>2, <1>4 DEF TakenBy
  <2> QED
    BY <1>2, <2>1 DEF Shelf, TakenUnits
<1>6. CASE row.status = order[o].status
  BY <1>1, <1>2, <1>3, <1>6, LedgerStutters
<1>7. CASE row.status # order[o].status
  <2>1. \A d \in Calls \ {o} : StateOf(d)' = StateOf(d)
    BY <1>3, <1>4 DEF StateOf
  <2>2. StateOf(o)' \in {"placed", "returned"} /\ StateOf(o) # "none"
    BY <1>1, <1>4 DEF StateOf
  <2>3. States' = [States EXCEPT ![o] = StateOf(o)']
    BY <2>1 DEF States
  <2> QED
    BY <1>1, <1>5, <1>7, <2>2, <2>3 DEF Rewinds, States
<1> QED
  BY <1>6, <1>7

LEMMA LedgerSimulates ==
  IInv /\ IInv' /\ [Next]_vars => [Ledger!LedgerNext]_<<Shelf, States, TakenUnits, rewound>>
<1> SUFFICES ASSUME IInv, IInv', [Next]_vars
             PROVE  [Ledger!LedgerNext]_<<Shelf, States, TakenUnits, rewound>>
  OBVIOUS
<1>1. CASE \E c \in Calls :
              \/ Submit(c) \/ VerifyPayment(c) \/ StartTransaction(c) \/ LockProduct(c)
              \/ CheckStock(c) \/ DrawNumber(c) \/ Redeem(c) \/ Contend(c) \/ Fail(c)
  <2> PICK c \in Calls : CallAlone(c)
    BY <1>1, AloneSteps
  <2>1. \A d \in Calls : call'[d].req = call[d].req
    BY DEF CallAlone, IInv, TypeOK
  <2> QED
    BY <2>1, LedgerStutters, LedgerStep DEF CallAlone
<1>2. CASE \E c \in Calls : Commit(c)
  BY <1>2, LedgerCommit, LedgerStep
<1>3. CASE SaveOrder
  BY <1>3, LedgerSaveOrder, LedgerStep
<1>4. CASE \E a \in Admins : ChangeStatus(a)
  BY <1>4, LedgerChangeStatus, LedgerStep
<1>5. CASE \E a \in Admins : CommitStatus(a)
  BY <1>5, LedgerReturn, LedgerStep
<1>6. CASE \E a \in Admins : LockReturned(a) \/ FailStatus(a)
  BY <1>6, LedgerStutters, LedgerStep DEF LockReturned, FailStatus
<1>7. CASE \E p \in Products : UpdateStock(p)
  BY <1>7, LedgerUpdate, LedgerStep
<1>8. CASE SaveProduct
  BY <1>8, LedgerSaveProduct, LedgerStep
<1>9. CASE \/ \E c \in Calls : ReadOrder(c)
           \/ \E p \in Products : ReadProduct(p)
           \/ ReadCoupon \/ CheckLimit \/ WriteLimit \/ SaveCoupon \/ UNCHANGED vars
  BY <1>9, LedgerStutters, LedgerStep
     DEF ReadOrder, ReadProduct, ReadCoupon, CheckLimit, WriteLimit, SaveCoupon, vars
<1> QED
  BY <1>1, <1>2, <1>3, <1>4, <1>5, <1>6, <1>7, <1>8, <1>9 DEF Next, CreateStep, StatusStep

LEMMA LedgerStarts == Init => Ledger!LedgerInit
<1> SUFFICES ASSUME Init PROVE Ledger!LedgerInit
  OBVIOUS
<1>1. \A c \in Calls : ~Placed(c)
  BY DEF Init, NoOrder, Placed
<1>2. Shelf \in [Products -> Nat]
  BY CreationAssumption DEF Init, Shelf
<1>3. \A c \in Calls : StateOf(c) = "none" /\ TakenBy(c) = [p \in Products |-> 0]
  BY <1>1 DEF StateOf, TakenBy
<1> QED
  BY <1>1, <1>2, <1>3 DEF Init, Ledger!LedgerInit, Shelf

\* Concurrent transactions on the stock implement the ledger, which knows none.
THEOREM TransactionsImplementLedger == Spec => LedgerHolds
<1>1. IInv /\ IInv' /\ [Next]_vars =>
          [Ledger!LedgerNext]_<<
              [p \in Products |-> product[p].qty],
              [c \in Calls |->
                  IF ~Placed(c) THEN "none"
                  ELSE IF order[c].status \in DeductedStatusGroup THEN "placed" ELSE "returned"],
              [c \in Calls |-> [p \in Products |->
                  IF Placed(c) THEN call[c].req.cart[p].total ELSE 0]],
              rewound>>
  BY LedgerSimulates DEF Shelf, States, StateOf, TakenUnits, TakenBy
<1> QED
  BY <1>1, LedgerStarts, Invariance, PTL DEF Spec, LedgerHolds, Ledger!LedgerSpec
=============================================================================

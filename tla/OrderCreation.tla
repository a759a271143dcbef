--------------------------- MODULE OrderCreation ---------------------------
(***************************************************************************)
(* Orders that are placed at the same time (OrdersService.create), the     *)
(* coupon they redeem (CouponService.redeemCouponInTransaction) and the    *)
(* administrators who change the status of an order, the stock of a        *)
(* product or the limit of a coupon meanwhile.                             *)
(*                                                                         *)
(* A call of create looks up its idempotency key, verifies a payment made  *)
(* in advance, and then works in a transaction: it locks its products in   *)
(* ascending order, checks the stock, draws an order number, locks the     *)
(* coupon, and writes everything.  Row locks last until the transaction    *)
(* ends, so what it writes under them is one action, Commit.  Other        *)
(* transactions see nothing of it before.                                  *)
(*                                                                         *)
(* A plain read sees the snapshot of the first plain read of its           *)
(* transaction (MySQL, REPEATABLE READ); a locking read sees the row as it *)
(* is.  Administrators who remove a row, or note the courier of an order,  *)
(* read it without a lock and save it later, with the values they read.    *)
(* A call that waits for a lock may be rolled back, as the victim of  *)
(* a dead-lock or by the lock timeout, and starts its transaction again.   *)
(* Every transaction holds one connection of the pool.                     *)
(***************************************************************************)
EXTENDS PaymentStateMachine, Integers, FiniteSets, Functions

CONSTANTS
    NumProducts,  \* products are 1 .. NumProducts, ordered as their ids
    Sized,        \* products that keep stock of size variants
    Calls,        \* calls of create; an order has the name of its call
    Admins,       \* administrators' status changes in flight
    None,         \* no order, no user, no key
    Requests,     \* the requests customers make
    Statuses,     \* what administrators set the status of an order to
    StartStock,   \* units of each product at the beginning
    StockForms,   \* what an administrator may set the stock to
    StartLimit,   \* usage limit of the coupon; 0 stands for no limit
    UserLimit,    \* redemptions of one customer; 0 stands for no limit
    LimitForms,   \* limits an administrator may set
    MaxEdits,     \* bound on the edits of administrators other than status changes
    MaxRetries,   \* transactions a call tries (3 in the code)
    Pools         \* connections the pool may have (20 in the code)

Products == 1 .. NumProducts

\* Units in all, and those of them that are of the size variant.
Item == {i \in [total : Nat, sized : Nat] : i.sized <= i.total}
Methods == {"COD", "SSLCOMMERZ", "STRIPE"}

ASSUME CreationAssumption ==
    /\ NumProducts \in Nat
    /\ Sized \subseteq Products
    /\ IsFiniteSet(Calls) /\ Calls \cap Admins = {}
    /\ None \notin Calls \cup Admins
    /\ \A r \in Requests :
           /\ r.cart \in [Products -> Item]
           /\ r.coupon \in BOOLEAN
           /\ r.method \in Methods
    /\ Statuses \subseteq OrderStatus
    /\ StartStock \in Nat
    /\ StockForms \subseteq Nat
    /\ {StartLimit, UserLimit} \cup LimitForms \subseteq Nat
    /\ MaxEdits \in Nat
    /\ MaxRetries \in Nat \ {0}
    /\ Pools \subseteq Nat \ {0}

VARIABLES
    product,   \* rows of product: units in all, units of the size variant, not deleted
    coupon,    \* the coupon row: active, usage limit, usage count
    usages,    \* the calls with a row in coupon_usage
    order,     \* the row of orders each call left
    call,      \* the calls of create in flight
    admin,     \* the status changes in flight
    form,      \* a coupon limit that was checked and is not written yet
    unsaved,   \* rows administrators read, changed and have still to save
    rewound,   \* history: orders whose status such a save has set back
    supply,    \* history: units of each product the shop put up for sale
    edits,     \* edits of administrators, bounded by MaxEdits
    pool       \* connections of the pool, fixed when the process starts

\* What the steps of orders leave alone.
desk == <<form, unsaved, rewound, supply, edits>>
vars == <<product, coupon, usages, order, call, admin, desk, pool>>

----------------------------------------------------------------------------
(* Rows and requests.                                                       *)

Stock == [qty : Nat, size : Nat, live : BOOLEAN]
Coupon == [active : BOOLEAN, limit : Nat, used : Nat]

NoStock == [qty |-> 0, size |-> 0, live |-> FALSE]
NoOrder == [status |-> "ABSENT", paid |-> FALSE, deleted |-> FALSE]
OrderRow == [status : OrderStatus \cup {"ABSENT"}, paid : BOOLEAN, deleted : BOOLEAN]

Steps == {"idle", "verify", "connect", "lock", "number", "redeem", "insert"}
Ends == {"placed", "replayed", "conflict", "refused", "contended"}
InTransaction == {"lock", "number", "redeem", "insert"}

\* What a call remembers: its request, how often it tried, the products it has
\* locked, the stock it read, the snapshot of coupon_usage and the usage count
\* it read.
NoCall(r) ==
    [pc |-> "idle", req |-> r, attempt |-> 0, locked |-> {}, seen |-> {}, count |-> 0,
     read |-> [p \in Products |-> NoStock]]

NoChange == [pc |-> "idle", target |-> None, to |-> "PENDING", locked |-> {}]

Placed(c) == order[c].status # "ABSENT"
Placers == {c \in Calls : Placed(c)}
HasItems(c, p) == call[c].req.cart[p].total > 0

\* The items of an order that is not cancelled, rejected or returned.
Sold(c, p) ==
    IF order[c].status \in DeductedStatusGroup THEN call[c].req.cart[p].total ELSE 0

Init ==
    /\ product = [p \in Products |->
                     [qty |-> StartStock, size |-> IF p \in Sized THEN StartStock ELSE 0,
                      live |-> TRUE]]
    /\ coupon = [active |-> TRUE, limit |-> StartLimit, used |-> 0]
    /\ usages = {}
    /\ order = [c \in Calls |-> NoOrder]
    /\ call \in [Calls -> {NoCall(r) : r \in Requests}]
    /\ admin = [a \in Admins |-> NoChange]
    /\ form = None
    /\ unsaved = [product |-> {}, order |-> {}, coupon |-> {}]
    /\ rewound = {}
    /\ supply = [p \in Products |-> StartStock]
    /\ edits = 0
    /\ pool \in Pools

----------------------------------------------------------------------------
(* Locks and connections, read off what the transactions have done.         *)

\* Mutant: a status change locks no product.
FreeOfCalls(p) == \A c \in Calls : p \notin call[c].locked
ProductFree(p) ==
    /\ \A c \in Calls : p \notin call[c].locked
    /\ \A a \in Admins : p \notin admin[a].locked

CouponHeld(c) == call[c].pc = "insert" /\ call[c].req.coupon
\* Mutant: the coupon is read without a lock.
CouponUnlocked == \A c \in Calls : call[c].pc \in Steps \cup Ends
CouponFree == \A c \in Calls : ~CouponHeld(c)

\* A status change locks the rows of its order and, through the join, of the
\* customer, whom the insert of an order refers to.
OrderFree(o) == \A a \in Admins : admin[a].pc = "restock" => admin[a].target # o
UserFree(u) ==
    \A a \in Admins : admin[a].pc = "restock" => call[admin[a].target].req.user # u

\* Mutant: the connection of a transaction that failed is not released.
InUseAfterFailure == Cardinality({c \in Calls : call[c].pc \in InTransaction \cup {"refused"}})
InUse ==
    Cardinality({c \in Calls : call[c].pc \in InTransaction})
        + Cardinality({a \in Admins : admin[a].pc = "restock"})
FreeConnection == InUse < pool

Lowest(S) == CHOOSE p \in S : \A q \in S : p <= q
\* The products a call, or a status change, has still to lock.
ToLock(c) == {p \in Products : HasItems(c, p)} \ call[c].locked
ToRestock(a) == {p \in Products : HasItems(admin[a].target, p)} \ admin[a].locked
\* Mutant: a call locks its products in the order its request lists them.
NextAsListed(c) ==
    IF call[c].req.user = None THEN CHOOSE p \in ToLock(c) : \A q \in ToLock(c) : q <= p
    ELSE Lowest(ToLock(c))
NextToLock(c) == Lowest(ToLock(c))

Goes(c, step) == call' = [call EXCEPT ![c].pc = step]
\* The end of a call, with or without a commit, releases all it holds.
Answers(c, end) == call' = [call EXCEPT ![c] = [NoCall(call[c].req) EXCEPT !.pc = end]]

----------------------------------------------------------------------------
(* OrdersService.create                                                     *)

Fingerprint(c) == [user |-> call[c].req.user, cart |-> call[c].req.cart, coupon |-> call[c].req.coupon]

\* The lookup of the idempotency key, before and outside the transaction.
SameKey(c) ==
    {o \in Placers : ~order[o].deleted /\ call[o].req.key = call[c].req.key
                        /\ call[c].req.key # None}

Submit(c) ==
    /\ call[c].pc = "idle"
    /\ \/ /\ SameKey(c) = {}
          /\ Goes(c, "verify")
       \/ \E o \in SameKey(c) :
             Answers(c, IF Fingerprint(o) = Fingerprint(c) THEN "replayed" ELSE "conflict")
    /\ UNCHANGED <<product, coupon, usages, order, admin, desk, pool>>

\* A Stripe payment made in advance is looked up and may not be completed; cash
\* and payments through a session opened later need nothing.
VerifyPayment(c) ==
    /\ call[c].pc = "verify"
    /\ \/ Goes(c, "connect")
       \/ call[c].req.method = "STRIPE" /\ Answers(c, "refused")
    /\ UNCHANGED <<product, coupon, usages, order, admin, desk, pool>>

StartTransaction(c) ==
    /\ call[c].pc = "connect"
    /\ FreeConnection
    /\ call' = [call EXCEPT ![c].pc = "lock", ![c].attempt = @ + 1]
    /\ UNCHANGED <<product, coupon, usages, order, admin, desk, pool>>

LockProduct(c) ==
    /\ call[c].pc = "lock"
    /\ ToLock(c) # {}
    /\ LET p == NextToLock(c) IN
          /\ ProductFree(p)
          /\ IF product[p].live
             THEN call' = [call EXCEPT ![c].locked = @ \cup {p}]
             ELSE Answers(c, "refused")
    /\ UNCHANGED <<product, coupon, usages, order, admin, desk, pool>>

\* Mutant: the stock of the size variants alone is compared.
EnoughOfSizes(c) ==
    \A p \in Products : p \in Sized => call[c].req.cart[p].sized <= product[p].size
\* The stock a call asks for, in all and of the size variant.
Enough(c) ==
    \A p \in Products :
        /\ call[c].req.cart[p].total <= product[p].qty
        /\ p \in Sized => call[c].req.cart[p].sized <= product[p].size

\* All products are locked: the stock is compared, and the discount of the day
\* is read without a lock, which fixes the snapshot of the transaction.
CheckStock(c) ==
    /\ call[c].pc = "lock"
    /\ ToLock(c) = {}
    /\ IF Enough(c)
       THEN call' = [call EXCEPT ![c].pc = "number", ![c].seen = usages, ![c].read = product]
       ELSE Answers(c, "refused")
    /\ UNCHANGED <<product, coupon, usages, order, admin, desk, pool>>

\* getUniqueOrderId works on a connection of its own.
DrawNumber(c) ==
    /\ call[c].pc = "number"
    /\ FreeConnection
    /\ Goes(c, IF call[c].req.coupon THEN "redeem" ELSE "insert")
    /\ UNCHANGED <<product, coupon, usages, order, admin, desk, pool>>

\* Mutant: the redemptions of the snapshot are compared.
UnderLimitSeen(c) == coupon.active /\ (coupon.limit = 0 \/ Cardinality(call[c].seen) < coupon.limit)
\* The locked row of the coupon has redemptions left.
UnderLimit(c) == coupon.active /\ (coupon.limit = 0 \/ coupon.used < coupon.limit)

\* The customer's own redemptions are counted by a plain read.
UnderUserLimit(c) ==
    \/ call[c].req.user = None \/ UserLimit = 0
    \/ Cardinality({d \in call[c].seen : call[d].req.user = call[c].req.user}) < UserLimit

\* redeemCouponInTransaction up to its writes, which Commit makes visible.
Redeem(c) ==
    /\ call[c].pc = "redeem"
    /\ CouponFree
    /\ IF UnderLimit(c) /\ UnderUserLimit(c)
       THEN call' = [call EXCEPT ![c].pc = "insert", ![c].count = coupon.used]
       ELSE Answers(c, "refused")
    /\ UNCHANGED <<product, coupon, usages, order, admin, desk, pool>>

Less(n, m) == IF n > m THEN n - m ELSE 0

\* The stock a call read less the items of its cart; other products are as
\* they are.
Taken(c) ==
    [p \in Products |->
        IF p \notin call[c].locked THEN product[p]
        ELSE LET row == call[c].read[p]
                 item == call[c].req.cart[p]
             IN [row EXCEPT !.qty = Less(@, item.total),
                            !.size = IF p \in Sized THEN Less(@, item.sized) ELSE @]]

\* The order and its items, the redemption, the stock, the administrators'
\* notification; then the commit, socket events and mail.  The insert waits
\* for the row of the customer.
Commit(c) ==
    /\ call[c].pc = "insert"
    /\ call[c].req.user # None => UserFree(call[c].req.user)
    /\ order' = [order EXCEPT ![c] =
           [status |-> "PENDING", paid |-> call[c].req.method = "STRIPE", deleted |-> FALSE]]
    /\ product' = Taken(c)
    /\ IF call[c].req.coupon
       THEN coupon' = [coupon EXCEPT !.used = call[c].count + 1] /\ usages' = usages \cup {c}
       ELSE UNCHANGED <<coupon, usages>>
    /\ Answers(c, "placed")
    /\ UNCHANGED <<admin, desk, pool>>

\* An exception in the transaction, the amount of a Stripe payment among them,
\* or a lost connection: rollback.
Fail(c) ==
    /\ call[c].pc \in InTransaction
    /\ Answers(c, "refused")
    /\ UNCHANGED <<product, coupon, usages, order, admin, desk, pool>>

Waits(c) ==
    \/ call[c].pc = "lock" /\ ToLock(c) # {} /\ ~ProductFree(NextToLock(c))
    \/ call[c].pc = "redeem" /\ ~CouponFree
    \/ call[c].pc = "insert" /\ call[c].req.user # None /\ ~UserFree(call[c].req.user)

\* Mutant: the last attempt is tried again.
TriesForever(c) == call[c].attempt \in Nat
TriesAgain(c) == call[c].attempt < MaxRetries

\* Dead-lock victim or lock timeout: rollback, and another transaction.
Contend(c) ==
    /\ Waits(c)
    /\ IF TriesAgain(c)
       THEN call' = [call EXCEPT ![c] =
                [NoCall(@.req) EXCEPT !.pc = "connect", !.attempt = call[c].attempt]]
       ELSE Answers(c, "contended")
    /\ UNCHANGED <<product, coupon, usages, order, admin, desk, pool>>

----------------------------------------------------------------------------
(* OrdersService.updateOrderStatus: the order, then its products.            *)

Restocks(from, to) == from \in DeductedStatusGroup /\ to \in RestockedStatusGroup

\* The row a status change leaves: cash is collected on delivery.
Delivered(o, to) ==
    [order[o] EXCEPT !.status = to,
                     !.paid = @ \/ (to = "DELIVERED" /\ call[o].req.method = "COD")]

\* The order is locked and its status may become `to`.  Without items to give
\* back the transaction ends here.
ChangeStatus(a) ==
    /\ admin[a].pc = "idle"
    /\ FreeConnection
    /\ \E o \in Placers, to \in Statuses :
           /\ to \in AllowedOrderTransitions[order[o].status]
           /\ OrderFree(o)
           /\ call[o].req.user # None => UserFree(call[o].req.user)
           /\ IF Restocks(order[o].status, to)
              THEN /\ admin' = [admin EXCEPT ![a] =
                          [pc |-> "restock", target |-> o, to |-> to, locked |-> {}]]
                   /\ UNCHANGED order
              ELSE /\ order' = [order EXCEPT ![o] = Delivered(o, to)]
                   /\ UNCHANGED admin
    /\ UNCHANGED <<product, coupon, usages, call, desk, pool>>

LockReturned(a) ==
    /\ admin[a].pc = "restock"
    /\ ToRestock(a) # {}
    /\ ProductFree(Lowest(ToRestock(a)))
    /\ admin' = [admin EXCEPT ![a].locked = @ \cup {Lowest(ToRestock(a))}]
    /\ UNCHANGED <<product, coupon, usages, order, call, desk, pool>>

CommitStatus(a) ==
    /\ admin[a].pc = "restock"
    /\ ToRestock(a) = {}
    /\ LET o == admin[a].target
            cart == call[o].req.cart
       IN /\ product' = [p \in Products |-> [product[p] EXCEPT
                 !.qty = @ + cart[p].total,
                 !.size = IF p \in Sized THEN @ + cart[p].sized ELSE @]]
          /\ order' = [order EXCEPT ![o] = Delivered(o, admin[a].to)]
    /\ admin' = [admin EXCEPT ![a] = NoChange]
    /\ UNCHANGED <<coupon, usages, call, desk, pool>>

\* A dead-lock, a timeout or another error: rollback, no further attempt.
FailStatus(a) ==
    /\ admin[a].pc = "restock"
    /\ admin' = [admin EXCEPT ![a] = NoChange]
    /\ UNCHANGED <<product, coupon, usages, order, call, desk, pool>>

Edit == edits < MaxEdits /\ edits' = edits + 1

\* An entity is remembered under the number of the edit.
Remembers(rows, entity) == unsaved' = [unsaved EXCEPT ![rows] = @ \cup {entity}]
Forgets(rows, entity) == unsaved' = [unsaved EXCEPT ![rows] = @ \ {entity}]

\* OrdersService.remove and updateCourierInfo: the order is read without a lock,
\* and removed in the one case; its items are not given back.
ReadOrder(c) ==
    /\ Placed(c) /\ ~order[c].deleted
    /\ \E removed \in BOOLEAN :
           Remembers("order", [no |-> edits, id |-> c, row |-> [order[c] EXCEPT !.deleted = removed]])
    /\ Edit
    /\ UNCHANGED <<product, coupon, usages, order, call, admin, form, rewound, supply, pool>>

\* The save reads the row again and writes the columns that differ from it, then
\* waits for the lock: a column may become what was read first, or stay as it is.
SaveOrder ==
    \E e \in unsaved.order :
        /\ OrderFree(e.id)
        /\ \E status \in {e.row.status, order[e.id].status},
              paid \in {e.row.paid, order[e.id].paid},
              deleted \in {e.row.deleted, e.row.deleted \/ order[e.id].deleted} :
               /\ order' = [order EXCEPT ![e.id] =
                      [status |-> status, paid |-> paid, deleted |-> deleted]]
               /\ rewound' = IF status = order[e.id].status THEN rewound
                             ELSE rewound \cup {e.id}
        /\ Forgets("order", e)
        /\ UNCHANGED <<product, coupon, usages, call, admin, form, supply, edits, pool>>

----------------------------------------------------------------------------
(* ProductService.update and remove, CouponService.update and softDelete.    *)

ActiveUnits(p) == SumFunctionOnSet([c \in Calls |-> Sold(c, p)], Calls)

\* The form of the product is saved: its quantity, or the sum of its sizes,
\* becomes what the form says, whatever was ordered since it was opened.
UpdateStock(p) ==
    /\ ProductFree(p)
    /\ \E n \in StockForms :
           /\ product' = [product EXCEPT ![p].qty = n, ![p].size = IF p \in Sized THEN n ELSE @]
           /\ supply' = [supply EXCEPT ![p] = n + ActiveUnits(p)]
    /\ Edit
    /\ UNCHANGED <<coupon, usages, order, call, admin, form, unsaved, rewound, pool>>

\* ProductService.remove, by the same two steps.
ReadProduct(p) ==
    /\ product[p].live
    /\ Remembers("product", [no |-> edits, id |-> p, row |-> [product[p] EXCEPT !.live = FALSE]])
    /\ Edit
    /\ UNCHANGED <<product, coupon, usages, order, call, admin, form, rewound, supply, pool>>

SaveProduct ==
    \E e \in unsaved.product :
        /\ ProductFree(e.id)
        /\ \E qty \in {e.row.qty, product[e.id].qty}, size \in {e.row.size, product[e.id].size} :
               product' = [product EXCEPT ![e.id] = [qty |-> qty, size |-> size, live |-> FALSE]]
        /\ Forgets("product", e)
        /\ UNCHANGED <<coupon, usages, order, call, admin, form, rewound, supply, edits, pool>>

\* The limit is compared with a count that is read without a lock, ...
CheckLimit ==
    /\ form = None
    /\ \E n \in LimitForms : (n = 0 \/ n >= coupon.used) /\ form' = n
    /\ Edit
    /\ UNCHANGED <<product, coupon, usages, order, call, admin, unsaved, rewound, supply, pool>>

\* ... and written later.
WriteLimit ==
    /\ form # None
    /\ CouponFree
    /\ coupon' = [coupon EXCEPT !.limit = form]
    /\ form' = None
    /\ UNCHANGED <<product, usages, order, call, admin, unsaved, rewound, supply, edits, pool>>

\* CouponService.softDelete, by the same two steps.
ReadCoupon ==
    /\ coupon.active
    /\ Remembers("coupon", [no |-> edits, row |-> [coupon EXCEPT !.active = FALSE]])
    /\ Edit
    /\ UNCHANGED <<product, coupon, usages, order, call, admin, form, rewound, supply, pool>>

SaveCoupon ==
    \E e \in unsaved.coupon :
        /\ CouponFree
        /\ \E limit \in {e.row.limit, coupon.limit}, used \in {e.row.used, coupon.used} :
               coupon' = [active |-> FALSE, limit |-> limit, used |-> used]
        /\ Forgets("coupon", e)
        /\ UNCHANGED <<product, usages, order, call, admin, form, rewound, supply, edits, pool>>

----------------------------------------------------------------------------
CreateStep(c) ==
    \/ VerifyPayment(c) \/ StartTransaction(c) \/ LockProduct(c) \/ CheckStock(c)
    \/ DrawNumber(c) \/ Redeem(c) \/ Commit(c) \/ Contend(c)
StatusStep(a) == LockReturned(a) \/ CommitStatus(a) \/ FailStatus(a)

Next ==
    \/ \E c \in Calls : Submit(c) \/ CreateStep(c) \/ Fail(c) \/ ReadOrder(c)
    \/ \E a \in Admins : ChangeStatus(a) \/ StatusStep(a)
    \/ \E p \in Products : UpdateStock(p) \/ ReadProduct(p)
    \/ CheckLimit \/ WriteLimit \/ ReadCoupon
    \/ SaveOrder \/ SaveProduct \/ SaveCoupon

Spec == Init /\ [][Next]_vars

\* A call that runs goes on, a lock wait ends with the lock or with a rollback,
\* the pool serves those who wait for a connection in turn, and a status change
\* ends.  Nobody has to ask for anything.
FairSpec ==
    /\ Spec
    /\ \A c \in Calls :
           WF_vars(CreateStep(c)) /\ SF_vars(StartTransaction(c)) /\ SF_vars(DrawNumber(c))
    /\ \A a \in Admins : WF_vars(StatusStep(a))

----------------------------------------------------------------------------
(* Properties.                                                              *)

\* Every row and every call in flight keeps its type.
TypeOK ==
    /\ product \in [Products -> Stock]
    /\ coupon \in Coupon
    /\ usages \subseteq Calls
    /\ order \in [Calls -> OrderRow]
    /\ call \in [Calls -> [pc : Steps \cup Ends, req : Requests, attempt : 0 .. MaxRetries,
                            locked : SUBSET Products, seen : SUBSET Calls, count : Nat,
                            read : [Products -> Stock]]]
    /\ admin \in [Admins -> [pc : {"idle", "restock"}, target : Calls \cup {None},
                              to : OrderStatus, locked : SUBSET Products]]
    /\ form \in LimitForms \cup {None}
    /\ unsaved \in [product : SUBSET [no : Nat, id : Products, row : Stock],
                    order : SUBSET [no : Nat, id : Calls, row : OrderRow],
                    coupon : SUBSET [no : Nat, row : Coupon]]
    /\ rewound \subseteq Calls
    /\ supply \in [Products -> Nat]
    /\ edits \in 0 .. MaxEdits
    /\ pool \in Pools

\* What is on the shelf and what is in orders that keep their items is what the
\* shop put up for sale: concurrent orders and cancellations neither lose nor
\* invent a unit.  A removed product, whose stock the removal may have set back,
\* keeps no books, nor does a product in an order whose status was set back.
KeepsBooks(p) == product[p].live /\ \A c \in rewound : ~HasItems(c, p)
StockBalance == \A p \in Products : KeepsBooks(p) => product[p].qty + ActiveUnits(p) = supply[p]

\* The usage count of the coupon is the number of its redemptions, so no two
\* redemptions count as one, for as long as it can be redeemed: its removal may
\* set the count back.
EveryUseCounted == coupon.active => coupon.used = Cardinality(usages)

\* A call waits for a lock of another, or for a connection when those in use
\* are all held by calls of a set.
WaitsFor(c, d) ==
    \/ call[c].pc = "lock" /\ ToLock(c) # {} /\ NextToLock(c) \in call[d].locked
    \/ call[c].pc = "redeem" /\ CouponHeld(d)
WaitsWithin(c, S) ==
    \/ \E d \in S : WaitsFor(c, d)
    \/ /\ call[c].pc \in {"connect", "number"} /\ ~FreeConnection
       /\ \A d \in Calls : call[d].pc \in InTransaction => d \in S
       /\ \A a \in Admins : admin[a].pc = "idle"

\* Order creations wait for one another in a circle only when one of them holds
\* a connection and cannot get a second one to draw its number: the locks of
\* products and of the coupon alone never close a circle, nor does the wait for
\* the first connection.  (Status changes may close one: a creation holds a
\* product and inserts an order of the customer the status change has locked.)
CreationsDoNotDeadlock ==
    \A S \in SUBSET Calls :
        S # {} /\ (\A c \in S : WaitsWithin(c, S)) => \E c \in S : call[c].pc = "number"

\* A redemption never takes the coupon above its limit of that moment.
RedeemsWithinLimit ==
    [][usages' # usages => coupon'.limit = 0 \/ Cardinality(usages') <= coupon'.limit]_vars

\* Orders take all their items at once when they are there, and give them back
\* at most once until a stale save sets their status back: the stock behaves as
\* if there were no transactions.
Ledger == INSTANCE StockLedger WITH
    Orders <- Calls,
    Carts <- {[p \in Products |-> r.cart[p].total] : r \in Requests},
    stock <- [p \in Products |-> product[p].qty],
    state <- [c \in Calls |->
                 IF ~Placed(c) THEN "none"
                 ELSE IF order[c].status \in DeductedStatusGroup THEN "placed" ELSE "returned"],
    taken <- [c \in Calls |-> [p \in Products |->
                 IF Placed(c) THEN call[c].req.cart[p].total ELSE 0]]
LedgerHolds == Ledger!LedgerSpec

\* A call is answered, whatever locks it meets, unless every connection is held
\* by a call that asks for a second one to draw its number.
PoolExhausted == Cardinality({c \in Calls : call[c].pc = "number"}) = pool
CallIsAnswered ==
    \A c \in Calls : call[c].pc = "verify" ~> (call[c].pc \in Ends \/ PoolExhausted)
=============================================================================

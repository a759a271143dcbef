---------------------------- MODULE StockLedger ----------------------------
(***************************************************************************)
(* What the shop promises about its stock, without transactions or locks:  *)
(* an order takes all its items at once when they are there, and gives     *)
(* them back at most once.  An administrator may set the stock of a        *)
(* product to anything, and may set the state of an order back, without    *)
(* its items: such an order is known by name ever after.                   *)
(***************************************************************************)
EXTENDS Integers

CONSTANTS
    Products,   \* products
    Orders,     \* orders that may be placed
    Carts       \* items of an order, functions from Products to Nat

VARIABLES
    stock,   \* units of each product on the shelf
    state,   \* "none", "placed" or "returned", for each order
    taken,   \* the items each order took
    rewound  \* orders whose state was set back

LedgerTypeOK ==
    /\ stock \in [Products -> Nat]
    /\ state \in [Orders -> {"none", "placed", "returned"}]

LedgerInit ==
    /\ stock \in [Products -> Nat]
    /\ state = [o \in Orders |-> "none"]
    /\ taken = [o \in Orders |-> [p \in Products |-> 0]]
    /\ rewound = {}

Place(o, cart) ==
    /\ state[o] = "none"
    /\ \A p \in Products : cart[p] <= stock[p]
    /\ state' = [state EXCEPT ![o] = "placed"]
    /\ taken' = [taken EXCEPT ![o] = cart]
    /\ stock' = [p \in Products |-> stock[p] - cart[p]]
    /\ UNCHANGED rewound

Return(o) ==
    /\ state[o] = "placed"
    /\ state' = [state EXCEPT ![o] = "returned"]
    /\ stock' = [p \in Products |-> stock[p] + taken[o][p]]
    /\ UNCHANGED <<taken, rewound>>

SetAnew(p) ==
    /\ stock'[p] \in Nat
    /\ stock' = [stock EXCEPT ![p] = stock'[p]]
    /\ UNCHANGED <<state, taken, rewound>>

Rewind(o) ==
    /\ state[o] # "none"
    /\ \E again \in {"placed", "returned"} : state' = [state EXCEPT ![o] = again]
    /\ rewound' = rewound \cup {o}
    /\ UNCHANGED <<stock, taken>>

LedgerNext ==
    \/ \E o \in Orders : (\E cart \in Carts : Place(o, cart)) \/ Return(o) \/ Rewind(o)
    \/ \E p \in Products : SetAnew(p)

LedgerSpec == LedgerInit /\ [][LedgerNext]_<<stock, state, taken, rewound>>
=============================================================================

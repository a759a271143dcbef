-------------------------- MODULE MCOrderCreation --------------------------
(* Two products, the first with sizes; two customers who want overlapping   *)
(* carts, with and without the coupon.                                      *)
EXTENDS OrderCreation
CONSTANTS u1, u2, k1

One(p, sized) ==
    [q \in 1 .. 2 |-> IF q = p THEN [total |-> 1, sized |-> sized] ELSE [total |-> 0, sized |-> 0]]
Both == [q \in 1 .. 2 |-> [total |-> 1, sized |-> IF q = 1 THEN 1 ELSE 0]]

MCRequests ==
    {[user |-> u1, key |-> k1, cart |-> One(1, 1), coupon |-> TRUE, method |-> "COD"],
     [user |-> u1, key |-> None, cart |-> One(2, 0), coupon |-> TRUE, method |-> "COD"],
     [user |-> u2, key |-> k1, cart |-> Both, coupon |-> TRUE, method |-> "SSLCOMMERZ"],
     [user |-> None, key |-> None, cart |-> Both, coupon |-> FALSE, method |-> "STRIPE"]}
=============================================================================

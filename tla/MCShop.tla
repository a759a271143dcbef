------------------------------- MODULE MCShop -------------------------------
(***************************************************************************)
(* Parts of the shop that share no rows, each with a small instance,       *)
(* in one run: a behaviour is a behaviour of one of the parts, the others  *)
(* rest in an initial state.                                               *)
(***************************************************************************)
EXTENDS Sales, Messaging, Accounts, Catalogue

VARIABLE part

shopVars == <<salesVars, messagingVars, accountsVars, catalogueVars, part>>
Parts == {"sales", "chat", "notices", "accounts", "catalogue"}

----------------------------------------------------------------------------
(* Constants.                                                               *)

MCGoods == [p \in {"p1", "p2"} |->
    IF p = "p1"
    THEN {[price |-> 3333, kind |-> "PERCENT", off |-> 15, cost |-> 2000, category |-> "a"],
          [price |-> 999, kind |-> "NONE", off |-> 0, cost |-> 0, category |-> "b"]}
    ELSE {[price |-> 455, kind |-> "FLAT", off |-> 100, cost |-> 300, category |-> "b"],
          [price |-> 455, kind |-> "PERCENT", off |-> 110, cost |-> 300, category |-> "c"]}]
MCCoupons == {[kind |-> "PERCENTAGE", value |-> 7, cap |-> 200, min |-> 0, open |-> TRUE],
              [kind |-> "PERCENTAGE", value |-> 250, cap |-> 0, min |-> 0, open |-> TRUE],
              [kind |-> "FIXED_AMOUNT", value |-> 1500, cap |-> 0, min |-> 0, open |-> TRUE],
              [kind |-> "FREE_SHIPPING", value |-> 0, cap |-> 0, min |-> 500, open |-> TRUE]}
MCCarts == {[qty |-> [p \in {"p1", "p2"} |-> IF p = "p1" THEN 1 ELSE 2], city |-> "dhaka", coupon |-> TRUE],
            [qty |-> [p \in {"p1", "p2"} |-> IF p = "p1" THEN 1 ELSE 0], city |-> "other", coupon |-> TRUE]}
MCDayOf == [o \in {"o1", "o2"} |-> IF o = "o1" THEN 1 ELSE 2]
\* The second day is that of another year.
MCYearOf == [d \in {1, 2} |-> IF d = 1 THEN 2025 ELSE 2024]
MCNameOf == [c \in {"a", "b", "c"} |-> IF c = "b" THEN "n2" ELSE "n1"]

MCSender == [m \in {"m1", "m2", "m3"} |-> IF m = "m3" THEN "a1" ELSE "c1"]
MCThread == [m \in {"m1", "m2", "m3"} |-> "c1"]

MCJobs ==
    {[op |-> "create", name |-> "a"], [op |-> "update", name |-> "a"], [op |-> "remove"],
     [op |-> "review", user |-> "u1", stars |-> 5, found |-> "nobody"],
     [op |-> "review", user |-> "u2", stars |-> 2, found |-> "nobody"], [op |-> "unreview"],
     [op |-> "comment"], [op |-> "approve"], [op |-> "uncomment"],
     [op |-> "rename", table |-> "main", name |-> "x"], [op |-> "drop", table |-> "main"]}
        \cup [op : {"enter"}, table : {"main", "first", "second", "role"}, name : {"x"}]

----------------------------------------------------------------------------
ShopInit ==
    /\ part \in Parts
    /\ SalesInit /\ MessagingInit /\ AccountsInit /\ CatalogueInit
    /\ part # "sales" =>
          /\ \A p \in Products : goods[p] = CHOOSE g \in Goods[p] : TRUE
          /\ mega = CHOOSE m \in Megas : TRUE
          /\ coupon = CHOOSE c \in Coupons : TRUE

ShopNext ==
    \/ /\ part = "sales" /\ SalesNext
       /\ UNCHANGED <<messagingVars, accountsVars, catalogueVars, part>>
    \/ /\ \/ part = "chat" /\ ChatNext /\ UNCHANGED notice
          \/ part = "notices" /\ NoticeNext
       /\ UNCHANGED <<salesVars, accountsVars, catalogueVars, part>>
    \/ /\ part = "accounts" /\ AccountsNext
       /\ UNCHANGED <<salesVars, messagingVars, catalogueVars, part>>
    \/ /\ part = "catalogue" /\ CatalogueNext
       /\ UNCHANGED <<salesVars, messagingVars, accountsVars, part>>

ShopSpec == ShopInit /\ [][ShopNext]_shopVars

\* The rows of the part that runs keep their types.
ShopTypeOK ==
    CASE part = "sales" -> SalesTypeOK
      [] part \in {"chat", "notices"} -> MessagingTypeOK
      [] part = "accounts" -> AccountsTypeOK
      [] part = "catalogue" -> CatalogueTypeOK

\* Wherever the price of a cart is computed, it is the same, through repricing and
\* shop-wide discounts.
PricesAgree == part = "sales" => CartSumsAgree

\* Wherever the earnings are computed, they are the same, whatever was repriced,
\* cancelled, returned or removed since.
ReportsAgree == part = "sales" => EarningsAgree

\* Sign-ups and resets that are repeated, or made twice at once, have their effect
\* once: one account for an e-mail, one new password for a code (two only if the
\* resets were in flight together).
NothingHappensTwice == OneAccountPerEmail /\ CodeIsUsedOnce
=============================================================================

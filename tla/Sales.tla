------------------------------- MODULE Sales -------------------------------
(***************************************************************************)
(* What a cart costs and what the reports say was earned: the price of an  *)
(* item under its own and the shop-wide discount, the preview of an order, *)
(* the order, the card payment made before it, the profit report and the   *)
(* dashboard.  The code computes each of these sums at a place of its own. *)
(*                                                                         *)
(* Money is counted in hundredths.  Prices are whole hundredths, percents  *)
(* whole numbers.                                                          *)
(***************************************************************************)
EXTENDS Integers, FiniteSets, Functions

CONSTANTS
    Products,
    Goods,     \* the rows each may have: [price, kind, off, cost, category]
    Coupons,   \* rows a coupon may have: [kind, value, cap, min, open]
    Megas,     \* percents of the shop-wide discount, 0 when there is none
    Carts,     \* [qty, city, coupon]: coupon tells whether one is entered
    Sales,     \* orders that can be placed
    DayOf,     \* the day each of them is placed on
    YearOf,    \* the year of a day
    ThisYear,  \* the year in which the dashboard is looked at
    NameOf,    \* the name of a category; two may share one
    TopSize    \* number of categories the dashboard lists, 5 in the code

Rows == UNION {Goods[p] : p \in Products}
Categories == {g.category : g \in Rows}

ASSUME SalesAssumption ==
    /\ DOMAIN Goods = Products
    /\ IsFiniteSet(Products) /\ IsFiniteSet(Categories) /\ IsFiniteSet(Sales)
    /\ \A g \in Rows :
           /\ g.price \in Nat /\ g.cost \in Nat /\ g.off \in Nat
           /\ g.kind \in {"NONE", "PERCENT", "FLAT"}
    /\ \A c \in Coupons :
           /\ c.kind \in {"PERCENTAGE", "FIXED_AMOUNT", "FREE_SHIPPING"}
           /\ c.value \in Nat /\ c.cap \in Nat /\ c.min \in Nat /\ c.open \in BOOLEAN
    /\ Megas \subseteq 0 .. 100
    /\ DOMAIN DayOf = Sales
    /\ TopSize \in Nat
    /\ \A k \in Carts : k.qty \in [Products -> Nat] /\ k.city \in {"dhaka", "other"} /\ k.coupon \in BOOLEAN

VARIABLES
    goods,   \* rows of product
    mega,    \* the row of mega_discount
    coupon,  \* the row of the coupon that carts name
    sales    \* rows of orders with their order-summary rows

salesVars == <<goods, mega, coupon, sales>>

Days == {DayOf[o] : o \in Sales}
CategoryNames == {NameOf[c] : c \in Categories}
NoSale == [st |-> "none"]

----------------------------------------------------------------------------
(* Prices: pricing-resolver, pricing engine, CouponService.                 *)

AtLeast(low, n) == IF n < low THEN low ELSE n
AtMost(high, n) == IF n > high THEN high ELSE n
RoundDiv(n, d) == (2 * n + d) \div (2 * d)    \* Math.round(n / d)

\* The price after the discount of the product itself, times 100.  No form keeps a
\* percent to 100: above it, this is below zero.
OwnPrice(g) ==
    CASE g.kind = "PERCENT" -> g.price * (100 - g.off)
      [] g.kind = "FLAT" -> 100 * AtLeast(0, g.price - g.off)
      [] OTHER -> 100 * g.price

UnitPrice(g) == AtLeast(0, RoundDiv(OwnPrice(g) * (100 - mega), 10000))

\* Mutant: the shop-wide discount is left out.
ListedWithoutMega(g) == OwnPrice(g)
\* The price that the shop filters and sorts by, times 100; it may be below zero.
ListedPrice(g) == IF mega > 0 THEN g.price * (100 - mega) ELSE OwnPrice(g)

LinesOf(cart) == {p \in Products : cart.qty[p] > 0}
Subtotal(cart) == SumFunction([p \in LinesOf(cart) |-> UnitPrice(goods[p]) * cart.qty[p]])

Delivery(city) == IF city = "dhaka" THEN 6000 ELSE 12000
\* The preview of a coupon looks for "dhaka" in the name of the zone it is given.
Zone(city) == IF city = "dhaka" THEN "dhaka" ELSE "outside_dhaka"
ZoneDelivery(zone) == IF zone \in {"dhaka", "outside_dhaka"} THEN 6000 ELSE 12000

\* evaluateCouponDiscount
Discount(subtotal, delivery) ==
    CASE coupon.kind = "PERCENTAGE" ->
             RoundDiv(IF coupon.cap > 0 THEN AtMost(100 * coupon.cap, subtotal * coupon.value)
                      ELSE subtotal * coupon.value, 100)
      [] coupon.kind = "FIXED_AMOUNT" -> AtMost(subtotal, coupon.value)
      [] coupon.kind = "FREE_SHIPPING" -> delivery

\* Active, in its dates, under its limits, and for orders of this size.
Usable(subtotal) == coupon.open /\ subtotal >= coupon.min

----------------------------------------------------------------------------
(* The three sums.                                                          *)

\* OrderService.calculateOrderPreview.  A coupon that is refused costs nothing.
PreviewTotal(cart) ==
    LET sub == Subtotal(cart)
        less == IF cart.coupon /\ Usable(sub) THEN Discount(sub, ZoneDelivery(Zone(cart.city))) ELSE 0
    IN AtLeast(0, sub + Delivery(cart.city) - less)

\* OrderService.create.  A coupon that is refused refuses the order.
Bill(cart) ==
    LET sub == Subtotal(cart)
        less == IF cart.coupon THEN Discount(sub, Delivery(cart.city)) ELSE 0
    IN [subtotal |-> sub, delivery |-> Delivery(cart.city), discount |-> less,
        total |-> AtLeast(0, sub + Delivery(cart.city) - less)]

\* PaymentsService.createPayment: limits and least order are not asked for, a fixed
\* discount is not kept under the subtotal.
CardAmount(cart) ==
    LET sub == Subtotal(cart)
        percent == IF coupon.cap > 0 THEN AtMost(100 * coupon.cap, sub * coupon.value) ELSE sub * coupon.value
        taken == CASE coupon.kind = "PERCENTAGE" -> percent
                   [] coupon.kind = "FREE_SHIPPING" -> 100 * Delivery(cart.city)
                   [] OTHER -> 100 * coupon.value
        less == IF cart.coupon /\ coupon.open THEN taken ELSE 0
    IN AtLeast(100, RoundDiv(100 * (sub + Delivery(cart.city)) - less, 100))

----------------------------------------------------------------------------
(* Orders.                                                                  *)

SalesInit ==
    /\ goods \in [Products -> Rows] /\ \A p \in Products : goods[p] \in Goods[p]
    /\ mega \in Megas
    /\ coupon \in Coupons
    /\ sales = [o \in Sales |-> NoSale]

\* Mutant: the item rows keep the price without discounts.
ItemAtBasePrice(p, n) == [product |-> p, quantity |-> n, price |-> goods[p].price,
                          cost |-> goods[p].cost * n, category |-> goods[p].category]
\* A row of order-summary: the price paid and the cost at that time.
Item(p, n) == [product |-> p, quantity |-> n, price |-> UnitPrice(goods[p]),
               cost |-> goods[p].cost * n, category |-> goods[p].category]

\* A card payment was looked up and may be short of the total by 50 hundredths; the
\* other ways of payment are not looked at.
Place(o, cart, card) ==
    /\ sales[o] = NoSale
    /\ LinesOf(cart) # {}
    /\ cart.coupon => Usable(Subtotal(cart))
    /\ card => CardAmount(cart) >= Bill(cart).total - 50
    /\ sales' = [sales EXCEPT ![o] =
           [st |-> "Pending", gone |-> FALSE, day |-> DayOf[o], bill |-> Bill(cart),
            items |-> {Item(p, cart.qty[p]) : p \in LinesOf(cart)}]]
    /\ UNCHANGED <<goods, mega, coupon>>

\* The administrator edits the catalogue.
Reprice(p, g) ==
    /\ goods[p] # g
    /\ goods' = [goods EXCEPT ![p] = g]
    /\ UNCHANGED <<mega, coupon, sales>>

SetMega(m) == mega # m /\ mega' = m /\ UNCHANGED <<goods, coupon, sales>>

\* updateOrderStatus, by what the reports tell apart, and remove.
Move(o, st) ==
    /\ <<sales[o].st, st>> \in
           {<<"Pending", "Delivered">>, <<"Pending", "Cancelled">>, <<"Delivered", "Returned">>}
    /\ sales' = [sales EXCEPT ![o].st = st]
    /\ UNCHANGED <<goods, mega, coupon>>

RemoveSale(o) ==
    /\ sales[o] # NoSale /\ ~sales[o].gone
    /\ sales' = [sales EXCEPT ![o].gone = TRUE]
    /\ UNCHANGED <<goods, mega, coupon>>

SalesNext ==
    \/ \E o \in Sales, cart \in Carts, card \in BOOLEAN : Place(o, cart, card)
    \/ \E p \in Products : \E g \in Goods[p] : Reprice(p, g)
    \/ \E m \in Megas : SetMega(m)
    \/ \E o \in Sales : RemoveSale(o) \/ \E st \in {"Delivered", "Cancelled", "Returned"} : Move(o, st)

SalesSpec == SalesInit /\ [][SalesNext]_salesVars

----------------------------------------------------------------------------
(* ProfitReportService.  The scopes select by the status.                    *)

Scopes == {"ACTIVE_ALL", "DELIVERED_COMPLETED"}
InScope(scope) ==
    {o \in Sales : /\ sales[o] # NoSale /\ ~sales[o].gone
                   /\ CASE scope = "ACTIVE_ALL" -> sales[o].st \notin {"Cancelled", "Rejected", "Failed"}
                        [] OTHER -> sales[o].st \in {"Delivered", "Completed"}}

Revenue(o) == SumFunction([i \in sales[o].items |-> i.price * i.quantity])
Cogs(o) == SumFunction([i \in sales[o].items |-> i.cost])
CategoryItems(o, c) == {i \in sales[o].items : i.category = c}
ProductItems(o, p) == {i \in sales[o].items : i.product = p}
Worth(items) == SumFunction([i \in items |-> i.price * i.quantity])

\* getSummary, without a category
Summary(S) ==
    LET subtotal == SumFunction([o \in S |-> sales[o].bill.subtotal])
        coupons == SumFunction([o \in S |-> sales[o].bill.discount])
        delivered == SumFunction([o \in S |-> sales[o].bill.delivery])
        gross == SumFunction([o \in S |-> Revenue(o)])
        net == AtLeast(0, subtotal - coupons)
        cogs == SumFunction([o \in S |-> Cogs(o)])
    IN [orders |-> Cardinality(S), gross |-> gross, productDiscount |-> AtLeast(0, gross - subtotal),
        net |-> net, cogs |-> cogs, profit |-> net - cogs + delivered]

\* getTrend: one row for a day.
TrendRow(S, day) ==
    LET T == {o \in S : sales[o].day = day} IN
    [orders |-> Cardinality(T),
     net |-> SumFunction([o \in T |-> sales[o].bill.subtotal - sales[o].bill.discount]),
     profit |-> SumFunction([o \in T |-> sales[o].bill.subtotal - sales[o].bill.discount
                                     - Cogs(o) + sales[o].bill.delivery])]

\* getOrders and the file for export: one row for an order.
OrderRow(o) ==
    LET net == AtLeast(0, sales[o].bill.subtotal - sales[o].bill.discount)
    IN [net |-> net, cogs |-> Cogs(o), profit |-> net - Cogs(o) + sales[o].bill.delivery]

\* The part of the coupon of an order that falls on a product, by what its items are
\* worth; in whole hundredths.
Share(o, p) ==
    IF sales[o].bill.subtotal > 0
    THEN (Worth(ProductItems(o, p)) * sales[o].bill.discount) \div sales[o].bill.subtotal
    ELSE 0

\* getProducts: the coupons are taken off.
ProductRow(S, p) ==
    LET gross == SumFunction([o \in S |-> Worth(ProductItems(o, p))])
        shares == SumFunction([o \in S |-> Share(o, p)])
    IN [sold |-> SumFunction([o \in S |-> SumFunction([i \in ProductItems(o, p) |-> i.quantity])]),
        gross |-> gross, net |-> AtLeast(0, gross - shares),
        cogs |-> SumFunction([o \in S |-> SumFunction([i \in ProductItems(o, p) |-> i.cost])])]
\* getCategories: what is called net revenue has no coupon taken off.
CategoryRow(S, c) ==
    [orders |-> Cardinality({o \in S : CategoryItems(o, c) # {}}),
     net |-> SumFunction([o \in S |-> Worth(CategoryItems(o, c))]),
     cogs |-> SumFunction([o \in S |-> SumFunction([i \in CategoryItems(o, c) |-> i.cost])])]

\* findAdminDashboardData: the months of this year, and the categories that sold most,
\* by name.  Equal ones are in no order.
ThisYears == {o \in InScope("ACTIVE_ALL") : YearOf[sales[o].day] = ThisYear}
DashboardSales == SumFunction([o \in ThisYears |-> sales[o].bill.total])

NamedItems(o, n) == {i \in sales[o].items : NameOf[i.category] = n}
SoldAs(n) == SumFunction([o \in InScope("ACTIVE_ALL") |-> Worth(NamedItems(o, n))])
SoldNames == {n \in CategoryNames : \E o \in InScope("ACTIVE_ALL") : NamedItems(o, n) # {}}
TopLists ==
    {T \in SUBSET SoldNames :
        /\ Cardinality(T) = AtMost(TopSize, Cardinality(SoldNames))
        /\ \A n \in T, m \in SoldNames \ T : SoldAs(n) >= SoldAs(m)}

----------------------------------------------------------------------------
(* Properties.                                                              *)

SalesTypeOK ==
    /\ goods \in [Products -> Rows] /\ \A p \in Products : goods[p] \in Goods[p]
    /\ mega \in Megas /\ coupon \in Coupons
    /\ \A o \in Sales : sales[o] # NoSale =>
           /\ sales[o].st \in {"Pending", "Delivered", "Cancelled", "Returned"}
           /\ sales[o].gone \in BOOLEAN /\ sales[o].day \in Days
           /\ sales[o].bill.total \in Nat
           /\ \A i \in sales[o].items : i.quantity \in Nat /\ i.price \in Nat /\ i.cost \in Nat

Charged(cart) == cart.coupon => Usable(Subtotal(cart))
FreeShippingAway(cart) == cart.coupon /\ coupon.kind = "FREE_SHIPPING" /\ cart.city # "dhaka"

\* The sums computed at different places agree.  A preview is what its order costs,
\* but that free shipping out of the city is previewed with the fee of the city.  A
\* card payment made for the cart is enough for its order, but for a fixed coupon
\* above the subtotal.  The price that a product is found by is the one it is sold at,
\* but when the shop-wide discount comes on top of its own, and but for a price below
\* zero, which is sold for nothing.
CartSumsAgree ==
    /\ \A cart \in Carts : Charged(cart) =>
           PreviewTotal(cart) = Bill(cart).total + (IF FreeShippingAway(cart) THEN 6000 ELSE 0)
    /\ \A cart \in Carts :
           /\ Charged(cart)
           /\ cart.coupon /\ coupon.kind = "FIXED_AMOUNT" => coupon.value <= Subtotal(cart)
           => CardAmount(cart) >= Bill(cart).total - 50
    /\ \A p \in Products :
           mega = 0 \/ goods[p].kind = "NONE" =>
               AtLeast(0, ListedPrice(goods[p])) - 100 * UnitPrice(goods[p]) \in -50 .. 50

ProductsEarn(S) == SumFunction([p \in Products |-> ProductRow(S, p).net])
NoneInExcess(S) == \A o \in S : sales[o].bill.discount <= sales[o].bill.subtotal

DashboardAgrees ==
    LET S == ThisYears
        earned == SumFunction([d \in Days |-> TrendRow(S, d).net])
                      + SumFunction([o \in S |-> sales[o].bill.delivery])
    IN /\ DashboardSales >= earned
       /\ (\A o \in S : sales[o].bill.discount <= sales[o].bill.subtotal + sales[o].bill.delivery) =>
              DashboardSales = earned
       /\ \A T \in TopLists :
              LET listed == SumFunction([n \in T |-> SoldAs(n)])
                  gross == Summary(InScope("ACTIVE_ALL")).gross
              IN listed <= gross /\ (Cardinality(SoldNames) <= TopSize => listed = gross)

\* The views of the earnings agree, whatever was repriced, cancelled, returned or
\* removed since.  Days add up to the summary; categories to its revenue before coupons,
\* whatever they call it; products to the revenue after coupons, within a hundredth for
\* each share, or to more when a coupon exceeds its subtotal; the list of orders to no
\* less, too.  The dashboard has the revenue and the delivery of the days of this year,
\* or more when a coupon exceeds them both (a percentage has no upper bound), and its
\* list of categories has all the revenue unless more names than it holds have sold.
EarningsAgree ==
    /\ DashboardAgrees
    /\ \A scope \in Scopes :
           LET S == InScope(scope)
               sum == Summary(S)
               days == SumFunction([d \in Days |-> TrendRow(S, d).net])
           IN /\ sum.net = AtLeast(0, days)
              /\ sum.orders = SumFunction([d \in Days |-> TrendRow(S, d).orders])
              /\ days >= 0 => sum.profit = SumFunction([d \in Days |-> TrendRow(S, d).profit])
              /\ SumFunction([c \in Categories |-> CategoryRow(S, c).net]) = sum.gross
              /\ SumFunction([p \in Products |-> ProductRow(S, p).gross]) = sum.gross
              /\ SumFunction([c \in Categories |-> CategoryRow(S, c).cogs]) = sum.cogs
              /\ sum.productDiscount = 0
              /\ SumFunction([o \in S |-> OrderRow(o).net]) >= sum.net
              /\ ProductsEarn(S) >= sum.net
              /\ NoneInExcess(S) => ProductsEarn(S) <= sum.net + Cardinality(Products) * Cardinality(S)
=============================================================================

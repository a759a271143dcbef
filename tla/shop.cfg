SPECIFICATION ShopSpec
CONSTANTS
  Products = {"p1", "p2"}
  Goods <- MCGoods
  Coupons <- MCCoupons
  Megas = {0, 12}
  Carts <- MCCarts
  Sales = {"o1", "o2"}
  DayOf <- MCDayOf
  YearOf <- MCYearOf
  ThisYear = 2025
  NameOf <- MCNameOf
  TopSize = 1
  Customers = {"c1"}
  Admins = {"a1"}
  Readers = {"a1"}
  Messages = {"m1", "m2", "m3"}
  Sender <- MCSender
  Thread <- MCThread
  PageSize = 2
  NoticeOrders = {"o1"}
  NoticeStatus = {"Pending", "Shipped", "Rejected", "Cancelled"}
  Requests = {r1, r2, r3, r4}
  Emails = {"e1"}
  NoOne = none
  Edits = {k1, k2, k3}
  Jobs <- MCJobs
  Pictures = 1
  Nobody = "nobody"
INVARIANTS ShopTypeOK NothingHappensTwice PricesAgree ReportsAgree UnreadIsCounted WindowIsCurrent 
CHECK_DEADLOCK FALSE

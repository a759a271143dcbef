--------------------------- MODULE MCRiskCheckout ---------------------------
(***************************************************************************)
(* The blacklist and the outbox share no rows: a behaviour runs checkouts  *)
(* with the one or with the other.                                         *)
(***************************************************************************)
EXTENDS RiskCheckout

VARIABLE part

\* An address of two bits, its network written plainly or with leading zeros.
Plain(a, b) == [bits |-> <<a, b>>, text |-> "plain"]
Zeros(a, b) == [bits |-> <<a, b>>, text |-> "zeros"]

\* Two checkouts of one phone, of one key or two, from two networks.
MCForms == {[key |-> 1, body |-> 1, phone |-> 1, ip |-> Plain(0, 0)],
            [key |-> 1, body |-> 2, phone |-> 1, ip |-> Plain(1, 0)],
            [key |-> 2, body |-> 2, phone |-> 1, ip |-> Plain(1, 0)]}
\* A phone (twice), the network of the second address in two spellings, a suspicious
\* address.
MCEntries == {[type |-> "PHONE", phone |-> 1, ip |-> Plain(0, 0), prefix |-> 0, severity |-> "HARD_BLOCK"],
              [type |-> "PHONE", phone |-> 1, ip |-> Plain(0, 0), prefix |-> 1, severity |-> "HARD_BLOCK"],
              [type |-> "CIDR", phone |-> 0, ip |-> Plain(1, 1), prefix |-> 1, severity |-> "HARD_BLOCK"],
              [type |-> "CIDR", phone |-> 0, ip |-> Zeros(1, 1), prefix |-> 1, severity |-> "HARD_BLOCK"],
              [type |-> "EXACT_IP", phone |-> 0, ip |-> Plain(0, 0), prefix |-> 0, severity |-> "SUSPICIOUS_FLAG"]}
\* A new customer, and one who sent two orders back.
MCHistories == {[known |-> FALSE, orders |-> 0, returned |-> 0], [known |-> TRUE, orders |-> 1, returned |-> 2]}

PartInit ==
    /\ part \in {"blacklist", "outbox"}
    /\ RiskInit
    /\ part = "outbox" =>
          /\ \A c, d \in Checkouts : checkout[c].form = checkout[d].form => c = d
          /\ \A c \in Checkouts : checkout[c].form.body = checkout[c].form.key
          /\ \A p \in Phones : ~subject[p].known
PartNext ==
    /\ \/ CheckoutNext
       \/ part = "blacklist" /\ BlacklistNext
       \/ part = "outbox" /\ OutboxNext
    /\ UNCHANGED part
PartSpec == PartInit /\ [][PartNext]_<<riskVars, part>>
=============================================================================

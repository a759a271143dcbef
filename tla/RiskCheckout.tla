---------------------------- MODULE RiskCheckout ----------------------------
(***************************************************************************)
(* The risk module: checkout under an idempotency key, with the blacklist  *)
(* checked under subject locks; manual review; and the outbox processor.   *)
(*                                                                         *)
(* A checkout is one transaction (READ COMMITTED): it locks its key row,   *)
(* then the lock rows of its address, phone and network in that order,     *)
(* reads the blacklist, and commits.  Who adds an entry to the blacklist   *)
(* locks the phone or the network.                                         *)
(*                                                                         *)
(* An address has AddressBits bits and a text.  The bits of a network are  *)
(* the first one, as the code locks /16 networks and lets ranges inside    *)
(* them be blocked.  One network can be written in several ways (10.1,     *)
(* 010.001): ranges are matched by the bits, locks are named by the text.  *)
(***************************************************************************)
EXTENDS Integers, FiniteSets

CONSTANTS
    Checkouts,    \* calls of checkout; an order has the name of its call
    Forms,        \* what is checked out: [key, body, phone, ip]
    AddressBits,  \* bits of an address (32 in the code)
    Spellings,    \* ways to write the network of an address
    Entries,      \* blacklist entries that administrators may add
    Histories,    \* what earlier orders left of a subject: [known, orders, returned]
    Processors,   \* instances of the outbox processor
    BatchSize,    \* events claimed together (50 in the code)
    MaxAttempts,  \* MAX_ATTEMPTS of an event (10 in the code)
    MaxClaims,    \* bound on how often an event is claimed
    LockTables    \* the driver accepts a list of tables to lock (MySQL's throws)

Phones == {f.phone : f \in Forms}
OrderKeys == {f.key : f \in Forms}
Addresses == [bits : [1 .. AddressBits -> {0, 1}], text : Spellings]

\* Entries: [type, phone, ip, prefix, severity].
ASSUME RiskAssumption ==
    /\ AddressBits \in Nat \ {0}
    /\ \A f \in Forms : f.ip \in Addresses
    /\ \A e \in Entries :
           /\ e.type \in {"PHONE", "EXACT_IP", "CIDR"}
           /\ e.ip \in Addresses /\ e.prefix \in 0 .. AddressBits
           /\ e.severity \in {"HARD_BLOCK", "SUSPICIOUS_FLAG"}
    /\ Histories \subseteq [known : BOOLEAN, orders : Nat, returned : Nat]
    /\ BatchSize \in Nat \ {0} /\ MaxAttempts \in Nat \ {0} /\ MaxClaims \in Nat
    /\ LockTables \in BOOLEAN

VARIABLES
    checkout,   \* the calls in flight
    keyRow,     \* rows of idempotency_keys
    subject,    \* rows of customer_risk_subjects, found by the phone
    blacklist,  \* state of each entry
    risked,     \* rows of the module's orders
    event,      \* rows of outbox_events
    processor   \* the outbox processors

checkoutVars == <<checkout, keyRow, subject, blacklist, risked>>
outboxVars == <<event, processor>>
riskVars == <<checkout, keyRow, subject, blacklist, risked, event, processor>>

NoKey == [done |-> FALSE, body |-> 0, code |-> 0]
NoCheckout(f) == [pc |-> "idle", form |-> f, locked |-> {},
                  hard |-> FALSE, blind |-> FALSE, score |-> 0]
NoEvent == [st |-> "NONE", due |-> FALSE, lapsed |-> FALSE, attempts |-> 0]
Resting == [pc |-> "idle", batch |-> {}, attempts |-> [c \in Checkouts |-> 0]]

RiskInit ==
    /\ checkout \in [Checkouts -> {NoCheckout(f) : f \in Forms}]
    /\ keyRow = [k \in OrderKeys |-> NoKey]
    /\ subject \in [Phones -> Histories]
    /\ blacklist = [e \in Entries |-> "absent"]
    /\ risked = [c \in Checkouts |-> [review |-> "NONE", hold |-> FALSE]]
    /\ event = [c \in Checkouts |-> NoEvent]
    /\ processor = [w \in Processors |-> Resting]

----------------------------------------------------------------------------
(* Addresses and locks.                                                     *)

\* checkIpInCidr compares numbers: they agree in the first `prefix` bits.
InCidr(ip, network, prefix) == \A i \in 1 .. prefix : ip.bits[i] = network.bits[i]

\* getCanonicalLockKeys splits the text: a network written in another way has
\* another key.
NetKey(ip) == <<"V4/16", ip.bits[1], ip.text>>
LockKeys(c) ==
    LET f == checkout[c].form IN {<<"IP", f.ip>>, <<"PHONE", f.phone>>, NetKey(f.ip)}
\* Sorted by name: IP, PHONE, V4/16.
Rank(k) == CASE k[1] = "IP" -> 1 [] k[1] = "PHONE" -> 2 [] OTHER -> 3
KeyToLock(c) ==
    CHOOSE k \in LockKeys(c) \ checkout[c].locked :
        \A l \in LockKeys(c) \ checkout[c].locked : Rank(k) <= Rank(l)
LockFree(k) == \A c \in Checkouts : k \notin checkout[c].locked

\* Mutant: the network of an address is not locked for it.
OwnAddress(e) == IF e.type = "PHONE" THEN <<"PHONE", e.phone>> ELSE <<"IP", e.ip>>
\* What the author of a blacklist entry locks.
EntryKey(e) == IF e.type = "PHONE" THEN <<"PHONE", e.phone>> ELSE NetKey(e.ip)

\* validateCidrRange: no range larger than a network.
Valid(e) == e.type = "CIDR" => e.prefix >= 1

\* An address entry is looked up by its text.
CoversIp(e, f) ==
    \/ e.type = "EXACT_IP" /\ e.ip = f.ip
    \/ e.type = "CIDR" /\ InCidr(f.ip, e.ip, e.prefix)
CoversPhone(e, f) == e.type = "PHONE" /\ e.phone = f.phone

Active(severity) ==
    {e \in Entries : e.severity = severity /\ blacklist[e] \in {"active", "expired"}}

\* checkIsHardBlockedInTx.  Of several entries of a phone one is looked at.
IpBlocked(f) == \E e \in Active("HARD_BLOCK") : CoversIp(e, f) /\ blacklist[e] = "active"
PhoneEntries(f) == {e \in Active("HARD_BLOCK") : CoversPhone(e, f)}
PhoneBlocked(f, blocked) ==
    IF PhoneEntries(f) = {} THEN blocked = FALSE
    ELSE \E e \in PhoneEntries(f) : blocked = (blacklist[e] = "active")

Flagged(f) == \E e \in Active("SUSPICIOUS_FLAG") : CoversIp(e, f) /\ blacklist[e] = "active"

----------------------------------------------------------------------------
(* RiskEngineService.evaluate and PolicyEngineService.decide                *)

RiskScore(flagged, s) ==
    (IF flagged THEN 40 ELSE 0)
        + (IF s.returned >= 2 THEN 50 ELSE 0) + (IF s.orders = 0 THEN 10 ELSE 0)

\* BLOCK needs a hard signal and no signal is one: the decision throws.
Decision(score) ==
    CASE score >= 70 -> "BLOCK" [] score >= 50 -> "MANUAL_REVIEW"
      [] score >= 30 -> "REVIEW" [] OTHER -> "ALLOW"

----------------------------------------------------------------------------
(* OrdersService.checkout                                                   *)

Turns(c, next) == checkout' = [checkout EXCEPT ![c] = next]
Ended(c, how) == Turns(c, [NoCheckout(checkout[c].form) EXCEPT !.pc = how])

\* Mutant: a call looks at the key row without locking it.
AnyTime(k) == k \in OrderKeys
KeyFree(k) == \A d \in Checkouts : checkout[d].form.key = k => checkout[d].pc \notin {"lock", "decide"}

\* claimIdempotencyInTx: the row is inserted or waited for, then read.
Claim(c) ==
    LET f == checkout[c].form
        claimed == keyRow[f.key]
    IN /\ checkout[c].pc = "idle"
       /\ KeyFree(f.key)
       /\ IF claimed.done
          THEN Ended(c, IF claimed.body = f.body THEN "replayed" ELSE "conflict")
          ELSE Turns(c, [checkout[c] EXCEPT !.pc = "lock"])
       /\ UNCHANGED <<keyRow, subject, blacklist, risked, event, processor>>

LockSubject(c) ==
    /\ checkout[c].pc = "lock"
    /\ LockKeys(c) # checkout[c].locked
    /\ LockFree(KeyToLock(c))
    /\ Turns(c, [checkout[c] EXCEPT !.locked = @ \cup {KeyToLock(c)}])
    /\ UNCHANGED <<keyRow, subject, blacklist, risked, event, processor>>

\* resolveOrMapSubjectInTx: the subject of the phone, or a new one.
SubjectOf(f) ==
    IF subject[f.phone].known THEN subject[f.phone] ELSE [known |-> TRUE, orders |-> 0, returned |-> 0]

\* Under the locks the blacklist is read and the score computed.  A query of the
\* blacklist that fails has found nothing.
Evaluate(c) ==
    LET f == checkout[c].form IN
    /\ checkout[c].pc = "lock"
    /\ LockKeys(c) = checkout[c].locked
    /\ \E blocked \in BOOLEAN, failed \in SUBSET {"phone", "ip", "flags"} :
          /\ PhoneBlocked(f, blocked)
          /\ Turns(c, [checkout[c] EXCEPT
                 !.pc = "decide", !.blind = (failed # {}),
                 !.hard = (blocked /\ "phone" \notin failed) \/ (IpBlocked(f) /\ "ip" \notin failed),
                 !.score = RiskScore(Flagged(f) /\ "flags" \notin failed, SubjectOf(f))])
    /\ UNCHANGED <<keyRow, subject, blacklist, risked, event, processor>>

\* completeIdempotencyInTx
Recorded(f, code) == keyRow' = [keyRow EXCEPT ![f.key] = [done |-> TRUE, body |-> f.body, code |-> code]]

\* The key row, the order, the subject's count and the event in one commit.
Decide(c) ==
    LET f == checkout[c].form
        held == Decision(checkout[c].score) = "MANUAL_REVIEW"
    IN /\ checkout[c].pc = "decide"
       /\ \/ /\ checkout[c].hard
             /\ Recorded(f, 403)
             /\ Ended(c, "rejected")
             /\ subject' = [subject EXCEPT ![f.phone] = SubjectOf(f)]
             /\ UNCHANGED <<risked, event>>
          \/ /\ ~checkout[c].hard
             /\ Decision(checkout[c].score) # "BLOCK"
             /\ Recorded(f, 201)
             /\ Ended(c, "ordered")
             /\ subject' = [subject EXCEPT ![f.phone] = [SubjectOf(f) EXCEPT !.orders = @ + 1]]
             /\ risked' = [risked EXCEPT ![c] =
                    [review |-> IF held THEN "PENDING_REVIEW" ELSE "NOT_REQUIRED", hold |-> held]]
             /\ event' = [event EXCEPT ![c] = [NoEvent EXCEPT !.st = "PENDING", !.due = TRUE]]
       /\ UNCHANGED <<blacklist, processor>>

\* Rollback, by a dead-lock, another error, or the policy that throws; the call is
\* made again, by the loop or by the customer.
RollBack(c) ==
    /\ checkout[c].pc \in {"lock", "decide"}
    /\ Ended(c, "idle")
    /\ UNCHANGED <<keyRow, subject, blacklist, risked, event, processor>>

----------------------------------------------------------------------------
(* BlacklistService and OrderReviewService                                  *)

CreateBlacklist(e) ==
    /\ blacklist[e] = "absent"
    /\ Valid(e)
    /\ LockFree(EntryKey(e))
    /\ blacklist' = [blacklist EXCEPT ![e] = "active"]
    /\ UNCHANGED <<checkout, keyRow, subject, risked, event, processor>>

RevokeBlacklist(e) ==
    /\ blacklist[e] \in {"active", "expired"}
    /\ blacklist' = [blacklist EXCEPT ![e] = "revoked"]
    /\ UNCHANGED <<checkout, keyRow, subject, risked, event, processor>>

Expires(e) ==
    /\ blacklist[e] = "active"
    /\ blacklist' = [blacklist EXCEPT ![e] = "expired"]
    /\ UNCHANGED <<checkout, keyRow, subject, risked, event, processor>>

\* approveRiskReview and rejectRiskReview, under the lock of the order.
ResolveReview(c) ==
    /\ risked[c].review = "PENDING_REVIEW" /\ risked[c].hold
    /\ \E approved \in BOOLEAN :
          risked' = [risked EXCEPT ![c] =
              [review |-> IF approved THEN "APPROVED" ELSE "REJECTED", hold |-> ~approved]]
    /\ UNCHANGED <<checkout, keyRow, subject, blacklist, event, processor>>

----------------------------------------------------------------------------
(* OutboxProcessorService.processPendingEvents                              *)

\* recoverStuckLeases
Recoverable(r) == r.st = "PROCESSING" /\ r.lapsed
Recover(w) ==
    /\ processor[w].pc = "idle"
    /\ event' = [c \in Checkouts |->
           IF Recoverable(event[c]) THEN [event[c] EXCEPT !.st = "PENDING", !.lapsed = FALSE] ELSE event[c]]
    /\ processor' = [processor EXCEPT ![w].pc = "claim"]
    /\ UNCHANGED checkoutVars

\* claimEventsPhase1: rows another processor is claiming are skipped.  The batch
\* carries the counts from before the claim.
ClaimEvents(w) ==
    /\ LockTables
    /\ processor[w].pc = "claim"
    /\ \E batch \in SUBSET {c \in Checkouts : event[c].st = "PENDING" /\ event[c].due} :
          /\ Cardinality(batch) <= BatchSize
          /\ \A c \in batch : event[c].attempts < MaxClaims
          /\ processor' = [processor EXCEPT ![w] = IF batch = {} THEN Resting ELSE
                 [pc |-> "publish", batch |-> batch,
                  attempts |-> [c \in Checkouts |-> IF c \in batch THEN event[c].attempts ELSE 0]]]
          /\ event' = [c \in Checkouts |-> IF c \notin batch THEN event[c] ELSE
                 [event[c] EXCEPT !.st = "PROCESSING", !.lapsed = FALSE, !.attempts = @ + 1]]
    /\ UNCHANGED checkoutVars

\* The claim throws and is rolled back, every time without LockTables.
ClaimThrows(w) ==
    /\ processor[w].pc = "claim"
    /\ processor' = [processor EXCEPT ![w] = Resting]
    /\ UNCHANGED <<checkout, keyRow, subject, blacklist, risked, event>>

Leaves(w, c) ==
    LET p == processor[w]
        rest == [p.attempts EXCEPT ![c] = 0]
    IN processor' = [processor EXCEPT ![w] =
           IF p.batch = {c} THEN Resting
           ELSE [p EXCEPT !.batch = p.batch \ {c}, !.attempts = rest]]

\* completeEventPhase3: whoever holds the row by now.
Publish(w, c) ==
    /\ c \in processor[w].batch
    /\ event' = [event EXCEPT ![c] =
           IF @.st = "PROCESSING" THEN [@ EXCEPT !.st = "PROCESSED", !.lapsed = FALSE] ELSE @]
    /\ Leaves(w, c)
    /\ UNCHANGED checkoutVars

GivesUpEarly(attempts) == attempts + 1 >= MaxAttempts   \* mutant: the claim counted in
GivesUp(attempts) == attempts >= MaxAttempts

\* failEventPhase3: by the id, whatever became of the row, with the count the
\* processor remembers.
FailPublish(w, c) ==
    /\ c \in processor[w].batch
    /\ event' = [event EXCEPT ![c] =
           IF GivesUp(processor[w].attempts[c])
           THEN [@ EXCEPT !.st = "FAILED", !.lapsed = FALSE]
           ELSE [@ EXCEPT !.st = "PENDING", !.lapsed = FALSE, !.due = FALSE]]
    /\ Leaves(w, c)
    /\ UNCHANGED checkoutVars

Crash(w) ==
    /\ processor[w] # Resting
    /\ processor' = [processor EXCEPT ![w] = Resting]
    /\ UNCHANGED <<checkout, keyRow, subject, blacklist, risked, event>>

\* The back-off or the lease of an event ends.
Time(c) ==
    /\ \/ event[c].st = "PENDING" /\ ~event[c].due /\ event' = [event EXCEPT ![c].due = TRUE]
       \/ event[c].st = "PROCESSING" /\ ~event[c].lapsed /\ event' = [event EXCEPT ![c].lapsed = TRUE]
    /\ UNCHANGED <<checkout, keyRow, subject, blacklist, risked, processor>>

----------------------------------------------------------------------------
CheckoutNext ==
    \E c \in Checkouts :
        Claim(c) \/ LockSubject(c) \/ Evaluate(c) \/ Decide(c) \/ RollBack(c) \/ ResolveReview(c)
BlacklistNext == \E e \in Entries : CreateBlacklist(e) \/ RevokeBlacklist(e) \/ Expires(e)
Dispatch(w) == \E c \in Checkouts : Publish(w, c) \/ FailPublish(w, c)
OutboxNext ==
    \/ \E c \in Checkouts : Time(c)
    \/ \E w \in Processors : Recover(w) \/ ClaimEvents(w) \/ ClaimThrows(w) \/ Dispatch(w) \/ Crash(w)

RiskNext == CheckoutNext \/ BlacklistNext \/ OutboxNext

RiskSpec == RiskInit /\ [][RiskNext]_riskVars

----------------------------------------------------------------------------
(* Properties.                                                              *)

RiskTypeOK ==
    /\ checkout \in [Checkouts ->
           [pc : {"idle", "lock", "decide", "replayed", "conflict", "rejected", "ordered"},
            form : Forms, locked : SUBSET UNION {LockKeys(c) : c \in Checkouts},
            hard : BOOLEAN, blind : BOOLEAN, score : 0 .. 100]]
    /\ keyRow \in [OrderKeys -> [done : BOOLEAN, body : {0} \cup {f.body : f \in Forms}, code : {0, 201, 403}]]
    /\ subject \in [Phones -> [known : BOOLEAN, orders : Nat, returned : Nat]]
    /\ blacklist \in [Entries -> {"absent", "active", "expired", "revoked"}]
    /\ risked \in [Checkouts ->
           [review : {"NONE", "NOT_REQUIRED", "PENDING_REVIEW", "APPROVED", "REJECTED"}, hold : BOOLEAN]]
    /\ event \in [Checkouts ->
           [st : {"NONE", "PENDING", "PROCESSING", "PROCESSED", "FAILED"},
            due : BOOLEAN, lapsed : BOOLEAN, attempts : 0 .. MaxClaims]]
    /\ processor \in [Processors ->
           [pc : {"idle", "claim", "publish"}, batch : SUBSET Checkouts,
            attempts : [Checkouts -> 0 .. MaxClaims]]]

Ordered(c) == risked[c].review # "NONE"

\* Concurrent and repeated checkouts of one key make one order.
OneOrderPerKey ==
    \A c, d \in Checkouts :
        Ordered(c) /\ Ordered(d) /\ checkout[c].form.key = checkout[d].form.key => c = d

\* Rows of the right type, and one order for a key.
RiskSafety == RiskTypeOK /\ OneOrderPerKey

\* Once a block is in the blacklist no order of the address is placed, nor of the
\* phone: a checkout that read the blacklist before is not overtaken.  Three lapses
\* of the code are excepted: a query that failed counts as nothing found; of two
\* entries of a phone an expired one may have been looked at; and a range whose
\* network is written otherwise than the address of the checkout has another lock.
IpBarred(f) ==
    \E e \in Active("HARD_BLOCK") :
        CoversIp(e, f) /\ blacklist[e] = "active" /\ NetKey(e.ip) = NetKey(f.ip)
PhoneBarred(f) ==
    LET entries == {e \in Entries : e.severity = "HARD_BLOCK" /\ CoversPhone(e, f)} IN
    /\ \E e \in entries : blacklist[e] = "active"
    /\ \A e \in entries : blacklist[e] \in {"absent", "active"}
Barred(f) == IpBarred(f) \/ PhoneBarred(f)
NoOrderOfBlocked ==
    [][\A c \in Checkouts :
          ~Ordered(c) /\ Ordered(c)' => checkout[c].blind \/ ~Barred(checkout[c].form)]_riskVars

\* Processors take events over by time alone and write what became of an event by
\* its id: one that lost its event long ago, with an old count, still does.  All the
\* same an event that is given up was claimed more often than MAX_ATTEMPTS.
GivenUpWhenExhausted ==
    \A c \in Checkouts : event[c].st = "FAILED" => event[c].attempts > MaxAttempts
=============================================================================

----------------------------- MODULE Messaging -----------------------------
(***************************************************************************)
(* The chat of customers with the administrators, the socket rooms it is   *)
(* announced in, and the notifications of orders.                          *)
(*                                                                         *)
(* A customer has one conversation, named here by the customer.  A message *)
(* is named by the call that sends it.  A window is a browser: a socket    *)
(* with its rooms, and the thread it shows.                                *)
(***************************************************************************)
EXTENDS Integers, FiniteSets, Sequences, FiniteSetsExt

CONSTANTS
    Customers, Admins,
    Readers,       \* those of them who have a window
    Messages,      \* messages that are sent
    Sender,        \* who sends each of them
    Thread,        \* and in whose conversation
    PageSize,      \* messages of an answer (50 in the code)
    NoticeOrders,  \* orders that notifications are about
    NoticeStatus   \* statuses an order is moved to

People == Customers \cup Admins

ASSUME MessagingAssumption ==
    /\ Sender \in [Messages -> People] /\ Thread \in [Messages -> Customers]
    /\ \A m \in Messages : Sender[m] \in Customers => Thread[m] = Sender[m]
    /\ Customers \cap Admins = {} /\ Readers \subseteq People
    /\ PageSize \in Nat \ {0} /\ IsFiniteSet(Messages)
    /\ "none" \notin Customers /\ {"none", "there"} \cap Messages = {}

VARIABLES
    conversation,  \* rows of conversations, by customer
    message,       \* rows of messages with the calls that send them
    window,        \* the browsers
    reading,       \* the calls of getThreadMessages
    answered,      \* customers' messages that administrators were answered with
    skipped,       \* those that a page of older messages, or an error, passed over
    notice         \* rows of notifications

chatVars == <<conversation, message, window, reading, answered, skipped>>
messagingVars == <<conversation, message, window, reading, answered, skipped, notice>>

NoPage == [st |-> "none", unread |-> 0, last |-> "none"]
Unsent == [st |-> "new", at |-> 0]
Closed == [rooms |-> {}, loaded |-> {}, shown |-> {}]
NotReading == [todo |-> <<>>, thread |-> "none", cursor |-> 0]
NoNotice == [to |-> "none", read |-> FALSE]

MessagingInit ==
    /\ conversation = [c \in Customers |-> NoPage]
    /\ message = [m \in Messages |-> Unsent]
    /\ window = [u \in Readers |-> Closed]
    /\ reading = [u \in Readers |-> NotReading]
    /\ answered = {} /\ skipped = {}
    /\ notice = [n \in {"PLACED", "PROCESSING", "SHIPPED", "DELIVERED", "CANCELLED"} \X NoticeOrders |-> NoNotice]

IsSent(m) == message[m].st \in {"sent", "told"}
Sent(c) == {m \in Messages : Thread[m] = c /\ IsSent(m)}
FromCustomer(m) == Sender[m] \in Customers

----------------------------------------------------------------------------
(* sendCustomerMessage and replyByAdmin: one transaction, then the events.  *)

Steps(m, st) == message' = [message EXCEPT ![m].st = st]

\* A customer who has no conversation makes one; an administrator gets an error.
FindConversation(m) ==
    LET there == conversation[Thread[m]].st = "there" IN
    /\ message[m].st = "new"
    /\ Steps(m, IF there THEN "store" ELSE IF FromCustomer(m) THEN "make" ELSE "failed")
    /\ UNCHANGED <<conversation, window, reading, answered, skipped, notice>>

\* customerId is unique: a second insert waits for the first, and then fails.
MakeConversation(m) ==
    LET c == Thread[m] IN
    /\ message[m].st = "make"
    /\ \/ /\ conversation[c].st = "none"
          /\ conversation' = [conversation EXCEPT ![c] = [st |-> m, unread |-> 0, last |-> m]]
          /\ Steps(m, "store")
       \/ /\ conversation[c].st = "there"
          /\ Steps(m, "failed")
          /\ UNCHANGED conversation
    /\ UNCHANGED <<window, reading, answered, skipped, notice>>

\* The row gets its time with the insert and is seen with the commit.
StoreMessage(m) ==
    /\ message[m].st = "store"
    /\ message' = [message EXCEPT ![m] = [st |-> "stored", at |-> 1 + Max({message[n].at : n \in Messages})]]
    /\ UNCHANGED <<conversation, window, reading, answered, skipped, notice>>

\* The counter is incremented in the database; the commit follows under its lock.
CommitMessage(m) ==
    LET c == Thread[m] IN
    /\ message[m].st = "stored"
    /\ conversation[c].st \in {"there", m}
    /\ conversation' = [conversation EXCEPT ![c] =
           [st |-> "there", unread |-> @.unread + (IF FromCustomer(m) THEN 1 ELSE 0), last |-> m]]
    /\ Steps(m, "sent")
    /\ UNCHANGED <<window, reading, answered, skipped, notice>>

\* An error rolls the transaction back, with the conversation if it is new.
AbortMessage(m) ==
    LET c == Thread[m] IN
    /\ message[m].st \in {"make", "store", "stored"}
    /\ message' = [message EXCEPT ![m] = [st |-> "failed", at |-> 0]]
    /\ conversation' = [conversation EXCEPT ![c] = IF @.st = m THEN NoPage ELSE @]
    /\ UNCHANGED <<window, reading, answered, skipped, notice>>

\* emitToConversation.  (The event for the inbox carries the counter 1 or 0, whatever
\* the counter is.)
TellMessage(m) ==
    /\ message[m].st = "sent"
    /\ Steps(m, "told")
    /\ window' = [u \in Readers |->
           IF Thread[m] \in window[u].rooms THEN [window[u] EXCEPT !.shown = @ \cup {m}] ELSE window[u]]
    /\ UNCHANGED <<conversation, reading, answered, skipped, notice>>

----------------------------------------------------------------------------
(* SocketGateway.                                                            *)

\* verifyConversationAccess, and the check of getThreadMessages
MayRead(u, c) == conversation[c].st = "there" /\ u \in Admins \cup {c}

JoinConversation(u, c) ==
    /\ MayRead(u, c) /\ c \notin window[u].rooms
    /\ window' = [window EXCEPT ![u].rooms = @ \cup {c}]
    /\ UNCHANGED <<conversation, message, reading, answered, skipped, notice>>

LeaveConversation(u, c) ==
    /\ c \in window[u].rooms
    /\ window' = [window EXCEPT ![u].rooms = @ \ {c}, ![u].loaded = @ \ {c}]
    /\ UNCHANGED <<conversation, message, reading, answered, skipped, notice>>

\* The socket is lost with its rooms, and with the answer it waits for.
Disconnect(u) ==
    /\ window[u] # Closed
    /\ window' = [window EXCEPT ![u] = Closed]
    /\ reading' = [reading EXCEPT ![u] = NotReading]
    /\ skipped' = IF u \in Admins THEN skipped \cup {m \in Messages : IsSent(m) /\ Thread[m] = reading[u].thread} ELSE skipped
    /\ UNCHANGED <<conversation, message, answered, notice>>

----------------------------------------------------------------------------
(* getThreadMessages and getMyConversation                                  *)

\* Mutant: the messages are read before the counter is reset.
FetchFirst(u, c) ==
    IF u \in Admins /\ conversation[c].unread > 0 THEN <<"fetch", "reset">> ELSE <<"fetch">>
CallOrder(u, c) ==
    IF u \in Admins /\ conversation[c].unread > 0 THEN <<"reset", "fetch">> ELSE <<"fetch">>

\* cursor is the time of a message that is shown, 0 for the last page.
OpenThread(u, c, cursor) ==
    /\ reading[u] = NotReading
    /\ MayRead(u, c)
    /\ cursor \in {0} \cup {message[m].at : m \in window[u].shown \cap Sent(c)}
    /\ reading' = [reading EXCEPT ![u] = [todo |-> CallOrder(u, c), thread |-> c, cursor |-> cursor]]
    /\ UNCHANGED <<conversation, message, window, answered, skipped, notice>>

\* What is left of the call; nothing is remembered when it is over.
CallGoesOn(u) ==
    reading' = [reading EXCEPT ![u] =
        IF Len(@.todo) = 1 THEN NotReading ELSE [reading[u] EXCEPT !.todo = Tail(@)]]

ResetUnread(u) ==
    /\ reading[u].todo # <<>> /\ Head(reading[u].todo) = "reset"
    /\ conversation' = [conversation EXCEPT ![reading[u].thread].unread = 0]
    /\ CallGoesOn(u)
    /\ UNCHANGED <<message, window, answered, skipped, notice>>

\* Mutant: the list is not reversed.
FirstPage(c, cursor) ==
    LET before == {m \in Sent(c) : cursor = 0 \/ message[m].at < cursor} IN
    {m \in before : Cardinality({n \in before : message[n].at < message[m].at}) < PageSize}
\* The last messages before the cursor, in order of their time.
Page(c, cursor) ==
    LET before == {m \in Sent(c) : cursor = 0 \/ message[m].at < cursor} IN
    {m \in before : Cardinality({n \in before : message[n].at > message[m].at}) < PageSize}

FetchPage(u) ==
    LET c == reading[u].thread
        page == Page(c, reading[u].cursor)
    IN /\ reading[u].todo # <<>> /\ Head(reading[u].todo) = "fetch"
       /\ window' = [window EXCEPT
              ![u].shown = @ \cup page,
              ![u].loaded = IF reading[u].cursor = 0 THEN (@ \cup {c}) \cap window[u].rooms ELSE @]
       /\ answered' = IF u \in Admins THEN answered \cup page ELSE answered
       /\ skipped' = IF u \in Admins THEN skipped \cup (Sent(c) \ page) ELSE skipped
       /\ CallGoesOn(u)
       /\ UNCHANGED <<conversation, message, notice>>

\* The query fails after the counter was reset.
FetchFails(u) ==
    /\ reading[u].todo # <<>> /\ Head(reading[u].todo) = "fetch"
    /\ reading' = [reading EXCEPT ![u] = NotReading]
    /\ skipped' = IF u \in Admins THEN skipped \cup Sent(reading[u].thread) ELSE skipped
    /\ UNCHANGED <<conversation, message, window, answered, notice>>

----------------------------------------------------------------------------
(* NotificationService.  (type, orderId) is unique; an insert that fails is  *)
(* logged and dropped.                                                      *)

\* typeMap of createOrderNotification
NoticeKind(status) ==
    CASE status = "Pending" -> "PLACED"
      [] status \in {"Processing", "Preparing Order"} -> "PROCESSING"
      [] status \in {"Shipped", "Handed Over to Courier", "Out for Delivery"} -> "SHIPPED"
      [] status \in {"Delivered", "Completed"} -> "DELIVERED"
      [] status \in {"Rejected", "Cancelled", "Returned", "Failed"} -> "CANCELLED"

Notify(kind, o, to) ==
    /\ notice[<<kind, o>>] = NoNotice
    /\ notice' = [notice EXCEPT ![<<kind, o>>] = [to |-> to, read |-> FALSE]]
    /\ UNCHANGED chatVars

NotifyCustomer(o, status) == Notify(NoticeKind(status), o, "customer")
NotifyAdmin(o) == Notify("PLACED", o, "admin")

UnreadNotices(to) == Cardinality({n \in DOMAIN notice : notice[n].to = to /\ ~notice[n].read})

\* One of the reader's, or all that were unread when the list was read.
MarkRead(to) ==
    \E N \in SUBSET {n \in DOMAIN notice : notice[n].to = to /\ ~notice[n].read} :
        /\ UnreadNotices(to) > 0 /\ N # {}
        /\ notice' = [n \in DOMAIN notice |-> IF n \in N THEN [notice[n] EXCEPT !.read = TRUE] ELSE notice[n]]
        /\ UNCHANGED chatVars

----------------------------------------------------------------------------
Send(m) == FindConversation(m) \/ MakeConversation(m) \/ StoreMessage(m) \/ CommitMessage(m) \/ AbortMessage(m) \/ TellMessage(m)
Read(u) ==
    \/ \E c \in Customers, cursor \in 0 .. Cardinality(Messages) : OpenThread(u, c, cursor)
    \/ ResetUnread(u) \/ FetchPage(u) \/ FetchFails(u)
Watch(u) == Disconnect(u) \/ \E c \in Customers : JoinConversation(u, c) \/ LeaveConversation(u, c)

ChatNext == (\E m \in Messages : Send(m)) \/ (\E u \in Readers : Read(u) \/ Watch(u))
NoticeNext ==
    \/ \E o \in NoticeOrders : NotifyAdmin(o) \/ \E s \in NoticeStatus : NotifyCustomer(o, s)
    \/ \E to \in {"customer", "admin"} : MarkRead(to)
MessagingNext == ChatNext \/ NoticeNext
MessagingSpec == MessagingInit /\ [][MessagingNext]_messagingVars

----------------------------------------------------------------------------
(* Properties.                                                              *)

MessagingTypeOK ==
    /\ conversation \in [Customers ->
           [st : {"none", "there"} \cup Messages, unread : Nat, last : {"none"} \cup Messages]]
    /\ message \in [Messages ->
           [st : {"new", "make", "store", "stored", "sent", "told", "failed"}, at : Nat]]
    /\ window \in [Readers ->
           [rooms : SUBSET Customers, loaded : SUBSET Customers, shown : SUBSET Messages]]
    /\ \A u \in Readers :
           /\ window[u].loaded \subseteq window[u].rooms
           /\ reading[u].todo \in {<<>>, <<"reset", "fetch">>, <<"fetch">>}
    /\ answered \cup skipped \subseteq Messages
    /\ \A n \in DOMAIN notice : notice[n].to \in {"none", "customer", "admin"}

\* A message of a customer that no administrator was answered with is in the unread
\* counter of its conversation, however messages, resets and answers interleave.  The
\* counter is also reset by an answer that has no place for the message, one with older
\* messages or with an error, and is of no use while an answer is on its way.
UnreadIsCounted ==
    \A c \in Customers :
        (\A u \in Admins \cap Readers : reading[u].thread # c) =>
            conversation[c].unread >=
                Cardinality({m \in Sent(c) : FromCustomer(m)} \ (answered \cup skipped))

\* A window that joined a conversation and then loaded it shows every message that was
\* announced, but for those older than a full page of messages it shows: none falls
\* between page and event.
WindowIsCurrent ==
    \A u \in Readers, c \in Customers :
        c \in window[u].loaded =>
            \A m \in Messages \ window[u].shown :
                message[m].st = "told" /\ Thread[m] = c =>
                    Cardinality({n \in window[u].shown : Thread[n] = c /\ message[n].at > message[m].at}) >= PageSize
=============================================================================

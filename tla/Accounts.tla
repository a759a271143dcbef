------------------------------ MODULE Accounts ------------------------------
(***************************************************************************)
(* Accounts of customers: registration, sign-in with Google, profiles and  *)
(* passwords that are reset with a code sent by mail.                      *)
(*                                                                         *)
(* Each call reads, works (uploads, hashes, sends mail) and writes; only   *)
(* registration is a transaction.  A row has the name of the call that     *)
(* made it.  Tokens and cookies are not modelled.                          *)
(***************************************************************************)
EXTENDS FiniteSets

CONSTANTS
    Requests,  \* calls
    Emails,
    NoOne      \* no call

ASSUME AccountsAssumption == NoOne \notin Requests \cup {"register"}

VARIABLES
    account,   \* rows of user
    profile,   \* rows of user-profile: the account each belongs to
    request,   \* the calls
    met        \* pairs of calls that were in flight together

accountsVars == <<account, profile, request, met>>

NoAccount == [st |-> "none", email |-> NoOne, by |-> NoOne, secret |-> NoOne, code |-> NoOne]
NewRequest == [pc |-> "new", on |-> NoOne, code |-> NoOne, found |-> NoOne]

AccountsInit ==
    /\ account = [k \in Requests |-> NoAccount]
    /\ profile = [k \in Requests |-> NoOne]
    /\ request = [k \in Requests |-> NewRequest]
    /\ met = {}

\* findOneByQuery: rows that are not deleted; a row is found by its e-mail.
Live(e) == {a \in Requests : account[a].st = "live" /\ account[a].email = e}
Known(e) == {a \in Requests : account[a].st # "none" /\ account[a].email = e}
ProfilesOf(a) == {p \in Requests : profile[p] = a}

\* Mutant: the column is not unique.
AnyEmail(e) == e \in Emails
\* The e-mail is unique, also among deleted rows.
EmailFree(e) == Known(e) = {}

InFlight == {k \in Requests : request[k].pc \notin {"new", "done"}}
Starts(k, pc, on, code) ==
    /\ request[k].pc = "new"
    /\ request' = [request EXCEPT ![k] = [pc |-> pc, on |-> on, code |-> code, found |-> NoOne]]
    /\ met' = met \cup {{j, k} : j \in InFlight}
Finishes(k) == request' = [request EXCEPT ![k].pc = "done"] /\ UNCHANGED met

----------------------------------------------------------------------------
(* register and firebaseLogin                                               *)

Register(k, e) ==
    /\ Known(e) = {}
    /\ Starts(k, "register", e, NoOne)
    /\ UNCHANGED <<account, profile>>

\* The user and the profile in one transaction; the insert fails on a known e-mail.
InsertUser(k) ==
    LET e == request[k].on IN
    /\ request[k].pc = "register"
    /\ IF EmailFree(e)
       THEN /\ account' = [account EXCEPT ![k] = [NoAccount EXCEPT !.st = "live", !.email = e, !.by = "register", !.secret = k]]
            /\ profile' = [profile EXCEPT ![k] = k]
       ELSE UNCHANGED <<account, profile>>
    /\ Finishes(k)

\* An account that was deleted is not found, and the insert fails on its e-mail.
GoogleLogin(k, e) ==
    /\ Live(e) = {}
    /\ Starts(k, "google", e, NoOne)
    /\ UNCHANGED <<account, profile>>

\* No profile is made.
InsertGoogleUser(k) ==
    LET e == request[k].on IN
    /\ request[k].pc = "google"
    /\ account' = IF EmailFree(e)
                  THEN [account EXCEPT ![k] = [NoAccount EXCEPT !.st = "live", !.email = e, !.by = "google"]]
                  ELSE account
    /\ Finishes(k)
    /\ UNCHANGED profile

----------------------------------------------------------------------------
(* forgotPassword and resetPassword.  Each writes by the id it found; a code *)
(* that is written is mailed, and named by the call.                        *)

ForgotPassword(k, e) ==
    \E a \in Live(e) : Starts(k, "forgot", a, NoOne) /\ UNCHANGED <<account, profile>>

WriteCode(k) ==
    /\ request[k].pc = "forgot"
    /\ account' = [account EXCEPT ![request[k].on].code = k]
    /\ Finishes(k)
    /\ UNCHANGED profile

CodeExpires(a) ==
    /\ account[a].code # NoOne
    /\ account' = [account EXCEPT ![a].code = NoOne]
    /\ UNCHANGED <<profile, request, met>>

\* The code that was mailed by the call c is checked; the new password is hashed.
ResetPassword(k, e, c) ==
    \E a \in Live(e) :
        /\ c # NoOne /\ account[a].code = c
        /\ Starts(k, "reset", a, c)
        /\ UNCHANGED <<account, profile>>

\* Mutant: the code stays.
PasswordOnly(k) == [account[request[k].on] EXCEPT !.secret = k]
NewPassword(k) == [account[request[k].on] EXCEPT !.secret = k, !.code = NoOne]
\* The code is cleared, also one that was written meanwhile.
WritePassword(k) ==
    /\ request[k].pc = "reset"
    /\ account' = [account EXCEPT ![request[k].on] = NewPassword(k)]
    /\ Finishes(k)
    /\ UNCHANGED profile

\* validateUser: who may sign in with the password of call s.
CanLogin(e, s) == \E a \in Live(e) : account[a].secret = s

----------------------------------------------------------------------------
(* UserService.  updatePassword changes nothing: the password it compares    *)
(* with is a column that findOne does not select, and the comparison throws. *)

\* updateCustomerProfile: the account, then its profile (the first, if there are more).
UpdateProfile(k, e) ==
    \E a \in Live(e) : Starts(k, "profile", a, NoOne) /\ UNCHANGED <<account, profile>>

FindProfile(k) ==
    LET found == ProfilesOf(request[k].on) IN
    /\ request[k].pc = "profile"
    /\ \E p \in found \cup {NoOne} :
          /\ p = NoOne <=> found = {}
          /\ request' = [request EXCEPT ![k] = [@ EXCEPT !.pc = "upload", !.found = p]]
    /\ UNCHANGED <<account, profile, met>>

\* Mutant: a profile is made whether there is one or not.
NothingFound(k) == request[k].pc = "upload"
MakesProfile(k) == request[k].found = NoOne
WriteProfile(k) ==
    /\ request[k].pc = "upload"
    /\ profile' = IF MakesProfile(k) THEN [profile EXCEPT ![k] = request[k].on] ELSE profile
    /\ Finishes(k)
    /\ UNCHANGED account

\* remove: a soft deletion.
RemoveUser(a) ==
    /\ account[a].st = "live"
    /\ account' = [account EXCEPT ![a].st = "deleted"]
    /\ UNCHANGED <<profile, request, met>>

\* An error ends a call.
RequestFails(k) ==
    /\ k \in InFlight
    /\ request' = [request EXCEPT ![k] = [NewRequest EXCEPT !.pc = "done"]]
    /\ UNCHANGED <<account, profile, met>>

----------------------------------------------------------------------------
AuthCalls(k) ==
    \/ \E e \in Emails :
          \/ Register(k, e) \/ GoogleLogin(k, e) \/ ForgotPassword(k, e)
          \/ \E c \in Requests : ResetPassword(k, e, c)
    \/ InsertUser(k) \/ InsertGoogleUser(k) \/ WriteCode(k) \/ WritePassword(k)
UserCalls(k) ==
    \/ \E e \in Emails : UpdateProfile(k, e)
    \/ FindProfile(k) \/ WriteProfile(k)
AccountsNext ==
    \/ \E k \in Requests : AuthCalls(k) \/ UserCalls(k) \/ RequestFails(k)
    \/ \E a \in Requests : RemoveUser(a) \/ CodeExpires(a)

AccountsSpec == AccountsInit /\ [][AccountsNext]_accountsVars

----------------------------------------------------------------------------
(* Properties.                                                              *)

AccountsTypeOK ==
    /\ \A k \in Requests :
           /\ account[k].st \in {"none", "live", "deleted"}
           /\ account[k].email \in Emails \cup {NoOne}
           /\ {account[k].secret, account[k].code} \subseteq Requests \cup {NoOne}
           /\ request[k].pc \in {"new", "register", "google", "forgot", "reset", "profile", "upload", "done"}
    /\ profile \in [Requests -> Requests \cup {NoOne}]

\* However sign-ups of one e-mail run against each other and against deletions, it has
\* one account and one password; who registered has a profile, and only two profile
\* calls that were in flight together make a second one.
OneAccountPerEmail ==
    /\ \A a, b \in Requests :
           account[a].st # "none" /\ account[b].st # "none" /\ account[a].email = account[b].email => a = b
    /\ \A e \in Emails : \A s, t \in Requests : CanLogin(e, s) /\ CanLogin(e, t) => s = t
    /\ \A a \in Requests :
           /\ account[a].by = "register" => ProfilesOf(a) # {}
           /\ \A p, q \in ProfilesOf(a) : p = q \/ {p, q} \in met

\* A code that was mailed is used up: two calls reset a password with the same code
\* only if they were in flight together.
CodeIsUsedOnce ==
    \A j, k \in Requests :
        request[j].code = request[k].code /\ request[j].code # NoOne => j = k \/ {j, k} \in met
=============================================================================

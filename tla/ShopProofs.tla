----------------------------- MODULE ShopProofs -----------------------------
(***************************************************************************)
(* Proofs about the parts of the shop that need no transaction or make     *)
(* little of it: accounts, chat, catalogue and sums.                       *)
(***************************************************************************)
EXTENDS MCShop, SetSums

----------------------------------------------------------------------------
(* Accounts.  Calls that are in flight together have met (FlightsMeet), so  *)
(* whatever a call did not find, and another one wrote before it, was       *)
(* written by a call it met (LookedUp).  A code is written by a call that   *)
(* is done with it, hence never twice (CodesInv).                           *)

AccountRow ==
    [st : {"none", "live", "deleted"}, email : Emails \cup {NoOne},
     by : {NoOne, "register", "google"}, secret : Requests \cup {NoOne},
     code : Requests \cup {NoOne}]
RequestRow ==
    [pc : {"new", "register", "google", "forgot", "reset", "profile", "upload", "done"},
     on : Requests \cup Emails \cup {NoOne}, code : Requests \cup {NoOne},
     found : Requests \cup {NoOne}]
AccountsTypes ==
    /\ account \in [Requests -> AccountRow]
    /\ profile \in [Requests -> Requests \cup {NoOne}]
    /\ request \in [Requests -> RequestRow]

FlightsMeet == \A j, k \in InFlight : j = k \/ {j, k} \in met
UnwrittenRows ==
    \A k \in Requests : request[k].pc # "done" => account[k] = NoAccount /\ profile[k] = NoOne
PlacesFound ==
    \A k \in Requests :
        /\ request[k].pc \in {"register", "google"} => request[k].on \in Emails
        /\ request[k].pc \in {"forgot", "reset", "profile", "upload"} =>
               request[k].on \in Requests /\ account[request[k].on].st # "none"
OwnedProfiles == \A p \in Requests : profile[p] # NoOne => account[profile[p]].st # "none"
LookedUp ==
    \A k \in Requests : request[k].pc = "upload" /\ request[k].found = NoOne =>
        \A p \in ProfilesOf(request[k].on) : {p, k} \in met
EmailsDiffer ==
    \A a, b \in Requests :
        account[a].st # "none" /\ account[b].st # "none" /\ account[a].email = account[b].email => a = b
ProfilesMet ==
    \A a \in Requests :
        /\ account[a].by = "register" => ProfilesOf(a) # {}
        /\ \A p, q \in ProfilesOf(a) : p = q \/ {p, q} \in met
CodesInv ==
    /\ \A a \in Requests : account[a].code # NoOne =>
           request[account[a].code].pc = "done" /\ account[a].st # "none"
    /\ \A a, b \in Requests : account[a].code # NoOne /\ account[a].code = account[b].code => a = b
    /\ \A j \in Requests : request[j].code # NoOne =>
           request[j].pc \in {"reset", "done"} /\ request[request[j].code].pc = "done"
    /\ \A j, a \in Requests : request[j].code # NoOne /\ account[a].code = request[j].code =>
           request[j].pc = "reset" /\ a = request[j].on

AccountsInv ==
    /\ AccountsTypes /\ FlightsMeet /\ UnwrittenRows /\ PlacesFound /\ OwnedProfiles
    /\ LookedUp /\ EmailsDiffer /\ ProfilesMet /\ CodesInv /\ CodeIsUsedOnce

\* A call that starts has met every call in flight; nothing else changes.
LEMMA CallStarts ==
  ASSUME AccountsInv, UNCHANGED <<account, profile>>, NEW k \in Requests,
         NEW pc, NEW on, NEW code, Starts(k, pc, on, code),
         \/ pc \in {"register", "google"} /\ on \in Emails /\ code = NoOne
         \/ pc \in {"forgot", "profile"} /\ on \in Requests /\ account[on].st # "none" /\ code = NoOne
         \/ /\ pc = "reset" /\ on \in Requests /\ account[on].st # "none"
            /\ code \in Requests /\ account[on].code = code
  PROVE  AccountsInv'
<1> USE DEF AccountsInv
<1>1. /\ request[k].pc = "new" /\ request[k] \in RequestRow
      /\ request' = [request EXCEPT ![k] = [pc |-> pc, on |-> on, code |-> code, found |-> NoOne]]
      /\ met' = met \cup {{j, k} : j \in InFlight}
      /\ account' = account /\ profile' = profile
  BY DEF Starts, AccountsTypes
<1>2. /\ request'[k] = [pc |-> pc, on |-> on, code |-> code, found |-> NoOne]
      /\ \A j \in Requests \ {k} : request'[j] = request[j]
      /\ k \notin InFlight /\ InFlight' = InFlight \cup {k}
  BY <1>1 DEF AccountsTypes, InFlight
<1>3. AccountsTypes'
  BY <1>1, <1>2 DEF AccountsTypes, RequestRow
<1>4. FlightsMeet'
  BY <1>1, <1>2 DEF FlightsMeet
<1>5. UnwrittenRows' /\ PlacesFound' /\ OwnedProfiles' /\ EmailsDiffer'
  BY <1>1, <1>2 DEF UnwrittenRows, PlacesFound, OwnedProfiles, EmailsDiffer
<1>6. LookedUp' /\ ProfilesMet'
  BY <1>1, <1>2 DEF LookedUp, ProfilesMet, ProfilesOf
<1>7. CodesInv'
  <2>1. code # NoOne => request[code].pc = "done" /\ k # code
    BY <1>1, AccountsAssumption DEF CodesInv
  <2>2. \A a \in Requests : account[a].code # NoOne => account[a].code # k
    BY <1>1 DEF CodesInv
  <2>3. \A j \in Requests : request[j].code # NoOne => request[j].code # k
    BY <1>1 DEF CodesInv
  <2> QED
    BY <1>1, <1>2, <2>1, <2>2, <2>3 DEF CodesInv, AccountsTypes, RequestRow, AccountRow
<1>8. CodeIsUsedOnce'
  <2>1. \A j \in Requests \ {k} : request[j].code = code /\ code # NoOne => j \in InFlight
    BY <1>1 DEF CodesInv, InFlight
  <2>2. \A j \in Requests \ {k} : request[j].code = code /\ code # NoOne => {j, k} \in met' /\ {k, j} \in met'
    BY <2>1, <1>1
  <2> QED
    BY <1>1, <1>2, <2>2 DEF CodeIsUsedOnce
<1> QED
  BY <1>3, <1>4, <1>5, <1>6, <1>7, <1>8

\* A call ends: it stays met, and nobody reads what it was about.
LEMMA CallEnds ==
  ASSUME AccountsInv, NEW k \in Requests, k \in InFlight, Finishes(k)
  PROVE  /\ request' \in [Requests -> RequestRow]
         /\ \A j \in Requests :
                /\ request'[j].pc = IF j = k THEN "done" ELSE request[j].pc
                /\ request'[j].on = request[j].on /\ request'[j].code = request[j].code
                /\ request'[j].found = request[j].found
         /\ InFlight' = InFlight \ {k} /\ FlightsMeet' /\ met' = met
         /\ \A j \in InFlight : j # k => {j, k} \in met /\ {k, j} \in met
<1>1. /\ request \in [Requests -> RequestRow] /\ request[k] \in RequestRow /\ met' = met
      /\ request' = [request EXCEPT ![k].pc = "done"]
  BY DEF AccountsInv, AccountsTypes, Finishes
<1>2. /\ request'[k] = [request[k] EXCEPT !.pc = "done"]
      /\ \A j \in Requests \ {k} : request'[j] = request[j]
  BY <1>1
<1>3. request' \in [Requests -> RequestRow] /\ request'[k].pc = "done"
  BY <1>1, <1>2 DEF RequestRow
<1>4. InFlight' = InFlight \ {k}
  BY <1>2, <1>3 DEF InFlight
<1>5. \A j \in InFlight : j # k => {j, k} \in met /\ {k, j} \in met
  BY DEF AccountsInv, FlightsMeet
<1>6. FlightsMeet'
  BY <1>1, <1>4 DEF AccountsInv, FlightsMeet
<1>7. \A j \in Requests :
         /\ request'[j].pc = IF j = k THEN "done" ELSE request[j].pc
         /\ request'[j].on = request[j].on /\ request'[j].code = request[j].code
         /\ request'[j].found = request[j].found
  BY <1>1, <1>2 DEF RequestRow
<1> QED
  BY <1>1, <1>3, <1>4, <1>5, <1>6, <1>7

\* A new account, with or without its profile, or none as the e-mail is known.
LEMMA AccountMade ==
  ASSUME AccountsInv, NEW k \in Requests, request[k].pc \in {"register", "google"}, Finishes(k),
         NEW a \in AccountRow, a.st = "live", a.email = request[k].on, a.code = NoOne,
         \/ UNCHANGED <<account, profile>>
         \/ /\ EmailFree(request[k].on) /\ account' = [account EXCEPT ![k] = a]
            /\ profile' = IF a.by = "register" THEN [profile EXCEPT ![k] = k] ELSE profile
  PROVE  AccountsInv'
<1> USE DEF AccountsInv
<1>1. k \in InFlight /\ request[k].code = NoOne /\ request[k].pc # "done"
  BY DEF InFlight, CodesInv
<1>2. /\ \A j \in Requests :
             /\ request'[j].pc = IF j = k THEN "done" ELSE request[j].pc
             /\ request'[j].on = request[j].on /\ request'[j].code = request[j].code
             /\ request'[j].found = request[j].found
      /\ met' = met /\ FlightsMeet' /\ request' \in [Requests -> RequestRow]
      /\ \A j \in InFlight : j # k => {j, k} \in met /\ {k, j} \in met
  BY <1>1, CallEnds
<1>3. request'[k].pc = "done" /\ request'[k].code = NoOne
  BY <1>1, <1>2
<1>4. account[k] = NoAccount /\ profile[k] = NoOne
  BY <1>1 DEF UnwrittenRows
<1>5. CASE UNCHANGED <<account, profile>>
  <2>1. AccountsTypes' /\ OwnedProfiles' /\ EmailsDiffer' /\ ProfilesMet'
    BY <1>2, <1>5 DEF AccountsTypes, OwnedProfiles, EmailsDiffer, ProfilesMet, ProfilesOf
  <2>2. UnwrittenRows' /\ PlacesFound' /\ LookedUp'
    BY <1>2, <1>3, <1>5 DEF UnwrittenRows, PlacesFound, LookedUp, ProfilesOf
  <2>3. CodesInv' /\ CodeIsUsedOnce'
    <3>1. \A c \in Requests : /\ account[c].code \in Requests \cup {NoOne}
                              /\ request[c].code \in Requests \cup {NoOne}
      BY DEF AccountsTypes, AccountRow, RequestRow
    <3> QED
      BY <1>1, <1>2, <1>3, <1>5, <3>1 DEF CodesInv, CodeIsUsedOnce
  <2> QED
    BY <1>2, <2>1, <2>2, <2>3
<1>6. CASE ~UNCHANGED <<account, profile>>
  <2>1. /\ account'[k] = a /\ \A b \in Requests \ {k} : account'[b] = account[b]
        /\ account' \in [Requests -> AccountRow] /\ Known(request[k].on) = {}
    BY <1>6 DEF AccountsTypes, EmailFree
  <2>2. /\ \A p \in Requests \ {k} : profile'[p] = profile[p]
        /\ profile'[k] = (IF a.by = "register" THEN k ELSE NoOne)
        /\ profile' \in [Requests -> Requests \cup {NoOne}]
    BY <1>4, <1>6 DEF AccountsTypes
  <2>3. AccountsTypes'
    BY <1>2, <2>1, <2>2 DEF AccountsTypes
  <2>10. UnwrittenRows' /\ PlacesFound'
    BY <1>2, <1>3, <2>1, <2>2 DEF UnwrittenRows, PlacesFound
  <2>4. OwnedProfiles'
    BY <2>1, <2>2, AccountsAssumption DEF OwnedProfiles, AccountsTypes
  <2>5. \A p \in Requests : profile[p] # k
    BY <1>4, AccountsAssumption DEF OwnedProfiles, NoAccount
  <2>6. EmailsDiffer'
    BY <2>1 DEF EmailsDiffer, Known
  <2>7. LookedUp'
    <3> SUFFICES ASSUME NEW j \in Requests, (request[j].pc = "upload" /\ request[j].found = NoOne)',
                        NEW p \in Requests, profile'[p] = request'[j].on
                 PROVE  {p, j} \in met'
      BY DEF LookedUp, ProfilesOf
    <3>1. /\ j # k /\ j \in InFlight /\ request'[j].on = request[j].on
          /\ request[j].pc = "upload" /\ request[j].found = NoOne
      BY <1>2, <1>3 DEF InFlight
    <3>2. CASE p = k
      BY <3>1, <3>2, <1>2
    <3>3. CASE p # k
      BY <3>1, <3>3, <1>2, <2>2 DEF LookedUp, ProfilesOf
    <3> QED
      BY <3>2, <3>3
  <2>8. ProfilesMet'
    <3>1. ASSUME NEW b \in Requests, account'[b].by = "register" PROVE ProfilesOf(b)' # {}
      BY <3>1, <1>4, <2>1, <2>2, AccountsAssumption DEF ProfilesMet, ProfilesOf
    <3>2. ASSUME NEW b \in Requests, NEW p \in Requests, NEW q \in Requests,
                 profile'[p] = b, profile'[q] = b
          PROVE  p = q \/ {p, q} \in met
      BY <3>2, <2>2, <2>5, AccountsAssumption DEF ProfilesMet, ProfilesOf
    <3> QED
      BY <3>1, <3>2, <1>2 DEF ProfilesMet, ProfilesOf
  <2>9. CodesInv' /\ CodeIsUsedOnce'
    <3>1. \A b \in Requests : account'[b].code # NoOne => b # k /\ account[b].code \in Requests
      BY <2>1 DEF AccountsTypes, AccountRow
    <3> QED
      BY <1>1, <1>2, <1>3, <2>1, <3>1 DEF CodesInv, CodeIsUsedOnce, AccountsTypes, RequestRow
  <2> QED
    BY <1>2, <2>3, <2>4, <2>6, <2>7, <2>8, <2>9, <2>10
<1> QED
  BY <1>5, <1>6

\* An account is written: its code, its password or its deletion.
LEMMA AccountWritten ==
  ASSUME AccountsInv, NEW a \in Requests, NEW b \in AccountRow, account[a].st # "none",
         account' = [account EXCEPT ![a] = b], profile' = profile, met' = met,
         b.st # "none", b.email = account[a].email, b.by = account[a].by
  PROVE  /\ account' \in [Requests -> AccountRow] /\ account'[a] = b
         /\ \A c \in Requests \ {a} : account'[c] = account[c]
         /\ \A c \in Requests : account'[c].st = "none" <=> account[c].st = "none"
         /\ OwnedProfiles' /\ EmailsDiffer' /\ ProfilesMet'
<1>1. /\ account' \in [Requests -> AccountRow] /\ account'[a] = b
      /\ \A c \in Requests \ {a} : account'[c] = account[c]
  BY DEF AccountsInv, AccountsTypes
<1>2. \A c \in Requests : /\ account'[c].st = "none" <=> account[c].st = "none"
                          /\ account'[c].email = account[c].email /\ account'[c].by = account[c].by
  BY <1>1
<1>3. OwnedProfiles' /\ EmailsDiffer' /\ ProfilesMet'
  BY <1>2, AccountsAssumption DEF AccountsInv, AccountsTypes, OwnedProfiles, EmailsDiffer, ProfilesMet, ProfilesOf
<1> QED
  BY <1>1, <1>2, <1>3

\* The calls that write an account they found, and the writes of nobody's call.
LEMMA AccountsWritten ==
  ASSUME AccountsInv, NEW k \in Requests,
         WriteCode(k) \/ WritePassword(k) \/ CodeExpires(k) \/ RemoveUser(k)
  PROVE  AccountsInv'
<1> USE DEF AccountsInv
<1>t. account \in [Requests -> AccountRow] /\ request \in [Requests -> RequestRow]
  BY DEF AccountsTypes
<1>1. CASE WriteCode(k) \/ WritePassword(k)
  <2> DEFINE a == request[k].on
             forgot == request[k].pc = "forgot"
             b == IF forgot THEN [account[a] EXCEPT !.code = k]
                  ELSE [account[a] EXCEPT !.secret = k, !.code = NoOne]
  <2>1. /\ k \in InFlight /\ a \in Requests /\ account[a].st # "none" /\ Finishes(k)
        /\ request[k].pc \in {"forgot", "reset"} /\ profile' = profile
    BY <1>1 DEF InFlight, PlacesFound, WriteCode, WritePassword
  <2>2. /\ \A j \in Requests :
               /\ request'[j].pc = IF j = k THEN "done" ELSE request[j].pc
               /\ request'[j].on = request[j].on /\ request'[j].code = request[j].code
               /\ request'[j].found = request[j].found
        /\ met' = met /\ FlightsMeet' /\ request' \in [Requests -> RequestRow]
    BY <2>1, CallEnds
  <2>3. /\ b \in AccountRow /\ b.st = account[a].st /\ b.email = account[a].email
        /\ b.by = account[a].by /\ b.code = IF forgot THEN k ELSE NoOne
    <3>1. account[a] \in AccountRow
      BY <1>t, <2>1
    <3>2. CASE forgot
      BY <3>1, <3>2 DEF AccountRow
    <3>3. CASE ~forgot
      BY <3>1, <3>3 DEF AccountRow
    <3> QED
      BY <3>2, <3>3
  <2>4. account' = [account EXCEPT ![a] = b]
    BY <1>1, <2>1, <1>t DEF WriteCode, WritePassword, NewPassword
  <2> HIDE DEF b
  <2>5. /\ account' \in [Requests -> AccountRow] /\ account'[a] = b
        /\ \A c \in Requests \ {a} : account'[c] = account[c]
        /\ \A c \in Requests : account'[c].st = "none" <=> account[c].st = "none"
        /\ OwnedProfiles' /\ EmailsDiffer' /\ ProfilesMet'
    BY <2>1, <2>2, <2>3, <2>4, AccountWritten
  <2>6. AccountsTypes' /\ PlacesFound' /\ LookedUp'
    BY <2>1, <2>2, <2>5 DEF AccountsTypes, PlacesFound, LookedUp, ProfilesOf
  <2>7. UnwrittenRows'
    BY <2>1, <2>2, <2>5 DEF UnwrittenRows, NoAccount
  <2>8. CodeIsUsedOnce'
    BY <2>2 DEF CodeIsUsedOnce
  <2>9. CodesInv'
    <3>1. \A c \in Requests :
             account'[c].code = IF c # a THEN account[c].code ELSE IF forgot THEN k ELSE NoOne
      BY <2>1, <2>3, <2>5
    <3>2. \A c \in Requests : /\ account[c].code \in Requests \cup {NoOne}
                              /\ request[c].code \in Requests \cup {NoOne}
      BY <1>t DEF AccountRow, RequestRow
    <3>3. \A c \in Requests : account[c].code # k /\ request[c].code # k
      BY <2>1, AccountsAssumption DEF CodesInv
    <3>4. CASE forgot
      BY <2>1, <2>2, <2>5, <3>1, <3>2, <3>3, <3>4 DEF CodesInv
    <3>5. CASE ~forgot
      BY <2>1, <2>2, <2>5, <3>1, <3>2, <3>3, <3>5 DEF CodesInv
    <3> QED
      BY <3>4, <3>5
  <2> QED
    BY <2>2, <2>5, <2>6, <2>7, <2>8, <2>9
<1>2. CASE CodeExpires(k) \/ RemoveUser(k)
  <2> DEFINE b == IF CodeExpires(k) THEN [account[k] EXCEPT !.code = NoOne]
                                    ELSE [account[k] EXCEPT !.st = "deleted"]
  <2>1. account[k] # NoAccount /\ request' = request /\ met' = met /\ profile' = profile
    BY <1>2 DEF CodeExpires, RemoveUser, NoAccount
  <2>2. request[k].pc = "done"
    BY <2>1 DEF UnwrittenRows
  <2>3. /\ b \in AccountRow /\ b.email = account[k].email /\ b.by = account[k].by
        /\ b.code \in {account[k].code, NoOne} /\ b.st \in {account[k].st, "deleted"}
    BY <1>t DEF AccountRow
  <2>4. account' = [account EXCEPT ![k] = b]
    BY <1>2, <1>t DEF CodeExpires, RemoveUser
  <2> HIDE DEF b
  <2>5. /\ account' \in [Requests -> AccountRow] /\ account'[k] = b
        /\ \A c \in Requests \ {k} : account'[c] = account[c]
    BY <1>t, <2>3, <2>4
  <2>6. account[k].st # "none"
    BY <1>2 DEF CodeExpires, RemoveUser, CodesInv
  <2>7. OwnedProfiles' /\ EmailsDiffer' /\ ProfilesMet'
    BY <2>1, <2>3, <2>4, <2>6, AccountWritten
  <2>8. AccountsTypes' /\ UnwrittenRows' /\ LookedUp' /\ FlightsMeet'
    BY <2>1, <2>2, <2>5 DEF AccountsTypes, UnwrittenRows, LookedUp, ProfilesOf, FlightsMeet, InFlight
  <2>9. PlacesFound'
    BY <2>1, <2>3, <2>5, <2>6 DEF PlacesFound
  <2>10. CodesInv' /\ CodeIsUsedOnce'
    <3>1. \A c \in Requests : /\ account'[c].code \in {account[c].code, NoOne}
                              /\ account[c].st # "none" => account'[c].st # "none"
      BY <2>3, <2>5
    <3> QED
      BY <2>1, <3>1 DEF CodesInv, CodeIsUsedOnce
  <2> QED
    BY <2>7, <2>8, <2>9, <2>10
<1> QED
  BY <1>1, <1>2

\* The rest: calls that look a profile up, write one, or fail.
LEMMA ProfileStep ==
  ASSUME AccountsInv, NEW k \in Requests, FindProfile(k) \/ WriteProfile(k) \/ RequestFails(k)
  PROVE  AccountsInv'
<1> USE DEF AccountsInv
<1>t. /\ account' = account /\ met' = met /\ k \in InFlight
      /\ profile \in [Requests -> Requests \cup {NoOne}] /\ request \in [Requests -> RequestRow]
  BY DEF AccountsTypes, FindProfile, WriteProfile, RequestFails, Finishes, InFlight
<1>c. \A c \in Requests : /\ account[c].code \in Requests \cup {NoOne}
                          /\ request[c].code \in Requests \cup {NoOne}
  BY DEF AccountsTypes, AccountRow, RequestRow
<1>1. CASE FindProfile(k)
  <2>1. request[k].pc = "profile" /\ profile' = profile
    BY <1>1 DEF FindProfile
  <2>2. PICK p \in ProfilesOf(request[k].on) \cup {NoOne} :
               /\ p = NoOne <=> ProfilesOf(request[k].on) = {}
               /\ request' = [request EXCEPT ![k] = [@ EXCEPT !.pc = "upload", !.found = p]]
    BY <1>1 DEF FindProfile
  <2>3. /\ p \in Requests \cup {NoOne} /\ request' \in [Requests -> RequestRow]
        /\ \A j \in Requests :
               /\ request'[j].pc = IF j = k THEN "upload" ELSE request[j].pc
               /\ request'[j].on = request[j].on /\ request'[j].code = request[j].code
               /\ request'[j].found = IF j = k THEN p ELSE request[j].found
    BY <1>t, <2>2, ZenonT(40) DEF ProfilesOf, RequestRow
  <2>4. AccountsTypes' /\ OwnedProfiles' /\ EmailsDiffer' /\ ProfilesMet'
    BY <1>t, <2>1, <2>3 DEF AccountsTypes, OwnedProfiles, EmailsDiffer, ProfilesMet, ProfilesOf
  <2>5. FlightsMeet' /\ UnwrittenRows' /\ PlacesFound'
    BY <1>t, <2>1, <2>3 DEF FlightsMeet, InFlight, UnwrittenRows, PlacesFound
  <2>6. LookedUp'
    BY <1>t, <2>1, <2>2, <2>3, AccountsAssumption DEF LookedUp, ProfilesOf
  <2>7. CodesInv' /\ CodeIsUsedOnce'
    BY <1>t, <1>c, <2>1, <2>3 DEF CodesInv, CodeIsUsedOnce
  <2> QED
    BY <2>4, <2>5, <2>6, <2>7
<1>2. CASE WriteProfile(k)
  <2>1. /\ request[k].pc = "upload" /\ Finishes(k) /\ request[k].code = NoOne
        /\ request[k].on \in Requests /\ account[request[k].on].st # "none"
    BY <1>2 DEF WriteProfile, PlacesFound, CodesInv
  <2>2. /\ \A j \in Requests :
               /\ request'[j].pc = IF j = k THEN "done" ELSE request[j].pc
               /\ request'[j].on = request[j].on /\ request'[j].code = request[j].code
               /\ request'[j].found = request[j].found
        /\ FlightsMeet' /\ request' \in [Requests -> RequestRow]
        /\ \A j \in InFlight : j # k => {j, k} \in met /\ {k, j} \in met
    BY <1>t, <2>1, CallEnds
  <2>3. /\ profile' \in [Requests -> Requests \cup {NoOne}] /\ profile[k] = NoOne
        /\ \A j \in Requests \ {k} : profile'[j] = profile[j]
        /\ profile'[k] = IF request[k].found = NoOne THEN request[k].on ELSE NoOne
    BY <1>t, <1>2, <2>1 DEF WriteProfile, MakesProfile, UnwrittenRows
  <2>4. AccountsTypes' /\ EmailsDiffer' /\ UnwrittenRows' /\ PlacesFound'
    BY <1>t, <2>2, <2>3 DEF AccountsTypes, EmailsDiffer, UnwrittenRows, PlacesFound
  <2>5. OwnedProfiles'
    BY <1>t, <2>1, <2>3 DEF OwnedProfiles
  <2>6. LookedUp'
    BY <1>t, <2>2, <2>3 DEF LookedUp, ProfilesOf, InFlight
  <2>7. ProfilesMet'
    <3>1. ASSUME NEW b \in Requests, NEW p \in ProfilesOf(b), ProfilesOf(b)' = {} PROVE FALSE
      BY <3>1, <2>3, AccountsAssumption DEF ProfilesOf
    <3>2. \A b \in Requests : account'[b].by = "register" => ProfilesOf(b)' # {}
      BY <1>t, <3>1 DEF ProfilesMet
    <3>3. \A p \in ProfilesOf(request[k].on) : request[k].found = NoOne => {p, k} \in met /\ {k, p} \in met
      <4>1. \A p \in Requests : {p, k} = {k, p}
        OBVIOUS
      <4> QED
        BY <2>1, <4>1 DEF LookedUp, ProfilesOf
    <3>4. ASSUME NEW b \in Requests, NEW p \in Requests, NEW q \in Requests,
                 profile'[p] = b, profile'[q] = b
          PROVE  p = q \/ {p, q} \in met
      BY <3>4, <2>3, <3>3, AccountsAssumption DEF ProfilesMet, ProfilesOf
    <3> QED
      BY <1>t, <3>2, <3>4 DEF ProfilesMet, ProfilesOf
  <2>8. CodesInv' /\ CodeIsUsedOnce'
    BY <1>t, <1>c, <2>1, <2>2, SMTT(20) DEF CodesInv, CodeIsUsedOnce
  <2> QED
    BY <2>2, <2>4, <2>5, <2>6, <2>7, <2>8
<1>3. CASE RequestFails(k)
  <2>1. /\ profile' = profile /\ request' \in [Requests -> RequestRow]
        /\ request'[k] = [NewRequest EXCEPT !.pc = "done"] /\ \A j \in Requests \ {k} : request'[j] = request[j]
    BY <1>t, <1>3 DEF RequestFails, NewRequest, RequestRow
  <2>2. request'[k].pc = "done" /\ request'[k].code = NoOne
    BY <2>1 DEF NewRequest
  <2>3. AccountsTypes' /\ OwnedProfiles' /\ EmailsDiffer' /\ ProfilesMet'
    BY <1>t, <2>1 DEF AccountsTypes, OwnedProfiles, EmailsDiffer, ProfilesMet, ProfilesOf
  <2>4. FlightsMeet' /\ UnwrittenRows' /\ PlacesFound' /\ LookedUp'
    BY <1>t, <2>1, <2>2 DEF FlightsMeet, InFlight, UnwrittenRows, PlacesFound, LookedUp, ProfilesOf
  <2>5. \A j \in Requests : request'[j].pc = IF j = k THEN "done" ELSE request[j].pc
    BY <2>1, <2>2
  <2>6. \A j \in Requests : /\ request'[j].code \in {request[j].code, NoOne}
                            /\ request'[j].code # NoOne => j # k /\ request'[j].on = request[j].on
    BY <2>1, <2>2
  <2>7. CodesInv' /\ CodeIsUsedOnce'
    BY <1>t, <1>c, <2>5, <2>6 DEF CodesInv, CodeIsUsedOnce
  <2> QED
    BY <2>3, <2>4, <2>7
<1> QED
  BY <1>1, <1>2, <1>3

LEMMA AccountsInvariance == AccountsSpec => []AccountsInv
<1>1. ASSUME AccountsInit PROVE AccountsInv
  <2>1. account \in [Requests -> {NoAccount}] /\ request \in [Requests -> {NewRequest}]
    BY <1>1 DEF AccountsInit
  <2>2. \A k \in Requests : account[k] = NoAccount /\ profile[k] = NoOne /\ request[k] = NewRequest
    BY <1>1 DEF AccountsInit
  <2>3. AccountsTypes
    BY <1>1, <2>1 DEF AccountsInit, AccountsTypes, AccountRow, RequestRow, NoAccount, NewRequest
  <2>4. UnwrittenRows /\ PlacesFound /\ OwnedProfiles /\ LookedUp /\ FlightsMeet
    BY <2>2 DEF UnwrittenRows, PlacesFound, OwnedProfiles, LookedUp, FlightsMeet, InFlight, NewRequest
  <2>5. EmailsDiffer /\ ProfilesMet
    BY <2>2, AccountsAssumption DEF EmailsDiffer, ProfilesMet, ProfilesOf, NoAccount
  <2>6. CodesInv /\ CodeIsUsedOnce
    BY <2>2 DEF CodesInv, CodeIsUsedOnce, NoAccount, NewRequest
  <2> QED
    BY <2>3, <2>4, <2>5, <2>6 DEF AccountsInv
<1>2. ASSUME AccountsInv, [AccountsNext]_accountsVars PROVE AccountsInv'
  <2>1. CASE UNCHANGED accountsVars
    BY <1>2, <2>1 DEF accountsVars, AccountsInv, AccountsTypes, FlightsMeet, InFlight, UnwrittenRows,
       PlacesFound, OwnedProfiles, LookedUp, EmailsDiffer, ProfilesMet, ProfilesOf, CodesInv, CodeIsUsedOnce
  <2>2. ASSUME NEW k \in Requests, NEW e \in Emails,
               Register(k, e) \/ GoogleLogin(k, e) \/ ForgotPassword(k, e) \/ UpdateProfile(k, e)
        PROVE  AccountsInv'
    BY <1>2, <2>2, CallStarts DEF Register, GoogleLogin, ForgotPassword, UpdateProfile, Live
  <2>3. ASSUME NEW k \in Requests, NEW e \in Emails, NEW c \in Requests, ResetPassword(k, e, c)
        PROVE  AccountsInv'
    BY <1>2, <2>3, CallStarts DEF ResetPassword, Live
  <2>4. ASSUME NEW k \in Requests, InsertUser(k) \/ InsertGoogleUser(k) PROVE AccountsInv'
    <3>1. request[k].pc \in {"register", "google"} /\ request[k].on \in Emails /\ Finishes(k)
      BY <1>2, <2>4 DEF InsertUser, InsertGoogleUser, AccountsInv, PlacesFound
    <3> DEFINE a == [NoAccount EXCEPT !.st = "live", !.email = request[k].on, !.by = "register", !.secret = k]
               b == [NoAccount EXCEPT !.st = "live", !.email = request[k].on, !.by = "google"]
    <3>2. /\ a \in AccountRow /\ a.st = "live" /\ a.email = request[k].on /\ a.code = NoOne /\ a.by = "register"
          /\ b \in AccountRow /\ b.st = "live" /\ b.email = request[k].on /\ b.code = NoOne /\ b.by = "google"
      BY <3>1 DEF AccountRow, NoAccount
    <3> HIDE DEF a, b
    <3>3. \/ UNCHANGED <<account, profile>>
          \/ /\ EmailFree(request[k].on) /\ account' = [account EXCEPT ![k] = a]
             /\ profile' = [profile EXCEPT ![k] = k]
          \/ /\ EmailFree(request[k].on) /\ account' = [account EXCEPT ![k] = b]
             /\ profile' = profile
      BY <2>4 DEF InsertUser, InsertGoogleUser, a, b
    <3> QED
      BY <1>2, <3>1, <3>2, <3>3, AccountMade
  <2>5. ASSUME NEW k \in Requests,
               \/ WriteCode(k) \/ WritePassword(k) \/ CodeExpires(k) \/ RemoveUser(k)
               \/ FindProfile(k) \/ WriteProfile(k) \/ RequestFails(k)
        PROVE  AccountsInv'
    BY <1>2, <2>5, AccountsWritten, ProfileStep
  <2> QED
    BY <1>2, <2>1, <2>2, <2>3, <2>4, <2>5 DEF AccountsNext, AuthCalls, UserCalls
<1> QED
  BY <1>1, <1>2, PTL DEF AccountsSpec

\* Sign-ups and password resets that are repeated, or run at once, happen once: one
\* account and one password for an e-mail, one new password for a code that was mailed.
THEOREM NothingIsDoneTwice == AccountsSpec => []NothingHappensTwice
<1>1. AccountsInv => NothingHappensTwice
  BY DEF AccountsInv, EmailsDiffer, ProfilesMet, NothingHappensTwice, OneAccountPerEmail, CanLogin, Live
<1> QED
  BY <1>1, AccountsInvariance, PTL

----------------------------------------------------------------------------
(* Chat.                                                                    *)

\* Among finitely many values one is least, and one is greatest.
LEMMA LeastBy ==
  ASSUME NEW S, IsFiniteSet(S), NEW T \in SUBSET S, T # {}, NEW f \in [S -> Int]
  PROVE  /\ \E x \in T : \A y \in T : f[x] <= f[y]
         /\ \E x \in T : \A y \in T : f[x] >= f[y]
<1>1. \E x \in T : \A y \in T : f[x] <= f[y]
  <2> DEFINE Below(x) == {y \in S : f[y] < f[x]}
             B == {Below(x) : x \in T}
  <2>1. B \in SUBSET SUBSET S /\ B # {}
    BY ZenonT(40)
  <2>2. \E s \in B : \A t \in B : t \subseteq s => t = s
    <3> HIDE DEF B
    <3> QED
      BY <2>1, MinimalSubset
  <2>3. PICK x \in T : \A y \in T : Below(y) \subseteq Below(x) => Below(y) = Below(x)
    <3> HIDE DEF Below
    <3> QED
      BY <2>2
  <2>4. ASSUME NEW y \in T, ~(f[x] <= f[y]) PROVE FALSE
    <3>1. f[x] \in Int /\ f[y] \in Int /\ f[y] < f[x] /\ \A z \in S : f[z] \in Int
      BY <2>4
    <3>2. Below(y) \subseteq Below(x) /\ y \in Below(x) /\ y \notin Below(y)
      BY <3>1
    <3> HIDE DEF Below
    <3> QED
      BY <2>3, <3>2
  <2> QED
    BY <2>4
<1>2. \E x \in T : \A y \in T : f[x] >= f[y]
  <2> DEFINE Above(x) == {y \in S : f[y] > f[x]}
             B == {Above(x) : x \in T}
  <2>1. B \in SUBSET SUBSET S /\ B # {}
    BY ZenonT(40)
  <2>2. \E s \in B : \A t \in B : t \subseteq s => t = s
    <3> HIDE DEF B
    <3> QED
      BY <2>1, MinimalSubset
  <2>3. PICK x \in T : \A y \in T : Above(y) \subseteq Above(x) => Above(y) = Above(x)
    <3> HIDE DEF Above
    <3> QED
      BY <2>2
  <2>4. ASSUME NEW y \in T, ~(f[x] >= f[y]) PROVE FALSE
    <3>1. f[x] \in Int /\ f[y] \in Int /\ f[y] > f[x] /\ \A z \in S : f[z] \in Int
      BY <2>4
    <3>2. Above(y) \subseteq Above(x) /\ y \in Above(x) /\ y \notin Above(y)
      BY <3>1
    <3> HIDE DEF Above
    <3> QED
      BY <2>3, <3>2
  <2> QED
    BY <2>4
<1> QED
  BY <1>1, <1>2

LEMMA MaxOfValues ==
  ASSUME NEW S, IsFiniteSet(S), S # {}, NEW f \in [S -> Nat]
  PROVE  Max({f[x] : x \in S}) \in Nat
<1>1. \E x \in S : \A y \in S : f[x] >= f[y]
  BY LeastBy
<1>2. \E m \in {f[x] : x \in S} : \A n \in {f[x] : x \in S} : m >= n
  BY <1>1
<1>3. Max({f[x] : x \in S}) \in {f[x] : x \in S}
  BY <1>2 DEF Max
<1> QED
  BY <1>3

\* A last page of size K, and what is newer; what it leaves out is older than K of it.
Newer(T, f, x) == {y \in T : f[y] > f[x]}
Newest(S, f, K) == {x \in S : Cardinality(Newer(S, f, x)) < K}

LEMMA LastPage ==
  ASSUME NEW S, IsFiniteSet(S), NEW f \in [S -> Nat], NEW K \in Nat,
         NEW x \in S, x \notin Newest(S, f, K)
  PROVE  Cardinality(Newer(Newest(S, f, K), f, x)) >= K
<1> DEFINE page == Newest(S, f, K)
           Later(z) == Newer(S, f, z)
           Shown == Newer(page, f, x)
<1> USE DEF Newer, Newest
<1>1. \A z \in S : IsFiniteSet(Later(z)) /\ Cardinality(Later(z)) \in Nat
  BY FS_Subset, FS_CardinalityType
<1>2. \A z \in S : z \in page <=> Cardinality(Later(z)) < K
  OBVIOUS
<1>3. Shown \subseteq Later(x) /\ IsFiniteSet(Shown) /\ Cardinality(Shown) \in Nat
  <2>1. Shown \in SUBSET S /\ Shown \subseteq Later(x)
    OBVIOUS
  <2> QED
    BY <2>1, FS_Subset, FS_CardinalityType
<1>4. SUFFICES ASSUME Cardinality(Shown) < K PROVE FALSE
  BY <1>3
<1>5. Later(x) \ page # {}
  <2>1. SUFFICES ASSUME Later(x) \subseteq page PROVE FALSE
    OBVIOUS
  <2>2. Later(x) = Shown
    BY <2>1, <1>3
  <2> HIDE DEF Later, Shown
  <2> QED
    BY <1>1, <1>2, <1>4, <2>2
<1>6. PICK z \in Later(x) \ page : \A y \in Later(x) \ page : f[z] >= f[y]
  <2>1. Later(x) \ page \in SUBSET S /\ f \in [S -> Int]
    OBVIOUS
  <2> HIDE DEF Later
  <2> QED
    BY <1>5, <2>1, LeastBy
<1>7. Later(z) \in SUBSET Shown
  <2>1. \A y \in S : f[y] \in Nat
    OBVIOUS
  <2>2. f[z] > f[x] /\ z \in S /\ x \in S
    OBVIOUS
  <2>3. \A y \in Later(z) : y \in S /\ f[y] > f[x] /\ ~(f[z] >= f[y])
    BY <2>1, <2>2
  <2>4. \A y \in Later(z) : y \in page
    BY <1>6, <2>3
  <2> QED
    BY <2>3, <2>4
<1>8. Cardinality(Later(z)) <= Cardinality(Shown) /\ z \in S
  BY <1>3, <1>7, FS_Subset
<1> HIDE DEF Later, Shown
<1> QED
  BY <1>1, <1>2, <1>3, <1>4, <1>6, <1>8

ConversationRow ==
    [st : {"none", "there"} \cup Messages, unread : Nat, last : {"none"} \cup Messages]
MessageRow == [st : {"new", "make", "store", "stored", "sent", "told", "failed"}, at : Nat]
WindowRow == [rooms : SUBSET Customers, loaded : SUBSET Customers, shown : SUBSET Messages]
ReadingRow ==
    [todo : {<<>>, <<"reset", "fetch">>, <<"fetch">>}, thread : Customers \cup {"none"}, cursor : Int]
ChatTypes ==
    /\ conversation \in [Customers -> ConversationRow]
    /\ message \in [Messages -> MessageRow]
    /\ window \in [Readers -> WindowRow]
    /\ reading \in [Readers -> ReadingRow]
    /\ answered \cup skipped \subseteq Messages

LoadedInRooms == \A u \in Readers : window[u].loaded \subseteq window[u].rooms
ShownWasSent == \A u \in Readers : \A m \in window[u].shown : IsSent(m)
SentHasPage == \A m \in Messages : IsSent(m) => conversation[Thread[m]].st = "there"
ResetByAdmins == \A u \in Readers : reading[u].todo = <<"reset", "fetch">> => u \in Admins

ChatInv ==
    /\ ChatTypes /\ LoadedInRooms /\ ShownWasSent /\ SentHasPage /\ ResetByAdmins
    /\ UnreadIsCounted /\ WindowIsCurrent

\* What is to be in the counter.
Waiting(c) == {m \in Sent(c) : FromCustomer(m)} \ (answered \cup skipped)

LEMMA WaitingFinite ==
  ASSUME NEW c
  PROVE  IsFiniteSet(Waiting(c)) /\ Cardinality(Waiting(c)) \in Nat
<1>1. Waiting(c) \in SUBSET Messages
  BY DEF Waiting, Sent
<1> QED
  BY <1>1, FS_Subset, FS_CardinalityType, MessagingAssumption

\* A step that sends nothing and announces nothing to an open window, and leaves the
\* times of sent messages alone, keeps every window current.
LEMMA WindowsKept ==
  ASSUME ChatInv, ChatTypes', LoadedInRooms',
         \A m \in Messages : message'[m].st = "told" => message[m].st = "told" \/
             \A u \in Readers : Thread[m] \in window[u].rooms => m \in window'[u].shown,
         \A m \in Messages : IsSent(m) => IsSent(m)' /\ message'[m].at = message[m].at,
         \A u \in Readers :
             \/ window[u].shown \subseteq window'[u].shown /\ window'[u].loaded \subseteq window[u].loaded
             \/ window'[u] = Closed
  PROVE  WindowIsCurrent'
<1> USE DEF ChatInv
<1> SUFFICES ASSUME NEW u \in Readers, NEW c \in Customers, c \in window'[u].loaded,
                    NEW m \in Messages, m \notin window'[u].shown, message'[m].st = "told", Thread[m] = c
             PROVE  Cardinality({n \in window'[u].shown : Thread[n] = c /\ message'[n].at > message'[m].at}) >= PageSize
  BY DEF WindowIsCurrent
<1>1. /\ window[u].shown \subseteq window'[u].shown /\ c \in window[u].loaded /\ m \notin window[u].shown
      /\ c \in window[u].rooms
  BY DEF Closed, LoadedInRooms
<1>2. message[m].st = "told" /\ message'[m].at = message[m].at
  BY <1>1 DEF IsSent
<1> DEFINE A == {n \in window[u].shown : Thread[n] = c /\ message[n].at > message[m].at}
           B == {n \in window'[u].shown : Thread[n] = c /\ message'[n].at > message'[m].at}
<1>3. Cardinality(A) >= PageSize
  BY <1>1, <1>2 DEF WindowIsCurrent
<1>4. A \in SUBSET B
  BY <1>1, <1>2 DEF ShownWasSent, ChatTypes, WindowRow
<1>5. B \in SUBSET Messages
  BY DEF ChatTypes, WindowRow
<1> HIDE DEF A, B
<1>6. IsFiniteSet(B) /\ IsFiniteSet(A) /\ Cardinality(A) <= Cardinality(B)
  BY <1>4, <1>5, FS_Subset, MessagingAssumption
<1>7. Cardinality(A) \in Nat /\ Cardinality(B) \in Nat /\ PageSize \in Nat
  BY <1>6, FS_CardinalityType, MessagingAssumption
<1>8. Cardinality(B) >= PageSize
  BY <1>3, <1>6, <1>7
<1> QED
  BY <1>8 DEF B

\* A step by which no message is sent, and no counter is lowered, keeps the counters.
LEMMA CountersKept ==
  ASSUME ChatInv, \A c \in Customers : Waiting(c)' \subseteq Waiting(c),
         NEW C \in SUBSET Customers,
         \A c \in C : (\A u \in Admins \cap Readers : reading'[u].thread # c) => Waiting(c)' = {},
         \A c \in Customers \ C : /\ conversation'[c].unread >= conversation[c].unread
                                 /\ \A u \in Admins \cap Readers : reading[u].thread = c => reading'[u].thread = c,
         \A c \in Customers : conversation[c].unread \in Nat /\ conversation'[c].unread \in Nat
  PROVE  UnreadIsCounted'
<1> SUFFICES ASSUME NEW c \in Customers, \A u \in Admins \cap Readers : reading'[u].thread # c
             PROVE  conversation'[c].unread >= Cardinality(Waiting(c)')
  BY DEF UnreadIsCounted, Waiting, Sent, IsSent, FromCustomer
<1>1. CASE c \in C
  <2>1. Waiting(c)' = {}
    BY <1>1
  <2>2. Cardinality(Waiting(c)') = 0
    BY <2>1, FS_EmptySet
  <2> QED
    BY <2>2
<1>2. CASE c \notin C
  <2>1. conversation[c].unread >= Cardinality(Waiting(c))
    BY <1>2 DEF ChatInv, UnreadIsCounted, Waiting
  <2>2. /\ IsFiniteSet(Waiting(c)) /\ Waiting(c)' \in SUBSET Waiting(c)
        /\ Cardinality(Waiting(c)) \in Nat
    BY WaitingFinite
  <2>3. /\ Cardinality(Waiting(c)') <= Cardinality(Waiting(c))
        /\ IsFiniteSet(Waiting(c)')
    BY <2>2, FS_Subset
  <2>4. Cardinality(Waiting(c)') \in Nat
    BY <2>3, FS_CardinalityType
  <2> QED
    BY <1>2, <2>1, <2>2, <2>3, <2>4
<1> QED
  BY <1>1, <1>2

\* The sender's steps before the commit, and an abort.
LEMMA UnsentStep ==
  ASSUME ChatInv, NEW m \in Messages,
         FindConversation(m) \/ MakeConversation(m) \/ StoreMessage(m) \/ AbortMessage(m)
  PROVE  ChatInv'
<1> USE DEF ChatInv
<1> DEFINE t == Thread[m]
<1>t. /\ conversation \in [Customers -> ConversationRow] /\ message \in [Messages -> MessageRow]
      /\ window \in [Readers -> WindowRow] /\ t \in Customers
      /\ window' = window /\ reading' = reading /\ answered' = answered /\ skipped' = skipped
  BY MessagingAssumption DEF ChatTypes, FindConversation, MakeConversation, StoreMessage, AbortMessage
<1>1. PICK r \in MessageRow : /\ message' = [message EXCEPT ![m] = r] /\ r.st \in {"make", "store", "stored", "failed"}
                             /\ ~IsSent(m)
  <2>1. CASE FindConversation(m) \/ MakeConversation(m)
    <3>1. \E st \in {"make", "store", "failed"} : Steps(m, st) /\ ~IsSent(m)
      BY <2>1 DEF FindConversation, MakeConversation, IsSent
    <3> QED
      BY <1>t, <3>1 DEF Steps, MessageRow
  <2>2. CASE StoreMessage(m)
    <3>1. Max({message[n].at : n \in Messages}) \in Nat
      <4> DEFINE f == [n \in Messages |-> message[n].at]
      <4>1. f \in [Messages -> Nat] /\ {f[n] : n \in Messages} = {message[n].at : n \in Messages}
        BY <1>t DEF MessageRow
      <4>2. IsFiniteSet(Messages) /\ Messages # {}
        BY MessagingAssumption
      <4> HIDE DEF f
      <4>3. Max({f[n] : n \in Messages}) \in Nat
        BY <4>1, <4>2, MaxOfValues
      <4> QED
        BY <4>1, <4>3
    <3> DEFINE r == [st |-> "stored", at |-> 1 + Max({message[n].at : n \in Messages})]
    <3>2. r \in MessageRow /\ r.st = "stored"
      BY <3>1 DEF MessageRow
    <3>3. message' = [message EXCEPT ![m] = r] /\ ~IsSent(m)
      BY <2>2 DEF StoreMessage, IsSent
    <3> HIDE DEF r
    <3> QED
      BY <3>2, <3>3
  <2>3. CASE AbortMessage(m)
    BY <1>t, <2>3 DEF AbortMessage, IsSent, MessageRow
  <2> QED
    BY <2>1, <2>2, <2>3
<1>2. /\ message' \in [Messages -> MessageRow] /\ message'[m].st \in {"make", "store", "stored", "failed"}
      /\ \A n \in Messages \ {m} : message'[n] = message[n]
  BY <1>t, <1>1
<1>3. \A n \in Messages : /\ IsSent(n)' <=> IsSent(n)
                          /\ IsSent(n) => message'[n] = message[n]
  BY <1>1, <1>2 DEF IsSent
<1>4. /\ conversation' \in [Customers -> ConversationRow]
      /\ \A c \in Customers \ {t} : conversation'[c] = conversation[c]
      /\ \/ conversation'[t] = conversation[t]
         \/ conversation[t].st # "there" /\ conversation'[t].st # "there"
  <2>1. CASE FindConversation(m) \/ StoreMessage(m)
    BY <1>t, <2>1 DEF FindConversation, StoreMessage
  <2>2. CASE MakeConversation(m)
    <3>1. [st |-> m, unread |-> 0, last |-> m] \in ConversationRow /\ m # "there"
      BY MessagingAssumption DEF ConversationRow
    <3> QED
      BY <1>t, <2>2, <3>1 DEF MakeConversation
  <2>3. CASE AbortMessage(m)
    <3>1. NoPage \in ConversationRow /\ m # "there"
      BY MessagingAssumption DEF ConversationRow, NoPage
    <3> QED
      BY <1>t, <2>3, <3>1 DEF AbortMessage, NoPage
  <2> QED
    BY <2>1, <2>2, <2>3
<1>5. ChatTypes' /\ LoadedInRooms' /\ ShownWasSent' /\ ResetByAdmins'
  BY <1>t, <1>2, <1>3, <1>4 DEF ChatTypes, LoadedInRooms, ShownWasSent, ResetByAdmins, WindowRow
<1>6. SentHasPage'
  BY <1>3, <1>4, MessagingAssumption DEF SentHasPage
<1>7. \A c \in Customers : Waiting(c)' = Waiting(c)
  BY <1>t, <1>3 DEF Waiting, Sent, FromCustomer
<1>8. conversation[t].st # "there" => Waiting(t) = {}
  BY DEF SentHasPage, Waiting, Sent
<1>9. UnreadIsCounted'
  <2> DEFINE C == IF conversation'[t] = conversation[t] THEN {} ELSE {t}
  <2>1. C \in SUBSET Customers /\ \A c \in C : Waiting(c)' = {}
    BY <1>t, <1>4, <1>7, <1>8
  <2>2. \A c \in Customers \ C : conversation'[c] = conversation[c]
    BY <1>4
  <2>3. \A c \in Customers : conversation[c].unread \in Nat /\ conversation'[c].unread \in Nat
    BY <1>t, <1>4 DEF ConversationRow
  <2>4. \A c \in Customers \ C : /\ conversation'[c].unread >= conversation[c].unread
                                /\ \A u \in Admins \cap Readers : reading[u].thread = c => reading'[u].thread = c
    BY <1>t, <2>2, <2>3
  <2>5. \A c \in Customers : Waiting(c)' \subseteq Waiting(c)
    BY <1>7
  <2> HIDE DEF C
  <2> QED
    BY <2>1, <2>3, <2>4, <2>5, CountersKept
<1>10. WindowIsCurrent'
  <2>1. \A n \in Messages : message'[n].st = "told" => message[n].st = "told"
    BY <1>2
  <2> QED
    BY <1>t, <1>3, <1>5, <2>1, WindowsKept
<1> QED
  BY <1>5, <1>6, <1>9, <1>10

\* The commit adds the message to the counter.
LEMMA CommitStep ==
  ASSUME ChatInv, NEW m \in Messages, CommitMessage(m)
  PROVE  ChatInv'
<1> USE DEF ChatInv
<1> DEFINE t == Thread[m]
           more == IF FromCustomer(m) THEN 1 ELSE 0
           row == [st |-> "there", unread |-> conversation[t].unread + more, last |-> m]
<1>t. /\ conversation \in [Customers -> ConversationRow] /\ message \in [Messages -> MessageRow]
      /\ window \in [Readers -> WindowRow] /\ t \in Customers
      /\ window' = window /\ reading' = reading /\ answered' = answered /\ skipped' = skipped
  BY MessagingAssumption DEF ChatTypes, CommitMessage
<1>1. /\ message[m].st = "stored" /\ message' = [message EXCEPT ![m].st = "sent"]
      /\ conversation' = [conversation EXCEPT ![t] = row]
  BY DEF CommitMessage, Steps
<1>2. /\ message' \in [Messages -> MessageRow] /\ message'[m].st = "sent"
      /\ \A n \in Messages \ {m} : message'[n] = message[n]
  BY <1>t, <1>1 DEF MessageRow
<1>3. /\ ~IsSent(m) /\ IsSent(m)'
      /\ \A n \in Messages : n # m => (IsSent(n)' <=> IsSent(n))
      /\ \A n \in Messages : IsSent(n) => message'[n] = message[n]
  BY <1>1, <1>2 DEF IsSent
<1>4. conversation[t].unread \in Nat /\ more \in Nat /\ row \in ConversationRow
  BY <1>t DEF ConversationRow
<1>5. /\ conversation' \in [Customers -> ConversationRow] /\ conversation'[t] = row
      /\ \A c \in Customers \ {t} : conversation'[c] = conversation[c]
  BY <1>t, <1>1, <1>4
<1>6. ChatTypes' /\ LoadedInRooms' /\ ShownWasSent' /\ ResetByAdmins'
  BY <1>t, <1>2, <1>3, <1>5 DEF ChatTypes, LoadedInRooms, ShownWasSent, ResetByAdmins, WindowRow
<1>7. SentHasPage'
  BY <1>3, <1>5, MessagingAssumption DEF SentHasPage
<1>8. /\ \A c \in Customers \ {t} : Waiting(c)' = Waiting(c)
      /\ Waiting(t)' \subseteq Waiting(t) \cup {m}
      /\ ~FromCustomer(m) => Waiting(t)' = Waiting(t)
  BY <1>t, <1>3 DEF Waiting, Sent, FromCustomer
<1>9. UnreadIsCounted'
  <2> SUFFICES ASSUME NEW c \in Customers, \A u \in Admins \cap Readers : reading'[u].thread # c
               PROVE  conversation'[c].unread >= Cardinality(Waiting(c)')
    BY DEF UnreadIsCounted, Waiting, Sent, IsSent, FromCustomer
  <2>1. /\ conversation[c].unread >= Cardinality(Waiting(c)) /\ conversation[c].unread \in Nat
        /\ IsFiniteSet(Waiting(c)) /\ Cardinality(Waiting(c)) \in Nat
    BY <1>t, WaitingFinite DEF UnreadIsCounted, Waiting, ConversationRow
  <2>2. CASE c # t
    BY <1>5, <1>8, <2>1, <2>2
  <2>3. CASE c = t /\ ~FromCustomer(m)
    <3>1. conversation'[c].unread = conversation[c].unread /\ Waiting(c)' = Waiting(c)
      BY <1>4, <1>5, <1>8, <2>3
    <3> QED
      BY <2>1, <3>1
  <2>4. CASE c = t /\ FromCustomer(m)
    <3>1. conversation'[c].unread = conversation[c].unread + 1
      BY <1>4, <1>5, <2>4
    <3>2. /\ IsFiniteSet(Waiting(c) \cup {m})
          /\ Cardinality(Waiting(c) \cup {m}) <= Cardinality(Waiting(c)) + 1
          /\ Cardinality(Waiting(c) \cup {m}) \in Nat
      <4>1. /\ IsFiniteSet(Waiting(c) \cup {m})
            /\ \/ Cardinality(Waiting(c) \cup {m}) = Cardinality(Waiting(c))
               \/ Cardinality(Waiting(c) \cup {m}) = Cardinality(Waiting(c)) + 1
        BY <2>1, FS_AddElement
      <4> QED
        BY <2>1, <4>1
    <3>3. Waiting(c)' \in SUBSET (Waiting(c) \cup {m})
      BY <1>8, <2>4
    <3>4. Cardinality(Waiting(c)') <= Cardinality(Waiting(c) \cup {m}) /\ IsFiniteSet(Waiting(c)')
      BY <3>2, <3>3, FS_Subset
    <3>5. Cardinality(Waiting(c)') \in Nat
      BY <3>4, FS_CardinalityType
    <3> QED
      BY <2>1, <3>1, <3>2, <3>4, <3>5
  <2> QED
    BY <2>2, <2>3, <2>4
<1>10. WindowIsCurrent'
  <2>1. \A n \in Messages : message'[n].st = "told" => message[n].st = "told"
    BY <1>2
  <2> QED
    BY <1>t, <1>3, <1>6, <2>1, WindowsKept
<1> QED
  BY <1>6, <1>7, <1>9, <1>10

\* The announcement reaches the windows that are in the room.
LEMMA TellStep ==
  ASSUME ChatInv, NEW m \in Messages, TellMessage(m)
  PROVE  ChatInv'
<1> USE DEF ChatInv
<1>t. /\ conversation \in [Customers -> ConversationRow] /\ message \in [Messages -> MessageRow]
      /\ window \in [Readers -> WindowRow] /\ reading' = reading
      /\ conversation' = conversation /\ answered' = answered /\ skipped' = skipped
  BY DEF ChatTypes, TellMessage
<1>1. /\ message[m].st = "sent" /\ message' = [message EXCEPT ![m].st = "told"]
      /\ window' = [u \in Readers |->
            IF Thread[m] \in window[u].rooms THEN [window[u] EXCEPT !.shown = @ \cup {m}] ELSE window[u]]
  BY DEF TellMessage, Steps
<1>2. /\ message' \in [Messages -> MessageRow] /\ message'[m].st = "told" /\ message'[m].at = message[m].at
      /\ \A n \in Messages \ {m} : message'[n] = message[n]
  BY <1>t, <1>1 DEF MessageRow
<1>3. IsSent(m) /\ \A n \in Messages : /\ IsSent(n)' <=> IsSent(n)
                                       /\ IsSent(n) => message'[n].at = message[n].at
  BY <1>1, <1>2 DEF IsSent
<1>4. \A u \in Readers : /\ window'[u] \in WindowRow /\ window'[u].rooms = window[u].rooms
                         /\ window'[u].loaded = window[u].loaded
                         /\ window'[u].shown = window[u].shown \cup (IF Thread[m] \in window[u].rooms THEN {m} ELSE {})
  BY <1>t, <1>1 DEF WindowRow
<1>5. window' \in [Readers -> WindowRow]
  BY <1>1, <1>4
<1>6. ChatTypes' /\ LoadedInRooms' /\ ShownWasSent' /\ ResetByAdmins' /\ SentHasPage'
  BY <1>t, <1>2, <1>3, <1>4, <1>5 DEF ChatTypes, LoadedInRooms, ShownWasSent, ResetByAdmins, SentHasPage, WindowRow
<1>7. \A c \in Customers : Waiting(c)' = Waiting(c)
  BY <1>t, <1>3 DEF Waiting, Sent, FromCustomer
<1>8. UnreadIsCounted'
  BY <1>t, <1>7 DEF UnreadIsCounted, Waiting
<1>9. WindowIsCurrent'
  <2>1. \A n \in Messages : message'[n].st = "told" => message[n].st = "told" \/
             \A u \in Readers : Thread[n] \in window[u].rooms => n \in window'[u].shown
    BY <1>2, <1>4
  <2>2. \A u \in Readers : window[u].shown \subseteq window'[u].shown /\ window'[u].loaded \subseteq window[u].loaded
    BY <1>4
  <2> QED
    BY <1>3, <1>6, <2>1, <2>2, WindowsKept
<1> QED
  BY <1>6, <1>8, <1>9

\* A window joins or leaves a room, or loses its socket.
LEMMA WindowStep ==
  ASSUME ChatInv, NEW u \in Readers, Watch(u)
  PROVE  ChatInv'
<1> USE DEF ChatInv
<1>t. /\ conversation' = conversation /\ message' = message /\ answered' = answered
      /\ window \in [Readers -> WindowRow] /\ reading \in [Readers -> ReadingRow]
      /\ conversation \in [Customers -> ConversationRow] /\ message \in [Messages -> MessageRow]
  BY DEF ChatTypes, Watch, Disconnect, JoinConversation, LeaveConversation
<1>1. PICK w \in WindowRow : /\ window' = [window EXCEPT ![u] = w] /\ w.loaded \subseteq w.rooms
                            /\ \/ w.shown = window[u].shown /\ w.loaded \subseteq window[u].loaded
                               \/ w = Closed
  <2>1. CASE Disconnect(u)
    <3>1. Closed \in WindowRow /\ Closed.loaded \subseteq Closed.rooms
      BY DEF Closed, WindowRow
    <3> QED
      BY <2>1, <3>1 DEF Disconnect
  <2>2. ASSUME NEW c \in Customers, JoinConversation(u, c)
        PROVE  \E w \in WindowRow : /\ window' = [window EXCEPT ![u] = w] /\ w.loaded \subseteq w.rooms
                                    /\ w.shown = window[u].shown /\ w.loaded \subseteq window[u].loaded
    <3> DEFINE w == [window[u] EXCEPT !.rooms = @ \cup {c}]
    <3>1. /\ w \in WindowRow /\ w.loaded \subseteq w.rooms /\ w.shown = window[u].shown
          /\ w.loaded = window[u].loaded
      BY <1>t DEF WindowRow, LoadedInRooms
    <3>2. window' = [window EXCEPT ![u] = w]
      BY <1>t, <2>2 DEF JoinConversation
    <3> HIDE DEF w
    <3> QED
      BY <3>1, <3>2
  <2>3. ASSUME NEW c \in Customers, LeaveConversation(u, c)
        PROVE  \E w \in WindowRow : /\ window' = [window EXCEPT ![u] = w] /\ w.loaded \subseteq w.rooms
                                    /\ w.shown = window[u].shown /\ w.loaded \subseteq window[u].loaded
    <3> DEFINE w == [window[u] EXCEPT !.rooms = @ \ {c}, !.loaded = @ \ {c}]
    <3>1. /\ w \in WindowRow /\ w.loaded \subseteq w.rooms /\ w.shown = window[u].shown
          /\ w.loaded \subseteq window[u].loaded
      BY <1>t DEF WindowRow, LoadedInRooms
    <3>2. window' = [window EXCEPT ![u] = w]
      BY <1>t, <2>3 DEF LeaveConversation
    <3> HIDE DEF w
    <3> QED
      BY <3>1, <3>2
  <2> QED
    BY <2>1, <2>2, <2>3 DEF Watch
<1>2. /\ window' \in [Readers -> WindowRow] /\ window'[u] = w
      /\ \A v \in Readers \ {u} : window'[v] = window[v]
  BY <1>t, <1>1
<1>3. /\ reading' \in [Readers -> ReadingRow] /\ skipped \subseteq skipped' /\ skipped' \subseteq Messages
      /\ \A v \in Readers : reading'[v] \in {reading[v], NotReading}
      /\ \A v \in Readers : reading'[v] # reading[v] =>
             v = u /\ (u \in Admins => skipped' = skipped \cup {m \in Messages : IsSent(m) /\ Thread[m] = reading[u].thread})
  <2>1. NotReading \in ReadingRow /\ skipped \subseteq Messages
    BY DEF NotReading, ReadingRow, ChatTypes
  <2> QED
    BY <1>t, <2>1 DEF Watch, Disconnect, JoinConversation, LeaveConversation
<1>4. ChatTypes' /\ LoadedInRooms' /\ SentHasPage'
  BY <1>t, <1>1, <1>2, <1>3 DEF ChatTypes, LoadedInRooms, SentHasPage, IsSent
<1>5. ShownWasSent' /\ ResetByAdmins'
  <2>1. \A v \in Readers : window'[v].shown \subseteq window[v].shown
    BY <1>1, <1>2 DEF Closed
  <2>2. NotReading.todo # <<"reset", "fetch">>
    BY DEF NotReading
  <2>3. ShownWasSent'
    BY <1>t, <2>1 DEF ShownWasSent, IsSent
  <2>4. ResetByAdmins'
    BY <1>3, <2>2 DEF ResetByAdmins
  <2> QED
    BY <2>3, <2>4
<1>6. WindowIsCurrent'
  <2>1. \A v \in Readers :
           \/ window[v].shown \subseteq window'[v].shown /\ window'[v].loaded \subseteq window[v].loaded
           \/ window'[v] = Closed
    BY <1>1, <1>2
  <2>2. \A n \in Messages : IsSent(n) => IsSent(n)'
    BY <1>t DEF IsSent
  <2> QED
    BY <1>t, <1>4, <2>1, <2>2, WindowsKept
<1>7. UnreadIsCounted'
  <2> DEFINE C == IF reading' = reading \/ u \notin Admins THEN {} ELSE {reading[u].thread} \cap Customers
  <2>1. \A c \in Customers : Waiting(c)' \subseteq Waiting(c)
    BY <1>t, <1>3 DEF Waiting, Sent, IsSent, FromCustomer
  <2>2. \A c \in C : Waiting(c)' = {}
    <3> SUFFICES ASSUME reading' # reading, u \in Admins, NEW c \in Customers, c = reading[u].thread
                 PROVE  Waiting(c)' = {}
      OBVIOUS
    <3>1. skipped' = skipped \cup {m \in Messages : IsSent(m) /\ Thread[m] = reading[u].thread}
      BY <1>t, <1>3
    <3> QED
      BY <1>t, <3>1 DEF Waiting, Sent, IsSent
  <2>3. \A c \in Customers \ C : \A v \in Admins \cap Readers : reading[v].thread = c => reading'[v].thread = c
    BY <1>t, <1>3
  <2>4. \A c \in Customers : /\ conversation[c].unread \in Nat /\ conversation'[c].unread \in Nat
                            /\ conversation'[c].unread >= conversation[c].unread
    BY <1>t DEF ConversationRow
  <2>5. C \in SUBSET Customers
    OBVIOUS
  <2> HIDE DEF C
  <2> QED
    BY <2>1, <2>2, <2>3, <2>4, <2>5, CountersKept
<1> QED
  BY <1>4, <1>5, <1>6, <1>7

\* What is left to do of an answer.
LEMMA ReadingGoesOn ==
  ASSUME ChatTypes, NEW u \in Readers, CallGoesOn(u), reading[u].todo # <<>>
  PROVE  /\ reading' \in [Readers -> ReadingRow]
         /\ \A v \in Readers \ {u} : reading'[v] = reading[v]
         /\ Head(reading[u].todo) = "reset" =>
                /\ reading[u].todo = <<"reset", "fetch">> /\ reading'[u].todo = <<"fetch">>
                /\ reading'[u].thread = reading[u].thread
         /\ Head(reading[u].todo) = "fetch" => reading[u].todo = <<"fetch">> /\ reading'[u] = NotReading
<1>1. /\ reading \in [Readers -> ReadingRow] /\ reading[u] \in ReadingRow
      /\ reading' = [reading EXCEPT ![u] =
             IF Len(reading[u].todo) = 1 THEN NotReading ELSE [reading[u] EXCEPT !.todo = Tail(@)]]
  BY DEF ChatTypes, CallGoesOn
<1>2. NotReading \in ReadingRow
  BY DEF NotReading, ReadingRow
<1>3. CASE reading[u].todo = <<"fetch">>
  <2>1. reading' = [reading EXCEPT ![u] = NotReading] /\ Head(reading[u].todo) = "fetch"
    BY <1>1, <1>3
  <2> QED
    BY <1>1, <1>2, <1>3, <2>1
<1>4. CASE reading[u].todo = <<"reset", "fetch">>
  <2> DEFINE r == [reading[u] EXCEPT !.todo = <<"fetch">>]
  <2>1. /\ Len(reading[u].todo) = 2 /\ Tail(reading[u].todo) = <<"fetch">>
        /\ Head(reading[u].todo) = "reset"
    BY <1>4
  <2>2. reading' = [reading EXCEPT ![u] = r]
    <3>1. [reading[u] EXCEPT !.todo = Tail(@)] = r
      BY <2>1, Zenon
    <3>2. Len(reading[u].todo) # 1
      BY <2>1
    <3> QED
      BY <1>1, <3>1, <3>2
  <2>3. r \in ReadingRow /\ r.todo = <<"fetch">> /\ r.thread = reading[u].thread
    BY <1>1 DEF ReadingRow
  <2> HIDE DEF r
  <2> QED
    BY <1>1, <1>4, <2>1, <2>2, <2>3
<1> QED
  BY <1>1, <1>3, <1>4 DEF ReadingRow

\* An answer that nothing is fetched for yet.
LEMMA OpenStep ==
  ASSUME ChatInv, NEW u \in Readers, NEW c \in Customers, NEW cursor \in Int, OpenThread(u, c, cursor)
  PROVE  ChatInv'
<1> USE DEF ChatInv
<1> DEFINE r == [todo |-> CallOrder(u, c), thread |-> c, cursor |-> cursor]
<1>t. /\ conversation' = conversation /\ message' = message /\ answered' = answered
      /\ skipped' = skipped /\ window' = window /\ reading[u] = NotReading
      /\ reading' = [reading EXCEPT ![u] = r] /\ reading \in [Readers -> ReadingRow]
      /\ conversation \in [Customers -> ConversationRow]
  BY DEF ChatTypes, OpenThread
<1>1. r \in ReadingRow /\ (r.todo = <<"reset", "fetch">> => u \in Admins)
  BY DEF CallOrder, ReadingRow
<1> HIDE DEF r
<1>2. /\ reading' \in [Readers -> ReadingRow] /\ reading'[u] = r
      /\ \A v \in Readers \ {u} : reading'[v] = reading[v]
  BY <1>t, <1>1
<1>3. ChatTypes' /\ LoadedInRooms' /\ ShownWasSent' /\ SentHasPage'
  BY <1>t, <1>2 DEF ChatTypes, LoadedInRooms, ShownWasSent, SentHasPage, IsSent
<1>4. ResetByAdmins'
  BY <1>1, <1>2 DEF ResetByAdmins
<1>5. WindowIsCurrent'
  <2>1. \A n \in Messages : IsSent(n) => IsSent(n)'
    BY <1>t DEF IsSent
  <2> QED
    BY <1>t, <1>3, <2>1, WindowsKept
<1>6. UnreadIsCounted'
  <2>1. \A d \in Customers : Waiting(d)' \subseteq Waiting(d)
    BY <1>t DEF Waiting, Sent, IsSent, FromCustomer
  <2>2. \A d \in Customers : /\ conversation[d].unread \in Nat /\ conversation'[d].unread \in Nat
                            /\ conversation'[d].unread >= conversation[d].unread
    BY <1>t DEF ConversationRow
  <2>3. \A d \in Customers : reading[u].thread # d
    BY <1>t, MessagingAssumption DEF NotReading
  <2>4. \A d \in Customers \ {} : \A v \in Admins \cap Readers : reading[v].thread = d => reading'[v].thread = d
    BY <1>2, <2>3
  <2>5. {} \in SUBSET Customers /\ \A d \in {} : Waiting(d)' = {}
    OBVIOUS
  <2> QED
    BY <2>1, <2>2, <2>4, <2>5, CountersKept
<1> QED
  BY <1>3, <1>4, <1>5, <1>6

\* The counter is reset while the answer is on its way.
LEMMA ResetStep ==
  ASSUME ChatInv, NEW u \in Readers, ResetUnread(u)
  PROVE  ChatInv'
<1> USE DEF ChatInv
<1> DEFINE t == reading[u].thread
<1>t. /\ message' = message /\ answered' = answered /\ skipped' = skipped /\ window' = window
      /\ conversation' = [conversation EXCEPT ![t].unread = 0]
      /\ conversation \in [Customers -> ConversationRow]
      /\ reading[u].todo # <<>> /\ Head(reading[u].todo) = "reset" /\ CallGoesOn(u)
  BY DEF ChatTypes, ResetUnread
<1>1. /\ reading' \in [Readers -> ReadingRow] /\ \A v \in Readers \ {u} : reading'[v] = reading[v]
      /\ reading[u].todo = <<"reset", "fetch">> /\ reading'[u].todo = <<"fetch">> /\ reading'[u].thread = t
  BY <1>t, ReadingGoesOn
<1>2. u \in Admins
  BY <1>1 DEF ResetByAdmins
<1>3. /\ conversation' \in [Customers -> ConversationRow]
      /\ \A c \in Customers : /\ conversation'[c].st = conversation[c].st
                              /\ conversation'[c].unread = IF c = t THEN 0 ELSE conversation[c].unread
  BY <1>t DEF ConversationRow
<1>4. ChatTypes' /\ LoadedInRooms' /\ ShownWasSent'
  BY <1>t, <1>1, <1>3 DEF ChatTypes, LoadedInRooms, ShownWasSent, IsSent
<1>5. SentHasPage'
  BY <1>t, <1>3, MessagingAssumption DEF SentHasPage, IsSent
<1>6. ResetByAdmins'
  BY <1>1, <1>2 DEF ResetByAdmins
<1>7. WindowIsCurrent'
  <2>1. \A n \in Messages : IsSent(n) => IsSent(n)'
    BY <1>t DEF IsSent
  <2> QED
    BY <1>t, <1>4, <2>1, WindowsKept
<1>8. UnreadIsCounted'
  <2> DEFINE C == {t} \cap Customers
  <2>1. \A d \in Customers : Waiting(d)' \subseteq Waiting(d)
    BY <1>t DEF Waiting, Sent, IsSent, FromCustomer
  <2>7. \A d \in Customers : conversation[d].unread \in Nat /\ conversation'[d].unread \in Nat
    BY <1>t, <1>3 DEF ConversationRow
  <2>2. \A d \in Customers \ C : conversation'[d].unread >= conversation[d].unread
    BY <1>3, <2>7
  <2>3. \A d \in Customers \ C : \A v \in Admins \cap Readers : reading[v].thread = d => reading'[v].thread = d
    BY <1>1
  <2>4. \A d \in C : (\A v \in Admins \cap Readers : reading'[v].thread # d) => Waiting(d)' = {}
    BY <1>1, <1>2
  <2>5. \A d \in Customers \ C : /\ conversation'[d].unread >= conversation[d].unread
                                /\ \A v \in Admins \cap Readers : reading[v].thread = d => reading'[v].thread = d
    BY <2>2, <2>3
  <2>6. C \in SUBSET Customers
    OBVIOUS
  <2> HIDE DEF C
  <2> QED
    BY <2>1, <2>4, <2>5, <2>6, <2>7, CountersKept
<1> QED
  BY <1>4, <1>5, <1>6, <1>7, <1>8

\* The answer comes, or an error.
LEMMA AnswerStep ==
  ASSUME ChatInv, NEW u \in Readers, FetchPage(u) \/ FetchFails(u)
  PROVE  ChatInv'
<1> USE DEF ChatInv
<1> DEFINE t == reading[u].thread
           page == IF FetchPage(u) THEN Page(t, reading[u].cursor) ELSE {}
<1>t. /\ message' = message /\ conversation' = conversation
      /\ conversation \in [Customers -> ConversationRow] /\ message \in [Messages -> MessageRow]
      /\ window \in [Readers -> WindowRow] /\ reading[u].todo # <<>> /\ Head(reading[u].todo) = "fetch"
  BY DEF ChatTypes, FetchPage, FetchFails
<1>1. /\ reading' \in [Readers -> ReadingRow] /\ \A v \in Readers \ {u} : reading'[v] = reading[v]
      /\ reading'[u] = NotReading
  <2>1. CASE FetchPage(u)
    BY <1>t, <2>1, ReadingGoesOn DEF FetchPage
  <2>2. CASE FetchFails(u)
    <3>1. NotReading \in ReadingRow
      BY DEF NotReading, ReadingRow
    <3> QED
      BY <2>2, <3>1 DEF FetchFails, ChatTypes
  <2> QED
    BY <2>1, <2>2
<1>2. Sent(t) \subseteq Messages /\ page \subseteq Sent(t) /\ \A n \in Sent(t) : IsSent(n)
  BY DEF Page, Sent
<1>3. /\ answered' \cup skipped' \subseteq Messages
      /\ answered \cup skipped \subseteq answered' \cup skipped'
      /\ u \in Admins => Sent(t) \subseteq answered' \cup skipped'
  <2>1. CASE FetchPage(u)
    BY <1>2, <2>1 DEF FetchPage, ChatTypes
  <2>2. CASE FetchFails(u) /\ ~FetchPage(u)
    BY <1>2, <2>2 DEF FetchFails, ChatTypes
  <2> QED
    BY <2>1, <2>2
<1>4. /\ \A v \in Readers \ {u} : window'[v] = window[v]
      /\ window'[u] \in WindowRow /\ window' \in [Readers -> WindowRow]
      /\ window'[u].rooms = window[u].rooms /\ window'[u].loaded \subseteq window'[u].rooms
      /\ window'[u].shown = window[u].shown \cup page
      /\ \/ window'[u].loaded = window[u].loaded
         \/ FetchPage(u) /\ reading[u].cursor = 0 /\ window'[u].loaded \subseteq window[u].loaded \cup {t}
  <2>1. CASE FetchPage(u)
    <3> DEFINE w == [window[u] EXCEPT
                         !.shown = @ \cup page,
                         !.loaded = IF reading[u].cursor = 0 THEN (@ \cup {t}) \cap window[u].rooms ELSE @]
    <3>1. window[u] \in WindowRow /\ window[u].loaded \subseteq window[u].rooms
      BY <1>t DEF LoadedInRooms
    <3>2. /\ w \in WindowRow /\ w.rooms = window[u].rooms /\ w.loaded \subseteq w.rooms
          /\ w.shown = window[u].shown \cup page
          /\ \/ w.loaded = window[u].loaded
             \/ reading[u].cursor = 0 /\ w.loaded \subseteq window[u].loaded \cup {t}
      <4> HIDE DEF page
      <4> QED
        BY <1>2, <3>1 DEF WindowRow
    <3>3. window' = [window EXCEPT ![u] = w]
      BY <1>t, <2>1 DEF FetchPage
    <3> HIDE DEF w
    <3> QED
      BY <1>t, <2>1, <3>2, <3>3
  <2>2. CASE FetchFails(u) /\ ~FetchPage(u)
    BY <1>t, <2>2 DEF FetchFails, LoadedInRooms
  <2> QED
    BY <2>1, <2>2
<1>5. ChatTypes' /\ LoadedInRooms' /\ SentHasPage'
  BY <1>t, <1>1, <1>3, <1>4 DEF ChatTypes, LoadedInRooms, SentHasPage, IsSent
<1>6. ShownWasSent' /\ ResetByAdmins'
  <2>1. NotReading.todo # <<"reset", "fetch">>
    BY DEF NotReading
  <2>2. ResetByAdmins'
    BY <1>1, <2>1 DEF ResetByAdmins
  <2>3. ShownWasSent'
    <3> HIDE DEF page
    <3> QED
      BY <1>t, <1>2, <1>4 DEF ShownWasSent, IsSent
  <2> QED
    BY <2>2, <2>3
<1>7. UnreadIsCounted'
  <2> DEFINE C == IF u \in Admins THEN {t} \cap Customers ELSE {}
  <2>1. \A c \in Customers : Waiting(c)' \subseteq Waiting(c)
    BY <1>t, <1>3 DEF Waiting, Sent, IsSent, FromCustomer
  <2>2. \A c \in C : Waiting(c)' = {}
    BY <1>t, <1>3 DEF Waiting, Sent, IsSent
  <2>3. \A c \in Customers : /\ conversation[c].unread \in Nat /\ conversation'[c].unread \in Nat
                            /\ conversation'[c].unread >= conversation[c].unread
    BY <1>t DEF ConversationRow
  <2>4. \A c \in Customers \ C : \A v \in Admins \cap Readers : reading[v].thread = c => reading'[v].thread = c
    BY <1>1
  <2>5. C \in SUBSET Customers
    OBVIOUS
  <2> HIDE DEF C
  <2> QED
    BY <2>1, <2>2, <2>3, <2>4, <2>5, CountersKept, SMTT(20)
<1>8. WindowIsCurrent'
  <2> SUFFICES ASSUME NEW v \in Readers, NEW c \in Customers, c \in window'[v].loaded,
                      NEW m \in Messages, m \notin window'[v].shown, message'[m].st = "told", Thread[m] = c
               PROVE  Cardinality({n \in window'[v].shown : Thread[n] = c /\ message'[n].at > message'[m].at}) >= PageSize
    BY DEF WindowIsCurrent
  <2> DEFINE New == {n \in window'[v].shown : Thread[n] = c /\ message[n].at > message[m].at}
  <2>1. New \in SUBSET Messages /\ IsFiniteSet(Messages)
    BY <1>4, MessagingAssumption DEF WindowRow
  <2>2. IsFiniteSet(New) /\ Cardinality(New) \in Nat
    BY <2>1, FS_Subset, FS_CardinalityType
  <2>3. ASSUME NEW A \in SUBSET New, Cardinality(A) >= PageSize PROVE Cardinality(New) >= PageSize
    <3>1. IsFiniteSet(A) /\ Cardinality(A) <= Cardinality(New) /\ PageSize \in Nat
      BY <2>2, FS_Subset, MessagingAssumption
    <3>2. Cardinality(A) \in Nat
      BY <3>1, FS_CardinalityType
    <3> QED
      BY <2>2, <2>3, <3>1, <3>2
  <2>4. c \in window[v].loaded => Cardinality(New) >= PageSize
    <3> SUFFICES ASSUME c \in window[v].loaded PROVE Cardinality(New) >= PageSize
      OBVIOUS
    <3> DEFINE A == {n \in window[v].shown : Thread[n] = c /\ message[n].at > message[m].at}
    <3>1. window[v].shown \subseteq window'[v].shown
      BY <1>4
    <3>2. m \notin window[v].shown /\ message[m].st = "told"
      BY <1>t, <3>1
    <3>3. Cardinality(A) >= PageSize
      BY <3>2 DEF WindowIsCurrent
    <3>4. A \in SUBSET New
      BY <3>1
    <3> HIDE DEF A, New
    <3> QED
      BY <2>3, <3>3, <3>4
  <2>5. c \notin window[v].loaded => Cardinality(New) >= PageSize
    <3> SUFFICES ASSUME c \notin window[v].loaded PROVE Cardinality(New) >= PageSize
      OBVIOUS
    <3>1. v = u /\ c = t /\ FetchPage(u) /\ reading[u].cursor = 0
      BY <1>4
    <3> DEFINE S == Sent(c)
               f == [n \in S |-> message[n].at]
               P == Newest(S, f, PageSize)
               A == Newer(P, f, m)
    <3>2. IsFiniteSet(S) /\ f \in [S -> Nat] /\ PageSize \in Nat /\ m \in S
      BY <1>t, FS_Subset, MessagingAssumption DEF Sent, IsSent, MessageRow
    <3>3. page = P
      <4>1. page = Page(c, 0)
        BY <3>1
      <4>2. {n \in Sent(c) : 0 = 0 \/ message[n].at < 0} = S
        OBVIOUS
      <4>3. \A x \in S : {y \in S : message[y].at > message[x].at} = Newer(S, f, x)
        BY DEF Newer
      <4>4. Page(c, 0) = {x \in S : Cardinality({y \in S : message[y].at > message[x].at}) < PageSize}
        BY <4>2 DEF Page
      <4> HIDE DEF S, f, page
      <4> QED
        BY <4>1, <4>3, <4>4 DEF Newest
    <3>4. m \notin P
      <4> HIDE DEF P, page
      <4> QED
        BY <1>4, <3>1, <3>3
    <3>5. Cardinality(A) >= PageSize
      <4> HIDE DEF S, f
      <4> QED
        BY <3>2, <3>4, LastPage
    <3>6. A \in SUBSET New
      <4>1. P \subseteq window'[v].shown
        <5> HIDE DEF P, page
        <5> QED
          BY <1>4, <3>1, <3>3
      <4>2. \A y \in S : Thread[y] = c /\ f[y] = message[y].at
        BY DEF Sent
      <4> QED
        BY <3>2, <4>1, <4>2 DEF Newer, Newest
    <3> HIDE DEF A, New
    <3> QED
      BY <2>3, <3>5, <3>6
  <2>6. Cardinality(New) >= PageSize
    <3> HIDE DEF New
    <3> QED
      BY <2>4, <2>5
  <2>7. New = {n \in window'[v].shown : Thread[n] = c /\ message'[n].at > message'[m].at}
    BY <1>t
  <2> HIDE DEF New
  <2> QED
    BY <2>6, <2>7
<1> QED
  BY <1>5, <1>6, <1>7, <1>8
----------------------------------------------------------------------------
\* The chat, with the notifications beside it, keeps the invariant.
LEMMA ChatStarts ==
  ASSUME MessagingInit
  PROVE  ChatInv
<1>1. NoPage \in ConversationRow /\ Unsent \in MessageRow /\ Closed \in WindowRow /\ NotReading \in ReadingRow
  BY DEF NoPage, ConversationRow, Unsent, MessageRow, Closed, WindowRow, NotReading, ReadingRow
<1>2. ChatTypes
  BY <1>1 DEF ChatTypes, MessagingInit
<1>3. \A m \in Messages : ~IsSent(m)
  BY DEF MessagingInit, IsSent, Unsent
<1>4. LoadedInRooms /\ ShownWasSent /\ ResetByAdmins /\ WindowIsCurrent
  BY DEF MessagingInit, LoadedInRooms, ShownWasSent, ResetByAdmins, WindowIsCurrent, Closed, NotReading
<1>5. SentHasPage
  BY <1>3 DEF SentHasPage
<1>6. UnreadIsCounted
  <2> SUFFICES ASSUME NEW c \in Customers
               PROVE  conversation[c].unread >= Cardinality(Waiting(c))
    BY DEF UnreadIsCounted, Waiting
  <2>1. Waiting(c) = {}
    BY <1>3 DEF Waiting, Sent
  <2>2. Cardinality(Waiting(c)) = 0
    BY <2>1, FS_EmptySet
  <2>3. conversation[c].unread = 0
    BY DEF MessagingInit, NoPage
  <2> QED
    BY <2>2, <2>3
<1> QED
  BY <1>2, <1>4, <1>5, <1>6 DEF ChatInv

LEMMA ChatStays ==
  ASSUME ChatInv, [MessagingNext]_messagingVars
  PROVE  ChatInv'
<1>1. ASSUME NEW m \in Messages, Send(m) PROVE ChatInv'
  BY <1>1, UnsentStep, CommitStep, TellStep DEF Send
<1>2. ASSUME NEW u \in Readers, Read(u) PROVE ChatInv'
  <2>1. ASSUME NEW c \in Customers, NEW cursor \in 0 .. Cardinality(Messages), OpenThread(u, c, cursor)
        PROVE  ChatInv'
    <3>1. cursor \in Int
      OBVIOUS
    <3> QED
      BY <2>1, <3>1, OpenStep
  <2> QED
    BY <1>2, <2>1, ResetStep, AnswerStep DEF Read
<1>3. ASSUME NEW u \in Readers, Watch(u) PROVE ChatInv'
  BY <1>3, WindowStep
<1>4. CASE NoticeNext \/ UNCHANGED messagingVars
  <2>1. UNCHANGED chatVars
    BY <1>4 DEF NoticeNext, NotifyAdmin, NotifyCustomer, Notify, MarkRead, messagingVars, chatVars
  <2> QED
    BY <2>1 DEF chatVars, ChatInv, ChatTypes, LoadedInRooms, ShownWasSent, SentHasPage, ResetByAdmins,
                UnreadIsCounted, WindowIsCurrent, Sent, IsSent, FromCustomer
<1> QED
  BY <1>1, <1>2, <1>3, <1>4 DEF MessagingNext, ChatNext

LEMMA ChatInvariance == MessagingSpec => []ChatInv
<1> QED
  BY ChatStarts, ChatStays, PTL DEF MessagingSpec

\* A message of a customer that no administrator was answered with stays in the counter
\* of its conversation: a reset never races ahead of the answer that goes with it.
THEOREM UnreadStaysCounted == MessagingSpec => []UnreadIsCounted
<1>1. ChatInv => UnreadIsCounted
  BY DEF ChatInv
<1> QED
  BY <1>1, ChatInvariance, PTL

\* A window that joined and loaded a conversation shows every announced message, but for
\* those with a full page of newer ones shown, whatever the number of windows, messages
\* and the size of a page.
THEOREM WindowsStayCurrent == MessagingSpec => []WindowIsCurrent
<1>1. ChatInv => WindowIsCurrent
  BY DEF ChatInv
<1> QED
  BY <1>1, ChatInvariance, PTL
----------------------------------------------------------------------------
(* Prices.                                                                   *)

GoodRow(g) == /\ g.price \in Nat /\ g.cost \in Nat /\ g.off \in Nat
              /\ g.kind \in {"NONE", "PERCENT", "FLAT"}
              /\ g.category \in Categories

\* The rows of products, discount and coupon.
GoodsAreTyped ==
    /\ \A p \in Products : GoodRow(goods[p])
    /\ mega \in 0 .. 100 /\ coupon \in Coupons
    /\ goods \in [Products -> Rows] /\ \A p \in Products : goods[p] \in Goods[p]
    /\ mega \in Megas

LEMMA GoodsStart ==
  ASSUME goods \in [Products -> Rows], \A p \in Products : goods[p] \in Goods[p],
         mega \in Megas, coupon \in Coupons
  PROVE  GoodsAreTyped
<1>1. \A p \in Products : GoodRow(goods[p])
  BY SalesAssumption DEF GoodRow, Categories
<1>2. mega \in 0 .. 100
  BY SalesAssumption
<1> QED
  BY <1>1, <1>2 DEF GoodsAreTyped

LEMMA RoundTypes ==
  /\ \A n \in Nat : RoundDiv(n, 100) \in Nat
  /\ \A n \in Int : RoundDiv(n, 100) \in Int /\ RoundDiv(n, 10000) \in Int
BY DEF RoundDiv

\* The price before rounding.
LEMMA OwnPriceType ==
  ASSUME NEW g, GoodRow(g)
  PROVE  OwnPrice(g) \in Int
<1>1. \A n, d \in Nat : n * (100 - d) \in Int
  OBVIOUS
<1>2. CASE g.kind = "PERCENT"
  <2>1. g.off \in Nat /\ g.price \in Nat
    BY <1>2 DEF GoodRow
  <2> QED
    BY <1>1, <1>2, <2>1 DEF OwnPrice
<1>3. CASE g.kind = "FLAT"
  BY <1>3 DEF OwnPrice, GoodRow, AtLeast
<1>4. CASE g.kind = "NONE"
  BY <1>4 DEF OwnPrice, GoodRow
<1> QED
  BY <1>2, <1>3, <1>4 DEF GoodRow

LEMMA UnitPriceType ==
  ASSUME GoodsAreTyped, NEW p \in Products
  PROVE  UnitPrice(goods[p]) \in Nat
<1>1. OwnPrice(goods[p]) \in Int /\ mega \in 0 .. 100
  BY OwnPriceType DEF GoodsAreTyped
<1>2. OwnPrice(goods[p]) * (100 - mega) \in Int
  <2>1. \A n \in Int, d \in 0 .. 100 : n * (100 - d) \in Int
    OBVIOUS
  <2> QED
    BY <1>1, <2>1
<1>3. RoundDiv(OwnPrice(goods[p]) * (100 - mega), 10000) \in Int
  BY <1>2, RoundTypes
<1> QED
  BY <1>3 DEF UnitPrice, AtLeast

LEMMA LinesFinite ==
  ASSUME NEW cart
  PROVE  IsFiniteSet(LinesOf(cart)) /\ LinesOf(cart) \subseteq Products
<1>1. LinesOf(cart) \in SUBSET Products
  BY DEF LinesOf
<1> QED
  BY <1>1, FS_Subset, SalesAssumption

LEMMA SubtotalType ==
  ASSUME GoodsAreTyped, NEW cart \in Carts
  PROVE  Subtotal(cart) \in Nat
<1> DEFINE f == [p \in LinesOf(cart) |-> UnitPrice(goods[p]) * cart.qty[p]]
<1>1. \A p \in LinesOf(cart) : f[p] \in Nat
  <2> SUFFICES ASSUME NEW p \in LinesOf(cart) PROVE f[p] \in Nat
    OBVIOUS
  <2>1. UnitPrice(goods[p]) \in Nat /\ cart.qty[p] \in Nat
    BY LinesFinite, UnitPriceType, SalesAssumption
  <2>2. \A m, n \in Nat : m * n \in Nat
    OBVIOUS
  <2> QED
    BY <2>1, <2>2
<1>2. DOMAIN f = LinesOf(cart)
  OBVIOUS
<1>3. Subtotal(cart) = SumFunctionOnSet(f, LinesOf(cart))
  BY <1>2 DEF Subtotal, SumFunction
<1> HIDE DEF f
<1> QED
  BY <1>1, <1>3, LinesFinite, SumType

DeliveryType == \A city \in {"dhaka", "other"} : Delivery(city) \in {6000, 12000}

\* What a percentage takes off, before rounding.
Percentage(sub) == IF coupon.cap > 0 THEN AtMost(100 * coupon.cap, sub * coupon.value) ELSE sub * coupon.value

LEMMA PercentageType ==
  ASSUME coupon \in Coupons, NEW sub \in Nat
  PROVE  Percentage(sub) \in Nat
<1>1. coupon.cap \in Nat /\ coupon.value \in Nat
  BY SalesAssumption
<1>2. \A m, n \in Nat : m * n \in Nat
  OBVIOUS
<1>3. sub * coupon.value \in Nat
  BY <1>1, <1>2
<1> QED
  BY <1>1, <1>3 DEF Percentage, AtMost

\* A coupon takes off a natural amount; only a percentage may exceed the whole.
LEMMA DiscountType ==
  ASSUME coupon \in Coupons, NEW sub \in Nat, NEW delivery \in Nat
  PROVE  Discount(sub, delivery) \in Nat
<1>1. coupon.value \in Nat /\ coupon.kind \in {"PERCENTAGE", "FIXED_AMOUNT", "FREE_SHIPPING"}
  BY SalesAssumption
<1>2. Percentage(sub) \in Nat
  BY PercentageType
<1>3. RoundDiv(Percentage(sub), 100) \in Nat
  BY <1>2, RoundTypes
<1>4. CASE coupon.kind = "PERCENTAGE"
  BY <1>3, <1>4 DEF Discount, Percentage
<1>5. CASE coupon.kind = "FIXED_AMOUNT"
  BY <1>1, <1>5 DEF Discount, AtMost
<1>6. CASE coupon.kind = "FREE_SHIPPING"
  BY <1>6 DEF Discount
<1> QED
  BY <1>1, <1>4, <1>5, <1>6

\* A preview against its order.
LEMMA PreviewAgrees ==
  ASSUME GoodsAreTyped, NEW cart \in Carts, Charged(cart)
  PROVE  PreviewTotal(cart) = Bill(cart).total + (IF FreeShippingAway(cart) THEN 6000 ELSE 0)
<1> DEFINE sub == Subtotal(cart)
<1>1. sub \in Nat /\ cart.city \in {"dhaka", "other"} /\ coupon \in Coupons /\ cart.coupon \in BOOLEAN
  BY SubtotalType, SalesAssumption DEF GoodsAreTyped
<1>2. coupon.kind \in {"PERCENTAGE", "FIXED_AMOUNT", "FREE_SHIPPING"}
  BY <1>1, SalesAssumption
<1>3. /\ Delivery(cart.city) = IF cart.city = "dhaka" THEN 6000 ELSE 12000
      /\ ZoneDelivery(Zone(cart.city)) = 6000
  BY <1>1 DEF Delivery, ZoneDelivery, Zone
<1> DEFINE less == IF cart.coupon THEN Discount(sub, Delivery(cart.city)) ELSE 0
           shown == IF cart.coupon THEN Discount(sub, ZoneDelivery(Zone(cart.city))) ELSE 0
<1>4. /\ PreviewTotal(cart) = AtLeast(0, sub + Delivery(cart.city) - shown)
      /\ Bill(cart).total = AtLeast(0, sub + Delivery(cart.city) - less)
  BY <1>1 DEF PreviewTotal, Bill, Charged
<1>5. less \in Nat
  <2>1. Delivery(cart.city) \in Nat
    BY <1>1, <1>3
  <2>2. Discount(sub, Delivery(cart.city)) \in Nat
    BY <1>1, <2>1, DiscountType
  <2> QED
    BY <2>2
<1>6. CASE FreeShippingAway(cart)
  <2>1. less = 12000 /\ shown = 6000 /\ Delivery(cart.city) = 12000
    BY <1>3, <1>6 DEF FreeShippingAway, Discount
  <2> HIDE DEF sub, less, shown
  <2> QED
    BY <1>1, <1>4, <1>6, <2>1 DEF AtLeast
<1>7. CASE ~FreeShippingAway(cart)
  <2>1. CASE ~cart.coupon
    BY <1>1, <1>3, <1>4, <1>7, <2>1 DEF AtLeast
  <2>2. CASE cart.coupon /\ coupon.kind = "FREE_SHIPPING"
    <3>1. cart.city = "dhaka"
      BY <1>7, <2>2 DEF FreeShippingAway
    <3>2. less = shown
      BY <1>3, <3>1
    <3> HIDE DEF sub, less, shown
    <3> QED
      BY <1>1, <1>3, <1>4, <1>5, <1>7, <3>1, <3>2 DEF AtLeast
  <2>3. CASE cart.coupon /\ coupon.kind # "FREE_SHIPPING"
    <3>1. less = shown
      BY <1>2, <2>3 DEF Discount
    <3> HIDE DEF sub, less, shown
    <3> QED
      BY <1>1, <1>3, <1>4, <1>5, <1>7, <3>1 DEF AtLeast
  <2> QED
    BY <1>1, <2>1, <2>2, <2>3
<1> QED
  BY <1>6, <1>7

\* A card payment against its order.
LEMMA CardSuffices ==
  ASSUME GoodsAreTyped, NEW cart \in Carts, Charged(cart),
         cart.coupon /\ coupon.kind = "FIXED_AMOUNT" => coupon.value <= Subtotal(cart)
  PROVE  CardAmount(cart) >= Bill(cart).total - 50
<1> DEFINE sub == Subtotal(cart)
           d == Delivery(cart.city)
           per == Percentage(sub)
<1>1. sub \in Nat /\ cart.city \in {"dhaka", "other"} /\ coupon \in Coupons /\ cart.coupon \in BOOLEAN
  BY SubtotalType, SalesAssumption DEF GoodsAreTyped
<1>2. /\ coupon.kind \in {"PERCENTAGE", "FIXED_AMOUNT", "FREE_SHIPPING"} /\ coupon.value \in Nat
      /\ cart.coupon => coupon.open
  BY <1>1, SalesAssumption DEF Charged, Usable
<1>3. d \in {6000, 12000} /\ per \in Nat
  BY <1>1, PercentageType DEF Delivery
<1>4. /\ \A n \in Int, m \in Nat : RoundDiv(100 * n - m, 100) >= n - RoundDiv(m, 100)
      /\ \A n \in Int : RoundDiv(100 * n, 100) = n
      /\ \A n \in Int : RoundDiv(100 * n - 0, 100) = n
  BY DEF RoundDiv
<1>5. \A card, x \in Int : card >= x => AtLeast(100, card) >= AtLeast(0, x) - 50
  BY DEF AtLeast
<1>6. CASE ~cart.coupon
  <2>1. CardAmount(cart) = AtLeast(100, RoundDiv(100 * (sub + d) - 0, 100))
    BY <1>6 DEF CardAmount
  <2>2. Bill(cart).total = AtLeast(0, sub + d - 0)
    BY <1>6 DEF Bill
  <2> HIDE DEF sub, d
  <2>3. sub + d \in Int /\ sub + d - 0 = sub + d /\ sub + d >= sub + d
    BY <1>1, <1>3
  <2>4. RoundDiv(100 * (sub + d) - 0, 100) = sub + d
    <3> DEFINE n == sub + d
    <3> HIDE DEF n
    <3>1. n \in Int => RoundDiv(100 * n - 0, 100) = n
      BY <1>4
    <3> QED
      BY <2>3, <3>1 DEF n
  <2> QED
    BY <1>5, <2>1, <2>2, <2>3, <2>4
<1>7. CASE cart.coupon /\ coupon.kind = "PERCENTAGE"
  <2> DEFINE all == sub + d
  <2>1. CardAmount(cart) = AtLeast(100, RoundDiv(100 * all - per, 100))
    BY <1>2, <1>7 DEF CardAmount, Percentage
  <2>2. Bill(cart).total = AtLeast(0, sub + d - RoundDiv(per, 100))
    BY <1>7 DEF Bill, Discount, Percentage
  <2>3. all \in Int
    <3> HIDE DEF sub, d
    <3> QED
      BY <1>1, <1>3
  <2> HIDE DEF sub, d, per
  <2>4. 100 * all - per \in Int /\ RoundDiv(per, 100) \in Int /\ all - RoundDiv(per, 100) \in Int
    <3> HIDE DEF all
    <3> QED
      BY <1>3, <2>3, RoundTypes
  <2>5. sub + d - RoundDiv(per, 100) = all - RoundDiv(per, 100)
    BY <1>1, <1>3, <2>4
  <2> HIDE DEF all
  <2>6. RoundDiv(100 * all - per, 100) \in Int
    BY <2>4, RoundTypes
  <2>7. RoundDiv(100 * all - per, 100) >= all - RoundDiv(per, 100)
    BY <1>3, <1>4, <2>3
  <2> QED
    BY <1>5, <2>1, <2>2, <2>4, <2>5, <2>6, <2>7
<1>8. CASE cart.coupon /\ coupon.kind = "FIXED_AMOUNT"
  <2>1. CardAmount(cart) = AtLeast(100, RoundDiv(100 * (sub + d) - 100 * coupon.value, 100))
    BY <1>2, <1>8 DEF CardAmount
  <2>2. Bill(cart).total = AtLeast(0, sub + d - coupon.value)
    BY <1>1, <1>2, <1>8 DEF Bill, Discount, AtMost
  <2> HIDE DEF sub, d
  <2>3. 100 * (sub + d) - 100 * coupon.value = 100 * (sub + d - coupon.value) /\ sub + d - coupon.value \in Int
    BY <1>1, <1>2, <1>3
  <2>4. RoundDiv(100 * (sub + d) - 100 * coupon.value, 100) = sub + d - coupon.value
    BY <1>4, <2>3
  <2>5. sub + d - coupon.value >= sub + d - coupon.value
    BY <2>3
  <2> QED
    BY <1>5, <2>1, <2>2, <2>3, <2>4, <2>5
<1>9. CASE cart.coupon /\ coupon.kind = "FREE_SHIPPING"
  <2>1. CardAmount(cart) = AtLeast(100, RoundDiv(100 * (sub + d) - 100 * d, 100))
    BY <1>2, <1>9 DEF CardAmount
  <2>2. Bill(cart).total = AtLeast(0, sub + d - d)
    BY <1>9 DEF Bill, Discount
  <2> HIDE DEF sub, d
  <2>3. 100 * (sub + d) - 100 * d = 100 * sub /\ sub + d - d = sub /\ sub \in Int /\ sub >= sub
    BY <1>1, <1>3
  <2>4. RoundDiv(100 * (sub + d) - 100 * d, 100) = sub
    BY <1>4, <2>3
  <2> QED
    BY <1>5, <2>1, <2>2, <2>3, <2>4
<1> QED
  BY <1>1, <1>2, <1>6, <1>7, <1>8, <1>9

\* The price a product is found by.
LEMMA ListingAgrees ==
  ASSUME GoodsAreTyped, NEW p \in Products, mega = 0 \/ goods[p].kind = "NONE"
  PROVE  AtLeast(0, ListedPrice(goods[p])) - 100 * UnitPrice(goods[p]) \in -50 .. 50
<1> DEFINE g == goods[p]
<1>1. OwnPrice(g) \in Int /\ g.price \in Nat /\ mega \in 0 .. 100
  BY OwnPriceType DEF GoodsAreTyped, GoodRow
<1>2. \A n \in Int : AtLeast(0, n) - 100 * AtLeast(0, RoundDiv(100 * n, 10000)) \in -50 .. 50
  BY DEF AtLeast, RoundDiv
<1>3. PICK n \in Int : ListedPrice(g) = n /\ OwnPrice(g) * (100 - mega) = 100 * n
  <2>1. CASE mega = 0
    <3>1. ListedPrice(g) = OwnPrice(g)
      BY <2>1 DEF ListedPrice
    <3> HIDE DEF g
    <3>2. OwnPrice(g) * (100 - mega) = 100 * OwnPrice(g)
      BY <1>1, <2>1
    <3> QED
      BY <1>1, <3>1, <3>2
  <2>2. CASE mega # 0
    <3>1. g.kind = "NONE" /\ mega > 0
      BY <1>1, <2>2
    <3>2. ListedPrice(g) = g.price * (100 - mega) /\ OwnPrice(g) = 100 * g.price
      BY <3>1 DEF ListedPrice, OwnPrice
    <3> HIDE DEF g
    <3>3. \A x \in Nat, y \in 0 .. 100 : x * (100 - y) \in Nat /\ (100 * x) * (100 - y) = 100 * (x * (100 - y))
      OBVIOUS
    <3> QED
      BY <1>1, <3>2, <3>3
  <2> QED
    BY <2>1, <2>2
<1> HIDE DEF g
<1>4. UnitPrice(g) = AtLeast(0, RoundDiv(100 * n, 10000))
  BY <1>3 DEF UnitPrice
<1> QED
  BY <1>2, <1>3, <1>4 DEF g
----------------------------------------------------------------------------
(* Orders and reports.                                                       *)

ItemRow == [product : Products, quantity : Nat, price : Nat, cost : Nat, category : Categories]
BillRow == [subtotal : Nat, delivery : Nat, discount : Nat, total : Nat]
SaleRow == [st : {"Pending", "Delivered", "Cancelled", "Returned"}, gone : BOOLEAN, day : Days,
            bill : BillRow, items : SUBSET ItemRow]

ItemWorth == [i \in ItemRow |-> i.price * i.quantity]
ItemCost == [i \in ItemRow |-> i.cost]

\* The rows of an order are worth its subtotal.
SaleIsSound(s) ==
    /\ IsFiniteSet(s.items)
    /\ SumFunctionOnSet(ItemWorth, s.items) = s.bill.subtotal
    /\ s.bill.total = AtLeast(0, s.bill.subtotal + s.bill.delivery - s.bill.discount)

SalesInv ==
    /\ GoodsAreTyped
    /\ sales \in [Sales -> SaleRow \cup {NoSale}]
    /\ \A o \in Sales : sales[o] # NoSale => SaleIsSound(sales[o])

LEMMA ItemValues ==
  \A i \in ItemRow : ItemWorth[i] \in Nat /\ ItemCost[i] \in Nat
<1>1. \A m, n \in Nat : m * n \in Nat
  OBVIOUS
<1>2. \A i \in ItemRow : i.price \in Nat /\ i.quantity \in Nat /\ i.cost \in Nat
  BY DEF ItemRow
<1> QED
  BY <1>1, <1>2 DEF ItemWorth, ItemCost

LEMMA ItemType ==
  ASSUME GoodsAreTyped, NEW cart \in Carts, NEW p \in Products
  PROVE  /\ Item(p, cart.qty[p]) \in ItemRow /\ Item(p, cart.qty[p]).product = p
         /\ ItemWorth[Item(p, cart.qty[p])] = UnitPrice(goods[p]) * cart.qty[p]
<1>1. /\ UnitPrice(goods[p]) \in Nat /\ cart.qty[p] \in Nat /\ goods[p].cost \in Nat
      /\ goods[p].category \in Categories
  BY UnitPriceType, SalesAssumption DEF GoodsAreTyped, GoodRow
<1>2. goods[p].cost * cart.qty[p] \in Nat
  <2>1. \A m, n \in Nat : m * n \in Nat
    OBVIOUS
  <2> QED
    BY <1>1, <2>1
<1>3. Item(p, cart.qty[p]) \in ItemRow
  BY <1>1, <1>2 DEF Item, ItemRow
<1>4. /\ Item(p, cart.qty[p]).price = UnitPrice(goods[p]) /\ Item(p, cart.qty[p]).quantity = cart.qty[p]
      /\ Item(p, cart.qty[p]).product = p
  BY DEF Item
<1> QED
  BY <1>3, <1>4 DEF ItemWorth

\* The rows of an order add up to the subtotal they were priced for.
LEMMA PlacedItems ==
  ASSUME GoodsAreTyped, NEW cart \in Carts
  PROVE  LET items == {Item(p, cart.qty[p]) : p \in LinesOf(cart)}
         IN  /\ items \in SUBSET ItemRow /\ IsFiniteSet(items)
             /\ SumFunctionOnSet(ItemWorth, items) = Subtotal(cart)
<1> DEFINE L == LinesOf(cart)
           k == [p \in L |-> Item(p, cart.qty[p])]
           f == [p \in L |-> UnitPrice(goods[p]) * cart.qty[p]]
           items == {Item(p, cart.qty[p]) : p \in L}
<1>1. \A p \in L : /\ Item(p, cart.qty[p]) \in ItemRow /\ Item(p, cart.qty[p]).product = p
                   /\ ItemWorth[Item(p, cart.qty[p])] = UnitPrice(goods[p]) * cart.qty[p]
  BY LinesFinite, ItemType
<1>2. items = {k[p] : p \in L}
  OBVIOUS
<1>3. \A p \in L : f[p] \in Int /\ ItemWorth[k[p]] = f[p]
  <2>1. \A p \in L : ItemWorth[k[p]] \in Int /\ ItemWorth[k[p]] = f[p]
    BY <1>1, ItemValues
  <2> QED
    BY <2>1
<1>4. \A p, q \in L : k[p] = k[q] => p = q
  <2>1. \A p \in L : k[p].product = p
    BY <1>1
  <2> QED
    BY <2>1
<1>5. Subtotal(cart) = SumFunctionOnSet(f, L)
  <2>1. DOMAIN f = L
    OBVIOUS
  <2> QED
    BY <2>1 DEF Subtotal, SumFunction
<1>6. IsFiniteSet(L)
  BY LinesFinite
<1>7. SumFunctionOnSet(ItemWorth, {k[p] : p \in L}) = SumFunctionOnSet(f, L) /\ IsFiniteSet({k[p] : p \in L})
  <2> HIDE DEF k, f, L
  <2> QED
    BY <1>3, <1>4, <1>6, SumImage, ImageIsFinite
<1>8. items \in SUBSET ItemRow
  BY <1>1
<1> QED
  BY <1>2, <1>5, <1>7, <1>8

LEMMA BillType ==
  ASSUME GoodsAreTyped, NEW cart \in Carts
  PROVE  Bill(cart) \in BillRow /\ Bill(cart).subtotal = Subtotal(cart)
         /\ Bill(cart).total = AtLeast(0, Bill(cart).subtotal + Bill(cart).delivery - Bill(cart).discount)
<1> DEFINE sub == Subtotal(cart)
           d == Delivery(cart.city)
           less == IF cart.coupon THEN Discount(sub, d) ELSE 0
<1>1. sub \in Nat /\ d \in Nat /\ coupon \in Coupons
  BY SubtotalType DEF GoodsAreTyped, Delivery
<1>2. less \in Nat
  <2> HIDE DEF sub, d
  <2>1. Discount(sub, d) \in Nat
    BY <1>1, DiscountType
  <2> QED
    BY <2>1
<1>3. Bill(cart) = [subtotal |-> sub, delivery |-> d, discount |-> less, total |-> AtLeast(0, sub + d - less)]
  BY DEF Bill
<1> HIDE DEF sub, d, less
<1>4. AtLeast(0, sub + d - less) \in Nat
  BY <1>1, <1>2 DEF AtLeast
<1> QED
  BY <1>1, <1>2, <1>3, <1>4 DEF BillRow, sub

LEMMA SalesStart ==
  ASSUME SalesInit
  PROVE  SalesInv
<1>1. GoodsAreTyped
  BY GoodsStart DEF SalesInit
<1> QED
  BY <1>1 DEF SalesInit, SalesInv

LEMMA PlaceKeeps ==
  ASSUME SalesInv, NEW o \in Sales, NEW cart \in Carts, NEW card \in BOOLEAN, Place(o, cart, card)
  PROVE  SalesInv'
<1> DEFINE items == {Item(p, cart.qty[p]) : p \in LinesOf(cart)}
           s == [st |-> "Pending", gone |-> FALSE, day |-> DayOf[o], bill |-> Bill(cart), items |-> items]
<1>1. /\ sales' = [sales EXCEPT ![o] = s] /\ goods' = goods /\ mega' = mega /\ coupon' = coupon
      /\ GoodsAreTyped /\ sales \in [Sales -> SaleRow \cup {NoSale}]
  BY DEF Place, SalesInv
<1>2. GoodsAreTyped'
  BY <1>1 DEF GoodsAreTyped, GoodRow
<1>3. /\ items \in SUBSET ItemRow /\ IsFiniteSet(items)
      /\ SumFunctionOnSet(ItemWorth, items) = Subtotal(cart)
  BY <1>1, PlacedItems
<1>4. Bill(cart) \in BillRow /\ Bill(cart).subtotal = Subtotal(cart)
      /\ Bill(cart).total = AtLeast(0, Bill(cart).subtotal + Bill(cart).delivery - Bill(cart).discount)
  BY <1>1, BillType
<1> HIDE DEF items
<1>5. s \in SaleRow /\ s.items = items /\ s.bill = Bill(cart)
  BY <1>3, <1>4 DEF SaleRow, Days
<1> HIDE DEF s
<1>6. SaleIsSound(s)
  BY <1>3, <1>4, <1>5 DEF SaleIsSound
<1> QED
  BY <1>1, <1>2, <1>5, <1>6 DEF SalesInv

\* An order changes its status or is removed.
LEMMA MoveKeeps ==
  ASSUME SalesInv, NEW o \in Sales,
         RemoveSale(o) \/ \E st \in {"Delivered", "Cancelled", "Returned"} : Move(o, st)
  PROVE  SalesInv'
<1>1. /\ goods' = goods /\ mega' = mega /\ coupon' = coupon
      /\ GoodsAreTyped /\ sales \in [Sales -> SaleRow \cup {NoSale}]
  BY DEF RemoveSale, Move, SalesInv
<1>2. GoodsAreTyped'
  BY <1>1 DEF GoodsAreTyped, GoodRow
<1>3. sales[o] # NoSale
  BY DEF RemoveSale, Move, NoSale
<1>4. PICK s \in SaleRow : /\ sales' = [sales EXCEPT ![o] = s]
                          /\ s.items = sales[o].items /\ s.bill = sales[o].bill
  <2>1. sales[o] \in SaleRow
    BY <1>1, <1>3
  <2>2. CASE RemoveSale(o)
    <3> DEFINE s == [sales[o] EXCEPT !.gone = TRUE]
    <3>1. s \in SaleRow /\ s.items = sales[o].items /\ s.bill = sales[o].bill
      BY <2>1 DEF SaleRow
    <3>2. sales' = [sales EXCEPT ![o] = s]
      BY <1>1, <2>2 DEF RemoveSale
    <3> HIDE DEF s
    <3> QED
      BY <3>1, <3>2
  <2>3. ASSUME NEW st \in {"Delivered", "Cancelled", "Returned"}, Move(o, st)
        PROVE  \E s \in SaleRow : /\ sales' = [sales EXCEPT ![o] = s]
                                  /\ s.items = sales[o].items /\ s.bill = sales[o].bill
    <3> DEFINE s == [sales[o] EXCEPT !.st = st]
    <3>1. s \in SaleRow /\ s.items = sales[o].items /\ s.bill = sales[o].bill
      BY <2>1 DEF SaleRow
    <3>2. sales' = [sales EXCEPT ![o] = s]
      BY <1>1, <2>3 DEF Move
    <3> HIDE DEF s
    <3> QED
      BY <3>1, <3>2
  <2> QED
    BY <2>2, <2>3
<1>5. SaleIsSound(s)
  BY <1>3, <1>4 DEF SalesInv, SaleIsSound
<1> QED
  BY <1>1, <1>2, <1>4, <1>5 DEF SalesInv

LEMMA RepricingKeeps ==
  ASSUME SalesInv, (\E p \in Products : \E g \in Goods[p] : Reprice(p, g)) \/ (\E m \in Megas : SetMega(m))
  PROVE  SalesInv'
<1>1. sales' = sales /\ coupon' = coupon /\ GoodsAreTyped
  BY DEF Reprice, SetMega, SalesInv
<1>2. goods' \in [Products -> Rows] /\ (\A p \in Products : goods'[p] \in Goods[p]) /\ mega' \in Megas
  <2>1. ASSUME NEW p \in Products, NEW g \in Goods[p], Reprice(p, g)
        PROVE  goods' \in [Products -> Rows] /\ (\A q \in Products : goods'[q] \in Goods[q]) /\ mega' \in Megas
    <3>1. g \in Rows
      BY DEF Rows
    <3> QED
      BY <1>1, <2>1, <3>1 DEF Reprice, GoodsAreTyped
  <2>2. ASSUME NEW m \in Megas, SetMega(m)
        PROVE  goods' \in [Products -> Rows] /\ (\A q \in Products : goods'[q] \in Goods[q]) /\ mega' \in Megas
    BY <1>1, <2>2 DEF SetMega, GoodsAreTyped
  <2> QED
    BY <2>1, <2>2
<1>3. GoodsAreTyped'
  <2>1. \A p \in Products : GoodRow(goods'[p])
    BY <1>2, SalesAssumption DEF GoodRow, Categories
  <2>2. mega' \in 0 .. 100
    BY <1>2, SalesAssumption
  <2> QED
    BY <1>1, <1>2, <2>1, <2>2 DEF GoodsAreTyped, GoodRow
<1> QED
  BY <1>1, <1>3 DEF SalesInv, SaleIsSound

LEMMA SalesStay ==
  ASSUME SalesInv, [SalesNext]_salesVars
  PROVE  SalesInv'
<1>1. CASE UNCHANGED salesVars
  BY <1>1 DEF salesVars, SalesInv, GoodsAreTyped, GoodRow, SaleIsSound
<1> QED
  BY <1>1, PlaceKeeps, MoveKeeps, RepricingKeeps DEF SalesNext
----------------------------------------------------------------------------
(* The reports on a set of placed orders.                                    *)

Placed(S) == S \in SUBSET Sales /\ \A o \in S : sales[o] # NoSale

\* Fields of the bills and what the items come to, as functions.
SubtotalOf(S) == [o \in S |-> sales[o].bill.subtotal]
CouponOf(S) == [o \in S |-> sales[o].bill.discount]
DeliveryOf(S) == [o \in S |-> sales[o].bill.delivery]
NetOf(S) == [o \in S |-> sales[o].bill.subtotal - sales[o].bill.discount]
RevenueOf(S) == [o \in S |-> Revenue(o)]
CogsOf(S) == [o \in S |-> Cogs(o)]
ProfitOf(S) == [o \in S |-> sales[o].bill.subtotal - sales[o].bill.discount - Cogs(o) + sales[o].bill.delivery]

LEMMA ItemsSummed ==
  ASSUME NEW T \in SUBSET ItemRow, IsFiniteSet(T)
  PROVE  /\ Worth(T) = SumFunctionOnSet(ItemWorth, T)
         /\ SumFunction([i \in T |-> i.price * i.quantity]) = SumFunctionOnSet(ItemWorth, T)
         /\ SumFunction([i \in T |-> i.cost]) = SumFunctionOnSet(ItemCost, T)
<1> DEFINE w == [i \in T |-> i.price * i.quantity]
           c == [i \in T |-> i.cost]
<1>1. DOMAIN w = T /\ DOMAIN c = T
  OBVIOUS
<1>2. \A i \in T : w[i] = ItemWorth[i] /\ c[i] = ItemCost[i]
  BY DEF ItemWorth, ItemCost
<1>3. SumFunction(w) = SumFunctionOnSet(w, T) /\ SumFunction(c) = SumFunctionOnSet(c, T)
  BY <1>1 DEF SumFunction
<1>4. Worth(T) = SumFunction(w)
  BY DEF Worth
<1> HIDE DEF w, c
<1>5. SumFunctionOnSet(w, T) = SumFunctionOnSet(ItemWorth, T) /\ SumFunctionOnSet(c, T) = SumFunctionOnSet(ItemCost, T)
  BY <1>2, SumSame
<1> QED
  BY <1>3, <1>4, <1>5 DEF w, c

LEMMA PlacedRows ==
  ASSUME SalesInv, NEW S, Placed(S), NEW o \in S
  PROVE  /\ sales[o] \in SaleRow /\ SaleIsSound(sales[o]) /\ sales[o].bill \in BillRow
         /\ sales[o].day \in Days
         /\ sales[o].items \in SUBSET ItemRow /\ IsFiniteSet(sales[o].items)
<1>1. sales[o] \in SaleRow /\ SaleIsSound(sales[o])
  BY DEF Placed, SalesInv
<1> QED
  BY <1>1 DEF SaleRow, SaleIsSound

LEMMA PlacedValues ==
  ASSUME SalesInv, NEW S, Placed(S)
  PROVE  /\ IsFiniteSet(S) /\ IsFiniteSet(Days)
         /\ \A o \in S :
               /\ SubtotalOf(S)[o] \in Nat /\ CouponOf(S)[o] \in Nat /\ DeliveryOf(S)[o] \in Nat
               /\ RevenueOf(S)[o] = SumFunctionOnSet(ItemWorth, sales[o].items)
               /\ CogsOf(S)[o] = SumFunctionOnSet(ItemCost, sales[o].items)
               /\ RevenueOf(S)[o] = SubtotalOf(S)[o] /\ CogsOf(S)[o] \in Nat
               /\ NetOf(S)[o] = SubtotalOf(S)[o] - CouponOf(S)[o]
               /\ ProfitOf(S)[o] = SubtotalOf(S)[o] - CouponOf(S)[o] - CogsOf(S)[o] + DeliveryOf(S)[o]
<1>1. IsFiniteSet(S)
  BY FS_Subset, SalesAssumption DEF Placed
<1>2. IsFiniteSet(Days)
  BY SalesAssumption, ImageIsFinite DEF Days
<1>3. ASSUME NEW o \in S
      PROVE  /\ sales[o].bill.subtotal \in Nat /\ sales[o].bill.discount \in Nat /\ sales[o].bill.delivery \in Nat
             /\ Revenue(o) = SumFunctionOnSet(ItemWorth, sales[o].items)
             /\ Cogs(o) = SumFunctionOnSet(ItemCost, sales[o].items)
             /\ Revenue(o) = sales[o].bill.subtotal /\ Cogs(o) \in Nat
  <2>1. sales[o].bill \in BillRow /\ sales[o].items \in SUBSET ItemRow /\ IsFiniteSet(sales[o].items)
    BY PlacedRows
  <2>2. Revenue(o) = SumFunctionOnSet(ItemWorth, sales[o].items) /\ Cogs(o) = SumFunctionOnSet(ItemCost, sales[o].items)
    BY <2>1, ItemsSummed DEF Revenue, Cogs
  <2>3. SumFunctionOnSet(ItemCost, sales[o].items) \in Nat
    BY <2>1, ItemValues, SumType
  <2>4. SumFunctionOnSet(ItemWorth, sales[o].items) = sales[o].bill.subtotal
    BY PlacedRows DEF SaleIsSound
  <2> QED
    BY <2>1, <2>2, <2>3, <2>4 DEF BillRow
<1> QED
  BY <1>1, <1>2, <1>3 DEF SubtotalOf, CouponOf, DeliveryOf, NetOf, RevenueOf, CogsOf, ProfitOf

\* g has the sums of v over the items of the orders of S, and h over those of each kind.
SumsOfItems(g, h, v, C, S, Y, kind) ==
    /\ \A i \in ItemRow : kind[i] \in Y /\ v[i] \in Int
    /\ \A o \in S : g[o] = SumFunctionOnSet(v, sales[o].items)
    /\ \A y \in Y, o \in S : C[y][o] = SumFunctionOnSet(v, {i \in sales[o].items : kind[i] = y})
    /\ \A y \in Y : h[y] = SumFunctionOnSet(C[y], S)

\* A sum over orders and their items is the sum over kinds.
LEMMA SplitByKind ==
  ASSUME SalesInv, NEW S, Placed(S), NEW Y, IsFiniteSet(Y), NEW kind, NEW v, NEW g, NEW C, NEW h,
         SumsOfItems(g, h, v, C, S, Y, kind)
  PROVE  SumFunctionOnSet(h, Y) = SumFunctionOnSet(g, S)
<1> USE DEF SumsOfItems
<1> DEFINE Part(o, y) == {i \in sales[o].items : kind[i] = y}
           F == [o \in S |-> [y \in Y |-> SumFunctionOnSet(v, Part(o, y))]]
<1>1. \A o \in S : IsFiniteSet(sales[o].items) /\ sales[o].items \in SUBSET ItemRow
  BY PlacedRows
<1>2. \A o \in S, y \in Y : F[o][y] \in Int
  <2> SUFFICES ASSUME NEW o \in S, NEW y \in Y PROVE SumFunctionOnSet(v, Part(o, y)) \in Int
    OBVIOUS
  <2>1. IsFiniteSet(Part(o, y)) /\ \A i \in Part(o, y) : v[i] \in Int
    BY <1>1, FS_Subset
  <2> HIDE DEF Part
  <2> QED
    BY <2>1, SumType
<1>3. \A o \in S : g[o] = SumFunctionOnSet(F[o], Y)
  <2> SUFFICES ASSUME NEW o \in S PROVE g[o] = SumFunctionOnSet(F[o], Y)
    OBVIOUS
  <2> DEFINE items == sales[o].items
             row == F[o]
             P == [y \in Y |-> Part(o, y)]
  <2>1. \A y \in Y : P[y] = {i \in items : kind[i] = y} /\ row[y] = SumFunctionOnSet(v, P[y])
    OBVIOUS
  <2>2. IsFiniteSet(items) /\ \A i \in items : v[i] \in Int /\ kind[i] \in Y
    BY <1>1
  <2>3. SumFunctionOnSet(row, Y) = SumFunctionOnSet(v, items)
    <3> HIDE DEF items, row, P
    <3>1. SumsOfParts(row, v, items, Y, kind, P)
      BY <2>1, <2>2 DEF SumsOfParts
    <3> QED
      BY <2>2, <3>1, SumPartition
  <2> QED
    BY <2>3
<1>4. \A o \in S, y \in Y : C[y][o] = F[o][y]
  OBVIOUS
<1>5. IsFiniteSet(S)
  BY PlacedValues
<1> HIDE DEF F
<1>6. SumsOfTable(g, h, F, C, S, Y)
  BY <1>2, <1>3, <1>4 DEF SumsOfTable
<1> HIDE DEF SumsOfItems
<1> QED
  BY <1>5, <1>6, SumSwap

\* Revenue and costs by category and by product.
LEMMA KindsAgree ==
  ASSUME SalesInv, NEW S, Placed(S)
  PROVE  /\ SumFunction([c \in Categories |-> CategoryRow(S, c).net]) = SumFunctionOnSet(RevenueOf(S), S)
         /\ SumFunction([c \in Categories |-> CategoryRow(S, c).cogs]) = SumFunctionOnSet(CogsOf(S), S)
         /\ SumFunction([p \in Products |-> ProductRow(S, p).gross]) = SumFunctionOnSet(RevenueOf(S), S)
<1> DEFINE category == [i \in ItemRow |-> i.category]
           item == [i \in ItemRow |-> i.product]
<1>1. \A o \in S : IsFiniteSet(sales[o].items) /\ sales[o].items \in SUBSET ItemRow
  BY PlacedRows
<1>2. \A i \in ItemRow : category[i] \in Categories /\ item[i] \in Products /\ ItemWorth[i] \in Int /\ ItemCost[i] \in Int
  <2>1. \A i \in ItemRow : category[i] \in Categories /\ item[i] \in Products
    BY DEF ItemRow
  <2> HIDE DEF category, item
  <2> QED
    BY <2>1, ItemValues
<1>3. \A o \in S : RevenueOf(S)[o] = SumFunctionOnSet(ItemWorth, sales[o].items)
                   /\ CogsOf(S)[o] = SumFunctionOnSet(ItemCost, sales[o].items)
  BY PlacedValues
<1> DEFINE a == [c \in Categories |-> [o \in S |-> Worth(CategoryItems(o, c))]]
           b == [c \in Categories |-> [o \in S |-> SumFunction([i \in CategoryItems(o, c) |-> i.cost])]]
           d == [p \in Products |-> [o \in S |-> Worth(ProductItems(o, p))]]
           r == [c \in Categories |-> CategoryRow(S, c).net]
           s == [c \in Categories |-> CategoryRow(S, c).cogs]
           t == [p \in Products |-> ProductRow(S, p).gross]
<1>4. ASSUME NEW c \in Categories, NEW o \in S
      PROVE  /\ Worth(CategoryItems(o, c)) = SumFunctionOnSet(ItemWorth, {i \in sales[o].items : category[i] = c})
             /\ SumFunction([i \in CategoryItems(o, c) |-> i.cost]) = SumFunctionOnSet(ItemCost, {i \in sales[o].items : category[i] = c})
  <2>1. CategoryItems(o, c) = {i \in sales[o].items : category[i] = c}
    BY <1>1 DEF CategoryItems
  <2>2. CategoryItems(o, c) \in SUBSET ItemRow /\ IsFiniteSet(CategoryItems(o, c))
    BY <1>1, FS_Subset DEF CategoryItems
  <2> QED
    BY <2>1, <2>2, ItemsSummed
<1>5. ASSUME NEW p \in Products, NEW o \in S
      PROVE  Worth(ProductItems(o, p)) = SumFunctionOnSet(ItemWorth, {i \in sales[o].items : item[i] = p})
  <2>1. ProductItems(o, p) = {i \in sales[o].items : item[i] = p}
    BY <1>1 DEF ProductItems
  <2>2. ProductItems(o, p) \in SUBSET ItemRow /\ IsFiniteSet(ProductItems(o, p))
    BY <1>1, FS_Subset DEF ProductItems
  <2> QED
    BY <2>1, <2>2, ItemsSummed
<1>6. /\ \A c \in Categories, o \in S :
            /\ a[c][o] = SumFunctionOnSet(ItemWorth, {i \in sales[o].items : category[i] = c})
            /\ b[c][o] = SumFunctionOnSet(ItemCost, {i \in sales[o].items : category[i] = c})
      /\ \A p \in Products, o \in S : d[p][o] = SumFunctionOnSet(ItemWorth, {i \in sales[o].items : item[i] = p})
  <2> HIDE DEF category, item
  <2> QED
    BY <1>4, <1>5
<1>7. /\ \A c \in Categories : r[c] = SumFunctionOnSet(a[c], S) /\ s[c] = SumFunctionOnSet(b[c], S)
      /\ \A p \in Products : t[p] = SumFunctionOnSet(d[p], S)
  <2>1. \A c \in Categories : r[c] = SumFunction(a[c]) /\ s[c] = SumFunction(b[c])
    BY DEF CategoryRow
  <2>2. \A p \in Products : t[p] = SumFunction(d[p])
    BY DEF ProductRow
  <2>3. (\A c \in Categories : DOMAIN a[c] = S /\ DOMAIN b[c] = S) /\ \A p \in Products : DOMAIN d[p] = S
    OBVIOUS
  <2> HIDE DEF a, b, d, r, s, t
  <2> QED
    BY <2>1, <2>2, <2>3 DEF SumFunction
<1>8. DOMAIN r = Categories /\ DOMAIN s = Categories /\ DOMAIN t = Products
  OBVIOUS
<1>9. IsFiniteSet(Categories) /\ IsFiniteSet(Products)
  BY SalesAssumption
<1> HIDE DEF a, b, d, r, s, t, category, item
<1>10. SumFunctionOnSet(r, Categories) = SumFunctionOnSet(RevenueOf(S), S)
  <2>1. SumsOfItems(RevenueOf(S), r, ItemWorth, a, S, Categories, category)
    BY <1>2, <1>3, <1>6, <1>7 DEF SumsOfItems
  <2> QED
    BY <1>9, <2>1, SplitByKind
<1>11. SumFunctionOnSet(s, Categories) = SumFunctionOnSet(CogsOf(S), S)
  <2>1. SumsOfItems(CogsOf(S), s, ItemCost, b, S, Categories, category)
    BY <1>2, <1>3, <1>6, <1>7 DEF SumsOfItems
  <2> QED
    BY <1>9, <2>1, SplitByKind
<1>12. SumFunctionOnSet(t, Products) = SumFunctionOnSet(RevenueOf(S), S)
  <2>1. SumsOfItems(RevenueOf(S), t, ItemWorth, d, S, Products, item)
    BY <1>2, <1>3, <1>6, <1>7 DEF SumsOfItems
  <2> QED
    BY <1>9, <2>1, SplitByKind
<1>13. SumFunction(r) = SumFunctionOnSet(RevenueOf(S), S) /\ SumFunction(s) = SumFunctionOnSet(CogsOf(S), S)
       /\ SumFunction(t) = SumFunctionOnSet(RevenueOf(S), S)
  BY <1>8, <1>10, <1>11, <1>12 DEF SumFunction
<1> QED
  BY <1>13 DEF r, s, t

\* A sum over orders is the sum over days.
OnDay(S, d) == {o \in S : sales[o].day = d}
SumsOfDays(h, f, S) ==
    /\ \A o \in S : f[o] \in Int
    /\ \A d \in Days : h[d] = SumFunctionOnSet(f, OnDay(S, d))

LEMMA SplitByDay ==
  ASSUME SalesInv, NEW S, Placed(S), NEW f, NEW h, SumsOfDays(h, f, S)
  PROVE  SumFunctionOnSet(h, Days) = SumFunctionOnSet(f, S)
<1> DEFINE day == [o \in S |-> sales[o].day]
           P == [d \in Days |-> OnDay(S, d)]
<1>1. IsFiniteSet(S) /\ IsFiniteSet(Days)
  BY PlacedValues
<1>2. \A o \in S : f[o] \in Int /\ day[o] \in Days
  BY PlacedRows DEF SumsOfDays
<1>3. \A d \in Days : P[d] = {o \in S : day[o] = d} /\ h[d] = SumFunctionOnSet(f, P[d])
  BY DEF SumsOfDays, OnDay
<1> HIDE DEF day, P
<1>4. SumsOfParts(h, f, S, Days, day, P)
  BY <1>2, <1>3 DEF SumsOfParts
<1> QED
  BY <1>1, <1>4, SumPartition

LEMMA DaysAgree ==
  ASSUME SalesInv, NEW S, Placed(S)
  PROVE  /\ SumFunction([d \in Days |-> TrendRow(S, d).net]) = SumFunctionOnSet(NetOf(S), S)
         /\ SumFunction([d \in Days |-> TrendRow(S, d).orders]) = Cardinality(S)
         /\ SumFunction([d \in Days |-> TrendRow(S, d).profit]) = SumFunctionOnSet(ProfitOf(S), S)
<1> DEFINE n == [d \in Days |-> TrendRow(S, d).net]
           c == [d \in Days |-> TrendRow(S, d).orders]
           p == [d \in Days |-> TrendRow(S, d).profit]
           one == [o \in S |-> 1]
<1>1. IsFiniteSet(S) /\ \A o \in S : NetOf(S)[o] \in Int /\ ProfitOf(S)[o] \in Int /\ one[o] \in Int
  <2>1. \A o \in S : /\ SubtotalOf(S)[o] \in Int /\ CouponOf(S)[o] \in Int /\ DeliveryOf(S)[o] \in Int
                     /\ CogsOf(S)[o] \in Int
    BY PlacedValues
  <2>2. \A o \in S : /\ NetOf(S)[o] = SubtotalOf(S)[o] - CouponOf(S)[o]
                     /\ ProfitOf(S)[o] = SubtotalOf(S)[o] - CouponOf(S)[o] - CogsOf(S)[o] + DeliveryOf(S)[o]
    BY PlacedValues
  <2> QED
    BY <2>1, <2>2, PlacedValues
<1>2. ASSUME NEW d \in Days
      PROVE  /\ n[d] = SumFunctionOnSet(NetOf(S), OnDay(S, d))
             /\ p[d] = SumFunctionOnSet(ProfitOf(S), OnDay(S, d))
             /\ c[d] = SumFunctionOnSet(one, OnDay(S, d))
  <2> DEFINE T == OnDay(S, d)
             net == [o \in T |-> sales[o].bill.subtotal - sales[o].bill.discount]
             profit == [o \in T |-> sales[o].bill.subtotal - sales[o].bill.discount
                                        - Cogs(o) + sales[o].bill.delivery]
  <2>1. IsFiniteSet(T)
    BY <1>1, FS_Subset DEF OnDay
  <2>2. n[d] = SumFunction(net) /\ p[d] = SumFunction(profit) /\ c[d] = Cardinality(T)
    BY DEF TrendRow, OnDay
  <2>3. DOMAIN net = T /\ DOMAIN profit = T
    OBVIOUS
  <2>4. \A o \in T : net[o] = NetOf(S)[o] /\ profit[o] = ProfitOf(S)[o] /\ one[o] = 1
    BY DEF NetOf, ProfitOf, OnDay
  <2> HIDE DEF T, net, profit, n, c, p, one
  <2>5. SumFunctionOnSet(net, T) = SumFunctionOnSet(NetOf(S), T) /\ SumFunctionOnSet(profit, T) = SumFunctionOnSet(ProfitOf(S), T)
    BY <2>1, <2>4, SumSame
  <2>6. SumFunctionOnSet(one, T) = Cardinality(T)
    BY <2>1, <2>4, SumOnes
  <2>7. SumFunction(net) = SumFunctionOnSet(net, T) /\ SumFunction(profit) = SumFunctionOnSet(profit, T)
    BY <2>3 DEF SumFunction
  <2> QED
    BY <2>2, <2>5, <2>6, <2>7 DEF T
<1>3. DOMAIN n = Days /\ DOMAIN c = Days /\ DOMAIN p = Days /\ \A o \in S : one[o] = 1
  OBVIOUS
<1> HIDE DEF n, c, p, one
<1>4. SumsOfDays(n, NetOf(S), S) /\ SumsOfDays(p, ProfitOf(S), S) /\ SumsOfDays(c, one, S)
  BY <1>1, <1>2 DEF SumsOfDays
<1>5. /\ SumFunctionOnSet(n, Days) = SumFunctionOnSet(NetOf(S), S)
      /\ SumFunctionOnSet(p, Days) = SumFunctionOnSet(ProfitOf(S), S)
      /\ SumFunctionOnSet(c, Days) = SumFunctionOnSet(one, S)
  BY <1>4, SplitByDay
<1>6. SumFunctionOnSet(one, S) = Cardinality(S)
  BY <1>1, <1>3, SumOnes
<1>7. SumFunction(n) = SumFunctionOnSet(n, Days) /\ SumFunction(p) = SumFunctionOnSet(p, Days)
      /\ SumFunction(c) = SumFunctionOnSet(c, Days)
  BY <1>3 DEF SumFunction
<1> QED
  BY <1>5, <1>6, <1>7 DEF n, c, p

\* What the sums over orders have to do with one another.
LEMMA OrdersAgree ==
  ASSUME SalesInv, NEW S, Placed(S)
  PROVE  /\ SumFunctionOnSet(RevenueOf(S), S) = SumFunctionOnSet(SubtotalOf(S), S)
         /\ SumFunctionOnSet(NetOf(S), S) = SumFunctionOnSet(SubtotalOf(S), S) - SumFunctionOnSet(CouponOf(S), S)
         /\ SumFunctionOnSet(ProfitOf(S), S) =
                SumFunctionOnSet(NetOf(S), S) - SumFunctionOnSet(CogsOf(S), S) + SumFunctionOnSet(DeliveryOf(S), S)
         /\ SumFunctionOnSet(SubtotalOf(S), S) \in Nat /\ SumFunctionOnSet(CouponOf(S), S) \in Nat
         /\ SumFunctionOnSet(CogsOf(S), S) \in Nat /\ SumFunctionOnSet(DeliveryOf(S), S) \in Nat
         /\ SumFunctionOnSet(NetOf(S), S) \in Int
<1> DEFINE a == SubtotalOf(S)
           b == CouponOf(S)
           c == CogsOf(S)
           d == DeliveryOf(S)
           n == NetOf(S)
           p == ProfitOf(S)
           all == [o \in S |-> n[o] + d[o]]
<1>1. IsFiniteSet(S) /\ \A o \in S : /\ a[o] \in Nat /\ b[o] \in Nat /\ c[o] \in Nat /\ d[o] \in Nat
                                     /\ n[o] = a[o] - b[o] /\ p[o] = a[o] - b[o] - c[o] + d[o]
  BY PlacedValues
<1>2. SumFunctionOnSet(RevenueOf(S), S) = SumFunctionOnSet(a, S)
  BY PlacedValues, SumSame
<1> HIDE DEF a, b, c, d, n, p
<1>3. \A o \in S : /\ a[o] \in Int /\ b[o] \in Int /\ c[o] \in Int /\ d[o] \in Int /\ n[o] \in Int /\ p[o] \in Int
                   /\ a[o] = n[o] + b[o] /\ all[o] = n[o] + d[o] /\ all[o] = p[o] + c[o] /\ all[o] \in Int
  BY <1>1
<1> HIDE DEF all
<1>4. SumFunctionOnSet(a, S) = SumFunctionOnSet(n, S) + SumFunctionOnSet(b, S)
  BY <1>1, <1>3, SumPlus
<1>5. SumFunctionOnSet(all, S) = SumFunctionOnSet(n, S) + SumFunctionOnSet(d, S)
  BY <1>1, <1>3, SumPlus
<1>6. SumFunctionOnSet(all, S) = SumFunctionOnSet(p, S) + SumFunctionOnSet(c, S)
  BY <1>1, <1>3, SumPlus
<1>7. /\ SumFunctionOnSet(a, S) \in Nat /\ SumFunctionOnSet(b, S) \in Nat
      /\ SumFunctionOnSet(c, S) \in Nat /\ SumFunctionOnSet(d, S) \in Nat
      /\ SumFunctionOnSet(n, S) \in Int /\ SumFunctionOnSet(p, S) \in Int
  BY <1>1, <1>3, SumType
<1>8. /\ SumFunctionOnSet(n, S) = SumFunctionOnSet(a, S) - SumFunctionOnSet(b, S)
      /\ SumFunctionOnSet(p, S) = SumFunctionOnSet(n, S) - SumFunctionOnSet(c, S) + SumFunctionOnSet(d, S)
  <2> DEFINE A == SumFunctionOnSet(a, S)
             B == SumFunctionOnSet(b, S)
             C == SumFunctionOnSet(c, S)
             D == SumFunctionOnSet(d, S)
             N == SumFunctionOnSet(n, S)
             P == SumFunctionOnSet(p, S)
  <2>1. /\ A \in Int /\ B \in Int /\ C \in Int /\ D \in Int /\ N \in Int /\ P \in Int
        /\ A = N + B /\ N + D = P + C
    BY <1>4, <1>5, <1>6, <1>7
  <2> HIDE DEF A, B, C, D, N, P
  <2>2. N = A - B
    BY <2>1
  <2>3. P = N - C + D
    BY <2>1
  <2> QED
    BY <2>2, <2>3 DEF A, B, C, D, N, P
<1> QED
  BY <1>2, <1>7, <1>8, Zenon DEF a, b, c, d, n, p

\* The list of orders, where each earns nothing at least.
LEMMA ListAgrees ==
  ASSUME SalesInv, NEW S, Placed(S)
  PROVE  SumFunction([o \in S |-> OrderRow(o).net]) >= AtLeast(0, SumFunctionOnSet(NetOf(S), S))
<1> DEFINE r == [o \in S |-> OrderRow(o).net]
<1>1. IsFiniteSet(S) /\ \A o \in S : NetOf(S)[o] \in Int
  <2>1. \A o \in S : SubtotalOf(S)[o] \in Int /\ CouponOf(S)[o] \in Int /\ NetOf(S)[o] = SubtotalOf(S)[o] - CouponOf(S)[o]
    BY PlacedValues
  <2> QED
    BY <2>1, PlacedValues
<1>2. DOMAIN r = S /\ \A o \in S : r[o] = AtLeast(0, NetOf(S)[o])
  BY DEF OrderRow, NetOf
<1> HIDE DEF r
<1>3. \A o \in S : r[o] \in Int /\ r[o] \in Nat /\ NetOf(S)[o] <= r[o]
  BY <1>1, <1>2 DEF AtLeast
<1>4. /\ SumFunctionOnSet(NetOf(S), S) <= SumFunctionOnSet(r, S)
      /\ SumFunctionOnSet(r, S) \in Nat /\ SumFunctionOnSet(NetOf(S), S) \in Int
  BY <1>1, <1>3, SumLE, SumType
<1>5. SumFunction(r) = SumFunctionOnSet(r, S)
  BY <1>2 DEF SumFunction
<1>6. SumFunction(r) >= AtLeast(0, SumFunctionOnSet(NetOf(S), S))
  BY <1>4, <1>5 DEF AtLeast
<1> QED
  BY <1>6 DEF r

\* The dashboard adds up totals, which are nothing at least.
LEMMA TotalsAgree ==
  ASSUME SalesInv, NEW S, Placed(S)
  PROVE  LET total == SumFunction([o \in S |-> sales[o].bill.total])
             earned == SumFunctionOnSet(NetOf(S), S) + SumFunctionOnSet(DeliveryOf(S), S)
         IN  /\ total >= earned
             /\ (\A o \in S : sales[o].bill.discount <= sales[o].bill.subtotal + sales[o].bill.delivery) =>
                    total = earned
<1> DEFINE r == [o \in S |-> sales[o].bill.total]
           e == [o \in S |-> NetOf(S)[o] + DeliveryOf(S)[o]]
<1>1. IsFiniteSet(S) /\ \A o \in S : NetOf(S)[o] \in Int /\ DeliveryOf(S)[o] \in Int /\ e[o] \in Int
  <2>1. \A o \in S : /\ SubtotalOf(S)[o] \in Int /\ CouponOf(S)[o] \in Int /\ DeliveryOf(S)[o] \in Int
                     /\ NetOf(S)[o] = SubtotalOf(S)[o] - CouponOf(S)[o]
    BY PlacedValues
  <2> QED
    BY <2>1, PlacedValues
<1>2. \A o \in S : e[o] = NetOf(S)[o] + DeliveryOf(S)[o]
  OBVIOUS
<1>3. DOMAIN r = S /\ \A o \in S : r[o] = AtLeast(0, e[o])
  <2> SUFFICES ASSUME NEW o \in S PROVE sales[o].bill.total = AtLeast(0, e[o])
    OBVIOUS
  <2> DEFINE b == sales[o].bill
  <2>1. b.total = AtLeast(0, b.subtotal + b.delivery - b.discount)
    BY PlacedRows DEF SaleIsSound
  <2>2. b.subtotal \in Nat /\ b.delivery \in Nat /\ b.discount \in Nat
    BY PlacedRows DEF BillRow
  <2>3. e[o] = (b.subtotal - b.discount) + b.delivery
    BY DEF NetOf, DeliveryOf
  <2> HIDE DEF b, e
  <2>4. e[o] = b.subtotal + b.delivery - b.discount
    BY <2>2, <2>3
  <2> QED
    BY <2>1, <2>4 DEF b
<1>4. (\A o \in S : sales[o].bill.discount <= sales[o].bill.subtotal + sales[o].bill.delivery) => \A o \in S : e[o] >= 0
  <2>1. \A o \in S : /\ sales[o].bill.discount \in Nat /\ sales[o].bill.subtotal \in Nat /\ sales[o].bill.delivery \in Nat
    BY PlacedRows DEF BillRow
  <2>2. \A o \in S : e[o] = (sales[o].bill.subtotal - sales[o].bill.discount) + sales[o].bill.delivery
    BY DEF NetOf, DeliveryOf
  <2> HIDE DEF e
  <2> QED
    BY <2>1, <2>2
<1> HIDE DEF r, e
<1>5. SumFunctionOnSet(e, S) = SumFunctionOnSet(NetOf(S), S) + SumFunctionOnSet(DeliveryOf(S), S)
  BY <1>1, <1>2, SumPlus
<1>6. \A o \in S : r[o] \in Int /\ e[o] <= r[o]
  BY <1>1, <1>3 DEF AtLeast
<1>7. SumFunctionOnSet(e, S) <= SumFunctionOnSet(r, S) /\ SumFunctionOnSet(r, S) \in Int /\ SumFunctionOnSet(e, S) \in Int
  BY <1>1, <1>6, SumLE, SumType
<1>8. (\A o \in S : e[o] >= 0) => SumFunctionOnSet(e, S) = SumFunctionOnSet(r, S)
  <2> SUFFICES ASSUME \A o \in S : e[o] >= 0 PROVE SumFunctionOnSet(e, S) = SumFunctionOnSet(r, S)
    OBVIOUS
  <2>1. \A o \in S : e[o] = r[o]
    BY <1>1, <1>3 DEF AtLeast
  <2> QED
    BY <1>1, <2>1, SumSame
<1>9. SumFunction(r) = SumFunctionOnSet(r, S)
  BY <1>3 DEF SumFunction
<1>10. SumFunction(r) >= SumFunctionOnSet(NetOf(S), S) + SumFunctionOnSet(DeliveryOf(S), S)
  BY <1>5, <1>7, <1>9
<1> QED
  BY <1>4, <1>5, <1>8, <1>9, <1>10 DEF r

\* What the products make of an order's coupon.
LEMMA SharesAgree ==
  ASSUME SalesInv, NEW S, Placed(S), NEW o \in S
  PROVE  LET f == [p \in Products |-> Share(o, p)]
             b == sales[o].bill
         IN  /\ \A p \in Products : Share(o, p) \in Nat /\ Worth(ProductItems(o, p)) \in Nat
             /\ SumFunctionOnSet(f, Products) <= b.discount
             /\ b.discount <= b.subtotal =>
                    /\ b.discount <= SumFunctionOnSet(f, Products) + Cardinality(Products)
                    /\ \A p \in Products : Share(o, p) <= Worth(ProductItems(o, p))
<1> DEFINE f == [p \in Products |-> Share(o, p)]
           w == [p \in Products |-> Worth(ProductItems(o, p))]
           P == [p \in Products |-> ProductItems(o, p)]
           item == [i \in ItemRow |-> i.product]
           items == sales[o].items
           s == sales[o].bill.subtotal
           d == sales[o].bill.discount
<1>1. IsFiniteSet(items) /\ items \in SUBSET ItemRow /\ s \in Nat /\ d \in Nat
  BY PlacedRows DEF BillRow
<1>2. IsFiniteSet(Products) /\ Cardinality(Products) \in Nat
  BY SalesAssumption, FS_CardinalityType
<1>3. \A p \in Products : P[p] = {i \in items : item[i] = p} /\ w[p] = Worth(P[p])
  BY <1>1 DEF ProductItems
<1>4. \A i \in items : ItemWorth[i] \in Int /\ ItemWorth[i] \in Nat /\ item[i] \in Products
  <2>1. \A i \in ItemRow : item[i] \in Products
    BY DEF ItemRow
  <2> HIDE DEF item
  <2> QED
    BY <1>1, <2>1, ItemValues
<1>5. SumFunctionOnSet(ItemWorth, items) = s
  BY PlacedRows DEF SaleIsSound
<1>6. \A p \in Products : /\ Share(o, p) = IF s > 0 THEN (w[p] * d) \div s ELSE 0
                          /\ f[p] = Share(o, p) /\ w[p] = Worth(ProductItems(o, p))
  BY DEF Share
<1> HIDE DEF f, w, P, item, items, s, d
<1>7. \A p \in Products : w[p] = SumFunctionOnSet(ItemWorth, P[p]) /\ w[p] \in Nat
  <2> TAKE p \in Products
  <2>1. P[p] \in SUBSET items /\ P[p] \in SUBSET ItemRow
    BY <1>1, <1>3
  <2>2. IsFiniteSet(P[p])
    BY <1>1, <2>1, FS_Subset
  <2>3. w[p] = SumFunctionOnSet(ItemWorth, P[p])
    BY <1>3, <2>1, <2>2, ItemsSummed
  <2> QED
    BY <1>4, <2>1, <2>2, <2>3, SumType
<1>8. SumFunctionOnSet(w, Products) = s
  <2>1. SumsOfParts(w, ItemWorth, items, Products, item, P)
    BY <1>3, <1>4, <1>7 DEF SumsOfParts
  <2> QED
    BY <1>1, <1>2, <1>5, <2>1, SumPartition
<1>9. /\ \A p \in Products : f[p] \in Nat
      /\ SumFunctionOnSet(f, Products) <= d
      /\ d <= s => /\ d <= SumFunctionOnSet(f, Products) + Cardinality(Products)
                   /\ \A p \in Products : f[p] <= w[p]
  <2>1. CASE s > 0
    <3>1. SharesOf(f, d, w, Products, s)
      BY <1>6, <1>7, <1>8, <2>1 DEF SharesOf
    <3> QED
      BY <1>1, <1>2, <2>1, <3>1, SharesOfWhole
  <2>2. CASE ~(s > 0)
    <3>1. s = 0 /\ \A p \in Products : f[p] = 0
      BY <1>1, <1>6, <2>2
    <3>2. SumFunctionOnSet(f, Products) = 0
      BY <1>2, <3>1, SumZero
    <3> QED
      BY <1>1, <1>2, <1>7, <3>1, <3>2
  <2> QED
    BY <2>1, <2>2
<1> QED
  BY <1>6, <1>7, <1>9 DEF f, s, d

\* What the products earn after the coupons, against the orders.
LEMMA ProductsAgree ==
  ASSUME SalesInv, NEW S, Placed(S)
  PROVE  /\ ProductsEarn(S) >= AtLeast(0, SumFunctionOnSet(NetOf(S), S))
         /\ NoneInExcess(S) =>
                ProductsEarn(S) <= SumFunctionOnSet(NetOf(S), S) + Cardinality(Products) * Cardinality(S)
         /\ ProductsEarn(S) \in Nat /\ Cardinality(Products) * Cardinality(S) \in Nat
<1> DEFINE W == [p \in Products |-> [o \in S |-> Worth(ProductItems(o, p))]]
           A == [p \in Products |-> [o \in S |-> Share(o, p)]]
           F == [o \in S |-> [p \in Products |-> Share(o, p)]]
           gross == [p \in Products |-> ProductRow(S, p).gross]
           net == [p \in Products |-> ProductRow(S, p).net]
           taken == [p \in Products |-> SumFunctionOnSet(A[p], S)]
           diff == [p \in Products |-> gross[p] - taken[p]]
           given == [o \in S |-> SumFunctionOnSet(F[o], Products)]
           C == Cardinality(Products)
           cs == [o \in S |-> C]
           one == [o \in S |-> 1]
           bound == [o \in S |-> given[o] + cs[o]]
<1>1. /\ IsFiniteSet(S) /\ IsFiniteSet(Products)
      /\ Cardinality(S) \in Nat /\ C \in Nat
  BY PlacedValues, SalesAssumption, FS_CardinalityType
<1>2. \A o \in S, p \in Products :
          /\ W[p][o] \in Nat /\ A[p][o] \in Nat /\ F[o][p] = A[p][o]
          /\ sales[o].bill.discount <= sales[o].bill.subtotal => A[p][o] <= W[p][o]
  BY SharesAgree
<1>3. \A o \in S : /\ given[o] <= CouponOf(S)[o]
                   /\ sales[o].bill.discount <= sales[o].bill.subtotal => CouponOf(S)[o] <= bound[o]
  <2> SUFFICES ASSUME NEW o \in S
               PROVE  /\ SumFunctionOnSet(F[o], Products) <= sales[o].bill.discount
                      /\ sales[o].bill.discount <= sales[o].bill.subtotal =>
                            sales[o].bill.discount <= SumFunctionOnSet(F[o], Products) + C
    BY DEF CouponOf
  <2>1. F[o] = [p \in Products |-> Share(o, p)]
    OBVIOUS
  <2> HIDE DEF F
  <2> QED
    BY <2>1, SharesAgree
<1>4. /\ \A p \in Products : gross[p] = SumFunction(W[p]) /\ net[p] = AtLeast(0, SumFunction(W[p]) - SumFunction(A[p]))
      /\ \A p \in Products : DOMAIN W[p] = S /\ DOMAIN A[p] = S
      /\ DOMAIN gross = Products /\ DOMAIN net = Products
  BY DEF ProductRow
<1>5. /\ \A p \in Products : taken[p] = SumFunctionOnSet(A[p], S) /\ diff[p] = gross[p] - taken[p]
      /\ \A o \in S : /\ given[o] = SumFunctionOnSet(F[o], Products) /\ bound[o] = given[o] + cs[o]
                      /\ cs[o] = C * one[o] /\ cs[o] = C /\ one[o] = 1
  BY <1>1
<1>6. ProductsEarn(S) = SumFunctionOnSet(net, Products) /\ SumFunction(gross) = SumFunctionOnSet(gross, Products)
  BY <1>4 DEF ProductsEarn, SumFunction
<1>7. SumFunction(gross) = SumFunctionOnSet(RevenueOf(S), S)
  BY KindsAgree
<1> HIDE DEF W, A, F, gross, net, taken, diff, given, cs, one, bound, C
<1>8. \A p \in Products : /\ gross[p] = SumFunctionOnSet(W[p], S) /\ gross[p] \in Nat
                          /\ taken[p] = SumFunctionOnSet(A[p], S) /\ taken[p] \in Nat
                          /\ net[p] = AtLeast(0, gross[p] - taken[p])
  <2> TAKE p \in Products
  <2>1. SumFunction(W[p]) = SumFunctionOnSet(W[p], S) /\ SumFunction(A[p]) = SumFunctionOnSet(A[p], S)
    BY <1>4 DEF SumFunction
  <2>2. SumFunctionOnSet(W[p], S) \in Nat /\ SumFunctionOnSet(A[p], S) \in Nat
    <3>1. \A o \in S : W[p][o] \in Nat /\ A[p][o] \in Nat
      BY <1>2
    <3> QED
      BY <1>1, <3>1, SumType
  <2> QED
    BY <1>4, <1>5, <2>1, <2>2
<1>9. \A p \in Products : /\ gross[p] \in Int /\ taken[p] \in Int /\ diff[p] \in Int /\ net[p] \in Nat /\ net[p] \in Int
                          /\ gross[p] = diff[p] + taken[p] /\ diff[p] <= net[p]
                          /\ taken[p] <= gross[p] => net[p] = diff[p]
  BY <1>5, <1>8 DEF AtLeast
<1>10. \A o \in S : given[o] \in Int /\ cs[o] \in Int /\ one[o] \in Int /\ bound[o] \in Int /\ CouponOf(S)[o] \in Int
  <2> TAKE o \in S
  <2>1. \A p \in Products : F[o][p] \in Int
    BY <1>2
  <2>2. SumFunctionOnSet(F[o], Products) \in Int
    BY <1>1, <2>1, SumType
  <2>3. CouponOf(S)[o] \in Nat
    BY PlacedValues
  <2> QED
    BY <1>1, <1>5, <2>2, <2>3
<1> DEFINE Gross == SumFunctionOnSet(gross, Products)
           Taken == SumFunctionOnSet(taken, Products)
           Diff == SumFunctionOnSet(diff, Products)
           Net == SumFunctionOnSet(net, Products)
           Reductions == SumFunctionOnSet(CouponOf(S), S)
           Earned == SumFunctionOnSet(NetOf(S), S)
           n == Cardinality(S)
<1>11. Taken = SumFunctionOnSet(given, S)
  <2>1. SumsOfTable(given, taken, F, A, S, Products)
    <3>1. \A o \in S, p \in Products : F[o][p] \in Int /\ A[p][o] = F[o][p]
      BY <1>2
    <3> QED
      BY <1>5, <3>1 DEF SumsOfTable
  <2> QED
    BY <1>1, <2>1, SumSwap
<1>12. Gross = Diff + Taken
  BY <1>1, <1>9, SumPlus
<1>13. Diff <= Net /\ Net \in Nat /\ Diff \in Int /\ Taken \in Int /\ Gross \in Int
  BY <1>1, <1>9, SumLE, SumType
<1>14. SumFunctionOnSet(given, S) <= Reductions
  BY <1>1, <1>3, <1>10, SumLE
<1>15. Gross = SumFunctionOnSet(SubtotalOf(S), S) /\ Earned = Gross - Reductions /\ Reductions \in Nat
  BY <1>6, <1>7, OrdersAgree
<1>16. SumFunctionOnSet(bound, S) = SumFunctionOnSet(given, S) + C * n
  <2>1. SumFunctionOnSet(bound, S) = SumFunctionOnSet(given, S) + SumFunctionOnSet(cs, S)
    BY <1>1, <1>5, <1>10, SumPlus
  <2>2. SumFunctionOnSet(one, S) = n
    BY <1>1, <1>5, SumOnes
  <2>3. C \in Int
    BY <1>1
  <2>4. SumFunctionOnSet(cs, S) = C * SumFunctionOnSet(one, S)
    BY <1>1, <1>5, <1>10, <2>3, SumScale
  <2> QED
    BY <2>1, <2>2, <2>4
<1>17. ASSUME NoneInExcess(S) PROVE Net = Diff /\ Reductions <= Taken + C * n
  <2>1. \A o \in S : sales[o].bill.discount <= sales[o].bill.subtotal
    BY <1>17 DEF NoneInExcess
  <2>2. \A p \in Products : taken[p] <= gross[p]
    <3> TAKE p \in Products
    <3>1. \A o \in S : A[p][o] \in Int /\ W[p][o] \in Int /\ A[p][o] <= W[p][o]
      BY <1>2, <2>1
    <3>2. SumFunctionOnSet(A[p], S) <= SumFunctionOnSet(W[p], S)
      BY <1>1, <3>1, SumLE
    <3> QED
      BY <1>8, <3>2
  <2>3. Net = Diff
    <3>1. \A p \in Products : net[p] = diff[p]
      BY <1>9, <2>2
    <3> QED
      BY <1>1, <1>9, <3>1, SumSame
  <2>4. Reductions <= SumFunctionOnSet(bound, S)
    BY <1>1, <1>3, <1>10, <2>1, SumLE
  <2> QED
    BY <1>11, <1>16, <2>3, <2>4
<1> HIDE DEF Gross, Taken, Diff, Net, Reductions, Earned, n
<1>18. Net >= AtLeast(0, Earned)
  BY <1>11, <1>12, <1>13, <1>14, <1>15 DEF AtLeast
<1>19. NoneInExcess(S) => Net <= Earned + C * n
  <2>1. \A a, b \in Nat : a * b \in Nat
    OBVIOUS
  <2>2. C * n \in Int
    BY <1>1, <2>1 DEF n
  <2> DEFINE c == C * n
  <2> HIDE DEF c
  <2>3. c \in Int /\ (NoneInExcess(S) => Net = Diff /\ Reductions <= Taken + c)
    BY <1>17, <2>2 DEF c
  <2>4. NoneInExcess(S) => Net <= Earned + c
    BY <1>12, <1>13, <1>15, <2>3
  <2> QED
    BY <2>4 DEF c
<1>20. Cardinality(Products) * Cardinality(S) \in Nat
  <2>1. \A a, b \in Nat : a * b \in Nat
    OBVIOUS
  <2> QED
    BY <1>1, <2>1 DEF C
<1> QED
  BY <1>6, <1>13, <1>18, <1>19, <1>20 DEF Net, Earned, C, n

\* The list of categories by name.
LEMMA NamesAgree ==
  ASSUME SalesInv, NEW T \in TopLists
  PROVE  LET S == InScope("ACTIVE_ALL")
             listed == SumFunction([n \in T |-> SoldAs(n)])
             gross == SumFunctionOnSet(RevenueOf(S), S)
         IN  listed <= gross /\ (Cardinality(SoldNames) <= TopSize => listed = gross)
<1> DEFINE S == InScope("ACTIVE_ALL")
           name == [i \in ItemRow |-> NameOf[i.category]]
           a == [n \in CategoryNames |-> [o \in S |-> Worth(NamedItems(o, n))]]
           r == [n \in CategoryNames |-> SoldAs(n)]
           t == [n \in T |-> SoldAs(n)]
           gross == SumFunctionOnSet(RevenueOf(S), S)
<1>1. Placed(S)
  BY DEF InScope, Placed
<1>2. \A o \in S : IsFiniteSet(sales[o].items) /\ sales[o].items \in SUBSET ItemRow
  BY <1>1, PlacedRows
<1>3. \A i \in ItemRow : name[i] \in CategoryNames /\ ItemWorth[i] \in Int
  <2>1. \A i \in ItemRow : name[i] \in CategoryNames
    BY DEF ItemRow, CategoryNames
  <2> HIDE DEF name
  <2> QED
    BY <2>1, ItemValues
<1>4. /\ SoldNames \subseteq CategoryNames /\ T \subseteq SoldNames /\ TopSize \in Nat
      /\ Cardinality(T) = AtMost(TopSize, Cardinality(SoldNames))
  BY SalesAssumption DEF TopLists, SoldNames
<1>5. IsFiniteSet(CategoryNames) /\ IsFiniteSet(SoldNames) /\ Cardinality(SoldNames) \in Nat
  <2>1. IsFiniteSet(CategoryNames)
    BY SalesAssumption, ImageIsFinite DEF CategoryNames
  <2> QED
    BY <1>4, <2>1, FS_Subset, FS_CardinalityType
<1>6. ASSUME NEW n \in CategoryNames, NEW o \in S
      PROVE  /\ NamedItems(o, n) = {i \in sales[o].items : name[i] = n}
             /\ Worth(NamedItems(o, n)) = SumFunctionOnSet(ItemWorth, NamedItems(o, n))
             /\ SumFunctionOnSet(ItemWorth, NamedItems(o, n)) \in Nat
             /\ NamedItems(o, n) = {} => Worth(NamedItems(o, n)) = 0
  <2>1. NamedItems(o, n) = {i \in sales[o].items : name[i] = n}
    BY <1>2 DEF NamedItems
  <2>2. NamedItems(o, n) \in SUBSET ItemRow /\ IsFiniteSet(NamedItems(o, n))
    BY <1>2, FS_Subset DEF NamedItems
  <2>3. Worth(NamedItems(o, n)) = SumFunctionOnSet(ItemWorth, NamedItems(o, n))
    BY <2>2, ItemsSummed
  <2>4. SumFunctionOnSet(ItemWorth, NamedItems(o, n)) \in Nat
    <3>1. \A i \in NamedItems(o, n) : ItemWorth[i] \in Nat
      BY <2>2, ItemValues
    <3> QED
      BY <2>2, <3>1, SumType
  <2>5. NamedItems(o, n) = {} => SumFunctionOnSet(ItemWorth, NamedItems(o, n)) = 0
    <3> SUFFICES ASSUME NamedItems(o, n) = {} PROVE SumFunctionOnSet(ItemWorth, NamedItems(o, n)) = 0
      OBVIOUS
    <3>1. \A i \in NamedItems(o, n) : ItemWorth[i] = 0
      OBVIOUS
    <3> QED
      BY <2>2, <3>1, SumZero
  <2> QED
    BY <2>1, <2>3, <2>4, <2>5
<1>7. \A n \in CategoryNames : /\ r[n] = SumFunctionOnSet(a[n], S) /\ DOMAIN a[n] = S
                       /\ \A o \in S : a[n][o] = Worth(NamedItems(o, n))
  <2> TAKE n \in CategoryNames
  <2>1. r[n] = SumFunction(a[n]) /\ DOMAIN a[n] = S
    BY DEF SoldAs
  <2>2. \A o \in S : a[n][o] = Worth(NamedItems(o, n))
    OBVIOUS
  <2> HIDE DEF a, r
  <2> QED
    BY <2>1, <2>2 DEF SumFunction
<1>8. DOMAIN t = T /\ \A n \in T : t[n] = r[n]
  BY <1>4
<1>9. IsFiniteSet(S)
  BY <1>1, PlacedValues
<1>10. \A o \in S : RevenueOf(S)[o] = SumFunctionOnSet(ItemWorth, sales[o].items)
  BY <1>1, PlacedValues
<1>11. \A n \in CategoryNames \ SoldNames : \A o \in S : NamedItems(o, n) = {}
  BY DEF SoldNames
<1> HIDE DEF S, name, a, r, t
<1>12. SumFunctionOnSet(r, CategoryNames) = gross
  <2>1. \A n \in CategoryNames, o \in S : a[n][o] = SumFunctionOnSet(ItemWorth, {i \in sales[o].items : name[i] = n})
    BY <1>6, <1>7
  <2>2. SumsOfItems(RevenueOf(S), r, ItemWorth, a, S, CategoryNames, name)
    BY <1>3, <1>7, <1>10, <2>1 DEF SumsOfItems
  <2> QED
    BY <1>1, <1>5, <2>2, SplitByKind
<1>13. \A n \in CategoryNames : r[n] \in Nat /\ r[n] \in Int
  <2> TAKE n \in CategoryNames
  <2>1. \A o \in S : a[n][o] \in Nat
    BY <1>6, <1>7
  <2> QED
    BY <1>7, <1>9, <2>1, SumType
<1>14. \A n \in CategoryNames \ SoldNames : r[n] = 0
  <2> TAKE n \in CategoryNames \ SoldNames
  <2>1. \A o \in S : a[n][o] = 0
    BY <1>6, <1>7, <1>11
  <2> QED
    BY <1>7, <1>9, <2>1, SumZero
<1>15. /\ T \in SUBSET CategoryNames /\ IsFiniteSet(T) /\ IsFiniteSet(CategoryNames \ T)
       /\ SumFunctionOnSet(r, CategoryNames) = SumFunctionOnSet(r, T) + SumFunctionOnSet(r, CategoryNames \ T)
  <2>1. T \in SUBSET CategoryNames /\ CategoryNames \ T \in SUBSET CategoryNames
    BY <1>4
  <2> QED
    BY <1>5, <1>13, <2>1, FS_Subset, SumSubset
<1>16. SumFunctionOnSet(r, T) \in Nat /\ SumFunctionOnSet(r, CategoryNames \ T) \in Nat
  BY <1>13, <1>15, SumType
<1>17. SumFunction(t) = SumFunctionOnSet(r, T)
  <2>1. SumFunction(t) = SumFunctionOnSet(t, T)
    BY <1>8 DEF SumFunction
  <2>2. SumFunctionOnSet(t, T) = SumFunctionOnSet(r, T)
    BY <1>8, <1>15, SumSame
  <2> QED
    BY <2>1, <2>2
<1>18. Cardinality(SoldNames) <= TopSize => SumFunctionOnSet(r, CategoryNames \ T) = 0
  <2> SUFFICES ASSUME Cardinality(SoldNames) <= TopSize PROVE SumFunctionOnSet(r, CategoryNames \ T) = 0
    OBVIOUS
  <2>1. Cardinality(T) = Cardinality(SoldNames)
    BY <1>4, <1>5 DEF AtMost
  <2>2. T = SoldNames
    BY <1>4, <1>5, <2>1, FS_Subset
  <2> QED
    BY <1>14, <1>15, <2>2, SumZero
<1>19. SumFunction(t) <= gross /\ (Cardinality(SoldNames) <= TopSize => SumFunction(t) = gross)
  <2> HIDE DEF gross
  <2> QED
    BY <1>12, <1>15, <1>16, <1>17, <1>18
<1> QED
  BY <1>19 DEF t, S

\* The views of one scope.
LEMMA SummaryIs ==
  ASSUME SalesInv, NEW S, Placed(S)
  PROVE  LET sub == SumFunctionOnSet(SubtotalOf(S), S)
             rev == SumFunctionOnSet(RevenueOf(S), S)
             net == AtLeast(0, sub - SumFunctionOnSet(CouponOf(S), S))
             cogs == SumFunctionOnSet(CogsOf(S), S)
         IN  Summary(S) = [orders |-> Cardinality(S), gross |-> rev, productDiscount |-> AtLeast(0, rev - sub),
                           net |-> net, cogs |-> cogs,
                           profit |-> net - cogs + SumFunctionOnSet(DeliveryOf(S), S)]
<1>1. /\ SumFunction([o \in S |-> sales[o].bill.subtotal]) = SumFunctionOnSet(SubtotalOf(S), S)
      /\ SumFunction([o \in S |-> sales[o].bill.discount]) = SumFunctionOnSet(CouponOf(S), S)
      /\ SumFunction([o \in S |-> sales[o].bill.delivery]) = SumFunctionOnSet(DeliveryOf(S), S)
      /\ SumFunction([o \in S |-> Revenue(o)]) = SumFunctionOnSet(RevenueOf(S), S)
      /\ SumFunction([o \in S |-> Cogs(o)]) = SumFunctionOnSet(CogsOf(S), S)
  BY DEF SumFunction, SubtotalOf, CouponOf, DeliveryOf, RevenueOf, CogsOf
<1> QED
  BY <1>1 DEF Summary

LEMMA DashboardFollows ==
  ASSUME SalesInv
  PROVE  DashboardAgrees
<1> DEFINE S == ThisYears
           A == InScope("ACTIVE_ALL")
           net == SumFunctionOnSet(NetOf(S), S)
           fees == SumFunctionOnSet(DeliveryOf(S), S)
<1>1. Placed(S) /\ Placed(A)
  BY DEF ThisYears, InScope, Placed
<1>2. SumFunction([d \in Days |-> TrendRow(S, d).net]) = net
  BY <1>1, DaysAgree
<1>3. SumFunction([o \in S |-> sales[o].bill.delivery]) = fees
  BY DEF SumFunction, DeliveryOf
<1>4. /\ DashboardSales >= net + fees
      /\ (\A o \in S : sales[o].bill.discount <= sales[o].bill.subtotal + sales[o].bill.delivery) =>
             DashboardSales = net + fees
  BY <1>1, TotalsAgree DEF DashboardSales
<1>5. Summary(A).gross = SumFunctionOnSet(RevenueOf(A), A)
  BY <1>1, SummaryIs
<1>6. \A T \in TopLists :
          /\ SumFunction([n \in T |-> SoldAs(n)]) <= Summary(A).gross
          /\ Cardinality(SoldNames) <= TopSize => SumFunction([n \in T |-> SoldAs(n)]) = Summary(A).gross
  BY <1>5, NamesAgree
<1> HIDE DEF net, fees
<1> QED
  BY <1>2, <1>3, <1>4, <1>6, Zenon DEF DashboardAgrees

LEMMA ReportsFollow ==
  ASSUME SalesInv
  PROVE  EarningsAgree
<1> SUFFICES ASSUME NEW scope \in Scopes
             PROVE  LET S == InScope(scope)
                        sum == Summary(S)
                        days == SumFunction([d \in Days |-> TrendRow(S, d).net])
                    IN /\ sum.net = AtLeast(0, days)
                       /\ sum.orders = SumFunction([d \in Days |-> TrendRow(S, d).orders])
                       /\ days >= 0 => sum.profit = SumFunction([d \in Days |-> TrendRow(S, d).profit])
                       /\ SumFunction([c \in Categories |-> CategoryRow(S, c).net]) = sum.gross
                       /\ SumFunction([p \in Products |-> ProductRow(S, p).gross]) = sum.gross
                       /\ SumFunction([c \in Categories |-> CategoryRow(S, c).cogs]) = sum.cogs
                       /\ sum.productDiscount = 0
                       /\ SumFunction([o \in S |-> OrderRow(o).net]) >= sum.net
                       /\ ProductsEarn(S) >= sum.net
                       /\ NoneInExcess(S) => ProductsEarn(S) <= sum.net + Cardinality(Products) * Cardinality(S)
  BY DashboardFollows DEF EarningsAgree
<1> DEFINE S == InScope(scope)
           days == SumFunction([d \in Days |-> TrendRow(S, d).net])
           sub == SumFunctionOnSet(SubtotalOf(S), S)
           coupons == SumFunctionOnSet(CouponOf(S), S)
           net == SumFunctionOnSet(NetOf(S), S)
           cogs == SumFunctionOnSet(CogsOf(S), S)
           fees == SumFunctionOnSet(DeliveryOf(S), S)
           slack == Cardinality(Products) * Cardinality(S)
<1>1. Placed(S)
  BY DEF InScope, Placed
<1>2. /\ Summary(S).orders = Cardinality(S)
      /\ Summary(S).gross = SumFunctionOnSet(RevenueOf(S), S)
      /\ Summary(S).productDiscount = AtLeast(0, SumFunctionOnSet(RevenueOf(S), S) - sub)
      /\ Summary(S).net = AtLeast(0, sub - coupons)
      /\ Summary(S).cogs = cogs
      /\ Summary(S).profit = AtLeast(0, sub - coupons) - cogs + fees
  BY <1>1, SummaryIs
<1>3. /\ days = net
      /\ SumFunction([d \in Days |-> TrendRow(S, d).orders]) = Cardinality(S)
      /\ SumFunction([d \in Days |-> TrendRow(S, d).profit]) = SumFunctionOnSet(ProfitOf(S), S)
  BY <1>1, DaysAgree
<1>4. /\ SumFunctionOnSet(RevenueOf(S), S) = sub /\ net = sub - coupons
      /\ SumFunctionOnSet(ProfitOf(S), S) = net - cogs + fees
      /\ sub \in Nat /\ coupons \in Nat /\ cogs \in Nat /\ fees \in Nat /\ net \in Int
  BY <1>1, OrdersAgree
<1>5. /\ SumFunction([c \in Categories |-> CategoryRow(S, c).net]) = SumFunctionOnSet(RevenueOf(S), S)
      /\ SumFunction([c \in Categories |-> CategoryRow(S, c).cogs]) = cogs
      /\ SumFunction([p \in Products |-> ProductRow(S, p).gross]) = SumFunctionOnSet(RevenueOf(S), S)
  BY <1>1, KindsAgree
<1>6. SumFunction([o \in S |-> OrderRow(o).net]) >= AtLeast(0, net)
  BY <1>1, ListAgrees
<1>7. /\ ProductsEarn(S) >= AtLeast(0, net)
      /\ NoneInExcess(S) => ProductsEarn(S) <= net + slack
  BY <1>1, ProductsAgree
<1>8. ProductsEarn(S) \in Int /\ slack \in Int
  BY <1>1, ProductsAgree
<1> HIDE DEF S, days, sub, coupons, net, cogs, fees, slack
<1>9. Summary(S).net = AtLeast(0, days) /\ Summary(S).orders = SumFunction([d \in Days |-> TrendRow(S, d).orders])
  BY <1>2, <1>3, <1>4
<1>10. days >= 0 => Summary(S).profit = SumFunction([d \in Days |-> TrendRow(S, d).profit])
  BY <1>2, <1>3, <1>4 DEF AtLeast
<1>11. Summary(S).productDiscount = 0
  BY <1>2, <1>4 DEF AtLeast
<1>12. SumFunction([o \in S |-> OrderRow(o).net]) >= Summary(S).net /\ ProductsEarn(S) >= Summary(S).net
  BY <1>2, <1>4, <1>6, <1>7
<1>13. NoneInExcess(S) => ProductsEarn(S) <= Summary(S).net + slack
  <2>1. Summary(S).net = AtLeast(0, net)
    BY <1>2, <1>4
  <2> QED
    BY <1>4, <1>7, <1>8, <2>1 DEF AtLeast
<1> QED
  BY <1>2, <1>5, <1>9, <1>10, <1>11, <1>12, <1>13 DEF S, days, slack

LEMMA PricesFollow ==
  ASSUME SalesInv
  PROVE  CartSumsAgree
<1>1. GoodsAreTyped
  BY DEF SalesInv
<1> QED
  BY <1>1, PreviewAgrees, CardSuffices, ListingAgrees DEF CartSumsAgree

LEMMA SalesInvariance == SalesSpec => []SalesInv
<1> QED
  BY SalesStart, SalesStay, PTL DEF SalesSpec

----------------------------------------------------------------------------
(* Catalogue.  A call has met every call that it was in flight with, so a    *)
(* key that it looked for, and did not find, is only held by calls it met    *)
(* (KeysApart): slugs, entries, a customer's review, a gallery.              *)

Stages == {"none", "live", "deleted"}
Anyone == Edits \cup {Nobody}
Names == {"none"} \cup {job.name : job \in Jobs}
Slugs == Names \X Nat
Users == {"none"} \cup {job.user : job \in Jobs}
Tables == {"none"} \cup {job.table : job \in Jobs}
AllJobs == Jobs \cup {[op |-> "none"]} \cup [op : {"review"}, user : Users, stars : Nat, found : Anyone]

ProductRecord == [st : Stages, slug : Slugs, named : Anyone, rating : Nat, rated : Anyone]
PictureRecord == [product : Edits, by : Edits, picture : Nat]
ReviewRecord == [st : Stages, product : Anyone, user : Users, stars : Nat]
CommentRecord == [st : Stages, product : Anyone, parent : Anyone, shown : BOOLEAN]
EntryRecord == [st : Stages, table : Tables, slug : Names, named : SUBSET Edits]
EditPlaces == {"new", "insert", "clear", "pictures", "failed", "save", "write", "average", "rate", "enter", "rename",
               "done"}
EditRecord == [pc : EditPlaces, job : AllJobs, row : Anyone, slug : Slugs, value : Nat, claims : SUBSET Edits]

RowTypes ==
    /\ product \in [Edits -> ProductRecord] /\ gallery \subseteq PictureRecord
    /\ review \in [Edits -> ReviewRecord] /\ comment \in [Edits -> CommentRecord]
    /\ entry \in [Edits -> EntryRecord] /\ edit \in [Edits -> EditRecord]

\* Where a call can be with its job, and what rows there can be by then.
CallsAreAt ==
    \A k \in Edits :
        LET e == edit[k] IN
        /\ e.pc = "insert" => e.job.op = "create" /\ e.row = k
        /\ e.pc \in {"clear", "save"} => e.job.op = "update"
        /\ e.pc \in {"pictures", "failed"} => e.job.op = "update" \/ e.job.op = "create"
        /\ e.pc \in {"clear", "pictures", "failed", "save"} => e.row \in Edits /\ product[e.row].st # "none"
        /\ e.pc \in {"write", "average", "rate"} => e.job.op = "review" /\ e.row \in Edits
        /\ e.pc = "enter" => e.job.op = "enter" /\ e.row = k
        /\ e.pc = "rename" => e.job.op = "rename" /\ e.row \in Edits
        /\ e.pc = "new" => e.job.op = "none"
        /\ e.pc # "new" => k \in e.claims
        /\ e.job.op = "unreview" => e.row \in Edits /\ review[e.row].st # "none"
        /\ product[k].st # "none" => e.pc \notin {"new", "insert"}
        /\ review[k].st # "none" => e.pc \in {"average", "rate", "done"}
        /\ comment[k].st # "none" => e.pc = "done"
FoundReviews ==
    \A k \in Edits : edit[k].pc = "write" =>
        \/ edit[k].job.found = Nobody
        \/ /\ edit[k].job.found \in Edits \ {k} /\ review[edit[k].job.found].st # "none"
           /\ review[edit[k].job.found].product = edit[k].row
PicturesOfProducts == \A g \in gallery : product[g.product].st # "none"
ParentsBelong ==
    \A r \in Edits : comment[r].st # "none" /\ comment[r].parent # Nobody =>
        /\ comment[r].parent \in Edits /\ comment[comment[r].parent].st # "none"
        /\ comment[comment[r].parent].product = comment[r].product

BusyHaveMet == \A j, k \in Busy : Met(j, k)

\* Rows L with keys; by are the calls that gave a row its key.  The calls P want keys,
\* have each a row of their own at most, and claim a key with those that had given it
\* to their own row.
HaveMet(j, k, pairs) == j = k \/ {j, k} \in pairs
SomeMet(J, K, pairs) == \E j \in J, k \in K : HaveMet(j, k, pairs)
KeysApart(L, key, by, P, want, own, claims, pairs) ==
    /\ \A p, q \in L : key[p] = key[q] => SomeMet(by[p], by[q], pairs)
    /\ \A k \in P : \A q \in L \ own[k] : key[q] = want[k] => SomeMet(claims[k], by[q], pairs)

LiveProducts == {p \in Edits : product[p].st = "live"}
Naming == {k \in Edits : \/ edit[k].pc = "insert"
                         \/ /\ edit[k].pc \in {"clear", "pictures", "save"}
                            /\ edit[k].job.op = "update" /\ edit[k].job.name # "none"}
SlugsApart == KeysApart(LiveProducts, [p \in Edits |-> product[p].slug], [p \in Edits |-> {product[p].named}],
                        Naming, [k \in Edits |-> edit[k].slug], [k \in Edits |-> {edit[k].row}],
                        [k \in Edits |-> {k}], together)

LiveEntries == {e \in Edits : entry[e].st = "live" /\ entry[e].table # "role"}
Entering == {k \in Edits : edit[k].pc \in {"enter", "rename"} /\ edit[k].job.table # "role"}
EntriesApart == KeysApart(LiveEntries, [e \in Edits |-> <<entry[e].table, entry[e].slug>>],
                          [e \in Edits |-> entry[e].named], Entering,
                          [k \in Edits |-> <<edit[k].job.table, edit[k].job.name>>],
                          [k \in Edits |-> {edit[k].row}], [k \in Edits |-> edit[k].claims], together)

LiveReviews == {r \in Edits : review[r].st = "live"}
Reviewing == {k \in Edits : edit[k].pc = "write" /\ edit[k].job.found = Nobody}
ReviewsApart == KeysApart(LiveReviews, [r \in Edits |-> <<review[r].product, review[r].user>>],
                          [r \in Edits |-> {r}], Reviewing,
                          [k \in Edits |-> <<edit[k].row, edit[k].job.user>>], [k \in Edits |-> {}],
                          [k \in Edits |-> {k}], together)

Picturing == {k \in Edits : edit[k].pc \in {"pictures", "failed"}}
PicturesApart == KeysApart(gallery, [g \in PictureRecord |-> g.product], [g \in PictureRecord |-> {g.by}],
                           Picturing, [k \in Edits |-> edit[k].row], [k \in Edits |-> {}],
                           [k \in Edits |-> {k}], together)

\* The rating that j computed for p is the average, or another call that changed reviews
\* of p has met j, or wrote one since and is about to compute it.
Disturbed(j, p) == \E k \in Edits \ {j} : ChangesReviewsOf(k, p) /\ Met(k, j)
AboutToRate(j, p) == \E k \in Edits \ {j} : edit[k].row = p /\ edit[k].pc \in {"average", "rate"}
RatingsFollow ==
    /\ \A j, p \in Edits : edit[j].pc = "rate" /\ edit[j].row = p =>
           \/ Disturbed(j, p)
           \/ ReviewsOf(p) # {} /\ edit[j].value = Average(StarsOf(p))
    /\ \A j, p \in Edits : product[p].rated = j =>
           /\ edit[j].pc = "done"
           /\ \/ Disturbed(j, p)
              \/ /\ ReviewsOf(p) # {}
                 /\ AboutToRate(j, p) \/ product[p].rating = Average(StarsOf(p))

CatalogueInv ==
    /\ RowTypes /\ CallsAreAt /\ FoundReviews /\ PicturesOfProducts /\ ParentsBelong /\ BusyHaveMet
    /\ SlugsApart /\ EntriesApart /\ ReviewsApart /\ PicturesApart /\ RatingsFollow

\* What one call does: it begins one of its jobs, or goes on.
LooksUp(k, job) ==
    \/ CreateProduct(k, job) \/ UpdateProduct(k, job) \/ Review(k, job)
    \/ CreateEntry(k, job) \/ RenameEntry(k, job)
WritesAtOnce(k, job) ==
    \/ RemoveProduct(k, job) \/ RemoveReview(k, job) \/ Comment(k, job) \/ Moderate(k, job)
    \/ RemoveEntry(k, job)
GoesOn(k) ==
    \/ InsertProduct(k) \/ ClearGallery(k) \/ AddPicture(k) \/ PicturesDone(k) \/ SaveProduct(k)
    \/ WriteReview(k) \/ ReadAverage(k) \/ WriteRating(k) \/ WriteEntry(k) \/ EditFails(k)
StepOf(k, job) ==
    \/ edit[k].pc = "new" /\ job \in Jobs /\ (LooksUp(k, job) \/ WritesAtOnce(k, job))
    \/ GoesOn(k)

LEMMA StepsAreOfCalls ==
  ASSUME CatalogueNext
  PROVE  \E k \in Edits : \E job : StepOf(k, job)
BY DEF CatalogueNext, StepOf, LooksUp, WritesAtOnce, GoesOn, ProductCalls, ReviewCalls, CommentCalls, EntryCalls,
   MainCategoryCalls, FirstCategoryCalls, SecondCategoryCalls, RoleCalls

\* The slug that generateUniqueSlug chooses is no other product's: of as many counters
\* as there are rows, and one more, one is free.
LEMMA SlugIsFree ==
  ASSUME NEW name, NEW self
  PROVE  /\ \E n \in Nat : UniqueSlug(name, self) = <<name, n>>
         /\ \A p \in Edits \ {self} : InStock(p) => product[p].slug # UniqueSlug(name, self)
<1> DEFINE N == Cardinality(Edits)
           Taken(n) == \E p \in Edits \ {self} : InStock(p) /\ product[p].slug = <<name, n>>
           F == {n \in 1 .. N + 1 : \A p \in Edits \ {self} : InStock(p) => product[p].slug # <<name, n>>}
<1>1. N \in Nat
  BY CatalogueAssumption, FS_CardinalityType
<1>2. F # {}
  <2> SUFFICES ASSUME F = {} PROVE FALSE
    OBVIOUS
  <2> DEFINE f == [p \in Edits |-> product[p].slug[2]]
             T == {f[p] : p \in Edits}
  <2>1. 1 .. N + 1 \subseteq T
    <3> SUFFICES ASSUME NEW n \in 1 .. N + 1 PROVE n \in T
      OBVIOUS
    <3>1. PICK p \in Edits : product[p].slug = <<name, n>>
      OBVIOUS
    <3> QED
      BY <3>1
  <2>2. f \in Surjection(Edits, T)
    BY DEF Surjection
  <2> HIDE DEF f, T, F
  <2>3. IsFiniteSet(T) /\ Cardinality(T) <= N
    BY <2>2, CatalogueAssumption, FS_Surjection
  <2>4. Cardinality(1 .. N + 1) <= Cardinality(T)
    BY <2>1, <2>3, FS_Subset
  <2>5. Cardinality(1 .. N + 1) = N + 1
    BY <1>1, FS_Interval
  <2>6. Cardinality(T) \in Nat
    BY <2>3, FS_CardinalityType
  <2> QED
    BY <1>1, <2>3, <2>4, <2>5, <2>6
<1>3. F \in SUBSET Nat
  BY <1>1
<1> HIDE DEF F
<1>4. PICK n \in F : \A m \in F : n <= m
  <2> DEFINE id == [n \in 1 .. N + 1 |-> n]
  <2>1. IsFiniteSet(1 .. N + 1) /\ F \in SUBSET (1 .. N + 1) /\ id \in [1 .. N + 1 -> Int]
    BY <1>1, FS_Interval DEF F
  <2>2. \E n \in F : \A m \in F : id[n] <= id[m]
    <3> HIDE DEF id
    <3> QED
      BY <1>2, <2>1, LeastBy
  <2> QED
    BY <2>1, <2>2
<1>5. Min(F) \in F
  BY <1>4 DEF Min
<1>6. UniqueSlug(name, self) = <<name, Min(F)>>
  BY DEF UniqueSlug, F
<1> QED
  BY <1>3, <1>5, <1>6 DEF F

\* What every step has in common: the other calls stay where they are, the call has met
\* the busy ones, and once it has begun its job, its row and its slug are fixed.
Moves(k) ==
    /\ \A j \in Edits \ {k} : edit'[j] = edit[j]
    /\ edit'[k].pc # "new" /\ together \subseteq together'
    /\ \A j \in Busy : HaveMet(k, j, together') /\ HaveMet(j, k, together')
    /\ \/ /\ edit[k].pc = "new" /\ edit'[k].value = 0
       \/ /\ k \in Busy /\ together' = together /\ edit'[k].claims = edit[k].claims
          /\ edit'[k].job = edit[k].job /\ edit'[k].row = edit[k].row /\ edit'[k].slug = edit[k].slug

LEMMA AllMove ==
  ASSUME RowTypes, BusyHaveMet, NEW k \in Edits, NEW job, StepOf(k, job)
  PROVE  Moves(k) /\ BusyHaveMet'
<1>1. edit \in [Edits -> EditRecord] /\ edit[k] \in EditRecord
  BY DEF RowTypes
<1>2. ASSUME NEW e, edit[k].pc = "new", edit' = [edit EXCEPT ![k] = e], e.pc # "new", e.value = 0,
             together' = together \cup {{j, k} : j \in Busy}
      PROVE  Moves(k) /\ BusyHaveMet'
  <2>1. edit'[k] = e /\ \A j \in Edits \ {k} : edit'[j] = edit[j]
    BY <1>1, <1>2
  <2>2. \A j \in Busy : {j, k} \in together' /\ {k, j} \in together'
    BY <1>2
  <2>3. Busy' \subseteq Busy \cup {k}
    BY <2>1 DEF Busy
  <2>4. Moves(k)
    BY <1>2, <2>1, <2>2 DEF Moves, HaveMet
  <2> QED
    BY <1>2, <2>2, <2>3, <2>4 DEF BusyHaveMet, Met
<1>3. ASSUME NEW e, k \in Busy, edit' = [edit EXCEPT ![k] = e], e.pc # "new", together' = together,
             e.job = edit[k].job, e.row = edit[k].row, e.slug = edit[k].slug, e.claims = edit[k].claims
      PROVE  Moves(k) /\ BusyHaveMet'
  <2>1. edit'[k] = e /\ \A j \in Edits \ {k} : edit'[j] = edit[j]
    BY <1>1, <1>3
  <2>2. Busy' \subseteq Busy
    BY <1>3, <2>1 DEF Busy
  <2>3. \A j \in Busy : Met(j, k) /\ Met(k, j)
    BY <1>3 DEF BusyHaveMet
  <2>4. Moves(k)
    BY <1>3, <2>1, <2>3 DEF Moves, HaveMet, Met
  <2> QED
    BY <1>3, <2>2, <2>4 DEF BusyHaveMet, Met
<1>4. CASE edit[k].pc = "new" /\ job \in Jobs /\ (LooksUp(k, job) \/ WritesAtOnce(k, job))
  <2>1. ASSUME NEW pc, NEW row, NEW slug, NEW claims, BeginsAs(k, pc, job, row, slug, claims), pc # "new"
        PROVE  Moves(k) /\ BusyHaveMet'
    <3> DEFINE e == [pc |-> pc, job |-> job, row |-> row, slug |-> slug, value |-> 0, claims |-> claims]
    <3>1. e.pc = pc /\ e.value = 0
      OBVIOUS
    <3>2. /\ edit[k].pc = "new" /\ edit' = [edit EXCEPT ![k] = e]
          /\ together' = together \cup {{j, k} : j \in Busy}
      BY <2>1 DEF BeginsAs
    <3> HIDE DEF e
    <3> QED
      BY <1>2, <2>1, <3>1, <3>2
  <2>2. CASE \E p \in Edits, found \in Edits \cup {Nobody} :
                 /\ edit' = [edit EXCEPT ![k] = [pc |-> "write", job |-> [job EXCEPT !.found = found],
                                                 row |-> p, slug |-> <<"none", 0>>, value |-> 0, claims |-> {k}]]
                 /\ together' = together \cup {{j, k} : j \in Busy}
    <3> PICK p \in Edits, found \in Edits \cup {Nobody} :
                 /\ edit' = [edit EXCEPT ![k] = [pc |-> "write", job |-> [job EXCEPT !.found = found],
                                                 row |-> p, slug |-> <<"none", 0>>, value |-> 0, claims |-> {k}]]
                 /\ together' = together \cup {{j, k} : j \in Busy}
      BY <2>2
    <3> DEFINE e == [pc |-> "write", job |-> [job EXCEPT !.found = found],
                     row |-> p, slug |-> <<"none", 0>>, value |-> 0, claims |-> {k}]
    <3>1. e.pc = "write" /\ e.value = 0 /\ edit' = [edit EXCEPT ![k] = e]
      OBVIOUS
    <3> HIDE DEF e
    <3> QED
      BY <1>2, <1>4, <3>1
  <2>3. CASE CreateProduct(k, job) \/ UpdateProduct(k, job) \/ CreateEntry(k, job) \/ RenameEntry(k, job)
    BY <2>1, <2>3 DEF CreateProduct, UpdateProduct, CreateEntry, RenameEntry, Begins
  <2>4. CASE WritesAtOnce(k, job)
    BY <2>1, <2>4 DEF Begins, WritesAtOnce, RemoveProduct, RemoveReview, Comment, Moderate, RemoveEntry
  <2>5. CASE Review(k, job)
    BY <2>2, <2>5 DEF Review
  <2> QED
    BY <1>4, <2>3, <2>4, <2>5 DEF LooksUp
<1>5. CASE GoesOn(k)
  <2>1. ASSUME NEW pc, Goes(k, pc), pc # "new", k \in Busy
        PROVE  Moves(k) /\ BusyHaveMet'
    <3> DEFINE e == [edit[k] EXCEPT !.pc = pc]
    <3>1. edit' = [edit EXCEPT ![k] = e] /\ together' = together
      BY <1>1, <2>1 DEF Goes
    <3>2. e.pc = pc /\ e.job = edit[k].job /\ e.row = edit[k].row /\ e.slug = edit[k].slug /\ e.claims = edit[k].claims
      BY <1>1 DEF EditRecord
    <3> HIDE DEF e
    <3> QED
      BY <1>3, <2>1, <3>1, <3>2
  <2>2. CASE InsertProduct(k) \/ ClearGallery(k) \/ PicturesDone(k) \/ SaveProduct(k) \/ WriteReview(k)
             \/ WriteRating(k) \/ WriteEntry(k) \/ EditFails(k)
    <3>1. k \in Busy
      BY <2>2 DEF Busy, InsertProduct, ClearGallery, PicturesDone, SaveProduct, WriteReview, WriteRating, WriteEntry,
         EditFails
    <3> QED
      BY <2>1, <2>2, <3>1 DEF InsertProduct, ClearGallery, PicturesDone, SaveProduct, WriteReview, WriteRating,
         WriteEntry, EditFails
  <2>3. CASE AddPicture(k) \/ ReadAverage(k)
    <3> DEFINE e == IF AddPicture(k) THEN [edit[k] EXCEPT !.value = @ + 1]
                    ELSE IF ReviewsOf(edit[k].row) = {} THEN [edit[k] EXCEPT !.pc = "done"]
                    ELSE [edit[k] EXCEPT !.pc = "rate", !.value = Average(StarsOf(edit[k].row))]
    <3>1. edit' = [edit EXCEPT ![k] = e] /\ together' = together /\ k \in Busy
      <4>1. CASE AddPicture(k)
        BY <1>1, <4>1 DEF AddPicture, Busy
      <4>2. CASE ~AddPicture(k)
        BY <1>1, <2>3, <4>2 DEF ReadAverage, Busy
      <4> QED
        BY <4>1, <4>2
    <3>2. /\ e.pc # "new" /\ e.job = edit[k].job /\ e.row = edit[k].row /\ e.slug = edit[k].slug
          /\ e.claims = edit[k].claims
      BY <1>1, <3>1 DEF EditRecord, Busy
    <3> HIDE DEF e
    <3> QED
      BY <1>3, <3>1, <3>2
  <2> QED
    BY <1>5, <2>2, <2>3 DEF GoesOn
<1> QED
  BY <1>4, <1>5 DEF StepOf

LEMMA JobTypes ==
  ASSUME NEW job \in AllJobs
  PROVE  /\ job.op \in {"create", "update"} => job.name \in Names
         /\ job.op = "review" => /\ job.user \in Users /\ job.stars \in Nat /\ job.found \in Anyone
                                 /\ job = [op |-> "review", user |-> job.user, stars |-> job.stars, found |-> job.found]
         /\ job.op \in {"enter", "rename"} => job.name \in Names /\ job.table \in Tables
<1>1. CASE job \in Jobs
  BY <1>1, CatalogueAssumption DEF Names, Users, Tables, Anyone
<1>2. CASE job = [op |-> "none"]
  BY <1>2
<1>3. CASE job \in [op : {"review"}, user : Users, stars : Nat, found : Anyone]
  BY <1>3
<1> QED
  BY <1>1, <1>2, <1>3 DEF AllJobs

LEMMA AverageType ==
  ASSUME RowTypes, NEW p, ReviewsOf(p) # {}
  PROVE  Average(StarsOf(p)) \in Nat
<1> DEFINE S == ReviewsOf(p)
           f == StarsOf(p)
<1>1. DOMAIN f = S /\ IsFiniteSet(S) /\ \A r \in S : f[r] \in Nat
  <2>1. S \in SUBSET Edits
    BY DEF ReviewsOf
  <2>2. \A r \in S : review[r].stars \in Nat
    BY <2>1 DEF RowTypes, ReviewRecord
  <2>3. IsFiniteSet(S)
    BY <2>1, CatalogueAssumption, FS_Subset
  <2> QED
    BY <2>2, <2>3 DEF StarsOf
<1> HIDE DEF S, f
<1>2. SumFunction(f) \in Nat
  BY <1>1, SumType DEF SumFunction
<1>3. Cardinality(DOMAIN f) \in Nat /\ Cardinality(DOMAIN f) # 0
  BY <1>1, FS_CardinalityType, FS_EmptySet DEF S
<1>4. \A a, b \in Nat : b # 0 => (200 * a + b) \div (2 * b) \in Nat
  OBVIOUS
<1> QED
  BY <1>2, <1>3, <1>4 DEF Average, f

LEMMA RowTypesStay ==
  ASSUME RowTypes, CallsAreAt, FoundReviews, NEW k \in Edits, NEW job, StepOf(k, job)
  PROVE  RowTypes'
<1> DEFINE e == edit[k]
<1>1. /\ e \in EditRecord /\ product[k] \in ProductRecord /\ Nobody \in Anyone /\ k \in Anyone
      /\ product \in [Edits -> ProductRecord] /\ gallery \subseteq PictureRecord
      /\ review \in [Edits -> ReviewRecord] /\ comment \in [Edits -> CommentRecord]
      /\ entry \in [Edits -> EntryRecord] /\ edit \in [Edits -> EditRecord]
      /\ <<"none", 0>> \in Slugs /\ Edits \subseteq Anyone
  BY DEF RowTypes, Anyone, Slugs, Names
<1>2. ASSUME NEW pc \in EditPlaces, Goes(k, pc) PROVE edit' \in [Edits -> EditRecord]
  <2>1. [e EXCEPT !.pc = pc] \in EditRecord
    BY <1>1, <1>2 DEF EditRecord
  <2> QED
    BY <1>1, <1>2, <2>1 DEF Goes
<1>0. ASSUME NEW pc \in EditPlaces, NEW row \in Anyone, NEW slug \in Slugs, NEW claims \in SUBSET Edits,
             BeginsAs(k, pc, job, row, slug, claims), job \in Jobs
      PROVE  edit' \in [Edits -> EditRecord]
  <2>1. [pc |-> pc, job |-> job, row |-> row, slug |-> slug, value |-> 0, claims |-> claims] \in EditRecord
    BY <1>0 DEF EditRecord, AllJobs
  <2> QED
    BY <1>1, <1>0, <2>1 DEF BeginsAs
<1>3. ASSUME NEW pc \in EditPlaces, NEW row \in Anyone, NEW slug \in Slugs, Begins(k, pc, job, row, slug), job \in Jobs
      PROVE  edit' \in [Edits -> EditRecord]
  BY <1>0, <1>3 DEF Begins
<1>4. ASSUME NEW name \in Names, NEW self PROVE UniqueSlug(name, self) \in Slugs
  BY SlugIsFree DEF Slugs
<1>5. CASE job \in Jobs /\ LooksUp(k, job)
  <2>1. job \in AllJobs
    BY <1>5 DEF AllJobs
  <2>2. CASE CreateProduct(k, job)
    <3>1. UniqueSlug(job.name, Nobody) \in Slugs
      BY <2>1, <2>2, <1>4, JobTypes DEF CreateProduct
    <3> QED
      BY <1>1, <1>3, <1>5, <2>2, <3>1 DEF CreateProduct, RowTypes, EditPlaces
  <2>3. CASE UpdateProduct(k, job)
    <3> PICK p \in Edits :
            /\ job.op = "update"
            /\ Begins(k, "clear", job, p, IF job.name = "none" THEN <<"none", 0>> ELSE UniqueSlug(job.name, p))
            /\ UNCHANGED <<product, gallery, review, comment, entry>>
      BY <2>3 DEF UpdateProduct
    <3>1. (IF job.name = "none" THEN <<"none", 0>> ELSE UniqueSlug(job.name, p)) \in Slugs
      BY <1>1, <2>1, <1>4, JobTypes
    <3> QED
      BY <1>1, <1>3, <1>5, <3>1 DEF RowTypes, EditPlaces
  <2>4. CASE Review(k, job)
    <3> PICK p \in Edits, found \in Edits \cup {Nobody} :
            /\ job.op = "review"
            /\ edit' = [edit EXCEPT ![k] = [pc |-> "write", job |-> [job EXCEPT !.found = found],
                                            row |-> p, slug |-> <<"none", 0>>, value |-> 0, claims |-> {k}]]
            /\ UNCHANGED <<product, gallery, review, comment, entry>>
      BY <2>4 DEF Review
    <3>1. [job EXCEPT !.found = found] \in AllJobs
      <4>1. /\ job = [op |-> "review", user |-> job.user, stars |-> job.stars, found |-> job.found]
            /\ job.user \in Users /\ job.stars \in Nat /\ found \in Anyone
        BY <2>1, JobTypes DEF Anyone
      <4>2. [job EXCEPT !.found = found] = [op |-> "review", user |-> job.user, stars |-> job.stars, found |-> found]
        BY <4>1
      <4> QED
        BY <4>1, <4>2 DEF AllJobs
    <3>2. [pc |-> "write", job |-> [job EXCEPT !.found = found], row |-> p, slug |-> <<"none", 0>>, value |-> 0,
           claims |-> {k}] \in EditRecord
      BY <1>1, <3>1 DEF EditRecord, EditPlaces
    <3>3. edit' \in [Edits -> EditRecord]
      BY <1>1, <3>2
    <3> QED
      BY <1>1, <3>3 DEF RowTypes
  <2>5. CASE CreateEntry(k, job)
    <3>1. <<job.name, 1>> \in Slugs
      BY <2>1, <2>5, JobTypes DEF CreateEntry, Slugs
    <3> QED
      BY <1>1, <1>3, <1>5, <2>5, <3>1 DEF CreateEntry, RowTypes, EditPlaces
  <2>6. CASE RenameEntry(k, job)
    <3>1. <<job.name, 1>> \in Slugs
      BY <2>1, <2>6, JobTypes DEF RenameEntry, Slugs
    <3> PICK r \in Edits :
            /\ BeginsAs(k, "rename", job, r, <<job.name, 1>>,
                        IF r \in EntriesNamed(job.table, job.name) THEN {k} \cup entry[r].named ELSE {k})
            /\ UNCHANGED <<product, gallery, review, comment, entry>>
      BY <2>6 DEF RenameEntry
    <3>2. entry[r].named \in SUBSET Edits
      BY <1>1 DEF EntryRecord
    <3>3. edit' \in [Edits -> EditRecord]
      BY <1>0, <1>1, <1>5, <3>1, <3>2 DEF EditPlaces
    <3> QED
      BY <1>1, <3>3 DEF RowTypes
  <2> QED
    BY <1>5, <2>2, <2>3, <2>4, <2>5, <2>6 DEF LooksUp
<1>6. CASE job \in Jobs /\ WritesAtOnce(k, job)
  <2>1. ASSUME NEW p \in Edits, Begins(k, "done", job, p, <<"none", 0>>) PROVE edit' \in [Edits -> EditRecord]
    BY <1>1, <1>3, <1>6, <2>1 DEF EditPlaces
  <2>2. CASE RemoveProduct(k, job)
    <3> PICK p \in Edits : /\ Begins(k, "done", job, p, <<"none", 0>>)
                           /\ product' = [product EXCEPT ![p].st = "deleted"]
                           /\ UNCHANGED <<gallery, review, comment, entry>>
      BY <2>2 DEF RemoveProduct
    <3> QED
      BY <1>1, <2>1 DEF RowTypes, ProductRecord, Stages
  <2>3. CASE RemoveReview(k, job)
    <3> PICK r \in Edits : /\ Begins(k, "done", job, r, <<"none", 0>>)
                           /\ review' = [review EXCEPT ![r].st = "deleted"]
                           /\ product' = [product EXCEPT ![review[r].product].rated = Nobody]
                           /\ UNCHANGED <<gallery, comment, entry>>
      BY <2>3 DEF RemoveReview
    <3>1. review' \in [Edits -> ReviewRecord]
      BY <1>1 DEF ReviewRecord, Stages
    <3>2. product' \in [Edits -> ProductRecord]
      BY <1>1 DEF ProductRecord
    <3> QED
      BY <1>1, <2>1, <3>1, <3>2 DEF RowTypes
  <2>4. CASE Comment(k, job)
    <3> PICK p \in Edits, parent \in Edits \cup {Nobody} :
           /\ Begins(k, "done", job, p, <<"none", 0>>)
           /\ comment' = [comment EXCEPT ![k] = [st |-> "live", product |-> p, parent |-> parent, shown |-> FALSE]]
           /\ UNCHANGED <<product, gallery, review, entry>>
      BY <2>4 DEF Comment
    <3> QED
      BY <1>1, <2>1 DEF RowTypes, CommentRecord, Stages, Anyone
  <2>5. CASE Moderate(k, job)
    <3> PICK c \in Edits :
           /\ Begins(k, "done", job, c, <<"none", 0>>)
           /\ comment' = [comment EXCEPT ![c] =
                  IF job.op = "uncomment" THEN [@ EXCEPT !.st = "deleted"]
                  ELSE [@ EXCEPT !.shown = (job.op = "approve")]]
           /\ UNCHANGED <<product, gallery, review, entry>>
      BY <2>5 DEF Moderate
    <3>1. comment[c] \in CommentRecord
      BY <1>1
    <3>2. [comment[c] EXCEPT !.st = "deleted"] \in CommentRecord
      BY <3>1 DEF CommentRecord, Stages
    <3>3. \A b \in BOOLEAN : [comment[c] EXCEPT !.shown = b] \in CommentRecord
      BY <3>1 DEF CommentRecord
    <3>4. (job.op = "approve") \in BOOLEAN
      OBVIOUS
    <3>5. comment' \in [Edits -> CommentRecord]
      BY <1>1, <3>2, <3>3, <3>4
    <3> QED
      BY <1>1, <2>1, <3>5 DEF RowTypes
  <2>6. CASE RemoveEntry(k, job)
    <3> PICK r \in Edits : /\ Begins(k, "done", job, r, <<"none", 0>>)
                           /\ entry' = [entry EXCEPT ![r].st = "deleted"]
                           /\ UNCHANGED <<product, gallery, review, comment>>
      BY <2>6 DEF RemoveEntry
    <3> QED
      BY <1>1, <2>1 DEF RowTypes, EntryRecord, Stages
  <2> QED
    BY <1>6, <2>2, <2>3, <2>4, <2>5, <2>6 DEF WritesAtOnce
<1>7. CASE GoesOn(k)
  <2>1. CASE InsertProduct(k)
    <3> DEFINE row == [NoProduct EXCEPT !.st = "live", !.slug = edit[k].slug, !.named = k]
    <3>1. row \in ProductRecord
      BY <1>1 DEF EditRecord, ProductRecord, NoProduct, Stages
    <3>2. product' = [product EXCEPT ![k] = row] /\ edit' \in [Edits -> EditRecord]
      BY <1>2, <2>1 DEF InsertProduct, EditPlaces
    <3> HIDE DEF row
    <3> QED
      BY <1>1, <2>1, <3>1, <3>2 DEF RowTypes, InsertProduct
  <2>2. CASE ClearGallery(k) \/ PicturesDone(k)
    BY <1>1, <1>2, <2>2 DEF ClearGallery, PicturesDone, EditPlaces, RowTypes, OtherPictures
  <2>3. CASE AddPicture(k)
    <3>0. e \in EditRecord /\ edit' = [edit EXCEPT ![k] = [e EXCEPT !.value = @ + 1]]
      BY <1>1, <2>3 DEF AddPicture
    <3>1. edit' \in [Edits -> EditRecord] /\ e.value + 1 \in Nat
      <4>1. e.value \in Nat /\ e.value + 1 \in Nat
        BY <3>0 DEF EditRecord
      <4>2. [e EXCEPT !.value = e.value + 1] \in EditRecord
        BY <3>0, <4>1 DEF EditRecord
      <4> QED
        BY <1>1, <3>0, <4>1, <4>2
    <3>2. e.row \in Edits
      BY <2>3 DEF AddPicture, CallsAreAt
    <3> QED
      BY <1>1, <2>3, <3>1, <3>2 DEF AddPicture, RowTypes, PictureRecord
  <2>4. CASE SaveProduct(k)
    <3>1. [product[e.row] EXCEPT !.slug = e.slug, !.named = k] \in ProductRecord
      <4>1. e.row \in Edits /\ e.slug \in Slugs
        BY <1>1, <2>4 DEF SaveProduct, CallsAreAt, EditRecord
      <4>2. product[e.row] \in ProductRecord
        BY <1>1, <4>1
      <4> QED
        BY <1>1, <4>1, <4>2 DEF ProductRecord
    <3>2. product' \in [Edits -> ProductRecord] /\ edit' \in [Edits -> EditRecord]
      BY <1>1, <1>2, <2>4, <3>1 DEF SaveProduct, EditPlaces
    <3> QED
      BY <1>1, <2>4, <3>2 DEF SaveProduct, RowTypes
  <2>5. CASE WriteReview(k)
    <3> DEFINE r == IF e.job.found = Nobody THEN k ELSE e.job.found
               row == IF r = k THEN [st |-> "live", product |-> e.row, user |-> e.job.user, stars |-> e.job.stars]
                      ELSE [review[r] EXCEPT !.stars = e.job.stars]
    <3>1. e.job \in AllJobs /\ e.job.op = "review" /\ e.row \in Edits
      BY <1>1, <2>5 DEF WriteReview, CallsAreAt, EditRecord
    <3>2. e.job.user \in Users /\ e.job.stars \in Nat
      BY <3>1, JobTypes
    <3>3. r \in Edits
      BY <2>5 DEF WriteReview, FoundReviews
    <3>4. row \in ReviewRecord
      BY <1>1, <3>1, <3>2, <3>3 DEF ReviewRecord, Stages
    <3>5. review' = [review EXCEPT ![r] = row] /\ edit' \in [Edits -> EditRecord]
      BY <1>2, <2>5 DEF WriteReview, EditPlaces
    <3>6. UNCHANGED <<product, gallery, comment, entry>>
      BY <2>5 DEF WriteReview
    <3> HIDE DEF row, r
    <3>7. review' \in [Edits -> ReviewRecord]
      BY <1>1, <3>3, <3>4, <3>5
    <3> QED
      BY <1>1, <3>5, <3>6, <3>7 DEF RowTypes
  <2>6. CASE ReadAverage(k)
    <3>1. ReviewsOf(e.row) # {} => Average(StarsOf(e.row)) \in Nat
      BY AverageType
    <3> DEFINE f == IF ReviewsOf(e.row) = {} THEN [e EXCEPT !.pc = "done"]
                    ELSE [e EXCEPT !.pc = "rate", !.value = Average(StarsOf(e.row))]
    <3>2. f \in EditRecord
      BY <1>1, <3>1 DEF EditRecord, EditPlaces
    <3>3. edit' = [edit EXCEPT ![k] = f]
      BY <2>6 DEF ReadAverage
    <3> HIDE DEF f
    <3> QED
      BY <1>1, <2>6, <3>2, <3>3 DEF ReadAverage, RowTypes
  <2>7. CASE WriteRating(k)
    <3>1. [product[e.row] EXCEPT !.rating = e.value, !.rated = k] \in ProductRecord
      <4>1. e.row \in Edits /\ e.value \in Nat
        BY <1>1, <2>7 DEF WriteRating, CallsAreAt, EditRecord
      <4>2. product[e.row] \in ProductRecord
        BY <1>1, <4>1
      <4> QED
        BY <1>1, <4>1, <4>2 DEF ProductRecord
    <3>2. product' \in [Edits -> ProductRecord] /\ edit' \in [Edits -> EditRecord]
      BY <1>1, <1>2, <2>7, <3>1 DEF WriteRating, EditPlaces
    <3> QED
      BY <1>1, <2>7, <3>2 DEF WriteRating, RowTypes
  <2>8. CASE WriteEntry(k)
    <3> DEFINE row == [st |-> IF e.job.op = "enter" THEN "live" ELSE entry[e.row].st, table |-> e.job.table,
                       slug |-> e.job.name, named |-> e.claims]
    <3>1. e.job \in AllJobs /\ e.job.op \in {"enter", "rename"} /\ e.row \in Edits /\ e.claims \in SUBSET Edits
      BY <1>1, <2>8 DEF WriteEntry, CallsAreAt, EditRecord
    <3>2. e.job.name \in Names /\ e.job.table \in Tables
      BY <3>1, JobTypes
    <3>3. row \in EntryRecord
      BY <1>1, <3>1, <3>2 DEF EntryRecord, Stages
    <3>4. entry' = [entry EXCEPT ![e.row] = row] /\ edit' \in [Edits -> EditRecord]
      BY <1>2, <2>8 DEF WriteEntry, EditPlaces
    <3> HIDE DEF row
    <3> QED
      BY <1>1, <2>8, <3>3, <3>4, ZenonT(40) DEF RowTypes, WriteEntry
  <2>9. CASE EditFails(k)
    <3>1. product' \in [Edits -> ProductRecord]
      BY <1>1, <2>9 DEF EditFails, ProductRecord
    <3>2. (IF edit[k].pc = "pictures" THEN "failed" ELSE "done") \in EditPlaces
      BY DEF EditPlaces
    <3>3. edit' \in [Edits -> EditRecord]
      BY <1>2, <2>9, <3>2 DEF EditFails
    <3> QED
      BY <1>1, <2>9, <3>1, <3>3 DEF EditFails, RowTypes
  <2> QED
    BY <1>7, <2>1, <2>2, <2>3, <2>4, <2>5, <2>6, <2>7, <2>8, <2>9 DEF GoesOn
<1> QED
  BY <1>5, <1>6, <1>7 DEF StepOf

\* What a step of call k does to the rows of each table, and to the call itself.
SameProduct(p) ==
    product'[p].st = product[p].st /\ product'[p].slug = product[p].slug /\ product'[p].named = product[p].named
ProductStep(k) ==
    \A p \in Edits :
        \/ SameProduct(p)
        \/ /\ product[p].st = "live" /\ product'[p].st = "deleted"
        \/ /\ edit[k].pc = "insert" /\ p = k
           /\ product'[p].st = "live" /\ product'[p].slug = edit[k].slug /\ product'[p].named = k
        \/ /\ edit[k].pc = "save" /\ edit[k].job.name # "none" /\ p = edit[k].row
           /\ product'[p].st = product[p].st /\ product'[p].slug = edit[k].slug /\ product'[p].named = k
GalleryStep(k) ==
    /\ \A g \in gallery' \ gallery : edit[k].pc \in {"pictures", "failed"} /\ g.product = edit[k].row /\ g.by = k
    /\ edit[k].pc = "clear" /\ edit'[k].pc = "pictures" => \A g \in gallery' : g.product # edit[k].row
SameReview(r) == review'[r].st = review[r].st /\ review'[r].product = review[r].product /\ review'[r].user = review[r].user
ReviewStep(k) ==
    \A r \in Edits :
        \/ review'[r] = review[r]
        \/ /\ edit'[k].job.op = "unreview" /\ edit'[k].row = r /\ edit'[k].pc = "done" /\ edit[k].pc = "new"
           /\ review[r].st = "live" /\ review'[r].st = "deleted" /\ review'[r].product = review[r].product
           /\ review[r].product \in Edits => product'[review[r].product].rated = Nobody
        \/ /\ edit[k].pc = "write" /\ edit'[k].pc = "average" /\ edit[k].job.found = Nobody /\ r = k
           /\ review'[r].st = "live" /\ review'[r].product = edit[k].row /\ review'[r].user = edit[k].job.user
        \/ /\ edit[k].pc = "write" /\ edit'[k].pc = "average" /\ edit[k].job.found = r /\ SameReview(r)
SameComment(c) ==
    comment'[c].st = comment[c].st /\ comment'[c].product = comment[c].product /\ comment'[c].parent = comment[c].parent
CommentStep(k) ==
    \A c \in Edits :
        \/ SameComment(c)
        \/ /\ comment[c].st = "live" /\ comment'[c].st = "deleted"
           /\ comment'[c].product = comment[c].product /\ comment'[c].parent = comment[c].parent
        \/ /\ c = k /\ edit[k].pc = "new" /\ edit'[k].pc = "done" /\ comment'[c].st = "live"
           /\ comment'[c].parent # Nobody =>
                  /\ comment'[c].parent \in Edits /\ comment[comment'[c].parent].st = "live"
                  /\ comment[comment'[c].parent].product = comment'[c].product
EntryStep(k) ==
    \A e \in Edits :
        \/ entry'[e] = entry[e]
        \/ entry[e].st = "live" /\ entry'[e].st = "deleted" /\ edit'[k].pc = "done"
        \/ /\ edit[k].pc \in {"enter", "rename"} /\ e = edit[k].row
           /\ entry'[e].table = edit[k].job.table /\ entry'[e].slug = edit[k].job.name
           /\ entry'[e].named = edit[k].claims
RatedStep(k) ==
    /\ \A p \in Edits :
           \/ product'[p].rated = product[p].rated /\ product'[p].rating = product[p].rating
           \/ product'[p].rated = Nobody
           \/ /\ edit[k].pc = "rate" /\ edit'[k].pc = "done" /\ p = edit[k].row
              /\ product'[p].rated = k /\ product'[p].rating = edit[k].value
    /\ edit[k].pc \in {"average", "rate"} =>
           \/ edit'[k].pc = "done" /\ product'[edit[k].row].rated \in {k, Nobody}
           \/ edit'[k].pc = "done" /\ edit[k].pc = "average" /\ ReviewsOf(edit[k].row) = {}
           \/ /\ edit'[k].pc = "rate" /\ edit[k].pc = "average" /\ ReviewsOf(edit[k].row) # {}
              /\ edit'[k].value = Average(StarsOf(edit[k].row))

\* What a call looked up when it begins, and where calls go.
LookedUpFirst(k) ==
    LET e == edit'[k] IN
    \/ /\ e.pc = "insert" /\ e.job.op = "create" /\ e.row = k
       /\ \A q \in LiveProducts : product[q].slug # e.slug
    \/ /\ e.pc = "clear" /\ e.job.op = "update" /\ e.row \in LiveProducts
       /\ e.job.name # "none" => \A q \in LiveProducts \ {e.row} : product[q].slug # e.slug
    \/ /\ e.pc = "write" /\ e.job.op = "review" /\ e.row \in Edits
       /\ \/ /\ e.job.found = Nobody
             /\ \A r \in LiveReviews : <<review[r].product, review[r].user>> # <<e.row, e.job.user>>
          \/ e.job.found \in LiveReviews /\ review[e.job.found].product = e.row
    \/ /\ e.pc = "enter" /\ e.job.op = "enter" /\ e.row = k
       /\ \A q \in LiveEntries : <<entry[q].table, entry[q].slug>> # <<e.job.table, e.job.name>>
    \/ /\ e.pc = "rename" /\ e.job.op = "rename" /\ e.row \in Edits
       /\ e.job.table # "role" =>
              \/ \A q \in LiveEntries \ {e.row} : <<entry[q].table, entry[q].slug>> # <<e.job.table, e.job.name>>
              \/ /\ e.row \in LiveEntries /\ <<entry[e.row].table, entry[e.row].slug>> = <<e.job.table, e.job.name>>
                 /\ entry[e.row].named \subseteq e.claims
    \/ e.pc = "done" /\ e.job.op # "review" /\ (e.job.op = "unreview" => e.row \in LiveReviews)
EditStep(k) ==
    \/ edit[k].pc = "new" /\ k \in edit'[k].claims /\ LookedUpFirst(k)
    \/ /\ edit[k].pc \in {"insert", "clear"} /\ edit'[k].pc = "pictures"
       /\ edit[k].pc = "insert" => product'[k].st # "none"
    \/ edit[k].pc \in {"pictures", "failed"} /\ edit'[k].pc \in {edit[k].pc, "failed"}
    \/ edit[k].pc = "pictures" /\ edit'[k].pc = "save" /\ edit[k].job.op # "create"
    \/ edit[k].pc = "write" /\ edit'[k].pc = "average"
    \/ edit[k].pc = "average" /\ edit'[k].pc = "rate"
    \/ edit[k].pc \in {"insert", "clear", "pictures", "failed", "save", "write", "average", "rate", "enter", "rename"}
       /\ edit'[k].pc = "done"

LEMMA BeginningsLookUp ==
  ASSUME RowTypes, NEW k \in Edits, NEW job \in Jobs, edit[k].pc = "new",
         LooksUp(k, job) \/ WritesAtOnce(k, job)
  PROVE  LookedUpFirst(k) /\ k \in edit'[k].claims
<1>1. edit \in [Edits -> EditRecord] /\ Nobody \notin Edits
  BY CatalogueAssumption DEF RowTypes
<1>2. ASSUME NEW pc, NEW row, NEW slug, Begins(k, pc, job, row, slug)
      PROVE  /\ edit'[k].pc = pc /\ edit'[k].job = job /\ edit'[k].row = row /\ edit'[k].slug = slug
             /\ k \in edit'[k].claims
  BY <1>1, <1>2 DEF Begins, BeginsAs
<1>3. CASE CreateProduct(k, job)
  <2>1. \A q \in LiveProducts : product[q].slug # UniqueSlug(job.name, Nobody)
    BY <1>1, SlugIsFree DEF LiveProducts, InStock
  <2> QED
    BY <1>2, <1>3, <2>1 DEF CreateProduct, LookedUpFirst
<1>4. CASE UpdateProduct(k, job)
  <2> PICK p \in Edits :
          /\ job.op = "update" /\ InStock(p)
          /\ Begins(k, "clear", job, p, IF job.name = "none" THEN <<"none", 0>> ELSE UniqueSlug(job.name, p))
    BY <1>4 DEF UpdateProduct
  <2>1. \A q \in LiveProducts \ {p} : product[q].slug # UniqueSlug(job.name, p)
    BY SlugIsFree DEF LiveProducts, InStock
  <2>2. /\ edit'[k].pc = "clear" /\ edit'[k].job = job /\ edit'[k].row = p
        /\ edit'[k].slug = IF job.name = "none" THEN <<"none", 0>> ELSE UniqueSlug(job.name, p)
        /\ k \in edit'[k].claims
    BY <1>2
  <2>3. p \in LiveProducts
    BY DEF LiveProducts, InStock
  <2> QED
    BY <2>1, <2>2, <2>3 DEF LookedUpFirst
<1>5. CASE Review(k, job)
  <2> PICK p \in Edits, found \in Edits \cup {Nobody} :
          LET mine == {r \in ReviewsOf(p) : review[r].user = job.user} IN
          /\ job.op = "review"
          /\ IF mine = {} THEN found = Nobody ELSE found \in mine
          /\ edit' = [edit EXCEPT ![k] = [pc |-> "write", job |-> [job EXCEPT !.found = found],
                                          row |-> p, slug |-> <<"none", 0>>, value |-> 0, claims |-> {k}]]
    BY <1>5 DEF Review
  <2> DEFINE e == [pc |-> "write", job |-> [job EXCEPT !.found = found], row |-> p, slug |-> <<"none", 0>>, value |-> 0,
                   claims |-> {k}]
  <2>1. k \in e.claims /\ e.pc = "write" /\ e.row = p /\ e.job.op = "review" /\ e.job.found = found /\ e.job.user = job.user
    BY CatalogueAssumption
  <2>2. edit'[k] = e
    BY <1>1
  <2>3. \/ found = Nobody /\ \A r \in LiveReviews : ~(review[r].product = p /\ review[r].user = job.user)
        \/ found \in LiveReviews /\ review[found].product = p
    BY DEF ReviewsOf, LiveReviews
  <2> HIDE DEF e
  <2> QED
    BY <2>1, <2>2, <2>3 DEF LookedUpFirst
<1>6. CASE CreateEntry(k, job)
  <2>1. \A q \in LiveEntries : ~(entry[q].table = job.table /\ entry[q].slug = job.name)
    BY <1>6 DEF CreateEntry, EntriesNamed, LiveEntries
  <2> QED
    BY <1>2, <1>6, <2>1 DEF CreateEntry, LookedUpFirst
<1>7. CASE RenameEntry(k, job)
  <2> DEFINE named == EntriesNamed(job.table, job.name)
  <2> PICK e \in Edits :
          /\ job.op = "rename"
          /\ job.table = "role" \/ named = {} \/ e \in named
          /\ BeginsAs(k, "rename", job, e, <<job.name, 1>>, IF e \in named THEN {k} \cup entry[e].named ELSE {k})
    BY <1>7 DEF RenameEntry
  <2>1. /\ edit'[k].pc = "rename" /\ edit'[k].job = job /\ edit'[k].row = e
        /\ k \in edit'[k].claims /\ (e \in named => entry[e].named \subseteq edit'[k].claims)
    BY <1>1 DEF BeginsAs
  <2>2. named = {} => \A q \in LiveEntries \ {e} : ~(entry[q].table = job.table /\ entry[q].slug = job.name)
    BY DEF EntriesNamed, LiveEntries
  <2>3. job.table # "role" /\ e \in named =>
            e \in LiveEntries /\ entry[e].table = job.table /\ entry[e].slug = job.name
    BY DEF EntriesNamed, LiveEntries
  <2> QED
    BY <2>1, <2>2, <2>3 DEF LookedUpFirst
<1>8. CASE WritesAtOnce(k, job)
  <2>1. ASSUME NEW row, Begins(k, "done", job, row, <<"none", 0>>), job.op # "review",
               job.op = "unreview" => row \in LiveReviews
        PROVE  LookedUpFirst(k) /\ k \in edit'[k].claims
    BY <1>2, <2>1 DEF LookedUpFirst
  <2> QED
    BY <1>8, <2>1 DEF WritesAtOnce, RemoveProduct, RemoveReview, Comment, Moderate, RemoveEntry, LiveReviews
<1> QED
  BY <1>3, <1>4, <1>5, <1>6, <1>7, <1>8 DEF LooksUp

LEMMA CallsStep ==
  ASSUME RowTypes, CallsAreAt, NEW k \in Edits, NEW job, StepOf(k, job)
  PROVE  EditStep(k)
<1>1. edit \in [Edits -> EditRecord] /\ edit[k] \in EditRecord /\ product \in [Edits -> ProductRecord]
  BY DEF RowTypes
<1>2. CASE edit[k].pc = "new" /\ job \in Jobs /\ (LooksUp(k, job) \/ WritesAtOnce(k, job))
  BY <1>2, BeginningsLookUp DEF EditStep
<1>3. CASE GoesOn(k)
  <2>1. ASSUME NEW pc, Goes(k, pc) PROVE edit'[k].pc = pc
    BY <1>1, <2>1 DEF Goes, EditRecord
  <2>2. CASE InsertProduct(k)
    <3>1. product'[k].st = "live"
      BY <1>1, <2>2 DEF InsertProduct, NoProduct
    <3> QED
      BY <2>1, <2>2, <3>1 DEF InsertProduct, EditStep
  <2>3. CASE ClearGallery(k) \/ SaveProduct(k) \/ WriteReview(k) \/ WriteRating(k) \/ WriteEntry(k)
    BY <2>1, <2>3 DEF ClearGallery, SaveProduct, WriteReview, WriteRating, WriteEntry, EditStep
  <2>4. CASE PicturesDone(k)
    BY <2>1, <2>4 DEF PicturesDone, EditStep
  <2>5. CASE AddPicture(k)
    <3>1. edit'[k].pc = edit[k].pc
      BY <1>1, <2>5 DEF AddPicture, EditRecord
    <3> QED
      BY <2>5, <3>1 DEF AddPicture, EditStep
  <2>6. CASE ReadAverage(k)
    <3>1. edit'[k].pc \in {"done", "rate"}
      BY <1>1, <2>6 DEF ReadAverage, EditRecord
    <3> QED
      BY <2>6, <3>1 DEF ReadAverage, EditStep
  <2>7. CASE EditFails(k)
    <3>1. /\ edit'[k].pc = IF edit[k].pc = "pictures" THEN "failed" ELSE "done"
          /\ k \in Busy /\ edit[k].pc \in EditPlaces
      BY <1>1, <2>1, <2>7 DEF EditFails, EditRecord
    <3> QED
      BY <3>1 DEF Busy, EditStep, EditPlaces
  <2> QED
    BY <1>3, <2>2, <2>3, <2>4, <2>5, <2>6, <2>7 DEF GoesOn
<1> QED
  BY <1>2, <1>3 DEF StepOf

LEMMA ProductsStep ==
  ASSUME RowTypes, CallsAreAt, NEW k \in Edits, NEW job, StepOf(k, job)
  PROVE  ProductStep(k)
<1>1. product \in [Edits -> ProductRecord] /\ edit[k] \in EditRecord
  BY DEF RowTypes
<1>2. CASE UNCHANGED product
  BY <1>2 DEF ProductStep, SameProduct
<1>3. CASE \E p : \E b : \E v : product' = [product EXCEPT ![p] = [@ EXCEPT !.rating = v, !.rated = b]]
  BY <1>1, <1>3 DEF ProductStep, SameProduct, ProductRecord
<1>4. CASE \E p : product' = [product EXCEPT ![p].rated = Nobody]
  BY <1>1, <1>4 DEF ProductStep, SameProduct, ProductRecord
<1>5. CASE InsertProduct(k)
  <2>1. product' = [product EXCEPT ![k] = [NoProduct EXCEPT !.st = "live", !.slug = edit[k].slug, !.named = k]]
        /\ edit[k].pc = "insert"
    BY <1>5 DEF InsertProduct
  <2> QED
    BY <1>1, <2>1 DEF ProductStep, SameProduct, NoProduct
<1>6. CASE SaveProduct(k)
  <2>1. edit[k].row \in Edits /\ edit[k].pc = "save"
    BY <1>6 DEF SaveProduct, CallsAreAt
  <2>2. CASE edit[k].job.name # "none"
    <3>1. product' = [product EXCEPT ![edit[k].row] = [@ EXCEPT !.slug = edit[k].slug, !.named = k]]
      BY <1>6, <2>2 DEF SaveProduct
    <3>2. product[edit[k].row] \in ProductRecord
      BY <1>1, <2>1
    <3> QED
      BY <1>1, <2>1, <2>2, <3>1, <3>2 DEF ProductStep, SameProduct, ProductRecord
  <2> QED
    BY <1>2, <1>6, <2>2 DEF SaveProduct
<1>7. CASE RemoveProduct(k, job)
  <2> PICK p \in Edits : product[p].st = "live" /\ product' = [product EXCEPT ![p].st = "deleted"]
    BY <1>7 DEF RemoveProduct, InStock
  <2> QED
    BY <1>1 DEF ProductStep, SameProduct, ProductRecord
<1>8. CASE LooksUp(k, job) \/ Comment(k, job) \/ Moderate(k, job) \/ RemoveEntry(k, job)
  BY <1>2, <1>8 DEF LooksUp, CreateProduct, UpdateProduct, Review, CreateEntry, RenameEntry, Comment, Moderate,
     RemoveEntry
<1>9. CASE RemoveReview(k, job)
  BY <1>4, <1>9 DEF RemoveReview
<1>10. CASE \/ ClearGallery(k) \/ AddPicture(k) \/ PicturesDone(k) \/ WriteReview(k) \/ ReadAverage(k) \/ WriteEntry(k)
  BY <1>2, <1>10 DEF ClearGallery, AddPicture, PicturesDone, WriteReview, ReadAverage, WriteEntry
<1>11. CASE WriteRating(k)
  BY <1>3, <1>11 DEF WriteRating
<1>12. CASE EditFails(k)
  BY <1>2, <1>4, <1>12 DEF EditFails
<1> QED
  BY <1>5, <1>6, <1>7, <1>8, <1>9, <1>10, <1>11, <1>12 DEF StepOf, GoesOn, WritesAtOnce

LEMMA PicturesStep ==
  ASSUME RowTypes, NEW k \in Edits, NEW job, StepOf(k, job)
  PROVE  GalleryStep(k)
<1>1. edit \in [Edits -> EditRecord] /\ edit[k] \in EditRecord
  BY DEF RowTypes
<1>2. ASSUME UNCHANGED gallery, edit[k].pc = "clear" => edit'[k].pc # "pictures" PROVE GalleryStep(k)
  BY <1>2 DEF GalleryStep
<1>3. CASE ClearGallery(k)
  BY <1>3 DEF ClearGallery, OtherPictures, GalleryStep
<1>4. CASE AddPicture(k)
  BY <1>4 DEF AddPicture, GalleryStep
<1>5. CASE EditFails(k)
  <2>1. edit'[k].pc # "pictures"
    BY <1>1, <1>5 DEF EditFails, Goes, EditRecord
  <2> QED
    BY <1>2, <1>5, <2>1 DEF EditFails
<1>6. CASE edit[k].pc = "new" /\ (LooksUp(k, job) \/ WritesAtOnce(k, job))
  BY <1>2, <1>6 DEF LooksUp, WritesAtOnce, CreateProduct, UpdateProduct, Review, CreateEntry, RenameEntry,
     RemoveProduct, RemoveReview, Comment, Moderate, RemoveEntry
<1>7. CASE \/ InsertProduct(k) \/ PicturesDone(k) \/ SaveProduct(k) \/ WriteReview(k)
           \/ ReadAverage(k) \/ WriteRating(k) \/ WriteEntry(k)
  BY <1>2, <1>7 DEF InsertProduct, PicturesDone, SaveProduct, WriteReview, ReadAverage, WriteRating, WriteEntry
<1> QED
  BY <1>3, <1>4, <1>5, <1>6, <1>7 DEF StepOf, GoesOn

LEMMA ReviewsStep ==
  ASSUME RowTypes, FoundReviews, NEW k \in Edits, NEW job, StepOf(k, job)
  PROVE  ReviewStep(k)
<1>1. /\ review \in [Edits -> ReviewRecord] /\ edit[k] \in EditRecord /\ edit \in [Edits -> EditRecord]
      /\ product \in [Edits -> ProductRecord]
  BY DEF RowTypes
<1>2. CASE UNCHANGED review
  BY <1>2 DEF ReviewStep
<1>3. CASE edit[k].pc = "new" /\ RemoveReview(k, job)
  <2> PICK r \in Edits :
          /\ job.op = "unreview" /\ review[r].st = "live" /\ Begins(k, "done", job, r, <<"none", 0>>)
          /\ review' = [review EXCEPT ![r].st = "deleted"]
          /\ product' = [product EXCEPT ![review[r].product].rated = Nobody]
    BY <1>3 DEF RemoveReview
  <2>1. edit'[k].job.op = "unreview" /\ edit'[k].row = r /\ edit'[k].pc = "done"
    BY <1>1 DEF Begins, BeginsAs
  <2>2. /\ review'[r].st = "deleted" /\ review'[r].product = review[r].product
        /\ \A q \in Edits \ {r} : review'[q] = review[q]
    BY <1>1 DEF ReviewRecord
  <2>3. review[r].product \in Edits => product'[review[r].product].rated = Nobody
    BY <1>1 DEF ProductRecord
  <2> QED
    BY <1>3, <2>1, <2>2, <2>3 DEF ReviewStep
<1>4. CASE WriteReview(k)
  <2>1. edit'[k].pc = "average" /\ edit[k].pc = "write"
    BY <1>1, <1>4 DEF WriteReview, Goes, EditRecord
  <2> DEFINE found == edit[k].job.found
             r == IF found = Nobody THEN k ELSE found
             row == IF r = k THEN [st |-> "live", product |-> edit[k].row, user |-> edit[k].job.user,
                                   stars |-> edit[k].job.stars]
                    ELSE [review[r] EXCEPT !.stars = edit[k].job.stars]
  <2>2. review' = [review EXCEPT ![r] = row]
    BY <1>4 DEF WriteReview
  <2>3. CASE found = Nobody
    <3>1. r = k /\ row.st = "live" /\ row.product = edit[k].row /\ row.user = edit[k].job.user
      BY <2>3
    <3> HIDE DEF r, row
    <3> QED
      BY <1>1, <2>1, <2>2, <2>3, <3>1 DEF ReviewStep
  <2>4. CASE found # Nobody /\ found # k /\ found \in Edits
    <3>1. review[r] \in ReviewRecord /\ r # k /\ r = found
      BY <1>1, <2>4
    <3>2. row.st = review[r].st /\ row.product = review[r].product /\ row.user = review[r].user
      BY <3>1 DEF ReviewRecord
    <3> HIDE DEF r, row
    <3> QED
      BY <1>1, <2>1, <2>2, <2>4, <3>1, <3>2 DEF ReviewStep, SameReview
  <2>5. found = Nobody \/ found \in Edits \ {k}
    BY <2>1 DEF FoundReviews
  <2> QED
    BY <2>3, <2>4, <2>5
<1>5. CASE \/ LooksUp(k, job) \/ RemoveProduct(k, job) \/ Comment(k, job) \/ Moderate(k, job) \/ RemoveEntry(k, job)
  BY <1>2, <1>5 DEF LooksUp, CreateProduct, UpdateProduct, Review, CreateEntry, RenameEntry, RemoveProduct, Comment,
     Moderate, RemoveEntry
<1>6. CASE \/ InsertProduct(k) \/ ClearGallery(k) \/ AddPicture(k) \/ PicturesDone(k) \/ SaveProduct(k)
           \/ ReadAverage(k) \/ WriteRating(k) \/ WriteEntry(k) \/ EditFails(k)
  BY <1>2, <1>6 DEF InsertProduct, ClearGallery, AddPicture, PicturesDone, SaveProduct, ReadAverage, WriteRating,
     WriteEntry, EditFails
<1> QED
  BY <1>3, <1>4, <1>5, <1>6 DEF StepOf, GoesOn, WritesAtOnce

LEMMA CommentsStep ==
  ASSUME RowTypes, NEW k \in Edits, NEW job, StepOf(k, job)
  PROVE  CommentStep(k)
<1>1. comment \in [Edits -> CommentRecord] /\ edit[k] \in EditRecord /\ edit \in [Edits -> EditRecord]
  BY DEF RowTypes
<1>2. CASE UNCHANGED comment
  BY <1>2 DEF CommentStep, SameComment
<1>3. CASE edit[k].pc = "new" /\ Comment(k, job)
  <2> PICK p \in Edits, parent \in Edits \cup {Nobody} :
          /\ parent # Nobody => comment[parent].st = "live" /\ comment[parent].product = p
          /\ Begins(k, "done", job, p, <<"none", 0>>)
          /\ comment' = [comment EXCEPT ![k] = [st |-> "live", product |-> p, parent |-> parent, shown |-> FALSE]]
    BY <1>3 DEF Comment
  <2>1. edit'[k].pc = "done"
    BY <1>1 DEF Begins, BeginsAs
  <2>2. /\ comment'[k].st = "live" /\ comment'[k].product = p /\ comment'[k].parent = parent
        /\ \A c \in Edits \ {k} : comment'[c] = comment[c]
    BY <1>1
  <2> QED
    BY <1>3, <2>1, <2>2 DEF CommentStep, SameComment
<1>4. CASE Moderate(k, job)
  <2> PICK c \in Edits :
          /\ comment[c].st = "live"
          /\ comment' = [comment EXCEPT ![c] =
                 IF job.op = "uncomment" THEN [@ EXCEPT !.st = "deleted"]
                 ELSE [@ EXCEPT !.shown = (job.op = "approve")]]
    BY <1>4 DEF Moderate
  <2>1. comment[c] \in CommentRecord
    BY <1>1
  <2>2. CASE job.op = "uncomment"
    BY <1>1, <2>1, <2>2 DEF CommentStep, SameComment, CommentRecord
  <2>3. CASE job.op # "uncomment"
    <3> DEFINE shown == (job.op = "approve")
    <3>1. comment' = [comment EXCEPT ![c] = [@ EXCEPT !.shown = shown]]
      BY <2>3
    <3> HIDE DEF shown
    <3> QED
      BY <1>1, <2>1, <3>1 DEF CommentStep, SameComment, CommentRecord
  <2> QED
    BY <2>2, <2>3
<1>5. CASE LooksUp(k, job) \/ RemoveProduct(k, job) \/ RemoveReview(k, job) \/ RemoveEntry(k, job)
  BY <1>2, <1>5 DEF LooksUp, CreateProduct, UpdateProduct, Review, CreateEntry, RenameEntry, RemoveProduct,
     RemoveReview, RemoveEntry
<1>6. CASE GoesOn(k)
  BY <1>2, <1>6 DEF GoesOn, InsertProduct, ClearGallery, AddPicture, PicturesDone, SaveProduct, WriteReview,
     ReadAverage, WriteRating, WriteEntry, EditFails
<1> QED
  BY <1>3, <1>4, <1>5, <1>6 DEF StepOf, WritesAtOnce

LEMMA EntriesStep ==
  ASSUME RowTypes, CallsAreAt, NEW k \in Edits, NEW job, StepOf(k, job)
  PROVE  EntryStep(k)
<1>1. entry \in [Edits -> EntryRecord] /\ edit \in [Edits -> EditRecord]
  BY DEF RowTypes
<1>2. CASE UNCHANGED entry
  BY <1>2 DEF EntryStep
<1>3. CASE RemoveEntry(k, job)
  <2> PICK e \in Edits : /\ entry[e].st = "live" /\ entry' = [entry EXCEPT ![e].st = "deleted"]
                         /\ Begins(k, "done", job, e, <<"none", 0>>)
    BY <1>3 DEF RemoveEntry
  <2>1. edit'[k].pc = "done"
    BY <1>1 DEF Begins, BeginsAs
  <2> QED
    BY <1>1, <2>1 DEF EntryStep, EntryRecord
<1>4. CASE WriteEntry(k)
  <2> DEFINE e == edit[k].row
             row == [st |-> IF edit[k].job.op = "enter" THEN "live" ELSE entry[e].st, table |-> edit[k].job.table,
                     slug |-> edit[k].job.name, named |-> edit[k].claims]
  <2>1. edit[k].pc \in {"enter", "rename"} /\ entry' = [entry EXCEPT ![e] = row]
    BY <1>4 DEF WriteEntry
  <2>2. row.table = edit[k].job.table /\ row.slug = edit[k].job.name /\ row.named = edit[k].claims
    OBVIOUS
  <2> HIDE DEF row
  <2> QED
    BY <1>1, <2>1, <2>2 DEF EntryStep
<1>5. CASE \/ LooksUp(k, job) \/ RemoveProduct(k, job) \/ RemoveReview(k, job) \/ Comment(k, job) \/ Moderate(k, job)
  BY <1>2, <1>5 DEF LooksUp, CreateProduct, UpdateProduct, Review, CreateEntry, RenameEntry, RemoveProduct,
     RemoveReview, Comment, Moderate
<1>6. CASE \/ InsertProduct(k) \/ ClearGallery(k) \/ AddPicture(k) \/ PicturesDone(k) \/ SaveProduct(k)
           \/ WriteReview(k) \/ ReadAverage(k) \/ WriteRating(k) \/ EditFails(k)
  BY <1>2, <1>6 DEF InsertProduct, ClearGallery, AddPicture, PicturesDone, SaveProduct, WriteReview, ReadAverage,
     WriteRating, EditFails
<1> QED
  BY <1>3, <1>4, <1>5, <1>6 DEF StepOf, GoesOn, WritesAtOnce

LEMMA RatingsStep ==
  ASSUME RowTypes, CallsAreAt, NEW k \in Edits, NEW job, StepOf(k, job)
  PROVE  RatedStep(k)
<1>1. product \in [Edits -> ProductRecord] /\ edit[k] \in EditRecord /\ edit \in [Edits -> EditRecord]
  BY DEF RowTypes
<1>2. ASSUME \A p \in Edits : product'[p].rated = Nobody
                \/ (product'[p].rated = product[p].rated /\ product'[p].rating = product[p].rating),
             edit[k].pc \notin {"average", "rate"}
      PROVE  RatedStep(k)
  BY <1>2 DEF RatedStep
<1>3. CASE InsertProduct(k)
  <2>1. product' = [product EXCEPT ![k] = [NoProduct EXCEPT !.st = "live", !.slug = edit[k].slug, !.named = k]]
        /\ edit[k].pc = "insert"
    BY <1>3 DEF InsertProduct
  <2>2. product'[k].rated = Nobody /\ \A p \in Edits \ {k} : product'[p] = product[p]
    BY <1>1, <2>1 DEF NoProduct
  <2>3. \A p \in Edits : product'[p].rated = Nobody
            \/ (product'[p].rated = product[p].rated /\ product'[p].rating = product[p].rating)
    BY <2>2
  <2>4. edit[k].pc \notin {"average", "rate"}
    BY <2>1
  <2> QED
    BY <1>2, <2>3, <2>4
<1>4. CASE SaveProduct(k)
  <2>1. edit[k].row \in Edits /\ edit[k].pc = "save"
    BY <1>4 DEF SaveProduct, CallsAreAt
  <2>2. product[edit[k].row] \in ProductRecord
    BY <1>1, <2>1
  <2>3. \/ product' = product
        \/ product' = [product EXCEPT ![edit[k].row] = [@ EXCEPT !.slug = edit[k].slug, !.named = k]]
    BY <1>4 DEF SaveProduct
  <2> QED
    <3>1. \A p \in Edits : product'[p].rated = product[p].rated /\ product'[p].rating = product[p].rating
      <4>1. CASE product' = product
        BY <4>1
      <4>2. CASE product' = [product EXCEPT ![edit[k].row] = [@ EXCEPT !.slug = edit[k].slug, !.named = k]]
        <5>1. \A p \in Edits \ {edit[k].row} : product'[p] = product[p]
          BY <1>1, <4>2
        <5>2. product'[edit[k].row] = [product[edit[k].row] EXCEPT !.slug = edit[k].slug, !.named = k]
          BY <1>1, <2>1, <4>2
        <5>3. /\ product'[edit[k].row].rated = product[edit[k].row].rated
              /\ product'[edit[k].row].rating = product[edit[k].row].rating
          BY <2>2, <5>2 DEF ProductRecord
        <5> QED
          BY <5>1, <5>3
      <4> QED
        BY <2>3, <4>1, <4>2
    <3>2. edit[k].pc \notin {"average", "rate"}
      BY <2>1
    <3> QED
      BY <1>2, <3>1, <3>2
<1>5. CASE edit[k].pc = "new" /\ RemoveProduct(k, job)
  <2> PICK p \in Edits : product' = [product EXCEPT ![p].st = "deleted"]
    BY <1>5 DEF RemoveProduct
  <2> QED
    BY <1>1, <1>2, <1>5 DEF ProductRecord
<1>6. CASE edit[k].pc = "new" /\ RemoveReview(k, job)
  <2> PICK r : product' = [product EXCEPT ![r].rated = Nobody]
    BY <1>6 DEF RemoveReview
  <2> QED
    BY <1>1, <1>2, <1>6 DEF ProductRecord
<1>7. CASE WriteRating(k)
  <2>1. edit[k].row \in Edits /\ edit[k].pc = "rate"
    BY <1>7 DEF WriteRating, CallsAreAt
  <2>2. product[edit[k].row] \in ProductRecord
    BY <1>1, <2>1
  <2>3. product' = [product EXCEPT ![edit[k].row] = [@ EXCEPT !.rating = edit[k].value, !.rated = k]]
    BY <1>7 DEF WriteRating
  <2>4. edit'[k].pc = "done"
    BY <1>1, <1>7 DEF WriteRating, Goes, EditRecord
  <2>5. /\ product'[edit[k].row].rated = k /\ product'[edit[k].row].rating = edit[k].value
        /\ \A p \in Edits \ {edit[k].row} : product'[p] = product[p]
    BY <1>1, <2>1, <2>2, <2>3 DEF ProductRecord
  <2> QED
    BY <2>1, <2>4, <2>5 DEF RatedStep
<1>8. CASE ReadAverage(k)
  <2> DEFINE v == Average(StarsOf(edit[k].row))
             S == ReviewsOf(edit[k].row)
  <2>1. edit[k].pc = "average" /\ product' = product
        /\ edit' = [edit EXCEPT ![k] = IF S = {} THEN [@ EXCEPT !.pc = "done"]
                                       ELSE [@ EXCEPT !.pc = "rate", !.value = v]]
    BY <1>8 DEF ReadAverage
  <2>2. IF S = {} THEN edit'[k].pc = "done" ELSE edit'[k].pc = "rate" /\ edit'[k].value = v
    <3> HIDE DEF v, S
    <3> QED
      BY <1>1, <2>1 DEF EditRecord
  <2> QED
    BY <2>1, <2>2 DEF RatedStep
<1>9. CASE EditFails(k)
  <2>1. edit[k].pc # "pictures" => edit'[k].pc = "done"
    BY <1>1, <1>9 DEF EditFails, Goes, EditRecord
  <2>2. CASE edit[k].pc \in {"average", "rate"}
    <3>1. edit[k].row \in Edits /\ product' = [product EXCEPT ![edit[k].row].rated = Nobody]
      BY <1>9, <2>2 DEF EditFails, CallsAreAt
    <3>2. /\ product'[edit[k].row].rated = Nobody
          /\ \A p \in Edits \ {edit[k].row} : product'[p] = product[p]
      BY <1>1, <3>1 DEF ProductRecord
    <3> QED
      BY <2>1, <2>2, <3>1, <3>2 DEF RatedStep
  <2>3. CASE edit[k].pc \notin {"average", "rate"}
    BY <1>2, <1>9, <2>3 DEF EditFails
  <2> QED
    BY <2>2, <2>3
<1>10. CASE edit[k].pc = "new" /\ (LooksUp(k, job) \/ Comment(k, job) \/ Moderate(k, job) \/ RemoveEntry(k, job))
  BY <1>2, <1>10 DEF LooksUp, CreateProduct, UpdateProduct, Review, CreateEntry, RenameEntry, Comment, Moderate,
     RemoveEntry
<1>11. CASE ClearGallery(k) \/ AddPicture(k) \/ PicturesDone(k) \/ WriteReview(k) \/ WriteEntry(k)
  BY <1>2, <1>11 DEF ClearGallery, AddPicture, PicturesDone, WriteReview, WriteEntry
<1> QED
  BY <1>3, <1>4, <1>5, <1>6, <1>7, <1>8, <1>9, <1>10, <1>11 DEF StepOf, GoesOn, WritesAtOnce

CatalogueStep(k) ==
    /\ Moves(k) /\ EditStep(k) /\ ProductStep(k) /\ GalleryStep(k) /\ ReviewStep(k)
    /\ CommentStep(k) /\ EntryStep(k) /\ RatedStep(k)

LEMMA StepsAreKnown ==
  ASSUME RowTypes, CallsAreAt, FoundReviews, BusyHaveMet, CatalogueNext
  PROVE  /\ RowTypes' /\ BusyHaveMet'
         /\ \E k \in Edits : CatalogueStep(k)
<1> PICK k \in Edits : \E job : StepOf(k, job)
  BY StepsAreOfCalls
<1> PICK job : StepOf(k, job)
  OBVIOUS
<1>1. RowTypes'
  BY RowTypesStay
<1>2. Moves(k) /\ BusyHaveMet'
  BY AllMove
<1>3. EditStep(k) /\ ProductStep(k) /\ GalleryStep(k)
  BY CallsStep, ProductsStep, PicturesStep
<1>4. ReviewStep(k) /\ CommentStep(k)
  BY ReviewsStep, CommentsStep
<1>5. EntryStep(k) /\ RatedStep(k)
  BY EntriesStep, RatingsStep
<1> QED
  BY <1>1, <1>2, <1>3, <1>4, <1>5 DEF CatalogueStep

\* A row that is made stays, with its product and its parent, and only the call that
\* makes it makes it.
LEMMA RowsRemain ==
  ASSUME RowTypes, CallsAreAt, FoundReviews, NEW k \in Edits, CatalogueStep(k)
  PROVE  /\ \A p \in Edits : /\ product[p].st # "none" => product'[p].st # "none"
                             /\ product'[p].st # "none" /\ product[p].st = "none" => p = k /\ edit[k].pc = "insert"
         /\ \A r \in Edits : /\ review[r].st # "none" =>
                                    review'[r].st # "none" /\ review'[r].product = review[r].product
                             /\ review'[r].st # "none" /\ review[r].st = "none" =>
                                    r = k /\ edit[k].pc = "write" /\ edit'[k].pc = "average"
         /\ \A c \in Edits : /\ comment[c].st # "none" =>
                                    /\ comment'[c].st # "none" /\ comment'[c].product = comment[c].product
                                    /\ comment'[c].parent = comment[c].parent
                             /\ comment'[c].st # "none" /\ comment[c].st = "none" =>
                                    c = k /\ edit[k].pc = "new" /\ edit'[k].pc = "done"
<1>1. \A p \in Edits : /\ product[p].st # "none" => product'[p].st # "none"
                       /\ product'[p].st # "none" /\ product[p].st = "none" => p = k /\ edit[k].pc = "insert"
  BY DEF CatalogueStep, ProductStep, SameProduct
<1>2. \A r \in Edits : /\ review[r].st # "none" =>
                              review'[r].st # "none" /\ review'[r].product = review[r].product
                       /\ review'[r].st # "none" /\ review[r].st = "none" =>
                              r = k /\ edit[k].pc = "write" /\ edit'[k].pc = "average"
  <2>1. review[k].st # "none" => edit[k].pc # "write"
    BY DEF CallsAreAt
  <2>2. ASSUME edit[k].pc = "write", edit[k].job.found # Nobody
        PROVE  edit[k].job.found \in Edits /\ review[edit[k].job.found].st # "none"
    BY <2>2 DEF FoundReviews
  <2>3. Nobody \notin Edits
    BY CatalogueAssumption
  <2> QED
    BY <2>1, <2>2, <2>3 DEF CatalogueStep, ReviewStep, SameReview
<1>3. \A c \in Edits : /\ comment[c].st # "none" =>
                              /\ comment'[c].st # "none" /\ comment'[c].product = comment[c].product
                              /\ comment'[c].parent = comment[c].parent
                       /\ comment'[c].st # "none" /\ comment[c].st = "none" =>
                              c = k /\ edit[k].pc = "new" /\ edit'[k].pc = "done"
  <2>1. comment[k].st # "none" => edit[k].pc # "new"
    BY DEF CallsAreAt
  <2> QED
    BY <2>1 DEF CatalogueStep, CommentStep, SameComment
<1> QED
  BY <1>1, <1>2, <1>3

LEMMA PlacesStay ==
  ASSUME RowTypes, CallsAreAt, FoundReviews, NEW k \in Edits, CatalogueStep(k)
  PROVE  CallsAreAt' /\ FoundReviews'
<1>1. \A j \in Edits \ {k} : edit'[j] = edit[j]
  BY DEF CatalogueStep, Moves
<1>2. /\ edit[k].pc # "new" => /\ edit'[k].job = edit[k].job /\ edit'[k].row = edit[k].row
                               /\ edit'[k].claims = edit[k].claims
      /\ edit'[k].pc # "new" /\ edit[k].pc # "done"
  BY DEF CatalogueStep, Moves, Busy
<1>3. EditStep(k)
  BY DEF CatalogueStep
<1> DEFINE Standing(j) ==
        LET e == edit[j] IN
        /\ e.pc = "insert" => e.job.op = "create" /\ e.row = j
        /\ e.pc \in {"clear", "save"} => e.job.op = "update"
        /\ e.pc \in {"pictures", "failed"} => e.job.op = "update" \/ e.job.op = "create"
        /\ e.pc \in {"clear", "pictures", "failed", "save"} => e.row \in Edits /\ product[e.row].st # "none"
        /\ e.pc \in {"write", "average", "rate"} => e.job.op = "review" /\ e.row \in Edits
        /\ e.pc = "enter" => e.job.op = "enter" /\ e.row = j
        /\ e.pc = "rename" => e.job.op = "rename" /\ e.row \in Edits
        /\ e.pc = "new" => e.job.op = "none"
        /\ e.pc # "new" => j \in e.claims
        /\ e.job.op = "unreview" => e.row \in Edits /\ review[e.row].st # "none"
        /\ product[j].st # "none" => e.pc \notin {"new", "insert"}
        /\ review[j].st # "none" => e.pc \in {"average", "rate", "done"}
        /\ comment[j].st # "none" => e.pc = "done"
<1>4. \A j \in Edits : Standing(j)
  BY DEF CallsAreAt
<1>5. ASSUME NEW j \in Edits \ {k} PROVE Standing(j)'
  BY <1>1, <1>4, <1>5, RowsRemain
<1>6. Standing(k)'
  <2>1. CASE edit[k].pc = "new"
    <3>1. LookedUpFirst(k) /\ k \in edit'[k].claims
      BY <1>3, <2>1 DEF EditStep
    <3>2. product[k].st = "none" /\ review[k].st = "none" /\ comment[k].st = "none"
      BY <1>4, <2>1
    <3>3. product'[k].st = "none" /\ review'[k].st = "none" /\ (comment'[k].st # "none" => edit'[k].pc = "done")
      BY <2>1, <3>2, RowsRemain
    <3>4. (\A p \in LiveProducts : p \in Edits /\ product'[p].st # "none")
          /\ \A r \in LiveReviews : r \in Edits /\ review'[r].st # "none"
      BY RowsRemain DEF LiveProducts, LiveReviews
    <3> QED
      BY <1>2, <3>1, <3>3, <3>4 DEF LookedUpFirst
  <2>2. CASE edit[k].pc # "new"
    <3>1. /\ comment[k].st = "none" /\ comment'[k].st = "none"
          /\ product'[k].st # "none" => product[k].st # "none" \/ edit[k].pc = "insert"
          /\ review'[k].st # "none" => review[k].st # "none" \/ edit'[k].pc = "average"
      BY <1>2, <1>4, <2>2, RowsRemain
    <3>2. /\ product[k].st # "none" => edit[k].pc # "insert"
          /\ review[k].st # "none" => edit[k].pc \in {"average", "rate"}
          /\ edit[k].pc = "insert" => edit[k].row = k /\ edit[k].job.op = "create"
      BY <1>2, <1>4, <2>2
    <3>3. edit'[k].pc \notin {"new", "insert"} /\ (review[k].st # "none" => edit'[k].pc \in {"average", "rate", "done"})
      BY <1>2, <1>3, <2>2, <3>2 DEF EditStep
    <3>4. edit[k].row \in Edits => /\ product[edit[k].row].st # "none" => product'[edit[k].row].st # "none"
                                   /\ review[edit[k].row].st # "none" => review'[edit[k].row].st # "none"
      BY RowsRemain
    <3>5. edit[k].pc \in {"clear", "pictures", "failed", "save"} => edit[k].row \in Edits /\ product[edit[k].row].st # "none"
      BY <1>4
    <3>6. edit[k].job.op = "unreview" => edit[k].row \in Edits /\ review[edit[k].row].st # "none"
      BY <1>4
    <3>7. edit'[k].pc \in {"write", "average", "rate"} => edit[k].job.op = "review" /\ edit[k].row \in Edits
      BY <1>3, <1>4, <2>2 DEF EditStep
    <3>8. edit'[k].pc \in {"pictures", "failed", "save"} =>
              /\ edit[k].row \in Edits /\ product'[edit[k].row].st # "none"
              /\ edit[k].job.op = "update" \/ (edit'[k].pc \in {"pictures", "failed"} /\ edit[k].job.op = "create")
      <4>1. CASE edit[k].pc = "insert"
        BY <1>3, <3>2, <4>1 DEF EditStep
      <4>2. CASE edit[k].pc \in {"clear", "pictures", "failed"}
        <5>1. edit[k].job.op = "update" \/ (edit[k].job.op = "create" /\ edit[k].pc \in {"pictures", "failed"})
          BY <1>4, <4>2
        <5> QED
          BY <1>3, <3>4, <3>5, <4>2, <5>1 DEF EditStep
      <4> QED
        BY <1>3, <2>2, <4>1, <4>2 DEF EditStep
    <3>9. edit'[k].pc \notin {"clear", "enter", "rename"} /\ k \in edit'[k].claims
      BY <1>2, <1>3, <1>4, <2>2 DEF EditStep
    <3> QED
      BY <1>2, <2>2, <3>1, <3>2, <3>3, <3>4, <3>6, <3>7, <3>8, <3>9
  <2> QED
    BY <2>1, <2>2
<1>7. CallsAreAt'
  BY <1>5, <1>6 DEF CallsAreAt
<1>8. FoundReviews'
  <2> DEFINE Found(j) == edit[j].pc = "write" =>
                 \/ edit[j].job.found = Nobody
                 \/ /\ edit[j].job.found \in Edits \ {j} /\ review[edit[j].job.found].st # "none"
                    /\ review[edit[j].job.found].product = edit[j].row
  <2>1. ASSUME NEW j \in Edits \ {k} PROVE Found(j)'
    BY <1>1, <2>1, RowsRemain DEF FoundReviews
  <2>2. Found(k)'
    <3> SUFFICES ASSUME edit'[k].pc = "write", edit'[k].job.found # Nobody
                 PROVE  /\ edit'[k].job.found \in Edits \ {k} /\ review'[edit'[k].job.found].st # "none"
                        /\ review'[edit'[k].job.found].product = edit'[k].row
      OBVIOUS
    <3>1. edit[k].pc = "new" /\ edit'[k].job.found \in LiveReviews /\ review[edit'[k].job.found].product = edit'[k].row
      BY <1>3 DEF EditStep, LookedUpFirst
    <3>2. review[k].st = "none"
      BY <1>4, <3>1
    <3> QED
      BY <3>1, <3>2, RowsRemain DEF LiveReviews
  <2> QED
    BY <2>1, <2>2 DEF FoundReviews
<1> QED
  BY <1>7, <1>8

LEMMA RowsBelong ==
  ASSUME RowTypes, CallsAreAt, FoundReviews, PicturesOfProducts, ParentsBelong, NEW k \in Edits, CatalogueStep(k)
  PROVE  PicturesOfProducts' /\ ParentsBelong'
<1>1. PicturesOfProducts'
  <2> SUFFICES ASSUME NEW g \in gallery' PROVE product'[g.product].st # "none"
    BY DEF PicturesOfProducts
  <2>1. CASE g \in gallery
    BY <2>1, RowsRemain DEF PicturesOfProducts, RowTypes, PictureRecord
  <2>2. CASE g \notin gallery
    <3>1. edit[k].pc \in {"pictures", "failed"} /\ g.product = edit[k].row
      BY <2>2 DEF CatalogueStep, GalleryStep
    <3> QED
      BY <3>1, RowsRemain DEF CallsAreAt
  <2> QED
    BY <2>1, <2>2
<1>2. ParentsBelong'
  <2> SUFFICES ASSUME NEW r \in Edits, comment'[r].st # "none", comment'[r].parent # Nobody
               PROVE  /\ comment'[r].parent \in Edits /\ comment'[comment'[r].parent].st # "none"
                      /\ comment'[comment'[r].parent].product = comment'[r].product
    BY DEF ParentsBelong
  <2>1. CASE comment[r].st # "none"
    <3>1. comment'[r].product = comment[r].product /\ comment'[r].parent = comment[r].parent
      BY <2>1, RowsRemain
    <3>2. /\ comment[r].parent \in Edits /\ comment[comment[r].parent].st # "none"
          /\ comment[comment[r].parent].product = comment[r].product
      BY <2>1, <3>1 DEF ParentsBelong
    <3> QED
      BY <3>1, <3>2, RowsRemain
  <2>2. CASE comment[r].st = "none"
    <3>1. /\ comment'[r].parent \in Edits /\ comment[comment'[r].parent].st = "live"
          /\ comment[comment'[r].parent].product = comment'[r].product
      BY <2>2 DEF CatalogueStep, CommentStep, SameComment
    <3> QED
      BY <3>1, RowsRemain
  <2> QED
    BY <2>1, <2>2
<1> QED
  BY <1>1, <1>2

\* What a call does to keys: rows keep their keys, or go, or the call writes the key it
\* wants into its own row; and a call that wants a key has just not found it elsewhere,
\* or has found it in a row whose givers it claims it with.
KeysStep(L, key, by, P, want, own, claims, pairs, L2, key2, by2, P2, want2, own2, claims2, pairs2, k) ==
    /\ pairs \subseteq pairs2
    /\ \A j \in P : HaveMet(k, j, pairs2) /\ HaveMet(j, k, pairs2) /\ j \in claims[j]
    /\ \A p \in L2 : \/ p \in L /\ key2[p] = key[p] /\ by2[p] = by[p]
                     \/ k \in P /\ by2[p] = claims[k] /\ key2[p] = want[k] /\ own[k] \subseteq {p}
    /\ \A j \in P2 : \/ j \in P /\ want2[j] = want[j] /\ own2[j] = own[j] /\ claims2[j] = claims[j]
                     \/ \A q \in L2 \ own2[j] : key2[q] # want2[j]
                     \/ \E p \in L2 : key2[p] = want2[j] /\ by2[p] \subseteq claims2[j]

LEMMA KeysStayApart ==
  ASSUME NEW L, NEW key, NEW by, NEW P, NEW want, NEW own, NEW claims, NEW pairs,
         NEW L2, NEW key2, NEW by2, NEW P2, NEW want2, NEW own2, NEW claims2, NEW pairs2, NEW k,
         KeysApart(L, key, by, P, want, own, claims, pairs),
         KeysStep(L, key, by, P, want, own, claims, pairs, L2, key2, by2, P2, want2, own2, claims2, pairs2, k)
  PROVE  KeysApart(L2, key2, by2, P2, want2, own2, claims2, pairs2)
<1> DEFINE Old(p) == p \in L /\ key2[p] = key[p] /\ by2[p] = by[p]
           New(p) == k \in P /\ by2[p] = claims[k] /\ key2[p] = want[k] /\ own[k] \subseteq {p}
<1>1. \A p \in L2 : Old(p) \/ New(p)
  BY DEF KeysStep
<1>2. \A I, J : SomeMet(I, J, pairs) => SomeMet(I, J, pairs2)
  BY DEF KeysStep, HaveMet, SomeMet
<1>3. \A I, J : SomeMet(I, J, pairs2) => SomeMet(J, I, pairs2)
  <2>1. \A i, j : {i, j} = {j, i}
    OBVIOUS
  <2> QED
    BY <2>1 DEF HaveMet, SomeMet
<1>0. \A j \in P : j \in claims[j] /\ HaveMet(j, k, pairs2)
  BY DEF KeysStep
<1>4. ASSUME NEW p \in L2, NEW q \in L2, key2[p] = key2[q] PROVE SomeMet(by2[p], by2[q], pairs2)
  <2>1. CASE Old(p) /\ Old(q)
    BY <1>2, <1>4, <2>1 DEF KeysApart
  <2>2. CASE New(p) /\ New(q)
    BY <1>0, <2>2 DEF HaveMet, SomeMet
  <2>3. ASSUME NEW x \in L2, NEW y \in L2, Old(x), New(y), key2[x] = key2[y], x # y
        PROVE  SomeMet(claims[k], by2[x], pairs2)
    BY <1>2, <2>3 DEF KeysApart
  <2>4. CASE p = q
    BY <1>1, <2>1, <2>2, <2>4
  <2> QED
    BY <1>1, <1>3, <1>4, <2>1, <2>2, <2>3, <2>4
<1>5. ASSUME NEW j \in P2, NEW q \in L2 \ own2[j], key2[q] = want2[j] PROVE SomeMet(claims2[j], by2[q], pairs2)
  <2>1. CASE j \in P /\ want2[j] = want[j] /\ own2[j] = own[j] /\ claims2[j] = claims[j]
    <3>1. CASE Old(q)
      BY <1>2, <1>5, <2>1, <3>1 DEF KeysApart
    <3>2. CASE New(q)
      BY <1>0, <2>1, <3>2 DEF SomeMet
    <3> QED
      BY <1>1, <3>1, <3>2
  <2>2. CASE \E p \in L2 : key2[p] = want2[j] /\ by2[p] \subseteq claims2[j]
    <3> PICK p \in L2 : key2[p] = want2[j] /\ by2[p] \subseteq claims2[j]
      BY <2>2
    <3>1. SomeMet(by2[p], by2[q], pairs2)
      BY <1>4, <1>5
    <3> QED
      BY <3>1 DEF SomeMet
  <2> QED
    BY <1>5, <2>1, <2>2 DEF KeysStep
<1> QED
  BY <1>4, <1>5 DEF KeysApart

LEMMA SlugsStayApart ==
  ASSUME RowTypes, CallsAreAt, SlugsApart, NEW k \in Edits, CatalogueStep(k)
  PROVE  SlugsApart'
<1> DEFINE L == LiveProducts
           key == [p \in Edits |-> product[p].slug]
           by == [p \in Edits |-> {product[p].named}]
           P == Naming
           want == [j \in Edits |-> edit[j].slug]
           own == [j \in Edits |-> {edit[j].row}]
           claims == [j \in Edits |-> {j}]
<1>1. together \subseteq together' /\ \A j \in P : HaveMet(k, j, together') /\ HaveMet(j, k, together') /\ j \in claims[j]
  BY DEF CatalogueStep, Moves, Busy, Naming
<1>2. \A p \in L' : \/ p \in L /\ key'[p] = key[p] /\ by'[p] = by[p]
                    \/ k \in P /\ by'[p] = claims[k] /\ key'[p] = want[k] /\ own[k] \subseteq {p}
  <2> SUFFICES ASSUME NEW p \in Edits, product'[p].st = "live"
               PROVE  \/ product[p].st = "live" /\ SameProduct(p)
                      \/ /\ k \in Naming /\ product'[p].named = k /\ product'[p].slug = edit[k].slug
                         /\ edit[k].row = p
    BY DEF LiveProducts, SameProduct
  <2> QED
    BY DEF CatalogueStep, ProductStep, SameProduct, Naming, CallsAreAt
<1>3. \A j \in P' : \/ j \in P /\ want'[j] = want[j] /\ own'[j] = own[j] /\ claims'[j] = claims[j]
                    \/ \A q \in L' \ own'[j] : key'[q] # want'[j]
  <2> SUFFICES ASSUME NEW j \in Edits, j \in Naming'
               PROVE  \/ j \in Naming /\ edit'[j].slug = edit[j].slug /\ edit'[j].row = edit[j].row
                      \/ j = k /\ \A q \in LiveProducts' : q # edit'[j].row => product'[q].slug # edit'[j].slug
    BY DEF LiveProducts, Naming
  <2>1. CASE j # k
    BY <2>1 DEF CatalogueStep, Moves, Naming
  <2>2. CASE j = k /\ edit[k].pc = "new"
    <3>1. LookedUpFirst(k)
      BY <2>2 DEF CatalogueStep, EditStep
    <3>2. \A q \in LiveProducts' : q \in LiveProducts /\ product'[q].slug = product[q].slug
      BY <2>2 DEF CatalogueStep, ProductStep, SameProduct, LiveProducts
    <3> QED
      BY <2>2, <3>1, <3>2 DEF LookedUpFirst, Naming
  <2>3. CASE j = k /\ edit[k].pc # "new"
    <3>1. edit'[k].job = edit[k].job /\ edit'[k].row = edit[k].row /\ edit'[k].slug = edit[k].slug
      BY <2>3 DEF CatalogueStep, Moves
    <3>2. EditStep(k) /\ (edit[k].pc = "insert" => edit[k].job.op = "create")
      BY DEF CatalogueStep, CallsAreAt
    <3> QED
      BY <2>3, <3>1, <3>2 DEF EditStep, Naming
  <2> QED
    BY <2>1, <2>2, <2>3
<1>4. KeysApart(L, key, by, P, want, own, claims, together)
  BY DEF SlugsApart
<1>5. KeysStep(L, key, by, P, want, own, claims, together, L', key', by', P', want', own', claims', together', k)
  <2> HIDE DEF L, key, by, P, want, own, claims
  <2> QED
    BY <1>1, <1>2, <1>3 DEF KeysStep
<1>6. KeysApart(L', key', by', P', want', own', claims', together')
  <2> HIDE DEF L, key, by, P, want, own, claims
  <2> QED
    BY <1>4, <1>5, KeysStayApart
<1> QED
  BY <1>6 DEF SlugsApart

LEMMA EntriesStayApart ==
  ASSUME RowTypes, CallsAreAt, EntriesApart, NEW k \in Edits, CatalogueStep(k)
  PROVE  EntriesApart'
<1> DEFINE L == LiveEntries
           key == [e \in Edits |-> <<entry[e].table, entry[e].slug>>]
           by == [e \in Edits |-> entry[e].named]
           P == Entering
           want == [j \in Edits |-> <<edit[j].job.table, edit[j].job.name>>]
           own == [j \in Edits |-> {edit[j].row}]
           claims == [j \in Edits |-> edit[j].claims]
<1>1. /\ together \subseteq together'
      /\ \A j \in P : HaveMet(k, j, together') /\ HaveMet(j, k, together') /\ j \in claims[j]
  BY DEF CatalogueStep, Moves, Busy, Entering, CallsAreAt
<1>2. \A p \in L' : \/ p \in L /\ key'[p] = key[p] /\ by'[p] = by[p]
                    \/ k \in P /\ by'[p] = claims[k] /\ key'[p] = want[k] /\ own[k] \subseteq {p}
  <2> SUFFICES ASSUME NEW p \in Edits, entry'[p].st = "live", entry'[p].table # "role"
               PROVE  \/ entry'[p] = entry[p]
                      \/ /\ k \in Entering /\ entry'[p].named = edit[k].claims /\ edit[k].row = p
                         /\ entry'[p].table = edit[k].job.table /\ entry'[p].slug = edit[k].job.name
    BY DEF LiveEntries
  <2> QED
    BY DEF CatalogueStep, EntryStep, Entering
<1>3. \A j \in P' : \/ j \in P /\ want'[j] = want[j] /\ own'[j] = own[j] /\ claims'[j] = claims[j]
                    \/ \A q \in L' \ own'[j] : key'[q] # want'[j]
                    \/ \E p \in L' : key'[p] = want'[j] /\ by'[p] \subseteq claims'[j]
  <2> SUFFICES ASSUME NEW j \in Edits, j \in Entering'
               PROVE  \/ /\ j \in Entering /\ edit'[j].claims = edit[j].claims
                         /\ edit'[j].job = edit[j].job /\ edit'[j].row = edit[j].row
                      \/ \A q \in LiveEntries' : q # edit'[j].row =>
                             <<entry'[q].table, entry'[q].slug>> # <<edit'[j].job.table, edit'[j].job.name>>
                      \/ \E p \in LiveEntries' :
                             /\ <<entry'[p].table, entry'[p].slug>> = <<edit'[j].job.table, edit'[j].job.name>>
                             /\ entry'[p].named \subseteq edit'[j].claims
    BY DEF LiveEntries, Entering
  <2>1. CASE j # k
    BY <2>1 DEF CatalogueStep, Moves, Entering
  <2>2. CASE j = k /\ edit[k].pc = "new"
    <3>1. LookedUpFirst(k)
      BY <2>2 DEF CatalogueStep, EditStep
    <3>2. \A q \in LiveEntries' : q \in LiveEntries /\ entry'[q] = entry[q]
      BY <2>2 DEF CatalogueStep, EntryStep, LiveEntries
    <3>3. ASSUME \A q \in LiveEntries \ {edit'[k].row} :
                    <<entry[q].table, entry[q].slug>> # <<edit'[k].job.table, edit'[k].job.name>>
          PROVE  \A q \in LiveEntries' : q # edit'[k].row =>
                    <<entry'[q].table, entry'[q].slug>> # <<edit'[k].job.table, edit'[k].job.name>>
      BY <3>2, <3>3
    <3>4. edit'[k].pc = "rename" => \A p \in LiveEntries : p \in LiveEntries' /\ entry'[p] = entry[p]
      BY <2>2 DEF CatalogueStep, EntryStep, LiveEntries
    <3> QED
      BY <2>2, <3>1, <3>3, <3>4 DEF LookedUpFirst, Entering
  <2>3. CASE j = k /\ edit[k].pc # "new"
    <3>1. EditStep(k) /\ edit[k].pc \notin {"new", "done"}
      BY <2>3 DEF CatalogueStep, Moves, Busy
    <3> QED
      BY <2>3, <3>1 DEF EditStep, Entering
  <2> QED
    BY <2>1, <2>2, <2>3
<1>4. KeysApart(L, key, by, P, want, own, claims, together)
  BY DEF EntriesApart
<1>5. KeysStep(L, key, by, P, want, own, claims, together, L', key', by', P', want', own', claims', together', k)
  <2> HIDE DEF L, key, by, P, want, own, claims
  <2> QED
    BY <1>1, <1>2, <1>3 DEF KeysStep
<1>6. KeysApart(L', key', by', P', want', own', claims', together')
  <2> HIDE DEF L, key, by, P, want, own, claims
  <2> QED
    BY <1>4, <1>5, KeysStayApart
<1> QED
  BY <1>6 DEF EntriesApart

LEMMA ReviewsStayApart ==
  ASSUME RowTypes, CallsAreAt, FoundReviews, ReviewsApart, NEW k \in Edits, CatalogueStep(k)
  PROVE  ReviewsApart'
<1> DEFINE L == LiveReviews
           key == [r \in Edits |-> <<review[r].product, review[r].user>>]
           by == [r \in Edits |-> {r}]
           P == Reviewing
           want == [j \in Edits |-> <<edit[j].row, edit[j].job.user>>]
           own == [j \in Edits |-> {}]
           claims == [j \in Edits |-> {j}]
<1>1. together \subseteq together' /\ \A j \in P : HaveMet(k, j, together') /\ HaveMet(j, k, together') /\ j \in claims[j]
  BY DEF CatalogueStep, Moves, Busy, Reviewing
<1>2. \A p \in L' : \/ p \in L /\ key'[p] = key[p] /\ by'[p] = by[p]
                    \/ k \in P /\ by'[p] = claims[k] /\ key'[p] = want[k] /\ own[k] \subseteq {p}
  <2> SUFFICES ASSUME NEW r \in Edits, review'[r].st = "live"
               PROVE  \/ SameReview(r) /\ review[r].st = "live"
                      \/ /\ k \in Reviewing /\ r = k
                         /\ review'[r].product = edit[k].row /\ review'[r].user = edit[k].job.user
    BY DEF LiveReviews, SameReview
  <2> QED
    BY DEF CatalogueStep, ReviewStep, SameReview, Reviewing
<1>3. \A j \in P' : \/ j \in P /\ want'[j] = want[j] /\ own'[j] = own[j] /\ claims'[j] = claims[j]
                    \/ \A q \in L' \ own'[j] : key'[q] # want'[j]
  <2> SUFFICES ASSUME NEW j \in Edits, j \in Reviewing'
               PROVE  \/ j \in Reviewing /\ edit'[j].job = edit[j].job /\ edit'[j].row = edit[j].row
                      \/ j = k /\ \A q \in LiveReviews' :
                             <<review'[q].product, review'[q].user>> # <<edit'[j].row, edit'[j].job.user>>
    BY DEF LiveReviews, Reviewing
  <2>1. CASE j # k
    BY <2>1 DEF CatalogueStep, Moves, Reviewing
  <2>2. CASE j = k /\ edit[k].pc = "new"
    <3>1. LookedUpFirst(k) /\ edit'[k].pc = "write" /\ edit'[k].job.found = Nobody
      BY <2>2 DEF CatalogueStep, EditStep, Reviewing
    <3>2. \A q \in LiveReviews' : q \in LiveReviews /\ review'[q] = review[q]
      BY <2>2 DEF CatalogueStep, ReviewStep, LiveReviews
    <3>3. \A r \in LiveReviews : <<review[r].product, review[r].user>> # <<edit'[k].row, edit'[k].job.user>>
      BY <3>1, CatalogueAssumption DEF LookedUpFirst, LiveReviews
    <3> QED
      BY <2>2, <3>2, <3>3
  <2>3. CASE j = k /\ edit[k].pc # "new"
    <3>1. EditStep(k)
      BY DEF CatalogueStep
    <3> QED
      BY <2>3, <3>1 DEF EditStep, Reviewing
  <2> QED
    BY <2>1, <2>2, <2>3
<1>4. KeysApart(L, key, by, P, want, own, claims, together)
  BY DEF ReviewsApart
<1>5. KeysStep(L, key, by, P, want, own, claims, together, L', key', by', P', want', own', claims', together', k)
  <2> HIDE DEF L, key, by, P, want, own, claims
  <2> QED
    BY <1>1, <1>2, <1>3 DEF KeysStep
<1>6. KeysApart(L', key', by', P', want', own', claims', together')
  <2> HIDE DEF L, key, by, P, want, own, claims
  <2> QED
    BY <1>4, <1>5, KeysStayApart
<1> QED
  BY <1>6 DEF ReviewsApart

LEMMA PicturesStayApart ==
  ASSUME RowTypes, RowTypes', CallsAreAt, PicturesOfProducts, PicturesApart, NEW k \in Edits, CatalogueStep(k)
  PROVE  PicturesApart'
<1> DEFINE L == gallery
           key == [g \in PictureRecord |-> g.product]
           by == [g \in PictureRecord |-> {g.by}]
           P == Picturing
           want == [j \in Edits |-> edit[j].row]
           own == [j \in Edits |-> {}]
           claims == [j \in Edits |-> {j}]
<1>1. together \subseteq together' /\ \A j \in P : HaveMet(k, j, together') /\ HaveMet(j, k, together') /\ j \in claims[j]
  BY DEF CatalogueStep, Moves, Busy, Picturing
<1>2. \A p \in L' : \/ p \in L /\ key'[p] = key[p] /\ by'[p] = by[p]
                    \/ k \in P /\ by'[p] = claims[k] /\ key'[p] = want[k] /\ own[k] \subseteq {p}
  BY DEF CatalogueStep, GalleryStep, RowTypes, Picturing
<1>3. \A j \in P' : \/ j \in P /\ want'[j] = want[j] /\ own'[j] = own[j] /\ claims'[j] = claims[j]
                    \/ \A q \in L' \ own'[j] : key'[q] # want'[j]
  <2> SUFFICES ASSUME NEW j \in Edits, j \in Picturing'
               PROVE  \/ j \in Picturing /\ edit'[j].row = edit[j].row
                      \/ j = k /\ \A g \in gallery' : g.product # edit'[j].row
    BY DEF Picturing, RowTypes
  <2>1. CASE j # k
    BY <2>1 DEF CatalogueStep, Moves, Picturing
  <2>2. CASE j = k /\ edit[k].pc = "new"
    BY <2>2 DEF CatalogueStep, EditStep, LookedUpFirst, Picturing
  <2>3. CASE j = k /\ edit[k].pc # "new"
    <3>1. EditStep(k) /\ edit'[k].row = edit[k].row /\ edit'[k].pc \in {"pictures", "failed"}
      BY <2>3 DEF CatalogueStep, Moves, Picturing
    <3>2. CASE edit[k].pc = "insert"
      <4>1. edit[k].row = k /\ product[k].st = "none"
        BY <3>2 DEF CallsAreAt
      <4>2. gallery' \subseteq gallery
        BY <3>2 DEF CatalogueStep, GalleryStep
      <4> QED
        BY <2>3, <3>1, <4>1, <4>2 DEF PicturesOfProducts
    <3>3. CASE edit[k].pc = "clear"
      <4>1. edit'[k].pc = "pictures"
        BY <3>1, <3>3 DEF EditStep
      <4> QED
        BY <2>3, <3>1, <3>3, <4>1 DEF CatalogueStep, GalleryStep
    <3> QED
      BY <2>3, <3>1, <3>2, <3>3 DEF EditStep, Picturing
  <2> QED
    BY <2>1, <2>2, <2>3
<1>4. KeysApart(L, key, by, P, want, own, claims, together)
  BY DEF PicturesApart
<1>5. KeysStep(L, key, by, P, want, own, claims, together, L', key', by', P', want', own', claims', together', k)
  <2> HIDE DEF L, key, by, P, want, own, claims
  <2> QED
    BY <1>1, <1>2, <1>3 DEF KeysStep
<1>6. KeysApart(L', key', by', P', want', own', claims', together')
  <2> HIDE DEF L, key, by, P, want, own, claims
  <2> QED
    BY <1>4, <1>5, KeysStayApart
<1> QED
  BY <1>6 DEF PicturesApart

\* Only a review that is written, or removed, changes what is averaged.
Writes(k, p) == edit[k].pc = "write" /\ edit'[k].pc = "average" /\ edit[k].row = p
Removes(k, p) ==
    /\ edit[k].pc = "new" /\ edit'[k].pc = "done" /\ edit'[k].job.op = "unreview"
    /\ review'[edit'[k].row].product = p /\ product'[p].rated = Nobody

LEMMA StarsStay ==
  ASSUME RowTypes, CallsAreAt, FoundReviews, NEW k \in Edits, CatalogueStep(k), NEW p \in Edits, ~Removes(k, p)
  PROVE  /\ ReviewsOf(p) # {} => ReviewsOf(p)' # {}
         /\ ~Writes(k, p) => StarsOf(p)' = StarsOf(p) /\ ReviewsOf(p)' = ReviewsOf(p)
<1>1. ReviewStep(k)
  BY DEF CatalogueStep
<1>2. edit[k].pc = "write" =>
          /\ review[k].st = "none"
          /\ edit[k].job.found # Nobody => review[edit[k].job.found].product = edit[k].row
  BY DEF CallsAreAt, FoundReviews
<1>3. ASSUME NEW r \in Edits, review[r].st = "live", review[r].product = p
      PROVE  review'[r].st = "live" /\ review'[r].product = p
  <2>1. CASE review'[r].st = "deleted" /\ review[r].product \in Edits => product'[review[r].product].rated = Nobody
    BY <1>1, <1>2, <1>3 DEF ReviewStep, SameReview, Removes
  <2> QED
    BY <1>1, <1>2, <1>3, <2>1 DEF ReviewStep, SameReview, Removes
<1>4. ReviewsOf(p) # {} => ReviewsOf(p)' # {}
  BY <1>3 DEF ReviewsOf
<1>5. ASSUME ~Writes(k, p) PROVE StarsOf(p)' = StarsOf(p) /\ ReviewsOf(p)' = ReviewsOf(p)
  <2>1. ASSUME NEW r \in Edits, review'[r].st = "live", review'[r].product = p
        PROVE  review'[r] = review[r]
    BY <1>1, <1>2, <1>5, <2>1, CatalogueAssumption DEF ReviewStep, SameReview, Writes
  <2>2. ReviewsOf(p)' = ReviewsOf(p)
    BY <1>3, <2>1 DEF ReviewsOf
  <2>3. \A r \in ReviewsOf(p) : review'[r].stars = review[r].stars
    BY <1>3, <2>1 DEF ReviewsOf
  <2> QED
    BY <2>2, <2>3 DEF StarsOf
<1> QED
  BY <1>4, <1>5

LEMMA DisturbedStays ==
  ASSUME RowTypes, CallsAreAt, FoundReviews, NEW k \in Edits, CatalogueStep(k), NEW p
  PROVE  /\ \A j \in Edits : ChangesReviewsOf(j, p) => ChangesReviewsOf(j, p)'
         /\ \A j \in Edits : Disturbed(j, p) => Disturbed(j, p)'
<1>1. \A j \in Edits : ChangesReviewsOf(j, p) => ChangesReviewsOf(j, p)'
  <2> SUFFICES ASSUME NEW j \in Edits, ChangesReviewsOf(j, p) PROVE ChangesReviewsOf(j, p)'
    OBVIOUS
  <2>1. edit[j].pc # "new"
    BY DEF ChangesReviewsOf, CallsAreAt
  <2>2. edit'[j].job = edit[j].job /\ edit'[j].row = edit[j].row
    BY <2>1 DEF CatalogueStep, Moves
  <2>3. edit[j].job.op = "unreview" => review'[edit[j].row].product = review[edit[j].row].product
    BY RowsRemain DEF CallsAreAt
  <2> QED
    BY <2>2, <2>3 DEF ChangesReviewsOf
<1>2. together \subseteq together'
  BY DEF CatalogueStep, Moves
<1> QED
  BY <1>1, <1>2 DEF Disturbed, Met

LEMMA RatingsStay ==
  ASSUME RowTypes, CallsAreAt, FoundReviews, BusyHaveMet, RatingsFollow, NEW k \in Edits, CatalogueStep(k)
  PROVE  RatingsFollow'
<1>1. /\ \A j \in Edits \ {k} : edit'[j] = edit[j]
      /\ edit[k].pc # "new" => edit'[k].job = edit[k].job /\ edit'[k].row = edit[k].row
      /\ edit[k].pc # "done" /\ \A j \in Busy : HaveMet(k, j, together')
  BY DEF CatalogueStep, Moves, Busy
<1>2. EditStep(k) /\ RatedStep(k)
  BY DEF CatalogueStep
<1>3. \A j \in Edits : edit[j].pc \in {"write", "average", "rate"} => edit[j].job.op = "review" /\ edit[j].row \in Edits
  BY DEF CallsAreAt
<1>4. ASSUME NEW p \in Edits, Writes(k, p) \/ Removes(k, p) PROVE ChangesReviewsOf(k, p)'
  <2>1. CASE Writes(k, p)
    <3>1. edit[k].pc = "write" /\ edit[k].row = p
      BY <2>1 DEF Writes
    <3>2. edit'[k].job.op = "review" /\ edit'[k].row = p
      BY <1>1, <1>3, <3>1
    <3> QED
      BY <3>2 DEF ChangesReviewsOf
  <2>2. CASE Removes(k, p)
    BY <2>2 DEF Removes, ChangesReviewsOf
  <2> QED
    BY <1>4, <2>1, <2>2
<1>5. ASSUME NEW j \in Edits, NEW p \in Edits, edit'[j].pc = "rate", edit'[j].row = p
      PROVE  Disturbed(j, p)' \/ (ReviewsOf(p)' # {} /\ edit'[j].value = Average(StarsOf(p)'))
  <2>1. CASE j # k
    <3>1. edit'[j] = edit[j] /\ j \in Busy
      BY <1>1, <1>5, <2>1 DEF Busy
    <3>2. CASE Writes(k, p) \/ Removes(k, p)
      <4>1. ChangesReviewsOf(k, p)'
        BY <1>4, <3>2
      <4>2. Met(k, j)'
        BY <1>1, <3>1 DEF Met, HaveMet
      <4> QED
        BY <2>1, <4>1, <4>2 DEF Disturbed
    <3>3. CASE ~Writes(k, p) /\ ~Removes(k, p)
      <4>1. StarsOf(p)' = StarsOf(p) /\ ReviewsOf(p)' = ReviewsOf(p)
        BY <3>3, StarsStay
      <4>2. Disturbed(j, p) \/ (ReviewsOf(p) # {} /\ edit[j].value = Average(StarsOf(p)))
        BY <1>5, <3>1 DEF RatingsFollow
      <4>3. Disturbed(j, p) => Disturbed(j, p)'
        BY DisturbedStays
      <4> QED
        BY <3>1, <4>1, <4>2, <4>3
    <3> QED
      BY <3>2, <3>3
  <2>2. CASE j = k
    <3>1. edit[k].pc = "average" /\ edit[k].row = p
      BY <1>1, <1>2, <1>5, <2>2 DEF EditStep, LookedUpFirst
    <3>2. ReviewsOf(p) # {} /\ edit'[k].value = Average(StarsOf(p))
      BY <1>2, <1>5, <2>2, <3>1 DEF RatedStep
    <3>3. ~Writes(k, p) /\ ~Removes(k, p)
      BY <3>1 DEF Writes, Removes
    <3>4. StarsOf(p)' = StarsOf(p) /\ ReviewsOf(p)' = ReviewsOf(p)
      BY <3>3, StarsStay
    <3> QED
      BY <2>2, <3>2, <3>4
  <2> QED
    BY <2>1, <2>2
<1>6. ASSUME NEW j \in Edits, NEW p \in Edits, product'[p].rated = j
      PROVE  /\ edit'[j].pc = "done"
             /\ \/ Disturbed(j, p)'
                \/ ReviewsOf(p)' # {} /\ (AboutToRate(j, p)' \/ product'[p].rating = Average(StarsOf(p)'))
  <2>0. j # Nobody
    BY CatalogueAssumption
  <2>1. Disturbed(j, p) => Disturbed(j, p)'
    BY DisturbedStays
  <2>2. CASE product'[p].rated = product[p].rated /\ product'[p].rating = product[p].rating
    <3>1. j # k /\ edit'[j].pc = "done" /\ edit'[j] = edit[j]
      BY <1>1, <1>6, <2>2 DEF RatingsFollow
    <3>2. ~Removes(k, p)
      BY <1>6, <2>0 DEF Removes
    <3>3. ASSUME ~Disturbed(j, p)
          PROVE  ReviewsOf(p)' # {} /\ (AboutToRate(j, p)' \/ product'[p].rating = Average(StarsOf(p)'))
      <4>1. ReviewsOf(p) # {} /\ (AboutToRate(j, p) \/ product[p].rating = Average(StarsOf(p)))
        BY <1>6, <2>2, <3>3 DEF RatingsFollow
      <4>2. ReviewsOf(p)' # {}
        BY <3>2, <4>1, StarsStay
      <4>3. CASE Writes(k, p)
        <5>1. edit'[k].pc = "average" /\ edit'[k].row = p
          BY <1>1, <4>3 DEF Writes
        <5> QED
          BY <3>1, <4>2, <5>1 DEF AboutToRate
      <4>4. CASE ~Writes(k, p) /\ AboutToRate(j, p)
        <5> PICK i \in Edits \ {j} : edit[i].row = p /\ edit[i].pc \in {"average", "rate"}
          BY <4>4 DEF AboutToRate
        <5>1. edit'[i].row = p /\ edit'[i].pc \in {"average", "rate"}
          BY <1>1, <1>2, <1>6, <2>0, <3>1, <4>1 DEF RatedStep
        <5> QED
          BY <4>2, <5>1 DEF AboutToRate
      <4>5. CASE ~Writes(k, p) /\ product[p].rating = Average(StarsOf(p))
        BY <2>2, <3>2, <4>2, <4>5, StarsStay
      <4> QED
        BY <4>1, <4>3, <4>4, <4>5
    <3> QED
      BY <2>1, <3>1, <3>3
  <2>3. CASE ~(product'[p].rated = product[p].rated /\ product'[p].rating = product[p].rating)
    <3>1. /\ edit[k].pc = "rate" /\ edit'[k].pc = "done" /\ p = edit[k].row
          /\ j = k /\ product'[p].rating = edit[k].value
      BY <1>2, <1>6, <2>0, <2>3 DEF RatedStep
    <3>2. Disturbed(j, p) \/ (ReviewsOf(p) # {} /\ edit[k].value = Average(StarsOf(p)))
      BY <3>1 DEF RatingsFollow
    <3>3. ~Writes(k, p) /\ ~Removes(k, p)
      BY <3>1 DEF Writes, Removes
    <3>4. StarsOf(p)' = StarsOf(p) /\ ReviewsOf(p)' = ReviewsOf(p)
      BY <3>3, StarsStay
    <3> QED
      BY <2>1, <3>1, <3>2, <3>4
  <2> QED
    BY <2>2, <2>3
<1> QED
  BY <1>5, <1>6 DEF RatingsFollow

LEMMA CatalogueStarts ==
  ASSUME CatalogueInit
  PROVE  CatalogueInv
<1>1. /\ product = [k \in Edits |-> NoProduct] /\ gallery = {} /\ review = [k \in Edits |-> NoReview]
      /\ comment = [k \in Edits |-> NoComment] /\ entry = [k \in Edits |-> NoEntry] /\ edit = [k \in Edits |-> NewEdit]
  BY DEF CatalogueInit
<1>2. RowTypes
  <2>1. Nobody \in Anyone /\ "none" \in Names /\ <<"none", 0>> \in Slugs /\ "none" \in Users /\ "none" \in Tables
        /\ [op |-> "none"] \in AllJobs
    BY DEF Anyone, Names, Slugs, Users, Tables, AllJobs
  <2>2. NoProduct \in ProductRecord
    BY <2>1 DEF NoProduct, ProductRecord, Stages
  <2>3. NoReview \in ReviewRecord /\ NoComment \in CommentRecord
    BY <2>1 DEF NoReview, ReviewRecord, NoComment, CommentRecord, Stages
  <2>4. NoEntry \in EntryRecord
    BY <2>1 DEF NoEntry, EntryRecord, Stages
  <2>5. NewEdit \in EditRecord
    BY <2>1 DEF NewEdit, EditRecord, EditPlaces
  <2> QED
    BY <1>1, <2>2, <2>3, <2>4, <2>5 DEF RowTypes
<1>3. /\ \A k \in Edits : /\ product[k].st = "none" /\ product[k].rated = Nobody /\ review[k].st = "none"
                          /\ comment[k].st = "none" /\ entry[k].st = "none"
                          /\ edit[k].pc = "new" /\ edit[k].job.op = "none"
      /\ gallery = {}
  BY <1>1 DEF NoProduct, NoReview, NoComment, NoEntry, NewEdit
<1>4. CallsAreAt /\ FoundReviews /\ PicturesOfProducts /\ ParentsBelong /\ BusyHaveMet
  BY <1>3 DEF CallsAreAt, FoundReviews, PicturesOfProducts, ParentsBelong, BusyHaveMet, Busy
<1>5. /\ LiveProducts = {} /\ LiveEntries = {} /\ LiveReviews = {}
      /\ Naming = {} /\ Entering = {} /\ Reviewing = {} /\ Picturing = {}
  BY <1>3 DEF LiveProducts, LiveEntries, LiveReviews, Naming, Entering, Reviewing, Picturing
<1>6. SlugsApart /\ EntriesApart /\ ReviewsApart /\ PicturesApart
  BY <1>3, <1>5 DEF SlugsApart, EntriesApart, ReviewsApart, PicturesApart, KeysApart
<1>7. RatingsFollow
  BY <1>3, CatalogueAssumption DEF RatingsFollow
<1> QED
  BY <1>2, <1>4, <1>6, <1>7 DEF CatalogueInv

LEMMA CatalogueStays ==
  ASSUME CatalogueInv, [CatalogueNext]_catalogueVars
  PROVE  CatalogueInv'
<1> USE DEF CatalogueInv
<1>1. CASE CatalogueNext
  <2>1. RowTypes' /\ BusyHaveMet'
    BY <1>1, StepsAreKnown
  <2> PICK k \in Edits : CatalogueStep(k)
    BY <1>1, StepsAreKnown
  <2>2. CallsAreAt' /\ FoundReviews'
    BY PlacesStay
  <2>3. PicturesOfProducts' /\ ParentsBelong'
    BY RowsBelong
  <2>4. SlugsApart' /\ EntriesApart'
    BY SlugsStayApart, EntriesStayApart
  <2>5. ReviewsApart' /\ PicturesApart'
    BY <2>1, ReviewsStayApart, PicturesStayApart
  <2>6. RatingsFollow'
    BY RatingsStay
  <2> QED
    BY <2>1, <2>2, <2>3, <2>4, <2>5, <2>6
<1>2. CASE UNCHANGED catalogueVars
  <2>1. /\ product' = product /\ gallery' = gallery /\ review' = review /\ comment' = comment /\ entry' = entry
        /\ edit' = edit /\ together' = together
    BY <1>2 DEF catalogueVars
  <2>2. RowTypes' /\ CallsAreAt' /\ FoundReviews' /\ PicturesOfProducts' /\ ParentsBelong'
    BY <2>1 DEF RowTypes, CallsAreAt, FoundReviews, PicturesOfProducts, ParentsBelong
  <2>3. BusyHaveMet' /\ SlugsApart' /\ EntriesApart' /\ ReviewsApart' /\ PicturesApart'
    BY <2>1 DEF BusyHaveMet, Busy, Met, SlugsApart, EntriesApart, ReviewsApart, PicturesApart, LiveProducts,
       LiveEntries, LiveReviews, Naming, Entering, Reviewing, Picturing
  <2>4. RatingsFollow'
    <3>1. ASSUME NEW p \in Edits
          PROVE  /\ \A j \in Edits : (Disturbed(j, p)' <=> Disturbed(j, p)) /\ (AboutToRate(j, p)' <=> AboutToRate(j, p))
                 /\ ReviewsOf(p)' = ReviewsOf(p) /\ StarsOf(p)' = StarsOf(p)
      BY <2>1 DEF Disturbed, AboutToRate, ChangesReviewsOf, Met, ReviewsOf, StarsOf
    <3> QED
      BY <2>1, <3>1 DEF RatingsFollow
  <2> QED
    BY <2>2, <2>3, <2>4
<1> QED
  BY <1>1, <1>2

LEMMA CatalogueFollows == CatalogueInv => CatalogueTypeOK /\ QuietCatalogueIsConsistent
<1> SUFFICES ASSUME CatalogueInv PROVE CatalogueTypeOK /\ QuietCatalogueIsConsistent
  OBVIOUS
<1> USE DEF CatalogueInv
<1>1. CatalogueTypeOK
  BY DEF RowTypes, CatalogueTypeOK, ProductRecord, ReviewRecord, CommentRecord, EntryRecord, EditRecord, EditPlaces,
     Stages
<1>2. SlugsDiffer
  <2>1. ASSUME NEW p \in Edits, NEW q \in Edits, InStock(p), InStock(q), product[p].slug = product[q].slug
        PROVE  Met(product[p].named, product[q].named)
    <3>1. p \in LiveProducts /\ q \in LiveProducts
      BY <2>1 DEF InStock, LiveProducts
    <3>2. SomeMet({product[p].named}, {product[q].named}, together)
      BY <2>1, <3>1 DEF SlugsApart, KeysApart
    <3> QED
      BY <3>2 DEF SomeMet, HaveMet, Met
  <2>2. ASSUME NEW p \in Edits, NEW q \in EntriesNamed(entry[p].table, entry[p].slug), entry[p].st = "live",
               entry[p].table # "role"
        PROVE  \E j \in entry[p].named, l \in entry[q].named : Met(j, l)
    <3>1. p \in LiveEntries /\ q \in LiveEntries /\ entry[q].table = entry[p].table /\ entry[q].slug = entry[p].slug
      BY <2>2 DEF EntriesNamed, LiveEntries
    <3>2. SomeMet(entry[p].named, entry[q].named, together)
      BY <3>1 DEF EntriesApart, KeysApart, LiveEntries
    <3> QED
      BY <3>2 DEF SomeMet, HaveMet, Met
  <2> QED
    BY <2>1, <2>2 DEF SlugsDiffer
<1>3. OneReviewEach
  <2> SUFFICES ASSUME NEW r \in Edits, NEW s \in ReviewsOf(review[r].product), review[r].st = "live",
                      review[r].user = review[s].user
               PROVE  Met(r, s)
    BY DEF OneReviewEach
  <2>1. r \in LiveReviews /\ s \in LiveReviews /\ review[s].product = review[r].product
    BY DEF ReviewsOf, LiveReviews
  <2>2. SomeMet({r}, {s}, together)
    BY <2>1 DEF ReviewsApart, KeysApart, LiveReviews
  <2> QED
    BY <2>2 DEF SomeMet, HaveMet, Met
<1>4. RepliesBelong
  BY CatalogueAssumption DEF RepliesBelong, TopComments, Replies, ParentsBelong
<1>5. GalleryOfOneCall
  <2> SUFFICES ASSUME NEW g \in gallery, NEW h \in gallery, g.product = h.product PROVE Met(g.by, h.by)
    BY DEF GalleryOfOneCall
  <2>1. g \in PictureRecord /\ h \in PictureRecord
    BY DEF RowTypes
  <2>2. SomeMet({g.by}, {h.by}, together)
    BY <2>1 DEF PicturesApart, KeysApart
  <2> QED
    BY <2>2 DEF SomeMet, HaveMet, Met
<1>6. RatingIsAverage
  <2> SUFFICES ASSUME NEW p \in Edits, product[p].rated # Nobody,
                      \A k \in Edits : ChangesReviewsOf(k, p) =>
                          edit[k].pc = "done" /\ (k = product[p].rated \/ ~Met(k, product[p].rated))
               PROVE  product[p].rating = Average(StarsOf(p))
    BY DEF RatingIsAverage
  <2>1. product[p].rated \in Edits
    BY DEF RowTypes, ProductRecord, Anyone
  <2>2. PICK j \in Edits : product[p].rated = j
    BY <2>1
  <2>3. ~Disturbed(j, p)
    BY <2>2 DEF Disturbed
  <2>4. ~AboutToRate(j, p)
    <3>1. ASSUME NEW i \in Edits, edit[i].row = p, edit[i].pc \in {"average", "rate"} PROVE FALSE
      BY <3>1 DEF CallsAreAt, ChangesReviewsOf
    <3> QED
      BY <3>1 DEF AboutToRate
  <2> QED
    BY <2>2, <2>3, <2>4 DEF RatingsFollow
<1> QED
  BY <1>1, <1>2, <1>3, <1>4, <1>5, <1>6 DEF QuietCatalogueIsConsistent

LEMMA CatalogueInvariance == CatalogueSpec => []CatalogueInv
<1> QED
  BY CatalogueStarts, CatalogueStays, PTL DEF CatalogueSpec

\* Products, categories, reviews, pictures and ratings are disturbed only by calls that
\* were in flight together, for all calls and jobs.
THEOREM CatalogueStaysConsistent == CatalogueSpec => []QuietCatalogueIsConsistent
<1> QED
  BY CatalogueInvariance, CatalogueFollows, PTL

----------------------------------------------------------------------------
(* The parts run beside one another.                                         *)

LEMMA PartsOfShop == ShopSpec => SalesSpec /\ MessagingSpec /\ AccountsSpec /\ CatalogueSpec
<1>1. ShopInit => SalesInit /\ MessagingInit /\ AccountsInit /\ CatalogueInit
  BY DEF ShopInit
<1>2. [ShopNext]_shopVars => [SalesNext]_salesVars
  BY DEF ShopNext, shopVars, salesVars
<1>3. [ShopNext]_shopVars => [MessagingNext]_messagingVars
  BY DEF ShopNext, shopVars, messagingVars, MessagingNext, ChatNext
<1>4. [ShopNext]_shopVars => [AccountsNext]_accountsVars
  BY DEF ShopNext, shopVars, accountsVars
<1>5. [ShopNext]_shopVars => [CatalogueNext]_catalogueVars
  BY DEF ShopNext, shopVars, catalogueVars
<1> QED
  BY <1>1, <1>2, <1>3, <1>4, <1>5, PTL DEF ShopSpec, SalesSpec, MessagingSpec, AccountsSpec, CatalogueSpec

\* The price of a cart is the same wherever it is computed, for all prices, discounts
\* and coupons.
THEOREM PricesStayAgreed == ShopSpec => []PricesAgree
<1>1. SalesInv => PricesAgree
  BY PricesFollow DEF PricesAgree
<1> QED
  BY <1>1, SalesInvariance, PartsOfShop, PTL

\* The earnings are the same wherever they are computed, for all orders, categories
\* and days, since the rows of an order stay worth its subtotal.
THEOREM ReportsStayAgreed == ShopSpec => []ReportsAgree
<1>1. SalesInv => ReportsAgree
  BY ReportsFollow DEF ReportsAgree
<1> QED
  BY <1>1, SalesInvariance, PartsOfShop, PTL

Notices == [{"PLACED", "PROCESSING", "SHIPPED", "DELIVERED", "CANCELLED"} \X NoticeOrders ->
                [to : {"none", "customer", "admin"}, read : BOOLEAN]]

LEMMA NoticesStay == MessagingSpec => [](notice \in Notices)
<1>1. MessagingInit => notice \in Notices
  BY DEF MessagingInit, Notices, NoNotice
<1>2. notice \in Notices /\ [MessagingNext]_messagingVars => (notice \in Notices)'
  <2> SUFFICES ASSUME notice \in Notices, [MessagingNext]_messagingVars PROVE notice' \in Notices
    OBVIOUS
  <2>1. ASSUME NEW kind, NEW o, NEW to \in {"customer", "admin"}, Notify(kind, o, to) PROVE notice' \in Notices
    BY <2>1 DEF Notify, Notices
  <2>2. ASSUME NEW to, MarkRead(to) PROVE notice' \in Notices
    <3> DEFINE D == {"PLACED", "PROCESSING", "SHIPPED", "DELIVERED", "CANCELLED"} \X NoticeOrders
               R == [to : {"none", "customer", "admin"}, read : BOOLEAN]
    <3>1. notice \in [D -> R] /\ DOMAIN notice = D
      BY DEF Notices
    <3>2. PICK N : notice' = [n \in D |-> IF n \in N THEN [notice[n] EXCEPT !.read = TRUE] ELSE notice[n]]
      BY <2>2, <3>1 DEF MarkRead
    <3>3. \A r \in R : [r EXCEPT !.read = TRUE] \in R
      OBVIOUS
    <3> HIDE DEF D, R
    <3>4. notice' \in [D -> R]
      BY <3>1, <3>2, <3>3
    <3> QED
      BY <3>4 DEF D, R, Notices
  <2>3. CASE UNCHANGED notice
    BY <2>3
  <2>4. CASE NoticeNext
    BY <2>1, <2>2, <2>4 DEF NoticeNext, NotifyAdmin, NotifyCustomer
  <2>5. CASE ChatNext
    BY <2>3, <2>5 DEF ChatNext, Send, Read, Watch, FindConversation, MakeConversation, StoreMessage, CommitMessage,
       AbortMessage, TellMessage, OpenThread, ResetUnread, FetchPage, FetchFails, Disconnect, JoinConversation,
       LeaveConversation
  <2> QED
    BY <2>3, <2>4, <2>5 DEF MessagingNext, messagingVars
<1> QED
  BY <1>1, <1>2, PTL DEF MessagingSpec

LEMMA PartsStay == ShopSpec => [](part \in Parts)
<1>1. ShopInit => part \in Parts
  BY DEF ShopInit
<1>2. part \in Parts /\ [ShopNext]_shopVars => (part \in Parts)'
  BY DEF ShopNext, shopVars
<1> QED
  BY <1>1, <1>2, PTL DEF ShopSpec

\* The rows of every part keep their types, whatever the sizes of the shop.
THEOREM ShopTypesHold == ShopSpec => []ShopTypeOK
<1>1. SalesInv => SalesTypeOK
  <2> SUFFICES ASSUME SalesInv PROVE SalesTypeOK
    OBVIOUS
  <2>1. /\ goods \in [Products -> Rows] /\ \A p \in Products : goods[p] \in Goods[p]
        /\ mega \in Megas /\ coupon \in Coupons
    BY DEF SalesInv, GoodsAreTyped
  <2>2. ASSUME NEW o \in Sales, sales[o] # NoSale
        PROVE  /\ sales[o].st \in {"Pending", "Delivered", "Cancelled", "Returned"}
               /\ sales[o].gone \in BOOLEAN /\ sales[o].day \in Days
               /\ sales[o].bill.total \in Nat
               /\ \A i \in sales[o].items : i.quantity \in Nat /\ i.price \in Nat /\ i.cost \in Nat
    <3>1. sales[o] \in SaleRow
      BY <2>2 DEF SalesInv
    <3> QED
      BY <3>1 DEF SaleRow, BillRow, ItemRow
  <2> QED
    BY <2>1, <2>2 DEF SalesTypeOK
<1>2. ChatInv /\ notice \in Notices => MessagingTypeOK
  BY DEF ChatInv, ChatTypes, LoadedInRooms, MessagingTypeOK, ConversationRow, MessageRow, WindowRow, ReadingRow, Notices
<1>3. AccountsInv => AccountsTypeOK
  BY DEF AccountsInv, AccountsTypes, AccountsTypeOK, AccountRow, RequestRow
<1>4. SalesInv /\ ChatInv /\ notice \in Notices /\ AccountsInv /\ CatalogueInv /\ part \in Parts => ShopTypeOK
  BY <1>1, <1>2, <1>3, CatalogueFollows DEF ShopTypeOK, Parts
<1> QED
  BY <1>4, PartsOfShop, PartsStay, SalesInvariance, ChatInvariance, NoticesStay, AccountsInvariance,
     CatalogueInvariance, PTL
=============================================================================

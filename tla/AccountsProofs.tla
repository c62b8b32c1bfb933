---------------------------- MODULE AccountsProofs ----------------------------
(***************************************************************************)
(* Theorems about Accounts for every finite set of addresses, every set of *)
(* passwords and policies, and any number of requests, crashes and         *)
(* sessions.                                                               *)
(***************************************************************************)
EXTENDS Accounts, FiniteSetTheorems, TLAPS

Roles == {"user", "admin"}
Wanted == {"active", "suspended", "deleted"}
Statuses == Wanted \cup {"none"}
Changers == {"expired", "own", "reset"}

\* The requests, by the statement that comes next.
SignIns == [op : {"login", "expired"}, at : {"verify", "issue"}, user : Emails, st : Statuses]
Checks  == [op : Changers, at : {"change"}, user : Emails, keep : Nat]
Changes == [op : Changers, at : {"remember", "update", "prune", "revoke"}, user : Emails,
            keep : Nat, new : Passwords, count : Nat]
RolePatches == [op : {"patch"}, at : {"role"}, user : Emails, keep : {NoSession},
                role : Roles, st : Wanted \cup {Keep}]
StatusPatches == [op : {"patch"}, at : {"status", "revoke"}, user : Emails, keep : {NoSession},
                  role : Roles \cup {Keep}, st : Wanted]
Restores == [op : {"restore"}, at : {"restore"}, user : Emails]
Policies == [op : {"policy"}, at : {"store", "cache"}, count : Counts]
Requests == {Idle} \cup SignIns \cup Checks \cup Changes \cup RolePatches \cup StatusPatches
                   \cup Restores \cup Policies

AccountsTypeOK ==
    /\ account \in [Emails -> [st : Statuses, role : Roles, pw : Passwords]]
    /\ history \in [Emails -> Seq(Passwords)] /\ past \in [Emails -> Seq(Passwords)]
    /\ session \in [Sessions -> [st : {"free", "live", "over"}, user : Emails, late : BOOLEAN]]
    /\ stored \in Counts /\ cache \in [dirty : BOOLEAN, count : Nat]
    /\ boot \in {"count", "password", "role", "status", "up"}
    /\ req \in [Slots -> Requests]
    /\ used \in [requests : Nat, crashes : Nat]
    /\ accident \in [mixed : SUBSET Emails, unrevoked : SUBSET Emails, overset : BOOLEAN]

\* Nothing is asked of the server before it is up, and what is asked is about
\* accounts there are.
RequestsFollowAccounts ==
    /\ boot # "up" => \A q \in Slots : req[q] = Idle
    /\ \A q \in Slots : req[q] # Idle /\ req[q].op # "policy" => Exists(req[q].user)
    /\ \A s \in Sessions : session[s].st = "live" => Exists(session[s].user)

\* The account under recovery is there, and it is an administrator before it is
\* activated.
RecoveryInOrder ==
    /\ boot \in {"password", "role", "status"} => Exists(Boss)
    /\ boot = "status" => account[Boss].role = "admin"

\* The policy a request is about to cache is the one it stored.
CachingWhatIsStored ==
    \A q \in Slots : At(q, "cache") => req[q].count = stored \/ accident.overset

\* The passwords an account should remember are the newest of its history.
RemembersFrom(e, h) ==
    /\ Len(past[e]) <= Len(h)
    /\ \A i \in 1..Len(past[e]) : past[e][i] = h[i]

\* p is neither the current password of e nor one of the n an account should
\* remember before it.
Unused(e, p, n) ==
    /\ p # account[e].pw
    /\ \A i \in 1..Len(past[e]) : i <= n => past[e][i] # p

Writing(q, e) == req[q] # Idle /\ req[q].at \in {"remember", "update", "prune"} /\ req[q].user = e

\* While one request at a time changes the password of e: how its statements
\* leave the history, and what was checked still holds.
OrderOf(e) ==
    /\ \A q, r \in Slots : Writing(q, e) /\ Writing(r, e) => q = r
    /\ (\A q \in Slots : ~(Writing(q, e) /\ At(q, "update"))) => RemembersFrom(e, history[e])
    /\ \A q \in Slots : Writing(q, e) =>
          /\ At(q, "remember") /\ req[q].count > 0 => Unused(e, req[q].new, req[q].count)
          /\ At(q, "update") =>
                /\ req[q].count > 0 => Unused(e, req[q].new, req[q].count)
                /\ Len(history[e]) > 0 /\ history[e][1] = account[e].pw
                /\ RemembersFrom(e, Tail(history[e]))
          /\ At(q, "prune") => Len(past[e]) <= req[q].count
ChangeInOrder == \A e \in Emails \ accident.mixed : OrderOf(e)

IInv ==
    /\ AccountsTypeOK /\ RequestsFollowAccounts
    /\ RecoveryInOrder /\ AdminRemains
    /\ CachingWhatIsStored /\ PolicyInForce
    /\ InactiveSignedOut /\ ChangeInOrder

-----------------------------------------------------------------------------
(* Types. *)

LEMMA TypeInit == Init => AccountsTypeOK
<1> SUFFICES ASSUME Init PROVE AccountsTypeOK
  OBVIOUS
<1>1. account \in [Emails -> [st : Statuses, role : Roles, pw : Passwords]]
  <2>. PICK p \in Passwords : account \in
          {[e \in Emails |-> Account("none", "user", p)],
           [e \in Emails |-> Account(IF e = Boss THEN "suspended" ELSE "none", "user", p)],
           [e \in Emails |-> Account("active", "admin", p)]}
    BY DEF Init
  <2>. QED
    BY DEF Account, Statuses, Wanted, Roles
<1>2. session \in [Sessions -> [st : {"free", "live", "over"}, user : Emails, late : BOOLEAN]]
  <2>. PICK n \in 0..Cardinality(Emails) : \E signedIn \in [1..n -> Emails] :
          session = [s \in Sessions |->
                IF s \in DOMAIN signedIn /\ account[signedIn[s]].st = "active" THEN NewSession(signedIn[s], FALSE)
                ELSE [Over EXCEPT !.st = "free"]]
    BY DEF Init
  <2>. PICK signedIn \in [1..n -> Emails] :
          session = [s \in Sessions |->
                IF s \in DOMAIN signedIn /\ account[signedIn[s]].st = "active" THEN NewSession(signedIn[s], FALSE)
                ELSE [Over EXCEPT !.st = "free"]]
    OBVIOUS
  <2>1. [Over EXCEPT !.st = "free"] \in [st : {"free", "live", "over"}, user : Emails, late : BOOLEAN]
    BY AccountsAssumption DEF Over
  <2>2. \A s \in DOMAIN signedIn : NewSession(signedIn[s], FALSE) \in [st : {"free", "live", "over"}, user : Emails, late : BOOLEAN]
    BY DEF NewSession
  <2>. QED
    BY <2>1, <2>2
<1>3. /\ history \in [Emails -> Seq(Passwords)] /\ past \in [Emails -> Seq(Passwords)]
      /\ stored \in Counts /\ cache \in [dirty : BOOLEAN, count : Nat]
      /\ boot \in {"count", "password", "role", "status", "up"}
      /\ req \in [Slots -> Requests]
      /\ used \in [requests : Nat, crashes : Nat]
      /\ accident \in [mixed : SUBSET Emails, unrevoked : SUBSET Emails, overset : BOOLEAN]
  BY DEF Init, Requests
<1>. QED
  BY <1>1, <1>2, <1>3 DEF AccountsTypeOK

\* A request of a known form takes its slot.
LEMMA GotoTyped ==
    ASSUME AccountsTypeOK, NEW q \in Slots, NEW r \in Requests, Goto(q, r)
    PROVE  req' \in [Slots -> Requests]
BY DEF AccountsTypeOK, Goto

LEMMA DoneTyped ==
    ASSUME AccountsTypeOK, NEW q \in Slots, Done(q)
    PROVE  req' \in [Slots -> Requests]
BY GotoTyped DEF Done, Requests

LEMMA BeginTyped ==
    ASSUME AccountsTypeOK, NEW q \in Slots, NEW r \in Requests, Begin(q, r)
    PROVE  req' \in [Slots -> Requests] /\ used' \in [requests : Nat, crashes : Nat]
<1>1. Goto(q, r) /\ used' = [used EXCEPT !.requests = @ + 1]
  BY DEF Begin
<1>2. used \in [requests : Nat, crashes : Nat]
  BY DEF AccountsTypeOK
<1>3. used' \in [requests : Nat, crashes : Nat]
  BY <1>1, <1>2
<1>. QED
  BY <1>1, <1>3, GotoTyped

\* What is known of a request from the statement it is at.
LEMMA FormOf ==
    ASSUME AccountsTypeOK, NEW q \in Slots
    PROVE  /\ At(q, "verify") \/ At(q, "issue") => req[q] \in SignIns
           /\ At(q, "change") => req[q] \in Checks
           /\ At(q, "remember") \/ At(q, "update") \/ At(q, "prune") => req[q] \in Changes
           /\ At(q, "role") => req[q] \in RolePatches
           /\ At(q, "status") => req[q] \in StatusPatches
           /\ At(q, "revoke") => req[q] \in Changes \cup StatusPatches
           /\ At(q, "restore") => req[q] \in Restores
           /\ At(q, "store") \/ At(q, "cache") => req[q] \in Policies
<1>. DEFINE r == req[q]
<1>0. \A a : At(q, a) <=> r # Idle /\ r.at = a
  BY DEF At
<1>1. r \in Requests
  BY DEF AccountsTypeOK
<1>. HIDE DEF r
<1>2. /\ r \in SignIns => r.at \in {"verify", "issue"}
      /\ r \in Checks => r.at = "change"
      /\ r \in Changes => r.at \in {"remember", "update", "prune", "revoke"}
      /\ r \in RolePatches => r.at = "role"
      /\ r \in StatusPatches => r.at \in {"status", "revoke"}
      /\ r \in Restores => r.at = "restore"
      /\ r \in Policies => r.at \in {"store", "cache"}
  BY DEF SignIns, Checks, Changes, RolePatches, StatusPatches, Restores, Policies
<1>. QED
  BY <1>0, <1>1, <1>2 DEF Requests, r

AccountRows == [st : Statuses, role : Roles, pw : Passwords]

\* The statements on accounts, sessions and histories keep the rows' types.
LEMMA AccountTyped ==
    ASSUME AccountsTypeOK, NEW e \in Emails
    PROVE  /\ \A role \in Roles, p \in Passwords : Create(e, role, p) => account' \in [Emails -> AccountRows]
           /\ \A role \in Roles : SetRole(e, role) => account' \in [Emails -> AccountRows]
           /\ \A st \in Statuses : SetStatus(e, st) => account' \in [Emails -> AccountRows]
           /\ \A p \in Passwords, n \in Nat : UpdatePassword(e, p, n) => account' \in [Emails -> AccountRows]
           /\ account[e] \in AccountRows
<1>1. account \in [Emails -> AccountRows]
  BY DEF AccountsTypeOK, AccountRows
<1>2. account[e] \in AccountRows
  BY <1>1
<1>3. \A role \in Roles, p \in Passwords : Account("active", role, p) \in AccountRows
  BY DEF AccountRows, Account, Statuses, Wanted
<1>4. /\ \A role \in Roles : [account[e] EXCEPT !.role = role] \in AccountRows
      /\ \A st \in Statuses : [account[e] EXCEPT !.st = st] \in AccountRows
      /\ \A p \in Passwords : [account[e] EXCEPT !.pw = p] \in AccountRows
  BY <1>2 DEF AccountRows
<1>5. \A r \in AccountRows : [account EXCEPT ![e] = r] \in [Emails -> AccountRows]
  BY <1>1
<1>. QED
  BY <1>2, <1>3, <1>4, <1>5 DEF Create, SetRole, SetStatus, UpdatePassword

SessionRows == [st : {"free", "live", "over"}, user : Emails, late : BOOLEAN]

LEMMA SessionTyped ==
    ASSUME AccountsTypeOK
    PROVE  /\ \A S \in SUBSET Sessions : Revoke(S) => session' \in [Sessions -> SessionRows]
           /\ \A s \in Sessions, e \in Emails : Issue(s, e) => session' \in [Sessions -> SessionRows]
           /\ \A e \in Emails : Live(e) \subseteq Sessions
           /\ Over \in SessionRows
<1>1. session \in [Sessions -> SessionRows]
  BY DEF AccountsTypeOK, SessionRows
<1>2. Over \in SessionRows
  BY AccountsAssumption DEF SessionRows, Over
<1>3. \A e \in Emails : NewSession(e, account[e].st # "active") \in SessionRows
  BY DEF SessionRows, NewSession
<1>. QED
  BY <1>1, <1>2, <1>3 DEF Revoke, Issue, Live

\* The newest n of a sequence.
LEMMA TakeTyped ==
    ASSUME NEW S, NEW s \in Seq(S), NEW n \in Nat
    PROVE  /\ Take(s, n) \in Seq(S)
           /\ Len(Take(s, n)) = IF n < Len(s) THEN n ELSE Len(s)
           /\ \A i \in 1..Len(Take(s, n)) : Take(s, n)[i] = s[i]
           /\ Len(Take(s, n)) <= n /\ Len(Take(s, n)) <= Len(s)
BY DEF Take

LEMMA PastTyped ==
    ASSUME AccountsTypeOK, NEW e \in Emails, NEW p \in Passwords, NEW n \in Nat, UpdatePassword(e, p, n)
    PROVE  past' \in [Emails -> Seq(Passwords)]
<1>1. account[e].pw \in Passwords /\ past \in [Emails -> Seq(Passwords)]
  BY DEF AccountsTypeOK
<1>2. <<account[e].pw>> \o past[e] \in Seq(Passwords)
  BY <1>1
<1>3. Take(<<account[e].pw>> \o past[e], n) \in Seq(Passwords)
  BY <1>2, TakeTyped
<1>. QED
  BY <1>1, <1>3 DEF UpdatePassword

LEMMA LoadedTyped ==
    ASSUME AccountsTypeOK
    PROVE  Loaded \in [dirty : BOOLEAN, count : Nat]
BY AccountsAssumption DEF AccountsTypeOK, Loaded

LEMMA TypeStep == AccountsTypeOK /\ [Next]_vars => AccountsTypeOK'
<1>. SUFFICES ASSUME AccountsTypeOK, [Next]_vars PROVE AccountsTypeOK'
  OBVIOUS
<1>. DEFINE Typed ==
       /\ account \in [Emails -> AccountRows]
       /\ history \in [Emails -> Seq(Passwords)] /\ past \in [Emails -> Seq(Passwords)]
       /\ session \in [Sessions -> SessionRows]
       /\ stored \in Counts /\ cache \in [dirty : BOOLEAN, count : Nat]
       /\ boot \in {"count", "password", "role", "status", "up"}
       /\ req \in [Slots -> Requests]
       /\ used \in [requests : Nat, crashes : Nat]
       /\ accident \in [mixed : SUBSET Emails, unrevoked : SUBSET Emails, overset : BOOLEAN]
<1>0. Typed
  BY DEF AccountsTypeOK, AccountRows, SessionRows
<1>. SUFFICES Typed'
  BY DEF AccountsTypeOK, AccountRows, SessionRows
<1>1. CASE register
  BY <1>0, <1>1, AccountTyped DEF register, registerWithRole, Roles, others
<1>2. CASE logout
  BY <1>0, <1>2, SessionTyped DEF logout, others
<1>3. CASE Expire
  BY <1>0, <1>3, SessionTyped DEF Expire, others
<1>4. CASE createUser
  BY <1>0, <1>4, AccountTyped DEF createUser, Roles, others
<1>5. CASE revokeSession
  BY <1>0, <1>5, SessionTyped DEF revokeSession, others
<1>6. CASE revokeUserSessions
  BY <1>0, <1>6, SessionTyped DEF revokeUserSessions
<1>7. ASSUME NEW q \in Slots, login(q) \/ changeExpiredPassword(q) PROVE Typed'
  <2>1. PICK e \in Emails, op \in {"login", "expired"} :
          Begin(q, [op |-> op, at |-> "verify", user |-> e, st |-> account[e].st])
    BY <1>7 DEF login, changeExpiredPassword, Authenticate
  <2>2. [op |-> op, at |-> "verify", user |-> e, st |-> account[e].st] \in Requests
    BY <1>0 DEF AccountRows, Requests, SignIns
  <2>3. req' \in [Slots -> Requests] /\ used' \in [requests : Nat, crashes : Nat]
    BY <2>1, <2>2, BeginTyped
  <2>. QED
    BY <1>0, <1>7, <2>3 DEF login, changeExpiredPassword, Authenticate, others
<1>8. ASSUME NEW q \in Slots, Authenticated(q) PROVE Typed'
  <2>1. req[q] \in SignIns
    BY <1>8, FormOf DEF Authenticated
  <2>2. /\ [req[q] EXCEPT !.at = "issue"] \in Requests
        /\ [op |-> "expired", at |-> "change", user |-> req[q].user, keep |-> NoSession] \in Requests
    BY <2>1 DEF Requests, SignIns, Checks, Changers, NoSession
  <2>3. req' \in [Slots -> Requests]
    BY <1>8, <2>2, GotoTyped, DoneTyped DEF Authenticated
  <2>. QED
    BY <1>0, <1>8, <2>3 DEF Authenticated, others
<1>9. ASSUME NEW q \in Slots, IssueSession(q) PROVE Typed'
  BY <1>0, <1>9, FormOf, DoneTyped, SessionTyped DEF IssueSession, others, SignIns
<1>10. ASSUME NEW q \in Slots, changePassword(q) PROVE Typed'
  <2>1. PICK s \in Sessions : Begin(q, [op |-> "own", at |-> "change", user |-> session[s].user, keep |-> s])
    BY <1>10 DEF changePassword
  <2>2. session[s].user \in Emails /\ s \in Nat
    <3>1. session[s] \in SessionRows
      BY <1>0
    <3>2. MaxSessions \in Nat
      BY AccountsAssumption
    <3>. QED
      BY <3>1, <3>2 DEF SessionRows, Sessions
  <2>3. [op |-> "own", at |-> "change", user |-> session[s].user, keep |-> s] \in Requests
    BY <2>2 DEF Requests, Checks, Changers
  <2>4. req' \in [Slots -> Requests] /\ used' \in [requests : Nat, crashes : Nat]
    BY <2>1, <2>3, BeginTyped
  <2>. QED
    BY <1>0, <1>10, <2>4 DEF changePassword, others
<1>11. ASSUME NEW q \in Slots, CheckReuse(q) PROVE Typed'
  <2>1. req[q] \in Checks /\ Loaded.count \in Nat
    BY <1>11, FormOf, LoadedTyped DEF CheckReuse
  <2>2. \A p \in Passwords : [op |-> req[q].op, at |-> "remember", user |-> req[q].user, keep |-> req[q].keep,
                              new |-> p, count |-> Loaded.count] \in Requests
    BY <2>1 DEF Requests, Checks, Changes
  <2>3. req' \in [Slots -> Requests]
    BY <1>11, <2>2, GotoTyped, DoneTyped DEF CheckReuse
  <2>4. accident' \in [mixed : SUBSET Emails, unrevoked : SUBSET Emails, overset : BOOLEAN]
    <3>1. req[q].user \in Emails /\ accident \in [mixed : SUBSET Emails, unrevoked : SUBSET Emails, overset : BOOLEAN]
      BY <1>0, <2>1 DEF Checks
    <3>2. accident' \in {accident, [accident EXCEPT !.mixed = @ \cup {req[q].user}]}
      BY <1>11 DEF CheckReuse, Mix
    <3>. QED
      BY <3>1, <3>2
  <2>. QED
    BY <1>0, <1>11, <2>3, <2>4, LoadedTyped DEF CheckReuse, PasswordPolicy
<1>12. ASSUME NEW q \in Slots, Remember(q) PROVE Typed'
  <2>1. req[q] \in Changes
    BY <1>12, FormOf DEF Remember
  <2>2. [req[q] EXCEPT !.at = "update"] \in Requests
    BY <2>1 DEF Requests, Changes
  <2>3. req' \in [Slots -> Requests]
    BY <1>12, <2>2, GotoTyped DEF Remember
  <2>4. req[q].user \in Emails /\ account[req[q].user].pw \in Passwords
    BY <1>0, <2>1 DEF Changes, AccountRows
  <2>5. history' \in [Emails -> Seq(Passwords)]
    BY <1>0, <1>12, <2>4 DEF Remember, rememberCurrentPassword
  <2>. QED
    BY <1>0, <1>12, <2>3, <2>5 DEF Remember
<1>13. ASSUME NEW q \in Slots, Update(q) PROVE Typed'
  <2>1. req[q] \in Changes
    BY <1>13, FormOf DEF Update
  <2>2. [req[q] EXCEPT !.at = "prune"] \in Requests
    BY <2>1 DEF Requests, Changes
  <2>3. req' \in [Slots -> Requests]
    BY <1>13, <2>2, GotoTyped DEF Update
  <2>4. req[q].user \in Emails /\ req[q].new \in Passwords /\ req[q].count \in Nat
    BY <2>1 DEF Changes
  <2>5. account' \in [Emails -> AccountRows] /\ past' \in [Emails -> Seq(Passwords)]
    BY <1>13, <2>4, AccountTyped, PastTyped DEF Update
  <2>. QED
    BY <1>0, <1>13, <2>3, <2>5 DEF Update
<1>14. ASSUME NEW q \in Slots, UpdateFails(q) PROVE Typed'
  BY <1>0, <1>14, FormOf, DoneTyped DEF UpdateFails, Changes
<1>15. ASSUME NEW q \in Slots, Prune(q) PROVE Typed'
  <2>1. req[q] \in Changes
    BY <1>15, FormOf DEF Prune
  <2>2. [req[q] EXCEPT !.at = "revoke"] \in Requests
    BY <2>1 DEF Requests, Changes
  <2>3. req' \in [Slots -> Requests]
    BY <1>15, <2>2, GotoTyped, DoneTyped DEF Prune
  <2>4. req[q].user \in Emails /\ req[q].count \in Nat
    BY <2>1 DEF Changes
  <2>5. history' \in [Emails -> Seq(Passwords)]
    BY <1>0, <1>15, <2>4, TakeTyped DEF Prune, PrunePasswordHistory
  <2>. QED
    BY <1>0, <1>15, <2>3, <2>5 DEF Prune
<1>16. ASSUME NEW q \in Slots, patchUser(q) PROVE Typed'
  BY <1>0, <1>16, BeginTyped DEF patchUser, others, Requests, RolePatches, StatusPatches, Roles, Wanted
<1>17. ASSUME NEW q \in Slots, deleteUser(q) PROVE Typed'
  BY <1>0, <1>17, BeginTyped DEF deleteUser, others, Requests, StatusPatches, Wanted
<1>18. ASSUME NEW q \in Slots, PatchRole(q) PROVE Typed'
  <2>1. req[q] \in RolePatches
    BY <1>18, FormOf DEF PatchRole
  <2>2. /\ req[q].user \in Emails /\ req[q].role \in Roles
        /\ req[q].st # Keep => [req[q] EXCEPT !.at = "status"] \in Requests
    BY <2>1 DEF RolePatches, StatusPatches, Requests
  <2>3. req' \in [Slots -> Requests]
    <3>1. Done(q) \/ (req[q].st # Keep /\ Goto(q, [req[q] EXCEPT !.at = "status"]))
      BY <1>18 DEF PatchRole
    <3>. QED
      BY <2>2, <3>1, GotoTyped, DoneTyped
  <2>4. account' \in [Emails -> AccountRows]
    <3>1. UNCHANGED account \/ SetRole(req[q].user, req[q].role)
      BY <1>18 DEF PatchRole, SetRolePreservingActiveAdmin
    <3>. QED
      BY <1>0, <2>2, <3>1, AccountTyped
  <2>. QED
    BY <1>0, <1>18, <2>3, <2>4 DEF PatchRole, others
<1>19. ASSUME NEW q \in Slots, PatchStatus(q) PROVE Typed'
  <2>1. req[q] \in StatusPatches
    BY <1>19, FormOf DEF PatchStatus
  <2>2. req[q].user \in Emails /\ req[q].st \in Statuses
        /\ [req[q] EXCEPT !.at = "revoke"] \in Requests
    BY <2>1 DEF StatusPatches, Statuses, Requests
  <2>3. req' \in [Slots -> Requests]
    <3>1. Done(q) \/ Goto(q, [req[q] EXCEPT !.at = "revoke"])
      BY <1>19 DEF PatchStatus
    <3>. QED
      BY <2>2, <3>1, GotoTyped, DoneTyped
  <2>4. account' \in [Emails -> AccountRows]
    <3>1. UNCHANGED account \/ SetStatus(req[q].user, req[q].st)
      BY <1>19 DEF PatchStatus, SetStatusPreservingActiveAdmin
    <3>. QED
      BY <1>0, <2>2, <3>1, AccountTyped
  <2>. QED
    BY <1>0, <1>19, <2>3, <2>4 DEF PatchStatus, others
<1>20. ASSUME NEW q \in Slots, RevokeSessions(q) PROVE Typed'
  BY <1>0, <1>20, FormOf, DoneTyped, SessionTyped DEF RevokeSessions, RevokeAllForUserExcept, Changes, StatusPatches
<1>21. ASSUME NEW q \in Slots, RevokeFails(q) PROVE Typed'
  <2>1. Done(q) /\ accident' = [accident EXCEPT !.unrevoked = @ \cup SigningOut(q)]
        /\ UNCHANGED <<account, history, session, stored, cache, boot, used, past>>
    BY <1>21 DEF RevokeFails
  <2>2. SigningOut(q) \in SUBSET Emails
    BY FormOf DEF SigningOut, Changes, StatusPatches
  <2>3. req' \in [Slots -> Requests]
    BY <2>1, DoneTyped
  <2>. QED
    BY <1>0, <2>1, <2>2, <2>3
<1>22. ASSUME NEW q \in Slots, restoreUser(q) PROVE Typed'
  BY <1>0, <1>22, BeginTyped DEF restoreUser, others, Requests, Restores
<1>23. ASSUME NEW q \in Slots, RestoreStatus(q) PROVE Typed'
  BY <1>0, <1>23, FormOf, DoneTyped, AccountTyped DEF RestoreStatus, others, Restores, Statuses, Wanted
<1>24. ASSUME NEW q \in Slots, resetPassword(q) PROVE Typed'
  BY <1>0, <1>24, BeginTyped DEF resetPassword, others, Requests, Checks, Changers, NoSession
<1>25. ASSUME NEW q \in Slots, putPasswordPolicy(q) PROVE Typed'
  BY <1>0, <1>25, BeginTyped, LoadedTyped DEF putPasswordPolicy, PasswordPolicy, others, Requests, Policies
<1>26. ASSUME NEW q \in Slots, PolicyStored(q) PROVE Typed'
  BY <1>0, <1>26, FormOf, GotoTyped DEF PolicyStored, StorePolicy, Requests, Policies
<1>27. ASSUME NEW q \in Slots, PolicyCached(q) PROVE Typed'
  BY <1>0, <1>27, FormOf, DoneTyped, AccountsAssumption DEF PolicyCached, CachePolicy, others, Policies
<1>28. CASE EnsureAdmin
  BY <1>0, <1>28, AccountTyped, AccountsAssumption DEF EnsureAdmin, registerWithRole, Roles
<1>29. CASE RecoverPassword
  <2>1. account' \in [Emails -> AccountRows] /\ past' \in [Emails -> Seq(Passwords)]
    BY <1>29, AccountTyped, PastTyped, AccountsAssumption DEF RecoverPassword
  <2>2. history' \in [Emails -> Seq(Passwords)]
    <3>1. <<>> \in Seq(Passwords)
      OBVIOUS
    <3>. QED
      BY <1>0, <1>29, <3>1 DEF RecoverPassword
  <2>. QED
    BY <1>0, <1>29, <2>1, <2>2 DEF RecoverPassword
<1>30. CASE RecoverRole
  BY <1>0, <1>30, AccountTyped, AccountsAssumption DEF RecoverRole, Roles
<1>31. CASE RecoverStatus
  BY <1>0, <1>31, AccountTyped, AccountsAssumption DEF RecoverStatus, Statuses, Wanted
<1>32. CASE Crash
  <2>1. \A q \in Slots : SigningOut(q) \subseteq Emails
    BY FormOf DEF SigningOut, Changes, StatusPatches
  <2>2. accident' \in [mixed : SUBSET Emails, unrevoked : SUBSET Emails, overset : BOOLEAN]
    <3>1. accident \in [mixed : SUBSET Emails, unrevoked : SUBSET Emails, overset : BOOLEAN]
      BY <1>0
    <3>2. UNION {SigningOut(q) : q \in Slots} \subseteq Emails
      BY <2>1
    <3>3. PICK M \in SUBSET Emails :
            accident' = [accident EXCEPT !.mixed = @ \cup M, !.unrevoked = @ \cup UNION {SigningOut(q) : q \in Slots}]
      BY <1>32 DEF Crash
    <3>. QED
      BY <3>1, <3>2, <3>3
  <2>3. used' \in [requests : Nat, crashes : Nat]
    <3>1. used \in [requests : Nat, crashes : Nat] /\ used' = [used EXCEPT !.crashes = @ + 1]
      BY <1>0, <1>32 DEF Crash
    <3>. QED
      BY <3>1
  <2>4. /\ req' \in [Slots -> Requests] /\ cache' \in [dirty : BOOLEAN, count : Nat]
        /\ boot' \in {"count", "password", "role", "status", "up"}
    BY <1>32 DEF Crash, Requests
  <2>. QED
    BY <1>0, <1>32, <2>2, <2>3, <2>4 DEF Crash
<1>33. CASE UNCHANGED vars
  BY <1>0, <1>33 DEF vars
<1>. QED
  BY <1>1, <1>2, <1>3, <1>4, <1>5, <1>6, <1>7, <1>8, <1>9, <1>10, <1>11, <1>12, <1>13, <1>14, <1>15, <1>16, <1>17,
     <1>18, <1>19, <1>20, <1>21, <1>22, <1>23, <1>24, <1>25, <1>26, <1>27, <1>28, <1>29, <1>30, <1>31, <1>32, <1>33
     DEF Next, Startup

\* Every state a behaviour reaches is of these types.
THEOREM AccountsTypeCorrect == Spec => []AccountsTypeOK
BY TypeInit, TypeStep, PTL DEF Spec

-----------------------------------------------------------------------------
(* How a step changes accounts and requests. *)

LEMMA AccountStatements ==
    ASSUME AccountsTypeOK, [Next]_vars
    PROVE  \/ UNCHANGED account
           \/ \E e \in Emails, role \in Roles, p \in Passwords : Create(e, role, p)
           \/ \E e \in Emails, p \in Passwords, n \in Nat : UpdatePassword(e, p, n)
           \/ \E e \in Emails, role \in Roles :
                 SetRole(e, role) /\ (boot # "up" \/ ~LastActiveAdmin(e) \/ role = "admin")
           \/ \E e \in Emails, st \in Wanted :
                 SetStatus(e, st) /\ (boot # "up" \/ ~LastActiveAdmin(e) \/ st = "active")
<1>. DEFINE Goal ==
           \/ UNCHANGED account
           \/ \E e \in Emails, role \in Roles, p \in Passwords : Create(e, role, p)
           \/ \E e \in Emails, p \in Passwords, n \in Nat : UpdatePassword(e, p, n)
           \/ \E e \in Emails, role \in Roles :
                 SetRole(e, role) /\ (boot # "up" \/ ~LastActiveAdmin(e) \/ role = "admin")
           \/ \E e \in Emails, st \in Wanted :
                 SetStatus(e, st) /\ (boot # "up" \/ ~LastActiveAdmin(e) \/ st = "active")
<1>1. CASE register \/ createUser
  BY <1>1 DEF register, registerWithRole, createUser, Roles
<1>2. ASSUME NEW q \in Slots, Update(q) PROVE Goal
  BY <1>2, FormOf DEF Update, Changes
<1>3. ASSUME NEW q \in Slots, PatchRole(q) PROVE Goal
  <2>1. req[q] \in RolePatches
    BY <1>3, FormOf DEF PatchRole
  <2>2. req[q].user \in Emails /\ req[q].role \in Roles
    BY <2>1 DEF RolePatches
  <2>. QED
    BY <1>3, <2>2 DEF PatchRole, SetRolePreservingActiveAdmin
<1>4. ASSUME NEW q \in Slots, PatchStatus(q) PROVE Goal
  <2>1. req[q] \in StatusPatches
    BY <1>4, FormOf DEF PatchStatus
  <2>2. req[q].user \in Emails /\ req[q].st \in Wanted
    BY <2>1 DEF StatusPatches
  <2>. QED
    BY <1>4, <2>2 DEF PatchStatus, SetStatusPreservingActiveAdmin
<1>5. ASSUME NEW q \in Slots, RestoreStatus(q) PROVE Goal
  BY <1>5, FormOf DEF RestoreStatus, Restores, Wanted
<1>6. CASE Startup
  BY <1>6, AccountsAssumption DEF Startup, EnsureAdmin, RecoverPassword, RecoverRole, RecoverStatus, registerWithRole,
     Roles, Wanted
<1>7. CASE logout \/ Expire \/ revokeSession \/ revokeUserSessions \/ Crash \/ UNCHANGED vars
  BY <1>7 DEF logout, Expire, revokeSession, revokeUserSessions, Crash, vars
<1>8. ASSUME NEW q \in Slots,
             \/ login(q) \/ changeExpiredPassword(q) \/ Authenticated(q) \/ IssueSession(q)
             \/ changePassword(q) \/ CheckReuse(q) \/ Remember(q) \/ UpdateFails(q) \/ Prune(q)
             \/ patchUser(q) \/ deleteUser(q) \/ RevokeSessions(q) \/ RevokeFails(q) \/ restoreUser(q)
             \/ resetPassword(q) \/ putPasswordPolicy(q) \/ PolicyStored(q) \/ PolicyCached(q)
      PROVE  Goal
  BY <1>8 DEF login, changeExpiredPassword, Authenticate, Authenticated, IssueSession, changePassword, CheckReuse,
     Remember, UpdateFails, Prune, patchUser, deleteUser, RevokeSessions, RevokeFails, restoreUser, resetPassword,
     putPasswordPolicy, PolicyStored, PolicyCached
<1>. QED
  BY <1>1, <1>2, <1>3, <1>4, <1>5, <1>6, <1>7, <1>8 DEF Next

\* No account is ever taken away.
LEMMA ExistsStays ==
    ASSUME AccountsTypeOK, [Next]_vars, NEW e \in Emails, Exists(e)
    PROVE  account'[e].st # "none"
<1>1. account[e].st # "none" /\ account \in [Emails -> AccountRows]
  BY DEF Exists, AccountsTypeOK, AccountRows
<1>2. CASE \E f \in Emails, role \in Roles, p \in Passwords : Create(f, role, p)
  BY <1>1, <1>2 DEF Create, Account
<1>3. CASE \E f \in Emails, p \in Passwords, n \in Nat : UpdatePassword(f, p, n)
  BY <1>1, <1>3 DEF UpdatePassword, AccountRows
<1>4. CASE \E f \in Emails, role \in Roles : SetRole(f, role)
  BY <1>1, <1>4 DEF SetRole, AccountRows
<1>5. CASE \E f \in Emails, st \in Wanted : SetStatus(f, st)
  BY <1>1, <1>5 DEF SetStatus, AccountRows, Wanted
<1>. QED
  BY <1>1, <1>2, <1>3, <1>4, <1>5, AccountStatements

\* Who a request is about is known when it begins and stays the same.
LEMMA RequestsStep ==
    ASSUME AccountsTypeOK, RequestsFollowAccounts, [Next]_vars
    PROVE  /\ boot' # "up" => \A q \in Slots : req'[q] = Idle
           /\ \A q \in Slots : req'[q] # Idle /\ req'[q].op # "policy" => Exists(req'[q].user)
           /\ \A q \in Slots : req'[q] # Idle /\ req'[q].op # "policy" => req'[q].user \in Emails
<1>. DEFINE Known(r) == r # Idle /\ r.op # "policy" => r.user \in Emails /\ Exists(r.user)
            Goal == /\ boot' # "up" => \A q \in Slots : req'[q] = Idle
                    /\ \A q \in Slots : Known(req'[q])
<1>. SUFFICES Goal
  OBVIOUS
<1>0. /\ req \in [Slots -> Requests] /\ session \in [Sessions -> SessionRows]
      /\ boot # "up" => \A q \in Slots : req[q] = Idle
      /\ \A q \in Slots : Known(req[q])
      /\ \A s \in Sessions : session[s].st = "live" => session[s].user \in Emails /\ Exists(session[s].user)
  <2>1. \A q \in Slots : req[q] # Idle /\ req[q].op # "policy" => req[q].user \in Emails
    BY DEF AccountsTypeOK, Requests, SignIns, Checks, Changes, RolePatches, StatusPatches, Restores, Policies
  <2>. QED
    BY <2>1 DEF AccountsTypeOK, RequestsFollowAccounts, SessionRows
<1>1. ASSUME NEW q \in Slots, NEW r, Known(r), Goto(q, r), boot' = boot, boot = "up"
      PROVE  Goal
  BY <1>0, <1>1 DEF Goto
<1>2. ASSUME NEW q \in Slots, NEW r, Known(r), Begin(q, r), boot' = boot
      PROVE  Goal
  BY <1>1, <1>2 DEF Begin
<1>3. ASSUME NEW q \in Slots, Done(q), boot' = boot, boot = "up"
      PROVE  Goal
  BY <1>1, <1>3 DEF Done
<1>4. \A q \in Slots : req[q] # Idle => boot = "up"
  BY <1>0
<1>5. CASE UNCHANGED <<req, boot>>
  BY <1>0, <1>5
<1>6. CASE register \/ logout \/ Expire \/ createUser \/ revokeSession \/ revokeUserSessions \/ UNCHANGED vars
  BY <1>5, <1>6 DEF register, logout, Expire, createUser, revokeSession, revokeUserSessions, others, vars
<1>7. ASSUME NEW q \in Slots,
             login(q) \/ changeExpiredPassword(q) \/ changePassword(q) \/ patchUser(q) \/ deleteUser(q)
                \/ restoreUser(q) \/ resetPassword(q) \/ putPasswordPolicy(q)
      PROVE  Goal
  <2>1. boot' = boot
    BY <1>7 DEF login, changeExpiredPassword, Authenticate, changePassword, patchUser, deleteUser, restoreUser,
       resetPassword, putPasswordPolicy, others
  <2>2. CASE login(q) \/ changeExpiredPassword(q)
    BY <1>2, <2>1, <2>2 DEF login, changeExpiredPassword, Authenticate
  <2>3. CASE changePassword(q)
    BY <1>0, <1>2, <2>1, <2>3 DEF changePassword
  <2>4. CASE patchUser(q) \/ deleteUser(q)
    BY <1>2, <2>1, <2>4 DEF patchUser, deleteUser
  <2>5. CASE restoreUser(q)
    BY <1>2, <2>1, <2>5 DEF restoreUser, Exists
  <2>6. CASE resetPassword(q) \/ putPasswordPolicy(q)
    BY <1>2, <2>1, <2>6 DEF resetPassword, putPasswordPolicy
  <2>. QED
    BY <1>7, <2>2, <2>3, <2>4, <2>5, <2>6
<1>8. ASSUME NEW q \in Slots,
             \/ Authenticated(q) \/ IssueSession(q) \/ CheckReuse(q) \/ Remember(q) \/ Update(q) \/ UpdateFails(q)
             \/ Prune(q) \/ PatchRole(q) \/ PatchStatus(q) \/ RevokeSessions(q) \/ RevokeFails(q)
             \/ RestoreStatus(q) \/ PolicyStored(q) \/ PolicyCached(q)
      PROVE  Goal
  <2>1. boot' = boot /\ req[q] # Idle
    BY <1>8 DEF Authenticated, IssueSession, CheckReuse, Remember, Update, UpdateFails, Prune, PatchRole, PatchStatus,
       RevokeSessions, RevokeFails, RestoreStatus, PolicyStored, PolicyCached, others, At
  <2>2. boot = "up" /\ Known(req[q])
    BY <1>0, <1>4, <2>1
  <2>3. \A at : Known([req[q] EXCEPT !.at = at])
    <3>1. req[q] \in SignIns \cup Checks \cup Changes \cup RolePatches \cup StatusPatches \cup Restores \cup Policies
      BY <1>0, <2>1 DEF Requests
    <3>2. \A at : /\ [req[q] EXCEPT !.at = at].op = req[q].op
                  /\ req[q].op # "policy" => [req[q] EXCEPT !.at = at].user = req[q].user
      BY <3>1 DEF SignIns, Checks, Changes, RolePatches, StatusPatches, Restores, Policies
    <3>. QED
      BY <2>1, <2>2, <3>2
  <2>4. CASE Done(q)
    BY <1>3, <2>1, <2>2, <2>4
  <2>5. CASE \E at : Goto(q, [req[q] EXCEPT !.at = at])
    BY <1>1, <2>1, <2>2, <2>3, <2>5
  <2>6. CASE Authenticated(q)
    <3>1. req[q] \in SignIns
      BY <2>6, FormOf DEF Authenticated
    <3>2. Known([op |-> "expired", at |-> "change", user |-> req[q].user, keep |-> NoSession])
      BY <2>1, <2>2, <3>1 DEF SignIns
    <3>. QED
      BY <1>1, <2>1, <2>2, <2>4, <2>5, <2>6, <3>2 DEF Authenticated
  <2>7. CASE CheckReuse(q)
    <3>1. req[q] \in Checks
      BY <2>7, FormOf DEF CheckReuse
    <3>2. \A p, n : Known([op |-> req[q].op, at |-> "remember", user |-> req[q].user, keep |-> req[q].keep,
                          new |-> p, count |-> n])
      BY <2>1, <2>2, <3>1 DEF Checks
    <3>. QED
      BY <1>1, <2>1, <2>2, <2>4, <2>7, <3>2 DEF CheckReuse
  <2>. QED
    BY <1>8, <2>4, <2>5, <2>6, <2>7 DEF IssueSession, Remember, Update, UpdateFails,
       Prune, PatchRole, PatchStatus, RevokeSessions, RevokeFails, RestoreStatus, PolicyStored, PolicyCached
<1>9. CASE Startup
  BY <1>0, <1>9 DEF Startup, EnsureAdmin, RecoverPassword, RecoverRole, RecoverStatus
<1>10. CASE Crash
  BY <1>10 DEF Crash
<1>. QED
  BY <1>6, <1>7, <1>8, <1>9, <1>10 DEF Next

\* How a step changes the sessions.
LEMMA SessionStatements ==
    ASSUME AccountsTypeOK, [Next]_vars
    PROVE  \/ UNCHANGED session
           \/ \E S \in SUBSET Sessions : Revoke(S)
           \/ \E q \in Slots, s \in Sessions : At(q, "issue") /\ Issue(s, req[q].user)
<1>. DEFINE Goal == \/ UNCHANGED session
                    \/ \E S \in SUBSET Sessions : Revoke(S)
                    \/ \E q \in Slots, s \in Sessions : At(q, "issue") /\ Issue(s, req[q].user)
<1>1. CASE logout \/ revokeSession \/ revokeUserSessions
  BY <1>1 DEF logout, revokeSession, revokeUserSessions, Live
<1>2. CASE Expire
  <2>1. PICK s \in Sessions : session' = [session EXCEPT ![s] = Over]
    BY <1>2 DEF Expire
  <2>2. Revoke({s})
    BY <2>1 DEF Revoke, AccountsTypeOK
  <2>. QED
    BY <2>2
<1>3. ASSUME NEW q \in Slots, IssueSession(q) PROVE Goal
  BY <1>3 DEF IssueSession
<1>4. ASSUME NEW q \in Slots, RevokeSessions(q) PROVE Goal
  BY <1>4 DEF RevokeSessions, RevokeAllForUserExcept, Live
<1>5. CASE Startup \/ Crash \/ register \/ createUser \/ UNCHANGED vars
  BY <1>5 DEF Startup, EnsureAdmin, RecoverPassword, RecoverRole, RecoverStatus, Crash, register, createUser, vars
<1>6. ASSUME NEW q \in Slots,
             \/ login(q) \/ changeExpiredPassword(q) \/ Authenticated(q) \/ changePassword(q) \/ CheckReuse(q)
             \/ Remember(q) \/ Update(q) \/ UpdateFails(q) \/ Prune(q) \/ patchUser(q) \/ deleteUser(q) \/ PatchRole(q)
             \/ PatchStatus(q) \/ RevokeFails(q) \/ restoreUser(q) \/ RestoreStatus(q) \/ resetPassword(q)
             \/ putPasswordPolicy(q) \/ PolicyStored(q) \/ PolicyCached(q)
      PROVE  Goal
  BY <1>6 DEF login, changeExpiredPassword, Authenticate, Authenticated, changePassword, CheckReuse, Remember, Update,
     UpdateFails, Prune, patchUser, deleteUser, PatchRole, PatchStatus, RevokeFails, restoreUser, RestoreStatus,
     resetPassword, putPasswordPolicy, PolicyStored, PolicyCached
<1>. QED
  BY <1>1, <1>2, <1>3, <1>4, <1>5, <1>6 DEF Next

LEMMA FollowStep ==
    ASSUME AccountsTypeOK, RequestsFollowAccounts, [Next]_vars
    PROVE  RequestsFollowAccounts'
<1>1. AccountsTypeOK'
  BY TypeStep
<1>2. ASSUME NEW s \in Sessions, session'[s].st = "live"
      PROVE  session'[s].user \in Emails /\ Exists(session'[s].user)
  <2>1. CASE UNCHANGED session
    BY <1>2, <2>1 DEF RequestsFollowAccounts, AccountsTypeOK
  <2>2. CASE \E S \in SUBSET Sessions : Revoke(S)
    BY <1>2, <2>2 DEF RequestsFollowAccounts, AccountsTypeOK, Revoke, Over
  <2>3. ASSUME NEW q \in Slots, NEW t \in Sessions, At(q, "issue"), Issue(t, req[q].user)
        PROVE  session'[s].user \in Emails /\ Exists(session'[s].user)
    <3>1. req[q] \in SignIns
      BY <2>3, FormOf
    <3>2. req[q].user \in Emails /\ Exists(req[q].user)
      BY <2>3, <3>1 DEF RequestsFollowAccounts, At, SignIns
    <3>3. session' = [session EXCEPT ![t] = NewSession(req[q].user, account[req[q].user].st # "active")]
      BY <2>3 DEF Issue
    <3>4. CASE s = t
      BY <3>2, <3>3, <3>4 DEF AccountsTypeOK, NewSession
    <3>5. CASE s # t
      BY <1>2, <3>3, <3>5 DEF AccountsTypeOK, RequestsFollowAccounts
    <3>. QED
      BY <3>4, <3>5
  <2>. QED
    BY <2>1, <2>2, <2>3, SessionStatements
<1>3. \A q \in Slots : req'[q] # Idle /\ req'[q].op # "policy" => account'[req'[q].user].st # "none"
  BY RequestsStep, ExistsStays
<1>4. \A s \in Sessions : session'[s].st = "live" => account'[session'[s].user].st # "none"
  BY <1>2, ExistsStays
<1>5. boot' # "up" => \A q \in Slots : req'[q] = Idle
  BY RequestsStep
<1>. QED
  BY <1>3, <1>4, <1>5 DEF RequestsFollowAccounts, Exists

-----------------------------------------------------------------------------
(* Somebody can always administer. *)

\* One statement never takes the last active administrator away.
LEMMA AdminStays ==
    ASSUME AccountsTypeOK, [Next]_vars, boot = "up", ActiveAdmins # {}
    PROVE  ActiveAdmins' # {}
<1>0. account \in [Emails -> AccountRows]
  BY DEF AccountsTypeOK, AccountRows
<1>. SUFFICES \E f \in Emails : account'[f].role = "admin" /\ account'[f].st = "active"
  BY DEF ActiveAdmins, IsActiveAdmin
<1>1. PICK a \in Emails : account[a].role = "admin" /\ account[a].st = "active"
  BY DEF ActiveAdmins, IsActiveAdmin
<1>2. \A e \in ActiveAdmins : ~LastActiveAdmin(e) => \E f \in ActiveAdmins \ {e} : TRUE
  <2>. SUFFICES ASSUME NEW e \in ActiveAdmins, ActiveAdmins \ {e} = {} PROVE LastActiveAdmin(e)
    OBVIOUS
  <2>1. ActiveAdmins = {e}
    OBVIOUS
  <2>2. Cardinality(ActiveAdmins) = 1
    BY <2>1, FS_Singleton
  <2>. QED
    BY <2>2 DEF LastActiveAdmin, ActiveAdmins
<1>3. CASE \E f \in Emails, role \in Roles, p \in Passwords : Create(f, role, p)
  BY <1>0, <1>1, <1>3 DEF Create, Exists
<1>4. CASE \E f \in Emails, p \in Passwords, n \in Nat : UpdatePassword(f, p, n)
  BY <1>0, <1>1, <1>4 DEF UpdatePassword, AccountRows
<1>5. ASSUME NEW e \in Emails, NEW role \in Roles, SetRole(e, role), ~LastActiveAdmin(e) \/ role = "admin"
      PROVE  \E f \in Emails : account'[f].role = "admin" /\ account'[f].st = "active"
  <2>1. PICK f \in Emails : account[f].role = "admin" /\ account[f].st = "active" /\ (f # e \/ role = "admin")
    BY <1>1, <1>2, <1>5 DEF ActiveAdmins, IsActiveAdmin
  <2>. QED
    BY <1>0, <1>5, <2>1 DEF SetRole, AccountRows
<1>6. ASSUME NEW e \in Emails, NEW st \in Wanted, SetStatus(e, st), ~LastActiveAdmin(e) \/ st = "active"
      PROVE  \E f \in Emails : account'[f].role = "admin" /\ account'[f].st = "active"
  <2>1. PICK f \in Emails : account[f].role = "admin" /\ account[f].st = "active" /\ (f # e \/ st = "active")
    BY <1>1, <1>2, <1>6 DEF ActiveAdmins, IsActiveAdmin
  <2>. QED
    BY <1>0, <1>6, <2>1 DEF SetStatus, AccountRows
<1>. QED
  BY <1>1, <1>3, <1>4, <1>5, <1>6, AccountStatements

LEMMA BootMoves ==
    ASSUME [Next]_vars
    PROVE  boot' = boot \/ Startup \/ (Crash /\ boot' = "count")
<1>1. CASE register \/ logout \/ Expire \/ createUser \/ revokeSession \/ revokeUserSessions \/ UNCHANGED vars
  BY <1>1 DEF register, logout, Expire, createUser, revokeSession, revokeUserSessions, others, vars
<1>2. ASSUME NEW q \in Slots,
             \/ login(q) \/ changeExpiredPassword(q) \/ Authenticated(q) \/ IssueSession(q)
             \/ changePassword(q) \/ CheckReuse(q) \/ Remember(q) \/ Update(q) \/ UpdateFails(q) \/ Prune(q)
             \/ patchUser(q) \/ deleteUser(q) \/ PatchRole(q) \/ PatchStatus(q) \/ RevokeSessions(q) \/ RevokeFails(q)
             \/ restoreUser(q) \/ RestoreStatus(q) \/ resetPassword(q)
             \/ putPasswordPolicy(q) \/ PolicyStored(q) \/ PolicyCached(q)
      PROVE  boot' = boot
  BY <1>2 DEF login, changeExpiredPassword, Authenticate, Authenticated, IssueSession, changePassword, CheckReuse,
     Remember, Update, UpdateFails, Prune, patchUser, deleteUser, PatchRole, PatchStatus, RevokeSessions, RevokeFails,
     restoreUser, RestoreStatus, resetPassword, putPasswordPolicy, PolicyStored, PolicyCached, others
<1>3. CASE Crash
  BY <1>3 DEF Crash
<1>. QED
  BY <1>1, <1>2, <1>3 DEF Next

\* Before the server is up only its start changes accounts.
LEMMA OnlyStartupBeforeUp ==
    ASSUME AccountsTypeOK, RequestsFollowAccounts, [Next]_vars, boot # "up", ~Startup
    PROVE  UNCHANGED account
<1>1. \A q \in Slots : req[q] = Idle
  BY DEF RequestsFollowAccounts
<1>2. ASSUME NEW q \in Slots,
             \/ Authenticated(q) \/ IssueSession(q) \/ CheckReuse(q) \/ Remember(q) \/ Update(q) \/ UpdateFails(q)
             \/ Prune(q) \/ PatchRole(q) \/ PatchStatus(q) \/ RevokeSessions(q) \/ RevokeFails(q)
             \/ RestoreStatus(q) \/ PolicyStored(q) \/ PolicyCached(q)
      PROVE  FALSE
  BY <1>1, <1>2 DEF Authenticated, IssueSession, CheckReuse, Remember, Update, UpdateFails, Prune, PatchRole, PatchStatus,
     RevokeSessions, RevokeFails, RestoreStatus, PolicyStored, PolicyCached, At
<1>3. CASE register \/ logout \/ Expire \/ createUser \/ revokeSession \/ revokeUserSessions \/ Crash \/ UNCHANGED vars
  BY <1>3 DEF register, logout, Expire, createUser, revokeSession, revokeUserSessions, Crash, vars
<1>4. ASSUME NEW q \in Slots,
             login(q) \/ changeExpiredPassword(q) \/ changePassword(q) \/ patchUser(q) \/ deleteUser(q)
                \/ restoreUser(q) \/ resetPassword(q) \/ putPasswordPolicy(q)
      PROVE  UNCHANGED account
  BY <1>4 DEF login, changeExpiredPassword, Authenticate, changePassword, patchUser, deleteUser, restoreUser,
     resetPassword, putPasswordPolicy
<1>. QED
  BY <1>2, <1>3, <1>4 DEF Next

LEMMA AdminStep ==
    ASSUME AccountsTypeOK, RequestsFollowAccounts, RecoveryInOrder, AdminRemains, [Next]_vars
    PROVE  RecoveryInOrder' /\ AdminRemains'
<1>0. account \in [Emails -> AccountRows] /\ Boss \in Emails
  BY AccountsAssumption DEF AccountsTypeOK, AccountRows
<1>1. Exists(Boss) => Exists(Boss)'
  BY <1>0, ExistsStays DEF Exists
<1>2. CASE EnsureAdmin
  <2>1. CASE ActiveAdmins # {} /\ boot' = "up" /\ UNCHANGED account
    BY <2>1 DEF RecoveryInOrder, AdminRemains, ActiveAdmins, IsActiveAdmin
  <2>2. CASE boot' = "up" /\ \E p \in Passwords : registerWithRole(Boss, "admin", p)
    <3>1. account'[Boss].role = "admin" /\ account'[Boss].st = "active"
      BY <1>0, <2>2 DEF registerWithRole, Create, Account
    <3>. QED
      BY <1>0, <2>2, <3>1 DEF RecoveryInOrder, AdminRemains, ActiveAdmins, IsActiveAdmin
  <2>3. CASE Exists(Boss) /\ boot' = "password"
    BY <1>1, <2>3 DEF RecoveryInOrder, AdminRemains
  <2>. QED
    BY <1>2, <2>1, <2>2, <2>3 DEF EnsureAdmin
<1>3. CASE RecoverPassword
  BY <1>1, <1>3 DEF RecoverPassword, RecoveryInOrder, AdminRemains
<1>4. CASE RecoverRole
  <2>1. account'[Boss].role = "admin"
    BY <1>0, <1>4 DEF RecoverRole, SetRole, AccountRows
  <2>. QED
    BY <1>1, <1>4, <2>1 DEF RecoverRole, RecoveryInOrder, AdminRemains
<1>5. CASE RecoverStatus
  <2>1. account'[Boss].role = "admin" /\ account'[Boss].st = "active"
    BY <1>0, <1>5 DEF RecoverStatus, SetStatus, AccountRows, RecoveryInOrder
  <2>2. boot' = "up"
    BY <1>5 DEF RecoverStatus
  <2>. QED
    BY <1>0, <2>1, <2>2 DEF RecoveryInOrder, AdminRemains, ActiveAdmins, IsActiveAdmin
<1>6. CASE boot' = boot /\ boot = "up"
  BY <1>6, AdminStays DEF RecoveryInOrder, AdminRemains
<1>7. CASE boot' = boot /\ boot # "up" /\ ~Startup
  BY <1>7, OnlyStartupBeforeUp DEF RecoveryInOrder, AdminRemains, Exists
<1>8. CASE boot' = "count"
  BY <1>8 DEF RecoveryInOrder, AdminRemains
<1>. QED
  BY <1>2, <1>3, <1>4, <1>5, <1>6, <1>7, <1>8, BootMoves DEF Startup

-----------------------------------------------------------------------------
(* The policy in memory is the stored one. *)

LEMMA PolicyStep ==
    ASSUME AccountsTypeOK, CachingWhatIsStored, PolicyInForce, [Next]_vars
    PROVE  CachingWhatIsStored' /\ PolicyInForce'
<1>0. /\ \A q \in Slots : At(q, "cache") => req[q].count = stored \/ accident.overset
      /\ cache.dirty \/ cache.count = stored \/ accident.overset \/ \E q \in Slots : At(q, "cache")
      /\ req \in [Slots -> Requests]
      /\ accident \in [mixed : SUBSET Emails, unrevoked : SUBSET Emails, overset : BOOLEAN]
      /\ accident' \in [mixed : SUBSET Emails, unrevoked : SUBSET Emails, overset : BOOLEAN]
  BY TypeStep DEF CachingWhatIsStored, PolicyInForce, AccountsTypeOK
<1>1. ASSUME stored' = stored, accident'.overset = accident.overset, cache' \in {cache, Loaded},
             \A q \in Slots : req'[q] = req[q] \/ (~At(q, "cache") /\ ~At(q, "cache")')
      PROVE  CachingWhatIsStored' /\ PolicyInForce'
  <2>1. \A q \in Slots : /\ At(q, "cache")' <=> At(q, "cache")
                         /\ At(q, "cache") => req'[q] = req[q]
    BY <1>1 DEF At
  <2>2. cache'.dirty \/ cache'.count = stored \/ accident.overset \/ \E q \in Slots : At(q, "cache")
    BY <1>0, <1>1 DEF Loaded
  <2>. QED
    BY <1>0, <1>1, <2>1, <2>2 DEF CachingWhatIsStored, PolicyInForce
<1>2. CASE register \/ logout \/ Expire \/ createUser \/ revokeSession \/ revokeUserSessions \/ UNCHANGED vars
  <2>1. UNCHANGED <<stored, cache, req>>
    BY <1>2 DEF register, logout, Expire, createUser, revokeSession, revokeUserSessions, others, vars
  <2>2. accident'.overset = accident.overset
    BY <1>0, <1>2 DEF register, logout, Expire, createUser, revokeSession, revokeUserSessions, others, vars
  <2>. QED
    BY <1>1, <2>1, <2>2
<1>3. ASSUME NEW q \in Slots, stored' = stored, accident'.overset = accident.overset, cache' \in {cache, Loaded},
             ~At(q, "cache"), ~At(q, "cache")', \A r \in Slots \ {q} : req'[r] = req[r]
      PROVE  CachingWhatIsStored' /\ PolicyInForce'
  BY <1>1, <1>3
<1>4. ASSUME NEW q \in Slots,
             \/ login(q) \/ changeExpiredPassword(q) \/ changePassword(q) \/ patchUser(q) \/ deleteUser(q)
             \/ restoreUser(q) \/ resetPassword(q) \/ putPasswordPolicy(q)
      PROVE  CachingWhatIsStored' /\ PolicyInForce'
  <2>1. ~At(q, "cache") /\ stored' = stored /\ accident' = accident /\ cache' \in {cache, Loaded}
    BY <1>4 DEF login, changeExpiredPassword, Authenticate, changePassword, patchUser, deleteUser,
       restoreUser, resetPassword, putPasswordPolicy, PasswordPolicy, others, Begin, At
  <2>2. \A r : Begin(q, r) /\ r.at # "cache" => ~At(q, "cache")' /\ \A s \in Slots \ {q} : req'[s] = req[s]
    BY <1>0 DEF Begin, Goto, At
  <2>3. CASE login(q) \/ changeExpiredPassword(q)
    BY <1>3, <2>1, <2>2, <2>3 DEF login, changeExpiredPassword, Authenticate
  <2>4. CASE changePassword(q) \/ resetPassword(q)
    BY <1>3, <2>1, <2>2, <2>4 DEF changePassword, resetPassword
  <2>5. CASE patchUser(q)
    BY <1>3, <2>1, <2>2, <2>5 DEF patchUser
  <2>6. CASE deleteUser(q)
    BY <1>3, <2>1, <2>2, <2>6 DEF deleteUser
  <2>7. CASE restoreUser(q) \/ putPasswordPolicy(q)
    BY <1>3, <2>1, <2>2, <2>7 DEF restoreUser, putPasswordPolicy
  <2>. QED
    BY <1>4, <2>3, <2>4, <2>5, <2>6, <2>7
<1>5. ASSUME NEW q \in Slots,
             \/ Authenticated(q) \/ IssueSession(q) \/ CheckReuse(q) \/ Remember(q) \/ Update(q) \/ UpdateFails(q)
             \/ Prune(q) \/ PatchRole(q) \/ PatchStatus(q) \/ RevokeSessions(q) \/ RevokeFails(q) \/ RestoreStatus(q)
      PROVE  CachingWhatIsStored' /\ PolicyInForce'
  <2>1. ~At(q, "cache") /\ stored' = stored /\ cache' \in {cache, Loaded}
    BY <1>5 DEF Authenticated, IssueSession, CheckReuse, Remember, Update, UpdateFails, Prune, PatchRole, PatchStatus,
       RevokeSessions, RevokeFails, RestoreStatus, PasswordPolicy, others, At
  <2>2. accident'.overset = accident.overset
    BY <1>0, <1>5 DEF Authenticated, IssueSession, CheckReuse, Mix, Remember, Update, UpdateFails, Prune, PatchRole,
       PatchStatus, RevokeSessions, RevokeFails, RestoreStatus, others
  <2>3. \A r : Goto(q, r) /\ (r = Idle \/ r.at # "cache") =>
           ~At(q, "cache")' /\ \A s \in Slots \ {q} : req'[s] = req[s]
    BY <1>0 DEF Goto, At
  <2>4. \A at : [req[q] EXCEPT !.at = at].at = at
    <3>1. req[q] # Idle
      BY <1>5 DEF Authenticated, IssueSession, CheckReuse, Remember, Update, UpdateFails, Prune, PatchRole, PatchStatus,
         RevokeSessions, RevokeFails, RestoreStatus, At
    <3>2. req[q] \in SignIns \cup Checks \cup Changes \cup RolePatches \cup StatusPatches \cup Restores \cup Policies
      BY <1>0, <3>1 DEF Requests
    <3>. QED
      BY <3>2 DEF SignIns, Checks, Changes, RolePatches, StatusPatches, Restores, Policies
  <2>5. CASE Done(q)
    BY <1>3, <2>1, <2>2, <2>3, <2>5 DEF Done
  <2>6. ASSUME NEW at, at # "cache", Goto(q, [req[q] EXCEPT !.at = at])
        PROVE  CachingWhatIsStored' /\ PolicyInForce'
    <3>. DEFINE r == [req[q] EXCEPT !.at = at]
    <3>1. r.at # "cache" /\ Goto(q, r)
      BY <2>4, <2>6
    <3>. HIDE DEF r
    <3>. QED
      BY <1>3, <2>1, <2>2, <2>3, <3>1
  <2>7. CASE Authenticated(q)
    <3>. DEFINE r == [op |-> "expired", at |-> "change", user |-> req[q].user, keep |-> NoSession]
    <3>1. (Goto(q, r) /\ r.at # "cache") \/ Done(q) \/ Goto(q, [req[q] EXCEPT !.at = "issue"])
      BY <2>7 DEF Authenticated
    <3>. HIDE DEF r
    <3>. QED
      BY <1>3, <2>1, <2>2, <2>3, <2>5, <2>6, <3>1
  <2>8. CASE CheckReuse(q)
    <3>1. \E r : (r.at # "cache" /\ Goto(q, r)) \/ Done(q)
      <4>1. PICK p \in Passwords :
              \/ Done(q)
              \/ Goto(q, [op |-> req[q].op, at |-> "remember", user |-> req[q].user, keep |-> req[q].keep,
                           new |-> p, count |-> Loaded.count])
        BY <2>8 DEF CheckReuse
      <4>. DEFINE r == [op |-> req[q].op, at |-> "remember", user |-> req[q].user, keep |-> req[q].keep,
                        new |-> p, count |-> Loaded.count]
      <4>2. r.at # "cache" /\ (Goto(q, r) \/ Done(q))
        BY <4>1
      <4>. HIDE DEF r
      <4>. QED
        BY <4>2
    <3>. QED
      BY <1>3, <2>1, <2>2, <2>3, <2>5, <3>1
  <2>. QED
    BY <1>5, <2>5, <2>6, <2>7, <2>8 DEF IssueSession, Remember, Update, UpdateFails, Prune, PatchRole, PatchStatus,
       RevokeSessions, RevokeFails, RestoreStatus
<1>6. ASSUME NEW q \in Slots, PolicyStored(q)
      PROVE  CachingWhatIsStored' /\ PolicyInForce'
  <2>1. req[q] \in Policies /\ At(q, "store")
    BY <1>6, FormOf DEF PolicyStored
  <2>2. [req[q] EXCEPT !.at = "cache"].at = "cache" /\ [req[q] EXCEPT !.at = "cache"].count = req[q].count
        /\ [req[q] EXCEPT !.at = "cache"] # Idle
    BY <2>1 DEF Policies, Idle
  <2>3. /\ stored' = req[q].count /\ req'[q] = [req[q] EXCEPT !.at = "cache"]
        /\ \A r \in Slots \ {q} : req'[r] = req[r]
    BY <1>0, <1>6 DEF PolicyStored, StorePolicy, Goto
  <2>4. At(q, "cache")' /\ req'[q].count = stored'
    BY <2>2, <2>3 DEF At
  <2>5. ASSUME NEW r \in Slots \ {q}, At(r, "cache")' PROVE accident'.overset
    BY <1>0, <1>6, <2>3, <2>5 DEF PolicyStored, At
  <2>. QED
    BY <2>4, <2>5 DEF CachingWhatIsStored, PolicyInForce
<1>7. ASSUME NEW q \in Slots, PolicyCached(q)
      PROVE  CachingWhatIsStored' /\ PolicyInForce'
  <2>1. /\ At(q, "cache") /\ cache' = [dirty |-> FALSE, count |-> req[q].count]
        /\ UNCHANGED <<stored, accident>> /\ req' = [req EXCEPT ![q] = Idle]
    BY <1>7 DEF PolicyCached, CachePolicy, Done, Goto, others
  <2>2. \A r \in Slots : At(r, "cache")' => At(r, "cache") /\ req'[r] = req[r]
    BY <1>0, <2>1 DEF At
  <2>3. cache'.count = stored \/ accident.overset
    BY <1>0, <2>1
  <2>. QED
    BY <1>0, <2>1, <2>2, <2>3 DEF CachingWhatIsStored, PolicyInForce
<1>8. CASE Startup
  <2>1. UNCHANGED <<stored, cache, req, accident>>
    BY <1>8 DEF Startup, EnsureAdmin, RecoverPassword, RecoverRole, RecoverStatus
  <2>. QED
    BY <1>1, <2>1
<1>9. CASE Crash
  <2>1. cache'.dirty = TRUE /\ \A q \in Slots : req'[q] = Idle
    BY <1>9 DEF Crash
  <2>. QED
    BY <2>1 DEF CachingWhatIsStored, PolicyInForce, At
<1>. QED
  BY <1>2, <1>4, <1>5, <1>6, <1>7, <1>8, <1>9 DEF Next

-----------------------------------------------------------------------------
(* An inactive account is signed out. *)

\* A statement of the request in slot q.
StepOf(q) ==
    \/ login(q) \/ changeExpiredPassword(q) \/ Authenticated(q) \/ IssueSession(q)
    \/ changePassword(q) \/ CheckReuse(q) \/ Remember(q) \/ Update(q) \/ UpdateFails(q) \/ Prune(q)
    \/ patchUser(q) \/ deleteUser(q) \/ PatchRole(q) \/ PatchStatus(q)
    \/ RevokeSessions(q) \/ RevokeFails(q) \/ restoreUser(q) \/ RestoreStatus(q) \/ resetPassword(q)
    \/ putPasswordPolicy(q) \/ PolicyStored(q) \/ PolicyCached(q)

\* Only a crash or a statement of its own changes a request.
LEMMA OthersWait ==
    ASSUME AccountsTypeOK, [Next]_vars, NEW q \in Slots
    PROVE  req'[q] = req[q] \/ Crash \/ StepOf(q)
<1>0. req \in [Slots -> Requests]
  BY DEF AccountsTypeOK
<1>1. \A p \in Slots : \A r : Goto(p, r) /\ p # q => req'[q] = req[q]
  BY <1>0 DEF Goto
<1>2. \A p \in Slots : Done(p) /\ p # q => req'[q] = req[q]
  BY <1>1 DEF Done
<1>3. \A p \in Slots : \A r : Begin(p, r) /\ p # q => req'[q] = req[q]
  BY <1>1 DEF Begin
<1>4. ASSUME NEW p \in Slots, p # q,
             \/ login(p) \/ changeExpiredPassword(p) \/ changePassword(p) \/ patchUser(p) \/ deleteUser(p)
             \/ restoreUser(p) \/ resetPassword(p) \/ putPasswordPolicy(p)
      PROVE  req'[q] = req[q]
  BY <1>3, <1>4 DEF login, changeExpiredPassword, Authenticate, changePassword, patchUser, deleteUser,
     restoreUser, resetPassword, putPasswordPolicy
<1>5. ASSUME NEW p \in Slots, p # q,
             \/ Authenticated(p) \/ IssueSession(p) \/ CheckReuse(p) \/ Remember(p) \/ Update(p) \/ UpdateFails(p)
             \/ Prune(p) \/ PatchRole(p) \/ PatchStatus(p) \/ RevokeSessions(p) \/ RevokeFails(p)
             \/ RestoreStatus(p) \/ PolicyStored(p) \/ PolicyCached(p)
      PROVE  req'[q] = req[q]
  BY <1>1, <1>2, <1>5 DEF Authenticated, IssueSession, CheckReuse, Remember, Update, UpdateFails, Prune, PatchRole,
     PatchStatus, RevokeSessions, RevokeFails, RestoreStatus, PolicyStored, PolicyCached
<1>6. CASE \E p \in Slots : StepOf(p)
  BY <1>4, <1>5, <1>6 DEF StepOf
<1>7. CASE register \/ logout \/ Expire \/ createUser \/ revokeSession \/ revokeUserSessions \/ Startup \/ UNCHANGED vars
  BY <1>7 DEF register, logout, Expire, createUser, revokeSession, revokeUserSessions, Startup, EnsureAdmin,
     RecoverPassword, RecoverRole, RecoverStatus, vars
<1>. QED
  BY <1>6, <1>7 DEF Next, StepOf

\* A session of an account that is inactive is marked late.
LEMMA LateSessions ==
    ASSUME AccountsTypeOK, [Next]_vars, NEW e \in Emails, account[e].st # "active",
           \A s \in Live(e) : session[s].late
    PROVE  \A s \in Sessions : session'[s].st = "live" /\ session'[s].user = e => session'[s].late
<1>. SUFFICES ASSUME NEW s \in Sessions, session'[s].st = "live", session'[s].user = e PROVE session'[s].late
  OBVIOUS
<1>0. session \in [Sessions -> SessionRows]
  BY DEF AccountsTypeOK, SessionRows
<1>1. session[s].st = "live" /\ session[s].user = e => session[s].late
  BY DEF Live
<1>2. CASE \E S \in SUBSET Sessions : Revoke(S)
  BY <1>1, <1>2 DEF Revoke, Over
<1>3. ASSUME NEW f, NEW t \in Sessions, Issue(t, f) PROVE session'[s].late
  BY <1>0, <1>1, <1>3 DEF Issue, NewSession
<1>. QED
  BY <1>1, <1>2, <1>3, SessionStatements

\* Nobody forgets that a revocation failed but the next that succeeds.
LEMMA UnrevokedStays ==
    ASSUME AccountsTypeOK, [Next]_vars, NEW e \in accident.unrevoked
    PROVE  e \in accident'.unrevoked \/ \A s \in Sessions : ~(session'[s].st = "live" /\ session'[s].user = e)
<1>0. /\ accident \in [mixed : SUBSET Emails, unrevoked : SUBSET Emails, overset : BOOLEAN]
      /\ session \in [Sessions -> SessionRows]
  BY DEF AccountsTypeOK, SessionRows
<1>1. CASE UNCHANGED accident
  BY <1>1
<1>2. ASSUME NEW q \in Slots, CheckReuse(q) \/ UpdateFails(q) \/ PolicyStored(q) PROVE e \in accident'.unrevoked
  BY <1>0, <1>2 DEF CheckReuse, Mix, UpdateFails, PolicyStored
<1>3. ASSUME NEW q \in Slots, RevokeFails(q) PROVE e \in accident'.unrevoked
  BY <1>0, <1>3 DEF RevokeFails
<1>4. CASE Crash
  BY <1>0, <1>4 DEF Crash
<1>5. \A f \in Emails : Revoke(Live(f)) => \A s \in Sessions : ~(session'[s].st = "live" /\ session'[s].user = f)
  BY DEF Revoke, Live, Over
<1>6. CASE revokeUserSessions
  <2>1. PICK f \in Emails : Revoke(Live(f)) /\ accident' = [accident EXCEPT !.unrevoked = @ \ {f}]
    BY <1>6 DEF revokeUserSessions
  <2>. QED
    BY <1>0, <1>5, <2>1
<1>7. ASSUME NEW q \in Slots, RevokeSessions(q)
      PROVE  e \in accident'.unrevoked \/ \A s \in Sessions : ~(session'[s].st = "live" /\ session'[s].user = e)
  <2>1. CASE e # req[q].user \/ req[q].keep # NoSession
    BY <1>0, <1>7, <2>1 DEF RevokeSessions
  <2>2. CASE e = req[q].user /\ req[q].keep = NoSession
    <3>1. 0 \notin Sessions
      BY AccountsAssumption DEF Sessions
    <3>2. Live(e) \ {NoSession} = Live(e)
      BY <3>1 DEF Live, NoSession
    <3>3. e \in Emails
      BY <1>0
    <3>. QED
      BY <1>5, <1>7, <2>2, <3>2, <3>3 DEF RevokeSessions, RevokeAllForUserExcept
  <2>. QED
    BY <2>1, <2>2
<1>8. CASE register \/ logout \/ Expire \/ createUser \/ revokeSession \/ Startup \/ UNCHANGED vars
  BY <1>1, <1>8 DEF register, logout, Expire, createUser, revokeSession, Startup, EnsureAdmin,
     RecoverPassword, RecoverRole, RecoverStatus, others, vars
<1>9. ASSUME NEW q \in Slots,
             \/ login(q) \/ changeExpiredPassword(q) \/ Authenticated(q) \/ IssueSession(q)
             \/ changePassword(q) \/ Remember(q) \/ Update(q) \/ Prune(q) \/ patchUser(q) \/ deleteUser(q)
             \/ PatchRole(q) \/ PatchStatus(q) \/ restoreUser(q) \/ RestoreStatus(q) \/ resetPassword(q)
             \/ putPasswordPolicy(q) \/ PolicyCached(q)
      PROVE  UNCHANGED accident
  BY <1>9 DEF login, changeExpiredPassword, Authenticate, Authenticated, IssueSession, changePassword, Remember, Update,
     Prune, patchUser, deleteUser, PatchRole, PatchStatus, restoreUser, RestoreStatus, resetPassword, putPasswordPolicy,
     PolicyCached, others
<1>. QED
  BY <1>1, <1>2, <1>3, <1>4, <1>6, <1>7, <1>8, <1>9 DEF Next

\* Who is about to be signed out is, or it is known that it failed.
LEMMA SigningOutStays ==
    ASSUME AccountsTypeOK, [Next]_vars, NEW q \in Slots, NEW e \in SigningOut(q)
    PROVE  \/ e \in SigningOut(q)'
           \/ e \in accident'.unrevoked
           \/ \A s \in Sessions : ~(session'[s].st = "live" /\ session'[s].user = e)
<1>0. /\ accident \in [mixed : SUBSET Emails, unrevoked : SUBSET Emails, overset : BOOLEAN]
      /\ At(q, "revoke") /\ req[q].op = "patch" /\ e = req[q].user
  BY DEF AccountsTypeOK, SigningOut
<1>1. CASE req'[q] = req[q]
  BY <1>0, <1>1 DEF SigningOut, At
<1>2. CASE Crash
  BY <1>0, <1>2 DEF Crash
<1>3. CASE StepOf(q)
  <2>1. RevokeSessions(q) \/ RevokeFails(q)
    BY <1>0, <1>3 DEF StepOf, login, changeExpiredPassword, Authenticate, Authenticated, IssueSession, changePassword,
       CheckReuse, Remember, Update, UpdateFails, Prune, patchUser, deleteUser, PatchRole, PatchStatus, restoreUser,
       RestoreStatus, resetPassword, putPasswordPolicy, PolicyStored, PolicyCached, Begin, At
  <2>2. CASE RevokeFails(q)
    BY <1>0, <2>2 DEF RevokeFails
  <2>3. CASE RevokeSessions(q)
    <3>1. req[q] \in StatusPatches
      <4>1. req[q] \in Changes \cup StatusPatches
        BY <1>0, FormOf
      <4>2. \A r \in Changes : r.op # "patch"
        BY DEF Changes, Changers
      <4>. QED
        BY <1>0, <4>1, <4>2
    <3>2. req[q].keep = NoSession
      BY <3>1 DEF StatusPatches
    <3>3. Revoke(Live(e) \ {NoSession})
      BY <1>0, <2>3, <3>2 DEF RevokeSessions, RevokeAllForUserExcept
    <3>4. NoSession \notin Sessions
      BY AccountsAssumption DEF Sessions, NoSession
    <3>. QED
      BY <3>3, <3>4 DEF Revoke, Live, Over
  <2>. QED
    BY <2>1, <2>2, <2>3
<1>. QED
  BY <1>1, <1>2, <1>3, OthersWait

\* Whoever takes an account out of use goes on to sign it out.
LEMMA SuspendingSignsOut ==
    ASSUME AccountsTypeOK, [Next]_vars, NEW e \in Emails,
           account[e].st \in {"none", "active"}, account'[e].st \notin {"none", "active"}
    PROVE  \E q \in Slots : e \in SigningOut(q)'
<1>. DEFINE Goal == \E q \in Slots : e \in SigningOut(q)'
<1>0. account \in [Emails -> AccountRows] /\ req \in [Slots -> Requests]
  BY DEF AccountsTypeOK, AccountRows
<1>1. CASE register \/ createUser
  <2>1. PICK f \in Emails, role \in Roles, p \in Passwords : Create(f, role, p)
    BY <1>1 DEF register, registerWithRole, createUser, Roles
  <2>. QED
    BY <1>0, <2>1 DEF Create, Account
<1>2. ASSUME NEW q \in Slots, Update(q) PROVE Goal
  <2>1. account'[e].st = account[e].st
    BY <1>0, <1>2 DEF Update, UpdatePassword, AccountRows
  <2>. QED
    BY <2>1
<1>3. ASSUME NEW q \in Slots, PatchRole(q) PROVE Goal
  <2>1. account'[e].st = account[e].st
    BY <1>0, <1>3 DEF PatchRole, SetRolePreservingActiveAdmin, SetRole, AccountRows
  <2>. QED
    BY <2>1
<1>4. ASSUME NEW q \in Slots, PatchStatus(q) PROVE Goal
  <2>1. req[q] \in StatusPatches
    BY <1>4, FormOf DEF PatchStatus
  <2>2. req[q].user = e /\ req[q].st # "active" /\ ~LastActiveAdmin(req[q].user)
    BY <1>0, <1>4, <2>1 DEF PatchStatus, SetStatusPreservingActiveAdmin, SetStatus, StatusPatches, AccountRows
  <2>3. req'[q] = [req[q] EXCEPT !.at = "revoke"]
    BY <1>0, <1>4, <2>2 DEF PatchStatus, Goto
  <2>4. req'[q].at = "revoke" /\ req'[q].op = "patch" /\ req'[q].user = e /\ req'[q] # Idle
    BY <2>1, <2>2, <2>3 DEF StatusPatches, Idle
  <2>. QED
    BY <2>4 DEF SigningOut, At
<1>5. ASSUME NEW q \in Slots, RestoreStatus(q) PROVE Goal
  BY <1>0, <1>5 DEF RestoreStatus, SetStatus, AccountRows
<1>6. CASE Startup
  <2>1. CASE EnsureAdmin
    BY <1>0, <2>1 DEF EnsureAdmin, registerWithRole, Create, Account
  <2>2. CASE RecoverPassword \/ RecoverRole \/ RecoverStatus
    BY <1>0, <2>2 DEF RecoverPassword, RecoverRole, RecoverStatus, UpdatePassword, SetRole, SetStatus, AccountRows
  <2>. QED
    BY <1>6, <2>1, <2>2 DEF Startup
<1>7. CASE UNCHANGED account
  BY <1>7
<1>8. CASE logout \/ Expire \/ revokeSession \/ revokeUserSessions \/ Crash \/ UNCHANGED vars
  BY <1>7, <1>8 DEF logout, Expire, revokeSession, revokeUserSessions, Crash, vars
<1>9. ASSUME NEW q \in Slots,
             \/ login(q) \/ changeExpiredPassword(q) \/ Authenticated(q) \/ IssueSession(q)
             \/ changePassword(q) \/ CheckReuse(q) \/ Remember(q) \/ UpdateFails(q) \/ Prune(q)
             \/ patchUser(q) \/ deleteUser(q) \/ RevokeSessions(q) \/ RevokeFails(q) \/ restoreUser(q)
             \/ resetPassword(q) \/ putPasswordPolicy(q) \/ PolicyStored(q) \/ PolicyCached(q)
      PROVE  UNCHANGED account
  BY <1>9 DEF login, changeExpiredPassword, Authenticate, Authenticated, IssueSession, changePassword, CheckReuse,
     Remember, UpdateFails, Prune, patchUser, deleteUser, RevokeSessions, RevokeFails, restoreUser, resetPassword,
     putPasswordPolicy, PolicyStored, PolicyCached
<1>. QED
  BY <1>1, <1>2, <1>3, <1>4, <1>5, <1>6, <1>7, <1>8, <1>9 DEF Next

LEMMA InactiveStep ==
    ASSUME AccountsTypeOK, InactiveSignedOut, [Next]_vars
    PROVE  InactiveSignedOut'
<1>. DEFINE LiveNext(s, e) == session'[s].st = "live" /\ session'[s].user = e
<1>. SUFFICES ASSUME NEW e \in Emails, account'[e].st # "none", account'[e].st # "active"
              PROVE  \/ \A s \in Sessions : LiveNext(s, e) => session'[s].late
                     \/ e \in accident'.unrevoked
                     \/ \E q \in Slots : e \in SigningOut(q)'
  BY DEF InactiveSignedOut, Exists, Live
<1>1. CASE account[e].st \in {"none", "active"}
  BY <1>1, SuspendingSignsOut
<1>2. CASE account[e].st \notin {"none", "active"}
  <2>1. CASE \A s \in Live(e) : session[s].late
    BY <1>2, <2>1, LateSessions
  <2>2. CASE e \in accident.unrevoked
    BY <2>2, UnrevokedStays
  <2>3. CASE \E q \in Slots : e \in SigningOut(q)
    BY <2>3, SigningOutStays
  <2>. QED
    BY <1>2, <2>1, <2>2, <2>3 DEF InactiveSignedOut, Exists
<1>. QED
  BY <1>1, <1>2

-----------------------------------------------------------------------------
(* A password is not used again too soon. *)

\* What a sequence of statements knows of e stays true while nobody touches it.
LEMMA OrderKept ==
    ASSUME NEW e, OrderOf(e), UNCHANGED <<history[e], past[e]>>,
           \A q \in Slots : Writing(q, e) => account'[e].pw = account[e].pw,
           \A q \in Slots : Writing(q, e)' => req'[q] = req[q],
           \A q \in Slots : Writing(q, e) /\ At(q, "update") => req'[q] = req[q]
    PROVE  OrderOf(e)'
<1>1. \A q \in Slots : Writing(q, e)' => Writing(q, e) /\ account'[e].pw = account[e].pw
  BY DEF Writing
<1>2. \A q \in Slots : Writing(q, e) /\ At(q, "update") => Writing(q, e)' /\ At(q, "update")'
  BY DEF Writing, At
<1>3. \A h : RemembersFrom(e, h) => (/\ Len(past'[e]) <= Len(h) /\ \A i \in 1..Len(past'[e]) : past'[e][i] = h[i])
  BY DEF RemembersFrom
<1>4. ASSUME NEW q \in Slots, Writing(q, e)'
      PROVE  /\ req'[q] = req[q] /\ Writing(q, e) /\ \A at : At(q, at)' <=> At(q, at)
             /\ \A p, n : Unused(e, p, n)' <=> Unused(e, p, n)
  BY <1>1, <1>4 DEF At, Unused
<1>5. \A q, r \in Slots : Writing(q, e)' /\ Writing(r, e)' => q = r
  BY <1>1 DEF OrderOf
<1>6. (\A q \in Slots : ~(Writing(q, e)' /\ At(q, "update")')) => RemembersFrom(e, history[e])'
  BY <1>2 DEF OrderOf, RemembersFrom
<1>7. ASSUME NEW q \in Slots, Writing(q, e)'
      PROVE  /\ At(q, "remember")' /\ req'[q].count > 0 => Unused(e, req[q].new, req[q].count)'
             /\ At(q, "update")' =>
                  /\ req'[q].count > 0 => Unused(e, req[q].new, req[q].count)'
                  /\ Len(history'[e]) > 0 /\ history'[e][1] = account'[e].pw
                  /\ RemembersFrom(e, Tail(history[e]))'
             /\ At(q, "prune")' => Len(past'[e]) <= req'[q].count
  BY <1>1, <1>4, <1>7 DEF OrderOf, RemembersFrom
<1>. QED
  BY <1>5, <1>6, <1>7 DEF OrderOf

\* The request that has passed the comparison has a password that is unused.
LEMMA ReuseChecked ==
    ASSUME AccountsTypeOK, NEW e \in Emails, NEW p \in Passwords, NEW n \in Nat, n > 0,
           RemembersFrom(e, history[e]), ~rejectPasswordReuse(e, p, n)
    PROVE  Unused(e, p, n)
<1>. DEFINE h == history[e]
<1>1. h \in Seq(Passwords) /\ past[e] \in Seq(Passwords)
  BY DEF AccountsTypeOK
<1>2. p # account[e].pw /\ p \notin ToSet(Take(h, n))
  BY DEF rejectPasswordReuse, RecentPasswordHashes
<1>3. ASSUME NEW i \in 1..Len(past[e]), i <= n PROVE past[e][i] # p
  <2>1. i \in 1..Len(Take(h, n)) /\ Take(h, n)[i] = h[i]
    BY <1>1, <1>3, TakeTyped DEF RemembersFrom
  <2>2. h[i] \in ToSet(Take(h, n))
    BY <1>1, <2>1, TakeTyped DEF ToSet
  <2>. QED
    BY <1>2, <2>2 DEF RemembersFrom
<1>. QED
  BY <1>2, <1>3 DEF Unused

\* And an unused password is none of those the policy remembers.
LEMMA UnusedIsNew ==
    ASSUME AccountsTypeOK, NEW e \in Emails, NEW p, NEW n \in Nat, Unused(e, p, n)
    PROVE  p \notin ToSet(Take(<<account[e].pw>> \o past[e], n + 1))
<1>. DEFINE s == <<account[e].pw>> \o past[e]
<1>1. account[e].pw \in Passwords /\ past[e] \in Seq(Passwords)
  BY DEF AccountsTypeOK
<1>2. s \in Seq(Passwords) /\ Len(s) = 1 + Len(past[e]) /\ s[1] = account[e].pw
      /\ \A i \in 2..Len(s) : s[i] = past[e][i-1]
  BY <1>1
<1>. HIDE DEF s
<1>3. ASSUME NEW i \in 1..Len(Take(s, n + 1)) PROVE Take(s, n + 1)[i] # p
  <2>1. i \in 1..Len(s) /\ i <= n + 1 /\ Take(s, n + 1)[i] = s[i]
    BY <1>2, <1>3, TakeTyped
  <2>2. CASE i = 1
    BY <1>2, <2>1, <2>2 DEF Unused
  <2>3. CASE i > 1
    BY <1>1, <1>2, <2>1, <2>3 DEF Unused
  <2>. QED
    BY <2>2, <2>3
<1>. QED
  BY <1>2, <1>3, TakeTyped DEF ToSet, s

\* An account whose changes have been mixed stays known.
LEMMA MixedStays ==
    ASSUME AccountsTypeOK, [Next]_vars
    PROVE  accident.mixed \subseteq accident'.mixed
<1>0. accident \in [mixed : SUBSET Emails, unrevoked : SUBSET Emails, overset : BOOLEAN]
  BY DEF AccountsTypeOK
<1>1. CASE UNCHANGED accident
  BY <1>1
<1>2. ASSUME NEW q \in Slots, CheckReuse(q) \/ UpdateFails(q) PROVE accident.mixed \subseteq accident'.mixed
  BY <1>0, <1>2 DEF CheckReuse, Mix, UpdateFails
<1>3. ASSUME NEW q \in Slots, RevokeSessions(q) \/ RevokeFails(q) \/ PolicyStored(q)
      PROVE  accident.mixed \subseteq accident'.mixed
  BY <1>0, <1>3 DEF RevokeSessions, RevokeFails, PolicyStored
<1>4. CASE revokeUserSessions
  BY <1>0, <1>4 DEF revokeUserSessions
<1>5. CASE Crash
  BY <1>0, <1>5 DEF Crash
<1>6. CASE register \/ logout \/ Expire \/ createUser \/ revokeSession \/ Startup \/ UNCHANGED vars
  BY <1>1, <1>6 DEF register, logout, Expire, createUser, revokeSession, Startup, EnsureAdmin,
     RecoverPassword, RecoverRole, RecoverStatus, others, vars
<1>7. ASSUME NEW q \in Slots,
             \/ login(q) \/ changeExpiredPassword(q) \/ Authenticated(q) \/ IssueSession(q)
             \/ changePassword(q) \/ Remember(q) \/ Update(q) \/ Prune(q) \/ patchUser(q) \/ deleteUser(q)
             \/ PatchRole(q) \/ PatchStatus(q) \/ restoreUser(q) \/ RestoreStatus(q) \/ resetPassword(q)
             \/ putPasswordPolicy(q) \/ PolicyCached(q)
      PROVE  UNCHANGED accident
  BY <1>7 DEF login, changeExpiredPassword, Authenticate, Authenticated, IssueSession, changePassword, Remember, Update,
     Prune, patchUser, deleteUser, PatchRole, PatchStatus, restoreUser, RestoreStatus, resetPassword, putPasswordPolicy,
     PolicyCached, others
<1>. QED
  BY <1>1, <1>2, <1>3, <1>4, <1>5, <1>6, <1>7 DEF Next

\* The steps that change no history: requests that are not writing, or stop.
LEMMA OrderQuiet ==
    ASSUME AccountsTypeOK, RequestsFollowAccounts, [Next]_vars, NEW e \in Emails, OrderOf(e),
           e \notin accident'.mixed, ~\E q \in Slots : CheckReuse(q) \/ Remember(q) \/ Update(q) \/ Prune(q),
           ~RecoverPassword
    PROVE  OrderOf(e)'
<1>0. account \in [Emails -> AccountRows] /\ req \in [Slots -> Requests]
  BY DEF AccountsTypeOK, AccountRows
<1>1. UNCHANGED <<history, past>>
  <2>1. CASE register \/ logout \/ Expire \/ createUser \/ revokeSession \/ revokeUserSessions \/ Startup \/ Crash \/ UNCHANGED vars
    BY <2>1 DEF register, logout, Expire, createUser, revokeSession, revokeUserSessions, Startup, EnsureAdmin,
       RecoverRole, RecoverStatus, Crash, others, vars
  <2>2. ASSUME NEW q \in Slots, StepOf(q) PROVE UNCHANGED <<history, past>>
    BY <2>2 DEF StepOf, login, changeExpiredPassword, Authenticate, Authenticated, IssueSession,
       changePassword, UpdateFails, patchUser, deleteUser,
       PatchRole, PatchStatus, RevokeSessions, RevokeFails, restoreUser, RestoreStatus, resetPassword, putPasswordPolicy,
       PolicyStored, PolicyCached, others
  <2>. QED
    BY <2>1, <2>2 DEF Next, StepOf
<1>2. ASSUME NEW q \in Slots, Writing(q, e) PROVE account'[e].pw = account[e].pw
  <2>1. account[e].st # "none"
    <3>1. req[q] \in Changes
      BY <1>2, FormOf DEF Writing, At
    <3>2. req[q].op # "policy"
      BY <3>1 DEF Changes, Changers
    <3>. QED
      BY <1>2, <3>2 DEF Writing, RequestsFollowAccounts, Exists
  <2>2. CASE \E f \in Emails, role \in Roles, p \in Passwords : Create(f, role, p)
    BY <1>0, <2>1, <2>2 DEF Create, Exists
  <2>3. CASE \E f \in Emails, role \in Roles : SetRole(f, role)
    BY <1>0, <2>3 DEF SetRole, AccountRows
  <2>4. CASE \E f \in Emails, st \in Wanted : SetStatus(f, st)
    BY <1>0, <2>4 DEF SetStatus, AccountRows
  <2>5. CASE UNCHANGED account
    BY <2>5
  <2>6. CASE register \/ createUser
    BY <2>2, <2>6 DEF register, createUser, registerWithRole, Roles
  <2>7. CASE EnsureAdmin \/ RecoverRole \/ RecoverStatus
    BY <2>2, <2>3, <2>4, <2>5, <2>7, AccountsAssumption DEF EnsureAdmin, RecoverRole, RecoverStatus, registerWithRole, Roles, Wanted
  <2>8. CASE logout \/ Expire \/ revokeSession \/ revokeUserSessions \/ Crash \/ UNCHANGED vars
    BY <2>5, <2>8 DEF logout, Expire, revokeSession, revokeUserSessions, Crash, vars
  <2>9. ASSUME NEW r \in Slots, PatchRole(r) \/ PatchStatus(r) \/ RestoreStatus(r) PROVE account'[e].pw = account[e].pw
    BY <1>0, <2>9 DEF PatchRole, PatchStatus, RestoreStatus, SetRolePreservingActiveAdmin, SetStatusPreservingActiveAdmin,
       SetRole, SetStatus, AccountRows
  <2>10. ASSUME NEW r \in Slots,
             \/ login(r) \/ changeExpiredPassword(r) \/ Authenticated(r) \/ IssueSession(r)
             \/ changePassword(r) \/ UpdateFails(r)
             \/ patchUser(r) \/ deleteUser(r) \/ RevokeSessions(r) \/ RevokeFails(r) \/ restoreUser(r)
             \/ resetPassword(r) \/ putPasswordPolicy(r) \/ PolicyStored(r) \/ PolicyCached(r)
      PROVE  UNCHANGED account
    BY <2>10 DEF login, changeExpiredPassword, Authenticate, Authenticated, IssueSession, changePassword,
       UpdateFails, patchUser, deleteUser, RevokeSessions, RevokeFails, restoreUser, resetPassword,
       putPasswordPolicy, PolicyStored, PolicyCached
  <2>. QED
    BY <2>5, <2>6, <2>7, <2>8, <2>9, <2>10 DEF Next, Startup
<1>3. ASSUME NEW q \in Slots, req'[q] # req[q]
      PROVE  ~Writing(q, e)' /\ ~(Writing(q, e) /\ At(q, "update"))
  <2>1. CASE Crash
    <3>1. req'[q] = Idle
      BY <2>1 DEF Crash
    <3>2. ~(Writing(q, e) /\ At(q, "update"))
      <4>1. SUFFICES ASSUME Writing(q, e), At(q, "update") PROVE FALSE
        OBVIOUS
      <4>2. Changing(q, e)
        BY <4>1 DEF Writing, Changing
      <4>3. e \in {f \in Emails : \E r \in Slots : Changing(r, f) /\ At(r, "update")}
        BY <4>1, <4>2
      <4>4. accident \in [mixed : SUBSET Emails, unrevoked : SUBSET Emails, overset : BOOLEAN]
        BY DEF AccountsTypeOK
      <4>. QED
        BY <2>1, <4>3, <4>4 DEF Crash
    <3>. QED
      BY <3>1, <3>2 DEF Writing
  <2>2. CASE \/ login(q) \/ changeExpiredPassword(q) \/ changePassword(q) \/ patchUser(q) \/ deleteUser(q)
             \/ restoreUser(q) \/ resetPassword(q) \/ putPasswordPolicy(q)
    <3>0. req[q] = Idle
      BY <2>2 DEF login, changeExpiredPassword, Authenticate, changePassword, patchUser, deleteUser, restoreUser,
         resetPassword, putPasswordPolicy, Begin
    <3>1. ~Writing(q, e)
      BY <3>0 DEF Writing
    <3>2. \A r : Begin(q, r) /\ r.at \notin {"remember", "update", "prune"} => ~Writing(q, e)'
      BY <1>0 DEF Begin, Goto, Writing
    <3>3. CASE login(q) \/ changeExpiredPassword(q)
      BY <3>1, <3>2, <3>3 DEF login, changeExpiredPassword, Authenticate
    <3>4. CASE changePassword(q) \/ resetPassword(q)
      BY <3>1, <3>2, <3>4 DEF changePassword, resetPassword
    <3>5. CASE patchUser(q)
      BY <3>1, <3>2, <3>5 DEF patchUser
    <3>6. CASE deleteUser(q)
      BY <3>1, <3>2, <3>6 DEF deleteUser
    <3>7. CASE restoreUser(q) \/ putPasswordPolicy(q)
      BY <3>1, <3>2, <3>7 DEF restoreUser, putPasswordPolicy
    <3>. QED
      BY <2>2, <3>3, <3>4, <3>5, <3>6, <3>7
  <2>3. CASE UpdateFails(q)
    <3>1. accident \in [mixed : SUBSET Emails, unrevoked : SUBSET Emails, overset : BOOLEAN]
      BY DEF AccountsTypeOK
    <3>. QED
      BY <1>0, <2>3, <3>1 DEF UpdateFails, Done, Goto, Writing
  <2>4. CASE \/ IssueSession(q) \/ RevokeSessions(q) \/ RevokeFails(q) \/ RestoreStatus(q) \/ PolicyCached(q)
    BY <1>0, <2>4 DEF IssueSession, RevokeSessions, RevokeFails, RestoreStatus, PolicyCached, Done, Goto, Writing, At
  <2>5. CASE Authenticated(q) \/ PatchRole(q) \/ PatchStatus(q) \/ PolicyStored(q)
    <3>1. ~At(q, "update")
      BY <2>5 DEF Authenticated, PatchRole, PatchStatus, PolicyStored, At
    <3>2. req[q] \in SignIns \cup RolePatches \cup StatusPatches \cup Policies
      BY <2>5, FormOf DEF Authenticated, PatchRole, PatchStatus, PolicyStored
    <3>3. \A at : [req[q] EXCEPT !.at = at].at = at
      BY <3>2 DEF SignIns, RolePatches, StatusPatches, Policies
    <3>4. \A at : at \notin {"remember", "update", "prune"} /\ req'[q] = [req[q] EXCEPT !.at = at] => ~Writing(q, e)'
      BY <3>3 DEF Writing
    <3>5. \/ req'[q] = Idle
          \/ req'[q] = [req[q] EXCEPT !.at = "issue"] \/ req'[q] = [req[q] EXCEPT !.at = "status"]
          \/ req'[q] = [req[q] EXCEPT !.at = "revoke"] \/ req'[q] = [req[q] EXCEPT !.at = "cache"]
          \/ req'[q] = [op |-> "expired", at |-> "change", user |-> req[q].user, keep |-> NoSession]
      BY <1>0, <2>5 DEF Authenticated, PatchRole, PatchStatus, PolicyStored, Goto, Done
    <3>6. req'[q] = [op |-> "expired", at |-> "change", user |-> req[q].user, keep |-> NoSession] => ~Writing(q, e)'
      BY DEF Writing
    <3>. QED
      BY <3>1, <3>4, <3>5, <3>6 DEF Writing
  <2>. QED
    BY <1>3, <2>1, <2>2, <2>3, <2>4, <2>5, OthersWait DEF StepOf
<1>. QED
  BY <1>1, <1>2, <1>3, OrderKept

\* The steps that change the password of e or its history, one by one.
LEMMA OrderStep ==
    ASSUME AccountsTypeOK, RequestsFollowAccounts, ChangeInOrder, [Next]_vars
    PROVE  ChangeInOrder'
<1>. SUFFICES ASSUME NEW e \in Emails, e \notin accident'.mixed PROVE OrderOf(e)'
  BY DEF ChangeInOrder
<1>0. /\ account \in [Emails -> AccountRows] /\ req \in [Slots -> Requests]
      /\ history \in [Emails -> Seq(Passwords)] /\ past \in [Emails -> Seq(Passwords)]
      /\ accident \in [mixed : SUBSET Emails, unrevoked : SUBSET Emails, overset : BOOLEAN]
  BY DEF AccountsTypeOK, AccountRows
<1>1. OrderOf(e)
  BY MixedStays DEF ChangeInOrder
<1>2. ASSUME NEW q \in Slots, Writing(q, e)
      PROVE  \A r \in Slots : Writing(r, e) => r = q
  BY <1>1, <1>2 DEF OrderOf
<1>3. ASSUME NEW q \in Slots, CheckReuse(q) PROVE OrderOf(e)'
  <2>1. req[q] \in Checks /\ Loaded.count \in Nat
    BY <1>3, FormOf, LoadedTyped DEF CheckReuse
  <2>2. UNCHANGED <<account, history, past>> /\ ~Writing(q, e) /\ At(q, "change")
    BY <1>3 DEF CheckReuse, Writing, At
  <2>3. PICK p \in Passwords :
          \/ Done(q)
          \/ /\ ~rejectPasswordReuse(req[q].user, p, Loaded.count)
             /\ Goto(q, [op |-> req[q].op, at |-> "remember", user |-> req[q].user, keep |-> req[q].keep,
                         new |-> p, count |-> Loaded.count])
    BY <1>3 DEF CheckReuse
  <2>. DEFINE w == [op |-> req[q].op, at |-> "remember", user |-> req[q].user, keep |-> req[q].keep,
                    new |-> p, count |-> Loaded.count]
  <2>4. \A r \in Slots \ {q} : req'[r] = req[r]
    BY <1>0, <2>3 DEF Goto, Done
  <2>5. req'[q] = Idle \/ req'[q] = w
    BY <1>0, <2>3 DEF Goto, Done
  <2>6. CASE req'[q] = Idle \/ req[q].user # e
    <3>1. ~Writing(q, e)'
      BY <2>5, <2>6 DEF Writing
    <3>. QED
      BY <1>1, <2>2, <2>4, <3>1, OrderKept
  <2>7. CASE req'[q] = w /\ req'[q] # Idle /\ req[q].user = e
    <3>1. \A r \in Slots : ~Writing(r, e)
      <4>. SUFFICES ASSUME NEW r \in Slots, Writing(r, e) PROVE FALSE
        OBVIOUS
      <4>1. Changing(r, e) /\ r # q
        BY <2>2 DEF Writing, Changing
      <4>. QED
        BY <1>0, <1>3, <2>7, <4>1 DEF CheckReuse, Mix
    <3>2. RemembersFrom(e, history[e])
      BY <1>1, <3>1 DEF OrderOf
    <3>3. \A r \in Slots : Writing(r, e)' => r = q
      BY <2>4, <3>1 DEF Writing
    <3>4. req'[q].count = Loaded.count /\ req'[q].new = p /\ req'[q].at = "remember"
      BY <2>7
    <3>5. Loaded.count > 0 => ~rejectPasswordReuse(e, p, Loaded.count)
      BY <2>3, <2>7 DEF Done, Goto, AccountsTypeOK
    <3>6. Loaded.count > 0 => Unused(e, p, Loaded.count)
      BY <2>1, <3>2, <3>5, ReuseChecked
    <3>7. At(q, "remember")' /\ ~At(q, "update")' /\ ~At(q, "prune")'
      BY <2>7, <3>4 DEF At
    <3>8. (\A n : Unused(e, p, n)' <=> Unused(e, p, n)) /\ RemembersFrom(e, history[e])'
      BY <2>2, <3>2 DEF Unused, RemembersFrom
    <3>9. req'[q].count > 0 => Unused(e, req[q].new, req[q].count)'
      BY <3>4, <3>6, <3>8 DEF Unused
    <3>. QED
      BY <3>3, <3>7, <3>8, <3>9 DEF OrderOf
  <2>. QED
    BY <2>5, <2>6, <2>7
<1>4. ASSUME NEW q \in Slots, Remember(q) PROVE OrderOf(e)'
  <2>1. req[q] \in Changes /\ UNCHANGED <<account, past>> /\ At(q, "remember")
    BY <1>4, FormOf DEF Remember
  <2>2. /\ req'[q] = [req[q] EXCEPT !.at = "update"] /\ \A r \in Slots \ {q} : req'[r] = req[r]
        /\ history' = [history EXCEPT ![req[q].user] = <<account[req[q].user].pw>> \o @]
    BY <1>0, <1>4 DEF Remember, rememberCurrentPassword, Goto
  <2>3. /\ req'[q].at = "update" /\ req'[q].user = req[q].user /\ req'[q].new = req[q].new
        /\ req'[q].count = req[q].count /\ req'[q] # Idle
    BY <2>1, <2>2 DEF Changes, Idle
  <2>4. CASE req[q].user # e
    <3>1. ~Writing(q, e) /\ ~Writing(q, e)'
      BY <2>3, <2>4 DEF Writing
    <3>2. history'[e] = history[e]
      BY <1>0, <2>2, <2>4
    <3>. QED
      BY <1>1, <2>1, <2>2, <3>1, <3>2, OrderKept
  <2>5. CASE req[q].user = e
    <3>1. Writing(q, e)
      BY <2>1, <2>5 DEF Writing, At
    <3>2. \A r \in Slots : Writing(r, e)' => r = q
      BY <1>2, <2>2, <3>1 DEF Writing
    <3>3. \A r \in Slots : ~(Writing(r, e) /\ At(r, "update"))
      BY <1>2, <2>1, <3>1 DEF At
    <3>4. RemembersFrom(e, history[e]) /\ (req[q].count > 0 => Unused(e, req[q].new, req[q].count))
      BY <1>1, <2>1, <3>1, <3>3 DEF OrderOf
    <3>5. account[e].pw \in Passwords /\ history[e] \in Seq(Passwords)
      BY <1>0 DEF AccountRows
    <3>6. history'[e] = <<account[e].pw>> \o history[e]
      BY <1>0, <2>2, <2>5
    <3>7. Len(history'[e]) > 0 /\ history'[e][1] = account[e].pw /\ Tail(history'[e]) = history[e]
      BY <3>5, <3>6
    <3>8. RemembersFrom(e, Tail(history[e]))' /\ (req'[q].count > 0 => Unused(e, req[q].new, req[q].count)')
      BY <2>1, <2>3, <3>4, <3>7 DEF RemembersFrom, Unused
    <3>9. Writing(q, e)' /\ At(q, "update")' /\ ~At(q, "remember")' /\ ~At(q, "prune")'
      BY <2>3, <2>5 DEF Writing, At
    <3>. QED
      BY <2>1, <2>3, <3>2, <3>7, <3>8, <3>9 DEF OrderOf, Unused
  <2>. QED
    BY <2>4, <2>5
<1>5. ASSUME NEW q \in Slots, Update(q) PROVE OrderOf(e)'
  <2>1. req[q] \in Changes /\ UNCHANGED history /\ At(q, "update")
    BY <1>5, FormOf DEF Update
  <2>2. /\ req'[q] = [req[q] EXCEPT !.at = "prune"] /\ \A r \in Slots \ {q} : req'[r] = req[r]
        /\ UpdatePassword(req[q].user, req[q].new, req[q].count)
    BY <1>0, <1>5 DEF Update, Goto
  <2>3. /\ req'[q].at = "prune" /\ req'[q].user = req[q].user /\ req'[q].count = req[q].count /\ req'[q] # Idle
        /\ req[q].count \in Nat
    BY <2>1, <2>2 DEF Changes, Idle
  <2>4. CASE req[q].user # e
    <3>1. ~Writing(q, e) /\ ~Writing(q, e)'
      BY <2>3, <2>4 DEF Writing
    <3>2. past'[e] = past[e] /\ account'[e] = account[e]
      BY <1>0, <2>2, <2>4 DEF UpdatePassword
    <3>. QED
      BY <1>1, <2>1, <2>2, <3>1, <3>2, OrderKept
  <2>5. CASE req[q].user = e
    <3>1. Writing(q, e)
      BY <2>1, <2>5 DEF Writing, At
    <3>2. \A r \in Slots : Writing(r, e)' => r = q
      BY <1>2, <2>2, <3>1 DEF Writing
    <3>. DEFINE pw == account[e].pw
                s == <<pw>> \o past[e]
                h == history[e]
    <3>3. /\ pw \in Passwords /\ past[e] \in Seq(Passwords) /\ h \in Seq(Passwords)
          /\ Len(h) > 0 /\ h[1] = pw /\ RemembersFrom(e, Tail(h))
      BY <1>0, <1>1, <2>1, <3>1 DEF OrderOf, AccountRows
    <3>4. past'[e] = Take(s, req[q].count)
      BY <1>0, <2>2, <2>5 DEF UpdatePassword
    <3>5. s \in Seq(Passwords) /\ Len(s) = 1 + Len(past[e]) /\ s[1] = pw /\ \A i \in 2..Len(s) : s[i] = past[e][i - 1]
      BY <3>3
    <3>6. Len(s) <= Len(h) /\ \A i \in 1..Len(s) : s[i] = h[i]
      <4>. DEFINE t == Tail(h)
      <4>1. Len(t) = Len(h) - 1 /\ \A i \in 1..Len(t) : t[i] = h[i + 1]
        BY <3>3
      <4>2. Len(past[e]) <= Len(t) /\ \A i \in 1..Len(past[e]) : past[e][i] = t[i]
        BY <3>3 DEF RemembersFrom
      <4>3. Len(past[e]) \in Nat /\ Len(h) \in Nat /\ Len(s) \in Nat
        BY <3>3, <3>5
      <4>4. s[1] = h[1]
        BY <3>3, <3>5
      <4>. HIDE DEF s, h, t
      <4>5. ASSUME NEW j \in 1..Len(past[e]) PROVE s[j + 1] = h[j + 1]
        <5>1. j + 1 \in 2..Len(s) /\ (j + 1) - 1 = j /\ j \in 1..Len(t)
          BY <3>5, <4>1, <4>2, <4>3
        <5>2. s[j + 1] = past[e][(j + 1) - 1]
          BY <3>5, <5>1
        <5>. QED
          BY <4>1, <4>2, <5>1, <5>2
      <4>6. ASSUME NEW i \in 1..Len(s), i # 1 PROVE i - 1 \in 1..Len(past[e]) /\ (i - 1) + 1 = i
        BY <3>5, <4>3, <4>6
      <4>7. ASSUME NEW i \in 1..Len(s) PROVE s[i] = h[i]
        BY <4>4, <4>5, <4>6
      <4>. QED
        BY <3>5, <4>1, <4>2, <4>3, <4>7
    <3>. HIDE DEF s, h
    <3>7. /\ Len(past'[e]) <= req[q].count /\ Len(past'[e]) <= Len(s)
          /\ \A i \in 1..Len(past'[e]) : past'[e][i] = s[i]
          /\ Len(past'[e]) \in Nat
      BY <2>3, <3>4, <3>5, TakeTyped
    <3>8. Len(past'[e]) <= Len(h) /\ \A i \in 1..Len(past'[e]) : past'[e][i] = h[i]
      <4>1. Len(h) \in Nat /\ Len(s) \in Nat
        BY <3>3, <3>5
      <4>. QED
        BY <3>6, <3>7, <4>1
    <3>9. RemembersFrom(e, history[e])'
      BY <2>1, <3>8 DEF RemembersFrom, h
    <3>10. Writing(q, e)' /\ At(q, "prune")' /\ ~At(q, "remember")' /\ ~At(q, "update")'
      BY <2>3, <2>5 DEF Writing, At
    <3>. QED
      BY <2>3, <3>2, <3>7, <3>9, <3>10 DEF OrderOf
  <2>. QED
    BY <2>4, <2>5
<1>6. ASSUME NEW q \in Slots, Prune(q) PROVE OrderOf(e)'
  <2>1. req[q] \in Changes /\ UNCHANGED <<account, past>> /\ At(q, "prune")
    BY <1>6, FormOf DEF Prune
  <2>2. /\ \A r \in Slots \ {q} : req'[r] = req[r]
        /\ req'[q] = Idle \/ req'[q] = [req[q] EXCEPT !.at = "revoke"]
        /\ history' = [history EXCEPT ![req[q].user] = Take(@, req[q].count)]
    BY <1>0, <1>6 DEF Prune, PrunePasswordHistory, Goto, Done
  <2>3. ~Writing(q, e)' /\ req[q].count \in Nat
    BY <2>1, <2>2 DEF Writing, Changes
  <2>4. CASE req[q].user # e
    <3>1. ~Writing(q, e)
      BY <2>4 DEF Writing
    <3>2. history'[e] = history[e]
      BY <1>0, <2>2, <2>4
    <3>. QED
      BY <1>1, <2>1, <2>2, <2>3, <3>1, <3>2, OrderKept
  <2>5. CASE req[q].user = e
    <3>1. Writing(q, e)
      BY <2>1, <2>5 DEF Writing, At
    <3>2. \A r \in Slots : ~Writing(r, e)'
      BY <1>2, <2>2, <2>3, <3>1 DEF Writing
    <3>3. \A r \in Slots : ~(Writing(r, e) /\ At(r, "update"))
      BY <1>2, <2>1, <3>1 DEF At
    <3>4. RemembersFrom(e, history[e]) /\ Len(past[e]) <= req[q].count
      BY <1>1, <2>1, <3>1, <3>3 DEF OrderOf
    <3>5. history[e] \in Seq(Passwords) /\ past[e] \in Seq(Passwords) /\ history'[e] = Take(history[e], req[q].count)
      BY <1>0, <2>2, <2>5
    <3>6. /\ Len(history'[e]) = IF req[q].count < Len(history[e]) THEN req[q].count ELSE Len(history[e])
          /\ \A i \in 1..Len(history'[e]) : history'[e][i] = history[e][i]
      BY <2>3, <3>5, TakeTyped
    <3>7. RemembersFrom(e, history'[e])
      <4>1. Len(past[e]) \in Nat /\ Len(history[e]) \in Nat
        BY <3>5
      <4>. QED
        BY <2>3, <3>4, <3>6, <4>1 DEF RemembersFrom
    <3>8. RemembersFrom(e, history[e])'
      BY <2>1, <3>7 DEF RemembersFrom
    <3>. QED
      BY <3>2, <3>8 DEF OrderOf
  <2>. QED
    BY <2>4, <2>5
<1>7. CASE RecoverPassword
  <2>1. \A q \in Slots : req[q] = Idle /\ req'[q] = Idle
    BY <1>7 DEF RecoverPassword, RequestsFollowAccounts
  <2>2. CASE e # Boss
    <3>1. UNCHANGED <<history[e], past[e]>>
      BY <1>0, <1>7, <2>2 DEF RecoverPassword, UpdatePassword
    <3>. QED
      BY <1>1, <2>1, <3>1, OrderKept DEF Writing
  <2>3. CASE e = Boss
    <3>1. history'[e] = <<>> /\ past'[e] = Take(<<account[e].pw>> \o past[e], 0)
      BY <1>0, <1>7, <2>3 DEF RecoverPassword, UpdatePassword
    <3>2. <<account[e].pw>> \o past[e] \in Seq(Passwords)
      BY <1>0 DEF AccountRows
    <3>3. Len(past'[e]) <= 0 /\ Len(past'[e]) \in Nat
      <4>1. \A s \in Seq(Passwords) : Len(Take(s, 0)) <= 0 /\ Len(Take(s, 0)) \in Nat
        BY TakeTyped
      <4>. QED
        BY <3>1, <3>2, <4>1
    <3>4. RemembersFrom(e, history[e])'
      BY <3>1, <3>3 DEF RemembersFrom
    <3>. QED
      BY <2>1, <3>4 DEF OrderOf, Writing
  <2>. QED
    BY <2>2, <2>3
<1>. QED
  BY <1>1, <1>3, <1>4, <1>5, <1>6, <1>7, OrderQuiet

-----------------------------------------------------------------------------
(* What holds in every state. *)

LEMMA InvariantInit == Init => IInv
<1>. SUFFICES ASSUME Init PROVE IInv
  OBVIOUS
<1>1. AccountsTypeOK
  BY TypeInit
<1>2. /\ boot = "count" /\ cache.dirty = TRUE /\ \A q \in Slots : req[q] = Idle
      /\ \A e \in Emails : past[e] = <<>> /\ history[e] = <<>>
  BY DEF Init
<1>3. \A s \in Sessions : session[s].st = "live" =>
         account[session[s].user].st = "active"
  <2>. PICK n \in 0..Cardinality(Emails) : \E signedIn \in [1..n -> Emails] :
          session = [s \in Sessions |->
                IF s \in DOMAIN signedIn /\ account[signedIn[s]].st = "active" THEN NewSession(signedIn[s], FALSE)
                ELSE [Over EXCEPT !.st = "free"]]
    BY DEF Init
  <2>. PICK signedIn \in [1..n -> Emails] :
          session = [s \in Sessions |->
                IF s \in DOMAIN signedIn /\ account[signedIn[s]].st = "active" THEN NewSession(signedIn[s], FALSE)
                ELSE [Over EXCEPT !.st = "free"]]
    OBVIOUS
  <2>1. [Over EXCEPT !.st = "free"].st = "free" /\ \A e : NewSession(e, FALSE).user = e
    BY DEF Over, NewSession
  <2>. QED
    BY <2>1
<1>4. RequestsFollowAccounts
  BY <1>2, <1>3 DEF RequestsFollowAccounts, Exists
<1>5. RecoveryInOrder /\ AdminRemains /\ CachingWhatIsStored /\ PolicyInForce
  BY <1>2 DEF RecoveryInOrder, AdminRemains, CachingWhatIsStored, PolicyInForce, At
<1>6. InactiveSignedOut
  BY <1>3 DEF InactiveSignedOut, Live
<1>7. ASSUME NEW e \in Emails PROVE OrderOf(e)
  <2>1. RemembersFrom(e, history[e])
    BY <1>2 DEF RemembersFrom
  <2>. QED
    BY <1>2, <2>1 DEF OrderOf, Writing
<1>8. ChangeInOrder
  BY <1>7 DEF ChangeInOrder
<1>. QED
  BY <1>1, <1>4, <1>5, <1>6, <1>8 DEF IInv

LEMMA InvariantStep == IInv /\ [Next]_vars => IInv'
<1>. SUFFICES ASSUME IInv, [Next]_vars PROVE IInv'
  OBVIOUS
<1>1. AccountsTypeOK' /\ RequestsFollowAccounts'
  BY TypeStep, FollowStep DEF IInv
<1>2. RecoveryInOrder' /\ AdminRemains'
  BY AdminStep DEF IInv
<1>3. CachingWhatIsStored' /\ PolicyInForce'
  BY PolicyStep DEF IInv
<1>4. InactiveSignedOut' /\ ChangeInOrder'
  BY InactiveStep, OrderStep DEF IInv
<1>. QED
  BY <1>1, <1>2, <1>3, <1>4 DEF IInv

\* The invariant the others follow from.
THEOREM AccountsInvariance == Spec => []IInv
BY InvariantInit, InvariantStep, PTL DEF Spec

\* While requests are served there is an active administrator, whatever
\* administrators do to each other and wherever the recovery is interrupted
\* (auth/user/repository.go, bootstrap/admin.go).
THEOREM AnAdminRemains == Spec => []AdminRemains
<1>1. IInv => AdminRemains
  BY DEF IInv
<1>. QED
  BY <1>1, AccountsInvariance, PTL

\* An account that is suspended or deleted is signed out, but for a sign-in that
\* had passed the check of the status, for a revocation that failed and for the
\* request that is about to sign it out (admin/handler.go).
THEOREM InactiveAreSignedOut == Spec => []InactiveSignedOut
<1>1. IInv => InactiveSignedOut
  BY DEF IInv
<1>. QED
  BY <1>1, AccountsInvariance, PTL

\* No request is about to set a password the policy still remembers, but for
\* changes of one account at the same time or one that failed half-way
\* (auth/user/service.go).
THEOREM NoPasswordAgain == Spec => []NoQuickReuse
<1>1. ASSUME IInv PROVE NoQuickReuse
  <2>. SUFFICES ASSUME NEW q \in Slots, At(q, "update"), req[q].count > 0, req[q].user \notin accident.mixed
                PROVE  req[q].new \notin ToSet(Take(<<account[req[q].user].pw>> \o past[req[q].user], req[q].count + 1))
    BY DEF NoQuickReuse
  <2>1. req[q] \in Changes
    BY <1>1, FormOf DEF IInv
  <2>2. req[q].user \in Emails /\ req[q].count \in Nat /\ Writing(q, req[q].user)
    BY <2>1 DEF Changes, Writing, At
  <2>3. Unused(req[q].user, req[q].new, req[q].count)
    BY <1>1, <2>2 DEF IInv, ChangeInOrder, OrderOf
  <2>. QED
    BY <1>1, <2>2, <2>3, UnusedIsNew DEF IInv
<1>. QED
  BY <1>1, AccountsInvariance, PTL

\* The policy in memory is the stored one, but while one is being changed or
\* after two changes have overlapped (security/policy.go).
THEOREM ThePolicyIsInForce == Spec => []PolicyInForce
<1>1. IInv => PolicyInForce
  BY DEF IInv
<1>. QED
  BY <1>1, AccountsInvariance, PTL

=============================================================================

------------------------------ MODULE Accounts ------------------------------
(***************************************************************************)
(* Accounts, sessions and the password policy: the users table and the     *)
(* password history (auth/user), sessions (auth/session), signing in and   *)
(* changing a password (auth/handler), the policy and its cache            *)
(* (security/policy.go), what an administrator does to accounts            *)
(* (admin/handler.go) and the recovery at start-up (bootstrap/admin.go).   *)
(*                                                                         *)
(* A statement or a transaction is one step.  An account is its e-mail     *)
(* address, which no second account may take, not even after a deletion.   *)
(* The policy is reduced to the number of former passwords it remembers.   *)
(* The rate limit and the password's form and age only refuse a request,   *)
(* which a request that is not made stands for.  Two changes of one        *)
(* password, one after the other, are taken to be a second apart, as the   *)
(* history is ordered by whole seconds.                                    *)
(*                                                                         *)
(* Bounds: MaxRequests requests of several statements, MaxCrashes crashes, *)
(* MaxSessions sessions.                                                   *)
(***************************************************************************)
EXTENDS Integers, Sequences, FiniteSets, SequencesExt, TLC

CONSTANTS Emails, Boss, Passwords, Counts, Slots, MaxSessions, MaxRequests, MaxCrashes
ASSUME AccountsAssumption ==
    /\ Boss \in Emails /\ Counts \subseteq Nat
    /\ {MaxSessions, MaxRequests, MaxCrashes} \subseteq Nat
    /\ IsFiniteSet(Emails)

VARIABLES
    account,    \* users and password_credentials
    history,    \* password_history, newest first
    session,    \* sessions
    stored,     \* the policy in server_settings
    cache,      \* security.Service: cached and dirty
    boot,       \* how far start-up is
    req,        \* requests of several statements under way
    used,       \* what has been used of the bounds
    past,       \* history: the passwords an account should remember
    accident    \* history: what overlapping or failing requests have done

vars == <<account, history, session, stored, cache, boot, req, used, past, accident>>

Sessions == 1..MaxSessions
Idle == [op |-> "idle"]
Keep == "keep"      \* a field a patch leaves out
NoSession == 0
Exists(e) == account[e].st # "none"
IsActiveAdmin(a) == a.role = "admin" /\ a.st = "active"
ActiveAdmins == {e \in Emails : IsActiveAdmin(account[e])}
Live(e) == {s \in Sessions : session[s].st = "live" /\ session[s].user = e}

Account(st, role, pw) == [st |-> st, role |-> role, pw |-> pw]
\* Nothing is asked of a session that was revoked or has expired.
Over == [st |-> "over", user |-> Boss, late |-> FALSE]
NewSession(e, late) == [st |-> "live", user |-> e, late |-> late]

\* The database of a first start, of a workspace whose only account was
\* suspended, or of a running one whose administrators may be signed in.
Init ==
    /\ \E p \in Passwords : account \in
          {[e \in Emails |-> Account("none", "user", p)],
           [e \in Emails |-> Account(IF e = Boss THEN "suspended" ELSE "none", "user", p)],
           [e \in Emails |-> Account("active", "admin", p)]}
    /\ \E n \in 0..Cardinality(Emails) : \E signedIn \in [1..n -> Emails] :
          /\ n <= MaxSessions /\ IsInjective(signedIn)
          /\ session = [s \in Sessions |->
                IF s \in DOMAIN signedIn /\ account[signedIn[s]].st = "active" THEN NewSession(signedIn[s], FALSE)
                ELSE [Over EXCEPT !.st = "free"]]
    /\ history = [e \in Emails |-> <<>>] /\ past = [e \in Emails |-> <<>>]
    /\ stored \in Counts /\ cache = [dirty |-> TRUE, count |-> 0]
    /\ boot = "count" /\ req = [q \in Slots |-> Idle]
    /\ used = [requests |-> 0, crashes |-> 0]
    /\ accident = [mixed |-> {}, unrevoked |-> {}, overset |-> FALSE]

Goto(q, r) == req' = [req EXCEPT ![q] = r]
Done(q) == Goto(q, Idle)
Begin(q, r) ==
    /\ boot = "up" /\ req[q] = Idle /\ used.requests < MaxRequests
    /\ Goto(q, r) /\ used' = [used EXCEPT !.requests = @ + 1]
At(q, at) == req[q] # Idle /\ req[q].at = at

-----------------------------------------------------------------------------
(* Statements: auth/user/repository.go, auth/session/repository.go *)

Create(e, role, p) ==
    ~Exists(e) /\ account' = [account EXCEPT ![e] = Account("active", role, p)]

\* The address is in lower case, the password of the policy's form: what is not
\* is refused before the row.
registerWithRole(e, role, p) == Create(e, role, p)

SetRole(e, role) == account' = [account EXCEPT ![e].role = role]
SetStatus(e, st) == account' = [account EXCEPT ![e].st = st]

\* One UPDATE whose WHERE counts the active administrators; no row is changed
\* when the account is the last of them and would not stay one.
LastActiveAdminOfAny(e) ==
    IsActiveAdmin(account[e]) /\ Cardinality({f \in Emails : account[f].role = "admin" /\ account[f].st # "deleted"}) <= 1
LastActiveAdmin(e) == IsActiveAdmin(account[e]) /\ Cardinality(ActiveAdmins) <= 1
SetRolePreservingActiveAdmin(e, role) ==
    IF LastActiveAdmin(e) /\ role # "admin" THEN UNCHANGED account ELSE SetRole(e, role)
SetStatusPreservingActiveAdmin(e, st) ==
    IF LastActiveAdmin(e) /\ st # "active" THEN UNCHANGED account ELSE SetStatus(e, st)

Take(s, n) == SubSeq(s, 1, IF n < Len(s) THEN n ELSE Len(s))
RecentPasswordHashes(e, n) == ToSet(Take(history[e], n))
rememberCurrentPassword(e) == history' = [history EXCEPT ![e] = <<account[e].pw>> \o @]
PrunePasswordHistoryTooMany(e, n) == history' = [history EXCEPT ![e] = Take(@, n - 1)]
PrunePasswordHistory(e, n) == history' = [history EXCEPT ![e] = Take(@, n)]
\* The statement of UpdatePassword after the insertion into the history; the
\* history variable remembers as many as the policy n of the request asks for.
UpdatePassword(e, p, n) ==
    /\ account' = [account EXCEPT ![e].pw = p]
    /\ past' = [past EXCEPT ![e] = Take(<<account[e].pw>> \o @, n)]

FreeSessions == {s \in Sessions : session[s].st = "free" /\ \A t \in 1..s-1 : session[t].st # "free"}
Issue(s, e) ==
    s \in FreeSessions /\ session' = [session EXCEPT ![s] = NewSession(e, account[e].st # "active")]
Revoke(S) == session' = [s \in Sessions |-> IF s \in S THEN Over ELSE session[s]]
RevokeAllForUserExcept(e, keep) == Revoke(Live(e) \ {keep})

-----------------------------------------------------------------------------
(* The policy and its cache: security/policy.go *)

\* The load holds the lock from the read of the table to the cache.
Loaded == IF cache.dirty THEN [dirty |-> FALSE, count |-> stored] ELSE cache
PasswordPolicy == cache' = Loaded

StorePolicy(n) == stored' = n
CachePolicyOnce(n) == cache' = IF cache.dirty THEN [dirty |-> FALSE, count |-> n] ELSE cache
CachePolicy(n) == cache' = [dirty |-> FALSE, count |-> n]

-----------------------------------------------------------------------------
(* Signing in and out: auth/handler/handler.go, auth/user/service.go *)

others == <<history, stored, boot, past, accident>>

register ==
    /\ boot = "up"
    /\ \E e \in Emails, p \in Passwords : registerWithRole(e, "user", p)
    /\ UNCHANGED <<session, cache, req, used, others>>

\* Authenticate reads the account with its status, then the password.
Authenticate(q, op) ==
    \E e \in Emails :
        /\ Exists(e) /\ Begin(q, [op |-> op, at |-> "verify", user |-> e, st |-> account[e].st])
        /\ UNCHANGED <<account, session, cache, others>>

login(q) == Authenticate(q, "login")
changeExpiredPassword(q) == Authenticate(q, "expired")

\* The password is right and the account was active when it was read: login
\* goes on to the session, changeExpiredPassword to ChangePassword.
Authenticated(q) ==
    /\ At(q, "verify")
    /\ IF req[q].st # "active" THEN Done(q)
       ELSE IF req[q].op = "login" THEN Goto(q, [req[q] EXCEPT !.at = "issue"])
       ELSE Goto(q, [op |-> "expired", at |-> "change", user |-> req[q].user, keep |-> NoSession])
    /\ UNCHANGED <<account, session, cache, used, others>>

IssueSession(q) ==
    /\ At(q, "issue") /\ Done(q)
    /\ \E s \in Sessions : Issue(s, req[q].user)
    /\ UNCHANGED <<account, cache, used, others>>

logout ==
    /\ boot = "up"
    /\ \E s \in Sessions : session[s].st = "live" /\ Revoke({s})
    /\ UNCHANGED <<account, cache, req, used, others>>

\* A session comes to its end.
Expire ==
    /\ \E s \in Sessions :
          session[s].st = "live" /\ session' = [session EXCEPT ![s] = Over]
    /\ UNCHANGED <<account, cache, req, used, others>>

-----------------------------------------------------------------------------
(* Changing a password: auth/user/service.go *)

Changing(q, e) == req[q] # Idle /\ req[q].at \in {"change", "remember", "update", "prune"} /\ req[q].user = e
\* History: two requests change one password at the same time.
Mix(e, q) ==
    IF \E r \in Slots \ {q} : Changing(r, e)
    THEN accident' = [accident EXCEPT !.mixed = @ \cup {e}] ELSE UNCHANGED accident

\* The caller has a session, and the password given is right.
changePassword(q) ==
    \E s \in Sessions :
        /\ session[s].st = "live"
        /\ Begin(q, [op |-> "own", at |-> "change", user |-> session[s].user, keep |-> s])
        /\ UNCHANGED <<account, session, cache, others>>

rejectPasswordReuse(e, p, n) == n > 0 /\ p \in {account[e].pw} \cup RecentPasswordHashes(e, n)

\* ChangePassword and AdminSetPassword read the policy's count and compare
\* with the former passwords.
CheckReuse(q) ==
    /\ At(q, "change") /\ PasswordPolicy
    /\ LET e == req[q].user n == Loaded.count IN
       /\ \E p \in Passwords :
             IF rejectPasswordReuse(e, p, n) THEN Done(q)
             ELSE Goto(q, [op |-> req[q].op, at |-> "remember", user |-> e, keep |-> req[q].keep,
                           new |-> p, count |-> n])
       /\ Mix(e, q)
    /\ UNCHANGED <<account, history, session, stored, boot, used, past>>

Remember(q) ==
    /\ At(q, "remember") /\ rememberCurrentPassword(req[q].user)
    /\ Goto(q, [req[q] EXCEPT !.at = "update"])
    /\ UNCHANGED <<account, session, stored, cache, boot, used, past, accident>>

Update(q) ==
    /\ At(q, "update") /\ UpdatePassword(req[q].user, req[q].new, req[q].count)
    /\ Goto(q, [req[q] EXCEPT !.at = "prune"])
    /\ UNCHANGED <<history, session, stored, cache, boot, used, accident>>

\* The password an earlier statement has put into the history is still the
\* current one: it takes a place of the history twice.
UpdateFails(q) ==
    /\ At(q, "update") /\ Done(q)
    /\ accident' = [accident EXCEPT !.mixed = @ \cup {req[q].user}]
    /\ UNCHANGED <<account, history, session, stored, cache, boot, used, past>>

\* Only the two that revoke sessions go on: changeExpiredPassword does not.
Prune(q) ==
    /\ At(q, "prune") /\ PrunePasswordHistory(req[q].user, req[q].count)
    /\ IF req[q].op = "expired" THEN Done(q) ELSE Goto(q, [req[q] EXCEPT !.at = "revoke"])
    /\ UNCHANGED <<account, session, stored, cache, boot, used, past, accident>>

-----------------------------------------------------------------------------
(* The administrator: admin/handler.go *)

\* RequireAdmin: the caller has a session, and is an active administrator.
Caller(e) == e \in ActiveAdmins /\ Live(e) # {}

createUser ==
    /\ boot = "up" /\ \E c \in Emails : Caller(c)
    /\ \E e \in Emails, role \in {"user", "admin"}, p \in Passwords : Create(e, role, p)
    /\ UNCHANGED <<session, cache, req, used, others>>

\* Role and status, each perhaps left out; nobody demotes, suspends or deletes
\* themselves.
patchUser(q) ==
    \E c, e \in Emails, role \in {Keep, "user", "admin"}, st \in {Keep, "active", "suspended", "deleted"} :
        /\ Caller(c) /\ Exists(e)
        /\ c = e => role # "user" /\ st \in {Keep, "active"}
        /\ <<role, st>> # <<Keep, Keep>>
        /\ Begin(q, [op |-> "patch", at |-> IF role = Keep THEN "status" ELSE "role",
                     user |-> e, keep |-> NoSession, role |-> role, st |-> st])
        /\ UNCHANGED <<account, session, cache, others>>

deleteUser(q) ==
    \E c, e \in Emails :
        /\ Caller(c) /\ Exists(e) /\ c # e
        /\ Begin(q, [op |-> "patch", at |-> "status", user |-> e, keep |-> NoSession,
                     role |-> Keep, st |-> "deleted"])
        /\ UNCHANGED <<account, session, cache, others>>

PatchRole(q) ==
    /\ At(q, "role") /\ SetRolePreservingActiveAdmin(req[q].user, req[q].role)
    /\ IF req[q].st = Keep \/ (LastActiveAdmin(req[q].user) /\ req[q].role # "admin") THEN Done(q)
       ELSE Goto(q, [req[q] EXCEPT !.at = "status"])
    /\ UNCHANGED <<session, cache, used, others>>

PatchStatusDeletedOnly(q) ==
    /\ At(q, "status") /\ SetStatusPreservingActiveAdmin(req[q].user, req[q].st)
    /\ IF req[q].st # "deleted" \/ LastActiveAdmin(req[q].user) THEN Done(q)
       ELSE Goto(q, [req[q] EXCEPT !.at = "revoke"])
    /\ UNCHANGED <<session, cache, used, others>>
PatchStatus(q) ==
    /\ At(q, "status") /\ SetStatusPreservingActiveAdmin(req[q].user, req[q].st)
    /\ IF req[q].st = "active" \/ LastActiveAdmin(req[q].user) THEN Done(q)
       ELSE Goto(q, [req[q] EXCEPT !.at = "revoke"])
    /\ UNCHANGED <<session, cache, used, others>>

\* revokeActiveSessionsForUser, or RevokeAllForUserExcept of the caller's own
\* session.
RevokeSessions(q) ==
    /\ At(q, "revoke") /\ Done(q)
    /\ RevokeAllForUserExcept(req[q].user, req[q].keep)
    /\ accident' = [accident EXCEPT !.unrevoked = @ \ (IF req[q].keep = NoSession THEN {req[q].user} ELSE {})]
    /\ UNCHANGED <<account, history, stored, cache, boot, used, past>>

\* The account q has suspended or deleted and is about to sign out.
SigningOut(q) == IF At(q, "revoke") /\ req[q].op = "patch" THEN {req[q].user} ELSE {}

\* The status or the password is changed, the sessions stay.
RevokeFails(q) ==
    /\ At(q, "revoke") /\ Done(q)
    /\ accident' = [accident EXCEPT !.unrevoked = @ \cup SigningOut(q)]
    /\ UNCHANGED <<account, history, session, stored, cache, boot, used, past>>

\* Reads the status (and the thirty days), then sets it whatever it is now.
restoreUser(q) ==
    \E c, e \in Emails :
        /\ Caller(c) /\ account[e].st = "deleted"
        /\ Begin(q, [op |-> "restore", at |-> "restore", user |-> e])
        /\ UNCHANGED <<account, session, cache, others>>
RestoreStatus(q) ==
    /\ At(q, "restore") /\ Done(q) /\ SetStatus(req[q].user, "active")
    /\ UNCHANGED <<session, cache, used, others>>

resetPassword(q) ==
    \E c, e \in Emails :
        /\ Caller(c) /\ Exists(e)
        /\ Begin(q, [op |-> "reset", at |-> "change", user |-> e, keep |-> NoSession])
        /\ UNCHANGED <<account, session, cache, others>>

revokeSession ==
    /\ boot = "up" /\ \E c \in Emails : Caller(c)
    /\ \E s \in Sessions : session[s].st = "live" /\ Revoke({s})
    /\ UNCHANGED <<account, cache, req, used, others>>

revokeUserSessions ==
    /\ boot = "up" /\ \E c \in Emails : Caller(c)
    /\ \E e \in Emails :
          Live(e) # {} /\ Revoke(Live(e)) /\ accident' = [accident EXCEPT !.unrevoked = @ \ {e}]
    /\ UNCHANGED <<account, history, stored, cache, boot, req, used, past>>

\* The policy is read, patched, stored and cached.
putPasswordPolicy(q) ==
    /\ \E c \in Emails : Caller(c)
    /\ PasswordPolicy
    /\ \E n \in Counts : Begin(q, [op |-> "policy", at |-> "store", count |-> n])
    /\ UNCHANGED <<account, session, others>>
PolicyStored(q) ==
    /\ At(q, "store") /\ StorePolicy(req[q].count) /\ Goto(q, [req[q] EXCEPT !.at = "cache"])
    /\ accident' = [accident EXCEPT !.overset = @ \/ \E r \in Slots : At(r, "cache")]
    /\ UNCHANGED <<account, history, session, cache, boot, used, past>>
PolicyCached(q) ==
    /\ At(q, "cache") /\ CachePolicy(req[q].count) /\ Done(q)
    /\ UNCHANGED <<account, session, used, others>>

-----------------------------------------------------------------------------
(* Start-up: bootstrap/admin.go *)

\* EnsureAdmin: an active administrator is there, or the address of the
\* configuration is registered, or its account is recovered.
EnsureAdmin ==
    /\ boot = "count"
    /\ \/ ActiveAdmins # {} /\ boot' = "up" /\ UNCHANGED account
       \/ /\ ActiveAdmins = {} /\ boot' = "up"
          /\ \E p \in Passwords : registerWithRole(Boss, "admin", p)
       \/ ActiveAdmins = {} /\ Exists(Boss) /\ boot' = "password" /\ UNCHANGED account
    /\ UNCHANGED <<history, session, stored, cache, req, used, past, accident>>

\* This service has no policy: nothing is compared, and the history is pruned
\* to nothing.  Nothing else runs, and a crash between its statements has them
\* all run again.
RecoverPassword ==
    /\ boot = "password" /\ boot' = "role"
    /\ \E p \in Passwords : UpdatePassword(Boss, p, 0)
    /\ history' = [history EXCEPT ![Boss] = <<>>]
    /\ UNCHANGED <<session, stored, cache, req, used, accident>>
RecoverRole ==
    /\ boot = "role" /\ boot' = "status" /\ SetRole(Boss, "admin")
    /\ UNCHANGED <<history, session, stored, cache, req, used, past, accident>>
RecoverStatus ==
    /\ boot = "status" /\ boot' = "up" /\ SetStatus(Boss, "active")
    /\ UNCHANGED <<history, session, stored, cache, req, used, past, accident>>

\* Requests end where they are; the next start finds an empty cache.
Crash ==
    /\ used.crashes < MaxCrashes
    /\ used' = [used EXCEPT !.crashes = @ + 1]
    /\ accident' = [accident EXCEPT
          !.mixed = @ \cup {e \in Emails : \E q \in Slots : Changing(q, e) /\ At(q, "update")},
          !.unrevoked = @ \cup UNION {SigningOut(q) : q \in Slots}]
    /\ req' = [q \in Slots |-> Idle] /\ cache' = [dirty |-> TRUE, count |-> 0] /\ boot' = "count"
    /\ UNCHANGED <<account, history, session, stored, past>>

Startup == EnsureAdmin \/ RecoverPassword \/ RecoverRole \/ RecoverStatus
Next ==
    \/ register \/ logout \/ Expire \/ createUser \/ revokeSession \/ revokeUserSessions
    \/ \E q \in Slots :
          \/ login(q) \/ changeExpiredPassword(q) \/ Authenticated(q) \/ IssueSession(q)
          \/ changePassword(q) \/ CheckReuse(q) \/ Remember(q) \/ Update(q) \/ UpdateFails(q) \/ Prune(q)
          \/ patchUser(q) \/ deleteUser(q) \/ PatchRole(q) \/ PatchStatus(q)
          \/ RevokeSessions(q) \/ RevokeFails(q) \/ restoreUser(q) \/ RestoreStatus(q) \/ resetPassword(q)
          \/ putPasswordPolicy(q) \/ PolicyStored(q) \/ PolicyCached(q)
    \/ Startup \/ Crash

Spec == Init /\ [][Next]_vars

-----------------------------------------------------------------------------
(* What must hold *)

\* While requests are served somebody can open the console: no two
\* administrators, whatever they do to each other at the same time, and no
\* crash in the middle of the recovery leave the workspace without one
\* (repository.go:249-333, bootstrap/admin.go:24-74).
AdminRemains == boot = "up" => ActiveAdmins # {}

\* An account that is suspended or deleted is signed out everywhere, once the
\* request that did it has finished: but for a sign-in that had passed the check
\* of the status before, and for a failed revocation, which the next one mends.
InactiveSignedOut ==
    \A e \in Emails :
        Exists(e) /\ account[e].st # "active" =>
            \/ \A s \in Live(e) : session[s].late
            \/ e \in accident.unrevoked
            \/ \E q \in Slots : e \in SigningOut(q)

\* The password an account is about to get is neither the current one nor one
\* of as many before it as the policy remembers: but for two changes of one
\* password at the same time, and one that failed between the history and the
\* password.
NoQuickReuse ==
    \A q \in Slots :
        At(q, "update") /\ req[q].count > 0 /\ req[q].user \notin accident.mixed =>
            LET e == req[q].user IN
            req[q].new \notin ToSet(Take(<<account[e].pw>> \o past[e], req[q].count + 1))

\* What the server enforces is what the database holds, but while a change is
\* under way or after two changes have overlapped.
PolicyInForce ==
    cache.dirty \/ cache.count = stored \/ accident.overset \/ \E q \in Slots : At(q, "cache")
=============================================================================

----------------------------- MODULE AuthFlows -----------------------------
(***************************************************************************)
(* The use cases that issue, rotate and revoke sessions, running           *)
(* concurrently: authService (src/app/services/auth.go) and the operations *)
(* of userService (src/app/services/user.go) that end sessions, over the   *)
(* users table and the session store of SessionStore.                      *)
(*                                                                         *)
(* A request is one caller of the store.  It takes one step per access to  *)
(* Postgres or Redis; pc[r] is the access it makes next and loc[r] what it *)
(* has read and will use later.  A request that answers an error before it *)
(* has changed anything takes no step at all.  Hashing and comparing       *)
(* passwords is local: a client presents the current password or is turned *)
(* away, and cred counts the passwords an account has had.                 *)
(***************************************************************************)
EXTENDS Integers, FiniteSets

CONSTANTS
  Users, NoUser, Requests, Pairs, NoPair,
  AccessTTL, RefreshTTL, Grace, RedisDelay, MaxTime,   \* of SessionStore
  MaxCred,         \* bound on the passwords of an account
  Operations,      \* the endpoints clients call in this instance
  AllowFailures    \* whether requests may end early and answers get lost

ASSUME FlowAssumption ==
  /\ NoUser \notin Users /\ NoPair \notin Pairs
  /\ AccessTTL \in Nat \ {0} /\ RefreshTTL \in Nat
  /\ AccessTTL < RefreshTTL      \* Config.Validate
  /\ Grace \in Nat /\ RedisDelay \in Nat /\ MaxTime \in Nat
  /\ MaxCred \in Nat

VARIABLES
  now, owner, iat, call, sessions, hashDies, epoch, epochDies, blacklist,
  lastRevoke, recalled, denied, \* of SessionStore
  user,        \* user[u]: the row of u
  pc, loc,     \* the requests
  delivered,   \* the pairs a client has received
  origin,      \* history: on what grounds a registered pair was issued
  unrevoked    \* history: users whose last revocation was given up

storeVars == <<now, owner, iat, call, sessions, hashDies, epoch, epochDies,
               blacklist, lastRevoke, recalled, denied>>
vars == <<storeVars, user, pc, loc, delivered, origin, unrevoked>>

S == INSTANCE SessionStore WITH Callers <- Requests

Roles == {"user", "admin"}

Row == [exists : BOOLEAN, active : BOOLEAN, verified : BOOLEAN,
        role : Roles, cred : 0..MaxCred]

(***************************************************************************)
(* cred and role are those of the account when the grounds for the session *)
(* were read; pair and access are tokens the client presented.  tainted    *)
(* records that a revocation of the user ran while the request was under   *)
(* way, or that a session already outdated authorised it.                  *)
(***************************************************************************)
Local == [op : {"none", "login", "refresh", "logout", "logoutAll", "change",
                "reset", "update", "delete"},
          user : Users \cup {NoUser}, cred : 0..MaxCred, role : Roles,
          pair : Pairs \cup {NoPair}, access : Pairs \cup {NoPair},
          tainted : BOOLEAN]

NoLocal == [op |-> "none", user |-> NoUser, cred |-> 0, role |-> "user",
            pair |-> NoPair, access |-> NoPair, tainted |-> FALSE]

Origin == [cred : 0..MaxCred, role : Roles, parent : Pairs \cup {NoPair},
           tainted : BOOLEAN, registered : BOOLEAN]

NoOrigin == [cred |-> 0, role |-> "user", parent |-> NoPair,
             tainted |-> FALSE, registered |-> FALSE]

Labels == {"idle", "check", "load", "rotate", "issue", "store",
           "hdel", "ttl", "blacklist", "verify", "write", "revoke", "wipe"}

\* The operations that owe the account a revocation once they have committed.
Revoking == {"change", "reset", "update", "delete"}

Begin(r, label, l) ==
  /\ pc[r] = "idle"
  /\ l.op \in Operations
  /\ pc' = [pc EXCEPT ![r] = label]
  /\ loc' = [loc EXCEPT ![r] = l]

At(r, op, label) == loc[r].op = op /\ pc[r] = label

Goto(r, label) ==
  /\ pc' = [pc EXCEPT ![r] = label]
  /\ UNCHANGED loc

Finish(r) ==
  /\ pc' = [pc EXCEPT ![r] = "idle"]
  /\ loc' = [loc EXCEPT ![r] = NoLocal]

\* A pair whose grounds no longer hold.
Outdated(p) ==
  LET row == user[owner[p]]
  IN  \/ ~row.exists
      \/ ~row.active
      \/ row.cred # origin[p].cred
      \/ row.role # origin[p].role

\* Middleware Authenticate, for a client that has received pair p.
Authenticate(p) == p \in delivered /\ S!AccessAccepted(p)

-----------------------------------------------------------------------------
Init ==
  /\ S!Init
  /\ user = [u \in Users |-> [exists |-> TRUE, active |-> TRUE,
                              verified |-> FALSE, role |-> "user", cred |-> 0]]
  /\ pc = [r \in Requests |-> "idle"]
  /\ loc = [r \in Requests |-> NoLocal]
  /\ delivered = {}
  /\ origin = [p \in Pairs |-> NoOrigin]
  /\ unrevoked = {}

\* VerifyEmail, its link apart: the transaction that marks the account.
VerifyEmail(u) ==
  /\ user[u].exists
  /\ user' = [user EXCEPT ![u].verified = TRUE]
  /\ UNCHANGED <<storeVars, pc, loc, delivered, origin, unrevoked>>

(***************************************************************************)
(* issueSession: mint a pair, register its refresh token, answer.          *)
(***************************************************************************)
Issue(r) ==
  /\ pc[r] = "issue"
  /\ \E p \in Pairs : S!GenerateTokenPair(r, loc[r].user, p)
  /\ Goto(r, "store")
  /\ UNCHANGED <<user, delivered, origin, unrevoked>>

Register(r) ==
  /\ pc[r] = "store"
  /\ S!StoreRefreshToken(r)
  /\ LET p == call[r].pair
     IN  /\ origin' = [origin EXCEPT ![p] =
               [cred |-> loc[r].cred, role |-> loc[r].role,
                parent |-> loc[r].pair, tainted |-> loc[r].tainted,
                registered |-> TRUE]]
         /\ \/ delivered' = delivered \cup {p}
            \/ AllowFailures /\ UNCHANGED delivered   \* the answer is lost
  /\ Finish(r)
  /\ UNCHANGED <<user, unrevoked>>

(***************************************************************************)
(* RevokeAllSessions, from every use case that calls it.  Of the requests  *)
(* of the user under way at that moment, none has had its session wiped;   *)
(* a change that gave up its own revocation has left it to this one.       *)
(***************************************************************************)
RevokeRead(r) ==
  /\ pc[r] = "revoke"
  /\ S!RevokeAllRead(r, loc[r].user)
  /\ Goto(r, "wipe")
  /\ UNCHANGED <<user, delivered, origin, unrevoked>>

Wipe(r) ==
  /\ pc[r] = "wipe"
  /\ S!RevokeAllSessions(r)
  /\ LET u == loc[r].user
         crossed == {s \in Requests : loc[s].user = u /\ (s # r \/ u \in unrevoked)}
         tainting == [s \in Requests |->
                        IF s \in crossed THEN [loc[s] EXCEPT !.tainted = TRUE]
                                         ELSE loc[s]]
     IN  /\ unrevoked' = unrevoked \ {u}
         /\ IF loc[r].op = "change"
            THEN /\ pc' = [pc EXCEPT ![r] = "issue"]
                 /\ loc' = tainting
            ELSE /\ pc' = [pc EXCEPT ![r] = "idle"]
                 /\ loc' = [tainting EXCEPT ![r] = NoLocal]
  /\ UNCHANGED <<user, delivered, origin>>

(***************************************************************************)
(* Login                                                                   *)
(***************************************************************************)
\* (mutant) The check of email_verified_at left out.
Login_Unverified(r, u) ==
  /\ user[u].exists /\ user[u].active
  /\ Begin(r, "issue", [NoLocal EXCEPT !.op = "login", !.user = u,
                          !.cred = user[u].cred, !.role = user[u].role])
  /\ UNCHANGED <<storeVars, user, delivered, origin, unrevoked>>
Login(r, u) ==
  /\ user[u].exists /\ user[u].active /\ user[u].verified
  /\ Begin(r, "issue", [NoLocal EXCEPT !.op = "login", !.user = u,
                          !.cred = user[u].cred, !.role = user[u].role])
  /\ UNCHANGED <<storeVars, user, delivered, origin, unrevoked>>

(***************************************************************************)
(* Refresh                                                                 *)
(***************************************************************************)
\* ParseRefreshToken accepts the token.
Refresh(r, p) ==
  /\ p \in delivered
  /\ now < S!RefreshExpiry(p)
  /\ Begin(r, "check", [NoLocal EXCEPT !.op = "refresh", !.user = owner[p],
                          !.cred = origin[p].cred, !.pair = p,
                          !.tainted = origin[p].tainted])
  /\ UNCHANGED <<storeVars, user, delivered, origin, unrevoked>>

\* IsRefreshTokenActive; an inactive token raises the reuse alarm.
\* (mutant) An inactive token is refused, and that is all.
RefreshCheck_NoAlarm(r) ==
  /\ At(r, "refresh", "check")
  /\ \E active \in BOOLEAN :
       /\ S!IsRefreshTokenActive(loc[r].pair, active)
       /\ IF active THEN Goto(r, "load") ELSE Finish(r)
  /\ UNCHANGED <<user, delivered, origin, unrevoked>>
RefreshCheck(r) ==
  /\ At(r, "refresh", "check")
  /\ \E active \in BOOLEAN :
       /\ S!IsRefreshTokenActive(loc[r].pair, active)
       /\ Goto(r, IF active THEN "load" ELSE "revoke")
  /\ UNCHANGED <<user, delivered, origin, unrevoked>>

\* GetByID: 404 for a deleted account, revocation and 403 for an inactive one.
RefreshLoad(r) ==
  /\ At(r, "refresh", "load")
  /\ LET row == user[loc[r].user]
     IN  \/ ~row.exists /\ Finish(r)
         \/ row.exists /\ ~row.active /\ Goto(r, "revoke")
         \/ /\ row.exists /\ row.active
            /\ pc' = [pc EXCEPT ![r] = "rotate"]
            /\ loc' = [loc EXCEPT ![r].role = row.role]
  /\ UNCHANGED <<storeVars, user, delivered, origin, unrevoked>>

\* (mutant) The old token is left registered.
RefreshRotate_KeepOld(r) ==
  /\ At(r, "refresh", "rotate")
  /\ Goto(r, "issue")
  /\ UNCHANGED <<storeVars, user, delivered, origin, unrevoked>>
RefreshRotate(r) ==
  /\ At(r, "refresh", "rotate")
  /\ S!RevokeRefreshToken(loc[r].pair)
  /\ Goto(r, "issue")
  /\ UNCHANGED <<user, delivered, origin, unrevoked>>

(***************************************************************************)
(* Logout, with an optional refresh token q, and LogoutAll                 *)
(***************************************************************************)
\* A refresh token that does not parse or belongs to another user is ignored.
Logout(r, p, q) ==
  /\ Authenticate(p)
  /\ q # NoPair => /\ q \in delivered /\ owner[q] = owner[p]
                   /\ now < S!RefreshExpiry(q)
  /\ Begin(r, IF q = NoPair THEN "ttl" ELSE "hdel",
           [NoLocal EXCEPT !.op = "logout", !.user = owner[p], !.pair = q,
                           !.access = p])
  /\ UNCHANGED <<storeVars, user, delivered, origin, unrevoked>>

LogoutHdel(r) ==
  /\ At(r, "logout", "hdel")
  /\ S!RevokeRefreshToken(loc[r].pair)
  /\ Goto(r, "ttl")
  /\ UNCHANGED <<user, delivered, origin, unrevoked>>

LogoutTTL(r) ==
  /\ At(r, "logout", "ttl")
  /\ \/ /\ S!BlacklistRead(r, loc[r].access)
        /\ Goto(r, "blacklist")
     \/ /\ now >= S!AccessExpiry(loc[r].access)
        /\ Finish(r)
        /\ UNCHANGED storeVars
  /\ UNCHANGED <<user, delivered, origin, unrevoked>>

LogoutBlacklist(r) ==
  /\ At(r, "logout", "blacklist")
  /\ S!BlacklistAccessToken(r)
  /\ IF call'[r] = S!Idle THEN Finish(r) ELSE UNCHANGED <<pc, loc>>
  /\ UNCHANGED <<user, delivered, origin, unrevoked>>

LogoutAll(r, p) ==
  /\ Authenticate(p)
  /\ Begin(r, "revoke", [NoLocal EXCEPT !.op = "logoutAll", !.user = owner[p]])
  /\ UNCHANGED <<storeVars, user, delivered, origin, unrevoked>>

(***************************************************************************)
(* ChangePassword                                                          *)
(***************************************************************************)
ChangePassword(r, p) ==
  /\ Authenticate(p)
  /\ Begin(r, "verify", [NoLocal EXCEPT !.op = "change", !.user = owner[p],
                           !.tainted = origin[p].tainted \/ Outdated(p)])
  /\ UNCHANGED <<storeVars, user, delivered, origin, unrevoked>>

\* GetByID and the comparison of the current password.  is_active is not read.
ChangeVerify(r) ==
  /\ At(r, "change", "verify")
  /\ LET row == user[loc[r].user]
     IN  \/ ~row.exists /\ Finish(r)
         \/ /\ row.exists
            /\ pc' = [pc EXCEPT ![r] = "write"]
            /\ loc' = [loc EXCEPT ![r].role = row.role]
  /\ UNCHANGED <<storeVars, user, delivered, origin, unrevoked>>

\* UpdatePassword: by id alone, whatever the row has become since; no error
\* when it is gone.
\* (mutant) The new pair is issued and the old sessions are left alone.
ChangeWrite_NoRevoke(r) ==
  /\ At(r, "change", "write")
  /\ LET u == loc[r].user
     IN  /\ user[u].exists
         /\ user[u].cred < MaxCred
         /\ user' = [user EXCEPT ![u].cred = @ + 1]
         /\ loc' = [loc EXCEPT ![r].cred = user[u].cred + 1]
  /\ pc' = [pc EXCEPT ![r] = "issue"]
  /\ UNCHANGED <<storeVars, delivered, origin, unrevoked>>
ChangeWrite(r) ==
  /\ At(r, "change", "write")
  /\ LET u == loc[r].user
     IN  IF user[u].exists
         THEN /\ user[u].cred < MaxCred
              /\ user' = [user EXCEPT ![u].cred = @ + 1]
              /\ loc' = [loc EXCEPT ![r].cred = user[u].cred + 1]
         ELSE UNCHANGED <<user, loc>>
  /\ pc' = [pc EXCEPT ![r] = "revoke"]
  /\ UNCHANGED <<storeVars, delivered, origin, unrevoked>>

(***************************************************************************)
(* ResetPassword, from the commit of its transaction on; how the link is   *)
(* consumed is in SingleUseLinks.                                          *)
(***************************************************************************)
ResetPassword(r, u) ==
  /\ user[u].exists
  /\ user[u].cred < MaxCred
  /\ user' = [user EXCEPT ![u].cred = @ + 1]
  /\ Begin(r, "revoke", [NoLocal EXCEPT !.op = "reset", !.user = u])
  /\ UNCHANGED <<storeVars, delivered, origin, unrevoked>>

(***************************************************************************)
(* UserService.Update and Delete, by an administrator who is not one of    *)
(* Users: the row first, then the sessions.                                *)
(***************************************************************************)
\* The row after an update; "keep" is a field the request leaves out.
Updated(row, role, active) ==
  [row EXCEPT !.role = IF role = "keep" THEN @ ELSE role,
              !.active = IF active = "keep" THEN @ ELSE active = "on"]

\* A deactivation revokes, and so does any role, be it the one the account has;
\* an activation does not.
\* (mutant) Only a deactivation revokes.
Update_NoRevoke(r, u, role, active) ==
  /\ user[u].exists
  /\ pc[r] = "idle" /\ "update" \in Operations
  /\ user' = [user EXCEPT ![u] = Updated(@, role, active)]
  /\ IF active = "off"
     THEN Begin(r, "revoke", [NoLocal EXCEPT !.op = "update", !.user = u])
     ELSE UNCHANGED <<pc, loc>>
  /\ UNCHANGED <<storeVars, delivered, origin, unrevoked>>
Update(r, u, role, active) ==
  /\ user[u].exists
  /\ pc[r] = "idle" /\ "update" \in Operations
  /\ user' = [user EXCEPT ![u] = Updated(@, role, active)]
  /\ IF role # "keep" \/ active = "off"
     THEN Begin(r, "revoke", [NoLocal EXCEPT !.op = "update", !.user = u])
     ELSE UNCHANGED <<pc, loc>>
  /\ UNCHANGED <<storeVars, delivered, origin, unrevoked>>

Delete(r, u) ==
  /\ user[u].exists
  /\ user' = [user EXCEPT ![u].exists = FALSE]
  /\ Begin(r, "revoke", [NoLocal EXCEPT !.op = "delete", !.user = u])
  /\ UNCHANGED <<storeVars, delivered, origin, unrevoked>>

-----------------------------------------------------------------------------
\* A crash, a cancelled request, or an error of Redis or Postgres: what the
\* request has not done by now it never does.  Update, Delete and
\* ResetPassword log a failed revocation and answer success all the same.
Abort(r) ==
  /\ AllowFailures
  /\ pc[r] # "idle"
  /\ IF call[r] = S!Idle THEN UNCHANGED storeVars ELSE S!Fail(r)
  /\ unrevoked' = IF pc[r] \in {"revoke", "wipe"} /\ loc[r].op \in Revoking
                  THEN unrevoked \cup {loc[r].user}
                  ELSE unrevoked
  /\ Finish(r)
  /\ UNCHANGED <<user, delivered, origin>>

Tick == S!Tick /\ UNCHANGED <<user, pc, loc, delivered, origin, unrevoked>>

\* A request that has begun goes on.
Step(r) ==
  \/ Issue(r) \/ Register(r) \/ RevokeRead(r) \/ Wipe(r)
  \/ RefreshCheck(r) \/ RefreshLoad(r) \/ RefreshRotate(r)
  \/ LogoutHdel(r) \/ LogoutTTL(r) \/ LogoutBlacklist(r)
  \/ ChangeVerify(r) \/ ChangeWrite(r)

Arrive(r) ==
  \/ \E u \in Users : Login(r, u) \/ ResetPassword(r, u) \/ Delete(r, u)
  \/ \E u \in Users, role \in Roles \cup {"keep"}, active \in {"keep", "on", "off"} :
       Update(r, u, role, active)
  \/ \E p \in Pairs : Refresh(r, p) \/ LogoutAll(r, p) \/ ChangePassword(r, p)
  \/ \E p \in Pairs, q \in Pairs \cup {NoPair} : Logout(r, p, q)

Next ==
  \/ \E r \in Requests : Step(r) \/ Arrive(r) \/ Abort(r)
  \/ \E u \in Users : VerifyEmail(u)
  \/ Tick

Spec == Init /\ [][Next]_vars

\* A goroutine that can run runs in the end.
FairSpec == Spec /\ \A r \in Requests : WF_vars(Step(r))

-----------------------------------------------------------------------------
TypeOK ==
  /\ S!TypeOK
  /\ user \in [Users -> Row]
  /\ pc \in [Requests -> Labels]
  /\ loc \in [Requests -> Local]
  /\ delivered \in SUBSET Pairs
  /\ origin \in [Pairs -> Origin]
  /\ unrevoked \in SUBSET Users

\* No change of the account is waiting for its revocation.
Settled(u) ==
  /\ u \notin unrevoked
  /\ \A r \in Requests :
       loc[r].user = u /\ loc[r].op \in Revoking => pc[r] \notin {"revoke", "wipe"}

\* Once the revocations of a user's password, role, activation and deletion
\* changes have run, what is left of the sessions from before is no refresh
\* token, and no access token but those issued within RedisDelay seconds of
\* the last revocation: the exceptions descend from requests that were under
\* way when a revocation ran.  (The order write, then revoke; which changes
\* revoke; what a refresh hands on.)
OutdatedSessionsEnd ==
  \A p \in Pairs :
    /\ origin[p].registered /\ ~origin[p].tainted
    /\ Outdated(p) /\ Settled(owner[p])
    => /\ ~S!RefreshActive(p)
       /\ S!AccessAccepted(p) => lastRevoke[owner[p]] <= iat[p] + RedisDelay

\* Refresh: from the moment a rotation hands out a new pair, the token it was
\* given never passes the check again, even if the answer got lost.
RotatedOutIsInactive ==
  \A p, q \in Pairs :
    origin[q].registered /\ origin[q].parent = p => ~S!RefreshActive(p)

\* README: "no session is issued" by registration and login rejects the account
\* until verify-email consumes the link.  No flow gets round it.
NoSessionBeforeVerification ==
  \A p \in Pairs : S!Minted(p) => user[owner[p]].verified

(***************************************************************************)
(* Liveness, without failures.                                             *)
(***************************************************************************)
\* auth.go:193: presenting a rotated-out refresh token drops every session of
\* the account, those rotated from it included.
ReplayDropsSessions ==
  \A p \in Pairs : \A q \in Pairs \ {p} :
    (\E r \in Requests :
       /\ At(r, "refresh", "check") /\ loc[r].pair = p
       /\ \E c \in Pairs : origin[c].registered /\ origin[c].parent = p
       /\ S!RefreshActive(q) /\ owner[q] = owner[p])
    ~> ~S!RefreshActive(q)

\* Update, Delete, ChangePassword, ResetPassword: a session that is outdated
\* stops being refreshable, unless the account is changed back.
ChangesTakeEffect ==
  \A p \in Pairs :
    (origin[p].registered /\ ~origin[p].tainted /\ Outdated(p)) ~>
      (~S!RefreshActive(p) \/ ~Outdated(p))

(***************************************************************************)
(* What the comments and the README say, which interleavings refute.       *)
(***************************************************************************)
Quiet == \A r \in Requests : pc[r] = "idle"

\* auth.go:386: "Anyone holding a session obtained with the old password is
\* logged out."
OldPasswordLoggedOut ==
  Quiet => \A p \in Pairs : origin[p].registered /\ S!RefreshActive(p) =>
             origin[p].cred = user[owner[p]].cred

\* auth.go:193: "the presented token is revoked and a new pair is issued", and
\* README: "presenting a rotated-out token is treated as theft and drops every
\* session": so of the pairs rotated from one token at most one is live.
RotatesOnce ==
  \A p, q \in Pairs :
    /\ p # q
    /\ S!RefreshActive(p) /\ origin[p].registered
    /\ S!RefreshActive(q) /\ origin[q].registered
    /\ origin[p].parent # NoPair
    => origin[p].parent # origin[q].parent
=============================================================================

-------------------------- MODULE AuthFlowsProofs --------------------------
(***************************************************************************)
(* AuthFlows, proved for any users, requests, pairs and lifetimes, and for *)
(* any choice of endpoints, with and without failures.                     *)
(*                                                                         *)
(* The flows work on the store by its own steps only, so what              *)
(* SessionStoreProofs proves of the store holds while they run: P has the  *)
(* store and its theorems, S is the store as AuthFlows names it.           *)
(***************************************************************************)
EXTENDS AuthFlows, TLAPS

P == INSTANCE SessionStoreProofs WITH Callers <- Requests

\* What a request may rely on, at a label and with the locals x.
Grounded(label, x) ==
  /\ label = "idle" => x = NoLocal
  /\ label # "idle" => x.user \in Users
  /\ label \in {"issue", "store"} => x.op \in {"login", "refresh", "change"}
  /\ x.op \in {"login", "change"} => x.pair = NoPair
  /\ x.op \in {"login", "refresh", "change"} => user[x.user].verified
  /\ x.op = "refresh" => x.pair \in delivered
  /\ x.op = "refresh" /\ label \in {"issue", "store"} => x.pair \notin sessions[owner[x.pair]]
  /\ x.op = "logout" => x.access \in delivered
  /\ x.op = "logout" /\ label = "hdel" => x.pair \in delivered

\* A pair that has been handed out, if only to Redis.
Known(p) == p \in delivered \/ origin[p].registered

\* A known pair is not going to be registered once more; a minted one belongs to a verified
\* account; one that another has been rotated from is not registered any more.
PairInv ==
  \A p \in Pairs :
    /\ Known(p) => P!Minted(p) /\ \A r \in Requests : call[r] # P!Storing(p)
    /\ P!Minted(p) => user[owner[p]].verified
    /\ origin[p].registered /\ origin[p].parent \in Pairs =>
         origin[p].parent \in delivered
         /\ origin[p].parent \notin sessions[owner[origin[p].parent]]

FlowInv ==
  /\ TypeOK /\ P!StoreInv /\ PairInv
  /\ \A r \in Requests : Grounded(pc[r], loc[r])

-----------------------------------------------------------------------------
(***************************************************************************)
(* The store                                                               *)
(***************************************************************************)
\* What SessionStore assumes of its constants.
LEMMA StoreConstants ==
  /\ NoUser \notin Users
  /\ AccessTTL \in Nat \ {0} /\ RefreshTTL \in Nat /\ AccessTTL < RefreshTTL
  /\ Grace \in Nat /\ RedisDelay \in Nat /\ MaxTime \in Nat
  BY FlowAssumption

LEMMA SameTypes == S!TypeOK <=> P!TypeOK
  BY DEF S!TypeOK, P!TypeOK, S!Call, P!Call, S!Idle, P!Idle

LEMMA SameSteps ==
  ASSUME NEW r, NEW u, NEW p, NEW active
  PROVE  /\ S!GenerateTokenPair(r, u, p) => P!GenerateTokenPair(r, u, p)
         /\ S!StoreRefreshToken(r) => P!StoreRefreshToken(r)
         /\ S!RevokeAllRead(r, u) => P!RevokeAllRead(r, u)
         /\ S!RevokeAllSessions(r) => P!RevokeAllSessions(r)
         /\ S!IsRefreshTokenActive(p, active) => P!IsRefreshTokenActive(p, active)
         /\ S!RevokeRefreshToken(p) => P!RevokeRefreshToken(p)
         /\ S!BlacklistRead(r, p) => P!BlacklistRead(r, p)
         /\ S!BlacklistAccessToken(r) => P!BlacklistAccessToken(r)
         /\ S!Fail(r) => P!Fail(r)
         /\ S!Tick => P!Tick
<1> USE DEF S!Idle, P!Idle, S!Storing, P!Storing, S!Revoking, P!Revoking, S!Blacklisting,
            P!Blacklisting, S!redis, P!redis, S!Minted, P!Minted, S!KeyTTL, P!KeyTTL,
            S!RefreshExpiry, P!RefreshExpiry, S!AccessExpiry, P!AccessExpiry,
            S!EpochFor, P!EpochFor
<1>1. S!GenerateTokenPair(r, u, p) => P!GenerateTokenPair(r, u, p)
  BY DEF S!GenerateTokenPair, P!GenerateTokenPair
<1>2. S!StoreRefreshToken(r) => P!StoreRefreshToken(r)
  BY DEF S!StoreRefreshToken, P!StoreRefreshToken
<1>3. S!RevokeAllRead(r, u) => P!RevokeAllRead(r, u)
  BY DEF S!RevokeAllRead, P!RevokeAllRead
<1>4. S!RevokeAllSessions(r) => P!RevokeAllSessions(r)
  BY DEF S!RevokeAllSessions, P!RevokeAllSessions
<1>5. S!IsRefreshTokenActive(p, active) => P!IsRefreshTokenActive(p, active)
  BY DEF S!IsRefreshTokenActive, P!IsRefreshTokenActive
<1>6. S!RevokeRefreshToken(p) => P!RevokeRefreshToken(p)
  BY DEF S!RevokeRefreshToken, P!RevokeRefreshToken
<1>7. S!BlacklistRead(r, p) => P!BlacklistRead(r, p)
  BY DEF S!BlacklistRead, P!BlacklistRead
<1>8. S!BlacklistAccessToken(r) => P!BlacklistAccessToken(r)
  BY DEF S!BlacklistAccessToken, P!BlacklistAccessToken
<1>9. S!Fail(r) => P!Fail(r)
  BY DEF S!Fail, P!Fail
<1>10. S!Tick => P!Tick
  BY DEF S!Tick, P!Tick, S!ExpireKeys, P!ExpireKeys, S!NoEpoch, P!NoEpoch
<1> QED
  BY <1>1, <1>2, <1>3, <1>4, <1>5, <1>6, <1>7, <1>8, <1>9, <1>10

\* Every step of a flow is a step of the store, or does not touch it.
LEMMA StoreUsed ==
  ASSUME FlowInv, [Next]_vars
  PROVE  [P!Next]_(P!vars)
<1> DEFINE Quiet0 == UNCHANGED storeVars
<1>0. ASSUME Quiet0
      PROVE  [P!Next]_(P!vars)
  BY <1>0 DEF storeVars, P!vars, P!redis
<1>1. ASSUME NEW r \in Requests, Step(r)
      PROVE  [P!Next]_(P!vars)
  <2>0. /\ Grounded(pc[r], loc[r]) /\ delivered \subseteq Pairs
    BY DEF FlowInv, TypeOK
  <2>1. CASE Issue(r)
    <3>1. loc[r].user \in Users
      BY <2>0, <2>1 DEF Issue, Grounded
    <3> QED
      BY <2>1, <3>1, SameSteps DEF Issue, P!Next, P!CallerNext
  <2>2. CASE Register(r) \/ Wipe(r) \/ LogoutBlacklist(r)
    BY <2>2, SameSteps DEF Register, Wipe, LogoutBlacklist, P!Next, P!CallerNext
  <2>3. CASE RevokeRead(r)
    <3>1. loc[r].user \in Users
      BY <2>0, <2>3 DEF RevokeRead, Grounded
    <3> QED
      BY <2>3, <3>1, SameSteps DEF RevokeRead, P!Next, P!CallerNext
  <2>4. CASE RefreshCheck(r)
    <3>1. loc[r].pair \in Pairs
      BY <2>0, <2>4 DEF RefreshCheck, At, Grounded
    <3> QED
      BY <2>4, <3>1, SameSteps DEF RefreshCheck, P!Next
  <2>5. CASE RefreshRotate(r) \/ LogoutHdel(r)
    <3>1. loc[r].pair \in Pairs
      BY <2>0, <2>5 DEF RefreshRotate, LogoutHdel, At, Grounded
    <3> QED
      BY <2>5, <3>1, SameSteps DEF RefreshRotate, LogoutHdel, P!Next
  <2>6. CASE LogoutTTL(r)
    <3>1. loc[r].access \in Pairs
      BY <2>0, <2>6 DEF LogoutTTL, At, Grounded
    <3> QED
      BY <1>0, <2>6, <3>1, SameSteps DEF LogoutTTL, P!Next, P!CallerNext
  <2>7. CASE RefreshLoad(r) \/ ChangeVerify(r) \/ ChangeWrite(r)
    BY <1>0, <2>7 DEF RefreshLoad, ChangeVerify, ChangeWrite
  <2> QED
    BY <1>1, <2>1, <2>2, <2>3, <2>4, <2>5, <2>6, <2>7 DEF Step
<1>2. ASSUME NEW r \in Requests, Arrive(r)
      PROVE  [P!Next]_(P!vars)
  BY <1>0, <1>2 DEF Arrive, Login, ResetPassword, Delete, Update, Refresh, LogoutAll,
                    ChangePassword, Logout
<1>3. ASSUME NEW r \in Requests, Abort(r)
      PROVE  [P!Next]_(P!vars)
  BY <1>0, <1>3, SameSteps DEF Abort, P!Next, P!CallerNext
<1>4. CASE UNCHANGED vars \/ (\E u \in Users : VerifyEmail(u))
  BY <1>0, <1>4 DEF vars, VerifyEmail
<1>5. CASE Tick
  BY <1>5, SameSteps DEF Tick, P!Next
<1> QED
  BY <1>1, <1>2, <1>3, <1>4, <1>5 DEF Next

LEMMA StoreKept ==
  ASSUME FlowInv, [Next]_vars
  PROVE  /\ S!TypeOK' /\ P!TypeOK' /\ P!StoreInv' /\ P!TypeOK /\ P!StoreInv
         /\ [P!Next]_(P!vars)
<1>1. P!TypeOK /\ P!StoreInv /\ [P!Next]_(P!vars)
  BY StoreUsed, SameTypes DEF FlowInv, TypeOK
<1>2. P!TypeOK' /\ P!StoreInv'
  BY <1>1, P!TypeStep, P!StoreInvStep, StoreConstants
<1>3. S!TypeOK'
  BY <1>2 DEF S!TypeOK, P!TypeOK, S!Call, P!Call, S!Idle, P!Idle
<1> QED
  BY <1>1, <1>2, <1>3

\* The store does not mint or register again a pair that is known.
LEMMA KnownKept ==
  ASSUME FlowInv, [Next]_vars, NEW p \in Pairs, Known(p)
  PROVE  /\ owner[p] \in Users /\ owner'[p] = owner[p]
         /\ p \notin sessions[owner[p]] => p \notin sessions'[owner[p]]
         /\ \A r \in Requests : call'[r] # P!Storing(p)
<1> DEFINE Kept == /\ owner'[p] = owner[p]
                   /\ p \notin sessions[owner[p]] => p \notin sessions'[owner[p]]
                   /\ \A r \in Requests : call'[r] # P!Storing(p)
<1>1. /\ p \in Pairs /\ owner[p] \in Users
      /\ \A r \in Requests : call[r] # P!Storing(p)
      /\ P!TypeOK /\ [P!Next]_(P!vars)
  BY StoreKept DEF FlowInv, PairInv, TypeOK, P!Minted
<1>2. /\ owner \in [Pairs -> Users \cup {NoUser}] /\ sessions \in [Users -> SUBSET Pairs]
      /\ call \in [Requests -> P!Call]
  BY <1>1 DEF P!TypeOK
<1>3. ASSUME NEW k \in P!Call, NEW r \in Requests, call' = [call EXCEPT ![r] = k],
             k # P!Storing(p)
      PROVE  \A t \in Requests : call'[t] # P!Storing(p)
  BY <1>1, <1>2, <1>3
<1>4. CASE UNCHANGED P!vars
  BY <1>1, <1>4 DEF P!vars, P!redis
<1>5. ASSUME NEW r \in Requests, NEW u \in Users, NEW q \in Pairs, P!GenerateTokenPair(r, u, q)
      PROVE  Kept
  <2>1. q # p
    BY <1>1, <1>5, StoreConstants DEF P!GenerateTokenPair
  <2>2. P!Storing(q) # P!Storing(p) /\ P!Storing(q) \in P!Call
    BY <2>1 DEF P!Storing, P!Call
  <2> QED
    BY <1>1, <1>2, <1>3, <1>5, <2>1, <2>2 DEF P!GenerateTokenPair, P!redis
<1>6. P!Idle \in P!Call /\ P!Idle # P!Storing(p)
  <2>1. P!Idle.op = "idle" /\ P!Storing(p).op = "store"
    BY DEF P!Idle, P!Storing
  <2> QED
    BY <2>1 DEF P!Call
<1>7. ASSUME NEW r \in Requests, P!StoreRefreshToken(r)
      PROVE  Kept
  <2>1. call[r].pair # p
    BY <1>1, <1>7, P!CallFields, StoreConstants DEF P!StoreRefreshToken
  <2>2. sessions'[owner[p]] \subseteq sessions[owner[p]] \cup {call[r].pair}
    BY <1>1, <1>2, <1>7 DEF P!StoreRefreshToken
  <2> QED
    BY <1>1, <1>2, <1>3, <1>6, <1>7, <2>1, <2>2 DEF P!StoreRefreshToken
<1>8. ASSUME NEW r \in Requests, NEW u \in Users, P!RevokeAllRead(r, u)
      PROVE  Kept
  <2>1. P!Revoking(u, now) \in P!Call /\ P!Revoking(u, now) # P!Storing(p)
    <3>1. P!Revoking(u, now).op = "revokeAll" /\ P!Storing(p).op = "store"
      BY DEF P!Revoking, P!Storing
    <3> QED
      BY <1>1, <3>1 DEF P!Revoking, P!Call, P!TypeOK
  <2> QED
    BY <1>1, <1>3, <1>8, <2>1 DEF P!RevokeAllRead, P!redis
<1>9. ASSUME NEW r \in Requests, P!RevokeAllSessions(r)
      PROVE  Kept
  <2>1. sessions'[owner[p]] \subseteq sessions[owner[p]]
    BY <1>1, <1>2, <1>9 DEF P!RevokeAllSessions
  <2> QED
    BY <1>1, <1>3, <1>6, <1>9, <2>1 DEF P!RevokeAllSessions
<1>10. ASSUME NEW r \in Requests, NEW q \in Pairs, P!BlacklistRead(r, q)
       PROVE  Kept
  <2>1. PICK k \in P!Call : k.op = "blacklist" /\ call' = [call EXCEPT ![r] = k]
    <3> DEFINE k == P!Blacklisting(q, P!AccessExpiry(q) - now)
    <3>1. k.op = "blacklist"
      BY DEF P!Blacklisting
    <3>2. P!AccessExpiry(q) - now \in Nat \ {0}
      BY <1>1, <1>10, StoreConstants DEF P!BlacklistRead, P!AccessExpiry, P!TypeOK
    <3>3. k \in P!Call
      BY <3>2 DEF P!Blacklisting, P!Call
    <3> QED
      BY <1>10, <3>1, <3>3 DEF P!BlacklistRead
  <2>2. k # P!Storing(p)
    BY <2>1 DEF P!Storing
  <2> QED
    BY <1>1, <1>3, <1>10, <2>1, <2>2 DEF P!BlacklistRead, P!redis
<1>11. ASSUME NEW r \in Requests, P!BlacklistAccessToken(r)
       PROVE  Kept
  BY <1>1, <1>3, <1>6, <1>11 DEF P!BlacklistAccessToken
<1>12. ASSUME NEW r \in Requests, P!Fail(r)
       PROVE  Kept
  BY <1>1, <1>3, <1>6, <1>12 DEF P!Fail, P!redis
<1>13. ASSUME NEW q \in Pairs, NEW active \in BOOLEAN,
              P!IsRefreshTokenActive(q, active) \/ P!RevokeRefreshToken(q)
       PROVE  Kept
  <2>1. sessions'[owner[p]] \subseteq sessions[owner[p]]
    BY <1>1, <1>2, <1>13 DEF P!IsRefreshTokenActive, P!RevokeRefreshToken, P!Minted
  <2> QED
    BY <1>1, <1>13, <2>1 DEF P!IsRefreshTokenActive, P!RevokeRefreshToken
<1>14. ASSUME P!Tick
       PROVE  Kept
  BY <1>1, <1>14 DEF P!Tick, P!ExpireKeys
<1> HIDE DEF Kept
<1>15. Kept \/ UNCHANGED P!vars
  <2>1. CASE P!Next
    <3>1. ASSUME NEW r \in Requests, P!CallerNext(r)
          PROVE  Kept
      BY <3>1, <1>5, <1>7, <1>8, <1>9, <1>10, <1>11, <1>12 DEF P!CallerNext
    <3>2. ASSUME NEW q \in Pairs, P!RevokeRefreshToken(q)
          PROVE  Kept
      <4>1. TRUE \in BOOLEAN
        OBVIOUS
      <4> QED
        BY <3>2, <4>1, <1>13
    <3> QED
      BY <2>1, <3>1, <3>2, <1>13, <1>14 DEF P!Next
  <2> QED
    BY <2>1, <1>1
<1> QED
  BY <1>1, <1>4, <1>15 DEF Kept

LEMMA PairKept ==
  ASSUME FlowInv, [Next]_vars, NEW p \in delivered
  PROVE  /\ p \in Pairs /\ owner[p] \in Users /\ owner'[p] = owner[p]
         /\ p \notin sessions[owner[p]] => p \notin sessions'[owner[p]]
         /\ \A r \in Requests : call'[r] # P!Storing(p)
<1>1. p \in Pairs /\ Known(p)
  BY DEF FlowInv, TypeOK, Known
<1> QED
  BY <1>1, KnownKept

-----------------------------------------------------------------------------
(***************************************************************************)
(* The flows                                                               *)
(***************************************************************************)
\* Accounts stay verified, and clients keep what they have received.
Grows ==
  /\ user' \in [Users -> Row]
  /\ \A u \in Users : user[u].verified => user'[u].verified
  /\ delivered \subseteq delivered'

LEMMA GroundedKept ==
  ASSUME FlowInv, [Next]_vars, Grows, NEW label, NEW x \in Local, Grounded(label, x)
  PROVE  Grounded(label, x)'
<1>1. x.op \in {"login", "refresh", "change"} => user'[x.user].verified
  <2>1. label = "idle" => x.op = "none"
    BY DEF Grounded, NoLocal
  <2> QED
    BY <2>1 DEF Grounded, Grows
<1>2. x.op = "refresh" => x.pair \in delivered' /\ x.pair \in delivered
  BY DEF Grounded, Grows
<1>3. x.op = "refresh" /\ label \in {"issue", "store"} => x.pair \notin sessions'[owner'[x.pair]]
  BY <1>2, PairKept DEF Grounded
<1>4. x.op = "logout" => x.access \in delivered' /\ (label = "hdel" => x.pair \in delivered')
  BY DEF Grounded, Grows
<1> QED
  BY <1>1, <1>2, <1>3, <1>4 DEF Grounded

\* A request that stays where it is stays grounded.
LEMMA RequestsKept ==
  ASSUME FlowInv, [Next]_vars, Grows,
         \A r \in Requests : (pc'[r] = pc[r] /\ loc'[r] = loc[r]) \/ (Grounded(pc[r], loc[r]))'
  PROVE  (\A r \in Requests : Grounded(pc[r], loc[r]))'
<1>1. ASSUME NEW r \in Requests
      PROVE  (Grounded(pc[r], loc[r]))'
  <2>1. CASE pc'[r] = pc[r] /\ loc'[r] = loc[r]
    <3>1. PICK label, x : label = pc[r] /\ x = loc[r]
      OBVIOUS
    <3>2. x \in Local /\ Grounded(label, x)
      BY <3>1 DEF FlowInv, TypeOK
    <3>3. Grounded(label, x)'
      BY <3>2, GroundedKept
    <3> QED
      BY <2>1, <3>1, <3>3 DEF Grounded
  <2> QED
    BY <2>1
<1> QED
  BY <1>1

\* A step that neither mints nor registers, and leaves every request grounded.
LEMMA FlowKept ==
  ASSUME FlowInv, [Next]_vars, Grows, UNCHANGED <<owner, delivered, origin>>,
         pc' \in [Requests -> Labels], loc' \in [Requests -> Local],
         unrevoked' \in SUBSET Users,
         \A r \in Requests : (pc'[r] = pc[r] /\ loc'[r] = loc[r]) \/ (Grounded(pc[r], loc[r]))'
  PROVE  FlowInv'
<1>1. TypeOK' /\ P!StoreInv'
  BY StoreKept DEF FlowInv, TypeOK, Grows
<1>2. PairInv'
  <2>1. ASSUME NEW p \in Pairs, Known(p)
        PROVE  P!Minted(p)' /\ \A r \in Requests : call'[r] # P!Storing(p)
    BY <2>1, KnownKept DEF P!Minted
  <2>2. ASSUME NEW p \in Pairs, P!Minted(p)'
        PROVE  user'[owner'[p]].verified
    BY <2>2 DEF FlowInv, PairInv, P!Minted, Grows
  <2>3. ASSUME NEW p \in Pairs, origin[p].registered, origin[p].parent \in Pairs
        PROVE  /\ origin[p].parent \in delivered
               /\ origin[p].parent \notin sessions'[owner'[origin[p].parent]]
    BY <2>3, PairKept DEF FlowInv, PairInv
  <2>4. \A p : P!Storing(p)' = P!Storing(p)
    BY DEF P!Storing
  <2> QED
    BY <2>1, <2>2, <2>3, <2>4 DEF PairInv, Known
<1>3. (\A r \in Requests : Grounded(pc[r], loc[r]))'
  BY RequestsKept
<1> QED
  BY <1>1, <1>2, <1>3 DEF FlowInv

\* One request moves on.
LEMMA MoveStep ==
  ASSUME FlowInv, [Next]_vars, Grows, UNCHANGED <<owner, delivered, origin>>,
         unrevoked' \in SUBSET Users,
         NEW r \in Requests, NEW label \in Labels, NEW x \in Local,
         pc' = [pc EXCEPT ![r] = label], loc' = [loc EXCEPT ![r] = x],
         Grounded(label, x) \/ Grounded(label, x)'
  PROVE  FlowInv'
<1>1. /\ pc' \in [Requests -> Labels] /\ loc' \in [Requests -> Local]
      /\ pc'[r] = label /\ loc'[r] = x
      /\ \A s \in Requests : s # r => pc'[s] = pc[s] /\ loc'[s] = loc[s]
  BY DEF FlowInv, TypeOK
<1>2. Grounded(label, x)'
  BY GroundedKept
<1>3. (Grounded(pc[r], loc[r]))'
  BY <1>1, <1>2 DEF Grounded
<1> QED
  BY <1>1, <1>3, FlowKept

LEMMA Rest == NoLocal \in Local /\ "idle" \in Labels /\ Grounded("idle", NoLocal)
  BY FlowAssumption DEF NoLocal, Local, Roles, Labels, Grounded

\* Nothing but Issue mints, nothing but Register hands out a pair.
LEMMA OwnerKept ==
  ASSUME NEW r \in Requests,
         \/ RevokeRead(r) \/ Wipe(r) \/ RefreshCheck(r) \/ RefreshLoad(r) \/ RefreshRotate(r)
         \/ LogoutHdel(r) \/ LogoutTTL(r) \/ LogoutBlacklist(r) \/ ChangeVerify(r)
         \/ ChangeWrite(r) \/ Arrive(r) \/ Abort(r) \/ Tick \/ UNCHANGED vars
  PROVE  UNCHANGED <<owner, delivered, origin>>
<1>1. CASE RevokeRead(r) \/ Wipe(r) \/ RefreshCheck(r) \/ RefreshRotate(r) \/ LogoutHdel(r)
           \/ LogoutTTL(r) \/ LogoutBlacklist(r)
  BY <1>1 DEF RevokeRead, Wipe, RefreshCheck, RefreshRotate, LogoutHdel, LogoutTTL,
     LogoutBlacklist, S!RevokeAllRead, S!RevokeAllSessions, S!IsRefreshTokenActive,
     S!RevokeRefreshToken, S!BlacklistRead, S!BlacklistAccessToken, storeVars
<1>2. CASE RefreshLoad(r) \/ ChangeVerify(r) \/ ChangeWrite(r) \/ Arrive(r) \/ UNCHANGED vars
  BY <1>2 DEF RefreshLoad, ChangeVerify, ChangeWrite, Arrive, Login, ResetPassword, Delete,
     Update, Refresh, LogoutAll, ChangePassword, Logout, storeVars, vars
<1>3. CASE Abort(r) \/ Tick
  BY <1>3 DEF Abort, Tick, S!Fail, S!Tick, storeVars
<1> QED
  BY <1>1, <1>2, <1>3

\* Types and grounds of what a request reads.
LEMMA RowFields ==
  ASSUME FlowInv, NEW u \in Users
  PROVE  /\ user[u] \in Row /\ user[u].cred \in 0..MaxCred /\ user[u].role \in Roles
         /\ user[u].exists \in BOOLEAN /\ user[u].active \in BOOLEAN
         /\ user[u].verified \in BOOLEAN
  BY DEF FlowInv, TypeOK, Row

LEMMA PairFields ==
  ASSUME FlowInv, NEW p \in delivered
  PROVE  /\ p \in Pairs /\ owner[p] \in Users /\ user[owner[p]].verified
         /\ origin[p].cred \in 0..MaxCred /\ origin[p].tainted \in BOOLEAN
         /\ p # NoPair
  BY FlowAssumption DEF FlowInv, TypeOK, PairInv, Known, P!Minted, Origin

LEMMA LocalFields ==
  ASSUME FlowInv, NEW r \in Requests
  PROVE  /\ loc[r] \in Local /\ pc[r] \in Labels /\ Grounded(pc[r], loc[r])
         /\ loc[r].cred \in 0..MaxCred /\ loc[r].role \in Roles
         /\ loc[r].tainted \in BOOLEAN /\ loc[r].pair \in Pairs \cup {NoPair}
  BY DEF FlowInv, TypeOK, Local

\* A request that arrives and writes no account, or writes one and keeps it verified.
LEMMA BeginStep ==
  ASSUME FlowInv, [Next]_vars, NEW r \in Requests, Arrive(r), NEW label \in Labels,
         NEW x \in Local, Begin(r, label, x), Grounded(label, x), UNCHANGED unrevoked,
         user' \in [Users -> Row], \A u \in Users : user[u].verified => user'[u].verified
  PROVE  FlowInv'
<1>1. UNCHANGED <<owner, delivered, origin>>
  BY OwnerKept
<1>2. Grows /\ unrevoked' \in SUBSET Users
  BY <1>1 DEF Grows, FlowInv, TypeOK
<1> QED
  BY <1>1, <1>2, MoveStep DEF Begin

LEMMA SameUser ==
  ASSUME FlowInv, UNCHANGED user
  PROVE  user' \in [Users -> Row] /\ \A u \in Users : user[u].verified => user'[u].verified
  BY DEF FlowInv, TypeOK

LEMMA NoLocalFields ==
  /\ NoLocal.op = "none" /\ NoLocal.user = NoUser /\ NoLocal.cred \in 0..MaxCred
  /\ NoLocal.role \in Roles /\ NoLocal.pair = NoPair /\ NoLocal.access = NoPair
  /\ NoLocal.tainted = FALSE /\ NoLocal \in Local
  BY FlowAssumption DEF NoLocal, Local, Roles

LEMMA ArriveStep ==
  ASSUME FlowInv, [Next]_vars, NEW r \in Requests, Arrive(r)
  PROVE  FlowInv'
<1> USE DEF Labels
<1>1. ASSUME NEW u \in Users, Login(r, u)
      PROVE  FlowInv'
  <2>1. PICK x : x = [NoLocal EXCEPT !.op = "login", !.user = u, !.cred = user[u].cred,
                                     !.role = user[u].role]
    OBVIOUS
  <2>2. x \in Local /\ x.op = "login" /\ x.user = u /\ x.pair = NoPair
    BY <2>1, RowFields, NoLocalFields DEF Local
  <2>3. Begin(r, "issue", x) /\ UNCHANGED <<user, unrevoked>> /\ user[u].verified
    BY <1>1, <2>1 DEF Login
  <2>4. Grounded("issue", x)
    BY <2>2, <2>3 DEF Grounded
  <2> QED
    BY <2>2, <2>3, <2>4, SameUser, BeginStep
<1>2. ASSUME NEW u \in Users, ResetPassword(r, u) \/ Delete(r, u)
      PROVE  FlowInv'
  <2> DEFINE Wrote == \/ user' = [user EXCEPT ![u].cred = @ + 1] /\ user[u].cred < MaxCred
                      \/ user' = [user EXCEPT ![u].exists = FALSE]
             For(op) == Begin(r, "revoke", [NoLocal EXCEPT !.op = op, !.user = u])
  <2>0. UNCHANGED unrevoked /\ Wrote /\ (For("reset") \/ For("delete"))
    BY <1>2 DEF ResetPassword, Delete
  <2> HIDE DEF For
  <2>1. PICK op \in {"reset", "delete"} : For(op)
    BY <2>0
  <2>2. PICK x : x = [NoLocal EXCEPT !.op = op, !.user = u]
    OBVIOUS
  <2>3. x \in Local /\ x.op = op /\ x.user = u /\ Begin(r, "revoke", x)
    BY <2>1, <2>2, NoLocalFields DEF Local, For
  <2>4. Grounded("revoke", x)
    BY <2>3 DEF Grounded
  <2>5. user' \in [Users -> Row] /\ \A w \in Users : user[w].verified => user'[w].verified
    <3>1. user \in [Users -> Row] /\ user[u] \in Row
      BY DEF FlowInv, TypeOK
    <3>2. user[u].cred < MaxCred => user[u].cred + 1 \in 0..MaxCred
      BY RowFields, FlowAssumption
    <3>3. /\ user[u].cred < MaxCred => [user[u] EXCEPT !.cred = @ + 1] \in Row
          /\ [user[u] EXCEPT !.exists = FALSE] \in Row
          /\ [user[u] EXCEPT !.cred = @ + 1].verified = user[u].verified
          /\ [user[u] EXCEPT !.exists = FALSE].verified = user[u].verified
      BY <3>1, <3>2 DEF Row
    <3> QED
      BY <2>0, <3>1, <3>3
  <2> QED
    BY <2>0, <2>3, <2>4, <2>5, BeginStep
<1>3. ASSUME NEW u \in Users, NEW role \in Roles \cup {"keep"},
             NEW active \in {"keep", "on", "off"}, Update(r, u, role, active)
      PROVE  FlowInv'
  <2>1. user' = [user EXCEPT ![u] = Updated(@, role, active)] /\ UNCHANGED unrevoked
    BY <1>3 DEF Update
  <2>2. Updated(user[u], role, active) \in Row
        /\ Updated(user[u], role, active).verified = user[u].verified
    BY RowFields DEF Updated, Row
  <2>3. user' \in [Users -> Row] /\ \A w \in Users : user[w].verified => user'[w].verified
    BY <2>1, <2>2 DEF FlowInv, TypeOK
  <2>4. CASE role # "keep" \/ active = "off"
    <3>1. PICK x : x = [NoLocal EXCEPT !.op = "update", !.user = u]
      OBVIOUS
    <3>2. x \in Local /\ x.op = "update" /\ x.user = u /\ Begin(r, "revoke", x)
      BY <1>3, <2>4, <3>1, NoLocalFields DEF Update, Local
    <3>3. Grounded("revoke", x)
      BY <3>2 DEF Grounded
    <3> QED
      BY <2>1, <2>3, <3>2, <3>3, BeginStep
  <2>5. CASE ~ (role # "keep" \/ active = "off")
    <3>1. UNCHANGED <<pc, loc, owner, delivered, origin, unrevoked>>
      BY <1>3, <2>5, OwnerKept DEF Update
    <3> QED
      BY <2>3, <3>1, FlowKept DEF Grows, FlowInv, TypeOK
  <2> QED
    BY <2>4, <2>5
<1>4. ASSUME NEW p \in Pairs, Refresh(r, p)
      PROVE  FlowInv'
  <2>1. p \in delivered /\ UNCHANGED <<user, unrevoked>>
    BY <1>4 DEF Refresh
  <2>2. PICK x : x = [NoLocal EXCEPT !.op = "refresh", !.user = owner[p], !.cred = origin[p].cred,
                                     !.pair = p, !.tainted = origin[p].tainted]
    OBVIOUS
  <2>3. x \in Local /\ x.op = "refresh" /\ x.user = owner[p] /\ x.pair = p /\ Begin(r, "check", x)
    BY <1>4, <2>1, <2>2, PairFields, NoLocalFields DEF Refresh, Local
  <2>4. Grounded("check", x)
    BY <2>1, <2>3, PairFields DEF Grounded
  <2> QED
    BY <2>1, <2>3, <2>4, SameUser, BeginStep
<1>5. ASSUME NEW p \in Pairs, LogoutAll(r, p)
      PROVE  FlowInv'
  <2>1. p \in delivered /\ UNCHANGED <<user, unrevoked>>
    BY <1>5 DEF LogoutAll, Authenticate
  <2>2. PICK x : x = [NoLocal EXCEPT !.op = "logoutAll", !.user = owner[p]]
    OBVIOUS
  <2>3. x \in Local /\ x.op = "logoutAll" /\ x.user = owner[p] /\ Begin(r, "revoke", x)
    BY <1>5, <2>1, <2>2, PairFields, NoLocalFields DEF LogoutAll, Local
  <2>4. Grounded("revoke", x)
    BY <2>1, <2>3, PairFields DEF Grounded
  <2> QED
    BY <2>1, <2>3, <2>4, SameUser, BeginStep
<1>6. ASSUME NEW p \in Pairs, ChangePassword(r, p)
      PROVE  FlowInv'
  <2>1. p \in delivered /\ UNCHANGED <<user, unrevoked>>
    BY <1>6 DEF ChangePassword, Authenticate
  <2>2. PICK t \in BOOLEAN : t = (origin[p].tainted \/ Outdated(p))
    OBVIOUS
  <2>3. PICK x : x = [NoLocal EXCEPT !.op = "change", !.user = owner[p], !.tainted = t]
    OBVIOUS
  <2>4. x \in Local /\ x.op = "change" /\ x.user = owner[p] /\ x.pair = NoPair
    BY <2>1, <2>3, PairFields, NoLocalFields DEF Local
  <2>5. Begin(r, "verify", x)
    BY <1>6, <2>2, <2>3 DEF ChangePassword
  <2>6. Grounded("verify", x)
    BY <2>1, <2>4, PairFields DEF Grounded
  <2> QED
    BY <2>1, <2>4, <2>5, <2>6, SameUser, BeginStep
<1>7. ASSUME NEW p \in Pairs, NEW q \in Pairs \cup {NoPair}, Logout(r, p, q)
      PROVE  FlowInv'
  <2>1. /\ p \in delivered /\ UNCHANGED <<user, unrevoked>>
        /\ q # NoPair => q \in delivered
    BY <1>7 DEF Logout, Authenticate
  <2>2. PICK x : x = [NoLocal EXCEPT !.op = "logout", !.user = owner[p], !.pair = q, !.access = p]
    OBVIOUS
  <2>3. PICK label : label = IF q = NoPair THEN "ttl" ELSE "hdel"
    OBVIOUS
  <2>4. x \in Local /\ x.op = "logout" /\ x.user = owner[p] /\ x.pair = q /\ x.access = p
    BY <2>1, <2>2, PairFields, NoLocalFields DEF Local
  <2>5. Begin(r, label, x) /\ label \in Labels
    BY <1>7, <2>2, <2>3 DEF Logout
  <2>6. Grounded(label, x)
    BY <2>1, <2>3, <2>4, PairFields DEF Grounded
  <2> QED
    BY <2>1, <2>4, <2>5, <2>6, SameUser, BeginStep
<1> QED
  BY <1>1, <1>2, <1>3, <1>4, <1>5, <1>6, <1>7 DEF Arrive

LEMMA GotoStep ==
  ASSUME FlowInv, [Next]_vars, NEW r \in Requests, NEW label \in Labels, Goto(r, label),
         UNCHANGED <<user, owner, delivered, origin, unrevoked>>, Grounded(label, loc[r])
  PROVE  FlowInv'
<1>1. Grows /\ unrevoked' \in SUBSET Users
  BY DEF Grows, FlowInv, TypeOK
<1>2. PICK x : x = loc[r]
  OBVIOUS
<1>3. x \in Local /\ Grounded(label, x) /\ loc' = [loc EXCEPT ![r] = x]
  BY <1>2, LocalFields DEF Goto, FlowInv, TypeOK
<1> QED
  BY <1>1, <1>3, MoveStep DEF Goto

LEMMA FinishStep ==
  ASSUME FlowInv, [Next]_vars, NEW r \in Requests, Finish(r),
         UNCHANGED <<user, owner, delivered, origin>>, unrevoked' \in SUBSET Users
  PROVE  FlowInv'
<1>1. Grows
  BY DEF Grows, FlowInv, TypeOK
<1> QED
  BY <1>1, Rest, MoveStep DEF Finish

\* The steps of a refresh before it issues.
LEMMA RefreshStep ==
  ASSUME FlowInv, [Next]_vars, NEW r \in Requests,
         RefreshCheck(r) \/ RefreshLoad(r) \/ RefreshRotate(r)
  PROVE  FlowInv'
<1>1. /\ UNCHANGED <<user, owner, delivered, origin, unrevoked>>
      /\ loc[r].op = "refresh" /\ pc[r] # "idle" /\ Grounded(pc[r], loc[r])
  BY OwnerKept, LocalFields DEF RefreshCheck, RefreshLoad, RefreshRotate, At
<1>2. \A label \in {"load", "revoke", "rotate"} : label \in Labels /\ Grounded(label, loc[r])
  BY <1>1 DEF Grounded, Labels
<1>3. CASE RefreshCheck(r)
  <2>1. PICK label \in {"load", "revoke"} : Goto(r, label)
    BY <1>3 DEF RefreshCheck
  <2> QED
    BY <1>1, <1>2, <2>1, GotoStep
<1>4. CASE RefreshLoad(r)
  <2>1. CASE Finish(r)
    BY <1>1, <2>1, FinishStep DEF FlowInv, TypeOK
  <2>2. CASE Goto(r, "revoke")
    BY <1>1, <1>2, <2>2, GotoStep
  <2>3. CASE /\ pc' = [pc EXCEPT ![r] = "rotate"]
             /\ loc' = [loc EXCEPT ![r].role = user[loc[r].user].role]
    <3>1. loc[r].user \in Users
      BY <1>1 DEF Grounded
    <3>2. PICK x : x = [loc[r] EXCEPT !.role = user[loc[r].user].role]
      OBVIOUS
    <3>3. /\ x \in Local /\ x.op = loc[r].op /\ x.user = loc[r].user /\ x.pair = loc[r].pair
          /\ x.access = loc[r].access
      BY <3>1, <3>2, RowFields, LocalFields DEF Local
    <3>4. loc' = [loc EXCEPT ![r] = x]
      BY <2>3, <3>2 DEF FlowInv, TypeOK, Local
    <3>5. Grounded("rotate", x) /\ Grows /\ unrevoked' \in SUBSET Users
      BY <1>1, <3>3 DEF Grounded, Grows, FlowInv, TypeOK
    <3> QED
      BY <1>1, <1>2, <2>3, <3>3, <3>4, <3>5, MoveStep
  <2> QED
    BY <1>4, <2>1, <2>2, <2>3 DEF RefreshLoad
<1>5. CASE RefreshRotate(r)
  <2>1. PICK x : x = loc[r]
    OBVIOUS
  <2>2. /\ x \in Local /\ Grounded("rotate", x) /\ x.op = "refresh"
        /\ loc' = [loc EXCEPT ![r] = x] /\ pc' = [pc EXCEPT ![r] = "issue"]
    BY <1>1, <1>5, <2>1, LocalFields DEF RefreshRotate, At, Goto, FlowInv, TypeOK
  <2>3. x.pair \in delivered /\ owner[x.pair] \in Users
    BY <2>2, PairFields DEF Grounded
  <2>4. x.pair \notin sessions'[owner'[x.pair]]
    <3>1. sessions' = [sessions EXCEPT ![owner[x.pair]] = @ \ {x.pair}] /\ owner' = owner
      BY <1>5, <2>1, <1>1 DEF RefreshRotate, S!RevokeRefreshToken
    <3> QED
      BY <2>3, <3>1 DEF FlowInv, TypeOK, S!TypeOK
  <2>5. Grows /\ unrevoked' \in SUBSET Users /\ "issue" \in Labels
    BY <1>1 DEF Grows, FlowInv, TypeOK, Labels
  <2>6. Grounded("rotate", x)'
    BY <2>2, <2>5, GroundedKept
  <2>7. Grounded("issue", x)'
    BY <2>2, <2>4, <2>6 DEF Grounded
  <2> QED
    BY <1>1, <2>2, <2>5, <2>7, MoveStep
<1> QED
  BY <1>3, <1>4, <1>5

LEMMA LogoutStep ==
  ASSUME FlowInv, [Next]_vars, NEW r \in Requests,
         LogoutHdel(r) \/ LogoutTTL(r) \/ LogoutBlacklist(r)
  PROVE  FlowInv'
<1>1. /\ UNCHANGED <<user, owner, delivered, origin, unrevoked>>
      /\ loc[r].op = "logout" /\ pc[r] # "idle" /\ Grounded(pc[r], loc[r])
  BY OwnerKept, LocalFields DEF LogoutHdel, LogoutTTL, LogoutBlacklist, At
<1>2. \A label \in {"ttl", "blacklist"} : label \in Labels /\ Grounded(label, loc[r])
  BY <1>1 DEF Grounded, Labels
<1>3. \/ Finish(r) \/ UNCHANGED <<pc, loc>>
      \/ \E label \in {"ttl", "blacklist"} : Goto(r, label)
  BY DEF LogoutHdel, LogoutTTL, LogoutBlacklist
<1>4. CASE UNCHANGED <<pc, loc>>
  BY <1>1, <1>4, FlowKept DEF Grows, FlowInv, TypeOK
<1> QED
  BY <1>1, <1>2, <1>3, <1>4, FinishStep, GotoStep DEF FlowInv, TypeOK

LEMMA ChangeStep ==
  ASSUME FlowInv, [Next]_vars, NEW r \in Requests, ChangeVerify(r) \/ ChangeWrite(r)
  PROVE  FlowInv'
<1>1. /\ UNCHANGED <<owner, delivered, origin, unrevoked>> /\ unrevoked' \in SUBSET Users
      /\ loc[r].op = "change" /\ pc[r] # "idle" /\ Grounded(pc[r], loc[r])
      /\ loc[r] \in Local /\ loc[r].user \in Users
  BY OwnerKept, LocalFields DEF ChangeVerify, ChangeWrite, At, Grounded, FlowInv, TypeOK
<1>2. ASSUME NEW label \in {"write", "revoke"}, NEW x \in Local,
             x.op = loc[r].op, x.user = loc[r].user, x.pair = loc[r].pair
      PROVE  Grounded(label, x) /\ label \in Labels
  BY <1>1, <1>2 DEF Grounded, Labels
<1>3. CASE ChangeVerify(r)
  <2>1. UNCHANGED user /\ Grows
    BY <1>1, <1>3 DEF ChangeVerify, Grows, FlowInv, TypeOK
  <2>2. CASE Finish(r)
    BY <1>1, <2>1, <2>2, FinishStep
  <2>3. CASE /\ pc' = [pc EXCEPT ![r] = "write"]
             /\ loc' = [loc EXCEPT ![r].role = user[loc[r].user].role]
    <3>1. PICK x : x = [loc[r] EXCEPT !.role = user[loc[r].user].role]
      OBVIOUS
    <3>2. x \in Local /\ x.op = loc[r].op /\ x.user = loc[r].user /\ x.pair = loc[r].pair
      BY <1>1, <3>1, RowFields DEF Local
    <3>3. loc' = [loc EXCEPT ![r] = x]
      BY <2>3, <3>1 DEF FlowInv, TypeOK, Local
    <3> QED
      BY <1>1, <1>2, <2>1, <2>3, <3>2, <3>3, MoveStep
  <2> QED
    BY <1>3, <2>2, <2>3 DEF ChangeVerify
<1>4. CASE ChangeWrite(r)
  <2> DEFINE u == loc[r].user
  <2>1. /\ user[u].cred < MaxCred => user[u].cred + 1 \in 0..MaxCred
        /\ user[u] \in Row /\ user \in [Users -> Row]
    BY <1>1, RowFields, FlowAssumption DEF FlowInv, TypeOK
  <2>2. user[u].cred < MaxCred =>
          /\ [user[u] EXCEPT !.cred = @ + 1] \in Row
          /\ [user[u] EXCEPT !.cred = @ + 1].verified = user[u].verified
    BY <2>1 DEF Row
  <2>3. \/ UNCHANGED user
        \/ user' = [user EXCEPT ![u].cred = @ + 1] /\ user[u].cred < MaxCred
    BY <1>4 DEF ChangeWrite
  <2>4. Grows
    BY <1>1, <2>1, <2>2, <2>3 DEF Grows
  <2>5. PICK cred \in 0..MaxCred : loc' = [loc EXCEPT ![r] = [@ EXCEPT !.cred = cred]]
    <3>1. CASE user[u].exists
      <4>1. loc' = [loc EXCEPT ![r] = [@ EXCEPT !.cred = user[u].cred + 1]]
            /\ user[u].cred < MaxCred
        BY <1>4, <3>1 DEF ChangeWrite
      <4> QED
        BY <2>1, <4>1
    <3>2. CASE ~ user[u].exists
      <4>1. loc' = loc /\ loc[r].cred \in 0..MaxCred
        BY <1>4, <3>2, LocalFields DEF ChangeWrite
      <4>2. loc[r] = [loc[r] EXCEPT !.cred = loc[r].cred]
        BY <1>1 DEF Local
      <4>3. loc = [loc EXCEPT ![r] = loc[r]]
        BY DEF FlowInv, TypeOK
      <4> QED
        BY <4>1, <4>2, <4>3
    <3> QED
      BY <3>1, <3>2
  <2>6. PICK x : x = [loc[r] EXCEPT !.cred = cred]
    OBVIOUS
  <2>7. x \in Local /\ x.op = loc[r].op /\ x.user = loc[r].user /\ x.pair = loc[r].pair
    BY <1>1, <2>6 DEF Local
  <2>8. pc' = [pc EXCEPT ![r] = "revoke"] /\ loc' = [loc EXCEPT ![r] = x]
    BY <1>4, <2>5, <2>6 DEF ChangeWrite
  <2> QED
    BY <1>1, <1>2, <2>4, <2>7, <2>8, MoveStep
<1> QED
  BY <1>3, <1>4

LEMMA RevokeReadStep ==
  ASSUME FlowInv, [Next]_vars, NEW r \in Requests, RevokeRead(r)
  PROVE  FlowInv'
<1>1. UNCHANGED <<user, owner, delivered, origin, unrevoked>> /\ pc[r] = "revoke"
  BY OwnerKept DEF RevokeRead
<1>2. Grounded("wipe", loc[r]) /\ "wipe" \in Labels
  BY <1>1, LocalFields DEF Grounded, Labels
<1> QED
  BY <1>1, <1>2, GotoStep DEF RevokeRead

LEMMA WipeStep ==
  ASSUME FlowInv, [Next]_vars, NEW r \in Requests, Wipe(r)
  PROVE  FlowInv'
<1> DEFINE u == loc[r].user
           crossed == {s \in Requests : loc[s].user = u /\ (s # r \/ u \in unrevoked)}
           Tainted(s) == [loc[s] EXCEPT !.tainted = TRUE]
           tainting == [s \in Requests |-> IF s \in crossed THEN Tainted(s) ELSE loc[s]]
<1>1. /\ UNCHANGED <<user, owner, delivered, origin>> /\ pc[r] = "wipe" /\ Grows
      /\ unrevoked' \in SUBSET Users
  BY OwnerKept DEF Wipe, Grows, FlowInv, TypeOK
<1>2. ASSUME NEW s \in Requests
      PROVE  /\ Tainted(s) \in Local /\ Tainted(s).op = loc[s].op /\ Tainted(s).user = loc[s].user
             /\ Tainted(s).pair = loc[s].pair /\ Tainted(s).access = loc[s].access
  BY LocalFields DEF Local
<1>3. u \in Users
  BY <1>1, LocalFields DEF Grounded
<1>4. ASSUME NEW s \in crossed
      PROVE  s \in Requests /\ pc[s] # "idle" /\ Grounded(pc[s], Tainted(s))
  <2>1. s \in Requests /\ loc[s].user \in Users
    BY <1>3
  <2>2. pc[s] # "idle"
    BY <2>1, LocalFields, NoLocalFields, FlowAssumption DEF Grounded
  <2>3. Grounded(pc[s], loc[s])
    BY <2>1, LocalFields
  <2> QED
    BY <2>1, <2>2, <2>3, <1>2 DEF Grounded
<1>5. \/ /\ loc[r].op = "change"
         /\ pc' = [pc EXCEPT ![r] = "issue"] /\ loc' = tainting
      \/ pc' = [pc EXCEPT ![r] = "idle"] /\ loc' = [tainting EXCEPT ![r] = NoLocal]
  BY DEF Wipe
<1> HIDE DEF Tainted
<1>6. /\ pc' \in [Requests -> Labels] /\ loc' \in [Requests -> Local]
      /\ \A s \in Requests : s # r => /\ pc'[s] = pc[s]
                                      /\ loc'[s] = IF s \in crossed THEN Tainted(s) ELSE loc[s]
      /\ \/ loc[r].op = "change" /\ pc'[r] = "issue" /\ loc'[r] \in {loc[r], Tainted(r)}
         \/ pc'[r] = "idle" /\ loc'[r] = NoLocal
  <2>1. \A s \in Requests : loc[s] \in Local /\ Tainted(s) \in Local
    BY <1>2, LocalFields
  <2>2. tainting \in [Requests -> Local]
    BY <2>1
  <2>3. "idle" \in Labels /\ "issue" \in Labels /\ pc \in [Requests -> Labels]
    BY DEF Labels, FlowInv, TypeOK
  <2> QED
    BY <1>5, <2>2, <2>3, Rest
<1>7. ASSUME NEW s \in Requests
      PROVE  (pc'[s] = pc[s] /\ loc'[s] = loc[s]) \/ (Grounded(pc[s], loc[s]))'
  <2>1. ASSUME NEW label, NEW x \in Local, Grounded(label, x), pc'[s] = label, loc'[s] = x
        PROVE  (Grounded(pc[s], loc[s]))'
    <3>1. Grounded(label, x)'
      BY <1>1, <2>1, GroundedKept
    <3> QED
      BY <2>1, <3>1 DEF Grounded
  <2>2. CASE s # r /\ s \in crossed
    <3>1. PICK label, x : label = pc[s] /\ x = Tainted(s)
      OBVIOUS
    <3>2. x \in Local /\ Grounded(label, x) /\ pc'[s] = label /\ loc'[s] = x
      BY <1>2, <1>4, <1>6, <2>2, <3>1
    <3> QED
      BY <2>1, <3>2
  <2>3. CASE s # r /\ s \notin crossed
    BY <1>6, <2>3
  <2>4. CASE s = r
    <3>1. CASE pc'[r] = "idle" /\ loc'[r] = NoLocal
      BY <2>1, <2>4, <3>1, Rest
    <3>2. CASE loc[r].op = "change" /\ pc'[r] = "issue" /\ loc'[r] \in {loc[r], Tainted(r)}
      <4>1. PICK x \in Local : /\ x = loc'[r] /\ x.op = "change" /\ x.user = loc[r].user
                               /\ x.pair = loc[r].pair
        BY <1>2, <3>2, LocalFields
      <4>2. Grounded("issue", x)
        BY <1>1, <3>2, <4>1, LocalFields DEF Grounded
      <4> QED
        BY <2>1, <2>4, <3>2, <4>1, <4>2
    <3> QED
      BY <1>6, <3>1, <3>2
  <2> QED
    BY <2>2, <2>3, <2>4
<1> QED
  BY <1>1, <1>6, <1>7, FlowKept

LEMMA IssueStep ==
  ASSUME FlowInv, [Next]_vars, NEW r \in Requests, Issue(r)
  PROVE  FlowInv'
<1>1. PICK p \in Pairs : S!GenerateTokenPair(r, loc[r].user, p)
  BY DEF Issue
<1>2. /\ UNCHANGED <<user, delivered, origin, unrevoked, loc>> /\ Grows /\ pc[r] = "issue"
      /\ pc' = [pc EXCEPT ![r] = "store"] /\ loc \in [Requests -> Local]
      /\ owner' = [owner EXCEPT ![p] = loc[r].user]
  BY <1>1 DEF Issue, Goto, Grows, FlowInv, TypeOK, S!GenerateTokenPair
<1>3. user[loc[r].user].verified /\ Grounded("store", loc[r]) /\ "store" \in Labels
  BY <1>2, LocalFields DEF Grounded, Labels
<1>4. PairInv'
  <2>1. ASSUME NEW q \in Pairs, Known(q)
        PROVE  P!Minted(q)' /\ \A s \in Requests : call'[s] # P!Storing(q)
    BY <2>1, KnownKept DEF P!Minted
  <2>2. ASSUME NEW q \in Pairs, P!Minted(q)'
        PROVE  user[owner'[q]].verified
    BY <1>2, <1>3, <2>2 DEF FlowInv, TypeOK, S!TypeOK, PairInv, P!Minted
  <2>3. ASSUME NEW q \in Pairs, origin[q].registered, origin[q].parent \in Pairs
        PROVE  /\ origin[q].parent \in delivered
               /\ origin[q].parent \notin sessions'[owner'[origin[q].parent]]
    BY <2>3, PairKept DEF FlowInv, PairInv
  <2>4. \A q : P!Storing(q)' = P!Storing(q)
    BY DEF P!Storing
  <2> QED
    BY <1>2, <2>1, <2>2, <2>3, <2>4 DEF PairInv, Known
<1>5. ASSUME NEW s \in Requests
      PROVE  (pc'[s] = pc[s] /\ loc'[s] = loc[s]) \/ (Grounded(pc[s], loc[s]))'
  <2>1. CASE s # r
    BY <1>2, <2>1 DEF FlowInv, TypeOK
  <2>2. CASE s = r
    <3>1. PICK x \in Local : x = loc[r] /\ Grounded("store", x)
      BY <1>3, LocalFields
    <3>2. Grounded("store", x)'
      BY <1>2, <3>1, GroundedKept
    <3>3. pc'[s] = "store" /\ loc'[s] = x
      BY <1>2, <2>2, <3>1 DEF FlowInv, TypeOK
    <3> QED
      BY <3>2, <3>3 DEF Grounded
  <2> QED
    BY <2>1, <2>2
<1>6. (\A s \in Requests : Grounded(pc[s], loc[s]))'
  BY <1>2, <1>5, RequestsKept
<1>7. TypeOK' /\ P!StoreInv'
  BY <1>2, <1>3, StoreKept DEF FlowInv, TypeOK
<1> QED
  BY <1>4, <1>6, <1>7 DEF FlowInv

LEMMA RegisterStep ==
  ASSUME FlowInv, [Next]_vars, NEW r \in Requests, Register(r)
  PROVE  FlowInv'
<1> DEFINE p == call[r].pair
           parent == loc[r].pair
           Why == [cred |-> loc[r].cred, role |-> loc[r].role, parent |-> parent,
                   tainted |-> loc[r].tainted, registered |-> TRUE]
<1>1. /\ UNCHANGED <<user, unrevoked>> /\ Finish(r) /\ pc[r] = "store"
      /\ origin' = [origin EXCEPT ![p] = Why]
      /\ delivered' \in {delivered, delivered \cup {p}}
      /\ P!StoreRefreshToken(r)
  BY SameSteps DEF Register
<1>2. /\ p \in Pairs /\ P!Minted(p) /\ call[r] = P!Storing(p)
      /\ \A s \in Requests : call[s] = call[r] => s = r
  <2>1. P!TypeOK /\ P!StoreInv /\ call[r].op = "store"
    BY <1>1, StoreKept DEF P!StoreRefreshToken
  <2> QED
    BY <2>1, P!CallFields, StoreConstants DEF P!StoreInv, P!CallInv
<1>3. /\ Why \in Origin /\ Why.parent = parent
  BY LocalFields DEF Origin
<1> HIDE DEF Why
<1>4. /\ origin' \in [Pairs -> Origin] /\ delivered' \in SUBSET Pairs /\ Grows
      /\ owner' = owner /\ call' = [call EXCEPT ![r] = P!Idle]
      /\ origin'[p] = Why /\ \A q \in Pairs : q # p => origin'[q] = origin[q]
  BY <1>1, <1>2, <1>3 DEF FlowInv, TypeOK, Grows, P!StoreRefreshToken
<1>5. parent \in Pairs =>
        parent \in delivered /\ parent \notin sessions'[owner'[parent]]
  <2> SUFFICES ASSUME parent \in Pairs
               PROVE  parent \in delivered /\ parent \notin sessions'[owner'[parent]]
    OBVIOUS
  <2>1. parent \in delivered /\ parent \notin sessions[owner[parent]]
    BY <1>1, LocalFields, FlowAssumption DEF Grounded
  <2> QED
    BY <2>1, PairKept
<1>6. PairInv'
  <2>1. ASSUME NEW q \in Pairs, q \in delivered' \/ origin'[q].registered
        PROVE  P!Minted(q)' /\ \A s \in Requests : call'[s] # P!Storing(q)
    <3>1. CASE Known(q)
      BY <3>1, KnownKept DEF P!Minted
    <3>2. CASE q = p
      <4>1. P!Idle # P!Storing(q)
        <5>1. P!Idle.op = "idle" /\ P!Storing(q).op = "store"
          BY DEF P!Idle, P!Storing
        <5> QED
          BY <5>1
      <4>2. call \in [Requests -> P!Call]
        BY StoreKept DEF P!TypeOK
      <4>3. \A s \in Requests : call'[s] = IF s = r THEN P!Idle ELSE call[s]
        BY <1>4, <4>2
      <4>4. P!Minted(q)'
        BY <1>2, <1>4, <3>2 DEF P!Minted
      <4> QED
        BY <1>2, <3>2, <4>1, <4>3, <4>4
    <3> QED
      BY <1>1, <1>4, <2>1, <3>1, <3>2 DEF Known
  <2>2. ASSUME NEW q \in Pairs, P!Minted(q)'
        PROVE  user'[owner'[q]].verified
    BY <1>1, <1>4, <2>2 DEF FlowInv, PairInv, P!Minted
  <2>3. ASSUME NEW q \in Pairs, origin'[q].registered, origin'[q].parent \in Pairs
        PROVE  /\ origin'[q].parent \in delivered'
               /\ origin'[q].parent \notin sessions'[owner'[origin'[q].parent]]
    <3>1. CASE q = p
      BY <1>3, <1>4, <1>5, <2>3, <3>1 DEF Grows
    <3>2. CASE q # p
      <4>1. origin'[q] = origin[q] /\ origin[q].parent \in delivered
            /\ origin[q].parent \notin sessions[owner[origin[q].parent]]
        BY <1>4, <2>3, <3>2 DEF FlowInv, PairInv
      <4>2. PICK w \in delivered : w = origin[q].parent /\ w \notin sessions[owner[w]]
        BY <4>1
      <4>3. w \in delivered' /\ w \notin sessions'[owner'[w]]
        BY <4>2, <1>4, PairKept DEF Grows
      <4> QED
        BY <4>1, <4>2, <4>3
    <3> QED
      BY <3>1, <3>2
  <2>4. \A q : P!Storing(q)' = P!Storing(q)
    BY DEF P!Storing
  <2> QED
    BY <2>1, <2>2, <2>3, <2>4 DEF PairInv, Known
<1>7. ASSUME NEW s \in Requests
      PROVE  (pc'[s] = pc[s] /\ loc'[s] = loc[s]) \/ (Grounded(pc[s], loc[s]))'
  <2>1. CASE s # r
    BY <1>1, <2>1 DEF FlowInv, TypeOK, Finish
  <2>2. CASE s = r
    <3>1. Grounded("idle", NoLocal)'
      BY <1>4, Rest, GroundedKept
    <3>2. pc'[s] = "idle" /\ loc'[s] = NoLocal
      BY <1>1, <2>2 DEF FlowInv, TypeOK, Finish
    <3>3. (NoLocal)' = NoLocal
      BY DEF NoLocal
    <3> QED
      BY <3>1, <3>2, <3>3 DEF Grounded
  <2> QED
    BY <2>1, <2>2
<1>8. (\A s \in Requests : Grounded(pc[s], loc[s]))'
  BY <1>4, <1>7, RequestsKept
<1>9. TypeOK' /\ P!StoreInv'
  BY <1>1, <1>4, StoreKept, Rest DEF FlowInv, TypeOK, Finish
<1> QED
  BY <1>6, <1>8, <1>9 DEF FlowInv

LEMMA AbortStep ==
  ASSUME FlowInv, [Next]_vars, NEW r \in Requests, Abort(r)
  PROVE  FlowInv'
<1>1. UNCHANGED <<user, owner, delivered, origin>> /\ Finish(r) /\ loc[r].user \in Users
  BY OwnerKept, LocalFields DEF Abort, Grounded
<1>2. unrevoked' \in SUBSET Users
  BY <1>1 DEF Abort, FlowInv, TypeOK
<1> QED
  BY <1>1, <1>2, FinishStep

\* What happens outside of requests.
LEMMA OtherStep ==
  ASSUME FlowInv, [Next]_vars, UNCHANGED vars \/ Tick \/ \E u \in Users : VerifyEmail(u)
  PROVE  FlowInv'
<1>1. /\ UNCHANGED <<owner, delivered, origin, pc, loc, unrevoked>>
      /\ UNCHANGED user \/ \E u \in Users : user' = [user EXCEPT ![u].verified = TRUE]
  BY DEF vars, storeVars, Tick, S!Tick, VerifyEmail
<1>2. Grows
  <2>1. CASE UNCHANGED user
    BY <1>1, <2>1 DEF Grows, FlowInv, TypeOK
  <2>2. ASSUME NEW u \in Users, user' = [user EXCEPT ![u].verified = TRUE]
        PROVE  Grows
    <3>1. [user[u] EXCEPT !.verified = TRUE] \in Row
          /\ [user[u] EXCEPT !.verified = TRUE].verified = TRUE
      BY RowFields DEF Row
    <3> QED
      BY <1>1, <2>2, <3>1 DEF Grows, FlowInv, TypeOK
  <2> QED
    BY <1>1, <2>1, <2>2
<1> QED
  BY <1>1, <1>2, FlowKept DEF FlowInv, TypeOK

-----------------------------------------------------------------------------
LEMMA FlowStart == Init => FlowInv /\ P!Init
<1> SUFFICES ASSUME Init
             PROVE  FlowInv /\ P!Init
  OBVIOUS
<1>1. P!Init
  BY DEF Init, S!Init, P!Init, S!Idle, P!Idle, S!NoEpoch, P!NoEpoch
<1>2. P!TypeOK
  BY <1>1 DEF P!Init, P!TypeOK, P!Call, P!Idle, P!NoEpoch
<1>3. P!StoreInv
  BY <1>1, StoreConstants DEF P!Init, P!StoreInv, P!ClockInv, P!CallInv, P!SessionsInv, P!EpochInv,
     P!RecalledInv, P!DeniedInv, P!Idle, P!Minted
<1>4. TypeOK
  <2>1. NoOrigin \in Origin
    BY FlowAssumption DEF NoOrigin, Origin, Roles
  <2>2. [exists |-> TRUE, active |-> TRUE, verified |-> FALSE, role |-> "user", cred |-> 0] \in Row
    BY FlowAssumption DEF Row, Roles
  <2> QED
    BY <1>2, <2>1, <2>2, SameTypes, Rest DEF Init, TypeOK
<1>5. PairInv
  <2>1. \A p \in Pairs : p \notin delivered /\ ~ P!Minted(p) /\ origin[p] = NoOrigin
    BY <1>1, FlowAssumption DEF Init, P!Init, P!Minted
  <2>2. NoOrigin.registered = FALSE
    BY DEF NoOrigin
  <2> QED
    BY <2>1, <2>2 DEF PairInv, Known
<1>6. \A r \in Requests : Grounded(pc[r], loc[r])
  BY Rest DEF Init
<1> QED
  BY <1>1, <1>3, <1>4, <1>5, <1>6 DEF FlowInv

LEMMA FlowStep == FlowInv /\ [Next]_vars => FlowInv'
<1> SUFFICES ASSUME FlowInv, [Next]_vars
             PROVE  FlowInv'
  OBVIOUS
<1>1. ASSUME NEW r \in Requests, Step(r)
      PROVE  FlowInv'
  BY <1>1, IssueStep, RegisterStep, RevokeReadStep, WipeStep, RefreshStep, LogoutStep, ChangeStep
     DEF Step
<1> QED
  BY <1>1, ArriveStep, AbortStep, OtherStep DEF Next

\* The inductive invariant.
THEOREM FlowTheorem == Spec => []FlowInv
<1>1. Init => FlowInv
  BY FlowStart
<1> QED
  BY <1>1, FlowStep, PTL DEF Spec

\* Types.
THEOREM FlowTypeCorrect == Spec => []TypeOK
<1>1. FlowInv => TypeOK
  BY DEF FlowInv
<1> QED
  BY <1>1, FlowTheorem, PTL

\* No flow, and no interleaving of flows, mints a token for an account whose email address
\* is not verified (Login, Refresh, ChangePassword).
THEOREM VerifiedTheorem == Spec => []NoSessionBeforeVerification
<1>1. FlowInv => NoSessionBeforeVerification
  BY DEF FlowInv, PairInv, NoSessionBeforeVerification, P!Minted, S!Minted
<1> QED
  BY <1>1, FlowTheorem, PTL

\* A refresh token that has been exchanged is refused for good (Refresh).
THEOREM RotatedOutTheorem == Spec => []RotatedOutIsInactive
<1>1. FlowInv => RotatedOutIsInactive
  BY DEF FlowInv, PairInv, RotatedOutIsInactive, S!RefreshActive
<1> QED
  BY <1>1, FlowTheorem, PTL

\* The flows run the store by its own steps.
THEOREM FlowsRunStore == Spec => P!Spec
<1>1. Init => P!Init
  BY FlowStart
<1>2. FlowInv /\ [Next]_vars => [P!Next]_(P!vars)
  BY StoreUsed
<1> QED
  BY <1>1, <1>2, FlowTheorem, PTL DEF Spec, P!Spec

\* So, while all the flows run, a revocation holds (RevokeAllSessions), a token minted
\* after the last revocation took effect is not refused (ChangePassword answers with such a
\* one), and a token that was logged out stays refused (Logout).
THEOREM FlowsKeepPromises ==
  Spec => [](S!RevocationHolds /\ S!FreshNotRefused /\ S!DeniedUntilExpiry)
<1>1. P!Spec => [](P!RevocationHolds /\ P!FreshNotRefused /\ P!DeniedUntilExpiry)
  BY StoreConstants, P!RevocationTheorem, P!FreshTheorem, P!DeniedTheorem, PTL
<1>2. P!RevocationHolds /\ P!FreshNotRefused /\ P!DeniedUntilExpiry
      => S!RevocationHolds /\ S!FreshNotRefused /\ S!DeniedUntilExpiry
  BY DEF P!RevocationHolds, S!RevocationHolds, P!FreshNotRefused, S!FreshNotRefused,
     P!DeniedUntilExpiry, S!DeniedUntilExpiry, P!AccessAccepted, S!AccessAccepted, P!Minted, S!Minted,
     P!AccessExpiry, S!AccessExpiry, P!IsAccessTokenValid, S!IsAccessTokenValid, P!NoEpoch, S!NoEpoch
<1> QED
  BY <1>1, <1>2, FlowsRunStore, PTL

\* The flows together keep SessionRegistry's promises, and a token that a flow has
\* invalidated comes back only by two revocations that overlap.
THEOREM FlowsImplementRegistry == Spec => P!ImplementsRegistry /\ P!RevalidatedByOverlap
  BY StoreConstants, FlowsRunStore, P!Refinement, P!RevalidationTheorem, PTL

-----------------------------------------------------------------------------
(***************************************************************************)
(* Outdated sessions                                                       *)
(***************************************************************************)
\* Request s is going to revoke the sessions of u, on account of a change.
Debt(u, s) ==
  /\ s \in Requests /\ loc[s].user = u
  /\ loc[s].op \in Revoking /\ pc[s] \in {"revoke", "wipe"}

\* Somebody other than r is, or has given it up.
Owed(u, r) == u \in unrevoked \/ \E s \in Requests : s # r /\ Debt(u, s)

\* What of the account a request that will issue a session has read: the row, its role,
\* its password.
HasRow(label, x) ==
  \/ x.op \in {"login", "change"}
  \/ x.op = "refresh" /\ label \in {"rotate", "issue", "store"}
HasRole(label, x) == HasRow(label, x) /\ ~ (x.op = "change" /\ label = "verify")
HasCred(label, x) ==
  \/ x.op = "refresh" /\ label = "load"
  \/ HasRow(label, x) /\ ~ (x.op = "change" /\ label \in {"verify", "write"})

\* It has changed since.
Stale(label, x) ==
  \/ HasRow(label, x) /\ ~ (user[x.user].exists /\ user[x.user].active)
  \/ HasRole(label, x) /\ user[x.user].role # x.role
  \/ HasCred(label, x) /\ user[x.user].cred # x.cred

\* Then a revocation is to come that will get at the request.
FreshRequest(r) == Stale(pc[r], loc[r]) /\ ~ loc[r].tainted => Owed(loc[r].user, r)

\* A registered pair is outdated only as long as a revocation is to come.
FreshPair(p) ==
  origin[p].registered /\ ~ origin[p].tainted /\ Outdated(p) /\ p \in sessions[owner[p]]
  => ~ Settled(owner[p])

\* A pair is minted, and sessions are wiped, for the account of the request; a refresh has
\* read the token's password and taint off the token.
Linked(r) ==
  /\ pc[r] = "wipe" /\ call[r].op = "revokeAll" => call[r].user = loc[r].user
  /\ pc[r] = "store" /\ call[r].op = "store" => owner[call[r].pair] = loc[r].user
  /\ loc[r].op = "refresh" =>
       /\ loc[r].user = owner[loc[r].pair] /\ loc[r].cred = origin[loc[r].pair].cred
       /\ origin[loc[r].pair].tainted => loc[r].tainted

GroundsInv ==
  /\ \A r \in Requests : FreshRequest(r) /\ Linked(r)
  /\ \A p \in Pairs : FreshPair(p)
  /\ \A p \in delivered : origin[p].registered

LEMMA SettledDebts ==
  ASSUME NEW u
  PROVE  /\ ~ Settled(u) <=> u \in unrevoked \/ \E s \in Requests : Debt(u, s)
         /\ ~ Settled(u)' <=> u \in unrevoked' \/ \E s \in Requests : Debt(u, s)'
  BY DEF Settled, Debt

\* A request that is stale issues sessions; nobody else is.
LEMMA StaleOps ==
  ASSUME NEW label, NEW x, Stale(label, x) \/ Stale(label, x)'
  PROVE  x.op \in {"login", "refresh", "change"}
  BY DEF Stale, HasRow, HasRole, HasCred

LEMMA MintedKept ==
  ASSUME FlowInv, [Next]_vars, NEW p \in Pairs, owner[p] \in Users
  PROVE  owner'[p] = owner[p]
<1>1. ASSUME NEW r \in Requests, Issue(r)
      PROVE  owner'[p] = owner[p]
  BY <1>1, FlowAssumption DEF Issue, S!GenerateTokenPair
<1>2. ASSUME NEW r \in Requests, Register(r)
      PROVE  owner'[p] = owner[p]
  BY <1>2 DEF Register, S!StoreRefreshToken
<1>3. CASE UNCHANGED vars \/ Tick \/ \E u \in Users : VerifyEmail(u)
  BY <1>3 DEF vars, storeVars, Tick, S!Tick, VerifyEmail
<1> QED
  BY <1>1, <1>2, <1>3, OwnerKept DEF Next, Step

\* The row of u is what it was, or nearer to it.
Easy(u) ==
  /\ user[u].exists => user'[u].exists
  /\ user[u].active => user'[u].active
  /\ user'[u].cred = user[u].cred /\ user'[u].role = user[u].role

\* What a step of r may do to u: leave it a debt of r's; keep the row, and the debt if there
\* is one; or settle it, with the sessions and the requests there are.
Covered(u, r) ==
  \/ r \in Requests /\ Debt(u, r)'
  \/ /\ Easy(u)
     /\ u \in unrevoked \/ Debt(u, r) => u \in unrevoked' \/ Debt(u, r)'
  \/ /\ sessions'[u] = {}
     /\ \A s \in Requests : s # r /\ loc[s].user = u => loc'[s].tainted

\* Another request stays where it is, if tainted.
Stays(s) ==
  /\ pc'[s] = pc[s] /\ call'[s] = call[s]
  /\ loc'[s].op = loc[s].op /\ loc'[s].user = loc[s].user /\ loc'[s].pair = loc[s].pair
  /\ loc'[s].cred = loc[s].cred /\ loc'[s].role = loc[s].role
  /\ loc[s].tainted => loc'[s].tainted

LEMMA DebtKept ==
  ASSUME NEW u, NEW t \in Requests, Stays(t), Debt(u, t)
  PROVE  Debt(u, t)'
  BY DEF Stays, Debt

\* One request, r, moves on.
LEMMA GroundsKept ==
  ASSUME FlowInv, GroundsInv, [Next]_vars, NEW r,
         \A s \in Requests : s # r => Stays(s),
         \A u \in Users : Covered(u, r),
         \A p \in Pairs : /\ Known(p) => origin'[p] = origin[p]
                          /\ ~ Known(p) => FreshPair(p)',
         \A p \in delivered' : origin'[p].registered,
         r \in Requests => FreshRequest(r)' /\ Linked(r)'
  PROVE  GroundsInv'
<1>1. ASSUME NEW s \in Requests, s # r
      PROVE  FreshRequest(s)' /\ Linked(s)'
  <2>1. Stays(s)
    BY <1>1
  <2>2. PICK u : u = loc[s].user
    OBVIOUS
  <2>3. ASSUME Stale(pc[s], loc[s])', ~ loc'[s].tainted
        PROVE  u \in unrevoked' \/ \E t \in Requests : t # s /\ Debt(u, t)'
    <3>1. u \in Users
      <4>1. loc'[s].op \in {"login", "refresh", "change"}
        BY <2>3 DEF Stale, HasRow, HasRole, HasCred
      <4> QED
        BY <2>1, <2>2, <4>1, LocalFields, NoLocalFields DEF Grounded, Stays
    <3>2. CASE Debt(u, r)' /\ r \in Requests
      BY <1>1, <3>2
    <3>3. CASE Easy(u) /\ (u \in unrevoked \/ Debt(u, r) => u \in unrevoked' \/ Debt(u, r)')
      <4>1. Stale(pc[s], loc[s])
        BY <2>1, <2>2, <2>3, <3>3 DEF Stale, Easy, HasRow, HasRole, HasCred, Stays
      <4>2. Owed(u, s)
        BY <2>1, <2>2, <2>3, <4>1 DEF GroundsInv, FreshRequest, Stays
      <4>3. ASSUME NEW t \in Requests, t # r, Debt(u, t)
            PROVE  Debt(u, t)'
        BY <4>3, DebtKept
      <4>4. Debt(u, r)' => r \in Requests
        BY DEF Debt
      <4> QED
        BY <1>1, <3>3, <4>2, <4>3, <4>4 DEF Owed
    <3> QED
      BY <1>1, <2>2, <2>3, <3>1, <3>2, <3>3 DEF Covered
  <2>4. FreshRequest(s)'
    BY <2>1, <2>2, <2>3 DEF FreshRequest, Owed, Stays, Debt
  <2>5. pc[s] = "store" /\ call[s].op = "store" => owner'[call[s].pair] = loc[s].user
    <3>1. pc[s] = "store" /\ call[s].op = "store" =>
            call[s].pair \in Pairs /\ owner[call[s].pair] \in Users
      BY StoreKept, P!CallFields, StoreConstants DEF P!StoreInv, P!CallInv, P!Minted
    <3> QED
      BY <3>1, MintedKept DEF GroundsInv, Linked
  <2>6. loc[s].op = "refresh" =>
          /\ loc[s].user = owner'[loc[s].pair] /\ loc[s].cred = origin'[loc[s].pair].cred
          /\ origin'[loc[s].pair].tainted => loc[s].tainted
    <3>1. loc[s].op = "refresh" => loc[s].pair \in delivered
      BY LocalFields DEF Grounded
    <3>2. loc[s].op = "refresh" => /\ owner'[loc[s].pair] = owner[loc[s].pair]
                                   /\ origin'[loc[s].pair] = origin[loc[s].pair]
      BY <3>1, PairKept DEF Known
    <3> QED
      BY <3>2 DEF GroundsInv, Linked
  <2>7. Linked(s)'
    <3>1. pc[s] = "wipe" /\ call[s].op = "revokeAll" => call[s].user = loc[s].user
      BY DEF GroundsInv, Linked
    <3> QED
      BY <2>1, <2>5, <2>6, <3>1 DEF Linked, Stays
  <2> QED
    BY <2>4, <2>7
<1>2. ASSUME NEW p \in Pairs, Known(p)
      PROVE  FreshPair(p)'
  <2>1. PICK u \in Users : u = owner[p]
    BY <1>2, KnownKept
  <2>2. owner'[p] = u /\ origin'[p] = origin[p] /\ (p \in sessions'[u] => p \in sessions[u])
    BY <1>2, <2>1, KnownKept
  <2>3. CASE Debt(u, r)' /\ r \in Requests
    BY <2>2, <2>3, SettledDebts DEF FreshPair
  <2>4. CASE Easy(u) /\ (u \in unrevoked \/ Debt(u, r) => u \in unrevoked' \/ Debt(u, r)')
    <3>1. Outdated(p)' => Outdated(p)
      BY <2>1, <2>2, <2>4 DEF Outdated, Easy
    <3>2. ~ Settled(u) => ~ Settled(u)'
      <4>1. ASSUME NEW t \in Requests, t # r, Debt(u, t)
            PROVE  Debt(u, t)'
        BY <4>1, DebtKept
      <4>2. Debt(u, r)' => r \in Requests
        BY DEF Debt
      <4>3. /\ ~ Settled(u) <=> u \in unrevoked \/ \E s \in Requests : Debt(u, s)
            /\ ~ Settled(u)' <=> u \in unrevoked' \/ \E s \in Requests : Debt(u, s)'
        BY SettledDebts
      <4> QED
        BY <2>4, <4>1, <4>2, <4>3
    <3>3. FreshPair(p)
      BY DEF GroundsInv
    <3>4. (~ Settled(u))' => (~ Settled(owner[p]))'
      BY <2>2 DEF Settled
    <3> QED
      BY <2>1, <2>2, <3>1, <3>2, <3>3, <3>4 DEF FreshPair
  <2>5. CASE sessions'[u] = {}
    BY <2>2, <2>5 DEF FreshPair
  <2> QED
    BY <2>1, <2>3, <2>4, <2>5 DEF Covered
<1> QED
  BY <1>1, <1>2 DEF GroundsInv

LEMMA CallKept ==
  ASSUME FlowInv, NEW r \in Requests,
         Step(r) \/ Arrive(r) \/ Abort(r) \/ Tick \/ (\E u \in Users : VerifyEmail(u))
         \/ UNCHANGED vars
  PROVE  \A s \in Requests : s # r => call'[s] = call[s]
<1>1. call \in [Requests -> P!Call]
  BY StoreKept DEF FlowInv, TypeOK, S!TypeOK, P!Call, S!Call, P!Idle, S!Idle
<1>2. CASE Issue(r) \/ Register(r) \/ RevokeRead(r) \/ Wipe(r)
  BY <1>1, <1>2 DEF Issue, Register, RevokeRead, Wipe, S!GenerateTokenPair,
     S!StoreRefreshToken, S!RevokeAllRead, S!RevokeAllSessions
<1>3. CASE RefreshCheck(r) \/ RefreshLoad(r) \/ RefreshRotate(r) \/ LogoutHdel(r)
  BY <1>1, <1>3 DEF RefreshCheck, RefreshLoad, RefreshRotate, LogoutHdel,
     S!IsRefreshTokenActive, S!RevokeRefreshToken, storeVars
<1>4. CASE LogoutTTL(r) \/ LogoutBlacklist(r) \/ ChangeVerify(r) \/ ChangeWrite(r)
  BY <1>1, <1>4 DEF LogoutTTL, LogoutBlacklist, ChangeVerify, ChangeWrite, S!BlacklistRead,
     S!BlacklistAccessToken, storeVars
<1>5. CASE Arrive(r) \/ UNCHANGED vars \/ (\E u \in Users : VerifyEmail(u))
  BY <1>5 DEF Arrive, Login, ResetPassword, Delete, Update, Refresh, LogoutAll, ChangePassword,
     Logout, storeVars, vars, VerifyEmail
<1>6. CASE Abort(r) \/ Tick
  BY <1>1, <1>6 DEF Abort, Tick, S!Fail, S!Tick, storeVars
<1> QED
  BY <1>2, <1>3, <1>4, <1>5, <1>6 DEF Step

\* r goes to label with the locals x; it neither mints nor registers.
LEMMA MoveGrounds ==
  ASSUME FlowInv, GroundsInv, [Next]_vars, NEW r \in Requests,
         Step(r) \/ Arrive(r) \/ Abort(r), UNCHANGED <<owner, delivered, origin>>,
         NEW label \in Labels \ {"store"}, NEW x \in Local,
         pc' = [pc EXCEPT ![r] = label], loc' = [loc EXCEPT ![r] = x],
         label = "wipe" /\ call'[r].op = "revokeAll" => call'[r].user = x.user,
         \A u \in Users :
           \/ x.user = u /\ x.op \in Revoking /\ label \in {"revoke", "wipe"}
           \/ Easy(u) /\ (u \in unrevoked \/ Debt(u, r) => u \in unrevoked'),
         ~ x.tainted =>
           (Stale(label, x)' =>
              x.user \in unrevoked' \/ \E t \in Requests : t # r /\ Debt(x.user, t)),
         x.op = "refresh" =>
           /\ x.user = owner[x.pair] /\ x.cred = origin[x.pair].cred
           /\ origin[x.pair].tainted => x.tainted
  PROVE  GroundsInv'
<1>1. /\ pc'[r] = label /\ loc'[r] = x
      /\ \A s \in Requests : s # r => pc'[s] = pc[s] /\ loc'[s] = loc[s]
  BY DEF FlowInv, TypeOK
<1>2. \A s \in Requests : s # r => Stays(s)
  BY <1>1, CallKept DEF Stays
<1>3. ASSUME NEW u \in Users
      PROVE  Covered(u, r)
  <2>1. CASE x.user = u /\ x.op \in Revoking /\ label \in {"revoke", "wipe"}
    BY <1>1, <2>1 DEF Covered, Debt
  <2>2. CASE Easy(u) /\ (u \in unrevoked \/ Debt(u, r) => u \in unrevoked')
    BY <2>2 DEF Covered
  <2> QED
    BY <2>1, <2>2
<1>4. ASSUME NEW p \in Pairs
      PROVE  /\ Known(p) => origin'[p] = origin[p]
             /\ ~ Known(p) => FreshPair(p)'
  BY DEF Known, FreshPair
<1>5. \A p \in delivered' : origin'[p].registered
  BY DEF GroundsInv
<1>6. FreshRequest(r)'
  <2> SUFFICES ASSUME Stale(label, x)', ~ x.tainted
               PROVE  x.user \in unrevoked' \/ \E t \in Requests : t # r /\ Debt(x.user, t)'
    BY <1>1 DEF FreshRequest, Owed, Stale, HasRow, HasRole, HasCred, Debt
  <2> QED
    BY <1>2, DebtKept
<1>7. Linked(r)'
  BY <1>1 DEF Linked
<1> QED
  BY <1>2, <1>3, <1>4, <1>5, <1>6, <1>7, GroundsKept

\* r moves on, owes nothing before, and leaves the rows alone.
LEMMA QuietGrounds ==
  ASSUME FlowInv, GroundsInv, [Next]_vars, NEW r \in Requests,
         Step(r) \/ Arrive(r) \/ Abort(r), UNCHANGED <<user, owner, delivered, origin>>,
         unrevoked \subseteq unrevoked',
         \A u \in Users : Debt(u, r) => u \in unrevoked',
         NEW label \in Labels \ {"store", "wipe"}, NEW x \in Local,
         pc' = [pc EXCEPT ![r] = label], loc' = [loc EXCEPT ![r] = x],
         ~ x.tainted =>
           (Stale(label, x) =>
              x.user \in unrevoked' \/ \E t \in Requests : t # r /\ Debt(x.user, t)),
         x.op = "refresh" =>
           /\ x.user = owner[x.pair] /\ x.cred = origin[x.pair].cred
           /\ origin[x.pair].tainted => x.tainted
  PROVE  GroundsInv'
<1>1. \A u \in Users : Easy(u)
  BY DEF Easy
<1>2. Stale(label, x)' <=> Stale(label, x)
  BY DEF Stale, HasRow, HasRole, HasCred
<1> QED
  BY <1>1, <1>2, MoveGrounds

LEMMA ArriveGrounds ==
  ASSUME FlowInv, GroundsInv, [Next]_vars, NEW r \in Requests, Arrive(r)
  PROVE  GroundsInv'
<1> USE DEF Labels
<1>1. UNCHANGED <<owner, delivered, origin>>
  BY OwnerKept
<1>2. ASSUME pc[r] = "idle"
      PROVE  \A u : ~ Debt(u, r)
  BY <1>2 DEF Debt
<1>3. ASSUME NEW u \in Users, Login(r, u)
      PROVE  GroundsInv'
  <2>1. PICK x : x = [NoLocal EXCEPT !.op = "login", !.user = u, !.cred = user[u].cred,
                                     !.role = user[u].role]
    OBVIOUS
  <2>2. /\ x \in Local /\ x.op = "login" /\ x.user = u
        /\ x.cred = user[u].cred /\ x.role = user[u].role
    BY <2>1, RowFields, NoLocalFields DEF Local
  <2>3. /\ pc[r] = "idle" /\ pc' = [pc EXCEPT ![r] = "issue"] /\ loc' = [loc EXCEPT ![r] = x]
        /\ UNCHANGED <<user, unrevoked>> /\ user[u].exists /\ user[u].active
    BY <1>3, <2>1 DEF Login, Begin
  <2>4. ~ Stale("issue", x)
    BY <2>2, <2>3 DEF Stale, HasRow, HasRole, HasCred
  <2> QED
    BY <1>1, <1>2, <2>2, <2>3, <2>4, QuietGrounds
<1>4. ASSUME NEW u \in Users, NEW x \in Local, NEW row, user' = [user EXCEPT ![u] = row],
             x.user = u, x.op \in Revoking \ {"change"}, pc[r] = "idle",
             pc' = [pc EXCEPT ![r] = "revoke"], loc' = [loc EXCEPT ![r] = x],
             unrevoked' = unrevoked
      PROVE  GroundsInv'
  <2>1. \A v \in Users : v # u => Easy(v)
    BY <1>4 DEF Easy, FlowInv, TypeOK
  <2>2. x.op \notin {"login", "refresh", "change"}
    BY <1>4 DEF Revoking
  <2>3. ~ Stale("revoke", x)'
    BY <2>2 DEF Stale, HasRow, HasRole, HasCred
  <2> QED
    BY <1>1, <1>2, <1>4, <2>1, <2>2, <2>3, MoveGrounds
<1>5. ASSUME NEW u \in Users, ResetPassword(r, u) \/ Delete(r, u)
      PROVE  GroundsInv'
  <2>1. PICK row : user' = [user EXCEPT ![u] = row]
    BY <1>5 DEF ResetPassword, Delete
  <2>2. PICK op \in {"reset", "delete"} :
          Begin(r, "revoke", [NoLocal EXCEPT !.op = op, !.user = u])
    BY <1>5 DEF ResetPassword, Delete
  <2>3. PICK x : x = [NoLocal EXCEPT !.op = op, !.user = u]
    OBVIOUS
  <2>4. x \in Local /\ x.op = op /\ x.user = u
    BY <2>3, NoLocalFields DEF Local
  <2> QED
    BY <1>4, <1>5, <2>1, <2>2, <2>3, <2>4 DEF ResetPassword, Delete, Begin, Revoking
<1>6. ASSUME NEW u \in Users, NEW role \in Roles \cup {"keep"},
             NEW active \in {"keep", "on", "off"}, Update(r, u, role, active)
      PROVE  GroundsInv'
  <2>1. PICK row : row = Updated(user[u], role, active) /\ user' = [user EXCEPT ![u] = row]
    BY <1>6 DEF Update
  <2>2. CASE role # "keep" \/ active = "off"
    <3>1. PICK x : x = [NoLocal EXCEPT !.op = "update", !.user = u]
      OBVIOUS
    <3>2. x \in Local /\ x.op = "update" /\ x.user = u
      BY <3>1, NoLocalFields DEF Local
    <3>3. /\ pc[r] = "idle" /\ pc' = [pc EXCEPT ![r] = "revoke"] /\ loc' = [loc EXCEPT ![r] = x]
          /\ unrevoked' = unrevoked
      BY <1>6, <2>2, <3>1 DEF Update, Begin
    <3>4. x.op \in Revoking \ {"change"}
      BY <3>2 DEF Revoking
    <3> QED
      BY <1>4, <2>1, <3>2, <3>3, <3>4
  <2>3. CASE role = "keep" /\ active # "off"
    <3>1. /\ row.exists = user[u].exists /\ row.cred = user[u].cred /\ row.role = user[u].role
          /\ user[u].active => row.active
      BY <1>6, <2>1, <2>3, RowFields DEF Updated, Row
    <3>2. \A v \in Users : Easy(v)
      BY <2>1, <3>1 DEF Easy, FlowInv, TypeOK
    <3>3. UNCHANGED <<pc, loc, call, unrevoked>>
      BY <1>6, <2>3 DEF Update, storeVars
    <3>4. PICK z : z \notin Requests
      BY NoSetContainsEverything
    <3>5. \A s \in Requests : Stays(s)
      BY <3>3 DEF Stays
    <3>6. \A v \in Users : Covered(v, z)
      BY <3>2, <3>3, <3>4 DEF Covered, Debt
    <3>7. \A p \in Pairs : /\ Known(p) => origin'[p] = origin[p]
                           /\ ~ Known(p) => FreshPair(p)'
      BY <1>1 DEF Known, FreshPair
    <3>8. \A p \in delivered' : origin'[p].registered
      BY <1>1 DEF GroundsInv
    <3> QED
      BY <3>4, <3>5, <3>6, <3>7, <3>8, GroundsKept
  <2> QED
    BY <2>2, <2>3
<1>7. ASSUME NEW p \in Pairs, Refresh(r, p)
      PROVE  GroundsInv'
  <2>1. PICK x : x = [NoLocal EXCEPT !.op = "refresh", !.user = owner[p], !.cred = origin[p].cred,
                                     !.pair = p, !.tainted = origin[p].tainted]
    OBVIOUS
  <2>2. /\ x \in Local /\ x.op = "refresh" /\ x.user = owner[p] /\ x.cred = origin[p].cred
        /\ x.pair = p /\ x.tainted = origin[p].tainted
    BY <1>7, <2>1, PairFields, NoLocalFields DEF Refresh, Local
  <2>3. /\ pc[r] = "idle" /\ pc' = [pc EXCEPT ![r] = "check"] /\ loc' = [loc EXCEPT ![r] = x]
        /\ UNCHANGED <<user, unrevoked>>
    BY <1>7, <2>1 DEF Refresh, Begin
  <2>4. ~ Stale("check", x)
    BY <2>2 DEF Stale, HasRow, HasRole, HasCred
  <2> QED
    BY <1>1, <1>2, <2>2, <2>3, <2>4, QuietGrounds
<1>8. ASSUME NEW p \in Pairs, ChangePassword(r, p)
      PROVE  GroundsInv'
  <2>1. PICK x : x = [NoLocal EXCEPT !.op = "change", !.user = owner[p],
                                     !.tainted = origin[p].tainted \/ Outdated(p)]
    OBVIOUS
  <2>2. /\ x \in Local /\ x.op = "change" /\ x.user = owner[p]
        /\ x.tainted = (origin[p].tainted \/ Outdated(p))
    BY <1>8, <2>1, PairFields, NoLocalFields DEF ChangePassword, Authenticate, Local
  <2>3. /\ pc[r] = "idle" /\ pc' = [pc EXCEPT ![r] = "verify"] /\ loc' = [loc EXCEPT ![r] = x]
        /\ UNCHANGED <<user, unrevoked>>
    BY <1>8, <2>1 DEF ChangePassword, Begin
  <2>4. ~ x.tainted => ~ Stale("verify", x)
    BY <2>2 DEF Stale, HasRow, HasRole, HasCred, Outdated
  <2> QED
    BY <1>1, <1>2, <2>2, <2>3, <2>4, QuietGrounds
<1>9. ASSUME NEW p \in Pairs, LogoutAll(r, p)
      PROVE  GroundsInv'
  <2>1. PICK x : x = [NoLocal EXCEPT !.op = "logoutAll", !.user = owner[p]]
    OBVIOUS
  <2>2. x \in Local /\ x.op = "logoutAll"
    BY <1>9, <2>1, PairFields, NoLocalFields DEF LogoutAll, Authenticate, Local
  <2>3. /\ pc[r] = "idle" /\ pc' = [pc EXCEPT ![r] = "revoke"] /\ loc' = [loc EXCEPT ![r] = x]
        /\ UNCHANGED <<user, unrevoked>>
    BY <1>9, <2>1 DEF LogoutAll, Begin
  <2>4. ~ Stale("revoke", x)
    BY <2>2 DEF Stale, HasRow, HasRole, HasCred
  <2> QED
    BY <1>1, <1>2, <2>2, <2>3, <2>4, QuietGrounds
<1>10. ASSUME NEW p \in Pairs, NEW q \in Pairs \cup {NoPair}, Logout(r, p, q)
       PROVE  GroundsInv'
  <2>1. PICK x : x = [NoLocal EXCEPT !.op = "logout", !.user = owner[p], !.pair = q, !.access = p]
    OBVIOUS
  <2>2. x \in Local /\ x.op = "logout"
    BY <1>10, <2>1, PairFields, NoLocalFields DEF Logout, Authenticate, Local
  <2>3. PICK label \in {"ttl", "hdel"} :
          /\ pc[r] = "idle" /\ pc' = [pc EXCEPT ![r] = label] /\ loc' = [loc EXCEPT ![r] = x]
          /\ UNCHANGED <<user, unrevoked>>
    BY <1>10, <2>1 DEF Logout, Begin
  <2>4. ~ Stale(label, x)
    BY <2>2 DEF Stale, HasRow, HasRole, HasCred
  <2> QED
    BY <1>1, <1>2, <2>2, <2>3, <2>4, QuietGrounds
<1> QED
  BY <1>3, <1>5, <1>6, <1>7, <1>8, <1>9, <1>10 DEF Arrive

LEMMA RefreshGrounds ==
  ASSUME FlowInv, GroundsInv, [Next]_vars, NEW r \in Requests,
         RefreshCheck(r) \/ RefreshLoad(r) \/ RefreshRotate(r)
  PROVE  GroundsInv'
<1>1. /\ UNCHANGED <<user, owner, delivered, origin, unrevoked>> /\ Step(r)
      /\ loc[r].op = "refresh" /\ loc[r] \in Local /\ loc[r].pair \in delivered
      /\ pc[r] \in {"check", "load", "rotate"} /\ loc[r].user \in Users
  BY OwnerKept, LocalFields DEF RefreshCheck, RefreshLoad, RefreshRotate, At, Grounded, Step
<1>2. \A u \in Users : ~ Debt(u, r)
  BY <1>1 DEF Debt
<1>3. PICK p, u : p = loc[r].pair /\ u = loc[r].user
  OBVIOUS
<1>4. /\ u = owner[p] /\ loc[r].cred = origin[p].cred /\ p \in delivered
      /\ origin[p].tainted => loc[r].tainted
      /\ FreshRequest(r)
  BY <1>1, <1>3 DEF GroundsInv, Linked
<1>5. ASSUME NEW label \in {"load", "revoke", "issue", "idle", "rotate"}, NEW x \in Local,
             pc' = [pc EXCEPT ![r] = label], loc' = [loc EXCEPT ![r] = x],
             x = NoLocal \/ (/\ x.op = "refresh" /\ x.user = u /\ x.pair = p
                             /\ x.cred = loc[r].cred /\ x.tainted = loc[r].tainted),
             ~ x.tainted /\ Stale(label, x) => Owed(x.user, r)
      PROVE  GroundsInv'
  <2>1. x.op = "refresh" => x.user = owner[x.pair] /\ x.cred = origin[x.pair].cred
                            /\ (origin[x.pair].tainted => x.tainted)
    BY <1>4, <1>5, NoLocalFields
  <2>2. ~ x.tainted =>
          (Stale(label, x) => x.user \in unrevoked' \/ \E t \in Requests : t # r /\ Debt(x.user, t))
    BY <1>1, <1>5 DEF Owed
  <2>3. label \in Labels \ {"store", "wipe"}
    BY DEF Labels
  <2> QED
    BY <1>1, <1>2, <1>5, <2>1, <2>2, <2>3, QuietGrounds
<1>6. ~ Stale("idle", NoLocal) /\ NoLocal \in Local
  BY NoLocalFields DEF Stale, HasRow, HasRole, HasCred
<1>7. PICK x : x = loc[r]
  OBVIOUS
<1>8. /\ x \in Local /\ x.op = "refresh" /\ x.user = u /\ x.pair = p /\ x.cred = loc[r].cred
      /\ x.tainted = loc[r].tainted
      /\ \A label : Goto(r, label) => loc' = [loc EXCEPT ![r] = x]
  BY <1>1, <1>3, <1>7 DEF Goto, FlowInv, TypeOK
<1>9. ~ Stale("revoke", x)
  BY <1>8 DEF Stale, HasRow, HasRole, HasCred
<1>10. CASE RefreshCheck(r)
  <2>1. CASE Goto(r, "revoke")
    BY <1>5, <1>8, <1>9, <2>1 DEF Goto
  <2>2. CASE Goto(r, "load") /\ p \in sessions[owner[p]]
    <3>1. ASSUME ~ x.tainted, Stale("load", x)
          PROVE  Owed(u, r)
      <4>1. user[u].cred # origin[p].cred
        BY <1>4, <1>8, <3>1 DEF Stale, HasRow, HasRole, HasCred
      <4>2. p \in Pairs /\ origin[p].registered /\ ~ origin[p].tainted
        BY <1>4, <1>8, <3>1, PairFields DEF GroundsInv
      <4>3. ~ Settled(u)
        BY <1>4, <2>2, <4>1, <4>2 DEF GroundsInv, FreshPair, Outdated
      <4> QED
        BY <1>2, <1>1, <1>3, <4>3, SettledDebts DEF Owed
    <3> QED
      BY <1>5, <1>8, <2>2, <3>1 DEF Goto
  <2> QED
    BY <1>3, <1>10, <2>1, <2>2 DEF RefreshCheck, S!IsRefreshTokenActive
<1>11. CASE RefreshLoad(r)
  <2>1. CASE Finish(r)
    BY <1>5, <1>6, <2>1 DEF Finish
  <2>2. CASE Goto(r, "revoke")
    BY <1>5, <1>8, <1>9, <2>2 DEF Goto
  <2>3. CASE /\ pc' = [pc EXCEPT ![r] = "rotate"] /\ user[u].exists /\ user[u].active
             /\ loc' = [loc EXCEPT ![r].role = user[u].role]
    <3>1. PICK y : y = [x EXCEPT !.role = user[u].role]
      OBVIOUS
    <3>2. /\ y \in Local /\ y.op = "refresh" /\ y.user = u /\ y.pair = p /\ y.cred = x.cred
          /\ y.tainted = x.tainted /\ y.role = user[u].role
      BY <1>1, <1>3, <1>8, <3>1, RowFields DEF Local
    <3>3. loc' = [loc EXCEPT ![r] = y]
      BY <2>3, <1>7, <3>1 DEF FlowInv, TypeOK
    <3>4. Stale("rotate", y) => Stale("load", x)
      BY <1>8, <2>3, <3>2 DEF Stale, HasRow, HasRole, HasCred
    <3>5. ~ y.tainted /\ Stale("rotate", y) => Owed(u, r)
      BY <1>3, <1>4, <1>7, <1>11, <3>2, <3>4 DEF FreshRequest, RefreshLoad, At
    <3> QED
      BY <1>5, <1>8, <2>3, <3>2, <3>3, <3>5
  <2> QED
    BY <1>3, <1>11, <2>1, <2>2, <2>3 DEF RefreshLoad
<1>12. CASE RefreshRotate(r)
  <2>1. Stale("issue", x) => Stale("rotate", x)
    BY <1>8 DEF Stale, HasRow, HasRole, HasCred
  <2>2. ~ x.tainted /\ Stale("issue", x) => Owed(u, r)
    BY <1>3, <1>4, <1>7, <1>12, <2>1 DEF FreshRequest, RefreshRotate, At
  <2> QED
    BY <1>5, <1>8, <1>12, <2>2 DEF RefreshRotate, Goto
<1> QED
  BY <1>10, <1>11, <1>12

LEMMA LogoutGrounds ==
  ASSUME FlowInv, GroundsInv, [Next]_vars, NEW r \in Requests,
         LogoutHdel(r) \/ LogoutTTL(r) \/ LogoutBlacklist(r)
  PROVE  GroundsInv'
<1>1. /\ UNCHANGED <<user, owner, delivered, origin, unrevoked>> /\ Step(r)
      /\ loc[r].op = "logout" /\ loc[r] \in Local /\ pc[r] \in {"hdel", "ttl", "blacklist"}
  BY OwnerKept, LocalFields DEF LogoutHdel, LogoutTTL, LogoutBlacklist, At, Step
<1>2. \A u \in Users : ~ Debt(u, r)
  BY <1>1 DEF Debt
<1>3. PICK label \in {"idle", "ttl", "blacklist"}, x \in {loc[r], NoLocal} :
        pc' = [pc EXCEPT ![r] = label] /\ loc' = [loc EXCEPT ![r] = x]
  <2>1. pc = [pc EXCEPT ![r] = pc[r]] /\ loc = [loc EXCEPT ![r] = loc[r]]
    BY DEF FlowInv, TypeOK
  <2> QED
    BY <2>1 DEF LogoutHdel, LogoutTTL, LogoutBlacklist, At, Goto, Finish
<1>4. x \in Local /\ x.op \in {"logout", "none"} /\ ~ Stale(label, x)
  BY <1>1, <1>3, NoLocalFields DEF Stale, HasRow, HasRole, HasCred
<1>5. label \in Labels \ {"store", "wipe"}
  BY DEF Labels
<1> QED
  BY <1>1, <1>2, <1>3, <1>4, <1>5, QuietGrounds

LEMMA ChangeGrounds ==
  ASSUME FlowInv, GroundsInv, [Next]_vars, NEW r \in Requests, ChangeVerify(r) \/ ChangeWrite(r)
  PROVE  GroundsInv'
<1>1. /\ UNCHANGED <<owner, delivered, origin, unrevoked>> /\ Step(r)
      /\ loc[r].op = "change" /\ loc[r] \in Local /\ pc[r] \in {"verify", "write"}
      /\ loc[r].user \in Users
  BY OwnerKept, LocalFields DEF ChangeVerify, ChangeWrite, At, Grounded, Step
<1>2. \A u \in Users : ~ Debt(u, r)
  BY <1>1 DEF Debt
<1>3. PICK x, u : x = loc[r] /\ u = loc[r].user
  OBVIOUS
<1>4. /\ x \in Local /\ x.op = "change" /\ x.user = u /\ u \in Users
      /\ ~ x.tainted /\ Stale(pc[r], x) => Owed(u, r)
  BY <1>1, <1>3 DEF GroundsInv, FreshRequest
<1>5. CASE ChangeVerify(r)
  <2>1. CASE Finish(r)
    <3>1. ~ Stale("idle", NoLocal) /\ NoLocal \in Local /\ NoLocal.op = "none"
      BY NoLocalFields DEF Stale, HasRow, HasRole, HasCred
    <3> QED
      BY <1>1, <1>2, <1>5, <2>1, <3>1, QuietGrounds DEF Finish, ChangeVerify, Labels
  <2>2. CASE /\ pc' = [pc EXCEPT ![r] = "write"]
             /\ loc' = [loc EXCEPT ![r].role = user[u].role]
    <3>1. PICK y : y = [x EXCEPT !.role = user[u].role]
      OBVIOUS
    <3>2. /\ y \in Local /\ y.op = "change" /\ y.user = u /\ y.tainted = x.tainted
          /\ y.role = user[u].role
      BY <1>4, <3>1, RowFields DEF Local
    <3>3. loc' = [loc EXCEPT ![r] = y] /\ UNCHANGED user /\ pc[r] = "verify"
      BY <1>3, <1>5, <2>2, <3>1 DEF FlowInv, TypeOK, ChangeVerify, At
    <3>4. Stale("write", y) => Stale("verify", x)
      BY <1>4, <3>2 DEF Stale, HasRow, HasRole, HasCred
    <3>5. ~ y.tainted => (Stale("write", y) => y.user \in unrevoked'
                            \/ \E t \in Requests : t # r /\ Debt(y.user, t))
      BY <1>1, <1>4, <3>2, <3>3, <3>4 DEF Owed
    <3> QED
      BY <1>1, <1>2, <2>2, <3>2, <3>3, <3>5, QuietGrounds DEF Labels
  <2> QED
    BY <1>3, <1>5, <2>1, <2>2 DEF ChangeVerify
<1>6. CASE ChangeWrite(r)
  <2>1. pc[r] = "write" /\ pc' = [pc EXCEPT ![r] = "revoke"]
    BY <1>6 DEF ChangeWrite, At
  <2>2. CASE user[u].exists
    <3>1. PICK y : y = [x EXCEPT !.cred = user[u].cred + 1]
      OBVIOUS
    <3>2. user[u].cred + 1 \in 0..MaxCred
      BY <1>3, <1>4, <1>6, <2>2, RowFields, FlowAssumption DEF ChangeWrite
    <3>3. /\ y \in Local /\ y.op = "change" /\ y.user = u /\ y.tainted = x.tainted
          /\ y.role = x.role /\ y.cred = user[u].cred + 1
      BY <1>4, <3>1, <3>2 DEF Local
    <3>4. PICK row : row = [user[u] EXCEPT !.cred = user[u].cred + 1]
      OBVIOUS
    <3>5. /\ row.exists = user[u].exists /\ row.active = user[u].active
          /\ row.role = user[u].role /\ row.cred = user[u].cred + 1
      BY <1>4, <3>4, RowFields DEF Row
    <3>6. loc' = [loc EXCEPT ![r] = y] /\ user' = [user EXCEPT ![u] = row]
      BY <1>3, <1>6, <2>2, <3>1, <3>4 DEF ChangeWrite, FlowInv, TypeOK
    <3>7. user'[u] = row /\ \A v \in Users : v # u => user'[v] = user[v]
      BY <1>4, <3>6 DEF FlowInv, TypeOK
    <3>8. Stale("revoke", y)' => Stale("write", x)
      BY <1>4, <3>3, <3>5, <3>7 DEF Stale, HasRow, HasRole, HasCred
    <3>9. ~ y.tainted => (Stale("revoke", y)' => y.user \in unrevoked'
                            \/ \E t \in Requests : t # r /\ Debt(y.user, t))
      BY <1>1, <1>4, <2>1, <3>3, <3>8 DEF Owed
    <3>10. \A v \in Users :
             \/ y.user = v /\ y.op \in Revoking /\ "revoke" \in {"revoke", "wipe"}
             \/ Easy(v) /\ (v \in unrevoked \/ Debt(v, r) => v \in unrevoked')
      BY <1>1, <1>2, <3>3, <3>7 DEF Easy, Revoking
    <3>11. "revoke" \in Labels \ {"store"}
      BY DEF Labels
    <3> QED
      BY <1>1, <2>1, <3>3, <3>6, <3>9, <3>10, <3>11, MoveGrounds
  <2>3. CASE ~ user[u].exists
    <3>1. UNCHANGED user /\ loc' = [loc EXCEPT ![r] = x]
      BY <1>3, <1>6, <2>3 DEF ChangeWrite, FlowInv, TypeOK
    <3>2. Stale("write", x)
      BY <1>4, <2>3 DEF Stale, HasRow
    <3>3. ~ x.tainted => x.user \in unrevoked' \/ \E t \in Requests : t # r /\ Debt(x.user, t)
      BY <1>1, <1>4, <2>1, <3>2 DEF Owed
    <3> QED
      BY <1>1, <1>2, <1>4, <2>1, <3>1, <3>3, QuietGrounds DEF Labels
  <2> QED
    BY <2>2, <2>3
<1> QED
  BY <1>5, <1>6

LEMMA RevokeGrounds ==
  ASSUME FlowInv, GroundsInv, [Next]_vars, NEW r \in Requests, RevokeRead(r) \/ Abort(r)
  PROVE  GroundsInv'
<1>1. UNCHANGED <<user, owner, delivered, origin>> /\ (Step(r) \/ Abort(r))
  BY OwnerKept DEF RevokeRead, Abort, Step
<1>2. \A u \in Users : Easy(u)
  BY <1>1 DEF Easy
<1>3. PICK x, u : x = loc[r] /\ u = loc[r].user
  OBVIOUS
<1>4. CASE RevokeRead(r)
  <2>1. /\ pc[r] = "revoke" /\ pc' = [pc EXCEPT ![r] = "wipe"] /\ unrevoked' = unrevoked
        /\ loc' = [loc EXCEPT ![r] = x] /\ x \in Local /\ x.user = u
    BY <1>3, <1>4, LocalFields DEF RevokeRead, Goto, FlowInv, TypeOK
  <2>2. \A v \in Users :
          \/ x.user = v /\ x.op \in Revoking /\ "wipe" \in {"revoke", "wipe"}
          \/ Easy(v) /\ (v \in unrevoked \/ Debt(v, r) => v \in unrevoked')
    BY <1>2, <1>3, <2>1 DEF Debt
  <2>3. Stale("wipe", x)' => Stale("revoke", x)
    BY <1>1 DEF Stale, HasRow, HasRole, HasCred
  <2>4. ~ x.tainted => (Stale("wipe", x)' => x.user \in unrevoked'
                          \/ \E t \in Requests : t # r /\ Debt(x.user, t))
    BY <1>3, <2>1, <2>3 DEF GroundsInv, FreshRequest, Owed
  <2>5. x.op = "refresh" => /\ x.user = owner[x.pair] /\ x.cred = origin[x.pair].cred
                            /\ origin[x.pair].tainted => x.tainted
    BY <1>3 DEF GroundsInv, Linked
  <2>6. "wipe" \in Labels \ {"store"}
    BY DEF Labels
  <2>7. call'[r].user = x.user
    <3>1. call' = [call EXCEPT ![r] = P!Revoking(u, now)] /\ call \in [Requests -> P!Call]
      BY <1>3, <1>4, SameSteps, StoreKept DEF RevokeRead, P!RevokeAllRead, P!TypeOK
    <3> QED
      BY <2>1, <3>1 DEF P!Revoking
  <2> QED
    BY <1>1, <2>1, <2>2, <2>4, <2>5, <2>6, <2>7, MoveGrounds
<1>5. CASE Abort(r)
  <2>1. /\ unrevoked \subseteq unrevoked' /\ \A v \in Users : Debt(v, r) => v \in unrevoked'
        /\ pc' = [pc EXCEPT ![r] = "idle"] /\ loc' = [loc EXCEPT ![r] = NoLocal]
    BY <1>5 DEF Abort, Debt, Finish
  <2>2. ~ Stale("idle", NoLocal) /\ NoLocal \in Local /\ NoLocal.op = "none"
    BY NoLocalFields DEF Stale, HasRow, HasRole, HasCred
  <2> QED
    BY <1>1, <2>1, <2>2, QuietGrounds DEF Labels
<1> QED
  BY <1>4, <1>5

LEMMA WipeGrounds ==
  ASSUME FlowInv, GroundsInv, [Next]_vars, NEW r \in Requests, Wipe(r)
  PROVE  GroundsInv'
<1>1. PICK u, x : x = loc[r] /\ u = loc[r].user
  OBVIOUS
<1> DEFINE crossed == {s \in Requests : loc[s].user = u /\ (s # r \/ u \in unrevoked)}
           Tainted(s) == [loc[s] EXCEPT !.tainted = TRUE]
           tainting == [s \in Requests |-> IF s \in crossed THEN Tainted(s) ELSE loc[s]]
<1>2. /\ UNCHANGED <<user, owner, delivered, origin>> /\ pc[r] = "wipe" /\ Step(r)
      /\ unrevoked' = unrevoked \ {u} /\ u \in Users /\ x \in Local /\ x.user = u
  BY <1>1, OwnerKept, LocalFields DEF Wipe, Step, Grounded
<1>3. \/ x.op = "change" /\ pc' = [pc EXCEPT ![r] = "issue"] /\ loc' = tainting
      \/ pc' = [pc EXCEPT ![r] = "idle"] /\ loc' = [tainting EXCEPT ![r] = NoLocal]
  BY <1>1 DEF Wipe
<1>4. ASSUME NEW s \in Requests
      PROVE  /\ Tainted(s) \in Local /\ Tainted(s).op = loc[s].op /\ Tainted(s).user = loc[s].user
             /\ Tainted(s).pair = loc[s].pair /\ Tainted(s).cred = loc[s].cred
             /\ Tainted(s).role = loc[s].role /\ Tainted(s).tainted = TRUE
  BY LocalFields DEF Local
<1> HIDE DEF Tainted
<1>5. /\ \A s \in Requests : s # r =>
           pc'[s] = pc[s] /\ loc'[s] = IF s \in crossed THEN Tainted(s) ELSE loc[s]
      /\ \/ x.op = "change" /\ pc'[r] = "issue"
            /\ loc'[r] = IF u \in unrevoked THEN Tainted(r) ELSE x
         \/ pc'[r] = "idle" /\ loc'[r] = NoLocal
  BY <1>1, <1>3 DEF FlowInv, TypeOK
<1>6. ASSUME NEW s \in Requests, s # r
      PROVE  Stays(s) /\ (loc[s].user = u => loc'[s].tainted)
  <2>1. pc'[s] = pc[s] /\ call'[s] = call[s]
    BY <1>2, <1>5, <1>6, CallKept
  <2> QED
    BY <1>4, <1>5, <1>6, <2>1 DEF Stays
<1>7. sessions'[u] = {}
  <2>1. call[r].user = u /\ P!RevokeAllSessions(r)
    BY <1>1, <1>2, SameSteps DEF Wipe, GroundsInv, Linked, P!RevokeAllSessions
  <2>2. sessions \in [Users -> SUBSET Pairs]
    BY StoreKept DEF P!TypeOK
  <2> QED
    BY <1>2, <2>1, <2>2 DEF P!RevokeAllSessions
<1>8. ASSUME NEW v \in Users
      PROVE  Covered(v, r)
  <2>1. CASE v = u
    BY <1>6, <1>7, <2>1 DEF Covered
  <2>2. CASE v # u
    BY <1>1, <1>2, <2>2 DEF Covered, Easy, Debt
  <2> QED
    BY <2>1, <2>2
<1>9. \A p \in Pairs : /\ Known(p) => origin'[p] = origin[p]
                       /\ ~ Known(p) => FreshPair(p)'
  BY <1>2 DEF Known, FreshPair
<1>10. \A p \in delivered' : origin'[p].registered
  BY <1>2 DEF GroundsInv
<1>11. CASE pc'[r] = "idle" /\ loc'[r] = NoLocal
  <2>1. FreshRequest(r)'
    BY <1>11, NoLocalFields DEF FreshRequest, Stale, HasRow, HasRole, HasCred
  <2>2. Linked(r)'
    BY <1>11, NoLocalFields DEF Linked
  <2> QED
    BY <1>6, <1>8, <1>9, <1>10, <2>1, <2>2, GroundsKept
<1>12. CASE /\ x.op = "change" /\ pc'[r] = "issue"
            /\ loc'[r] = IF u \in unrevoked THEN Tainted(r) ELSE x
  <2>1. loc'[r].op = "change" /\ loc'[r].user = u
    BY <1>1, <1>2, <1>4, <1>12
  <2>2. Linked(r)'
    BY <1>12, <2>1 DEF Linked
  <2>3. FreshRequest(r)'
    <3>1. CASE u \in unrevoked
      BY <1>4, <1>12, <3>1 DEF FreshRequest
    <3>2. CASE u \notin unrevoked
      <4>1. SUFFICES ASSUME Stale("issue", x)', ~ x.tainted
                     PROVE  \E t \in Requests : t # r /\ Debt(u, t)'
        BY <1>12, <2>1, <3>2 DEF FreshRequest, Owed, Stale, HasRow, HasRole, HasCred, Debt
      <4>2. Stale("wipe", x)
        BY <1>2, <1>12, <4>1 DEF Stale, HasRow, HasRole, HasCred
      <4>3. Owed(u, r)
        BY <1>1, <1>2, <4>1, <4>2 DEF GroundsInv, FreshRequest
      <4> QED
        BY <3>2, <4>3, <1>6, DebtKept DEF Owed
    <3> QED
      BY <3>1, <3>2
  <2> QED
    BY <1>6, <1>8, <1>9, <1>10, <2>2, <2>3, GroundsKept
<1> QED
  BY <1>5, <1>11, <1>12

LEMMA IssueGrounds ==
  ASSUME FlowInv, GroundsInv, [Next]_vars, NEW r \in Requests, Issue(r)
  PROVE  GroundsInv'
<1>1. PICK p \in Pairs : S!GenerateTokenPair(r, loc[r].user, p)
  BY DEF Issue
<1>2. PICK u, x : u = loc[r].user /\ x = loc[r]
  OBVIOUS
<1>3. /\ UNCHANGED <<user, delivered, origin, unrevoked, loc>> /\ pc[r] = "issue" /\ Step(r)
      /\ pc'[r] = "store" /\ \A s \in Requests : s # r => pc'[s] = pc[s]
      /\ call' = [call EXCEPT ![r] = P!Storing(p)] /\ owner' = [owner EXCEPT ![p] = u]
  BY <1>1, <1>2, SameSteps DEF Issue, Goto, FlowInv, TypeOK, P!GenerateTokenPair, Step
<1>4. \A s \in Requests : s # r => Stays(s)
  BY <1>3, CallKept DEF Stays
<1>5. \A v \in Users : Covered(v, r)
  BY <1>3 DEF Covered, Easy, Debt
<1>6. \A q \in Pairs : /\ Known(q) => origin'[q] = origin[q]
                       /\ ~ Known(q) => FreshPair(q)'
  BY <1>3 DEF Known, FreshPair
<1>7. \A q \in delivered' : origin'[q].registered
  BY <1>3 DEF GroundsInv
<1>8. FreshRequest(r)'
  <2>1. SUFFICES ASSUME Stale("store", x)', ~ x.tainted
                 PROVE  Owed(u, r)
    BY <1>2, <1>3, <1>4, DebtKept DEF FreshRequest, Owed, Stale, HasRow, HasRole, HasCred, Debt
  <2>2. Stale("issue", x)
    BY <1>3, <2>1 DEF Stale, HasRow, HasRole, HasCred
  <2> QED
    BY <1>2, <1>3, <2>1, <2>2 DEF GroundsInv, FreshRequest
<1>9. Linked(r)'
  <2>1. call'[r].pair = p /\ owner'[p] = u
    BY <1>3, StoreKept DEF P!TypeOK, P!Storing
  <2>2. x.op = "refresh" => x.pair \in delivered
    BY <1>2, LocalFields DEF Grounded
  <2>3. x.op = "refresh" => owner'[x.pair] = owner[x.pair]
    BY <2>2, PairKept
  <2> QED
    BY <1>2, <1>3, <2>1, <2>3 DEF GroundsInv, Linked
<1> QED
  BY <1>4, <1>5, <1>6, <1>7, <1>8, <1>9, GroundsKept

LEMMA RegisterGrounds ==
  ASSUME FlowInv, GroundsInv, [Next]_vars, NEW r \in Requests, Register(r)
  PROVE  GroundsInv'
<1>1. PICK p, u, x : p = call[r].pair /\ u = loc[r].user /\ x = loc[r]
  OBVIOUS
<1> DEFINE Why == [cred |-> x.cred, role |-> x.role, parent |-> x.pair,
                   tainted |-> x.tainted, registered |-> TRUE]
<1>2. /\ UNCHANGED <<user, unrevoked>> /\ Finish(r) /\ pc[r] = "store" /\ Step(r)
      /\ origin' = [origin EXCEPT ![p] = Why]
      /\ delivered' \in {delivered, delivered \cup {p}}
      /\ P!StoreRefreshToken(r)
  BY <1>1, SameSteps DEF Register, Step
<1>3. /\ p \in Pairs /\ call[r] = P!Storing(p) /\ call[r].op = "store"
  BY <1>1, <1>2, StoreKept, P!CallFields, StoreConstants DEF P!StoreRefreshToken
<1>4. /\ Why.cred = x.cred /\ Why.role = x.role /\ Why.tainted = x.tainted /\ Why.registered
  OBVIOUS
<1> HIDE DEF Why
<1>5. /\ owner' = owner /\ origin'[p] = Why /\ \A q \in Pairs : q # p => origin'[q] = origin[q]
      /\ pc'[r] = "idle" /\ loc'[r] = NoLocal
      /\ \A s \in Requests : s # r => pc'[s] = pc[s] /\ loc'[s] = loc[s]
  BY <1>2, <1>3 DEF FlowInv, TypeOK, P!StoreRefreshToken, Finish
<1>6. ~ Known(p) /\ owner[p] = u
  BY <1>1, <1>2, <1>3 DEF FlowInv, PairInv, GroundsInv, Linked
<1>7. \A s \in Requests : s # r => Stays(s)
  BY <1>2, <1>5, CallKept DEF Stays
<1>8. \A v \in Users : Covered(v, r)
  BY <1>2 DEF Covered, Easy, Debt
<1>9. FreshPair(p)'
  <2>1. SUFFICES ASSUME ~ x.tainted, Outdated(p)'
                 PROVE  ~ Settled(u)'
    BY <1>4, <1>5, <1>6 DEF FreshPair, Settled
  <2>2. Stale("store", x)
    <3>1. x.op \in {"login", "refresh", "change"}
      BY <1>1, <1>2, LocalFields DEF Grounded
    <3> QED
      BY <1>1, <1>2, <1>4, <1>5, <1>6, <2>1, <3>1 DEF Outdated, Stale, HasRow, HasRole, HasCred
  <2>3. Owed(u, r)
    BY <1>1, <1>2, <2>1, <2>2 DEF GroundsInv, FreshRequest
  <2> QED
    BY <1>2, <1>7, <2>3, DebtKept, SettledDebts DEF Owed
<1>10. ASSUME NEW q \in Pairs
       PROVE  /\ Known(q) => origin'[q] = origin[q]
              /\ ~ Known(q) => FreshPair(q)'
  <2>1. q # p => origin'[q] = origin[q]
    BY <1>5
  <2>2. q # p /\ ~ Known(q) => FreshPair(q)'
    BY <2>1 DEF Known, FreshPair
  <2> QED
    BY <1>6, <1>9, <2>1, <2>2
<1>11. \A q \in delivered' : origin'[q].registered
  BY <1>2, <1>4, <1>5 DEF GroundsInv, FlowInv, TypeOK
<1>12. FreshRequest(r)' /\ Linked(r)'
  BY <1>5, NoLocalFields DEF FreshRequest, Stale, HasRow, HasRole, HasCred, Linked
<1> QED
  BY <1>7, <1>8, <1>10, <1>11, <1>12, GroundsKept

LEMMA OtherGrounds ==
  ASSUME FlowInv, GroundsInv, [Next]_vars, UNCHANGED vars \/ Tick \/ \E u \in Users : VerifyEmail(u)
  PROVE  GroundsInv'
<1>1. /\ UNCHANGED <<owner, delivered, origin, pc, loc, call, unrevoked>>
      /\ UNCHANGED user \/ \E u \in Users : user' = [user EXCEPT ![u].verified = TRUE]
  BY DEF vars, storeVars, Tick, S!Tick, VerifyEmail
<1>2. \A v \in Users : Easy(v)
  <2>1. ASSUME NEW u \in Users, user' = [user EXCEPT ![u].verified = TRUE]
        PROVE  \A v \in Users : Easy(v)
    <3>1. PICK row : row = [user[u] EXCEPT !.verified = TRUE]
      OBVIOUS
    <3>2. /\ row.exists = user[u].exists /\ row.active = user[u].active
          /\ row.role = user[u].role /\ row.cred = user[u].cred
      BY <3>1, RowFields DEF Row
    <3>3. \A v \in Users : user'[v] = IF v = u THEN row ELSE user[v]
      BY <2>1, <3>1 DEF FlowInv, TypeOK
    <3> QED
      BY <3>2, <3>3 DEF Easy
  <2> QED
    BY <1>1, <2>1 DEF Easy
<1>3. PICK z : z \notin Requests
  BY NoSetContainsEverything
<1>4. \A s \in Requests : Stays(s)
  BY <1>1 DEF Stays
<1>5. \A v \in Users : Covered(v, z)
  BY <1>1, <1>2, <1>3 DEF Covered, Debt
<1>6. \A p \in Pairs : /\ Known(p) => origin'[p] = origin[p]
                       /\ ~ Known(p) => FreshPair(p)'
  BY <1>1 DEF Known, FreshPair
<1>7. \A p \in delivered' : origin'[p].registered
  BY <1>1 DEF GroundsInv
<1> QED
  BY <1>3, <1>4, <1>5, <1>6, <1>7, GroundsKept

LEMMA GroundsStart == Init => GroundsInv
<1> SUFFICES ASSUME Init
             PROVE  GroundsInv
  OBVIOUS
<1>1. ASSUME NEW r \in Requests
      PROVE  FreshRequest(r) /\ Linked(r)
  <2>1. loc[r] = NoLocal /\ pc[r] = "idle"
    BY DEF Init
  <2> QED
    BY <2>1, NoLocalFields DEF FreshRequest, Stale, HasRow, HasRole, HasCred, Linked
<1>2. \A p \in Pairs : ~ origin[p].registered
  BY DEF Init, NoOrigin
<1>3. delivered = {}
  BY DEF Init
<1> QED
  BY <1>1, <1>2, <1>3 DEF GroundsInv, FreshPair

LEMMA GroundsStep == FlowInv /\ GroundsInv /\ [Next]_vars => GroundsInv'
<1> SUFFICES ASSUME FlowInv, GroundsInv, [Next]_vars
             PROVE  GroundsInv'
  OBVIOUS
<1>1. ASSUME NEW r \in Requests, Step(r)
      PROVE  GroundsInv'
  BY <1>1, IssueGrounds, RegisterGrounds, RevokeGrounds, WipeGrounds, RefreshGrounds,
     LogoutGrounds, ChangeGrounds DEF Step
<1> QED
  BY <1>1, ArriveGrounds, RevokeGrounds, OtherGrounds DEF Next

\* The inductive invariant, with FlowInv.
THEOREM GroundsTheorem == Spec => []GroundsInv
<1>1. Init => GroundsInv
  BY GroundsStart
<1> QED
  BY <1>1, GroundsStep, FlowTheorem, PTL DEF Spec

\* Once the revocations that a change of password, role or activation or a deletion owes have
\* run, no session from before is left but what crossed one of them (ChangePassword,
\* ResetPassword, Update, Delete: first the row, then RevokeAllSessions).
THEOREM OutdatedTheorem == Spec => []OutdatedSessionsEnd
<1>1. FlowInv /\ GroundsInv /\ S!RevocationHolds => OutdatedSessionsEnd
  <2> SUFFICES ASSUME FlowInv, GroundsInv, S!RevocationHolds, NEW p \in Pairs,
                      origin[p].registered, ~ origin[p].tainted, Outdated(p), Settled(owner[p])
               PROVE  /\ ~ S!RefreshActive(p)
                      /\ S!AccessAccepted(p) => lastRevoke[owner[p]] <= iat[p] + RedisDelay
    BY DEF OutdatedSessionsEnd
  <2>1. ~ S!RefreshActive(p)
    BY DEF GroundsInv, FreshPair, S!RefreshActive
  <2>2. ASSUME S!AccessAccepted(p)
        PROVE  lastRevoke[owner[p]] <= iat[p] + RedisDelay
    <3>1. owner[p] \in Users /\ ~ (iat[p] + RedisDelay < lastRevoke[owner[p]])
      BY <2>2 DEF S!AccessAccepted, S!RevocationHolds, S!Minted
    <3>2. lastRevoke[owner[p]] \in Nat /\ iat[p] \in Nat
      BY <3>1 DEF FlowInv, TypeOK, S!TypeOK
    <3> QED
      BY <3>1, <3>2, FlowAssumption
  <2> QED
    BY <2>1, <2>2
<1> QED
  BY <1>1, FlowTheorem, GroundsTheorem, FlowsKeepPromises, PTL

-----------------------------------------------------------------------------
(***************************************************************************)
(* The reuse alarm                                                         *)
(***************************************************************************)
\* A new pair has been rotated from p.
Replayed(p) == \E c \in Pairs : origin[c].registered /\ origin[c].parent = p

\* Request r has presented such a token, or is revoking already.
Alarmed(r) ==
  /\ loc[r].op = "refresh"
  /\ pc[r] \in {"revoke", "wipe"} \/ (pc[r] = "check" /\ Replayed(loc[r].pair))

\* Its way out: no session of the account is left, or it has failed.
AlarmStep(r) ==
  \/ Alarmed(r)' /\ loc'[r].user = loc[r].user
  \/ /\ pc[r] = "wipe" /\ pc'[r] = "idle"
     /\ \A q \in Pairs : owner[q] = loc[r].user => ~ S!RefreshActive(q)'
  \/ AllowFailures /\ pc'[r] = "idle"

AlarmRuns == [][\A r \in Requests : Alarmed(r) => AlarmStep(r)]_vars

\* A token that has been rotated out stays so: no pair is registered twice.
LEMMA ReplayedKept ==
  ASSUME FlowInv, [Next]_vars, NEW p, Replayed(p)
  PROVE  Replayed(p)'
<1>1. PICK c \in Pairs : origin[c].registered /\ origin[c].parent = p
  BY DEF Replayed
<1>2. ASSUME NEW r \in Requests, Register(r)
      PROVE  origin'[c] = origin[c]
  <2>1. call[r].op = "store" /\ P!TypeOK
    BY <1>2, StoreKept DEF Register, S!StoreRefreshToken
  <2>2. call[r].pair \in Pairs /\ call[r] = P!Storing(call[r].pair)
    BY <2>1, P!CallFields, StoreConstants
  <2>3. call[r].pair # c
    BY <1>1, <2>2 DEF FlowInv, PairInv, Known
  <2> QED
    BY <1>2, <2>2, <2>3 DEF Register, FlowInv, TypeOK
<1>3. CASE \A r \in Requests : ~ Register(r)
  <2>1. CASE \E r \in Requests : Issue(r)
    BY <1>1, <2>1 DEF Issue, Replayed
  <2>2. CASE \E u \in Users : VerifyEmail(u)
    BY <1>1, <2>2 DEF VerifyEmail, Replayed
  <2>3. CASE Tick \/ UNCHANGED vars
    BY <1>1, <2>3 DEF Tick, vars, Replayed
  <2> QED
    BY <1>1, <1>3, <2>1, <2>2, <2>3, OwnerKept DEF Next, Step, Replayed
<1> QED
  BY <1>1, <1>2, <1>3 DEF Replayed

\* A request that arrives was idle, and moves no other.
LEMMA ArriveBegins ==
  ASSUME NEW r, Arrive(r)
  PROVE  /\ pc[r] = "idle"
         /\ UNCHANGED <<pc, loc>> \/ \E label, x : Begin(r, label, x)
<1>1. ASSUME NEW u, Login(r, u) \/ ResetPassword(r, u) \/ Delete(r, u)
      PROVE  \E label, x : Begin(r, label, x)
  BY <1>1, Zenon DEF Login, ResetPassword, Delete
<1>2. ASSUME NEW p, Refresh(r, p) \/ LogoutAll(r, p) \/ ChangePassword(r, p)
      PROVE  \E label, x : Begin(r, label, x)
  BY <1>2, Zenon DEF Refresh, LogoutAll, ChangePassword
<1>3. ASSUME NEW p, NEW q, Logout(r, p, q)
      PROVE  \E label, x : Begin(r, label, x)
  BY <1>3, Zenon DEF Logout
<1>4. ASSUME NEW u, NEW role, NEW active, Update(r, u, role, active)
      PROVE  pc[r] = "idle" /\ (UNCHANGED <<pc, loc>> \/ \E label, x : Begin(r, label, x))
  BY <1>4, Zenon DEF Update
<1>5. (\E label, x : Begin(r, label, x)) => pc[r] = "idle"
  BY DEF Begin
<1> QED
  BY <1>1, <1>2, <1>3, <1>4, <1>5 DEF Arrive

\* A request does not move another, but for the taint.
LEMMA OthersStay ==
  ASSUME FlowInv, NEW r \in Requests, Step(r) \/ Arrive(r) \/ Abort(r),
         NEW s \in Requests, s # r
  PROVE  /\ pc'[s] = pc[s] /\ loc'[s].op = loc[s].op /\ loc'[s].user = loc[s].user
         /\ loc'[s].pair = loc[s].pair
<1>1. pc \in [Requests -> Labels] /\ loc \in [Requests -> Local]
  BY DEF FlowInv, TypeOK
<1>2. CASE Wipe(r)
  <2> DEFINE Tainted == [loc[s] EXCEPT !.tainted = TRUE]
  <2>1. Tainted.op = loc[s].op /\ Tainted.user = loc[s].user /\ Tainted.pair = loc[s].pair
    BY <1>1 DEF Local
  <2>2. pc'[s] = pc[s] /\ loc'[s] \in {loc[s], Tainted}
    <3> HIDE DEF Tainted
    <3> QED BY <1>1, <1>2 DEF Wipe, Tainted
  <2> QED BY <2>1, <2>2
<1>3. CASE Issue(r) \/ Register(r) \/ RevokeRead(r) \/ RefreshCheck(r) \/ RefreshRotate(r)
  BY <1>1, <1>3 DEF Issue, Register, RevokeRead, RefreshCheck, RefreshRotate, Goto, Finish
<1>4. CASE RefreshLoad(r) \/ LogoutHdel(r) \/ LogoutTTL(r) \/ LogoutBlacklist(r)
  BY <1>1, <1>4 DEF RefreshLoad, LogoutHdel, LogoutTTL, LogoutBlacklist, Goto, Finish
<1>5. CASE ChangeVerify(r) \/ ChangeWrite(r) \/ Abort(r)
  BY <1>1, <1>5 DEF ChangeVerify, ChangeWrite, Abort, Finish
<1>6. CASE Arrive(r)
  BY <1>1, <1>6, ArriveBegins DEF Begin
<1> QED
  BY <1>2, <1>3, <1>4, <1>5, <1>6 DEF Step

\* A request in alarm goes on to the end of it, whatever the others do.
LEMMA AlarmStepTaken ==
  ASSUME FlowInv, GroundsInv, [Next]_vars, NEW r \in Requests, Alarmed(r)
  PROVE  AlarmStep(r)
<1>1. pc \in [Requests -> Labels] /\ loc \in [Requests -> Local]
  BY DEF FlowInv, TypeOK
<1>2. PICK p, u : p = loc[r].pair /\ u = loc[r].user
  OBVIOUS
<1>3. ASSUME pc'[r] = pc[r], loc'[r].op = loc[r].op, loc'[r].user = u, loc'[r].pair = p
      PROVE  AlarmStep(r)
  <2>1. Replayed(p) => Replayed(p)'
    BY ReplayedKept
  <2> QED BY <1>2, <1>3, <2>1 DEF AlarmStep, Alarmed, Replayed
<1>4. ASSUME NEW s \in Requests, s # r, Step(s) \/ Arrive(s) \/ Abort(s)
      PROVE  AlarmStep(r)
  BY <1>2, <1>3, <1>4, OthersStay
<1>5. CASE Tick \/ UNCHANGED vars \/ \E v \in Users : VerifyEmail(v)
  BY <1>2, <1>3, <1>5 DEF Tick, vars, VerifyEmail
<1>6. CASE RefreshCheck(r)
  <2>1. pc[r] = "check" /\ loc[r].op = "refresh" /\ Replayed(p)
    BY <1>2, <1>6 DEF RefreshCheck, At, Alarmed
  <2>2. p \notin sessions[owner[p]]
    BY <1>2, <2>1, LocalFields DEF Replayed, FlowInv, PairInv, Grounded, TypeOK
  <2>3. pc'[r] = "revoke" /\ loc' = loc
    BY <1>1, <1>2, <1>6, <2>2 DEF RefreshCheck, S!IsRefreshTokenActive, Goto
  <2> QED BY <1>2, <2>1, <2>3 DEF AlarmStep, Alarmed
<1>7. CASE RevokeRead(r)
  <2>1. pc'[r] = "wipe" /\ loc' = loc
    BY <1>1, <1>7 DEF RevokeRead, Goto
  <2> QED BY <1>2, <2>1 DEF AlarmStep, Alarmed
<1>8. CASE Wipe(r)
  <2>1. pc[r] = "wipe" /\ pc'[r] = "idle" /\ owner' = owner
    BY <1>1, <1>8, OwnerKept DEF Wipe, Alarmed
  <2>2. u \in Users /\ call[r].user = u
    BY <1>2, <1>8, <2>1, LocalFields
       DEF Wipe, S!RevokeAllSessions, GroundsInv, Linked, Grounded
  <2>3. sessions'[u] = {}
    BY <1>8, <2>2 DEF Wipe, S!RevokeAllSessions, FlowInv, TypeOK, S!TypeOK
  <2>4. \A q \in Pairs : owner[q] = u => ~ S!RefreshActive(q)'
    BY <2>1, <2>3 DEF S!RefreshActive
  <2> QED BY <1>2, <2>1, <2>4 DEF AlarmStep
<1>9. CASE Abort(r)
  BY <1>1, <1>9 DEF Abort, Finish, AlarmStep
<1>10. ~ Arrive(r) /\ (Step(r) => RefreshCheck(r) \/ RevokeRead(r) \/ Wipe(r))
  <2>1. loc[r].op = "refresh" /\ pc[r] \in {"check", "revoke", "wipe"}
    BY DEF Alarmed
  <2>2. ~ Arrive(r)
    BY <2>1, ArriveBegins
  <2>3. Step(r) => RefreshCheck(r) \/ RevokeRead(r) \/ Wipe(r)
    BY <2>1 DEF Step, Issue, Register, RefreshLoad, RefreshRotate, LogoutHdel, LogoutTTL,
                LogoutBlacklist, ChangeVerify, ChangeWrite, At
  <2> QED BY <2>2, <2>3
<1> QED
  BY <1>4, <1>5, <1>6, <1>7, <1>8, <1>9, <1>10 DEF Next

\* A refresh with a token that has been rotated out never gets a new pair: unless it fails,
\* it ends only by wiping the sessions of the account (the reuse alarm of Refresh).
THEOREM AlarmTheorem == Spec => AlarmRuns
<1>1. FlowInv /\ GroundsInv /\ [Next]_vars =>
        [\A r \in Requests : Alarmed(r) => AlarmStep(r)]_vars
  BY AlarmStepTaken
<1> QED
  BY <1>1, FlowTheorem, GroundsTheorem, PTL DEF Spec, AlarmRuns
=============================================================================

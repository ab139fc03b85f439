------------------------- MODULE SessionStoreProofs -------------------------
(***************************************************************************)
(* SessionStore, proved for every set of users, callers and pairs, and for *)
(* every lifetime its assumption admits: types, the inductive invariant    *)
(* StoreInv, the safety properties that follow from it, and the refinement *)
(* of SessionRegistry.                                                     *)
(***************************************************************************)
EXTENDS SessionStore, TLAPS

\* The parameters of every calculation.
LEMMA Constants ==
  /\ AccessTTL \in Nat \ {0} /\ RefreshTTL \in Nat /\ AccessTTL < RefreshTTL
  /\ Grace \in Nat /\ RedisDelay \in Nat /\ KeyTTL \in Nat
  /\ RefreshTTL <= KeyTTL /\ NoUser \notin Users
  BY StoreAssumption DEF KeyTTL

\* The fields of what a caller has under way are as its op says.
LEMMA CallFields ==
  ASSUME TypeOK, NEW c \in Callers
  PROVE  /\ call[c] \in Call
         /\ call[c].op \in {"idle", "store", "revokeAll", "blacklist"}
         /\ call[c].op = "idle" => call[c] = Idle
         /\ call[c].op = "store" =>
              call[c].pair \in Pairs /\ call[c] = Storing(call[c].pair)
         /\ call[c].op = "revokeAll" =>
              /\ call[c].user \in Users /\ call[c].at \in Nat
              /\ call[c] = Revoking(call[c].user, call[c].at)
         /\ call[c].op = "blacklist" =>
              /\ call[c].pair \in Pairs /\ call[c].ttl \in Nat
              /\ call[c] = Blacklisting(call[c].pair, call[c].ttl)
  BY DEF TypeOK, Call, Idle, Storing, Revoking, Blacklisting

-----------------------------------------------------------------------------
\* Every step keeps the types.  In particular a ttl of BlacklistAccessToken is
\* positive, thanks to the guard of Logout's caller.
LEMMA TypeStep == TypeOK /\ [Next]_vars => TypeOK'
<1> SUFFICES ASSUME TypeOK, [Next]_vars PROVE TypeOK'
  OBVIOUS
<1> USE Constants
<1>1. ASSUME NEW c \in Callers, NEW u \in Users, RevokeAllRead(c, u)
      PROVE  TypeOK'
  <2>1. Revoking(u, now) \in Call
    BY DEF TypeOK, Call, Revoking
  <2> QED BY <1>1, <2>1 DEF RevokeAllRead, TypeOK, redis
<1>2. ASSUME NEW c \in Callers, NEW u \in Users, NEW p \in Pairs,
             GenerateTokenPair(c, u, p)
      PROVE  TypeOK'
  <2>1. Storing(p) \in Call
    BY DEF Call, Storing
  <2> QED BY <1>2, <2>1 DEF GenerateTokenPair, TypeOK, redis
<1>3. ASSUME NEW c \in Callers, NEW p \in Pairs, BlacklistRead(c, p)
      PROVE  TypeOK'
  <2>1. AccessExpiry(p) - now \in Nat \ {0}
    BY <1>3 DEF BlacklistRead, TypeOK, AccessExpiry
  <2>2. Blacklisting(p, AccessExpiry(p) - now) \in Call
    BY <2>1 DEF Call, Blacklisting
  <2> QED BY <1>3, <2>2 DEF BlacklistRead, TypeOK, redis
<1>4. ASSUME NEW c \in Callers PROVE Idle \in Call
  BY DEF Call
<1>5. ASSUME NEW c \in Callers, StoreRefreshToken(c)
      PROVE  TypeOK'
  <2>1. call[c].pair \in Pairs
    BY <1>5, CallFields DEF StoreRefreshToken
  <2>2. sessions' \in [Users -> SUBSET Pairs]
    BY <1>5, <2>1 DEF StoreRefreshToken, TypeOK
  <2>3. now + KeyTTL \in Nat
    BY DEF TypeOK
  <2>4. hashDies' \in [Users -> Nat]
    BY <1>5, <2>3 DEF StoreRefreshToken, TypeOK
  <2> QED BY <1>4, <1>5, <2>2, <2>4 DEF StoreRefreshToken, TypeOK
<1>6. ASSUME NEW c \in Callers, RevokeAllSessions(c)
      PROVE  TypeOK'
  <2>1. call[c].user \in Users /\ call[c].at \in Nat
    BY <1>6, CallFields DEF RevokeAllSessions
  <2> QED BY <1>4, <1>6, <2>1 DEF RevokeAllSessions, TypeOK, EpochFor
<1>7. ASSUME NEW c \in Callers, BlacklistAccessToken(c)
      PROVE  TypeOK'
  <2>1. call[c].pair \in Pairs /\ call[c].ttl \in Nat
    BY <1>7, CallFields DEF BlacklistAccessToken
  <2> QED BY <1>4, <1>7, <2>1 DEF BlacklistAccessToken, TypeOK
<1>8. ASSUME NEW c \in Callers, Fail(c)
      PROVE  TypeOK'
  BY <1>4, <1>8 DEF Fail, TypeOK, redis
<1>9. ASSUME NEW p \in Pairs, NEW active \in BOOLEAN,
             IsRefreshTokenActive(p, active)
      PROVE  TypeOK'
  BY <1>9 DEF IsRefreshTokenActive, TypeOK
<1>10. ASSUME NEW p \in Pairs, RevokeRefreshToken(p)
       PROVE  TypeOK'
  BY <1>10 DEF RevokeRefreshToken, TypeOK
<1>11. CASE Tick
  BY <1>11 DEF Tick, ExpireKeys, TypeOK, NoEpoch
<1>12. CASE UNCHANGED vars
  BY <1>12 DEF vars, redis, TypeOK
<1> QED
  BY <1>1, <1>2, <1>3, <1>5, <1>6, <1>7, <1>8, <1>9, <1>10, <1>11, <1>12
     DEF Next, CallerNext

\* Every variable keeps its type, for any parameters of the store.
THEOREM TypeCorrect == Spec => []TypeOK
<1>1. Init => TypeOK
  BY DEF Init, TypeOK, Call, Idle, NoEpoch
<1> QED
  BY <1>1, TypeStep, PTL DEF Spec

-----------------------------------------------------------------------------
(***************************************************************************)
(* The inductive invariant, action by action.                              *)
(***************************************************************************)
\* A step that leaves pairs and keys alone only has to keep CallInv, and the
\* clock and the calls under way are all it can disturb.
LEMMA CallChange ==
  ASSUME TypeOK, StoreInv, NEW c \in Callers, NEW k \in Call,
         call' = [call EXCEPT ![c] = k],
         now' = now, owner' = owner, iat' = iat,
         k.op = "store" =>
           /\ Minted(k.pair)
           /\ \A d \in Callers : call[d] = k => d = c,
         k.op = "revokeAll" =>
           1 <= k.at /\ k.at <= now /\ now <= k.at + RedisDelay,
         k.op = "blacklist" =>
           /\ Minted(k.pair)
           /\ k.ttl > 0
           /\ AccessExpiry(k.pair) <= now + k.ttl
  PROVE  CallInv'
<1> SUFFICES ASSUME NEW d \in Callers
    PROVE  /\ call'[d].op = "store" =>
                /\ Minted(call'[d].pair)
                /\ \A e \in Callers : call'[e] = call'[d] => e = d
           /\ call'[d].op = "revokeAll" =>
                /\ 1 <= call'[d].at
                /\ call'[d].at <= now
                /\ now <= call'[d].at + RedisDelay
           /\ call'[d].op = "blacklist" =>
                /\ Minted(call'[d].pair)
                /\ call'[d].ttl > 0
                /\ AccessExpiry(call'[d].pair) <= now + call'[d].ttl
  BY DEF CallInv, Minted, AccessExpiry
<1>1. call' = [e \in Callers |-> IF e = c THEN k ELSE call[e]]
  BY DEF TypeOK
<1>2. CASE d = c
  BY <1>1, <1>2 DEF StoreInv, CallInv
<1>3. CASE d # c
  BY <1>1, <1>3 DEF StoreInv, CallInv
<1> QED BY <1>2, <1>3

\* The keys a step leaves alone stay as the invariant says.
LEMMA KeysUnchanged ==
  ASSUME TypeOK, StoreInv, UNCHANGED <<now, owner, iat>>
  PROVE  /\ ClockInv'
         /\ UNCHANGED <<sessions, hashDies>> => SessionsInv'
         /\ UNCHANGED <<epoch, epochDies, lastRevoke>> => EpochInv'
         /\ UNCHANGED <<lastRevoke, recalled>> => RecalledInv'
         /\ UNCHANGED <<blacklist, denied>> => DeniedInv'
         /\ UNCHANGED call => CallInv'
  BY DEF StoreInv, ClockInv, SessionsInv, EpochInv, RecalledInv, DeniedInv, CallInv, Minted,
         AccessExpiry, RefreshExpiry

LEMMA IdleCall ==
  /\ Idle \in Call /\ Idle.op # "store" /\ Idle.op # "revokeAll"
  /\ Idle.op # "blacklist"
  BY DEF Idle, Call

LEMMA GenerateStep ==
  ASSUME TypeOK, StoreInv, NEW c \in Callers, NEW u \in Users, NEW p \in Pairs,
         GenerateTokenPair(c, u, p)
  PROVE  StoreInv'
<1> USE Constants
<1>1. /\ owner[p] = NoUser /\ ~Minted(p)
      /\ owner' = [q \in Pairs |-> IF q = p THEN u ELSE owner[q]]
      /\ iat' = [q \in Pairs |-> IF q = p THEN now ELSE iat[q]]
      /\ call' = [d \in Callers |-> IF d = c THEN Storing(p) ELSE call[d]]
  BY DEF GenerateTokenPair, TypeOK, Minted
<1>2. ClockInv'
  BY <1>1 DEF GenerateTokenPair, TypeOK, StoreInv, ClockInv, Minted
<1>3. CallInv'
  <2>1. \A d \in Callers :
          call[d].op \in {"store", "blacklist"} =>
            call[d].pair # p /\ call[d].pair \in Pairs
    BY <1>1, CallFields DEF StoreInv, CallInv
  <2>2. /\ Storing(p).op = "store" /\ Storing(p).pair = p
        /\ \A d \in Callers : call[d] # Storing(p)
    BY <2>1 DEF Storing
  <2> SUFFICES ASSUME NEW d \in Callers PROVE CallInv!(d)'
    BY DEF CallInv
  <2>3. CASE d = c
    BY <1>1, <2>2, <2>3 DEF Minted
  <2>4. CASE d # c
    <3>1. call'[d] = call[d] /\ now' = now
      BY <1>1, <2>4 DEF GenerateTokenPair
    <3>2. call[d].op \in {"store", "blacklist"} =>
            /\ Minted(call[d].pair)'
            /\ AccessExpiry(call[d].pair)' = AccessExpiry(call[d].pair)
      BY <1>1, <2>1, <3>1 DEF StoreInv, CallInv, Minted, AccessExpiry
    <3>3. call[d].op = "store" =>
            \A e \in Callers : call'[e] = call[d] => e = d
      BY <1>1, <2>1, <2>2, <2>4 DEF StoreInv, CallInv
    <3> QED
      BY <3>1, <3>2, <3>3 DEF StoreInv, CallInv, Minted, AccessExpiry
  <2> QED
    BY <2>3, <2>4
<1>4. SessionsInv'
  BY <1>1 DEF GenerateTokenPair, redis, TypeOK, StoreInv, SessionsInv, RefreshExpiry
<1>5. EpochInv'
  BY DEF GenerateTokenPair, redis, StoreInv, EpochInv
<1>6. DeniedInv'
  BY <1>1 DEF GenerateTokenPair, redis, StoreInv, DeniedInv, Minted, AccessExpiry
<1>7. RecalledInv'
  <2>1. \A v \in Users : lastRevoke[v] \in Nat /\ lastRevoke[v] <= now
    BY DEF TypeOK, StoreInv, ClockInv, EpochInv
  <2>2. UNCHANGED <<lastRevoke, recalled>>
    BY DEF GenerateTokenPair
  <2> QED
    BY <1>1, <2>1, <2>2 DEF StoreInv, RecalledInv, Minted
<1> QED
  BY <1>2, <1>3, <1>4, <1>5, <1>6, <1>7 DEF StoreInv

LEMMA StoreStep ==
  ASSUME TypeOK, StoreInv, NEW c \in Callers, StoreRefreshToken(c)
  PROVE  StoreInv'
<1> USE Constants
<1> DEFINE p == call[c].pair
           u == owner[p]
<1>1. p \in Pairs /\ u \in Users /\ now + KeyTTL \in Nat
  BY CallFields DEF StoreRefreshToken, StoreInv, CallInv, Minted, TypeOK
<1>2. /\ sessions' = [sessions EXCEPT ![u] = @ \cup {p}]
      /\ hashDies' = [hashDies EXCEPT ![u] = now + KeyTTL]
  BY DEF StoreRefreshToken
<1>3. SessionsInv'
  <2>1. \A q \in Pairs : Minted(q) => iat[q] \in Nat /\ RefreshExpiry(q) <= now + KeyTTL
    BY DEF StoreInv, ClockInv, RefreshExpiry, TypeOK
  <2>2. SUFFICES ASSUME NEW v \in Users, NEW q \in sessions'[v]
                 PROVE  owner[q] = v /\ RefreshExpiry(q) <= hashDies'[v]
    BY DEF SessionsInv, RefreshExpiry, StoreRefreshToken
  <2>3. CASE v = u
    <3>1. q \in Pairs /\ owner[q] = v
      BY <1>1, <1>2, <2>3 DEF TypeOK, StoreInv, SessionsInv
    <3>2. hashDies'[v] = now + KeyTTL
      BY <1>1, <1>2, <2>3 DEF TypeOK
    <3> QED BY <2>1, <3>1, <3>2 DEF Minted
  <2>4. CASE v # u
    BY <1>1, <1>2, <2>4 DEF TypeOK, StoreInv, SessionsInv
  <2> QED BY <2>3, <2>4
<1>4. CallInv'
  BY CallChange, IdleCall DEF StoreRefreshToken
<1> QED
  BY <1>3, <1>4, KeysUnchanged DEF StoreRefreshToken, StoreInv

LEMMA RevokeAllStep ==
  ASSUME TypeOK, StoreInv, NEW c \in Callers, RevokeAllSessions(c)
  PROVE  StoreInv'
<1> USE Constants
<1> DEFINE u == call[c].user
           at == call[c].at
<1>1. /\ u \in Users /\ at \in Nat
      /\ 1 <= at /\ at <= now /\ now <= at + RedisDelay
      /\ now \in Nat
  BY CallFields DEF RevokeAllSessions, StoreInv, CallInv, TypeOK
<1>2. /\ sessions' = [v \in Users |-> IF v = u THEN {} ELSE sessions[v]]
      /\ hashDies' = [v \in Users |-> IF v = u THEN 0 ELSE hashDies[v]]
      /\ epoch' = [v \in Users |-> IF v = u THEN at - 1 ELSE epoch[v]]
      /\ epochDies' = [v \in Users |-> IF v = u THEN now + KeyTTL ELSE epochDies[v]]
      /\ lastRevoke' = [v \in Users |-> IF v = u THEN now ELSE lastRevoke[v]]
      /\ now' = now /\ owner' = owner /\ iat' = iat
  BY <1>1 DEF RevokeAllSessions, EpochFor, TypeOK
<1>3. SessionsInv'
  BY <1>2 DEF StoreInv, SessionsInv, RefreshExpiry
<1>4. EpochInv'
  <2> SUFFICES ASSUME NEW v \in Users PROVE EpochInv!(v)'
    BY DEF EpochInv
  <2>1. CASE v = u
    BY <1>1, <1>2, <2>1
  <2>2. CASE v # u
    BY <1>2, <2>2 DEF StoreInv, EpochInv, RevokeAllSessions
  <2> QED BY <2>1, <2>2
<1>5. CallInv'
  BY CallChange, IdleCall DEF RevokeAllSessions
<1>6. RecalledInv'
  <2>1. recalled' = recalled \cup {p \in Pairs : owner[p] = u}
    BY DEF RevokeAllSessions
  <2> QED
    BY <1>2, <2>1 DEF StoreInv, RecalledInv, Minted
<1> QED
  BY <1>3, <1>4, <1>5, <1>6, KeysUnchanged DEF RevokeAllSessions, StoreInv

LEMMA BlacklistStep ==
  ASSUME TypeOK, StoreInv, NEW c \in Callers, BlacklistAccessToken(c)
  PROVE  StoreInv'
<1> USE Constants
<1> DEFINE p == call[c].pair
           ttl == call[c].ttl
<1>1. /\ p \in Pairs /\ Minted(p) /\ ttl \in Nat /\ ttl > 0
      /\ AccessExpiry(p) <= now + ttl
  BY CallFields DEF BlacklistAccessToken, StoreInv, CallInv
<1>2. /\ blacklist' = [q \in Pairs |-> IF q = p THEN now + ttl ELSE blacklist[q]]
      /\ denied' = denied \cup {p}
      /\ now' = now /\ owner' = owner /\ iat' = iat
  BY DEF BlacklistAccessToken, TypeOK
<1>3. DeniedInv'
  BY <1>1, <1>2 DEF StoreInv, DeniedInv, Minted, AccessExpiry
<1>4. CallInv'
  <2>1. CASE call' = [call EXCEPT ![c] = Idle]
    BY <2>1, CallChange, IdleCall DEF BlacklistAccessToken
  <2>2. CASE UNCHANGED call
    BY <1>2, <2>2, KeysUnchanged
  <2> QED BY <2>1, <2>2 DEF BlacklistAccessToken
<1> QED
  BY <1>3, <1>4, KeysUnchanged DEF BlacklistAccessToken, StoreInv

LEMMA TickStep ==
  ASSUME TypeOK, StoreInv, Tick
  PROVE  StoreInv'
<1> USE Constants
<1>1. now \in Nat /\ now' = now + 1 /\ UNCHANGED <<owner, iat, call, lastRevoke, recalled, denied>>
  BY DEF Tick, TypeOK
<1>2. ClockInv'
  BY <1>1 DEF TypeOK, StoreInv, ClockInv, Minted
<1>3. CallInv'
  <2> SUFFICES ASSUME NEW c \in Callers PROVE CallInv!(c)'
    BY DEF CallInv
  <2>1. call[c].op = "revokeAll" => call[c].at \in Nat /\ now < call[c].at + RedisDelay
    BY CallFields DEF Tick
  <2>2. call[c].op = "blacklist" => call[c].ttl \in Nat /\ call[c].pair \in Pairs
    BY CallFields
  <2> QED
    BY <1>1, <2>1, <2>2 DEF TypeOK, StoreInv, CallInv, Minted, AccessExpiry
<1>4. SessionsInv'
  BY <1>1 DEF Tick, ExpireKeys, TypeOK, StoreInv, SessionsInv, RefreshExpiry
<1>5. EpochInv'
  <2> SUFFICES ASSUME NEW u \in Users PROVE EpochInv!(u)'
    BY DEF EpochInv
  <2>1. /\ epoch'[u] = IF now' < epochDies[u] THEN epoch[u] ELSE NoEpoch
        /\ epochDies'[u] = IF now' < epochDies[u] THEN epochDies[u] ELSE 0
    BY DEF Tick, ExpireKeys
  <2>2. epochDies[u] \in Nat /\ lastRevoke[u] \in Nat /\ epoch[u] \in Int
    BY DEF TypeOK
  <2> QED
    BY <1>1, <2>1, <2>2 DEF StoreInv, EpochInv
<1>6. DeniedInv'
  BY <1>1 DEF Tick, ExpireKeys, TypeOK, StoreInv, DeniedInv, Minted, AccessExpiry
<1>7. RecalledInv'
  BY <1>1 DEF StoreInv, RecalledInv, Minted
<1> QED
  BY <1>2, <1>3, <1>4, <1>5, <1>6, <1>7 DEF StoreInv

\* StoreInv is inductive.
LEMMA StoreInvStep ==
  ASSUME TypeOK, StoreInv, [Next]_vars
  PROVE  StoreInv'
<1> USE Constants
<1>1. ASSUME NEW c \in Callers, NEW u \in Users, RevokeAllRead(c, u)
      PROVE  StoreInv'
  <2>1. now \in Nat /\ 1 <= now /\ now <= now + RedisDelay
    BY DEF StoreInv, ClockInv, TypeOK
  <2>2. PICK k \in Call : k.op = "revokeAll" /\ k.at = now /\ k = Revoking(u, now)
    BY <2>1 DEF Revoking, Call
  <2>3. CallInv'
    <3>1. /\ call' = [call EXCEPT ![c] = k]
          /\ UNCHANGED <<now, owner, iat, redis, lastRevoke, recalled, denied>>
      BY <1>1, <2>2 DEF RevokeAllRead
    <3>2. /\ 1 <= k.at /\ k.at <= now /\ now <= k.at + RedisDelay
          /\ k.op # "store" /\ k.op # "blacklist"
      BY <2>1, <2>2
    <3> QED BY <3>1, <3>2, CallChange
  <2> QED BY <1>1, <2>3, KeysUnchanged DEF RevokeAllRead, redis, StoreInv
<1>2. ASSUME NEW c \in Callers, NEW p \in Pairs, BlacklistRead(c, p)
      PROVE  StoreInv'
  <2> DEFINE ttl == AccessExpiry(p) - now
  <2>1. /\ ttl \in Nat \ {0} /\ ttl > 0 /\ AccessExpiry(p) <= now + ttl
    BY <1>2 DEF BlacklistRead, TypeOK, AccessExpiry
  <2>2. PICK k \in Call : k.op = "blacklist" /\ k.pair = p /\ k.ttl = ttl
                          /\ k = Blacklisting(p, ttl)
    BY <2>1 DEF Blacklisting, Call
  <2>3. /\ Minted(p) /\ call' = [call EXCEPT ![c] = k]
        /\ UNCHANGED <<now, owner, iat, redis, lastRevoke, recalled, denied>>
    BY <1>2, <2>2 DEF BlacklistRead
  <2>4. /\ Minted(k.pair) /\ k.ttl > 0 /\ AccessExpiry(k.pair) <= now + k.ttl
        /\ k.op # "store" /\ k.op # "revokeAll"
    BY <2>1, <2>2, <2>3
  <2>5. CallInv'
    BY <2>3, <2>4, CallChange
  <2> QED BY <2>3, <2>5, KeysUnchanged DEF redis, StoreInv
<1>3. ASSUME NEW c \in Callers, Fail(c)
      PROVE  StoreInv'
  <2>1. CallInv'
    BY <1>3, CallChange, IdleCall DEF Fail
  <2> QED BY <1>3, <2>1, KeysUnchanged DEF Fail, redis, StoreInv
<1>4. ASSUME NEW p \in Pairs, NEW active \in BOOLEAN,
             IsRefreshTokenActive(p, active)
      PROVE  StoreInv'
  <2>1. SessionsInv'
    BY <1>4 DEF IsRefreshTokenActive, TypeOK, StoreInv, SessionsInv, RefreshExpiry
  <2> QED BY <1>4, <2>1, KeysUnchanged DEF IsRefreshTokenActive, StoreInv
<1>5. ASSUME NEW p \in Pairs, RevokeRefreshToken(p)
      PROVE  StoreInv'
  <2>1. SessionsInv'
    BY <1>5 DEF RevokeRefreshToken, TypeOK, StoreInv, SessionsInv, RefreshExpiry
  <2> QED BY <1>5, <2>1, KeysUnchanged DEF RevokeRefreshToken, StoreInv
<1>6. CASE UNCHANGED vars
  BY <1>6, KeysUnchanged DEF vars, redis, StoreInv
<1> QED
  BY <1>1, <1>2, <1>3, <1>4, <1>5, <1>6,
     GenerateStep, StoreStep, RevokeAllStep, BlacklistStep, TickStep
     DEF Next, CallerNext

\* The relations between keys, clock and calls hold in every state.
THEOREM StoreInvariant == Spec => []StoreInv
<1>1. Init => StoreInv
  BY Constants DEF Init, StoreInv, ClockInv, CallInv, SessionsInv, EpochInv,
                   RecalledInv, DeniedInv, Idle, Minted
<1>2. TypeOK /\ StoreInv /\ [Next]_vars => StoreInv'
  BY StoreInvStep
<1> QED
  BY <1>1, <1>2, TypeCorrect, PTL DEF Spec

-----------------------------------------------------------------------------
(***************************************************************************)
(* What follows from the invariant, state by state.                        *)
(***************************************************************************)
LEMMA Refused ==
  ASSUME TypeOK, StoreInv
  PROVE  RevocationHolds
<1> USE Constants
<1> SUFFICES ASSUME NEW p \in Pairs, Minted(p),
                    iat[p] + RedisDelay < lastRevoke[owner[p]],
                    now < AccessExpiry(p)
             PROVE  ~IsAccessTokenValid(p)
  BY DEF RevocationHolds, AccessAccepted
<1>1. /\ owner[p] \in Users /\ iat[p] \in Nat /\ now \in Nat
      /\ epoch[owner[p]] \in Int /\ lastRevoke[owner[p]] \in Nat
  BY DEF Minted, TypeOK
<1>2. epoch[owner[p]] # NoEpoch
  BY <1>1 DEF StoreInv, EpochInv, AccessExpiry, NoEpoch
<1>3. lastRevoke[owner[p]] - RedisDelay - 1 <= epoch[owner[p]]
  BY <1>1, <1>2 DEF StoreInv, EpochInv
<1> QED
  BY <1>1, <1>2, <1>3 DEF IsAccessTokenValid

LEMMA Accepted ==
  ASSUME TypeOK, StoreInv
  PROVE  FreshNotRefused
<1> USE Constants
<1> SUFFICES ASSUME NEW p \in Pairs, Minted(p), p \notin denied,
                    now < AccessExpiry(p), p \notin recalled
             PROVE  IsAccessTokenValid(p)
  BY DEF FreshNotRefused, AccessAccepted
<1>1. /\ owner[p] \in Users /\ iat[p] \in Nat
      /\ epoch[owner[p]] \in Int /\ lastRevoke[owner[p]] \in Nat
  BY DEF Minted, TypeOK
<1>2. epoch[owner[p]] = NoEpoch \/ epoch[owner[p]] < iat[p]
  BY <1>1 DEF StoreInv, EpochInv, RecalledInv
<1>3. blacklist[p] = 0
  BY DEF StoreInv, DeniedInv
<1> QED
  BY <1>1, <1>2, <1>3 DEF IsAccessTokenValid

LEMMA Denied ==
  ASSUME TypeOK, StoreInv
  PROVE  DeniedUntilExpiry
<1> USE Constants
<1> SUFFICES ASSUME NEW p \in denied, AccessAccepted(p) PROVE FALSE
  BY DEF DeniedUntilExpiry
<1>1. p \in Pairs /\ iat[p] \in Nat /\ now \in Nat
  BY DEF TypeOK
<1>2. blacklist[p] = 0 /\ now < AccessExpiry(p)
  BY DEF AccessAccepted, IsAccessTokenValid
<1>3. AccessExpiry(p) <= 0
  BY <1>1, <1>2 DEF StoreInv, DeniedInv, AccessExpiry
<1> QED
  BY <1>1, <1>3 DEF AccessExpiry

\* Access tokens issued before a revocation of all sessions, by more than the
\* delay of the command, are refused from then on, for any number of
\* concurrent revocations.
THEOREM RevocationTheorem == Spec => []RevocationHolds
BY TypeCorrect, StoreInvariant, Refused, PTL

\* A token minted after the last revocation took effect is never refused by it,
\* in the same second neither.
THEOREM FreshTheorem == Spec => []FreshNotRefused
BY TypeCorrect, StoreInvariant, Accepted, PTL

\* A blacklisted access token is refused until it has expired.
THEOREM DeniedTheorem == Spec => []DeniedUntilExpiry
BY TypeCorrect, StoreInvariant, Denied, PTL

\* The key of a user's refresh tokens outlives each of them.
THEOREM HashTheorem == Spec => []HashOutlivesSessions
<1>1. StoreInv => HashOutlivesSessions
  BY DEF StoreInv, SessionsInv, HashOutlivesSessions
<1> QED
  BY <1>1, StoreInvariant, PTL

-----------------------------------------------------------------------------
(***************************************************************************)
(* Every step of the store is a step of SessionRegistry, or stutters.      *)
(***************************************************************************)
\* The sets SessionRegistry sees change only with the keys they are read from.
LEMMA SetsUnchanged ==
  ASSUME UNCHANGED <<now, owner, iat>>
  PROVE  /\ UNCHANGED sessions => UNCHANGED LivePairs
         /\ UNCHANGED <<epoch, blacklist>> => UNCHANGED AcceptedPairs
         /\ UNCHANGED call => UNCHANGED PendingPairs
  BY DEF LivePairs, AcceptedPairs, PendingPairs, RefreshActive, AccessAccepted,
         IsAccessTokenValid, Minted, RefreshExpiry, AccessExpiry

\* A caller that takes up or drops a call of another kind, or ends a store,
\* moves the pending pairs accordingly.
LEMMA PendingChange ==
  ASSUME TypeOK, StoreInv, NEW c \in Callers, NEW k \in Call,
         call' = [call EXCEPT ![c] = k], k.op # "store"
  PROVE  /\ call[c].op = "store" => /\ call[c].pair \in PendingPairs
                                    /\ PendingPairs' = PendingPairs \ {call[c].pair}
         /\ call[c].op # "store" => PendingPairs' = PendingPairs
<1>1. call' = [d \in Callers |-> IF d = c THEN k ELSE call[d]]
  BY DEF TypeOK
<1>2. \A p : Storing(p).op = "store" /\ Storing(p).pair = p /\ k # Storing(p)
  BY DEF Storing
<1>3. CASE call[c].op = "store"
  <2>1. call[c].pair \in Pairs /\ call[c] = Storing(call[c].pair)
    BY <1>3, CallFields
  <2>2. \A d \in Callers : call[d] = call[c] => d = c
    BY <1>3 DEF StoreInv, CallInv
  <2> QED
    BY <1>1, <1>2, <1>3, <2>1, <2>2 DEF PendingPairs
<1>4. CASE call[c].op # "store"
  BY <1>1, <1>2, <1>4 DEF PendingPairs
<1> QED
  BY <1>3, <1>4

LEMMA IssueRefines ==
  ASSUME TypeOK, StoreInv, NEW c \in Callers, NEW u \in Users, NEW p \in Pairs,
         GenerateTokenPair(c, u, p)
  PROVE  Registry!Issue(p, u)
<1> USE Constants
<1>1. /\ owner[p] = NoUser /\ now \in Nat /\ now' = now
      /\ owner' = [q \in Pairs |-> IF q = p THEN u ELSE owner[q]]
      /\ iat' = [q \in Pairs |-> IF q = p THEN now ELSE iat[q]]
      /\ call' = [d \in Callers |-> IF d = c THEN Storing(p) ELSE call[d]]
      /\ call[c] = Idle
      /\ UNCHANGED <<sessions, epoch, blacklist>>
  BY DEF GenerateTokenPair, TypeOK, redis
<1>2. PendingPairs' = PendingPairs \cup {p}
  BY <1>1 DEF PendingPairs, Idle, Storing
<1>3. LivePairs' = LivePairs
  <2>1. \A v \in Users : p \notin sessions[v]
    BY <1>1 DEF StoreInv, SessionsInv
  <2> QED
    BY <1>1, <2>1 DEF LivePairs, RefreshActive, Minted, RefreshExpiry
<1>4. AcceptedPairs' = AcceptedPairs \cup {p}
  <2>1. AccessAccepted(p)'
    <3>1. blacklist[p] = 0
      BY <1>1 DEF StoreInv, DeniedInv, Minted
    <3>2. epoch[u] = NoEpoch \/ now > epoch[u]
      BY <1>1 DEF StoreInv, EpochInv, TypeOK
    <3> QED
      BY <1>1, <3>1, <3>2 DEF AccessAccepted, IsAccessTokenValid, Minted, AccessExpiry
  <2>2. ASSUME NEW q \in Pairs, q # p PROVE AccessAccepted(q)' <=> AccessAccepted(q)
    BY <1>1, <2>2 DEF AccessAccepted, IsAccessTokenValid, Minted, AccessExpiry
  <2> QED
    BY <2>1, <2>2 DEF AcceptedPairs
<1> QED
  BY <1>1, <1>2, <1>3, <1>4 DEF GenerateTokenPair, Registry!Issue

LEMMA RegisterRefines ==
  ASSUME TypeOK, StoreInv, NEW c \in Callers, StoreRefreshToken(c)
  PROVE  Registry!Register(call[c].pair)
<1> DEFINE p == call[c].pair
<1>1. /\ p \in Pairs /\ Minted(p) /\ call[c].op = "store"
      /\ owner[p] \in Users
  BY CallFields DEF StoreRefreshToken, StoreInv, CallInv, Minted
<1>2. p \in PendingPairs /\ PendingPairs' = PendingPairs \ {p}
  BY <1>1, PendingChange, IdleCall DEF StoreRefreshToken
<1>3. LivePairs' = IF now < iat[p] + RefreshTTL THEN LivePairs \cup {p} ELSE LivePairs
  <2>1. sessions' = [v \in Users |-> IF v = owner[p] THEN sessions[v] \cup {p}
                                                     ELSE sessions[v]]
    BY <1>1 DEF StoreRefreshToken, TypeOK
  <2> QED
    BY <1>1, <2>1 DEF StoreRefreshToken, LivePairs, RefreshActive, Minted, RefreshExpiry
<1> QED
  BY <1>2, <1>3, SetsUnchanged DEF StoreRefreshToken, Registry!Register

LEMMA RevokeAllRefines ==
  ASSUME TypeOK, StoreInv, TypeOK', StoreInv', NEW c \in Callers,
         RevokeAllSessions(c)
  PROVE  Registry!RevokeAll(call[c].user)
<1> DEFINE u == call[c].user
<1>1. u \in Users /\ call[c].op = "revokeAll"
  BY CallFields DEF RevokeAllSessions
<1>2. PendingPairs' = PendingPairs
  BY <1>1, PendingChange, IdleCall DEF RevokeAllSessions
<1>3. LivePairs' = LivePairs \ Registry!PairsOf(u)
  BY <1>1 DEF RevokeAllSessions, LivePairs, RefreshActive, Minted, RefreshExpiry,
              Registry!PairsOf, TypeOK
<1>4. AcceptedPairs' \ Registry!PairsOf(u) = AcceptedPairs \ Registry!PairsOf(u)
  <2>1. ASSUME NEW q \in Pairs, owner[q] # u
        PROVE  AccessAccepted(q)' <=> AccessAccepted(q)
    BY <1>1, <2>1 DEF RevokeAllSessions, AccessAccepted, IsAccessTokenValid, Minted,
                      AccessExpiry, TypeOK
  <2> QED
    BY <2>1 DEF AcceptedPairs, Registry!PairsOf
<1>5. Registry!Bounded'
  <2>1. RevocationHolds' /\ FreshNotRefused' /\ DeniedUntilExpiry'
    BY Refused, Accepted, Denied, PTL
  <2>2. ASSUME NEW q \in Pairs, owner'[q] \in Users
        PROVE  /\ iat'[q] \in Nat /\ lastRevoke'[owner'[q]] \in Nat
               /\ RedisDelay \in Nat
    BY <2>2, Constants DEF TypeOK
  <2> QED
    BY <2>1, <2>2 DEF Registry!Bounded, Registry!MustAccept, Registry!MayAccept,
       Registry!Unrefused, AcceptedPairs, RevocationHolds, FreshNotRefused,
       DeniedUntilExpiry, AccessAccepted, AccessExpiry, Minted
<1>6. recalled' = recalled \cup Registry!PairsOf(u)
  BY DEF RevokeAllSessions, Registry!PairsOf
<1> QED
  BY <1>2, <1>3, <1>4, <1>5, <1>6 DEF RevokeAllSessions, Registry!RevokeAll

LEMMA DenyRefines ==
  ASSUME TypeOK, StoreInv, NEW c \in Callers, BlacklistAccessToken(c)
  PROVE  Registry!Deny(call[c].pair)
<1> DEFINE p == call[c].pair
<1>1. /\ p \in Pairs /\ Minted(p) /\ call[c].op = "blacklist"
      /\ call[c].ttl \in Nat /\ call[c].ttl > 0 /\ now \in Nat
  BY CallFields DEF BlacklistAccessToken, StoreInv, CallInv, TypeOK
<1>2. PendingPairs' = PendingPairs
  <2>1. CASE call' = [call EXCEPT ![c] = Idle]
    BY <1>1, <2>1, PendingChange, IdleCall
  <2>2. CASE UNCHANGED call
    BY <2>2 DEF PendingPairs
  <2> QED BY <2>1, <2>2 DEF BlacklistAccessToken
<1>3. blacklist' = [q \in Pairs |-> IF q = p THEN now + call[c].ttl ELSE blacklist[q]]
  BY DEF BlacklistAccessToken, TypeOK
<1>4. AcceptedPairs' = AcceptedPairs \ {p}
  BY <1>1, <1>3 DEF BlacklistAccessToken, AcceptedPairs, AccessAccepted,
                    IsAccessTokenValid, Minted, AccessExpiry
<1> QED
  BY <1>1, <1>2, <1>4, SetsUnchanged DEF BlacklistAccessToken, Registry!Deny, Minted

\* A second removes expired tokens from sight and nothing else: no key dies
\* while it still matters.
LEMMA TickRefines ==
  ASSUME TypeOK, StoreInv, Tick
  PROVE  Registry!Tick
<1> USE Constants
<1>1. /\ now \in Nat /\ now' = now + 1
      /\ UNCHANGED <<owner, iat, call, lastRevoke, recalled, denied>>
      /\ sessions' = [u \in Users |-> IF now' < hashDies[u] THEN sessions[u] ELSE {}]
      /\ epoch' = [u \in Users |-> IF now' < epochDies[u] THEN epoch[u] ELSE NoEpoch]
      /\ blacklist' = [p \in Pairs |-> IF now' < blacklist[p] THEN blacklist[p] ELSE 0]
  BY DEF Tick, ExpireKeys, TypeOK
<1>2. PendingPairs' = PendingPairs
  BY <1>1 DEF PendingPairs
<1>3. LivePairs' = {p \in LivePairs : now' < iat[p] + RefreshTTL}
  <2>1. ASSUME NEW p \in Pairs
        PROVE  RefreshActive(p)' <=> RefreshActive(p) /\ now' < iat[p] + RefreshTTL
    <3>1. CASE Minted(p)
      <4>1. /\ owner[p] \in Users /\ iat[p] \in Nat /\ hashDies[owner[p]] \in Nat
        BY <3>1 DEF Minted, TypeOK
      <4>2. p \in sessions[owner[p]] => iat[p] + RefreshTTL <= hashDies[owner[p]]
        BY <4>1 DEF StoreInv, SessionsInv, RefreshExpiry
      <4> QED
        BY <1>1, <4>1, <4>2 DEF RefreshActive, RefreshExpiry, Minted
    <3>2. CASE ~Minted(p)
      BY <1>1, <3>2 DEF RefreshActive, Minted
    <3> QED BY <3>1, <3>2
  <2> QED
    BY <2>1 DEF LivePairs
<1>4. AcceptedPairs' = {p \in AcceptedPairs : now' < iat[p] + AccessTTL}
  <2>1. ASSUME NEW p \in Pairs
        PROVE  AccessAccepted(p)' <=> AccessAccepted(p) /\ now' < iat[p] + AccessTTL
    <3>1. CASE Minted(p)
      <4> DEFINE u == owner[p]
      <4>1. /\ u \in Users /\ iat[p] \in Nat /\ epoch[u] \in Int
            /\ epochDies[u] \in Nat /\ lastRevoke[u] \in Nat /\ blacklist[p] \in Nat
        BY <3>1 DEF Minted, TypeOK
      <4>2. now' < iat[p] + AccessTTL =>
              epoch'[u] = epoch[u] \/ (epoch[u] < iat[p] /\ epoch'[u] = NoEpoch)
        BY <1>1, <4>1 DEF StoreInv, EpochInv
      <4>3. now' < iat[p] + AccessTTL => (blacklist'[p] = 0 <=> blacklist[p] = 0)
        BY <1>1, <4>1 DEF StoreInv, DeniedInv, AccessExpiry
      <4> QED
        BY <1>1, <3>1, <4>1, <4>2, <4>3
           DEF AccessAccepted, IsAccessTokenValid, AccessExpiry, Minted, NoEpoch
    <3>2. CASE ~Minted(p)
      BY <1>1, <3>2 DEF AccessAccepted, Minted
    <3> QED BY <3>1, <3>2
  <2> QED
    BY <2>1 DEF AcceptedPairs
<1> QED
  BY <1>1, <1>2, <1>3, <1>4 DEF Registry!Tick

\* The store implements SessionRegistry: refresh tokens end by revocation or
\* expiry and stay ended, access tokens change status only as it allows.
THEOREM Refinement == Spec => ImplementsRegistry
<1>1. Init => Registry!Init
  BY Constants DEF Init, Registry!Init, PendingPairs, LivePairs, AcceptedPairs,
     RefreshActive, AccessAccepted, Minted, Idle, Storing
<1>2. TypeOK /\ StoreInv /\ TypeOK' /\ StoreInv' /\ [Next]_vars
        => [Registry!Next]_Registry!vars
  <2> SUFFICES ASSUME TypeOK, StoreInv, TypeOK', StoreInv', [Next]_vars
               PROVE  [Registry!Next]_Registry!vars
    OBVIOUS
  <2>1. ASSUME NEW c \in Callers, NEW u \in Users, RevokeAllRead(c, u)
        PROVE  UNCHANGED Registry!vars
    <3>1. PICK k \in Call : k.op # "store" /\ k = Revoking(u, now)
      BY DEF Revoking, Call, TypeOK
    <3>2. call[c].op # "store" /\ call' = [call EXCEPT ![c] = k]
      BY <2>1, <3>1 DEF RevokeAllRead, Idle
    <3>3. PendingPairs' = PendingPairs
      BY <3>1, <3>2, PendingChange
    <3> QED BY <2>1, <3>3, SetsUnchanged DEF RevokeAllRead, redis, Registry!vars
  <2>2. ASSUME NEW c \in Callers, NEW p \in Pairs, BlacklistRead(c, p)
        PROVE  UNCHANGED Registry!vars
    <3>1. AccessExpiry(p) - now \in Nat \ {0}
      BY <2>2, Constants DEF BlacklistRead, TypeOK, AccessExpiry
    <3>2. PICK k \in Call : /\ k.op # "store"
                            /\ k = Blacklisting(p, AccessExpiry(p) - now)
      BY <3>1 DEF Blacklisting, Call
    <3>3. call[c].op # "store" /\ call' = [call EXCEPT ![c] = k]
      BY <2>2, <3>2 DEF BlacklistRead, Idle
    <3>4. PendingPairs' = PendingPairs
      BY <3>2, <3>3, PendingChange
    <3> QED BY <2>2, <3>4, SetsUnchanged DEF BlacklistRead, redis, Registry!vars
  <2>3. ASSUME NEW c \in Callers, Fail(c)
        PROVE  \/ call[c].pair \in Pairs /\ Registry!Abandon(call[c].pair)
               \/ UNCHANGED Registry!vars
    <3>1. /\ call[c].op = "store" => /\ call[c].pair \in PendingPairs
                                     /\ PendingPairs' = PendingPairs \ {call[c].pair}
          /\ call[c].op # "store" => PendingPairs' = PendingPairs
      BY <2>3, PendingChange, IdleCall DEF Fail
    <3>2. UNCHANGED <<LivePairs, AcceptedPairs>>
      BY <2>3, SetsUnchanged DEF Fail, redis
    <3> QED
      BY <2>3, <3>1, <3>2 DEF Fail, redis, PendingPairs, Registry!Abandon, Registry!vars
  <2>4. ASSUME NEW p \in Pairs, NEW active \in BOOLEAN,
               IsRefreshTokenActive(p, active)
        PROVE  UNCHANGED Registry!vars
    <3>1. LivePairs' = LivePairs
      BY <2>4 DEF IsRefreshTokenActive, LivePairs, RefreshActive, Minted, RefreshExpiry,
                  TypeOK
    <3> QED BY <2>4, <3>1, SetsUnchanged DEF IsRefreshTokenActive, Registry!vars
  <2>5. ASSUME NEW p \in Pairs, RevokeRefreshToken(p)
        PROVE  Registry!Revoke(p) \/ UNCHANGED Registry!vars
    <3>1. LivePairs' = LivePairs \ {p}
      BY <2>5 DEF RevokeRefreshToken, LivePairs, RefreshActive, Minted, RefreshExpiry,
                  TypeOK
    <3>2. CASE p \in LivePairs
      BY <2>5, <3>1, <3>2, SetsUnchanged DEF RevokeRefreshToken, Registry!Revoke
    <3>3. CASE p \notin LivePairs
      BY <2>5, <3>1, <3>3, SetsUnchanged DEF RevokeRefreshToken, Registry!vars
    <3> QED BY <3>2, <3>3
  <2>6. CASE UNCHANGED vars
    BY <2>6, SetsUnchanged DEF vars, redis, Registry!vars
  <2>7. ASSUME NEW c \in Callers
        PROVE  /\ StoreRefreshToken(c) => call[c].pair \in Pairs
               /\ RevokeAllSessions(c) => call[c].user \in Users
               /\ BlacklistAccessToken(c) => call[c].pair \in Pairs
    BY CallFields DEF StoreRefreshToken, RevokeAllSessions, BlacklistAccessToken
  <2> QED
    BY <2>1, <2>2, <2>3, <2>4, <2>5, <2>6, <2>7, IssueRefines, RegisterRefines,
       RevokeAllRefines, DenyRefines, TickRefines
       DEF Next, CallerNext, Registry!Next
<1> QED
  BY <1>1, <1>2, TypeCorrect, StoreInvariant, PTL
     DEF Spec, Registry!Spec, ImplementsRegistry

-----------------------------------------------------------------------------
(***************************************************************************)
(* How a refused access token can be accepted again.                       *)
(***************************************************************************)
\* What a step has to do to it to make a refused token of owner u valid.
LEMMA AcceptedAgain ==
  ASSUME TypeOK, StoreInv, NEW p \in Pairs, NEW u \in Users, owner[p] = u,
         owner'[p] = u, iat'[p] = iat[p], now' \in Nat, now <= now',
         blacklist'[p] = 0 => blacklist[p] = 0 \/ blacklist[p] <= now',
         epoch'[u] = epoch[u] \/ (epoch'[u] = NoEpoch /\ epochDies[u] <= now')
  PROVE  AccessAccepted(p)' => AccessAccepted(p)
<1> USE Constants
<1> SUFFICES ASSUME AccessAccepted(p)' PROVE AccessAccepted(p)
  OBVIOUS
<1>1. /\ now \in Nat /\ iat[p] \in Nat /\ epoch[u] \in Int /\ epochDies[u] \in Nat
      /\ blacklist[p] \in Nat /\ lastRevoke[u] \in Nat
  BY DEF TypeOK
<1>2. /\ now' < iat[p] + AccessTTL /\ blacklist'[p] = 0
      /\ epoch'[u] = NoEpoch \/ iat[p] > epoch'[u]
  BY DEF AccessAccepted, IsAccessTokenValid, AccessExpiry
<1>3. Minted(p) /\ now < AccessExpiry(p)
  BY <1>1, <1>2 DEF Minted, AccessExpiry
<1>4. blacklist[p] = 0
  <2> SUFFICES ASSUME blacklist[p] # 0, blacklist[p] <= now' PROVE FALSE
    BY <1>2
  <2>1. p \in denied
    BY DEF StoreInv, DeniedInv
  <2>2. iat[p] + AccessTTL <= blacklist[p] \/ iat[p] + AccessTTL <= now
    BY <2>1 DEF StoreInv, DeniedInv, AccessExpiry
  <2> QED BY <1>1, <1>2, <2>2
<1>5. epoch[u] = NoEpoch \/ iat[p] > epoch[u]
  <2> SUFFICES ASSUME epoch[u] # NoEpoch, epochDies[u] <= now', iat[p] <= epoch[u]
               PROVE  FALSE
    BY <1>1, <1>2
  <2>1. epoch[u] <= lastRevoke[u] - 1 /\ epochDies[u] = lastRevoke[u] + KeyTTL
    BY DEF StoreInv, EpochInv
  <2> QED BY <1>1, <1>2, <2>1
<1> QED
  BY <1>3, <1>4, <1>5 DEF AccessAccepted, IsAccessTokenValid

\* A revocation is the only step that does it, and only an overtaken one.
LEMMA RevalidationStep ==
  ASSUME TypeOK, StoreInv, TypeOK', [Next]_vars, NEW p \in Pairs,
         Minted(p), ~AccessAccepted(p), AccessAccepted(p)'
  PROVE  /\ now <= iat[p] + RedisDelay
         /\ \E c \in Callers :
              /\ call[c].op = "revokeAll" /\ call[c].user = owner[p]
              /\ call[c].at <= iat[p] /\ call[c].at < lastRevoke[owner[p]]
              /\ call'[c] = Idle /\ lastRevoke'[owner[p]] = now
<1> USE Constants
<1>1. PICK u \in Users : owner[p] = u
  BY DEF Minted
<1>2. /\ now \in Nat /\ now' \in Nat /\ iat[p] \in Nat /\ epoch[u] \in Int
      /\ lastRevoke[u] \in Nat /\ blacklist[p] \in Nat
  BY DEF TypeOK
<1> DEFINE Kept == /\ now' = now /\ owner'[p] = owner[p] /\ iat'[p] = iat[p]
                   /\ epoch' = epoch
<1>3. Kept => blacklist'[p] = 0 /\ blacklist[p] # 0
  <2> SUFFICES ASSUME Kept, ~(blacklist'[p] = 0 /\ blacklist[p] # 0) PROVE FALSE
    OBVIOUS
  <2>1. blacklist'[p] = 0 => blacklist[p] = 0 \/ blacklist[p] <= now'
    OBVIOUS
  <2>2. /\ now <= now' /\ owner'[p] = u /\ iat'[p] = iat[p]
        /\ epoch'[u] = epoch[u] \/ (epoch'[u] = NoEpoch /\ epochDies[u] <= now')
    BY <1>1, <1>2
  <2> QED BY <1>1, <1>2, <2>1, <2>2, AcceptedAgain
<1>4. ASSUME NEW c \in Callers, NEW v \in Users, NEW q \in Pairs,
             GenerateTokenPair(c, v, q)
      PROVE  FALSE
  <2>1. q # p
    BY <1>4, <1>1 DEF GenerateTokenPair
  <2>2. owner'[p] = owner[p] /\ iat'[p] = iat[p]
    BY <1>4, <2>1 DEF GenerateTokenPair, TypeOK
  <2>3. now' = now /\ epoch' = epoch /\ blacklist' = blacklist
    BY <1>4 DEF GenerateTokenPair, redis
  <2> QED BY <1>3, <2>2, <2>3
<1>5. ASSUME NEW c \in Callers, BlacklistAccessToken(c)
      PROVE  FALSE
  <2>1. call[c].pair \in Pairs /\ call[c].ttl \in Nat /\ call[c].ttl > 0
    BY <1>5, CallFields DEF BlacklistAccessToken, StoreInv, CallInv
  <2>2. blacklist'[p] = blacklist[p] \/ blacklist'[p] = now + call[c].ttl
    BY <1>5, <2>1 DEF BlacklistAccessToken, TypeOK
  <2>3. Kept
    BY <1>5 DEF BlacklistAccessToken
  <2>4. now + call[c].ttl # 0
    BY <1>2, <2>1
  <2> QED BY <1>3, <2>2, <2>3, <2>4
<1>6. ~Tick
  <2> SUFFICES ASSUME Tick PROVE FALSE
    OBVIOUS
  <2>1. /\ now' = now + 1 /\ owner' = owner /\ iat' = iat
        /\ epoch'[u] = IF now' < epochDies[u] THEN epoch[u] ELSE NoEpoch
        /\ blacklist'[p] = IF now' < blacklist[p] THEN blacklist[p] ELSE 0
    BY DEF Tick, ExpireKeys
  <2>2. epochDies[u] \in Nat
    BY DEF TypeOK
  <2>3. epoch'[u] = epoch[u] \/ (epoch'[u] = NoEpoch /\ epochDies[u] <= now')
    BY <1>2, <2>1, <2>2
  <2>4. blacklist'[p] = 0 => blacklist[p] = 0 \/ blacklist[p] <= now'
    BY <1>2, <2>1
  <2>5. now <= now' /\ owner'[p] = u /\ iat'[p] = iat[p]
    BY <1>1, <1>2, <2>1
  <2> QED BY <1>1, <1>2, <2>3, <2>4, <2>5, AcceptedAgain
<1>7. PICK c \in Callers : RevokeAllSessions(c)
  <2>1. ASSUME NEW c \in Callers,
               \/ \E v \in Users : RevokeAllRead(c, v)
               \/ \E q \in Pairs : BlacklistRead(c, q)
               \/ StoreRefreshToken(c) \/ Fail(c)
        PROVE  FALSE
    <3>1. Kept /\ blacklist' = blacklist
      BY <2>1 DEF RevokeAllRead, BlacklistRead, StoreRefreshToken, Fail, redis
    <3> QED BY <1>3, <3>1
  <2>2. ASSUME NEW q \in Pairs,
               \/ \E active \in BOOLEAN : IsRefreshTokenActive(q, active)
               \/ RevokeRefreshToken(q)
        PROVE  FALSE
    <3>1. Kept /\ blacklist' = blacklist
      BY <2>2 DEF IsRefreshTokenActive, RevokeRefreshToken
    <3> QED BY <1>3, <3>1
  <2>3. ~UNCHANGED vars
    <3> SUFFICES ASSUME UNCHANGED vars PROVE FALSE
      OBVIOUS
    <3>1. Kept /\ blacklist' = blacklist
      BY DEF vars, redis
    <3> QED BY <1>3, <3>1
  <2> QED BY <1>4, <1>5, <1>6, <2>1, <2>2, <2>3 DEF Next, CallerNext
<1>8. /\ call[c].op = "revokeAll" /\ call[c].user \in Users /\ call[c].at \in Nat
      /\ call[c].at <= now /\ now <= call[c].at + RedisDelay
  BY <1>7, CallFields DEF RevokeAllSessions, StoreInv, CallInv
<1>9. call[c].user = u
  <2> SUFFICES ASSUME call[c].user # u PROVE FALSE
    OBVIOUS
  <2>1. /\ now' = now /\ owner' = owner /\ iat' = iat /\ blacklist' = blacklist
        /\ epoch'[u] = epoch[u]
    BY <1>7, <1>8 DEF RevokeAllSessions, TypeOK
  <2>2. /\ now <= now' /\ owner'[p] = u /\ iat'[p] = iat[p]
        /\ blacklist'[p] = 0 => blacklist[p] = 0 \/ blacklist[p] <= now'
        /\ epoch'[u] = epoch[u] \/ (epoch'[u] = NoEpoch /\ epochDies[u] <= now')
    BY <1>1, <1>2, <2>1
  <2> QED BY <1>1, <1>2, <2>2, AcceptedAgain
<1>10. /\ now' = now /\ owner' = owner /\ iat' = iat /\ blacklist' = blacklist
       /\ epoch'[u] = call[c].at - 1 /\ lastRevoke'[u] = now /\ call'[c] = Idle
  BY <1>7, <1>8, <1>9 DEF RevokeAllSessions, TypeOK, EpochFor
<1>11. /\ now < AccessExpiry(p) /\ blacklist[p] = 0 /\ iat[p] > call[c].at - 1
  <2>1. epoch'[u] # NoEpoch => iat'[p] > epoch'[u]
    BY <1>1, <1>10 DEF AccessAccepted, IsAccessTokenValid
  <2>2. iat[p] > call[c].at - 1
    BY <1>2, <1>8, <1>10, <2>1 DEF NoEpoch
  <2> QED
    BY <1>10, <2>2 DEF AccessAccepted, IsAccessTokenValid, AccessExpiry
<1>12. epoch[u] # NoEpoch /\ iat[p] <= epoch[u]
  BY <1>1, <1>2, <1>11 DEF AccessAccepted, IsAccessTokenValid
<1>13. epoch[u] <= lastRevoke[u] - 1
  BY <1>12 DEF StoreInv, EpochInv
<1>14. call[c].at <= iat[p] /\ call[c].at < lastRevoke[u]
  BY <1>2, <1>8, <1>11, <1>12, <1>13
<1>15. now <= iat[p] + RedisDelay
  BY <1>2, <1>8, <1>14
<1> QED
  BY <1>1, <1>8, <1>9, <1>10, <1>14, <1>15

\* A refused access token is accepted again only when a revocation that read
\* the clock before another one took effect runs after it: for any number of
\* callers, and for any lifetimes and delay.
THEOREM RevalidationTheorem == Spec => RevalidatedByOverlap
<1> DEFINE Overlaps(p) ==
      /\ now <= iat[p] + RedisDelay
      /\ \E c \in Callers :
           /\ call[c].op = "revokeAll" /\ call[c].user = owner[p]
           /\ call[c].at <= iat[p] /\ call[c].at < lastRevoke[owner[p]]
           /\ call'[c] = Idle /\ lastRevoke'[owner[p]] = now
<1>1. TypeOK /\ StoreInv /\ TypeOK' /\ [Next]_vars =>
        [\A p \in Pairs :
           Minted(p) /\ ~AccessAccepted(p) /\ AccessAccepted(p)' => Overlaps(p)]_vars
  BY RevalidationStep
<1> QED
  BY <1>1, TypeCorrect, StoreInvariant, PTL DEF Spec, RevalidatedByOverlap
=============================================================================

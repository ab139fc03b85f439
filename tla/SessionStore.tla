---------------------------- MODULE SessionStore ----------------------------
(***************************************************************************)
(* RedisSessionStore (src/app/lib/auth/session.go) and the token pairs of  *)
(* JWTManager (src/app/lib/auth/jwt.go) it keeps track of.                 *)
(*                                                                         *)
(* State in Redis, per user u and per pair p:                              *)
(*   auth:sessions:<u>   sessions[u], the pairs whose refresh jti is a     *)
(*                       field; the key dies at second hashDies[u]         *)
(*   auth:revoked:<u>    epoch[u], NoEpoch when there is no such key; the  *)
(*                       key dies at second epochDies[u]                   *)
(*   auth:blacklist:<p>  blacklist[p], the second the key dies, 0 if none  *)
(* The value of a field of auth:sessions:<u> is the expiry of the refresh  *)
(* token, a function of the second the pair was issued in.                 *)
(*                                                                         *)
(* A command to Redis is one atomic step.  What a caller computed before   *)
(* its command (the pair, the epoch, the ttl of a blacklist entry) sits in *)
(* call[c] until the command runs: other callers run in between.           *)
(* Redis removes a key when its time to live is over: Tick does.           *)
(***************************************************************************)
EXTENDS Integers, FiniteSets

CONSTANTS
  Users, NoUser,
  Callers,      \* goroutines serving requests
  Pairs,        \* token pairs; each has one access and one refresh jti
  AccessTTL,    \* AUTH JWTExpiry, in seconds
  RefreshTTL,   \* AUTH RefreshExpiry
  Grace,        \* the hour that keys outlive refresh tokens by
  RedisDelay,   \* seconds from reading the clock to the MULTI taking effect
  MaxTime       \* bound on the clock

ASSUME StoreAssumption ==
  /\ NoUser \notin Users
  /\ AccessTTL \in Nat \ {0}
  /\ RefreshTTL \in Nat
  /\ AccessTTL < RefreshTTL      \* Config.Validate
  /\ Grace \in Nat
  /\ RedisDelay \in Nat
  /\ MaxTime \in Nat

VARIABLES
  now,          \* time.Now().Unix()
  owner, iat,   \* the subject and iat of each pair, NoUser before it is minted
  call,         \* call[c]: what caller c has prepared and not yet sent
  sessions, hashDies,
  epoch, epochDies,
  blacklist,
  lastRevoke,   \* history: the second u's sessions were last wiped in, or 0
  recalled,     \* history: the pairs minted before a revocation of u took effect
  denied        \* history: the pairs whose access jti has been blacklisted

redis == <<sessions, hashDies, epoch, epochDies, blacklist>>
vars == <<now, owner, iat, call, redis, lastRevoke, recalled, denied>>

NoEpoch == -1

Idle == [op |-> "idle"]
Storing(p) == [op |-> "store", pair |-> p]
Revoking(u, at) == [op |-> "revokeAll", user |-> u, at |-> at]
Blacklisting(p, ttl) == [op |-> "blacklist", pair |-> p, ttl |-> ttl]

Call == {Idle}
          \cup [op : {"store"}, pair : Pairs]
          \cup [op : {"revokeAll"}, user : Users, at : Nat]
          \cup [op : {"blacklist"}, pair : Pairs, ttl : Nat \ {0}]

Minted(p) == owner[p] \in Users

(***************************************************************************)
(* Claims of a pair, and how long each key is kept.                        *)
(***************************************************************************)
AccessExpiry(p) == iat[p] + AccessTTL
RefreshExpiry(p) == iat[p] + RefreshTTL

\* (mutant) The keys live as long as access tokens do.
KeyTTL_Short == AccessTTL
KeyTTL == RefreshTTL + Grace

\* One second of slack, so that the pair minted right after a revocation in
\* the same second is not refused by its own epoch check.
\* (mutants) The slack left out, and one second too many of it.
EpochFor_NoSlack(at) == at
EpochFor_WideSlack(at) == at - 2
EpochFor(at) == at - 1

(***************************************************************************)
(* The reads.                                                              *)
(***************************************************************************)
\* IsAccessTokenValid: one pipeline, EXISTS of the blacklist and GET epoch.
\* (mutant) The redis.Nil of the missing epoch returns before the blacklist.
IsAccessTokenValid_NilFirst(p) ==
  \/ epoch[owner[p]] = NoEpoch
  \/ blacklist[p] = 0 /\ iat[p] > epoch[owner[p]]
IsAccessTokenValid(p) ==
  /\ blacklist[p] = 0
  /\ epoch[owner[p]] = NoEpoch \/ iat[p] > epoch[owner[p]]

\* What middleware Authenticate lets through: a signature it made, an exp in
\* the future, and a token the store has not revoked.
AccessAccepted(p) ==
  Minted(p) /\ now < AccessExpiry(p) /\ IsAccessTokenValid(p)

\* A refresh token that passes ParseRefreshToken and IsRefreshTokenActive.
RefreshActive(p) ==
  Minted(p) /\ p \in sessions[owner[p]] /\ now < RefreshExpiry(p)

-----------------------------------------------------------------------------
Init ==
  /\ now = 1
  /\ owner = [p \in Pairs |-> NoUser]
  /\ iat = [p \in Pairs |-> 0]
  /\ call = [c \in Callers |-> Idle]
  /\ sessions = [u \in Users |-> {}]
  /\ hashDies = [u \in Users |-> 0]
  /\ epoch = [u \in Users |-> NoEpoch]
  /\ epochDies = [u \in Users |-> 0]
  /\ blacklist = [p \in Pairs |-> 0]
  /\ lastRevoke = [u \in Users |-> 0]
  /\ recalled = {}
  /\ denied = {}

\* GenerateTokenPair: fresh jtis, one iat for both tokens.
GenerateTokenPair(c, u, p) ==
  /\ call[c] = Idle
  /\ owner[p] = NoUser
  /\ owner' = [owner EXCEPT ![p] = u]
  /\ iat' = [iat EXCEPT ![p] = now]
  /\ call' = [call EXCEPT ![c] = Storing(p)]
  /\ UNCHANGED <<now, redis, lastRevoke, recalled, denied>>

\* StoreRefreshToken: MULTI HSET, EXPIRE.  The ttl of the key starts over.
\* (mutant) EXPIRE NX: only the first field sets the ttl.
StoreRefreshToken_ExpireOnce(c) ==
  /\ call[c].op = "store"
  /\ LET p == call[c].pair
         u == owner[p]
     IN  /\ sessions' = [sessions EXCEPT ![u] = @ \cup {p}]
         /\ hashDies' = [hashDies EXCEPT ![u] = IF @ = 0 THEN now + KeyTTL ELSE @]
  /\ call' = [call EXCEPT ![c] = Idle]
  /\ UNCHANGED <<now, owner, iat, epoch, epochDies, blacklist, lastRevoke, recalled, denied>>
StoreRefreshToken(c) ==
  /\ call[c].op = "store"
  /\ LET p == call[c].pair
         u == owner[p]
     IN  /\ sessions' = [sessions EXCEPT ![u] = @ \cup {p}]
         /\ hashDies' = [hashDies EXCEPT ![u] = now + KeyTTL]
  /\ call' = [call EXCEPT ![c] = Idle]
  /\ UNCHANGED <<now, owner, iat, epoch, epochDies, blacklist, lastRevoke, recalled, denied>>

\* IsRefreshTokenActive: HGET, and a best-effort HDEL of an expired field.
\* No other command ever writes that field again, so the two are one step.
IsRefreshTokenActive(p, active) ==
  /\ Minted(p)
  /\ active = (p \in sessions[owner[p]] /\ now < RefreshExpiry(p))
  /\ \/ UNCHANGED sessions
     \/ /\ p \in sessions[owner[p]] /\ ~active
        /\ sessions' = [sessions EXCEPT ![owner[p]] = @ \ {p}]
  /\ UNCHANGED <<now, owner, iat, call, hashDies, epoch, epochDies, blacklist,
                 lastRevoke, recalled, denied>>

\* RevokeRefreshToken: HDEL; a missing field is no error.
RevokeRefreshToken(p) ==
  /\ Minted(p)
  /\ sessions' = [sessions EXCEPT ![owner[p]] = @ \ {p}]
  /\ UNCHANGED <<now, owner, iat, call, hashDies, epoch, epochDies, blacklist,
                 lastRevoke, recalled, denied>>

\* RevokeAllSessions, first half: the epoch is taken from the clock ...
RevokeAllRead(c, u) ==
  /\ call[c] = Idle
  /\ call' = [call EXCEPT ![c] = Revoking(u, now)]
  /\ UNCHANGED <<now, owner, iat, redis, lastRevoke, recalled, denied>>

\* ... second half: MULTI DEL sessions, SET revoked.  SET overwrites whatever
\* epoch is there, a later one included.
RevokeAllSessions(c) ==
  /\ call[c].op = "revokeAll"
  /\ LET u == call[c].user
     IN  /\ sessions' = [sessions EXCEPT ![u] = {}]
         /\ hashDies' = [hashDies EXCEPT ![u] = 0]
         /\ epoch' = [epoch EXCEPT ![u] = EpochFor(call[c].at)]
         /\ epochDies' = [epochDies EXCEPT ![u] = now + KeyTTL]
         /\ lastRevoke' = [lastRevoke EXCEPT ![u] = now]
         /\ recalled' = recalled \cup {p \in Pairs : owner[p] = u}
  /\ call' = [call EXCEPT ![c] = Idle]
  /\ UNCHANGED <<now, owner, iat, blacklist, denied>>

\* Logout's ttl = time.Until(exp), with the ttl <= 0 return of
\* BlacklistAccessToken as a guard.
\* (mutant) The guard is missing.
BlacklistRead_AnyTTL(c, p) ==
  /\ call[c] = Idle
  /\ Minted(p)
  /\ call' = [call EXCEPT ![c] = Blacklisting(p, AccessExpiry(p) - now)]
  /\ UNCHANGED <<now, owner, iat, redis, lastRevoke, recalled, denied>>
BlacklistRead(c, p) ==
  /\ call[c] = Idle
  /\ Minted(p)
  /\ AccessExpiry(p) - now > 0
  /\ call' = [call EXCEPT ![c] = Blacklisting(p, AccessExpiry(p) - now)]
  /\ UNCHANGED <<now, owner, iat, redis, lastRevoke, recalled, denied>>

\* SET with a ttl.  The client retries a single command whose answer is lost (it
\* does not retry a MULTI it has sent), and the entry starts over.
BlacklistAccessToken(c) ==
  /\ call[c].op = "blacklist"
  /\ blacklist' = [blacklist EXCEPT ![call[c].pair] = now + call[c].ttl]
  /\ denied' = denied \cup {call[c].pair}
  /\ \/ call' = [call EXCEPT ![c] = Idle]
     \/ UNCHANGED call
  /\ UNCHANGED <<now, owner, iat, sessions, hashDies, epoch, epochDies, lastRevoke,
                 recalled>>

\* The command never reaches Redis: a timeout, a cancelled request, a crash.
Fail(c) ==
  /\ call[c] # Idle
  /\ call' = [call EXCEPT ![c] = Idle]
  /\ UNCHANGED <<now, owner, iat, redis, lastRevoke, recalled, denied>>

\* Redis drops the keys whose time to live has passed.
ExpireKeys(t) ==
  /\ sessions' = [u \in Users |-> IF t < hashDies[u] THEN sessions[u] ELSE {}]
  /\ hashDies' = [u \in Users |-> IF t < hashDies[u] THEN hashDies[u] ELSE 0]
  /\ epoch' = [u \in Users |-> IF t < epochDies[u] THEN epoch[u] ELSE NoEpoch]
  /\ epochDies' = [u \in Users |-> IF t < epochDies[u] THEN epochDies[u] ELSE 0]
  /\ blacklist' = [p \in Pairs |-> IF t < blacklist[p] THEN blacklist[p] ELSE 0]

\* A second passes.  The client's timeouts bound how long a MULTI is under way.
Tick ==
  /\ now < MaxTime
  /\ \A c \in Callers : call[c].op = "revokeAll" => now < call[c].at + RedisDelay
  /\ now' = now + 1
  /\ ExpireKeys(now')
  /\ UNCHANGED <<owner, iat, call, lastRevoke, recalled, denied>>

CallerNext(c) ==
  \/ \E u \in Users : RevokeAllRead(c, u)
  \/ \E u \in Users, p \in Pairs : GenerateTokenPair(c, u, p)
  \/ \E p \in Pairs : BlacklistRead(c, p)
  \/ StoreRefreshToken(c)
  \/ RevokeAllSessions(c)
  \/ BlacklistAccessToken(c)
  \/ Fail(c)

Next ==
  \/ \E c \in Callers : CallerNext(c)
  \/ \E p \in Pairs, active \in BOOLEAN : IsRefreshTokenActive(p, active)
  \/ \E p \in Pairs : RevokeRefreshToken(p)
  \/ Tick

Spec == Init /\ [][Next]_vars

-----------------------------------------------------------------------------
TypeOK ==
  /\ now \in Nat
  /\ owner \in [Pairs -> Users \cup {NoUser}]
  /\ iat \in [Pairs -> Nat]
  /\ call \in [Callers -> Call]
  /\ sessions \in [Users -> SUBSET Pairs]
  /\ hashDies \in [Users -> Nat]
  /\ epoch \in [Users -> Int]
  /\ epochDies \in [Users -> Nat]
  /\ blacklist \in [Pairs -> Nat]
  /\ lastRevoke \in [Users -> Nat]
  /\ recalled \in SUBSET Pairs
  /\ denied \in SUBSET Pairs

(***************************************************************************)
(* Safety.                                                                 *)
(***************************************************************************)
\* RevokeAllSessions: once it has run at some second, an access token of the
\* user issued more than RedisDelay seconds before is refused, whatever other
\* revocations, with older clock readings, overwrite the epoch, and also after
\* the epoch key itself has died.
RevocationHolds ==
  \A p \in Pairs :
    /\ Minted(p)
    /\ iat[p] + RedisDelay < lastRevoke[owner[p]]
    => ~AccessAccepted(p)

\* IsAccessTokenValid: no token minted after the last revocation took effect is
\* refused by it: the pair ChangePassword mints right after its own revocation
\* works, in the same second too, although the epoch counts whole seconds.
FreshNotRefused ==
  \A p \in Pairs :
    /\ Minted(p)
    /\ p \notin denied
    /\ now < AccessExpiry(p)
    /\ p \notin recalled
    => AccessAccepted(p)

\* BlacklistAccessToken: a ttl computed before the SET still covers the token
\* until it expires by itself.
DeniedUntilExpiry == \A p \in denied : ~AccessAccepted(p)

\* StoreRefreshToken: the key holding a user's refresh tokens never dies before
\* the last of them has expired.
HashOutlivesSessions ==
  \A u \in Users : \A p \in sessions[u] : RefreshExpiry(p) <= hashDies[u]

(***************************************************************************)
(* Why: the relations between keys, clock and calls under way that every   *)
(* step keeps.                                                             *)
(***************************************************************************)
ClockInv ==
  /\ now >= 1
  /\ \A p \in Pairs : Minted(p) => 1 <= iat[p] /\ iat[p] <= now

CallInv ==
  \A c \in Callers :
    /\ call[c].op = "store" =>
         /\ Minted(call[c].pair)
         /\ \A d \in Callers : call[d] = call[c] => d = c
    /\ call[c].op = "revokeAll" =>
         /\ 1 <= call[c].at
         /\ call[c].at <= now
         /\ now <= call[c].at + RedisDelay
    /\ call[c].op = "blacklist" =>
         /\ Minted(call[c].pair)
         /\ call[c].ttl > 0
         /\ AccessExpiry(call[c].pair) <= now + call[c].ttl

SessionsInv ==
  \A u \in Users : \A p \in sessions[u] :
    owner[p] = u /\ RefreshExpiry(p) <= hashDies[u]

\* The epoch lags the last revocation by the slack and at most RedisDelay
\* more, and is gone only when every token it refused has expired.
EpochInv ==
  \A u \in Users :
    \/ lastRevoke[u] = 0 /\ epoch[u] = NoEpoch /\ epochDies[u] = 0
    \/ /\ 1 <= lastRevoke[u] /\ lastRevoke[u] <= now
       /\ \/ /\ epoch[u] >= 0
             /\ lastRevoke[u] - RedisDelay - 1 <= epoch[u]
             /\ epoch[u] <= lastRevoke[u] - 1
             /\ epochDies[u] = lastRevoke[u] + KeyTTL
          \/ /\ epoch[u] = NoEpoch
             /\ epochDies[u] = 0
             /\ lastRevoke[u] + KeyTTL <= now

\* A pair that no revocation was to end is from no earlier second than the last.
RecalledInv ==
  \A p \in Pairs : Minted(p) /\ p \notin recalled => lastRevoke[owner[p]] <= iat[p]

DeniedInv ==
  \A p \in Pairs :
    IF p \in denied
    THEN /\ Minted(p)
         /\ AccessExpiry(p) <= blacklist[p] \/ AccessExpiry(p) <= now
    ELSE blacklist[p] = 0

\* Inductive; RevocationHolds, FreshNotRefused, DeniedUntilExpiry and
\* HashOutlivesSessions follow from it.
StoreInv == ClockInv /\ CallInv /\ SessionsInv /\ EpochInv /\ RecalledInv /\ DeniedInv

(***************************************************************************)
(* How a refused access token can be accepted again.                       *)
(***************************************************************************)
\* RevokeAllSessions, the clock read before its MULTI: only a revocation that
\* read the clock before another one took effect, and whose SET moves the epoch
\* back across the iat of the token, makes a refused access token valid again,
\* and only one issued at most RedisDelay seconds ago.  No expired key does, nor
\* a refresh, a logout or a failure.
RevalidatedByOverlap ==
  [][\A p \in Pairs :
       Minted(p) /\ ~AccessAccepted(p) /\ AccessAccepted(p)' =>
         /\ now <= iat[p] + RedisDelay
         /\ \E c \in Callers :
              /\ call[c].op = "revokeAll" /\ call[c].user = owner[p]
              /\ call[c].at <= iat[p] /\ call[c].at < lastRevoke[owner[p]]
              /\ call'[c] = Idle /\ lastRevoke'[owner[p]] = now]_vars

(***************************************************************************)
(* The store keeps the promises of SessionRegistry.                        *)
(***************************************************************************)
PendingPairs == {p \in Pairs : \E c \in Callers : call[c] = Storing(p)}
LivePairs == {p \in Pairs : RefreshActive(p)}
AcceptedPairs == {p \in Pairs : AccessAccepted(p)}

Registry == INSTANCE SessionRegistry WITH
  pending <- PendingPairs,
  live <- LivePairs,
  cutoff <- lastRevoke,
  accepted <- AcceptedPairs,
  Blur <- RedisDelay

\* Refresh tokens end by revocation or expiry and never come back; access
\* tokens change status only as SessionRegistry lets them.
ImplementsRegistry == Registry!Spec

(***************************************************************************)
(* What the comments of session.go and the README say of a revocation.     *)
(***************************************************************************)
\* README: the per-user revocation epoch "invalidates every token issued before
\* it".  So a token that one revocation has invalidated stays invalid.
InvalidForGood ==
  [][\A p \in Pairs : Minted(p) /\ ~AccessAccepted(p) => ~AccessAccepted(p)']_vars

\* docs/openapi.yaml:217, a revocation "invalidates outstanding access tokens", and
\* session.go:166, "Tokens minted at or before the epoch second are rejected; the token
\* was issued in the same second the user revoked everything, so err safe": a token
\* that was there when the revocation took effect is refused.
OutstandingRefused == \A p \in recalled : ~AccessAccepted(p)
=============================================================================

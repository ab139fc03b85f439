-------------------------- MODULE SessionRegistry --------------------------
(***************************************************************************)
(* What the session store of wordotron promises, with no Redis keys in it. *)
(*                                                                         *)
(* A token pair is issued once, to one user, at one second.  Its refresh   *)
(* half is pending until it is registered, is live from then on, and ends  *)
(* for good when it is revoked, when all sessions of its user are revoked, *)
(* or when it expires: nothing else may end it.  Its access half is        *)
(* accepted from its issue until it expires or is denied, except that a    *)
(* revocation of all sessions of its user decides anew which of the user's *)
(* tokens are accepted, between two bounds: that is all a per-user epoch   *)
(* of one-second granularity, read before it is written, can promise about *)
(* a token issued close to the revocation.                                 *)
(***************************************************************************)
EXTENDS Integers

CONSTANTS Users, NoUser, Pairs, AccessTTL, RefreshTTL,
          Blur     \* how many seconds before a revocation are undecided

VARIABLES now,       \* the clock, in seconds
          owner,     \* owner[p]: the user pair p was issued to, or NoUser
          iat,       \* iat[p]: the second pair p was issued in
          pending,   \* the pairs issued and not registered yet
          live,      \* the pairs whose refresh token is usable
          cutoff,    \* cutoff[u]: the second of u's last revocation, or 0
          recalled,  \* the pairs that were there when their user's were revoked
          denied,    \* the pairs whose access token was revoked by itself
          accepted   \* the pairs whose access token passes authentication

vars == <<now, owner, iat, pending, live, cutoff, recalled, denied, accepted>>

PairsOf(u) == {p \in Pairs : owner[p] = u}

\* Issued access tokens the clock and the single revocations leave alone.
Unrefused == {p \in Pairs : /\ owner[p] \in Users
                            /\ p \notin denied
                            /\ now < iat[p] + AccessTTL}

\* No token issued after the last revocation of its user is refused.
MustAccept == Unrefused \ recalled

\* No token issued more than Blur seconds before that revocation is accepted.
MayAccept == {p \in Unrefused : cutoff[owner[p]] <= iat[p] + Blur}

Bounded == MustAccept \subseteq accepted /\ accepted \subseteq MayAccept

Init == /\ now = 1
        /\ owner = [p \in Pairs |-> NoUser]
        /\ iat = [p \in Pairs |-> 0]
        /\ pending = {}
        /\ live = {}
        /\ cutoff = [u \in Users |-> 0]
        /\ recalled = {}
        /\ denied = {}
        /\ accepted = {}

Issue(p, u) ==
  /\ owner[p] = NoUser
  /\ owner' = [owner EXCEPT ![p] = u]
  /\ iat' = [iat EXCEPT ![p] = now]
  /\ pending' = pending \cup {p}
  /\ accepted' = accepted \cup {p}
  /\ UNCHANGED <<now, live, cutoff, recalled, denied>>

Register(p) ==
  /\ p \in pending
  /\ pending' = pending \ {p}
  /\ live' = IF now < iat[p] + RefreshTTL THEN live \cup {p} ELSE live
  /\ UNCHANGED <<now, owner, iat, cutoff, recalled, denied, accepted>>

Abandon(p) ==
  /\ p \in pending
  /\ pending' = pending \ {p}
  /\ UNCHANGED <<now, owner, iat, live, cutoff, recalled, denied, accepted>>

Revoke(p) ==
  /\ p \in live
  /\ live' = live \ {p}
  /\ UNCHANGED <<now, owner, iat, pending, cutoff, recalled, denied, accepted>>

RevokeAll(u) ==
  /\ live' = live \ PairsOf(u)
  /\ cutoff' = [cutoff EXCEPT ![u] = now]
  /\ recalled' = recalled \cup PairsOf(u)
  /\ accepted' \ PairsOf(u) = accepted \ PairsOf(u)
  /\ Bounded'
  /\ UNCHANGED <<now, owner, iat, pending, denied>>

Deny(p) ==
  /\ owner[p] \in Users
  /\ denied' = denied \cup {p}
  /\ accepted' = accepted \ {p}
  /\ UNCHANGED <<now, owner, iat, pending, live, cutoff, recalled>>

\* All that the passing of time may do is to make tokens expire.
Tick ==
  /\ now' = now + 1
  /\ live' = {p \in live : now' < iat[p] + RefreshTTL}
  /\ accepted' = {p \in accepted : now' < iat[p] + AccessTTL}
  /\ UNCHANGED <<owner, iat, pending, cutoff, recalled, denied>>

Next ==
  \/ \E p \in Pairs : \/ \E u \in Users : Issue(p, u)
                      \/ Register(p)
                      \/ Abandon(p)
                      \/ Revoke(p)
                      \/ Deny(p)
  \/ \E u \in Users : RevokeAll(u)
  \/ Tick

Spec == Init /\ [][Next]_vars
=============================================================================

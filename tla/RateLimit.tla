----------------------------- MODULE RateLimit -----------------------------
(***************************************************************************)
(* One rule of src/app/middleware/ratelimit.go: fixed windows counted in   *)
(* Redis.  The rules of the program differ in their key prefix, so each is *)
(* by itself.  A caller reads the clock, and its MULTI runs later.         *)
(*                                                                         *)
(* Windows and ttls are in whole seconds, keys die in between: the clock   *)
(* counts ticks, so many to a second.                                      *)
(***************************************************************************)
EXTENDS Integers

CONSTANTS
  Identities,
  Second,   \* ticks of the clock to a second
  Window,   \* seconds, cfg.Window
  Max,      \* cfg.Max
  MaxTime   \* bound: the clock stops here

VARIABLES
  now,
  counter, dies,  \* the keys: value, 0 when there is none, and expiry
  admitted,       \* history: requests a count let through within the window
  muddled         \* history: keys counted for nothing, or too late

Period == Window * Second
WindowAt(t) == t \div Period
Keys == Identities \X (0..WindowAt(MaxTime))
KeyOf(id) == <<id, WindowAt(now)>>

Init ==
  /\ now = 0
  /\ counter = [k \in Keys |-> 0]
  /\ dies = [k \in Keys |-> 0]
  /\ admitted = [k \in Keys |-> 0]
  /\ muddled = {}

\* EXPIRE key window NX.
\* (mutant) Without NX: every hit arms it again.
Expiry_Rearm(k) == now + Period
Expiry(k) == IF counter[k] = 0 THEN now + Period ELSE dies[k]

\* incrementWindow: INCR, EXPIRE NX and TTL.
Increment(k) ==
  /\ counter' = [counter EXCEPT ![k] = @ + 1]
  /\ dies' = [dies EXCEPT ![k] = Expiry(k)]

Count(k) == counter[k] + 1

\* What TTL answers: the time that is left, to the nearest second.
RetryAfter(k) == (Expiry(k) - now + Second \div 2) \div Second

\* (mutant) One more than Max gets through.
Over_ByOne(k) == Count(k) > Max + 1
Over(k) == Count(k) > Max

\* A request that is counted, and goes on or is refused.
Admit(k) ==
  /\ ~ Over(k)
  /\ Increment(k)
  /\ \/ /\ WindowAt(now) = k[2]
        /\ admitted' = [admitted EXCEPT ![k] = @ + 1]
        /\ UNCHANGED muddled
     \/ /\ WindowAt(now) # k[2]
        /\ muddled' = muddled \cup {k}
        /\ UNCHANGED admitted
  /\ UNCHANGED now

Refuse(k) ==
  /\ Over(k)
  /\ Increment(k)
  /\ UNCHANGED <<now, admitted, muddled>>

\* The MULTI has run and its answer is lost: an error to the caller.
LoseAnswer(k) ==
  /\ Increment(k)
  /\ muddled' = muddled \cup {k}
  /\ UNCHANGED <<now, admitted>>

Tick ==
  /\ now < MaxTime
  /\ now' = now + 1
  /\ counter' = [k \in Keys |-> IF dies[k] <= now' THEN 0 ELSE counter[k]]
  /\ dies' = [k \in Keys |-> IF dies[k] <= now' THEN 0 ELSE dies[k]]
  /\ UNCHANGED <<admitted, muddled>>

TypeOK ==
  /\ now \in 0..MaxTime
  /\ counter \in [Keys -> Nat] /\ dies \in [Keys -> Nat]
  /\ admitted \in [Keys -> Nat] /\ muddled \subseteq Keys

\* ratelimit.go:29, "a fixed-window counter ... shared across every replica": of the
\* requests of one identity in one window at most Max get through by being
\* counted within it, although the key dies by itself.
AtMostMax == \A k \in Keys : admitted[k] <= Max

\* ratelimit.go:87, "re-arming it on every hit would let a steady stream of requests
\* extend the window indefinitely": the moment a refused caller of key k was told to
\* come back at is the one the key dies at, to half a second either way, whatever is
\* counted later, and at most half a second before the window of the clock is over.
\* Max others got through before.  (Not so for a key that a lost answer or a straggler
\* has counted.)
TellsReset(k, moment) ==
  \/ k \in muddled
  \/ /\ 2 * ((k[2] + 1) * Period - moment) < Second
     /\ counter[k] # 0 =>
          2 * (dies[k] - moment) < Second /\ 2 * (moment - dies[k]) <= Second
     /\ admitted[k] >= Max
=============================================================================

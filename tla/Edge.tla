-------------------------------- MODULE Edge --------------------------------
(***************************************************************************)
(* Requests from the listener to the last access they make, in processes   *)
(* that start and shut down and behind a rate limiter they share: the      *)
(* middleware stack of src/app/server/server.go over RateLimit and         *)
(* Lifecycle.                                                              *)
(*                                                                         *)
(* The handler stands for those that commit a change and then revoke       *)
(* sessions (ResetPassword, Update): "work" takes a connection of the      *)
(* pool, "commit" gives it back, "revoke" needs Redis.  What it revokes is *)
(* in AuthFlows.                                                           *)
(***************************************************************************)
EXTENDS Integers

CONSTANTS
  Processes, NoProcess, Requests,
  Identities, NoKey, Second, Window, Max, MaxTime,
  MaxCount,      \* bound: requests stop when their key has counted so many
  AllowFailures  \* whether Redis may fail and processes be killed

VARIABLES
  phase, listener, signalled, undrained,
  now, counter, dies, admitted, muddled,
  pc,       \* pc[r]: what the request does next
  at, key,  \* at[r], key[r]: its process, and its counter
  retryAt,  \* retryAt[r]: when a refused request was told to come back
  forced,   \* history: run() has closed things undrained, or a failure occurred
  lost      \* history: a change was committed and its revocation not made

L == INSTANCE Lifecycle
R == INSTANCE RateLimit

lifecycleVars == <<phase, listener, signalled, undrained>>
limitVars == <<now, counter, dies, admitted, muddled>>
requestVars == <<pc, at, key, retryAt>>
vars == <<lifecycleVars, limitVars, requestVars, forced, lost>>

ASSUME EdgeAssumption ==
  /\ NoProcess \notin Processes
  /\ Second \in Nat \ {0} /\ Window \in Nat \ {0} /\ Max \in Nat \ {0}
  /\ MaxTime \in Nat /\ MaxCount \in Nat
  /\ AllowFailures \in BOOLEAN

Busy(p) == \E r \in Requests : at[r] = p
Connected(p) == \E r \in Requests : at[r] = p /\ pc[r] = "commit"

-----------------------------------------------------------------------------
Init ==
  /\ L!Init /\ R!Init
  /\ pc = [r \in Requests |-> "idle"]
  /\ at = [r \in Requests |-> NoProcess]
  /\ key = [r \in Requests |-> NoKey]
  /\ retryAt = [r \in Requests |-> 0]
  /\ forced = FALSE /\ lost = FALSE

Goto(r, label) ==
  /\ pc' = [pc EXCEPT ![r] = label]
  /\ UNCHANGED <<at, key, retryAt>>

Finish(rs) ==
  /\ pc' = [r \in Requests |-> IF r \in rs THEN "idle" ELSE pc[r]]
  /\ at' = [r \in Requests |-> IF r \in rs THEN NoProcess ELSE at[r]]
  /\ key' = [r \in Requests |-> IF r \in rs THEN NoKey ELSE key[r]]
  /\ retryAt' = [r \in Requests |-> IF r \in rs THEN 0 ELSE retryAt[r]]

\* The limiter reads the clock for the name of the key.
Accept(r, p, id) ==
  /\ pc[r] = "idle" /\ L!Accepting(p)
  /\ counter[R!KeyOf(id)] < MaxCount
  /\ pc' = [pc EXCEPT ![r] = "limit"]
  /\ at' = [at EXCEPT ![r] = p]
  /\ key' = [key EXCEPT ![r] = R!KeyOf(id)]
  /\ UNCHANGED <<retryAt, lifecycleVars, limitVars, forced, lost>>

Limit(r) ==
  /\ pc[r] = "limit" /\ L!RedisUsable(at[r])
  /\ \/ R!Admit(key[r]) /\ Goto(r, "work")
     \/ /\ R!Refuse(key[r])
        /\ pc' = [pc EXCEPT ![r] = "refused"]
        /\ retryAt' = [retryAt EXCEPT ![r] = now + Second * R!RetryAfter(key[r])]
        /\ UNCHANGED <<at, key>>
  /\ UNCHANGED <<lifecycleVars, forced, lost>>

\* An error, when Redis fails or has been closed: the request goes on.  It may have
\* been counted.
FailOpen(r) ==
  /\ pc[r] = "limit"
  /\ \/ AllowFailures /\ L!RedisUsable(at[r]) /\ R!LoseAnswer(key[r])
     \/ (AllowFailures \/ ~ L!RedisUsable(at[r])) /\ UNCHANGED limitVars
  /\ Goto(r, "work")
  /\ forced' = (forced \/ L!RedisUsable(at[r]))
  /\ UNCHANGED <<lifecycleVars, lost>>

Refused(r) ==
  /\ pc[r] = "refused"
  /\ Finish({r})
  /\ UNCHANGED <<lifecycleVars, limitVars, forced, lost>>

\* pool.Acquire, an error once the pool is closed.
Work(r) ==
  /\ pc[r] = "work"
  /\ IF L!PoolUsable(at[r]) THEN Goto(r, "commit") ELSE Finish({r})
  /\ UNCHANGED <<lifecycleVars, limitVars, forced, lost>>

Commit(r) ==
  /\ pc[r] = "commit"
  /\ Goto(r, "revoke") \/ Finish({r})
  /\ UNCHANGED <<lifecycleVars, limitVars, forced, lost>>

\* A revocation that fails is logged.
Revoke(r) ==
  /\ pc[r] = "revoke"
  /\ \/ L!RedisUsable(at[r]) /\ UNCHANGED <<forced, lost>>
     \/ /\ AllowFailures \/ ~ L!RedisUsable(at[r])
        /\ lost' = TRUE
        /\ forced' = (forced \/ L!RedisUsable(at[r]))
  /\ Finish({r})
  /\ UNCHANGED <<lifecycleVars, limitVars>>

-----------------------------------------------------------------------------
\* Goroutines that the end of the process cuts off.
\* (mutant) They are left.
Cut_Leave(p) ==
  /\ UNCHANGED requestVars
  /\ lost' = (lost \/ \E r \in Requests : at[r] = p /\ pc[r] = "revoke")
Cut(p) ==
  /\ Finish({r \in Requests : at[r] = p})
  /\ lost' = (lost \/ \E r \in Requests : at[r] = p /\ pc[r] = "revoke")

Run(p) ==
  \/ /\ \/ L!Start(p) \/ L!BeginShutdown(p)
        \/ L!Drained(p, Busy(p)) \/ L!CloseRedis(p)
        \/ signalled[p] /\ L!FailStart(p)
     /\ UNCHANGED <<requestVars, forced, lost>>
  \/ L!ServerErr(p) /\ forced' = TRUE /\ UNCHANGED <<requestVars, lost>>
  \/ L!ClosePool(p, Connected(p)) /\ Cut(p) /\ UNCHANGED forced

\* The timer of the shutdown's context.
Timer(p) == L!TimeOut(p) /\ forced' = TRUE /\ UNCHANGED <<requestVars, lost>>

Interrupt(p) ==
  \/ /\ L!Signal(p) \/ L!FailStart(p) \/ L!FailListen(p)
     /\ UNCHANGED <<requestVars, forced, lost>>
  \/ /\ L!Listen(p)
     /\ forced' = (forced \/ undrained'[p])
     /\ UNCHANGED <<requestVars, lost>>
  \/ L!FailShutdown(p) /\ forced' = TRUE /\ UNCHANGED <<requestVars, lost>>
  \/ /\ AllowFailures  \* SIGKILL
     /\ phase[p] # "down"
     /\ L!Exit(p) /\ Cut(p) /\ forced' = TRUE

Serve(r) ==
  \/ Limit(r) \/ FailOpen(r) \/ Refused(r) \/ Work(r) \/ Commit(r) \/ Revoke(r)

Next ==
  \/ \E r \in Requests :
       \/ Serve(r)
       \/ \E p \in Processes, id \in Identities : Accept(r, p, id)
  \/ \E p \in Processes : (Run(p) \/ Timer(p) \/ Interrupt(p)) /\ UNCHANGED limitVars
  \/ R!Tick /\ UNCHANGED <<lifecycleVars, requestVars, forced, lost>>

Spec == Init /\ [][Next]_vars

\* run() goes on, and the timer fires.  A request need not: nothing ends its context.
FairSpec ==
  /\ Spec
  /\ \A p \in Processes :
       /\ WF_vars(Run(p) /\ UNCHANGED limitVars)
       /\ WF_vars(Timer(p) /\ UNCHANGED limitVars)

-----------------------------------------------------------------------------
TypeOK ==
  /\ L!TypeOK /\ R!TypeOK
  /\ pc \in [Requests -> {"idle", "limit", "refused", "work", "commit", "revoke"}]
  /\ at \in [Requests -> Processes \cup {NoProcess}]
  /\ key \in [Requests -> R!Keys \cup {NoKey}]
  /\ retryAt \in [Requests -> Nat]
  /\ forced \in BOOLEAN /\ lost \in BOOLEAN
  /\ \A r \in Requests : at[r] # NoProcess => phase[at[r]] \notin {"down", "pool", "redis"}

\* RateLimit's, of the requests that pass through here.
AtMostMax == R!AtMostMax

\* Retry-After and X-RateLimit-Reset, ratelimit.go:71-74: a refused caller was told the
\* second at which its key dies, however many were counted after it, and Max others got
\* through.
RetryWhenReset ==
  \A r \in Requests : pc[r] = "refused" => R!TellsReset(key[r], retryAt[r])

\* app_main.go:151, "let in-flight requests finish": nothing is closed under a request
\* unless run() went on without a drain (its timeout, an error of the listener, a
\* listener that opened after the signal), and the revocation that follows a commit is
\* only missing after one of these, a kill or a failure of Redis.
ShutdownIsGraceful ==
  /\ \A p \in Processes :
       phase[p] \in {"drained", "closingPool"} /\ Busy(p) => undrained[p]
  /\ lost => forced

\* "closing anyway", app_main.go:157: requests that never end do not keep a process from
\* ending when it is told to, but for a statement that never gives its connection back,
\* for which pool.Close waits.
OnlyStatementsHoldUp ==
  \A p \in Processes :
    <>[] signalled[p] => <>[] (phase[p] = "closingPool" /\ Connected(p))
=============================================================================

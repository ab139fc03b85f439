----------------------------- MODULE Lifecycle -----------------------------
(***************************************************************************)
(* A process of the API from run() to its exit: src/cmd/app_main.go.  What *)
(* run() has opened it closes in the reverse order, by defer.  Requests    *)
(* are known here only by whether any is under way, or holds a connection  *)
(* of the pool.                                                            *)
(***************************************************************************)
CONSTANT Processes

VARIABLES
  phase,     \* where run() is
  listener,  \* the goroutine of app.Listen, and its socket
  signalled, \* SIGTERM has come: ctx is cancelled
  undrained  \* run() has gone on to close things and not waited for requests

\* "down", then NewPostgres, NewRedis, the select; from "drained" on, the defers.
Phases == {"down", "pool", "redis", "serving", "draining", "drained", "closingPool"}
Listeners == {"none", "opening", "open", "closed"}

Accepting(p) == listener[p] = "open"
RedisUsable(p) == phase[p] \in {"redis", "serving", "draining", "drained"}
PoolUsable(p) == RedisUsable(p) \/ phase[p] = "pool"

Init ==
  /\ phase = [p \in Processes |-> "down"]
  /\ listener = [p \in Processes |-> "none"]
  /\ signalled = [p \in Processes |-> FALSE]
  /\ undrained = [p \in Processes |-> FALSE]

Move(p, from, to) ==
  /\ phase[p] = from
  /\ phase' = [phase EXCEPT ![p] = to]

Listening(p, state) == listener' = [listener EXCEPT ![p] = state]

\* NewPostgres and NewRedis ping with ctx, and fail once it is cancelled; a
\* failure closes what is open and ends the process.
Start(p) ==
  /\ \/ Move(p, "down", "pool") /\ ~ signalled[p] /\ UNCHANGED listener
     \/ Move(p, "pool", "redis") /\ ~ signalled[p] /\ UNCHANGED listener
     \/ Move(p, "redis", "serving") /\ Listening(p, "opening")
  /\ UNCHANGED <<signalled, undrained>>

Exit(p) ==
  /\ phase' = [phase EXCEPT ![p] = "down"]
  /\ Listening(p, "none")
  /\ signalled' = [signalled EXCEPT ![p] = FALSE]
  /\ undrained' = [undrained EXCEPT ![p] = FALSE]

\* A connection or the storage fails, before there is a listener.
FailStart(p) ==
  /\ phase[p] \in {"pool", "redis"}
  /\ Exit(p)

\* The goroutine gets its socket, maybe when run() has already seen the signal.
Listen(p) ==
  /\ listener[p] = "opening"
  /\ Listening(p, "open")
  /\ undrained' = [undrained EXCEPT ![p] = @ \/ phase[p] # "serving"]
  /\ UNCHANGED <<phase, signalled>>

\* The address is taken, or accepting fails later on: an error for serverErr.
FailListen(p) ==
  /\ listener[p] \in {"opening", "open"}
  /\ Listening(p, "closed")
  /\ UNCHANGED <<phase, signalled, undrained>>

Signal(p) ==
  /\ phase[p] # "down"
  /\ signalled' = [signalled EXCEPT ![p] = TRUE]
  /\ UNCHANGED <<phase, listener, undrained>>

\* case err := <-serverErr: run() returns at once.
ServerErr(p) ==
  /\ listener[p] = "closed"
  /\ Move(p, "serving", "drained")
  /\ undrained' = [undrained EXCEPT ![p] = TRUE]
  /\ UNCHANGED <<listener, signalled>>

\* case <-ctx.Done(): ShutdownWithContext closes the socket and waits; without
\* one it has nothing to wait for.
BeginShutdown(p) ==
  /\ signalled[p]
  /\ \/ Move(p, "serving", "draining") /\ listener[p] # "opening" /\ Listening(p, "closed")
     \/ Move(p, "serving", "drained") /\ listener[p] = "opening" /\ UNCHANGED listener
  /\ UNCHANGED <<signalled, undrained>>

\* Closing the socket is an error, and "shutdown: %w" the end.
FailShutdown(p) ==
  /\ signalled[p] /\ listener[p] # "opening"
  /\ Move(p, "serving", "drained")
  /\ Listening(p, "closed")
  /\ undrained' = [undrained EXCEPT ![p] = TRUE]
  /\ UNCHANGED signalled

\* (mutant) The shutdown returns without waiting for requests.
Drained_Early(p, busy) ==
  /\ Move(p, "draining", "drained")
  /\ UNCHANGED <<listener, signalled, undrained>>
Drained(p, busy) ==
  /\ ~ busy
  /\ Move(p, "draining", "drained")
  /\ UNCHANGED <<listener, signalled, undrained>>

\* DeadlineExceeded: "closing anyway".
\* (mutant) A context without a deadline.
TimeOut_Never(p) ==
  /\ phase[p] \notin Phases
  /\ UNCHANGED <<phase, listener, signalled, undrained>>
TimeOut(p) ==
  /\ Move(p, "draining", "drained")
  /\ undrained' = [undrained EXCEPT ![p] = TRUE]
  /\ UNCHANGED <<listener, signalled>>

\* The deferred redisClient.Close().
CloseRedis(p) ==
  /\ Move(p, "drained", "closingPool")
  /\ UNCHANGED <<listener, signalled, undrained>>

\* The deferred pool.Close() waits for the connections in use; run() returns.
ClosePool(p, connected) ==
  /\ phase[p] = "closingPool"
  /\ ~ connected
  /\ Exit(p)

TypeOK ==
  /\ phase \in [Processes -> Phases]
  /\ listener \in [Processes -> Listeners]
  /\ signalled \in [Processes -> BOOLEAN]
  /\ undrained \in [Processes -> BOOLEAN]
=============================================================================

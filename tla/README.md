# A verification of wordotron

TLA+ specifications of the wordotron API, the TLC configurations that check them
on small instances, and TLAPS proofs. Source references are to this repository
(`src/app/services/auth.go:207` is line 207 of that file); `PROJECT.json` maps
every definition to the lines it models.

## The system

wordotron is a stateless HTTP API (Go, Fiber) over Postgres and Redis. Every
request runs in a goroutine of its own, on any of several replicas; all state
that requests share is in Postgres rows, Redis keys and stored files.

| component | state | operations | how it interacts |
|---|---|---|---|
| Session store (`lib/auth/session.go`) | Redis, per user: hash `auth:sessions:<u>` of refresh jtis, `auth:revoked:<u>` epoch; per access token: `auth:blacklist:<jti>`; each with a time to live | StoreRefreshToken, IsRefreshTokenActive, RevokeRefreshToken, RevokeAllSessions, BlacklistAccessToken, IsAccessTokenValid, ActiveSessionCount | called by the auth and user services and by the authentication middleware |
| JWT manager (`lib/auth/jwt.go`) | none; tokens carry user, role, iat, exp, jti | GenerateTokenPair, ParseAccessToken, ParseRefreshToken | auth service, middleware |
| Authentication (`middleware/auth.go`) | none | Authenticate, RequireRoles | JWT manager, session store |
| Auth service (`services/auth.go`) | rows `users`, `password_reset_tokens`, `email_verification_tokens` | Register, VerifyEmail, Login, Refresh, Logout, LogoutAll, ChangePassword, ForgotPassword, ResetPassword | repositories, session store, mail outside the request's result |
| User service (`services/user.go`) | `users`, stored avatars | Create, Get, List, Update, Delete, UploadAvatar | repositories, session store, storage |
| Word service (`services/word.go`) | `words`, `word_senses` | CreateAndEnrich, Get, List | repositories, dictionary client |
| User words (`sql/queries/user_words.sql`) | `user_words`: Leitner boxes, counters | queries without Go callers so far | foreign keys to users and words |
| Store (`repository/store.go`, `lib/wordotronDb.go`) | a pool; transactions | WithTx, InTx | all repositories |
| Rate limiter (`middleware/ratelimit.go`) | Redis counters per identity and window | RateLimit, incrementWindow | in front of every route, once more in front of the credential routes |
| Pagination (`models/pagination.go`) | none | Normalize, Offset, NewPageMeta | user and word lists |
| Storage (`lib/storage/`) | files or objects | Put, Get, Delete, Exists | user service, file handler |
| OAuth (`lib/auth/oauth_state.go`, `google.go`) | signed state tokens | issue and parse state; Google's endpoints | not routed yet |
| Lifecycle (`cmd/app_main.go`, `server/`, `lib/heartbeat.go`) | process | start, serve, graceful shutdown, heartbeat | everything |
| Configuration, logging, validation, serializers, handlers | none | decode, validate, encode | everything |

What is hard in it:

* *A use case is several commands to two databases with nothing around them.*
  Login compares a password, and registers a session later; a reset commits a new
  password, and revokes the sessions later. Requests interleave in between, and
  any of them may die there.
* *Time is in whole seconds* in `iat` and in the revocation epoch, and is read
  before it is written.
* *Redis keys end by themselves*: refresh tokens, epochs and blacklist entries are
  only safe to forget when what they refuse or allow has expired.
* *Postgres runs at READ COMMITTED*: a statement that waited for a row looks at it
  again, an earlier read does not.
* *Opposite lock orders*: consuming a link locks link, then account; deleting an
  account locks the account, then its links by the cascade.

What makes each part correct: the session store keeps a refresh token usable
until it is revoked or expires and no longer, and refuses revoked access tokens;
the auth and user services end the sessions a change of the account outdates,
rotate each refresh token out for good and give no session to an unverified
account; links have their effect once, together with being marked used, and
never when superseded; the rate limiter admits at most its maximum per window;
pages partition a list; a stored avatar is the one the row names.
`PROJECT.json`, "hazards", lists where each of these could go wrong.

## The modules

### SessionRegistry

What a session store promises, without keys: pairs are issued, registered,
revoked alone or with all of their user, denied, and expire. `RevokeAll` leaves
it open which tokens issued shortly before it are refused (`Bounded`): the code
writes an epoch of one-second granularity that it has read from the clock
earlier (`Blur` seconds at most), one second back.

### SessionStore

`session.go` and the claims of `jwt.go`. One action per Redis command or MULTI.
What the code computes before a command is in `call[c]` until the command takes
effect, so callers interleave: the pair between GenerateTokenPair and
StoreRefreshToken, the epoch between reading the clock and the MULTI of
RevokeAllSessions, the ttl between Logout's `time.Until` and the SET.

| code | specification |
|---|---|
| `auth:sessions:<u>` and its ttl | `sessions[u]`, `hashDies[u]` |
| `auth:revoked:<u>` and its ttl | `epoch[u]`, `epochDies[u]` |
| `auth:blacklist:<jti>` | `blacklist[p]`, the second it dies |
| claims sub, iat | `owner[p]`, `iat[p]` |
| RevokeAllSessions | `RevokeAllRead`, `RevokeAllSessions` |
| Logout's ttl and BlacklistAccessToken | `BlacklistRead`, `BlacklistAccessToken` |
| key expiry | `ExpireKeys`, in `Tick` |
| a command that never takes effect | `Fail` |

`lastRevoke`, `denied` and `recalled` (the pairs that were there when a revocation of
their user took effect) are history. FreshNotRefused is about the pairs that are not
recalled: the ones minted after the last revocation. What a recalled one may still do
is in RevocationHolds, RevalidatedByOverlap and, for its last second, in the second
finding below. Assumptions: all replicas and Redis share
one clock; a MULTI takes effect at most `RedisDelay` seconds after its caller
read the clock (the client's timeouts bound it; the constant is arbitrary); jtis
are unique; signatures cannot be forged; values in Redis are the ones the code
wrote. IsRefreshTokenActive's HGET and its HDEL of an expired field are one
step: nothing writes that field again. The two reads of IsAccessTokenValid are
one step too. `Grace` is the hour by which keys outlive refresh tokens.

### AuthFlows

The requests that issue, rotate and revoke sessions, composed with SessionStore
by `INSTANCE`: a request is one of its callers. `pc[r]` names the next access
to Postgres or Redis and `loc[r]` what the request has read. `user[u]` is the
row; a password is the number `cred` of passwords the account has had. `Arrive`
starts a request, `Step` continues it, `Abort` is a crash, a cancelled request
or an error of a database. A request refused before it has changed anything
takes no step.

`origin[p]` (history) records for each registered pair the password and role it
was granted on, the pair it was rotated from, and whether the request or the
session behind it was under way when a revocation of its user ran (`tainted`).
`unrevoked` (history) holds users whose last revocation was given up.
Administrators are outside `Users`, so nobody's own session stops an update. A
command a request has given up on is not executed later. VerifyEmail and
ResetPassword start where their links have been consumed; that part is in
SingleUseLinks.

### SingleUseLinks

Register, Create, VerifyEmail, ForgotPassword, ResetPassword and Delete on accounts
and links, one SQL statement per step, or one row of a statement that locks several,
as Postgres does at READ COMMITTED. A transaction's uncommitted rows are the ones it
has locked (`held`), and its last step commits. A step that needs a locked row is
not enabled (`LinkFree`, `AccountFree`); `WaitsFor` and `Deadlocked` describe what
Postgres' deadlock detection sees, and `DeadlockVictim` is the rollback it picks.
`NobodyIsStuck` is progress as an invariant: whoever waits, waits for a request that
can go on or for one of a circle. Reset and verification links are the same code
twice and share actions; `kind` tells them apart. An address is not registered again
after its account was deleted, and all accounts are active.

### LinkRegistry

What those transactions promise, without rows, locks, snapshots or statements: a
request comes in for a link it presents, or for the reset links it is to replace, and
then takes effect in one step or not at all. The redemption finds the link open and the
account present, marks the one and changes the other; the replacement spends the links
it came in for and inserts its own; the removal of an account takes its links along.
What a request asks for is read off its label (`Asked` in SingleUseLinks): it is the
link, or the links, in the request's locals until the request has committed. A link may
be inserted with an expiry in the past, because the code reads the clock before the
INSERT; and a replacement may or may not spend links that were inserted while it ran,
because at READ COMMITTED its UPDATE may have missed them.

### Avatars

UploadAvatar, Delete and the file storage. The row and the file live in different
systems, so an upload is Put, `UpdateRow`, then `DropOld`, or `Undo` after an error;
each is one step, and may fail before or after it has acted. `loc[r].old` is the
URL that GetByID read at the start and that the code deletes at the end
(user.go:265). `avatar[u]` is `avatar_url`; `Elsewhere` is any URL outside
PublicBaseURL, which keyFromURL leaves alone. `SetUserAvatarIfEmpty` is the
statement a sign-in with a provider would make; it has no caller yet, and competes
with uploads here because its comment promises something about them.

History: `doubted` has the keys whose UPDATE committed without an answer; the code
cannot tell that from an UPDATE that failed and removes the file. `excused` has the
users whose requests overlapped or did not finish. RowNamesFile needs the first
exception only, NoOrphans the second: two concurrent uploads do leave a file that
nothing names.

### Pagination, WordCatalogue, StudyList, Vocabulary

`Pagination` has the arithmetic of `models/pagination.go` and the conversion to
int32 in the repositories. `WordCatalogue` has CreateAndEnrich, Get and List one
statement per step: the lookup, the call of the model, the transaction's INSERTs
and its COMMIT, Get's reread; rows, total and senses of a list. Uncommitted rows are
in `loc[r]`; the entry of an uncommitted word in the unique index makes others wait
(`TermLocked`), its foreign key keeps the creator's row (`UserLocked`). `contributor`
and `drafted` are history: who added a word, and from which answer.

`StudyList` has the statements of `user_words.sql`, each one step. A due date is the
number of days after the review that it was set to, with `due` when it has passed.
No Go code calls these queries yet, so the order of calls is arbitrary.
`Vocabulary` joins both by the foreign keys and the deletion of users: words stay
(SET NULL), study lists go (CASCADE).

### RateLimit, Lifecycle, Edge

`RateLimit` is one rule of the middleware: the window's number is part of the key,
INCR, EXPIRE NX and TTL are one MULTI, and the key dies `Window` seconds after its
first count. The clock counts ticks, `Second` of them to a second, because keys die in
between: TTL answers the time that is left rounded to the nearest second, so a caller
may be told to come back up to half a second before its key dies, or after.
A MULTI whose answer is lost is not sent again; the request has been counted and is let
through (`LoseAnswer`, failing open).

`Lifecycle` is run() of `cmd/app_main.go`: pool, Redis, storage, select, shutdown with
its timeout, and the deferred closes in reverse order. `listener[p]` is the goroutine of
app.Listen, which gets its socket, or fails to, when it likes, also after run() has seen
the signal. run() leaves the select in two ways: by the signal, to drain, or by serverErr,
to return at once. `undrained[p]` says that it has gone on to the closes without waiting
for requests: after serverErr, a shutdown that timed out or failed, or a listener that
opened when there was nothing left to shut it down.

`Edge` composes the two around a request: the limiter (with failing open), a statement
on a connection of the pool, and a command to Redis after the commit, as ResetPassword
and Update make it. A process that ends cuts its requests off (`Cut`).

History: `admitted` counts the requests that were let through by a count within
their window; `muddled` has the keys counted without an answer or after their window;
`forced` is set with `undrained` and by a kill or a failure of Redis; `lost` by a
revocation that was not made.

## What TLC checks

No two users, accounts or keys share a row or a Redis key, so one or two of each
show what there is, and the proofs hold for any number of them. Two requests or
callers make every pairwise race; links need three (two consumers and the cascade or
the replacement). Clocks stop at `MaxTime`, passwords at `MaxCred`, counters at
`MaxCount`. At those bounds, and when all pairs, links, keys or terms have been used,
an instance has nothing left to do: that is why runs other than edge switch deadlock
checking off. That no request blocks for ever is an invariant of links_safety.

Symmetry is used where only invariants and action properties are checked: requests,
pairs, links, keys and users are named nowhere and compared only for equality.

| run | question | bounds |
|---|---|---|
| store_safety | do revocations hold, pairs minted after them work, blacklisted tokens stay refused, sessions survive until they expire; is the invariant of the proofs inductive on reachable states; is SessionRegistry implemented; what can make a refused token valid again? | 2 callers, 2 pairs, ttl 3 and 4 s, MULTI up to 1 s late, clock to 6: an access token, a refresh token and the epoch key issued first all expire within it |
| store_epoch_overwrite | *violated*: does a refused token stay refused? | overlapping revocations |
| store_outstanding | *violated*: does a revocation refuse every token there is? | 1 pair, minted in the second of the revocation |
| flows_sessions | do sessions of an old password end; does a rotated-out token stay dead; is a session ever given before verification? | every endpoint of AuthFlows but Update and Delete, 2 requests at once, any of them failing anywhere, one password change; access tokens die after a second |
| flows_updates | do role changes, deactivations and deletions end sessions, also against ChangePassword, which issues one; in the end also those a request under way has still handed out; does a replayed token drop every session? | 2 requests, no failures, clock stopped, under fairness |
| flows_reset_race | *violated*: is everyone with the old password logged out? | |
| flows_double_refresh | *violated*: is there one live session per exchanged token? | 3 pairs |
| links_safety | one effect per link, and both or neither; no grant to a deleted account; superseded links dead; a crash strands nobody; nobody waits for good; is each transaction one step, as LinkRegistry has it? | 3 requests, 3 links, links expire after a second |
| links_register_crash | *violated*: has every registered account been given a link? | 1 request |
| avatars | does the row name a file that is there; is no file left behind; does a provider's picture stay away from an uploaded one? | 2 requests, 2 users, 3 keys: an upload over a picture, beside another upload or a deletion; every access may fail or be the last |
| vocabulary | are words, answers, pages, study lists and their statistics whole and consistent; does vocabulary outlive its contributors? | 2 requests, 2 users, 2 terms, answers of no, good, blank and refused senses, pages of 1 and 2; int32 has 6 values, so that the page 4 asked for does wrap; one entry of a study list |
| edge | does the limit hold; is a refused client told when its key dies; does run() close nothing under a request it has waited for; what keeps it from ending? | 2 requests, 1 process that restarts, 2 windows of one second, 3 ticks each, so that the ttl is rounded both ways; Max 2 and up to 3 counts before a request comes in |

`OutdatedSessionsEnd` is the central property of AuthFlows: when no revocation
is outstanding for a user, a session granted on a password, role or activation
the account no longer has is gone, unless it descends from a request that was
under way when a revocation ran. The exception is not a convenience: it is
exactly what `flows_reset_race` finds, and without it the property is violated.
Properties whose runs have no failures are those that failures refute by design:
a crash in front of a revocation leaves the sessions, and the code only logs it.

What its two runs show of OutdatedSessionsEnd is about refresh tokens: access tokens die
after a second in the one, and the clock stands still in the other. Access tokens are the
store's part, which store_safety checks and FlowsKeepPromises carries over.

`AnswersWhole` says what the code does, for lists as well; a comment says otherwise of
them (below). `PagesPartition` is about `Offset` before its conversion to int32.
`NoOrphans` is about requests that run by themselves: files that overlapping or failed
ones leave behind are not ruled out by the code.

`NoRowsBeyondTotal` is about offsets an int32 can hold (`Representable`): page has no
upper bound, and beyond 2^31 rows the conversion shows rows of early pages or makes
the statement fail. OffsetConversion proves that the exception is exactly this, and
CountedPagesConvert that no page of a list of at most 2^31 rows falls under it.

`RevalidatedByOverlap` is the other side of the first finding below: it says what an
overlap of revocations takes to revalidate a token, and that nothing else does: no key
that dies, no single command that fails or runs twice.

### Fairness

AuthFlows assumes weak fairness of each request: a goroutine that can run runs,
and no step of it waits for another request. Edge assumes it of run() and of the timer
of the shutdown's context, and of nothing else: a request's context has no deadline
(requestid.go:38 adds a value to a background context) and there is no
statement_timeout, so a request may stay where it is. OnlyStatementsHoldUp therefore
has an exception, and it is the code's: pool.Close waits without a limit for a statement
that does not return. No fairness is assumed of the arrival of requests, of the clock,
of signals, of the listener or of failures. SingleUseLinks needs none: it is checked for
safety only.

### Findings

Five comments, tests or sentences of the docs say more than the code does, and a run
refutes each:

1. `store_epoch_overwrite`: of two overlapping revocations the older epoch may be
   written last and revalidate tokens (session.go:121).
2. `store_outstanding`: a token minted in the second of a revocation, before it, goes on
   being accepted until it expires: the epoch is the second before (session.go:117), and
   tests/integration/auth_flow_test.go:374-376 expects the opposite, as do
   session.go:166-167 and openapi.yaml:217.
3. `flows_reset_race`: a login that compared the old password before the reset
   registers its session after the revocation (auth.go:386). The same window
   exists for deactivations (user.go:186).
4. `flows_double_refresh`: two refreshes with one token both succeed, since the
   check and the deletion are two commands (auth.go:207, 231).
5. `links_register_crash`: Register's two inserts have no transaction around
   them; an account without a link can never be verified (auth.go:121, 138).

### Other divergences met while modelling

The modules follow the code here; no run is spent on them.

* "no longer registered indicates replay of a stolen credential" (auth.go:193-195): a
  token ended by a logout or a password change elsewhere raises the same alarm.
* "never rate limited away" (routes.go:44): the global limiter is an app.Use
  (server.go:103-112) and counts /health as well.
* "buckets authenticated callers by user ID" (ratelimit.go:105-106): the global limiter
  and those of login and refresh run before Authenticate and see the address only.
* "re-arming it on every hit would let a steady stream of requests extend the window"
  (ratelimit.go:87-88): the key carries the window's number, so it could not.
* Retry-After is "Seconds until the window resets" (openapi.yaml:939): it is the ttl of
  the key, which starts at its first count. So it may be nearly a window longer than
  the window of the clock runs, and, as Redis rounds it, half a second shorter.
* "sliding window per IP" (.env.example:97): the window is fixed, as ratelimit.go:29-35
  says, and twice the maximum passes around its boundary; AtMostMax is about one window.
* "graceful shutdown timed out, closing anyway" (app_main.go:157): pool.Close waits for a
  statement that does not return.
* "List returns a paginated, filtered page of words (senses not expanded)"
  (handlers/word.go:101), and Senses is "empty when listing words without expanding
  them" (models/word.go:63-64): services/word.go:168-173 attaches the senses to every
  word of a list, and AnswersWhole holds the code to that.
* "returns the existing row untouched" (user_words.sql:3): the ON CONFLICT update
  fires the trigger that sets updated_at.
* `sort=random` is accepted (handlers/word.go:18) and implemented in words.sql:45, but
  the generated query (words.sql.go:188-195) is older: the list is in id order.
* "skip rather than fail the whole word on one bad entry" (word.go:107-108) is true of an
  empty definition; one that is too long rolls all back.
* "A word reaching it is considered known" (models/user_word.go:31): an archived one
  stays archived.

## What is proved

TLAPS proves the following for any values of the constants that satisfy the
modules' assumptions. These are what the code or its configuration gives:
`StoreAssumption` and `FlowAssumption` (any times to live with `AccessTTL <
RefreshTTL`, which Config.Validate enforces; any `Grace`, `RedisDelay` and bounds),
`LinkAssumption`, `AvatarAssumption`, `CatalogueAssumption`, `VocabularyAssumption`,
`PaginationAssumption` and `EdgeAssumption` (distinct marker values, positive sizes,
finitely many terms).

| module | theorems |
|---|---|
| SessionStoreProofs | TypeCorrect, StoreInvariant, RevocationTheorem, FreshTheorem, DeniedTheorem, HashTheorem, RevalidationTheorem, and Refinement: the store implements SessionRegistry |
| AuthFlowsProofs | FlowTypeCorrect, VerifiedTheorem, RotatedOutTheorem, OutdatedTheorem, AlarmTheorem; FlowsRunStore, FlowsKeepPromises and FlowsImplementRegistry |
| SingleUseLinksProofs | LinkTypeCorrect, OneGrantTheorem, GrantFindsTheorem, SupersededTheorem, StrandedTheorem, DeadlockTheorem, and AtomicTheorem: the statements implement LinkRegistry |
| AvatarsProofs | AvatarTypeCorrect, RowNamesFileTheorem, NoOrphansTheorem, UploadedStaysTheorem |
| PaginationProofs | EveryRowHasAPage, NoRowTwice, NoEmptyPage, OffsetConversion, CountedPagesConvert, over DivisionLemmas |
| VocabularyProofs | TypeCorrect, ScheduleTheorem, WordsWhole, AnswersTheorem, VocabularyStaysTheorem, StatsTheorem, PagesTheorem, RowsTheorem |
| EdgeProofs | EdgeTypeCorrect, MaxTheorem, RetryTheorem, GracefulTheorem |

The properties are not inductive; what has to be added is where the argument is.

* **StoreInv.** Whether a token is refused depends on an epoch that a call under way
  may be about to overwrite with an older one, and that dies. `CallInv` bounds what a
  call under way carries: an epoch at most `RedisDelay` old, a ttl that still reaches
  the expiry of its token, a pair nobody else registers. `EpochInv` says the epoch
  lies within `RedisDelay + 1` seconds of the last revocation, or is gone, and then so
  is every token it refused, because keys live `RefreshTTL + Grace > AccessTTL`.
  `DeniedInv` says the same of blacklist entries, `SessionsInv` of the hash. For the
  refinement, registering, revoking and ticking map to the registry's actions, a
  caller's reads to stuttering, and `RevokeAllSessions` to `RevokeAll`, whose bounds
  are what `EpochInv` gives. A refused token can only be accepted again if what refuses
  it goes: by `EpochInv` and `DeniedInv` a key that dies has outlived the token, so that
  only a SET of an older epoch is left (RevalidationTheorem).
* **AuthFlows uses the store.** AuthFlowsProofs instantiates SessionStoreProofs with
  the requests as callers and shows that every step of a flow is a step of the store
  or leaves it alone (`StoreUsed`). So the store's theorems hold of the composition
  without being proved again (FlowsKeepPromises, FlowsImplementRegistry), and its
  invariant is there to use.
* **FlowInv** adds what a request may rely on at each label (`Grounded`: a refresh that
  is about to issue has deleted the token it was given; whoever issues does so for a
  verified account) and that a pair once handed out is never minted or registered
  again (`PairInv`), so a token that was exchanged cannot come back. Hence the safety half
  of ReplayDropsSessions, with failures as well: a refresh that presents such a token
  only moves on to the revocation, and ends it with no usable refresh token left
  (AlarmTheorem); that it does move on is the half TLC checks.
* **GroundsInv** is an account of debts. A change of a row leaves a request that owes a
  revocation (`Debt`), or a user whose revocation was given up. A request that has read
  something which has changed since (`Stale`) is owed one by *another* request, or is
  tainted; a registered pair that is outdated has one to come. RevokeAllSessions pays:
  it empties the sessions, and taints the requests it has crossed. ChangePassword is
  both debtor and issuer, which is why the debt must be another's.
* **LinkInv** says who holds which row lock at each label, that a request past MarkUsed
  holds a link it has itself found open, and that a locked row is present: the cascade
  of a deletion waits. One grant per link follows from one holder per link.
* **LinkRegistry, step by step.** `Grant`, `CommitForgot` and `CommitDelete` map to
  Redeem, Replace and Remove, each with all the rows its request has locked since;
  arrivals to AskRedeem and AskReplace; the statements in between, the waits and the
  locks to stuttering; a rollback to GiveUp. LinkInv is what makes a commit a single
  step: what the request read when it came in still holds of the rows it has locked
  (for Replace, every link it came in for is locked or no longer open). `LifetimeInv`
  adds that an expiry under way is never further off than the lifetime from now.
* **DeadlockTheorem** says where a circle of waiters can lie: all of them on one
  account, with a replacement or a deletion among them. So DeadlockVictim, the one
  action that stands for Postgres' choice, never touches a second account.
* **AvatarInv** says that the key of an upload is its own until it is named, and that
  the key a request is going to delete is one its row will not name again.
* **StudyInv and CatalogueInv** carry what requests hold between statements: rows read
  are the reader's, senses of a word never change once it is visible. RowsInv adds that
  there are as many rows before a page as its offset says, counted at its least row.
* **EdgeInv** says that a key outlives the window it counts, so that no count is
  forgotten while its window runs; that what a window admitted is at most what its
  counter says; and of a refusal, besides what its caller was told, that the key is
  still there or its window over, so that whoever counts it anew is late and muddles it
  (`Told`). `Rounding` is the half second of TTL. `ListenerInv` says that a socket is
  open beside the drain only where `undrained` says so, and that this is `forced`.
* **ListsInv**, that study lists refer to rows there are, is Postgres' foreign keys;
  StatsTheorem needs it for the join.

Only model-checked: liveness (`ReplayDropsSessions`, `ChangesTakeEffect`,
`OnlyStatementsHoldUp`) and `NobodyIsStuck`, because fairness and ENABLED are out of the
prover's reach; and the violations.

## What is not modelled

* Logging, serialization, validation rules, bcrypt, configuration beyond the relation
  above, request ids, health checks and the heartbeat: no state the rest depends on.
* The mail, dictionary, OpenAI and Google clients: calls to services. The enricher's
  answers are modelled where the word service uses them.
* OAuth state and accounts: no route or service uses them, so the code does not say in
  which order their operations come. SetUserAvatarIfEmpty is modelled, because it
  makes a promise about uploads.
* Repository methods without callers (Update and Delete of words, DeleteExpired,
  ActiveSessionCount).
* Clock skew between replicas, corrupt Redis values, commands that Redis executes
  after their request has given up, and the size of the connection pool.

If the code grows: the OAuth sign-in once it is routed (its state token is used once,
and accounts are linked by address); user words once a service calls them, whose
reads and writes may then interleave; a shutdown with more than one replica.

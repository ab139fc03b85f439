--------------------------- MODULE SingleUseLinks ---------------------------
(***************************************************************************)
(* Accounts and the single-use links that act on them: verification links  *)
(* (email_verification_tokens) and reset links (password_reset_tokens).    *)
(* The two tables and their flows have the same scheme and share actions.  *)
(*                                                                         *)
(* One step is one SQL statement at READ COMMITTED, or one row of a        *)
(* statement that locks several.  account and link hold committed rows;    *)
(* what an open transaction has written are the rows it has locked, and    *)
(* its last step commits.  A statement that meets a row locked by another  *)
(* transaction waits, and then looks at the row again.  Postgres rolls one *)
(* transaction back when some wait for each other.                         *)
(*                                                                         *)
(* Accounts are email addresses: an address is not registered anew after   *)
(* its account is deleted.  All accounts are active.                       *)
(***************************************************************************)
EXTENDS Integers, FiniteSets

CONSTANTS
  Accounts, NoAccount,
  Links, NoLink,
  Requests,
  ResetExpiry, VerifyExpiry,  \* Auth.PasswordResetExpiry, EmailVerificationExpiry
  MaxTime,                    \* bound on the clock
  Endpoints,                  \* the endpoints clients call in this instance
  AllowFailures               \* whether requests may end early

ASSUME LinkAssumption ==
  /\ NoAccount \notin Accounts
  /\ NoLink \notin Links
  /\ ResetExpiry \in Nat /\ VerifyExpiry \in Nat
  /\ MaxTime \in Nat

VARIABLES
  now,
  account,     \* the users table
  link,        \* the two tables of links
  pc, loc,     \* the requests
  sent,        \* the links that left the server
  spent,       \* history: the links whose effect has been committed
  superseded   \* history: the reset links a later ForgotPassword replaced

vars == <<now, account, link, pc, loc, sent, spent, superseded>>

Account == [status : {"absent", "present", "deleted"},
            registered : BOOLEAN,  \* by Register, not by an administrator
            verified : BOOLEAN, resets : Nat]

Unborn == [status |-> "unborn", kind |-> "reset", account |-> NoAccount,
           expires |-> 0]

Link == {Unborn} \cup [status : {"open", "used", "deleted"},
                       kind : {"reset", "verify"},
                       account : Accounts, expires : Nat]

\* link: the link a request creates or consumes.  todo, held: the rows its
\* statement has still to lock and those it has locked.  seen: the reset links
\* open when it began.
Local == [op : {"none", "register", "create", "forgot", "reset", "verify", "delete"},
          account : Accounts \cup {NoAccount}, link : Links \cup {NoLink},
          expires : Nat, todo : SUBSET Links, held : SUBSET Links,
          seen : SUBSET Links]

NoLocal == [op |-> "none", account |-> NoAccount, link |-> NoLink,
            expires |-> 0, todo |-> {}, held |-> {}, seen |-> {}]

Labels == {"idle", "insertUser", "insertLink", "invalidate", "lock", "mark",
           "grant", "delete", "cascade"}

Begin(r, label, l) ==
  /\ pc[r] = "idle"
  /\ l.op \in Endpoints
  /\ pc' = [pc EXCEPT ![r] = label]
  /\ loc' = [loc EXCEPT ![r] = l]

Goto(r, label) ==
  /\ pc' = [pc EXCEPT ![r] = label]
  /\ UNCHANGED loc

\* The request answers; a transaction of its own has ended, with its locks.
Finish(r) ==
  /\ pc' = [pc EXCEPT ![r] = "idle"]
  /\ loc' = [loc EXCEPT ![r] = NoLocal]

Present(a) == account[a].status = "present"

IsUsable(l) == link[l].status = "open" /\ now < link[l].expires

OpenResets(a) ==
  {l \in Links : /\ link[l].status = "open"
                 /\ link[l].kind = "reset" /\ link[l].account = a}

\* generateToken: 256 random bits, a row no other request has or will have.
Fresh(l) == link[l].status = "unborn" /\ \A r \in Requests : loc[r].link # l

(***************************************************************************)
(* Row locks.  A link is locked by an UPDATE or by the cascade of a DELETE *)
(* of its account.  The account's row is locked by that DELETE: against    *)
(* UPDATEs, other DELETEs and, by the foreign key, INSERTs of its links.   *)
(* Locks the last statement of a transaction takes are gone with it.       *)
(***************************************************************************)
LinkLockedBy(r, l) == l \in loc[r].held
AccountLockedBy(r, a) == pc[r] = "cascade" /\ loc[r].account = a

LinkFree(r, l) == \A s \in Requests \ {r} : ~LinkLockedBy(s, l)
AccountFree(r, a) == \A s \in Requests \ {r} : ~AccountLockedBy(s, a)

WaitsFor(r, s) ==
  /\ r # s
  /\ \/ pc[r] = "mark" /\ LinkLockedBy(s, loc[r].link)
     \/ pc[r] \in {"lock", "cascade"} /\ \E l \in loc[r].todo : LinkLockedBy(s, l)
     \/ /\ \/ pc[r] \in {"insertLink", "grant", "delete"}
           \/ pc[r] = "lock" /\ loc[r].todo = {}
        /\ AccountLockedBy(s, loc[r].account)

Deadlocked(r) ==
  \E C \in SUBSET Requests :
    /\ r \in C
    /\ \A s \in C : \E t, u \in C : WaitsFor(s, t) /\ WaitsFor(u, s)

-----------------------------------------------------------------------------
Init ==
  /\ now = 0
  /\ account = [a \in Accounts |-> [status |-> "absent", registered |-> FALSE,
                                    verified |-> FALSE, resets |-> 0]]
  /\ link = [l \in Links |-> Unborn]
  /\ pc = [r \in Requests |-> "idle"]
  /\ loc = [r \in Requests |-> NoLocal]
  /\ sent = {}
  /\ spent = {}
  /\ superseded = {}

(***************************************************************************)
(* AuthService.Register and UserService.Create: EmailExists, then INSERT.  *)
(***************************************************************************)
Register(r, a, l) ==
  /\ account[a].status = "absent"
  /\ Fresh(l)
  /\ Begin(r, "insertUser", [NoLocal EXCEPT !.op = "register", !.account = a,
                                            !.link = l])
  /\ UNCHANGED <<now, account, link, sent, spent, superseded>>

Create(r, a) ==
  /\ account[a].status = "absent"
  /\ Begin(r, "insertUser", [NoLocal EXCEPT !.op = "create", !.account = a])
  /\ UNCHANGED <<now, account, link, sent, spent, superseded>>

\* email is UNIQUE: of two requests that saw it free, one gets a conflict.
InsertUser(r) ==
  /\ pc[r] = "insertUser"
  /\ LET a == loc[r].account
         signUp == loc[r].op = "register"
     IN  \/ /\ account[a].status # "absent"
            /\ Finish(r)
            /\ UNCHANGED account
         \/ /\ account[a].status = "absent"
            /\ account' = [account EXCEPT ![a].status = "present",
                                          ![a].registered = signUp]
            /\ IF signUp
               THEN /\ pc' = [pc EXCEPT ![r] = "insertLink"]
                    /\ loc' = [loc EXCEPT ![r].expires = now + VerifyExpiry]
               ELSE Finish(r)
  /\ UNCHANGED <<now, link, sent, spent, superseded>>

\* An inserted link is open, and is sent unless the request fails first.
Born(r, kind) == [status |-> "open", kind |-> kind, account |-> loc[r].account,
                  expires |-> loc[r].expires]

Send(l) == \/ sent' = sent \cup {l}
           \/ AllowFailures /\ UNCHANGED sent

\* The second statement of Register, in a transaction of its own.
InsertLink(r) ==
  /\ pc[r] = "insertLink"
  /\ AccountFree(r, loc[r].account)
  /\ IF Present(loc[r].account)
     THEN /\ link' = [link EXCEPT ![loc[r].link] = Born(r, "verify")]
          /\ Send(loc[r].link)
     ELSE UNCHANGED <<link, sent>>       \* foreign key violation
  /\ Finish(r)
  /\ UNCHANGED <<now, account, spent, superseded>>

(***************************************************************************)
(* ForgotPassword: one transaction, UPDATE of the open links and INSERT.   *)
(***************************************************************************)
ForgotPassword(r, a, l) ==
  /\ Present(a)
  /\ Fresh(l)
  /\ Begin(r, "invalidate",
           [NoLocal EXCEPT !.op = "forgot", !.account = a, !.link = l,
                           !.expires = now + ResetExpiry, !.seen = OpenResets(a)])
  /\ UNCHANGED <<now, account, link, sent, spent, superseded>>

\* InvalidateForUser: the statement sees what is committed when it starts ...
InvalidateForUser(r) ==
  /\ pc[r] = "invalidate"
  /\ pc' = [pc EXCEPT ![r] = "lock"]
  /\ loc' = [loc EXCEPT ![r].todo = OpenResets(loc[r].account)]
  /\ UNCHANGED <<now, account, link, sent, spent, superseded>>

\* ... and skips a row that has been used or deleted while it waited for it.
\* (mutant) Store and not tx: each row is committed by itself.
InvalidateRow_NoTx(r) ==
  /\ pc[r] = "lock"
  /\ \E l \in loc[r].todo :
       /\ LinkFree(r, l)
       /\ loc' = [loc EXCEPT ![r].todo = @ \ {l}]
       /\ link' = [link EXCEPT ![l].status = IF @ = "open" THEN "used" ELSE @]
  /\ UNCHANGED <<now, account, pc, sent, spent, superseded>>
InvalidateRow(r) ==
  /\ pc[r] = "lock"
  /\ \E l \in loc[r].todo :
       /\ LinkFree(r, l)
       /\ loc' = [loc EXCEPT ![r].todo = @ \ {l},
                             ![r].held = IF link[l].status = "open"
                                         THEN @ \cup {l} ELSE @]
  /\ UNCHANGED <<now, account, link, pc, sent, spent, superseded>>

\* The INSERT, and COMMIT.
CommitForgot(r) ==
  /\ pc[r] = "lock" /\ loc[r].todo = {}
  /\ AccountFree(r, loc[r].account)
  /\ IF Present(loc[r].account)
     THEN /\ link' = [l \in Links |->
                        CASE l = loc[r].link    -> Born(r, "reset")
                          [] l \in loc[r].held  -> [link[l] EXCEPT !.status = "used"]
                          [] OTHER              -> link[l]]
          /\ Send(loc[r].link)
          /\ superseded' = superseded \cup loc[r].seen
     ELSE UNCHANGED <<link, sent, superseded>>
  /\ Finish(r)
  /\ UNCHANGED <<now, account, spent>>

(***************************************************************************)
(* ResetPassword and VerifyEmail: GetByTokenHash and IsUsable outside, and *)
(* MarkUsed with what the link is good for inside a transaction.           *)
(***************************************************************************)
Consume(r, l, kind) ==
  /\ l \in sent
  /\ link[l].kind = kind
  /\ IsUsable(l)
  /\ Begin(r, "mark", [NoLocal EXCEPT !.op = kind, !.account = link[l].account,
                                      !.link = l])
  /\ UNCHANGED <<now, account, link, sent, spent, superseded>>

ResetPassword(r, l) == Consume(r, l, "reset")
VerifyEmail(r, l) == Consume(r, l, "verify")

\* WHERE used_at IS NULL; no row means a conflict and a rollback.
\* (mutants) WHERE id alone; a statement outside the transaction, which keeps no lock;
\* and a conflict that leaves the transaction open, with its lock on the row.
MarkUsed_ById(r) ==
  /\ pc[r] = "mark"
  /\ LinkFree(r, loc[r].link)
  /\ IF link[loc[r].link].status # "deleted"
     THEN /\ pc' = [pc EXCEPT ![r] = "grant"]
          /\ loc' = [loc EXCEPT ![r].held = {loc[r].link}]
     ELSE Finish(r)
  /\ UNCHANGED <<now, account, link, sent, spent, superseded>>
MarkUsed_NoTx(r) ==
  /\ pc[r] = "mark"
  /\ LinkFree(r, loc[r].link)
  /\ IF link[loc[r].link].status = "open"
     THEN /\ pc' = [pc EXCEPT ![r] = "grant"]
          /\ link' = [link EXCEPT ![loc[r].link].status = "used"]
          /\ UNCHANGED loc
     ELSE Finish(r) /\ UNCHANGED link
  /\ UNCHANGED <<now, account, sent, spent, superseded>>
MarkUsed_Leak(r) ==
  /\ pc[r] = "mark"
  /\ LinkFree(r, loc[r].link)
  /\ pc' = [pc EXCEPT ![r] = IF link[loc[r].link].status = "open"
                             THEN "grant" ELSE "idle"]
  /\ loc' = [loc EXCEPT ![r].held = {loc[r].link}]
  /\ UNCHANGED <<now, account, link, sent, spent, superseded>>
MarkUsed(r) ==
  /\ pc[r] = "mark"
  /\ LinkFree(r, loc[r].link)
  /\ IF link[loc[r].link].status = "open"
     THEN /\ pc' = [pc EXCEPT ![r] = "grant"]
          /\ loc' = [loc EXCEPT ![r].held = {loc[r].link}]
     ELSE Finish(r)
  /\ UNCHANGED <<now, account, link, sent, spent, superseded>>

\* UpdatePassword or MarkEmailVerified, neither of which asks whether a row
\* was there, and COMMIT.
Grant(r) ==
  /\ pc[r] = "grant"
  /\ AccountFree(r, loc[r].account)
  /\ LET a == loc[r].account
     IN  account' = IF ~Present(a) THEN account
                    ELSE IF loc[r].op = "reset"
                         THEN [account EXCEPT ![a].resets = @ + 1]
                         ELSE [account EXCEPT ![a].verified = TRUE]
  /\ link' = [link EXCEPT ![loc[r].link].status = "used"]
  /\ spent' = spent \cup {loc[r].link}
  /\ Finish(r)
  /\ UNCHANGED <<now, sent, superseded>>

(***************************************************************************)
(* UserService.Delete: DELETE of the account, ON DELETE CASCADE.           *)
(***************************************************************************)
Delete(r, a) ==
  /\ Present(a)
  /\ Begin(r, "delete", [NoLocal EXCEPT !.op = "delete", !.account = a])
  /\ UNCHANGED <<now, account, link, sent, spent, superseded>>

\* (mutant) The links of all accounts.
DeleteRow_AllLinks(r) ==
  /\ pc[r] = "delete"
  /\ AccountFree(r, loc[r].account)
  /\ IF Present(loc[r].account)
     THEN /\ pc' = [pc EXCEPT ![r] = "cascade"]
          /\ loc' = [loc EXCEPT ![r].todo =
                       {l \in Links : link[l].status # "deleted"}]
     ELSE Finish(r)
  /\ UNCHANGED <<now, account, link, sent, spent, superseded>>
DeleteRow(r) ==
  /\ pc[r] = "delete"
  /\ AccountFree(r, loc[r].account)
  /\ IF Present(loc[r].account)
     THEN /\ pc' = [pc EXCEPT ![r] = "cascade"]
          /\ loc' = [loc EXCEPT ![r].todo =
                       {l \in Links : /\ link[l].account = loc[r].account
                                      /\ link[l].status # "deleted"}]
     ELSE Finish(r)
  /\ UNCHANGED <<now, account, link, sent, spent, superseded>>

CascadeRow(r) ==
  /\ pc[r] = "cascade"
  /\ \E l \in loc[r].todo :
       /\ LinkFree(r, l)
       /\ loc' = [loc EXCEPT ![r].todo = @ \ {l}, ![r].held = @ \cup {l}]
  /\ UNCHANGED <<now, account, link, pc, sent, spent, superseded>>

CommitDelete(r) ==
  /\ pc[r] = "cascade" /\ loc[r].todo = {}
  /\ account' = [account EXCEPT ![loc[r].account].status = "deleted"]
  /\ link' = [l \in Links |-> IF l \in loc[r].held
                              THEN [link[l] EXCEPT !.status = "deleted"]
                              ELSE link[l]]
  /\ Finish(r)
  /\ UNCHANGED <<now, sent, spent, superseded>>

-----------------------------------------------------------------------------
\* A crash, a cancelled request, an error: the open transaction is rolled back.
Abort(r) ==
  /\ AllowFailures
  /\ pc[r] # "idle"
  /\ Finish(r)
  /\ UNCHANGED <<now, account, link, sent, spent, superseded>>

\* After deadlock_timeout Postgres rolls back one of those that wait in a circle.
DeadlockVictim(r) ==
  /\ Deadlocked(r)
  /\ Finish(r)
  /\ UNCHANGED <<now, account, link, sent, spent, superseded>>

Tick ==
  /\ now < MaxTime
  /\ now' = now + 1
  /\ UNCHANGED <<account, link, pc, loc, sent, spent, superseded>>

Step(r) ==
  \/ InsertUser(r) \/ InsertLink(r)
  \/ InvalidateForUser(r) \/ InvalidateRow(r) \/ CommitForgot(r)
  \/ MarkUsed(r) \/ Grant(r)
  \/ DeleteRow(r) \/ CascadeRow(r) \/ CommitDelete(r)

Arrive(r) ==
  \/ \E a \in Accounts, l \in Links : Register(r, a, l) \/ ForgotPassword(r, a, l)
  \/ \E a \in Accounts : Create(r, a) \/ Delete(r, a)
  \/ \E l \in Links : ResetPassword(r, l) \/ VerifyEmail(r, l)

Next ==
  \/ \E r \in Requests : Step(r) \/ Arrive(r) \/ DeadlockVictim(r) \/ Abort(r)
  \/ Tick

Spec == Init /\ [][Next]_vars

-----------------------------------------------------------------------------
TypeOK ==
  /\ now \in Nat
  /\ account \in [Accounts -> Account]
  /\ link \in [Links -> Link]
  /\ pc \in [Requests -> Labels]
  /\ loc \in [Requests -> Local]
  /\ sent \in SUBSET Links
  /\ spent \in SUBSET Links
  /\ superseded \in SUBSET Links

SpentOn(a, kind) ==
  {l \in spent : link[l].kind = kind /\ link[l].account = a}

\* ResetPassword, VerifyEmail: "single use".  A password is set exactly as often
\* as reset links of the account are spent, an account is verified by a link of
\* its own, and a spent link cannot be spent again: whatever the interleaving
\* of requests presenting one link, and wherever they crash.
OneGrantPerLink ==
  /\ \A a \in Accounts :
       /\ account[a].resets = Cardinality(SpentOn(a, "reset"))
       /\ account[a].verified <=> SpentOn(a, "verify") # {}
  /\ \A l \in spent : link[l].status \in {"used", "deleted"}

\* UpdatePassword and MarkEmailVerified report success for an account that is
\* not there.  The lock on the link keeps it there: a DELETE has to wait.
GrantFindsAccount ==
  /\ \A r \in Requests : pc[r] = "grant" => Present(loc[r].account)
  /\ \A l \in Links : link[l].status \in {"open", "used"} => Present(link[l].account)

\* ForgotPassword, InvalidateForUser: once a request has replaced the links that
\* were open when it came in, none of them sets a password any more, not even
\* in a request that had found it usable before.
SupersededIsDead ==
  [][(spent' \ spent) \cap superseded = {}]_vars

\* auth.go:332: "Invalidating the previous tokens and issuing the new one must
\* be atomic, otherwise a crash between the two leaves the account with no valid
\* link".  An account with an unused reset link has one until it spends one or is
\* deleted.
NeverStranded ==
  [][\A a \in Accounts :
       OpenResets(a) # {} /\ Present(a)' =>
         \/ OpenResets(a)' # {}
         \/ \E l \in spent' \ spent : link[l].account = a]_vars

\* What a request has come in for, as LinkRegistry sees it: the link it presents, or
\* the reset links it is to replace.
Asked(r) ==
  CASE pc[r] \in {"mark", "grant"} ->
         [asks |-> "redeem", account |-> loc[r].account, links |-> {loc[r].link}]
    [] pc[r] \in {"invalidate", "lock"} ->
         [asks |-> "replace", account |-> loc[r].account, links |-> loc[r].seen]
    [] OTHER -> [asks |-> "nothing", account |-> NoAccount, links |-> {}]

Registry == INSTANCE LinkRegistry WITH request <- [r \in Requests |-> Asked(r)]

\* InTx, "fn runs inside a transaction, committing (...) or rolling back": a request
\* that consumes a link, replaces links or deletes an account seems to do so in one
\* step, although at READ COMMITTED it reads, waits and locks row by row.
TransactionsAreAtomic == Registry!Spec

\* Those that r waits for, through others maybe, and r.
Awaited(r) ==
  {s \in Requests : \A C \in SUBSET Requests :
     r \in C /\ (\A t \in C, u \in Requests : WaitsFor(t, u) => u \in C) => s \in C}

\* Nobody waits for good, although ResetPassword and VerifyEmail lock the link before
\* the account and Delete the account before the links: a request under way can take its
\* next step, or waits for one that can or that Postgres picks from a circle, and never
\* for a lock of a request that is gone.
NobodyIsStuck ==
  \A r \in Requests : pc[r] # "idle" =>
    \E s \in Awaited(r) : ENABLED Step(s) \/ Deadlocked(s)

\* README.md:167, "Create an account and email a verification link", and
\* README.md:348, "creates the account and sends (...) a single-use
\* verification link": an account a client registered has been given one.
RegisteredHasLink ==
  (\A r \in Requests : pc[r] = "idle") =>
    \A a \in Accounts :
      Present(a) /\ account[a].registered =>
        \E l \in Links : link[l].kind = "verify" /\ link[l].account = a
=============================================================================

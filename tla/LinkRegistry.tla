---------------------------- MODULE LinkRegistry ----------------------------
(***************************************************************************)
(* What the transactions of SingleUseLinks promise, with no row locks, no  *)
(* snapshots and no statements in it: every request that changes accounts  *)
(* or links does so in one step, somewhere between its arrival and its     *)
(* answer, or not at all.                                                  *)
(***************************************************************************)
EXTENDS Integers

CONSTANTS Accounts, NoAccount, Links, Requests,
          ResetExpiry, VerifyExpiry

VARIABLES now,
          account,   \* the accounts: status, registered, verified, resets
          link,      \* the links: status, kind, account, expires
          sent,      \* the links that left the server
          request    \* request[r]: what r came in for, and has not done yet

vars == <<now, account, link, sent, request>>

Nothing == [asks |-> "nothing", account |-> NoAccount, links |-> {}]

Present(a) == account[a].status = "present"

OpenResets(a) ==
  {l \in Links : /\ link[l].status = "open"
                 /\ link[l].kind = "reset" /\ link[l].account = a}

Asks(r, what, a, S) ==
  /\ request[r] = Nothing
  /\ request' = [request EXCEPT ![r] = [asks |-> what, account |-> a, links |-> S]]
  /\ UNCHANGED <<now, account, link, sent>>

Done(r) == request' = [request EXCEPT ![r] = Nothing]

Init ==
  /\ now = 0
  /\ account = [a \in Accounts |-> [status |-> "absent", registered |-> FALSE,
                                    verified |-> FALSE, resets |-> 0]]
  /\ link = [l \in Links |-> [status |-> "unborn", kind |-> "reset",
                              account |-> NoAccount, expires |-> 0]]
  /\ sent = {}
  /\ request = [r \in Requests |-> Nothing]

\* A request that presents a link comes in while the link is open, not expired
\* and known outside ...
AskRedeem(r, l) ==
  /\ l \in sent
  /\ link[l].status = "open" /\ now < link[l].expires
  /\ Asks(r, "redeem", link[l].account, {l})

\* ... and takes effect once: nobody has spent the link meanwhile, nobody has
\* replaced it, and its account is there.  The clock is not asked again.
Redeem(r) ==
  /\ request[r].asks = "redeem"
  /\ \E l \in request[r].links :
       LET a == link[l].account
       IN  /\ link[l].status = "open"
           /\ Present(a)
           /\ link' = [link EXCEPT ![l].status = "used"]
           /\ account' = IF link[l].kind = "reset"
                         THEN [account EXCEPT ![a].resets = @ + 1]
                         ELSE [account EXCEPT ![a].verified = TRUE]
  /\ Done(r)
  /\ UNCHANGED <<now, sent>>

\* A request for a reset link finds some open when it comes in ...
AskReplace(r, a) ==
  /\ Present(a)
  /\ Asks(r, "replace", a, OpenResets(a))

\* A link is inserted open, for at most its lifetime, and may be sent.
Insert(S, l, kind, a, lifetime) ==
  /\ Present(a)
  /\ link[l].status = "unborn"
  /\ \E expires \in 0 .. now + lifetime :
       link' = [k \in Links |->
                  IF k = l THEN [status |-> "open", kind |-> kind, account |-> a,
                                 expires |-> expires]
                  ELSE IF k \in S THEN [link[k] EXCEPT !.status = "used"]
                  ELSE link[k]]
  /\ sent' \in {sent, sent \cup {l}}
  /\ UNCHANGED <<now, account>>

\* ... and puts a new one in the place of those, and maybe of later ones, at once.
Replace(r, l) ==
  /\ request[r].asks = "replace"
  /\ \E S \in SUBSET OpenResets(request[r].account) :
       /\ \A k \in request[r].links : link[k].status = "open" => k \in S
       /\ Insert(S, l, "reset", request[r].account, ResetExpiry)
  /\ Done(r)

\* A request ends without an effect.
GiveUp(r) ==
  /\ request[r] # Nothing
  /\ Done(r)
  /\ UNCHANGED <<now, account, link, sent>>

SignUp(a) ==
  /\ account[a].status = "absent"
  /\ \E registered \in BOOLEAN :
       account' = [account EXCEPT ![a].status = "present",
                                  ![a].registered = registered]
  /\ UNCHANGED <<now, link, sent, request>>

Attach(l, a) ==
  /\ Insert({}, l, "verify", a, VerifyExpiry)
  /\ UNCHANGED request

\* An account goes with all the links it ever had, spent ones as well.
Remove(a) ==
  /\ Present(a)
  /\ account' = [account EXCEPT ![a].status = "deleted"]
  /\ link' = [l \in Links |-> IF link[l].account = a
                              THEN [link[l] EXCEPT !.status = "deleted"]
                              ELSE link[l]]
  /\ UNCHANGED <<now, sent, request>>

Tick ==
  /\ now' = now + 1
  /\ UNCHANGED <<account, link, sent, request>>

Next ==
  \/ \E r \in Requests :
       \/ \E l \in Links : AskRedeem(r, l) \/ Replace(r, l)
       \/ \E a \in Accounts : AskReplace(r, a)
       \/ Redeem(r) \/ GiveUp(r)
  \/ \E a \in Accounts : SignUp(a) \/ Remove(a) \/ \E l \in Links : Attach(l, a)
  \/ Tick

Spec == Init /\ [][Next]_vars
=============================================================================

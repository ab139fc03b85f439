------------------------ MODULE SingleUseLinksProofs ------------------------
(***************************************************************************)
(* SingleUseLinks, proved for any accounts, links, requests and expiries,  *)
(* with and without failures and deadlocks.                                *)
(***************************************************************************)
EXTENDS SingleUseLinks, FiniteSetTheorems, TLAPS

\* A request that has made up a link and not inserted it.
Reserves(label, x) ==
  \/ label = "insertUser" /\ x.op = "register"
  \/ label \in {"insertLink", "invalidate", "lock"}

\* What is known of one request, at a label and with the locals x, of the tables: the
\* rows it has locked are as it has seen them, and a DELETE has every link of its account.
Knows(label, x) ==
  /\ label = "idle" => x = NoLocal
  /\ label # "idle" => x.account \in Accounts
  /\ Reserves(label, x) => x.link \in Links /\ link[x.link].status = "unborn"
  /\ label \in {"mark", "grant"} =>
       /\ x.link \in Links /\ link[x.link].status # "unborn"
       /\ link[x.link].account = x.account /\ link[x.link].kind = x.op
  /\ label = "grant" => x.held = {x.link}
  /\ \A l \in x.held :
       /\ label \in {"lock", "grant", "cascade"}
       /\ link[l].status # "unborn" /\ link[l].account = x.account
       /\ label \in {"lock", "grant"} => link[l].status = "open"
       /\ label = "lock" => link[l].kind = "reset"
  /\ \A l \in x.todo : /\ link[l].status # "unborn" /\ link[l].account = x.account
                       /\ label = "lock" => link[l].kind = "reset"
  /\ label = "cascade" =>
       /\ Present(x.account)
       /\ \A l \in Links :
            link[l].account = x.account /\ link[l].status \in {"open", "used"}
            => l \in x.todo \cup x.held
  /\ \A l \in x.seen :
       /\ link[l].status # "unborn" /\ link[l].kind = "reset" /\ link[l].account = x.account
       /\ label = "lock" => l \in x.todo \cup x.held \/ link[l].status \in {"used", "deleted"}

\* What two requests never share.
Apart(label, x, other, y) ==
  /\ Reserves(label, x) \/ Reserves(other, y) => x.link # y.link
  /\ \A l \in x.held : l \notin y.held
  /\ label = "cascade" /\ other = "cascade" => x.account # y.account

RequestInv ==
  /\ \A r \in Requests : Knows(pc[r], loc[r])
  /\ \A r, s \in Requests : r # s => Apart(pc[r], loc[r], pc[s], loc[s])

TableInv ==
  /\ OneGrantPerLink /\ IsFiniteSet(spent)
  /\ \A l \in Links : link[l].status \in {"open", "used"} => Present(link[l].account)
  /\ \A l \in superseded : link[l].status \in {"used", "deleted"}

LinkInv == TypeOK /\ RequestInv /\ TableInv

-----------------------------------------------------------------------------
LEMMA LinkFields ==
  ASSUME TypeOK, NEW l \in Links
  PROVE  /\ link[l] \in Link
         /\ link[l].status \in {"unborn", "open", "used", "deleted"}
         /\ link[l].status = "unborn" => link[l] = Unborn
         /\ link[l].status # "unborn" =>
              /\ link[l] \in [status : {"open", "used", "deleted"}, kind : {"reset", "verify"},
                              account : Accounts, expires : Nat]
              /\ link[l].kind \in {"reset", "verify"} /\ link[l].account \in Accounts
  BY DEF TypeOK, Link, Unborn

LEMMA NoLocalFields ==
  /\ NoLocal \in Local /\ NoLocal.link = NoLink /\ NoLocal.account = NoAccount
  /\ NoLocal.held = {} /\ NoLocal.todo = {} /\ NoLocal.seen = {} /\ NoLocal.op = "none"
  BY DEF NoLocal, Local

\* Nothing but one request changes.
Only(r, label, x) ==
  /\ pc' = [pc EXCEPT ![r] = label]
  /\ loc' = [loc EXCEPT ![r] = x]
  /\ UNCHANGED <<now, account, link, sent, spent, superseded>>

LEMMA OnlyStep ==
  ASSUME LinkInv, NEW r \in Requests, NEW label \in Labels, NEW x \in Local, Only(r, label, x),
         Knows(label, x),
         \A s \in Requests : s # r =>
           Apart(label, x, pc[s], loc[s]) /\ Apart(pc[s], loc[s], label, x)
  PROVE  LinkInv'
<1>1. TypeOK'
  BY DEF LinkInv, TypeOK, Only
<1>2. /\ pc'[r] = label /\ loc'[r] = x
      /\ \A s \in Requests : s # r => pc'[s] = pc[s] /\ loc'[s] = loc[s]
      /\ UNCHANGED <<account, link, spent, superseded>>
  BY DEF LinkInv, TypeOK, Only
<1>4. RequestInv'
  <2>1. \A s \in Requests : Knows(pc'[s], loc'[s])
    BY <1>2 DEF LinkInv, RequestInv
  <2>2. \A s, t \in Requests : s # t => Apart(pc'[s], loc'[s], pc'[t], loc'[t])
    BY <1>2 DEF LinkInv, RequestInv
  <2>3. \A s \in Requests : Knows(pc'[s], loc'[s]) => (Knows(pc[s], loc[s]))'
    BY <1>2 DEF Knows, Present, Reserves
  <2>4. \A s, t \in Requests :
          Apart(pc'[s], loc'[s], pc'[t], loc'[t]) => (Apart(pc[s], loc[s], pc[t], loc[t]))'
    BY DEF Apart, Reserves
  <2> QED
    BY <2>1, <2>2, <2>3, <2>4 DEF RequestInv
<1>5. TableInv'
  BY <1>2 DEF LinkInv, TableInv, OneGrantPerLink, SpentOn, Present
<1> QED
  BY <1>1, <1>4, <1>5 DEF LinkInv

\* Whoever stops is apart from everybody, and knows nothing.
LEMMA RestStep ==
  ASSUME LinkInv, NEW s \in Requests
  PROVE  /\ Apart("idle", NoLocal, pc[s], loc[s]) /\ Apart(pc[s], loc[s], "idle", NoLocal)
         /\ Knows("idle", NoLocal) /\ "idle" \in Labels
  BY NoLocalFields, LinkAssumption DEF LinkInv, RequestInv, Knows, Apart, Reserves, Labels

LEMMA FinishStep ==
  ASSUME LinkInv, NEW r \in Requests, Finish(r),
         UNCHANGED <<now, account, link, sent, spent, superseded>>
  PROVE  LinkInv'
<1>1. Only(r, "idle", NoLocal)
  BY DEF Finish, Only
<1>2. /\ "idle" \in Labels /\ NoLocal \in Local /\ Knows("idle", NoLocal)
      /\ \A s \in Requests : Apart("idle", NoLocal, pc[s], loc[s])
                             /\ Apart(pc[s], loc[s], "idle", NoLocal)
  BY RestStep, NoLocalFields
<1> QED
  BY <1>1, <1>2, OnlyStep

(***************************************************************************)
(* Requests that arrive                                                    *)
(***************************************************************************)
LEMMA BeginStep ==
  ASSUME LinkInv, NEW r \in Requests, NEW label \in Labels \ {"idle", "grant", "cascade"},
         NEW x \in Local, Begin(r, label, x),
         UNCHANGED <<now, account, link, sent, spent, superseded>>,
         x.account \in Accounts, x.held = {}, x.todo = {}, x.seen = {} \/ label = "invalidate",
         Reserves(label, x) => x.link \in Links /\ Fresh(x.link),
         label = "mark" =>
           /\ x.link \in Links /\ link[x.link].status # "unborn"
           /\ link[x.link].account = x.account /\ link[x.link].kind = x.op,
         label # "mark" /\ ~ Reserves(label, x) => x.link = NoLink,
         \A l \in x.seen : /\ link[l].status # "unborn" /\ link[l].kind = "reset"
                           /\ link[l].account = x.account
  PROVE  LinkInv'
<1>1. Only(r, label, x)
  BY DEF Begin, Only
<1>2. label \in Labels /\ label \notin {"idle", "grant", "cascade"}
      /\ (label = "lock" => x.seen = {})
  OBVIOUS
<1>3. Knows(label, x)
  BY <1>2 DEF Knows, Fresh
<1>4. ASSUME NEW s \in Requests, s # r
      PROVE  Apart(label, x, pc[s], loc[s]) /\ Apart(pc[s], loc[s], label, x)
  <2>1. Reserves(label, x) => loc[s].link # x.link
    BY DEF Fresh
  <2>2. Reserves(pc[s], loc[s]) => loc[s].link \in Links /\ link[loc[s].link].status = "unborn"
    BY DEF LinkInv, RequestInv, Knows
  <2>3. Reserves(pc[s], loc[s]) => loc[s].link # x.link
    BY <2>1, <2>2, LinkAssumption
  <2> QED
    BY <1>2, <2>1, <2>3 DEF Apart
<1> QED
  BY <1>1, <1>2, <1>3, <1>4, OnlyStep

LEMMA ArriveStep ==
  ASSUME LinkInv, NEW r \in Requests, Arrive(r)
  PROVE  LinkInv'
<1> USE DEF Labels
<1>1. ASSUME NEW a \in Accounts, NEW l \in Links, Register(r, a, l)
      PROVE  LinkInv'
  <2> DEFINE x == [NoLocal EXCEPT !.op = "register", !.account = a, !.link = l]
  <2>1. /\ x \in Local /\ x.account = a /\ x.held = {} /\ x.todo = {} /\ x.seen = {}
        /\ x.link = l /\ x.op = "register"
    BY DEF NoLocal, Local
  <2>2. Begin(r, "insertUser", x) /\ Fresh(l)
    BY <1>1 DEF Register
  <2> HIDE DEF x
  <2> QED
    BY <1>1, <2>1, <2>2, BeginStep DEF Register, Reserves
<1>2. ASSUME NEW a \in Accounts, NEW l \in Links, ForgotPassword(r, a, l)
      PROVE  LinkInv'
  <2> DEFINE x == [NoLocal EXCEPT !.op = "forgot", !.account = a, !.link = l,
                           !.expires = now + ResetExpiry, !.seen = OpenResets(a)]
  <2>1. now + ResetExpiry \in Nat
    BY LinkAssumption DEF LinkInv, TypeOK
  <2>2. /\ x \in Local /\ x.account = a /\ x.held = {} /\ x.todo = {} /\ x.seen = OpenResets(a)
        /\ x.link = l /\ x.op = "forgot"
    BY <2>1 DEF NoLocal, Local, OpenResets
  <2>3. Begin(r, "invalidate", x) /\ Fresh(l)
    BY <1>2 DEF ForgotPassword
  <2>4. \A k \in x.seen : /\ link[k].status # "unborn" /\ link[k].kind = "reset"
                          /\ link[k].account = a
    BY <2>2 DEF OpenResets
  <2> HIDE DEF x
  <2> QED
    BY <1>2, <2>2, <2>3, <2>4, BeginStep DEF ForgotPassword, Reserves
<1>3. ASSUME NEW a \in Accounts, Create(r, a) \/ Delete(r, a)
      PROVE  LinkInv'
  <2>1. PICK op \in {"create", "delete"}, label \in {"insertUser", "delete"} :
          Begin(r, label, [NoLocal EXCEPT !.op = op, !.account = a])
    BY <1>3 DEF Create, Delete
  <2> DEFINE x == [NoLocal EXCEPT !.op = op, !.account = a]
  <2>2. /\ x \in Local /\ x.account = a /\ x.held = {} /\ x.todo = {} /\ x.seen = {}
        /\ x.link = NoLink /\ x.op = op
    BY DEF NoLocal, Local
  <2>3. Begin(r, label, x)
    BY <2>1
  <2> HIDE DEF x
  <2> QED
    BY <1>3, <2>2, <2>3, BeginStep DEF Create, Delete, Reserves
<1>4. ASSUME NEW l \in Links, NEW kind \in {"reset", "verify"}, Consume(r, l, kind)
      PROVE  LinkInv'
  <2> DEFINE x == [NoLocal EXCEPT !.op = kind, !.account = link[l].account, !.link = l]
  <2>1. link[l].status = "open" /\ link[l].account \in Accounts /\ link[l].kind = kind
    BY <1>4, LinkFields DEF Consume, IsUsable, LinkInv
  <2>2. /\ x \in Local /\ x.account = link[l].account /\ x.held = {} /\ x.todo = {} /\ x.seen = {}
        /\ x.link = l /\ x.op = kind
    BY <2>1 DEF NoLocal, Local
  <2>3. Begin(r, "mark", x)
    BY <1>4 DEF Consume
  <2> HIDE DEF x
  <2> QED
    BY <1>4, <2>1, <2>2, <2>3, BeginStep DEF Consume, Reserves
<1> QED
  BY <1>1, <1>2, <1>3, <1>4 DEF Arrive, ResetPassword, VerifyEmail

(***************************************************************************)
(* Statements that lock                                                    *)
(***************************************************************************)
\* A request goes on with more rows, or other rows, than it had.
LEMMA LockStep ==
  ASSUME LinkInv, NEW r \in Requests, NEW label \in Labels, NEW x \in Local,
         Only(r, label, x), pc[r] # "idle", Knows(label, x),
         x.link = loc[r].link, x.account = loc[r].account, x.op = loc[r].op,
         Reserves(label, x) => Reserves(pc[r], loc[r]),
         \A l \in x.held : l \in loc[r].held \/ LinkFree(r, l),
         label = "cascade" => pc[r] = "cascade" \/ AccountFree(r, x.account)
  PROVE  LinkInv'
<1>1. ASSUME NEW s \in Requests, s # r
      PROVE  Apart(label, x, pc[s], loc[s]) /\ Apart(pc[s], loc[s], label, x)
  <2>1. Apart(pc[r], loc[r], pc[s], loc[s]) /\ Apart(pc[s], loc[s], pc[r], loc[r])
    BY <1>1 DEF LinkInv, RequestInv
  <2>2. \A l \in x.held : l \notin loc[s].held
    BY <1>1, <2>1 DEF Apart, LinkFree, LinkLockedBy
  <2>3. label = "cascade" /\ pc[s] = "cascade" => x.account # loc[s].account
    BY <1>1, <2>1 DEF Apart, AccountFree, AccountLockedBy
  <2> QED
    BY <2>1, <2>2, <2>3 DEF Apart
<1> QED
  BY <1>1, OnlyStep

LEMMA InvalidateStep ==
  ASSUME LinkInv, NEW r \in Requests, InvalidateForUser(r)
  PROVE  LinkInv'
<1> DEFINE x == [loc[r] EXCEPT !.todo = OpenResets(loc[r].account)]
<1>1. /\ loc[r] \in Local /\ pc[r] = "invalidate" /\ Knows("invalidate", loc[r])
  BY DEF InvalidateForUser, LinkInv, TypeOK, RequestInv
<1>2. /\ x \in Local /\ x.todo = OpenResets(loc[r].account) /\ x.held = loc[r].held
      /\ x.account = loc[r].account /\ x.link = loc[r].link /\ x.op = loc[r].op
      /\ x.seen = loc[r].seen
  BY <1>1 DEF Local, OpenResets
<1>3. Only(r, "lock", x)
  BY DEF InvalidateForUser, Only
<1> HIDE DEF x
<1>4. Knows("lock", x)
  <2>1. \A l \in x.seen : l \in x.todo \/ link[l].status \in {"used", "deleted"}
    <3> SUFFICES ASSUME NEW l \in x.seen
                 PROVE  l \in x.todo \/ link[l].status \in {"used", "deleted"}
      OBVIOUS
    <3>1. l \in Links
      BY <1>2 DEF Local
    <3> QED
      BY <3>1, <1>1, <1>2, LinkFields DEF Knows, OpenResets, LinkInv
  <2>2. \A l \in x.todo : /\ link[l].status # "unborn" /\ link[l].account = x.account
                          /\ link[l].kind = "reset"
    BY <1>2 DEF OpenResets
  <2> QED
    BY <1>1, <1>2, <2>1, <2>2 DEF Knows, Reserves
<1>5. "lock" \in Labels /\ Reserves(pc[r], loc[r])
  BY <1>1 DEF Labels, Reserves
<1> QED
  BY <1>1, <1>2, <1>3, <1>4, <1>5, LockStep

LEMMA RowStep ==
  ASSUME LinkInv, NEW r \in Requests, InvalidateRow(r) \/ CascadeRow(r)
  PROVE  LinkInv'
<1>1. /\ loc[r] \in Local /\ pc[r] \in {"lock", "cascade"} /\ Knows(pc[r], loc[r])
      /\ pc[r] \in Labels
  BY DEF InvalidateRow, CascadeRow, LinkInv, TypeOK, RequestInv
<1>2. PICK l \in loc[r].todo, held \in SUBSET Links :
        /\ LinkFree(r, l)
        /\ held \subseteq loc[r].held \cup {l}
        /\ pc[r] = "lock" => held = (IF link[l].status = "open" THEN loc[r].held \cup {l}
                                     ELSE loc[r].held)
        /\ pc[r] = "cascade" => held = loc[r].held \cup {l}
        /\ loc' = [loc EXCEPT ![r] = [@ EXCEPT !.todo = loc[r].todo \ {l}, !.held = held]]
  <2>1. CASE InvalidateRow(r)
    <3>1. PICK l \in loc[r].todo :
            /\ LinkFree(r, l)
            /\ loc' = [loc EXCEPT ![r].todo = @ \ {l},
                                  ![r].held = IF link[l].status = "open" THEN @ \cup {l} ELSE @]
      BY <2>1 DEF InvalidateRow
    <3> DEFINE h == IF link[l].status = "open" THEN loc[r].held \cup {l} ELSE loc[r].held
    <3>2. loc' = [loc EXCEPT ![r] = [@ EXCEPT !.todo = loc[r].todo \ {l}, !.held = h]]
      BY <3>1 DEF LinkInv, TypeOK, Local
    <3>3. pc[r] = "lock" /\ h \in SUBSET Links /\ h \subseteq loc[r].held \cup {l}
      BY <2>1, <1>1 DEF InvalidateRow, Local
    <3> QED
      BY <3>1, <3>2, <3>3
  <2>2. CASE CascadeRow(r)
    <3>1. PICK l \in loc[r].todo :
            /\ LinkFree(r, l)
            /\ loc' = [loc EXCEPT ![r].todo = @ \ {l}, ![r].held = @ \cup {l}]
      BY <2>2 DEF CascadeRow
    <3>2. loc' = [loc EXCEPT ![r] = [@ EXCEPT !.todo = loc[r].todo \ {l},
                                             !.held = loc[r].held \cup {l}]]
      BY <3>1 DEF LinkInv, TypeOK, Local
    <3>3. pc[r] = "cascade" /\ loc[r].held \cup {l} \in SUBSET Links
      BY <2>2, <1>1 DEF CascadeRow, Local
    <3> QED
      BY <3>1, <3>2, <3>3
  <2> QED
    BY <2>1, <2>2
<1> DEFINE x == [loc[r] EXCEPT !.todo = loc[r].todo \ {l}, !.held = held]
<1>3. /\ x \in Local /\ x.todo = loc[r].todo \ {l} /\ x.held = held
      /\ x.account = loc[r].account /\ x.link = loc[r].link /\ x.op = loc[r].op
      /\ x.seen = loc[r].seen
  BY <1>1 DEF Local
<1>4. Only(r, pc[r], x)
  <2>1. pc' = [pc EXCEPT ![r] = pc[r]] /\ UNCHANGED <<now, account, link, sent, spent, superseded>>
    BY DEF InvalidateRow, CascadeRow, LinkInv, TypeOK
  <2> QED
    BY <1>2, <2>1 DEF Only
<1> HIDE DEF x
<1>5. Knows(pc[r], x)
  <2>0. \A k \in x.seen : k \in Links
    BY <1>3 DEF Local
  <2>1. pc[r] = "lock" =>
          \A k \in x.seen : k \in x.todo \cup x.held \/ link[k].status \in {"used", "deleted"}
    BY <2>0, <1>1, <1>2, <1>3, LinkFields DEF Knows, LinkInv
  <2>2. \A k \in x.held :
          /\ link[k].status # "unborn" /\ link[k].account = x.account
          /\ pc[r] = "lock" => link[k].status = "open" /\ link[k].kind = "reset"
    BY <1>1, <1>2, <1>3 DEF Knows
  <2>3. pc[r] = "cascade" =>
          \A k \in Links : link[k].account = x.account /\ link[k].status \in {"open", "used"}
                          => k \in x.todo \cup x.held
    BY <1>1, <1>2, <1>3 DEF Knows
  <2> QED
    BY <1>1, <1>3, <2>1, <2>2, <2>3 DEF Knows, Reserves
<1>6. Reserves(pc[r], x) => Reserves(pc[r], loc[r])
  BY <1>3 DEF Reserves
<1>7. \A k \in x.held : k \in loc[r].held \/ LinkFree(r, k)
  BY <1>2, <1>3
<1> QED
  BY <1>1, <1>3, <1>4, <1>5, <1>6, <1>7, LockStep

LEMMA MarkStep ==
  ASSUME LinkInv, NEW r \in Requests, MarkUsed(r)
  PROVE  LinkInv'
<1>1. CASE link[loc[r].link].status # "open"
  BY <1>1, FinishStep DEF MarkUsed
<1>2. CASE link[loc[r].link].status = "open"
  <2> DEFINE x == [loc[r] EXCEPT !.held = {loc[r].link}]
  <2>1. /\ loc[r] \in Local /\ pc[r] = "mark" /\ Knows("mark", loc[r])
        /\ loc[r].link \in Links /\ LinkFree(r, loc[r].link)
    BY DEF MarkUsed, LinkInv, TypeOK, RequestInv, Knows
  <2>2. /\ x \in Local /\ x.todo = loc[r].todo /\ x.held = {loc[r].link}
        /\ x.account = loc[r].account /\ x.link = loc[r].link /\ x.op = loc[r].op
        /\ x.seen = loc[r].seen
    BY <2>1 DEF Local
  <2>3. Only(r, "grant", x)
    BY <1>2 DEF MarkUsed, Only
  <2> HIDE DEF x
  <2>4. Knows("grant", x) /\ "grant" \in Labels /\ ~ Reserves("grant", x)
    BY <1>2, <2>1, <2>2 DEF Knows, Reserves, Labels
  <2> QED
    BY <2>1, <2>2, <2>3, <2>4, LockStep
<1> QED
  BY <1>1, <1>2

LEMMA DeleteRowStep ==
  ASSUME LinkInv, NEW r \in Requests, DeleteRow(r)
  PROVE  LinkInv'
<1>1. CASE ~ Present(loc[r].account)
  BY <1>1, FinishStep DEF DeleteRow
<1>2. CASE Present(loc[r].account)
  <2> DEFINE todo == {l \in Links : /\ link[l].account = loc[r].account
                                   /\ link[l].status # "deleted"}
             x == [loc[r] EXCEPT !.todo = todo]
  <2>1. /\ loc[r] \in Local /\ pc[r] = "delete" /\ Knows("delete", loc[r])
        /\ AccountFree(r, loc[r].account)
    BY DEF DeleteRow, LinkInv, TypeOK, RequestInv
  <2>2. /\ x \in Local /\ x.todo = todo /\ x.held = loc[r].held
        /\ x.account = loc[r].account /\ x.link = loc[r].link /\ x.op = loc[r].op
        /\ x.seen = loc[r].seen
    BY <2>1 DEF Local
  <2>3. Only(r, "cascade", x)
    BY <1>2 DEF DeleteRow, Only
  <2>4. /\ \A l \in todo : link[l].status # "unborn" /\ link[l].account = loc[r].account
        /\ \A l \in Links : link[l].account = loc[r].account /\ link[l].status \in {"open", "used"}
                            => l \in todo
    <3>1. loc[r].account \in Accounts
      BY <2>1 DEF Knows
    <3>2. \A l \in Links : link[l].status = "unborn" => link[l].account = NoAccount
      BY LinkFields DEF LinkInv, Unborn
    <3> QED
      BY <3>1, <3>2, LinkAssumption
  <2> HIDE DEF x, todo
  <2>5. Knows("cascade", x) /\ "cascade" \in Labels /\ ~ Reserves("cascade", x)
    BY <1>2, <2>1, <2>2, <2>4 DEF Knows, Reserves, Labels
  <2> QED
    BY <2>1, <2>2, <2>3, <2>5, LockStep
<1> QED
  BY <1>1, <1>2

(***************************************************************************)
(* Statements that write the tables.  A request writes the links it has    *)
(* locked and the link it made up, and deletes the account it cascades on; *)
(* it inserts no link while its account is being deleted.                  *)
(***************************************************************************)
Writes(r) ==
  /\ \A l \in Links :
       \/ link'[l] = link[l]
       \/ /\ l \in loc[r].held
          /\ link'[l].kind = link[l].kind /\ link'[l].account = link[l].account
          /\ \/ link'[l].status = "deleted"
             \/ link'[l].status = "used" /\ link[l].status = "open"
       \/ /\ Reserves(pc[r], loc[r]) /\ l = loc[r].link
          /\ link'[l].status = "open" /\ link'[l].account = loc[r].account
          /\ AccountFree(r, loc[r].account)
  /\ \A a \in Accounts : Present(a) =>
       Present(a)' \/ (pc[r] = "cascade" /\ loc[r].account = a)

LEMMA LinksKept ==
  ASSUME LinkInv, NEW r \in Requests, Writes(r), NEW l \in Links, link[l].status # "unborn"
  PROVE  /\ link'[l].status # "unborn"
         /\ link'[l].kind = link[l].kind /\ link'[l].account = link[l].account
         /\ link[l].status \in {"used", "deleted"} => link'[l].status \in {"used", "deleted"}
         /\ l \notin loc[r].held => link'[l] = link[l]
<1>1. Knows(pc[r], loc[r])
  BY DEF LinkInv, RequestInv
<1> QED
  BY <1>1 DEF Writes, Knows

LEMMA OthersKept ==
  ASSUME LinkInv, NEW r \in Requests, Writes(r), NEW s \in Requests, s # r
  PROVE  (Knows(pc[s], loc[s]))' \/ pc'[s] # pc[s] \/ loc'[s] # loc[s]
<1> SUFFICES ASSUME pc'[s] = pc[s], loc'[s] = loc[s]
             PROVE  (Knows(pc[s], loc[s]))'
  OBVIOUS
<1>1. /\ Knows(pc[s], loc[s]) /\ loc[s] \in Local
      /\ Apart(pc[r], loc[r], pc[s], loc[s]) /\ Apart(pc[s], loc[s], pc[r], loc[r])
  BY DEF LinkInv, RequestInv, TypeOK
<1>2. \A l \in loc[s].held \cup loc[s].todo \cup loc[s].seen : l \in Links
  BY <1>1 DEF Local
<1>3. \A l \in Links : link[l].status # "unborn" =>
        /\ link'[l].status # "unborn"
        /\ link'[l].kind = link[l].kind /\ link'[l].account = link[l].account
        /\ link[l].status \in {"used", "deleted"} => link'[l].status \in {"used", "deleted"}
        /\ l \notin loc[r].held => link'[l] = link[l]
  BY LinksKept
<1>4. Reserves(pc[s], loc[s]) => link'[loc[s].link].status = "unborn"
  <2> SUFFICES ASSUME Reserves(pc[s], loc[s])
               PROVE  link'[loc[s].link].status = "unborn"
    OBVIOUS
  <2>1. loc[s].link \in Links /\ link[loc[s].link].status = "unborn" /\ loc[s].link # loc[r].link
    BY <1>1 DEF Knows, Apart
  <2>2. loc[s].link \notin loc[r].held
    BY <2>1 DEF LinkInv, RequestInv, Knows
  <2> QED
    BY <2>1, <2>2 DEF Writes
<1>5. \A l \in loc[s].held :
        /\ link'[l].status # "unborn" /\ link'[l].account = loc[s].account
        /\ pc[s] \in {"lock", "grant", "cascade"}
        /\ pc[s] \in {"lock", "grant"} => link'[l].status = "open"
        /\ pc[s] = "lock" => link'[l].kind = "reset"
  BY <1>1, <1>2, <1>3 DEF Knows, Apart
<1>6. \A l \in loc[s].todo :
        /\ link'[l].status # "unborn" /\ link'[l].account = loc[s].account
        /\ pc[s] = "lock" => link'[l].kind = "reset"
  BY <1>1, <1>2, <1>3 DEF Knows
<1>7. pc[s] = "cascade" =>
        /\ Present(loc[s].account)'
        /\ \A l \in Links :
             link'[l].account = loc[s].account /\ link'[l].status \in {"open", "used"}
             => l \in loc[s].todo \cup loc[s].held
  <2> SUFFICES ASSUME pc[s] = "cascade"
               PROVE  /\ account'[loc[s].account].status = "present"
                      /\ \A l \in Links :
                           link'[l].account = loc[s].account /\ link'[l].status \in {"open", "used"}
                           => l \in loc[s].todo \cup loc[s].held
    BY DEF Present
  <2>1. loc[s].account \in Accounts /\ Present(loc[s].account)
    BY <1>1 DEF Knows
  <2>2. account'[loc[s].account].status = "present"
    BY <2>1, <1>1 DEF Writes, Apart, Present
  <2>3. ~ AccountFree(r, loc[s].account)
    BY DEF AccountFree, AccountLockedBy
  <2>4. \A l \in Links : link'[l].account = loc[s].account /\ link'[l].status \in {"open", "used"}
          => link[l].account = loc[s].account /\ link[l].status \in {"open", "used"}
    BY <2>3 DEF Writes
  <2> QED
    BY <2>2, <2>4, <1>1 DEF Knows
<1>8. \A l \in loc[s].seen :
        /\ link'[l].status # "unborn" /\ link'[l].kind = "reset"
        /\ link'[l].account = loc[s].account
        /\ pc[s] = "lock" => l \in loc[s].todo \cup loc[s].held
                             \/ link'[l].status \in {"used", "deleted"}
  BY <1>1, <1>2, <1>3 DEF Knows
<1>9. pc[s] \in {"mark", "grant"} =>
        /\ loc[s].link \in Links /\ link'[loc[s].link].status # "unborn"
        /\ link'[loc[s].link].account = loc[s].account
        /\ link'[loc[s].link].kind = loc[s].op
  BY <1>1, <1>3 DEF Knows
<1>10. /\ pc[s] = "idle" => loc[s] = NoLocal
       /\ pc[s] # "idle" => loc[s].account \in Accounts
       /\ Reserves(pc[s], loc[s]) => loc[s].link \in Links
       /\ pc[s] = "grant" => loc[s].held = {loc[s].link}
  BY <1>1 DEF Knows
<1> QED
  BY <1>4, <1>5, <1>6, <1>7, <1>8, <1>9, <1>10 DEF Knows, Reserves, Present

\* A request that writes goes on, or stops, with locals it had or with none.
LEMMA FollowStep ==
  ASSUME LinkInv, NEW r \in Requests, NEW label \in Labels, NEW x \in Local, Writes(r),
         pc' = [pc EXCEPT ![r] = label], loc' = [loc EXCEPT ![r] = x],
         Knows(label, x)',
         \A s \in Requests : s # r =>
           Apart(label, x, pc[s], loc[s]) /\ Apart(pc[s], loc[s], label, x)
  PROVE  RequestInv'
<1>1. /\ pc'[r] = label /\ loc'[r] = x
      /\ \A s \in Requests : s # r => pc'[s] = pc[s] /\ loc'[s] = loc[s]
  BY DEF LinkInv, TypeOK
<1>2. ASSUME NEW s \in Requests
      PROVE  (Knows(pc[s], loc[s]))'
  <2>1. CASE s = r
    <3>1. Knows(label, x)' => (Knows(pc[s], loc[s]))'
      BY <1>1, <2>1 DEF Knows, Reserves, Present
    <3> QED
      BY <3>1
  <2>2. CASE s # r
    BY <1>1, <2>2, OthersKept
  <2> QED
    BY <2>1, <2>2
<1>3. ASSUME NEW s \in Requests, NEW t \in Requests, s # t
      PROVE  (Apart(pc[s], loc[s], pc[t], loc[t]))'
  <2>1. Apart(pc'[s], loc'[s], pc'[t], loc'[t])
    BY <1>1, <1>3 DEF LinkInv, RequestInv
  <2> QED
    BY <2>1 DEF Apart, Reserves
<1> QED
  BY <1>2, <1>3 DEF RequestInv

LEMMA StopStep ==
  ASSUME LinkInv, NEW r \in Requests, Writes(r), Finish(r)
  PROVE  RequestInv'
<1>1. /\ "idle" \in Labels /\ NoLocal \in Local
      /\ \A s \in Requests : Apart("idle", NoLocal, pc[s], loc[s])
                             /\ Apart(pc[s], loc[s], "idle", NoLocal)
  BY RestStep, NoLocalFields
<1>2. Knows("idle", NoLocal)'
  BY NoLocalFields DEF Knows, Reserves
<1> QED
  BY <1>1, <1>2, FollowStep DEF Finish

\* A write that grants nothing leaves the accounts and the spent links in step.
LEMMA TablesKept ==
  ASSUME LinkInv, NEW r \in Requests, Writes(r), UNCHANGED spent,
         \A a \in Accounts : /\ account'[a].resets = account[a].resets
                             /\ account'[a].verified = account[a].verified
  PROVE  OneGrantPerLink' /\ IsFiniteSet(spent)'
<1>1. /\ spent \subseteq Links /\ OneGrantPerLink /\ IsFiniteSet(spent)
      /\ \A l \in spent : link[l].status \in {"used", "deleted"}
  BY DEF LinkInv, TypeOK, TableInv, OneGrantPerLink
<1>2. \A l \in spent : /\ link'[l].kind = link[l].kind /\ link'[l].account = link[l].account
                       /\ link'[l].status \in {"used", "deleted"}
  BY <1>1, LinksKept
<1>3. ASSUME NEW a, NEW kind
      PROVE  (SpentOn(a, kind))' = SpentOn(a, kind)
  BY <1>2 DEF SpentOn
<1> QED
  BY <1>1, <1>2, <1>3 DEF OneGrantPerLink

\* The account of a link that is being inserted, and the link.
LEMMA BornFields ==
  ASSUME LinkInv, NEW r \in Requests, Reserves(pc[r], loc[r]), NEW kind \in {"reset", "verify"}
  PROVE  /\ loc[r].link \in Links /\ link[loc[r].link].status = "unborn"
         /\ Born(r, kind) \in Link /\ Born(r, kind).status = "open"
         /\ Born(r, kind).account = loc[r].account /\ loc[r].account \in Accounts
         /\ loc[r].link \notin spent \cup superseded
<1>1. Knows(pc[r], loc[r]) /\ loc[r] \in Local /\ pc[r] # "idle"
  BY DEF LinkInv, RequestInv, TypeOK, Reserves
<1>2. loc[r].account \in Accounts /\ loc[r].expires \in Nat
  BY <1>1 DEF Knows, Local
<1>3. Born(r, kind) \in Link /\ Born(r, kind).status = "open"
      /\ Born(r, kind).account = loc[r].account
  BY <1>2 DEF Born, Link
<1> QED
  BY <1>1, <1>2, <1>3 DEF Knows, LinkInv, TableInv, OneGrantPerLink

LEMMA InsertUserStep ==
  ASSUME LinkInv, NEW r \in Requests, InsertUser(r)
  PROVE  LinkInv'
<1>1. CASE account[loc[r].account].status # "absent"
  BY <1>1, FinishStep DEF InsertUser
<1>2. CASE account[loc[r].account].status = "absent"
  <2> DEFINE a == loc[r].account
  <2>1. /\ Knows("insertUser", loc[r]) /\ loc[r] \in Local /\ pc[r] = "insertUser"
        /\ a \in Accounts
    BY DEF InsertUser, LinkInv, RequestInv, TypeOK, Knows
  <2>2. /\ account' = [account EXCEPT ![a].status = "present",
                                      ![a].registered = loc[r].op = "register"]
        /\ UNCHANGED <<now, link, sent, spent, superseded>>
    BY <1>2 DEF InsertUser
  <2>3. /\ account' \in [Accounts -> Account] /\ account'[a].status = "present"
        /\ \A b \in Accounts : /\ account'[b].resets = account[b].resets
                               /\ account'[b].verified = account[b].verified
                               /\ Present(b) => Present(b)'
    BY <2>1, <2>2 DEF LinkInv, TypeOK, Account, Present
  <2>4. Writes(r)
    BY <2>2, <2>3 DEF Writes
  <2>5. RequestInv' /\ pc' \in [Requests -> Labels] /\ loc' \in [Requests -> Local]
    <3>1. CASE loc[r].op = "register"
      <4>1. now + VerifyExpiry \in Nat
        BY LinkAssumption DEF LinkInv, TypeOK
      <4>a. PICK x : x = [loc[r] EXCEPT !.expires = now + VerifyExpiry]
        OBVIOUS
      <4>2. /\ x \in Local /\ x.account = a /\ x.link = loc[r].link /\ x.held = loc[r].held
            /\ x.todo = loc[r].todo /\ x.seen = loc[r].seen /\ x.op = loc[r].op
        BY <2>1, <4>1, <4>a DEF Local
      <4>3. /\ pc' = [pc EXCEPT ![r] = "insertLink"] /\ loc' = [loc EXCEPT ![r] = x]
        BY <1>2, <3>1, <2>1, <4>a DEF InsertUser, LinkInv, TypeOK, Local
      <4>4. Knows("insertLink", x)'
        BY <2>1, <2>2, <3>1, <4>2 DEF Knows, Reserves
      <4>5. ASSUME NEW s \in Requests, s # r
            PROVE  /\ Apart("insertLink", x, pc[s], loc[s])
                   /\ Apart(pc[s], loc[s], "insertLink", x)
        <5>1. Apart(pc[r], loc[r], pc[s], loc[s]) /\ Apart(pc[s], loc[s], pc[r], loc[r])
          BY <4>5 DEF LinkInv, RequestInv
        <5> QED
          BY <5>1, <4>2, <3>1, <2>1 DEF Apart, Reserves
      <4>6. "insertLink" \in Labels
        BY DEF Labels
      <4>7. RequestInv'
        BY <2>4, <4>2, <4>3, <4>4, <4>5, <4>6, FollowStep
      <4> QED
        BY <4>2, <4>3, <4>6, <4>7 DEF LinkInv, TypeOK
    <3>2. CASE loc[r].op # "register"
      <4>1. Finish(r)
        BY <1>2, <3>2 DEF InsertUser
      <4> QED
        BY <4>1, <2>4, StopStep, RestStep, NoLocalFields DEF Finish, LinkInv, TypeOK
    <3> QED
      BY <3>1, <3>2
  <2>6. TypeOK'
    BY <2>2, <2>3, <2>5 DEF LinkInv, TypeOK
  <2>7. TableInv'
    <3>1. OneGrantPerLink' /\ IsFiniteSet(spent)'
      BY <2>2, <2>3, <2>4, TablesKept
    <3>2. \A l \in Links : link[l].status \in {"open", "used"} =>
                             account'[link[l].account].status = "present"
      <4>1. \A l \in Links : link[l].status \in {"open", "used"} => link[l].account \in Accounts
        BY LinkFields DEF LinkInv
      <4>2. \A b \in Accounts : Present(b) => account'[b].status = "present"
        BY <2>3 DEF Present
      <4> QED
        BY <4>1, <4>2 DEF LinkInv, TableInv
    <3> QED
      BY <3>1, <3>2, <2>2 DEF LinkInv, TableInv, Present
  <2> QED
    BY <2>5, <2>6, <2>7 DEF LinkInv
<1> QED
  BY <1>1, <1>2

LEMMA InsertLinkStep ==
  ASSUME LinkInv, NEW r \in Requests, InsertLink(r)
  PROVE  LinkInv'
<1>1. CASE ~ Present(loc[r].account)
  BY <1>1, FinishStep DEF InsertLink
<1>2. CASE Present(loc[r].account)
  <2> DEFINE n == loc[r].link
  <2>1. /\ n \in Links /\ link[n].status = "unborn" /\ n \notin spent \cup superseded
        /\ Born(r, "verify") \in Link /\ Born(r, "verify").status = "open"
        /\ Born(r, "verify").account = loc[r].account
    BY BornFields DEF InsertLink, Reserves
  <2>2. /\ link' = [link EXCEPT ![n] = Born(r, "verify")]
        /\ UNCHANGED <<now, account, spent, superseded>>
        /\ Finish(r) /\ AccountFree(r, loc[r].account) /\ Reserves(pc[r], loc[r])
        /\ sent' \in {sent, sent \cup {n}}
    BY <1>2 DEF InsertLink, Send, Reserves
  <2>3. /\ link' \in [Links -> Link] /\ link'[n] = Born(r, "verify")
        /\ \A l \in Links : l # n => link'[l] = link[l]
    BY <2>1, <2>2 DEF LinkInv, TypeOK
  <2>4. Writes(r)
    BY <2>1, <2>2, <2>3 DEF Writes, Present
  <2>5. RequestInv'
    BY <2>2, <2>4, StopStep
  <2>6. TypeOK'
    BY <2>1, <2>2, <2>3, RestStep, NoLocalFields DEF Finish, LinkInv, TypeOK
  <2>7. TableInv'
    <3>1. OneGrantPerLink' /\ IsFiniteSet(spent)'
      BY <2>2, <2>4, TablesKept
    <3> QED
      BY <3>1, <1>2, <2>1, <2>2, <2>3 DEF LinkInv, TableInv, Present
  <2> QED
    BY <2>5, <2>6, <2>7 DEF LinkInv
<1> QED
  BY <1>1, <1>2

LEMMA CommitForgotStep ==
  ASSUME LinkInv, NEW r \in Requests, CommitForgot(r)
  PROVE  LinkInv'
<1>1. CASE ~ Present(loc[r].account)
  BY <1>1, FinishStep DEF CommitForgot
<1>2. CASE Present(loc[r].account)
  <2> DEFINE n == loc[r].link
             Used(l) == [link[l] EXCEPT !.status = "used"]
  <2>0. /\ Knows("lock", loc[r]) /\ pc[r] = "lock" /\ loc[r].todo = {}
        /\ loc[r].held \subseteq Links /\ loc[r].seen \subseteq Links
    BY DEF CommitForgot, LinkInv, RequestInv, TypeOK, Local
  <2>1. /\ n \in Links /\ link[n].status = "unborn" /\ n \notin spent \cup superseded
        /\ Born(r, "reset") \in Link /\ Born(r, "reset").status = "open"
        /\ Born(r, "reset").account = loc[r].account
    BY BornFields DEF CommitForgot, Reserves
  <2>2. /\ link' = [l \in Links |->
                        CASE l = n              -> Born(r, "reset")
                          [] l \in loc[r].held  -> Used(l)
                          [] OTHER              -> link[l]]
        /\ UNCHANGED <<now, account, spent>> /\ superseded' = superseded \cup loc[r].seen
        /\ Finish(r) /\ AccountFree(r, loc[r].account) /\ Reserves(pc[r], loc[r])
        /\ sent' \in {sent, sent \cup {n}}
    BY <1>2 DEF CommitForgot, Send, Reserves
  <2>3. \A l \in loc[r].held :
          /\ link[l].status = "open" /\ l # n
          /\ Used(l) \in Link
          /\ Used(l).status = "used"
          /\ Used(l).kind = link[l].kind
          /\ Used(l).account = link[l].account
    <3> SUFFICES ASSUME NEW l \in loc[r].held
                 PROVE  /\ link[l].status = "open" /\ l # n
                        /\ Used(l) \in Link
                        /\ Used(l).status = "used"
                        /\ Used(l).kind = link[l].kind
                        /\ Used(l).account = link[l].account
      OBVIOUS
    <3>1. l \in Links /\ link[l].status = "open"
      BY <2>0 DEF Knows
    <3>2. link[l] \in [status : {"open", "used", "deleted"}, kind : {"reset", "verify"},
                       account : Accounts, expires : Nat]
      BY <3>1, LinkFields DEF LinkInv
    <3> QED
      BY <3>1, <3>2, <2>1 DEF Link
  <2> HIDE DEF Used
  <2>4. /\ link'[n] = Born(r, "reset")
        /\ \A l \in loc[r].held : link'[l] = Used(l)
        /\ \A l \in Links : l # n /\ l \notin loc[r].held => link'[l] = link[l]
        /\ link' \in [Links -> Link]
    <3>1. link'[n] = Born(r, "reset")
      <4>1. ASSUME NEW l \in Links, l = n
            PROVE  link'[l] = Born(r, "reset")
        <5>1. link'[l] = CASE l = n              -> Born(r, "reset")
                           [] l \in loc[r].held  -> Used(l)
                           [] OTHER              -> link[l]
          BY <4>1, <2>2
        <5>2. l \notin loc[r].held
          BY <4>1, <2>3
        <5> QED
          BY <4>1, <5>1, <5>2
      <4> QED
        BY <4>1, <2>1
    <3>2. ASSUME NEW l \in loc[r].held
          PROVE  link'[l] = Used(l)
      <4>1. l \in Links /\ l # n /\ l \in loc[r].held
        BY <2>0, <2>3, <3>2
      <4>2. link'[l] = CASE l = n              -> Born(r, "reset")
                         [] l \in loc[r].held  -> Used(l)
                         [] OTHER              -> link[l]
        BY <4>1, <2>2
      <4> QED
        BY <4>1, <4>2
    <3>3. ASSUME NEW l \in Links, l # n, l \notin loc[r].held
          PROVE  link'[l] = link[l]
      BY <2>2, <3>3
    <3>4. \A l \in Links : link'[l] \in Link
      BY <3>1, <3>2, <3>3, <2>1, <2>3 DEF LinkInv, TypeOK
    <3> QED
      BY <3>1, <3>2, <3>3, <3>4, <2>2
  <2>5. /\ link'[n].status = "open" /\ link'[n].account = loc[r].account
        /\ \A l \in loc[r].held : /\ link'[l].status = "used" /\ link'[l].kind = link[l].kind
                                  /\ link'[l].account = link[l].account
        /\ \A l \in Links : l # n /\ l \notin loc[r].held => link'[l] = link[l]
    BY <2>0, <2>1, <2>3, <2>4
  <2>6. Writes(r)
    BY <2>0, <2>1, <2>2, <2>3, <2>5 DEF Writes, Present
  <2>7. RequestInv'
    BY <2>2, <2>6, StopStep
  <2>8. TypeOK'
    <3>1. pc' \in [Requests -> Labels] /\ loc' \in [Requests -> Local]
      BY <2>2, RestStep, NoLocalFields DEF Finish, LinkInv, TypeOK
    <3>2. /\ now' \in Nat /\ account' \in [Accounts -> Account] /\ spent' \in SUBSET Links
          /\ superseded' \in SUBSET Links /\ sent' \in SUBSET Links
      BY <2>0, <2>1, <2>2 DEF LinkInv, TypeOK
    <3> QED
      BY <3>1, <3>2, <2>4 DEF TypeOK
  <2>9. TableInv'
    <3>1. OneGrantPerLink' /\ IsFiniteSet(spent)'
      BY <2>2, <2>6, TablesKept
    <3>2. \A l \in Links : link'[l].status \in {"open", "used"} =>
                             account'[link'[l].account].status = "present"
      BY <1>2, <2>2, <2>3, <2>5 DEF LinkInv, TableInv, Present
    <3>3. \A l \in superseded \cup loc[r].seen : link'[l].status \in {"used", "deleted"}
      <4>1. \A l \in superseded \cup loc[r].seen :
              /\ l \in Links /\ link[l].status # "unborn"
              /\ l \in loc[r].held \/ link[l].status \in {"used", "deleted"}
        BY <2>0 DEF LinkInv, TableInv, TypeOK, Knows
      <4> QED
        BY <4>1, <2>1, <2>5
    <3> QED
      BY <3>1, <3>2, <3>3, <2>2 DEF TableInv, Present
  <2> QED
    BY <2>7, <2>8, <2>9 DEF LinkInv
<1> QED
  BY <1>1, <1>2

LEMMA GrantStep ==
  ASSUME LinkInv, NEW r \in Requests, Grant(r)
  PROVE  LinkInv'
<1> DEFINE n == loc[r].link
           a == loc[r].account
<1>1. /\ Knows("grant", loc[r]) /\ pc[r] = "grant" /\ loc[r] \in Local
      /\ n \in Links /\ link[n].status = "open" /\ link[n].account = a /\ link[n].kind = loc[r].op
      /\ n \in loc[r].held /\ a \in Accounts /\ Present(a)
      /\ loc[r].op \in {"reset", "verify"}
  <2>1. Knows("grant", loc[r]) /\ pc[r] = "grant" /\ loc[r] \in Local
    BY DEF Grant, LinkInv, RequestInv, TypeOK
  <2>2. /\ n \in Links /\ link[n].status = "open" /\ link[n].account = a
        /\ link[n].kind = loc[r].op /\ n \in loc[r].held
    BY <2>1 DEF Knows
  <2> QED
    BY <2>1, <2>2, LinkFields DEF LinkInv, TableInv
<1>2. /\ link' = [link EXCEPT ![n].status = "used"] /\ spent' = spent \cup {n}
      /\ Finish(r) /\ UNCHANGED <<now, sent, superseded>>
      /\ account' = IF loc[r].op = "reset" THEN [account EXCEPT ![a].resets = @ + 1]
                    ELSE [account EXCEPT ![a].verified = TRUE]
  BY <1>1 DEF Grant
<1>3. /\ link' \in [Links -> Link] /\ link'[n].status = "used"
      /\ link'[n].kind = loc[r].op /\ link'[n].account = a
      /\ \A l \in Links : l # n => link'[l] = link[l]
  <2>1. link[n] \in [status : {"open", "used", "deleted"}, kind : {"reset", "verify"},
                     account : Accounts, expires : Nat]
    BY <1>1, LinkFields DEF LinkInv
  <2> QED
    BY <1>1, <1>2, <2>1 DEF LinkInv, TypeOK, Link
<1>4. /\ account' \in [Accounts -> Account]
      /\ \A b \in Accounts :
           /\ account'[b].status = account[b].status
           /\ account'[b].resets = IF b = a /\ loc[r].op = "reset" THEN account[b].resets + 1
                                   ELSE account[b].resets
           /\ account'[b].verified = (account[b].verified \/ (b = a /\ loc[r].op = "verify"))
  <2>1. account \in [Accounts -> Account]
    BY DEF LinkInv, TypeOK
  <2>2. CASE loc[r].op = "reset"
    BY <1>1, <1>2, <2>1, <2>2 DEF Account
  <2>3. CASE loc[r].op = "verify"
    BY <1>1, <1>2, <2>1, <2>3 DEF Account
  <2> QED
    BY <1>1, <2>2, <2>3
<1>5. Writes(r)
  BY <1>1, <1>3, <1>4 DEF Writes, Present
<1>6. RequestInv'
  BY <1>2, <1>5, StopStep
<1>7. TypeOK'
  <2>1. pc' \in [Requests -> Labels] /\ loc' \in [Requests -> Local]
    BY <1>2, RestStep, NoLocalFields DEF Finish, LinkInv, TypeOK
  <2>2. now' \in Nat /\ spent' \in SUBSET Links /\ superseded' \in SUBSET Links
        /\ sent' \in SUBSET Links
    BY <1>1, <1>2 DEF LinkInv, TypeOK
  <2> QED
    BY <2>1, <2>2, <1>3, <1>4 DEF TypeOK
<1>8. OneGrantPerLink' /\ IsFiniteSet(spent)'
  <2>1. /\ spent \subseteq Links /\ OneGrantPerLink /\ IsFiniteSet(spent)
        /\ n \notin spent
    BY <1>1 DEF LinkInv, TypeOK, TableInv, OneGrantPerLink
  <2>2. ASSUME NEW b, NEW kind
        PROVE  (SpentOn(b, kind))' = IF b = a /\ kind = loc[r].op THEN SpentOn(b, kind) \cup {n}
                                     ELSE SpentOn(b, kind)
    BY <1>2, <1>3, <2>1 DEF SpentOn
  <2>3. ASSUME NEW b, NEW kind
        PROVE  /\ IsFiniteSet(SpentOn(b, kind)) /\ Cardinality(SpentOn(b, kind)) \in Nat
               /\ n \notin SpentOn(b, kind)
               /\ Cardinality(SpentOn(b, kind) \cup {n}) = Cardinality(SpentOn(b, kind)) + 1
    <3>1. SpentOn(b, kind) \subseteq spent
      BY DEF SpentOn
    <3>2. IsFiniteSet(SpentOn(b, kind)) /\ n \notin SpentOn(b, kind)
      BY <2>1, <3>1, FS_Subset
    <3> QED
      BY <3>2, FS_CardinalityType, FS_AddElement
  <2>4. \A b \in Accounts : account'[b].resets = Cardinality((SpentOn(b, "reset"))')
    BY <1>1, <1>4, <2>1, <2>2, <2>3 DEF OneGrantPerLink
  <2>5. \A b \in Accounts : account'[b].verified <=> (SpentOn(b, "verify"))' # {}
    BY <1>1, <1>4, <2>1, <2>2 DEF OneGrantPerLink
  <2>6. \A l \in spent' : link'[l].status \in {"used", "deleted"}
    BY <1>2, <1>3, <2>1 DEF OneGrantPerLink
  <2>7. IsFiniteSet(spent)'
    BY <1>2, <2>1, FS_AddElement
  <2> QED
    BY <2>4, <2>5, <2>6, <2>7 DEF OneGrantPerLink
<1>9. TableInv'
  BY <1>1, <1>2, <1>3, <1>4, <1>8 DEF LinkInv, TableInv, Present
<1> QED
  BY <1>6, <1>7, <1>9 DEF LinkInv

LEMMA CommitDeleteStep ==
  ASSUME LinkInv, NEW r \in Requests, CommitDelete(r)
  PROVE  LinkInv'
<1> DEFINE a == loc[r].account
           Gone(l) == [link[l] EXCEPT !.status = "deleted"]
<1>1. /\ Knows("cascade", loc[r]) /\ pc[r] = "cascade" /\ loc[r].todo = {}
      /\ loc[r].held \subseteq Links /\ a \in Accounts
  BY DEF CommitDelete, LinkInv, RequestInv, TypeOK, Local, Knows
<1>2. /\ link' = [l \in Links |-> IF l \in loc[r].held THEN Gone(l) ELSE link[l]]
      /\ account' = [account EXCEPT ![a].status = "deleted"]
      /\ Finish(r) /\ UNCHANGED <<now, sent, spent, superseded>>
  BY DEF CommitDelete
<1>3. ASSUME NEW l \in loc[r].held
      PROVE  /\ Gone(l) \in Link /\ Gone(l).status = "deleted"
             /\ Gone(l).kind = link[l].kind /\ Gone(l).account = link[l].account
  <2>1. l \in Links /\ link[l].status # "unborn"
    BY <1>1 DEF Knows
  <2>2. link[l] \in [status : {"open", "used", "deleted"}, kind : {"reset", "verify"},
                     account : Accounts, expires : Nat]
    BY <2>1, LinkFields DEF LinkInv
  <2> QED
    BY <2>2 DEF Link
<1> HIDE DEF Gone
<1>4. /\ link' \in [Links -> Link]
      /\ \A l \in loc[r].held : /\ link'[l].status = "deleted" /\ link'[l].kind = link[l].kind
                                /\ link'[l].account = link[l].account
      /\ \A l \in Links : l \notin loc[r].held => link'[l] = link[l]
  BY <1>1, <1>2, <1>3 DEF LinkInv, TypeOK
<1>5. /\ account' \in [Accounts -> Account]
      /\ \A b \in Accounts : /\ account'[b].resets = account[b].resets
                             /\ account'[b].verified = account[b].verified
                             /\ b # a => account'[b].status = account[b].status
  BY <1>1, <1>2 DEF LinkInv, TypeOK, Account
<1>6. Writes(r)
  BY <1>1, <1>4, <1>5 DEF Writes, Present
<1>7. RequestInv'
  BY <1>2, <1>6, StopStep
<1>8. TypeOK'
  <2>1. pc' \in [Requests -> Labels] /\ loc' \in [Requests -> Local]
    BY <1>2, RestStep, NoLocalFields DEF Finish, LinkInv, TypeOK
  <2> QED
    BY <2>1, <1>2, <1>4, <1>5 DEF LinkInv, TypeOK
<1>9. TableInv'
  <2>1. OneGrantPerLink' /\ IsFiniteSet(spent)'
    BY <1>2, <1>5, <1>6, TablesKept
  <2>2. \A l \in Links : link'[l].status \in {"open", "used"} =>
                           account'[link'[l].account].status = "present"
    <3> SUFFICES ASSUME NEW l \in Links, link'[l].status \in {"open", "used"}
                 PROVE  account'[link'[l].account].status = "present"
      OBVIOUS
    <3>1. l \notin loc[r].held /\ link'[l] = link[l] /\ link[l].account \in Accounts
      BY <1>4, LinkFields DEF LinkInv
    <3>2. link[l].account # a
      BY <3>1, <1>1 DEF Knows
    <3> QED
      BY <3>1, <3>2, <1>5 DEF LinkInv, TableInv, Present
  <2>3. \A l \in superseded : link'[l].status \in {"used", "deleted"}
    BY <1>4 DEF LinkInv, TableInv, TypeOK
  <2> QED
    BY <2>1, <2>2, <2>3, <1>2 DEF TableInv, Present
<1> QED
  BY <1>7, <1>8, <1>9 DEF LinkInv

-----------------------------------------------------------------------------
LEMMA LinkStart == Init => LinkInv
<1> SUFFICES ASSUME Init
             PROVE  LinkInv
  OBVIOUS
<1>1. TypeOK
  BY NoLocalFields DEF Init, TypeOK, Account, Link, Labels
<1>2. RequestInv
  <2>1. \A r \in Requests : pc[r] = "idle" /\ loc[r] = NoLocal
    BY DEF Init
  <2> QED
    BY <2>1, NoLocalFields DEF RequestInv, Knows, Apart, Reserves
<1>3. TableInv
  <2>1. \A a \in Accounts : account[a].resets = 0 /\ account[a].verified = FALSE
    BY DEF Init
  <2>2. \A l \in Links : link[l].status = "unborn"
    BY DEF Init, Unborn
  <2>3. \A a \in Accounts, kind \in {"reset", "verify"} : SpentOn(a, kind) = {}
    BY DEF Init, SpentOn
  <2> QED
    BY <2>1, <2>2, <2>3, FS_EmptySet DEF Init, TableInv, OneGrantPerLink
<1> QED
  BY <1>1, <1>2, <1>3 DEF LinkInv

\* A stutter, and the clock: nobody has locked, inserted or learnt anything.
LEMMA LinkQuiet ==
  ASSUME LinkInv, UNCHANGED vars \/ Tick
  PROVE  LinkInv'
<1>1. UNCHANGED <<account, link, pc, loc, sent, spent, superseded>> /\ now' \in Nat
  BY DEF Tick, vars, LinkInv, TypeOK
<1>2. TypeOK'
  BY <1>1 DEF LinkInv, TypeOK
<1>3. RequestInv'
  BY <1>1 DEF LinkInv, RequestInv, Knows, Apart, Reserves, Present
<1>4. TableInv'
  BY <1>1 DEF LinkInv, TableInv, OneGrantPerLink, SpentOn, Present
<1> QED
  BY <1>2, <1>3, <1>4 DEF LinkInv

LEMMA LinkStep == LinkInv /\ [Next]_vars => LinkInv'
<1> SUFFICES ASSUME LinkInv, [Next]_vars
             PROVE  LinkInv'
  OBVIOUS
<1>1. ASSUME NEW r \in Requests, Step(r)
      PROVE  LinkInv'
  BY <1>1, InsertUserStep, InsertLinkStep, InvalidateStep, RowStep, CommitForgotStep, MarkStep,
     GrantStep, DeleteRowStep, CommitDeleteStep DEF Step
<1>2. ASSUME NEW r \in Requests, DeadlockVictim(r) \/ Abort(r)
      PROVE  LinkInv'
  BY <1>2, FinishStep DEF DeadlockVictim, Abort
<1> QED
  BY <1>1, <1>2, ArriveStep, LinkQuiet DEF Next

\* The inductive invariant.
THEOREM LinkTheorem == Spec => []LinkInv
<1> QED
  BY LinkStart, LinkStep, PTL DEF Spec

\* Types.
THEOREM LinkTypeCorrect == Spec => []TypeOK
<1>1. LinkInv => TypeOK
  BY DEF LinkInv
<1> QED
  BY <1>1, LinkTheorem, PTL

\* A link is good for one password or one verification, whoever presents it at the same
\* time, and whatever fails (ResetPassword, VerifyEmail, MarkUsed).
THEOREM OneGrantTheorem == Spec => []OneGrantPerLink
<1>1. LinkInv => OneGrantPerLink
  BY DEF LinkInv, TableInv
<1> QED
  BY <1>1, LinkTheorem, PTL

\* UpdatePassword and MarkEmailVerified, which do not ask whether a row was there, find
\* the account of the link, for a DELETE of it waits for the link.
THEOREM GrantFindsTheorem == Spec => []GrantFindsAccount
<1>1. ASSUME LinkInv, NEW r \in Requests, pc[r] = "grant"
      PROVE  Present(loc[r].account)
  BY <1>1 DEF LinkInv, RequestInv, TableInv, Knows
<1>2. LinkInv => GrantFindsAccount
  BY <1>1 DEF GrantFindsAccount, LinkInv, TableInv
<1> QED
  BY <1>2, LinkTheorem, PTL

\* What Step does to the open reset links and to the spent ones.
LEMMA GrantAlone ==
  ASSUME LinkInv, [Next]_vars, spent' # spent
  PROVE  \E r \in Requests : Grant(r)
<1> USE DEF Finish
<1>1. \A r \in Requests : Step(r) => spent' = spent \/ Grant(r)
  BY DEF Step, InsertUser, InsertLink, InvalidateForUser, InvalidateRow, CommitForgot, MarkUsed,
         DeleteRow, CascadeRow, CommitDelete
<1>2. \A r \in Requests : Arrive(r) => spent' = spent
  BY DEF Arrive, Register, ForgotPassword, Create, Delete, ResetPassword, VerifyEmail, Consume
<1> QED
  BY <1>1, <1>2 DEF Next, DeadlockVictim, Abort, Tick, vars

\* A reset link that a ForgotPassword has replaced sets no password (InvalidateForUser).
THEOREM SupersededTheorem == Spec => SupersededIsDead
<1>1. ASSUME LinkInv, [Next]_vars
      PROVE  (spent' \ spent) \cap superseded = {}
  <2>1. CASE spent' = spent
    BY <2>1
  <2>2. ASSUME NEW r \in Requests, Grant(r)
        PROVE  (spent' \ spent) \cap superseded = {}
    <3>1. link[loc[r].link].status = "open" /\ spent' \ spent \subseteq {loc[r].link}
      BY <1>1, <2>2 DEF Grant, LinkInv, RequestInv, Knows
    <3> QED
      BY <1>1, <3>1 DEF LinkInv, TableInv
  <2> QED
    BY <1>1, <2>1, <2>2, GrantAlone
<1> QED
  BY <1>1, LinkTheorem, PTL DEF Spec, SupersededIsDead

\* Who takes an account's last open reset link leaves another, spends one, or deletes
\* the account.
LEMMA StrandedStep ==
  ASSUME LinkInv, [Next]_vars, NEW a \in Accounts, OpenResets(a) # {}, Present(a)'
  PROVE  \/ OpenResets(a)' # {}
         \/ \E l \in spent' \ spent : link[l].account = a
<1> USE DEF Finish
<1> DEFINE Goal == \/ OpenResets(a)' # {}
                   \/ \E l \in spent' \ spent : link[l].account = a
<1>1. PICK k \in Links : /\ link[k].status = "open" /\ link[k].kind = "reset"
                         /\ link[k].account = a
  BY DEF OpenResets
<1>2. link'[k] = link[k] => Goal
  BY <1>1 DEF OpenResets
<1> HIDE DEF Goal
<1>3. ASSUME NEW r \in Requests
      PROVE  /\ Knows(pc[r], loc[r]) /\ loc[r].held \subseteq Links
             /\ pc[r] \in {"insertLink", "lock"} =>
                  /\ loc[r].link \in Links /\ k # loc[r].link
                  /\ loc[r].link \notin loc[r].held
  <2>1. Knows(pc[r], loc[r]) /\ loc[r].held \subseteq Links
    BY DEF LinkInv, RequestInv, TypeOK, Local
  <2> QED
    BY <2>1, <1>1 DEF Knows, Reserves
<1>4. link \in [Links -> Link]
  BY DEF LinkInv, TypeOK
<1>5. ASSUME NEW r \in Requests, InsertLink(r)
      PROVE  Goal
  BY <1>1, <1>2, <1>3, <1>4, <1>5 DEF InsertLink
<1>6. ASSUME NEW r \in Requests, CommitForgot(r)
      PROVE  Goal
  <2>1. CASE ~ Present(loc[r].account)
    BY <1>2, <1>6, <2>1 DEF CommitForgot
  <2>2. CASE Present(loc[r].account) /\ k \notin loc[r].held
    BY <1>2, <1>3, <1>6, <2>2 DEF CommitForgot
  <2>3. CASE Present(loc[r].account) /\ k \in loc[r].held
    <3> DEFINE n == loc[r].link
    <3>1. n \in Links /\ n \notin loc[r].held /\ loc[r].account = a
      BY <1>1, <1>3, <1>6, <2>3 DEF CommitForgot, Knows
    <3>2. link'[n] = Born(r, "reset")
      <4>1. ASSUME NEW l \in Links, l = n, l \notin loc[r].held
            PROVE  link'[l] = Born(r, "reset")
        BY <1>6, <2>3, <4>1 DEF CommitForgot
      <4> QED
        BY <3>1, <4>1
    <3>3. n \in OpenResets(a)'
      BY <3>1, <3>2 DEF OpenResets, Born
    <3> QED
      BY <3>3 DEF Goal
  <2> QED
    BY <2>1, <2>2, <2>3
<1>7. ASSUME NEW r \in Requests, Grant(r)
      PROVE  Goal
  <2>1. CASE k = loc[r].link
    <3>1. k \in spent' \ spent
      BY <1>1, <1>7, <2>1 DEF Grant, LinkInv, TableInv, OneGrantPerLink
    <3> QED
      BY <1>1, <3>1 DEF Goal
  <2>2. CASE k # loc[r].link
    BY <1>2, <1>4, <1>7, <2>2 DEF Grant
  <2> QED
    BY <2>1, <2>2
<1>8. ASSUME NEW r \in Requests, CommitDelete(r)
      PROVE  Goal
  <2>1. account' = [account EXCEPT ![loc[r].account].status = "deleted"]
        /\ pc[r] = "cascade"
    BY <1>8 DEF CommitDelete
  <2>2. loc[r].account # a
    BY <2>1 DEF Present, LinkInv, TypeOK, Account
  <2>3. k \notin loc[r].held
    BY <1>1, <1>3, <2>1, <2>2 DEF Knows
  <2> QED
    BY <1>2, <1>8, <2>3 DEF CommitDelete
<1>9. \A r \in Requests : Step(r) =>
        link' = link \/ InsertLink(r) \/ CommitForgot(r) \/ Grant(r) \/ CommitDelete(r)
  BY DEF Step, InsertUser, InvalidateForUser, InvalidateRow, MarkUsed, DeleteRow, CascadeRow
<1>10. \A r \in Requests : Arrive(r) \/ DeadlockVictim(r) \/ Abort(r) => link' = link
  BY DEF Arrive, Register, ForgotPassword, Create, Delete, ResetPassword, VerifyEmail, Consume,
         DeadlockVictim, Abort
<1>11. Goal
  BY <1>2, <1>5, <1>6, <1>7, <1>8, <1>9, <1>10 DEF Next, Tick, vars
<1> QED
  BY <1>11 DEF Goal

\* auth.go:332, a request for a new reset link never leaves the account without one
\* (ForgotPassword).
THEOREM StrandedTheorem == Spec => NeverStranded
<1>1. ASSUME LinkInv, [Next]_vars
      PROVE  \A a \in Accounts :
               OpenResets(a) # {} /\ Present(a)' =>
                 \/ OpenResets(a)' # {}
                 \/ \E l \in spent' \ spent : link[l].account = a
  BY <1>1, StrandedStep
<1> QED
  BY <1>1, LinkTheorem, PTL DEF Spec, NeverStranded

(***************************************************************************)
(* The refinement of LinkRegistry.                                         *)
(***************************************************************************)
\* No request gives a link a longer life than its kind has.
Lifetime(label, x) ==
  /\ label \in {"invalidate", "lock"} => x.expires <= now + ResetExpiry
  /\ label = "insertLink" => x.expires <= now + VerifyExpiry

LifetimeInv == \A r \in Requests : Lifetime(pc[r], loc[r])

LEMMA LifetimeStart == Init => LifetimeInv
  BY DEF Init, LifetimeInv, Lifetime

\* A request that begins, goes on or ends leaves the others alone.
LEMMA LifetimeFollow ==
  ASSUME TypeOK, LifetimeInv, NEW r \in Requests, NEW label, NEW x,
         pc' = [pc EXCEPT ![r] = label], loc' = [loc EXCEPT ![r] = x],
         now' = now, Lifetime(label, x)
  PROVE  LifetimeInv'
<1>1. /\ pc'[r] = label /\ loc'[r] = x
      /\ \A s \in Requests : s # r => pc'[s] = pc[s] /\ loc'[s] = loc[s]
  BY DEF TypeOK
<1>2. \A s \in Requests : Lifetime(pc'[s], loc'[s])
  BY <1>1 DEF LifetimeInv
<1> QED
  BY <1>2 DEF LifetimeInv, Lifetime

LEMMA LifetimeEnd ==
  ASSUME TypeOK, LifetimeInv, NEW r \in Requests, Finish(r), now' = now
  PROVE  LifetimeInv'
<1>1. Lifetime("idle", NoLocal)
  BY DEF Lifetime
<1> QED
  BY <1>1, LifetimeFollow DEF Finish

LEMMA LifetimeStep ==
  ASSUME TypeOK, LifetimeInv, [Next]_vars
  PROVE  LifetimeInv'
<1>1. ASSUME NEW r \in Requests, now' = now,
             \A s \in Requests : s # r => pc'[s] = pc[s] /\ loc'[s] = loc[s],
             pc'[r] \notin {"invalidate", "lock", "insertLink"}
      PROVE  LifetimeInv'
  BY <1>1 DEF LifetimeInv, Lifetime
<1>2. ASSUME NEW r \in Requests, Arrive(r)
      PROVE  LifetimeInv'
  <2>1. ASSUME NEW a \in Accounts, NEW l \in Links, ForgotPassword(r, a, l)
        PROVE  LifetimeInv'
    <3> DEFINE x == [NoLocal EXCEPT !.op = "forgot", !.account = a, !.link = l,
                             !.expires = now + ResetExpiry, !.seen = OpenResets(a)]
    <3>1. x.expires = now + ResetExpiry /\ x.expires <= now + ResetExpiry
      BY LinkAssumption DEF NoLocal, TypeOK
    <3>2. Begin(r, "invalidate", x) /\ now' = now
      BY <2>1 DEF ForgotPassword
    <3> HIDE DEF x
    <3>3. Lifetime("invalidate", x)
      BY <3>1 DEF Lifetime
    <3> QED
      BY <3>2, <3>3, LifetimeFollow DEF Begin
  <2>2. ASSUME NEW a \in Accounts, NEW l \in Links, Register(r, a, l)
        PROVE  LifetimeInv'
    BY <2>2, <1>1 DEF Register, Begin, TypeOK
  <2>3. ASSUME NEW a \in Accounts, Create(r, a) \/ Delete(r, a)
        PROVE  LifetimeInv'
    BY <2>3, <1>1 DEF Create, Delete, Begin, TypeOK
  <2>4. ASSUME NEW l \in Links, ResetPassword(r, l) \/ VerifyEmail(r, l)
        PROVE  LifetimeInv'
    BY <2>4, <1>1 DEF ResetPassword, VerifyEmail, Consume, Begin, TypeOK
  <2> QED
    BY <1>2, <2>1, <2>2, <2>3, <2>4 DEF Arrive
<1>3. ASSUME NEW r \in Requests, InsertUser(r)
      PROVE  LifetimeInv'
  <2>1. CASE Finish(r)
    BY <1>3, <2>1, LifetimeEnd DEF InsertUser
  <2>2. CASE ~ Finish(r)
    <3> PICK x : x = [loc[r] EXCEPT !.expires = now + VerifyExpiry]
      OBVIOUS
    <3>1. loc[r] \in Local
      BY DEF TypeOK
    <3>2. x.expires <= now + VerifyExpiry
      BY <3>1, LinkAssumption DEF Local, TypeOK
    <3>3. pc' = [pc EXCEPT ![r] = "insertLink"] /\ loc' = [loc EXCEPT ![r] = x] /\ now' = now
      BY <1>3, <2>2 DEF InsertUser, TypeOK
    <3>4. Lifetime("insertLink", x)
      BY <3>2 DEF Lifetime
    <3> QED
      BY <3>3, <3>4, LifetimeFollow
  <2> QED
    BY <2>1, <2>2
<1>4. ASSUME NEW r \in Requests, MarkUsed(r) \/ DeleteRow(r) \/ CascadeRow(r)
      PROVE  LifetimeInv'
  <2>1. \A s \in Requests : s # r => pc'[s] = pc[s] /\ loc'[s] = loc[s]
    BY <1>4 DEF MarkUsed, DeleteRow, CascadeRow, Finish, TypeOK
  <2>2. pc'[r] \in {"grant", "cascade", "idle"} /\ now' = now
    BY <1>4 DEF MarkUsed, DeleteRow, CascadeRow, Finish, TypeOK
  <2> QED
    BY <2>1, <2>2, <1>1
<1>8. ASSUME NEW r \in Requests, InvalidateForUser(r) \/ InvalidateRow(r)
      PROVE  LifetimeInv'
  <2>1. pc[r] \in {"invalidate", "lock"} /\ pc' = [pc EXCEPT ![r] = "lock"] /\ now' = now
    BY <1>8 DEF InvalidateForUser, InvalidateRow, TypeOK
  <2>2. /\ loc[r] \in Local /\ loc'[r].expires = loc[r].expires
        /\ \A s \in Requests : s # r => loc'[s] = loc[s]
    <3>1. loc[r] \in Local /\ loc \in [Requests -> Local]
      BY DEF TypeOK
    <3>2. CASE InvalidateForUser(r)
      BY <3>1, <3>2 DEF InvalidateForUser, Local
    <3>3. CASE InvalidateRow(r)
      <4>1. PICK l \in loc[r].todo :
              loc' = [loc EXCEPT ![r].todo = @ \ {l},
                                 ![r].held = IF link[l].status = "open" THEN @ \cup {l} ELSE @]
        BY <3>3 DEF InvalidateRow
      <4> DEFINE h == IF link[l].status = "open" THEN loc[r].held \cup {l} ELSE loc[r].held
      <4>2. loc' = [loc EXCEPT ![r] = [@ EXCEPT !.todo = loc[r].todo \ {l}, !.held = h]]
        BY <4>1, <3>1 DEF Local
      <4> HIDE DEF h
      <4> QED
        BY <3>1, <4>2 DEF Local
    <3> QED
      BY <1>8, <3>1, <3>2, <3>3
  <2> QED
    BY <2>1, <2>2 DEF LifetimeInv, Lifetime, TypeOK
<1>5. ASSUME NEW r \in Requests, InsertLink(r) \/ CommitForgot(r) \/ Grant(r) \/ CommitDelete(r)
                                 \/ DeadlockVictim(r) \/ Abort(r)
      PROVE  LifetimeInv'
  BY <1>5, LifetimeEnd DEF InsertLink, CommitForgot, Grant, CommitDelete, DeadlockVictim, Abort
<1>6. CASE Tick
  BY <1>6, LinkAssumption DEF Tick, LifetimeInv, Lifetime, TypeOK, Local
<1>7. CASE UNCHANGED vars
  BY <1>7 DEF vars, LifetimeInv, Lifetime
<1> QED
  BY <1>2, <1>3, <1>4, <1>5, <1>6, <1>7, <1>8 DEF Next, Step

\* What a request at a label, with the locals x, asks for.
AskedOf(label, x) ==
  CASE label \in {"mark", "grant"} ->
         [asks |-> "redeem", account |-> x.account, links |-> {x.link}]
    [] label \in {"invalidate", "lock"} ->
         [asks |-> "replace", account |-> x.account, links |-> x.seen]
    [] OTHER -> Registry!Nothing

AllAsked == [r \in Requests |-> Asked(r)]

LEMMA AskedFields ==
  /\ \A r \in Requests : AllAsked[r] = Asked(r) /\ Asked(r) = AskedOf(pc[r], loc[r])
  /\ Registry!Nothing.asks = "nothing"
  /\ \A label, x :
       /\ label \in {"mark", "grant"} =>
            /\ AskedOf(label, x) = [asks |-> "redeem", account |-> x.account, links |-> {x.link}]
            /\ AskedOf(label, x).asks = "redeem" /\ AskedOf(label, x).links = {x.link}
       /\ label \in {"invalidate", "lock"} =>
            /\ AskedOf(label, x) = [asks |-> "replace", account |-> x.account, links |-> x.seen]
            /\ AskedOf(label, x).asks = "replace" /\ AskedOf(label, x).links = x.seen
            /\ AskedOf(label, x).account = x.account
       /\ label \notin {"mark", "grant", "invalidate", "lock"} =>
            AskedOf(label, x) = Registry!Nothing
  BY DEF AllAsked, Asked, AskedOf, Registry!Nothing

\* A step of one request changes what this one asks for.
LEMMA AskedFollow ==
  ASSUME TypeOK, NEW r \in Requests, NEW label, NEW x,
         pc' = [pc EXCEPT ![r] = label], loc' = [loc EXCEPT ![r] = x]
  PROVE  AllAsked' = [AllAsked EXCEPT ![r] = AskedOf(label, x)]
<1>1. /\ pc'[r] = label /\ loc'[r] = x
      /\ \A s \in Requests : s # r => pc'[s] = pc[s] /\ loc'[s] = loc[s]
  BY DEF TypeOK
<1>2. \A s \in Requests : Asked(s)' = IF s = r THEN AskedOf(label, x) ELSE Asked(s)
  BY <1>1 DEF Asked, AskedOf, Registry!Nothing
<1>3. AllAsked' = [s \in Requests |-> IF s = r THEN AskedOf(label, x) ELSE Asked(s)]
  BY <1>2 DEF AllAsked
<1> QED
  BY <1>3 DEF AllAsked

LEMMA AskedStays ==
  ASSUME TypeOK, NEW r \in Requests, NEW label, NEW x,
         pc' = [pc EXCEPT ![r] = label], loc' = [loc EXCEPT ![r] = x],
         AskedOf(label, x) = AskedOf(pc[r], loc[r])
  PROVE  AllAsked' = AllAsked
<1>1. AllAsked' = [AllAsked EXCEPT ![r] = AskedOf(label, x)]
  BY AskedFollow
<1>2. AskedOf(label, x) = AllAsked[r]
  BY AskedFields
<1> QED
  BY <1>1, <1>2 DEF AllAsked

LEMMA AskedEnds ==
  ASSUME TypeOK, NEW r \in Requests, Finish(r)
  PROVE  AllAsked' = [AllAsked EXCEPT ![r] = Registry!Nothing]
<1>1. AskedOf("idle", NoLocal) = Registry!Nothing
  BY AskedFields
<1> QED
  BY <1>1, AskedFollow DEF Finish

LEMMA AskedSame ==
  ASSUME UNCHANGED <<pc, loc>>
  PROVE  AllAsked' = AllAsked
  BY DEF AllAsked, Asked

\* A request that stops without an effect gives up what it asked for, if anything.
LEMMA GivesUp ==
  ASSUME TypeOK, NEW r \in Requests, Finish(r), UNCHANGED <<now, account, link, sent>>
  PROVE  [Registry!Next]_(Registry!vars)
<1>1. AllAsked' = [AllAsked EXCEPT ![r] = Registry!Nothing]
  BY AskedEnds
<1>2. CASE AllAsked[r] = Registry!Nothing
  <2>1. AllAsked' = AllAsked
    BY <1>1, <1>2 DEF AllAsked
  <2> QED
    BY <2>1 DEF Registry!vars, AllAsked
<1>3. CASE AllAsked[r] # Registry!Nothing
  <2>1. Registry!GiveUp(r)
    BY <1>1, <1>3 DEF Registry!GiveUp, Registry!Done, AllAsked
  <2> QED
    BY <2>1 DEF Registry!Next
<1> QED
  BY <1>2, <1>3

LEMMA ArriveRefines ==
  ASSUME LinkInv, NEW r \in Requests, Arrive(r)
  PROVE  [Registry!Next]_(Registry!vars)
<1> DEFINE Goal == [Registry!Next]_(Registry!vars)
<1>1. TypeOK
  BY DEF LinkInv
<1>2. ASSUME NEW label, NEW x, Begin(r, label, x), UNCHANGED <<now, account, link, sent>>,
             label \in {"insertUser", "delete"}
      PROVE  Goal
  <2>1. AskedOf(label, x) = AskedOf(pc[r], loc[r])
    BY <1>2, AskedFields DEF Begin
  <2>2. AllAsked' = AllAsked
    BY <1>1, <1>2, <2>1, AskedStays DEF Begin
  <2> QED
    BY <1>2, <2>2 DEF Registry!vars, AllAsked
<1>3. ASSUME NEW l \in Links, NEW kind \in {"reset", "verify"}, Consume(r, l, kind)
      PROVE  Goal
  <2> DEFINE x == [NoLocal EXCEPT !.op = kind, !.account = link[l].account, !.link = l]
  <2>1. x.account = link[l].account /\ x.link = l
    BY DEF NoLocal
  <2>2. Begin(r, "mark", x) /\ UNCHANGED <<now, account, link, sent>> /\ l \in sent /\ IsUsable(l)
    BY <1>3 DEF Consume
  <2> HIDE DEF x
  <2>3. AllAsked' = [AllAsked EXCEPT ![r] = AskedOf("mark", x)]
    BY <1>1, <2>2, AskedFollow DEF Begin
  <2>4. AskedOf("mark", x) = [asks |-> "redeem", account |-> link[l].account, links |-> {l}]
    BY <2>1, AskedFields
  <2>5. AllAsked[r] = Registry!Nothing
    BY <2>2, AskedFields DEF Begin
  <2>6. Registry!Asks(r, "redeem", link[l].account, {l})
    BY <2>2, <2>3, <2>4, <2>5 DEF Registry!Asks, AllAsked
  <2>7. Registry!AskRedeem(r, l)
    BY <2>2, <2>6 DEF Registry!AskRedeem, IsUsable
  <2> QED
    BY <2>7 DEF Registry!Next
<1>4. ASSUME NEW a \in Accounts, NEW l \in Links, ForgotPassword(r, a, l)
      PROVE  Goal
  <2> DEFINE x == [NoLocal EXCEPT !.op = "forgot", !.account = a, !.link = l,
                           !.expires = now + ResetExpiry, !.seen = OpenResets(a)]
  <2>1. x.account = a /\ x.seen = OpenResets(a)
    BY DEF NoLocal
  <2>2. Begin(r, "invalidate", x) /\ UNCHANGED <<now, account, link, sent>> /\ Present(a)
    BY <1>4 DEF ForgotPassword
  <2> HIDE DEF x
  <2>3. AllAsked' = [AllAsked EXCEPT ![r] = AskedOf("invalidate", x)]
    BY <1>1, <2>2, AskedFollow DEF Begin
  <2>4. AskedOf("invalidate", x) = [asks |-> "replace", account |-> a,
                                    links |-> Registry!OpenResets(a)]
    BY <2>1, AskedFields DEF OpenResets, Registry!OpenResets
  <2>5. AllAsked[r] = Registry!Nothing
    BY <2>2, AskedFields DEF Begin
  <2>6. Registry!Asks(r, "replace", a, Registry!OpenResets(a))
    BY <2>2, <2>3, <2>4, <2>5 DEF Registry!Asks, AllAsked
  <2>7. Registry!AskReplace(r, a)
    BY <2>2, <2>6 DEF Registry!AskReplace, Registry!Present, Present
  <2> QED
    BY <2>7 DEF Registry!Next
<1> HIDE DEF Goal
<1>5. ASSUME NEW a \in Accounts, NEW l \in Links, Register(r, a, l)
      PROVE  Goal
  BY <1>2, <1>5 DEF Register
<1>6. ASSUME NEW a \in Accounts, Create(r, a) \/ Delete(r, a)
      PROVE  Goal
  BY <1>2, <1>6 DEF Create, Delete
<1>7. Goal
  BY <1>3, <1>4, <1>5, <1>6 DEF Arrive, ResetPassword, VerifyEmail
<1> QED
  BY <1>7 DEF Goal

\* Statements that lock rows change nothing a client could tell.
LEMMA LockRefines ==
  ASSUME LinkInv, NEW r \in Requests,
         InvalidateForUser(r) \/ InvalidateRow(r) \/ MarkUsed(r) \/ DeleteRow(r) \/ CascadeRow(r)
  PROVE  [Registry!Next]_(Registry!vars)
<1>1. TypeOK /\ UNCHANGED <<now, account, link, sent>>
  BY DEF LinkInv, InvalidateForUser, InvalidateRow, MarkUsed, DeleteRow, CascadeRow
<1>2. CASE Finish(r)
  BY <1>1, <1>2, GivesUp
<1>3. CASE ~ Finish(r)
  <2>1. /\ \A s \in Requests : s # r => pc'[s] = pc[s] /\ loc'[s] = loc[s]
        /\ loc[r] \in Local
    BY DEF LinkInv, TypeOK, InvalidateForUser, InvalidateRow, MarkUsed, DeleteRow, CascadeRow,
           Finish
  <2>2. Asked(r)' = Asked(r)
    <3>1. CASE DeleteRow(r) \/ CascadeRow(r)
      <4>1. pc[r] \in {"delete", "cascade"} /\ pc'[r] = "cascade"
        BY <1>3, <3>1 DEF DeleteRow, CascadeRow, LinkInv, TypeOK
      <4> QED
        BY <4>1 DEF Asked
    <3>2. CASE MarkUsed(r)
      <4>1. /\ pc[r] = "mark" /\ pc'[r] = "grant"
            /\ loc'[r] = [loc[r] EXCEPT !.held = {loc[r].link}]
        BY <1>3, <3>2 DEF MarkUsed, LinkInv, TypeOK
      <4>2. loc'[r].account = loc[r].account /\ loc'[r].link = loc[r].link
        BY <4>1, <2>1 DEF Local
      <4> QED
        BY <4>1, <4>2 DEF Asked
    <3>3. CASE InvalidateForUser(r)
      <4>1. /\ pc[r] = "invalidate" /\ pc'[r] = "lock"
            /\ loc'[r] = [loc[r] EXCEPT !.todo = OpenResets(loc[r].account)]
        BY <3>3 DEF InvalidateForUser, LinkInv, TypeOK
      <4>2. loc'[r].account = loc[r].account /\ loc'[r].seen = loc[r].seen
        BY <4>1, <2>1 DEF Local
      <4> QED
        BY <4>1, <4>2 DEF Asked
    <3>4. CASE InvalidateRow(r)
      <4>1. PICK l \in loc[r].todo :
              loc' = [loc EXCEPT ![r].todo = @ \ {l},
                                 ![r].held = IF link[l].status = "open" THEN @ \cup {l} ELSE @]
        BY <3>4 DEF InvalidateRow
      <4> DEFINE h == IF link[l].status = "open" THEN loc[r].held \cup {l} ELSE loc[r].held
      <4>2. loc'[r] = [loc[r] EXCEPT !.todo = loc[r].todo \ {l}, !.held = h]
        BY <4>1, <2>1 DEF Local, LinkInv, TypeOK
      <4> HIDE DEF h
      <4>3. loc'[r].account = loc[r].account /\ loc'[r].seen = loc[r].seen
        BY <4>2, <2>1 DEF Local
      <4>4. pc[r] = "lock" /\ pc'[r] = "lock"
        BY <3>4 DEF InvalidateRow
      <4> QED
        BY <4>3, <4>4 DEF Asked
    <3> QED
      BY <3>1, <3>2, <3>3, <3>4
  <2>3. \A s \in Requests : Asked(s)' = Asked(s)
    BY <2>1, <2>2 DEF Asked
  <2>4. AllAsked' = AllAsked
    BY <2>3 DEF AllAsked
  <2> QED
    BY <1>1, <2>4 DEF Registry!vars, AllAsked
<1> QED
  BY <1>2, <1>3

(***************************************************************************)
(* The statements that commit are the steps of the registry.               *)
(***************************************************************************)
LEMMA InsertUserRefines ==
  ASSUME LinkInv, NEW r \in Requests, InsertUser(r)
  PROVE  [Registry!Next]_(Registry!vars)
<1>1. /\ TypeOK /\ pc[r] = "insertUser" /\ loc[r].account \in Accounts
      /\ UNCHANGED <<now, link, sent>>
  BY DEF InsertUser, LinkInv, RequestInv, Knows
<1>2. CASE account[loc[r].account].status # "absent"
  BY <1>1, <1>2, GivesUp DEF InsertUser
<1>3. CASE account[loc[r].account].status = "absent"
  <2>1. PICK registered \in BOOLEAN : registered = (loc[r].op = "register")
    OBVIOUS
  <2>2. account' = [account EXCEPT ![loc[r].account].status = "present",
                                  ![loc[r].account].registered = registered]
    BY <1>3, <2>1 DEF InsertUser
  <2>3. PICK label, x : /\ label = "insertLink" \/ label = "idle"
                        /\ pc' = [pc EXCEPT ![r] = label]
                        /\ loc' = [loc EXCEPT ![r] = x]
    <3>1. CASE Finish(r)
      BY <3>1 DEF Finish
    <3>2. CASE ~ Finish(r)
      <4>1. /\ pc' = [pc EXCEPT ![r] = "insertLink"]
            /\ loc' = [loc EXCEPT ![r] = [@ EXCEPT !.expires = now + VerifyExpiry]]
        BY <1>3, <3>2 DEF InsertUser
      <4>2. loc' = [loc EXCEPT ![r] = loc'[r]]
        BY <4>1, <1>1 DEF TypeOK
      <4> QED
        BY <4>1, <4>2
    <3> QED
      BY <3>1, <3>2
  <2>4. AskedOf(label, x) = AskedOf(pc[r], loc[r])
    BY <1>1, <2>3, AskedFields
  <2>5. AllAsked' = AllAsked
    BY <1>1, <2>3, <2>4, AskedStays
  <2>6. Registry!SignUp(loc[r].account)
    BY <1>1, <1>3, <2>2, <2>5 DEF Registry!SignUp, AllAsked
  <2> QED
    BY <1>1, <2>6 DEF Registry!Next
<1> QED
  BY <1>2, <1>3

\* The record of a link that is inserted, and how long it may live.
LEMMA BornRecord ==
  ASSUME LinkInv, LifetimeInv, NEW r \in Requests, NEW lifetime \in Nat,
         loc[r].expires <= now + lifetime, NEW kind
  PROVE  /\ loc[r].expires \in 0 .. now + lifetime
         /\ Born(r, kind) = [status |-> "open", kind |-> kind, account |-> loc[r].account,
                             expires |-> loc[r].expires]
<1>1. loc[r].expires \in Nat /\ now \in Nat
  BY DEF LinkInv, TypeOK, Local
<1> QED
  BY <1>1 DEF Born

LEMMA InsertLinkRefines ==
  ASSUME LinkInv, LifetimeInv, NEW r \in Requests, InsertLink(r)
  PROVE  [Registry!Next]_(Registry!vars)
<1> DEFINE l == loc[r].link
           a == loc[r].account
<1>1. /\ TypeOK /\ pc[r] = "insertLink" /\ UNCHANGED <<now, account>> /\ Finish(r)
  BY DEF InsertLink, LinkInv
<1>2. CASE ~ Present(a)
  BY <1>1, <1>2, GivesUp DEF InsertLink
<1>3. CASE Present(a)
  <2>1. l \in Links /\ link[l].status = "unborn" /\ a \in Accounts
    BY <1>1, BornFields DEF Reserves
  <2>2. loc[r].expires <= now + VerifyExpiry
    BY <1>1 DEF LifetimeInv, Lifetime
  <2>3. /\ loc[r].expires \in 0 .. now + VerifyExpiry
        /\ Born(r, "verify") = [status |-> "open", kind |-> "verify", account |-> a,
                                expires |-> loc[r].expires]
    BY <2>2, BornRecord, LinkAssumption
  <2>4. link' = [k \in Links |-> IF k = l THEN Born(r, "verify")
                                 ELSE IF k \in {} THEN [link[k] EXCEPT !.status = "used"]
                                 ELSE link[k]]
    BY <1>1, <1>3, <2>1 DEF InsertLink, TypeOK
  <2>5. sent' \in {sent, sent \cup {l}}
    BY <1>3 DEF InsertLink, Send
  <2>6. AllAsked' = AllAsked
    <3>1. AskedOf("idle", NoLocal) = AskedOf(pc[r], loc[r])
      BY <1>1, AskedFields
    <3> QED
      BY <1>1, <3>1, AskedStays DEF Finish
  <2>7. Registry!Insert({}, l, "verify", a, VerifyExpiry)
    BY <1>1, <1>3, <2>1, <2>3, <2>4, <2>5 DEF Registry!Insert, Registry!Present, Present
  <2>8. Registry!Attach(l, a)
    BY <2>6, <2>7 DEF Registry!Attach, AllAsked
  <2> QED
    BY <2>1, <2>8 DEF Registry!Next
<1> QED
  BY <1>2, <1>3

LEMMA CommitForgotRefines ==
  ASSUME LinkInv, LifetimeInv, NEW r \in Requests, CommitForgot(r)
  PROVE  [Registry!Next]_(Registry!vars)
<1> DEFINE l == loc[r].link
           a == loc[r].account
           S == loc[r].held
<1>1. /\ TypeOK /\ pc[r] = "lock" /\ UNCHANGED <<now, account>> /\ Finish(r)
      /\ loc[r].todo = {} /\ S \subseteq Links /\ loc[r].seen \subseteq Links
      /\ Knows("lock", loc[r])
  BY DEF CommitForgot, LinkInv, TypeOK, Local, RequestInv
<1>2. CASE ~ Present(a)
  BY <1>1, <1>2, GivesUp DEF CommitForgot
<1>3. CASE Present(a)
  <2>1. l \in Links /\ link[l].status = "unborn" /\ a \in Accounts
    BY <1>1, BornFields DEF Reserves
  <2>2. loc[r].expires <= now + ResetExpiry
    BY <1>1 DEF LifetimeInv, Lifetime
  <2>3. /\ loc[r].expires \in 0 .. now + ResetExpiry
        /\ Born(r, "reset") = [status |-> "open", kind |-> "reset", account |-> a,
                               expires |-> loc[r].expires]
    BY <2>2, BornRecord, LinkAssumption
  <2>4. link' = [k \in Links |-> IF k = l THEN Born(r, "reset")
                                 ELSE IF k \in S THEN [link[k] EXCEPT !.status = "used"]
                                 ELSE link[k]]
    <3>1. l \notin S
      BY <1>1, <2>1 DEF Knows
    <3> QED
      BY <1>3, <3>1 DEF CommitForgot
  <2>5. sent' \in {sent, sent \cup {l}}
    BY <1>3 DEF CommitForgot, Send
  <2>6. S \in SUBSET Registry!OpenResets(a)
    BY <1>1 DEF Knows, Registry!OpenResets
  <2>7. \A k \in loc[r].seen : link[k].status = "open" => k \in S
    BY <1>1 DEF Knows
  <2>8. /\ AllAsked' = [AllAsked EXCEPT ![r] = Registry!Nothing]
        /\ AllAsked[r].asks = "replace" /\ AllAsked[r].links = loc[r].seen
        /\ AllAsked[r].account = a
    BY <1>1, AskedFields, AskedEnds
  <2>9. Registry!Insert(S, l, "reset", a, ResetExpiry)
    BY <1>1, <1>3, <2>1, <2>3, <2>4, <2>5 DEF Registry!Insert, Registry!Present, Present
  <2> HIDE DEF a, S, l
  <2>10. Registry!Replace(r, l)
    BY <2>6, <2>7, <2>8, <2>9 DEF Registry!Replace, Registry!Done, AllAsked
  <2> QED
    BY <2>1, <2>10 DEF Registry!Next
<1> QED
  BY <1>2, <1>3

LEMMA GrantRefines ==
  ASSUME LinkInv, NEW r \in Requests, Grant(r)
  PROVE  [Registry!Next]_(Registry!vars)
<1> DEFINE l == loc[r].link
           a == loc[r].account
<1>1. /\ TypeOK /\ pc[r] = "grant" /\ UNCHANGED <<now, sent>> /\ Finish(r)
      /\ Knows("grant", loc[r])
  BY DEF Grant, LinkInv, RequestInv
<1>2. /\ l \in Links /\ link[l].status = "open"
      /\ link[l].account = a /\ link[l].kind = loc[r].op
  BY <1>1 DEF Knows
<1>3. Present(a)
  BY <1>2 DEF LinkInv, TableInv
<1>4. /\ AllAsked' = [AllAsked EXCEPT ![r] = Registry!Nothing]
      /\ AllAsked[r].asks = "redeem" /\ AllAsked[r].links = {l}
  BY <1>1, AskedFields, AskedEnds
<1>5. /\ link' = [link EXCEPT ![l].status = "used"]
      /\ account' = IF link[l].kind = "reset"
                     THEN [account EXCEPT ![link[l].account].resets = @ + 1]
                     ELSE [account EXCEPT ![link[l].account].verified = TRUE]
  BY <1>2, <1>3 DEF Grant
<1>6. Registry!Present(link[l].account)
  BY <1>2, <1>3 DEF Registry!Present, Present
<1> HIDE DEF l, a
<1>7. Registry!Redeem(r)
  BY <1>1, <1>2, <1>4, <1>5, <1>6 DEF Registry!Redeem, Registry!Done, AllAsked
<1> QED
  BY <1>7 DEF Registry!Next

LEMMA CommitDeleteRefines ==
  ASSUME LinkInv, NEW r \in Requests, CommitDelete(r)
  PROVE  [Registry!Next]_(Registry!vars)
<1> DEFINE a == loc[r].account
<1>1. /\ TypeOK /\ pc[r] = "cascade" /\ loc[r].todo = {} /\ UNCHANGED <<now, sent>>
      /\ Finish(r) /\ Knows("cascade", loc[r]) /\ loc[r].held \subseteq Links
  BY DEF CommitDelete, LinkInv, RequestInv, TypeOK, Local
<1>2. a \in Accounts /\ Present(a)
  BY <1>1 DEF Knows
<1>3. ASSUME NEW k \in Links
      PROVE  (IF k \in loc[r].held THEN [link[k] EXCEPT !.status = "deleted"] ELSE link[k])
             = (IF link[k].account = a THEN [link[k] EXCEPT !.status = "deleted"] ELSE link[k])
  <2>1. CASE k \in loc[r].held
    BY <1>1, <2>1 DEF Knows
  <2>2. CASE k \notin loc[r].held /\ link[k].account # a
    BY <2>2
  <2>3. CASE k \notin loc[r].held /\ link[k].account = a
    <3>1. link[k].status \notin {"open", "used"}
      BY <1>1, <2>3 DEF Knows
    <3>2. link[k].status # "unborn"
      BY <1>2, <2>3, LinkFields, LinkAssumption DEF LinkInv, Unborn
    <3>3. /\ link[k].status = "deleted"
          /\ link[k] \in [status : {"open", "used", "deleted"}, kind : {"reset", "verify"},
                           account : Accounts, expires : Nat]
      BY <3>1, <3>2, LinkFields DEF LinkInv
    <3>4. [link[k] EXCEPT !.status = "deleted"] = link[k]
      BY <3>3
    <3> QED
      BY <2>3, <3>4
  <2> QED
    BY <2>1, <2>2, <2>3
<1>4. link' = [k \in Links |-> IF link[k].account = a
                               THEN [link[k] EXCEPT !.status = "deleted"] ELSE link[k]]
  BY <1>3 DEF CommitDelete
<1>5. AllAsked' = AllAsked
  <2>1. AskedOf("idle", NoLocal) = AskedOf(pc[r], loc[r])
    BY <1>1, AskedFields
  <2> QED
    BY <1>1, <2>1, AskedStays DEF Finish
<1>6. Registry!Remove(a)
  BY <1>1, <1>2, <1>4, <1>5 DEF Registry!Remove, Registry!Present, Present, CommitDelete, AllAsked
<1> QED
  BY <1>2, <1>6 DEF Registry!Next

\* Replacing, redeeming and deleting are atomic (InTx): every step of the statements and
\* their row locks is one step of LinkRegistry, or changes nothing in it.
THEOREM AtomicTheorem == Spec => TransactionsAreAtomic
<1>1. Init => Registry!Init
  BY DEF Init, Registry!Init, Unborn, Asked, Registry!Nothing
<1>2. LinkInv /\ LifetimeInv /\ [Next]_vars => [Registry!Next]_(Registry!vars)
  <2> SUFFICES ASSUME LinkInv, LifetimeInv, [Next]_vars
               PROVE  [Registry!Next]_(Registry!vars)
    OBVIOUS
  <2>1. ASSUME NEW r \in Requests, Step(r)
        PROVE  [Registry!Next]_(Registry!vars)
    BY <2>1, InsertUserRefines, InsertLinkRefines, LockRefines, CommitForgotRefines,
       GrantRefines, CommitDeleteRefines DEF Step
  <2>2. ASSUME NEW r \in Requests, DeadlockVictim(r) \/ Abort(r)
        PROVE  [Registry!Next]_(Registry!vars)
    BY <2>2, GivesUp DEF DeadlockVictim, Abort, LinkInv
  <2>3. CASE Tick
    <3>1. AllAsked' = AllAsked
      BY <2>3, AskedSame DEF Tick
    <3> QED
      BY <2>3, <3>1 DEF Tick, Registry!Next, Registry!Tick, AllAsked
  <2>4. CASE UNCHANGED vars
    <3>1. AllAsked' = AllAsked
      BY <2>4, AskedSame DEF vars
    <3> QED
      BY <2>4, <3>1 DEF vars, Registry!vars, AllAsked
  <2> QED
    BY <2>1, <2>2, <2>3, <2>4, ArriveRefines DEF Next
<1>3. LinkInv /\ LifetimeInv /\ [Next]_vars => LifetimeInv'
  BY LifetimeStep DEF LinkInv
<1> QED
  BY <1>1, <1>2, <1>3, LinkTheorem, LifetimeStart, PTL DEF Spec, TransactionsAreAtomic,
     Registry!Spec

(***************************************************************************)
(* Who waits for whom, and whom Postgres may roll back.                    *)
(***************************************************************************)
\* Requests wait only for requests on the same account that have locked a row, and a
\* circle of them has one that replaces links or deletes the account.
WaitsStayInAccount ==
  /\ \A r, s \in Requests : WaitsFor(r, s) =>
       /\ pc[s] \in {"lock", "grant", "cascade"}
       /\ loc[r].account = loc[s].account
  /\ \A r \in Requests : Deadlocked(r) =>
       /\ pc[r] \in {"lock", "grant", "cascade"}
       /\ \E s \in Requests : /\ pc[s] \in {"lock", "cascade"}
                             /\ loc[s].account = loc[r].account

LEMMA WaitStep ==
  ASSUME LinkInv, NEW r \in Requests, NEW s \in Requests, WaitsFor(r, s)
  PROVE  /\ pc[s] \in {"lock", "grant", "cascade"}
         /\ loc[r].account = loc[s].account
         /\ pc[r] = "grant" => pc[s] = "cascade"
<1>1. Knows(pc[r], loc[r]) /\ Knows(pc[s], loc[s])
  BY DEF LinkInv, RequestInv
<1>2. CASE pc[r] = "mark" /\ LinkLockedBy(s, loc[r].link)
  BY <1>1, <1>2 DEF Knows, LinkLockedBy
<1>3. CASE pc[r] \in {"lock", "cascade"} /\ \E l \in loc[r].todo : LinkLockedBy(s, l)
  BY <1>1, <1>3 DEF Knows, LinkLockedBy
<1>4. CASE AccountLockedBy(s, loc[r].account)
  BY <1>4 DEF AccountLockedBy
<1> QED
  BY <1>2, <1>3, <1>4 DEF WaitsFor

\* A deadlock never reaches beyond one account, and its victim is in a transaction:
\* Register's and Create's single statements, and requests that have locked nothing,
\* are not rolled back.  Two requests that present links cannot block each other by
\* themselves (InTx, ResetPassword, VerifyEmail, ForgotPassword, Delete).
THEOREM DeadlockTheorem == Spec => []WaitsStayInAccount
<1>1. ASSUME LinkInv
      PROVE  WaitsStayInAccount
  <2>1. ASSUME NEW r \in Requests, Deadlocked(r)
        PROVE  /\ pc[r] \in {"lock", "grant", "cascade"}
               /\ \E s \in Requests : /\ pc[s] \in {"lock", "cascade"}
                                     /\ loc[s].account = loc[r].account
    <3>1. PICK t \in Requests, u \in Requests : WaitsFor(r, t) /\ WaitsFor(u, r)
      BY <2>1 DEF Deadlocked
    <3>2. pc[r] \in {"lock", "grant", "cascade"}
      BY <1>1, <3>1, WaitStep
    <3>3. pc[r] = "grant" => pc[t] = "cascade"
      BY <1>1, <3>1, WaitStep
    <3>4. loc[r].account = loc[t].account
      BY <1>1, <3>1, WaitStep
    <3> QED
      BY <3>2, <3>3, <3>4
  <2> QED
    BY <1>1, <2>1, WaitStep DEF WaitsStayInAccount
<1> QED
  BY <1>1, LinkTheorem, PTL
=============================================================================

--------------------------- MODULE AvatarsProofs ---------------------------
(***************************************************************************)
(* Avatars, proved for any users, requests and keys, with and without      *)
(* failures.                                                               *)
(***************************************************************************)
EXTENDS Avatars, TLAPS

\* What a request holds, beside the row and the files.
LocalInv ==
  \A r \in Requests :
    LET l == loc[r]
    IN  /\ pc[r] = "idle" => l = NoLocal
        /\ pc[r] # "idle" => l.user \in Users
        /\ pc[r] \in {"put", "update", "undo"} => l.key \in Keys
        /\ pc[r] = "update" => l.key \in stored
        /\ pc[r] = "dropFile" => l.user \notin alive
        /\ pc[r] = "undo" /\ l.user \in alive => l.key \in doubted \/ avatar[l.user] # l.key
        /\ pc[r] = "dropOld" /\ l.old \in Keys => avatar[l.user] # l.old

\* A key belongs to one user and one upload, and nobody knows it before its UPDATE.
KeyInv ==
  /\ \A u \in Users : avatar[u] \in Keys => uploader[avatar[u]] = u
  /\ \A r \in Requests :
       /\ loc[r].key \in Keys => uploader[loc[r].key] = loc[r].user
       /\ loc[r].old \in Keys => uploader[loc[r].old] = loc[r].user
       /\ pc[r] \in {"put", "update"} =>
            /\ \A u \in Users : avatar[u] # loc[r].key
            /\ \A s \in Requests : loc[s].old # loc[r].key
  /\ \A r, s \in Requests : loc[r].key \in Keys /\ loc[r].key = loc[s].key => r = s

\* A request that is about to name, or to remove, a file.
Pending(r, k) ==
  \/ pc[r] \in {"update", "undo"} /\ loc[r].key = k
  \/ pc[r] \in {"dropOld", "dropFile"} /\ loc[r].old = k

\* Files nobody names are in the hands of a request, where requests do not overlap.
OrphanInv ==
  /\ \A r, s \in Requests :
       r # s /\ loc[r].user = loc[s].user /\ loc[r].user \in Users => loc[r].user \in excused
  /\ \A r \in Requests :
       /\ pc[r] \in {"put", "update", "deleteRow"} /\ loc[r].user \notin excused
       /\ avatar[loc[r].user] \in Keys
       => loc[r].old = avatar[loc[r].user]
  /\ \A k \in stored :
       uploader[k] \in excused \/ Named(k) \/ \E r \in Requests : Pending(r, k)

AvatarInv == TypeOK /\ LocalInv /\ KeyInv /\ RowNamesFile /\ OrphanInv

-----------------------------------------------------------------------------
LEMMA NoLocalType == NoLocal \in Local /\ NoLocal.key = NoKey /\ NoLocal.old = NoKey
                     /\ NoLocal.user = NoUser
  BY DEF NoLocal, Local

LEMMA AvatarStart == ASSUME Init PROVE AvatarInv
<1> USE DEF Init
<1>1. TypeOK
  BY NoLocalType DEF TypeOK
<1>2. LocalInv /\ KeyInv
  BY NoLocalType, AvatarAssumption DEF LocalInv, KeyInv
<1>3. RowNamesFile /\ OrphanInv
  BY NoLocalType, AvatarAssumption DEF RowNamesFile, Named, OrphanInv
<1> QED
  BY <1>1, <1>2, <1>3 DEF AvatarInv

LEMMA UploadStep ==
  ASSUME AvatarInv, NEW r \in Requests, NEW u \in Users, Upload(r, u)
  PROVE  AvatarInv'
<1>1. PICK k \in Keys : /\ uploader[k] = NoUser
                        /\ uploader' = [uploader EXCEPT ![k] = u]
                        /\ Begin(r, "put", [user |-> u, old |-> avatar[u], key |-> k])
  BY DEF Upload
<1> DEFINE l == [user |-> u, old |-> avatar[u], key |-> k]
<1>2. /\ u \in alive /\ pc[r] = "idle" /\ loc[r] = NoLocal
      /\ UNCHANGED <<alive, avatar, stored, doubted>>
  BY <1>1 DEF Upload, Begin, AvatarInv, LocalInv
<1>3. /\ l \in Local /\ l.user = u /\ l.old = avatar[u] /\ l.key = k
  BY DEF AvatarInv, TypeOK, Local
<1> HIDE DEF l
<1>4. /\ pc' = [pc EXCEPT ![r] = "put"] /\ loc' = [loc EXCEPT ![r] = l]
      /\ excused \subseteq excused' /\ excused' \subseteq Users
      /\ u \notin excused' => \A s \in Requests : loc[s].user # u
  BY <1>1, <1>3 DEF Begin, l, AvatarInv, TypeOK
<1>5. /\ pc'[r] = "put" /\ loc'[r] = l
      /\ \A s \in Requests : s # r => pc'[s] = pc[s] /\ loc'[s] = loc[s]
      /\ uploader'[k] = u /\ \A j \in Keys : j # k => uploader'[j] = uploader[j]
  BY <1>1, <1>4 DEF AvatarInv, TypeOK
<1>6. /\ \A v \in Users : avatar[v] # k
      /\ \A s \in Requests : loc[s].key # k /\ loc[s].old # k
  <2>1. NoUser \notin Users
    BY AvatarAssumption
  <2>2. \A s \in Requests : loc[s].user \in Users \/ (loc[s].key = NoKey /\ loc[s].old = NoKey)
    BY NoLocalType DEF AvatarInv, LocalInv
  <2> QED
    BY <1>1, <2>1, <2>2, AvatarAssumption DEF AvatarInv, KeyInv
<1>7. TypeOK'
  BY <1>1, <1>2, <1>3, <1>4 DEF AvatarInv, TypeOK
<1>8. LocalInv'
  BY <1>2, <1>3, <1>5 DEF AvatarInv, LocalInv
<1>9. KeyInv'
  BY <1>2, <1>3, <1>5, <1>6, AvatarAssumption DEF AvatarInv, TypeOK, KeyInv
<1>10. RowNamesFile'
  BY <1>2 DEF AvatarInv, RowNamesFile, Named, Served
<1>11. OrphanInv'
  <2>1. \A j \in stored : j # k
    BY <1>1, <1>6, AvatarAssumption DEF AvatarInv, OrphanInv, Named, Pending, TypeOK
  <2> QED
    BY <1>2, <1>3, <1>4, <1>5, <2>1 DEF AvatarInv, TypeOK, OrphanInv, Named, Pending
<1> QED
  BY <1>7, <1>8, <1>9, <1>10, <1>11 DEF AvatarInv

LEMMA DeleteStep ==
  ASSUME AvatarInv, NEW r \in Requests, NEW u \in Users, Delete(r, u)
  PROVE  AvatarInv'
<1> DEFINE l == [user |-> u, old |-> avatar[u], key |-> NoKey]
<1>1. /\ u \in alive /\ pc[r] = "idle" /\ loc[r] = NoLocal
      /\ UNCHANGED <<alive, avatar, stored, doubted, uploader>>
  BY DEF Delete, Begin, AvatarInv, LocalInv
<1>2. /\ l \in Local /\ l.user = u /\ l.old = avatar[u] /\ l.key = NoKey
  BY DEF AvatarInv, TypeOK, Local
<1>3. /\ pc' = [pc EXCEPT ![r] = "deleteRow"] /\ loc' = [loc EXCEPT ![r] = l]
      /\ excused \subseteq excused' /\ excused' \subseteq Users
      /\ u \notin excused' => \A s \in Requests : loc[s].user # u
  BY DEF Delete, Begin, AvatarInv, TypeOK
<1> HIDE DEF l
<1>4. /\ pc'[r] = "deleteRow" /\ loc'[r] = l
      /\ \A s \in Requests : s # r => pc'[s] = pc[s] /\ loc'[s] = loc[s]
  BY <1>3 DEF AvatarInv, TypeOK
<1>5. TypeOK'
  BY <1>1, <1>2, <1>3 DEF AvatarInv, TypeOK
<1>6. LocalInv'
  BY <1>1, <1>2, <1>4 DEF AvatarInv, LocalInv
<1>7. KeyInv'
  BY <1>1, <1>2, <1>4, AvatarAssumption DEF AvatarInv, TypeOK, KeyInv
<1>8. RowNamesFile'
  BY <1>1 DEF AvatarInv, RowNamesFile, Named, Served
<1>9. OrphanInv'
  BY <1>1, <1>2, <1>3, <1>4 DEF AvatarInv, TypeOK, OrphanInv, Named, Pending
<1> QED
  BY <1>5, <1>6, <1>7, <1>8, <1>9 DEF AvatarInv

\* The end of a request that did not touch the row: it may have put its file, or removed
\* one that no row names, or failed to.
LEMMA EndStep ==
  ASSUME AvatarInv, NEW r \in Requests, pc[r] # "idle", Finish(r),
         UNCHANGED <<avatar, doubted, uploader>>, alive' \in {alive, alive \ {loc[r].user}},
         stored' \subseteq Keys, excused' \subseteq Users, excused \subseteq excused',
         \A k \in stored' : k \notin stored => k = loc[r].key /\ loc[r].user \in excused',
         \A k \in stored : k \notin stored' => ~ Named(k) \/ k \in doubted,
         \A k \in stored \ stored' : \A s \in Requests :
            pc[s] = "update" /\ loc[s].key = k => s = r,
         loc[r].user \in excused' \/ (alive' = alive /\ \A k \in stored' : ~ Pending(r, k))
  PROVE  AvatarInv'
<1>1. /\ pc' = [pc EXCEPT ![r] = "idle"] /\ loc' = [loc EXCEPT ![r] = NoLocal]
      /\ pc'[r] = "idle" /\ loc'[r] = NoLocal
      /\ \A s \in Requests : s # r => pc'[s] = pc[s] /\ loc'[s] = loc[s]
  BY DEF Finish, AvatarInv, TypeOK
<1>2. TypeOK'
  BY <1>1, NoLocalType DEF AvatarInv, TypeOK
<1>3. LocalInv'
  BY <1>1 DEF AvatarInv, LocalInv
<1>4. KeyInv'
  BY <1>1, NoLocalType, AvatarAssumption DEF AvatarInv, LocalInv, KeyInv, TypeOK
<1>5. RowNamesFile'
  <2>1. \A k : (Named(k))' => Named(k)
    BY DEF Named
  <2> QED
    BY <2>1 DEF AvatarInv, RowNamesFile, Served
<1>6. OrphanInv'
  <2>1. /\ \A s, t \in Requests :
             s # t /\ loc'[s].user = loc'[t].user /\ loc'[s].user \in Users
             => loc'[s].user \in excused'
        /\ \A s \in Requests :
             /\ pc'[s] \in {"put", "update", "deleteRow"} /\ loc'[s].user \notin excused'
             /\ avatar[loc'[s].user] \in Keys
             => loc'[s].old = avatar[loc'[s].user]
    BY <1>1, NoLocalType, AvatarAssumption DEF AvatarInv, OrphanInv
  <2>2. ASSUME NEW k \in stored', uploader[k] \notin excused'
        PROVE  (Named(k))' \/ \E s \in Requests : (Pending(s, k))'
    <3>1. /\ loc[r].key \in Keys => uploader[loc[r].key] = loc[r].user
          /\ loc[r].old \in Keys => uploader[loc[r].old] = loc[r].user
          /\ k \in Keys
      BY DEF AvatarInv, KeyInv
    <3>2. k \in stored
      BY <2>2, <3>1
    <3>3. Named(k) => (Named(k))'
      <4>1. \A u \in alive : avatar[u] = k => uploader[k] = u
        BY <3>1 DEF AvatarInv, KeyInv, TypeOK
      <4>2. alive' = alive \/ loc[r].user \in excused'
        OBVIOUS
      <4> QED
        BY <2>2, <4>1, <4>2 DEF Named
    <3>4. ~ Pending(r, k)
      BY <2>2, <3>1 DEF Pending
    <3>5. \A s \in Requests : s # r => ((Pending(s, k))' <=> Pending(s, k))
      BY <1>1 DEF Pending
    <3>6. Named(k) \/ \E s \in Requests : Pending(s, k)
      BY <2>2, <3>2 DEF AvatarInv, OrphanInv
    <3> QED
      BY <3>3, <3>4, <3>5, <3>6
  <2> QED
    BY <2>1, <2>2 DEF OrphanInv
<1> QED
  BY <1>2, <1>3, <1>4, <1>5, <1>6 DEF AvatarInv

\* A file that is removed is no row's, and nobody is about to name it.
LEMMA RemoveStep ==
  ASSUME AvatarInv, NEW r \in Requests, NEW k \in Keys \cup {NoKey}, Remove(r, k),
         \/ pc[r] = "undo" /\ k = loc[r].key
         \/ pc[r] \in {"dropOld", "dropFile"} /\ k = OwnKey(loc[r].old)
  PROVE  AvatarInv'
<1>1. /\ Finish(r) /\ UNCHANGED <<alive, avatar, doubted, uploader>>
      /\ stored' \in {stored, stored \ {k}}
      /\ \/ stored' = stored \ {k} /\ excused' = excused
         \/ excused' = excused \cup {loc[r].user}
  BY DEF Remove, Excuse
<1>2. pc[r] # "idle" /\ loc[r].user \in Users
  BY DEF AvatarInv, LocalInv
<1>3. stored' \subseteq stored /\ stored' \subseteq Keys /\ excused' \subseteq Users
      /\ excused \subseteq excused'
  BY <1>1, <1>2 DEF AvatarInv, TypeOK
<1>4. ASSUME k \in stored
      PROVE  /\ ~ Named(k) \/ k \in doubted
             /\ \A s \in Requests : ~ (pc[s] = "update" /\ loc[s].key = k)
  <2>0. k \in Keys
    BY <1>4 DEF AvatarInv, TypeOK
  <2>1. CASE pc[r] = "undo" /\ k = loc[r].key
    <3>1. \A u \in alive : avatar[u] = k => u = loc[r].user
      BY <2>0, <2>1 DEF AvatarInv, TypeOK, KeyInv
    <3>2. ~ Named(k) \/ k \in doubted
      BY <2>1, <3>1 DEF AvatarInv, LocalInv, Named
    <3> QED
      BY <2>0, <2>1, <3>2 DEF AvatarInv, KeyInv
  <2>2. CASE pc[r] \in {"dropOld", "dropFile"} /\ k = OwnKey(loc[r].old)
    <3>1. k = loc[r].old
      BY <2>0, <2>2, AvatarAssumption DEF OwnKey
    <3>2. \A u \in alive : avatar[u] = k => u = loc[r].user
      BY <2>0, <3>1 DEF AvatarInv, TypeOK, KeyInv
    <3>3. ~ Named(k)
      BY <2>0, <2>2, <3>1, <3>2 DEF AvatarInv, LocalInv, Named
    <3> QED
      BY <2>2, <3>1, <3>3 DEF AvatarInv, KeyInv
  <2> QED
    BY <2>1, <2>2
<1>5. loc[r].user \in excused' \/ \A j \in stored' : ~ Pending(r, j)
  <2>1. CASE stored' = stored \ {k}
    BY <2>1 DEF Pending, OwnKey, AvatarInv, TypeOK
  <2> QED
    BY <1>1, <2>1
<1> QED
  BY <1>1, <1>2, <1>3, <1>4, <1>5, EndStep

LEMMA PutStep ==
  ASSUME AvatarInv, NEW r \in Requests, Put(r)
  PROVE  AvatarInv'
<1> DEFINE k == loc[r].key
           u == loc[r].user
<1>1. /\ pc[r] = "put" /\ u \in Users /\ k \in Keys /\ uploader[k] = u
      /\ UNCHANGED <<alive, avatar, doubted, uploader>>
  BY DEF Put, AvatarInv, LocalInv, KeyInv
<1>2. CASE stored' = stored \cup {k} /\ Goto(r, "update") /\ UNCHANGED excused
  <2>1. /\ pc' = [pc EXCEPT ![r] = "update"] /\ loc' = loc
        /\ pc'[r] = "update" /\ \A s \in Requests : s # r => pc'[s] = pc[s]
    BY <1>2 DEF Goto, AvatarInv, TypeOK
  <2>2. TypeOK'
    BY <1>1, <1>2, <2>1 DEF AvatarInv, TypeOK
  <2>3. LocalInv'
    BY <1>1, <1>2, <2>1 DEF AvatarInv, LocalInv
  <2>4. KeyInv'
    BY <1>1, <2>1 DEF AvatarInv, KeyInv
  <2>5. RowNamesFile'
    BY <1>1, <1>2 DEF AvatarInv, RowNamesFile, Named, Served
  <2>6. OrphanInv'
    BY <1>1, <1>2, <2>1 DEF AvatarInv, OrphanInv, Named, Pending
  <2> QED
    BY <2>2, <2>3, <2>4, <2>5, <2>6 DEF AvatarInv
<1>3. CASE stored' \in {stored, stored \cup {k}} /\ Finish(r) /\ Excuse(r)
  <2>1. /\ excused' = excused \cup {u} /\ u \in excused' /\ excused' \subseteq Users
        /\ stored' \subseteq Keys /\ stored \subseteq stored'
    BY <1>1, <1>3 DEF Excuse, AvatarInv, TypeOK
  <2> QED
    BY <1>1, <1>3, <2>1, EndStep
<1> QED
  BY <1>2, <1>3 DEF Put

LEMMA DeleteRowStep ==
  ASSUME AvatarInv, NEW r \in Requests, DeleteRow(r)
  PROVE  AvatarInv'
<1> DEFINE u == loc[r].user
<1>1. /\ pc[r] = "deleteRow" /\ u \in Users
      /\ UNCHANGED <<avatar, stored, doubted, uploader>>
  BY DEF DeleteRow, AvatarInv, LocalInv
<1>2. CASE alive' = alive \ {u} /\ Goto(r, "dropFile") /\ UNCHANGED excused
  <2>1. /\ pc' = [pc EXCEPT ![r] = "dropFile"] /\ loc' = loc
        /\ pc'[r] = "dropFile" /\ \A s \in Requests : s # r => pc'[s] = pc[s]
    BY <1>2 DEF Goto, AvatarInv, TypeOK
  <2>2. TypeOK'
    BY <1>1, <1>2, <2>1 DEF AvatarInv, TypeOK
  <2>3. LocalInv'
    BY <1>1, <1>2, <2>1 DEF AvatarInv, LocalInv
  <2>4. KeyInv'
    BY <1>1, <2>1 DEF AvatarInv, KeyInv
  <2>5. RowNamesFile'
    BY <1>1, <1>2 DEF AvatarInv, RowNamesFile, Named, Served
  <2>6. OrphanInv'
    <3>1. ASSUME NEW k \in stored, uploader[k] \notin excused
          PROVE  (Named(k))' \/ \E s \in Requests : (Pending(s, k))'
      <4>1. ASSUME NEW v \in alive, avatar[v] = k
            PROVE  v # u \/ (Pending(r, k))'
        BY <1>1, <2>1, <3>1, <4>1 DEF AvatarInv, TypeOK, KeyInv, OrphanInv, Pending
      <4>2. Named(k) => (Named(k))' \/ (Pending(r, k))'
        BY <1>1, <1>2, <4>1 DEF Named
      <4>3. \A s \in Requests : Pending(s, k) => (Pending(s, k))'
        BY <1>1, <2>1 DEF Pending
      <4> QED
        BY <3>1, <4>2, <4>3 DEF AvatarInv, OrphanInv
    <3> QED
      BY <1>1, <1>2, <2>1, <3>1 DEF AvatarInv, OrphanInv
  <2> QED
    BY <2>2, <2>3, <2>4, <2>5, <2>6 DEF AvatarInv
<1>3. CASE Finish(r) /\ UNCHANGED <<alive, excused>>
  BY <1>1, <1>3, EndStep DEF AvatarInv, TypeOK, Pending
<1>4. CASE alive' \in {alive, alive \ {u}} /\ Finish(r) /\ Excuse(r)
  <2>1. excused' = excused \cup {u} /\ u \in excused' /\ excused' \subseteq Users
    BY <1>1, <1>4 DEF Excuse, AvatarInv, TypeOK
  <2>2. stored' \subseteq Keys
    BY <1>1 DEF AvatarInv, TypeOK
  <2> QED
    BY <1>1, <1>4, <2>1, <2>2, EndStep
<1> QED
  BY <1>2, <1>3, <1>4 DEF DeleteRow

\* The one step that gives a row a new name.
LEMMA UpdateRowStep ==
  ASSUME AvatarInv, NEW r \in Requests, UpdateRow(r)
  PROVE  AvatarInv'
<1> DEFINE k == loc[r].key
           u == loc[r].user
<1>1. /\ pc[r] = "update" /\ u \in Users /\ k \in Keys /\ uploader[k] = u /\ k \in stored
      /\ UNCHANGED <<alive, stored, uploader>>
      /\ \A v \in Users : avatar[v] # k
      /\ \A s \in Requests : loc[s].old # k /\ (s # r => loc[s].key # k)
  BY DEF UpdateRow, AvatarInv, LocalInv, KeyInv
<1>2. ASSUME NEW label \in {"dropOld", "undo"}, Goto(r, label), u \in alive,
             avatar' = [avatar EXCEPT ![u] = k],
             \/ label = "dropOld" /\ UNCHANGED <<doubted, excused>>
             \/ doubted' = doubted \cup {k} /\ excused' = excused \cup {u}
      PROVE  AvatarInv'
  <2>1. /\ pc' = [pc EXCEPT ![r] = label] /\ loc' = loc
        /\ pc'[r] = label /\ \A s \in Requests : s # r => pc'[s] = pc[s]
        /\ avatar'[u] = k /\ \A v \in Users : v # u => avatar'[v] = avatar[v]
    BY <1>1, <1>2 DEF Goto, AvatarInv, TypeOK
  <2>2. doubted \subseteq doubted' /\ excused \subseteq excused'
        /\ (label = "undo" => k \in doubted') /\ doubted' \subseteq Keys /\ excused' \subseteq Users
    BY <1>1, <1>2 DEF AvatarInv, TypeOK
  <2>3. TypeOK'
    BY <1>1, <1>2, <2>1, <2>2 DEF AvatarInv, TypeOK
  <2>4. LocalInv'
    BY <1>1, <1>2, <2>1, <2>2 DEF AvatarInv, LocalInv
  <2>5. KeyInv'
    BY <1>1, <1>2, <2>1 DEF AvatarInv, KeyInv
  <2>6. RowNamesFile'
    BY <1>1, <2>1, <2>2 DEF AvatarInv, TypeOK, RowNamesFile, Named, Served
  <2>7. OrphanInv'
    <3>1. ASSUME NEW j \in stored, uploader[j] \notin excused'
          PROVE  (Named(j))' \/ \E s \in Requests : (Pending(s, j))'
      <4>1. CASE j = k
        BY <4>1, <1>1, <1>2, <2>1 DEF Named
      <4>2. CASE j # k
        <5>1. ASSUME NEW v \in alive, avatar[v] = j
              PROVE  avatar'[v] = j \/ (Pending(r, j))'
          <6>1. CASE v = u
            <7>1. u \notin excused' /\ u \notin excused /\ avatar[u] \in Keys
              BY <6>1, <5>1, <3>1, <2>2 DEF AvatarInv, TypeOK, KeyInv
            <7>2. label = "dropOld"
              BY <7>1, <1>2
            <7>3. loc[r].old = j
              BY <7>1, <6>1, <5>1, <1>1 DEF AvatarInv, OrphanInv
            <7> QED
              BY <7>2, <7>3, <2>1 DEF Pending
          <6>2. CASE v # u
            BY <6>2, <5>1, <2>1 DEF AvatarInv, TypeOK
          <6> QED
            BY <6>1, <6>2
        <5>2. Named(j) => (Named(j))' \/ (Pending(r, j))'
          BY <1>1, <5>1 DEF Named
        <5>3. \A s \in Requests : Pending(s, j) => (Pending(s, j))'
          BY <1>1, <2>1, <4>2 DEF Pending
        <5> QED
          BY <2>2, <3>1, <5>2, <5>3 DEF AvatarInv, OrphanInv
      <4> QED
        BY <4>1, <4>2
    <3>2. ASSUME NEW s \in Requests, pc'[s] \in {"put", "update", "deleteRow"},
                 loc[s].user \notin excused', avatar'[loc[s].user] \in Keys
          PROVE  loc[s].old = avatar'[loc[s].user]
      <4>1. s # r /\ loc[s].user # u
        BY <3>2, <1>1, <1>2, <2>1, <2>2 DEF AvatarInv, OrphanInv
      <4>2. loc[s].user \in Users
        BY <3>2, <4>1, <2>1 DEF AvatarInv, LocalInv
      <4> QED
        BY <3>2, <4>1, <4>2, <2>1, <2>2 DEF AvatarInv, OrphanInv
    <3>3. \A s, t \in Requests :
            s # t /\ loc[s].user = loc[t].user /\ loc[s].user \in Users => loc[s].user \in excused'
      BY <2>2 DEF AvatarInv, OrphanInv
    <3> QED
      BY <3>1, <3>2, <3>3, <2>1, <1>1 DEF OrphanInv
  <2> QED
    BY <2>3, <2>4, <2>5, <2>6, <2>7 DEF AvatarInv
<1>3. CASE Goto(r, "undo") /\ UNCHANGED <<avatar, doubted, excused>>
  <2>1. /\ pc' = [pc EXCEPT ![r] = "undo"] /\ loc' = loc
        /\ pc'[r] = "undo" /\ \A s \in Requests : s # r => pc'[s] = pc[s]
    BY <1>3 DEF Goto, AvatarInv, TypeOK
  <2>2. TypeOK'
    BY <1>1, <1>3, <2>1 DEF AvatarInv, TypeOK
  <2>3. LocalInv'
    BY <1>1, <1>3, <2>1 DEF AvatarInv, LocalInv
  <2>4. KeyInv'
    BY <1>1, <1>3, <2>1 DEF AvatarInv, KeyInv
  <2>5. RowNamesFile'
    BY <1>1, <1>3 DEF AvatarInv, RowNamesFile, Named, Served
  <2>6. OrphanInv'
    BY <1>1, <1>3, <2>1 DEF AvatarInv, OrphanInv, Named, Pending
  <2> QED
    BY <2>2, <2>3, <2>4, <2>5, <2>6 DEF AvatarInv
<1> QED
  BY <1>2, <1>3 DEF UpdateRow, Excuse

LEMMA AdoptStep ==
  ASSUME AvatarInv, NEW u \in Users, SetUserAvatarIfEmpty(u)
  PROVE  AvatarInv'
<1>1. /\ \A v \in Users : avatar'[v] \in {avatar[v], Elsewhere}
                          /\ (avatar[v] \in Keys => avatar'[v] = avatar[v])
      /\ avatar' \in [Users -> Keys \cup {NoKey, Elsewhere}]
      /\ UNCHANGED <<alive, stored, pc, loc, doubted, uploader, excused>>
  BY AvatarAssumption DEF SetUserAvatarIfEmpty, AvatarInv, TypeOK
<1>2. TypeOK'
  BY <1>1 DEF AvatarInv, TypeOK
<1>3. LocalInv'
  BY <1>1, AvatarAssumption DEF AvatarInv, LocalInv, TypeOK
<1>4. KeyInv'
  BY <1>1, AvatarAssumption DEF AvatarInv, LocalInv, KeyInv
<1>5. \A k \in Keys : (Named(k))' <=> Named(k)
  BY <1>1, AvatarAssumption DEF AvatarInv, TypeOK, Named
<1>6. RowNamesFile'
  BY <1>1, <1>5 DEF AvatarInv, RowNamesFile, Served
<1>7. OrphanInv'
  <2>1. \A k \in stored : k \in Keys
    BY DEF AvatarInv, TypeOK
  <2>2. \A r \in Requests : pc[r] # "idle" => loc[r].user \in Users
    BY DEF AvatarInv, LocalInv
  <2>3. Elsewhere \notin Keys
    BY AvatarAssumption
  <2> QED
    BY <1>1, <1>5, <2>1, <2>2, <2>3 DEF AvatarInv, OrphanInv, Pending
<1> QED
  BY <1>2, <1>3, <1>4, <1>6, <1>7 DEF AvatarInv

LEMMA AvatarStep ==
  ASSUME AvatarInv, [Next]_vars
  PROVE  AvatarInv'
<1>1. ASSUME NEW r \in Requests, NEW u \in Users, Upload(r, u) \/ Delete(r, u)
      PROVE  AvatarInv'
  BY <1>1, UploadStep, DeleteStep
<1>2. ASSUME NEW r \in Requests, Step(r)
      PROVE  AvatarInv'
  <2>1. OwnKey(loc[r].old) \in Keys \cup {NoKey}
    BY DEF OwnKey
  <2>2. pc[r] = "undo" => loc[r].key \in Keys
    BY DEF AvatarInv, LocalInv
  <2> QED
    BY <1>2, <2>1, <2>2, PutStep, UpdateRowStep, DeleteRowStep, RemoveStep
      DEF Step, Undo, DropOld, DropFile
<1>3. ASSUME NEW r \in Requests, Crash(r)
      PROVE  AvatarInv'
  <2>1. /\ loc[r].user \in Users /\ excused' = excused \cup {loc[r].user}
        /\ excused' \subseteq Users /\ stored' \subseteq Keys
    BY <1>3 DEF Crash, Excuse, AvatarInv, LocalInv, TypeOK
  <2> QED
    BY <1>3, <2>1, EndStep DEF Crash
<1>4. ASSUME NEW u \in Users, SetUserAvatarIfEmpty(u)
      PROVE  AvatarInv'
  BY <1>4, AdoptStep
<1>5. CASE UNCHANGED vars
  BY <1>5 DEF vars, AvatarInv, TypeOK, LocalInv, KeyInv, RowNamesFile, OrphanInv, Named, Served,
    Pending
<1> QED
  BY <1>1, <1>2, <1>3, <1>4, <1>5 DEF Next, Arrive

\* The inductive invariant of profile pictures.
THEOREM AvatarTheorem == Spec => []AvatarInv
  BY AvatarStart, AvatarStep, PTL DEF Spec

\* Rows, files and requests keep their shape.
THEOREM AvatarTypeCorrect == Spec => []TypeOK
<1>1. AvatarInv => TypeOK
  BY DEF AvatarInv
<1> QED
  BY <1>1, AvatarTheorem, PTL

\* UploadAvatar and Delete: what the row names can be served, however requests of an account
\* overlap, fail and die, but for an UPDATE whose answer was lost.
THEOREM RowNamesFileTheorem == Spec => []RowNamesFile
<1>1. AvatarInv => RowNamesFile
  BY DEF AvatarInv
<1> QED
  BY <1>1, AvatarTheorem, PTL

\* user.go:217 and 260: no file is left behind but by requests that overlapped or failed.
THEOREM NoOrphansTheorem == Spec => []NoOrphans
<1>1. AvatarInv => NoOrphans
  BY DEF AvatarInv, OrphanInv, NoOrphans, Served, Pending, TypeOK
<1> QED
  BY <1>1, AvatarTheorem, PTL

\* oauth_accounts.sql.go:189: no step puts a provider's picture, or none, over an upload.
THEOREM UploadedStaysTheorem == Spec => UploadedStays
<1>1. ASSUME AvatarInv, [Next]_vars
      PROVE  \A u \in alive : avatar[u] \in Keys => avatar'[u] \in Keys
  <2>1. ASSUME NEW r \in Requests, UpdateRow(r)
        PROVE  \A u \in alive : avatar[u] \in Keys => avatar'[u] \in Keys
    BY <1>1, <2>1 DEF AvatarInv, LocalInv, TypeOK, UpdateRow
  <2>2. ASSUME NEW v \in Users, SetUserAvatarIfEmpty(v)
        PROVE  \A u \in alive : avatar[u] \in Keys => avatar'[u] \in Keys
    BY <1>1, <2>2, AvatarAssumption DEF SetUserAvatarIfEmpty, AvatarInv, TypeOK
  <2>3. \/ avatar' = avatar
        \/ \E r \in Requests : UpdateRow(r)
        \/ \E v \in Users : SetUserAvatarIfEmpty(v)
    BY <1>1 DEF Next, Arrive, Step, Crash, Upload, Delete, Put, Undo, DropOld, DeleteRow, DropFile,
      Remove, vars
  <2> QED
    BY <2>1, <2>2, <2>3
<1> QED
  BY <1>1, AvatarTheorem, PTL DEF Spec, UploadedStays
=============================================================================

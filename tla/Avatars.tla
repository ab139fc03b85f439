------------------------------ MODULE Avatars ------------------------------
(***************************************************************************)
(* Profile pictures: UploadAvatar and the part of Delete that is about     *)
(* them (src/app/services/user.go), over the users table and the stored    *)
(* files of src/app/lib/storage.  The row and the file are written by      *)
(* different systems, one after the other, with no transaction around.     *)
(*                                                                         *)
(* A request takes one step per access to Postgres or to the storage;      *)
(* pc[r] is the access it makes next.  The revocation of sessions inside  *)
(* Delete is in AuthFlows.                                                 *)
(***************************************************************************)
EXTENDS FiniteSets

CONSTANTS
  Users, NoUser, Requests,
  Keys,          \* storage keys; BuildKey never gives out one twice
  NoKey,         \* no picture, or no key
  Elsewhere,     \* a picture whose URL is not below PublicBaseURL
  AllowFailures  \* whether accesses may fail and processes may die

ASSUME AvatarAssumption ==
  /\ NoUser \notin Users
  /\ NoKey \notin Keys /\ Elsewhere \notin Keys /\ Elsewhere # NoKey
  /\ AllowFailures \in BOOLEAN

VARIABLES
  alive,     \* the users that have a row
  avatar,    \* avatar[u]: what avatar_url of u's row names
  stored,    \* the keys under which the storage has a file
  pc, loc, \* the requests
  doubted,   \* history: keys whose UPDATE has committed without an answer
  uploader,  \* history: the user a key was built for
  excused    \* history: users whose requests overlapped or did not finish

vars == <<alive, avatar, stored, pc, loc, doubted, uploader, excused>>

Local == [user : Users \cup {NoUser}, old : Keys \cup {NoKey, Elsewhere},
           key : Keys \cup {NoKey}]

NoLocal == [user |-> NoUser, old |-> NoKey, key |-> NoKey]

Begin(r, label, l) ==
  /\ pc[r] = "idle"
  /\ pc' = [pc EXCEPT ![r] = label]
  /\ loc' = [loc EXCEPT ![r] = l]
  /\ excused' = IF \E s \in Requests : loc[s].user = l.user
                THEN excused \cup {l.user} ELSE excused

Goto(r, label) ==
  /\ pc' = [pc EXCEPT ![r] = label]
  /\ UNCHANGED loc

Finish(r) ==
  /\ pc' = [pc EXCEPT ![r] = "idle"]
  /\ loc' = [loc EXCEPT ![r] = NoLocal]

\* Whatever failed is excused for what it leaves behind.
Excuse(r) == excused' = excused \cup {loc[r].user}

\* keyFromURL: the key to delete, when there is one.
OwnKey(a) == IF a \in Keys THEN a ELSE NoKey

\* What FileHandler.Serve has to answer with.
Served(k) == k \in stored

-----------------------------------------------------------------------------
Init ==
  /\ alive = Users
  /\ avatar = [u \in Users |-> NoKey]
  /\ stored = {}
  /\ pc = [r \in Requests |-> "idle"]
  /\ loc = [r \in Requests |-> NoLocal]
  /\ doubted = {}
  /\ uploader = [k \in Keys |-> NoUser]
  /\ excused = {}

(***************************************************************************)
(* UploadAvatar                                                            *)
(***************************************************************************)
\* GetByID, which tells the previous picture, and BuildKey.
Upload(r, u) ==
  /\ u \in alive
  /\ \E k \in Keys :
       /\ uploader[k] = NoUser
       /\ uploader' = [uploader EXCEPT ![k] = u]
       /\ Begin(r, "put", [user |-> u, old |-> avatar[u], key |-> k])
  /\ UNCHANGED <<alive, avatar, stored, doubted>>

\* Storage.Put.  An error may come from a chmod after the rename, or be an
\* answer that got lost: the file may be there, and nobody removes it.
\* (mutant) The file is written under the previous key.
Put_Old(r) ==
  /\ pc[r] = "put"
  /\ stored' = stored \cup {loc[r].old}
  /\ Goto(r, "update")
  /\ UNCHANGED <<alive, avatar, doubted, uploader, excused>>
Put(r) ==
  /\ pc[r] = "put"
  /\ \/ /\ stored' = stored \cup {loc[r].key}
        /\ Goto(r, "update")
        /\ UNCHANGED excused
     \/ /\ AllowFailures
        /\ stored' \in {stored, stored \cup {loc[r].key}}
        /\ Finish(r)
        /\ Excuse(r)
  /\ UNCHANGED <<alive, avatar, doubted, uploader>>

\* Users().Update with the new URL; no row is an error, too.
UpdateRow(r) ==
  /\ pc[r] = "update"
  /\ LET l == loc[r]
         set == avatar' = [avatar EXCEPT ![l.user] = l.key]
     IN  \/ /\ l.user \in alive
            /\ set
            /\ Goto(r, "dropOld")
            /\ UNCHANGED <<doubted, excused>>
         \/ /\ l.user \notin alive
            /\ Goto(r, "undo")
            /\ UNCHANGED <<avatar, doubted, excused>>
         \/ /\ AllowFailures
            /\ Goto(r, "undo")
            /\ \/ UNCHANGED <<avatar, doubted, excused>>
               \/ /\ l.user \in alive /\ set
                  /\ doubted' = doubted \cup {l.key}
                  /\ Excuse(r)
  /\ UNCHANGED <<alive, stored, uploader>>

\* files.Delete; deleting a missing file is no error, and a failure is logged.
Remove(r, k) ==
  /\ \/ /\ stored' = stored \ {k}
        /\ UNCHANGED excused
     \/ /\ AllowFailures
        /\ stored' \in {stored, stored \ {k}}
        /\ Excuse(r)
  /\ Finish(r)
  /\ UNCHANGED <<alive, avatar, doubted, uploader>>

\* The upload rolled back after the UPDATE's error.
\* (mutant) The error is returned and the file is left.
Undo_Leave(r) ==
  /\ pc[r] = "undo"
  /\ Remove(r, NoKey)
Undo(r) ==
  /\ pc[r] = "undo"
  /\ Remove(r, loc[r].key)

\* The previous picture.
\* (mutant) The picture the row names now is taken for the previous one.
DropOld_Reread(r) ==
  /\ pc[r] = "dropOld"
  /\ Remove(r, OwnKey(avatar[loc[r].user]))
DropOld(r) ==
  /\ pc[r] = "dropOld"
  /\ Remove(r, OwnKey(loc[r].old))

(***************************************************************************)
(* Delete                                                                  *)
(***************************************************************************)
Delete(r, u) ==
  /\ u \in alive
  /\ Begin(r, "deleteRow", [user |-> u, old |-> avatar[u], key |-> NoKey])
  /\ UNCHANGED <<alive, avatar, stored, doubted, uploader>>

\* DELETE FROM users; no row is an error that ends the request, and so is any
\* other, whether or not the row is gone.
DeleteRow(r) ==
  /\ pc[r] = "deleteRow"
  /\ LET u == loc[r].user
     IN  \/ /\ u \in alive
            /\ alive' = alive \ {u}
            /\ Goto(r, "dropFile")
            /\ UNCHANGED excused
         \/ /\ u \notin alive
            /\ Finish(r)
            /\ UNCHANGED <<alive, excused>>
         \/ /\ AllowFailures
            /\ alive' \in {alive, alive \ {u}}
            /\ Finish(r)
            /\ Excuse(r)
  /\ UNCHANGED <<avatar, stored, doubted, uploader>>

DropFile(r) ==
  /\ pc[r] = "dropFile"
  /\ Remove(r, OwnKey(loc[r].old))

-----------------------------------------------------------------------------
\* The process dies between two accesses.
Crash(r) ==
  /\ AllowFailures
  /\ pc[r] # "idle"
  /\ Excuse(r)
  /\ Finish(r)
  /\ UNCHANGED <<alive, avatar, stored, doubted, uploader>>

\* SetUserAvatarIfEmpty adopts the picture of an identity provider.  One
\* statement; no Go code calls it yet.
\* (mutant) The picture is adopted whatever the row has.
SetUserAvatarIfEmpty_Always(u) ==
  /\ u \in alive
  /\ avatar' = [avatar EXCEPT ![u] = Elsewhere]
  /\ UNCHANGED <<alive, stored, pc, loc, doubted, uploader, excused>>
SetUserAvatarIfEmpty(u) ==
  /\ u \in alive
  /\ avatar' = [avatar EXCEPT ![u] = IF @ = NoKey THEN Elsewhere ELSE @]
  /\ UNCHANGED <<alive, stored, pc, loc, doubted, uploader, excused>>

Arrive(r) == \E u \in Users : Upload(r, u) \/ Delete(r, u)

Step(r) ==
  \/ Put(r) \/ UpdateRow(r) \/ Undo(r) \/ DropOld(r)
  \/ DeleteRow(r) \/ DropFile(r)

Next ==
  \/ \E r \in Requests : Arrive(r) \/ Step(r) \/ Crash(r)
  \/ \E u \in Users : SetUserAvatarIfEmpty(u)

Spec == Init /\ [][Next]_vars

-----------------------------------------------------------------------------
TypeOK ==
  /\ alive \subseteq Users
  /\ avatar \in [Users -> Keys \cup {NoKey, Elsewhere}]
  /\ stored \subseteq Keys
  /\ pc \in [Requests -> {"idle", "put", "update", "undo", "dropOld",
                           "deleteRow", "dropFile"}]
  /\ loc \in [Requests -> Local]
  /\ doubted \subseteq Keys
  /\ uploader \in [Keys -> Users \cup {NoUser}]
  /\ excused \subseteq Users

Named(k) == \E u \in alive : avatar[u] = k

\* However uploads and deletions of one account overlap, fail and die, the row
\* names a file that can be served, unless the answer to the UPDATE that wrote
\* the name was lost.  (What is deleted: the key read before the UPDATE.)
RowNamesFile == \A k \in Keys \ doubted : Named(k) => Served(k)

\* user.go:260, "Roll back the orphaned upload", and user.go:217, "Orphaned
\* avatars are cleaned up": with no request under way a stored file is the
\* picture of its user, unless two requests of the user overlapped or one failed.
NoOrphans ==
  (\A r \in Requests : pc[r] = "idle") =>
    \A k \in Keys : Served(k) /\ uploader[k] \notin excused => Named(k)

\* oauth_accounts.sql.go:189: "a later sign-in never overwrites an uploaded
\* avatar", wherever among the steps of an upload it comes.
UploadedStays ==
  [][\A u \in alive : avatar[u] \in Keys => avatar'[u] \in Keys]_vars
=============================================================================

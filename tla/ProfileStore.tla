---------------------------- MODULE ProfileStore ----------------------------
(***************************************************************************)
(* Profiles in memory and in profiles.json (profiles/manager.py,           *)
(* profiles/storage.py), their secrets in the desktop keyring              *)
(* (system/psk_store.py), and the encrypted backup that covers both        *)
(* (backup/service.py, backup/payload.py).                                 *)
(*                                                                         *)
(* Everything runs on the Qt thread, one operation at a time. One step is  *)
(* one change of the profiles with the write of the file that follows it,  *)
(* or one call of the keyring. What makes it hard: the two stores know     *)
(* nothing of each other, each call may fail, the program may be killed    *)
(* between two of them, and an open dialog lets events in.                 *)
(***************************************************************************)
EXTENDS Naturals, Sequences, SequencesExt, FiniteSets

CONSTANTS
  Id, NoId,    \* stable profile ids
  Name,        \* visible names, compared without case
  Secret,      \* values of secrets
  Mishaps,     \* what may go wrong, see below
  MaxOps       \* bound: operations of the user

\* "save": profiles.json cannot be written. "refuse": the keyring refuses to store a value, once
\* in an operation. "locked", "gone": it is locked, or goes away, and comes back. "crash": the
\* program is killed. "meanwhile": a session starts, or a certificate is accepted, while a
\* dialog is open.
AllMishaps == {"save", "refuse", "locked", "gone", "crash", "meanwhile"}

ASSUME IdAssumption     == NoId \notin Id /\ IsFiniteSet(Id)
ASSUME NameAssumption   == IsFiniteSet(Name) /\ Cardinality(Name) >= Cardinality(Id)
ASSUME SecretAssumption == "none" \notin Secret
ASSUME BoundAssumption  == Mishaps \subseteq AllMishaps /\ MaxOps \in Nat

VARIABLES
  mem,      \* ProfileManager._profiles and _default_profile_id
  file,     \* profiles.json
  ring,     \* the keyring: a PSK and an XAuth password per id
  desk,     \* "open", "locked" or "gone": what the Secret Service does
  backup,   \* the .fvbackup file, or NoBackup
  op,       \* the operation in progress
  session,  \* the profile of the active VPN session
  spoiled,  \* history: a kill between two steps, or a call that met a closed keyring
  ops       \* history: operations so far

vars == <<mem, file, ring, desk, backup, op, session, spoiled, ops>>

----------------------------------------------------------------------------

Profile  == [name : Name, ipsec : BOOLEAN, pin : BOOLEAN]
Absent   == [name |-> "absent"]
Document == [profiles : [Id -> Profile \cup {Absent}], default : Id \cup {NoId}]
NoSecret == "none"
Kind     == {"psk", "xauth"}
Secrets  == [Kind -> Secret \cup {NoSecret}]
NoSecrets == [k \in Kind |-> NoSecret]

NoBackup == [profiles |-> [i \in Id |-> Absent], default |-> NoId,
             secrets |-> [i \in Id |-> NoSecrets], made |-> FALSE]

Ids(profiles)      == {i \in Id : profiles[i] # Absent}
NamesOf(profiles, ids) == {profiles[i].name : i \in ids \cap Ids(profiles)}
Taken(i)           == NamesOf(mem.profiles, Id \ {i})

\* Stores a value, or deletes it when there is none.
Put(i, k, v) == [call |-> "put", id |-> i, kind |-> k, value |-> v]
Install      == [call |-> "install", id |-> NoId, kind |-> "psk", value |-> NoSecret]
Call == [call : {"put", "install"}, id : Id \cup {NoId}, kind : Kind,
         value : Secret \cup {NoSecret}]

NoProfiles == [profiles |-> NoBackup.profiles, default |-> NoId]

\* id, seen: the profile under edit and its pin as the dialog read it. plan: what a restore
\* will write. left: the items of the backup that its loop has not reached. todo: the calls to
\* come. applied, read, before: what the rollback goes back to.
Idle == [name |-> "idle", id |-> NoId, seen |-> FALSE, plan |-> NoBackup, left |-> {}, todo |-> <<>>,
         applied |-> <<>>, read |-> NoSecrets,
         before |-> [mem |-> NoProfiles, file |-> NoProfiles, ring |-> NoBackup.secrets],
         refused |-> FALSE]
Doing(name, calls) == [Idle EXCEPT !.name = name, !.todo = calls]

BackupDocument ==
  [profiles : [Id -> Profile \cup {Absent}], default : Id \cup {NoId},
   secrets : [Id -> Secrets], made : BOOLEAN]

Operation ==
  [name : {"idle", "editing", "calls", "planning", "confirm", "restore", "rollback"},
   id : Id \cup {NoId}, seen : BOOLEAN, plan : BackupDocument, left : SUBSET Id,
   todo : Seq(Call), applied : Seq(Call), read : Secrets,
   before : [mem : Document, file : Document, ring : [Id -> Secrets]], refused : BOOLEAN]

TypeOK ==
  /\ mem \in Document /\ file \in Document
  /\ ring \in [Id -> Secrets]
  /\ desk \in {"open", "locked", "gone"}
  /\ backup \in BackupDocument
  /\ op \in Operation
  /\ session \in Id \cup {NoId} /\ spoiled \in BOOLEAN /\ ops \in 0 .. MaxOps

Init ==
  /\ mem = NoProfiles /\ file = NoProfiles
  /\ ring = NoBackup.secrets /\ desk = "open"
  /\ backup = NoBackup /\ op = Idle /\ session = NoId
  /\ spoiled = FALSE /\ ops = 0

----------------------------------------------------------------------------
(* The two stores *)

\* SecretServicePskStore._get: a locked or missing keyring reads as empty.
Get(i) == IF desk = "open" THEN ring[i] ELSE NoSecrets

\* _persist_and_notify: the profiles become p and are written; when the write fails the
\* exception leaves the operation and the profiles stay changed. then: the operation after
\* a write, otherwise: after a failed one.
Persist(p, then, otherwise) ==
  /\ mem' = p
  /\ \E written \in IF "save" \in Mishaps THEN BOOLEAN ELSE {TRUE} :
       /\ file' = IF written THEN p ELSE file
       /\ op' = IF written THEN then ELSE otherwise

\* load: an unknown default is dropped.
Loaded(doc) == [doc EXCEPT !.default = IF @ \in Ids(doc.profiles) THEN @ ELSE NoId]

Begin == op = Idle /\ ops < MaxOps /\ ops' = ops + 1

\* A fresh uuid: no store has ever seen it.
Fresh(i) == mem.profiles[i] = Absent /\ file.profiles[i] = Absent /\ ring[i] = NoSecrets
            /\ backup.profiles[i] = Absent

With(i, p) == [mem EXCEPT !.profiles[i] = p]

----------------------------------------------------------------------------
(* The profile editor *)

\* ProfileEditorDialog._persist_psk, once the profile has been saved: an SSL profile keeps no
\* secrets; a blank key keeps the stored one.
PersistPsk(i, ipsec, typed, keep) ==
  IF ~ipsec THEN <<Put(i, "psk", NoSecret), Put(i, "xauth", NoSecret)>>
  ELSE IF desk = "gone" THEN <<>>
  ELSE IF ~keep THEN <<Put(i, "psk", NoSecret)>>
  ELSE IF typed = NoSecret THEN <<>> ELSE <<Put(i, "psk", typed)>>

\* A new profile: add, then its key.
Add(i, n, ipsec, typed, keep) ==
  /\ Begin /\ Fresh(i) /\ n \notin Taken(i)
  /\ Persist(With(i, [name |-> n, ipsec |-> ipsec, pin |-> FALSE]),
             Doing("calls", PersistPsk(i, ipsec, typed, keep)), Idle)
  /\ UNCHANGED <<ring, desk, backup, session, spoiled>>

\* The dialog reads the profile when it opens, its pin included.
OpenEditor(i) ==
  /\ Begin /\ mem.profiles[i] # Absent
  /\ op' = [Idle EXCEPT !.name = "editing", !.id = i, !.seen = mem.profiles[i].pin]
  /\ UNCHANGED <<mem, file, ring, desk, backup, session, spoiled>>

\* Save: update with the pin the dialog has read, or none when it was cleared.
SaveEditor(n, ipsec, clear, typed, keep) ==
  /\ op.name = "editing" /\ n \notin Taken(op.id)
  /\ Persist(With(op.id, [name |-> n, ipsec |-> ipsec, pin |-> op.seen /\ ~clear]),
             Doing("calls", PersistPsk(op.id, ipsec, typed, keep)), Idle)
  /\ UNCHANGED <<ring, desk, backup, session, spoiled, ops>>

CancelDialog ==
  /\ op.name \in {"editing", "confirm"}
  /\ op' = Idle
  /\ UNCHANGED <<mem, file, ring, desk, backup, session, spoiled, ops>>

----------------------------------------------------------------------------
(* The other operations on profiles *)

\* duplicate, and import of an exported profile: a new id, a free name and no secrets. p is
\* the copy of a profile that is here, or comes from a file.
Copy(i, p) ==
  /\ Begin /\ Fresh(i) /\ p.name \notin Taken(i)
  /\ Persist(With(i, p), Idle, Idle)
  /\ UNCHANGED <<ring, desk, backup, session, spoiled>>

SetDefault(i) ==
  /\ Begin /\ mem.profiles[i] # Absent /\ mem.default # i
  /\ Persist([mem EXCEPT !.default = i], Idle, Idle)
  /\ UNCHANGED <<ring, desk, backup, session, spoiled>>

\* Mutant: the XAuth password is forgotten.
DeleteKeepsPassword(i) ==
  /\ Begin /\ mem.profiles[i] # Absent
  /\ Persist([profiles |-> [mem.profiles EXCEPT ![i] = Absent],
              default  |-> IF mem.default = i THEN NoId ELSE mem.default],
             Doing("calls", <<Put(i, "psk", NoSecret)>>), Idle)
  /\ UNCHANGED <<ring, desk, backup, session, spoiled>>

\* delete: the file first, then delete_all.
Delete(i) ==
  /\ Begin /\ mem.profiles[i] # Absent
  /\ Persist([profiles |-> [mem.profiles EXCEPT ![i] = Absent],
              default  |-> IF mem.default = i THEN NoId ELSE mem.default],
             Doing("calls", <<Put(i, "psk", NoSecret), Put(i, "xauth", NoSecret)>>), Idle)
  /\ UNCHANGED <<ring, desk, backup, session, spoiled>>

\* Connecting an IPsec profile asks for what is missing, keeps the user's name in the
\* profile when it is a new one (set_username_hint) and stores or forgets the password
\* (prompt_ipsec_credentials).
Credentials(i, typed, keep) ==
  LET store == IF desk = "gone" \/ (keep /\ Get(i)["xauth"] # NoSecret) THEN Idle
               ELSE Doing("calls", <<Put(i, "xauth", IF keep THEN typed ELSE NoSecret)>>)
  IN
  /\ Begin /\ mem.profiles[i] # Absent /\ mem.profiles[i].ipsec
  /\ \/ Persist(mem, store, Idle)
     \/ op' = store /\ UNCHANGED <<mem, file>>
  /\ UNCHANGED <<ring, desk, backup, session, spoiled>>

\* "Forget" buttons of the editor.
Forget(k) ==
  /\ op.name = "editing" /\ Get(op.id)[k] # NoSecret
  /\ ring' = [ring EXCEPT ![op.id][k] = NoSecret]
  /\ UNCHANGED <<mem, file, desk, backup, op, session, spoiled, ops>>

----------------------------------------------------------------------------
(* Backup and restore *)

\* create_backup: what cannot be read from the keyring is left out.
CreateBackup ==
  /\ Begin
  /\ backup' = [profiles |-> mem.profiles, default |-> mem.default, made |-> TRUE,
                secrets |-> [i \in Id |-> IF mem.profiles[i] = Absent THEN NoSecrets ELSE Get(i)]]
  /\ op' = Idle
  /\ UNCHANGED <<mem, file, ring, desk, session, spoiled>>

\* restore_backup reads the file; the plan has no item yet.
BeginRestore ==
  /\ Begin /\ backup.made
  /\ op' = [Idle EXCEPT !.name = "planning", !.left = Ids(backup.profiles),
                        !.plan = [backup EXCEPT !.profiles = NoBackup.profiles]]
  /\ UNCHANGED <<mem, file, ring, desk, backup, session, spoiled>>

Kept == Id \ Ids(backup.profiles)

\* Mutant: names are not looked at.
PlanItemAsIs(i) ==
  /\ op.name = "planning" /\ i \in op.left
  /\ op' = [op EXCEPT !.left = @ \ {i}, !.plan.profiles[i] = backup.profiles[i]]
  /\ UNCHANGED <<mem, file, ring, desk, backup, session, spoiled, ops>>

\* plan_restore: one item after the other keeps its name unless a profile that stays, or an
\* item before it, has it.
PlanItem(i) ==
  /\ op.name = "planning" /\ i \in op.left
  /\ LET taken == NamesOf(mem.profiles, Kept) \cup NamesOf(op.plan.profiles, Id)
         n     == backup.profiles[i].name
     IN op' = [op EXCEPT !.left = @ \ {i}, !.plan.profiles[i] = [backup.profiles[i] EXCEPT
                 !.name = IF n \in taken THEN CHOOSE m \in Name : m \notin taken ELSE n]]
  /\ UNCHANGED <<mem, file, ring, desk, backup, session, spoiled, ops>>

HasSecrets(plan) == \E i \in Id : plan.secrets[i] # NoSecrets
Replaced(plan)   == Ids(plan.profiles) \cap Ids(mem.profiles)

\* The end of preflight_restore: it is refused, or the user is asked.
Preflight ==
  /\ op.name = "planning" /\ op.left = {}
  /\ op' = IF (HasSecrets(op.plan) /\ desk = "gone") \/ session \in Replaced(op.plan) THEN Idle
           ELSE [op EXCEPT !.name = "confirm"]
  /\ UNCHANGED <<mem, file, ring, desk, backup, session, spoiled, ops>>

\* merged_profiles and install_profiles: the items over what is there now.
Merged(plan) ==
  LET profiles == [i \in Id |-> IF plan.profiles[i] = Absent THEN mem.profiles[i]
                                                           ELSE plan.profiles[i]]
  IN [profiles |-> profiles,
      default  |-> IF plan.default \in Ids(profiles) THEN plan.default ELSE NoId]

\* _commit_restore up to the first secret. A failed write is rolled back with
\* profiles_written still False: the profiles in memory stay.
Commit ==
  /\ op.name = "confirm"
  /\ LET start == [op EXCEPT !.before = [mem |-> mem, file |-> file, ring |-> ring]]
     IN Persist(Merged(op.plan),
                [start EXCEPT !.name = "restore", !.left = Ids(op.plan.profiles)],
                [start EXCEPT !.name = "rollback"])
  /\ UNCHANGED <<ring, desk, backup, session, spoiled, ops>>

----------------------------------------------------------------------------
(* The calls of the keyring *)

Now    == Head(op.todo)
Passed == [op EXCEPT !.todo = Tail(@)]

\* _write_secrets remembers, of every call that went well, what was there before.
Done ==
  IF op.name = "restore"
  THEN [Passed EXCEPT !.applied = Append(@, Put(Now.id, Now.kind, op.read[Now.kind]))]
  ELSE Passed

\* Mutant: only secrets that the backup has are written.
ItemCallsSetOnly(plan, i) ==
  SelectSeq(<<Put(i, "psk", plan.secrets[i]["psk"]), Put(i, "xauth", plan.secrets[i]["xauth"])>>,
            LAMBDA c : c.value # NoSecret)

ItemCalls(plan, i) ==
  <<Put(i, "psk", plan.secrets[i]["psk"]), Put(i, "xauth", plan.secrets[i]["xauth"])>>

\* _write_secrets comes to the next item, whose secrets it reads first.
ReadSecrets(i) ==
  /\ op.name = "restore" /\ op.todo = <<>> /\ i \in op.left
  /\ op' = [op EXCEPT !.left = @ \ {i}, !.todo = ItemCalls(op.plan, i), !.read = Get(i)]
  /\ spoiled' = (spoiled \/ desk # "open")
  /\ UNCHANGED <<mem, file, ring, desk, backup, session, ops>>

DeleteSecret ==
  /\ op.todo # <<>> /\ Now.call = "put" /\ Now.value = NoSecret
  /\ ring' = IF desk = "open" THEN [ring EXCEPT ![Now.id][Now.kind] = NoSecret] ELSE ring
  /\ op' = Done
  /\ spoiled' = (spoiled \/ desk # "open")
  /\ UNCHANGED <<mem, file, desk, backup, session, ops>>

SetSecret ==
  /\ op.todo # <<>> /\ Now.call = "put" /\ Now.value # NoSecret /\ desk = "open"
  /\ ring' = [ring EXCEPT ![Now.id][Now.kind] = Now.value]
  /\ op' = Done
  /\ UNCHANGED <<mem, file, desk, backup, session, spoiled, ops>>

\* Mutant: the profiles are not put back.
RollBackSecrets == [op EXCEPT !.name = "rollback", !.left = {}, !.todo = Reverse(op.applied)]

\* _rollback: the secrets in reverse order, then the profiles.
RollBack ==
  [op EXCEPT !.name = "rollback", !.left = {}, !.todo = Append(Reverse(op.applied), Install)]

\* PskStoreError: the restore is rolled back, the rollback goes on, anything else ends.
SetFails ==
  /\ op.todo # <<>> /\ Now.call = "put" /\ Now.value # NoSecret
  /\ \/ desk # "open" /\ spoiled' = TRUE
     \/ "refuse" \in Mishaps /\ desk = "open" /\ ~op.refused /\ spoiled' = spoiled
  /\ op' = CASE op.name = "restore"  -> [RollBack EXCEPT !.refused = TRUE]
             [] op.name = "rollback" -> [Passed EXCEPT !.refused = TRUE]
             [] OTHER -> Idle
  /\ UNCHANGED <<mem, file, ring, desk, backup, session, ops>>

\* install_profiles(previous_profiles) at the end of the rollback.
RollBackProfiles ==
  /\ op.todo # <<>> /\ Now.call = "install"
  /\ Persist(op.before.mem, Passed, Passed)
  /\ UNCHANGED <<ring, desk, backup, session, spoiled, ops>>

Finish ==
  /\ op.name \in {"calls", "restore", "rollback"} /\ op.todo = <<>>
  /\ op.name = "restore" => op.left = {}
  /\ op' = Idle
  /\ UNCHANGED <<mem, file, ring, desk, backup, session, spoiled, ops>>

----------------------------------------------------------------------------
(* The world around *)

InDialog == op.name \in {"editing", "confirm"}
Open     == op = Idle \/ ("meanwhile" \in Mishaps /\ InDialog)

SessionStarts(i) ==
  /\ Open /\ session = NoId /\ mem.profiles[i] # Absent
  /\ session' = i
  /\ UNCHANGED <<mem, file, ring, desk, backup, op, spoiled, ops>>

SessionEnds ==
  /\ Open /\ session # NoId
  /\ session' = NoId
  /\ UNCHANGED <<mem, file, ring, desk, backup, op, spoiled, ops>>

\* The certificate dialog: set_trusted_certificate on the profile of the session.
Pin ==
  /\ Open /\ session # NoId /\ mem.profiles[session] # Absent /\ ~mem.profiles[session].pin
  /\ ~mem.profiles[session].ipsec
  /\ Persist([mem EXCEPT !.profiles[session].pin = TRUE], op, op)
  /\ UNCHANGED <<ring, desk, backup, session, spoiled, ops>>

KeyringChanges ==
  /\ desk' \in IF desk = "open" THEN {"locked", "gone"} \cap Mishaps ELSE {"open"}
  /\ UNCHANGED <<mem, file, ring, backup, op, session, spoiled, ops>>

\* Killed, and started again.
Restart ==
  /\ "crash" \in Mishaps
  /\ mem' = Loaded(file) /\ op' = Idle /\ session' = NoId
  /\ spoiled' = (spoiled \/ op.name \in {"calls", "restore", "rollback"})
  /\ UNCHANGED <<file, ring, desk, backup, ops>>
----------------------------------------------------------------------------

Typed == Secret \cup {NoSecret}

UserStep ==
  \/ \E i \in Id, n \in Name, ipsec, keep \in BOOLEAN, typed \in Typed : Add(i, n, ipsec, typed, keep)
  \/ \E i \in Id : OpenEditor(i)
  \/ \E n \in Name, ipsec, clear, keep \in BOOLEAN, typed \in Typed :
       SaveEditor(n, ipsec, clear, typed, keep)
  \/ \E k \in Kind : Forget(k)
  \/ CancelDialog
  \/ \E i \in Id, p \in Profile : Copy(i, p)
  \/ \E i \in Id : SetDefault(i) \/ Delete(i)
  \/ \E i \in Id, typed \in Secret, keep \in BOOLEAN : Credentials(i, typed, keep)
  \/ CreateBackup \/ BeginRestore \/ (\E i \in Id : PlanItem(i)) \/ Preflight \/ Commit

KeyringStep ==
  (\E i \in Id : ReadSecrets(i)) \/ DeleteSecret \/ SetSecret \/ SetFails \/ RollBackProfiles \/ Finish

WorldStep ==
  \/ \E i \in Id : SessionStarts(i)
  \/ SessionEnds \/ Pin \/ KeyringChanges \/ Restart

\* The bound on operations reached, with nothing under way, is the end of the model.
Over == op = Idle /\ ops = MaxOps /\ UNCHANGED vars

Next == UserStep \/ KeyringStep \/ WorldStep \/ Over

Spec == Init /\ [][Next]_vars

----------------------------------------------------------------------------

\* The state has its types; there is one default or none, it is a profile that exists, and no
\* two profiles have the same name: in memory and in the file, whatever was copied, imported or restored.
WellFormed ==
  /\ TypeOK
  /\ \A doc \in {mem, file} :
       /\ doc.default \in Ids(doc.profiles) \cup {NoId}
       /\ \A i, j \in Ids(doc.profiles) : doc.profiles[i].name = doc.profiles[j].name => i = j

\* "Saved passwords and the IPsec pre-shared key for this profile will also be removed":
\* between operations the keyring holds secrets of existing IPsec profiles only (delete,
\* _persist_psk after a change of type, restore of a backup over other profiles).
NoOrphans ==
  op = Idle /\ ~spoiled =>
    \A i \in Id : ring[i] # NoSecrets => i \in Ids(mem.profiles) /\ mem.profiles[i].ipsec

\* "Restore is all-or-nothing": one that failed has left the profiles in memory, the file
\* and the keyring as they were (_rollback).
RestoreAtomic ==
  op.name = "rollback" /\ op.todo = <<>> /\ ~spoiled =>
    /\ mem = op.before.mem /\ file = op.before.file
    /\ ring = op.before.ring

\* A restore that succeeded has given every profile of the backup the secrets it has there,
\* and no others, and has touched no other profile (_write_secrets, merged_profiles).
RestoreExact ==
  op.name = "restore" /\ op.left = {} /\ op.todo = <<>> /\ ~spoiled =>
    \A i \in Id :
      IF i \in Ids(op.plan.profiles)
      THEN ring[i] = op.plan.secrets[i] /\ mem.profiles[i] = op.plan.profiles[i]
      ELSE ring[i] = op.before.ring[i] /\ mem.profiles[i] = op.before.mem.profiles[i]
=============================================================================

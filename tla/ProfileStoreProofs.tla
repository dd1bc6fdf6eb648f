------------------------- MODULE ProfileStoreProofs -------------------------
(***************************************************************************)
(* Proofs about ProfileStore, for any ids, names, secrets, number of       *)
(* operations and mishaps (but for an unwritable file where the theorem    *)
(* says so).                                                               *)
(***************************************************************************)
EXTENDS ProfileStore, FiniteSetTheorems, TLAPS

----------------------------------------------------------------------------
(* Values *)

USE DEF NoSecret, Kind

LEMMA ProfileFields ==
  /\ \A n \in Name, ipsec, pin \in BOOLEAN :
       LET p == [name |-> n, ipsec |-> ipsec, pin |-> pin] IN
       p \in Profile /\ p.name = n /\ p.ipsec = ipsec
  /\ \A p \in Profile : p # Absent /\ p.name \in Name /\ p.ipsec \in BOOLEAN /\ p.pin \in BOOLEAN
  /\ \A p \in Profile, n \in Name :
       [p EXCEPT !.name = n] \in Profile /\ [p EXCEPT !.name = n].name = n
         /\ [p EXCEPT !.name = n].ipsec = p.ipsec
  /\ \A p \in Profile :
       [p EXCEPT !.pin = TRUE] \in Profile /\ [p EXCEPT !.pin = TRUE].name = p.name
         /\ [p EXCEPT !.pin = TRUE].ipsec = p.ipsec
<1>1. \A n \in Name, ipsec, pin \in BOOLEAN :
        LET p == [name |-> n, ipsec |-> ipsec, pin |-> pin] IN
        p \in Profile /\ p.name = n /\ p.ipsec = ipsec
  BY DEF Profile
<1>2. \A p \in Profile : p # Absent
  BY DEF Profile, Absent
<1>3. \A p \in Profile : p.name \in Name /\ p.ipsec \in BOOLEAN /\ p.pin \in BOOLEAN
  BY DEF Profile
<1>4. \A p \in Profile, n \in Name :
        [p EXCEPT !.name = n] \in Profile /\ [p EXCEPT !.name = n].name = n
          /\ [p EXCEPT !.name = n].ipsec = p.ipsec
  BY DEF Profile
<1>5. \A p \in Profile :
        [p EXCEPT !.pin = TRUE] \in Profile /\ [p EXCEPT !.pin = TRUE].name = p.name
          /\ [p EXCEPT !.pin = TRUE].ipsec = p.ipsec
  BY DEF Profile
<1> QED
  BY <1>1, <1>2, <1>3, <1>4, <1>5

ProfilesOf == [Id -> Profile \cup {Absent}]

LEMMA DocumentFields ==
  /\ \A p \in ProfilesOf, d \in Id \cup {NoId} :
       /\ [profiles |-> p, default |-> d] \in Document
       /\ [profiles |-> p, default |-> d].profiles = p
       /\ [profiles |-> p, default |-> d].default = d
  /\ \A doc \in Document : doc.profiles \in ProfilesOf /\ doc.default \in Id \cup {NoId}
  /\ \A doc \in Document, d \in Id \cup {NoId} :
       /\ [doc EXCEPT !.default = d] \in Document
       /\ [doc EXCEPT !.default = d].default = d
       /\ [doc EXCEPT !.default = d].profiles = doc.profiles
  /\ \A doc \in Document, i \in Id, p \in Profile \cup {Absent} :
       /\ [doc EXCEPT !.profiles[i] = p] \in Document
       /\ [doc EXCEPT !.profiles[i] = p].default = doc.default
       /\ [doc EXCEPT !.profiles[i] = p].profiles = [doc.profiles EXCEPT ![i] = p]
  BY DEF Document, ProfilesOf

LEMMA BackupFields ==
  /\ \A b \in BackupDocument :
       /\ b.profiles \in ProfilesOf /\ b.default \in Id \cup {NoId}
       /\ b.secrets \in [Id -> Secrets] /\ b.made \in BOOLEAN
  /\ \A b \in BackupDocument, p \in ProfilesOf :
       /\ [b EXCEPT !.profiles = p] \in BackupDocument
       /\ [b EXCEPT !.profiles = p].profiles = p
       /\ [b EXCEPT !.profiles = p].default = b.default
       /\ [b EXCEPT !.profiles = p].secrets = b.secrets
  BY DEF BackupDocument, ProfilesOf

LEMMA NoBackupType ==
  /\ NoBackup \in BackupDocument /\ NoBackup.profiles \in ProfilesOf
  /\ NoSecrets \in Secrets
  /\ NoBackup.secrets \in [Id -> Secrets]
  /\ \A i \in Id : NoBackup.profiles[i] = Absent /\ NoBackup.secrets[i] = NoSecrets
  /\ \A k \in Kind : NoSecrets[k] = NoSecret
  /\ Ids(NoBackup.profiles) = {}
  /\ NoProfiles \in Document /\ NoProfiles.profiles = NoBackup.profiles /\ NoProfiles.default = NoId
  BY DEF NoBackup, BackupDocument, ProfilesOf, NoSecrets, Secrets, Ids, NoProfiles, Document

LEMMA PutFields ==
  ASSUME NEW i \in Id \cup {NoId}, NEW k \in Kind, NEW v \in Secret \cup {NoSecret}
  PROVE  /\ Put(i, k, v) \in Call /\ Put(i, k, v).call = "put" /\ Put(i, k, v).id = i
         /\ Put(i, k, v).kind = k /\ Put(i, k, v).value = v
  BY DEF Put, Call

LEMMA InstallFields ==
  Install \in Call /\ Install.call = "install" /\ Install.value = NoSecret
  BY DEF Install, Call

\* The fields of an operation, and what an assignment to some of them leaves.
LEMMA IdleFields ==
  /\ Idle \in Operation
  /\ Idle.name = "idle" /\ Idle.todo = <<>> /\ Idle.applied = <<>> /\ Idle.left = {}
  /\ Idle.plan = NoBackup /\ Idle.refused = FALSE
  /\ Idle.before.mem = NoProfiles /\ Idle.before.file = NoProfiles
  /\ Idle.before.ring = NoBackup.secrets
  BY NoBackupType DEF Idle, Operation

LEMMA DoingFields ==
  ASSUME NEW calls \in Seq(Call)
  PROVE  LET o == Doing("calls", calls) IN
         /\ o \in Operation /\ o.name = "calls" /\ o.todo = calls /\ o.applied = <<>>
         /\ o.before = Idle.before /\ o.plan = NoBackup
  BY IdleFields, NoBackupType DEF Doing, Idle, Operation

LEMMA OperationFields ==
  \A o \in Operation :
    /\ o.id \in Id \cup {NoId} /\ o.seen \in BOOLEAN /\ o.plan \in BackupDocument
    /\ o.left \in SUBSET Id /\ o.todo \in Seq(Call) /\ o.applied \in Seq(Call)
    /\ o.read \in Secrets /\ o.before.mem \in Document /\ o.before.file \in Document
    /\ o.before.ring \in [Id -> Secrets] /\ o.refused \in BOOLEAN
  BY DEF Operation

----------------------------------------------------------------------------
(* The documents stay well formed *)

Distinct(profiles) == \A i, j \in Ids(profiles) : profiles[i].name = profiles[j].name => i = j
GoodDoc(doc) == doc \in Document /\ doc.default \in Ids(doc.profiles) \cup {NoId} /\ Distinct(doc.profiles)

\* The items of a restore that are planned differ in their names from one another and from
\* the profiles that stay.
PlanWell ==
  op.name \in {"planning", "confirm"} =>
    /\ op.left \subseteq Ids(backup.profiles)
    /\ Ids(op.plan.profiles) = Ids(backup.profiles) \ op.left
    /\ Distinct(op.plan.profiles)
    /\ \A i \in Ids(op.plan.profiles), j \in Ids(mem.profiles) \ Ids(backup.profiles) :
         op.plan.profiles[i].name # mem.profiles[j].name
    /\ op.name = "confirm" => op.left = {}

EditWell == op.name = "editing" => op.id \in Id

WInv == TypeOK /\ GoodDoc(mem) /\ GoodDoc(file) /\ GoodDoc(op.before.mem) /\ PlanWell /\ EditWell

LEMMA ProfileAt ==
  ASSUME NEW profiles \in ProfilesOf, NEW i \in Id
  PROVE  /\ i \in Ids(profiles) <=> profiles[i] # Absent
         /\ i \in Ids(profiles) <=> profiles[i] \in Profile
  BY ProfileFields DEF Ids, ProfilesOf

LEMMA WithProfile ==
  ASSUME NEW profiles \in ProfilesOf, NEW new \in ProfilesOf, NEW i \in Id, new[i] \in Profile,
         \A j \in Id \ {i} : new[j] = profiles[j]
  PROVE  /\ Ids(new) = Ids(profiles) \cup {i}
         /\ Distinct(profiles) /\ new[i].name \notin NamesOf(profiles, Id \ {i}) => Distinct(new)
<1>2. Ids(new) = Ids(profiles) \cup {i}
  BY ProfileFields DEF Ids
<1>3. ASSUME Distinct(profiles), new[i].name \notin NamesOf(profiles, Id \ {i})
      PROVE  Distinct(new)
  <2> SUFFICES ASSUME NEW j \in Ids(new), NEW k \in Ids(new), new[j].name = new[k].name
               PROVE  j = k
    BY DEF Distinct
  <2>1. \A n \in Ids(profiles) \ {i} : profiles[n].name # new[i].name
    BY <1>3 DEF NamesOf, Ids
  <2>2. j \in Id /\ k \in Id
    BY DEF Ids
  <2>3. CASE j # i /\ k # i
    BY <2>3, <2>2, <1>2, <1>3 DEF Distinct
  <2>4. CASE j = i /\ k # i
    BY <2>4, <2>1, <2>2, <1>2
  <2>5. CASE j # i /\ k = i
    BY <2>5, <2>1, <2>2, <1>2
  <2> QED
    BY <2>3, <2>4, <2>5
<1> QED
  BY <1>2, <1>3

\* One profile set, and the default left alone.
LEMMA WithGood ==
  ASSUME NEW doc, GoodDoc(doc), NEW i \in Id, NEW p \in Profile,
         p.name \notin NamesOf(doc.profiles, Id \ {i})
  PROVE  LET new == [doc EXCEPT !.profiles[i] = p] IN
         GoodDoc(new) /\ new.profiles = [doc.profiles EXCEPT ![i] = p]
<1>1. doc \in Document /\ doc.profiles \in ProfilesOf
  BY DocumentFields DEF GoodDoc
<1> DEFINE new == [doc EXCEPT !.profiles[i] = p]
<1>2. new \in Document /\ new.default = doc.default /\ new.profiles = [doc.profiles EXCEPT ![i] = p]
  BY <1>1, DocumentFields
<1> HIDE DEF new
<1>5. new.profiles \in ProfilesOf /\ new.profiles[i] = p
        /\ \A j \in Id \ {i} : new.profiles[j] = doc.profiles[j]
  BY <1>1, <1>2 DEF ProfilesOf
<1>3. Distinct(new.profiles) /\ Ids(new.profiles) = Ids(doc.profiles) \cup {i}
  BY <1>1, <1>5, WithProfile DEF GoodDoc
<1>4. GoodDoc(new)
  BY <1>2, <1>3 DEF GoodDoc
<1> QED
  BY <1>2, <1>4 DEF new

\* A write changes both documents or the one in memory only.
LEMMA Persisted ==
  ASSUME NEW p, NEW then, NEW otherwise, Persist(p, then, otherwise),
         GoodDoc(p), GoodDoc(file)
  PROVE  /\ GoodDoc(mem') /\ GoodDoc(file') /\ mem' = p
         /\ op' \in {then, otherwise}
  BY DEF Persist

LEMMA WInvInit == Init => WInv
<1> SUFFICES ASSUME Init PROVE WInv
  OBVIOUS
<1>1. GoodDoc(NoProfiles)
  BY NoBackupType DEF GoodDoc, Distinct
<1>2. TypeOK
  <2>1. mem \in Document /\ file \in Document /\ ring \in [Id -> Secrets]
    BY NoBackupType DEF Init
  <2>2. backup \in BackupDocument /\ op \in Operation
    BY NoBackupType, IdleFields DEF Init
  <2>3. /\ desk \in {"open", "locked", "gone"} /\ session \in Id \cup {NoId}
        /\ ops \in 0 .. MaxOps
    BY BoundAssumption DEF Init
  <2>4. spoiled \in BOOLEAN
    BY DEF Init
  <2> QED
    BY <2>1, <2>2, <2>3, <2>4 DEF TypeOK
<1>3. PlanWell /\ EditWell
  BY IdleFields DEF Init, PlanWell, EditWell
<1> QED
  BY <1>1, <1>2, <1>3, IdleFields DEF Init, WInv

\* An operation that is not a restore in preparation.
LEMMA Unplanned ==
  ASSUME WInv, NEW o \in Operation, o.name \notin {"planning", "confirm"},
         o.name = "editing" => o.id \in Id, GoodDoc(o.before.mem), op' = o, TypeOK', GoodDoc(mem'), GoodDoc(file')
  PROVE  WInv'
  BY DEF WInv, PlanWell, EditWell

LEMMA IdleGood == GoodDoc(Idle.before.mem)
  BY NoBackupType, IdleFields DEF GoodDoc, Distinct

LEMMA PersistPskType ==
  ASSUME NEW i \in Id, NEW ipsec \in BOOLEAN, NEW typed \in Secret \cup {NoSecret}, NEW keep \in BOOLEAN
  PROVE  PersistPsk(i, ipsec, typed, keep) \in Seq(Call)
<1>1. \A k \in Kind, v \in Secret \cup {NoSecret} : Put(i, k, v) \in Call
  BY PutFields
<1> QED
  BY <1>1 DEF PersistPsk

\* A step of the user that writes the profiles and may have keyring calls to follow.
LEMMA WriteStep ==
  ASSUME WInv, NEW p, GoodDoc(p), NEW calls \in Seq(Call), NEW after,
         after \in {Idle, Doing("calls", calls)},
         Persist(p, after, Idle), ops' \in 0 .. MaxOps,
         UNCHANGED <<ring, desk, backup, session, spoiled>>
  PROVE  WInv'
<1>1. GoodDoc(mem') /\ GoodDoc(file') /\ op' \in {Idle, Doing("calls", calls)}
  BY Persisted DEF WInv
<1>2. \A o \in {Idle, Doing("calls", calls)} : o \in Operation /\ o.name \in {"idle", "calls"}
                                          /\ GoodDoc(o.before.mem)
  BY DoingFields, IdleFields, IdleGood
<1>3. TypeOK'
  BY <1>1, <1>2 DEF WInv, TypeOK, GoodDoc
<1> QED
  BY <1>1, <1>2, <1>3, Unplanned

LEMMA BeginOps == ASSUME TypeOK, Begin PROVE ops' \in 0 .. MaxOps /\ op = Idle
  BY BoundAssumption DEF TypeOK, Begin

LEMMA AddWell ==
  ASSUME WInv, NEW i \in Id, NEW n \in Name, NEW ipsec \in BOOLEAN, NEW keep \in BOOLEAN,
         NEW typed \in Typed, Add(i, n, ipsec, typed, keep)
  PROVE  WInv'
<1> DEFINE p == [name |-> n, ipsec |-> ipsec, pin |-> FALSE]
<1>1. p \in Profile /\ p.name = n
  BY ProfileFields
<1> HIDE DEF p
<1>2. GoodDoc(With(i, p))
  BY <1>1, WithGood DEF WInv, Add, With, Taken
<1>3. PersistPsk(i, ipsec, typed, keep) \in Seq(Call)
  BY PersistPskType DEF Typed
<1>4. Persist(With(i, p), Doing("calls", PersistPsk(i, ipsec, typed, keep)), Idle)
  BY DEF Add, p
<1> QED
  BY <1>2, <1>3, <1>4, WriteStep, BeginOps DEF Add, WInv

LEMMA OpenEditorWell ==
  ASSUME WInv, NEW i \in Id, OpenEditor(i)
  PROVE  WInv'
<1> DEFINE o == [Idle EXCEPT !.name = "editing", !.id = i, !.seen = mem.profiles[i].pin]
<1>1. mem.profiles \in ProfilesOf
  BY DocumentFields DEF WInv, GoodDoc
<1>2. mem.profiles[i].pin \in BOOLEAN
  BY <1>1, ProfileAt, ProfileFields DEF OpenEditor
<1>3. o \in Operation /\ o.name = "editing" /\ o.id \in Id /\ o.before = Idle.before
  BY <1>2, IdleFields DEF Operation
<1>4. op' = o
  BY DEF OpenEditor
<1> HIDE DEF o
<1>5. ops' \in 0 .. MaxOps
  BY BeginOps DEF OpenEditor, WInv
<1>6. TypeOK' /\ GoodDoc(mem') /\ GoodDoc(file')
  BY <1>3, <1>4, <1>5 DEF OpenEditor, WInv, TypeOK
<1> QED
  BY <1>3, <1>4, <1>6, IdleGood, Unplanned

LEMMA SaveEditorWell ==
  ASSUME WInv, NEW n \in Name, NEW ipsec \in BOOLEAN, NEW clear \in BOOLEAN, NEW keep \in BOOLEAN,
         NEW typed \in Typed, SaveEditor(n, ipsec, clear, typed, keep)
  PROVE  WInv'
<1> DEFINE p == [name |-> n, ipsec |-> ipsec, pin |-> op.seen /\ ~clear]
<1>0. op.id \in Id
  BY DEF WInv, EditWell, SaveEditor
<1>1. p \in Profile /\ p.name = n
  BY ProfileFields, OperationFields DEF WInv, TypeOK
<1> HIDE DEF p
<1>2. GoodDoc(With(op.id, p))
  BY <1>0, <1>1, WithGood DEF WInv, SaveEditor, With, Taken
<1>3. PersistPsk(op.id, ipsec, typed, keep) \in Seq(Call)
  BY <1>0, PersistPskType DEF Typed
<1>4. Persist(With(op.id, p), Doing("calls", PersistPsk(op.id, ipsec, typed, keep)), Idle)
  BY DEF SaveEditor, p
<1> QED
  BY <1>2, <1>3, <1>4, WriteStep DEF SaveEditor, WInv, TypeOK

\* A step that leaves the documents alone and whose operation is not a restore in preparation.
LEMMA QuietStep ==
  ASSUME WInv, op' \in Operation, op'.name \notin {"planning", "confirm"},
         op'.name = "editing" => op'.id \in Id,
         GoodDoc(op'.before.mem), UNCHANGED <<mem, file, backup, session>>,
         ring' \in [Id -> Secrets], desk' \in {"open", "locked", "gone"},
         spoiled' \in BOOLEAN, ops' \in 0 .. MaxOps
  PROVE  WInv'
<1>1. GoodDoc(mem') /\ GoodDoc(file')
  BY DEF WInv
<1>2. TypeOK'
  BY DEF WInv, TypeOK
<1> QED
  BY <1>1, <1>2, Unplanned

LEMMA CopyWell ==
  ASSUME WInv, NEW i \in Id, NEW p \in Profile, Copy(i, p)
  PROVE  WInv'
<1>1. GoodDoc(With(i, p))
  BY WithGood DEF WInv, Copy, With, Taken
<1>2. <<>> \in Seq(Call) /\ Persist(With(i, p), Idle, Idle)
  BY DEF Copy
<1> QED
  BY <1>1, <1>2, WriteStep, BeginOps DEF Copy, WInv

LEMMA SetDefaultWell ==
  ASSUME WInv, NEW i \in Id, SetDefault(i)
  PROVE  WInv'
<1> DEFINE p == [mem EXCEPT !.default = i]
<1>1. p \in Document /\ p.default = i /\ p.profiles = mem.profiles
  BY DocumentFields DEF WInv, GoodDoc
<1>2. Persist(p, Idle, Idle) /\ <<>> \in Seq(Call)
  BY DEF SetDefault
<1> HIDE DEF p
<1>3. GoodDoc(p)
  BY <1>1 DEF WInv, GoodDoc, SetDefault, Ids
<1> QED
  BY <1>2, <1>3, WriteStep, BeginOps DEF SetDefault, WInv

LEMMA DeleteWell ==
  ASSUME WInv, NEW i \in Id, Delete(i)
  PROVE  WInv'
<1> DEFINE profiles == [mem.profiles EXCEPT ![i] = Absent]
           default  == IF mem.default = i THEN NoId ELSE mem.default
           p     == [profiles |-> profiles, default |-> default]
           calls == <<Put(i, "psk", NoSecret), Put(i, "xauth", NoSecret)>>
<1>1. mem.profiles \in ProfilesOf /\ mem.default \in Id \cup {NoId}
  BY DocumentFields DEF WInv, GoodDoc
<1>2. profiles \in ProfilesOf /\ Ids(profiles) = Ids(mem.profiles) \ {i}
        /\ \A j \in Ids(profiles) : profiles[j] = mem.profiles[j]
  BY <1>1 DEF ProfilesOf, Ids
<1>3. default \in Ids(profiles) \cup {NoId}
  BY <1>2 DEF WInv, GoodDoc
<1>4. calls \in Seq(Call)
  BY PutFields
<1>5. Persist(p, Doing("calls", calls), Idle)
  BY DEF Delete
<1> HIDE DEF profiles, default, calls
<1>6. p \in Document /\ p.profiles = profiles /\ p.default = default
  BY <1>2, <1>3, DocumentFields DEF Ids
<1> HIDE DEF p
<1>7. GoodDoc(p)
  BY <1>2, <1>3, <1>6 DEF WInv, GoodDoc, Distinct
<1> QED
  BY <1>4, <1>5, <1>7, WriteStep, BeginOps DEF Delete, WInv

LEMMA CredentialsWell ==
  ASSUME WInv, NEW i \in Id, NEW typed \in Secret, NEW keep \in BOOLEAN, Credentials(i, typed, keep)
  PROVE  WInv'
<1> DEFINE calls == <<Put(i, "xauth", IF keep THEN typed ELSE NoSecret)>>
           store == IF desk = "gone" \/ (keep /\ Get(i)["xauth"] # NoSecret) THEN Idle
                    ELSE Doing("calls", calls)
<1>1. calls \in Seq(Call)
  BY PutFields
<1> HIDE DEF calls
<1>2. store \in {Idle, Doing("calls", calls)}
  OBVIOUS
<1>3. /\ Persist(mem, store, Idle) \/ (op' = store /\ UNCHANGED <<mem, file>>)
      /\ UNCHANGED <<ring, desk, backup, session, spoiled>>
      /\ ops' \in 0 .. MaxOps
  BY BeginOps DEF Credentials, calls, WInv
<1> HIDE DEF store
<1>4. CASE Persist(mem, store, Idle)
  BY <1>1, <1>2, <1>3, <1>4, WriteStep DEF WInv
<1>5. CASE op' = store /\ UNCHANGED <<mem, file>>
  <2>1. /\ op' \in Operation /\ op'.name \in {"idle", "calls"} /\ GoodDoc(op'.before.mem)
    BY <1>1, <1>2, <1>5, IdleFields, DoingFields, IdleGood
  <2> QED
    BY <2>1, <1>3, <1>5, QuietStep DEF WInv, TypeOK
<1> QED
  BY <1>3, <1>4, <1>5

\* There are names enough: fewer are taken than there are profiles.
LEMMA FreeName ==
  ASSUME NEW plan \in ProfilesOf, NEW profiles \in ProfilesOf, NEW ids \in SUBSET Id, NEW i \in Id,
         i \notin Ids(plan), i \notin ids, ids \cap Ids(plan) = {}
  PROVE  \E m \in Name : m \notin NamesOf(profiles, ids) \cup NamesOf(plan, Id)
<1> DEFINE S == (ids \cap Ids(profiles)) \cup Ids(plan)
           T == NamesOf(profiles, ids) \cup NamesOf(plan, Id)
           f == [j \in S |-> IF j \in Ids(plan) THEN plan[j].name ELSE profiles[j].name]
           U == {f[j] : j \in S}
<1>1. S \subseteq Id \ {i} /\ Ids(plan) \subseteq Id /\ Ids(profiles) \subseteq Id
  BY DEF Ids
<1>2. IsFiniteSet(S) /\ Cardinality(S) < Cardinality(Id) /\ Cardinality(Id) \in Nat
  <2>1. IsFiniteSet(Id) /\ IsFiniteSet(S) /\ Cardinality(S) <= Cardinality(Id)
          /\ (Cardinality(Id) = Cardinality(S) => Id = S)
    BY <1>1, IdAssumption, FS_Subset
  <2>2. Cardinality(Id) \in Nat /\ Cardinality(S) \in Nat
    BY <2>1, FS_CardinalityType
  <2> QED
    BY <2>1, <2>2, <1>1
<1>3. f \in Surjection(S, U)
  BY DEF Surjection
<1>4. IsFiniteSet(U) /\ Cardinality(U) <= Cardinality(S)
  BY <1>2, <1>3, FS_Surjection
<1>5. Cardinality(U) \in Nat /\ Cardinality(S) \in Nat /\ Cardinality(Name) \in Nat
  BY <1>2, <1>4, FS_CardinalityType, NameAssumption
<1> HIDE DEF S, T, f, U
<1>6. ~(Name \subseteq U)
  <2>1. Name \subseteq U => Cardinality(Name) <= Cardinality(U)
    BY <1>4, FS_Subset
  <2> QED
    BY <2>1, <1>2, <1>4, <1>5, NameAssumption
<1> USE DEF S, T, f, U
<1>7. T \subseteq U
  <2> SUFFICES ASSUME NEW n \in T PROVE n \in U
    OBVIOUS
  <2>1. CASE n \in NamesOf(plan, Id)
    <3>1. PICK j \in Ids(plan) : n = plan[j].name
      BY <2>1 DEF NamesOf
    <3>2. j \in S /\ f[j] = n
      BY <3>1
    <3> QED
      BY <3>2
  <2>2. CASE n \in NamesOf(profiles, ids)
    <3>1. PICK j \in ids \cap Ids(profiles) : n = profiles[j].name
      BY <2>2 DEF NamesOf
    <3>2. j \in S /\ j \notin Ids(plan) /\ f[j] = n
      BY <3>1
    <3> QED
      BY <3>2
  <2> QED
    BY <2>1, <2>2
<1> QED
  BY <1>6, <1>7

LEMMA CreateBackupWell ==
  ASSUME WInv, CreateBackup
  PROVE  WInv'
<1> DEFINE b == [profiles |-> mem.profiles, default |-> mem.default, made |-> TRUE,
                 secrets |-> [i \in Id |-> IF mem.profiles[i] = Absent THEN NoSecrets ELSE Get(i)]]
<1>1. mem.profiles \in ProfilesOf /\ mem.default \in Id \cup {NoId}
  BY DocumentFields DEF WInv, GoodDoc
<1>2. \A i \in Id : Get(i) \in Secrets
  BY NoBackupType DEF Get, WInv, TypeOK
<1>3. b \in BackupDocument
  BY <1>1, <1>2, NoBackupType DEF BackupDocument, ProfilesOf
<1>4. backup' = b /\ op' = Idle /\ UNCHANGED <<mem, file, ring, desk, session, spoiled>>
  BY DEF CreateBackup
<1> HIDE DEF b
<1>5. ops' \in 0 .. MaxOps
  BY BeginOps DEF CreateBackup, WInv
<1>6. TypeOK'
  BY <1>3, <1>4, <1>5, IdleFields DEF WInv, TypeOK
<1> QED
  BY <1>4, <1>6, IdleFields, IdleGood, Unplanned DEF WInv

LEMMA BeginRestoreWell ==
  ASSUME WInv, BeginRestore
  PROVE  WInv'
<1> DEFINE b == [backup EXCEPT !.profiles = NoBackup.profiles]
           o == [Idle EXCEPT !.name = "planning", !.left = Ids(backup.profiles), !.plan = b]
<1>1. b \in BackupDocument /\ b.profiles = NoBackup.profiles
  BY BackupFields, NoBackupType DEF WInv, TypeOK
<1>2. op' = o /\ UNCHANGED <<mem, file, ring, desk, backup, session, spoiled>>
  BY DEF BeginRestore
<1> HIDE DEF b
<1>3. /\ o \in Operation /\ o.name = "planning" /\ o.left = Ids(backup.profiles)
      /\ o.plan = b /\ o.before = Idle.before
  BY <1>1, IdleFields DEF Operation, Ids
<1> HIDE DEF o
<1>4. ops' \in 0 .. MaxOps
  BY BeginOps DEF BeginRestore, WInv
<1>5. TypeOK'
  BY <1>2, <1>3, <1>4 DEF WInv, TypeOK
<1>6. Ids(NoBackup.profiles) = {} /\ Ids(b.profiles) = {}
  BY <1>1, NoBackupType
<1>7. PlanWell' /\ EditWell'
  BY <1>1, <1>2, <1>3, <1>6 DEF PlanWell, Distinct, EditWell
<1> QED
  BY <1>2, <1>3, <1>5, <1>7, IdleGood DEF WInv

LEMMA PlanItemWell ==
  ASSUME WInv, NEW i \in Id, PlanItem(i)
  PROVE  WInv'
<1> DEFINE taken == NamesOf(mem.profiles, Kept) \cup NamesOf(op.plan.profiles, Id)
           n     == backup.profiles[i].name
           p     == [backup.profiles[i] EXCEPT
                       !.name = IF n \in taken THEN CHOOSE m \in Name : m \notin taken ELSE n]
<1>1. op.name = "planning" /\ i \in op.left /\ op \in Operation
  BY DEF PlanItem, WInv, TypeOK
<1>2. mem.profiles \in ProfilesOf /\ op.plan.profiles \in ProfilesOf /\ backup.profiles \in ProfilesOf
  BY DocumentFields, OperationFields, BackupFields DEF WInv, GoodDoc, TypeOK
<1>3. /\ i \in Ids(backup.profiles) /\ i \notin Ids(op.plan.profiles) /\ i \notin Kept
      /\ Kept \cap Ids(op.plan.profiles) = {} /\ Kept \subseteq Id
  BY <1>1 DEF WInv, PlanWell, Kept
<1>4. backup.profiles[i] \in Profile /\ n \in Name
  BY <1>2, <1>3, ProfileAt, ProfileFields
<1>5. \E m \in Name : m \notin taken
  BY <1>2, <1>3, FreeName
<1> HIDE DEF taken, n
<1>6. p \in Profile /\ p.name \notin taken
  BY <1>4, <1>5, ProfileFields
<1>7. /\ op' = [op EXCEPT !.left = @ \ {i}, !.plan.profiles[i] = p]
      /\ UNCHANGED <<mem, file, ring, desk, backup, session, spoiled, ops>>
  BY DEF PlanItem, taken, n
<1> HIDE DEF p
<1> DEFINE plan == [op.plan EXCEPT !.profiles[i] = p]
<1>16. /\ plan \in BackupDocument /\ plan.profiles = [op.plan.profiles EXCEPT ![i] = p]
  BY <1>1, <1>6, OperationFields DEF BackupDocument
<1>17. op' = [op EXCEPT !.left = @ \ {i}, !.plan = plan]
  BY <1>1, <1>7 DEF Operation
<1> HIDE DEF plan
<1>8. /\ op' \in Operation /\ op'.name = "planning" /\ op'.left = op.left \ {i}
      /\ op'.plan.profiles = [op.plan.profiles EXCEPT ![i] = p]
      /\ op'.before = op.before
  BY <1>1, <1>16, <1>17 DEF Operation
<1>9. TypeOK'
  BY <1>7, <1>8 DEF WInv, TypeOK
<1>18. /\ op'.plan.profiles \in ProfilesOf /\ op'.plan.profiles[i] = p
       /\ \A j \in Id \ {i} : op'.plan.profiles[j] = op.plan.profiles[j]
  BY <1>2, <1>6, <1>8 DEF ProfilesOf
<1>10. Ids(op'.plan.profiles) = Ids(op.plan.profiles) \cup {i}
  BY <1>2, <1>6, <1>18, WithProfile
<1>11. Distinct(op'.plan.profiles)
  <2>1. p.name \notin NamesOf(op.plan.profiles, Id \ {i})
    BY <1>6 DEF taken, NamesOf
  <2>2. Distinct(op.plan.profiles)
    BY <1>1 DEF WInv, PlanWell
  <2> QED
    BY <2>1, <2>2, <1>2, <1>6, <1>18, WithProfile
<1>12. \A j \in Ids(mem.profiles) \ Ids(backup.profiles) : p.name # mem.profiles[j].name
  BY <1>6 DEF taken, NamesOf, Kept, Ids
<1>13. \A k \in Ids(op'.plan.profiles), j \in Ids(mem.profiles) \ Ids(backup.profiles) :
         op'.plan.profiles[k].name # mem.profiles[j].name
  <2> SUFFICES ASSUME NEW k \in Ids(op'.plan.profiles), NEW j \in Ids(mem.profiles) \ Ids(backup.profiles)
               PROVE  op'.plan.profiles[k].name # mem.profiles[j].name
    OBVIOUS
  <2>1. CASE k = i
    BY <2>1, <1>18, <1>12
  <2>2. CASE k # i
    BY <2>2, <1>1, <1>10, <1>18 DEF WInv, PlanWell, Ids
  <2> QED
    BY <2>1, <2>2
<1>14. op'.left \subseteq Ids(backup.profiles)
         /\ Ids(op'.plan.profiles) = Ids(backup.profiles) \ op'.left
  BY <1>1, <1>3, <1>8, <1>10 DEF WInv, PlanWell
<1>15. PlanWell' /\ EditWell'
  BY <1>7, <1>8, <1>11, <1>13, <1>14 DEF PlanWell, EditWell
<1> QED
  BY <1>7, <1>8, <1>9, <1>15 DEF WInv

LEMMA NameFields ==
  ASSUME NEW o \in Operation,
         NEW n \in {"idle", "editing", "calls", "planning", "confirm", "restore", "rollback"}
  PROVE  LET new == [o EXCEPT !.name = n] IN
         /\ new \in Operation /\ new.name = n /\ new.left = o.left /\ new.plan = o.plan
         /\ new.before = o.before /\ new.todo = o.todo /\ new.applied = o.applied
         /\ new.refused = o.refused /\ new.read = o.read /\ new.id = o.id
  BY DEF Operation

LEMMA PreflightWell ==
  ASSUME WInv, Preflight
  PROVE  WInv'
<1>1. op.name = "planning" /\ op.left = {} /\ op \in Operation
        /\ UNCHANGED <<mem, file, ring, desk, backup, session, spoiled, ops>>
  BY DEF Preflight, WInv, TypeOK
<1>2. op' = Idle \/ op' = [op EXCEPT !.name = "confirm"]
  BY DEF Preflight
<1>3. CASE op' = Idle
  BY <1>1, <1>3, IdleFields, IdleGood, QuietStep DEF WInv, TypeOK
<1>4. CASE op' = [op EXCEPT !.name = "confirm"]
  <2>1. op' \in Operation /\ op'.name = "confirm" /\ op'.left = op.left /\ op'.plan = op.plan
          /\ op'.before = op.before
    BY <1>1, <1>4, NameFields
  <2>2. TypeOK'
    BY <2>1, <1>1 DEF WInv, TypeOK
  <2>3. PlanWell' /\ EditWell'
    BY <2>1, <1>1 DEF WInv, PlanWell, EditWell
  <2> QED
    BY <2>1, <2>2, <2>3, <1>1 DEF WInv
<1> QED
  BY <1>2, <1>3, <1>4

LEMMA CancelDialogWell ==
  ASSUME WInv, CancelDialog
  PROVE  WInv'
  BY IdleFields, IdleGood, QuietStep DEF CancelDialog, WInv, TypeOK

LEMMA RingType ==
  ASSUME NEW r \in [Id -> Secrets], NEW i \in Id \cup {NoId}, NEW k \in Kind,
         NEW v \in Secret \cup {NoSecret}
  PROVE  [r EXCEPT ![i][k] = v] \in [Id -> Secrets]
  BY DEF Secrets

LEMMA ForgetWell ==
  ASSUME WInv, NEW k \in Kind, Forget(k)
  PROVE  WInv'
<1>1. op \in Operation /\ op.name = "editing" /\ op.id \in Id
  BY DEF Forget, WInv, TypeOK, EditWell
<1>2. ring' \in [Id -> Secrets]
  BY <1>1, RingType DEF Forget, WInv, TypeOK
<1> QED
  BY <1>1, <1>2, QuietStep DEF Forget, WInv, TypeOK

LEMMA CommitWell ==
  ASSUME WInv, Commit
  PROVE  WInv'
<1> DEFINE m     == Merged(op.plan)
           start == [op EXCEPT !.before = [mem |-> mem, file |-> file, ring |-> ring]]
           then  == [start EXCEPT !.name = "restore", !.left = Ids(op.plan.profiles)]
           other == [start EXCEPT !.name = "rollback"]
<1>1. op.name = "confirm" /\ op \in Operation
  BY DEF Commit, WInv, TypeOK
<1>2. mem.profiles \in ProfilesOf /\ op.plan.profiles \in ProfilesOf /\ op.plan.default \in Id \cup {NoId}
  BY DocumentFields, OperationFields, BackupFields DEF WInv, GoodDoc, TypeOK
<1>3. m \in Document /\ m.default \in Ids(m.profiles) \cup {NoId}
        /\ \A i \in Id : m.profiles[i] = IF i \in Ids(op.plan.profiles) THEN op.plan.profiles[i]
                                         ELSE mem.profiles[i]
  <2> DEFINE p == [i \in Id |-> IF op.plan.profiles[i] = Absent THEN mem.profiles[i]
                                ELSE op.plan.profiles[i]]
             d == IF op.plan.default \in Ids(p) THEN op.plan.default ELSE NoId
  <2>1. p \in ProfilesOf /\ \A i \in Id : p[i] = IF i \in Ids(op.plan.profiles) THEN op.plan.profiles[i]
                                                ELSE mem.profiles[i]
    BY <1>2 DEF ProfilesOf, Ids
  <2>2. d \in Id \cup {NoId} /\ d \in Ids(p) \cup {NoId}
    BY <1>2
  <2>3. m = [profiles |-> p, default |-> d]
    BY DEF Merged
  <2> HIDE DEF p, d, m
  <2> QED
    BY <2>1, <2>2, <2>3, DocumentFields
<1> HIDE DEF m
<1>4. /\ Distinct(op.plan.profiles) /\ Ids(op.plan.profiles) = Ids(backup.profiles)
      /\ \A i \in Ids(op.plan.profiles), j \in Ids(mem.profiles) \ Ids(backup.profiles) :
           op.plan.profiles[i].name # mem.profiles[j].name
  BY <1>1 DEF WInv, PlanWell
<1>5. Distinct(mem.profiles)
  BY DEF WInv, GoodDoc
<1>6. Distinct(m.profiles)
  <2> SUFFICES ASSUME NEW i \in Ids(m.profiles), NEW j \in Ids(m.profiles),
                      m.profiles[i].name = m.profiles[j].name
               PROVE  i = j
    BY DEF Distinct
  <2> DEFINE P == Ids(op.plan.profiles)
  <2>1. i \in Id /\ j \in Id /\ (i \notin P => i \in Ids(mem.profiles)) /\ (j \notin P => j \in Ids(mem.profiles))
    BY <1>3 DEF Ids
  <2>2. CASE i \in P /\ j \in P
    BY <2>1, <2>2, <1>3, <1>4 DEF Distinct
  <2>3. CASE i \notin P /\ j \notin P
    BY <2>1, <2>3, <1>3, <1>5 DEF Distinct
  <2>4. CASE i \in P /\ j \notin P
    BY <2>1, <2>4, <1>3, <1>4
  <2>5. CASE i \notin P /\ j \in P
    BY <2>1, <2>5, <1>3, <1>4
  <2> QED
    BY <2>2, <2>3, <2>4, <2>5
<1>7. GoodDoc(m)
  BY <1>3, <1>6 DEF GoodDoc
<1>8. Persist(m, then, other) /\ UNCHANGED <<ring, desk, backup, session, spoiled, ops>>
  BY DEF Commit, m
<1>9. /\ then \in Operation /\ then.name = "restore" /\ then.before.mem = mem
      /\ other \in Operation /\ other.name = "rollback" /\ other.before.mem = mem
  BY <1>1 DEF Operation, WInv, TypeOK, Ids
<1> HIDE DEF start, then, other
<1>10. GoodDoc(mem') /\ GoodDoc(file') /\ op' \in {then, other}
  BY <1>7, <1>8, Persisted DEF WInv
<1>11. TypeOK'
  BY <1>8, <1>9, <1>10 DEF WInv, TypeOK, GoodDoc
<1>12. GoodDoc(mem)
  BY DEF WInv
<1>13. CASE op' = then
  BY <1>9, <1>10, <1>11, <1>12, <1>13, Unplanned
<1>14. CASE op' = other
  BY <1>9, <1>10, <1>11, <1>12, <1>14, Unplanned
<1> QED
  BY <1>10, <1>13, <1>14

LEMMA ItemCallsType ==
  ASSUME NEW plan \in BackupDocument, NEW i \in Id
  PROVE  ItemCalls(plan, i) \in Seq(Call)
<1>1. plan.secrets[i]["psk"] \in Secret \cup {NoSecret} /\ plan.secrets[i]["xauth"] \in Secret \cup {NoSecret}
  BY BackupFields DEF Secrets
<1> QED
  BY <1>1, PutFields DEF ItemCalls

LEMMA ReadSecretsWell ==
  ASSUME WInv, NEW i \in Id, ReadSecrets(i)
  PROVE  WInv'
<1>1. op \in Operation /\ op.name = "restore" /\ op.plan \in BackupDocument
  BY OperationFields DEF ReadSecrets, WInv, TypeOK
<1>2. Get(i) \in Secrets /\ ItemCalls(op.plan, i) \in Seq(Call)
  BY <1>1, ItemCallsType, NoBackupType DEF Get, WInv, TypeOK
<1>3. op' = [op EXCEPT !.left = @ \ {i}, !.todo = ItemCalls(op.plan, i), !.read = Get(i)]
  BY DEF ReadSecrets
<1>4. op' \in Operation /\ op'.name = "restore" /\ op'.before = op.before
  BY <1>1, <1>2, <1>3 DEF Operation
<1>5. spoiled' \in BOOLEAN
  BY DEF ReadSecrets, WInv, TypeOK
<1> QED
  BY <1>4, <1>5, QuietStep DEF ReadSecrets, WInv, TypeOK

\* The operation goes on with the next call, and may remember the last.
LEMMA PassedFields ==
  ASSUME op \in Operation, op.todo # <<>>
  PROVE  /\ Now \in Call
         /\ Passed \in Operation /\ Passed.name = op.name /\ Passed.before = op.before
         /\ Passed.todo = Tail(op.todo) /\ Passed.id = op.id /\ Passed.plan = op.plan
         /\ Passed.applied = op.applied /\ Passed.left = op.left /\ Passed.read = op.read
         /\ Passed.refused = op.refused
<1>1. op.todo \in Seq(Call)
  BY OperationFields
<1>2. Head(op.todo) \in Call /\ Tail(op.todo) \in Seq(Call)
  BY <1>1
<1> QED
  BY <1>2 DEF Operation, Passed, Now

LEMMA DoneFields ==
  ASSUME op \in Operation, op.todo # <<>>, Now.call = "put"
  PROVE  /\ Done \in Operation /\ Done.name = op.name /\ Done.before = op.before
         /\ Done.todo = Tail(op.todo) /\ Done.id = op.id /\ Done.plan = op.plan
         /\ Done.left = op.left /\ Done.read = op.read /\ Done.refused = op.refused
         /\ Done.applied = IF op.name = "restore"
                           THEN Append(op.applied, Put(Now.id, Now.kind, op.read[Now.kind]))
                           ELSE op.applied
<1>1. Now \in Call /\ op.applied \in Seq(Call) /\ op.read \in Secrets
  BY PassedFields, OperationFields
<1>2. Now.id \in Id \cup {NoId} /\ Now.kind \in Kind
  BY <1>1 DEF Call
<1>3. op.read[Now.kind] \in Secret \cup {NoSecret}
  BY <1>1, <1>2 DEF Secrets
<1>4. Put(Now.id, Now.kind, op.read[Now.kind]) \in Call
  BY <1>2, <1>3, PutFields
<1>5. Append(op.applied, Put(Now.id, Now.kind, op.read[Now.kind])) \in Seq(Call)
  BY <1>1, <1>4
<1> DEFINE more == Append(op.applied, Put(Now.id, Now.kind, op.read[Now.kind]))
<1>6. Done = IF op.name = "restore" THEN [Passed EXCEPT !.applied = more] ELSE Passed
  BY PassedFields DEF Done
<1> HIDE DEF more
<1>7. CASE op.name = "restore"
  BY <1>5, <1>6, <1>7, PassedFields DEF Operation, more
<1>8. CASE op.name # "restore"
  BY <1>6, <1>8, PassedFields
<1> QED
  BY <1>7, <1>8

LEMMA DeleteSecretWell ==
  ASSUME WInv, DeleteSecret, op.name \in {"calls", "restore", "rollback"}
  PROVE  WInv'
<1>1. op \in Operation /\ op.todo # <<>> /\ Now.call = "put" /\ op' = Done
  BY DEF DeleteSecret, WInv, TypeOK
<1>2. Now.id \in Id \cup {NoId} /\ Now.kind \in Kind
  BY <1>1, PassedFields DEF Call
<1>3. ring' \in [Id -> Secrets]
  BY <1>2, RingType DEF DeleteSecret, WInv, TypeOK
<1>4. spoiled' \in BOOLEAN
  BY DEF DeleteSecret, WInv, TypeOK
<1> QED
  BY <1>1, <1>3, <1>4, DoneFields, QuietStep DEF DeleteSecret, WInv, TypeOK

LEMMA SetSecretWell ==
  ASSUME WInv, SetSecret, op.name \in {"calls", "restore", "rollback"}
  PROVE  WInv'
<1>1. op \in Operation /\ op.todo # <<>> /\ Now.call = "put" /\ op' = Done
  BY DEF SetSecret, WInv, TypeOK
<1>2. Now.id \in Id \cup {NoId} /\ Now.kind \in Kind /\ Now.value \in Secret \cup {NoSecret}
  BY <1>1, PassedFields DEF Call
<1>3. ring' \in [Id -> Secrets]
  BY <1>2, RingType DEF SetSecret, WInv, TypeOK
<1> QED
  BY <1>1, <1>3, DoneFields, QuietStep DEF SetSecret, WInv, TypeOK

LEMMA RollBackFields ==
  ASSUME op \in Operation
  PROVE  LET o == [RollBack EXCEPT !.refused = TRUE] IN
         /\ o \in Operation /\ o.name = "rollback" /\ o.before = op.before /\ o.refused = TRUE
         /\ o.todo = Append(Reverse(op.applied), Install)
         /\ Reverse(op.applied) \in Seq(Call) /\ Len(Reverse(op.applied)) = Len(op.applied)
         /\ \A n \in 1 .. Len(op.applied) : Reverse(op.applied)[n] = op.applied[(Len(op.applied) - n) + 1]
<1>1. op.applied \in Seq(Call) /\ Len(op.applied) \in Nat
  BY OperationFields
<1>2. /\ Reverse(op.applied) \in Seq(Call) /\ Len(Reverse(op.applied)) = Len(op.applied)
      /\ \A n \in 1 .. Len(op.applied) : Reverse(op.applied)[n] = op.applied[(Len(op.applied) - n) + 1]
  BY <1>1 DEF Reverse
<1>3. Append(Reverse(op.applied), Install) \in Seq(Call)
  BY <1>2, InstallFields
<1> QED
  BY <1>2, <1>3 DEF Operation, RollBack

\* A keyring call is part of an operation that has called for it.
TodoWell == op.name \in {"idle", "editing", "planning", "confirm"} => op.todo = <<>>

LEMMA SetFailsWell ==
  ASSUME WInv, TodoWell, SetFails
  PROVE  WInv'
<1>1. op \in Operation /\ op.todo # <<>>
  BY DEF SetFails, WInv, TypeOK
<1>2. op.name \in {"calls", "restore", "rollback"}
  BY <1>1 DEF TodoWell, Operation
<1>3. spoiled' \in BOOLEAN
  BY DEF SetFails, WInv, TypeOK
<1>4. CASE op.name = "restore"
  <2>1. op' = [RollBack EXCEPT !.refused = TRUE]
    BY <1>4 DEF SetFails
  <2> QED
    BY <2>1, <1>1, <1>3, RollBackFields, QuietStep DEF SetFails, WInv, TypeOK
<1>5. CASE op.name = "rollback"
  <2>1. op' = [Passed EXCEPT !.refused = TRUE]
    BY <1>5 DEF SetFails
  <2>2. op' \in Operation /\ op'.name = "rollback" /\ op'.before = op.before
    BY <2>1, <1>1, <1>5, PassedFields DEF Operation
  <2> QED
    BY <2>2, <1>3, QuietStep DEF SetFails, WInv, TypeOK
<1>6. CASE op.name = "calls"
  <2>1. op' = Idle
    BY <1>6 DEF SetFails
  <2> QED
    BY <2>1, <1>3, IdleFields, IdleGood, QuietStep DEF SetFails, WInv, TypeOK
<1> QED
  BY <1>2, <1>4, <1>5, <1>6

LEMMA RollBackProfilesWell ==
  ASSUME WInv, TodoWell, RollBackProfiles
  PROVE  WInv'
<1>1. op \in Operation /\ op.todo # <<>> /\ Persist(op.before.mem, Passed, Passed)
  BY DEF RollBackProfiles, WInv, TypeOK
<1>2. op.name \in {"calls", "restore", "rollback"}
  BY <1>1 DEF TodoWell, Operation
<1>3. GoodDoc(mem') /\ GoodDoc(file') /\ op' = Passed
  BY <1>1, Persisted DEF WInv
<1>4. /\ Passed \in Operation /\ Passed.name \in {"calls", "restore", "rollback"}
      /\ GoodDoc(Passed.before.mem)
  BY <1>1, <1>2, PassedFields DEF WInv
<1>5. TypeOK'
  BY <1>3, <1>4 DEF RollBackProfiles, WInv, TypeOK, GoodDoc
<1> QED
  BY <1>3, <1>4, <1>5, Unplanned

LEMMA FinishWell ==
  ASSUME WInv, Finish
  PROVE  WInv'
  BY IdleFields, IdleGood, QuietStep DEF Finish, WInv, TypeOK

LEMMA PinWell ==
  ASSUME WInv, Pin
  PROVE  WInv'
<1> DEFINE p == [mem.profiles[session] EXCEPT !.pin = TRUE]
           m == [mem EXCEPT !.profiles[session].pin = TRUE]
<1>1. session \in Id /\ mem.profiles[session] # Absent /\ mem \in Document /\ GoodDoc(mem)
  BY DEF Pin, WInv, TypeOK
<1>2. mem.profiles \in ProfilesOf /\ mem.profiles[session] \in Profile
  BY <1>1, DocumentFields, ProfileAt
<1>3. p \in Profile /\ p.name = mem.profiles[session].name
  BY <1>2, ProfileFields
<1>4. m = [mem EXCEPT !.profiles[session] = p]
  BY <1>1 DEF Document
<1> HIDE DEF p, m
<1>5. p.name \notin NamesOf(mem.profiles, Id \ {session})
  BY <1>1, <1>3 DEF GoodDoc, Distinct, NamesOf, Ids
<1>6. GoodDoc(m) /\ m.profiles = [mem.profiles EXCEPT ![session] = p]
  BY <1>1, <1>3, <1>4, <1>5, WithGood
<1>7. Persist(m, op, op) /\ UNCHANGED <<ring, desk, backup, session, spoiled, ops>>
  BY DEF Pin, m
<1>8. GoodDoc(mem') /\ GoodDoc(file') /\ mem' = m /\ op' = op
  BY <1>6, <1>7, Persisted DEF WInv
<1>9. TypeOK'
  BY <1>7, <1>8 DEF WInv, TypeOK, GoodDoc
<1>10. Ids(m.profiles) = Ids(mem.profiles) /\ \A i \in Id : m.profiles[i].name = mem.profiles[i].name
  <2>1. \A i \in Id : m.profiles[i] = IF i = session THEN p ELSE mem.profiles[i]
    BY <1>2, <1>6 DEF ProfilesOf
  <2> QED
    BY <2>1, <1>1, <1>3, ProfileFields DEF Ids
<1>11. PlanWell' /\ EditWell'
  BY <1>7, <1>8, <1>10 DEF WInv, PlanWell, EditWell, Ids
<1> QED
  BY <1>7, <1>8, <1>9, <1>11 DEF WInv

LEMMA RestartWell ==
  ASSUME WInv, Restart
  PROVE  WInv'
<1>1. mem' = Loaded(file) /\ op' = Idle /\ session' = NoId /\ UNCHANGED <<file, ring, desk, backup, ops>>
  BY DEF Restart
<1>2. file \in Document /\ file.profiles \in ProfilesOf
  BY DocumentFields DEF WInv, GoodDoc
<1> DEFINE d == IF file.default \in Ids(file.profiles) THEN file.default ELSE NoId
<1>3. Loaded(file) = [file EXCEPT !.default = d] /\ d \in Id \cup {NoId} /\ d \in Ids(file.profiles) \cup {NoId}
  BY <1>2, DocumentFields DEF Loaded
<1> HIDE DEF d
<1>4. GoodDoc(mem')
  BY <1>1, <1>2, <1>3, DocumentFields DEF GoodDoc, WInv
<1>5. spoiled' \in BOOLEAN
  BY DEF Restart, WInv, TypeOK
<1>6. TypeOK'
  BY <1>1, <1>4, <1>5, IdleFields DEF WInv, TypeOK, GoodDoc
<1> QED
  BY <1>1, <1>4, <1>6, IdleFields, IdleGood, Unplanned DEF WInv

\* Sessions and the keyring come and go.
LEMMA WorldWell ==
  ASSUME WInv, UNCHANGED <<mem, file, ring, backup, op, spoiled, ops>>,
         session' \in Id \cup {NoId}, desk' \in {"open", "locked", "gone"}
  PROVE  WInv'
  BY DEF WInv, TypeOK, PlanWell, EditWell

LEMMA TodoInit == Init => TodoWell
  BY IdleFields DEF Init, TodoWell

LEMMA TodoNext ==
  ASSUME WInv, TodoWell, [Next]_vars
  PROVE  TodoWell'
<1>0. op \in Operation
  BY DEF WInv, TypeOK
<1>1. CASE UNCHANGED vars
  BY <1>1 DEF vars, TodoWell
<1> SUFFICES ASSUME Next PROVE TodoWell'
  BY <1>1
<1>2. ASSUME op' = Idle \/ op' = op \/ (\E calls : op' = Doing("calls", calls)) PROVE TodoWell'
  BY <1>2, <1>0, IdleFields DEF TodoWell, Doing, Idle
<1>3. CASE \E i \in Id, n \in Name, ipsec, keep \in BOOLEAN, typed \in Typed : Add(i, n, ipsec, typed, keep)
  BY <1>3, <1>2 DEF Add, Persist
<1>4. CASE \E i \in Id : OpenEditor(i)
  BY <1>4 DEF OpenEditor, TodoWell, Idle
<1>5. CASE \E n \in Name, ipsec, clear, keep \in BOOLEAN, typed \in Typed :
             SaveEditor(n, ipsec, clear, typed, keep)
  BY <1>5, <1>2 DEF SaveEditor, Persist
<1>6. CASE (\E k \in Kind : Forget(k)) \/ CancelDialog
  BY <1>6, <1>2 DEF Forget, CancelDialog
<1>7. CASE (\E i \in Id, p \in Profile : Copy(i, p)) \/ (\E i \in Id : SetDefault(i))
  BY <1>7, <1>2 DEF Copy, SetDefault, Persist
<1>8. CASE \E i \in Id : Delete(i)
  BY <1>8, <1>2 DEF Delete, Persist
<1>9. CASE \E i \in Id, typed \in Secret, keep \in BOOLEAN : Credentials(i, typed, keep)
  <2>1. PICK i \in Id, typed \in Secret, keep \in BOOLEAN : Credentials(i, typed, keep)
    BY <1>9
  <2>2. \E calls : op' \in {Idle, Doing("calls", calls)}
    BY <2>1 DEF Credentials, Persist
  <2> QED
    BY <2>2, <1>2
<1>10. CASE CreateBackup
  BY <1>10, <1>2 DEF CreateBackup
<1>11. CASE BeginRestore
  BY <1>11 DEF BeginRestore, TodoWell, Idle
<1>12. CASE \E i \in Id : PlanItem(i)
  <2>1. op'.todo = op.todo
    BY <1>12, <1>0 DEF PlanItem, Operation
  <2> QED
    BY <2>1, <1>12 DEF TodoWell, PlanItem
<1>13. CASE Preflight
  <2>1. op' = Idle \/ op' = [op EXCEPT !.name = "confirm"]
    BY <1>13 DEF Preflight
  <2>2. CASE op' = [op EXCEPT !.name = "confirm"]
    BY <2>2, <1>13, <1>0, NameFields DEF Preflight, TodoWell
  <2> QED
    BY <2>1, <2>2, <1>2
<1>14. CASE Commit
  <2>1. op'.name \in {"restore", "rollback"}
    BY <1>14, <1>0 DEF Commit, Persist, Operation
  <2> QED
    BY <2>1 DEF TodoWell
<1>15. CASE \E i \in Id : ReadSecrets(i)
  <2>1. op'.name = "restore"
    BY <1>15, <1>0 DEF ReadSecrets, Operation
  <2> QED
    BY <2>1 DEF TodoWell
<1>16. CASE DeleteSecret \/ SetSecret
  <2>1. op.name \in {"calls", "restore", "rollback"} /\ op'.name = op.name
    BY <1>16, <1>0, DoneFields DEF DeleteSecret, SetSecret, TodoWell, Operation
  <2> QED
    BY <2>1 DEF TodoWell
<1>17. CASE SetFails
  <2>1. op.name \in {"calls", "restore", "rollback"}
    BY <1>17, <1>0 DEF SetFails, TodoWell, Operation
  <2>2. CASE op.name = "restore"
    BY <2>2, <1>17, <1>0, RollBackFields DEF SetFails, TodoWell
  <2>3. CASE op.name = "rollback"
    <3>1. op' = [Passed EXCEPT !.refused = TRUE]
      BY <2>3, <1>17 DEF SetFails
    <3>2. op'.name = "rollback"
      BY <3>1, <2>3, <1>17, <1>0, PassedFields DEF SetFails, Operation
    <3> QED
      BY <3>2 DEF TodoWell
  <2>4. CASE op.name = "calls"
    BY <2>4, <1>17, <1>2 DEF SetFails
  <2> QED
    BY <2>1, <2>2, <2>3, <2>4
<1>18. CASE RollBackProfiles
  <2>1. op.name \in {"calls", "restore", "rollback"} /\ op' = Passed
    BY <1>18, <1>0 DEF RollBackProfiles, Persist, TodoWell, Operation
  <2> QED
    BY <2>1, <1>18, <1>0, PassedFields DEF RollBackProfiles, TodoWell
<1>19. CASE Finish \/ Restart
  BY <1>19, <1>2 DEF Finish, Restart
<1>20. CASE (\E i \in Id : SessionStarts(i)) \/ SessionEnds \/ KeyringChanges \/ Over
  BY <1>20, <1>2 DEF SessionStarts, SessionEnds, KeyringChanges, Over, vars
<1>21. CASE Pin
  BY <1>21, <1>2 DEF Pin, Persist
<1> QED
  BY <1>3, <1>4, <1>5, <1>6, <1>7, <1>8, <1>9, <1>10, <1>11, <1>12, <1>13, <1>14, <1>15, <1>16,
     <1>17, <1>18, <1>19, <1>20, <1>21 DEF Next, UserStep, KeyringStep, WorldStep

LEMMA WInvNext ==
  ASSUME WInv, TodoWell, [Next]_vars
  PROVE  WInv'
<1>0. op \in Operation
  BY DEF WInv, TypeOK
<1>1. CASE UNCHANGED vars
  BY <1>1, WorldWell DEF vars, WInv, TypeOK
<1> SUFFICES ASSUME Next PROVE WInv'
  BY <1>1
<1>3. CASE \E i \in Id, n \in Name, ipsec, keep \in BOOLEAN, typed \in Typed : Add(i, n, ipsec, typed, keep)
  BY <1>3, AddWell
<1>4. CASE \E i \in Id : OpenEditor(i)
  BY <1>4, OpenEditorWell
<1>5. CASE \E n \in Name, ipsec, clear, keep \in BOOLEAN, typed \in Typed :
             SaveEditor(n, ipsec, clear, typed, keep)
  BY <1>5, SaveEditorWell
<1>6. CASE (\E k \in Kind : Forget(k)) \/ CancelDialog
  BY <1>6, ForgetWell, CancelDialogWell
<1>7. CASE (\E i \in Id, p \in Profile : Copy(i, p))
  BY <1>7, CopyWell
<1>8. CASE \E i \in Id : SetDefault(i) \/ Delete(i)
  BY <1>8, DeleteWell, SetDefaultWell
<1>9. CASE \E i \in Id, typed \in Secret, keep \in BOOLEAN : Credentials(i, typed, keep)
  BY <1>9, CredentialsWell
<1>10. CASE CreateBackup \/ BeginRestore \/ Preflight \/ Commit
  BY <1>10, CreateBackupWell, BeginRestoreWell, PreflightWell, CommitWell
<1>12. CASE \E i \in Id : PlanItem(i)
  BY <1>12, PlanItemWell
<1>15. CASE \E i \in Id : ReadSecrets(i)
  BY <1>15, ReadSecretsWell
<1>16. CASE DeleteSecret \/ SetSecret
  <2>1. op.name \in {"calls", "restore", "rollback"}
    BY <1>16, <1>0 DEF DeleteSecret, SetSecret, TodoWell, Operation
  <2> QED
    BY <2>1, <1>16, DeleteSecretWell, SetSecretWell
<1>17. CASE SetFails \/ RollBackProfiles \/ Finish
  BY <1>17, SetFailsWell, RollBackProfilesWell, FinishWell
<1>19. CASE Restart \/ Pin
  BY <1>19, RestartWell, PinWell
<1>20. CASE (\E i \in Id : SessionStarts(i)) \/ SessionEnds \/ KeyringChanges \/ Over
  <2>1. session' \in Id \cup {NoId} /\ desk' \in {"open", "locked", "gone"}
    BY <1>20 DEF SessionStarts, SessionEnds, KeyringChanges, Over, vars, WInv, TypeOK
  <2>2. UNCHANGED <<mem, file, ring, backup, op, spoiled, ops>>
    BY <1>20 DEF SessionStarts, SessionEnds, KeyringChanges, Over, vars
  <2> QED
    BY <2>1, <2>2, WorldWell
<1> QED
  BY <1>3, <1>4, <1>5, <1>6, <1>7, <1>8, <1>9, <1>10, <1>12, <1>15, <1>16,
     <1>17, <1>19, <1>20 DEF Next, UserStep, KeyringStep, WorldStep

\* In every reachable state of every run, both documents are well formed: one default or none,
\* and it exists, and no two profiles of one name (ProfileManager, ProfileStore.load,
\* plan_restore, merged_profiles), whatever the mishaps are.
THEOREM DocumentsWellFormed == Spec => []WellFormed
<1>1. Init => WInv /\ TodoWell
  BY WInvInit, TodoInit
<1>2. WInv /\ TodoWell /\ [Next]_vars => (WInv /\ TodoWell)'
  BY WInvNext, TodoNext
<1>3. WInv => WellFormed
  BY DEF WInv, WellFormed, GoodDoc, Distinct
<1> QED
  BY <1>1, <1>2, <1>3, PTL DEF Spec

----------------------------------------------------------------------------
(* The secrets follow the profiles *)

\* Secrets belong to IPsec profiles that exist.
Clean(profiles, secrets) ==
  \A i \in Id, k \in Kind : secrets[i][k] # NoSecret => i \in Ids(profiles) /\ profiles[i].ipsec
PlanClean ==
  \A i \in Ids(op.plan.profiles), k \in Kind :
    op.plan.secrets[i][k] # NoSecret => op.plan.profiles[i].ipsec

\* The keyring has yet to be called for this secret.
Awaits(i, k) ==
  \E n \in DOMAIN op.todo : op.todo[n].call = "put" /\ op.todo[n].id = i /\ op.todo[n].kind = k

\* After a change of profiles: what does not belong to one is about to be deleted, and when a
\* value is about to be stored there is nothing to delete.
CallsWell ==
  /\ \A n \in DOMAIN op.todo : op.todo[n].call = "put" /\ op.todo[n].id \in Id
  /\ \A n \in DOMAIN op.todo : op.todo[n].value # NoSecret =>
       /\ op.todo[n].id \in Ids(mem.profiles) /\ mem.profiles[op.todo[n].id].ipsec
       /\ Clean(mem.profiles, ring)
  /\ \A i \in Id, k \in Kind : ring[i][k] # NoSecret =>
       \/ i \in Ids(mem.profiles) /\ mem.profiles[i].ipsec
       \/ Awaits(i, k)

BeforeWell == op.before.file = op.before.mem /\ Clean(op.before.mem.profiles, op.before.ring)

\* A restore under way: the profiles are merged, a secret is the backup's once its call has
\* been made and the old one until then, and every call made can be undone.
RestoreWell ==
  /\ op.left \subseteq Ids(op.plan.profiles)
  /\ \A i \in Id : mem.profiles[i] = IF i \in Ids(op.plan.profiles) THEN op.plan.profiles[i]
                                     ELSE op.before.mem.profiles[i]
  /\ \/ op.todo = <<>>
     \/ \E j \in Ids(op.plan.profiles) \ op.left :
          /\ op.read = op.before.ring[j]
          /\ op.todo \in {ItemCalls(op.plan, j), <<Put(j, "xauth", op.plan.secrets[j]["xauth"])>>}
  /\ \A i \in Id, k \in Kind :
       ring[i][k] = IF i \in Ids(op.plan.profiles) \ op.left /\ ~Awaits(i, k)
                    THEN op.plan.secrets[i][k] ELSE op.before.ring[i][k]
  /\ \A n \in DOMAIN op.applied :
       \E i \in Id, k \in Kind : op.applied[n] = Put(i, k, op.before.ring[i][k])
  /\ \A i \in Id, k \in Kind : ring[i][k] # op.before.ring[i][k] =>
       \E n \in DOMAIN op.applied : op.applied[n].id = i /\ op.applied[n].kind = k

\* A rollback under way: what still differs from before is about to be put back.
RollbackWell ==
  /\ op.refused
  /\ \A n \in DOMAIN op.todo : op.todo[n] = Install \/
       \E i \in Id, k \in Kind : op.todo[n] = Put(i, k, op.before.ring[i][k])
  /\ \A i \in Id, k \in Kind : ring[i][k] # op.before.ring[i][k] => Awaits(i, k)
  /\ mem = op.before.mem \/ \E n \in DOMAIN op.todo : op.todo[n] = Install

Quiet == op.name \in {"idle", "editing", "planning", "confirm"}

SInv ==
  /\ Quiet => op.applied = <<>>
  /\ file = mem
  /\ ~spoiled =>
       /\ Clean(backup.profiles, backup.secrets)
       /\ op.name = "planning" => op.plan.secrets = backup.secrets
       /\ op.name \in {"planning", "confirm", "restore"} => PlanClean
       /\ Quiet => Clean(mem.profiles, ring)
       /\ op.name = "calls" => CallsWell
       /\ op.name = "restore" => BeforeWell /\ RestoreWell
       /\ op.name = "rollback" => BeforeWell /\ RollbackWell

HIDE DEF NoSecret, Kind

LEMMA Saved ==
  ASSUME "save" \notin Mishaps, NEW p, NEW then, NEW otherwise, Persist(p, then, otherwise)
  PROVE  mem' = p /\ file' = p /\ op' = then
  BY DEF Persist

LEMMA CleanAfter ==
  ASSUME "save" \notin Mishaps, op'.name \in {"idle", "editing"}, op'.applied = <<>>, file' = mem',
         ~spoiled' => Clean(backup'.profiles, backup'.secrets) /\ Clean(mem'.profiles, ring')
  PROVE  SInv'
  BY DEF SInv, Quiet

\* What a profile store sees of a change of one profile.
LEMMA CleanWith ==
  ASSUME NEW profiles \in ProfilesOf, NEW secrets, Clean(profiles, secrets), NEW i \in Id,
         NEW p \in Profile, p.ipsec \/ \A k \in Kind : secrets[i][k] = NoSecret
  PROVE  Clean([profiles EXCEPT ![i] = p], secrets)
<1> DEFINE new == [profiles EXCEPT ![i] = p]
<1>1. new[i] = p /\ \A j \in Id \ {i} : new[j] = profiles[j]
  BY DEF ProfilesOf
<1>2. i \in Ids(new) /\ \A j \in Id \ {i} : j \in Ids(new) <=> j \in Ids(profiles)
  BY <1>1, ProfileFields DEF Ids
<1> HIDE DEF new
<1>3. Clean(new, secrets)
  BY <1>1, <1>2 DEF Clean
<1> QED
  BY <1>3 DEF new

LEMMA WithFields ==
  ASSUME mem \in Document, NEW i \in Id, NEW p \in Profile
  PROVE  With(i, p).profiles = [mem.profiles EXCEPT ![i] = p]
  BY DocumentFields DEF With

LEMMA KindElements == Kind = {"psk", "xauth"} /\ "psk" # "xauth"
  BY DEF Kind

\* The calls that follow a change of one profile.
LEMMA PersistPskCalls ==
  ASSUME NEW i \in Id, NEW p \in Profile, NEW typed \in Secret \cup {NoSecret}, NEW keep \in BOOLEAN,
         NEW profiles \in ProfilesOf, Clean(profiles, ring), mem'.profiles = [profiles EXCEPT ![i] = p],
         UNCHANGED ring, op'.todo = PersistPsk(i, p.ipsec, typed, keep)
  PROVE  CallsWell'
<1> DEFINE del == <<Put(i, "psk", NoSecret), Put(i, "xauth", NoSecret)>>
<1>1. /\ mem'.profiles[i] = p /\ \A j \in Id \ {i} : mem'.profiles[j] = profiles[j]
  BY DEF ProfilesOf
<1>2. i \in Ids(mem'.profiles) /\ \A j \in Id \ {i} : j \in Ids(mem'.profiles) <=> j \in Ids(profiles)
  BY <1>1, ProfileFields DEF Ids
<1>3. CASE p.ipsec
  <2>1. Clean(mem'.profiles, ring')
    BY <1>1, <1>2, <1>3 DEF Clean
  <2>2. \/ op'.todo = <<>>
        \/ \E v \in Secret \cup {NoSecret} : op'.todo = <<Put(i, "psk", v)>>
    BY <1>3 DEF PersistPsk
  <2>3. \A n \in DOMAIN op'.todo : op'.todo[n].call = "put" /\ op'.todo[n].id = i
    BY <2>2, PutFields, KindElements
  <2> QED
    BY <1>1, <1>2, <1>3, <2>1, <2>3 DEF CallsWell, Clean
<1>4. CASE ~p.ipsec
  <2>1. op'.todo = del
    BY <1>4 DEF PersistPsk
  <2>2. /\ DOMAIN del = {1, 2}
        /\ del[1] = Put(i, "psk", NoSecret) /\ del[2] = Put(i, "xauth", NoSecret)
    OBVIOUS
  <2> HIDE DEF del
  <2>3. /\ \A n \in DOMAIN del : del[n].call = "put" /\ del[n].id = i /\ del[n].value = NoSecret
        /\ del[1].kind = "psk" /\ del[2].kind = "xauth"
    BY <2>2, PutFields, KindElements
  <2>4. \A k \in Kind : Awaits(i, k)'
    BY <2>1, <2>2, <2>3, KindElements DEF Awaits
  <2>5. \A j \in Id, k \in Kind : ring'[j][k] # NoSecret =>
          (j \in Ids(mem'.profiles) /\ mem'.profiles[j].ipsec) \/ Awaits(j, k)'
    BY <1>1, <1>2, <2>4 DEF Clean
  <2> QED
    BY <2>1, <2>3, <2>5 DEF CallsWell
<1> QED
  BY <1>3, <1>4

LEMMA CallsAfter ==
  ASSUME NEW calls \in Seq(Call), op' = Doing("calls", calls), file' = mem',
         UNCHANGED <<backup, spoiled>>, SInv, ~spoiled => CallsWell'
  PROVE  SInv'
<1>1. op'.name = "calls" /\ op'.todo = calls
  BY DoingFields
<1> QED
  BY <1>1 DEF SInv, Quiet

LEMMA AddSecure ==
  ASSUME "save" \notin Mishaps, WInv, SInv, NEW i \in Id, NEW n \in Name, NEW ipsec \in BOOLEAN,
         NEW keep \in BOOLEAN, NEW typed \in Typed, Add(i, n, ipsec, typed, keep)
  PROVE  SInv'
<1> DEFINE p == [name |-> n, ipsec |-> ipsec, pin |-> FALSE]
           calls == PersistPsk(i, ipsec, typed, keep)
<1>1. p \in Profile /\ p.ipsec = ipsec /\ typed \in Secret \cup {NoSecret}
  BY ProfileFields DEF Typed
<1>2. mem' = With(i, p) /\ file' = mem' /\ op' = Doing("calls", calls)
        /\ UNCHANGED <<ring, backup, spoiled>> /\ op = Idle
  BY Saved DEF Add, Begin
<1> HIDE DEF p
<1>3. calls \in Seq(Call)
  BY <1>1, PersistPskType
<1>4. op'.todo = PersistPsk(i, p.ipsec, typed, keep)
  BY <1>1, <1>2, <1>3, DoingFields
<1>5. mem \in Document /\ mem.profiles \in ProfilesOf
  BY DocumentFields DEF WInv, GoodDoc
<1>6. mem'.profiles = [mem.profiles EXCEPT ![i] = p]
  BY <1>1, <1>2, <1>5, WithFields
<1>7. ~spoiled => Clean(mem.profiles, ring)
  BY <1>2, IdleFields DEF SInv, Quiet
<1>8. ~spoiled => CallsWell'
  BY <1>1, <1>2, <1>4, <1>5, <1>6, <1>7, PersistPskCalls
<1> HIDE DEF calls
<1> QED
  BY <1>2, <1>3, <1>8, CallsAfter

LEMMA SaveEditorSecure ==
  ASSUME "save" \notin Mishaps, WInv, SInv, NEW n \in Name, NEW ipsec \in BOOLEAN, NEW clear \in BOOLEAN,
         NEW keep \in BOOLEAN, NEW typed \in Typed, SaveEditor(n, ipsec, clear, typed, keep)
  PROVE  SInv'
<1> DEFINE p == [name |-> n, ipsec |-> ipsec, pin |-> op.seen /\ ~clear]
           calls == PersistPsk(op.id, ipsec, typed, keep)
<1>0. op.id \in Id
  BY DEF WInv, EditWell, SaveEditor
<1>1. p \in Profile /\ p.ipsec = ipsec /\ typed \in Secret \cup {NoSecret}
  BY ProfileFields, OperationFields DEF Typed, WInv, TypeOK
<1>2. mem' = With(op.id, p) /\ file' = mem' /\ op' = Doing("calls", calls)
        /\ UNCHANGED <<ring, backup, spoiled>> /\ op.name = "editing"
  BY Saved DEF SaveEditor
<1> HIDE DEF p
<1>3. calls \in Seq(Call)
  BY <1>0, <1>1, PersistPskType
<1>4. op'.todo = PersistPsk(op.id, p.ipsec, typed, keep)
  BY <1>1, <1>2, <1>3, DoingFields
<1>5. mem \in Document /\ mem.profiles \in ProfilesOf
  BY DocumentFields DEF WInv, GoodDoc
<1>6. mem'.profiles = [mem.profiles EXCEPT ![op.id] = p]
  BY <1>0, <1>1, <1>2, <1>5, WithFields
<1>7. ~spoiled => Clean(mem.profiles, ring)
  BY <1>2 DEF SInv, Quiet
<1>8. ~spoiled => CallsWell'
  BY <1>0, <1>1, <1>2, <1>4, <1>5, <1>6, <1>7, PersistPskCalls
<1> HIDE DEF calls
<1> QED
  BY <1>2, <1>3, <1>8, CallsAfter

LEMMA DeleteSecure ==
  ASSUME "save" \notin Mishaps, WInv, SInv, NEW i \in Id, Delete(i)
  PROVE  SInv'
<1> DEFINE del == <<Put(i, "psk", NoSecret), Put(i, "xauth", NoSecret)>>
           new == [mem.profiles EXCEPT ![i] = Absent]
           default == IF mem.default = i THEN NoId ELSE mem.default
<1>1. mem' = [profiles |-> new, default |-> default] /\ file' = mem' /\ op' = Doing("calls", del)
        /\ UNCHANGED <<ring, backup, spoiled>> /\ op = Idle
  BY Saved DEF Delete, Begin
<1>2. mem.profiles \in ProfilesOf /\ mem.default \in Id \cup {NoId}
  BY DocumentFields DEF WInv, GoodDoc
<1>3. del \in Seq(Call)
  BY PutFields, KindElements
<1>4. new \in ProfilesOf /\ \A j \in Id \ {i} : new[j] = mem.profiles[j]
  BY <1>2 DEF ProfilesOf
<1>5. /\ DOMAIN del = {1, 2}
      /\ del[1] = Put(i, "psk", NoSecret) /\ del[2] = Put(i, "xauth", NoSecret)
  OBVIOUS
<1> HIDE DEF del, new, default
<1>6. mem'.profiles = new
  BY <1>1
<1>7. op'.todo = del
  BY <1>1, <1>3, DoingFields
<1>8. ~spoiled => Clean(mem.profiles, ring)
  BY <1>1, IdleFields DEF SInv, Quiet
<1>9. /\ \A n \in DOMAIN del : del[n].call = "put" /\ del[n].id = i /\ del[n].value = NoSecret
      /\ del[1].kind = "psk" /\ del[2].kind = "xauth"
  BY <1>5, PutFields, KindElements
<1>10. \A k \in Kind : Awaits(i, k)'
  BY <1>5, <1>7, <1>9, KindElements DEF Awaits
<1>11. \A j \in Id \ {i} : j \in Ids(new) <=> j \in Ids(mem.profiles)
  BY <1>4 DEF Ids
<1>12. ~spoiled => \A j \in Id, k \in Kind : ring'[j][k] # NoSecret =>
         (j \in Ids(mem'.profiles) /\ mem'.profiles[j].ipsec) \/ Awaits(j, k)'
  BY <1>1, <1>4, <1>6, <1>8, <1>10, <1>11 DEF Clean
<1>13. ~spoiled => CallsWell'
  BY <1>7, <1>9, <1>12 DEF CallsWell
<1> QED
  BY <1>1, <1>3, <1>13, CallsAfter

LEMMA CopySecure ==
  ASSUME "save" \notin Mishaps, WInv, SInv, NEW i \in Id, NEW p \in Profile, Copy(i, p)
  PROVE  SInv'
<1>1. mem' = With(i, p) /\ file' = mem' /\ op' = Idle /\ op = Idle /\ ring[i] = NoSecrets
        /\ UNCHANGED <<ring, backup, spoiled>>
  BY Saved DEF Copy, Begin, Fresh
<1>2. mem \in Document /\ mem.profiles \in ProfilesOf
  BY DocumentFields DEF WInv, GoodDoc
<1>3. mem'.profiles = [mem.profiles EXCEPT ![i] = p]
  BY <1>1, <1>2, WithFields
<1>4. ~spoiled => Clean(mem.profiles, ring) /\ Clean(backup.profiles, backup.secrets)
  BY <1>1, IdleFields DEF SInv, Quiet
<1>5. \A k \in Kind : ring[i][k] = NoSecret
  BY <1>1, NoBackupType
<1>6. ~spoiled => Clean(mem'.profiles, ring)
  BY <1>2, <1>3, <1>4, <1>5, CleanWith
<1> QED
  BY <1>1, <1>4, <1>6, IdleFields, CleanAfter

LEMMA SetDefaultSecure ==
  ASSUME "save" \notin Mishaps, WInv, SInv, NEW i \in Id, SetDefault(i)
  PROVE  SInv'
<1>1. mem' = [mem EXCEPT !.default = i] /\ file' = mem' /\ op' = Idle /\ op = Idle
        /\ UNCHANGED <<ring, backup, spoiled>>
  BY Saved DEF SetDefault, Begin
<1>2. mem'.profiles = mem.profiles
  BY <1>1, DocumentFields DEF WInv, GoodDoc
<1>3. ~spoiled => Clean(mem.profiles, ring) /\ Clean(backup.profiles, backup.secrets)
  BY <1>1, IdleFields DEF SInv, Quiet
<1> QED
  BY <1>1, <1>2, <1>3, IdleFields, CleanAfter

LEMMA CredentialsSecure ==
  ASSUME "save" \notin Mishaps, WInv, SInv, NEW i \in Id, NEW typed \in Secret, NEW keep \in BOOLEAN,
         Credentials(i, typed, keep)
  PROVE  SInv'
<1> DEFINE v     == IF keep THEN typed ELSE NoSecret
           calls == <<Put(i, "xauth", v)>>
<1>1. /\ mem' = mem /\ file' = mem' /\ op = Idle /\ UNCHANGED <<ring, backup, spoiled>>
      /\ op' = Idle \/ op' = Doing("calls", calls)
      /\ mem.profiles[i] # Absent /\ mem.profiles[i].ipsec
  BY Saved DEF Credentials, Begin, SInv
<1>2. v \in Secret \cup {NoSecret}
  OBVIOUS
<1> HIDE DEF v
<1>3. calls \in Seq(Call) /\ \A n \in DOMAIN calls : calls[n].call = "put" /\ calls[n].id = i
  BY <1>2, PutFields, KindElements
<1>4. ~spoiled => Clean(mem.profiles, ring) /\ Clean(backup.profiles, backup.secrets)
  BY <1>1, IdleFields DEF SInv, Quiet
<1> HIDE DEF calls
<1>5. CASE op' = Idle
  BY <1>1, <1>4, <1>5, IdleFields, CleanAfter
<1>6. CASE op' = Doing("calls", calls)
  <2>1. op'.todo = calls
    BY <1>3, <1>6, DoingFields
  <2>2. i \in Ids(mem.profiles)
    BY <1>1 DEF Ids
  <2>3. ~spoiled => CallsWell'
    BY <1>1, <1>3, <1>4, <2>1, <2>2 DEF CallsWell, Clean
  <2> QED
    BY <1>1, <1>3, <1>6, <2>3, CallsAfter
<1> QED
  BY <1>1, <1>5, <1>6

LEMMA OpenEditorSecure ==
  ASSUME "save" \notin Mishaps, WInv, SInv, NEW i \in Id, OpenEditor(i)
  PROVE  SInv'
<1>1. op = Idle /\ op'.name = "editing" /\ op'.applied = <<>>
        /\ UNCHANGED <<mem, file, ring, backup, spoiled>>
  BY DEF OpenEditor, Begin, Idle
<1>2. file = mem /\ (~spoiled => Clean(mem.profiles, ring) /\ Clean(backup.profiles, backup.secrets))
  BY <1>1, IdleFields DEF SInv, Quiet
<1> QED
  BY <1>1, <1>2, CleanAfter

LEMMA CancelDialogSecure ==
  ASSUME "save" \notin Mishaps, WInv, SInv, CancelDialog
  PROVE  SInv'
<1>1. Quiet /\ op' = Idle /\ UNCHANGED <<mem, file, ring, backup, spoiled>>
  BY DEF CancelDialog, Quiet
<1>2. file = mem /\ (~spoiled => Clean(mem.profiles, ring) /\ Clean(backup.profiles, backup.secrets))
  BY <1>1 DEF SInv
<1> QED
  BY <1>1, <1>2, IdleFields, CleanAfter

LEMMA ForgetSecure ==
  ASSUME "save" \notin Mishaps, WInv, SInv, NEW k \in Kind, Forget(k)
  PROVE  SInv'
<1>1. op.name = "editing" /\ op.id \in Id /\ op' = op
        /\ UNCHANGED <<mem, file, backup, spoiled>>
  BY DEF Forget, WInv, EditWell
<1>2. \A j \in Id, l \in Kind : ring'[j][l] = IF j = op.id /\ l = k THEN NoSecret ELSE ring[j][l]
  <2>1. ring \in [Id -> Secrets] /\ ring' = [ring EXCEPT ![op.id][k] = NoSecret]
    BY DEF Forget, WInv, TypeOK
  <2> QED
    BY <1>1, <2>1 DEF Secrets
<1>3. /\ file = mem /\ op.applied = <<>>
      /\ ~spoiled => Clean(mem.profiles, ring) /\ Clean(backup.profiles, backup.secrets)
  BY <1>1 DEF SInv, Quiet
<1>4. ~spoiled => Clean(mem.profiles, ring')
  BY <1>2, <1>3 DEF Clean
<1> QED
  BY <1>1, <1>3, <1>4, CleanAfter

LEMMA CreateBackupSecure ==
  ASSUME "save" \notin Mishaps, WInv, SInv, CreateBackup
  PROVE  SInv'
<1>1. op = Idle /\ op' = Idle /\ UNCHANGED <<mem, file, ring, spoiled>>
        /\ backup'.profiles = mem.profiles
        /\ backup'.secrets = [i \in Id |-> IF mem.profiles[i] = Absent THEN NoSecrets ELSE Get(i)]
  BY DEF CreateBackup, Begin
<1>2. file = mem /\ (~spoiled => Clean(mem.profiles, ring))
  BY <1>1, IdleFields DEF SInv, Quiet
<1>3. \A i \in Id, k \in Kind : backup'.secrets[i][k] # NoSecret => ring[i][k] # NoSecret
  BY <1>1, NoBackupType DEF Get
<1>4. ~spoiled => Clean(backup'.profiles, backup'.secrets)
  BY <1>1, <1>2, <1>3 DEF Clean
<1> QED
  BY <1>1, <1>2, <1>4, IdleFields, CleanAfter

LEMMA BeginRestoreSecure ==
  ASSUME "save" \notin Mishaps, WInv, SInv, BeginRestore
  PROVE  SInv'
<1> DEFINE b == [backup EXCEPT !.profiles = NoBackup.profiles]
<1>1. b.profiles = NoBackup.profiles /\ b.secrets = backup.secrets
  BY BackupFields, NoBackupType DEF WInv, TypeOK
<1>2. op = Idle /\ op' = [Idle EXCEPT !.name = "planning", !.left = Ids(backup.profiles), !.plan = b]
        /\ UNCHANGED <<mem, file, ring, backup, spoiled>>
  BY DEF BeginRestore, Begin
<1> HIDE DEF b
<1>3. op'.name = "planning" /\ op'.plan = b /\ op'.applied = <<>>
  BY <1>2 DEF Idle
<1>4. /\ file = mem
      /\ ~spoiled => Clean(mem.profiles, ring) /\ Clean(backup.profiles, backup.secrets)
  BY <1>2, IdleFields DEF SInv, Quiet
<1>5. PlanClean'
  BY <1>1, <1>3, NoBackupType DEF PlanClean
<1> QED
  BY <1>1, <1>2, <1>3, <1>4, <1>5 DEF SInv, Quiet

LEMMA PlanItemSecure ==
  ASSUME "save" \notin Mishaps, WInv, SInv, NEW i \in Id, PlanItem(i)
  PROVE  SInv'
<1> DEFINE taken == NamesOf(mem.profiles, Kept) \cup NamesOf(op.plan.profiles, Id)
           n     == backup.profiles[i].name
           name  == IF n \in taken THEN CHOOSE m \in Name : m \notin taken ELSE n
           p     == [backup.profiles[i] EXCEPT !.name = name]
           plan  == [op.plan EXCEPT !.profiles[i] = p]
<1>1. op.name = "planning" /\ i \in op.left /\ op \in Operation /\ op.plan \in BackupDocument
  BY OperationFields DEF PlanItem, WInv, TypeOK
<1>2. i \in Ids(backup.profiles)
  BY <1>1 DEF WInv, PlanWell
<1>3. backup.profiles[i] \in Profile
  BY <1>2, BackupFields, ProfileAt DEF WInv, TypeOK, Ids
<1>4. p.ipsec = backup.profiles[i].ipsec
  BY <1>3 DEF Profile
<1>5. op' = [op EXCEPT !.left = @ \ {i}, !.plan.profiles[i] = p]
        /\ UNCHANGED <<mem, file, ring, backup, spoiled>>
  BY DEF PlanItem
<1> HIDE DEF p
<1>6. op' = [op EXCEPT !.left = @ \ {i}, !.plan = plan]
  BY <1>1, <1>5 DEF Operation
<1>7. plan.secrets = op.plan.secrets /\ plan.profiles = [op.plan.profiles EXCEPT ![i] = p]
  BY <1>1 DEF BackupDocument
<1> HIDE DEF plan
<1>8. op'.name = "planning" /\ op'.plan = plan /\ op'.applied = op.applied
  BY <1>1, <1>6 DEF Operation
<1>9. op.plan.profiles \in ProfilesOf
  BY <1>1, BackupFields
<1>10. \A j \in Id : plan.profiles[j] = IF j = i THEN p ELSE op.plan.profiles[j]
  BY <1>7, <1>9 DEF ProfilesOf
<1>11. ~spoiled => op.plan.secrets = backup.secrets /\ PlanClean /\ Clean(backup.profiles, backup.secrets)
  BY <1>1 DEF SInv
<1>12. ~spoiled => PlanClean'
  <2> SUFFICES ASSUME ~spoiled, NEW j \in Ids(plan.profiles), NEW k \in Kind,
                      plan.secrets[j][k] # NoSecret
               PROVE  plan.profiles[j].ipsec
    BY <1>8 DEF PlanClean
  <2>1. CASE j = i
    BY <2>1, <1>4, <1>7, <1>10, <1>11 DEF Clean
  <2>2. CASE j # i
    BY <2>2, <1>7, <1>10, <1>11 DEF PlanClean, Ids
  <2> QED
    BY <2>1, <2>2
<1> QED
  BY <1>1, <1>5, <1>7, <1>8, <1>11, <1>12 DEF SInv, Quiet

LEMMA PreflightSecure ==
  ASSUME "save" \notin Mishaps, WInv, SInv, Preflight
  PROVE  SInv'
<1>1. op.name = "planning" /\ op \in Operation /\ UNCHANGED <<mem, file, ring, backup, spoiled>>
        /\ (op' = Idle \/ op' = [op EXCEPT !.name = "confirm"])
  BY DEF Preflight, WInv, TypeOK
<1>2. /\ file = mem /\ op.applied = <<>>
      /\ ~spoiled => Clean(mem.profiles, ring) /\ Clean(backup.profiles, backup.secrets) /\ PlanClean
  BY <1>1 DEF SInv, Quiet
<1>3. CASE op' = Idle
  BY <1>1, <1>2, <1>3, IdleFields, CleanAfter
<1>4. CASE op' = [op EXCEPT !.name = "confirm"]
  <2>1. op'.name = "confirm" /\ op'.plan = op.plan /\ op'.applied = op.applied
    BY <1>1, <1>4, NameFields
  <2> QED
    BY <1>1, <1>2, <2>1 DEF SInv, Quiet, PlanClean
<1> QED
  BY <1>1, <1>3, <1>4

\* What a call of the keyring changes of the calls to come.
LEMMA PassedCalls ==
  ASSUME op \in Operation, op.todo # <<>>
  PROVE  /\ 1 \in DOMAIN op.todo /\ op.todo[1] = Now
         /\ DOMAIN Tail(op.todo) = 1 .. (Len(op.todo) - 1) /\ Len(op.todo) \in Nat
         /\ \A n \in DOMAIN Tail(op.todo) : n + 1 \in DOMAIN op.todo /\ Tail(op.todo)[n] = op.todo[n + 1]
         /\ \A n \in DOMAIN op.todo \ {1} : n - 1 \in DOMAIN Tail(op.todo)
              /\ Tail(op.todo)[n - 1] = op.todo[n]
  BY OperationFields DEF Now

LEMMA AwaitsAfter ==
  ASSUME op \in Operation, op.todo # <<>>, op'.todo = Tail(op.todo), NEW i, NEW k
  PROVE  /\ Awaits(i, k)' => Awaits(i, k)
         /\ Awaits(i, k) => Awaits(i, k)' \/ (Now.call = "put" /\ Now.id = i /\ Now.kind = k)
<1>1. ASSUME Awaits(i, k)' PROVE Awaits(i, k)
  BY <1>1, PassedCalls DEF Awaits
<1>2. ASSUME Awaits(i, k) PROVE Awaits(i, k)' \/ (Now.call = "put" /\ Now.id = i /\ Now.kind = k)
  <2>1. PICK n \in DOMAIN op.todo : op.todo[n].call = "put" /\ op.todo[n].id = i /\ op.todo[n].kind = k
    BY <1>2 DEF Awaits
  <2>2. CASE n = 1
    BY <2>1, <2>2, PassedCalls
  <2>3. CASE n # 1
    <3>1. n - 1 \in DOMAIN Tail(op.todo) /\ Tail(op.todo)[n - 1] = op.todo[n]
      BY <2>1, <2>3, PassedCalls
    <3> QED
      BY <2>1, <3>1 DEF Awaits
  <2> QED
    BY <2>2, <2>3
<1> QED
  BY <1>1, <1>2

LEMMA CommitSecure ==
  ASSUME "save" \notin Mishaps, WInv, TodoWell, SInv, Commit
  PROVE  SInv'
<1> DEFINE m     == Merged(op.plan)
           start == [op EXCEPT !.before = [mem |-> mem, file |-> file, ring |-> ring]]
           then  == [start EXCEPT !.name = "restore", !.left = Ids(op.plan.profiles)]
           other == [start EXCEPT !.name = "rollback"]
<1>1. op.name = "confirm" /\ op \in Operation
  BY DEF Commit, WInv, TypeOK
<1>2. Persist(m, then, other) /\ UNCHANGED <<ring, backup, spoiled>>
  BY DEF Commit
<1>3. mem' = m /\ file' = m /\ op' = then
  BY <1>2, Saved
<1>4. /\ op.todo = <<>> /\ op.applied = <<>> /\ file = mem
      /\ ~spoiled => Clean(mem.profiles, ring) /\ Clean(backup.profiles, backup.secrets) /\ PlanClean
  BY <1>1 DEF SInv, Quiet, TodoWell
<1>5. /\ op'.name = "restore" /\ op'.left = Ids(op.plan.profiles) /\ op'.plan = op.plan
      /\ op'.todo = <<>> /\ op'.applied = <<>>
      /\ op'.before.mem = mem /\ op'.before.file = mem /\ op'.before.ring = ring
  BY <1>1, <1>3, <1>4 DEF Operation
<1>6. \A i \in Id : m.profiles[i] = IF i \in Ids(op.plan.profiles) THEN op.plan.profiles[i]
                                    ELSE mem.profiles[i]
  BY DEF Merged, Ids
<1> HIDE DEF m, start, then, other
<1>7. \A i \in Id, k \in Kind : ~Awaits(i, k)'
  BY <1>5 DEF Awaits
<1>8. RestoreWell'
  BY <1>2, <1>3, <1>5, <1>6 DEF RestoreWell
<1>9. ~spoiled => BeforeWell' /\ PlanClean'
  BY <1>4, <1>5 DEF BeforeWell, PlanClean
<1> QED
  BY <1>2, <1>3, <1>4, <1>5, <1>8, <1>9 DEF SInv, Quiet

LEMMA ItemCallsAt ==
  ASSUME NEW plan \in BackupDocument, NEW j \in Id
  PROVE  /\ DOMAIN ItemCalls(plan, j) = {1, 2}
         /\ ItemCalls(plan, j)[1] = Put(j, "psk", plan.secrets[j]["psk"])
         /\ ItemCalls(plan, j)[2] = Put(j, "xauth", plan.secrets[j]["xauth"])
         /\ Tail(ItemCalls(plan, j)) = <<Put(j, "xauth", plan.secrets[j]["xauth"])>>
         /\ ItemCalls(plan, j) # <<>>
         /\ \A k \in Kind : plan.secrets[j][k] \in Secret \cup {NoSecret}
         /\ \A k \in Kind : Put(j, k, plan.secrets[j][k]) \in Call
         /\ \A k \in Kind : Put(j, k, plan.secrets[j][k]).call = "put"
                         /\ Put(j, k, plan.secrets[j][k]).id = j
                         /\ Put(j, k, plan.secrets[j][k]).kind = k
                         /\ Put(j, k, plan.secrets[j][k]).value = plan.secrets[j][k]
<1>1. \A k \in Kind : plan.secrets[j][k] \in Secret \cup {NoSecret}
  BY BackupFields DEF Secrets
<1>2. \A k \in Kind :
        /\ Put(j, k, plan.secrets[j][k]) \in Call
        /\ Put(j, k, plan.secrets[j][k]).call = "put" /\ Put(j, k, plan.secrets[j][k]).id = j
        /\ Put(j, k, plan.secrets[j][k]).kind = k
        /\ Put(j, k, plan.secrets[j][k]).value = plan.secrets[j][k]
  BY <1>1, PutFields
<1>3. /\ DOMAIN ItemCalls(plan, j) = {1, 2}
      /\ ItemCalls(plan, j)[1] = Put(j, "psk", plan.secrets[j]["psk"])
      /\ ItemCalls(plan, j)[2] = Put(j, "xauth", plan.secrets[j]["xauth"])
      /\ ItemCalls(plan, j) # <<>>
  BY DEF ItemCalls
<1>4. Tail(ItemCalls(plan, j)) = <<Put(j, "xauth", plan.secrets[j]["xauth"])>>
  BY <1>2, KindElements DEF ItemCalls
<1> QED
  BY <1>1, <1>2, <1>3, <1>4

LEMMA ReadSecretsSecure ==
  ASSUME "save" \notin Mishaps, WInv, SInv, NEW j \in Id, ReadSecrets(j)
  PROVE  SInv'
<1>1. /\ op \in Operation /\ op.name = "restore" /\ op.todo = <<>> /\ j \in op.left
      /\ op.plan \in BackupDocument
  BY OperationFields DEF ReadSecrets, WInv, TypeOK
<1>2. /\ UNCHANGED <<mem, file, ring, backup>> /\ spoiled' = (spoiled \/ desk # "open")
      /\ op' = [op EXCEPT !.left = @ \ {j}, !.todo = ItemCalls(op.plan, j), !.read = Get(j)]
  BY DEF ReadSecrets
<1>3. /\ op'.name = "restore" /\ op'.left = op.left \ {j} /\ op'.todo = ItemCalls(op.plan, j)
      /\ op'.read = Get(j) /\ op'.plan = op.plan /\ op'.before = op.before /\ op'.applied = op.applied
  BY <1>1, <1>2 DEF Operation
<1>4. CASE spoiled'
  BY <1>1, <1>2, <1>3, <1>4 DEF SInv, Quiet
<1>5. CASE ~spoiled'
  <2>1. ~spoiled /\ desk = "open" /\ op'.read = ring[j]
    BY <1>2, <1>3, <1>5 DEF Get
  <2>2. BeforeWell /\ RestoreWell /\ PlanClean /\ Clean(backup.profiles, backup.secrets) /\ file = mem
    BY <2>1, <1>1 DEF SInv
  <2>3. \A i \in Id, k \in Kind : Awaits(i, k)' <=> i = j
    BY <1>1, <1>3, ItemCallsAt, KindElements DEF Awaits
  <2>4. \A i \in Id, k \in Kind : ~Awaits(i, k)
    BY <1>1 DEF Awaits
  <2>5. ring \in [Id -> Secrets] /\ op.before.ring \in [Id -> Secrets] /\ j \in Ids(op.plan.profiles)
    BY <1>1, <2>2, OperationFields DEF WInv, TypeOK, RestoreWell
  <2>6. ring[j] = op.before.ring[j]
    <3>1. \A k \in Kind : ring[j][k] = op.before.ring[j][k]
      BY <1>1, <2>2 DEF RestoreWell
    <3> QED
      BY <2>5, <3>1 DEF Secrets
  <2>7. \A i \in Id, k \in Kind :
          ring'[i][k] = IF i \in Ids(op'.plan.profiles) \ op'.left /\ ~Awaits(i, k)'
                        THEN op'.plan.secrets[i][k] ELSE op'.before.ring[i][k]
    <3> SUFFICES ASSUME NEW i \in Id, NEW k \in Kind
                 PROVE  ring[i][k] = IF i \in Ids(op.plan.profiles) \ (op.left \ {j}) /\ i # j
                                     THEN op.plan.secrets[i][k] ELSE op.before.ring[i][k]
      BY <1>2, <1>3, <2>3
    <3>1. ring[i][k] = IF i \in Ids(op.plan.profiles) \ op.left
                       THEN op.plan.secrets[i][k] ELSE op.before.ring[i][k]
      BY <2>2, <2>4 DEF RestoreWell
    <3> QED
      BY <3>1, <2>6
  <2>8. \E m \in Ids(op'.plan.profiles) \ op'.left :
          /\ op'.read = op'.before.ring[m]
          /\ op'.todo \in {ItemCalls(op'.plan, m), <<Put(m, "xauth", op'.plan.secrets[m]["xauth"])>>}
    BY <1>3, <2>1, <2>5, <2>6
  <2>9. RestoreWell'
    BY <1>2, <1>3, <2>2, <2>7, <2>8 DEF RestoreWell
  <2> QED
    BY <1>1, <1>2, <1>3, <2>2, <2>9 DEF SInv, Quiet, BeforeWell, PlanClean
<1> QED
  BY <1>4, <1>5

\* A call that stores or deletes a value.
LEMMA PutSecure ==
  ASSUME WInv, SInv, op.name \in {"calls", "restore", "rollback"}, op.todo # <<>>, Now.call = "put",
         op' = Done, UNCHANGED <<mem, file, backup>>, spoiled => spoiled',
         ~spoiled' => \A i \in Id, k \in Kind :
           ring'[i][k] = IF i = Now.id /\ k = Now.kind THEN Now.value ELSE ring[i][k]
  PROVE  SInv'
<1>1. op \in Operation
  BY DEF WInv, TypeOK
<1>2. /\ op'.name = op.name /\ op'.before = op.before /\ op'.todo = Tail(op.todo)
      /\ op'.plan = op.plan /\ op'.left = op.left /\ op'.read = op.read /\ op'.refused = op.refused
      /\ op'.applied = IF op.name = "restore"
                       THEN Append(op.applied, Put(Now.id, Now.kind, op.read[Now.kind]))
                       ELSE op.applied
  BY <1>1, DoneFields
<1>3. ~Quiet' /\ file' = mem' /\ Now \in Call
  BY <1>1, <1>2, PassedFields DEF Quiet, SInv
<1>4. CASE spoiled'
  BY <1>3, <1>4 DEF SInv
<1> SUFFICES ASSUME ~spoiled' PROVE SInv'
  BY <1>4
<1>5. /\ ~spoiled /\ Clean(backup.profiles, backup.secrets)
      /\ \A i \in Id, k \in Kind :
           ring'[i][k] = IF i = Now.id /\ k = Now.kind THEN Now.value ELSE ring[i][k]
  BY DEF SInv
<1>6. \A i \in Id, k \in Kind :
        /\ Awaits(i, k)' => Awaits(i, k)
        /\ Awaits(i, k) => Awaits(i, k)' \/ (Now.id = i /\ Now.kind = k)
  BY <1>1, <1>2, AwaitsAfter
<1>7. /\ 1 \in DOMAIN op.todo /\ op.todo[1] = Now
      /\ \A n \in DOMAIN op'.todo : n + 1 \in DOMAIN op.todo /\ op'.todo[n] = op.todo[n + 1]
  BY <1>1, <1>2, PassedCalls
<1>8. CASE op.name = "calls"
  <2>1. CallsWell
    BY <1>5, <1>8 DEF SInv
  <2>2. \A n \in DOMAIN op'.todo : op'.todo[n].call = "put" /\ op'.todo[n].id \in Id
    BY <1>7, <2>1 DEF CallsWell
  <2>3. Now.value # NoSecret => Now.id \in Ids(mem.profiles) /\ mem.profiles[Now.id].ipsec
    BY <1>7, <2>1 DEF CallsWell
  <2>4. Clean(mem.profiles, ring) => Clean(mem.profiles, ring')
    BY <1>5, <2>3 DEF Clean
  <2>5. \A n \in DOMAIN op'.todo : op'.todo[n].value # NoSecret =>
          /\ op'.todo[n].id \in Ids(mem.profiles) /\ mem.profiles[op'.todo[n].id].ipsec
          /\ Clean(mem.profiles, ring')
    BY <1>7, <2>1, <2>4 DEF CallsWell
  <2>6. \A i \in Id, k \in Kind : ring'[i][k] # NoSecret =>
          \/ i \in Ids(mem.profiles) /\ mem.profiles[i].ipsec
          \/ Awaits(i, k)'
    <3> SUFFICES ASSUME NEW i \in Id, NEW k \in Kind, ring'[i][k] # NoSecret
                 PROVE  (i \in Ids(mem.profiles) /\ mem.profiles[i].ipsec) \/ Awaits(i, k)'
      OBVIOUS
    <3>1. CASE i = Now.id /\ k = Now.kind
      BY <3>1, <1>5, <2>3
    <3>2. CASE ~(i = Now.id /\ k = Now.kind)
      BY <3>2, <1>5, <1>6, <2>1 DEF CallsWell
    <3> QED
      BY <3>1, <3>2
  <2>7. CallsWell'
    BY <2>2, <2>5, <2>6 DEF CallsWell
  <2> QED
    BY <1>2, <1>3, <1>5, <1>8, <2>7 DEF SInv
<1>9. CASE op.name = "restore"
  <2>1. BeforeWell /\ RestoreWell /\ PlanClean
    BY <1>5, <1>9 DEF SInv
  <2>2. PICK j \in Ids(op.plan.profiles) \ op.left :
          /\ op.read = op.before.ring[j]
          /\ op.todo \in {ItemCalls(op.plan, j), <<Put(j, "xauth", op.plan.secrets[j]["xauth"])>>}
    BY <2>1 DEF RestoreWell
  <2>3. j \in Id /\ op.plan \in BackupDocument
    BY <1>1, OperationFields DEF Ids
  <2>4. \E k \in Kind : /\ Now = Put(j, k, op.plan.secrets[j][k])
                        /\ ~Awaits(j, k)'
                        /\ op'.todo = <<>> \/ op'.todo = <<Put(j, "xauth", op.plan.secrets[j]["xauth"])>>
    <3> DEFINE last == <<Put(j, "xauth", op.plan.secrets[j]["xauth"])>>
    <3>1. /\ DOMAIN last = {1} /\ last[1] = Put(j, "xauth", op.plan.secrets[j]["xauth"])
          /\ last[1].kind = "xauth" /\ Tail(last) = <<>> /\ Head(last) = last[1]
      BY <2>3, ItemCallsAt, KindElements
    <3> HIDE DEF last
    <3>2. CASE op.todo = ItemCalls(op.plan, j)
      <4>1. Now = Put(j, "psk", op.plan.secrets[j]["psk"]) /\ op'.todo = last
        BY <3>2, <1>2, <1>7, <2>3, ItemCallsAt DEF last
      <4>2. ~Awaits(j, "psk")'
        BY <4>1, <3>1, KindElements DEF Awaits
      <4> QED
        BY <4>1, <4>2, KindElements DEF last
    <3>3. CASE op.todo = last
      <4>1. Now = Put(j, "xauth", op.plan.secrets[j]["xauth"]) /\ op'.todo = <<>>
        BY <3>1, <3>3, <1>2, <1>7
      <4>2. ~Awaits(j, "xauth")'
        BY <4>1 DEF Awaits
      <4> QED
        BY <4>1, <4>2, KindElements
    <3> QED
      BY <2>2, <3>2, <3>3 DEF last
  <2>5. PICK k \in Kind : /\ Now = Put(j, k, op.plan.secrets[j][k])
                          /\ ~Awaits(j, k)'
                          /\ op'.todo = <<>> \/ op'.todo = <<Put(j, "xauth", op.plan.secrets[j]["xauth"])>>
    BY <2>4
  <2>6. Now.id = j /\ Now.kind = k /\ Now.value = op.plan.secrets[j][k]
    BY <2>3, <2>5, ItemCallsAt
  <2>7. op.read[k] = op.before.ring[j][k] /\ op'.applied = Append(op.applied, Put(j, k, op.before.ring[j][k]))
    BY <1>2, <1>9, <2>2, <2>6
  <2>8. op.applied \in Seq(Call) /\ op.before.ring[j][k] \in Secret \cup {NoSecret}
    BY <1>1, <2>3, OperationFields DEF Secrets
  <2>9. Put(j, k, op.before.ring[j][k]).id = j /\ Put(j, k, op.before.ring[j][k]).kind = k
          /\ Put(j, k, op.before.ring[j][k]) \in Call
    BY <2>3, <2>8, PutFields
  <2>10. /\ DOMAIN op'.applied = DOMAIN op.applied \cup {Len(op.applied) + 1}
         /\ op'.applied[Len(op.applied) + 1] = Put(j, k, op.before.ring[j][k])
         /\ \A n \in DOMAIN op.applied : op'.applied[n] = op.applied[n]
    BY <2>7, <2>8, <2>9
  <2>11. \A n \in DOMAIN op'.applied :
           \E i \in Id, l \in Kind : op'.applied[n] = Put(i, l, op'.before.ring[i][l])
    BY <1>2, <2>1, <2>3, <2>10 DEF RestoreWell
  <2>12. \A i \in Id, l \in Kind : ring'[i][l] # op'.before.ring[i][l] =>
           \E n \in DOMAIN op'.applied : op'.applied[n].id = i /\ op'.applied[n].kind = l
    <3> SUFFICES ASSUME NEW i \in Id, NEW l \in Kind, ring'[i][l] # op.before.ring[i][l]
                 PROVE  \E n \in DOMAIN op'.applied : op'.applied[n].id = i /\ op'.applied[n].kind = l
      BY <1>2
    <3>1. CASE i = j /\ l = k
      BY <3>1, <2>9, <2>10
    <3>2. CASE ~(i = j /\ l = k)
      <4>1. ring[i][l] # op.before.ring[i][l]
        BY <3>2, <1>5, <2>6
      <4>2. PICK n \in DOMAIN op.applied : op.applied[n].id = i /\ op.applied[n].kind = l
        BY <4>1, <2>1 DEF RestoreWell
      <4> QED
        BY <4>2, <2>10
    <3> QED
      BY <3>1, <3>2
  <2>13. \A i \in Id, l \in Kind :
           ring'[i][l] = IF i \in Ids(op'.plan.profiles) \ op'.left /\ ~Awaits(i, l)'
                         THEN op'.plan.secrets[i][l] ELSE op'.before.ring[i][l]
    <3> SUFFICES ASSUME NEW i \in Id, NEW l \in Kind
                 PROVE  ring'[i][l] = IF i \in Ids(op.plan.profiles) \ op.left /\ ~Awaits(i, l)'
                                      THEN op.plan.secrets[i][l] ELSE op.before.ring[i][l]
      BY <1>2
    <3>1. CASE i = j /\ l = k
      BY <3>1, <1>5, <2>5, <2>6
    <3>2. CASE ~(i = j /\ l = k)
      <4>1. ring'[i][l] = ring[i][l] /\ (Awaits(i, l)' <=> Awaits(i, l))
        BY <3>2, <1>5, <1>6, <2>6
      <4> QED
        BY <4>1, <2>1 DEF RestoreWell
    <3> QED
      BY <3>1, <3>2
  <2>15. \/ op'.todo = <<>>
         \/ \E m \in Ids(op'.plan.profiles) \ op'.left :
              /\ op'.read = op'.before.ring[m]
              /\ op'.todo \in {ItemCalls(op'.plan, m), <<Put(m, "xauth", op'.plan.secrets[m]["xauth"])>>}
    BY <1>2, <2>2, <2>5
  <2>16. /\ op'.left \subseteq Ids(op'.plan.profiles)
         /\ \A i \in Id : mem'.profiles[i] = IF i \in Ids(op'.plan.profiles) THEN op'.plan.profiles[i]
                                             ELSE op'.before.mem.profiles[i]
    BY <1>2, <2>1 DEF RestoreWell
  <2>14. RestoreWell'
    BY <2>11, <2>12, <2>13, <2>15, <2>16 DEF RestoreWell
  <2> QED
    BY <1>2, <1>3, <1>5, <1>9, <2>1, <2>14 DEF SInv, BeforeWell, PlanClean
<1>10. CASE op.name = "rollback"
  <2>1. BeforeWell /\ RollbackWell
    BY <1>5, <1>10 DEF SInv
  <2>2. PICK j \in Id, k \in Kind : Now = Put(j, k, op.before.ring[j][k])
    BY <1>7, <2>1, InstallFields DEF RollbackWell
  <2>3. op.before.ring[j][k] \in Secret \cup {NoSecret}
    BY <1>1, OperationFields DEF Secrets
  <2>4. Now.id = j /\ Now.kind = k /\ Now.value = op.before.ring[j][k]
    BY <2>2, <2>3, PutFields
  <2>5. \A n \in DOMAIN op'.todo : op'.todo[n] = Install \/
          \E i \in Id, l \in Kind : op'.todo[n] = Put(i, l, op'.before.ring[i][l])
    BY <1>2, <1>7, <2>1 DEF RollbackWell
  <2>6. \A i \in Id, l \in Kind : ring'[i][l] # op'.before.ring[i][l] => Awaits(i, l)'
    BY <1>2, <1>5, <1>6, <2>1, <2>4 DEF RollbackWell
  <2>7. mem = op.before.mem \/ \E n \in DOMAIN op'.todo : op'.todo[n] = Install
    <3>1. Now # Install
      BY InstallFields
    <3>2. ASSUME NEW n \in DOMAIN op.todo, op.todo[n] = Install
          PROVE  \E m \in DOMAIN op'.todo : op'.todo[m] = Install
      <4>1. n # 1
        BY <3>1, <3>2, <1>7
      <4>2. n - 1 \in DOMAIN Tail(op.todo) /\ Tail(op.todo)[n - 1] = op.todo[n]
        BY <4>1, <3>2, <1>1, PassedCalls
      <4> QED
        BY <4>2, <3>2, <1>2
    <3> QED
      BY <3>2, <2>1 DEF RollbackWell
  <2>8. RollbackWell'
    BY <1>2, <2>1, <2>5, <2>6, <2>7 DEF RollbackWell
  <2> QED
    BY <1>2, <1>3, <1>5, <1>10, <2>1, <2>8 DEF SInv, BeforeWell
<1> QED
  BY <1>8, <1>9, <1>10

LEMMA DeleteSecretSecure ==
  ASSUME "save" \notin Mishaps, WInv, SInv, DeleteSecret, op.name \in {"calls", "restore", "rollback"}
  PROVE  SInv'
<1>1. /\ op.todo # <<>> /\ Now.call = "put" /\ op' = Done /\ UNCHANGED <<mem, file, backup>>
      /\ spoiled' = (spoiled \/ desk # "open") /\ Now.value = NoSecret
  BY DEF DeleteSecret
<1>2. ring \in [Id -> Secrets] /\ (~spoiled' => ring' = [ring EXCEPT ![Now.id][Now.kind] = NoSecret])
  BY <1>1 DEF DeleteSecret, WInv, TypeOK
<1>3. ~spoiled' => \A i \in Id, k \in Kind :
        ring'[i][k] = IF i = Now.id /\ k = Now.kind THEN Now.value ELSE ring[i][k]
  BY <1>1, <1>2 DEF Secrets
<1>4. spoiled => spoiled'
  BY <1>1
<1> QED
  BY <1>1, <1>3, <1>4, PutSecure

LEMMA SetSecretSecure ==
  ASSUME "save" \notin Mishaps, WInv, SInv, SetSecret, op.name \in {"calls", "restore", "rollback"}
  PROVE  SInv'
<1>1. /\ op.todo # <<>> /\ Now.call = "put" /\ op' = Done /\ UNCHANGED <<mem, file, backup, spoiled>>
  BY DEF SetSecret
<1>2. ring \in [Id -> Secrets] /\ ring' = [ring EXCEPT ![Now.id][Now.kind] = Now.value]
  BY DEF SetSecret, WInv, TypeOK
<1>3. \A i \in Id, k \in Kind :
        ring'[i][k] = IF i = Now.id /\ k = Now.kind THEN Now.value ELSE ring[i][k]
  BY <1>2 DEF Secrets
<1> QED
  BY <1>1, <1>3, PutSecure

LEMMA SetFailsSecure ==
  ASSUME "save" \notin Mishaps, WInv, TodoWell, SInv, SetFails
  PROVE  SInv'
<1>1. /\ op \in Operation /\ op.todo # <<>> /\ Now.call = "put" /\ Now.value # NoSecret
      /\ UNCHANGED <<mem, file, ring, backup>>
      /\ spoiled' = TRUE \/ (~op.refused /\ spoiled' = spoiled)
  BY DEF SetFails, WInv, TypeOK
<1>2. op.name \in {"calls", "restore", "rollback"}
  BY <1>1 DEF TodoWell, Operation
<1>3. file' = mem'
  BY <1>1 DEF SInv
<1>4. CASE op.name = "restore"
  <2> DEFINE len == Len(op.applied)
  <2>1. op' = [RollBack EXCEPT !.refused = TRUE]
    BY <1>4 DEF SetFails
  <2>2. /\ op'.name = "rollback" /\ op'.before = op.before /\ op'.refused = TRUE
        /\ op'.todo = Append(Reverse(op.applied), Install)
        /\ Reverse(op.applied) \in Seq(Call) /\ Len(Reverse(op.applied)) = len
        /\ \A n \in 1 .. len : Reverse(op.applied)[n] = op.applied[(len - n) + 1]
    BY <2>1, <1>1, RollBackFields
  <2>3. op.applied \in Seq(Call) /\ len \in Nat /\ DOMAIN op.applied = 1 .. len
    BY <1>1, OperationFields
  <2>4. /\ DOMAIN op'.todo = 1 .. (len + 1) /\ op'.todo[len + 1] = Install
        /\ \A n \in 1 .. len : op'.todo[n] = op.applied[(len - n) + 1]
    BY <2>2, <2>3, InstallFields
  <2> HIDE DEF len
  <2>5. CASE spoiled'
    BY <1>3, <2>2, <2>5 DEF SInv, Quiet
  <2>6. CASE ~spoiled'
    <3>1. BeforeWell /\ RestoreWell /\ Clean(backup.profiles, backup.secrets)
      BY <1>1, <1>4, <2>6 DEF SInv
    <3>2. \A n \in DOMAIN op'.todo : op'.todo[n] = Install \/
            \E i \in Id, k \in Kind : op'.todo[n] = Put(i, k, op'.before.ring[i][k])
      <4> SUFFICES ASSUME NEW n \in DOMAIN op'.todo, op'.todo[n] # Install
                   PROVE  \E i \in Id, k \in Kind : op'.todo[n] = Put(i, k, op.before.ring[i][k])
        BY <2>2
      <4>1. n \in 1 .. len /\ (len - n) + 1 \in DOMAIN op.applied
        BY <2>3, <2>4
      <4> QED
        BY <4>1, <2>4, <3>1 DEF RestoreWell
    <3>3. \A i \in Id, k \in Kind : ring'[i][k] # op'.before.ring[i][k] => Awaits(i, k)'
      <4> SUFFICES ASSUME NEW i \in Id, NEW k \in Kind, ring[i][k] # op.before.ring[i][k]
                   PROVE  Awaits(i, k)'
        BY <1>1, <2>2
      <4>1. PICK n \in DOMAIN op.applied : op.applied[n].id = i /\ op.applied[n].kind = k
        BY <3>1 DEF RestoreWell
      <4>2. (len - n) + 1 \in 1 .. len /\ (len - ((len - n) + 1)) + 1 = n
        BY <2>3, <4>1
      <4>3. op'.todo[(len - n) + 1] = op.applied[n] /\ (len - n) + 1 \in DOMAIN op'.todo
        BY <2>3, <2>4, <4>2
      <4>4. PICK j \in Id, l \in Kind : op.applied[n] = Put(j, l, op.before.ring[j][l])
        BY <3>1, <4>1 DEF RestoreWell
      <4>5. op.before.ring[j][l] \in Secret \cup {NoSecret}
        BY <1>1, OperationFields DEF Secrets
      <4>6. op.applied[n].call = "put"
        BY <4>4, <4>5, PutFields
      <4> QED
        BY <4>1, <4>3, <4>6 DEF Awaits
    <3>4. len + 1 \in DOMAIN op'.todo
      BY <2>3, <2>4
    <3>5. RollbackWell'
      BY <2>2, <2>4, <3>2, <3>3, <3>4 DEF RollbackWell
    <3> QED
      BY <1>1, <1>3, <2>2, <3>1, <3>5 DEF SInv, Quiet, BeforeWell
  <2> QED
    BY <2>5, <2>6
<1>5. CASE op.name = "rollback"
  <2>1. op' = [Passed EXCEPT !.refused = TRUE]
    BY <1>5 DEF SetFails
  <2>2. op'.name = "rollback"
    BY <2>1, <1>1, <1>5, PassedFields DEF Operation
  <2>3. spoiled'
    <3>1. ~spoiled => op.refused
      BY <1>5 DEF SInv, RollbackWell
    <3> QED
      BY <3>1, <1>1
  <2> QED
    BY <1>3, <2>2, <2>3 DEF SInv, Quiet
<1>6. CASE op.name = "calls"
  <2>1. op' = Idle
    BY <1>6 DEF SetFails
  <2>2. ~spoiled' => ~spoiled /\ Clean(backup.profiles, backup.secrets) /\ CallsWell
    BY <1>1, <1>6 DEF SInv
  <2>3. 1 \in DOMAIN op.todo /\ op.todo[1] = Now
    BY <1>1, PassedCalls
  <2>4. ~spoiled' => Clean(mem.profiles, ring)
    BY <1>1, <2>2, <2>3 DEF CallsWell
  <2> QED
    BY <1>1, <1>3, <2>1, <2>2, <2>4, IdleFields, CleanAfter
<1> QED
  BY <1>2, <1>4, <1>5, <1>6

LEMMA RollBackProfilesSecure ==
  ASSUME "save" \notin Mishaps, WInv, TodoWell, SInv, RollBackProfiles
  PROVE  SInv'
<1>1. /\ op \in Operation /\ op.todo # <<>> /\ Now.call = "install"
      /\ Persist(op.before.mem, Passed, Passed) /\ UNCHANGED <<ring, backup, spoiled>>
  BY DEF RollBackProfiles, WInv, TypeOK
<1>2. mem' = op.before.mem /\ file' = op.before.mem /\ op' = Passed
  BY <1>1, Saved
<1>3. /\ op'.name = op.name /\ op'.before = op.before /\ op'.todo = Tail(op.todo)
      /\ op'.refused = op.refused
  BY <1>1, <1>2, PassedFields
<1>4. op.name \in {"calls", "restore", "rollback"}
  BY <1>1 DEF TodoWell, Operation
<1>5. CASE spoiled
  BY <1>1, <1>2, <1>3, <1>4, <1>5 DEF SInv, Quiet
<1>6. ASSUME ~spoiled PROVE SInv'
  <2>1. 1 \in DOMAIN op.todo /\ op.todo[1] = Now
          /\ \A n \in DOMAIN op'.todo : n + 1 \in DOMAIN op.todo /\ op'.todo[n] = op.todo[n + 1]
    BY <1>1, <1>3, PassedCalls
  <2>2. op.name # "calls"
    BY <2>1, <1>1, <1>6 DEF SInv, CallsWell
  <2>3. op.name # "restore"
    <3> SUFFICES ASSUME op.name = "restore" PROVE FALSE
      OBVIOUS
    <3>1. RestoreWell
      BY <1>6 DEF SInv
    <3>2. PICK j \in Ids(op.plan.profiles) \ op.left :
            op.todo \in {ItemCalls(op.plan, j), <<Put(j, "xauth", op.plan.secrets[j]["xauth"])>>}
      BY <3>1, <1>1 DEF RestoreWell
    <3>3. j \in Id /\ op.plan \in BackupDocument
      BY <1>1, OperationFields DEF Ids
    <3>4. \E k \in Kind : Now = Put(j, k, op.plan.secrets[j][k])
      BY <3>2, <3>3, <2>1, ItemCallsAt, KindElements
    <3> QED
      BY <3>3, <3>4, <1>1, ItemCallsAt
  <2>4. op.name = "rollback" /\ BeforeWell /\ RollbackWell /\ Clean(backup.profiles, backup.secrets)
    BY <1>4, <1>6, <2>2, <2>3 DEF SInv
  <2>5. \A i \in Id, k \in Kind : Awaits(i, k) => Awaits(i, k)'
    BY <1>1, <1>3, AwaitsAfter
  <2>6. RollbackWell'
    BY <1>1, <1>2, <1>3, <2>1, <2>4, <2>5 DEF RollbackWell
  <2> QED
    BY <1>1, <1>2, <1>3, <2>4, <2>6 DEF SInv, Quiet, BeforeWell
<1> QED
  BY <1>5, <1>6

LEMMA NoneAwaited ==
  ASSUME op.todo = <<>>, NEW i, NEW k
  PROVE  ~Awaits(i, k)
  BY DEF Awaits

LEMMA FinishSecure ==
  ASSUME "save" \notin Mishaps, WInv, SInv, Finish
  PROVE  SInv'
<1>1. /\ op' = Idle /\ UNCHANGED <<mem, file, ring, backup, spoiled>> /\ op.todo = <<>>
      /\ op.name \in {"calls", "restore", "rollback"} /\ (op.name = "restore" => op.left = {})
  BY DEF Finish
<1>2. file' = mem'
  BY <1>1 DEF SInv
<1>3. ASSUME ~spoiled PROVE Clean(mem.profiles, ring)
  <2>1. CASE op.name = "calls"
    BY <2>1, <1>1, <1>3, NoneAwaited DEF SInv, CallsWell, Clean
  <2>2. CASE op.name = "restore"
    <3>1. BeforeWell /\ RestoreWell /\ PlanClean
      BY <2>2, <1>3 DEF SInv
    <3> SUFFICES ASSUME NEW i \in Id, NEW k \in Kind, ring[i][k] # NoSecret
                 PROVE  i \in Ids(mem.profiles) /\ mem.profiles[i].ipsec
      BY DEF Clean
    <3>2. CASE i \in Ids(op.plan.profiles)
      <4>1. ring[i][k] = op.plan.secrets[i][k] /\ mem.profiles[i] = op.plan.profiles[i]
        BY <3>1, <3>2, <1>1, <2>2, NoneAwaited DEF RestoreWell
      <4> QED
        BY <4>1, <3>1, <3>2 DEF PlanClean, Ids
    <3>3. CASE i \notin Ids(op.plan.profiles)
      <4>1. ring[i][k] = op.before.ring[i][k] /\ mem.profiles[i] = op.before.mem.profiles[i]
        BY <3>1, <3>3 DEF RestoreWell
      <4> QED
        BY <4>1, <3>1 DEF BeforeWell, Clean, Ids
    <3> QED
      BY <3>2, <3>3
  <2>3. CASE op.name = "rollback"
    <3>1. BeforeWell /\ RollbackWell
      BY <2>3, <1>3 DEF SInv
    <3>2. mem = op.before.mem /\ \A i \in Id, k \in Kind : ring[i][k] = op.before.ring[i][k]
      BY <3>1, <1>1, NoneAwaited DEF RollbackWell
    <3> QED
      BY <3>1, <3>2 DEF BeforeWell, Clean
  <2> QED
    BY <1>1, <2>1, <2>2, <2>3
<1>4. ~spoiled => Clean(backup.profiles, backup.secrets)
  BY DEF SInv
<1> QED
  BY <1>1, <1>2, <1>3, <1>4, IdleFields, CleanAfter

LEMMA PinSecure ==
  ASSUME "save" \notin Mishaps, WInv, SInv, Pin
  PROVE  SInv'
<1> DEFINE p == [mem.profiles[session] EXCEPT !.pin = TRUE]
           m == [mem EXCEPT !.profiles[session].pin = TRUE]
<1>1. session \in Id /\ mem.profiles[session] # Absent /\ mem \in Document /\ Quiet
  BY IdleFields DEF Pin, WInv, TypeOK, Open, InDialog, Quiet
<1>2. mem.profiles \in ProfilesOf /\ mem.profiles[session] \in Profile
  BY <1>1, DocumentFields, ProfileAt
<1>3. p \in Profile /\ p.ipsec = mem.profiles[session].ipsec
  BY <1>2, ProfileFields
<1>4. m.profiles = [mem.profiles EXCEPT ![session] = p]
  BY <1>1 DEF Document
<1>5. mem' = m /\ file' = m /\ op' = op /\ UNCHANGED <<ring, backup, spoiled>>
  BY Saved DEF Pin
<1> HIDE DEF p, m
<1>6. \A i \in Id : m.profiles[i] = IF i = session THEN p ELSE mem.profiles[i]
  BY <1>2, <1>4 DEF ProfilesOf
<1>7. Clean(mem.profiles, ring) => Clean(m.profiles, ring)
  <2> SUFFICES ASSUME Clean(mem.profiles, ring), NEW i \in Id, NEW k \in Kind, ring[i][k] # NoSecret
               PROVE  i \in Ids(m.profiles) /\ m.profiles[i].ipsec
    BY DEF Clean
  <2>1. i \in Ids(mem.profiles) /\ mem.profiles[i].ipsec
    BY DEF Clean
  <2> QED
    BY <2>1, <1>3, <1>6, ProfileFields DEF Ids
<1> QED
  BY <1>1, <1>5, <1>7 DEF SInv, Quiet, PlanClean

LEMMA RestartSecure ==
  ASSUME "save" \notin Mishaps, WInv, SInv, Restart
  PROVE  SInv'
<1>1. /\ mem' = Loaded(file) /\ op' = Idle /\ UNCHANGED <<file, ring, backup>> /\ op \in Operation
      /\ spoiled' = (spoiled \/ op.name \in {"calls", "restore", "rollback"})
  BY DEF Restart, WInv, TypeOK
<1>2. file \in Document /\ file.default \in Ids(file.profiles) \cup {NoId} /\ file = mem
  BY DEF WInv, GoodDoc, SInv
<1>3. Loaded(file) = [file EXCEPT !.default = file.default]
  BY <1>2 DEF Loaded, Document
<1>4. [file EXCEPT !.default = file.default] = file
  BY <1>2 DEF Document
<1>5. ~spoiled' => ~spoiled /\ Quiet
  BY <1>1 DEF Quiet, Operation
<1>6. ~spoiled' => Clean(mem.profiles, ring) /\ Clean(backup.profiles, backup.secrets)
  BY <1>5 DEF SInv
<1> QED
  BY <1>1, <1>2, <1>3, <1>4, <1>6, IdleFields, CleanAfter

LEMMA WorldSecure ==
  ASSUME SInv, UNCHANGED <<mem, file, ring, backup, op, spoiled>>
  PROVE  SInv'
  BY DEF SInv, Quiet, Clean, PlanClean, CallsWell, BeforeWell, RestoreWell, RollbackWell, Awaits

LEMMA SInvInit == Init => SInv
  BY NoBackupType, IdleFields DEF Init, SInv, Quiet, Clean

LEMMA SInvNext ==
  ASSUME "save" \notin Mishaps, WInv, TodoWell, SInv, [Next]_vars
  PROVE  SInv'
<1>0. op \in Operation
  BY DEF WInv, TypeOK
<1>1. CASE UNCHANGED vars
  BY <1>1, WorldSecure DEF vars
<1> SUFFICES ASSUME Next PROVE SInv'
  BY <1>1
<1>3. CASE \E i \in Id, n \in Name, ipsec, keep \in BOOLEAN, typed \in Typed : Add(i, n, ipsec, typed, keep)
  BY <1>3, AddSecure
<1>4. CASE \E i \in Id : OpenEditor(i)
  BY <1>4, OpenEditorSecure
<1>5. CASE \E n \in Name, ipsec, clear, keep \in BOOLEAN, typed \in Typed :
             SaveEditor(n, ipsec, clear, typed, keep)
  BY <1>5, SaveEditorSecure
<1>6. CASE (\E k \in Kind : Forget(k)) \/ CancelDialog
  BY <1>6, ForgetSecure, CancelDialogSecure
<1>7. CASE \E i \in Id, p \in Profile : Copy(i, p)
  BY <1>7, CopySecure
<1>8. CASE \E i \in Id : SetDefault(i) \/ Delete(i)
  BY <1>8, DeleteSecure, SetDefaultSecure
<1>9. CASE \E i \in Id, typed \in Secret, keep \in BOOLEAN : Credentials(i, typed, keep)
  BY <1>9, CredentialsSecure
<1>10. CASE CreateBackup \/ BeginRestore \/ Preflight \/ Commit
  BY <1>10, CreateBackupSecure, BeginRestoreSecure, PreflightSecure, CommitSecure
<1>12. CASE \E i \in Id : PlanItem(i)
  BY <1>12, PlanItemSecure
<1>15. CASE \E i \in Id : ReadSecrets(i)
  BY <1>15, ReadSecretsSecure
<1>16. CASE DeleteSecret \/ SetSecret
  <2>1. op.name \in {"calls", "restore", "rollback"}
    BY <1>16, <1>0 DEF DeleteSecret, SetSecret, TodoWell, Operation
  <2> QED
    BY <2>1, <1>16, DeleteSecretSecure, SetSecretSecure
<1>17. CASE SetFails \/ RollBackProfiles \/ Finish
  BY <1>17, SetFailsSecure, RollBackProfilesSecure, FinishSecure
<1>19. CASE Restart \/ Pin
  BY <1>19, RestartSecure, PinSecure
<1>20. CASE (\E i \in Id : SessionStarts(i)) \/ SessionEnds \/ KeyringChanges \/ Over
  <2>1. UNCHANGED <<mem, file, ring, backup, op, spoiled>>
    BY <1>20 DEF SessionStarts, SessionEnds, KeyringChanges, Over, vars
  <2> QED
    BY <2>1, WorldSecure
<1> QED
  BY <1>3, <1>4, <1>5, <1>6, <1>7, <1>8, <1>9, <1>10, <1>12, <1>15, <1>16,
     <1>17, <1>19, <1>20 DEF Next, UserStep, KeyringStep, WorldStep

LEMMA Secured ==
  ASSUME "save" \notin Mishaps
  PROVE  Spec => [](WInv /\ TodoWell /\ SInv)
<1>1. Init => WInv /\ TodoWell /\ SInv
  BY WInvInit, TodoInit, SInvInit
<1>2. WInv /\ TodoWell /\ SInv /\ [Next]_vars => (WInv /\ TodoWell /\ SInv)'
  BY WInvNext, TodoNext, SInvNext
<1> QED
  BY <1>1, <1>2, PTL DEF Spec

\* A secret in the keyring belongs to an IPsec profile that exists whenever no operation is
\* under way, whatever the keyring refuses (ProfileManager.delete, _persist_psk, restore). A
\* kill in the middle, a keyring that was closed or a file that could not be written are the
\* exceptions.
THEOREM SecretsHaveProfiles ==
  ASSUME "save" \notin Mishaps
  PROVE  Spec => []NoOrphans
<1>1. WInv /\ SInv => NoOrphans
  <2> SUFFICES ASSUME WInv, SInv, op = Idle, ~spoiled, NEW i \in Id, ring[i] # NoSecrets
               PROVE  i \in Ids(mem.profiles) /\ mem.profiles[i].ipsec
    BY DEF NoOrphans
  <2>1. Clean(mem.profiles, ring)
    BY IdleFields DEF SInv, Quiet
  <2>2. \E k \in Kind : ring[i][k] # NoSecret
    BY DEF WInv, TypeOK, Secrets, NoSecrets
  <2> QED
    BY <2>1, <2>2 DEF Clean
<1> QED
  BY <1>1, Secured, PTL

\* The end of a rollback finds the profiles in memory, the file and the keyring as they were
\* (_rollback), wherever the restore failed.
THEOREM RestoreIsAtomic ==
  ASSUME "save" \notin Mishaps
  PROVE  Spec => []RestoreAtomic
<1>1. WInv /\ SInv => RestoreAtomic
  <2> SUFFICES ASSUME WInv, SInv, op.name = "rollback", op.todo = <<>>, ~spoiled
               PROVE  mem = op.before.mem /\ file = op.before.file /\ ring = op.before.ring
    BY DEF RestoreAtomic
  <2>1. BeforeWell /\ RollbackWell /\ file = mem
    BY DEF SInv
  <2>2. mem = op.before.mem /\ \A i \in Id, k \in Kind : ring[i][k] = op.before.ring[i][k]
    BY <2>1, NoneAwaited DEF RollbackWell
  <2>3. ring \in [Id -> Secrets] /\ op.before.ring \in [Id -> Secrets]
    BY OperationFields DEF WInv, TypeOK
  <2>4. \A i \in Id : ring[i] = op.before.ring[i]
    BY <2>2, <2>3 DEF Secrets
  <2>5. ring = op.before.ring
    BY <2>3, <2>4
  <2> QED
    BY <2>1, <2>2, <2>5 DEF BeforeWell
<1> QED
  BY <1>1, Secured, PTL

\* A restore that has made its last call has given every profile of the backup the secrets the
\* backup has for it and no others, and touched no other profile (_write_secrets,
\* merged_profiles), in whatever order it took them.
THEOREM RestoreIsExact ==
  ASSUME "save" \notin Mishaps
  PROVE  Spec => []RestoreExact
<1>1. WInv /\ SInv => RestoreExact
  <2> SUFFICES ASSUME WInv, SInv, op.name = "restore", op.left = {}, op.todo = <<>>, ~spoiled,
                      NEW i \in Id
               PROVE  IF i \in Ids(op.plan.profiles)
                      THEN ring[i] = op.plan.secrets[i] /\ mem.profiles[i] = op.plan.profiles[i]
                      ELSE ring[i] = op.before.ring[i] /\ mem.profiles[i] = op.before.mem.profiles[i]
    BY DEF RestoreExact
  <2>1. RestoreWell
    BY DEF SInv
  <2>2. \A k \in Kind : ring[i][k] = IF i \in Ids(op.plan.profiles) THEN op.plan.secrets[i][k]
                                     ELSE op.before.ring[i][k]
    BY <2>1, NoneAwaited DEF RestoreWell
  <2>3. ring[i] \in Secrets /\ op.before.ring[i] \in Secrets /\ op.plan.secrets[i] \in Secrets
    BY OperationFields, BackupFields DEF WInv, TypeOK
  <2>4. ring[i] = IF i \in Ids(op.plan.profiles) THEN op.plan.secrets[i] ELSE op.before.ring[i]
    BY <2>2, <2>3 DEF Secrets
  <2> QED
    BY <2>1, <2>4 DEF RestoreWell
<1> QED
  BY <1>1, Secured, PTL
=============================================================================

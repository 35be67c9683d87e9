------------------------------ MODULE TenantData ------------------------------
(***************************************************************************)
(* The rows of one client and the keys their encrypted columns are under:  *)
(* assignment of a tenant key, a key of the client's own (BYOK), edits of  *)
(* encrypted texts, and the rotation sweep that rewraps them               *)
(* (src/src/crypto, src/src/modules/clients).                              *)
(***************************************************************************)
EXTENDS Naturals, FiniteSets

CONSTANTS
  Row,          \* rows of the client, the Client row included
  KindOf,       \* the table each row is of
  ParentOf,     \* the row its foreign key names; the Client row is its own
  NoRow,
  TenantKey,    \* keys an administrator may assign to the client
  NoKey,
  Editor,       \* concurrent requests that store an encrypted text
  Sweeper,      \* concurrent GET /internal/rotate-keys
  BatchSize,    \* rows of a table that one sweep takes
  ByokGranted,  \* whether the client's AWS account lets the system's role use its key
  MaxText,      \* bound: edits
  MaxVersion,   \* bound: versions of the system key
  Instance      \* bounds: the rows there are, those made later, who is active

\* A table each, but for the signed authorization document: its columns in the
\* Engagement row are set on their own, and are a row of their own here.
Kind == {"client", "user", "engagement", "document", "test", "finding", "evidence", "check",
         "report", "session", "cloud", "credential", "ledger"}

\* The table that the foreign key of a row names; a Client has none.
ParentKind(kind) ==
  CASE kind = "evidence" -> "finding"
    [] kind = "finding" -> "test"
    [] kind \in {"document", "test", "check", "report", "session"} -> "engagement"
    [] OTHER -> "client"

ASSUME TenantAssumption ==
  /\ IsFiniteSet(Row)
  /\ KindOf \in [Row -> Kind]
  /\ ParentOf \in [Row -> Row]
  /\ \A r \in Row : KindOf[ParentOf[r]] = ParentKind(KindOf[r])
  /\ \A r \in Row : KindOf[r] = "client" <=> ParentOf[r] = r
  /\ Cardinality({r \in Row : KindOf[r] = "client"}) = 1
  /\ NoRow \notin Row
  /\ NoKey \notin TenantKey /\ {"system", "byok", "none"} \cap TenantKey = {}
  /\ ByokGranted \in BOOLEAN
  /\ {BatchSize, MaxText, MaxVersion} \subseteq Nat \ {0}
  /\ \A in \in Instance :
       /\ in.initial \cap in.later = {} /\ in.initial \cup in.later \subseteq Row
       /\ \A r \in in.initial : ParentOf[r] \in in.initial
       /\ in.keys \subseteq TenantKey
       /\ in.editors \subseteq Editor /\ in.sweepers \subseteq Sweeper
       /\ in.crashes \in Nat

VARIABLES
  instance,   \* the deployment and its inputs
  table,      \* the rows
  version,    \* the system key's version in this deployment
  editor,     \* edits in progress
  sweeper,    \* rotation sweeps in progress
  last,       \* what the latest edit of a row stored, and under which key
  overlapped  \* rows edited while a sweep held an older copy of them

tenantVars == <<instance, table, version, editor, sweeper, last, overlapped>>

Client == CHOOSE r \in Row : KindOf[r] = "client"

KeyId == {"system", "byok", "none"} \cup TenantKey
Key == [id : KeyId, version : 1..MaxVersion]
SystemKey(v) == [id |-> "system", version |-> v]

\* Of a row that holds no ciphertext.
Plain == [id |-> "none", version |-> 1]

\* text is the number of the edit that wrote the row's encrypted column, key
\* the key that wraps it; assigned is Client.kmsKeyId; a malware check leaves
\* its verdict in the status.
Status == {"absent", "present", "PENDING", "CHECKED", "UNAVAILABLE"}
RowValue == [status : Status, text : 0..MaxText, key : Key, assigned : TenantKey \cup {NoKey}]
Absent == [status |-> "absent", text |-> 0, key |-> Plain, assigned |-> NoKey]

IdleEdit == [row |-> NoRow, key |-> Plain]
IdleSweep == [todo |-> {}, copy |-> [r \in Row |-> Absent], target |-> 1]

TenantTypeOK ==
  /\ instance \in Instance
  /\ table \in [Row -> RowValue]
  /\ version \in 1..MaxVersion
  /\ editor \in [Editor -> [row : Row \cup {NoRow}, key : Key]]
  /\ sweeper \in [Sweeper -> [todo : SUBSET Row, copy : [Row -> RowValue],
                              target : 1..MaxVersion]]
  /\ last \in [Row -> [text : 0..MaxText, id : KeyId]]
  /\ overlapped \subseteq Row

TenantInit ==
  /\ instance \in Instance
  /\ table = [r \in Row |->
       IF r \notin instance.initial THEN Absent
       ELSE [Absent EXCEPT !.status = "present",
                           !.key = IF KindOf[r] \in {"test", "user", "ledger"} THEN Plain ELSE SystemKey(1)]]
  /\ version = 1
  /\ editor = [e \in Editor |-> IdleEdit]
  /\ sweeper = [s \in Sweeper |-> IdleSweep]
  /\ last = [r \in Row |-> [text |-> 0, id |-> table[r].key.id]]
  /\ overlapped = {}

Present == {r \in Row : table[r].status # "absent"}
Credentials == {r \in Present : KindOf[r] = "credential"}

\* The key in the client's own account, of which no version is kept.
ByokKey == [id |-> "byok", version |-> 1]

\* tenantKms: the client's own key, else the one assigned to it, else the
\* system's.
Wrapping ==
  IF Credentials # {} THEN ByokKey
  ELSE IF table[Client].assigned # NoKey THEN [id |-> table[Client].assigned, version |-> version]
  ELSE SystemKey(version)

\* Every read decrypts with the system's provider.  It derives, or is allowed
\* to use, the keys of its own account, in every version; the client's own key
\* is in another account.
Unwraps(id) == id # "byok" \/ ByokGranted

\* A read of the row, like GET findings/:id, decrypts its texts.
Readable(r) == r \in Present /\ Unwraps(table[r].key.id)

(***************************************************************************)
(* Rows and keys                                                           *)
(***************************************************************************)
\* A row that can be made now: its foreign key holds.
New(r, kind) ==
  /\ KindOf[r] = kind /\ r \in instance.later
  /\ table[r].status = "absent" /\ table[ParentOf[r]].status # "absent"

Stored(r, kind) == KindOf[r] = kind /\ table[r].status # "absent"

\* Rows stored in one statement, with their texts under the given key.
Put(rows, key) ==
  /\ rows # {}
  /\ table' = [r \in Row |-> IF r \in rows THEN [Absent EXCEPT !.status = "present", !.key = key]
                             ELSE table[r]]
  /\ last' = [r \in Row |-> IF r \in rows THEN [text |-> 0, id |-> key.id] ELSE last[r]]
  /\ UNCHANGED <<instance, version, editor, sweeper, overlapped>>

Removed(r) ==
  /\ table' = [table EXCEPT ![r] = Absent]
  /\ UNCHANGED <<instance, version, editor, sweeper, last, overlapped>>

\* A test by hand, of an engagement that is authorized.
CreateTest(r) == New(r, "test") /\ Put({r}, Plain)

CreateFinding(r) == New(r, "finding") /\ Put({r}, Wrapping)

\* The notes of a compliance check or of a training session are optional.
CreateCheck(r) == New(r, "check") /\ \E key \in {Wrapping, Plain} : Put({r}, key)
CreateSession(r) == New(r, "session") /\ \E key \in {Wrapping, Plain} : Put({r}, key)

\* The controls of the library that the engagement has no check for yet.
SeedChecks(e) == Put({r \in Row : New(r, "check") /\ ParentOf[r] = e}, Plain)

CreateUser(r) == New(r, "user") /\ Put({r}, Plain)
RemoveUser(r) == Stored(r, "user") /\ Removed(r)

\* POST engagements/:id/authorize puts the reference it is given in the place
\* of the stored document's; the file stays, and no row names it.
ReplaceDocument(r) == Stored(r, "document") /\ Removed(r)

\* A usage event; it stands for AI calls, devices and discovery rows as well:
\* rows that name the client and that nothing deletes.
RecordUsage(r) == New(r, "ledger") /\ Put({r}, Plain)

\* The client's own key is tried out first, and stored under the system's.
PutCredential(r) ==
  /\ New(r, "credential") \/ Stored(r, "credential")
  /\ Put({r}, SystemKey(version))
RemoveCredential(r) == Stored(r, "credential") /\ Removed(r)

\* The client's AWS access for the cloud scan.
PutCloudCredential(r) == (New(r, "cloud") \/ Stored(r, "cloud")) /\ Put({r}, Wrapping)
RemoveCloudCredential(r) == Stored(r, "cloud") /\ Removed(r)

\* PATCH clients/:id/kms-key: what is already encrypted stays as it is.
AssignKey(k) ==
  /\ k \in instance.keys
  /\ Client \in Present
  /\ table' = [table EXCEPT ![Client].assigned = k]
  /\ UNCHANGED <<instance, version, editor, sweeper, last, overlapped>>

\* A deployment with the next version of the system key.
Redeploy ==
  /\ version < MaxVersion /\ instance.sweepers # {}
  /\ version' = version + 1
  /\ UNCHANGED <<instance, table, editor, sweeper, last, overlapped>>

(***************************************************************************)
(* Edits of an encrypted text                                              *)
(***************************************************************************)
\* PATCH of an engagement's scope, a finding's remediation guidance, a
\* compliance check or a training session:
\* the row is read and the key resolved and used ...
EditRead(e, r) ==
  /\ e \in instance.editors /\ editor[e] = IdleEdit
  /\ r \in Present /\ KindOf[r] \in {"engagement", "finding", "check", "session"}
  /\ editor' = [editor EXCEPT ![e] = [row |-> r, key |-> Wrapping]]
  /\ UNCHANGED <<instance, table, version, sweeper, last, overlapped>>

Held(r) == \E s \in Sweeper : r \in sweeper[s].todo

\* ... before the ciphertext replaces the old one.
EditWrite(e) ==
  LET r == editor[e].row IN
  /\ r \in Present /\ last[r].text < MaxText
  /\ table' = [table EXCEPT ![r] = [@ EXCEPT !.text = last[r].text + 1, !.key = editor[e].key]]
  /\ last' = [last EXCEPT ![r] = [text |-> last[r].text + 1, id |-> editor[e].key.id]]
  /\ overlapped' = IF Held(r) THEN overlapped \cup {r} ELSE overlapped
  /\ editor' = [editor EXCEPT ![e] = IdleEdit]
  /\ UNCHANGED <<instance, version, sweeper>>

\* An error, or the update finds no row.
EditEnds(e) ==
  /\ editor[e] # IdleEdit
  /\ editor' = [editor EXCEPT ![e] = IdleEdit]
  /\ UNCHANGED <<instance, table, version, sweeper, last, overlapped>>

(***************************************************************************)
(* Rotation (rotateAllFields).  The KeyRef rows it writes are left out:    *)
(* nothing reads them.                                                     *)
(***************************************************************************)
Swept == {r \in Present : KindOf[r] \in {"client", "engagement", "finding", "check", "session"}}
SweptIn(kind) == {r \in Swept : KindOf[r] = kind}

\* The tables are taken one after the other, each with a query for a batch
\* that has no condition and no order.
SweepRead(s, batch) ==
  /\ s \in instance.sweepers /\ sweeper[s].todo = {}
  /\ batch # {}
  /\ \E kind \in Kind :
       LET rows == SweptIn(kind)
       IN  /\ batch \subseteq rows
           /\ Cardinality(batch) = IF Cardinality(rows) < BatchSize THEN Cardinality(rows)
                                                                    ELSE BatchSize
  /\ sweeper' = [sweeper EXCEPT ![s] = [todo |-> batch, target |-> version,
                                        copy |-> [r \in Row |-> IF r \in batch THEN table[r]
                                                                ELSE Absent]]]
  /\ UNCHANGED <<instance, table, version, editor, last, overlapped>>

\* Mutant: keys other than the system's are rotated too.
RotatesAnyKey(key, target) == key # SystemKey(target) /\ key.id \notin {"byok", "none"}

\* A key that is not the system's is a tenant's, and left alone; so is a
\* field that holds nothing.
Rotates(key, target) == key.id = "system" /\ key.version # target

SweepDone(s, r) == sweeper' = [sweeper EXCEPT ![s] =
  [@ EXCEPT !.todo = sweeper[s].todo \ {r}, !.copy = [sweeper[s].copy EXCEPT ![r] = Absent]]]

SweepSkip(s, r) ==
  /\ r \in sweeper[s].todo
  /\ ~Rotates(sweeper[s].copy[r].key, sweeper[s].target)
  /\ SweepDone(s, r)
  /\ UNCHANGED <<instance, table, version, editor, last, overlapped>>

\* The copy read with the batch is decrypted, encrypted and written back.
SweepWrite(s, r) ==
  /\ r \in sweeper[s].todo \cap Present
  /\ Rotates(sweeper[s].copy[r].key, sweeper[s].target)
  /\ table' = [table EXCEPT ![r] = [@ EXCEPT !.text = sweeper[s].copy[r].text,
                                             !.key = SystemKey(sweeper[s].target)]]
  /\ SweepDone(s, r)
  /\ UNCHANGED <<instance, version, editor, last, overlapped>>

\* An error, or the update finds no row: the run ends.
SweepEnds(s) ==
  /\ sweeper[s].todo # {}
  /\ sweeper' = [sweeper EXCEPT ![s] = IdleSweep]
  /\ UNCHANGED <<instance, table, version, editor, last, overlapped>>

TenantNext ==
  \/ \E r \in instance.initial \cup instance.later :
       \/ CreateTest(r) \/ CreateFinding(r) \/ CreateCheck(r) \/ CreateSession(r)
       \/ CreateUser(r) \/ RemoveUser(r) \/ RecordUsage(r) \/ ReplaceDocument(r)
       \/ PutCredential(r) \/ RemoveCredential(r)
       \/ PutCloudCredential(r) \/ RemoveCloudCredential(r)
  \/ \E e \in {ParentOf[r] : r \in instance.later} : SeedChecks(e)
  \/ \E k \in TenantKey : AssignKey(k)
  \/ Redeploy
  \/ \E e \in Editor : EditWrite(e) \/ EditEnds(e) \/ \E r \in Row : EditRead(e, r)
  \/ \E s \in Sweeper : SweepEnds(s) \/ \E r \in Row : SweepSkip(s, r) \/ SweepWrite(s, r)
  \/ \E s \in Sweeper, batch \in SUBSET Swept : SweepRead(s, batch)

\* What the latest edit stored is still there, under the key the client had
\* then, and can be read back if the system can use that key, whatever is
\* rotated and assigned; only a row that was edited while a sweep held a copy
\* of it may have been set back ("undoing the tenant assignment" is what the
\* skip is there to prevent).
EditsKept ==
  \A r \in Swept \ overlapped :
    /\ table[r].text = last[r].text /\ table[r].key.id = last[r].id
    /\ Readable(r) <=> Unwraps(last[r].id)
=============================================================================

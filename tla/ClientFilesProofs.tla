--------------------------- MODULE ClientFilesProofs ---------------------------
(***************************************************************************)
(* What holds of a client's rows, keys and files in every deployment: with *)
(* any number of edits, sweeps, uploads, erasures, backups and restores.   *)
(***************************************************************************)
EXTENDS Backups, FiniteSetTheorems, SequenceTheorems, TLAPS

(***************************************************************************)
(* The invariant                                                           *)
(***************************************************************************)
EditState == [row : Row \cup {NoRow}, key : Key]
SweepState == [todo : SUBSET Row, copy : [Row -> RowValue], target : 1..MaxVersion]
UploadState == [pc : {"idle", "put", "count", "row", "audit"}, row : FileRows \cup {NoRow},
                key : Key, count : Nat]
EraseState == [pc : {"idle", "reading", "ready", "removing"},
               todo : SUBSET {"test", "evidence", "report"},
               seen : SUBSET Row, keys : SUBSET FileRows]

TenantTyped ==
  /\ instance \in Instance
  /\ table \in [Row -> RowValue]
  /\ version \in 1..MaxVersion
  /\ editor \in [Editor -> EditState]
  /\ sweeper \in [Sweeper -> SweepState]
  /\ last \in [Row -> [text : 0..MaxText, id : KeyId]]

FilesTyped ==
  /\ object \subseteq FileRows
  /\ uploader \in [Uploader -> UploadState]
  /\ check \subseteq FileRows /\ interrupted \subseteq FileRows
  /\ eraser \in [Eraser -> EraseState]
  /\ erased \subseteq Row /\ missed \subseteq FileRows

\* A run is a record of five fields, of which only the rows matter here.
IsDump(run) ==
  /\ run = [pc |-> run.pc, backup |-> run.backup, next |-> run.next, rows |-> run.rows,
            stale |-> run.stale]
  /\ run.rows \in [Row -> RowValue]

DumpsTyped ==
  /\ dumper = [d \in Dumper |-> dumper[d]]
  /\ \A d \in Dumper : IsDump(dumper[d])
  /\ content \in [Backup -> [Row -> RowValue]]

\* Foreign keys hold.
ForeignKeys == Closed(table)

\* A row that a sweep holds a copy of is still there, or the client is gone,
\* and unless it was edited meanwhile the copy is what the latest edit stored.
CopiesCurrent ==
  \A s \in Sweeper : \A r \in sweeper[s].todo \ overlapped :
    /\ KindOf[r] \in {"client", "engagement", "finding", "check", "session"}
    /\ r \in Present \/ Client \notin Present
    /\ sweeper[s].copy[r].text = last[r].text
    /\ sweeper[s].copy[r].key.id = last[r].id

Kept == object \cup erased
DumpedFiles(rows) == {r \in FileRows : rows[r].status # "absent"}

\* Whatever knows a row with a file knows one whose file was
\* stored, and is there unless an erasure had its turn.
FilesKnown ==
  /\ Files \subseteq Kept
  /\ \A d \in Dumper : DumpedFiles(dumper[d].rows) \subseteq Kept
  /\ \A b \in Backup : DumpedFiles(content[b]) \subseteq Kept
  /\ \A e \in Eraser : eraser[e].seen \cap FileRows \subseteq Kept
  /\ \A e \in Eraser : eraser[e].keys \subseteq erased

\* Nobody has seen a row that an upload is about to make.
Unseen(r) ==
  /\ r \notin Present \cup erased
  /\ \A e \in Eraser : r \notin eraser[e].seen
  /\ \A d \in Dumper : dumper[d].rows[r].status = "absent"
  /\ \A b \in Backup : content[b][r].status = "absent"

UploadsOwn ==
  /\ \A u \in Uploader : uploader[u].pc # "idle" => uploader[u].row \in FileRows
  /\ \A u, v \in Uploader :
       u # v /\ uploader[u].pc # "idle" /\ uploader[v].pc # "idle" => uploader[u].row # uploader[v].row
  /\ \A u \in Uploader : \A r \in FileRows :
       uploader[u].row = r /\ uploader[u].pc \in {"put", "count", "row"} => Unseen(r)
  /\ \A u \in Uploader :
       uploader[u].pc \in {"count", "row"} /\ KindOf[uploader[u].row] # "evidence"
         => uploader[u].row \in Kept

\* As PendingExplained, and checks and their audits are of evidence.
PendingOwned ==
  /\ \A r \in check : KindOf[r] = "evidence"
  /\ \A r \in Files : table[r].status = "PENDING" =>
       \/ r \in check \cup interrupted
       \/ \E u \in Uploader : /\ uploader[u].row = r /\ uploader[u].pc = "audit"
                              /\ KindOf[r] = "evidence"

\* The engagement of a row with a file.
EngagementFor(r) ==
  IF KindOf[r] = "evidence" THEN ParentOf[ParentOf[ParentOf[r]]] ELSE ParentOf[r]

\* What an erasure has read so far: whole chains, and every file row of its
\* engagements that was there.
ErasuresRead ==
  \A e \in Eraser :
    /\ eraser[e].pc \in {"idle", "reading", "ready"} => eraser[e].keys = {}
    /\ eraser[e].pc = "ready" => eraser[e].todo = {}
    /\ \A q \in eraser[e].seen :
         /\ KindOf[q] \in {"test", "finding"} => ParentOf[q] \in eraser[e].seen
         /\ KindOf[q] # "client"
    /\ \A r \in Files :
         /\ eraser[e].pc \in {"reading", "ready"}
         /\ KindOf[r] \notin eraser[e].todo /\ EngagementFor(r) \in eraser[e].seen
         => r \in eraser[e].seen \cup missed

Removing == UNION {eraser[e].keys : e \in Eraser}
ErasedGo == object \cap erased \subseteq missed \cup Removing

\* The rows an edit has touched hold what it stored; that they can be read
\* back follows.
TextsKept ==
  \A r \in Swept \ overlapped :
    table[r].text = last[r].text /\ table[r].key.id = last[r].id

DataIInv ==
  /\ TenantTyped /\ FilesTyped /\ DumpsTyped
  /\ ForeignKeys /\ TextsKept /\ CopiesCurrent
  /\ FilesKnown /\ UploadsOwn /\ PendingOwned /\ ErasuresRead /\ ErasedGo

(***************************************************************************)
(* Rows and keys                                                           *)
(***************************************************************************)
\* There is one Client row.
LEMMA ClientIs ==
  /\ Client \in Row /\ KindOf[Client] = "client"
  /\ \A r \in Row : KindOf[r] = "client" => r = Client
<1> DEFINE Clients == {r \in Row : KindOf[r] = "client"}
<1>1. IsFiniteSet(Clients) /\ Cardinality(Clients) = 1
  BY FS_Subset, TenantAssumption
<1>2. PICK x : Clients = {x}
  BY <1>1, FS_Singleton
<1>3. x \in Row /\ KindOf[x] = "client" /\ \A r \in Row : KindOf[r] = "client" => r = x
  BY <1>2
<1>4. Client = x
  BY <1>3 DEF Client
<1> QED  BY <1>3, <1>4

\* The kinds along a chain of foreign keys.
LEMMA ParentKinds ==
  \A r \in Row :
    /\ KindOf[r] \in Kind /\ ParentOf[r] \in Row
    /\ KindOf[r] = "evidence" => KindOf[ParentOf[r]] = "finding"
    /\ KindOf[r] = "finding" => KindOf[ParentOf[r]] = "test"
    /\ KindOf[r] \in {"document", "test", "check", "report", "session"}
         => KindOf[ParentOf[r]] = "engagement"
    /\ KindOf[r] \in {"client", "user", "engagement", "cloud", "credential", "ledger"}
         => KindOf[ParentOf[r]] = "client"
<1> TAKE r \in Row
<1>1. KindOf[r] \in Kind /\ ParentOf[r] \in Row /\ KindOf[ParentOf[r]] = ParentKind(KindOf[r])
  BY TenantAssumption
<1> QED  BY <1>1 DEF ParentKind

\* Without the Client row there is no row.
LEMMA NoOrphans ==
  ASSUME ForeignKeys, Client \notin Present
  PROVE  Present = {}
<1>1. \A r \in Present : r \in Row /\ ParentOf[r] \in Present
  BY DEF ForeignKeys, Closed, RowsOf, Present
<1>2. \A r \in Row : KindOf[r] = "client" => r \notin Present
  BY ClientIs
<1>3. \A r \in Row : KindOf[r] = "engagement" => r \notin Present
  BY <1>1, <1>2, ParentKinds
<1>4. \A r \in Row : KindOf[r] = "test" => r \notin Present
  BY <1>1, <1>3, ParentKinds
<1>5. \A r \in Row : KindOf[r] = "finding" => r \notin Present
  BY <1>1, <1>4, ParentKinds
<1> QED  BY <1>1, <1>2, <1>3, <1>4, <1>5, ParentKinds DEF Kind

LEMMA KeysTyped ==
  ASSUME TenantTyped
  PROVE  /\ Wrapping \in Key /\ Plain \in Key /\ SystemKey(version) \in Key
         /\ Absent \in RowValue
<1>1. Plain \in Key /\ ByokKey \in Key /\ Absent \in RowValue
  BY TenantAssumption DEF Plain, ByokKey, Absent, Key, KeyId, RowValue, Status
<1>2. SystemKey(version) \in Key
  BY DEF SystemKey, Key, KeyId, TenantTyped
<1>3. table[Client].assigned \in TenantKey \cup {NoKey}
  BY ClientIs DEF TenantTyped, RowValue
<1>4. table[Client].assigned # NoKey => [id |-> table[Client].assigned, version |-> version] \in Key
  BY <1>3 DEF Key, KeyId, TenantTyped
<1> QED  BY <1>1, <1>2, <1>4 DEF Wrapping

(***************************************************************************)
(* Changes of the rows                                                     *)
(***************************************************************************)
RowsInv == TenantTyped /\ ForeignKeys /\ TextsKept /\ CopiesCurrent

\* Rows of evidence and reports keep their statuses; a document may go.
FilesStay == \A r \in FileRows :
  \/ table'[r].status = table[r].status
  \/ KindOf[r] = "document" /\ table'[r].status = "absent"

LEMMA PutKeeps ==
  ASSUME RowsInv, NEW rows \in SUBSET Row, NEW key \in Key, Put(rows, key),
         \A r \in rows :
           /\ ParentOf[r] \in Present
           /\ r \notin FileRows /\ KindOf[r] # "client"
           /\ r \in Present => KindOf[r] \in {"credential", "cloud"}
  PROVE  RowsInv' /\ FilesStay
<1> USE DEF RowsInv
<1>1. Client \in Present /\ rows # {}
  BY NoOrphans DEF Put
<1>2. /\ \A r \in Row \ rows : table'[r] = table[r] /\ last'[r] = last[r]
      /\ \A r \in rows : table'[r] = [Absent EXCEPT !.status = "present", !.key = key]
                         /\ last'[r] = [text |-> 0, id |-> key.id]
  BY DEF Put
<1>a. \A r \in rows : table'[r] = [status |-> "present", text |-> 0, key |-> key, assigned |-> NoKey]
  BY <1>2 DEF Absent
<1>3. TenantTyped'
  <2>1. [Absent EXCEPT !.status = "present", !.key = key] \in RowValue
    BY KeysTyped DEF RowValue, Status
  <2>2. [text |-> 0, id |-> key.id] \in [text : 0..MaxText, id : KeyId]
    BY TenantAssumption DEF Key
  <2> QED  BY <2>1, <2>2 DEF TenantTyped, Put
<1>4. Present' = Present \cup rows
  BY <1>2, <1>a DEF Present
<1>5. ForeignKeys'
  BY <1>4 DEF ForeignKeys, Closed, RowsOf, Present
<1>6. \A r \in rows : table'[r].text = 0 /\ table'[r].key = key /\ last'[r].text = 0 /\ last'[r].id = key.id
  BY <1>2, <1>a
<1>7. TextsKept'
  <2> SUFFICES ASSUME NEW q \in Row, q \in Present', q \notin overlapped,
                      KindOf[q] \in {"client", "engagement", "finding", "check", "session"}
               PROVE  table'[q].text = last'[q].text /\ table'[q].key.id = last'[q].id
    BY DEF TextsKept, Swept, Present, Put
  <2>1. CASE q \in rows  BY <2>1, <1>6
  <2>2. CASE q \notin rows
    BY <2>2, <1>2, <1>4 DEF TextsKept, Swept
  <2> QED  BY <2>1, <2>2
<1>8. CopiesCurrent'
  <2> SUFFICES ASSUME NEW s \in Sweeper, NEW r \in sweeper[s].todo \ overlapped
               PROVE  /\ KindOf[r] \in {"client", "engagement", "finding", "check", "session"}
                      /\ r \in Present' \/ Client \notin Present'
                      /\ sweeper[s].copy[r].text = last'[r].text
                      /\ sweeper[s].copy[r].key.id = last'[r].id
    BY DEF CopiesCurrent, Put
  <2>1. /\ KindOf[r] \in {"client", "engagement", "finding", "check", "session"}
        /\ r \in Present
        /\ sweeper[s].copy[r].text = last[r].text /\ sweeper[s].copy[r].key.id = last[r].id
    BY <1>1 DEF CopiesCurrent
  <2>2. r \in Row \ rows
    BY <2>1 DEF Present
  <2> QED  BY <1>2, <1>4, <2>1, <2>2
<1>9. FilesStay
  BY <1>2 DEF FilesStay, FileRows
<1> QED  BY <1>3, <1>5, <1>7, <1>8, <1>9

LEMMA RemovedKeeps ==
  ASSUME RowsInv, NEW r \in Row, Removed(r),
         KindOf[r] \in {"user", "credential", "cloud", "document"}
  PROVE  RowsInv' /\ FilesStay
<1> USE DEF RowsInv
<1>1. /\ \A q \in Row \ {r} : table'[q] = table[q]
      /\ table'[r] = Absent
      /\ UNCHANGED <<instance, version, editor, sweeper, last, overlapped>>
  BY DEF Removed, TenantTyped
<1>2. Present' = Present \ {r}
  BY <1>1 DEF Present, Absent
<1>3. TenantTyped'
  BY <1>1, KeysTyped DEF TenantTyped, Removed
<1>4. ForeignKeys'
  <2>1. \A q \in Row : ParentOf[q] # r
    BY ParentKinds DEF Kind
  <2> QED  BY <1>2, <2>1 DEF ForeignKeys, Closed, RowsOf, Present
<1>5. TextsKept'
  <2> SUFFICES ASSUME NEW q \in Row, q \in Present', q \notin overlapped,
                      KindOf[q] \in {"client", "engagement", "finding", "check", "session"}
               PROVE  table'[q].text = last[q].text /\ table'[q].key.id = last[q].id
    BY <1>1 DEF TextsKept, Swept, Present
  <2> QED  BY <1>1, <1>2 DEF TextsKept, Swept
<1>6. Client # r
  BY ClientIs
<1>7. CopiesCurrent'
  BY <1>1, <1>2, <1>6 DEF CopiesCurrent
<1>8. FilesStay
  BY <1>1 DEF FilesStay, FileRows, Absent
<1> QED  BY <1>3, <1>4, <1>5, <1>7, <1>8

LEMMA CreateKeeps ==
  ASSUME RowsInv, NEW r \in Row,
         \/ CreateTest(r) \/ CreateFinding(r) \/ CreateCheck(r) \/ CreateSession(r)
         \/ CreateUser(r) \/ RecordUsage(r) \/ PutCredential(r) \/ PutCloudCredential(r)
  PROVE  RowsInv' /\ FilesStay
<1>1. PICK key \in Key : Put({r}, key)
  BY KeysTyped DEF RowsInv, CreateTest, CreateFinding, CreateCheck, CreateSession, CreateUser,
     RecordUsage, PutCredential, PutCloudCredential
<1>2. /\ KindOf[r] \in {"test", "finding", "check", "session", "user", "ledger", "credential", "cloud"}
      /\ ParentOf[r] \in Present
      /\ r \in Present => KindOf[r] \in {"credential", "cloud"}
  BY ParentKinds DEF RowsInv, ForeignKeys, Closed, RowsOf, Present, New, Stored,
     CreateTest, CreateFinding, CreateCheck, CreateSession, CreateUser, RecordUsage,
     PutCredential, PutCloudCredential
<1>3. r \notin FileRows /\ KindOf[r] # "client"
  BY <1>2 DEF FileRows
<1> QED  BY <1>1, <1>2, <1>3, PutKeeps

LEMMA SeedKeeps ==
  ASSUME RowsInv, NEW e, SeedChecks(e)
  PROVE  RowsInv' /\ FilesStay
<1> DEFINE rows == {r \in Row : New(r, "check") /\ ParentOf[r] = e}
<1>1. rows \in SUBSET Row /\ Put(rows, Plain)
  BY DEF SeedChecks
<1>2. \A r \in rows : /\ ParentOf[r] \in Present
                      /\ r \notin FileRows /\ KindOf[r] # "client"
                      /\ r \notin Present
  BY ParentKinds DEF New, Present, FileRows
<1> HIDE DEF rows
<1> QED  BY <1>1, <1>2, PutKeeps, KeysTyped DEF RowsInv

LEMMA RemoveKeeps ==
  ASSUME RowsInv, NEW r \in Row,
         RemoveUser(r) \/ RemoveCredential(r) \/ RemoveCloudCredential(r) \/ ReplaceDocument(r)
  PROVE  RowsInv' /\ FilesStay
BY RemovedKeeps DEF RemoveUser, RemoveCredential, RemoveCloudCredential, ReplaceDocument, Stored

\* A row that is there takes another text, key or assignment.
LEMMA PresenceKept ==
  ASSUME TenantTyped, ForeignKeys, table' \in [Row -> RowValue],
         \A q \in Row : table'[q].status = "absent" <=> table[q].status = "absent"
  PROVE  Present' = Present /\ ForeignKeys'
BY DEF ForeignKeys, Closed, RowsOf, Present

LEMMA AssignKeeps ==
  ASSUME RowsInv, NEW k \in TenantKey, AssignKey(k)
  PROVE  RowsInv' /\ FilesStay
<1> USE DEF RowsInv
<1>1. /\ \A q \in Row : /\ table'[q].status = table[q].status
                        /\ table'[q].text = table[q].text /\ table'[q].key = table[q].key
      /\ UNCHANGED <<instance, version, editor, sweeper, last, overlapped>>
  BY ClientIs DEF AssignKey, TenantTyped, RowValue
<1>2. TenantTyped'
  BY <1>1, ClientIs DEF AssignKey, TenantTyped, RowValue
<1>3. Present' = Present /\ ForeignKeys'
  BY <1>1, <1>2, PresenceKept DEF TenantTyped
<1>4. TextsKept' /\ CopiesCurrent'
  BY <1>1, <1>3 DEF TextsKept, CopiesCurrent, Swept, Present
<1> QED  BY <1>1, <1>2, <1>3, <1>4 DEF FilesStay, FileRows

LEMMA RedeployKeeps ==
  ASSUME RowsInv, Redeploy
  PROVE  RowsInv' /\ FilesStay
<1>1. version' \in 1..MaxVersion
  BY TenantAssumption DEF Redeploy, RowsInv, TenantTyped
<1> QED
  BY <1>1 DEF Redeploy, RowsInv, TenantTyped, FilesStay, ForeignKeys, Closed, RowsOf, TextsKept,
     CopiesCurrent, Swept, Present

LEMMA EditReadKeeps ==
  ASSUME RowsInv, NEW e \in Editor, NEW r \in Row, EditRead(e, r)
  PROVE  RowsInv' /\ FilesStay
<1>1. editor' \in [Editor -> EditState]
  BY KeysTyped DEF EditRead, RowsInv, TenantTyped, EditState
<1> QED
  BY <1>1 DEF EditRead, RowsInv, TenantTyped, FilesStay, ForeignKeys, Closed, RowsOf, TextsKept,
     CopiesCurrent, Swept, Present

LEMMA EditEndsKeeps ==
  ASSUME RowsInv, NEW e \in Editor, EditEnds(e)
  PROVE  RowsInv' /\ FilesStay
<1>1. editor' \in [Editor -> EditState]
  BY KeysTyped DEF EditEnds, RowsInv, TenantTyped, EditState, IdleEdit
<1> QED
  BY <1>1 DEF EditEnds, RowsInv, TenantTyped, FilesStay, ForeignKeys, Closed, RowsOf, TextsKept,
     CopiesCurrent, Swept, Present

LEMMA EditWriteKeeps ==
  ASSUME RowsInv, NEW e \in Editor, EditWrite(e)
  PROVE  RowsInv' /\ FilesStay
<1> USE DEF RowsInv
<1> DEFINE r == editor[e].row
<1>1. /\ r \in Row /\ r \in Present /\ editor[e].key \in Key
      /\ last[r].text + 1 \in 0..MaxText /\ editor[e].key.id \in KeyId
  BY TenantAssumption DEF EditWrite, TenantTyped, EditState, Present, Key
<1>2. /\ \A q \in Row \ {r} : table'[q] = table[q] /\ last'[q] = last[q]
      /\ table'[r].status = table[r].status
      /\ table'[r].text = last'[r].text /\ table'[r].key.id = last'[r].id
      /\ overlapped' = IF Held(r) THEN overlapped \cup {r} ELSE overlapped
      /\ UNCHANGED <<instance, version, sweeper>>
  BY <1>1 DEF EditWrite, TenantTyped, RowValue
<1>3. TenantTyped'
  <2>1. table' \in [Row -> RowValue]
    BY <1>1 DEF EditWrite, TenantTyped, RowValue
  <2>2. last' \in [Row -> [text : 0..MaxText, id : KeyId]]
    BY <1>1 DEF EditWrite, TenantTyped
  <2>3. editor' \in [Editor -> EditState]
    BY KeysTyped DEF EditWrite, TenantTyped, EditState, IdleEdit
  <2> QED  BY <2>1, <2>2, <2>3, <1>2 DEF TenantTyped
<1> HIDE DEF r
<1>4. Present' = Present /\ ForeignKeys'
  BY <1>2, <1>3, PresenceKept DEF TenantTyped
<1>5. TextsKept'
  <2> SUFFICES ASSUME NEW q \in Row, q \in Present', q \notin overlapped',
                      KindOf[q] \in {"client", "engagement", "finding", "check", "session"}
               PROVE  table'[q].text = last'[q].text /\ table'[q].key.id = last'[q].id
    BY DEF TextsKept, Swept, Present
  <2>1. CASE q = r  BY <2>1, <1>2
  <2>2. CASE q # r
    BY <2>2, <1>2, <1>4 DEF TextsKept, Swept
  <2> QED  BY <2>1, <2>2
<1>6. CopiesCurrent'
  <2> SUFFICES ASSUME NEW s \in Sweeper, NEW q \in sweeper[s].todo, q \notin overlapped'
               PROVE  /\ KindOf[q] \in {"client", "engagement", "finding", "check", "session"}
                      /\ q \in Present' \/ Client \notin Present'
                      /\ sweeper[s].copy[q].text = last'[q].text
                      /\ sweeper[s].copy[q].key.id = last'[q].id
    BY <1>2 DEF CopiesCurrent
  <2>1. q # r /\ q \notin overlapped /\ q \in Row
    BY <1>2 DEF Held, TenantTyped, SweepState
  <2> QED  BY <1>2, <1>4, <2>1 DEF CopiesCurrent
<1> QED  BY <1>1, <1>2, <1>3, <1>4, <1>5, <1>6 DEF FilesStay, FileRows

\* A sweep that only gives up a part of what it holds, or dies.
LEMMA SweepLessKeeps ==
  ASSUME RowsInv, sweeper' \in [Sweeper -> SweepState],
         UNCHANGED <<instance, table, version, editor, last, overlapped>>,
         \A s \in Sweeper : \A q \in sweeper'[s].todo :
           q \in sweeper[s].todo /\ sweeper'[s].copy[q] = sweeper[s].copy[q]
  PROVE  RowsInv' /\ FilesStay
BY DEF RowsInv, TenantTyped, FilesStay, ForeignKeys, Closed, RowsOf, TextsKept, CopiesCurrent,
   Swept, Present

LEMMA SweepDoneTyped ==
  ASSUME TenantTyped, NEW s \in Sweeper, NEW r \in sweeper[s].todo, SweepDone(s, r)
  PROVE  /\ sweeper' \in [Sweeper -> SweepState]
         /\ \A z \in Sweeper : \A q \in sweeper'[z].todo :
              q \in sweeper[z].todo /\ sweeper'[z].copy[q] = sweeper[z].copy[q]
<1>1. sweeper[s] \in SweepState
  BY DEF TenantTyped
<1> DEFINE held == [sweeper[s].copy EXCEPT ![r] = Absent]
<1>2. held \in [Row -> RowValue] /\ \A q \in Row \ {r} : held[q] = sweeper[s].copy[q]
  BY <1>1, KeysTyped DEF SweepState
<1>3. /\ \A z \in Sweeper \ {s} : sweeper'[z] = sweeper[z]
      /\ sweeper'[s] = [todo |-> sweeper[s].todo \ {r}, copy |-> held,
                        target |-> sweeper[s].target]
      /\ sweeper' = [z \in Sweeper |-> sweeper'[z]]
  BY <1>1 DEF SweepDone, TenantTyped, SweepState
<1> HIDE DEF held
<1>5. [todo |-> sweeper[s].todo \ {r}, copy |-> held, target |-> sweeper[s].target] \in SweepState
  BY <1>1, <1>2 DEF SweepState
<1>6. sweeper'[s].todo = sweeper[s].todo \ {r} /\ sweeper'[s].copy = held
  BY <1>3
<1>7. sweeper' \in [Sweeper -> SweepState]
  BY <1>3, <1>5 DEF TenantTyped
<1>8. sweeper[s].todo \subseteq Row
  BY <1>1 DEF SweepState
<1> QED  BY <1>2, <1>3, <1>6, <1>7, <1>8

LEMMA SweepSkipKeeps ==
  ASSUME RowsInv, NEW s \in Sweeper, NEW r \in Row, SweepSkip(s, r)
  PROVE  RowsInv' /\ FilesStay
BY SweepDoneTyped, SweepLessKeeps DEF SweepSkip, RowsInv

LEMMA SweepEndsKeeps ==
  ASSUME RowsInv, NEW s \in Sweeper, SweepEnds(s)
  PROVE  RowsInv' /\ FilesStay
<1>1. IdleSweep \in SweepState /\ IdleSweep.todo = {}
  BY KeysTyped, TenantAssumption DEF IdleSweep, SweepState, RowsInv
<1>2. sweeper' = [sweeper EXCEPT ![s] = IdleSweep]
  BY DEF SweepEnds
<1> QED  BY <1>1, <1>2, SweepLessKeeps DEF SweepEnds, RowsInv, TenantTyped

LEMMA SweepReadKeeps ==
  ASSUME RowsInv, NEW s \in Sweeper, NEW batch \in SUBSET Swept, SweepRead(s, batch)
  PROVE  RowsInv' /\ FilesStay
<1> USE DEF RowsInv
<1> DEFINE held == [r \in Row |-> IF r \in batch THEN table[r] ELSE Absent]
<1>1. held \in [Row -> RowValue] /\ batch \subseteq Row
  BY KeysTyped DEF TenantTyped, Swept, Present
<1>2. /\ sweeper' = [sweeper EXCEPT ![s] = [todo |-> batch, target |-> version, copy |-> held]]
      /\ UNCHANGED <<instance, table, version, editor, last, overlapped>>
  BY DEF SweepRead
<1>3. \A r \in batch \ overlapped : held[r].text = last[r].text /\ held[r].key.id = last[r].id
  BY <1>1 DEF TextsKept
<1> HIDE DEF held
<1>4. [todo |-> batch, target |-> version, copy |-> held] \in SweepState
  BY <1>1 DEF SweepState, TenantTyped
<1>5. /\ \A z \in Sweeper \ {s} : sweeper'[z] = sweeper[z]
      /\ sweeper'[s].todo = batch /\ sweeper'[s].copy = held
  BY <1>2 DEF TenantTyped
<1>6. TenantTyped' /\ Present' = Present
  BY <1>2, <1>4 DEF TenantTyped, Present
<1>7. CopiesCurrent'
  <2> SUFFICES ASSUME NEW z \in Sweeper, NEW q \in sweeper'[z].todo, q \notin overlapped
               PROVE  /\ KindOf[q] \in {"client", "engagement", "finding", "check", "session"}
                      /\ q \in Present \/ Client \notin Present
                      /\ sweeper'[z].copy[q].text = last[q].text
                      /\ sweeper'[z].copy[q].key.id = last[q].id
    BY <1>2, <1>6 DEF CopiesCurrent
  <2>1. CASE z = s  BY <2>1, <1>3, <1>5 DEF Swept
  <2>2. CASE z # s  BY <2>2, <1>5 DEF CopiesCurrent
  <2> QED  BY <2>1, <2>2
<1> QED
  BY <1>2, <1>6, <1>7 DEF FilesStay, ForeignKeys, Closed, RowsOf, TextsKept, Swept, Present

LEMMA SweepWriteKeeps ==
  ASSUME RowsInv, NEW s \in Sweeper, NEW r \in Row, SweepWrite(s, r)
  PROVE  RowsInv' /\ FilesStay
<1> USE DEF RowsInv
<1>1. /\ r \in sweeper[s].todo /\ r \in Present
      /\ sweeper[s].copy[r] \in RowValue /\ SystemKey(sweeper[s].target) \in Key
      /\ SystemKey(sweeper[s].target).id = "system" /\ sweeper[s].copy[r].key.id = "system"
  BY DEF SweepWrite, TenantTyped, SweepState, SystemKey, Key, KeyId, Rotates
<1>2. /\ sweeper' \in [Sweeper -> SweepState]
      /\ \A z \in Sweeper : \A q \in sweeper'[z].todo :
           q \in sweeper[z].todo /\ sweeper'[z].copy[q] = sweeper[z].copy[q]
  BY <1>1, SweepDoneTyped DEF SweepWrite
<1>3. /\ \A q \in Row \ {r} : table'[q] = table[q]
      /\ table'[r].status = table[r].status /\ table'[r].text = sweeper[s].copy[r].text
      /\ table'[r].key = SystemKey(sweeper[s].target)
      /\ UNCHANGED <<instance, version, editor, last, overlapped>>
  BY DEF SweepWrite, TenantTyped, RowValue
<1>4. TenantTyped'
  <2>1. table' \in [Row -> RowValue]
    BY <1>1 DEF SweepWrite, TenantTyped, RowValue
  <2> QED  BY <2>1, <1>2, <1>3 DEF TenantTyped
<1>5. Present' = Present /\ ForeignKeys'
  BY <1>3, <1>4, PresenceKept DEF TenantTyped
<1>6. TextsKept'
  <2> SUFFICES ASSUME NEW q \in Row, q \in Present', q \notin overlapped,
                      KindOf[q] \in {"client", "engagement", "finding", "check", "session"}
               PROVE  table'[q].text = last[q].text /\ table'[q].key.id = last[q].id
    BY <1>3 DEF TextsKept, Swept, Present
  <2>1. CASE q = r
    BY <2>1, <1>1, <1>3 DEF CopiesCurrent
  <2>2. CASE q # r
    BY <2>2, <1>3, <1>5 DEF TextsKept, Swept
  <2> QED  BY <2>1, <2>2
<1>7. CopiesCurrent'
  BY <1>2, <1>3, <1>5 DEF CopiesCurrent
<1> QED  BY <1>1, <1>3, <1>4, <1>5, <1>6, <1>7 DEF FilesStay, FileRows

LEMMA TenantStepKeeps ==
  ASSUME RowsInv, TenantNext
  PROVE  RowsInv' /\ FilesStay
<1>0. instance.initial \cup instance.later \subseteq Row
  BY TenantAssumption DEF RowsInv, TenantTyped
<1>1. CASE \E r \in instance.initial \cup instance.later :
             \/ CreateTest(r) \/ CreateFinding(r) \/ CreateCheck(r) \/ CreateSession(r)
             \/ CreateUser(r) \/ RecordUsage(r) \/ PutCredential(r) \/ PutCloudCredential(r)
  BY <1>0, <1>1, CreateKeeps
<1>2. CASE \E r \in instance.initial \cup instance.later :
             RemoveUser(r) \/ RemoveCredential(r) \/ RemoveCloudCredential(r) \/ ReplaceDocument(r)
  BY <1>0, <1>2, RemoveKeeps
<1>3. CASE \E e \in {ParentOf[r] : r \in instance.later} : SeedChecks(e)
  BY <1>3, SeedKeeps
<1>4. CASE \E k \in TenantKey : AssignKey(k)
  BY <1>4, AssignKeeps
<1>5. CASE Redeploy
  BY <1>5, RedeployKeeps
<1>6. CASE \E e \in Editor : EditWrite(e) \/ EditEnds(e) \/ \E r \in Row : EditRead(e, r)
  BY <1>6, EditWriteKeeps, EditEndsKeeps, EditReadKeeps
<1>7. CASE \E s \in Sweeper : SweepEnds(s) \/ \E r \in Row : SweepSkip(s, r) \/ SweepWrite(s, r)
  BY <1>7, SweepEndsKeeps, SweepSkipKeeps, SweepWriteKeeps
<1>8. CASE \E s \in Sweeper, batch \in SUBSET Swept : SweepRead(s, batch)
  BY <1>8, SweepReadKeeps
<1> QED
  BY <1>1, <1>2, <1>3, <1>4, <1>5, <1>6, <1>7, <1>8 DEF TenantNext

(***************************************************************************)
(* Files: steps that leave them alone, and the uploads                     *)
(***************************************************************************)
FilesInv == FilesTyped /\ FilesKnown /\ UploadsOwn /\ PendingOwned /\ ErasuresRead /\ ErasedGo

LEMMA RowsSame ==
  ASSUME RowsInv, UNCHANGED tenantVars
  PROVE  RowsInv' /\ FilesStay /\ Present' = Present /\ Files' = Files
BY DEF tenantVars, RowsInv, TenantTyped, FilesStay, ForeignKeys, Closed, RowsOf, TextsKept,
   CopiesCurrent, Swept, Present, Files

LEMMA FilesRest ==
  ASSUME FilesInv, FilesStay, UNCHANGED fileVars, UNCHANGED <<dumper, content>>
  PROVE  FilesInv'
<1> USE DEF FilesInv, fileVars
<1>1. /\ Files' \subseteq Files /\ Kept' = Kept
      /\ \A r \in FileRows : r \in Present' => r \in Present
      /\ \A r \in Files' : table'[r].status = table[r].status
  BY DEF Files, FilesStay, Present, FileRows, Kept
<1>2. FilesTyped'
  BY DEF FilesTyped
<1>3. FilesKnown'
  BY <1>1 DEF FilesKnown
<1>4. UploadsOwn'
  BY <1>1 DEF UploadsOwn, Unseen
<1>5. PendingOwned'
  BY <1>1 DEF PendingOwned
<1>6. ErasuresRead' /\ ErasedGo'
  BY <1>1 DEF ErasuresRead, ErasedGo, Removing
<1> QED  BY <1>2, <1>3, <1>4, <1>5, <1>6

LEMMA BeginKeeps ==
  ASSUME RowsInv, FilesInv, NEW u \in Uploader, NEW r \in FileRows, NEW kind, Begin(u, r, kind),
         UNCHANGED <<dumper, content>>
  PROVE  RowsInv' /\ FilesInv'
<1> USE DEF FilesInv
<1>0. RowsInv' /\ Present' = Present /\ Files' = Files
  BY RowsSame DEF Begin
<1>1. /\ UNCHANGED <<table, object, edition, check, interrupted, eraser, erased, missed>>
      /\ uploader[u].pc = "idle" /\ r \notin Kept /\ r \notin Present /\ r \in Row
      /\ \A v \in Uploader : uploader[v].row # r
      /\ uploader' = [uploader EXCEPT ![u] = [pc |-> "put", row |-> r, key |-> Wrapping,
                                              count |-> 0]]
  BY DEF Begin, New, Present, Kept, tenantVars, FileRows
<1>2. Unseen(r)
  BY <1>1 DEF FilesKnown, DumpedFiles, Unseen, Kept
<1>3. /\ uploader'[u].pc = "put" /\ uploader'[u].row = r
      /\ \A v \in Uploader \ {u} : uploader'[v] = uploader[v]
  BY <1>1 DEF FilesTyped
<1>4. FilesTyped'
  <2>1. [pc |-> "put", row |-> r, key |-> Wrapping, count |-> 0] \in UploadState
    BY KeysTyped DEF UploadState, RowsInv
  <2> QED  BY <1>1, <2>1 DEF FilesTyped
<1>5. FilesKnown'
  BY <1>0, <1>1 DEF FilesKnown, Kept
<1>6. UploadsOwn'
  <2>1. \A q : Unseen(q) => Unseen(q)'
    BY <1>0, <1>1 DEF Unseen
  <2>2. \A v \in Uploader : \A q \in FileRows :
          uploader'[v].row = q /\ uploader'[v].pc \in {"put", "count", "row"} => Unseen(q)
    BY <1>2, <1>3 DEF UploadsOwn
  <2> QED  BY <1>1, <1>3, <2>1, <2>2 DEF UploadsOwn, Kept
<1>7. PendingOwned'
  <2>1. \A v \in Uploader : uploader[v].pc = "audit" => uploader'[v] = uploader[v]
    BY <1>1, <1>3
  <2> QED  BY <1>0, <1>1, <2>1 DEF PendingOwned
<1>8. ErasuresRead' /\ ErasedGo'
  BY <1>0, <1>1 DEF ErasuresRead, ErasedGo, Removing
<1> QED  BY <1>0, <1>4, <1>5, <1>6, <1>7, <1>8

\* An upload goes on: its file may land, its checks may begin, its row may not
\* be made yet.
LEMMA UploadMoves ==
  ASSUME RowsInv, FilesInv, NEW u \in Uploader,
         UNCHANGED tenantVars, UNCHANGED <<eraser, erased, missed, dumper, content>>,
         uploader' \in [Uploader -> UploadState],
         \A v \in Uploader \ {u} : uploader'[v] = uploader[v],
         \/ uploader[u].pc # "idle" /\ uploader'[u].row = uploader[u].row
         \/ uploader'[u].pc = "idle",
         uploader'[u].pc \in {"put", "count", "row"} => uploader[u].pc \in {"put", "count", "row"},
         uploader'[u].pc # "audit",
         object \subseteq object' /\ object' \subseteq object \cup {uploader[u].row},
         object' # object => uploader[u].pc = "put",
         uploader'[u].pc \in {"count", "row"} /\ KindOf[uploader'[u].row] # "evidence"
           => uploader'[u].row \in Kept',
         check \subseteq check' /\ interrupted \subseteq interrupted'
           /\ interrupted' \subseteq FileRows,
         check' \subseteq check \cup {q \in FileRows : KindOf[q] = "evidence"},
         uploader[u].pc = "audit" /\ KindOf[uploader[u].row] = "evidence"
           => uploader[u].row \in check' \cup interrupted'
  PROVE  RowsInv' /\ FilesInv'
<1> USE DEF FilesInv
<1>0. RowsInv' /\ Present' = Present /\ Files' = Files /\ table' = table
  BY RowsSame DEF tenantVars
<1>1. Kept \subseteq Kept'
  BY DEF Kept
<1>2. FilesTyped'
  <2>1. object' # object => uploader[u].row \in FileRows
    BY DEF UploadsOwn
  <2> QED  BY <2>1 DEF FilesTyped
<1>3. FilesKnown'
  BY <1>0, <1>1 DEF FilesKnown
<1>4. UploadsOwn'
  <2>1. \A q : Unseen(q) => Unseen(q)'
    BY <1>0 DEF Unseen
  <2>2. \A v \in Uploader : \A q \in FileRows :
          uploader'[v].row = q /\ uploader'[v].pc \in {"put", "count", "row"} => Unseen(q)
    BY DEF UploadsOwn
  <2>3. \A v \in Uploader : uploader'[v].pc # "idle"
          => uploader[v].pc # "idle" /\ uploader'[v].row = uploader[v].row
    OBVIOUS
  <2>4. \A v \in Uploader : uploader'[v].pc \in {"count", "row"} /\ KindOf[uploader'[v].row] # "evidence"
          => uploader'[v].row \in Kept'
    BY <1>1 DEF UploadsOwn
  <2>5. \A v \in Uploader : uploader'[v].pc # "idle" => uploader'[v].row \in FileRows
    BY <2>3 DEF UploadsOwn
  <2>6. \A v, w \in Uploader : v # w /\ uploader'[v].pc # "idle" /\ uploader'[w].pc # "idle"
          => uploader'[v].row # uploader'[w].row
    BY <2>3 DEF UploadsOwn
  <2> QED  BY <2>1, <2>2, <2>4, <2>5, <2>6 DEF UploadsOwn
<1>5. PendingOwned'
  BY <1>0 DEF PendingOwned
<1>6. ErasuresRead'
  BY <1>0 DEF ErasuresRead
<1>7. ErasedGo'
  <2>1. object' # object => uploader[u].row \notin erased
    BY DEF UploadsOwn, Unseen
  <2> QED  BY <2>1 DEF ErasedGo, Removing
<1> QED  BY <1>0, <1>2, <1>3, <1>4, <1>5, <1>6, <1>7

LEMMA UploadStepKeeps ==
  ASSUME RowsInv, FilesInv, NEW u \in Uploader, UNCHANGED <<dumper, content>>,
         \/ UploadPut(u) \/ UploadClaim(u) \/ UploadDone(u) \/ UploadFails(u)
         \/ ReportCount(u) \/ ReportDone(u) \/ DocumentDone(u)
  PROVE  RowsInv' /\ FilesInv'
<1> USE DEF FilesInv
<1>0. /\ uploader[u] \in UploadState /\ FilesTyped
      /\ uploader[u].pc # "idle" => uploader[u].row \in FileRows
  BY DEF FilesTyped, UploadsOwn
<1>1. CASE UploadPut(u)
  <2>1. uploader' \in [Uploader -> UploadState]
    BY <1>0, <1>1 DEF UploadPut, FilesTyped, UploadState
  <2>2. uploader'[u].row = uploader[u].row /\ uploader'[u].pc \in {"count", "row"}
    BY <1>0, <1>1 DEF UploadPut, FilesTyped, UploadState
  <2>3. uploader[u].row \in Kept'
    BY <1>1 DEF UploadPut, StoragePut, Kept
  <2> QED  BY <1>0, <1>1, <2>1, <2>2, <2>3, UploadMoves DEF UploadPut, StoragePut, FilesTyped
<1>2. CASE UploadClaim(u)
  <2>1. uploader' \in [Uploader -> UploadState]
    BY <1>0, <1>2 DEF UploadClaim, FilesTyped, UploadState
  <2>2. uploader'[u].row = uploader[u].row /\ uploader'[u].pc = "row"
    BY <1>0, <1>2 DEF UploadClaim, FilesTyped, UploadState
  <2> QED  BY <1>0, <1>2, <2>1, <2>2, UploadMoves DEF UploadClaim, FilesTyped
<1>3. CASE UploadDone(u) \/ ReportDone(u) \/ DocumentDone(u)
  <2>1. uploader' = [uploader EXCEPT ![u] = IdleUpload]
    BY <1>3 DEF UploadDone, ReportDone, DocumentDone, Answer
  <2>2. uploader' \in [Uploader -> UploadState] /\ uploader'[u].pc = "idle"
    BY <2>1, <1>0, KeysTyped DEF FilesTyped, UploadState, IdleUpload, RowsInv
  <2>3. check' \subseteq check \cup {q \in FileRows : KindOf[q] = "evidence"}
    <3>1. CASE UploadDone(u)  BY <1>0, <3>1 DEF UploadDone, Answer
    <3>2. CASE ReportDone(u) \/ DocumentDone(u)
      BY <1>0, <3>2 DEF ReportDone, DocumentDone, Answer
    <3> QED  BY <1>3, <3>1, <3>2
  <2> QED
    BY <1>0, <1>3, <2>1, <2>2, <2>3, UploadMoves
    DEF UploadDone, ReportDone, DocumentDone, Answer, FilesTyped
<1>4. CASE UploadFails(u)
  <2>1. uploader' \in [Uploader -> UploadState] /\ uploader'[u].pc = "idle"
    BY <1>0, <1>4, KeysTyped DEF FilesTyped, UploadState, IdleUpload, RowsInv, UploadFails
  <2>2. interrupted' \subseteq FileRows
    BY <1>0, <1>4 DEF UploadFails, Stranded, FilesTyped
  <2> QED  BY <1>0, <1>4, <2>1, <2>2, UploadMoves DEF UploadFails, Stranded, FilesTyped
<1>5. CASE ReportCount(u)
  <2>1. Cardinality(Siblings(uploader[u].row)) \in Nat
    <3>1. Siblings(uploader[u].row) \subseteq Row
      BY DEF Siblings, Files, Present
    <3> QED  BY <3>1, TenantAssumption, FS_Subset, FS_CardinalityType
  <2>2. uploader' \in [Uploader -> UploadState]
    BY <1>0, <1>5, <2>1 DEF ReportCount, FilesTyped, UploadState
  <2>3. uploader'[u].row = uploader[u].row /\ uploader'[u].pc = "row" /\ uploader[u].pc = "count"
    BY <1>0, <1>5 DEF ReportCount, FilesTyped, UploadState
  <2> QED  BY <1>0, <1>5, <2>2, <2>3, UploadMoves DEF ReportCount, FilesTyped, UploadsOwn, Kept
<1> QED  BY <1>1, <1>2, <1>3, <1>4, <1>5

\* The row of an upload is made: whoever has read its table already will not
\* see it, and misses its file.
LEMMA NewRowKeeps ==
  ASSUME RowsInv, FilesInv, NEW u \in Uploader, UNCHANGED <<dumper, content>>,
         UploadRow(u) \/ ReportRow(u) \/ DocumentRow(u)
  PROVE  RowsInv' /\ FilesInv'
<1> USE DEF FilesInv, RowsInv
<1>0. PICK r \in FileRows, status \in {"PENDING", "present"}, number \in {0, uploader[u].count + 1} :
        /\ r = uploader[u].row /\ uploader[u].pc = "row"
        /\ NewRow(u, status, number)
        /\ status = "PENDING" => KindOf[r] = "evidence"
        /\ KindOf[r] = "evidence" => r \in object
  <2>1. uploader[u].pc = "row" => uploader[u].row \in FileRows
    BY DEF UploadsOwn
  <2> QED  BY <2>1 DEF UploadRow, ReportRow, DocumentRow, Landed
<1>1. /\ r \in Row /\ r \notin Present /\ r \notin erased /\ r \in Kept /\ Unseen(r)
      /\ KindOf[r] \in {"evidence", "report", "document"} /\ uploader[u].key \in Key
  <2>1. Unseen(r)
    BY <1>0 DEF UploadsOwn
  <2>2. r \in Kept
    BY <1>0 DEF UploadsOwn, Kept, FileRows
  <2> QED  BY <2>1, <2>2 DEF Unseen, FileRows, FilesTyped, UploadState
<1>2. /\ ParentOf[r] \in Present
      /\ table' = [table EXCEPT ![r] = [Absent EXCEPT !.status = status, !.key = uploader[u].key]]
      /\ missed' = IF ReadAlready(r) THEN missed \cup {r} ELSE missed
      /\ uploader' = [uploader EXCEPT ![u].pc = "audit"]
      /\ UNCHANGED <<instance, version, editor, sweeper, last, overlapped,
                     object, check, interrupted, eraser, erased, crashes>>
  BY <1>0 DEF NewRow
<1>3. /\ table'[r] = [status |-> status, text |-> 0, key |-> uploader[u].key, assigned |-> NoKey]
      /\ \A q \in Row \ {r} : table'[q] = table[q]
  BY <1>1, <1>2 DEF TenantTyped, Absent
<1>4. /\ uploader'[u].pc = "audit" /\ uploader'[u].row = r
      /\ \A v \in Uploader \ {u} : uploader'[v] = uploader[v]
      /\ uploader' \in [Uploader -> UploadState]
  BY <1>0, <1>2 DEF FilesTyped, UploadState
<1>5. Present' = Present \cup {r} /\ Files' = Files \cup {r} /\ Kept' = Kept
  BY <1>0, <1>1, <1>2, <1>3 DEF Present, Files, Kept
<1>6. RowsInv'
  <2>1. TenantTyped'
    <3>1. [status |-> status, text |-> 0, key |-> uploader[u].key, assigned |-> NoKey] \in RowValue
      BY <1>1, TenantAssumption DEF RowValue, Status
    <3>2. table' \in [Row -> RowValue]
      BY <3>1, <1>1, <1>2, <1>3 DEF TenantTyped
    <3> QED  BY <3>2, <1>2 DEF TenantTyped
  <2>2. ForeignKeys'
    BY <1>2, <1>5 DEF ForeignKeys, Closed, RowsOf, Present
  <2>3. TextsKept'
    <3> SUFFICES ASSUME NEW q \in Row, q \in Present', q \notin overlapped,
                        KindOf[q] \in {"client", "engagement", "finding", "check", "session"}
                 PROVE  table'[q].text = last[q].text /\ table'[q].key.id = last[q].id
      BY <1>2 DEF TextsKept, Swept, Present
    <3> QED  BY <1>1, <1>3, <1>5 DEF TextsKept, Swept
  <2>4. CopiesCurrent'
    <3>1. Client # r
      BY <1>1, ClientIs
    <3> QED  BY <1>1, <1>2, <1>5, <3>1 DEF CopiesCurrent
  <2> QED  BY <2>1, <2>2, <2>3, <2>4
<1>7. FilesTyped'
  BY <1>0, <1>2, <1>4 DEF FilesTyped
<1>8. FilesKnown'
  BY <1>1, <1>2, <1>5 DEF FilesKnown
<1>9. UploadsOwn'
  <2>1. \A q \in FileRows : q # r /\ Unseen(q) => Unseen(q)'
    BY <1>2, <1>5 DEF Unseen
  <2>2. \A v \in Uploader : \A q \in FileRows :
          uploader'[v].row = q /\ uploader'[v].pc \in {"put", "count", "row"} => q # r /\ Unseen(q)
    BY <1>0, <1>4 DEF UploadsOwn
  <2>3. \A v \in Uploader : uploader'[v].pc # "idle"
          => uploader[v].pc # "idle" /\ uploader'[v].row = uploader[v].row
    BY <1>0, <1>4
  <2> QED  BY <1>4, <1>5, <2>1, <2>2, <2>3 DEF UploadsOwn
<1>10. PendingOwned'
  <2>1. \A q \in check' : KindOf[q] = "evidence"
    BY <1>2 DEF PendingOwned
  <2>2. ASSUME NEW q \in Files', table'[q].status = "PENDING"
        PROVE  \/ q \in check' \cup interrupted'
               \/ \E v \in Uploader : /\ uploader'[v].row = q /\ uploader'[v].pc = "audit"
                                      /\ KindOf[q] = "evidence"
    <3>1. CASE q = r  BY <2>2, <3>1, <1>0, <1>3, <1>4
    <3>2. CASE q # r
      <4>1. q \in Files /\ table[q].status = "PENDING"
        BY <2>2, <3>2, <1>3, <1>5 DEF Files, Present
      <4>2. \A v \in Uploader : uploader[v].pc = "audit" => uploader'[v] = uploader[v]
        BY <1>0, <1>4
      <4> QED  BY <4>1, <4>2, <1>2 DEF PendingOwned
    <3> QED  BY <3>1, <3>2
  <2> QED  BY <2>1, <2>2 DEF PendingOwned
<1>11. ErasuresRead'
  <2>1. \A e \in Eraser :
          eraser[e].pc \in {"reading", "ready"} /\ KindOf[r] \notin eraser[e].todo => r \in missed'
    BY <1>2 DEF ReadAlready
  <2>2. missed \subseteq missed'
    BY <1>2
  <2> QED  BY <2>1, <2>2, <1>2, <1>5 DEF ErasuresRead
<1>12. ErasedGo'
  BY <1>2 DEF ErasedGo, Removing
<1> QED  BY <1>6, <1>7, <1>8, <1>9, <1>10, <1>11, <1>12

(***************************************************************************)
(* Malware checks                                                          *)
(***************************************************************************)
LEMMA CheckKeeps ==
  ASSUME RowsInv, FilesInv, NEW r \in FileRows, UNCHANGED <<dumper, content>>,
         CheckFailed(r) \/ CheckLost(r) \/ \E answer \in Lookup : CheckAnswered(r, answer)
  PROVE  RowsInv' /\ FilesInv'
<1> USE DEF FilesInv, RowsInv
<1>1. /\ r \in check /\ check' = check \ {r} /\ r \in Row /\ KindOf[r] = "evidence"
      /\ UNCHANGED <<instance, version, editor, sweeper, last, overlapped,
                     object, uploader, eraser, erased, missed>>
      /\ interrupted \subseteq interrupted' /\ interrupted' \subseteq interrupted \cup {r}
  BY DEF CheckFailed, CheckLost, CheckAnswered, tenantVars, Stranded, PendingOwned, FileRows
<1>2. \/ table' = table /\ (r \in interrupted' \/ r \notin Present)
      \/ \E status \in {"CHECKED", "UNAVAILABLE"} :
           r \in Present /\ table' = [table EXCEPT ![r].status = status]
  <2>1. CASE CheckFailed(r)
    BY <2>1 DEF CheckFailed, Verdict
  <2>2. CASE CheckLost(r)
    BY <2>2, <1>1 DEF CheckLost, Stranded, tenantVars
  <2>3. CASE \E answer \in Lookup : CheckAnswered(r, answer)
    BY <2>3 DEF CheckAnswered, Verdict
  <2> QED  BY <2>1, <2>2, <2>3
<1>3. /\ \A q \in Row \ {r} : table'[q] = table[q]
      /\ table'[r].text = table[r].text /\ table'[r].key = table[r].key
      /\ table'[r].status = "absent" <=> table[r].status = "absent"
      /\ table' \in [Row -> RowValue]
      /\ table'[r].status = "PENDING" /\ r \in Present => r \in interrupted'
  <2>1. table \in [Row -> RowValue] /\ r \in Row
    BY <1>1 DEF TenantTyped
  <2>2. CASE table' = table /\ (r \in interrupted' \/ r \notin Present)
    BY <2>1, <2>2
  <2>3. ASSUME NEW status \in {"CHECKED", "UNAVAILABLE"},
               r \in Present, table' = [table EXCEPT ![r].status = status]
        PROVE  /\ \A q \in Row \ {r} : table'[q] = table[q]
               /\ table'[r].text = table[r].text /\ table'[r].key = table[r].key
               /\ table'[r].status = "absent" <=> table[r].status = "absent"
               /\ table' \in [Row -> RowValue]
               /\ table'[r].status = "PENDING" /\ r \in Present => r \in interrupted'
    <3>1. table[r] \in RowValue /\ table[r].status # "absent"
      BY <2>1, <2>3 DEF Present
    <3> DEFINE row == [table[r] EXCEPT !.status = status]
    <3>2. row \in RowValue /\ row.status = status /\ row.text = table[r].text /\ row.key = table[r].key
      BY <3>1 DEF RowValue, Status
    <3>3. table' = [table EXCEPT ![r] = row]
      BY <2>3
    <3> HIDE DEF row
    <3> QED  BY <2>1, <3>1, <3>2, <3>3
  <2> QED  BY <1>2, <2>2, <2>3
<1>4. TenantTyped' /\ Present' = Present /\ ForeignKeys' /\ Files' = Files
  <2>1. TenantTyped'
    BY <1>1, <1>3 DEF TenantTyped
  <2>2. Present' = Present /\ ForeignKeys'
    BY <1>3, PresenceKept
  <2> QED  BY <2>1, <2>2 DEF Files
<1>5. TextsKept' /\ CopiesCurrent'
  <2>1. TextsKept'
    <3> SUFFICES ASSUME NEW q \in Row, q \in Present', q \notin overlapped,
                        KindOf[q] \in {"client", "engagement", "finding", "check", "session"}
                 PROVE  table'[q].text = last[q].text /\ table'[q].key.id = last[q].id
      BY <1>1 DEF TextsKept, Swept, Present
    <3> QED  BY <1>1, <1>3, <1>4 DEF TextsKept, Swept
  <2> QED  BY <2>1, <1>1, <1>4 DEF CopiesCurrent
<1>6. FilesTyped' /\ FilesKnown' /\ UploadsOwn'
  BY <1>1, <1>4 DEF FilesTyped, FilesKnown, UploadsOwn, Kept, Unseen
<1>7. PendingOwned'
  <2>1. ASSUME NEW q \in Files', table'[q].status = "PENDING"
        PROVE  \/ q \in check' \cup interrupted'
               \/ \E v \in Uploader : /\ uploader'[v].row = q /\ uploader'[v].pc = "audit"
                                      /\ KindOf[q] = "evidence"
    <3>1. CASE q = r  BY <2>1, <3>1, <1>3, <1>4 DEF Files
    <3>2. CASE q # r
      <4>1. q \in Files /\ table[q].status = "PENDING"
        BY <2>1, <3>2, <1>3, <1>4 DEF Files, Present
      <4> QED  BY <4>1, <3>2, <1>1 DEF PendingOwned
    <3> QED  BY <3>1, <3>2
  <2> QED  BY <2>1, <1>1 DEF PendingOwned
<1>8. ErasuresRead' /\ ErasedGo'
  BY <1>1, <1>4 DEF ErasuresRead, ErasedGo, Removing
<1> QED  BY <1>4, <1>5, <1>6, <1>7, <1>8

(***************************************************************************)
(* Erasures and crashes                                                    *)
(***************************************************************************)
LEMMA EngagementIs ==
  \A r \in FileRows :
    /\ EngagementFor(r) \in Row /\ KindOf[EngagementFor(r)] = "engagement"
    /\ KindOf[r] = "evidence" =>
         /\ KindOf[ParentOf[r]] = "finding" /\ KindOf[ParentOf[ParentOf[r]]] = "test"
         /\ EngagementFor(r) = ParentOf[ParentOf[ParentOf[r]]]
    /\ KindOf[r] # "evidence" => EngagementFor(r) = ParentOf[r]
    /\ KindOf[r] \in {"evidence", "report", "document"}
BY ParentKinds DEF EngagementFor, FileRows

\* An erasure reads, gives up or ends, and knows the files it did before.
LEMMA EraserMoves ==
  ASSUME RowsInv, FilesInv, NEW e \in Eraser, UNCHANGED tenantVars,
         UNCHANGED <<object, uploader, check, interrupted, erased, missed, dumper, content>>,
         NEW run \in EraseState, eraser'[e] = run, eraser' = [x \in Eraser |-> eraser'[x]],
         \A x \in Eraser \ {e} : eraser'[x] = eraser[x],
         run.seen \subseteq eraser[e].seen \cup Present,
         run.keys = {} /\ eraser[e].keys = {},
         run.pc = "ready" => run.todo = {},
         \A q \in run.seen : /\ KindOf[q] \in {"test", "finding"} => ParentOf[q] \in run.seen
                             /\ KindOf[q] # "client",
         \A r \in Files :
           /\ run.pc \in {"reading", "ready"}
           /\ KindOf[r] \notin run.todo /\ EngagementFor(r) \in run.seen
           => r \in run.seen \cup missed
  PROVE  RowsInv' /\ FilesInv'
<1> USE DEF FilesInv
<1>0. RowsInv' /\ Present' = Present /\ Files' = Files /\ table' = table /\ Kept' = Kept
  BY RowsSame DEF tenantVars, Kept
<1>1. /\ eraser'[e] = run /\ \A x \in Eraser \ {e} : eraser'[x] = eraser[x]
      /\ eraser' \in [Eraser -> EraseState]
  BY DEF FilesTyped
<1>2. FilesTyped'
  BY <1>1 DEF FilesTyped
<1>3. FilesKnown'
  <2>1. run.seen \cap FileRows \subseteq Kept
    BY DEF FilesKnown, Files
  <2> QED  BY <1>0, <1>1, <2>1 DEF FilesKnown
<1>4. UploadsOwn'
  <2>1. \A q : Unseen(q) => Unseen(q)'
    BY <1>0, <1>1 DEF Unseen
  <2> QED  BY <1>0, <2>1 DEF UploadsOwn
<1>5. PendingOwned'
  BY <1>0 DEF PendingOwned
<1>6. ErasuresRead'
  <2> SUFFICES ASSUME NEW x \in Eraser
               PROVE  (/\ eraser[x].pc \in {"idle", "reading", "ready"} => eraser[x].keys = {}
                       /\ eraser[x].pc = "ready" => eraser[x].todo = {}
                       /\ \A q \in eraser[x].seen :
                            /\ KindOf[q] \in {"test", "finding"} => ParentOf[q] \in eraser[x].seen
                            /\ KindOf[q] # "client"
                       /\ \A r \in Files :
                            /\ eraser[x].pc \in {"reading", "ready"}
                            /\ KindOf[r] \notin eraser[x].todo
                            /\ EngagementFor(r) \in eraser[x].seen
                            => r \in eraser[x].seen \cup missed)'
    BY DEF ErasuresRead
  <2>1. CASE x = e  BY <2>1, <1>0, <1>1
  <2>2. CASE x # e  BY <2>2, <1>0, <1>1 DEF ErasuresRead
  <2> QED  BY <2>1, <2>2
<1>7. ErasedGo'
  <2>1. Removing \subseteq Removing'
    BY <1>1 DEF Removing
  <2> QED  BY <2>1 DEF ErasedGo
<1> QED  BY <1>0, <1>2, <1>3, <1>4, <1>5, <1>6, <1>7

LEMMA EraseStartKeeps ==
  ASSUME RowsInv, FilesInv, NEW e \in Eraser, EraseStart(e), UNCHANGED <<dumper, content>>
  PROVE  RowsInv' /\ FilesInv'
<1> DEFINE run == [pc |-> "reading", todo |-> {"test", "evidence", "report"},
                   seen |-> {r \in Present : KindOf[r] \in {"engagement", "document"}},
                   keys |-> {}]
<1>1. /\ eraser'[e] = run /\ eraser' = [x \in Eraser |-> eraser'[x]]
      /\ \A x \in Eraser \ {e} : eraser'[x] = eraser[x]
      /\ UNCHANGED <<object, uploader, check, interrupted, erased, missed>> /\ UNCHANGED tenantVars
      /\ eraser[e].keys = {}
  BY DEF EraseStart, FilesInv, ErasuresRead, FilesTyped
<1>2. run \in EraseState
  BY DEF EraseState, Present
<1>3. \A r \in Files : KindOf[r] \in run.todo \/ r \in run.seen
  BY EngagementIs DEF Files
<1>4. run.seen \subseteq Present /\ \A q \in run.seen : KindOf[q] \in {"engagement", "document"}
  OBVIOUS
<1>5. run.keys = {} /\ run.pc = "reading"
  OBVIOUS
<1> HIDE DEF run
<1> QED  BY <1>1, <1>2, <1>3, <1>4, <1>5, EraserMoves

LEMMA EraseReadKeeps ==
  ASSUME RowsInv, FilesInv, NEW e \in Eraser, NEW kind \in {"test", "evidence", "report"},
         EraseRead(e, kind), UNCHANGED <<dumper, content>>
  PROVE  RowsInv' /\ FilesInv'
<1> USE DEF FilesInv
<1> DEFINE seen == eraser[e].seen
           new == {r \in Present : KindOf[r] = kind /\ Within(r, seen)}
           run == [pc |-> "reading", todo |-> eraser[e].todo \ {kind}, seen |-> seen \cup new,
                   keys |-> {}]
<1>1. /\ eraser[e] \in EraseState /\ eraser[e].pc = "reading" /\ eraser[e].keys = {}
      /\ UNCHANGED <<object, uploader, check, interrupted, erased, missed>> /\ UNCHANGED tenantVars
  BY DEF EraseRead, ErasuresRead, FilesTyped
<1>2. /\ eraser'[e] = run /\ eraser' = [x \in Eraser |-> eraser'[x]]
      /\ \A x \in Eraser \ {e} : eraser'[x] = eraser[x]
  BY <1>1 DEF EraseRead, FilesTyped, EraseState
<1>3. run \in EraseState
  BY <1>1 DEF EraseState, Present
<1>4. \A q \in seen : KindOf[q] \in {"test", "finding"} => ParentOf[q] \in seen
  BY DEF ErasuresRead
<1>5. \A q \in seen : KindOf[q] # "client"
  BY DEF ErasuresRead
<1>6. \A q \in new : KindOf[q] = "test" => ParentOf[q] \in seen
  <2> SUFFICES ASSUME NEW q \in new, KindOf[q] = "test" PROVE ParentOf[q] \in seen
    OBVIOUS
  <2>1. q \in Row /\ Within(q, seen)
    BY DEF Present
  <2>2. KindOf[ParentOf[ParentOf[q]]] = "client" /\ KindOf[ParentOf[ParentOf[ParentOf[q]]]] = "client"
    BY <2>1, ParentKinds
  <2>3. ParentOf[ParentOf[q]] \notin seen /\ ParentOf[ParentOf[ParentOf[q]]] \notin seen
    BY <1>5, <2>2
  <2> QED  BY <2>1, <2>3 DEF Within
<1>7. ASSUME NEW r \in Files, KindOf[r] \notin run.todo, EngagementFor(r) \in run.seen
      PROVE  r \in run.seen \cup missed
  <2>1. r \in FileRows /\ r \in Present
    BY DEF Files
  <2>2. EngagementFor(r) \in seen
    BY <1>7, <2>1, EngagementIs
  <2>3. CASE KindOf[r] = kind
    <3>1. Within(r, seen)
      BY <2>1, <2>2, EngagementIs DEF Within
    <3> QED  BY <2>1, <2>3, <3>1
  <2>4. CASE KindOf[r] # kind
    BY <2>2, <2>4, <1>1, <1>7 DEF ErasuresRead
  <2> QED  BY <2>3, <2>4
<1>8. /\ run.seen = seen \cup new /\ run.keys = {} /\ run.pc = "reading"
      /\ new \subseteq Present /\ \A q \in new : KindOf[q] \in {"test", "evidence", "report"}
  OBVIOUS
<1> HIDE DEF seen, new, run
<1>9. \A q \in run.seen : /\ KindOf[q] \in {"test", "finding"} => ParentOf[q] \in run.seen
                          /\ KindOf[q] # "client"
  BY <1>4, <1>5, <1>6, <1>8
<1>10. run.seen \subseteq eraser[e].seen \cup Present
  BY <1>8 DEF seen
<1> QED  BY <1>1, <1>2, <1>3, <1>7, <1>8, <1>9, <1>10, EraserMoves

LEMMA EraseReadFindingsKeeps ==
  ASSUME RowsInv, FilesInv, NEW e \in Eraser, EraseReadFindings(e), UNCHANGED <<dumper, content>>
  PROVE  RowsInv' /\ FilesInv'
<1> USE DEF FilesInv
<1> DEFINE seen == eraser[e].seen
           new == {r \in Present : KindOf[r] = "finding" /\ ParentOf[r] \in seen}
           run == [pc |-> "ready", todo |-> {}, seen |-> seen \cup new, keys |-> {}]
<1>1. /\ eraser[e] \in EraseState /\ eraser[e].pc = "reading" /\ eraser[e].keys = {}
      /\ eraser[e].todo = {}
      /\ UNCHANGED <<object, uploader, check, interrupted, erased, missed>> /\ UNCHANGED tenantVars
  BY DEF EraseReadFindings, ErasuresRead, FilesTyped
<1>2. /\ eraser'[e] = run /\ eraser' = [x \in Eraser |-> eraser'[x]]
      /\ \A x \in Eraser \ {e} : eraser'[x] = eraser[x]
  BY <1>1 DEF EraseReadFindings, FilesTyped, EraseState
<1>3. run \in EraseState
  BY <1>1 DEF EraseState, Present
<1>4. \A q \in seen : /\ KindOf[q] \in {"test", "finding"} => ParentOf[q] \in seen
                      /\ KindOf[q] # "client"
  BY DEF ErasuresRead
<1>5. ASSUME NEW r \in Files, EngagementFor(r) \in run.seen
      PROVE  r \in run.seen \cup missed
  <2>1. EngagementFor(r) \in seen
    BY <1>5, EngagementIs DEF Files
  <2> QED  BY <2>1, <1>1 DEF ErasuresRead
<1>6. /\ run.seen = seen \cup new /\ run.keys = {} /\ run.pc = "ready" /\ run.todo = {}
      /\ new \subseteq Present /\ \A q \in new : KindOf[q] = "finding" /\ ParentOf[q] \in seen
  OBVIOUS
<1> HIDE DEF new, run
<1> QED  BY <1>1, <1>2, <1>3, <1>4, <1>5, <1>6, EraserMoves

LEMMA EraseStopKeeps ==
  ASSUME RowsInv, FilesInv, NEW e \in Eraser, EraseFails(e) \/ EraseEnds(e),
         UNCHANGED <<dumper, content>>
  PROVE  RowsInv' /\ FilesInv'
<1>1. /\ eraser'[e] = IdleErase /\ eraser' = [x \in Eraser |-> eraser'[x]]
      /\ \A x \in Eraser \ {e} : eraser'[x] = eraser[x]
      /\ eraser[e].keys = {}
      /\ UNCHANGED <<object, uploader, check, interrupted, erased, missed>> /\ UNCHANGED tenantVars
  BY DEF EraseFails, EraseEnds, FilesInv, ErasuresRead, FilesTyped
<1>2. IdleErase \in EraseState
  BY DEF IdleErase, EraseState
<1>3. IdleErase.pc = "idle" /\ IdleErase.seen = {} /\ IdleErase.keys = {}
  BY DEF IdleErase
<1> QED  BY <1>1, <1>2, <1>3, EraserMoves

LEMMA EraseFileKeeps ==
  ASSUME RowsInv, FilesInv, NEW e \in Eraser, NEW r \in FileRows, NEW deleted \in BOOLEAN,
         EraseFile(e, r, deleted), UNCHANGED <<dumper, content>>
  PROVE  RowsInv' /\ FilesInv'
<1> USE DEF FilesInv
<1>0. RowsInv' /\ Present' = Present /\ Files' = Files /\ table' = table
  BY RowsSame DEF tenantVars, EraseFile
<1>1. /\ eraser[e].pc = "removing" /\ r \in eraser[e].keys /\ r \in erased
      /\ \/ object' = object \ {r} /\ missed' = missed
         \/ object' = object /\ missed' = missed \cup {r}
      /\ UNCHANGED <<uploader, check, interrupted, erased>>
  BY DEF EraseFile, StorageDelete, FilesKnown
<1>2. /\ eraser' \in [Eraser -> EraseState]
      /\ \A x \in Eraser : /\ eraser'[x].pc = eraser[x].pc /\ eraser'[x].todo = eraser[x].todo
                           /\ eraser'[x].seen = eraser[x].seen
                           /\ eraser'[x].keys \subseteq eraser[x].keys
                           /\ eraser[x].keys \subseteq eraser'[x].keys \cup {r}
  BY DEF EraseFile, FilesTyped, EraseState
<1>3. Kept' = Kept
  BY <1>1 DEF Kept
<1>4. FilesTyped' /\ FilesKnown'
  BY <1>0, <1>1, <1>2, <1>3 DEF FilesTyped, FilesKnown
<1>5. UploadsOwn'
  <2>1. \A q : Unseen(q) => Unseen(q)'
    BY <1>0, <1>1, <1>2 DEF Unseen
  <2> QED  BY <1>1, <1>3, <2>1 DEF UploadsOwn
<1>6. PendingOwned'
  BY <1>0, <1>1 DEF PendingOwned
<1>7. ErasuresRead'
  BY <1>0, <1>1, <1>2 DEF ErasuresRead
<1>8. ErasedGo'
  <2>1. Removing \subseteq Removing' \cup {r}
    BY <1>2 DEF Removing
  <2> QED  BY <1>1, <2>1 DEF ErasedGo
<1> QED  BY <1>0, <1>4, <1>5, <1>6, <1>7, <1>8

LEMMA EraseCommitKeeps ==
  ASSUME RowsInv, FilesInv, NEW e \in Eraser, EraseCommit(e), UNCHANGED <<dumper, content>>
  PROVE  RowsInv' /\ FilesInv'
<1> USE DEF FilesInv, RowsInv
<1> DEFINE seen == eraser[e].seen
           gone == Erasable(seen)
           files == StorageKeys(seen)
<1>1. /\ eraser[e] \in EraseState /\ eraser[e].pc = "ready" /\ eraser[e].keys = {}
      /\ eraser[e].todo = {} /\ seen \subseteq Row /\ files = seen \cap FileRows
  BY DEF EraseCommit, FilesTyped, ErasuresRead, EraseState, StorageKeys
<1>2. /\ \A r \in Present \ gone : ParentOf[r] \notin gone
      /\ table' = [r \in Row |-> IF r \in gone THEN Absent ELSE table[r]]
      /\ erased' = erased \cup gone \cup files
      /\ UNCHANGED <<instance, version, editor, sweeper, last, overlapped,
                     object, uploader, check, interrupted, missed>>
  BY DEF EraseCommit
<1>3. /\ eraser' \in [Eraser -> EraseState]
      /\ eraser'[e].pc = "removing" /\ eraser'[e].keys = files /\ eraser'[e].seen = seen
      /\ \A x \in Eraser \ {e} : eraser'[x] = eraser[x]
  BY <1>1 DEF EraseCommit, FilesTyped, EraseState
<1>4. /\ gone \subseteq Present /\ gone \subseteq Row
      /\ \A r \in gone \cap FileRows : ParentOf[r] \in seen
      /\ Client \in Present => Client \in gone
  BY ClientIs, EngagementIs DEF Erasable, Present
<1> HIDE DEF seen, gone, files
<1>5. Present' = Present \ gone /\ Files' = Files \ gone /\ Kept \subseteq Kept'
  BY <1>2, <1>4 DEF Present, Files, Absent, Kept
<1>6. TenantTyped'
  BY <1>2, KeysTyped DEF TenantTyped
<1>7. ForeignKeys'
  BY <1>2, <1>5 DEF ForeignKeys, Closed, RowsOf, Present
<1>8. TextsKept'
  <2> SUFFICES ASSUME NEW q \in Row, q \in Present', q \notin overlapped,
                      KindOf[q] \in {"client", "engagement", "finding", "check", "session"}
               PROVE  table'[q].text = last[q].text /\ table'[q].key.id = last[q].id
    BY <1>2 DEF TextsKept, Swept, Present
  <2> QED  BY <1>2, <1>5 DEF TextsKept, Swept
<1>9. CopiesCurrent'
  BY <1>2, <1>4, <1>5 DEF CopiesCurrent
<1>10. FilesTyped'
  BY <1>1, <1>2, <1>3, <1>4 DEF FilesTyped
<1>11. FilesKnown'
  <2>1. Files' \subseteq Kept'
    BY <1>5 DEF FilesKnown
  <2>2. \A x \in Eraser : eraser'[x].seen \cap FileRows \subseteq Kept'
    BY <1>3, <1>5 DEF FilesKnown, seen
  <2>3. \A x \in Eraser : eraser'[x].keys \subseteq erased'
    BY <1>2, <1>3 DEF FilesKnown
  <2> QED  BY <1>5, <2>1, <2>2, <2>3 DEF FilesKnown
<1>12. UploadsOwn'
  <2>1. \A q \in FileRows : Unseen(q) => Unseen(q)'
    BY <1>1, <1>2, <1>3, <1>4, <1>5 DEF Unseen, seen
  <2> QED  BY <1>2, <1>5, <2>1 DEF UploadsOwn
<1>13. PendingOwned'
  <2>1. \A q \in Files' : q \in Files /\ table'[q] = table[q]
    BY <1>2, <1>5 DEF Files, Present
  <2> QED  BY <2>1, <1>2 DEF PendingOwned
<1>14. ErasuresRead'
  <2>1. eraser'[e].seen = eraser[e].seen
    BY <1>3 DEF seen
  <2> QED  BY <2>1, <1>2, <1>3, <1>5 DEF ErasuresRead
<1>15. ErasedGo'
  <2> SUFFICES ASSUME NEW r \in object, r \in erased'
               PROVE  r \in missed \cup Removing'
    BY <1>2 DEF ErasedGo
  <2>1. Removing \subseteq Removing' /\ files \subseteq Removing'
    BY <1>1, <1>3 DEF Removing
  <2>2. CASE r \in erased
    BY <2>1, <2>2 DEF ErasedGo
  <2>3. CASE r \in files
    BY <2>1, <2>3
  <2>4. CASE r \in gone
    <3>1. r \in FileRows /\ r \in Files /\ ParentOf[r] \in seen
      BY <2>4, <1>4 DEF FilesTyped, Files
    <3>2. \A q \in seen : KindOf[q] \in {"test", "finding"} => ParentOf[q] \in seen
      BY DEF ErasuresRead, seen
    <3>3. EngagementFor(r) \in seen
      BY <3>1, <3>2, EngagementIs
    <3>4. r \in seen \cup missed
      BY <3>1, <3>3, <1>1 DEF ErasuresRead, seen
    <3> QED  BY <3>1, <3>4, <2>1, <1>1
  <2> QED  BY <1>2, <2>2, <2>3, <2>4
<1> QED
  BY <1>6, <1>7, <1>8, <1>9, <1>10, <1>11, <1>12, <1>13, <1>14, <1>15

LEMMA CrashKeeps ==
  ASSUME RowsInv, FilesInv, Crash, UNCHANGED <<dumper, content>>
  PROVE  RowsInv' /\ FilesInv'
<1> USE DEF FilesInv, RowsInv
<1>1. /\ editor' = [e \in Editor |-> IdleEdit] /\ sweeper' = [s \in Sweeper |-> IdleSweep]
      /\ uploader' = [u \in Uploader |-> IdleUpload] /\ check' = {}
      /\ eraser' = [e \in Eraser |-> IdleErase]
      /\ missed' = missed \cup Removing
      /\ UNCHANGED <<instance, table, version, last, overlapped, object, erased>>
  BY DEF Crash, Removing
<1>2. Present' = Present /\ Files' = Files /\ Kept' = Kept
  BY <1>1 DEF Present, Files, Kept
<1>3. TenantTyped' /\ ForeignKeys' /\ TextsKept'
  <2>1. IdleEdit \in EditState /\ IdleSweep \in SweepState
    BY KeysTyped, TenantAssumption DEF IdleEdit, EditState, IdleSweep, SweepState
  <2> QED  BY <1>1, <1>2, <2>1 DEF TenantTyped, ForeignKeys, Closed, RowsOf, TextsKept, Swept
<1>4. CopiesCurrent'
  BY <1>1 DEF CopiesCurrent, IdleSweep
<1>5. /\ IdleUpload \in UploadState /\ IdleUpload.pc = "idle"
      /\ IdleErase \in EraseState /\ IdleErase.pc = "idle"
      /\ IdleErase.seen = {} /\ IdleErase.keys = {}
  BY KeysTyped DEF IdleUpload, UploadState, IdleErase, EraseState
<1>6. /\ interrupted \subseteq interrupted' /\ interrupted' \subseteq FileRows
      /\ \A r \in check : r \in interrupted'
      /\ \A u \in Uploader : uploader[u].pc = "audit" /\ KindOf[uploader[u].row] = "evidence"
           => uploader[u].row \in interrupted'
  <2>1. \A u \in Uploader : uploader[u].pc = "audit" => uploader[u].row \in FileRows
    BY DEF UploadsOwn
  <2> QED  BY <2>1 DEF Crash, Stranded, FilesTyped, PendingOwned
<1>7. FilesTyped'
  BY <1>1, <1>5, <1>6 DEF FilesTyped, Removing, EraseState
<1>8. FilesKnown' /\ UploadsOwn' /\ ErasuresRead'
  BY <1>1, <1>2, <1>5 DEF FilesKnown, UploadsOwn, ErasuresRead
<1>9. PendingOwned'
  BY <1>1, <1>2, <1>6 DEF PendingOwned
<1>10. ErasedGo'
  BY <1>1 DEF ErasedGo
<1> QED  BY <1>3, <1>4, <1>7, <1>8, <1>9, <1>10

LEMMA FilesStepKeeps ==
  ASSUME RowsInv, FilesInv, FilesNext, UNCHANGED <<dumper, content>>
  PROVE  RowsInv' /\ FilesInv'
<1>1. CASE \E u \in Uploader :
             \/ UploadPut(u) \/ UploadClaim(u) \/ UploadDone(u) \/ UploadFails(u)
             \/ ReportCount(u) \/ ReportDone(u) \/ DocumentDone(u)
  BY <1>1, UploadStepKeeps
<1>2. CASE \E u \in Uploader : UploadRow(u) \/ ReportRow(u) \/ DocumentRow(u)
  BY <1>2, NewRowKeeps
<1>3. CASE \E u \in Uploader :
             \E r \in FileRows : UploadStart(u, r) \/ ReportStart(u, r) \/ DocumentStart(u, r)
  BY <1>3, BeginKeeps DEF UploadStart, ReportStart, DocumentStart
<1>4. CASE \E r \in FileRows :
             \/ CheckFailed(r) \/ CheckLost(r)
             \/ \E answer \in Lookup : CheckAnswered(r, answer)
  BY <1>4, CheckKeeps
<1>5. CASE \E e \in Eraser : EraseStart(e) \/ EraseReadFindings(e) \/ EraseCommit(e)
  BY <1>5, EraseStartKeeps, EraseReadFindingsKeeps, EraseCommitKeeps
<1>6. CASE \E e \in Eraser : EraseFails(e) \/ EraseEnds(e)
  BY <1>6, EraseStopKeeps
<1>7. CASE \E e \in Eraser : \E kind \in {"test", "evidence", "report"} : EraseRead(e, kind)
  BY <1>7, EraseReadKeeps
<1>8. CASE \E e \in Eraser : \E r \in FileRows, deleted \in BOOLEAN : EraseFile(e, r, deleted)
  BY <1>8, EraseFileKeeps
<1>9. CASE Crash
  BY <1>9, CrashKeeps
<1> QED
  BY <1>1, <1>2, <1>3, <1>4, <1>5, <1>6, <1>7, <1>8, <1>9 DEF FilesNext

(***************************************************************************)
(* Backups                                                                 *)
(***************************************************************************)
\* A dump, or a stored one, holds rows that were in the table or in a dump.
LEMMA DumpMoves ==
  ASSUME RowsInv, FilesInv, UNCHANGED tenantVars, UNCHANGED fileVars,
         \A d \in Dumper : \A r \in Row :
           \/ dumper'[d].rows[r].status = "absent"
           \/ dumper'[d].rows[r] = dumper[d].rows[r] \/ dumper'[d].rows[r] = table[r],
         \A b \in Backup : \A r \in Row :
           \/ content'[b][r].status = "absent" \/ content'[b][r] = content[b][r]
           \/ \E d \in Dumper : content'[b][r] = dumper[d].rows[r]
  PROVE  RowsInv' /\ FilesInv'
<1> USE DEF FilesInv
<1>0. RowsInv' /\ FilesStay /\ Present' = Present /\ Files' = Files /\ table' = table /\ Kept' = Kept
  BY RowsSame DEF tenantVars, fileVars, Kept
<1>1. FilesTyped' /\ PendingOwned' /\ ErasuresRead' /\ ErasedGo'
  BY <1>0 DEF fileVars, FilesTyped, PendingOwned, ErasuresRead, ErasedGo, Removing
<1>2. FilesKnown'
  <2>1. \A d \in Dumper : DumpedFiles(dumper'[d].rows) \subseteq Kept
    BY DEF FilesKnown, DumpedFiles, Files, Present, FileRows
  <2>2. \A b \in Backup : DumpedFiles(content'[b]) \subseteq Kept
    BY DEF FilesKnown, DumpedFiles, FileRows
  <2> QED  BY <1>0, <2>1, <2>2 DEF FilesKnown, fileVars
<1>3. UploadsOwn'
  <2>1. \A q \in FileRows : Unseen(q) => Unseen(q)'
    BY <1>0 DEF Unseen, fileVars, Present, FileRows
  <2> QED  BY <1>0, <2>1 DEF UploadsOwn, fileVars
<1> QED  BY <1>0, <1>1, <1>2, <1>3

LEMMA NoRowsTyped ==
  /\ NoRows \in [Row -> RowValue] /\ \A r \in Row : NoRows[r].status = "absent"
  /\ IsDump(IdleDump) /\ IdleDump.rows = NoRows
<1>1. Absent \in RowValue /\ Absent.status = "absent"
  BY TenantAssumption DEF Absent, RowValue, Status, Plain, Key, KeyId
<1>2. NoRows \in [Row -> RowValue] /\ \A r \in Row : NoRows[r].status = "absent"
  BY <1>1 DEF NoRows
<1> QED  BY <1>2 DEF IsDump, IdleDump

\* A run of runDatabaseBackup moves on.
DumpStep(d) ==
  \/ BackupTable(d) \/ BackupPut(d) \/ BackupRecord(d) \/ PruneList(d) \/ PruneRow(d)
  \/ BackupEnds(d)
  \/ \E b \in Backup : BackupStart(d, b) \/ PruneObject(d, b)

\* What the query for the next table does.
LEMMA TableRead ==
  ASSUME DumpsTyped, table \in [Row -> RowValue], NEW d \in Dumper, BackupTable(d)
  PROVE  \E n \in Tables :
           /\ dumper[d].pc = "dump"
           /\ n >= dumper[d].next /\ \A m \in Tables : m >= n \/ m < dumper[d].next
           /\ dumper'[d].rows \in [Row -> RowValue]
           /\ \A r \in Row : dumper'[d].rows[r] =
                IF TableOf(r) = BackupModels[n] THEN table[r] ELSE dumper[d].rows[r]
           /\ dumper'[d].next = n + 1
           /\ dumper'[d].pc = IF \E m \in Tables : m > n THEN "dump" ELSE "put"
           /\ dumper'[d].backup = dumper[d].backup /\ dumper'[d].stale = dumper[d].stale
           /\ IsDump(dumper'[d])
           /\ \A x \in Dumper \ {d} : dumper'[x] = dumper[x]
           /\ dumper' = [x \in Dumper |-> dumper'[x]]
<1> DEFINE read(n) == [r \in Row |-> IF TableOf(r) = BackupModels[n] THEN table[r]
                                    ELSE dumper[d].rows[r]]
           pc(n) == IF \E m \in Tables : m > n THEN "dump" ELSE "put"
<1>1. PICK n \in Tables :
        /\ n >= dumper[d].next /\ \A m \in Tables : m >= n \/ m < dumper[d].next
        /\ dumper' = [dumper EXCEPT ![d] = [@ EXCEPT !.rows = read(n), !.next = n + 1, !.pc = pc(n)]]
  BY Zenon DEF BackupTable
<1>2. /\ IsDump(dumper[d]) /\ dumper = [x \in Dumper |-> dumper[x]]
      /\ read(n) \in [Row -> RowValue]
      /\ \A r \in Row : read(n)[r] =
           IF TableOf(r) = BackupModels[n] THEN table[r] ELSE dumper[d].rows[r]
  BY DEF DumpsTyped, IsDump
<1>3. dumper[d].pc = "dump"
  BY DEF BackupTable
<1> HIDE DEF read, pc
<1>4. dumper'[d] = [pc |-> pc(n), backup |-> dumper[d].backup, next |-> n + 1, rows |-> read(n),
                    stale |-> dumper[d].stale]
  BY <1>1, <1>2 DEF IsDump
<1>5. /\ \A x \in Dumper \ {d} : dumper'[x] = dumper[x]
      /\ dumper' = [x \in Dumper |-> dumper'[x]]
  BY <1>1, <1>2
<1>6. /\ dumper'[d].rows = read(n) /\ dumper'[d].next = n + 1 /\ dumper'[d].pc = pc(n)
      /\ dumper'[d].backup = dumper[d].backup /\ dumper'[d].stale = dumper[d].stale
      /\ IsDump(dumper'[d])
  BY <1>2, <1>4 DEF IsDump
<1>7. pc(n) = IF \E m \in Tables : m > n THEN "dump" ELSE "put"
  BY DEF pc
<1>8. /\ dumper'[d].rows \in [Row -> RowValue]
      /\ \A r \in Row : dumper'[d].rows[r] =
           IF TableOf(r) = BackupModels[n] THEN table[r] ELSE dumper[d].rows[r]
  BY <1>2, <1>6
<1>9. dumper'[d].pc = IF \E m \in Tables : m > n THEN "dump" ELSE "put"
  BY <1>6, <1>7
<1> WITNESS n \in Tables
<1> QED  BY <1>1, <1>3, <1>5, <1>6, <1>8, <1>9

LEMMA DumpStepFacts ==
  ASSUME RowsInv, DumpsTyped, NEW d \in Dumper, DumpStep(d)
  PROVE  /\ UNCHANGED tenantVars /\ UNCHANGED fileVars
         /\ \A x \in Dumper \ {d} : dumper'[x] = dumper[x]
         /\ dumper' = [x \in Dumper |-> dumper'[x]]
         /\ IsDump(dumper'[d])
         /\ \A r \in Row :
              \/ dumper'[d].rows[r].status = "absent"
              \/ dumper'[d].rows[r] = dumper[d].rows[r] \/ dumper'[d].rows[r] = table[r]
<1>1. /\ IsDump(dumper[d]) /\ dumper = [x \in Dumper |-> dumper[x]]
      /\ table \in [Row -> RowValue]
  BY DEF DumpsTyped, RowsInv, TenantTyped
<1>2. CASE BackupTable(d)
  <2>1. UNCHANGED tenantVars /\ UNCHANGED fileVars
    BY <1>2 DEF BackupTable
  <2> QED  BY <1>1, <1>2, <2>1, TableRead
<1>3. CASE BackupPut(d)
  BY <1>1, <1>3, NoRowsTyped DEF BackupPut, IsDump
<1>4. CASE BackupRecord(d)
  BY <1>1, <1>4 DEF BackupRecord, IsDump
<1>5. CASE PruneList(d)
  BY <1>1, <1>5 DEF PruneList, IsDump
<1>6. CASE PruneRow(d)
  BY <1>1, <1>6 DEF PruneRow, IsDump
<1>7. CASE BackupEnds(d)
  BY <1>1, <1>7, NoRowsTyped DEF BackupEnds
<1>8. ASSUME NEW b \in Backup, BackupStart(d, b)
      PROVE  /\ UNCHANGED tenantVars /\ UNCHANGED fileVars
             /\ \A x \in Dumper \ {d} : dumper'[x] = dumper[x]
             /\ dumper' = [x \in Dumper |-> dumper'[x]]
             /\ IsDump(dumper'[d]) /\ dumper'[d].rows = NoRows
  BY <1>1, <1>8, NoRowsTyped DEF BackupStart, IsDump, IdleDump
<1>9. ASSUME NEW b \in Backup, PruneObject(d, b)
      PROVE  /\ UNCHANGED tenantVars /\ UNCHANGED fileVars
             /\ \A x \in Dumper \ {d} : dumper'[x] = dumper[x]
             /\ dumper' = [x \in Dumper |-> dumper'[x]]
             /\ IsDump(dumper'[d]) /\ dumper'[d].rows = dumper[d].rows
  BY <1>1, <1>9 DEF PruneObject, IsDump
<1> QED
  BY <1>2, <1>3, <1>4, <1>5, <1>6, <1>7, <1>8, <1>9, NoRowsTyped DEF DumpStep

LEMMA DumpStepKeeps ==
  ASSUME RowsInv, FilesInv, DumpsTyped, NEW d \in Dumper, DumpStep(d)
  PROVE  RowsInv' /\ FilesInv' /\ DumpsTyped'
<1>1. /\ UNCHANGED tenantVars /\ UNCHANGED fileVars
      /\ \A x \in Dumper \ {d} : dumper'[x] = dumper[x]
      /\ dumper' = [x \in Dumper |-> dumper'[x]] /\ IsDump(dumper'[d])
      /\ \A r \in Row : \/ dumper'[d].rows[r].status = "absent"
                        \/ dumper'[d].rows[r] = dumper[d].rows[r]
                        \/ dumper'[d].rows[r] = table[r]
  BY DumpStepFacts
<1>2. \/ content' = content
      \/ content' = [content EXCEPT ![dumper[d].backup] = dumper[d].rows]
      \/ \E b \in Backup : content' = [content EXCEPT ![b] = NoRows]
  BY DEF DumpStep, BackupTable, BackupPut, BackupRecord, PruneList, PruneRow, BackupEnds,
     BackupStart, PruneObject
<1>3. /\ content' \in [Backup -> [Row -> RowValue]]
      /\ \A b \in Backup : \A r \in Row :
           \/ content'[b][r].status = "absent" \/ content'[b][r] = content[b][r]
           \/ \E x \in Dumper : content'[b][r] = dumper[x].rows[r]
  <2>1. dumper[d].rows \in [Row -> RowValue] /\ content \in [Backup -> [Row -> RowValue]]
    BY DEF DumpsTyped, IsDump
  <2> QED  BY <1>2, <2>1, NoRowsTyped
<1>4. RowsInv' /\ FilesInv'
  BY <1>1, <1>3, DumpMoves
<1>5. DumpsTyped'
  BY <1>1, <1>3 DEF DumpsTyped
<1> QED  BY <1>4, <1>5

LEMMA RestoreKeeps ==
  ASSUME RowsInv, FilesInv, DumpsTyped, NEW b \in Backup, Restore(b)
  PROVE  RowsInv' /\ FilesInv' /\ DumpsTyped'
<1> USE DEF FilesInv, RowsInv
<1>1. /\ table' = content[b] /\ content[b] \in [Row -> RowValue] /\ Closed(content[b])
      /\ last' = [r \in Row |-> [text |-> content[b][r].text, id |-> content[b][r].key.id]]
      /\ overlapped' = overlapped \cup {r \in Row : Held(r)}
      /\ interrupted' = interrupted \cup {r \in FileRows : content[b][r].status = "PENDING"}
      /\ missed' = missed \cup {r \in FileRows \cap RowsOf(content[b]) : ReadAlready(r)}
      /\ UNCHANGED <<instance, version, editor, sweeper, object, uploader, check, eraser,
                     erased, dumper, content>>
  BY DEF Restore, DumpsTyped
<1>2. /\ Present' = RowsOf(content[b]) /\ Files' = DumpedFiles(content[b]) /\ Kept' = Kept
  BY <1>1 DEF Present, RowsOf, Files, DumpedFiles, Kept, FileRows
<1>3. TenantTyped'
  <2>1. last' \in [Row -> [text : 0..MaxText, id : KeyId]]
    BY <1>1 DEF RowValue, Key
  <2> QED  BY <1>1, <2>1 DEF TenantTyped
<1>4. ForeignKeys' /\ TextsKept'
  BY <1>1, <1>2 DEF ForeignKeys, TextsKept, Swept, RowsOf
<1>5. CopiesCurrent'
  <2>1. \A s \in Sweeper : sweeper[s].todo \subseteq overlapped'
    BY <1>1 DEF Held, TenantTyped, SweepState
  <2> QED  BY <1>1, <2>1 DEF CopiesCurrent
<1>6. FilesTyped' /\ FilesKnown'
  BY <1>1, <1>2 DEF FilesTyped, FilesKnown
<1>7. UploadsOwn'
  <2>1. \A q \in FileRows : Unseen(q) => Unseen(q)'
    BY <1>1, <1>2 DEF Unseen, RowsOf
  <2> QED  BY <1>1, <1>2, <2>1 DEF UploadsOwn
<1>8. PendingOwned'
  BY <1>1, <1>2 DEF PendingOwned, DumpedFiles
<1>9. ErasuresRead'
  <2>1. \A r \in Files' : ReadAlready(r) => r \in missed'
    BY <1>1, <1>2 DEF DumpedFiles, RowsOf, FileRows
  <2>2. \A e \in Eraser : \A r \in Files' :
          eraser[e].pc \in {"reading", "ready"} /\ KindOf[r] \notin eraser[e].todo => r \in missed'
    BY <2>1 DEF ReadAlready
  <2> QED  BY <1>1, <2>2 DEF ErasuresRead
<1>10. ErasedGo'
  BY <1>1 DEF ErasedGo, Removing
<1>11. DumpsTyped'
  BY <1>1 DEF DumpsTyped
<1> QED  BY <1>3, <1>4, <1>5, <1>6, <1>7, <1>8, <1>9, <1>10, <1>11

(***************************************************************************)
(* The theorems                                                            *)
(***************************************************************************)
LEMMA DataInit == Init => DataIInv
<1> SUFFICES ASSUME Init PROVE DataIInv
  OBVIOUS
<1>0. /\ instance \in Instance /\ instance.initial \subseteq Row
      /\ \A r \in instance.initial : ParentOf[r] \in instance.initial
  BY TenantAssumption DEF Init, FilesInit, TenantInit
<1>a. /\ version = 1 /\ overlapped = {}
      /\ editor = [e \in Editor |-> IdleEdit] /\ sweeper = [s \in Sweeper |-> IdleSweep]
      /\ last = [r \in Row |-> [text |-> 0, id |-> table[r].key.id]]
  BY DEF Init, FilesInit, TenantInit
<1>1. /\ table \in [Row -> RowValue]
      /\ \A r \in Row : table[r].status \in {"absent", "present"} /\ table[r].text = 0
                        /\ table[r].key.id \in KeyId
      /\ \A r \in Row : table[r].status # "absent" <=> r \in instance.initial
  <2> DEFINE key(r) == IF KindOf[r] \in {"test", "user", "ledger"} THEN Plain ELSE SystemKey(1)
  <2>1. \A r \in Row : table[r] = IF r \notin instance.initial THEN Absent
                                  ELSE [Absent EXCEPT !.status = "present", !.key = key(r)]
    BY DEF Init, FilesInit, TenantInit
  <2>2. \A r \in Row : table[r] = IF r \notin instance.initial THEN Absent
          ELSE [status |-> "present", text |-> 0, key |-> key(r), assigned |-> NoKey]
    BY <2>1 DEF Absent
  <2>3. \A r \in Row : key(r) \in Key
    BY TenantAssumption DEF Plain, SystemKey, Key, KeyId
  <2> HIDE DEF key
  <2>4. Absent \in RowValue /\ Absent.status = "absent" /\ Absent.text = 0
    BY TenantAssumption DEF Absent, RowValue, Status, Plain, Key, KeyId
  <2>5. \A r \in Row :
          [status |-> "present", text |-> 0, key |-> key(r), assigned |-> NoKey] \in RowValue
    BY <2>3, TenantAssumption DEF RowValue, Status
  <2>6. \A r \in Row : table[r] \in RowValue /\ table[r].text = 0
    <3> SUFFICES ASSUME NEW r \in Row PROVE table[r] \in RowValue /\ table[r].text = 0
      OBVIOUS
    <3>1. CASE r \notin instance.initial  BY <3>1, <2>2, <2>4
    <3>2. CASE r \in instance.initial
      <4>1. table[r] = [status |-> "present", text |-> 0, key |-> key(r), assigned |-> NoKey]
        BY <3>2, <2>2
      <4>2. table[r] \in RowValue
        BY <4>1, <2>5
      <4> QED  BY <4>1, <4>2
    <3> QED  BY <3>1, <3>2
  <2>7. DOMAIN table = Row /\ table = [r \in Row |-> table[r]]
    BY DEF Init, FilesInit, TenantInit
  <2>8. table \in [Row -> RowValue]
    BY <2>6, <2>7
  <2>9. \A r \in Row : table[r].key.id \in KeyId
    BY <2>6 DEF RowValue, Key
  <2> QED  BY <2>2, <2>4, <2>6, <2>8, <2>9
<1>2. TenantTyped
  <2>1. IdleEdit \in EditState /\ IdleSweep \in SweepState
    BY TenantAssumption DEF IdleEdit, EditState, IdleSweep, SweepState, Absent, RowValue, Status,
       Plain, Key, KeyId
  <2>2. last \in [Row -> [text : 0..MaxText, id : KeyId]]
    <3>1. 0 \in 0..MaxText
      BY TenantAssumption
    <3> QED  BY <1>1, <1>a, <3>1
  <2>3. 1 \in 1..MaxVersion
    BY TenantAssumption
  <2> QED  BY <1>0, <1>1, <1>a, <2>1, <2>2, <2>3 DEF TenantTyped
<1>3. Present = instance.initial /\ Files \subseteq FileRows
  BY <1>0, <1>1 DEF Present, Files
<1>4. ForeignKeys /\ TextsKept /\ CopiesCurrent
  <2>1. ForeignKeys
    BY <1>0, <1>3 DEF ForeignKeys, Closed, RowsOf, Present
  <2>2. TextsKept
    BY <1>1, <1>a DEF TextsKept, Swept, Present
  <2>3. CopiesCurrent
    BY <1>a DEF CopiesCurrent, IdleSweep
  <2> QED  BY <2>1, <2>2, <2>3
<1>5. /\ object = instance.initial \cap FileRows /\ uploader = [u \in Uploader |-> IdleUpload] /\ check = {}
      /\ interrupted = {} /\ eraser = [e \in Eraser |-> IdleErase] /\ erased = {} /\ missed = {}
      /\ dumper = [d \in Dumper |-> IdleDump] /\ content = [b \in Backup |-> NoRows]
  BY DEF Init, FilesInit
<1>6. /\ IdleUpload \in UploadState /\ IdleUpload.pc = "idle"
      /\ IdleErase \in EraseState /\ IdleErase.pc = "idle"
      /\ IdleErase.seen = {} /\ IdleErase.keys = {} /\ IdleErase.todo = {}
  BY KeysTyped, <1>2 DEF IdleUpload, UploadState, IdleErase, EraseState
<1>7. FilesTyped /\ DumpsTyped
  BY <1>5, <1>6, NoRowsTyped DEF FilesTyped, DumpsTyped
<1>8. Files \subseteq object /\ \A r \in Files : table[r].status # "PENDING"
  BY <1>1, <1>3, <1>5 DEF Files, FileRows
<1>9. FilesKnown /\ UploadsOwn /\ PendingOwned /\ ErasuresRead /\ ErasedGo
  <2>1. DumpedFiles(NoRows) = {}
    BY NoRowsTyped DEF DumpedFiles, FileRows
  <2>2. FilesKnown
    BY <1>5, <1>6, <1>8, <2>1, NoRowsTyped DEF FilesKnown, Kept
  <2> QED  BY <2>2, <1>5, <1>6, <1>8 DEF UploadsOwn, PendingOwned, ErasuresRead, ErasedGo
<1> QED  BY <1>2, <1>4, <1>7, <1>9 DEF DataIInv

LEMMA DataNext == DataIInv /\ [Next]_dataVars => DataIInv'
<1> SUFFICES ASSUME DataIInv, [Next]_dataVars PROVE DataIInv'
  OBVIOUS
<1>0. RowsInv /\ FilesInv /\ DumpsTyped
  BY DEF DataIInv, RowsInv, FilesInv
<1>1. ASSUME TenantNext, Others, UNCHANGED fileVars
      PROVE  RowsInv' /\ FilesInv' /\ DumpsTyped'
  <2>1. RowsInv' /\ FilesStay
    BY <1>0, <1>1, TenantStepKeeps
  <2>2. FilesInv'
    BY <1>0, <1>1, <2>1, FilesRest DEF Others
  <2> QED  BY <1>0, <1>1, <2>1, <2>2 DEF Others, DumpsTyped
<1>2. ASSUME FilesNext, Others
      PROVE  RowsInv' /\ FilesInv' /\ DumpsTyped'
  BY <1>0, <1>2, FilesStepKeeps DEF Others, DumpsTyped
<1>3. ASSUME NEW d \in Dumper, DumpStep(d)
      PROVE  RowsInv' /\ FilesInv' /\ DumpsTyped'
  BY <1>0, <1>3, DumpStepKeeps
<1>4. ASSUME NEW b \in Backup, Restore(b)
      PROVE  RowsInv' /\ FilesInv' /\ DumpsTyped'
  BY <1>0, <1>4, RestoreKeeps
<1>5. CASE UNCHANGED dataVars
  <2>1. RowsInv' /\ FilesStay
    BY <1>0, <1>5, RowsSame DEF dataVars
  <2>2. FilesInv'
    BY <1>0, <1>5, <2>1, FilesRest DEF dataVars, backupVars
  <2> QED  BY <1>0, <1>5, <2>1, <2>2 DEF dataVars, backupVars, DumpsTyped, DataIInv, RowsInv, FilesInv
<1>6. Next => RowsInv' /\ FilesInv' /\ DumpsTyped'
  BY <1>1, <1>2, <1>3, <1>4 DEF Next, DumpStep
<1> QED  BY <1>5, <1>6 DEF DataIInv, RowsInv, FilesInv

\* The invariant of a client's data, for any number of actors.
THEOREM DataIInvHolds == Spec => []DataIInv
BY DataInit, DataNext, PTL DEF Spec

\* No rotation undoes an edit or replaces a key that is not the system's,
\* unless the edit was made while a sweep held a copy of the row
\* (rotateAllFields against the PATCH handlers and the assignment of keys).
THEOREM EditsSurviveRotation == Spec => []EditsKept
<1>1. DataIInv => EditsKept
  BY DEF DataIInv, TextsKept, EditsKept, Readable, Swept
<1> QED  BY <1>1, DataIInvHolds, PTL

\* Evidence, reports and signed documents have their files, but for rows an erasure deleted
\* and a restore brought back (the routes that store and serve them, deleteClientData).
THEOREM FilesArePresent == Spec => []FilesPresent
<1>1. DataIInv => FilesPresent
  <2> SUFFICES ASSUME DataIInv PROVE FilesPresent  OBVIOUS
  <2>1. Files \subseteq object \cup erased
    BY DEF DataIInv, FilesKnown, Kept
  <2>2. ASSUME NEW r \in Files \ erased
        PROVE  EvidenceServed(r) \/ ReportServed(r) \/ DocumentServed(r) <=> Unwraps(table[r].key.id)
    BY <2>1, <2>2 DEF Files, FileRows, EvidenceServed, ReportServed, DocumentServed,
         Readable, StorageGet
  <2> QED  BY <2>1, <2>2 DEF FilesPresent
<1> QED  BY <1>1, DataIInvHolds, PTL

\* A file of an erased row is deleted, or its erasure is still at it, or the
\* row was made behind the erasure's reading (deleteClientData).
THEOREM ErasuresForget == Spec => []ErasureForgets
<1>1. DataIInv => ErasureForgets
  BY DEF DataIInv, ErasedGo, Removing, ErasureForgets
<1> QED  BY <1>1, DataIInvHolds, PTL

\* Evidence is PENDING only with a check under way or lost
\* (checkEvidenceMalware and the routes that start it).
THEOREM PendingIsExplained == Spec => []PendingExplained
<1>1. DataIInv => PendingExplained
  BY DEF DataIInv, PendingOwned, PendingExplained
<1> QED  BY <1>1, DataIInvHolds, PTL

(***************************************************************************)
(* The invariant of backups and of report versions                         *)
(***************************************************************************)
\* The rows this deployment may ever have.
Known == instance.initial \cup instance.later

\* What is there, was dumped or is being uploaded is among them.
RowsKnown ==
  /\ Present \subseteq Known
  /\ \A d \in Dumper : RowsOf(dumper[d].rows) \subseteq Known
  /\ \A b \in Backup : RowsOf(content[b]) \subseteq Known
  /\ \A u \in Uploader : uploader[u].pc # "idle" => uploader[u].row \in Known

\* The tables a dump is done with.
TablesRead(d) == {BackupModels[n] : n \in {m \in DOMAIN BackupModels : m < dumper[d].next}}

\* A dump holds rows of the tables it has read only.  Unless a row was created
\* meanwhile it holds every row of them that is still there, and the parent of
\* every row it holds.
DumpsClosed ==
  /\ \A d \in Dumper : dumper[d].pc = "dump" =>
       \A r \in RowsOf(dumper[d].rows) : TableOf(r) \in TablesRead(d)
  /\ \A d \in Dumper : dumper[d].pc = "dump" /\ dumper[d].backup \notin torn =>
       \A r \in Present : TableOf(r) \in TablesRead(d) => r \in RowsOf(dumper[d].rows)
  /\ \A d \in Dumper : dumper[d].pc \in {"dump", "put"} /\ dumper[d].backup \notin torn =>
       Closed(dumper[d].rows)
  /\ \A b \in stored \ torn : Closed(content[b])

InFlight(d) == dumper[d].pc \in {"dump", "put", "record"}

\* A backup in flight is one run's own, in no catalog and on no list of stale
\* ones; no list holds one of the newest, and what is deleted is on a list.
CatalogKept ==
  /\ IsInjective(catalog)
  /\ \A d \in Dumper : InFlight(d) =>
       /\ dumper[d].backup \in Backup \ Range(catalog)
       /\ \A x \in Dumper : dumper[d].backup \notin dumper[x].stale
       /\ \A x \in Dumper \ {d} : InFlight(x) => dumper[x].backup # dumper[d].backup
       /\ dumper[d].pc = "record" => dumper[d].backup \in stored
  /\ \A d \in Dumper : dumper[d].stale \cap Newest(Retention) = {}
  /\ \A d \in Dumper : dumper[d].pc = "delete" => dumper[d].backup \in dumper[d].stale
  /\ Newest(Retention) \subseteq stored

\* The engagement and the type of a report: the reports that its version counts.
SeriesOf(r) == <<ParentOf[r], TypeOf[r]>>
Series == {SeriesOf(r) : r \in {q \in Row : KindOf[q] = "report"}}

Reports(e) == {r \in Files : KindOf[r] = "report" /\ SeriesOf(r) = e}
ReportsAt(e, number) == {r \in Reports(e) : edition[r] = number}

\* Reports of a series that are generated now and counted so many.
Counted(e, number) ==
  {u \in Uploader : /\ uploader[u].pc = "row" /\ KindOf[uploader[u].row] = "report"
                    /\ SeriesOf(uploader[u].row) = e /\ uploader[u].count = number}

\* While nothing is restored, the reports of a series only become more,
\* until their engagement is erased with them: so no version is above their number, nor a
\* count that one is generated with; and the reports with a version, with those
\* generated with the count before it, are no more than the uploads.
EditionsCounted ==
  restored = 0 => \A e \in Series :
    /\ \A r \in Reports(e) : edition[r] \in 1..Cardinality(Reports(e))
    /\ e[1] \in Present => \A u \in Uploader :
         u \in Counted(e, uploader[u].count) => uploader[u].count <= Cardinality(Reports(e))
    /\ \A n \in 0..Cardinality(Row) :
         Cardinality(ReportsAt(e, n + 1)) + Cardinality(Counted(e, n))
           <= Cardinality(instance.uploaders)

\* The rest of the types; and a report that is counted is still to be made.
EditionsTyped ==
  /\ overlapped \subseteq Row
  /\ edition \in [FileRows -> 0..Cardinality(Row)]
  /\ \A u \in Uploader :
       /\ uploader[u].count \in 0..Cardinality(Row)
       /\ uploader[u].pc = "row" /\ KindOf[uploader[u].row] = "report"
            => uploader[u].count < Cardinality(Row)
       /\ uploader[u].pc # "idle" => u \in instance.uploaders
  /\ crashes \in Nat /\ restored \in Nat

DumpersTyped ==
  /\ \A d \in Dumper :
       /\ dumper[d].pc \in {"idle", "dump", "put", "record", "list", "prune", "delete"}
       /\ dumper[d].backup \in Backup \cup {NoBackup}
       /\ dumper[d].next \in 0..13 /\ dumper[d].stale \subseteq Backup
  /\ catalog \in Seq(Backup) /\ stored \subseteq Backup /\ torn \subseteq Backup

BackupIInv ==
  EditionsTyped /\ DumpersTyped /\ RowsKnown /\ DumpsClosed /\ CatalogKept /\ EditionsCounted

(***************************************************************************)
(* Backups: their steps                                                    *)
(***************************************************************************)
\* Parents come before their children in BACKUP_MODELS.
LEMMA ParentsFirst ==
  /\ DOMAIN BackupModels = 1..12
  /\ \A r \in Row : \E n \in 1..12 : BackupModels[n] = TableOf(r)
  /\ \A m, n \in 1..12 : BackupModels[m] = BackupModels[n] => m = n
  /\ \A r \in Row : \A m, n \in 1..12 :
       TableOf(r) = BackupModels[n] /\ TableOf(ParentOf[r]) = BackupModels[m] => m <= n
<1>1. \A r \in Row : KindOf[r] \in Kind /\ KindOf[ParentOf[r]] = ParentKind(KindOf[r])
  BY TenantAssumption
<1> QED  BY <1>1 DEF BackupModels, Kind, ParentKind, TableOf

\* While rows change, no dump, backup or catalog does, but those are torn
\* during which a row was created.
LEMMA RowsMoveDumps ==
  ASSUME DumpersTyped, DumpsClosed, CatalogKept, TornNow, UNCHANGED <<dumper, catalog, stored, content>>
  PROVE  DumpersTyped' /\ DumpsClosed' /\ CatalogKept'
<1>1. torn \subseteq torn' /\ torn' \subseteq Backup
  BY DEF TornNow, DumpersTyped
<1>2. DumpersTyped'
  BY <1>1 DEF DumpersTyped
<1>3. CatalogKept'
  BY DEF CatalogKept, InFlight, Newest
<1>4. ASSUME NEW d \in Dumper, dumper[d].pc = "dump", dumper[d].backup \notin torn',
             NEW r \in Present', TableOf(r) \in TablesRead(d)
      PROVE  r \in RowsOf(dumper[d].rows)
  <2>1. dumper[d].backup \in Backup /\ Dumping(dumper[d].backup)
    BY <1>4 DEF CatalogKept, InFlight, Dumping
  <2>2. Present' \subseteq Present
    BY <1>4, <2>1 DEF TornNow
  <2> QED  BY <1>1, <1>4, <2>2 DEF DumpsClosed
<1>5. \A d \in Dumper : TablesRead(d)' = TablesRead(d)
  BY DEF TablesRead
<1>6. DumpsClosed'
  BY <1>1, <1>4, <1>5 DEF DumpsClosed
<1> QED  BY <1>2, <1>3, <1>6

\* A dump that reads the next table keeps to what it may hold.
LEMMA TableReadKeeps ==
  ASSUME RowsInv, DumpsTyped, DumpersTyped, RowsKnown, DumpsClosed, CatalogKept,
         NEW d \in Dumper, BackupTable(d)
  PROVE  DumpersTyped' /\ RowsKnown' /\ DumpsClosed' /\ CatalogKept'
<1>1. PICK n \in Tables :
        /\ dumper[d].pc = "dump"
        /\ n >= dumper[d].next /\ \A m \in Tables : m >= n \/ m < dumper[d].next
        /\ dumper'[d].rows \in [Row -> RowValue]
        /\ \A r \in Row : dumper'[d].rows[r] =
             IF TableOf(r) = BackupModels[n] THEN table[r] ELSE dumper[d].rows[r]
        /\ dumper'[d].next = n + 1
        /\ dumper'[d].pc = IF \E m \in Tables : m > n THEN "dump" ELSE "put"
        /\ dumper'[d].backup = dumper[d].backup /\ dumper'[d].stale = dumper[d].stale
        /\ IsDump(dumper'[d])
        /\ \A x \in Dumper \ {d} : dumper'[x] = dumper[x]
        /\ dumper' = [x \in Dumper |-> dumper'[x]]
  BY TableRead DEF RowsInv, TenantTyped
<1>2. UNCHANGED <<instance, table, uploader, catalog, stored, content, torn>>
  BY DEF BackupTable, tenantVars, fileVars
<1>3. n \in 1..12 /\ Tables \subseteq 1..12 /\ dumper[d].next \in Nat
  BY <1>1, ParentsFirst DEF Tables, DumpersTyped
<1>4. RowsOf(dumper'[d].rows) =
        {r \in Present : TableOf(r) = BackupModels[n]}
          \cup {r \in RowsOf(dumper[d].rows) : TableOf(r) # BackupModels[n]}
  BY <1>1 DEF RowsOf, Present
<1>5. DumpersTyped'
  BY <1>1, <1>2, <1>3 DEF DumpersTyped
<1>6. RowsKnown'
  BY <1>1, <1>2, <1>4 DEF RowsKnown, Known, Present
<1>7. CatalogKept'
  BY <1>1, <1>2 DEF CatalogKept, InFlight, Newest
<1>8. Present' = Present /\ Present \subseteq Row
  BY <1>2 DEF Present
<1>9. \A r \in Row : TableOf(r) \in TablesRead(d)' =>
        TableOf(r) = BackupModels[n] \/ TableOf(r) \in TablesRead(d) \/ r \notin Known
  <2> SUFFICES ASSUME NEW r \in Row, r \in Known, NEW m \in 1..12, m < n + 1, TableOf(r) = BackupModels[m]
               PROVE  TableOf(r) = BackupModels[n] \/ TableOf(r) \in TablesRead(d)
    BY <1>1, ParentsFirst DEF TablesRead
  <2>1. m \in Tables
    BY ParentsFirst DEF Tables, Known
  <2>2. m = n \/ m < dumper[d].next
    BY <1>1, <1>3, <2>1
  <2> QED  BY <2>2, ParentsFirst DEF TablesRead
<1>10. \A k \in TablesRead(d) : k \in TablesRead(d)' /\ k # BackupModels[n]
  BY <1>1, <1>3, ParentsFirst DEF TablesRead
<1>11. BackupModels[n] \in TablesRead(d)'
  BY <1>1, <1>3, ParentsFirst DEF TablesRead
<1>12. \A r \in RowsOf(dumper'[d].rows) : TableOf(r) \in TablesRead(d)'
  BY <1>1, <1>4, <1>10, <1>11 DEF DumpsClosed
<1>13. ASSUME dumper[d].backup \notin torn
       PROVE  \A r \in Present : TableOf(r) \in TablesRead(d)' => r \in RowsOf(dumper'[d].rows)
  BY <1>1, <1>4, <1>8, <1>9, <1>10, <1>13 DEF DumpsClosed, RowsKnown
<1>14. ASSUME dumper[d].backup \notin torn, NEW r \in RowsOf(dumper'[d].rows)
       PROVE  ParentOf[r] \in RowsOf(dumper'[d].rows)
  <2>0. r \in Row /\ ParentOf[r] \in Row
    BY <1>14, TenantAssumption DEF RowsOf
  <2>1. CASE TableOf(r) = BackupModels[n]
    <3>1. r \in Present /\ ParentOf[r] \in Present
      BY <1>4, <1>14, <2>1, <1>10, <1>1 DEF RowsInv, ForeignKeys, Closed, RowsOf, Present, DumpsClosed
    <3>2. PICK m \in 1..12 : BackupModels[m] = TableOf(ParentOf[r])
      BY <2>0, ParentsFirst
    <3>3. m < n \/ m = n
      BY <2>0, <2>1, <3>2, <1>3, ParentsFirst
    <3>4. TableOf(ParentOf[r]) \in TablesRead(d)'
      BY <1>1, <1>3, <3>2, <3>3, ParentsFirst DEF TablesRead
    <3> QED  BY <1>13, <1>14, <3>1, <3>4
  <2>2. CASE TableOf(r) # BackupModels[n]
    <3>1. r \in RowsOf(dumper[d].rows) /\ ParentOf[r] \in RowsOf(dumper[d].rows)
      BY <1>1, <1>4, <1>14, <2>2 DEF DumpsClosed, Closed
    <3>2. TableOf(ParentOf[r]) # BackupModels[n]
      BY <1>1, <1>10, <3>1 DEF DumpsClosed
    <3> QED  BY <1>4, <3>1, <3>2
  <2> QED  BY <2>1, <2>2
<1>15. DumpsClosed'
  <2>1. \A x \in Dumper \ {d} : TablesRead(x)' = TablesRead(x)
    BY <1>1 DEF TablesRead
  <2>2. dumper[d].backup \notin torn => Closed(dumper'[d].rows)
    BY <1>14 DEF Closed
  <2>3. \A x \in Dumper : dumper'[x].pc = "dump" =>
          \A r \in RowsOf(dumper'[x].rows) : TableOf(r) \in TablesRead(x)'
    BY <1>1, <1>12, <2>1 DEF DumpsClosed
  <2>4. \A x \in Dumper : dumper'[x].pc = "dump" /\ dumper'[x].backup \notin torn =>
          \A r \in Present : TableOf(r) \in TablesRead(x)' => r \in RowsOf(dumper'[x].rows)
    BY <1>1, <1>13, <2>1 DEF DumpsClosed
  <2>5. \A x \in Dumper : dumper'[x].pc \in {"dump", "put"} /\ dumper'[x].backup \notin torn =>
          Closed(dumper'[x].rows)
    BY <1>1, <2>2 DEF DumpsClosed
  <2> QED  BY <1>2, <1>8, <2>3, <2>4, <2>5 DEF DumpsClosed
<1> QED  BY <1>5, <1>6, <1>7, <1>15

Sets(d, run) == dumper'[d] = run /\ \A x \in Dumper \ {d} : dumper'[x] = dumper[x]

\* A step of a dumper sets fields of its own record.
LEMMA DumpFields ==
  ASSUME DumpsTyped, NEW d \in Dumper
  PROVE  /\ \A b \in Backup : BackupStart(d, b) => 
              Sets(d, [pc |-> "dump", backup |-> b, next |-> 1, rows |-> NoRows, stale |-> {}])
         /\ BackupPut(d) => 
              Sets(d, [pc |-> "record", backup |-> dumper[d].backup, next |-> 0, rows |-> NoRows,
                      stale |-> dumper[d].stale])
         /\ BackupRecord(d) => 
              Sets(d, [pc |-> "list", backup |-> dumper[d].backup, next |-> dumper[d].next,
                      rows |-> dumper[d].rows, stale |-> dumper[d].stale])
         /\ PruneList(d) => 
              Sets(d, [pc |-> "prune", backup |-> dumper[d].backup, next |-> dumper[d].next,
                      rows |-> dumper[d].rows, stale |-> Range(catalog) \ Newest(Retention)])
         /\ \A b \in Backup : PruneObject(d, b) => 
              Sets(d, [pc |-> "delete", backup |-> b, next |-> dumper[d].next,
                      rows |-> dumper[d].rows, stale |-> dumper[d].stale])
         /\ PruneRow(d) => 
              Sets(d, [pc |-> "prune", backup |-> NoBackup, next |-> dumper[d].next,
                      rows |-> dumper[d].rows, stale |-> dumper[d].stale \ {dumper[d].backup}])
         /\ BackupEnds(d) => 
              Sets(d, [pc |-> "idle", backup |-> NoBackup, next |-> 0, rows |-> NoRows, stale |-> {}])
<1>1. dumper[d] = [pc |-> dumper[d].pc, backup |-> dumper[d].backup, next |-> dumper[d].next,
                   rows |-> dumper[d].rows, stale |-> dumper[d].stale]
  BY DEF DumpsTyped, IsDump
<1>2. ASSUME NEW b \in Backup, BackupStart(d, b)
      PROVE  Sets(d, [pc |-> "dump", backup |-> b, next |-> 1, rows |-> NoRows, stale |-> {}])
  <2>1. BackupStart(d, b) =>
          dumper' = [dumper EXCEPT ![d] = [pc |-> "dump", backup |-> b, next |-> 1, rows |-> NoRows, stale |-> {}]]
    BY DEF BackupStart, IdleDump
  <2> QED  BY <1>2, <2>1 DEF DumpsTyped, Sets
<1>3. ASSUME BackupPut(d)
      PROVE  Sets(d, [pc |-> "record", backup |-> dumper[d].backup, next |-> 0, rows |-> NoRows,
                   stale |-> dumper[d].stale])
  <2>1. BackupPut(d) =>
          dumper' = [dumper EXCEPT ![d] = [pc |-> "record", backup |-> dumper[d].backup, next |-> 0, rows |-> NoRows,
                   stale |-> dumper[d].stale]]
    BY <1>1 DEF BackupPut
  <2> QED  BY <1>3, <2>1 DEF DumpsTyped, Sets
<1>4. ASSUME BackupRecord(d)
      PROVE  Sets(d, [pc |-> "list", backup |-> dumper[d].backup, next |-> dumper[d].next,
                   rows |-> dumper[d].rows, stale |-> dumper[d].stale])
  <2>1. BackupRecord(d) =>
          dumper' = [dumper EXCEPT ![d] = [pc |-> "list", backup |-> dumper[d].backup, next |-> dumper[d].next,
                   rows |-> dumper[d].rows, stale |-> dumper[d].stale]]
    BY <1>1 DEF BackupRecord
  <2> QED  BY <1>4, <2>1 DEF DumpsTyped, Sets
<1>5. ASSUME PruneList(d)
      PROVE  Sets(d, [pc |-> "prune", backup |-> dumper[d].backup, next |-> dumper[d].next,
                   rows |-> dumper[d].rows, stale |-> Range(catalog) \ Newest(Retention)])
  <2>1. PruneList(d) =>
          dumper' = [dumper EXCEPT ![d] = [pc |-> "prune", backup |-> dumper[d].backup, next |-> dumper[d].next,
                   rows |-> dumper[d].rows, stale |-> Range(catalog) \ Newest(Retention)]]
    BY <1>1 DEF PruneList
  <2> QED  BY <1>5, <2>1 DEF DumpsTyped, Sets
<1>6. ASSUME NEW b \in Backup, PruneObject(d, b)
      PROVE  Sets(d, [pc |-> "delete", backup |-> b, next |-> dumper[d].next,
                   rows |-> dumper[d].rows, stale |-> dumper[d].stale])
  <2>1. PruneObject(d, b) =>
          dumper' = [dumper EXCEPT ![d] = [pc |-> "delete", backup |-> b, next |-> dumper[d].next,
                   rows |-> dumper[d].rows, stale |-> dumper[d].stale]]
    BY <1>1 DEF PruneObject
  <2> QED  BY <1>6, <2>1 DEF DumpsTyped, Sets
<1>7. ASSUME PruneRow(d)
      PROVE  Sets(d, [pc |-> "prune", backup |-> NoBackup, next |-> dumper[d].next,
                   rows |-> dumper[d].rows, stale |-> dumper[d].stale \ {dumper[d].backup}])
  <2>1. PruneRow(d) =>
          dumper' = [dumper EXCEPT ![d] = [pc |-> "prune", backup |-> NoBackup, next |-> dumper[d].next,
                   rows |-> dumper[d].rows, stale |-> dumper[d].stale \ {dumper[d].backup}]]
    BY <1>1 DEF PruneRow
  <2> QED  BY <1>7, <2>1 DEF DumpsTyped, Sets
<1>8. ASSUME BackupEnds(d)
      PROVE  Sets(d, [pc |-> "idle", backup |-> NoBackup, next |-> 0, rows |-> NoRows, stale |-> {}])
  <2>1. BackupEnds(d) =>
          dumper' = [dumper EXCEPT ![d] = [pc |-> "idle", backup |-> NoBackup, next |-> 0, rows |-> NoRows, stale |-> {}]]
    BY DEF BackupEnds, IdleDump
  <2> QED  BY <1>8, <2>1 DEF DumpsTyped, Sets
<1> QED  BY <1>2, <1>3, <1>4, <1>5, <1>6, <1>7, <1>8

\* The newest are those at the end of the catalog.
LEMMA AppendNewest ==
  ASSUME catalog \in Seq(Backup), NEW b \in Backup, catalog' = Append(catalog, b)
  PROVE  /\ catalog' \in Seq(Backup) /\ Range(catalog') = Range(catalog) \cup {b}
         /\ Newest(Retention)' \subseteq Newest(Retention) \cup {b}
         /\ IsInjective(catalog) /\ b \notin Range(catalog) => IsInjective(catalog')
<1>1. /\ Len(catalog) \in Nat /\ DOMAIN catalog = 1..Len(catalog)
      /\ Len(catalog') = Len(catalog) + 1 /\ DOMAIN catalog' = 1..Len(catalog) + 1
      /\ \A k \in 1..Len(catalog) : catalog'[k] = catalog[k]
      /\ catalog'[Len(catalog) + 1] = b
      /\ catalog' \in Seq(Backup)
  OBVIOUS
<1>2. Range(catalog') = Range(catalog) \cup {b}
  BY <1>1 DEF Range
<1>3. Newest(Retention)' \subseteq Newest(Retention) \cup {b}
  BY <1>1, BackupAssumption DEF Newest
<1>4. IsInjective(catalog) /\ b \notin Range(catalog) => IsInjective(catalog')
  BY <1>1 DEF IsInjective, Range
<1> QED  BY <1>1, <1>2, <1>3, <1>4

LEMMA RemoveNewest ==
  ASSUME catalog \in Seq(Backup), IsInjective(catalog), NEW i \in DOMAIN catalog,
         catalog[i] \notin Newest(Retention), catalog' = RemoveAt(catalog, i)
  PROVE  /\ catalog' \in Seq(Backup) /\ Range(catalog') \subseteq Range(catalog)
         /\ Newest(Retention)' = Newest(Retention) /\ IsInjective(catalog')
<1> DEFINE n == Len(catalog)
<1>1. n \in Nat /\ DOMAIN catalog = 1..n /\ i \in 1..n /\ \A k \in 1..n : catalog[k] \in Backup
  OBVIOUS
<1>2. catalog' = SubSeq(catalog, 1, i - 1) \o SubSeq(catalog, i + 1, n)
  BY DEF RemoveAt
<1>3. /\ SubSeq(catalog, 1, i - 1) \in Seq(Backup) /\ SubSeq(catalog, i + 1, n) \in Seq(Backup)
      /\ Len(SubSeq(catalog, 1, i - 1)) = i - 1 /\ Len(SubSeq(catalog, i + 1, n)) = n - i
      /\ \A k \in 1..i - 1 : SubSeq(catalog, 1, i - 1)[k] = catalog[k]
      /\ \A k \in 1..n - i : SubSeq(catalog, i + 1, n)[k] = catalog[i + k]
  <2>1. /\ \A k \in 1..i - 1 : catalog[k] \in Backup
        /\ \A k \in i + 1..n : catalog[k] \in Backup
        /\ 1 \in Int /\ i - 1 \in Int /\ i + 1 \in Int /\ n \in Int
    BY <1>1
  <2>2. /\ SubSeq(catalog, 1, i - 1) \in Seq(Backup)
        /\ Len(SubSeq(catalog, 1, i - 1)) = IF 1 <= i - 1 THEN i - 1 - 1 + 1 ELSE 0
        /\ \A k \in 1..i - 1 - 1 + 1 : SubSeq(catalog, 1, i - 1)[k] = catalog[1 + k - 1]
    BY <2>1, SubSeqProperties
  <2>3. /\ SubSeq(catalog, i + 1, n) \in Seq(Backup)
        /\ Len(SubSeq(catalog, i + 1, n)) = IF i + 1 <= n THEN n - (i + 1) + 1 ELSE 0
        /\ \A k \in 1..n - (i + 1) + 1 : SubSeq(catalog, i + 1, n)[k] = catalog[i + 1 + k - 1]
    BY <2>1, SubSeqProperties
  <2>4. /\ Len(SubSeq(catalog, 1, i - 1)) = i - 1 /\ Len(SubSeq(catalog, i + 1, n)) = n - i
    BY <1>1, <2>2, <2>3
  <2>5. ASSUME NEW k \in 1..i - 1 PROVE SubSeq(catalog, 1, i - 1)[k] = catalog[k]
    <3>1. k \in 1..i - 1 - 1 + 1 /\ 1 + k - 1 = k
      BY <1>1
    <3> QED  BY <2>2, <3>1
  <2>6. ASSUME NEW k \in 1..n - i PROVE SubSeq(catalog, i + 1, n)[k] = catalog[i + k]
    <3>1. k \in 1..n - (i + 1) + 1 /\ i + 1 + k - 1 = i + k
      BY <1>1
    <3> QED  BY <2>3, <3>1
  <2> QED  BY <2>2, <2>3, <2>4, <2>5, <2>6
<1>4. /\ catalog' \in Seq(Backup) /\ Len(catalog') = n - 1
      /\ \A k \in 1..n - 1 : catalog'[k] = IF k < i THEN catalog[k] ELSE catalog[k + 1]
  <2> DEFINE s == SubSeq(catalog, 1, i - 1)
             t == SubSeq(catalog, i + 1, n)
  <2>1. /\ s \o t \in Seq(Backup) /\ Len(s \o t) = Len(s) + Len(t)
        /\ \A k \in 1..Len(s) + Len(t) : (s \o t)[k] = IF k <= Len(s) THEN s[k] ELSE t[k - Len(s)]
    BY <1>3, ConcatProperties
  <2>2. catalog' = s \o t /\ Len(s) = i - 1 /\ Len(t) = n - i
    BY <1>2, <1>3
  <2>3. /\ \A k \in 1..i - 1 : s[k] = catalog[k]
        /\ \A k \in 1..n - i : t[k] = catalog[i + k]
    BY <1>3
  <2> HIDE DEF s, t
  <2>4. ASSUME NEW k \in 1..n - 1
        PROVE  catalog'[k] = IF k < i THEN catalog[k] ELSE catalog[k + 1]
    <3>1. k \in 1..Len(s) + Len(t) /\ (k <= Len(s) <=> k < i) /\ k - Len(s) = k - (i - 1)
      BY <1>1, <2>2
    <3>2. CASE k < i
      BY <1>1, <2>1, <2>2, <2>3, <3>1, <3>2
    <3>3. CASE ~(k < i)
      <4>1. k - (i - 1) \in 1..n - i /\ i + (k - (i - 1)) = k + 1
        BY <1>1, <3>3
      <4> QED  BY <2>1, <2>2, <2>3, <3>1, <3>3, <4>1
    <3> QED  BY <3>2, <3>3
  <2>5. Len(catalog') = n - 1
    <3>1. Len(catalog') = (i - 1) + (n - i)
      BY <2>1, <2>2
    <3>2. (i - 1) + (n - i) = n - 1
      BY <1>1
    <3> QED  BY <3>1, <3>2
  <2>6. catalog' \in Seq(Backup)
    BY <2>1, <2>2
  <2> QED  BY <2>4, <2>5, <2>6
<1>5. DOMAIN catalog' = 1..n - 1
  BY <1>4
<1>6. i <= n - Retention
  BY <1>1, BackupAssumption DEF Newest
<1>7. Range(catalog') \subseteq Range(catalog)
  BY <1>1, <1>4, <1>5 DEF Range
<1>8. Newest(Retention)' = Newest(Retention)
  <2>1. ASSUME NEW k \in 1..n - 1, k > n - 1 - Retention PROVE catalog'[k] \in Newest(Retention)
    <3>1. k + 1 \in 1..n /\ k + 1 > n - Retention /\ catalog'[k] = catalog[k + 1]
      BY <1>1, <1>4, <1>6, <2>1, BackupAssumption
    <3> QED  BY <1>1, <3>1 DEF Newest
  <2>2. ASSUME NEW k \in 1..n, k > n - Retention PROVE catalog[k] \in Newest(Retention)'
    <3>1. k - 1 \in 1..n - 1 /\ k - 1 > Len(catalog') - Retention /\ catalog'[k - 1] = catalog[k]
      BY <1>1, <1>4, <1>6, <2>2, BackupAssumption
    <3> QED  BY <1>5, <3>1 DEF Newest
  <2> QED  BY <1>1, <1>4, <1>5, <2>1, <2>2 DEF Newest
<1>9. IsInjective(catalog')
  <2> SUFFICES ASSUME NEW j \in 1..n - 1, NEW k \in 1..n - 1, catalog'[j] = catalog'[k]
               PROVE  j = k
    BY <1>5 DEF IsInjective
  <2> DEFINE old(x) == IF x < i THEN x ELSE x + 1
  <2>1. /\ old(j) \in 1..n /\ old(k) \in 1..n
        /\ catalog'[j] = catalog[old(j)] /\ catalog'[k] = catalog[old(k)]
    BY <1>1, <1>4
  <2>2. old(j) = old(k)
    BY <1>1, <2>1 DEF IsInjective
  <2> QED  BY <1>1, <2>2
<1> QED  BY <1>4, <1>7, <1>8, <1>9

\* The other steps of a run: what it dumped changes only when it is stored.
LEMMA BackupStartKeeps ==
  ASSUME RowsInv, DumpsTyped, DumpersTyped, RowsKnown, DumpsClosed, CatalogKept,
         NEW d \in Dumper, NEW b \in Backup, BackupStart(d, b)
  PROVE  DumpersTyped' /\ RowsKnown' /\ DumpsClosed' /\ CatalogKept'
<1>1. /\ dumper'[d] = [pc |-> "dump", backup |-> b, next |-> 1, rows |-> NoRows, stale |-> {}]
      /\ \A x \in Dumper \ {d} : dumper'[x] = dumper[x]
  BY DumpFields DEF Sets
<1>2. /\ dumper'[d].pc = "dump" /\ dumper'[d].backup = b /\ dumper'[d].next = 1
      /\ dumper'[d].rows = NoRows /\ dumper'[d].stale = {}
  BY <1>1
<1>3. /\ UNCHANGED <<instance, table, uploader, catalog, stored, content>>
      /\ torn' = torn \ {b} /\ ~Used(b)
  BY DEF BackupStart, tenantVars, fileVars
<1>4. /\ b \notin stored /\ b \notin Range(catalog)
      /\ \A x \in Dumper : dumper[x].backup # b /\ b \notin dumper[x].stale
  BY <1>3 DEF Used
<1>5. RowsOf(NoRows) = {}
  BY NoRowsTyped DEF RowsOf
<1>6. DumpersTyped'
  BY <1>1, <1>2, <1>3 DEF DumpersTyped, BackupModels
<1>7. RowsKnown'
  BY <1>1, <1>2, <1>3, <1>5 DEF RowsKnown, Known, Present
<1>8. CatalogKept'
  BY <1>1, <1>2, <1>3, <1>4 DEF CatalogKept, InFlight, Newest
<1>9. DumpsClosed'
  <2>1. TablesRead(d)' = {}
    BY <1>2, ParentsFirst DEF TablesRead
  <2>2. \A x \in Dumper \ {d} : TablesRead(x)' = TablesRead(x)
    BY <1>1 DEF TablesRead
  <2>3. Closed(NoRows)
    BY <1>5 DEF Closed
  <2>4. Present' = Present
    BY <1>3 DEF Present
  <2> QED  BY <1>1, <1>2, <1>3, <1>4, <1>5, <2>1, <2>2, <2>3, <2>4 DEF DumpsClosed
<1> QED  BY <1>6, <1>7, <1>8, <1>9

LEMMA BackupPutKeeps ==
  ASSUME RowsInv, DumpsTyped, DumpersTyped, RowsKnown, DumpsClosed, CatalogKept,
         NEW d \in Dumper, BackupPut(d)
  PROVE  DumpersTyped' /\ RowsKnown' /\ DumpsClosed' /\ CatalogKept'
<1>0. dumper[d].pc = "put"
  BY DEF BackupPut
<1>1. /\ dumper'[d] = [pc |-> "record", backup |-> dumper[d].backup, next |-> 0, rows |-> NoRows,
                       stale |-> dumper[d].stale]
      /\ \A x \in Dumper \ {d} : dumper'[x] = dumper[x]
  BY DumpFields DEF Sets
<1>2. /\ dumper'[d].pc = "record" /\ dumper'[d].backup = dumper[d].backup /\ dumper'[d].next = 0
      /\ dumper'[d].rows = NoRows /\ dumper'[d].stale = dumper[d].stale
  BY <1>1
<1>3. /\ UNCHANGED <<instance, table, uploader, catalog, torn>>
      /\ stored' = stored \cup {dumper[d].backup}
      /\ content' = [content EXCEPT ![dumper[d].backup] = dumper[d].rows]
  BY DEF BackupPut, tenantVars, fileVars
<1>4. dumper[d].backup \in Backup
  BY <1>0 DEF CatalogKept, InFlight
<1>5. /\ content'[dumper[d].backup] = dumper[d].rows
      /\ \A b \in Backup \ {dumper[d].backup} : content'[b] = content[b]
  BY <1>3, <1>4 DEF DumpsTyped
<1>6. RowsOf(NoRows) = {}
  BY NoRowsTyped DEF RowsOf
<1>7. DumpersTyped'
  BY <1>1, <1>2, <1>3, <1>4 DEF DumpersTyped, BackupModels
<1>8. RowsKnown'
  BY <1>1, <1>2, <1>3, <1>5, <1>6 DEF RowsKnown, Known, Present
<1>9. CatalogKept'
  BY <1>0, <1>1, <1>2, <1>3 DEF CatalogKept, InFlight, Newest
<1>10. DumpsClosed'
  <2>1. \A x \in Dumper \ {d} : TablesRead(x)' = TablesRead(x)
    BY <1>1 DEF TablesRead
  <2>2. Present' = Present
    BY <1>3 DEF Present
  <2> QED  BY <1>0, <1>1, <1>2, <1>3, <1>4, <1>5, <2>1, <2>2 DEF DumpsClosed, DumpersTyped
<1> QED  BY <1>7, <1>8, <1>9, <1>10

\* The steps after the dump is stored.
LEMMA AfterPutKeeps ==
  ASSUME RowsInv, DumpsTyped, DumpersTyped, RowsKnown, DumpsClosed, NEW d \in Dumper,
         UNCHANGED <<instance, table, uploader, torn>>, stored' \subseteq stored,
         \A b \in stored' : content'[b] = content[b],
         \A b \in Backup : content'[b] \in {content[b], NoRows},
         \A x \in Dumper \ {d} : dumper'[x] = dumper[x],
         dumper'[d].pc \in {"idle", "list", "prune", "delete"},
         dumper'[d].rows \in {dumper[d].rows, NoRows}
  PROVE  RowsKnown' /\ DumpsClosed'
<1>1. RowsOf(NoRows) = {}
  BY NoRowsTyped DEF RowsOf
<1>2. Present' = Present
  BY DEF Present
<1>3. RowsKnown'
  BY <1>1, <1>2 DEF RowsKnown, Known
<1>4. \A x \in Dumper \ {d} : TablesRead(x)' = TablesRead(x)
  BY DEF TablesRead
<1>5. DumpsClosed'
  BY <1>2, <1>4 DEF DumpsClosed, DumpersTyped
<1> QED  BY <1>3, <1>5

LEMMA BackupRecordKeeps ==
  ASSUME RowsInv, DumpsTyped, DumpersTyped, RowsKnown, DumpsClosed, CatalogKept,
         NEW d \in Dumper, BackupRecord(d)
  PROVE  DumpersTyped' /\ RowsKnown' /\ DumpsClosed' /\ CatalogKept'
<1> DEFINE b == dumper[d].backup
<1>0. dumper[d].pc = "record" /\ catalog' = Append(catalog, b)
  BY DEF BackupRecord
<1>1. /\ dumper'[d] = [pc |-> "list", backup |-> b, next |-> dumper[d].next,
                       rows |-> dumper[d].rows, stale |-> dumper[d].stale]
      /\ \A x \in Dumper \ {d} : dumper'[x] = dumper[x]
  BY DumpFields DEF Sets
<1>2. /\ dumper'[d].pc = "list" /\ dumper'[d].backup = b /\ dumper'[d].next = dumper[d].next
      /\ dumper'[d].rows = dumper[d].rows /\ dumper'[d].stale = dumper[d].stale
  BY <1>1
<1>3. UNCHANGED <<instance, table, uploader, stored, content, torn>>
  BY DEF BackupRecord, tenantVars, fileVars
<1>4. /\ b \in Backup \ Range(catalog) /\ b \in stored
      /\ \A x \in Dumper : b \notin dumper[x].stale
      /\ \A x \in Dumper \ {d} : InFlight(x) => dumper[x].backup # b
  BY <1>0 DEF CatalogKept, InFlight
<1> HIDE DEF b
<1>5. /\ catalog' \in Seq(Backup) /\ Range(catalog') = Range(catalog) \cup {b}
      /\ Newest(Retention)' \subseteq Newest(Retention) \cup {b}
      /\ IsInjective(catalog')
  BY <1>0, <1>4, AppendNewest DEF DumpersTyped, CatalogKept
<1>6. DumpersTyped'
  BY <1>1, <1>2, <1>3, <1>4, <1>5 DEF DumpersTyped
<1>7. RowsKnown' /\ DumpsClosed'
  BY <1>1, <1>2, <1>3, AfterPutKeeps DEF DumpersTyped
<1>8. CatalogKept'
  <2>1. \A x \in Dumper : InFlight(x)' =>
          x # d /\ InFlight(x) /\ dumper'[x] = dumper[x] /\ dumper[x].backup # b
    BY <1>1, <1>2, <1>4 DEF InFlight
  <2>2. \A x \in Dumper : dumper'[x].stale = dumper[x].stale
    BY <1>1, <1>2
  <2>3. \A x \in Dumper : dumper'[x].pc = "delete" => dumper'[x].backup \in dumper'[x].stale
    BY <1>1, <1>2 DEF CatalogKept
  <2>4. \A x \in Dumper : dumper'[x].stale \cap Newest(Retention)' = {}
    BY <1>4, <1>5, <2>2 DEF CatalogKept
  <2>5. Newest(Retention)' \subseteq stored'
    BY <1>3, <1>4, <1>5 DEF CatalogKept
  <2>6. \A x \in Dumper : InFlight(x)' =>
          /\ dumper'[x].backup \in Backup \ Range(catalog')
          /\ \A y \in Dumper : dumper'[x].backup \notin dumper'[y].stale
          /\ \A y \in Dumper \ {x} : InFlight(y)' => dumper'[y].backup # dumper'[x].backup
          /\ dumper'[x].pc = "record" => dumper'[x].backup \in stored'
    BY <1>3, <1>5, <2>1, <2>2 DEF CatalogKept
  <2> QED  BY <1>5, <2>3, <2>4, <2>5, <2>6 DEF CatalogKept
<1> QED  BY <1>6, <1>7, <1>8

LEMMA PruneListKeeps ==
  ASSUME RowsInv, DumpsTyped, DumpersTyped, RowsKnown, DumpsClosed, CatalogKept,
         NEW d \in Dumper, PruneList(d)
  PROVE  DumpersTyped' /\ RowsKnown' /\ DumpsClosed' /\ CatalogKept'
<1>1. /\ dumper'[d] = [pc |-> "prune", backup |-> dumper[d].backup, next |-> dumper[d].next,
                       rows |-> dumper[d].rows, stale |-> Range(catalog) \ Newest(Retention)]
      /\ \A x \in Dumper \ {d} : dumper'[x] = dumper[x]
  BY DumpFields DEF Sets
<1>2. /\ dumper'[d].pc = "prune" /\ dumper'[d].backup = dumper[d].backup
      /\ dumper'[d].next = dumper[d].next /\ dumper'[d].rows = dumper[d].rows
      /\ dumper'[d].stale = Range(catalog) \ Newest(Retention)
  BY <1>1
<1>3. UNCHANGED <<instance, table, uploader, catalog, stored, content, torn>>
  BY DEF PruneList, tenantVars, fileVars
<1>4. Range(catalog) \subseteq Backup
  BY DEF DumpersTyped, Range
<1>5. DumpersTyped'
  BY <1>1, <1>2, <1>3, <1>4 DEF DumpersTyped
<1>6. RowsKnown' /\ DumpsClosed'
  BY <1>1, <1>2, <1>3, AfterPutKeeps DEF DumpersTyped
<1>7. CatalogKept'
  <2>1. \A x \in Dumper : InFlight(x)' => x # d /\ InFlight(x) /\ dumper'[x] = dumper[x]
    BY <1>1, <1>2 DEF InFlight
  <2>2. Newest(Retention)' = Newest(Retention)
    BY <1>3 DEF Newest
  <2>3. \A x \in Dumper : dumper'[x].stale = dumper[x].stale \/ dumper'[x].stale = Range(catalog) \ Newest(Retention)
    BY <1>1, <1>2
  <2> QED  BY <1>1, <1>2, <1>3, <2>1, <2>2, <2>3 DEF CatalogKept
<1> QED  BY <1>5, <1>6, <1>7

LEMMA PruneObjectKeeps ==
  ASSUME RowsInv, DumpsTyped, DumpersTyped, RowsKnown, DumpsClosed, CatalogKept,
         NEW d \in Dumper, NEW b \in Backup, PruneObject(d, b)
  PROVE  DumpersTyped' /\ RowsKnown' /\ DumpsClosed' /\ CatalogKept'
<1>1. /\ dumper'[d] = [pc |-> "delete", backup |-> b, next |-> dumper[d].next,
                       rows |-> dumper[d].rows, stale |-> dumper[d].stale]
      /\ \A x \in Dumper \ {d} : dumper'[x] = dumper[x]
  BY DumpFields DEF Sets
<1>2. /\ dumper'[d].pc = "delete" /\ dumper'[d].backup = b
      /\ dumper'[d].next = dumper[d].next /\ dumper'[d].rows = dumper[d].rows
      /\ dumper'[d].stale = dumper[d].stale
  BY <1>1
<1>3. /\ UNCHANGED <<instance, table, uploader, catalog, torn>>
      /\ stored' = stored \ {b} /\ content' = [content EXCEPT ![b] = NoRows]
      /\ b \in dumper[d].stale
  BY DEF PruneObject, tenantVars, fileVars
<1>4. /\ content'[b] = NoRows /\ \A x \in Backup \ {b} : content'[x] = content[x]
  BY <1>3 DEF DumpsTyped
<1>5. DumpersTyped'
  BY <1>1, <1>2, <1>3 DEF DumpersTyped
<1>6. RowsKnown' /\ DumpsClosed'
  BY <1>1, <1>2, <1>3, <1>4, AfterPutKeeps DEF DumpersTyped
<1>7. CatalogKept'
  <2>1. \A x \in Dumper : InFlight(x)' => x # d /\ InFlight(x) /\ dumper'[x] = dumper[x]
    BY <1>1, <1>2 DEF InFlight
  <2>2. Newest(Retention)' = Newest(Retention) /\ b \notin Newest(Retention)
    BY <1>3 DEF Newest, CatalogKept
  <2>3. \A x \in Dumper : dumper'[x].stale = dumper[x].stale
    BY <1>1, <1>2
  <2> QED  BY <1>1, <1>2, <1>3, <2>1, <2>2, <2>3 DEF CatalogKept
<1> QED  BY <1>5, <1>6, <1>7

LEMMA PruneRowKeeps ==
  ASSUME RowsInv, DumpsTyped, DumpersTyped, RowsKnown, DumpsClosed, CatalogKept,
         NEW d \in Dumper, PruneRow(d)
  PROVE  DumpersTyped' /\ RowsKnown' /\ DumpsClosed' /\ CatalogKept'
<1>1. /\ dumper'[d] = [pc |-> "prune", backup |-> NoBackup, next |-> dumper[d].next,
                       rows |-> dumper[d].rows, stale |-> dumper[d].stale \ {dumper[d].backup}]
      /\ \A x \in Dumper \ {d} : dumper'[x] = dumper[x]
  BY DumpFields DEF Sets
<1>2. /\ dumper'[d].pc = "prune" /\ dumper'[d].backup = NoBackup
      /\ dumper'[d].next = dumper[d].next /\ dumper'[d].rows = dumper[d].rows
      /\ dumper'[d].stale = dumper[d].stale \ {dumper[d].backup}
  BY <1>1
<1>3. /\ UNCHANGED <<instance, table, uploader, stored, content, torn>>
      /\ dumper[d].pc = "delete"
  BY DEF PruneRow, tenantVars, fileVars
<1>4. PICK i \in DOMAIN catalog : catalog[i] = dumper[d].backup /\ catalog' = RemoveAt(catalog, i)
  BY DEF PruneRow
<1>5. catalog[i] \notin Newest(Retention)
  BY <1>3, <1>4 DEF CatalogKept
<1>6. /\ catalog' \in Seq(Backup) /\ Range(catalog') \subseteq Range(catalog)
      /\ Newest(Retention)' = Newest(Retention) /\ IsInjective(catalog')
  BY <1>4, <1>5, RemoveNewest DEF DumpersTyped, CatalogKept
<1>7. DumpersTyped'
  BY <1>1, <1>2, <1>3, <1>6 DEF DumpersTyped
<1>8. RowsKnown' /\ DumpsClosed'
  BY <1>1, <1>2, <1>3, AfterPutKeeps DEF DumpersTyped
<1>9. CatalogKept'
  <2>1. \A x \in Dumper : InFlight(x)' => x # d /\ InFlight(x) /\ dumper'[x] = dumper[x]
    BY <1>1, <1>2 DEF InFlight
  <2>2. \A x \in Dumper : dumper'[x].stale \subseteq dumper[x].stale
    BY <1>1, <1>2
  <2> QED  BY <1>1, <1>2, <1>3, <1>6, <2>1, <2>2 DEF CatalogKept
<1> QED  BY <1>7, <1>8, <1>9

LEMMA BackupEndsKeeps ==
  ASSUME RowsInv, DumpsTyped, DumpersTyped, RowsKnown, DumpsClosed, CatalogKept,
         NEW d \in Dumper, BackupEnds(d)
  PROVE  DumpersTyped' /\ RowsKnown' /\ DumpsClosed' /\ CatalogKept'
<1>1. /\ dumper'[d] = [pc |-> "idle", backup |-> NoBackup, next |-> 0, rows |-> NoRows, stale |-> {}]
      /\ \A x \in Dumper \ {d} : dumper'[x] = dumper[x]
  BY DumpFields DEF Sets
<1>2. /\ dumper'[d].pc = "idle" /\ dumper'[d].backup = NoBackup /\ dumper'[d].next = 0
      /\ dumper'[d].rows = NoRows /\ dumper'[d].stale = {}
  BY <1>1
<1>3. UNCHANGED <<instance, table, uploader, catalog, stored, content, torn>>
  BY DEF BackupEnds, tenantVars, fileVars
<1>4. DumpersTyped'
  BY <1>1, <1>2, <1>3 DEF DumpersTyped
<1>5. RowsKnown' /\ DumpsClosed'
  BY <1>1, <1>2, <1>3, AfterPutKeeps DEF DumpersTyped
<1>6. CatalogKept'
  <2>1. \A x \in Dumper : InFlight(x)' => x # d /\ InFlight(x) /\ dumper'[x] = dumper[x]
    BY <1>1, <1>2 DEF InFlight
  <2>2. \A x \in Dumper : dumper'[x].stale \subseteq dumper[x].stale
    BY <1>1, <1>2
  <2> QED  BY <1>1, <1>2, <1>3, <2>1, <2>2 DEF CatalogKept, Newest
<1> QED  BY <1>4, <1>5, <1>6

(***************************************************************************)
(* Rows, uploads and versions of reports                                   *)
(***************************************************************************)
\* What a step of the rows' own does to the rows that are there.
LEMMA TenantRows ==
  ASSUME RowsInv, TenantNext, overlapped \subseteq Row, Present \subseteq Known
  PROVE  /\ instance' = instance /\ overlapped' \subseteq Row /\ Present' \subseteq Known
         /\ \A e \in Row : KindOf[e] = "engagement" /\ e \in Present' => e \in Present
<1> DEFINE Goal == /\ instance' = instance /\ overlapped' \subseteq Row /\ Present' \subseteq Known
                   /\ \A e \in Row : KindOf[e] = "engagement" /\ e \in Present' => e \in Present
<1>1. ASSUME NEW rows \in SUBSET Row, NEW key, Put(rows, key), rows \subseteq Known,
             \A r \in rows : KindOf[r] # "engagement"
      PROVE  Goal
  <2>1. \A r \in Row \ rows : table'[r] = table[r]
    BY <1>1 DEF Put
  <2>2. Present' \subseteq Present \cup rows
    BY <2>1 DEF Present
  <2> QED  BY <1>1, <2>2 DEF Put, Present
<1>2. ASSUME NEW r \in Row, Removed(r) PROVE Goal
  <2>1. Present' \subseteq Present
    BY <1>2 DEF Removed, Present, Absent, RowsInv, TenantTyped
  <2> QED  BY <1>2, <2>1 DEF Removed
<1>3. ASSUME NEW r \in instance.initial \cup instance.later,
             \/ CreateTest(r) \/ CreateFinding(r) \/ CreateCheck(r) \/ CreateSession(r)
             \/ CreateUser(r) \/ RecordUsage(r) \/ PutCredential(r) \/ PutCloudCredential(r)
      PROVE  Goal
  <2>1. PICK key : Put({r}, key)
    BY <1>3 DEF CreateTest, CreateFinding, CreateCheck, CreateSession, CreateUser, RecordUsage,
       PutCredential, PutCloudCredential
  <2>2. KindOf[r] # "engagement"
    BY <1>3 DEF New, Stored, CreateTest, CreateFinding, CreateCheck, CreateSession, CreateUser,
       RecordUsage, PutCredential, PutCloudCredential
  <2>3. r \in Row /\ {r} \subseteq Known
    BY TenantAssumption DEF RowsInv, TenantTyped, Known
  <2> HIDE DEF Goal
  <2> QED  BY <1>1, <2>1, <2>2, <2>3
<1>4. ASSUME NEW r \in instance.initial \cup instance.later,
             RemoveUser(r) \/ RemoveCredential(r) \/ RemoveCloudCredential(r) \/ ReplaceDocument(r)
      PROVE  Goal
  <2>1. r \in Row /\ Removed(r)
    BY <1>4, TenantAssumption DEF RowsInv, TenantTyped, RemoveUser, RemoveCredential,
       RemoveCloudCredential, ReplaceDocument
  <2> HIDE DEF Goal
  <2> QED  BY <1>2, <2>1
<1>5. ASSUME NEW e, SeedChecks(e) PROVE Goal
  <2> DEFINE rows == {r \in Row : New(r, "check") /\ ParentOf[r] = e}
  <2>1. rows \in SUBSET Row /\ Put(rows, Plain) /\ rows \subseteq Known
        /\ \A r \in rows : KindOf[r] # "engagement"
    BY <1>5 DEF SeedChecks, New, Known
  <2> HIDE DEF Goal, rows
  <2> QED  BY <1>1, <2>1
<1>6. ASSUME /\ UNCHANGED instance /\ overlapped' \subseteq Row
             /\ \A q \in Row : table'[q].status = table[q].status
      PROVE  Goal
  BY <1>6 DEF Present
<1> HIDE DEF Goal
<1>7. ASSUME NEW k \in TenantKey, AssignKey(k) PROVE Goal
  <2>1. \A q \in Row : table'[q].status = table[q].status
    BY <1>7, ClientIs DEF AssignKey, RowsInv, TenantTyped, RowValue
  <2> QED  BY <1>6, <1>7, <2>1 DEF AssignKey
<1>8. ASSUME NEW e \in Editor, EditWrite(e) PROVE Goal
  <2>1. editor[e].row \in Row
    BY <1>8 DEF EditWrite, Present
  <2>2. \A q \in Row : table'[q].status = table[q].status
    BY <1>8, <2>1 DEF EditWrite, RowsInv, TenantTyped, RowValue
  <2>3. overlapped' \subseteq Row /\ UNCHANGED instance
    BY <1>8, <2>1 DEF EditWrite
  <2> QED  BY <1>6, <2>2, <2>3
<1>9. ASSUME NEW s \in Sweeper, NEW r \in Row, SweepWrite(s, r) PROVE Goal
  <2>1. \A q \in Row : table'[q].status = table[q].status
    BY <1>9 DEF SweepWrite, RowsInv, TenantTyped, RowValue
  <2> QED  BY <1>6, <1>9, <2>1 DEF SweepWrite
<1>10. ASSUME \/ Redeploy
              \/ \E e \in Editor : EditEnds(e) \/ \E r \in Row : EditRead(e, r)
              \/ \E s \in Sweeper : SweepEnds(s) \/ \E r \in Row : SweepSkip(s, r)
              \/ \E s \in Sweeper, batch \in SUBSET Swept : SweepRead(s, batch)
       PROVE  Goal
  <2>1. UNCHANGED <<instance, table, overlapped>>
    BY <1>10 DEF Redeploy, EditEnds, EditRead, SweepEnds, SweepSkip, SweepRead
  <2> QED  BY <1>6, <2>1
<1>11. Goal
  BY <1>3, <1>4, <1>5, <1>7, <1>8, <1>9, <1>10 DEF TenantNext
<1> QED  BY <1>11 DEF Goal

\* A series is of an engagement.
LEMMA SeriesIs ==
  \A e \in Series : e[1] \in Row /\ KindOf[e[1]] = "engagement"
BY ParentKinds DEF Series, SeriesOf

\* A step that makes no report and counts none leaves the counting as it was.
LEMMA EditionsRest ==
  ASSUME RowsInv, EditionsTyped, EditionsCounted, instance' = instance,
         restored' = restored \/ restored' = restored + 1,
         \A e \in Row : KindOf[e] = "engagement" /\ e \in Present' => e \in Present,
         \A e \in Series :
           Reports(e)' = Reports(e) \/ (Reports(e)' = {} /\ e[1] \notin Present') \/ restored' # restored,
         \A r \in FileRows : KindOf[r] = "report" => edition'[r] = edition[r],
         \A u \in Uploader : uploader'[u].pc = "row" /\ KindOf[uploader'[u].row] = "report"
                               => uploader'[u] = uploader[u],
         \A u \in Uploader : uploader'[u].pc = "row" => uploader'[u].row \in FileRows
  PROVE  EditionsCounted'
<1>0. SUFFICES ASSUME restored' = 0, NEW e \in Series
               PROVE  /\ \A r \in Reports(e)' : edition'[r] \in 1..Cardinality(Reports(e)')
                      /\ e[1] \in Present' => \A u \in Uploader :
                           u \in Counted(e, uploader[u].count)' => uploader'[u].count <= Cardinality(Reports(e)')
                      /\ \A n \in 0..Cardinality(Row) :
                           Cardinality(ReportsAt(e, n + 1)') + Cardinality(Counted(e, n)')
                             <= Cardinality(instance.uploaders)
  BY DEF EditionsCounted
<1>1. restored = 0 /\ restored' = restored
  BY <1>0 DEF EditionsTyped
<1>2. /\ Reports(e) \subseteq FileRows /\ FileRows \subseteq Row
      /\ \A r \in Reports(e) : KindOf[r] = "report"
      /\ \A n : ReportsAt(e, n) \subseteq Reports(e)
  BY DEF Reports, Files, FileRows, ReportsAt
<1>3. \A n : Counted(e, n)' \subseteq Counted(e, n)
  BY DEF Counted
<1>4. /\ IsFiniteSet(Reports(e)) /\ \A n : IsFiniteSet(ReportsAt(e, n))
      /\ \A n : Cardinality(ReportsAt(e, n)) \in Nat
  BY <1>2, TenantAssumption, FS_Subset, FS_CardinalityType
<1>5. IsFiniteSet(instance.uploaders) /\ Cardinality(instance.uploaders) \in Nat
  BY FilesAssumption, FS_CardinalityType DEF RowsInv, TenantTyped
<1>6. \A n : /\ Counted(e, n) \subseteq instance.uploaders
             /\ IsFiniteSet(Counted(e, n)) /\ Cardinality(Counted(e, n)) \in Nat
             /\ Cardinality(Counted(e, n)') <= Cardinality(Counted(e, n))
             /\ Cardinality(Counted(e, n)') \in Nat
  <2> TAKE n
  <2>1. Counted(e, n) \subseteq instance.uploaders
    BY DEF Counted, EditionsTyped
  <2> QED  BY <1>3, <1>5, <2>1, FS_Subset, FS_CardinalityType
<1>8. CASE Reports(e)' = {} /\ e[1] \notin Present'
  <2>1. \A n : ReportsAt(e, n)' = {}
    BY <1>8 DEF ReportsAt
  <2>2. \A n : Cardinality(Counted(e, n)') <= Cardinality(instance.uploaders)
    BY <1>3, <1>5, <1>6, FS_Subset
  <2> QED  BY <1>5, <1>6, <1>8, <2>1, <2>2, FS_EmptySet
<1>9. CASE Reports(e)' = Reports(e)
  <2>1. \A n : ReportsAt(e, n)' = ReportsAt(e, n)
    BY <1>2, <1>9 DEF ReportsAt
  <2>2. \A r \in Reports(e)' : edition'[r] \in 1..Cardinality(Reports(e)')
    BY <1>1, <1>2, <1>9 DEF EditionsCounted
  <2>3. ASSUME e[1] \in Present', NEW u \in Uploader, u \in Counted(e, uploader[u].count)'
        PROVE  uploader'[u].count <= Cardinality(Reports(e)')
    <3>1. e[1] \in Present /\ uploader'[u] = uploader[u] /\ u \in Counted(e, uploader[u].count)
      BY <1>3, <1>9, <2>3, SeriesIs DEF Counted
    <3> QED  BY <1>1, <1>9, <3>1 DEF EditionsCounted
  <2>4. ASSUME NEW n \in 0..Cardinality(Row)
        PROVE  Cardinality(ReportsAt(e, n + 1)') + Cardinality(Counted(e, n)')
                 <= Cardinality(instance.uploaders)
    <3>1. Cardinality(ReportsAt(e, n + 1)) + Cardinality(Counted(e, n)) <= Cardinality(instance.uploaders)
      BY <1>1 DEF EditionsCounted
    <3> QED  BY <1>4, <1>5, <1>6, <2>1, <3>1
  <2> QED  BY <2>2, <2>3, <2>4
<1> QED  BY <1>1, <1>8, <1>9

\* Files are stored, checked and read, uploads begin, move on and end: no row
\* is made and no report counted.
LEMMA FilesMove ==
  ASSUME RowsInv, FilesTyped, RowsKnown, EditionsTyped, EditionsCounted,
         UNCHANGED <<instance, overlapped, edition, restored, dumper, content>>, crashes' \in Nat,
         Present' = Present,
         \A u \in Uploader : \/ uploader'[u] = uploader[u]
                             \/ /\ uploader'[u].pc # "idle" => uploader'[u].row \in Known /\ u \in instance.uploaders
                                /\ uploader'[u].count \in 0..Cardinality(Row)
                                /\ uploader'[u].pc = "row" => /\ uploader'[u].row \in FileRows
                                                              /\ KindOf[uploader'[u].row] # "report"
  PROVE  RowsKnown' /\ EditionsTyped' /\ EditionsCounted'
<1>1. RowsKnown'
  BY DEF RowsKnown, Known
<1>2. EditionsTyped'
  BY DEF EditionsTyped
<1>3. \A e \in Series : Reports(e)' = Reports(e)
  BY DEF Reports, Files
<1>4. \A u \in Uploader : /\ uploader[u].pc = "row" => uploader[u].row \in Known
                          /\ uploader[u].row \in FileRows \cup {NoRow}
  BY DEF RowsKnown, FilesTyped, UploadState
<1>5. Known \subseteq Row /\ NoRow \notin Row
  BY TenantAssumption DEF Known, RowsInv, TenantTyped
<1>6. \A u \in Uploader : uploader'[u].pc = "row" => uploader'[u].row \in FileRows
  BY <1>4, <1>5
<1>7. EditionsCounted'
  BY <1>3, <1>6, EditionsRest
<1> QED  BY <1>1, <1>2, <1>7


\* An upload begins, moves on or ends.
LEMMA UploadsCounted ==
  ASSUME RowsInv, FilesInv, RowsKnown, EditionsTyped, EditionsCounted, NEW u \in Uploader,
         \/ \E r \in FileRows, kind \in {"evidence", "report", "document"} : Begin(u, r, kind)
         \/ UploadPut(u) \/ UploadClaim(u) \/ UploadDone(u) \/ UploadFails(u) \/ ReportDone(u)
         \/ DocumentDone(u),
         UNCHANGED <<dumper, content, restored>>
  PROVE  RowsKnown' /\ EditionsTyped' /\ EditionsCounted'
<1>0. uploader \in [Uploader -> UploadState] /\ FilesTyped
  BY DEF FilesInv, FilesTyped
<1> DEFINE Others1 == /\ \A v \in Uploader \ {u} : uploader'[v] = uploader[v]
                      /\ UNCHANGED <<tenantVars, edition, crashes>>
           Moved == /\ uploader'[u].pc # "idle" => uploader'[u].row \in Known /\ u \in instance.uploaders
                    /\ uploader'[u].count \in 0..Cardinality(Row)
                    /\ uploader'[u].pc = "row" => /\ uploader'[u].row \in FileRows
                                                  /\ KindOf[uploader'[u].row] # "report"
<1>1. Cardinality(Row) \in Nat
  BY TenantAssumption, FS_CardinalityType
<1>2. ASSUME \E r \in FileRows, kind \in {"evidence", "report", "document"} : Begin(u, r, kind)
      PROVE  Others1 /\ Moved
  <2>1. Others1
    BY <1>0, <1>2 DEF Begin
  <2>2. PICK r \in instance.later : uploader' = [uploader EXCEPT ![u] = [pc |-> "put", row |-> r, key |-> Wrapping, count |-> 0]]
    BY <1>2 DEF Begin, New
  <2>3. uploader'[u].pc = "put" /\ uploader'[u].row = r /\ uploader'[u].count = 0
    BY <1>0, <2>2
  <2>4. r \in Known /\ u \in instance.uploaders
    BY <1>2 DEF Begin, Known
  <2>5. Moved
    BY <1>1, <2>3, <2>4
  <2> QED  BY <2>1, <2>5
<1>3. ASSUME UploadPut(u) \/ UploadClaim(u) PROVE Others1 /\ Moved
  <2>1. Others1
    BY <1>0, <1>3 DEF UploadPut, UploadClaim
  <2>2. /\ uploader[u].pc = "put" /\ uploader'[u].row = uploader[u].row
        /\ uploader'[u].count = uploader[u].count
        /\ uploader'[u].pc = "row" => KindOf[uploader[u].row] # "report"
    BY <1>0, <1>3 DEF UploadPut, UploadClaim, UploadState
  <2>3. uploader[u].row \in FileRows /\ uploader[u].row \in Known /\ u \in instance.uploaders
    BY <2>2 DEF FilesInv, UploadsOwn, RowsKnown, EditionsTyped
  <2>4. uploader[u].count \in 0..Cardinality(Row)
    BY DEF EditionsTyped
  <2>5. Moved
    BY <2>2, <2>3, <2>4
  <2> QED  BY <2>1, <2>5
<1>4. ASSUME UploadDone(u) \/ ReportDone(u) \/ DocumentDone(u) \/ UploadFails(u)
      PROVE  Others1 /\ Moved
  <2>1. uploader' = [uploader EXCEPT ![u] = IdleUpload] /\ UNCHANGED <<tenantVars, edition, crashes>>
    BY <1>4 DEF UploadDone, ReportDone, DocumentDone, Answer, UploadFails
  <2>2. uploader'[u].pc = "idle" /\ uploader'[u].count = 0
    BY <1>0, <2>1 DEF IdleUpload
  <2>3. Moved
    BY <1>1, <2>2
  <2>4. Others1
    BY <1>0, <2>1
  <2> QED  BY <2>3, <2>4
<1>5. Others1 /\ Moved
  <2> HIDE DEF Others1, Moved
  <2> QED  BY <1>2, <1>3, <1>4
<1>6. \A v \in Uploader : \/ uploader'[v] = uploader[v]
                          \/ v = u /\ Moved
  BY <1>5
<1>7. Present' = Present /\ crashes' \in Nat /\ UNCHANGED <<instance, overlapped, edition>>
  BY <1>5 DEF tenantVars, Present, EditionsTyped
<1> QED  BY <1>0, <1>6, <1>7, FilesMove

\* The reports of the engagement are counted: none has the next version yet.
LEMMA ReportCountCounted ==
  ASSUME RowsInv, FilesInv, RowsKnown, EditionsTyped, EditionsCounted, NEW u \in Uploader,
         ReportCount(u), UNCHANGED <<dumper, content, restored>>
  PROVE  RowsKnown' /\ EditionsTyped' /\ EditionsCounted'
<1> DEFINE r == uploader[u].row
           c == Cardinality(Siblings(r))
<1>0. /\ uploader \in [Uploader -> UploadState] /\ uploader[u].pc = "count"
      /\ uploader' = [uploader EXCEPT ![u] = [@ EXCEPT !.pc = "row", !.count = c]]
      /\ UNCHANGED <<tenantVars, edition, crashes>>
  BY DEF FilesInv, FilesTyped, ReportCount
<1>1. /\ \A v \in Uploader \ {u} : uploader'[v] = uploader[v]
      /\ uploader'[u].pc = "row" /\ uploader'[u].row = r /\ uploader'[u].count = c
  BY <1>0 DEF UploadState
<1>2. /\ Present' = Present /\ Files' = Files /\ UNCHANGED <<instance, overlapped, table>>
      /\ \A e : Reports(e)' = Reports(e) /\ \A n : ReportsAt(e, n)' = ReportsAt(e, n)
  BY <1>0 DEF tenantVars, Present, Files, Reports, ReportsAt
<1>3. /\ r \in FileRows /\ r \in Known /\ u \in instance.uploaders /\ r \notin Present
  BY <1>0 DEF FilesInv, UploadsOwn, Unseen, RowsKnown, EditionsTyped
<1>4. /\ Siblings(r) \subseteq Row \ {r} /\ IsFiniteSet(Row) /\ r \in Row
      /\ KindOf[r] = "report" => Siblings(r) = Reports(SeriesOf(r))
  BY <1>3, TenantAssumption DEF Siblings, Files, FileRows, Reports, SeriesOf
<1> HIDE DEF r, c
<1>5. c \in 0..Cardinality(Row) /\ c < Cardinality(Row)
  <2>1. IsFiniteSet(Row \ {r}) /\ Cardinality(Row \ {r}) = Cardinality(Row) - 1 /\ Cardinality(Row) \in Nat
    BY <1>4, FS_RemoveElement, FS_CardinalityType
  <2>2. c <= Cardinality(Row \ {r}) /\ c \in Nat
    BY <1>4, <2>1, FS_Subset, FS_CardinalityType DEF c
  <2> QED  BY <2>1, <2>2
<1>6. RowsKnown'
  BY <1>1, <1>2, <1>3 DEF RowsKnown, Known
<1>7. EditionsTyped'
  BY <1>0, <1>1, <1>2, <1>3, <1>5 DEF EditionsTyped
<1>8. ASSUME restored = 0, NEW e \in Series
      PROVE  /\ e[1] \in Present => \A v \in Uploader :
                  v \in Counted(e, uploader[v].count)' => uploader'[v].count <= Cardinality(Reports(e))
             /\ \A n \in 0..Cardinality(Row) :
                  Cardinality(ReportsAt(e, n + 1)) + Cardinality(Counted(e, n)')
                    <= Cardinality(instance.uploaders)
  <2>1. \A v \in Uploader \ {u} : \A n : v \in Counted(e, n)' <=> v \in Counted(e, n)
    BY <1>1 DEF Counted
  <2>2. \A n : u \in Counted(e, n)' <=> KindOf[r] = "report" /\ SeriesOf(r) = e /\ n = c
    BY <1>1 DEF Counted
  <2>3. \A n : u \notin Counted(e, n)
    BY <1>0 DEF Counted
  <2>4. \A n : Counted(e, n) \subseteq Uploader /\ Counted(e, n)' \subseteq Uploader
    BY DEF Counted
  <2>5. ASSUME e[1] \in Present, NEW v \in Uploader, v \in Counted(e, uploader[v].count)'
        PROVE  uploader'[v].count <= Cardinality(Reports(e))
    <3>1. CASE v = u
      <4>1. KindOf[r] = "report" /\ SeriesOf(r) = e /\ uploader'[v].count = c
        BY <1>1, <2>2, <2>5, <3>1
      <4>2. c = Cardinality(Reports(e)) /\ c \in Nat
        BY <1>4, <1>5, <4>1 DEF c
      <4> QED  BY <4>1, <4>2
    <3>2. CASE v # u
      <4>1. uploader'[v] = uploader[v] /\ v \in Counted(e, uploader[v].count)
        BY <1>1, <2>1, <2>5, <3>2
      <4> QED  BY <1>8, <2>5, <4>1 DEF EditionsCounted
    <3> QED  BY <3>1, <3>2
  <2>6. ASSUME NEW n \in 0..Cardinality(Row)
        PROVE  Cardinality(ReportsAt(e, n + 1)) + Cardinality(Counted(e, n)')
                 <= Cardinality(instance.uploaders)
    <3>1. CASE ~(KindOf[r] = "report" /\ SeriesOf(r) = e /\ n = c)
      <4>1. Counted(e, n)' = Counted(e, n)
        BY <2>1, <2>2, <2>3, <2>4, <3>1
      <4> QED  BY <1>8, <4>1 DEF EditionsCounted
    <3>2. CASE KindOf[r] = "report" /\ SeriesOf(r) = e /\ n = c
      <4>1. c = Cardinality(Reports(e))
        BY <1>4, <3>2 DEF c
      <4>2. ReportsAt(e, n + 1) = {}
        <5>1. \A q \in Reports(e) : edition[q] \in 1..Cardinality(Reports(e))
          BY <1>8 DEF EditionsCounted
        <5>2. \A q \in Reports(e) : edition[q] # n + 1
          BY <1>5, <3>2, <4>1, <5>1
        <5> QED  BY <5>2 DEF ReportsAt
      <4>3. Counted(e, n)' \subseteq instance.uploaders
        BY <1>2, <1>7 DEF Counted, EditionsTyped
      <4>4. IsFiniteSet(instance.uploaders)
        BY FilesAssumption DEF RowsInv, TenantTyped
      <4>5. Cardinality(Counted(e, n)') <= Cardinality(instance.uploaders)
            /\ Cardinality(Counted(e, n)') \in Nat
        BY <4>3, <4>4, FS_Subset, FS_CardinalityType
      <4> QED  BY <4>2, <4>5, FS_EmptySet
    <3> QED  BY <3>1, <3>2
  <2> QED  BY <2>5, <2>6
<1>9. EditionsCounted'
  <2>1. ASSUME restored' = 0, NEW e \in Series
        PROVE  /\ \A q \in Reports(e)' : edition'[q] \in 1..Cardinality(Reports(e)')
               /\ e[1] \in Present' => \A v \in Uploader :
                    v \in Counted(e, uploader[v].count)' => uploader'[v].count <= Cardinality(Reports(e)')
               /\ \A n \in 0..Cardinality(Row) :
                    Cardinality(ReportsAt(e, n + 1)') + Cardinality(Counted(e, n)')
                      <= Cardinality(instance'.uploaders)
    <3>1. \A q \in Reports(e) : edition[q] \in 1..Cardinality(Reports(e))
      BY <2>1 DEF EditionsCounted
    <3> QED  BY <1>0, <1>2, <1>8, <2>1, <3>1
  <2> QED  BY <2>1 DEF EditionsCounted
<1> QED  BY <1>6, <1>7, <1>9

\* The facts of a new row of evidence or of a report.
LEMMA NewRowIs ==
  ASSUME RowsInv, FilesInv, RowsKnown, EditionsTyped, NEW u \in Uploader,
         NEW status \in {"PENDING", "present"}, NEW number, NewRow(u, status, number),
         uploader[u].pc = "row"
  PROVE  LET r == uploader[u].row
         IN  /\ r \in FileRows /\ r \in Row /\ r \in Known /\ r \notin Present /\ ParentOf[r] \in Present
             /\ u \in instance.uploaders
             /\ Present' = Present \cup {r} /\ Files' = Files \cup {r}
             /\ UNCHANGED <<instance, overlapped, crashes>>
             /\ \A v \in Uploader \ {u} : uploader'[v] = uploader[v]
             /\ uploader'[u].pc = "audit" /\ uploader'[u].row = r
             /\ uploader'[u].count = uploader[u].count
             /\ \A q \in FileRows \ {r} : edition'[q] = edition[q]
             /\ edition'[r] = number /\ edition' = [edition EXCEPT ![r] = number]
<1> DEFINE r == uploader[u].row
<1>1. r \in FileRows /\ r \in Row /\ r \in Known /\ r \notin Present /\ u \in instance.uploaders
  BY DEF FilesInv, UploadsOwn, Unseen, RowsKnown, EditionsTyped, FileRows
<1>2. /\ table' = [table EXCEPT ![r] = [Absent EXCEPT !.status = status, !.key = uploader[u].key]]
      /\ ParentOf[r] \in Present /\ UNCHANGED <<instance, overlapped, crashes>>
      /\ edition' = [edition EXCEPT ![r] = number]
      /\ uploader' = [uploader EXCEPT ![u].pc = "audit"]
  BY DEF NewRow
<1>3. /\ \A v \in Uploader \ {u} : uploader'[v] = uploader[v]
      /\ uploader'[u].pc = "audit" /\ uploader'[u].row = r /\ uploader'[u].count = uploader[u].count
  BY <1>2 DEF FilesInv, FilesTyped, UploadState
<1>4. table \in [Row -> RowValue] /\ edition \in [FileRows -> 0..Cardinality(Row)]
  BY DEF RowsInv, TenantTyped, EditionsTyped
<1> HIDE DEF r
<1>5. /\ \A q \in FileRows \ {r} : edition'[q] = edition[q]
      /\ edition'[r] = number
  BY <1>1, <1>2, <1>4
<1>6. /\ \A q \in Row \ {r} : table'[q] = table[q]
      /\ table'[r].status = status
  BY <1>1, <1>2, <1>4 DEF Absent
<1>7. Present' = Present \cup {r}
  BY <1>1, <1>6 DEF Present
<1>8. Files' = Files \cup {r}
  BY <1>1, <1>7 DEF Files
<1>9. /\ r \in FileRows /\ r \in Row /\ r \in Known /\ r \notin Present /\ ParentOf[r] \in Present
      /\ u \in instance.uploaders
      /\ Present' = Present \cup {r} /\ Files' = Files \cup {r}
      /\ UNCHANGED <<instance, overlapped, crashes>>
      /\ \A v \in Uploader \ {u} : uploader'[v] = uploader[v]
      /\ uploader'[u].pc = "audit" /\ uploader'[u].row = r
      /\ uploader'[u].count = uploader[u].count
      /\ \A q \in FileRows \ {r} : edition'[q] = edition[q]
      /\ edition'[r] = number /\ edition' = [edition EXCEPT ![r] = number]
  BY <1>1, <1>2, <1>3, <1>5, <1>7, <1>8
<1> QED  BY <1>9 DEF r

\* A row of evidence or of a document is made: it has no version.
LEMMA UploadRowCounted ==
  ASSUME RowsInv, FilesInv, RowsKnown, EditionsTyped, EditionsCounted, NEW u \in Uploader,
         UploadRow(u) \/ DocumentRow(u), UNCHANGED <<dumper, content, restored>>
  PROVE  RowsKnown' /\ EditionsTyped' /\ EditionsCounted'
<1> DEFINE r == uploader[u].row
<1>0. PICK status \in {"PENDING", "present"} :
        uploader[u].pc = "row" /\ KindOf[r] # "report" /\ NewRow(u, status, 0)
  BY DEF UploadRow, DocumentRow
<1>1. /\ r \in FileRows /\ r \in Row /\ r \in Known /\ u \in instance.uploaders
      /\ Present' = Present \cup {r} /\ Files' = Files \cup {r}
      /\ UNCHANGED <<instance, overlapped, crashes>>
      /\ \A v \in Uploader \ {u} : uploader'[v] = uploader[v]
      /\ uploader'[u].pc = "audit" /\ uploader'[u].row = r /\ uploader'[u].count = uploader[u].count
      /\ \A q \in FileRows \ {r} : edition'[q] = edition[q]
      /\ edition' = [edition EXCEPT ![r] = 0]
  BY <1>0, NewRowIs
<1> HIDE DEF r
<1>2. RowsKnown'
  BY <1>1 DEF RowsKnown, Known
<1>3. EditionsTyped'
  <2>1. Cardinality(Row) \in Nat
    BY TenantAssumption, FS_CardinalityType
  <2> QED  BY <1>1, <2>1 DEF EditionsTyped
<1>4. \A e \in Series : Reports(e)' = Reports(e)
  BY <1>0, <1>1 DEF Reports
<1>5. \A v \in Uploader : uploader'[v].pc = "row" => uploader'[v] = uploader[v] /\ uploader'[v].row \in FileRows
  BY <1>1 DEF FilesInv, UploadsOwn
<1>6. /\ \A e \in Row : KindOf[e] = "engagement" /\ e \in Present' => e \in Present
      /\ \A q \in FileRows : KindOf[q] = "report" => edition'[q] = edition[q]
  BY <1>0, <1>1 DEF FileRows
<1>7. EditionsCounted'
  BY <1>1, <1>4, <1>5, <1>6, EditionsRest
<1> QED  BY <1>2, <1>3, <1>7

\* A report gets the version after its count.
LEMMA ReportRowCounted ==
  ASSUME RowsInv, FilesInv, RowsKnown, EditionsTyped, EditionsCounted, NEW u \in Uploader,
         ReportRow(u), UNCHANGED <<dumper, content, restored>>
  PROVE  RowsKnown' /\ EditionsTyped' /\ EditionsCounted'
<1> DEFINE r == uploader[u].row
           c == uploader[u].count
           at == SeriesOf(r)
<1>0. uploader[u].pc = "row" /\ KindOf[r] = "report" /\ NewRow(u, "present", c + 1)
  BY DEF ReportRow
<1>1. /\ r \in FileRows /\ r \in Row /\ r \in Known /\ r \notin Present /\ at[1] \in Present
      /\ u \in instance.uploaders
      /\ Present' = Present \cup {r} /\ Files' = Files \cup {r}
      /\ UNCHANGED <<instance, overlapped, crashes>>
      /\ \A v \in Uploader \ {u} : uploader'[v] = uploader[v]
      /\ uploader'[u].pc = "audit" /\ uploader'[u].row = r /\ uploader'[u].count = c
      /\ \A q \in FileRows \ {r} : edition'[q] = edition[q]
      /\ edition'[r] = c + 1 /\ edition' = [edition EXCEPT ![r] = c + 1]
  BY <1>0, NewRowIs DEF SeriesOf
<1>2. c \in 0..Cardinality(Row) /\ c < Cardinality(Row) /\ Cardinality(Row) \in Nat
  BY <1>0, TenantAssumption, FS_CardinalityType DEF EditionsTyped
<1>3. \A n : u \in Counted(at, n) <=> n = c
  BY <1>0 DEF Counted
<1>a. KindOf[r] = "report" /\ at \in Series
  BY <1>0, <1>1 DEF Series
<1>b. IsFiniteSet(instance.uploaders) /\ \A e, n : Counted(e, n) \subseteq instance.uploaders
  BY FilesAssumption DEF Counted, EditionsTyped, RowsInv, TenantTyped
<1> HIDE DEF c, at
<1>4. RowsKnown'
  BY <1>1 DEF RowsKnown, Known
<1>5. EditionsTyped'
  BY <1>1, <1>2 DEF EditionsTyped
<1>6. ASSUME restored = 0, NEW e \in Series
      PROVE  /\ \A q \in Reports(e)' : edition'[q] \in 1..Cardinality(Reports(e)')
             /\ e[1] \in Present' => \A v \in Uploader :
                  v \in Counted(e, uploader[v].count)' => uploader'[v].count <= Cardinality(Reports(e)')
             /\ \A n \in 0..Cardinality(Row) :
                  Cardinality(ReportsAt(e, n + 1)') + Cardinality(Counted(e, n)')
                    <= Cardinality(instance.uploaders)
  <2>0. /\ Reports(e) \subseteq FileRows \ {r} /\ IsFiniteSet(Reports(e))
        /\ Cardinality(Reports(e)) \in Nat
    <3>1. Reports(e) \subseteq FileRows \ {r} /\ Reports(e) \subseteq Row
      BY <1>1 DEF Reports, Files, FileRows
    <3> QED  BY <3>1, TenantAssumption, FS_Subset, FS_CardinalityType
  <2>1. /\ Reports(e)' = IF e = at THEN Reports(e) \cup {r} ELSE Reports(e)
        /\ Cardinality(Reports(e)') = IF e = at THEN Cardinality(Reports(e)) + 1 ELSE Cardinality(Reports(e))
    <3>1. Reports(e)' = IF e = at THEN Reports(e) \cup {r} ELSE Reports(e)
      BY <1>1, <1>a DEF Reports, at
    <3> QED  BY <2>0, <3>1, FS_AddElement
  <2>2. \A v \in Uploader \ {u} : v \in Counted(e, uploader[v].count)' => v \in Counted(e, uploader[v].count)
    BY <1>1 DEF Counted
  <2>3. u \notin Counted(e, uploader[u].count)'
    BY <1>1 DEF Counted
  <2>5. ASSUME NEW q \in Reports(e)' PROVE edition'[q] \in 1..Cardinality(Reports(e)')
    <3>1. CASE q = r
      <4>1. e = at
        BY <2>0, <2>1, <3>1
      <4>2. c <= Cardinality(Reports(e))
        BY <1>1, <1>3, <1>6, <4>1 DEF EditionsCounted, c
      <4> QED  BY <1>1, <1>2, <2>0, <2>1, <3>1, <4>1, <4>2
    <3>2. CASE q # r
      <4>1. q \in Reports(e) /\ edition'[q] = edition[q]
        BY <1>1, <2>0, <2>1, <3>2
      <4>2. edition[q] \in 1..Cardinality(Reports(e))
        BY <1>6, <4>1 DEF EditionsCounted
      <4> QED  BY <2>0, <2>1, <4>1, <4>2
    <3> QED  BY <3>1, <3>2
  <2>6. ASSUME e[1] \in Present', NEW v \in Uploader, v \in Counted(e, uploader[v].count)'
        PROVE  uploader'[v].count <= Cardinality(Reports(e)')
    <3>1. v # u /\ uploader'[v] = uploader[v] /\ v \in Counted(e, uploader[v].count)
      BY <1>1, <2>2, <2>3, <2>6
    <3>2. e[1] \in Present
      <4>1. KindOf[e[1]] = "engagement" /\ e[1] # r
        BY <1>a, SeriesIs
      <4> QED  BY <1>1, <2>6, <4>1
    <3>3. uploader[v].count <= Cardinality(Reports(e)) /\ uploader[v].count \in Nat
      BY <1>6, <3>1, <3>2, TenantAssumption, FS_CardinalityType DEF EditionsCounted, EditionsTyped
    <3> QED  BY <2>0, <2>1, <3>1, <3>3
  <2>7. ASSUME NEW n \in 0..Cardinality(Row)
        PROVE  Cardinality(ReportsAt(e, n + 1)') + Cardinality(Counted(e, n)')
                 <= Cardinality(instance.uploaders)
    <3>1. Cardinality(ReportsAt(e, n + 1)) + Cardinality(Counted(e, n)) <= Cardinality(instance.uploaders)
      BY <1>6 DEF EditionsCounted
    <3>2. /\ ReportsAt(e, n + 1) \subseteq Reports(e)
          /\ IsFiniteSet(ReportsAt(e, n + 1)) /\ IsFiniteSet(Counted(e, n))
          /\ Cardinality(ReportsAt(e, n + 1)) \in Nat /\ Cardinality(Counted(e, n)) \in Nat
      <4>1. ReportsAt(e, n + 1) \subseteq Reports(e)
        BY DEF ReportsAt
      <4> QED  BY <1>b, <2>0, <4>1, FS_Subset, FS_CardinalityType
    <3>3. \A q : q \in ReportsAt(e, n + 1)' <=> q \in ReportsAt(e, n + 1) \/ (q = r /\ e = at /\ n = c)
      <4>1. \A q : q \in ReportsAt(e, n + 1)' <=> q \in Reports(e)' /\ edition'[q] = n + 1
        BY DEF ReportsAt
      <4>2. \A q : q \in ReportsAt(e, n + 1) <=> q \in Reports(e) /\ edition[q] = n + 1
        BY DEF ReportsAt
      <4>3. \A q \in Reports(e) : edition'[q] = edition[q] /\ q # r
        BY <1>1, <2>0
      <4>4. edition'[r] = n + 1 <=> n = c
        BY <1>1, <1>2
      <4> QED  BY <2>1, <4>1, <4>2, <4>3, <4>4
    <3>4. \A v : v \in Counted(e, n)' <=> v \in Counted(e, n) /\ v # u
      BY <1>1 DEF Counted
    <3>5. u \in Counted(e, n) <=> e = at /\ n = c
      BY <1>0 DEF Counted, c, at
    <3>6. CASE e = at /\ n = c
      <4>1. ReportsAt(e, n + 1)' = ReportsAt(e, n + 1) \cup {r} /\ r \notin ReportsAt(e, n + 1)
        BY <2>0, <3>2, <3>3, <3>6
      <4>2. Counted(e, n)' = Counted(e, n) \ {u} /\ u \in Counted(e, n)
        BY <3>4, <3>5, <3>6
      <4>3. Cardinality(ReportsAt(e, n + 1)') = Cardinality(ReportsAt(e, n + 1)) + 1
        BY <3>2, <4>1, FS_AddElement
      <4>4. Cardinality(Counted(e, n)') = Cardinality(Counted(e, n)) - 1
        BY <3>2, <4>2, FS_RemoveElement
      <4> QED  BY <3>1, <3>2, <4>3, <4>4
    <3>7. CASE ~(e = at /\ n = c)
      <4>1. ReportsAt(e, n + 1)' = ReportsAt(e, n + 1) /\ Counted(e, n)' = Counted(e, n)
        BY <3>3, <3>4, <3>5, <3>7
      <4> QED  BY <3>1, <4>1
    <3> QED  BY <3>6, <3>7
  <2> QED  BY <2>5, <2>6, <2>7
<1>7. EditionsCounted'
  <2>1. instance' = instance /\ (restored' = 0 => restored = 0)
    BY <1>1
  <2> QED  BY <1>6, <2>1 DEF EditionsCounted
<1> QED  BY <1>4, <1>5, <1>7

\* Checks, erasures and a crash make no row.
LEMMA RestCounted ==
  ASSUME RowsInv, FilesInv, RowsKnown, EditionsTyped, EditionsCounted, FilesNext,
         UNCHANGED <<dumper, content, restored>>
  PROVE  RowsKnown' /\ EditionsTyped' /\ EditionsCounted'
<1>0. /\ crashes \in Nat /\ FilesTyped /\ table \in [Row -> RowValue] /\ eraser \in [Eraser -> EraseState]
  BY DEF EditionsTyped, FilesInv, FilesTyped, RowsInv, TenantTyped
<1>1. ASSUME UNCHANGED <<instance, overlapped, edition, uploader, crashes>>, Present' = Present
      PROVE  RowsKnown' /\ EditionsTyped' /\ EditionsCounted'
  BY <1>0, <1>1, FilesMove
<1>2. CASE \E u \in Uploader :
             \/ UploadPut(u) \/ UploadClaim(u) \/ UploadDone(u) \/ UploadFails(u) \/ ReportDone(u)
             \/ DocumentDone(u)
             \/ \E r \in FileRows : UploadStart(u, r) \/ ReportStart(u, r) \/ DocumentStart(u, r)
  BY <1>2, UploadsCounted DEF UploadStart, ReportStart, DocumentStart
<1>3. CASE \E u \in Uploader : ReportCount(u)
  BY <1>3, ReportCountCounted
<1>4. CASE \E u \in Uploader : UploadRow(u) \/ DocumentRow(u)
  BY <1>4, UploadRowCounted
<1>5. CASE \E u \in Uploader : ReportRow(u)
  BY <1>5, ReportRowCounted
<1>6. ASSUME NEW r \in FileRows,
             CheckFailed(r) \/ CheckLost(r) \/ \E answer \in Lookup : CheckAnswered(r, answer)
      PROVE  RowsKnown' /\ EditionsTyped' /\ EditionsCounted'
  <2>1. UNCHANGED <<instance, overlapped, edition, uploader, crashes>>
    BY <1>6 DEF CheckFailed, CheckLost, CheckAnswered, tenantVars
  <2>2. table' = table \/ \E status \in {"CHECKED", "UNAVAILABLE"} : Verdict(r, status)
    BY <1>6 DEF CheckFailed, CheckLost, CheckAnswered, tenantVars
  <2>3. \A status \in {"CHECKED", "UNAVAILABLE"} : Verdict(r, status) => Present' = Present
    BY <1>0 DEF Verdict, Present, RowValue
  <2>4. Present' = Present
    BY <2>2, <2>3 DEF Present
  <2> QED  BY <1>1, <2>1, <2>4
<1>7. CASE \E e \in Eraser :
             \/ EraseStart(e) \/ EraseReadFindings(e) \/ EraseFails(e) \/ EraseEnds(e)
             \/ \E kind \in {"test", "evidence", "report"} : EraseRead(e, kind)
             \/ \E r \in FileRows, deleted \in BOOLEAN : EraseFile(e, r, deleted)
  <2>1. UNCHANGED <<instance, table, overlapped, edition, uploader, crashes>>
    BY <1>7 DEF EraseStart, EraseReadFindings, EraseFails, EraseEnds, EraseRead, EraseFile, tenantVars
  <2>2. Present' = Present
    BY <2>1 DEF Present
  <2> QED  BY <1>1, <2>1, <2>2
<1>8. ASSUME NEW e \in Eraser, EraseCommit(e)
      PROVE  RowsKnown' /\ EditionsTyped' /\ EditionsCounted'
  <2> DEFINE gone == Erasable(eraser[e].seen)
  <2>1. /\ UNCHANGED <<instance, overlapped, edition, uploader, crashes>>
        /\ table' = [r \in Row |-> IF r \in gone THEN Absent ELSE table[r]]
    BY <1>8 DEF EraseCommit
  <2>2. Present' = Present \ gone
    BY <2>1 DEF Present, Absent
  <2>3. ASSUME NEW x \in Series
        PROVE  Reports(x)' = Reports(x) \/ (Reports(x)' = {} /\ x[1] \notin Present')
    <3>0. \A r \in Reports(x) : ParentOf[r] = x[1]
      BY DEF Reports, SeriesOf
    <3>1. CASE x[1] \in eraser[e].seen
      <4>1. x[1] \notin Present'
        BY <2>2, <3>1, SeriesIs DEF Erasable
      <4>2. \A r \in Reports(x) : r \in gone
        BY <3>0, <3>1 DEF Reports, Files, Erasable
      <4>3. Reports(x)' = {}
        BY <2>2, <4>2 DEF Reports, Files
      <4> QED  BY <4>1, <4>3
    <3>2. CASE x[1] \notin eraser[e].seen
      <4>1. \A r \in Reports(x) : r \notin gone
        BY <3>0, <3>2 DEF Reports, Files, Erasable
      <4>2. Reports(x)' = Reports(x)
        BY <2>2, <4>1 DEF Reports, Files
      <4> QED  BY <4>2
    <3> QED  BY <3>1, <3>2
  <2>4. RowsKnown'
    BY <2>1, <2>2 DEF RowsKnown, Known
  <2>5. EditionsTyped'
    BY <2>1 DEF EditionsTyped
  <2>6. \A u \in Uploader : uploader'[u].pc = "row" => uploader'[u].row \in FileRows
    BY <2>1 DEF FilesInv, UploadsOwn
  <2>7. EditionsCounted'
    BY <2>1, <2>2, <2>3, <2>6, EditionsRest
  <2> QED  BY <2>4, <2>5, <2>7
<1>9. CASE Crash
  <2>1. /\ UNCHANGED <<instance, table, overlapped, edition>> /\ crashes' \in Nat
        /\ \A u \in Uploader : uploader'[u].pc = "idle" /\ uploader'[u].count = 0
    BY <1>0, <1>9 DEF Crash, IdleUpload
  <2>2. Present' = Present /\ 0 \in 0..Cardinality(Row)
    BY <2>1, TenantAssumption, FS_CardinalityType DEF Present
  <2> QED  BY <1>0, <2>1, <2>2, FilesMove
<1> QED
  BY <1>2, <1>3, <1>4, <1>5, <1>6, <1>7, <1>8, <1>9 DEF FilesNext

\* A backup takes the place of the table.
LEMMA RestoreCounted ==
  ASSUME RowsInv, RowsKnown, EditionsTyped, NEW b \in Backup, Restore(b)
  PROVE  RowsKnown' /\ EditionsTyped' /\ EditionsCounted'
<1>1. /\ table' = content[b] /\ restored' = restored + 1
      /\ overlapped' = overlapped \cup {r \in Row : Held(r)}
      /\ UNCHANGED <<instance, uploader, edition, crashes, dumper, content>>
  BY DEF Restore
<1>2. Present' = RowsOf(content[b])
  BY <1>1 DEF Present, RowsOf
<1>3. RowsKnown'
  BY <1>1, <1>2 DEF RowsKnown, Known
<1>4. EditionsTyped'
  BY <1>1 DEF EditionsTyped
<1>5. restored' # 0
  BY <1>1 DEF EditionsTyped
<1>6. EditionsCounted'
  BY <1>5 DEF EditionsCounted
<1> QED  BY <1>3, <1>4, <1>6

(***************************************************************************)
(* The invariant holds                                                     *)
(***************************************************************************)
LEMMA BackupInit == Init => BackupIInv
<1> SUFFICES ASSUME Init PROVE BackupIInv
  OBVIOUS
<1>0. DataIInv
  BY DataInit
<1>1. /\ instance \in Instance /\ overlapped = {} /\ edition = [r \in FileRows |-> 0]
      /\ uploader = [u \in Uploader |-> IdleUpload] /\ crashes = 0 /\ restored = 0
      /\ dumper = [d \in Dumper |-> IdleDump] /\ catalog = <<>> /\ stored = {} /\ torn = {}
      /\ content = [b \in Backup |-> NoRows]
      /\ table = [r \in Row |->
           IF r \notin instance.initial THEN Absent
           ELSE [Absent EXCEPT !.status = "present",
                    !.key = IF KindOf[r] \in {"test", "user", "ledger"} THEN Plain ELSE SystemKey(1)]]
  BY DEF Init, FilesInit, TenantInit
<1>2. Present \subseteq instance.initial
  BY <1>1 DEF Present, Absent
<1>3. /\ \A u \in Uploader : uploader[u].pc = "idle" /\ uploader[u].count = 0
      /\ \A d \in Dumper : /\ dumper[d].pc = "idle" /\ dumper[d].backup = NoBackup
                           /\ dumper[d].next = 0 /\ dumper[d].rows = NoRows /\ dumper[d].stale = {}
  BY <1>1 DEF IdleUpload, IdleDump
<1>4. Cardinality(Row) \in Nat /\ IsFiniteSet(instance.uploaders) /\ Cardinality(instance.uploaders) \in Nat
      /\ Cardinality({}) = 0
  BY <1>1, TenantAssumption, FilesAssumption, FS_CardinalityType, FS_EmptySet
<1>5. EditionsTyped
  <2>1. 0 \in 0..Cardinality(Row)
    BY <1>4
  <2>2. edition \in [FileRows -> 0..Cardinality(Row)]
    BY <1>1, <2>1
  <2>3. overlapped \subseteq Row /\ crashes \in Nat /\ restored \in Nat
    BY <1>1
  <2> QED  BY <1>3, <2>1, <2>2, <2>3 DEF EditionsTyped
<1>6. DumpersTyped
  <2>1. catalog \in Seq(Backup)
    BY <1>1, EmptySeq
  <2>2. stored \subseteq Backup /\ torn \subseteq Backup
    BY <1>1
  <2>3. ASSUME NEW d \in Dumper
        PROVE  /\ dumper[d].pc \in {"idle", "dump", "put", "record", "list", "prune", "delete"}
               /\ dumper[d].backup \in Backup \cup {NoBackup}
               /\ dumper[d].next \in 0..13 /\ dumper[d].stale \subseteq Backup
    BY <1>3
  <2> QED  BY <2>1, <2>2, <2>3 DEF DumpersTyped
<1>7. RowsOf(NoRows) = {}
  BY NoRowsTyped DEF RowsOf
<1>8. RowsKnown
  BY <1>1, <1>2, <1>3, <1>7 DEF RowsKnown, Known
<1>9. DumpsClosed
  BY <1>1, <1>3 DEF DumpsClosed
<1>10. CatalogKept
  <2>1. DOMAIN catalog = {}
    <3>1. catalog \in Seq(Backup) /\ Len(catalog) = 0
      BY <1>1, EmptySeq
    <3> QED  BY <3>1, LenProperties
  <2>2. Newest(Retention) = {}
    BY <2>1 DEF Newest
  <2> QED  BY <1>3, <2>1, <2>2 DEF CatalogKept, InFlight, IsInjective
<1>11. EditionsCounted
  <2>1. \A e \in Series : Reports(e) = {}
    BY <1>1, <1>2, FilesAssumption DEF Reports, Files
  <2>2. \A e \in Series : \A n : ReportsAt(e, n) = {} /\ Counted(e, n) = {}
    BY <1>3, <2>1 DEF ReportsAt, Counted
  <2>3. ASSUME NEW e \in Series, NEW n \in 0..Cardinality(Row)
        PROVE  Cardinality(ReportsAt(e, n + 1)) + Cardinality(Counted(e, n)) <= Cardinality(instance.uploaders)
    <3>1. ReportsAt(e, n + 1) = {} /\ Counted(e, n) = {}
      BY <2>2
    <3> QED  BY <1>4, <3>1
  <2> QED  BY <2>1, <2>2, <2>3 DEF EditionsCounted
<1> QED  BY <1>5, <1>6, <1>8, <1>9, <1>10, <1>11 DEF BackupIInv

LEMMA DumpStepCounted ==
  ASSUME RowsInv, DumpsTyped, BackupIInv, NEW d \in Dumper, DumpStep(d)
  PROVE  BackupIInv'
<1> USE DEF BackupIInv
<1>1. /\ UNCHANGED tenantVars /\ UNCHANGED fileVars /\ UNCHANGED restored
  BY DEF DumpStep, BackupTable, BackupPut, BackupRecord, PruneList, PruneRow, BackupEnds,
     BackupStart, PruneObject
<1>2. EditionsTyped'
  BY <1>1 DEF EditionsTyped, tenantVars, fileVars
<1>3. EditionsCounted'
  BY <1>1 DEF EditionsCounted, Reports, ReportsAt, Counted, Files, Present, tenantVars, fileVars
<1>4. DumpersTyped' /\ RowsKnown' /\ DumpsClosed' /\ CatalogKept'
  BY TableReadKeeps, BackupStartKeeps, BackupPutKeeps, BackupRecordKeeps, PruneListKeeps,
     PruneObjectKeeps, PruneRowKeeps, BackupEndsKeeps DEF DumpStep
<1> QED  BY <1>2, <1>3, <1>4

LEMMA BackupNext == DataIInv /\ BackupIInv /\ [Next]_dataVars => BackupIInv'
<1> SUFFICES ASSUME DataIInv, BackupIInv, [Next]_dataVars PROVE BackupIInv'
  OBVIOUS
<1>0. RowsInv /\ FilesInv /\ DumpsTyped
  BY DEF DataIInv, RowsInv, FilesInv
<1>1. EditionsTyped /\ DumpersTyped /\ RowsKnown /\ DumpsClosed /\ CatalogKept /\ EditionsCounted
  BY DEF BackupIInv
<1>2. ASSUME TenantNext, TornNow, Others, UNCHANGED fileVars PROVE BackupIInv'
  <2>1. DumpersTyped' /\ DumpsClosed' /\ CatalogKept'
    BY <1>1, <1>2, RowsMoveDumps DEF Others
  <2>2. /\ instance' = instance /\ overlapped' \subseteq Row /\ Present' \subseteq Known
        /\ \A e \in Row : KindOf[e] = "engagement" /\ e \in Present' => e \in Present
    BY <1>0, <1>1, <1>2, TenantRows DEF EditionsTyped, RowsKnown
  <2>3. FilesStay
    BY <1>0, <1>2, TenantStepKeeps
  <2>4. UNCHANGED <<uploader, edition, crashes, restored, dumper, content>>
    BY <1>2 DEF Others, fileVars
  <2>5. RowsKnown' /\ EditionsTyped'
    BY <1>1, <2>2, <2>4 DEF RowsKnown, Known, EditionsTyped
  <2>6. \A e \in Series : Reports(e)' = Reports(e)
    <3>1. \A r \in FileRows : KindOf[r] = "report" => (r \in Present' <=> r \in Present)
      BY <2>3 DEF FilesStay, Present, FileRows
    <3> QED  BY <3>1 DEF Reports, Files
  <2>7. \A u \in Uploader : uploader'[u].pc = "row" => uploader'[u].row \in FileRows
    BY <1>0, <2>4 DEF FilesInv, UploadsOwn
  <2>8. EditionsCounted'
    BY <1>0, <1>1, <2>2, <2>4, <2>6, <2>7, EditionsRest
  <2> QED  BY <2>1, <2>5, <2>8 DEF BackupIInv
<1>3. ASSUME FilesNext, TornNow, Others PROVE BackupIInv'
  <2>1. DumpersTyped' /\ DumpsClosed' /\ CatalogKept'
    BY <1>1, <1>3, RowsMoveDumps DEF Others
  <2>2. RowsKnown' /\ EditionsTyped' /\ EditionsCounted'
    BY <1>0, <1>1, <1>3, RestCounted DEF Others
  <2> QED  BY <2>1, <2>2 DEF BackupIInv
<1>4. ASSUME NEW d \in Dumper, DumpStep(d) PROVE BackupIInv'
  BY <1>0, <1>4, DumpStepCounted
<1>5. ASSUME NEW b \in Backup, Restore(b), TornNow PROVE BackupIInv'
  <2>1. UNCHANGED <<dumper, catalog, stored, content>>
    BY <1>5 DEF Restore
  <2>2. DumpersTyped' /\ DumpsClosed' /\ CatalogKept'
    BY <1>1, <1>5, <2>1, RowsMoveDumps
  <2>3. RowsKnown' /\ EditionsTyped' /\ EditionsCounted'
    BY <1>0, <1>1, <1>5, RestoreCounted
  <2> QED  BY <2>2, <2>3 DEF BackupIInv
<1>6. CASE UNCHANGED dataVars
  <2>1. /\ UNCHANGED <<instance, table, overlapped, uploader, edition, crashes>>
        /\ UNCHANGED <<dumper, catalog, stored, content, torn, restored>>
    BY <1>6 DEF dataVars, tenantVars, fileVars, backupVars
  <2>2. EditionsTyped' /\ DumpersTyped' /\ RowsKnown'
    BY <1>1, <2>1 DEF EditionsTyped, DumpersTyped, RowsKnown, Known, Present
  <2>3. DumpsClosed' /\ CatalogKept'
    BY <1>1, <2>1 DEF DumpsClosed, CatalogKept, TablesRead, InFlight, Newest, Present
  <2>4. EditionsCounted'
    BY <1>1, <2>1 DEF EditionsCounted, Reports, ReportsAt, Counted, Files, Present
  <2> QED  BY <2>2, <2>3, <2>4 DEF BackupIInv
<1> QED  BY <1>2, <1>3, <1>4, <1>5, <1>6 DEF Next, DumpStep

(***************************************************************************)
(* The theorems of backups                                                 *)
(***************************************************************************)
\* The inductive invariant of dumps, catalog and versions.
THEOREM BackupIInvHolds == Spec => [](DataIInv /\ BackupIInv)
<1>1. Init => DataIInv /\ BackupIInv
  BY DataInit, BackupInit
<1>2. DataIInv /\ BackupIInv /\ [Next]_dataVars => DataIInv' /\ BackupIInv'
  BY DataNext, BackupNext
<1> QED  BY <1>1, <1>2, PTL DEF Spec

\* Every variable of the composed system keeps its type, and no backup is in
\* the catalog twice.
THEOREM ClientDataTyped == Spec => []ClientDataTypeOK
<1>1. DataIInv /\ BackupIInv => ClientDataTypeOK
  <2> SUFFICES ASSUME DataIInv, BackupIInv PROVE ClientDataTypeOK
    OBVIOUS
  <2>1. TenantTyped /\ FilesTyped /\ DumpsTyped /\ FilesInv
    BY DEF DataIInv, FilesInv
  <2>2. EditionsTyped /\ DumpersTyped /\ CatalogKept
    BY DEF BackupIInv
  <2>3. Len(BackupModels) = 12
    BY DEF BackupModels
  <2>4. TenantTypeOK
    BY <2>1, <2>2 DEF TenantTyped, EditionsTyped, TenantTypeOK, EditState, SweepState
  <2>5. FilesTypeOK
    <3>1. uploader \in [Uploader -> [pc : {"idle", "put", "count", "row", "audit"},
                                     row : FileRows \cup {NoRow}, key : Key,
                                     count : 0..Cardinality(Row)]]
      BY <2>1, <2>2 DEF FilesTyped, UploadState, EditionsTyped
    <3> QED  BY <2>1, <2>2, <2>4, <3>1 DEF FilesTypeOK, FilesTyped, EditionsTyped, EraseState
  <2>6. dumper \in [Dumper -> [pc : {"idle", "dump", "put", "record", "list", "prune", "delete"},
                               backup : Backup \cup {NoBackup}, next : 0..Len(BackupModels) + 1,
                               rows : [Row -> RowValue], stale : SUBSET Backup]]
    <3> DEFINE D == [pc : {"idle", "dump", "put", "record", "list", "prune", "delete"},
                     backup : Backup \cup {NoBackup}, next : 0..Len(BackupModels) + 1,
                     rows : [Row -> RowValue], stale : SUBSET Backup]
    <3>1. \A d \in Dumper : dumper[d] \in D
      BY <2>1, <2>2, <2>3 DEF DumpsTyped, DumpersTyped, IsDump
    <3> QED  BY <2>1, <3>1 DEF DumpsTyped
  <2> QED  BY <2>1, <2>2, <2>5, <2>6 DEF ClientDataTypeOK, DumpersTyped, CatalogKept, DumpsTyped, EditionsTyped
<1> QED  BY <1>1, BackupIInvHolds, PTL

\* The newest backups keep their dumps, and every dump can be restored unless
\* a row was created during it: for any number of runs, backups and rows.
THEOREM BackupsStayRestorable == Spec => []BackupsRestorable
<1>1. BackupIInv => BackupsRestorable
  BY DEF BackupIInv, CatalogKept, DumpsClosed, BackupsRestorable
<1> QED  BY <1>1, BackupIInvHolds, PTL

\* A version is shared by no more reports than there are uploads at a time.
THEOREM VersionsStayBounded == Spec => []VersionsBounded
<1>1. DataIInv /\ BackupIInv => VersionsBounded
  <2> SUFFICES ASSUME DataIInv, BackupIInv, restored = 0, NEW q \in Files, KindOf[q] = "report"
               PROVE  Cardinality({r \in Siblings(q) : edition[r] = edition[q]})
                        <= Cardinality(instance.uploaders)
    BY DEF VersionsBounded
  <2> DEFINE e == SeriesOf(q)  n == edition[q] - 1
  <2>1. EditionsTyped /\ EditionsCounted /\ FilesInv
    BY DEF BackupIInv, DataIInv, FilesInv
  <2>2. e \in Series /\ q \in Reports(e) /\ q \in Row
    BY DEF Reports, Files, FileRows, Series
  <2>3. n \in 0..Cardinality(Row) /\ n + 1 = edition[q]
    <3>1. edition[q] \in 1..Cardinality(Reports(e))
      BY <2>1, <2>2 DEF EditionsCounted
    <3>2. edition[q] \in 0..Cardinality(Row)
      BY <2>1 DEF EditionsTyped, Files
    <3>3. Cardinality(Row) \in Nat
      BY TenantAssumption, FS_CardinalityType
    <3> QED  BY <3>1, <3>2, <3>3
  <2>4. Cardinality(ReportsAt(e, n + 1)) + Cardinality(Counted(e, n)) <= Cardinality(instance.uploaders)
    BY <2>1, <2>2, <2>3 DEF EditionsCounted
  <2>5. {r \in Siblings(q) : edition[r] = edition[q]} = ReportsAt(e, n + 1)
    BY <2>3 DEF ReportsAt, Reports, Siblings, SeriesOf
  <2>6. /\ Cardinality(ReportsAt(e, n + 1)) \in Nat /\ Cardinality(Counted(e, n)) \in Nat
        /\ Cardinality(instance.uploaders) \in Nat
    <3>1. ReportsAt(e, n + 1) \subseteq Row /\ Counted(e, n) \subseteq instance.uploaders
      BY <2>1 DEF ReportsAt, Reports, Files, FileRows, Counted, EditionsTyped
    <3>2. instance \in Instance
      BY DEF DataIInv, TenantTyped
    <3> QED
      BY <3>1, <3>2, TenantAssumption, FilesAssumption, FS_Subset, FS_CardinalityType
  <2>7. Cardinality(ReportsAt(e, n + 1)) <= Cardinality(instance.uploaders)
    BY <2>4, <2>6
  <2> QED  BY <2>5, <2>7
<1> QED  BY <1>1, BackupIInvHolds, PTL
=============================================================================

------------------------------ MODULE ClientFiles -----------------------------
(***************************************************************************)
(* Rows with a file in object storage (evidence, reports and the signed    *)
(* authorization documents of engagements): uploads through the server or  *)
(* straight to storage, generated reports, documents fetched from the      *)
(* signature provider, the malware check in the background, and the        *)
(* erasure of the whole client (src/src/modules/evidence, reports,         *)
(* engagements, clients/client-deletion.service.ts).                       *)
(***************************************************************************)
EXTENDS TenantData

CONSTANTS
  Uploader,   \* concurrent uploads, report generations and signature checks
  Eraser,     \* concurrent DELETE clients/:id
  TypeOf      \* the type each report is of

\* At the start there is no report: its version would be one that the start
\* does not know of.
ASSUME FilesAssumption ==
  \A in \in Instance :
    /\ in.uploaders \subseteq Uploader /\ IsFiniteSet(in.uploaders)
    /\ in.erasers \subseteq Eraser
    /\ \A r \in in.initial : KindOf[r] # "report"

VARIABLES
  object,       \* files in storage; a storage key is named by the row it is for
  uploader,     \* uploads in progress
  edition,      \* a report's version
  check,        \* evidence whose malware check is running
  interrupted,  \* evidence whose check was lost
  eraser,       \* erasures in progress
  erased,       \* rows that an erasure has deleted, or whose file it removes
  missed,       \* files an erasure could not know of, or failed to remove
  crashes

fileVars == <<object, uploader, edition, check, interrupted, eraser, erased, missed, crashes>>

IdleUpload == [pc |-> "idle", row |-> NoRow, key |-> Plain, count |-> 0]
IdleErase == [pc |-> "idle", todo |-> {}, seen |-> {}, keys |-> {}]
FileRows == {r \in Row : KindOf[r] \in {"evidence", "report", "document"}}
Files == Present \cap FileRows

FilesTypeOK ==
  /\ TenantTypeOK
  /\ object \subseteq FileRows
  /\ uploader \in [Uploader -> [pc : {"idle", "put", "count", "row", "audit"},
                                row : FileRows \cup {NoRow}, key : Key,
                                count : 0..Cardinality(Row)]]
  /\ edition \in [FileRows -> 0..Cardinality(Row)]
  /\ check \subseteq FileRows /\ interrupted \subseteq FileRows
  /\ eraser \in [Eraser -> [pc : {"idle", "reading", "ready", "removing"},
                            todo : SUBSET {"test", "evidence", "report"},
                            seen : SUBSET Row, keys : SUBSET FileRows]]
  /\ erased \subseteq Row /\ missed \subseteq FileRows
  /\ crashes \in Nat

FilesInit ==
  /\ TenantInit
  /\ object = instance.initial \cap FileRows
  /\ uploader = [u \in Uploader |-> IdleUpload]
  /\ edition = [r \in FileRows |-> 0]
  /\ check = {} /\ interrupted = {}
  /\ eraser = [e \in Eraser |-> IdleErase]
  /\ erased = {} /\ missed = {}
  /\ crashes = 0

(***************************************************************************)
(* Uploads and reports                                                     *)
(***************************************************************************)
\* The parent is read, and the file gets a key and a fresh storage key.
Begin(u, r, kind) ==
  /\ u \in instance.uploaders /\ uploader[u].pc = "idle"
  /\ New(r, kind) /\ r \notin object \cup erased
  /\ \A v \in Uploader : uploader[v].row # r
  /\ uploader' = [uploader EXCEPT ![u] = [pc |-> "put", row |-> r, key |-> Wrapping, count |-> 0]]
  /\ UNCHANGED <<tenantVars, object, edition, check, interrupted, eraser, erased, missed, crashes>>

\* Multipart, or presigned: the key is handed to the browser.
UploadStart(u, r) == Begin(u, r, "evidence")

\* The report is built, and encrypted by the server.
ReportStart(u, r) == Begin(u, r, "report")

\* POST engagements/:id/authorize/check that finds the envelope signed: the
\* document is fetched, and encrypted by the server.
DocumentStart(u, r) == Begin(u, r, "document")

\* The storage provider's put: the server's, or the browser's with the URL.
StoragePut(r) == object' = object \cup {r}

UploadPut(u) ==
  /\ uploader[u].pc = "put"
  /\ StoragePut(uploader[u].row)
  /\ uploader' = [uploader EXCEPT ![u].pc =
                    IF KindOf[uploader[u].row] = "report" THEN "count" ELSE "row"]
  /\ UNCHANGED <<tenantVars, edition, check, interrupted, eraser, erased, missed, crashes>>

\* The caller of evidence/complete reports a file that did not land.
UploadClaim(u) ==
  /\ uploader[u].pc = "put" /\ KindOf[uploader[u].row] = "evidence"
  /\ uploader' = [uploader EXCEPT ![u].pc = "row"]
  /\ UNCHANGED <<tenantVars, object, edition, check, interrupted, eraser, erased, missed, crashes>>

\* The reports of r's engagement and type.
Siblings(r) == {q \in Files : /\ KindOf[q] = "report" /\ ParentOf[q] = ParentOf[r]
                              /\ TypeOf[q] = TypeOf[r]}

\* Mutant: the reports are counted before there is one to count.
ReportCountNone(u) ==
  /\ uploader[u].pc = "count"
  /\ uploader' = [uploader EXCEPT ![u].pc = "row"]
  /\ UNCHANGED <<tenantVars, object, edition, check, interrupted, eraser, erased, missed, crashes>>

ReportCount(u) ==
  /\ uploader[u].pc = "count"
  /\ uploader' = [uploader EXCEPT ![u] = [@ EXCEPT !.pc = "row",
                                          !.count = Cardinality(Siblings(uploader[u].row))]]
  /\ UNCHANGED <<tenantVars, object, edition, check, interrupted, eraser, erased, missed, crashes>>

\* Mutant: evidence/complete trusts its caller.
LandedAnyway(r) == r \in FileRows

Landed(r) == r \in object

\* An erasure that has read this table will not know the new row's file.
ReadAlready(r) == \E e \in Eraser :
  \/ eraser[e].pc = "ready"
  \/ eraser[e].pc = "reading" /\ KindOf[r] \notin eraser[e].todo

\* The foreign key needs the parent to be there still.
NewRow(u, status, number) ==
  LET r == uploader[u].row IN
  /\ ParentOf[r] \in Present
  /\ table' = [table EXCEPT ![r] = [Absent EXCEPT !.status = status, !.key = uploader[u].key]]
  /\ edition' = [edition EXCEPT ![r] = number]
  /\ missed' = IF ReadAlready(r) THEN missed \cup {r} ELSE missed
  /\ uploader' = [uploader EXCEPT ![u].pc = "audit"]
  /\ UNCHANGED <<instance, version, editor, sweeper, last, overlapped,
                 object, check, interrupted, eraser, erased, crashes>>

UploadRow(u) ==
  /\ uploader[u].pc = "row" /\ KindOf[uploader[u].row] = "evidence"
  /\ Landed(uploader[u].row)
  /\ NewRow(u, "PENDING", 0)

ReportRow(u) ==
  /\ uploader[u].pc = "row" /\ KindOf[uploader[u].row] = "report"
  /\ NewRow(u, "present", uploader[u].count + 1)

\* The engagement's reference is set; the update fails if it is gone.
DocumentRow(u) ==
  /\ uploader[u].pc = "row" /\ KindOf[uploader[u].row] = "document"
  /\ NewRow(u, "present", 0)

\* The audit row is written and the request ends; for evidence a check starts.
Answer(u, kind, checks) ==
  /\ uploader[u].pc = "audit" /\ KindOf[uploader[u].row] = kind
  /\ check' = check \cup checks
  /\ uploader' = [uploader EXCEPT ![u] = IdleUpload]
  /\ UNCHANGED <<tenantVars, object, edition, interrupted, eraser, erased, missed, crashes>>

UploadDone(u) == Answer(u, "evidence", {uploader[u].row})
ReportDone(u) == Answer(u, "report", {})
DocumentDone(u) == Answer(u, "document", {})

Stranded(rows) == interrupted' = interrupted \cup {r \in rows : KindOf[r] = "evidence"}

\* An error or an abandoned upload: evidence whose audit row cannot be written
\* is never checked.
UploadFails(u) ==
  /\ uploader[u].pc # "idle"
  /\ uploader' = [uploader EXCEPT ![u] = IdleUpload]
  /\ Stranded(IF uploader[u].pc = "audit" THEN {uploader[u].row} ELSE {})
  /\ UNCHANGED <<tenantVars, object, edition, check, eraser, erased, missed, crashes>>

(***************************************************************************)
(* The malware check (checkEvidenceMalware)                                *)
(***************************************************************************)
\* An update of a row that is gone throws, and so does the second try.
Verdict(r, status) ==
  table' = IF r \in Present THEN [table EXCEPT ![r].status = status] ELSE table

\* VirusTotal's answer; null when it has never seen the hash, or no API key is
\* configured.
Lookup == {"stats", "null"}

CheckAnswered(r, answer) ==
  /\ r \in check
  /\ Verdict(r, IF answer = "null" THEN "UNAVAILABLE" ELSE "CHECKED")
  /\ check' = check \ {r}
  /\ UNCHANGED <<instance, version, editor, sweeper, last, overlapped,
                 object, uploader, edition, interrupted, eraser, erased, missed, crashes>>

\* Mutant: the catch block only logs.
CheckFailedLogged(r) ==
  /\ r \in check
  /\ check' = check \ {r}
  /\ UNCHANGED <<tenantVars, object, uploader, edition, interrupted, eraser, erased, missed, crashes>>

\* An error in the try block.
CheckFailed(r) ==
  /\ r \in check
  /\ Verdict(r, "UNAVAILABLE")
  /\ check' = check \ {r}
  /\ UNCHANGED <<instance, version, editor, sweeper, last, overlapped,
                 object, uploader, edition, interrupted, eraser, erased, missed, crashes>>

\* The update in the catch block fails as well, and that is ignored.
CheckLost(r) ==
  /\ r \in check
  /\ check' = check \ {r}
  /\ Stranded({r})
  /\ UNCHANGED <<tenantVars, object, uploader, edition, eraser, erased, missed, crashes>>

(***************************************************************************)
(* Erasure (deleteClientData)                                              *)
(***************************************************************************)
EraseStart(e) ==
  /\ e \in instance.erasers /\ eraser[e].pc = "idle"
  /\ Client \in Present
  /\ eraser' = [eraser EXCEPT ![e] =
       [pc |-> "reading", todo |-> {"test", "evidence", "report"},
        seen |-> {r \in Present : KindOf[r] \in {"engagement", "document"}}, keys |-> {}]]
  /\ UNCHANGED <<tenantVars, object, uploader, edition, check, interrupted, erased, missed, crashes>>

\* Whether a row belongs to one of these engagements.
Within(r, engagements) ==
  {ParentOf[r], ParentOf[ParentOf[r]], ParentOf[ParentOf[ParentOf[r]]]} \cap engagements # {}

\* Concurrent queries, each a snapshot of its own.
EraseRead(e, kind) ==
  LET seen == eraser[e].seen IN
  /\ eraser[e].pc = "reading" /\ kind \in eraser[e].todo
  /\ eraser' = [eraser EXCEPT ![e] =
       [@ EXCEPT !.todo = eraser[e].todo \ {kind},
                 !.seen = seen \cup {r \in Present : KindOf[r] = kind /\ Within(r, seen)}]]
  /\ UNCHANGED <<tenantVars, object, uploader, edition, check, interrupted, erased, missed, crashes>>

EraseReadFindings(e) ==
  LET seen == eraser[e].seen IN
  /\ eraser[e].pc = "reading" /\ eraser[e].todo = {}
  /\ eraser' = [eraser EXCEPT ![e] =
       [@ EXCEPT !.pc = "ready",
                 !.seen = seen \cup {r \in Present : KindOf[r] = "finding" /\ ParentOf[r] \in seen}]]
  /\ UNCHANGED <<tenantVars, object, uploader, edition, check, interrupted, erased, missed, crashes>>

\* The rows the transaction's statements select: by their own id, or by their
\* parent's.  The ledger tables and the credentials are not among them.
Erasable(seen) ==
  {r \in Present : KindOf[r] \in {"engagement", "test"} /\ r \in seen}
    \cup {r \in Present : KindOf[r] \in {"finding", "evidence", "check", "session",
                                         "report", "document"} /\ ParentOf[r] \in seen}
    \cup {r \in Present : KindOf[r] \in {"user", "client"}}

\* Mutant: the storage keys of the signed documents are forgotten.
StorageKeysOfTables(seen) == {r \in seen : KindOf[r] \in {"evidence", "report"}}

StorageKeys(seen) == seen \cap FileRows

\* One transaction: it fails when a row it does not delete refers to one it does.
EraseCommit(e) ==
  LET gone == Erasable(eraser[e].seen) IN
  /\ eraser[e].pc = "ready"
  /\ \A r \in Present \ gone : ParentOf[r] \notin gone
  /\ table' = [r \in Row |-> IF r \in gone THEN Absent ELSE table[r]]
  /\ erased' = erased \cup gone \cup StorageKeys(eraser[e].seen)
  /\ eraser' = [eraser EXCEPT ![e] = [@ EXCEPT !.pc = "removing",
                                               !.keys = StorageKeys(eraser[e].seen)]]
  /\ UNCHANGED <<instance, version, editor, sweeper, last, overlapped,
                 object, uploader, edition, check, interrupted, missed, crashes>>

\* A foreign key, or any other error before the commit.
EraseFails(e) ==
  /\ eraser[e].pc \in {"reading", "ready"}
  /\ eraser' = [eraser EXCEPT ![e] = IdleErase]
  /\ UNCHANGED <<tenantVars, object, uploader, edition, check, interrupted, erased, missed, crashes>>

\* Best effort: a file that storage will not delete is logged.
StorageDelete(r, deleted) ==
  /\ object' = IF deleted THEN object \ {r} ELSE object
  /\ missed' = IF deleted THEN missed ELSE missed \cup {r}

EraseFile(e, r, deleted) ==
  /\ eraser[e].pc = "removing" /\ r \in eraser[e].keys
  /\ StorageDelete(r, deleted)
  /\ eraser' = [eraser EXCEPT ![e].keys = @ \ {r}]
  /\ UNCHANGED <<tenantVars, uploader, edition, check, interrupted, erased, crashes>>

EraseEnds(e) ==
  /\ eraser[e].pc = "removing" /\ eraser[e].keys = {}
  /\ eraser' = [eraser EXCEPT ![e] = IdleErase]
  /\ UNCHANGED <<tenantVars, object, uploader, edition, check, interrupted, erased, missed, crashes>>

\* The server dies, with every request and every check in it.
Crash ==
  /\ crashes < instance.crashes
  /\ crashes' = crashes + 1
  /\ editor' = [e \in Editor |-> IdleEdit]
  /\ sweeper' = [s \in Sweeper |-> IdleSweep]
  /\ uploader' = [u \in Uploader |-> IdleUpload]
  /\ check' = {}
  /\ Stranded(check \cup {uploader[u].row : u \in {v \in Uploader : uploader[v].pc = "audit"}})
  /\ eraser' = [e \in Eraser |-> IdleErase]
  /\ missed' = missed \cup UNION {eraser[e].keys : e \in Eraser}
  /\ UNCHANGED <<instance, table, version, last, overlapped, object, edition, erased>>

FilesNext ==
  \/ \E u \in Uploader :
       \/ UploadPut(u) \/ UploadClaim(u) \/ UploadRow(u) \/ UploadDone(u) \/ UploadFails(u)
       \/ ReportCount(u) \/ ReportRow(u) \/ ReportDone(u) \/ DocumentRow(u) \/ DocumentDone(u)
       \/ \E r \in FileRows : UploadStart(u, r) \/ ReportStart(u, r) \/ DocumentStart(u, r)
  \/ \E r \in FileRows :
       \/ CheckFailed(r) \/ CheckLost(r)
       \/ \E answer \in Lookup : CheckAnswered(r, answer)
  \/ \E e \in Eraser :
       \/ EraseStart(e) \/ EraseReadFindings(e) \/ EraseCommit(e) \/ EraseFails(e) \/ EraseEnds(e)
       \/ \E kind \in {"test", "evidence", "report"} : EraseRead(e, kind)
       \/ \E r \in FileRows, deleted \in BOOLEAN : EraseFile(e, r, deleted)
  \/ Crash

(***************************************************************************)
(* Properties                                                              *)
(***************************************************************************)
\* The storage provider's get throws for a file that is not there.
StorageGet(r) == r \in object

\* GET findings/:findingId/evidence/:evidenceId
EvidenceServed(r) == KindOf[r] = "evidence" /\ Readable(r) /\ StorageGet(r)

\* GET reports/:id/download
ReportServed(r) == KindOf[r] = "report" /\ Readable(r) /\ StorageGet(r)

\* GET engagements/:id/authorization-document
DocumentServed(r) == KindOf[r] = "document" /\ Readable(r) /\ StorageGet(r)

\* Evidence, reports and signed documents have their files, and are served
\* unless they are under a key the system cannot use.  The only rows that have lost their files are
\* rows an erasure deleted and a restored backup brought back.
FilesPresent ==
  /\ Files \subseteq object \cup erased
  /\ \A r \in Files \ erased :
       EvidenceServed(r) \/ ReportServed(r) \/ DocumentServed(r) <=> Unwraps(table[r].key.id)

\* The file of an erased row goes too, or its erasure is still at it; it stays
\* only if storage refused, the server died, or the row was made, or restored,
\* while the erasure had already read its table.
ErasureForgets ==
  (object \cap erased) \ Present \subseteq missed \cup UNION {eraser[e].keys : e \in Eraser}

\* Evidence is PENDING only while a check is under way or still to be started,
\* or when its check was lost with the server, the database or an audit row
\* ("nothing sits pending forever" holds but for these).
PendingExplained ==
  \A r \in Files : table[r].status = "PENDING" =>
    \/ r \in check \cup interrupted
    \/ \E u \in Uploader : uploader[u].row = r /\ uploader[u].pc = "audit"
=============================================================================

-------------------------------- MODULE Backups -------------------------------
(***************************************************************************)
(* Backups of the database (src/src/modules/internal/backup.service.ts) and *)
(* their restoration (src/scripts/restore-backup.ts), next to everything    *)
(* that changes the tables meanwhile.  The composed system of a client's    *)
(* data.                                                                    *)
(***************************************************************************)
EXTENDS ClientFiles, SequencesExt

CONSTANTS
  Dumper,      \* concurrent runs of runDatabaseBackup
  Backup,      \* DatabaseBackup ids
  NoBackup,
  Retention    \* backupRetentionCount

ASSUME BackupAssumption ==
  /\ NoBackup \notin Backup
  /\ Retention \in Nat \ {0}
  /\ \A in \in Instance : in.dumpers \subseteq Dumper /\ in.backups \subseteq Backup /\ in.restores \in Nat

VARIABLES
  dumper,     \* runs in progress
  catalog,    \* the DatabaseBackup table, oldest first
  stored,     \* dumps in object storage
  content,    \* what a dump holds
  torn,       \* backups during whose dump a row was created
  restored    \* how often a backup has been restored; bounded per instance

backupVars == <<dumper, catalog, stored, content, torn, restored>>
dataVars == <<tenantVars, fileVars, backupVars>>

\* Mutant: children before their parents.
BackupModelsReversed == <<"ledger", "credential", "cloud", "session", "report", "check", "evidence",
                          "finding", "test", "engagement", "user", "client">>

\* BACKUP_MODELS: parents before their children.
BackupModels == <<"client", "user", "engagement", "test", "finding", "evidence", "check", "report",
                  "session", "cloud", "credential", "ledger">>

NoRows == [r \in Row |-> Absent]
IdleDump == [pc |-> "idle", backup |-> NoBackup, next |-> 0, rows |-> NoRows, stale |-> {}]

ClientDataTypeOK ==
  /\ FilesTypeOK
  /\ dumper \in [Dumper -> [pc : {"idle", "dump", "put", "record", "list", "prune", "delete"},
                            backup : Backup \cup {NoBackup}, next : 0..Len(BackupModels) + 1,
                            rows : [Row -> RowValue], stale : SUBSET Backup]]
  /\ catalog \in Seq(Backup) /\ IsInjective(catalog)
  /\ stored \subseteq Backup /\ torn \subseteq Backup
  /\ content \in [Backup -> [Row -> RowValue]]
  /\ restored \in Nat

Init ==
  /\ FilesInit
  /\ dumper = [d \in Dumper |-> IdleDump]
  /\ catalog = <<>>
  /\ stored = {}
  /\ content = [b \in Backup |-> NoRows]
  /\ torn = {}
  /\ restored = 0

Dumping(b) == \E d \in Dumper : dumper[d].pc = "dump" /\ dumper[d].backup = b
Used(b) == b \in stored \cup Range(catalog)
           \/ \E d \in Dumper : dumper[d].backup = b \/ b \in dumper[d].stale

(***************************************************************************)
(* runDatabaseBackup                                                       *)
(***************************************************************************)
BackupStart(d, b) ==
  /\ d \in instance.dumpers /\ dumper[d].pc = "idle"
  /\ b \in instance.backups /\ ~Used(b)
  /\ dumper' = [dumper EXCEPT ![d] = [IdleDump EXCEPT !.pc = "dump", !.backup = b, !.next = 1]]
  /\ torn' = torn \ {b}
  /\ UNCHANGED <<tenantVars, fileVars, catalog, stored, content, restored>>

\* A signed document is in its engagement's row.
TableOf(r) == IF KindOf[r] = "document" THEN "engagement" ELSE KindOf[r]

\* The tables of this deployment, by their place in BackupModels; to dump one
\* that never has a row changes nothing.
Tables == {n \in DOMAIN BackupModels :
             \E r \in instance.initial \cup instance.later : TableOf(r) = BackupModels[n]}

\* The next table, with a query of its own.
BackupTable(d) ==
  /\ dumper[d].pc = "dump"
  /\ \E n \in Tables :
       LET rows == [r \in Row |-> IF TableOf(r) = BackupModels[n] THEN table[r] ELSE dumper[d].rows[r]]
       IN  /\ n >= dumper[d].next /\ \A m \in Tables : m >= n \/ m < dumper[d].next
           /\ dumper' = [dumper EXCEPT ![d] = [@ EXCEPT !.rows = rows, !.next = n + 1,
                            !.pc = IF \E m \in Tables : m > n THEN "dump" ELSE "put"]]
  /\ UNCHANGED <<tenantVars, fileVars, catalog, stored, content, torn, restored>>

BackupPut(d) ==
  /\ dumper[d].pc = "put"
  /\ stored' = stored \cup {dumper[d].backup}
  /\ content' = [content EXCEPT ![dumper[d].backup] = dumper[d].rows]
  /\ dumper' = [dumper EXCEPT ![d] = [@ EXCEPT !.pc = "record", !.rows = NoRows, !.next = 0]]
  /\ UNCHANGED <<tenantVars, fileVars, catalog, torn, restored>>

\* Mutant: the row is written again by a retry that had succeeded.
BackupRecordTwice(d) ==
  /\ dumper[d].pc = "record"
  /\ catalog' = catalog \o <<dumper[d].backup, dumper[d].backup>>
  /\ dumper' = [dumper EXCEPT ![d].pc = "list"]
  /\ UNCHANGED <<tenantVars, fileVars, stored, content, torn, restored>>

BackupRecord(d) ==
  /\ dumper[d].pc = "record"
  /\ catalog' = Append(catalog, dumper[d].backup)
  /\ dumper' = [dumper EXCEPT ![d].pc = "list"]
  /\ UNCHANGED <<tenantVars, fileVars, stored, content, torn, restored>>

Newest(n) == {catalog[k] : k \in {i \in DOMAIN catalog : i > Len(catalog) - n}}

\* All but the newest: pruneOldBackups.
PruneList(d) ==
  /\ dumper[d].pc = "list"
  /\ dumper' = [dumper EXCEPT ![d] = [@ EXCEPT !.pc = "prune",
                                               !.stale = Range(catalog) \ Newest(Retention)]]
  /\ UNCHANGED <<tenantVars, fileVars, catalog, stored, content, torn, restored>>

PruneObject(d, b) ==
  /\ dumper[d].pc = "prune" /\ b \in dumper[d].stale
  /\ stored' = stored \ {b}
  /\ content' = [content EXCEPT ![b] = NoRows]
  /\ dumper' = [dumper EXCEPT ![d] = [@ EXCEPT !.pc = "delete", !.backup = b]]
  /\ UNCHANGED <<tenantVars, fileVars, catalog, torn, restored>>

\* Another run may have deleted the row first: then this one fails.
PruneRow(d) ==
  /\ dumper[d].pc = "delete"
  /\ \E i \in DOMAIN catalog :
       catalog[i] = dumper[d].backup /\ catalog' = RemoveAt(catalog, i)
  /\ dumper' = [dumper EXCEPT ![d] = [@ EXCEPT !.pc = "prune", !.backup = NoBackup,
                                               !.stale = dumper[d].stale \ {dumper[d].backup}]]
  /\ UNCHANGED <<tenantVars, fileVars, stored, content, torn, restored>>

\* Nothing left to prune, an error, or the death of the process.
BackupEnds(d) ==
  /\ dumper[d].pc # "idle"
  /\ dumper' = [dumper EXCEPT ![d] = IdleDump]
  /\ UNCHANGED <<tenantVars, fileVars, catalog, stored, content, torn, restored>>

(***************************************************************************)
(* restore-backup.ts                                                       *)
(***************************************************************************)
RowsOf(rows) == {r \in Row : rows[r].status # "absent"}

\* No foreign key of the dump dangles.
Closed(rows) == \A r \in RowsOf(rows) : ParentOf[r] \in RowsOf(rows)

\* One transaction empties every table and fills it from the dump.
Restore(b) ==
  LET rows == content[b] IN
  /\ restored < instance.restores
  /\ b \in Range(catalog) \cap stored
  /\ Closed(rows)
  /\ table' = rows
  /\ last' = [r \in Row |-> [text |-> rows[r].text, id |-> rows[r].key.id]]
  /\ overlapped' = overlapped \cup {r \in Row : Held(r)}
  /\ interrupted' = interrupted \cup {r \in FileRows : rows[r].status = "PENDING"}
  /\ missed' = missed \cup {r \in FileRows \cap RowsOf(rows) : ReadAlready(r)}
  /\ restored' = restored + 1
  /\ UNCHANGED <<instance, version, editor, sweeper, object, uploader, edition, check, eraser,
                 erased, crashes, dumper, catalog, stored, content>>

\* Rows created (or documents stored), or brought back, while tables are being
\* dumped.
TornNow == torn' = torn \cup {b \in Backup : Dumping(b) /\ ~(Present' \subseteq Present)}
Others == UNCHANGED <<dumper, catalog, stored, content, restored>>

Next ==
  \/ TenantNext /\ TornNow /\ Others /\ UNCHANGED fileVars
  \/ FilesNext /\ TornNow /\ Others
  \/ \E d \in Dumper :
       \/ BackupTable(d) \/ BackupPut(d) \/ BackupRecord(d) \/ PruneList(d) \/ PruneRow(d)
       \/ BackupEnds(d)
       \/ \E b \in Backup : BackupStart(d, b) \/ PruneObject(d, b)
  \/ \E b \in Backup : Restore(b) /\ TornNow

Spec == Init /\ [][Next]_dataVars

(***************************************************************************)
(* Properties                                                              *)
(***************************************************************************)
\* The newest backups keep their dumps, whatever runs prune at the same time
\* or die between a dump and its row; and each can be restored, although its
\* tables are read one after the other, unless a row was created meanwhile.
BackupsRestorable ==
  /\ Newest(Retention) \subseteq stored
  /\ \A b \in stored \ torn : Closed(content[b])

\* As many reports of an engagement and type have the same version as are
\* generated at the same time: the version is a count plus one.
VersionsBounded ==
  restored = 0 => \A q \in Files : KindOf[q] = "report" =>
    Cardinality({r \in Siblings(q) : edition[r] = edition[q]}) <= Cardinality(instance.uploaders)
=============================================================================

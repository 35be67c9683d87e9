------------------------------ MODULE Discovery ------------------------------
(***************************************************************************)
(* Attack-surface discovery and continuous watch of one verified root      *)
(* asset (src/src/modules/discovery and the scheduled-watch sweep in       *)
(* src/src/modules/internal).  A request or the sweep creates a job and    *)
(* launches its task in the same process; a watch task compares the known  *)
(* hosts with a fresh port scan and raises alerts, and both kinds of task  *)
(* record the hosts they did not know.  People review what was found.      *)
(***************************************************************************)
EXTENDS Integers, FiniteSets

CONSTANTS
  Starter,      \* concurrent POST .../discover and GET /internal/scheduled-watch requests
  Admin,        \* concurrent POST promote and ignore requests
  Job,          \* ids of DiscoveryJob rows
  Row,          \* ids of DiscoveredAsset rows
  NewAsset,     \* ids of the Asset rows that promotions create
  Host,         \* names under the root domain
  Output,       \* what nmap may print of a host: sets of [port, state, service]
  Instance,     \* the deployments to choose one from: the entry (server.ts, or api/index.ts
                \* on Vercel), and bounds: [sweepers, rows, hosts, jobs, outputs, reviews] and
                \* the numbers of database errors and of deaths of the process
  MaxCandidates,\* MAX_CANDIDATES
  NoJob, NoRow, NoHost, NoAsset

ASSUME DiscoveryAssumption ==
  /\ IsFiniteSet(Starter)
  /\ IsFiniteSet(Job) /\ IsFiniteSet(Row) /\ IsFiniteSet(Host)
  /\ IsFiniteSet(Admin) /\ IsFiniteSet(NewAsset)
  /\ NoJob \notin Job /\ NoRow \notin Row /\ NoHost \notin Host /\ NoAsset \notin NewAsset
  /\ \A in \in Instance : /\ in.entry \in {"server", "serverless"} /\ in.sweepers \subseteq Starter
                          /\ in.rows \subseteq Row /\ in.hosts \subseteq Host
                          /\ in.jobs \subseteq Job /\ in.outputs \subseteq Output
                          /\ in.reviews \in BOOLEAN
                          /\ in.faults \in Nat /\ in.crashes \in Nat

VARIABLES
  instance,  \* the bounds of this behaviour
  up,        \* the server process runs
  job,       \* the DiscoveryJob table
  starter,   \* requests and sweeps that start jobs
  task,      \* runDiscoveryJob and runWatchCycleJob, in memory
  row,       \* the DiscoveredAsset table
  alert,     \* the WatchAlert table, by discovered asset
  told,      \* the open ports of a row that its creation and its alerts so far add up to
  unsure,    \* ports a cycle alerted and died before it stored them, or stored over another's
  behind,    \* rows that another cycle has stored since this one read them
  origin,    \* the row each promoted Asset was made from
  review,    \* promotions and ignores in progress
  faults,    \* database errors so far
  crashes    \* deaths of the process so far

tables == <<job, row, alert, origin>>
history == <<told, unsure, behind>>
vars == <<instance, up, tables, history, starter, task, review, faults, crashes>>

Active == {"QUEUED", "RUNNING"}
Ports(surface) == {s.port : s \in surface}

\* parseGrepableOutput keeps the open ports.
Parsed(output) == {[port |-> e.port, service |-> e.service] : e \in {x \in output : x.state = "open"}}

\* What nmap leaves in its output file; its exit code is not looked at.  One that
\* cannot be started, or is killed at the runtime cap, reads as an empty file.
NmapFiles(outputs) == outputs \cup {{}}

\* scanPorts answers [] on any failure, and private addresses are not scanned.
Surfaces(outputs) == {Parsed(o) : o \in NmapFiles(outputs)}
Surface == Surfaces(Output)

Port == UNION {Ports(s) : s \in Surface}
Change == {"PORT_OPENED", "PORT_CLOSED", "SERVICE_CHANGED"} \X Port
NewHost == <<"NEW_SUBDOMAIN", 0>>
Alert == [about : Change \cup {NewHost}, acknowledged : BOOLEAN]

JobRow == [tool : {"none", "discover", "watch"}, status : {"none", "COMPLETE", "FAILED"} \cup Active]
FoundRow == [host : Host \cup {NoHost}, job : Job \cup {NoJob},
             status : {"none", "NEW", "PROMOTED", "IGNORED"},
             stored : Surface, promoted : NewAsset \cup {NoAsset}]
StarterState == [pc : {"idle", "clear", "queued"}, job : Job \cup {NoJob}]
TaskState == [pc : {"none", "starting", "listing", "rows", "alerting", "naming", "hosts",
                    "announcing", "failing"},
              todo : SUBSET Row, seen : [Row -> Surface], row : Row \cup {NoRow},
              fresh : Surface, owed : SUBSET Change, candidates : SUBSET Host,
              known : SUBSET Host]
ReviewState == [pc : {"idle", "promote", "link", "ignore"}, row : Row \cup {NoRow},
                asset : NewAsset \cup {NoAsset}]

NoneFound == [host |-> NoHost, job |-> NoJob, status |-> "none", stored |-> {}, promoted |-> NoAsset]
Idle == [pc |-> "idle", job |-> NoJob]
IdleReview == [pc |-> "idle", row |-> NoRow, asset |-> NoAsset]
NoTask == [pc |-> "none", todo |-> {}, seen |-> [r \in Row |-> {}], row |-> NoRow, fresh |-> {},
           owed |-> {}, candidates |-> {}, known |-> {}]

DiscoveryTypeOK ==
  /\ instance \in Instance
  /\ up \in BOOLEAN
  /\ job \in [Job -> JobRow]
  /\ starter \in [Starter -> StarterState]
  /\ task \in [Job -> TaskState]
  /\ row \in [Row -> FoundRow]
  /\ alert \in [Row -> SUBSET Alert]
  /\ told \in [Row -> SUBSET Port]
  /\ unsure \in [Row -> SUBSET Port]
  /\ behind \in [Job -> SUBSET Row]
  /\ origin \in [NewAsset -> Row \cup {NoRow}]
  /\ review \in [Admin -> ReviewState]
  /\ faults \in 0..instance.faults
  /\ crashes \in 0..instance.crashes

Init ==
  /\ instance \in Instance
  /\ up = TRUE
  /\ job = [j \in Job |-> [tool |-> "none", status |-> "none"]]
  /\ starter = [s \in Starter |-> Idle]
  /\ task = [j \in Job |-> NoTask]
  /\ row = [r \in Row |-> NoneFound]
  /\ alert = [r \in Row |-> {}]
  /\ told = [r \in Row |-> {}]
  /\ unsure = [r \in Row |-> {}]
  /\ behind = [j \in Job |-> {}]
  /\ origin = [x \in NewAsset |-> NoRow]
  /\ review = [a \in Admin |-> IdleReview]
  /\ faults = 0
  /\ crashes = 0

Found == {r \in Row : row[r].status # "none"}
HostsFound == {row[r].host : r \in Found}

(***************************************************************************)
(* Starting a job                                                          *)
(***************************************************************************)
\* Mutant: a queued job is not taken for running.
NoneActiveRunning == \A j \in Job : job[j].status # "RUNNING"

\* discoveryJob.findFirst with status QUEUED or RUNNING.
NoneActive == \A j \in Job : job[j].status \notin Active

\* POST .../discover past its gates, or the sweep at an eligible asset: nothing
\* is in progress.
CheckNoneActive(s) ==
  /\ up /\ starter[s].pc = "idle"
  /\ NoneActive
  /\ starter' = [starter EXCEPT ![s].pc = "clear"]
  /\ UNCHANGED <<instance, up, tables, history, task, review, faults, crashes>>

\* A fresh id.
FreeJobs == {j \in instance.jobs : job[j].status = "none"}
NewJob == CHOOSE j \in FreeJobs : TRUE

CreateJob(s) ==
  /\ starter[s].pc = "clear"
  /\ FreeJobs # {}
  /\ job' = [job EXCEPT ![NewJob] = [tool |-> IF s \in instance.sweepers THEN "watch" ELSE "discover",
                                     status |-> "QUEUED"]]
  /\ starter' = [starter EXCEPT ![s] = [pc |-> "queued", job |-> NewJob]]
  /\ UNCHANGED <<instance, up, history, task, row, alert, origin, review, faults, crashes>>

\* The usage event is recorded, then the task is launched and not awaited.
Launch(s) ==
  /\ starter[s].pc = "queued"
  /\ task' = [task EXCEPT ![starter[s].job] = [NoTask EXCEPT !.pc = "starting"]]
  /\ starter' = [starter EXCEPT ![s] = Idle]
  /\ UNCHANGED <<instance, up, tables, history, review, faults, crashes>>

Fault == faults < instance.faults /\ faults' = faults + 1

\* An error ends the request; a job it has created stays QUEUED.
StarterFault(s) ==
  /\ starter[s].pc # "idle"
  /\ Fault
  /\ starter' = [starter EXCEPT ![s] = Idle]
  /\ UNCHANGED <<instance, up, tables, history, task, review, crashes>>

(***************************************************************************)
(* The task of a job                                                       *)
(***************************************************************************)
TaskGoes(j, new) == task' = [task EXCEPT ![j] = new]

Ended(j, status) ==
  /\ job' = [job EXCEPT ![j].status = status]
  /\ TaskGoes(j, NoTask)
  /\ UNCHANGED <<instance, up, history, starter, row, alert, origin, review, faults, crashes>>

StartTask(j) ==
  /\ task[j].pc = "starting"
  /\ job' = [job EXCEPT ![j].status = "RUNNING"]
  /\ TaskGoes(j, [NoTask EXCEPT !.pc = IF job[j].tool = "watch" THEN "listing" ELSE "naming"])
  /\ UNCHANGED <<instance, up, history, starter, row, alert, origin, review, faults, crashes>>

\* Pass 1 of a watch: the rows that are not ignored are read once.
ListKnown(j) ==
  /\ task[j].pc = "listing"
  /\ LET known == {r \in Found : row[r].status # "IGNORED"}
     IN  TaskGoes(j, [NoTask EXCEPT !.pc = "rows", !.todo = known,
                                    !.seen = [r \in Row |-> IF r \in known THEN row[r].stored ELSE {}]])
  /\ UNCHANGED <<instance, up, tables, history, starter, review, faults, crashes>>

\* diffPorts.
Diff(previous, current) ==
  LET was == Ports(previous)  is == Ports(current)
  IN  {<<"PORT_OPENED", p>> : p \in is \ was}
        \cup {<<"PORT_CLOSED", p>> : p \in was \ is}
        \cup {<<"SERVICE_CHANGED", s.port>> : s \in {x \in current : x.port \in was /\ x \notin previous}}

\* Nothing is raised unless the set of open ports differs.
Owed(previous, current) == IF Ports(previous) = Ports(current) THEN {} ELSE Diff(previous, current)

RescanRow(j, r, surface) ==
  /\ task[j].pc = "rows" /\ r \in task[j].todo
  /\ TaskGoes(j, [task[j] EXCEPT !.pc = "alerting", !.todo = @ \ {r}, !.row = r,
                                 !.fresh = surface, !.owed = Owed(task[j].seen[r], surface)])
  /\ UNCHANGED <<instance, up, tables, history, starter, review, faults, crashes>>

Raise(r, about) ==
  alert' = [alert EXCEPT ![r] = @ \cup {[about |-> about, acknowledged |-> FALSE]}]

\* Who reads the alerts in order takes the port for open, or for closed, from now on.
Told(ports, change) ==
  CASE change[1] = "PORT_OPENED" -> ports \cup {change[2]}
    [] change[1] = "PORT_CLOSED" -> ports \ {change[2]}
    [] OTHER -> ports

\* One watchAlert.create per change, each a statement of its own.
RaiseChange(j, change) ==
  /\ task[j].pc = "alerting" /\ change \in task[j].owed
  /\ Raise(task[j].row, change)
  /\ told' = [told EXCEPT ![task[j].row] = Told(@, change)]
  /\ TaskGoes(j, [task[j] EXCEPT !.owed = @ \ {change}])
  /\ UNCHANGED <<instance, up, job, starter, row, origin, unsure, behind, review, faults, crashes>>

Differ(a, b) == (a \ b) \cup (b \ a)

\* Ports of its current row that a cycle t has alerted as opened or closed, and not stored yet.
Alerted(t) ==
  IF t.pc # "alerting" THEN {}
  ELSE {p \in Differ(Ports(t.seen[t.row]), Ports(t.fresh)) :
          <<"PORT_OPENED", p>> \notin t.owed /\ <<"PORT_CLOSED", p>> \notin t.owed}

\* Rows that a cycle has read and not stored yet.
Holding(t) == t.todo \cup (IF t.pc = "alerting" THEN {t.row} ELSE {})

\* The row r gets the surface of j's scan; other cycles that hold it are behind.
Store(j, r) ==
  /\ row' = [row EXCEPT ![r].stored = task[j].fresh]
  /\ unsure' = [unsure EXCEPT ![r] = Differ(told[r], Ports(task[j].fresh))
                                       \cap (IF r \in behind[j] THEN Port ELSE unsure[r])]
  /\ behind' = [i \in Job |-> IF i # j /\ r \in Holding(task[i]) THEN behind[i] \cup {r} ELSE behind[i]]
  /\ UNCHANGED <<instance, up, job, starter, alert, told, origin, review, faults, crashes>>

\* Mutant: the row is updated before its alerts are raised.
StoreScanFirst(j) ==
  /\ task[j].pc = "alerting"
  /\ Store(j, task[j].row)
  /\ TaskGoes(j, IF task[j].owed = {} THEN [task[j] EXCEPT !.pc = "rows", !.row = NoRow, !.fresh = {}]
                 ELSE task[j])

\* The row the next cycle compares with, after all alerts.
StoreScan(j) ==
  /\ task[j].pc = "alerting" /\ task[j].owed = {}
  /\ Store(j, task[j].row)
  /\ TaskGoes(j, [task[j] EXCEPT !.pc = "rows", !.row = NoRow, !.fresh = {}])

\* The rows left do not resolve (their last state is left as it is), or the
\* deadline has passed.
PassOneEnds(j) ==
  /\ task[j].pc = "rows"
  /\ TaskGoes(j, [NoTask EXCEPT !.pc = "naming"])
  /\ behind' = [behind EXCEPT ![j] = {}]
  /\ UNCHANGED <<instance, up, tables, told, unsure, starter, review, faults, crashes>>

\* What the certificate logs answer, none when the lookup fails.
CandidateSets == {c \in SUBSET instance.hosts : Cardinality(c) <= MaxCandidates}

\* The candidates, then the names that are recorded under the root, read once.
ReadNames(j, candidates) ==
  /\ task[j].pc = "naming"
  /\ TaskGoes(j, [NoTask EXCEPT !.pc = "hosts", !.candidates = candidates, !.known = HostsFound])
  /\ UNCHANGED <<instance, up, tables, history, starter, review, faults, crashes>>

\* A fresh id.
NewRow == CHOOSE r \in instance.rows \ Found : TRUE

RecordHost(j, h, surface) ==
  /\ task[j].pc = "hosts" /\ h \in task[j].candidates \ task[j].known
  /\ instance.rows \ Found # {}
  /\ row' = [row EXCEPT ![NewRow] = [host |-> h, job |-> j, status |-> "NEW", stored |-> surface,
                                     promoted |-> NoAsset]]
  /\ told' = [told EXCEPT ![NewRow] = Ports(surface)]
  /\ TaskGoes(j, IF job[j].tool = "watch"
                 THEN [task[j] EXCEPT !.pc = "announcing", !.candidates = @ \ {h}, !.row = NewRow]
                 ELSE [task[j] EXCEPT !.candidates = @ \ {h}])
  /\ UNCHANGED <<instance, up, job, starter, alert, origin, unsure, behind, review, faults, crashes>>

\* Only a watch announces a new host, after its row exists.
AnnounceHost(j) ==
  /\ task[j].pc = "announcing"
  /\ Raise(task[j].row, NewHost)
  /\ TaskGoes(j, [task[j] EXCEPT !.pc = "hosts", !.row = NoRow])
  /\ UNCHANGED <<instance, up, history, job, starter, row, origin, review, faults, crashes>>

\* The candidates left are known or do not resolve, or the deadline has passed.
CompleteJob(j) == task[j].pc = "hosts" /\ Ended(j, "COMPLETE")

\* Mutant: an outcome the enumeration does not have.
FailJobInterrupted(j) == task[j].pc = "failing" /\ Ended(j, "INTERRUPTED")

FailJob(j) == task[j].pc = "failing" /\ Ended(j, "FAILED")

\* What dying tasks have alerted and will not store.
Forgotten(dying) ==
  /\ unsure' = [r \in Row |-> unsure[r] \cup UNION {Alerted(task[j]) : j \in {i \in dying : task[i].row = r}}]
  /\ behind' = [j \in Job |-> IF j \in dying THEN {} ELSE behind[j]]
  /\ UNCHANGED told

\* Mutant: an error while a new host is announced is swallowed.
TaskFaultSwallowed(j) ==
  /\ task[j].pc \notin {"none", "failing"}
  /\ Fault
  /\ TaskGoes(j, [NoTask EXCEPT !.pc = IF task[j].pc = "announcing" THEN "hosts" ELSE "failing"])
  /\ Forgotten({j})
  /\ UNCHANGED <<instance, up, tables, starter, review, crashes>>

\* An error inside the task's try fails the job; before it, or in its handler,
\* it ends the task and leaves the job as it is.
TaskFault(j) ==
  /\ task[j].pc # "none"
  /\ Fault
  /\ \/ task[j].pc # "failing" /\ TaskGoes(j, [NoTask EXCEPT !.pc = "failing"])
     \/ task[j].pc = "failing" /\ TaskGoes(j, NoTask)
     \/ task[j].pc = "starting" /\ job[j].tool = "discover" /\ TaskGoes(j, NoTask)
  /\ Forgotten({j})
  /\ UNCHANGED <<instance, up, tables, starter, review, crashes>>

(***************************************************************************)
(* Review                                                                  *)
(***************************************************************************)
Acknowledge(r, x) ==
  /\ up /\ instance.reviews
  /\ x \in alert[r] /\ ~x.acknowledged
  /\ alert' = [alert EXCEPT ![r] = (@ \ {x}) \cup {[x EXCEPT !.acknowledged = TRUE]}]
  /\ UNCHANGED <<instance, up, history, job, row, origin, starter, task, review, faults, crashes>>

\* Mutant: any row can be reviewed.
ReadForReviewAny(a, r, decision) ==
  /\ up /\ instance.reviews /\ review[a].pc = "idle"
  /\ row[r].status # "none"
  /\ review' = [review EXCEPT ![a] = [IdleReview EXCEPT !.pc = decision, !.row = r]]
  /\ UNCHANGED <<instance, up, tables, history, starter, task, faults, crashes>>

\* Promote and ignore read the row and refuse one that was reviewed.
ReadForReview(a, r, decision) ==
  /\ up /\ instance.reviews /\ review[a].pc = "idle"
  /\ row[r].status = "NEW"
  /\ review' = [review EXCEPT ![a] = [IdleReview EXCEPT !.pc = decision, !.row = r]]
  /\ UNCHANGED <<instance, up, tables, history, starter, task, faults, crashes>>

\* A fresh id.
FreeAssets == {x \in NewAsset : origin[x] = NoRow}
CreatedAsset == CHOOSE x \in FreeAssets : TRUE

\* The Asset is created, UNVERIFIED,
CreateAsset(a) ==
  /\ review[a].pc = "promote"
  /\ FreeAssets # {}
  /\ origin' = [origin EXCEPT ![CreatedAsset] = review[a].row]
  /\ review' = [review EXCEPT ![a] = [@ EXCEPT !.pc = "link", !.asset = CreatedAsset]]
  /\ UNCHANGED <<instance, up, history, job, row, alert, starter, task, faults, crashes>>

\* then the row points to it.
LinkAsset(a) ==
  /\ review[a].pc = "link"
  /\ row' = [row EXCEPT ![review[a].row] = [@ EXCEPT !.status = "PROMOTED",
                                                     !.promoted = review[a].asset]]
  /\ review' = [review EXCEPT ![a] = IdleReview]
  /\ UNCHANGED <<instance, up, history, job, alert, origin, starter, task, faults, crashes>>

IgnoreRow(a) ==
  /\ review[a].pc = "ignore"
  /\ row' = [row EXCEPT ![review[a].row].status = "IGNORED"]
  /\ review' = [review EXCEPT ![a] = IdleReview]
  /\ UNCHANGED <<instance, up, history, job, alert, origin, starter, task, faults, crashes>>

ReviewFault(a) ==
  /\ review[a].pc # "idle"
  /\ Fault
  /\ review' = [review EXCEPT ![a] = IdleReview]
  /\ UNCHANGED <<instance, up, tables, history, starter, task, crashes>>

(***************************************************************************)
(* The process                                                             *)
(***************************************************************************)
Crash ==
  /\ up /\ up' = FALSE
  /\ crashes < instance.crashes /\ crashes' = crashes + 1
  /\ starter' = [s \in Starter |-> Idle]
  /\ task' = [j \in Job |-> NoTask]
  /\ review' = [a \in Admin |-> IdleReview]
  /\ Forgotten(Job)
  /\ UNCHANGED <<instance, tables, faults>>

\* Mutant: the boot sweep leaves queued jobs.
BootRunningOnly ==
  /\ ~up /\ up' = TRUE /\ instance.entry = "server"
  /\ job' = [j \in Job |-> IF job[j].status = "RUNNING" THEN [job[j] EXCEPT !.status = "FAILED"]
                           ELSE job[j]]
  /\ UNCHANGED <<instance, history, row, alert, origin, starter, task, review, faults, crashes>>

\* server.ts: failOrphanedDiscoveryJobs, then listen.
Boot ==
  /\ ~up /\ up' = TRUE /\ instance.entry = "server"
  /\ job' = [j \in Job |-> IF job[j].status \in Active THEN [job[j] EXCEPT !.status = "FAILED"]
                           ELSE job[j]]
  /\ UNCHANGED <<instance, history, row, alert, origin, starter, task, review, faults, crashes>>

\* An error of the boot sweep is logged and the server listens all the same.
BootFault ==
  /\ ~up /\ up' = TRUE /\ instance.entry = "server" /\ Fault
  /\ UNCHANGED <<instance, tables, history, starter, task, review, crashes>>

\* api/index.ts, which vercel.json schedules the watch on, answers without a sweep.
ColdStart ==
  /\ ~up /\ up' = TRUE /\ instance.entry = "serverless"
  /\ UNCHANGED <<instance, tables, history, starter, task, review, faults, crashes>>

TaskStep(j) ==
  \/ StartTask(j) \/ ListKnown(j) \/ StoreScan(j) \/ PassOneEnds(j)
  \/ \E s \in Surfaces(instance.outputs) : \/ \E r \in task[j].todo : RescanRow(j, r, s)
                                         \/ \E h \in Host : RecordHost(j, h, s)
  \/ \E change \in task[j].owed : RaiseChange(j, change)
  \/ \E c \in CandidateSets : ReadNames(j, c)
  \/ AnnounceHost(j) \/ CompleteJob(j) \/ FailJob(j)

StarterStep(s) == CreateJob(s) \/ Launch(s)

Next ==
  \/ \E s \in Starter : CheckNoneActive(s) \/ StarterStep(s) \/ StarterFault(s)
  \/ \E j \in Job : TaskStep(j) \/ TaskFault(j)
  \/ \E r \in Row : \/ \E x \in alert[r] : Acknowledge(r, x)
                    \/ \E a \in Admin, d \in {"promote", "ignore"} : ReadForReview(a, r, d)
  \/ \E a \in Admin : CreateAsset(a) \/ LinkAsset(a) \/ IgnoreRow(a) \/ ReviewFault(a)
  \/ Crash \/ Boot \/ BootFault \/ ColdStart

Spec == Init /\ [][Next]_vars

\* A launched task runs to its end: every await is a database call or has a
\* timeout, and a deadline ends each loop.  A server that died is started
\* again; nothing is assumed of a serverless function.  Nobody has to start a job or to review a row.
FairSpec == Spec /\ (\A j \in Job : WF_vars(TaskStep(j))) /\ (\A s \in Starter : WF_vars(StarterStep(s)))
                 /\ WF_vars(Boot)

(***************************************************************************)
(* Safety                                                                  *)
(***************************************************************************)
\* A host is recorded by at most as many rows as requests and sweeps can start
\* jobs at the same time: the check for a running job and the job's own
\* comparison with the recorded names are both reads before a create.
HostRowsBounded ==
  \A h \in Host : Cardinality({r \in Row : row[r].host = h}) <= Cardinality(Starter)

\* The alerts of a host add up to the ports the watch has stored of it: a port
\* that opens, closes or reopens, however often, is alerted each time.  They
\* differ at most in ports that a cycle has alerted and is about to store, has
\* alerted and died before it stored them, or has stored over a cycle that had
\* stored the row since it was read.  (What a scan reports may be wrong, and
\* changes of a service on the same ports are not alerted.)
PortChangesAlerted ==
  \A r \in Found :
    Differ(told[r], Ports(row[r].stored))
      \subseteq unsure[r] \cup UNION {Alerted(task[j]) : j \in {i \in Job : task[i].row = r}}

\* A watch that completed has announced every host it recorded; only a cycle
\* that failed can leave a host without its alert.
CompleteWatchAnnounced ==
  \A r \in Found :
    LET j == row[r].job
    IN  job[j].tool = "watch" /\ job[j].status = "COMPLETE" =>
          \E x \in alert[r] : x.about = NewHost

\* Without crashes and database errors, a discovered host becomes at most as
\* many Assets as people review at the same time.
AssetsPerRowBounded ==
  faults = 0 /\ crashes = 0 =>
    \A r \in Row : Cardinality({x \in NewAsset : origin[x] = r}) <= Cardinality(Admin)

(***************************************************************************)
(* Liveness                                                                *)
(***************************************************************************)
\* While the database answers, a job ends, in a server that may die at any
\* moment: the asset is not blocked for ever by "already in progress".  On
\* Vercel a job whose function died stays active, and blocks its asset.
JobsEnd ==
  \A j \in Job : job[j].status \in Active ~>
    \/ job[j].status \notin Active
    \/ faults > 0
    \/ instance.entry = "serverless" /\ crashes > 0
=============================================================================

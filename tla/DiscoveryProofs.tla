--------------------------- MODULE DiscoveryProofs ---------------------------
(***************************************************************************)
(* Proofs about Discovery: its type invariant and its four safety          *)
(* properties, for any numbers of requests, sweeps, jobs, rows and faults. *)
(***************************************************************************)
EXTENDS Discovery, FiniteSetTheorems, TLAPS

(***************************************************************************)
(* The inductive invariant, in four parts: jobs with their tasks and the   *)
(* rows they record, ports with their alerts, the number of rows of a host, *)
(* and the number of Assets of a row.                                      *)
(***************************************************************************)
RowsOf(h) == {r \in Row : row[r].host = h}
Raised(r) == {x.about : x \in alert[r]}
BeforeHosts == {"starting", "listing", "rows", "alerting", "naming"}

DownIsIdle == ~up => (\A j \in Job : task[j].pc = "none") /\ (\A s \in Starter : starter[s].pc = "idle")

\* A request that has created its job is the only one that will launch it.
QueuedJobs ==
  /\ \A s \in Starter : starter[s].pc = "queued" =>
       LET j == starter[s].job
       IN  j \in Job /\ job[j].status = "QUEUED" /\ task[j].pc = "none" /\ \A r \in Row : row[r].job # j
  /\ \A s, t \in Starter : starter[s].pc = "queued" /\ starter[t].pc = "queued"
                             /\ starter[s].job = starter[t].job => s = t

LiveTasks == \A j \in Job : task[j].pc # "none" => job[j].status \in Active

RowsOfJobs ==
  \A r \in Row : /\ row[r].status = "none" <=> row[r].host = NoHost
                 /\ row[r].status # "none" => row[r].job \in Job /\ job[row[r].job].status # "none"
                 /\ row[r].status = "none" => row[r].job = NoJob

RowsComeLate == \A j \in Job : task[j].pc \in BeforeHosts => \A r \in Row : row[r].job # j

\* A new host of a watch is announced, or is about to be, or its job will not complete.
Announced ==
  \A r \in Found :
    LET j == row[r].job
    IN  job[j].tool = "watch" =>
          \/ NewHost \in Raised(r)
          \/ task[j].pc = "announcing" /\ task[j].row = r
          \/ task[j].pc \in {"none", "failing"} /\ job[j].status # "COMPLETE"

JobsIInv == DownIsIdle /\ QueuedJobs /\ LiveTasks /\ RowsOfJobs /\ RowsComeLate /\ Announced

\* Ports of a row for which the alerts and what is stored may differ.
AddsUp ==
  \A r \in Found : \A p \in Differ(told[r], Ports(row[r].stored)) :
    p \in unsure[r] \/ \E i \in Job : task[i].row = r /\ p \in Alerted(task[i])

\* A cycle compares with what is stored now, unless it is behind.
Reading(j) ==
  /\ task[j].pc \notin {"rows", "alerting"} => task[j].todo = {} /\ behind[j] = {}
  /\ \A r \in task[j].todo : r \in Found /\ (r \in behind[j] \/ task[j].seen[r] = row[r].stored)
  /\ task[j].pc = "alerting" =>
       LET r == task[j].row
       IN  /\ r \in Found /\ r \notin task[j].todo
           /\ task[j].owed \subseteq Owed(task[j].seen[r], task[j].fresh)
           /\ r \in behind[j] \/ task[j].seen[r] = row[r].stored
  /\ task[j].pc = "announcing" => task[j].row \in Found

\* What it has alerted is what its scan found, unless another cycle has alerted the port too.
Telling(j) ==
  task[j].pc = "alerting" /\ task[j].row \notin behind[j] =>
    \A p \in Alerted(task[j]) :
      \/ p \in told[task[j].row] <=> p \in Ports(task[j].fresh)
      \/ p \in unsure[task[j].row]
      \/ \E i \in Job \ {j} : task[i].row = task[j].row /\ p \in Alerted(task[i])

PortsIInv == AddsUp /\ \A j \in Job : Reading(j) /\ Telling(j)

Clear == {s \in Starter : starter[s].pc = "clear"}
ActiveJobs == {j \in Job : job[j].status \in Active}
\* The tasks that may still record the host.
MayRecord(h) == {j \in Job : /\ task[j].pc \in {"hosts", "announcing"}
                             /\ h \in task[j].candidates \ task[j].known}

HostsIInv ==
  /\ Cardinality(Clear) + Cardinality(ActiveJobs) <= Cardinality(Starter)
  /\ \A h \in Host : RowsOf(h) # {} =>
       Cardinality(RowsOf(h)) + Cardinality(MayRecord(h)) <= Cardinality(Starter)

AssetsOf(r) == {x \in NewAsset : origin[x] = r}
Promoting(r) == {a \in Admin : review[a].pc = "promote" /\ review[a].row = r}
Linking(r) == {a \in Admin : review[a].pc = "link" /\ review[a].row = r}

ReviewIInv ==
  /\ \A r \in Row : row[r].status = "none" =>
       AssetsOf(r) = {} /\ \A a \in Admin : review[a].pc # "idle" => review[a].row # r
  /\ \A a \in Admin : review[a].pc # "idle" => review[a].row \in Row
  /\ faults = 0 /\ crashes = 0 => \A r \in Row :
       /\ row[r].status = "NEW" => Cardinality(AssetsOf(r)) = Cardinality(Linking(r))
       /\ Cardinality(AssetsOf(r)) + Cardinality(Promoting(r)) <= Cardinality(Admin)
(***************************************************************************)
(* Types                                                                   *)
(***************************************************************************)
LEMMA EmptySurface == {} \in Surface /\ \A in \in Instance : Surfaces(in.outputs) \subseteq Surface
<1>1. Parsed({}) = {}  BY DEF Parsed
<1>2. {} \in Surface  BY <1>1 DEF Surface, Surfaces, NmapFiles
<1>3. ASSUME NEW in \in Instance PROVE Surfaces(in.outputs) \subseteq Surface
  <2>1. in.outputs \subseteq Output  BY DiscoveryAssumption
  <2>2. QED  BY <2>1 DEF Surface, Surfaces, NmapFiles
<1>4. QED  BY <1>2, <1>3

LEMMA PortsOfSurface == \A surface \in Surface : Ports(surface) \subseteq Port
BY DEF Port

LEMMA OwedAreChanges ==
  ASSUME NEW previous \in Surface, NEW current \in Surface
  PROVE  Owed(previous, current) \subseteq Change
<1>1. Ports(previous) \subseteq Port /\ Ports(current) \subseteq Port  BY PortsOfSurface
<1>2. \A x \in current : x.port \in Port  BY <1>1 DEF Ports
<1>3. \A k \in {"PORT_OPENED", "PORT_CLOSED", "SERVICE_CHANGED"}, p \in Port : <<k, p>> \in Change
  BY DEF Change
<1>4. Diff(previous, current) \subseteq Change
  <2>1. {<<"PORT_OPENED", p>> : p \in Ports(current) \ Ports(previous)} \subseteq Change  BY <1>1, <1>3
  <2>2. {<<"PORT_CLOSED", p>> : p \in Ports(previous) \ Ports(current)} \subseteq Change  BY <1>1, <1>3
  <2>3. {<<"SERVICE_CHANGED", s.port>> : s \in {x \in current : x.port \in Ports(previous) /\ x \notin previous}}
          \subseteq Change  BY <1>2, <1>3
  <2>4. QED  BY <2>1, <2>2, <2>3 DEF Diff
<1>5. QED  BY <1>4 DEF Owed

LEMMA NoTaskType ==
  ASSUME NEW pc \in {"none", "starting", "rows", "listing", "naming", "hosts", "failing"}
  PROVE  [NoTask EXCEPT !.pc = pc] \in TaskState
BY EmptySurface DEF NoTask, TaskState

\* Replacing the state of one task.
LEMMA TaskGoesType ==
  ASSUME task \in [Job -> TaskState], NEW j \in Job, NEW new \in TaskState, TaskGoes(j, new)
  PROVE  task' \in [Job -> TaskState]
BY DEF TaskGoes

LEMMA FreshRow ==
  ASSUME DiscoveryTypeOK, instance.rows \ Found # {}
  PROVE  NewRow \in Row /\ row[NewRow].status = "none"
<1>1. NewRow \in instance.rows \ Found  BY DEF NewRow
<1>2. QED  BY <1>1, DiscoveryAssumption DEF Found, DiscoveryTypeOK

LEMMA FreshJob ==
  ASSUME DiscoveryTypeOK, FreeJobs # {}
  PROVE  NewJob \in Job /\ job[NewJob].status = "none"
<1>1. NewJob \in FreeJobs  BY DEF NewJob
<1>2. QED  BY <1>1, DiscoveryAssumption DEF FreeJobs, DiscoveryTypeOK

LEMMA FreshAsset ==
  ASSUME FreeAssets # {}
  PROVE  CreatedAsset \in NewAsset /\ origin[CreatedAsset] = NoRow
BY DEF CreatedAsset, FreeAssets

LEMMA InitType == Init => DiscoveryTypeOK
BY EmptySurface, DiscoveryAssumption
   DEF Init, DiscoveryTypeOK, JobRow, FoundRow, StarterState, TaskState, ReviewState, NoneFound, Idle,
       IdleReview, NoTask

LEMMA FaultType ==
  ASSUME DiscoveryTypeOK, Fault
  PROVE  faults' \in 0..instance.faults
<1>1. instance.faults \in Nat  BY DiscoveryAssumption DEF DiscoveryTypeOK
<1>2. QED  BY <1>1 DEF Fault, DiscoveryTypeOK

LEMMA StarterType ==
  ASSUME DiscoveryTypeOK, NEW s \in Starter, CheckNoneActive(s) \/ StarterStep(s) \/ StarterFault(s)
  PROVE  DiscoveryTypeOK'
<1>1. CASE CheckNoneActive(s)
  BY <1>1 DEF CheckNoneActive, DiscoveryTypeOK, tables, history, StarterState
<1>2. CASE CreateJob(s)
  <2>1. NewJob \in Job  BY <1>2, FreshJob DEF CreateJob
  <2>2. QED  BY <1>2, <2>1 DEF CreateJob, DiscoveryTypeOK, history, StarterState, JobRow, Active
<1>3. CASE Launch(s)
  <2>1. [NoTask EXCEPT !.pc = "starting"] \in TaskState  BY NoTaskType
  <2>2. task' \in [Job -> TaskState]  BY <1>3, <2>1 DEF Launch, DiscoveryTypeOK
  <2>3. starter' \in [Starter -> StarterState]  BY <1>3 DEF Launch, DiscoveryTypeOK, StarterState, Idle
  <2>4. QED  BY <1>3, <2>2, <2>3 DEF Launch, DiscoveryTypeOK, tables, history
<1>4. CASE StarterFault(s)
  <2>1. faults' \in 0..instance.faults  BY <1>4, FaultType DEF StarterFault
  <2>2. QED  BY <1>4, <2>1 DEF StarterFault, DiscoveryTypeOK, tables, history, StarterState, Idle
<1>5. QED  BY <1>1, <1>2, <1>3, <1>4 DEF StarterStep

\* A step of a task that keeps the tables.
LEMMA TaskOnlyType ==
  ASSUME DiscoveryTypeOK, NEW j \in Job, NEW new \in TaskState, TaskGoes(j, new),
         UNCHANGED <<instance, up, tables, history, starter, review, faults, crashes>>
  PROVE  DiscoveryTypeOK'
<1>1. task' \in [Job -> TaskState]  BY TaskGoesType DEF DiscoveryTypeOK
<1>2. QED  BY <1>1 DEF DiscoveryTypeOK, tables, history

LEMMA RaiseType ==
  ASSUME DiscoveryTypeOK, NEW r, NEW about \in Change \cup {NewHost}, Raise(r, about)
  PROVE  alert' \in [Row -> SUBSET Alert]
<1> DEFINE x == [about |-> about, acknowledged |-> FALSE]
<1>1. x \in Alert  BY DEF Alert
<1> HIDE DEF x
<1>2. alert' = [alert EXCEPT ![r] = @ \cup {x}]  BY DEF Raise, x
<1>3. alert \in [Row -> SUBSET Alert]  BY DEF DiscoveryTypeOK
<1>4. ASSUME NEW q \in Row PROVE alert'[q] \in SUBSET Alert
  <2>1. alert[q] \in SUBSET Alert  BY <1>3
  <2>2. alert'[q] = alert[q] \/ alert'[q] = alert[q] \cup {x}  BY <1>2, <1>3
  <2>3. QED  BY <2>1, <2>2, <1>1
<1>5. alert' = [q \in Row |-> alert'[q]]  BY <1>2, <1>3
<1>6. QED  BY <1>4, <1>5

\* The history of the ports.
LEMMA ToldType ==
  ASSUME DiscoveryTypeOK, NEW r, NEW change \in Change, told' = [told EXCEPT ![r] = Told(@, change)]
  PROVE  told' \in [Row -> SUBSET Port]
<1>1. change[2] \in Port  BY DEF Change
<1>2. \A q \in Row : Told(told[q], change) \in SUBSET Port  BY <1>1 DEF Told, DiscoveryTypeOK
<1>3. QED  BY <1>2 DEF DiscoveryTypeOK

LEMMA AlertedType ==
  ASSUME NEW t \in TaskState, t.row \in Row
  PROVE  Alerted(t) \in SUBSET Port
<1>1. t.seen[t.row] \in Surface /\ t.fresh \in Surface  BY DEF TaskState
<1>2. Ports(t.seen[t.row]) \subseteq Port /\ Ports(t.fresh) \subseteq Port  BY <1>1, PortsOfSurface
<1>3. QED  BY <1>2 DEF Alerted, Differ

LEMMA StoreType ==
  ASSUME DiscoveryTypeOK, NEW j \in Job, task[j].row \in Row, Store(j, task[j].row)
  PROVE  unsure' \in [Row -> SUBSET Port] /\ behind' \in [Job -> SUBSET Row]
<1> DEFINE q == task[j].row
           left == Differ(told[q], Ports(task[j].fresh)) \cap (IF q \in behind[j] THEN Port ELSE unsure[q])
<1>1. unsure[q] \in SUBSET Port  BY DEF DiscoveryTypeOK
<1>2. left \in SUBSET Port  BY <1>1
<1>3. unsure' = [unsure EXCEPT ![q] = left]  BY DEF Store
<1>4. behind' = [i \in Job |-> IF i # j /\ q \in Holding(task[i]) THEN behind[i] \cup {q} ELSE behind[i]]
  BY DEF Store
<1> HIDE DEF q, left
<1>5. q \in Row  BY DEF q
<1>6. QED  BY <1>2, <1>3, <1>4, <1>5 DEF DiscoveryTypeOK

LEMMA ForgottenType ==
  ASSUME DiscoveryTypeOK, NEW dying, Forgotten(dying), dying \subseteq Job
  PROVE  UNCHANGED told /\ unsure' \in [Row -> SUBSET Port] /\ behind' \in [Job -> SUBSET Row]
<1>1. ASSUME NEW r \in Row, NEW i \in dying, task[i].row = r PROVE Alerted(task[i]) \in SUBSET Port
  <2>1. task[i] \in TaskState  BY DEF DiscoveryTypeOK
  <2>2. QED  BY <2>1, <1>1, AlertedType
<1>2. \A r \in Row : UNION {Alerted(task[j]) : j \in {i \in dying : task[i].row = r}} \in SUBSET Port
  BY <1>1
<1>3. QED  BY <1>2 DEF Forgotten, DiscoveryTypeOK

LEMMA FoundRowType ==
  ASSUME NEW f \in FoundRow
  PROVE  /\ \A surface \in Surface : [f EXCEPT !.stored = surface] \in FoundRow
         /\ \A asset \in NewAsset \cup {NoAsset} :
              [f EXCEPT !.status = "PROMOTED", !.promoted = asset] \in FoundRow
BY DEF FoundRow

LEMMA TaskType ==
  ASSUME DiscoveryTypeOK, RowsOfJobs, PortsIInv, NEW j \in Job, TaskStep(j)
  PROVE  DiscoveryTypeOK'
<1> DEFINE t == task[j]
<1>t. t \in TaskState  BY DEF DiscoveryTypeOK
<1> USE DEF DiscoveryTypeOK
<1>1. CASE StartTask(j)
  <2> DEFINE pc == IF job[j].tool = "watch" THEN "listing" ELSE "naming"
  <2>1. [NoTask EXCEPT !.pc = pc] \in TaskState  BY NoTaskType
  <2>2. task' \in [Job -> TaskState]  BY <1>1, <2>1, TaskGoesType DEF StartTask
  <2>3. QED  BY <1>1, <2>2 DEF StartTask, JobRow, Active, history
<1>2. CASE ListKnown(j)
  <2> DEFINE known == {r \in Found : row[r].status # "IGNORED"}
             seen == [r \in Row |-> IF r \in known THEN row[r].stored ELSE {}]
  <2>1. known \subseteq Row  BY DEF Found
  <2>2. seen \in [Row -> Surface]  BY <2>1, EmptySurface DEF FoundRow
  <2>3. [NoTask EXCEPT !.pc = "rows", !.todo = known, !.seen = seen] \in TaskState
    BY <2>1, <2>2, EmptySurface DEF NoTask, TaskState
  <2>4. TaskGoes(j, [NoTask EXCEPT !.pc = "rows", !.todo = known, !.seen = seen])
    BY <1>2 DEF ListKnown
  <2>5. QED  BY <1>2, <2>3, <2>4, TaskOnlyType DEF ListKnown
<1>3. ASSUME NEW r \in t.todo, NEW surface \in Surfaces(instance.outputs), RescanRow(j, r, surface)
      PROVE  DiscoveryTypeOK'
  <2>1. r \in Row /\ t.seen[r] \in Surface /\ surface \in Surface
    BY <1>t, EmptySurface DEF TaskState
  <2>2. Owed(t.seen[r], surface) \in SUBSET Change  BY <2>1, OwedAreChanges
  <2>3. [t EXCEPT !.pc = "alerting", !.todo = @ \ {r}, !.row = r, !.fresh = surface,
                  !.owed = Owed(t.seen[r], surface)] \in TaskState
    BY <1>t, <2>1, <2>2 DEF TaskState
  <2>4. QED  BY <1>3, <2>3, TaskOnlyType DEF RescanRow
<1>4. ASSUME NEW change \in t.owed, RaiseChange(j, change) PROVE DiscoveryTypeOK'
  <2>1. change \in Change  BY <1>t DEF TaskState
  <2>2. alert' \in [Row -> SUBSET Alert]  BY <1>4, <2>1, RaiseType DEF RaiseChange
  <2>3. [t EXCEPT !.owed = @ \ {change}] \in TaskState  BY <1>t DEF TaskState
  <2>4. task' \in [Job -> TaskState]  BY <1>4, <2>3, TaskGoesType DEF RaiseChange
  <2>5. told' \in [Row -> SUBSET Port]  BY <1>4, <2>1, ToldType DEF RaiseChange
  <2>6. QED  BY <1>4, <2>2, <2>4, <2>5 DEF RaiseChange
<1>5. CASE StoreScan(j)
  <2> DEFINE q == t.row
  <2>0. t.fresh \in Surface  BY <1>t DEF TaskState
  <2> HIDE DEF t
  <2>1. row' \in [Row -> FoundRow]
    <3>1. row' = [row EXCEPT ![q].stored = t.fresh]  BY <1>5 DEF StoreScan, Store, t
    <3> HIDE DEF q
    <3>2. \A r \in Row : [row[r] EXCEPT !.stored = t.fresh] \in FoundRow
      <4>1. \A r \in Row : row[r] \in FoundRow  OBVIOUS
      <4>2. QED  BY <2>0, <4>1, FoundRowType
    <3>3. \A r \in Row : row'[r] \in FoundRow  BY <3>1, <3>2
    <3>4. row' = [r \in Row |-> row'[r]]  BY <3>1
    <3>5. QED  BY <3>3, <3>4
  <2> USE DEF t
  <2>2. [t EXCEPT !.pc = "rows", !.row = NoRow, !.fresh = {}] \in TaskState
    BY <1>t, EmptySurface DEF TaskState
  <2>3. task' \in [Job -> TaskState]  BY <1>5, <2>2, TaskGoesType DEF StoreScan
  <2>4. unsure' \in [Row -> SUBSET Port] /\ behind' \in [Job -> SUBSET Row]
    <3>1. task[j].row \in Row  BY <1>5 DEF StoreScan, PortsIInv, Reading, Found
    <3>2. QED  BY <1>5, <3>1, StoreType DEF StoreScan
  <2>5. QED  BY <1>5, <2>1, <2>3, <2>4 DEF StoreScan, Store
<1>6. CASE PassOneEnds(j)
  <2>1. [NoTask EXCEPT !.pc = "naming"] \in TaskState  BY NoTaskType
  <2>2. task' \in [Job -> TaskState]  BY <1>6, <2>1, TaskGoesType DEF PassOneEnds
  <2>3. QED  BY <1>6, <2>2 DEF PassOneEnds, tables
<1>7. ASSUME NEW c \in CandidateSets, ReadNames(j, c) PROVE DiscoveryTypeOK'
  <2>1. c \in SUBSET Host  BY DiscoveryAssumption DEF CandidateSets
  <2>3. HostsFound \in SUBSET Host  BY DEF HostsFound, Found, RowsOfJobs, FoundRow
  <2>4. [NoTask EXCEPT !.pc = "hosts", !.candidates = c, !.known = HostsFound] \in TaskState
    BY <2>1, <2>3, EmptySurface DEF NoTask, TaskState
  <2>5. QED  BY <1>7, <2>4, TaskOnlyType DEF ReadNames
<1>8. ASSUME NEW h \in Host, NEW surface \in Surfaces(instance.outputs), RecordHost(j, h, surface)
      PROVE  DiscoveryTypeOK'
  <2>1. NewRow \in Row  BY <1>8, FreshRow DEF RecordHost
  <2>2. surface \in Surface  BY EmptySurface
  <2>3. row' \in [Row -> FoundRow]  BY <1>8, <2>1, <2>2 DEF RecordHost, FoundRow
  <2> DEFINE new == IF job[j].tool = "watch"
                    THEN [t EXCEPT !.pc = "announcing", !.candidates = @ \ {h}, !.row = NewRow]
                    ELSE [t EXCEPT !.candidates = @ \ {h}]
  <2>4. new \in TaskState  BY <1>t, <2>1 DEF TaskState
  <2>5. task' \in [Job -> TaskState]  BY <1>8, <2>4, TaskGoesType DEF RecordHost
  <2>6. told' \in [Row -> SUBSET Port]  BY <1>8, <2>2, PortsOfSurface DEF RecordHost
  <2>7. QED  BY <1>8, <2>3, <2>5, <2>6 DEF RecordHost
<1>9. CASE AnnounceHost(j)
  <2>1. alert' \in [Row -> SUBSET Alert]  BY <1>9, RaiseType DEF AnnounceHost
  <2>2. [t EXCEPT !.pc = "hosts", !.row = NoRow] \in TaskState  BY <1>t DEF TaskState
  <2>3. task' \in [Job -> TaskState]  BY <1>9, <2>2, TaskGoesType DEF AnnounceHost
  <2>4. QED  BY <1>9, <2>1, <2>3 DEF AnnounceHost, history
<1>10. ASSUME NEW status \in {"COMPLETE", "FAILED"}, Ended(j, status) PROVE DiscoveryTypeOK'
  <2>1. NoTask \in TaskState  BY EmptySurface DEF NoTask, TaskState
  <2>2. task' \in [Job -> TaskState]  BY <1>10, <2>1, TaskGoesType DEF Ended
  <2>3. QED  BY <1>10, <2>2 DEF Ended, JobRow, history
<1>11. QED
  BY <1>1, <1>2, <1>3, <1>4, <1>5, <1>6, <1>7, <1>8, <1>9, <1>10 DEF TaskStep, CompleteJob, FailJob

LEMMA TaskFaultType ==
  ASSUME DiscoveryTypeOK, NEW j \in Job, TaskFault(j)
  PROVE  DiscoveryTypeOK'
<1>1. faults' \in 0..instance.faults  BY FaultType DEF TaskFault
<1>2. NoTask \in TaskState /\ [NoTask EXCEPT !.pc = "failing"] \in TaskState
  <2>1. NoTask \in TaskState  BY EmptySurface DEF NoTask, TaskState
  <2>2. QED  BY <2>1, NoTaskType
<1>3. TaskGoes(j, NoTask) \/ TaskGoes(j, [NoTask EXCEPT !.pc = "failing"])  BY DEF TaskFault
<1>4. task' \in [Job -> TaskState]  BY <1>2, <1>3 DEF TaskGoes, DiscoveryTypeOK
<1>5. QED  BY <1>1, <1>4, ForgottenType DEF TaskFault, DiscoveryTypeOK, tables

LEMMA ReviewType ==
  ASSUME DiscoveryTypeOK, NEW a \in Admin,
         \/ \E r \in Row, d \in {"promote", "ignore"} : ReadForReview(a, r, d)
         \/ CreateAsset(a) \/ LinkAsset(a) \/ IgnoreRow(a) \/ ReviewFault(a)
  PROVE  DiscoveryTypeOK'
<1> USE DEF DiscoveryTypeOK
<1>1. ASSUME NEW r \in Row, NEW d \in {"promote", "ignore"}, ReadForReview(a, r, d)
      PROVE  DiscoveryTypeOK'
  BY <1>1 DEF ReadForReview, tables, history, ReviewState, IdleReview
<1>2. CASE CreateAsset(a)
  <2>1. CreatedAsset \in NewAsset  BY <1>2, FreshAsset DEF CreateAsset
  <2>2. review[a].row \in Row \cup {NoRow}  BY DEF ReviewState
  <2>3. review' \in [Admin -> ReviewState]  BY <1>2, <2>1 DEF CreateAsset, ReviewState
  <2>4. origin' \in [NewAsset -> Row \cup {NoRow}]  BY <1>2, <2>2 DEF CreateAsset
  <2>5. QED  BY <1>2, <2>3, <2>4 DEF CreateAsset, history
<1>3. CASE LinkAsset(a)
  <2>1. review[a] \in ReviewState  OBVIOUS
  <2>2. row' \in [Row -> FoundRow]
    <3> DEFINE q == review[a].row
               asset == review[a].asset
    <3>1. row' = [row EXCEPT ![q] = [@ EXCEPT !.status = "PROMOTED", !.promoted = asset]]
      BY <1>3 DEF LinkAsset
    <3>2. asset \in NewAsset \cup {NoAsset}  BY <2>1 DEF ReviewState
    <3> HIDE DEF q, asset
    <3>3. \A r \in Row : [row[r] EXCEPT !.status = "PROMOTED", !.promoted = asset] \in FoundRow
      <4>1. \A r \in Row : row[r] \in FoundRow  OBVIOUS
      <4>2. QED  BY <3>2, <4>1, FoundRowType
    <3>4. \A r \in Row : row'[r] \in FoundRow  BY <3>1, <3>3
    <3>5. row' = [r \in Row |-> row'[r]]  BY <3>1
    <3>6. QED  BY <3>4, <3>5
  <2>3. review' \in [Admin -> ReviewState]  BY <1>3 DEF LinkAsset, ReviewState, IdleReview
  <2>4. QED  BY <1>3, <2>2, <2>3 DEF LinkAsset, history
<1>4. CASE IgnoreRow(a)
  <2>1. row' \in [Row -> FoundRow]
    <3> DEFINE q == review[a].row
    <3>1. row' = [row EXCEPT ![q].status = "IGNORED"]  BY <1>4 DEF IgnoreRow
    <3> HIDE DEF q
    <3>2. \A r \in Row : [row[r] EXCEPT !.status = "IGNORED"] \in FoundRow  BY DEF FoundRow
    <3>3. \A r \in Row : row'[r] \in FoundRow  BY <3>1, <3>2
    <3>4. row' = [r \in Row |-> row'[r]]  BY <3>1
    <3>5. QED  BY <3>3, <3>4
  <2>2. review' \in [Admin -> ReviewState]  BY <1>4 DEF IgnoreRow, ReviewState, IdleReview
  <2>3. QED  BY <1>4, <2>1, <2>2 DEF IgnoreRow, history
<1>5. CASE ReviewFault(a)
  <2>1. faults' \in 0..instance.faults  BY <1>5, FaultType DEF ReviewFault
  <2>2. QED  BY <1>5, <2>1 DEF ReviewFault, tables, history, ReviewState, IdleReview
<1>6. QED  BY <1>1, <1>2, <1>3, <1>4, <1>5

LEMMA AcknowledgeType ==
  ASSUME DiscoveryTypeOK, NEW r \in Row, NEW x \in alert[r], Acknowledge(r, x)
  PROVE  DiscoveryTypeOK'
<1>1. alert[r] \in SUBSET Alert /\ x \in Alert  BY DEF DiscoveryTypeOK
<1>2. [x EXCEPT !.acknowledged = TRUE] \in Alert  BY <1>1 DEF Alert
<1>3. (alert[r] \ {x}) \cup {[x EXCEPT !.acknowledged = TRUE]} \in SUBSET Alert  BY <1>1, <1>2
<1>4. alert' \in [Row -> SUBSET Alert]  BY <1>3 DEF Acknowledge, DiscoveryTypeOK
<1>5. QED  BY <1>4 DEF Acknowledge, DiscoveryTypeOK, history

LEMMA ProcessType ==
  ASSUME DiscoveryTypeOK, Crash \/ Boot \/ BootFault \/ ColdStart
  PROVE  DiscoveryTypeOK'
<1> USE DEF DiscoveryTypeOK
<1>1. CASE Crash
  <2>1. instance.crashes \in Nat  BY DiscoveryAssumption
  <2>2. crashes' \in 0..instance.crashes  BY <1>1, <2>1 DEF Crash
  <2>3. NoTask \in TaskState  BY EmptySurface DEF NoTask, TaskState
  <2>4. task' \in [Job -> TaskState]  BY <1>1, <2>3 DEF Crash
  <2>5. starter' \in [Starter -> StarterState]  BY <1>1 DEF Crash, StarterState, Idle
  <2>6. review' \in [Admin -> ReviewState]  BY <1>1 DEF Crash, ReviewState, IdleReview
  <2>7. QED  BY <1>1, <2>2, <2>4, <2>5, <2>6, ForgottenType DEF Crash, tables
<1>2. CASE Boot
  <2>1. job' \in [Job -> JobRow]  BY <1>2 DEF Boot, JobRow
  <2>2. QED  BY <1>2, <2>1 DEF Boot, history
<1>3. CASE BootFault
  <2>1. faults' \in 0..instance.faults  BY <1>3, FaultType DEF BootFault
  <2>2. QED  BY <1>3, <2>1 DEF BootFault, tables, history
<1>4. CASE ColdStart  BY <1>4 DEF ColdStart, tables, history
<1>5. QED  BY <1>1, <1>2, <1>3, <1>4

(***************************************************************************)
(* What a step keeps of the rows and of the alerts                         *)
(***************************************************************************)
SameRows ==
  /\ Found' = Found
  /\ \A r \in Row : /\ row'[r].host = row[r].host /\ row'[r].job = row[r].job
                    /\ row'[r].status = "none" <=> row[r].status = "none"

RaisedKept == \A r \in Row : Raised(r) \subseteq Raised(r)'

ReviewStep ==
  \/ \E r \in Row : \/ \E x \in alert[r] : Acknowledge(r, x)
                    \/ \E a \in Admin, d \in {"promote", "ignore"} : ReadForReview(a, r, d)
  \/ \E a \in Admin : CreateAsset(a) \/ LinkAsset(a) \/ IgnoreRow(a) \/ ReviewFault(a)

LEMMA SameRowsIfUnchanged == ASSUME UNCHANGED row PROVE SameRows
BY DEF SameRows, Found

LEMMA RaisedKeptIfUnchanged == ASSUME UNCHANGED alert PROVE RaisedKept
BY DEF RaisedKept, Raised

LEMMA RaiseKeeps ==
  ASSUME DiscoveryTypeOK, NEW r, NEW about, Raise(r, about)
  PROVE  RaisedKept /\ (r \in Row => about \in Raised(r)')
<1> DEFINE x == [about |-> about, acknowledged |-> FALSE]
<1>1. x.about = about  OBVIOUS
<1>2. alert' = [alert EXCEPT ![r] = @ \cup {x}]  BY DEF Raise
<1> HIDE DEF x
<1>3. \A q \in Row : alert[q] \subseteq alert'[q]  BY <1>2 DEF DiscoveryTypeOK
<1>4. r \in Row => x \in alert'[r]  BY <1>2 DEF DiscoveryTypeOK
<1>5. QED  BY <1>1, <1>3, <1>4 DEF RaisedKept, Raised

LEMMA AcknowledgeKeeps ==
  ASSUME DiscoveryTypeOK, NEW r \in Row, NEW x \in alert[r], Acknowledge(r, x)
  PROVE  RaisedKept
<1> DEFINE y == [x EXCEPT !.acknowledged = TRUE]
<1>1. x \in Alert  BY DEF DiscoveryTypeOK
<1>2. y.about = x.about  BY <1>1 DEF Alert
<1>3. alert' = [alert EXCEPT ![r] = (@ \ {x}) \cup {y}]  BY DEF Acknowledge
<1> HIDE DEF y
<1>4. \A q \in Row : \A z \in alert[q] : z \in alert'[q] \/ (z = x /\ y \in alert'[q])
  <2>1. alert'[r] = (alert[r] \ {x}) \cup {y} /\ \A q \in Row : q # r => alert'[q] = alert[q]
    BY <1>3 DEF DiscoveryTypeOK
  <2>2. QED  BY <2>1
<1>5. QED  BY <1>2, <1>4 DEF RaisedKept, Raised

\* A change of one row that leaves its host and job.
LEMMA OneRowChanges ==
  ASSUME DiscoveryTypeOK, NEW q, NEW new, row' = [row EXCEPT ![q] = new],
         q \in Found => /\ new.host = row[q].host /\ new.job = row[q].job
                        /\ new.status # "none",
         q \in Row => q \in Found
  PROVE  SameRows
<1>1. row \in [Row -> FoundRow]  BY DEF DiscoveryTypeOK
<1>2. \A r \in Row : row'[r] = IF r = q THEN new ELSE row[r]  BY <1>1
<1>3. \A r \in Row : /\ row'[r].host = row[r].host /\ row'[r].job = row[r].job
                      /\ row'[r].status = "none" <=> row[r].status = "none"
  BY <1>2 DEF Found
<1>4. QED  BY <1>3 DEF SameRows, Found

LEMMA ReviewFrame ==
  ASSUME DiscoveryTypeOK, ReviewIInv, ReviewStep
  PROVE  /\ SameRows /\ RaisedKept
         /\ UNCHANGED <<instance, up, job, starter, task, crashes, history>>
         /\ \A r \in Row : row'[r].stored = row[r].stored
<1>1. ASSUME NEW r \in Row, NEW x \in alert[r], Acknowledge(r, x)
      PROVE  RaisedKept /\ UNCHANGED <<instance, up, job, starter, task, crashes, history, row>>
  BY <1>1, AcknowledgeKeeps DEF Acknowledge
<1>2. ASSUME NEW a \in Admin,
             (\E r \in Row, d \in {"promote", "ignore"} : ReadForReview(a, r, d))
               \/ CreateAsset(a) \/ ReviewFault(a)
      PROVE  UNCHANGED <<instance, up, job, starter, task, crashes, history, row, alert>>
  BY <1>2 DEF ReadForReview, CreateAsset, ReviewFault, tables
<1>3. ASSUME NEW a \in Admin, LinkAsset(a) \/ IgnoreRow(a)
      PROVE  /\ SameRows /\ UNCHANGED <<instance, up, job, starter, task, crashes, history, alert>>
             /\ \A r \in Row : row'[r].stored = row[r].stored
  <2> DEFINE q == review[a].row
  <2>1. review[a].pc # "idle"  BY <1>3 DEF LinkAsset, IgnoreRow
  <2>2. q \in Found  BY <2>1 DEF ReviewIInv, Found
  <2>3. q \in Row /\ row[q] \in FoundRow  BY <2>2 DEF Found, DiscoveryTypeOK
  <2>4. PICK new \in {[row[q] EXCEPT !.status = "IGNORED"],
                      [row[q] EXCEPT !.status = "PROMOTED", !.promoted = review[a].asset]} :
          row' = [row EXCEPT ![q] = new]
    BY <1>3 DEF LinkAsset, IgnoreRow
  <2> HIDE DEF q
  <2>5. /\ new.host = row[q].host /\ new.job = row[q].job /\ new.stored = row[q].stored
        /\ new.status # "none"
    BY <2>3, <2>4 DEF FoundRow
  <2>6. SameRows  BY <2>2, <2>4, <2>5, OneRowChanges
  <2>7. \A r \in Row : row'[r].stored = row[r].stored  BY <2>4, <2>5 DEF DiscoveryTypeOK
  <2>8. QED  BY <1>3, <2>6, <2>7 DEF LinkAsset, IgnoreRow
<1>4. QED  BY <1>1, <1>2, <1>3, SameRowsIfUnchanged, RaisedKeptIfUnchanged DEF ReviewStep

(***************************************************************************)
(* Jobs, their tasks and the rows they record                              *)
(***************************************************************************)
LEMMA JobsQuiet ==
  ASSUME JobsIInv, SameRows, RaisedKept, UNCHANGED <<up, job, starter, task>>
  PROVE  JobsIInv'
<1>1. DownIsIdle' /\ LiveTasks'  BY DEF JobsIInv, DownIsIdle, LiveTasks
<1>2. QueuedJobs'  BY DEF JobsIInv, QueuedJobs, SameRows
<1>3. RowsOfJobs'  BY DEF JobsIInv, RowsOfJobs, SameRows
<1>4. RowsComeLate'  BY DEF JobsIInv, RowsComeLate, SameRows
<1>5. Announced'  BY DEF JobsIInv, Announced, SameRows, RaisedKept, Found
<1>6. QED  BY <1>1, <1>2, <1>3, <1>4, <1>5 DEF JobsIInv

LEMMA JobsStarter ==
  ASSUME DiscoveryTypeOK, JobsIInv, NEW s \in Starter,
         CheckNoneActive(s) \/ StarterStep(s) \/ StarterFault(s)
  PROVE  JobsIInv'
<1> USE DEF JobsIInv
<1>1. CASE CheckNoneActive(s)
  <2>1. starter' = [starter EXCEPT ![s].pc = "clear"] /\ up
        /\ UNCHANGED <<up, job, task, row, alert>>  BY <1>1 DEF CheckNoneActive, tables
  <2>2. \A q \in Starter : starter'[q].pc = "queued" => starter'[q] = starter[q]
    BY <2>1 DEF DiscoveryTypeOK, StarterState
  <2>3. DownIsIdle' /\ LiveTasks' /\ RowsOfJobs' /\ RowsComeLate'
    BY <2>1 DEF DownIsIdle, LiveTasks, RowsOfJobs, RowsComeLate
  <2>4. QueuedJobs'  BY <2>1, <2>2 DEF QueuedJobs
  <2>5. Announced'  BY <2>1 DEF Announced, Found, Raised
  <2>6. QED  BY <2>3, <2>4, <2>5
<1>2. CASE CreateJob(s)
  <2> DEFINE n == NewJob
  <2>1. n \in Job /\ job[n].status = "none"  BY <1>2, FreshJob DEF CreateJob
  <2>2. UNCHANGED <<up, task, row, alert>> /\ starter[s].pc = "clear"  BY <1>2 DEF CreateJob
  <2>3. starter' = [starter EXCEPT ![s] = [pc |-> "queued", job |-> n]]  BY <1>2 DEF CreateJob
  <2>4. PICK tool \in {"watch", "discover"} :
          job' = [job EXCEPT ![n] = [tool |-> tool, status |-> "QUEUED"]]
    BY <1>2 DEF CreateJob
  <2> HIDE DEF n
  <2>5. task[n].pc = "none" /\ \A r \in Row : row[r].job # n
    <3>1. task[n].pc = "none"  BY <2>1 DEF LiveTasks, Active
    <3>2. ASSUME NEW r \in Row PROVE row[r].job # n
      BY <2>1, DiscoveryAssumption DEF RowsOfJobs
    <3>3. QED  BY <3>1, <3>2
  <2>6. /\ \A j \in Job : j # n => job'[j] = job[j]
        /\ job'[n].status = "QUEUED"
    BY <2>1, <2>4 DEF DiscoveryTypeOK
  <2>7. /\ \A q \in Starter : q # s => starter'[q] = starter[q]
        /\ starter'[s] = [pc |-> "queued", job |-> n]
    BY <2>3 DEF DiscoveryTypeOK
  <2>8. \A q \in Starter : starter[q].pc = "queued" => starter[q].job # n
    BY <2>1 DEF QueuedJobs
  <2>9. DownIsIdle'  BY <2>2 DEF DownIsIdle
  <2>10. QueuedJobs'
    <3>1. ASSUME NEW q \in Starter, starter'[q].pc = "queued"
          PROVE  /\ starter'[q].job \in Job /\ job'[starter'[q].job].status = "QUEUED"
                 /\ task'[starter'[q].job].pc = "none"
                 /\ \A r \in Row : row'[r].job # starter'[q].job
      <4>1. CASE q = s  BY <4>1, <2>1, <2>2, <2>5, <2>6, <2>7
      <4>2. CASE q # s  BY <4>2, <3>1, <2>2, <2>6, <2>7, <2>8 DEF QueuedJobs
      <4>3. QED  BY <4>1, <4>2
    <3>2. ASSUME NEW p \in Starter, NEW q \in Starter, starter'[p].pc = "queued",
                 starter'[q].pc = "queued", starter'[p].job = starter'[q].job
          PROVE  p = q
      BY <3>2, <2>7, <2>8 DEF QueuedJobs
    <3>3. QED  BY <3>1, <3>2 DEF QueuedJobs
  <2>11. LiveTasks'  BY <2>2, <2>5, <2>6 DEF LiveTasks
  <2>12. RowsOfJobs'  BY <2>2, <2>6 DEF RowsOfJobs
  <2>13. RowsComeLate'  BY <2>2 DEF RowsComeLate
  <2>14. Announced'
    <3>1. \A r \in Found : row[r].job # n /\ row[r].job \in Job  BY <2>5 DEF RowsOfJobs, Found
    <3>2. QED  BY <3>1, <2>2, <2>6 DEF Announced, Found, Raised
  <2>15. QED  BY <2>9, <2>10, <2>11, <2>12, <2>13, <2>14
<1>3. CASE Launch(s)
  <2> DEFINE n == starter[s].job
  <2>1. n \in Job /\ job[n].status = "QUEUED" /\ \A r \in Row : row[r].job # n
    BY <1>3 DEF Launch, QueuedJobs
  <2>2. UNCHANGED <<up, job, row, alert>>  BY <1>3 DEF Launch, tables
  <2>3. /\ \A q \in Starter : q # s => starter'[q] = starter[q]
        /\ starter'[s].pc = "idle"
    BY <1>3 DEF Launch, DiscoveryTypeOK, Idle
  <2>4. task' = [task EXCEPT ![n] = [NoTask EXCEPT !.pc = "starting"]]  BY <1>3 DEF Launch
  <2>5. \A q \in Starter : starter[q].pc = "queued" /\ starter[q].job = n => q = s
    BY <1>3 DEF Launch, QueuedJobs
  <2>6. up  BY <1>3 DEF Launch, DownIsIdle
  <2> HIDE DEF n
  <2>7. /\ \A j \in Job : j # n => task'[j] = task[j]
        /\ task'[n].pc = "starting"
    BY <2>1, <2>4 DEF DiscoveryTypeOK, NoTask
  <2>8. DownIsIdle'  BY <2>2, <2>6 DEF DownIsIdle
  <2>9. QueuedJobs'
    <3>1. \A q \in Starter : starter'[q].pc = "queued" => q # s /\ starter'[q] = starter[q]
      BY <2>3
    <3>2. \A q \in Starter : starter'[q].pc = "queued" => starter'[q].job # n
      BY <3>1, <2>5
    <3>3. QED  BY <3>1, <3>2, <2>2, <2>7 DEF QueuedJobs
  <2>10. LiveTasks'  BY <2>1, <2>2, <2>7 DEF LiveTasks, Active
  <2>11. RowsOfJobs'  BY <2>2 DEF RowsOfJobs
  <2>12. RowsComeLate'  BY <2>1, <2>2, <2>7 DEF RowsComeLate
  <2>13. Announced'
    <3>1. \A r \in Found : row[r].job # n /\ row[r].job \in Job  BY <2>1 DEF RowsOfJobs, Found
    <3>2. QED  BY <3>1, <2>2, <2>7 DEF Announced, Found, Raised
  <2>14. QED  BY <2>8, <2>9, <2>10, <2>11, <2>12, <2>13
<1>4. CASE StarterFault(s)
  <2>1. UNCHANGED <<up, job, task, row, alert>>  BY <1>4 DEF StarterFault, tables
  <2>2. /\ \A q \in Starter : q # s => starter'[q] = starter[q]
        /\ starter'[s].pc = "idle"
    BY <1>4 DEF StarterFault, DiscoveryTypeOK, Idle
  <2>3. DownIsIdle' /\ LiveTasks' /\ RowsOfJobs' /\ RowsComeLate'
    BY <2>1, <2>2 DEF DownIsIdle, LiveTasks, RowsOfJobs, RowsComeLate
  <2>4. QueuedJobs'
    <3>1. \A q \in Starter : starter'[q].pc = "queued" => starter'[q] = starter[q]  BY <2>2
    <3>2. QED  BY <3>1, <2>1 DEF QueuedJobs
  <2>5. Announced'  BY <2>1 DEF Announced, Found, Raised
  <2>6. QED  BY <2>3, <2>4, <2>5
<1>5. QED  BY <1>1, <1>2, <1>3, <1>4 DEF StarterStep

\* A task goes on, and does not end, before or after its rows.
LEMMA JobsTaskMoves ==
  ASSUME DiscoveryTypeOK, JobsIInv, NEW j \in Job, NEW new, TaskGoes(j, new),
         task[j].pc # "none", SameRows, RaisedKept, UNCHANGED <<up, starter>>,
         \/ UNCHANGED job
         \/ task[j].pc = "starting" /\ job' = [job EXCEPT ![j].status = "RUNNING"],
         \/ task[j].pc \in BeforeHosts /\ new.pc \in BeforeHosts \cup {"hosts", "failing"}
         \/ task[j].pc \in {"hosts", "announcing"} /\ new.pc = "failing"
         \/ task[j].pc = "announcing" /\ new.pc = "hosts"
              /\ \A r \in Row : r = task[j].row => NewHost \in Raised(r)'
         \/ new.pc = "none" /\ task[j].pc = "failing"
         \/ new.pc = "none" /\ task[j].pc = "starting"
  PROVE  JobsIInv'
<1> USE DEF JobsIInv
<1>1. /\ \A i \in Job : i # j => task'[i] = task[i]
      /\ task'[j] = new
  BY DEF TaskGoes, DiscoveryTypeOK
<1>2. /\ \A i \in Job : job'[i].tool = job[i].tool
      /\ \A i \in Job : i # j => job'[i] = job[i]
      /\ job'[j].status = job[j].status \/ job'[j].status = "RUNNING"
  BY DEF DiscoveryTypeOK, JobRow
<1>3. job[j].status \in Active  BY DEF LiveTasks
<1>4. \A q \in Starter : starter[q].pc = "queued" => starter[q].job # j  BY DEF QueuedJobs
<1>5. up  BY DEF DownIsIdle
<1>6. DownIsIdle'  BY <1>5 DEF DownIsIdle
<1>7. QueuedJobs'  BY <1>1, <1>2, <1>4 DEF QueuedJobs, SameRows
<1>8. LiveTasks'  BY <1>1, <1>2, <1>3 DEF LiveTasks, Active
<1>9. RowsOfJobs'
  <2>1. \A i \in Job : job[i].status # "none" => job'[i].status # "none"  BY <1>2
  <2>2. QED  BY <2>1 DEF RowsOfJobs, SameRows
<1>10. RowsComeLate'
  <2>1. task'[j].pc \in BeforeHosts => task[j].pc \in BeforeHosts  BY <1>1 DEF BeforeHosts
  <2>2. QED  BY <1>1, <2>1 DEF RowsComeLate, SameRows
<1>11. Announced'
  <2>1. SUFFICES ASSUME NEW r \in Found, job[row[r].job].tool = "watch"
                 PROVE  \/ NewHost \in Raised(r)'
                        \/ task'[row[r].job].pc = "announcing" /\ task'[row[r].job].row = r
                        \/ task'[row[r].job].pc \in {"none", "failing"}
                           /\ job'[row[r].job].status # "COMPLETE"
    <3>1. \A r \in Found : row[r].job \in Job /\ row'[r].job = row[r].job
      BY DEF SameRows, RowsOfJobs, Found
    <3>2. QED  BY <2>1, <3>1, <1>2 DEF Announced, SameRows
  <2>2. r \in Row /\ row[r].job \in Job  BY DEF RowsOfJobs, Found
  <2>3. CASE NewHost \in Raised(r)  BY <2>3, <2>2 DEF RaisedKept
  <2>4. CASE NewHost \notin Raised(r) /\ row[r].job # j  BY <2>4, <2>1, <2>2, <1>1, <1>2 DEF Announced
  <2>5. CASE NewHost \notin Raised(r) /\ row[r].job = j
    <3>1. \/ task[j].pc = "announcing" /\ task[j].row = r
          \/ task[j].pc = "failing"
      BY <2>5, <2>1 DEF Announced
    <3>2. job'[j].status # "COMPLETE"  BY <1>2, <1>3 DEF Active
    <3>3. CASE task[j].pc = "failing"  BY <3>2, <3>3, <2>5, <1>1 DEF BeforeHosts
    <3>4. CASE task[j].pc = "announcing" /\ task[j].row = r
      BY <3>2, <3>4, <2>2, <2>5, <1>1 DEF BeforeHosts
    <3>5. QED  BY <3>1, <3>3, <3>4
  <2>6. QED  BY <2>3, <2>4, <2>5
<1>12. QED  BY <1>6, <1>7, <1>8, <1>9, <1>10, <1>11

LEMMA JobsEnded ==
  ASSUME DiscoveryTypeOK, JobsIInv, NEW j \in Job, CompleteJob(j) \/ FailJob(j)
  PROVE  JobsIInv'
<1> USE DEF JobsIInv
<1>1. PICK status \in {"COMPLETE", "FAILED"} :
        /\ Ended(j, status) /\ task[j].pc \in {"hosts", "failing"}
        /\ status = "COMPLETE" => task[j].pc = "hosts"
  BY DEF CompleteJob, FailJob
<1>2. /\ \A i \in Job : i # j => task'[i] = task[i] /\ job'[i] = job[i]
      /\ task'[j].pc = "none" /\ job'[j].status = status /\ job'[j].tool = job[j].tool
  BY <1>1 DEF Ended, TaskGoes, NoTask, DiscoveryTypeOK, JobRow
<1>3. UNCHANGED <<up, starter, row, alert>>  BY <1>1 DEF Ended
<1>4. \A q \in Starter : starter[q].pc = "queued" => starter[q].job # j
  BY <1>1 DEF QueuedJobs
<1>5. DownIsIdle'  BY <1>2, <1>3 DEF DownIsIdle
<1>6. QueuedJobs'  BY <1>2, <1>3, <1>4 DEF QueuedJobs
<1>7. LiveTasks'  BY <1>2 DEF LiveTasks
<1>8. RowsOfJobs'
  <2>1. \A i \in Job : job[i].status # "none" => job'[i].status # "none"  BY <1>2
  <2>2. QED  BY <2>1, <1>3 DEF RowsOfJobs
<1>9. RowsComeLate'  BY <1>2, <1>3 DEF RowsComeLate, BeforeHosts
<1>10. Announced'
  <2>1. ASSUME NEW r \in Found, job[row[r].job].tool = "watch", NewHost \notin Raised(r)
        PROVE  \/ task'[row[r].job].pc = "announcing" /\ task'[row[r].job].row = r
               \/ task'[row[r].job].pc \in {"none", "failing"} /\ job'[row[r].job].status # "COMPLETE"
    <3>1. row[r].job \in Job  BY DEF RowsOfJobs, Found
    <3>2. CASE row[r].job # j  BY <2>1, <3>1, <3>2, <1>2 DEF Announced
    <3>3. CASE row[r].job = j
      <4>1. task[j].pc = "failing"  BY <2>1, <3>3, <1>1 DEF Announced
      <4>2. status = "FAILED"  BY <4>1, <1>1
      <4>3. QED  BY <4>2, <3>3, <1>2
    <3>4. QED  BY <3>2, <3>3
  <2>2. \A r \in Found : row[r].job \in Job  BY DEF RowsOfJobs, Found
  <2>3. QED  BY <2>1, <2>2, <1>2, <1>3 DEF Announced, Found, Raised
<1>11. QED  BY <1>5, <1>6, <1>7, <1>8, <1>9, <1>10

\* What the creation of a row changes.
LEMMA RecordHostEffect ==
  ASSUME DiscoveryTypeOK, NEW j \in Job, NEW h \in Host, NEW surface \in Surfaces(instance.outputs),
         RecordHost(j, h, surface)
  PROVE  \E n \in Row :
           /\ row[n].status = "none"
           /\ row'[n] = [host |-> h, job |-> j, status |-> "NEW", stored |-> surface,
                         promoted |-> NoAsset]
           /\ \A r \in Row : r # n => row'[r] = row[r]
           /\ Found' = Found \cup {n}
           /\ \A i \in Job : i # j => task'[i] = task[i]
           /\ task'[j].candidates = task[j].candidates \ {h} /\ task'[j].known = task[j].known
           /\ task'[j].todo = task[j].todo /\ task'[j].seen = task[j].seen
           /\ \/ task'[j].pc = "announcing" /\ task'[j].row = n
              \/ task'[j].pc = "hosts" /\ job[j].tool # "watch"
           /\ told' = [told EXCEPT ![n] = Ports(surface)]
<1> DEFINE n == NewRow
           t == task[j]
<1>1. n \in Row /\ row[n].status = "none"  BY FreshRow DEF RecordHost
<1>2. row' = [row EXCEPT ![n] = [host |-> h, job |-> j, status |-> "NEW", stored |-> surface,
                                 promoted |-> NoAsset]]
  BY DEF RecordHost
<1>3. \/ TaskGoes(j, [t EXCEPT !.pc = "announcing", !.candidates = @ \ {h}, !.row = n])
      \/ job[j].tool # "watch" /\ TaskGoes(j, [t EXCEPT !.candidates = @ \ {h}])
  BY DEF RecordHost
<1>4. t \in TaskState /\ t.pc = "hosts"  BY DEF RecordHost, DiscoveryTypeOK
<1> HIDE DEF n, t
<1>5. /\ row'[n] = [host |-> h, job |-> j, status |-> "NEW", stored |-> surface,
                    promoted |-> NoAsset]
      /\ \A r \in Row : r # n => row'[r] = row[r]
  BY <1>1, <1>2 DEF DiscoveryTypeOK
<1>6. Found' = Found \cup {n}
  <2>1. \A r \in Row : row'[r].status # "none" <=> row[r].status # "none" \/ r = n  BY <1>5
  <2>2. QED  BY <2>1, <1>1 DEF Found
<1>7. /\ \A i \in Job : i # j => task'[i] = task[i]
      /\ task'[j].candidates = t.candidates \ {h} /\ task'[j].known = t.known
      /\ task'[j].todo = t.todo /\ task'[j].seen = t.seen
      /\ \/ task'[j].pc = "announcing" /\ task'[j].row = n
         \/ task'[j].pc = "hosts" /\ job[j].tool # "watch"
  <2>1. CASE TaskGoes(j, [t EXCEPT !.pc = "announcing", !.candidates = @ \ {h}, !.row = n])
    <3> DEFINE new == [t EXCEPT !.pc = "announcing", !.candidates = @ \ {h}, !.row = n]
    <3>1. /\ new.pc = "announcing" /\ new.row = n /\ new.candidates = t.candidates \ {h}
          /\ new.known = t.known /\ new.todo = t.todo /\ new.seen = t.seen
      BY <1>4 DEF TaskState
    <3> HIDE DEF new
    <3>2. task' = [task EXCEPT ![j] = new]  BY <2>1 DEF TaskGoes, new
    <3>3. task'[j] = new /\ \A i \in Job : i # j => task'[i] = task[i]  BY <3>2 DEF DiscoveryTypeOK
    <3>4. QED  BY <3>1, <3>3
  <2>2. CASE job[j].tool # "watch" /\ TaskGoes(j, [t EXCEPT !.candidates = @ \ {h}])
    <3> DEFINE new == [t EXCEPT !.candidates = @ \ {h}]
    <3>1. /\ new.pc = "hosts" /\ new.candidates = t.candidates \ {h}
          /\ new.known = t.known /\ new.todo = t.todo /\ new.seen = t.seen
      BY <1>4 DEF TaskState
    <3> HIDE DEF new
    <3>2. task' = [task EXCEPT ![j] = new]  BY <2>2 DEF TaskGoes, new
    <3>3. task'[j] = new /\ \A i \in Job : i # j => task'[i] = task[i]  BY <3>2 DEF DiscoveryTypeOK
    <3>4. QED  BY <2>2, <3>1, <3>3
  <2>3. QED  BY <1>3, <2>1, <2>2
<1>8. told' = [told EXCEPT ![n] = Ports(surface)]  BY DEF RecordHost, n
<1>9. QED  BY <1>1, <1>5, <1>6, <1>7, <1>8 DEF t

LEMMA JobsRecordHost ==
  ASSUME DiscoveryTypeOK, JobsIInv, NEW j \in Job, NEW h \in Host,
         NEW surface \in Surfaces(instance.outputs), RecordHost(j, h, surface)
  PROVE  JobsIInv'
<1> USE DEF JobsIInv
<1>1. PICK n \in Row :
           /\ row[n].status = "none"
           /\ row'[n] = [host |-> h, job |-> j, status |-> "NEW", stored |-> surface,
                         promoted |-> NoAsset]
           /\ \A r \in Row : r # n => row'[r] = row[r]
           /\ Found' = Found \cup {n}
           /\ \A i \in Job : i # j => task'[i] = task[i]
           /\ \/ task'[j].pc = "announcing" /\ task'[j].row = n
              \/ task'[j].pc = "hosts" /\ job[j].tool # "watch"
  BY RecordHostEffect
<1>2. UNCHANGED <<up, starter, job, alert>> /\ task[j].pc = "hosts"  BY DEF RecordHost
<1>3. job[j].status \in Active /\ up  BY <1>2 DEF LiveTasks, DownIsIdle
<1>4. \A q \in Starter : starter[q].pc = "queued" => starter[q].job # j
  BY <1>2 DEF QueuedJobs
<1>5. row'[n].job = j /\ row'[n].host = h /\ row'[n].status = "NEW" /\ h # NoHost
  BY <1>1, DiscoveryAssumption
<1>6. DownIsIdle'  BY <1>2, <1>3 DEF DownIsIdle
<1>7. QueuedJobs'  BY <1>1, <1>2, <1>4, <1>5 DEF QueuedJobs
<1>8. LiveTasks'  BY <1>1, <1>2, <1>3 DEF LiveTasks
<1>9. RowsOfJobs'
  <2>1. \A r \in Row : r = n \/ row'[r] = row[r]  BY <1>1
  <2>2. job[j].status # "none"  BY <1>3 DEF Active
  <2>3. QED  BY <2>1, <2>2, <1>2, <1>5 DEF RowsOfJobs
<1>10. RowsComeLate'
  <2>1. \A i \in Job : task'[i].pc \in BeforeHosts => i # j /\ task[i].pc \in BeforeHosts
    BY <1>1 DEF BeforeHosts
  <2>2. QED  BY <2>1, <1>1, <1>5 DEF RowsComeLate
<1>11. Announced'
  <2>1. ASSUME NEW r \in Found, job[row[r].job].tool = "watch", NewHost \notin Raised(r)
        PROVE  /\ row'[r] = row[r]
               /\ \/ task'[row[r].job].pc = "announcing" /\ task'[row[r].job].row = r
                  \/ task'[row[r].job].pc \in {"none", "failing"} /\ job[row[r].job].status # "COMPLETE"
    <3>1. row[r].job \in Job /\ r \in Row  BY DEF RowsOfJobs, Found
    <3>2. row[r].job # j  BY <2>1, <1>2 DEF Announced
    <3>3. r # n  BY <1>1 DEF Found
    <3>4. QED  BY <2>1, <3>1, <3>2, <3>3, <1>1 DEF Announced
  <2>2. \A r \in Found : row'[r] = row[r]  BY <1>1 DEF Found
  <2>3. job[j].tool = "watch" => task'[j].pc = "announcing" /\ task'[j].row = n  BY <1>1
  <2>4. QED  BY <2>1, <2>2, <2>3, <1>1, <1>2, <1>5 DEF Announced, Raised
<1>12. QED  BY <1>6, <1>7, <1>8, <1>9, <1>10, <1>11

LEMMA JobsProcess ==
  ASSUME DiscoveryTypeOK, JobsIInv, Crash \/ Boot \/ BootFault \/ ColdStart
  PROVE  JobsIInv'
<1> USE DEF JobsIInv
<1>1. CASE Crash
  <2>1. UNCHANGED <<job, row, alert>> /\ ~up'  BY <1>1 DEF Crash, tables
  <2>2. (\A s \in Starter : starter'[s].pc = "idle") /\ (\A j \in Job : task'[j].pc = "none")
    BY <1>1 DEF Crash, Idle, NoTask
  <2>3. DownIsIdle' /\ QueuedJobs' /\ LiveTasks' /\ RowsComeLate'
    BY <2>2 DEF DownIsIdle, QueuedJobs, LiveTasks, RowsComeLate, BeforeHosts
  <2>4. RowsOfJobs'  BY <2>1 DEF RowsOfJobs
  <2>5. Announced'
    <3>1. ASSUME NEW r \in Found, job[row[r].job].tool = "watch", NewHost \notin Raised(r)
          PROVE  row[r].job \in Job /\ job[row[r].job].status # "COMPLETE"
      <4>1. row[r].job \in Job  BY DEF RowsOfJobs, Found
      <4>2. QED  BY <3>1, <4>1 DEF Announced, LiveTasks, Active
    <3>2. QED  BY <3>1, <2>1, <2>2 DEF Announced, Found, Raised
  <2>6. QED  BY <2>3, <2>4, <2>5
<1>2. CASE Boot \/ BootFault \/ ColdStart
  <2>1. UNCHANGED <<row, alert, starter, task>> /\ up'  BY <1>2 DEF Boot, BootFault, ColdStart, tables
  <2>2. (\A s \in Starter : starter[s].pc = "idle") /\ (\A j \in Job : task[j].pc = "none")
    BY <1>2 DEF Boot, BootFault, ColdStart, DownIsIdle
  <2>3. \A j \in Job : /\ job'[j].tool = job[j].tool
                       /\ job'[j].status = job[j].status \/ job'[j].status = "FAILED"
    BY <1>2 DEF Boot, BootFault, ColdStart, tables, DiscoveryTypeOK, JobRow
  <2>4. DownIsIdle' /\ QueuedJobs' /\ LiveTasks' /\ RowsComeLate'
    BY <2>1, <2>2 DEF DownIsIdle, QueuedJobs, LiveTasks, RowsComeLate, BeforeHosts
  <2>5. RowsOfJobs'
    <3>1. \A i \in Job : job[i].status # "none" => job'[i].status # "none"  BY <2>3
    <3>2. QED  BY <3>1, <2>1 DEF RowsOfJobs
  <2>6. Announced'
    <3>1. ASSUME NEW r \in Found, job[row[r].job].tool = "watch", NewHost \notin Raised(r)
          PROVE  job'[row[r].job].status # "COMPLETE"
      <4>1. row[r].job \in Job  BY DEF RowsOfJobs, Found
      <4>2. job[row[r].job].status # "COMPLETE"  BY <3>1, <4>1, <2>2 DEF Announced
      <4>3. QED  BY <4>1, <4>2, <2>3
    <3>2. \A r \in Found : row[r].job \in Job  BY DEF RowsOfJobs, Found
    <3>3. QED  BY <3>1, <3>2, <2>1, <2>2, <2>3 DEF Announced, Found, Raised
  <2>7. QED  BY <2>4, <2>5, <2>6
<1>3. QED  BY <1>1, <1>2

LEMMA JobsTask ==
  ASSUME DiscoveryTypeOK, JobsIInv, PortsIInv, NEW j \in Job, TaskStep(j) \/ TaskFault(j)
  PROVE  JobsIInv'
<1> DEFINE t == task[j]
<1>t. t \in TaskState  BY DEF DiscoveryTypeOK
<1>1. CASE StartTask(j)
  <2> DEFINE new == [NoTask EXCEPT !.pc = IF job[j].tool = "watch" THEN "listing" ELSE "naming"]
  <2>1. new.pc \in BeforeHosts  BY DEF NoTask, BeforeHosts
  <2>2. TaskGoes(j, new) /\ t.pc = "starting" /\ job' = [job EXCEPT ![j].status = "RUNNING"]
        /\ UNCHANGED <<up, starter, row, alert>>
    BY <1>1 DEF StartTask
  <2>3. QED
    BY <2>1, <2>2, JobsTaskMoves, SameRowsIfUnchanged, RaisedKeptIfUnchanged DEF BeforeHosts
<1>2. ASSUME NEW new, TaskGoes(j, new), t.pc \in BeforeHosts,
             new.pc \in BeforeHosts \cup {"hosts", "failing"},
             UNCHANGED <<up, starter, job>>, SameRows, RaisedKept
      PROVE  JobsIInv'
  BY <1>2, JobsTaskMoves DEF BeforeHosts
<1>3. CASE ListKnown(j)
  <2> DEFINE known == {r \in Found : row[r].status # "IGNORED"}
             new == [NoTask EXCEPT !.pc = "rows", !.todo = known,
                                   !.seen = [r \in Row |-> IF r \in known THEN row[r].stored ELSE {}]]
  <2>1. new.pc = "rows"  BY DEF NoTask
  <2>2. TaskGoes(j, new)  BY <1>3 DEF ListKnown
  <2> HIDE DEF new
  <2>3. t.pc = "listing" /\ UNCHANGED <<up, starter, job, row, alert>>  BY <1>3 DEF ListKnown, tables
  <2>4. QED  BY <2>1, <2>2, <2>3, <1>2, SameRowsIfUnchanged, RaisedKeptIfUnchanged DEF BeforeHosts
<1>4. ASSUME NEW r, NEW surface, RescanRow(j, r, surface) PROVE JobsIInv'
  <2> DEFINE new == [t EXCEPT !.pc = "alerting", !.todo = @ \ {r}, !.row = r, !.fresh = surface,
                              !.owed = Owed(t.seen[r], surface)]
  <2>1. new.pc = "alerting"  BY <1>t DEF TaskState
  <2>2. TaskGoes(j, new)  BY <1>4 DEF RescanRow
  <2> HIDE DEF new
  <2>3. t.pc = "rows" /\ UNCHANGED <<up, starter, job, row, alert>>  BY <1>4 DEF RescanRow, tables
  <2>4. QED  BY <2>1, <2>2, <2>3, <1>2, SameRowsIfUnchanged, RaisedKeptIfUnchanged DEF BeforeHosts
<1>5. ASSUME NEW change, RaiseChange(j, change) PROVE JobsIInv'
  <2> DEFINE new == [t EXCEPT !.owed = @ \ {change}]
  <2>1. new.pc = t.pc /\ t.pc = "alerting"  BY <1>5, <1>t DEF RaiseChange, TaskState
  <2>2. TaskGoes(j, new) /\ UNCHANGED <<up, starter, job, row>>  BY <1>5 DEF RaiseChange
  <2> HIDE DEF new
  <2>3. RaisedKept  BY <1>5, RaiseKeeps DEF RaiseChange
  <2>4. QED  BY <2>1, <2>2, <2>3, <1>2, SameRowsIfUnchanged DEF BeforeHosts
<1>6. CASE StoreScan(j)
  <2> DEFINE new == [t EXCEPT !.pc = "rows", !.row = NoRow, !.fresh = {}]
             scanned == [row[t.row] EXCEPT !.stored = t.fresh]
  <2>1. new.pc = "rows" /\ t.pc = "alerting"  BY <1>6, <1>t DEF StoreScan, TaskState
  <2>2. TaskGoes(j, new) /\ UNCHANGED <<up, starter, job, alert>>
    BY <1>6 DEF StoreScan, Store
  <2>3. t.row \in Found  BY <2>1 DEF PortsIInv, Reading
  <2>4. row[t.row] \in FoundRow  BY <2>3 DEF Found, DiscoveryTypeOK
  <2>5. /\ scanned.host = row[t.row].host /\ scanned.job = row[t.row].job
        /\ scanned.status = row[t.row].status
    BY <2>4 DEF FoundRow
  <2>6. row' = [row EXCEPT ![t.row] = scanned]  BY <1>6 DEF StoreScan, Store
  <2> HIDE DEF new, scanned, t
  <2>7. SameRows  BY <2>3, <2>5, <2>6, OneRowChanges DEF Found
  <2> USE DEF t
  <2>8. QED  BY <2>1, <2>2, <2>7, <1>2, RaisedKeptIfUnchanged DEF BeforeHosts
<1>7. CASE PassOneEnds(j)
  <2> DEFINE new == [NoTask EXCEPT !.pc = "naming"]
  <2>1. new.pc = "naming"  BY DEF NoTask
  <2>2. TaskGoes(j, new) /\ t.pc = "rows" /\ UNCHANGED <<up, starter, job, row, alert>>
    BY <1>7 DEF PassOneEnds, tables
  <2> HIDE DEF new
  <2>3. QED  BY <2>1, <2>2, <1>2, SameRowsIfUnchanged, RaisedKeptIfUnchanged DEF BeforeHosts
<1>8. ASSUME NEW c, ReadNames(j, c) PROVE JobsIInv'
  <2> DEFINE new == [NoTask EXCEPT !.pc = "hosts", !.candidates = c, !.known = HostsFound]
  <2>1. new.pc = "hosts"  BY DEF NoTask
  <2>2. TaskGoes(j, new) /\ t.pc = "naming" /\ UNCHANGED <<up, starter, job, row, alert>>
    BY <1>8 DEF ReadNames, tables
  <2> HIDE DEF new
  <2>3. QED  BY <2>1, <2>2, <1>2, SameRowsIfUnchanged, RaisedKeptIfUnchanged DEF BeforeHosts
<1>9. CASE AnnounceHost(j)
  <2> DEFINE new == [t EXCEPT !.pc = "hosts", !.row = NoRow]
             q == t.row
  <2>1. new.pc = "hosts" /\ t.pc = "announcing"  BY <1>9, <1>t DEF AnnounceHost, TaskState
  <2>2. TaskGoes(j, new) /\ UNCHANGED <<up, starter, job, row>>  BY <1>9 DEF AnnounceHost
  <2>3. Raise(q, NewHost)  BY <1>9 DEF AnnounceHost
  <2>4. RaisedKept /\ \A r \in Row : r = q => NewHost \in Raised(r)'
    <3>1. RaisedKept  BY <2>3, RaiseKeeps
    <3>2. ASSUME NEW r \in Row, r = q PROVE NewHost \in Raised(r)'
      <4>1. Raise(r, NewHost)  BY <2>3, <3>2
      <4>2. QED  BY <4>1, RaiseKeeps
    <3>3. QED  BY <3>1, <3>2
  <2> HIDE DEF new
  <2>5. QED  BY <2>1, <2>2, <2>4, JobsTaskMoves, SameRowsIfUnchanged
<1>10. CASE TaskFault(j)
  <2>1. UNCHANGED <<up, starter, job, row, alert>> /\ t.pc # "none"  BY <1>10 DEF TaskFault, tables
  <2>2. [NoTask EXCEPT !.pc = "failing"].pc = "failing" /\ NoTask.pc = "none"  BY DEF NoTask
  <2>3. t.pc \in BeforeHosts \cup {"hosts", "announcing", "failing"}
    BY <1>t, <2>1 DEF TaskState, BeforeHosts
  <2>4. CASE t.pc # "failing" /\ TaskGoes(j, [NoTask EXCEPT !.pc = "failing"])
    BY <2>1, <2>2, <2>3, <2>4, JobsTaskMoves, SameRowsIfUnchanged, RaisedKeptIfUnchanged
  <2>5. CASE t.pc \in {"failing", "starting"} /\ TaskGoes(j, NoTask)
    BY <2>1, <2>2, <2>5, JobsTaskMoves, SameRowsIfUnchanged, RaisedKeptIfUnchanged
  <2>6. QED  BY <1>10, <2>4, <2>5 DEF TaskFault
<1>11. QED
  BY <1>1, <1>3, <1>4, <1>5, <1>6, <1>7, <1>8, <1>9, <1>10, JobsRecordHost, JobsEnded DEF TaskStep

(***************************************************************************)
(* The ports of a row and its alerts                                       *)
(***************************************************************************)
\* A step that stores nothing and raises no alert of a change: a task that goes
\* on has no port alerted and not stored, before or after.
LEMMA PortsMove ==
  ASSUME PortsIInv, Found \subseteq Found', UNCHANGED unsure,
         \A r \in Found : row'[r].stored = row[r].stored /\ told'[r] = told[r],
         \A r \in Found' \ Found : told'[r] = Ports(row'[r].stored),
         \A i \in Job : \/ task'[i] = task[i] /\ behind'[i] = behind[i]
                        \/ Alerted(task[i]) = {} /\ Alerted(task'[i]) = {} /\ Reading(i)'
  PROVE  PortsIInv'
<1>1. AddsUp'
  <2>1. ASSUME NEW r \in Found', NEW p \in Differ(told'[r], Ports(row'[r].stored))
        PROVE  p \in unsure'[r] \/ \E i \in Job : task'[i].row = r /\ p \in Alerted(task'[i])
    <3>1. r \in Found  BY <2>1 DEF Differ
    <3>2. p \in Differ(told[r], Ports(row[r].stored))  BY <2>1, <3>1
    <3>3. CASE p \in unsure[r]  BY <3>3
    <3>4. ASSUME NEW i \in Job, task[i].row = r, p \in Alerted(task[i])
          PROVE  task'[i].row = r /\ p \in Alerted(task'[i])
      BY <3>4
    <3>5. QED  BY <3>1, <3>2, <3>3, <3>4 DEF PortsIInv, AddsUp
  <2>2. QED  BY <2>1 DEF AddsUp
<1>2. ASSUME NEW i \in Job PROVE Reading(i)'
  <2>1. CASE task'[i] = task[i] /\ behind'[i] = behind[i]  BY <2>1 DEF PortsIInv, Reading
  <2>2. QED  BY <2>1 DEF Reading
<1>3. ASSUME NEW i \in Job PROVE Telling(i)'
  <2> DEFINE q == task[i].row
  <2>1. CASE Alerted(task'[i]) = {}  BY <2>1 DEF Telling
  <2>2. CASE task'[i] = task[i] /\ behind'[i] = behind[i]
    <3>1. ASSUME task[i].pc = "alerting", q \notin behind[i], NEW p \in Alerted(task[i])
          PROVE  \/ p \in told'[q] <=> p \in Ports(task[i].fresh)
                 \/ p \in unsure'[q]
                 \/ \E k \in Job \ {i} : task'[k].row = q /\ p \in Alerted(task'[k])
      <4>1. q \in Found  BY <3>1 DEF PortsIInv, Reading
      <4>2. told'[q] = told[q]  BY <4>1
      <4>3. \A k \in Job : p \in Alerted(task[k]) => task'[k] = task[k]  OBVIOUS
      <4>4. QED  BY <3>1, <4>2, <4>3 DEF PortsIInv, Telling
    <3>2. QED  BY <2>2, <3>1 DEF Telling
  <2>3. QED  BY <2>1, <2>2
<1>4. QED  BY <1>1, <1>2, <1>3 DEF PortsIInv

\* Steps of others, and of tasks that are before or after their pass over the rows.
LEMMA PortsQuiet ==
  ASSUME PortsIInv, Found' = Found, UNCHANGED history,
         \A r \in Row : row'[r].stored = row[r].stored,
         \A i \in Job : \/ task'[i] = task[i]
                        \/ /\ task[i].pc \notin {"rows", "alerting"}
                           /\ task'[i].todo = {} /\ task'[i].pc \notin {"rows", "alerting", "announcing"}
  PROVE  PortsIInv'
<1>1. \A r \in Found : r \in Row  BY DEF Found
<1>2. UNCHANGED <<told, unsure, behind>>  BY DEF history
<1>3. ASSUME NEW i \in Job, task[i].pc \notin {"rows", "alerting"}, task'[i].todo = {},
             task'[i].pc \notin {"rows", "alerting", "announcing"}
      PROVE  Alerted(task[i]) = {} /\ Alerted(task'[i]) = {} /\ Reading(i)'
  <2>1. behind[i] = {}  BY <1>3 DEF PortsIInv, Reading
  <2>2. Reading(i)'  BY <1>2, <1>3, <2>1 DEF Reading
  <2>3. QED  BY <1>3, <2>2 DEF Alerted
<1>4. QED  BY <1>1, <1>2, <1>3, PortsMove

\* Tasks that die: what they have alerted becomes unsure.
LEMMA PortsForgotten ==
  ASSUME DiscoveryTypeOK, PortsIInv, NEW dying \in SUBSET Job, Forgotten(dying), UNCHANGED row,
         \A i \in dying : task'[i].todo = {} /\ task'[i].pc \notin {"rows", "alerting", "announcing"},
         \A i \in Job \ dying : task'[i] = task[i]
  PROVE  PortsIInv'
<1>1. UNCHANGED told /\ Found' = Found  BY DEF Forgotten, Found
<1>2. \A r \in Row : unsure[r] \subseteq unsure'[r]
  BY DEF Forgotten
<1>3. \A i \in dying : \A p \in Alerted(task[i]) : \A r \in Row : task[i].row = r => p \in unsure'[r]
  BY DEF Forgotten
<1>4. \A i \in Job : behind'[i] = IF i \in dying THEN {} ELSE behind[i]  BY DEF Forgotten
<1>5. \A r \in Found : r \in Row  BY DEF Found
<1>6. AddsUp'
  <2>1. ASSUME NEW r \in Found, NEW p \in Differ(told[r], Ports(row[r].stored))
        PROVE  p \in unsure'[r] \/ \E i \in Job : task'[i].row = r /\ p \in Alerted(task'[i])
    <3>1. CASE p \in unsure[r]  BY <3>1, <1>2, <1>5
    <3>2. ASSUME NEW i \in Job, task[i].row = r, p \in Alerted(task[i])
          PROVE  p \in unsure'[r] \/ (task'[i].row = r /\ p \in Alerted(task'[i]))
      BY <3>2, <1>3, <1>5
    <3>3. QED  BY <3>1, <3>2 DEF PortsIInv, AddsUp
  <2>2. QED  BY <2>1, <1>1 DEF AddsUp
<1>7. ASSUME NEW i \in Job PROVE Reading(i)'
  <2>1. CASE i \in dying  BY <2>1, <1>4 DEF Reading
  <2>2. CASE i \notin dying  BY <2>2, <1>1, <1>4 DEF PortsIInv, Reading
  <2>3. QED  BY <2>1, <2>2
<1>8. ASSUME NEW i \in Job PROVE Telling(i)'
  <2> DEFINE q == task[i].row
  <2>1. CASE i \in dying  BY <2>1 DEF Telling
  <2>2. CASE i \notin dying
    <3>1. ASSUME task[i].pc = "alerting", q \notin behind[i], NEW p \in Alerted(task[i])
          PROVE  \/ p \in told[q] <=> p \in Ports(task[i].fresh)
                 \/ p \in unsure'[q]
                 \/ \E k \in Job \ {i} : task'[k].row = q /\ p \in Alerted(task'[k])
      <4>1. q \in Row  BY <3>1, <1>5 DEF PortsIInv, Reading
      <4>2. CASE \/ p \in told[q] <=> p \in Ports(task[i].fresh)
                 \/ p \in unsure[q]
        BY <4>1, <4>2, <1>2
      <4>3. ASSUME NEW k \in Job \ {i}, task[k].row = q, p \in Alerted(task[k])
            PROVE  p \in unsure'[q] \/ (task'[k].row = q /\ p \in Alerted(task'[k]))
        BY <4>1, <4>3, <1>3
      <4>4. QED  BY <3>1, <4>2, <4>3 DEF PortsIInv, Telling
    <3>2. QED  BY <2>2, <3>1, <1>1, <1>4 DEF Telling
  <2>3. QED  BY <2>1, <2>2
<1>9. QED  BY <1>6, <1>7, <1>8 DEF PortsIInv

\* A port of a diff is alerted as opened, or as closed, and as the scan found it.
LEMMA OwedPort ==
  ASSUME NEW seen, NEW fresh, NEW kind, NEW p, <<kind, p>> \in Owed(seen, fresh)
  PROVE  /\ kind \in {"PORT_OPENED", "PORT_CLOSED", "SERVICE_CHANGED"}
         /\ kind = "PORT_OPENED" => p \in Ports(fresh) \ Ports(seen)
         /\ kind = "PORT_CLOSED" => p \in Ports(seen) \ Ports(fresh)
BY DEF Owed, Diff

LEMMA PortsRaise ==
  ASSUME DiscoveryTypeOK, PortsIInv, NEW j \in Job, NEW change \in task[j].owed, RaiseChange(j, change)
  PROVE  PortsIInv'
<1> DEFINE t == task[j]
           q == t.row
           seen == t.seen[q]
           kind == change[1]
           port == change[2]
<1>t. t \in TaskState  BY DEF DiscoveryTypeOK
<1>1. t.pc = "alerting" /\ q \in Found /\ q \in Row /\ t.owed \subseteq Owed(seen, t.fresh)
  BY DEF RaiseChange, PortsIInv, Reading, Found
<1>2. change = <<kind, port>>  BY <1>t DEF TaskState, Change
<1>3. /\ kind \in {"PORT_OPENED", "PORT_CLOSED", "SERVICE_CHANGED"}
      /\ kind = "PORT_OPENED" => port \in Ports(t.fresh) \ Ports(seen)
      /\ kind = "PORT_CLOSED" => port \in Ports(seen) \ Ports(t.fresh)
  <2>1. <<kind, port>> \in Owed(seen, t.fresh)  BY <1>1, <1>2
  <2> HIDE DEF kind, port, seen, t
  <2>2. QED  BY <2>1, OwedPort
<1>4. /\ UNCHANGED <<row, unsure, behind>> /\ Found' = Found
      /\ told'[q] = Told(told[q], change)
      /\ \A r \in Row : r # q => told'[r] = told[r]
  BY <1>1 DEF RaiseChange, DiscoveryTypeOK, Found
<1>5. /\ \A i \in Job : i # j => task'[i] = task[i]
      /\ task'[j].pc = "alerting" /\ task'[j].row = q /\ task'[j].seen = t.seen
      /\ task'[j].fresh = t.fresh /\ task'[j].todo = t.todo /\ task'[j].owed = t.owed \ {change}
  BY <1>t DEF RaiseChange, TaskGoes, DiscoveryTypeOK, TaskState
<1>6. Alerted(t) \subseteq Alerted(task'[j])  BY <1>1, <1>5 DEF Alerted
<1>7. \A p \in Alerted(task'[j]) : p \in Alerted(t) \/ (p = port /\ kind # "SERVICE_CHANGED")
  BY <1>1, <1>2, <1>5 DEF Alerted
<1>8. kind # "SERVICE_CHANGED" => /\ port \in Alerted(task'[j])
                                  /\ port \in told'[q] <=> port \in Ports(t.fresh)
  <2>1. ASSUME kind = "PORT_OPENED" PROVE <<"PORT_CLOSED", port>> \notin t.owed
    <3>1. <<"PORT_CLOSED", port>> \notin Owed(seen, t.fresh)  BY <2>1, <1>3, OwedPort
    <3>2. QED  BY <3>1, <1>1
  <2>2. ASSUME kind = "PORT_CLOSED" PROVE <<"PORT_OPENED", port>> \notin t.owed
    <3>1. <<"PORT_OPENED", port>> \notin Owed(seen, t.fresh)  BY <2>2, <1>3, OwedPort
    <3>2. QED  BY <3>1, <1>1
  <2>3. kind # "SERVICE_CHANGED" => port \in Differ(Ports(seen), Ports(t.fresh))  BY <1>3 DEF Differ
  <2>4. kind # "SERVICE_CHANGED" => port \in Alerted(task'[j])
    BY <1>2, <1>3, <1>5, <2>1, <2>2, <2>3 DEF Alerted
  <2>5. QED  BY <1>3, <1>4, <2>4 DEF Told
<1>9. \A p : p # port \/ kind = "SERVICE_CHANGED" => (p \in told'[q] <=> p \in told[q])
  BY <1>3, <1>4 DEF Told
<1> HIDE DEF t, q, seen, kind, port
<1>10. \A i \in Job : task'[i].row = task[i].row /\ Alerted(task[i]) \subseteq Alerted(task'[i])
  BY <1>5, <1>6 DEF t, q
<1>a. q = task[j].row /\ t = task[j]  BY DEF q, t
<1>11. AddsUp'
  <2>1. ASSUME NEW r \in Found, NEW p \in Differ(told'[r], Ports(row[r].stored))
        PROVE  p \in unsure[r] \/ \E i \in Job : task'[i].row = r /\ p \in Alerted(task'[i])
    <3>0. r \in Row  BY DEF Found
    <3>1. CASE r = q /\ p = port /\ kind # "SERVICE_CHANGED"  BY <3>1, <1>5, <1>8
    <3>2. CASE ~(r = q /\ p = port /\ kind # "SERVICE_CHANGED")
      <4>1. p \in Differ(told[r], Ports(row[r].stored))  BY <3>0, <3>2, <2>1, <1>4, <1>9 DEF Differ
      <4>2. QED  BY <4>1, <1>10 DEF PortsIInv, AddsUp
    <3>3. QED  BY <3>1, <3>2
  <2>2. QED  BY <2>1, <1>4 DEF AddsUp
<1>12. ASSUME NEW i \in Job PROVE Reading(i)'
  <2>1. CASE i = j
    <3>1. t.owed \ {change} \subseteq Owed(t.seen[q], t.fresh)  BY <1>1 DEF seen
    <3>2. QED  BY <2>1, <3>1, <1>1, <1>4, <1>5 DEF PortsIInv, Reading, t, q
  <2>2. CASE i # j  BY <2>2, <1>4, <1>5 DEF PortsIInv, Reading
  <2>3. QED  BY <2>1, <2>2
<1>13. ASSUME NEW i \in Job PROVE Telling(i)'
  <2> DEFINE g == task[i].row
  <2>1. ASSUME task[i].pc = "alerting", g \notin behind[i], NEW p \in Alerted(task'[i])
        PROVE  \/ p \in told'[g] <=> p \in Ports(task[i].fresh)
               \/ p \in unsure[g]
               \/ \E k \in Job \ {i} : task'[k].row = g /\ p \in Alerted(task'[k])
    <3>0. g \in Row  BY <2>1 DEF PortsIInv, Reading, Found
    <3>1. CASE g = q /\ p = port /\ kind # "SERVICE_CHANGED"
      <4>1. CASE i = j  BY <3>1, <4>1, <1>8, <1>a
      <4>2. CASE i # j  BY <3>1, <4>2, <1>5, <1>8
      <4>3. QED  BY <4>1, <4>2
    <3>2. CASE ~(g = q /\ p = port /\ kind # "SERVICE_CHANGED")
      <4>1. p \in told'[g] <=> p \in told[g]  BY <3>0, <3>2, <1>4, <1>9
      <4>2. p \in Alerted(task[i])
        <5>1. CASE i = j  BY <5>1, <2>1, <3>2, <1>7, <1>a
        <5>2. CASE i # j  BY <5>2, <2>1, <1>5
        <5>3. QED  BY <5>1, <5>2
      <4>3. \/ p \in told[g] <=> p \in Ports(task[i].fresh)
            \/ p \in unsure[g]
            \/ \E k \in Job \ {i} : task[k].row = g /\ p \in Alerted(task[k])
        BY <2>1, <4>2 DEF PortsIInv, Telling
      <4>4. QED  BY <4>1, <4>3, <1>10
    <3>3. QED  BY <3>1, <3>2
  <2>2. task'[i].pc = task[i].pc /\ task'[i].row = g /\ task'[i].fresh = task[i].fresh
    BY <1>1, <1>5 DEF t, q
  <2>3. QED  BY <2>1, <2>2, <1>4 DEF Telling
<1>14. QED  BY <1>11, <1>12, <1>13 DEF PortsIInv

LEMMA PortsStore ==
  ASSUME DiscoveryTypeOK, PortsIInv, NEW j \in Job, StoreScan(j)
  PROVE  PortsIInv'
<1> DEFINE t == task[j]
           q == t.row
           fresh == t.fresh
           seen == t.seen[q]
<1>t. t \in TaskState  BY DEF DiscoveryTypeOK
<1>1. /\ t.pc = "alerting" /\ t.owed = {} /\ q \in Found /\ q \in Row /\ q \notin t.todo
      /\ q \in behind[j] \/ seen = row[q].stored
  BY DEF StoreScan, PortsIInv, Reading, Found
<1>2. UNCHANGED told  BY DEF StoreScan, Store
<1>3. unsure'[q] = Differ(told[q], Ports(fresh)) \cap (IF q \in behind[j] THEN Port ELSE unsure[q])
      /\ \A r \in Row : r # q => unsure'[r] = unsure[r]
  BY <1>1 DEF StoreScan, Store, DiscoveryTypeOK
<1>4. \A i \in Job : behind'[i] = IF i # j /\ q \in Holding(task[i]) THEN behind[i] \cup {q} ELSE behind[i]
  BY DEF StoreScan, Store
<1>5. \A i \in Job : i # j => task'[i] = task[i]
  BY DEF StoreScan, TaskGoes, DiscoveryTypeOK
<1>6. task'[j].pc = "rows" /\ task'[j].todo = t.todo /\ task'[j].seen = t.seen
  BY <1>t DEF StoreScan, TaskGoes, DiscoveryTypeOK, TaskState
<1>7. Alerted(task'[j]) = {} /\ Alerted(t) = Differ(Ports(seen), Ports(fresh))
  BY <1>1, <1>6 DEF Alerted
<1>8. Differ(told[q], Ports(fresh)) \subseteq Port
  <2>1. fresh \in Surface  BY <1>t DEF TaskState
  <2>2. QED  BY <1>1, <2>1, PortsOfSurface DEF Differ, DiscoveryTypeOK
<1>9. /\ row'[q].stored = fresh
      /\ \A r \in Row : r # q => row'[r] = row[r]
      /\ Found' = Found
  <2>1. row[q] \in FoundRow  BY <1>1 DEF DiscoveryTypeOK
  <2>2. row' = [row EXCEPT ![q].stored = fresh]  BY DEF StoreScan, Store
  <2> HIDE DEF q, fresh, seen, t
  <2>3. row'[q] = [row[q] EXCEPT !.stored = fresh] /\ \A r \in Row : r # q => row'[r] = row[r]
    BY <1>1, <2>2 DEF DiscoveryTypeOK
  <2>4. row'[q].stored = fresh /\ row'[q].status = row[q].status  BY <2>1, <2>3 DEF FoundRow
  <2>5. \A r \in Row : row'[r].status = row[r].status  BY <2>3, <2>4
  <2>6. QED  BY <2>3, <2>4, <2>5 DEF Found
<1>a. q = task[j].row /\ t = task[j] /\ fresh = task[j].fresh /\ seen = task[j].seen[task[j].row]
  OBVIOUS
<1> HIDE DEF t, q, fresh, seen
<1>10. AddsUp'
  <2>1. ASSUME NEW r \in Found, NEW p \in Differ(told[r], Ports(row'[r].stored))
        PROVE  p \in unsure'[r] \/ \E i \in Job : task'[i].row = r /\ p \in Alerted(task'[i])
    <3>1. CASE r # q
      <4>1. r \in Row  BY DEF Found
      <4>2. p \in unsure[r] \/ \E i \in Job : task[i].row = r /\ p \in Alerted(task[i])
        BY <2>1, <3>1, <4>1, <1>9 DEF PortsIInv, AddsUp
      <4>3. QED  BY <3>1, <4>1, <4>2, <1>3, <1>5, <1>a
    <3>2. CASE r = q /\ q \in behind[j]  BY <2>1, <3>2, <1>3, <1>8, <1>9
    <3>3. CASE r = q /\ q \notin behind[j]
      <4>1. p \in unsure[q] \/ \E i \in Job \ {j} : task[i].row = q /\ p \in Alerted(task[i])
        <5>1. CASE p \in Differ(Ports(seen), Ports(fresh))
          <6>1. p \in Alerted(t)  BY <5>1, <1>7
          <6>2. ~(p \in told[q] <=> p \in Ports(fresh))  BY <2>1, <3>3, <1>9 DEF Differ
          <6>3. QED  BY <3>3, <6>1, <6>2, <1>1, <1>a DEF PortsIInv, Telling
        <5>2. CASE p \notin Differ(Ports(seen), Ports(fresh))
          <6>1. p \in Differ(told[q], Ports(seen))  BY <2>1, <3>3, <5>2, <1>9 DEF Differ
          <6>2. seen = row[q].stored  BY <3>3, <1>1
          <6>3. p \in unsure[q] \/ \E i \in Job : task[i].row = q /\ p \in Alerted(task[i])
            BY <6>1, <6>2, <1>1 DEF PortsIInv, AddsUp
          <6>4. p \notin Alerted(task[j])  BY <5>2, <1>7, <1>a
          <6>5. QED  BY <6>3, <6>4
        <5>3. QED  BY <5>1, <5>2
      <4>2. CASE p \in unsure[q]  BY <2>1, <3>3, <4>2, <1>3, <1>9
      <4>3. CASE \E i \in Job \ {j} : task[i].row = q /\ p \in Alerted(task[i])
        BY <3>3, <4>3, <1>5
      <4>4. QED  BY <4>1, <4>2, <4>3
    <3>4. QED  BY <3>1, <3>2, <3>3
  <2>2. QED  BY <2>1, <1>2, <1>9 DEF AddsUp
<1>11. ASSUME NEW i \in Job PROVE Reading(i)'
  <2>1. CASE i = j
    <3>1. behind'[j] = behind[j]  BY <1>4
    <3>2. \A r \in t.todo : r \in Found /\ r \in Row /\ (r \in behind[j] \/ t.seen[r] = row[r].stored)
      BY <1>a DEF PortsIInv, Reading, Found
    <3>3. QED  BY <2>1, <3>1, <3>2, <1>1, <1>6, <1>9 DEF Reading
  <2>2. CASE i # j
    <3>1. task'[i] = task[i] /\ behind[i] \subseteq behind'[i]
          /\ (q \in Holding(task[i]) => q \in behind'[i])
      BY <2>2, <1>4, <1>5
    <3>2. task[i].todo \subseteq Holding(task[i]) /\ (task[i].pc = "alerting" => task[i].row \in Holding(task[i]))
      BY DEF Holding
    <3>3. task[i].pc \notin {"rows", "alerting"} => Holding(task[i]) = {} /\ behind[i] = {}
      BY DEF Holding, PortsIInv, Reading
    <3>4. behind'[i] = behind[i] \/ q \in Holding(task[i])  BY <1>4
    <3>5. \A r \in task[i].todo : r \in Found /\ (r \in behind'[i] \/ task[i].seen[r] = row'[r].stored)
      <4>1. \A r \in task[i].todo : r \in Found /\ r \in Row /\ (r \in behind[i] \/ task[i].seen[r] = row[r].stored)
        BY DEF PortsIInv, Reading, Found
      <4>2. QED  BY <4>1, <3>1, <3>2, <1>9
    <3>6. ASSUME task[i].pc = "alerting"
          PROVE  LET r == task[i].row
                 IN  /\ r \in Found /\ r \notin task[i].todo
                     /\ task[i].owed \subseteq Owed(task[i].seen[r], task[i].fresh)
                     /\ r \in behind'[i] \/ task[i].seen[r] = row'[r].stored
      <4> DEFINE r == task[i].row
      <4>1. /\ r \in Found /\ r \in Row /\ r \notin task[i].todo
            /\ task[i].owed \subseteq Owed(task[i].seen[r], task[i].fresh)
            /\ r \in behind[i] \/ task[i].seen[r] = row[r].stored
        BY <3>6 DEF PortsIInv, Reading, Found
      <4> HIDE DEF r
      <4>2. r \in Holding(task[i])  BY <3>2, <3>6 DEF r
      <4>3. r \in behind'[i] \/ task[i].seen[r] = row'[r].stored  BY <4>1, <4>2, <3>1, <1>9
      <4>4. QED  BY <4>1, <4>3 DEF r
    <3>7. task[i].pc = "announcing" => task[i].row \in Found  BY DEF PortsIInv, Reading
    <3>8. task[i].pc \notin {"rows", "alerting"} => task[i].todo = {} /\ behind'[i] = {}
      BY <3>3, <3>4 DEF PortsIInv, Reading
    <3>9. QED  BY <3>1, <3>5, <3>6, <3>7, <3>8, <1>9 DEF Reading
  <2>3. QED  BY <2>1, <2>2
<1>12. ASSUME NEW i \in Job PROVE Telling(i)'
  <2>1. CASE i = j  BY <2>1, <1>6 DEF Telling
  <2>2. CASE i # j
    <3> DEFINE g == task[i].row
    <3>1. task'[i] = task[i]  BY <2>2, <1>5
    <3>2. ASSUME task[i].pc = "alerting", g \notin behind'[i], NEW p \in Alerted(task[i])
          PROVE  \/ p \in told[g] <=> p \in Ports(task[i].fresh)
                 \/ p \in unsure'[g]
                 \/ \E k \in Job \ {i} : task'[k].row = g /\ p \in Alerted(task'[k])
      <4>1. g \in Row  BY <3>2 DEF PortsIInv, Reading, Found
      <4>2. g # q /\ g \notin behind[i]  BY <2>2, <3>2, <1>4 DEF Holding
      <4>3. \/ p \in told[g] <=> p \in Ports(task[i].fresh)
            \/ p \in unsure[g]
            \/ \E k \in Job \ {i} : task[k].row = g /\ p \in Alerted(task[k])
        BY <3>2, <4>2 DEF PortsIInv, Telling
      <4>4. unsure'[g] = unsure[g]  BY <4>1, <4>2, <1>3
      <4>5. \A k \in Job \ {i} : task[k].row = g => task'[k] = task[k]  BY <4>2, <1>5, <1>a
      <4>6. QED  BY <4>3, <4>4, <4>5
    <3>3. QED  BY <3>1, <3>2, <1>2 DEF Telling
  <2>3. QED  BY <2>1, <2>2
<1>13. QED  BY <1>10, <1>11, <1>12 DEF PortsIInv

LEMMA PortsTask ==
  ASSUME DiscoveryTypeOK, PortsIInv, NEW j \in Job, TaskStep(j) \/ TaskFault(j)
  PROVE  PortsIInv'
<1> DEFINE t == task[j]
<1>t. t \in TaskState  BY DEF DiscoveryTypeOK
<1>g. ASSUME NEW new, TaskGoes(j, new)
      PROVE  task'[j] = new /\ \A i \in Job : i # j => task'[i] = task[i]
  BY <1>g DEF TaskGoes, DiscoveryTypeOK
<1>q. ASSUME NEW new, TaskGoes(j, new), t.pc \notin {"rows", "alerting"}, new.todo = {},
             new.pc \notin {"rows", "alerting", "announcing"}, UNCHANGED <<row, history>>
      PROVE  PortsIInv'
  BY <1>q, <1>g, PortsQuiet DEF Found
<1>m. ASSUME NEW new, TaskGoes(j, new), UNCHANGED <<row, told, unsure>>,
             \A i \in Job : i # j => behind'[i] = behind[i],
             Alerted(t) = {}, Alerted(new) = {}, Reading(j)'
      PROVE  PortsIInv'
  <2>1. task'[j] = new /\ \A i \in Job : i # j => task'[i] = task[i]  BY <1>m, <1>g
  <2>2. Found' = Found  BY <1>m DEF Found
  <2>3. ASSUME NEW i \in Job
        PROVE  \/ task'[i] = task[i] /\ behind'[i] = behind[i]
               \/ Alerted(task[i]) = {} /\ Alerted(task'[i]) = {} /\ Reading(i)'
    <3>1. CASE i = j  BY <3>1, <2>1, <1>m DEF Reading
    <3>2. CASE i # j  BY <3>2, <2>1, <1>m
    <3>3. QED  BY <3>1, <3>2
  <2>4. QED  BY <2>2, <2>3, <1>m, PortsMove
<1>1. CASE StartTask(j)  BY <1>1, <1>q DEF StartTask, NoTask
<1>2. CASE ListKnown(j)
  <2> DEFINE known == {r \in Found : row[r].status # "IGNORED"}
             new == [NoTask EXCEPT !.pc = "rows", !.todo = known,
                                   !.seen = [r \in Row |-> IF r \in known THEN row[r].stored ELSE {}]]
  <2>1. TaskGoes(j, new) /\ UNCHANGED <<row, told, unsure, behind>> /\ t.pc = "listing"
    BY <1>2 DEF ListKnown, tables, history
  <2>2. new.pc = "rows" /\ new.todo = known /\ \A r \in known : new.seen[r] = row[r].stored
    <3>1. \A r \in known : r \in Row  BY DEF Found
    <3>2. QED  BY <3>1 DEF NoTask
  <2>3. \A r \in known : r \in Found'  BY <2>1 DEF Found
  <2> HIDE DEF new, known
  <2>4. task'[j] = new  BY <2>1, <1>g
  <2>5. Reading(j)'  BY <2>1, <2>2, <2>3, <2>4 DEF Reading
  <2>6. QED  BY <2>1, <2>2, <2>5, <1>m DEF Alerted
<1>3. ASSUME NEW r \in t.todo, NEW surface, RescanRow(j, r, surface) PROVE PortsIInv'
  <2> DEFINE new == [t EXCEPT !.pc = "alerting", !.todo = @ \ {r}, !.row = r, !.fresh = surface,
                              !.owed = Owed(t.seen[r], surface)]
  <2>1. TaskGoes(j, new) /\ UNCHANGED <<row, told, unsure, behind>> /\ t.pc = "rows"
    BY <1>3 DEF RescanRow, tables, history
  <2>2. /\ new.pc = "alerting" /\ new.todo = t.todo \ {r} /\ new.row = r /\ new.fresh = surface
        /\ new.owed = Owed(t.seen[r], surface) /\ new.seen = t.seen
    BY <1>t DEF TaskState
  <2> HIDE DEF new
  <2>3. task'[j] = new  BY <2>1, <1>g
  <2>4. \A g \in t.todo : g \in Found /\ (g \in behind[j] \/ t.seen[g] = row[g].stored)
    BY DEF PortsIInv, Reading
  <2>5. Found' = Found  BY <2>1 DEF Found
  <2>6. Reading(j)'  BY <2>1, <2>2, <2>3, <2>4, <2>5, <1>3 DEF Reading
  <2>7. Alerted(new) = {}
    <3>1. \A p \in Differ(Ports(t.seen[r]), Ports(surface)) :
            <<"PORT_OPENED", p>> \in Owed(t.seen[r], surface) \/ <<"PORT_CLOSED", p>> \in Owed(t.seen[r], surface)
      BY DEF Differ, Owed, Diff
    <3>2. QED  BY <2>2, <3>1 DEF Alerted
  <2>8. Alerted(t) = {}  BY <2>1 DEF Alerted
  <2>9. QED  BY <2>1, <2>6, <2>7, <2>8, <1>m
<1>4. ASSUME NEW change \in t.owed, RaiseChange(j, change) PROVE PortsIInv'
  BY <1>4, PortsRaise
<1>5. CASE StoreScan(j)  BY <1>5, PortsStore
<1>6. CASE PassOneEnds(j)
  <2> DEFINE new == [NoTask EXCEPT !.pc = "naming"]
  <2>1. /\ TaskGoes(j, new) /\ UNCHANGED <<row, told, unsure>> /\ t.pc = "rows"
        /\ behind' = [behind EXCEPT ![j] = {}]
    BY <1>6 DEF PassOneEnds, tables
  <2>2. new.pc = "naming" /\ new.todo = {}  BY DEF NoTask
  <2> HIDE DEF new
  <2>3. task'[j] = new  BY <2>1, <1>g
  <2>4. behind'[j] = {} /\ \A i \in Job : i # j => behind'[i] = behind[i]
    BY <2>1 DEF DiscoveryTypeOK
  <2>5. Reading(j)'  BY <2>2, <2>3, <2>4 DEF Reading
  <2>6. Alerted(t) = {} /\ Alerted(new) = {}  BY <2>1, <2>2 DEF Alerted
  <2>7. QED  BY <2>1, <2>4, <2>5, <2>6, <1>m
<1>7. ASSUME NEW c, ReadNames(j, c) PROVE PortsIInv'
  BY <1>7, <1>q DEF ReadNames, NoTask, tables
<1>8. ASSUME NEW h \in Host, NEW surface \in Surfaces(instance.outputs), RecordHost(j, h, surface)
      PROVE  PortsIInv'
  <2>1. PICK n \in Row :
           /\ row[n].status = "none"
           /\ row'[n] = [host |-> h, job |-> j, status |-> "NEW", stored |-> surface,
                         promoted |-> NoAsset]
           /\ \A r \in Row : r # n => row'[r] = row[r]
           /\ Found' = Found \cup {n}
           /\ \A i \in Job : i # j => task'[i] = task[i]
           /\ task'[j].todo = task[j].todo
           /\ \/ task'[j].pc = "announcing" /\ task'[j].row = n
              \/ task'[j].pc = "hosts" /\ job[j].tool # "watch"
           /\ told' = [told EXCEPT ![n] = Ports(surface)]
    BY <1>8, RecordHostEffect
  <2>2. UNCHANGED <<unsure, behind>> /\ t.pc = "hosts"  BY <1>8 DEF RecordHost
  <2>3. /\ n \notin Found
        /\ \A r \in Found : row'[r].stored = row[r].stored /\ told'[r] = told[r]
    BY <2>1 DEF Found, DiscoveryTypeOK
  <2>4. \A r \in Found' \ Found : told'[r] = Ports(row'[r].stored)
    BY <2>1 DEF DiscoveryTypeOK
  <2>5. behind[j] = {} /\ t.todo = {}  BY <2>2 DEF PortsIInv, Reading
  <2>6. Reading(j)'  BY <2>1, <2>2, <2>5 DEF Reading
  <2>7. Alerted(t) = {} /\ Alerted(task'[j]) = {}  BY <2>1, <2>2 DEF Alerted
  <2>8. ASSUME NEW i \in Job
        PROVE  \/ task'[i] = task[i] /\ behind'[i] = behind[i]
               \/ Alerted(task[i]) = {} /\ Alerted(task'[i]) = {} /\ Reading(i)'
    <3>1. CASE i = j  BY <3>1, <2>6, <2>7 DEF Reading
    <3>2. CASE i # j  BY <3>2, <2>1, <2>2
    <3>3. QED  BY <3>1, <3>2
  <2>9. QED  BY <2>1, <2>2, <2>3, <2>4, <2>8, PortsMove
<1>9. CASE AnnounceHost(j)
  <2> DEFINE new == [t EXCEPT !.pc = "hosts", !.row = NoRow]
  <2>1. TaskGoes(j, new) /\ UNCHANGED <<row, history>> /\ t.pc = "announcing"
    BY <1>9 DEF AnnounceHost
  <2>2. new.pc = "hosts" /\ new.todo = t.todo  BY <1>t DEF TaskState
  <2>3. t.todo = {}  BY <2>1 DEF PortsIInv, Reading
  <2> HIDE DEF new
  <2>4. QED  BY <2>1, <2>2, <2>3, <1>q
<1>10. CASE CompleteJob(j) \/ FailJob(j)
  BY <1>10, <1>q DEF CompleteJob, FailJob, Ended, NoTask
<1>11. CASE TaskFault(j)
  <2>1. PICK new \in {NoTask, [NoTask EXCEPT !.pc = "failing"]} : TaskGoes(j, new)
    BY <1>11 DEF TaskFault
  <2>2. new.todo = {} /\ new.pc \notin {"rows", "alerting", "announcing"}  BY <2>1 DEF NoTask
  <2>3. UNCHANGED row /\ Forgotten({j})  BY <1>11 DEF TaskFault, tables
  <2>4. QED  BY <2>1, <2>2, <2>3, <1>g, PortsForgotten
<1>12. QED
  BY <1>1, <1>2, <1>3, <1>4, <1>5, <1>6, <1>7, <1>8, <1>9, <1>10, <1>11, EmptySurface DEF TaskStep

(***************************************************************************)
(* How many rows a host can get                                            *)
(***************************************************************************)
LEMMA Subsets ==
  ASSUME NEW S, IsFiniteSet(S), NEW T \in SUBSET S
  PROVE  /\ IsFiniteSet(T) /\ Cardinality(T) \in Nat /\ Cardinality(S) \in Nat
         /\ Cardinality(T) <= Cardinality(S)
BY FS_Subset, FS_CardinalityType

LEMMA OneMore ==
  ASSUME NEW S, IsFiniteSet(S), NEW x, x \notin S
  PROVE  IsFiniteSet(S \cup {x}) /\ Cardinality(S \cup {x}) = Cardinality(S) + 1
BY FS_AddElement

LEMMA OneLess ==
  ASSUME NEW S, IsFiniteSet(S), NEW x \in S
  PROVE  IsFiniteSet(S \ {x}) /\ Cardinality(S \ {x}) = Cardinality(S) - 1
BY FS_RemoveElement

LEMMA HostSetsFinite ==
  /\ IsFiniteSet(Starter) /\ IsFiniteSet(Clear) /\ IsFiniteSet(ActiveJobs)
  /\ \A h : IsFiniteSet(RowsOf(h)) /\ IsFiniteSet(MayRecord(h))
<1>1. IsFiniteSet(Starter) /\ IsFiniteSet(Job) /\ IsFiniteSet(Row)  BY DiscoveryAssumption
<1>2. Clear \subseteq Starter /\ ActiveJobs \subseteq Job  BY DEF Clear, ActiveJobs
<1>3. \A h : RowsOf(h) \subseteq Row /\ MayRecord(h) \subseteq Job  BY DEF RowsOf, MayRecord
<1>4. QED  BY <1>1, <1>2, <1>3, FS_Subset

\* A step that starts no job and records no host.
LEMMA HostsFewer ==
  ASSUME HostsIInv, Clear' \subseteq Clear, ActiveJobs' \subseteq ActiveJobs,
         \A h \in Host : /\ RowsOf(h)' = RowsOf(h)
                         /\ RowsOf(h) # {} => MayRecord(h)' \subseteq MayRecord(h)
  PROVE  HostsIInv'
<1>1. /\ Cardinality(Clear)' \in Nat /\ Cardinality(Clear) \in Nat
      /\ Cardinality(Clear)' <= Cardinality(Clear)
      /\ Cardinality(ActiveJobs)' \in Nat /\ Cardinality(ActiveJobs) \in Nat
      /\ Cardinality(ActiveJobs)' <= Cardinality(ActiveJobs)
      /\ Cardinality(Starter) \in Nat
  BY HostSetsFinite, Subsets
<1>2. (Cardinality(Clear) + Cardinality(ActiveJobs) <= Cardinality(Starter))'
  BY <1>1 DEF HostsIInv
<1>3. ASSUME NEW h \in Host, RowsOf(h)' # {}
      PROVE  Cardinality(RowsOf(h)') + Cardinality(MayRecord(h)') <= Cardinality(Starter)
  <2>1. RowsOf(h)' = RowsOf(h) /\ MayRecord(h)' \subseteq MayRecord(h)  BY <1>3
  <2>2. Cardinality(MayRecord(h)') \in Nat /\ Cardinality(MayRecord(h)) \in Nat
        /\ Cardinality(MayRecord(h)') <= Cardinality(MayRecord(h))
    BY <2>1, HostSetsFinite, Subsets
  <2>3. Cardinality(RowsOf(h)) \in Nat  BY HostSetsFinite, FS_CardinalityType
  <2>4. Cardinality(RowsOf(h)) + Cardinality(MayRecord(h)) <= Cardinality(Starter)
    BY <1>3, <2>1 DEF HostsIInv
  <2>5. QED  BY <1>1, <2>1, <2>2, <2>3, <2>4
<1>4. QED  BY <1>2, <1>3 DEF HostsIInv

LEMMA SameRowsOf == ASSUME SameRows PROVE \A h : RowsOf(h)' = RowsOf(h)
BY DEF SameRows, RowsOf

LEMMA HostsStarter ==
  ASSUME DiscoveryTypeOK, HostsIInv, JobsIInv, NEW s \in Starter,
         CheckNoneActive(s) \/ StarterStep(s) \/ StarterFault(s)
  PROVE  HostsIInv'
<1>r. UNCHANGED row  BY DEF CheckNoneActive, StarterStep, CreateJob, Launch, StarterFault, tables
<1>s. \A h : RowsOf(h)' = RowsOf(h)  BY <1>r DEF RowsOf
<1>m. ASSUME UNCHANGED task PROVE \A h : MayRecord(h)' = MayRecord(h)  BY <1>m DEF MayRecord
<1>n. Cardinality(Starter) \in Nat /\ Cardinality(Clear) \in Nat /\ Cardinality(ActiveJobs) \in Nat
  BY HostSetsFinite, FS_CardinalityType
<1>1. ASSUME UNCHANGED task,
             (Cardinality(Clear) + Cardinality(ActiveJobs) <= Cardinality(Starter))'
      PROVE  HostsIInv'
  BY <1>1, <1>s, <1>m DEF HostsIInv
<1>2. CASE CheckNoneActive(s)
  <2>1. ActiveJobs = {} /\ UNCHANGED <<job, task>>
    BY <1>2 DEF CheckNoneActive, NoneActive, ActiveJobs, tables
  <2>2. ActiveJobs' = {} /\ Clear' \subseteq Starter  BY <2>1 DEF ActiveJobs, Clear
  <2>3. Cardinality(ActiveJobs') = 0  BY <2>2, FS_EmptySet
  <2>4. Cardinality(Clear') \in Nat /\ Cardinality(Clear') <= Cardinality(Starter)
    BY <2>2, HostSetsFinite, Subsets
  <2>5. QED  BY <1>1, <1>n, <2>1, <2>3, <2>4
<1>3. CASE CreateJob(s)
  <2> DEFINE n == NewJob
  <2>1. n \in Job /\ job[n].status = "none"  BY <1>3, FreshJob DEF CreateJob
  <2>2. PICK tool : job' = [job EXCEPT ![n] = [tool |-> tool, status |-> "QUEUED"]]
    BY <1>3 DEF CreateJob
  <2>3. starter' = [starter EXCEPT ![s] = [pc |-> "queued", job |-> n]] /\ UNCHANGED task
        /\ starter[s].pc = "clear"
    BY <1>3 DEF CreateJob
  <2> HIDE DEF n
  <2>4. s \in Clear /\ Clear' = Clear \ {s}  BY <2>3 DEF Clear, DiscoveryTypeOK
  <2>5. n \notin ActiveJobs /\ ActiveJobs' = ActiveJobs \cup {n}
    BY <2>1, <2>2 DEF ActiveJobs, Active, DiscoveryTypeOK
  <2>6. Cardinality(Clear') = Cardinality(Clear) - 1  BY <2>4, HostSetsFinite, OneLess
  <2>7. Cardinality(ActiveJobs') = Cardinality(ActiveJobs) + 1  BY <2>5, HostSetsFinite, OneMore
  <2>8. Cardinality(Clear) + Cardinality(ActiveJobs) <= Cardinality(Starter)  BY DEF HostsIInv
  <2>9. QED  BY <1>1, <1>n, <2>3, <2>6, <2>7, <2>8
<1>4. CASE Launch(s)
  <2>1. UNCHANGED job  BY <1>4 DEF Launch, tables
  <2>2. Clear' \subseteq Clear  BY <1>4 DEF Launch, Clear, Idle, DiscoveryTypeOK
  <2>3. ActiveJobs' = ActiveJobs  BY <2>1 DEF ActiveJobs
  <2>4. task' = [task EXCEPT ![starter[s].job] = [NoTask EXCEPT !.pc = "starting"]]
    BY <1>4 DEF Launch
  <2>5. \A h : MayRecord(h)' \subseteq MayRecord(h)
    <3>1. \A i \in Job : task'[i] = task[i] \/ task'[i].pc = "starting"
      BY <2>4 DEF DiscoveryTypeOK, NoTask
    <3>2. QED  BY <3>1 DEF MayRecord
  <2>6. QED  BY <1>s, <2>2, <2>3, <2>5, HostsFewer
<1>5. CASE StarterFault(s)
  <2>1. UNCHANGED <<job, task>>  BY <1>5 DEF StarterFault, tables
  <2>2. Clear' \subseteq Clear  BY <1>5 DEF StarterFault, Clear, Idle, DiscoveryTypeOK
  <2>3. ActiveJobs' = ActiveJobs  BY <2>1 DEF ActiveJobs
  <2>4. QED  BY <1>s, <1>m, <2>1, <2>2, <2>3, HostsFewer
<1>6. QED  BY <1>2, <1>3, <1>4, <1>5 DEF StarterStep

LEMMA HostsRecordHost ==
  ASSUME DiscoveryTypeOK, HostsIInv, JobsIInv, NEW j \in Job, NEW h \in Host,
         NEW surface \in Surfaces(instance.outputs), RecordHost(j, h, surface)
  PROVE  HostsIInv'
<1>1. PICK n \in Row :
           /\ row[n].status = "none"
           /\ row'[n] = [host |-> h, job |-> j, status |-> "NEW", stored |-> surface,
                         promoted |-> NoAsset]
           /\ \A r \in Row : r # n => row'[r] = row[r]
           /\ \A i \in Job : i # j => task'[i] = task[i]
           /\ task'[j].candidates = task[j].candidates \ {h} /\ task'[j].known = task[j].known
  BY RecordHostEffect
<1>2. UNCHANGED <<starter, job>> /\ task[j].pc = "hosts" /\ h \in task[j].candidates \ task[j].known
  BY DEF RecordHost
<1>3. Clear' = Clear /\ ActiveJobs' = ActiveJobs  BY <1>2 DEF Clear, ActiveJobs
<1>4. row[n].host = NoHost  BY <1>1 DEF JobsIInv, RowsOfJobs
<1>5. n \notin RowsOf(h) /\ RowsOf(h)' = RowsOf(h) \cup {n}
  <2>1. h # NoHost  BY DiscoveryAssumption
  <2>2. row'[n].host = h  BY <1>1
  <2>3. QED  BY <1>1, <1>4, <2>1, <2>2 DEF RowsOf
<1>6. \A g \in Host : g # h => RowsOf(g)' = RowsOf(g)
  <2>1. row'[n].host = h  BY <1>1
  <2>2. \A g \in Host : g # NoHost  BY DiscoveryAssumption
  <2>3. QED  BY <1>1, <1>4, <2>1, <2>2 DEF RowsOf
<1>7. j \in MayRecord(h) /\ MayRecord(h)' \subseteq MayRecord(h) \ {j}
  BY <1>1, <1>2 DEF MayRecord
<1>8. \A g \in Host : MayRecord(g)' \subseteq MayRecord(g)
  BY <1>1, <1>2 DEF MayRecord
<1>n. /\ Cardinality(Starter) \in Nat /\ Cardinality(Clear) \in Nat /\ Cardinality(ActiveJobs) \in Nat
      /\ \A g : Cardinality(RowsOf(g)) \in Nat /\ Cardinality(MayRecord(g)) \in Nat
  BY HostSetsFinite, FS_CardinalityType
<1>9. Cardinality(RowsOf(h)') + Cardinality(MayRecord(h)') <= Cardinality(Starter)
  <2>1. Cardinality(RowsOf(h)') = Cardinality(RowsOf(h)) + 1  BY <1>5, HostSetsFinite, OneMore
  <2>2. Cardinality(MayRecord(h) \ {j}) = Cardinality(MayRecord(h)) - 1
        /\ IsFiniteSet(MayRecord(h) \ {j})
    BY <1>7, HostSetsFinite, OneLess
  <2>3. Cardinality(MayRecord(h)') \in Nat
        /\ Cardinality(MayRecord(h)') <= Cardinality(MayRecord(h)) - 1
    BY <1>7, <2>2, Subsets
  <2>4. CASE RowsOf(h) # {}
    <3>1. Cardinality(RowsOf(h)) + Cardinality(MayRecord(h)) <= Cardinality(Starter)
      BY <2>4 DEF HostsIInv
    <3>2. QED  BY <3>1, <2>1, <2>3, <1>n
  <2>5. CASE RowsOf(h) = {}
    <3>1. Cardinality(RowsOf(h)) = 0  BY <2>5, FS_EmptySet
    <3>2. MayRecord(h) \subseteq ActiveJobs
      BY DEF MayRecord, ActiveJobs, JobsIInv, LiveTasks
    <3>3. Cardinality(MayRecord(h)) <= Cardinality(ActiveJobs)  BY <3>2, HostSetsFinite, Subsets
    <3>4. Cardinality(ActiveJobs) <= Cardinality(Starter)  BY <1>n DEF HostsIInv
    <3>5. QED  BY <3>1, <3>3, <3>4, <2>1, <2>3, <1>n
  <2>6. QED  BY <2>4, <2>5
<1>10. ASSUME NEW g \in Host, g # h, RowsOf(g)' # {}
       PROVE  Cardinality(RowsOf(g)') + Cardinality(MayRecord(g)') <= Cardinality(Starter)
  <2>1. RowsOf(g)' = RowsOf(g) /\ MayRecord(g)' \subseteq MayRecord(g)  BY <1>6, <1>8, <1>10
  <2>2. Cardinality(MayRecord(g)') \in Nat /\ Cardinality(MayRecord(g)') <= Cardinality(MayRecord(g))
    BY <2>1, HostSetsFinite, Subsets
  <2>3. Cardinality(RowsOf(g)) + Cardinality(MayRecord(g)) <= Cardinality(Starter)
    BY <2>1, <1>10 DEF HostsIInv
  <2>4. QED  BY <2>1, <2>2, <2>3, <1>n
<1>11. (Cardinality(Clear) + Cardinality(ActiveJobs) <= Cardinality(Starter))'
  BY <1>3 DEF HostsIInv
<1>12. QED  BY <1>9, <1>10, <1>11 DEF HostsIInv

LEMMA HostsTask ==
  ASSUME DiscoveryTypeOK, HostsIInv, JobsIInv, PortsIInv, NEW j \in Job, TaskStep(j) \/ TaskFault(j)
  PROVE  HostsIInv'
<1> DEFINE t == task[j]
<1>t. t \in TaskState  BY DEF DiscoveryTypeOK
<1>1. CASE \E h \in Host, surface \in Surfaces(instance.outputs) : RecordHost(j, h, surface)
  BY <1>1, HostsRecordHost
<1>2. ASSUME \/ StartTask(j) \/ ListKnown(j) \/ StoreScan(j) \/ PassOneEnds(j) \/ AnnounceHost(j)
             \/ \E r \in t.todo, s \in Surfaces(instance.outputs) : RescanRow(j, r, s)
             \/ \E change \in t.owed : RaiseChange(j, change)
             \/ \E c \in CandidateSets : ReadNames(j, c)
             \/ CompleteJob(j) \/ FailJob(j) \/ TaskFault(j)
      PROVE  HostsIInv'
  <2>1. UNCHANGED starter
    BY <1>2 DEF StartTask, ListKnown, StoreScan, PassOneEnds, AnnounceHost, RescanRow, RaiseChange,
                ReadNames, CompleteJob, FailJob, Ended, TaskFault, Store
  <2>2. ActiveJobs' \subseteq ActiveJobs
    <3>1. CASE StartTask(j)
      <4>1. job[j].status \in Active  BY <3>1 DEF StartTask, JobsIInv, LiveTasks
      <4>2. QED  BY <3>1, <4>1 DEF StartTask, ActiveJobs, DiscoveryTypeOK
    <3>2. CASE CompleteJob(j) \/ FailJob(j)
      <4>1. PICK status \in {"COMPLETE", "FAILED"} : job' = [job EXCEPT ![j].status = status]
        BY <3>2 DEF CompleteJob, FailJob, Ended
      <4>2. QED  BY <4>1 DEF ActiveJobs, Active, DiscoveryTypeOK, JobRow
    <3>3. CASE UNCHANGED job  BY <3>3 DEF ActiveJobs
    <3>4. QED
      BY <1>2, <3>1, <3>2, <3>3 DEF ListKnown, StoreScan, PassOneEnds, AnnounceHost, RescanRow,
                 RaiseChange, ReadNames, TaskFault, Store, tables
  <2>3. \A h \in Host : RowsOf(h)' = RowsOf(h)
    <3>1. CASE StoreScan(j)
      <4> DEFINE q == t.row
      <4>1. row' = [row EXCEPT ![q] = [@ EXCEPT !.stored = t.fresh]]  BY <3>1 DEF StoreScan, Store
      <4> HIDE DEF q
      <4>2. \A r \in Row : row'[r].host = row[r].host  BY <4>1 DEF DiscoveryTypeOK, FoundRow
      <4>3. QED  BY <4>2 DEF RowsOf
    <3>2. CASE UNCHANGED row  BY <3>2 DEF RowsOf
    <3>3. QED
      BY <1>2, <3>1, <3>2 DEF StartTask, ListKnown, PassOneEnds, AnnounceHost, RescanRow,
                 RaiseChange, ReadNames, CompleteJob, FailJob, Ended, TaskFault, tables
  <2>4. ASSUME NEW h \in Host, RowsOf(h) # {} PROVE MayRecord(h)' \subseteq MayRecord(h)
    <3>1. ASSUME NEW new, TaskGoes(j, new),
                 \/ new.pc \notin {"hosts", "announcing"}
                 \/ h \notin new.candidates \ new.known
                 \/ t.pc = "announcing" /\ new.candidates = t.candidates /\ new.known = t.known
          PROVE  MayRecord(h)' \subseteq MayRecord(h)
      <4>1. task'[j] = new /\ \A i \in Job : i # j => task'[i] = task[i]
        BY <3>1 DEF TaskGoes, DiscoveryTypeOK
      <4>2. QED  BY <4>1, <3>1 DEF MayRecord
    <3>2. CASE StartTask(j)  BY <3>1, <3>2 DEF StartTask, NoTask
    <3>3. CASE ListKnown(j)  BY <3>1, <3>3 DEF ListKnown, NoTask
    <3>4. CASE StoreScan(j)  BY <3>1, <3>4, <1>t DEF StoreScan, TaskState
    <3>5. CASE PassOneEnds(j)  BY <3>1, <3>5 DEF PassOneEnds, NoTask
    <3>6. CASE AnnounceHost(j)
      <4> DEFINE new == [t EXCEPT !.pc = "hosts", !.row = NoRow]
      <4>1. TaskGoes(j, new) /\ t.pc = "announcing"  BY <3>6 DEF AnnounceHost
      <4>2. new.candidates = t.candidates /\ new.known = t.known  BY <1>t DEF TaskState
      <4> HIDE DEF new
      <4>3. QED  BY <3>1, <4>1, <4>2
    <3>7. ASSUME NEW r, NEW s, RescanRow(j, r, s) PROVE MayRecord(h)' \subseteq MayRecord(h)
      BY <3>1, <3>7, <1>t DEF RescanRow, TaskState
    <3>8. ASSUME NEW change, RaiseChange(j, change) PROVE MayRecord(h)' \subseteq MayRecord(h)
      BY <3>1, <3>8, <1>t DEF RaiseChange, TaskState
    <3>9. ASSUME NEW c, ReadNames(j, c) PROVE MayRecord(h)' \subseteq MayRecord(h)
      <4> DEFINE new == [NoTask EXCEPT !.pc = "hosts", !.candidates = c, !.known = HostsFound]
      <4>1. TaskGoes(j, new) /\ new.known = HostsFound  BY <3>9 DEF ReadNames, NoTask
      <4>2. h \in HostsFound
        <5>1. PICK r \in Row : row[r].host = h  BY <2>4 DEF RowsOf
        <5>2. r \in Found  BY <5>1, DiscoveryAssumption DEF JobsIInv, RowsOfJobs, Found
        <5>3. QED  BY <5>1, <5>2 DEF HostsFound
      <4> HIDE DEF new
      <4>3. QED  BY <3>1, <4>1, <4>2
    <3>10. CASE CompleteJob(j) \/ FailJob(j)
      BY <3>1, <3>10 DEF CompleteJob, FailJob, Ended, NoTask
    <3>11. CASE TaskFault(j)
      <4>1. TaskGoes(j, NoTask) \/ TaskGoes(j, [NoTask EXCEPT !.pc = "failing"])
        BY <3>11 DEF TaskFault
      <4>2. QED  BY <4>1, <3>1 DEF NoTask
    <3>12. QED
      BY <1>2, <3>2, <3>3, <3>4, <3>5, <3>6, <3>7, <3>8, <3>9, <3>10, <3>11
  <2>5. Clear' = Clear  BY <2>1 DEF Clear
  <2>6. QED  BY <2>2, <2>3, <2>4, <2>5, HostsFewer
<1>3. QED  BY <1>1, <1>2 DEF TaskStep

LEMMA HostsProcess ==
  ASSUME DiscoveryTypeOK, HostsIInv, Crash \/ Boot \/ BootFault \/ ColdStart
  PROVE  HostsIInv'
<1>1. UNCHANGED row  BY DEF Crash, Boot, BootFault, ColdStart, tables
<1>2. \A h : RowsOf(h)' = RowsOf(h)  BY <1>1 DEF RowsOf
<1>3. Clear' \subseteq Clear  BY DEF Crash, Boot, BootFault, ColdStart, Clear, Idle
<1>4. ActiveJobs' \subseteq ActiveJobs
  <2>1. CASE Boot
    BY <2>1 DEF Boot, ActiveJobs, Active, DiscoveryTypeOK, JobRow
  <2>2. CASE Crash \/ BootFault \/ ColdStart  BY <2>2 DEF Crash, BootFault, ColdStart, tables, ActiveJobs
  <2>3. QED  BY <2>1, <2>2
<1>5. \A h : MayRecord(h)' \subseteq MayRecord(h)
  BY DEF Crash, Boot, BootFault, ColdStart, MayRecord, NoTask
<1>6. QED  BY <1>2, <1>3, <1>4, <1>5, HostsFewer

(***************************************************************************)
(* Assets made from a row                                                  *)
(***************************************************************************)
LEMMA ReviewSetsFinite ==
  /\ IsFiniteSet(Admin) /\ Cardinality(Admin) \in Nat
  /\ \A r : /\ IsFiniteSet(AssetsOf(r)) /\ IsFiniteSet(Promoting(r)) /\ IsFiniteSet(Linking(r))
            /\ Cardinality(AssetsOf(r)) \in Nat /\ Cardinality(Promoting(r)) \in Nat
            /\ Cardinality(Linking(r)) \in Nat
<1>1. IsFiniteSet(Admin) /\ IsFiniteSet(NewAsset)  BY DiscoveryAssumption
<1>2. \A r : AssetsOf(r) \subseteq NewAsset /\ Promoting(r) \subseteq Admin /\ Linking(r) \subseteq Admin
  BY DEF AssetsOf, Promoting, Linking
<1>3. \A r : IsFiniteSet(AssetsOf(r)) /\ IsFiniteSet(Promoting(r)) /\ IsFiniteSet(Linking(r))
  BY <1>1, <1>2, FS_Subset
<1>4. QED  BY <1>1, <1>3, FS_CardinalityType

\* Steps of the others: they make no asset, take no part in a review, and set no status.
LEMMA ReviewQuiet ==
  ASSUME DiscoveryTypeOK, ReviewIInv, UNCHANGED <<origin, review>>,
         \A r \in Row : \/ row'[r].status = row[r].status
                        \/ row[r].status = "none" /\ row'[r].status # "none",
         faults' = 0 => faults = 0, crashes' = 0 => crashes = 0
  PROVE  ReviewIInv'
<1>1. \A r : /\ AssetsOf(r)' = AssetsOf(r) /\ Promoting(r)' = Promoting(r) /\ Linking(r)' = Linking(r)
  BY DEF AssetsOf, Promoting, Linking
<1>2. \A r \in Row : row'[r].status = "none" =>
        AssetsOf(r)' = {} /\ \A a \in Admin : review'[a].pc # "idle" => review'[a].row # r
  BY <1>1 DEF ReviewIInv
<1>3. \A a \in Admin : review'[a].pc # "idle" => review'[a].row \in Row  BY DEF ReviewIInv
<1>4. ASSUME faults' = 0, crashes' = 0, NEW r \in Row
      PROVE  /\ row'[r].status = "NEW" => Cardinality(AssetsOf(r)') = Cardinality(Linking(r)')
             /\ Cardinality(AssetsOf(r)') + Cardinality(Promoting(r)') <= Cardinality(Admin)
  <2>1. /\ row[r].status = "NEW" => Cardinality(AssetsOf(r)) = Cardinality(Linking(r))
        /\ Cardinality(AssetsOf(r)) + Cardinality(Promoting(r)) <= Cardinality(Admin)
    BY <1>4 DEF ReviewIInv
  <2>2. row[r].status = "none" => AssetsOf(r) = {} /\ Linking(r) = {}
    BY DEF ReviewIInv, Linking
  <2>3. QED  BY <1>1, <2>1, <2>2
<1>5. QED  BY <1>2, <1>3, <1>4 DEF ReviewIInv

LEMMA ReviewOthers ==
  ASSUME DiscoveryTypeOK, ReviewIInv,
         \/ \E s \in Starter : CheckNoneActive(s) \/ StarterStep(s) \/ StarterFault(s)
         \/ \E j \in Job : TaskStep(j) \/ TaskFault(j)
         \/ \E r \in Row : \E x \in alert[r] : Acknowledge(r, x)
         \/ Boot \/ BootFault \/ ColdStart
  PROVE  ReviewIInv'
<1>f. ASSUME Fault PROVE faults' # 0
  <2>1. faults \in Nat  BY DiscoveryAssumption DEF DiscoveryTypeOK
  <2>2. QED  BY <1>f, <2>1 DEF Fault
<1>0. ASSUME UNCHANGED <<origin, review, row, crashes>>, UNCHANGED faults \/ Fault
      PROVE  ReviewIInv'
  <2>1. faults' = 0 => faults = 0  BY <1>0, <1>f
  <2>2. QED  BY <1>0, <2>1, ReviewQuiet
<1>1. ASSUME NEW s \in Starter, CheckNoneActive(s) \/ StarterStep(s) \/ StarterFault(s)
      PROVE  ReviewIInv'
  BY <1>1, <1>0 DEF CheckNoneActive, StarterStep, CreateJob, Launch, StarterFault, tables
<1>2. ASSUME NEW j \in Job, TaskFault(j) PROVE ReviewIInv'
  BY <1>2, <1>0 DEF TaskFault, tables
<1>3. ASSUME NEW j \in Job, TaskStep(j) PROVE ReviewIInv'
  <2>1. CASE \E h \in Host, surface \in Surfaces(instance.outputs) : RecordHost(j, h, surface)
    <3>1. PICK h \in Host, surface \in Surfaces(instance.outputs) : RecordHost(j, h, surface)
      BY <2>1
    <3>2. \A r \in Row : \/ row'[r] = row[r]
                         \/ row[r].status = "none" /\ row'[r].status = "NEW"
      <4>1. PICK n \in Row :
              /\ row[n].status = "none"
              /\ row'[n] = [host |-> h, job |-> j, status |-> "NEW", stored |-> surface,
                            promoted |-> NoAsset]
              /\ \A r \in Row : r # n => row'[r] = row[r]
        BY <3>1, RecordHostEffect
      <4>2. QED  BY <4>1
    <3>3. UNCHANGED <<origin, review, faults, crashes>>  BY <3>1 DEF RecordHost
    <3>4. QED  BY <3>2, <3>3, ReviewQuiet
  <2>2. CASE StoreScan(j)
    <3> DEFINE q == task[j].row
               fresh == task[j].fresh
    <3>1. row' = [row EXCEPT ![q] = [@ EXCEPT !.stored = fresh]]
          /\ UNCHANGED <<origin, review, faults, crashes>>
      BY <2>2 DEF StoreScan, Store
    <3> HIDE DEF q, fresh
    <3>2. \A r \in Row : row'[r].status = row[r].status  BY <3>1 DEF DiscoveryTypeOK, FoundRow
    <3>3. QED  BY <3>1, <3>2, ReviewQuiet
  <2>3. CASE UNCHANGED <<origin, review, row, faults, crashes>>  BY <2>3, <1>0
  <2>4. QED
    BY <1>3, <2>1, <2>2, <2>3 DEF TaskStep, StartTask, ListKnown, RescanRow, RaiseChange, PassOneEnds,
            ReadNames, AnnounceHost, CompleteJob, FailJob, Ended, tables
<1>4. ASSUME NEW r \in Row, NEW x \in alert[r], Acknowledge(r, x) PROVE ReviewIInv'
  BY <1>4, <1>0 DEF Acknowledge
<1>5. CASE Boot \/ BootFault \/ ColdStart  BY <1>5, <1>0 DEF Boot, BootFault, ColdStart, tables
<1>6. QED  BY <1>1, <1>2, <1>3, <1>4, <1>5

LEMMA ReviewEnds ==
  ASSUME DiscoveryTypeOK, ReviewIInv, Crash \/ \E a \in Admin : ReviewFault(a)
  PROVE  ReviewIInv'
<1>1. UNCHANGED <<origin, row>>  BY DEF Crash, ReviewFault, tables
<1>2. \A a \in Admin : review'[a] = review[a] \/ review'[a].pc = "idle"
  BY DEF Crash, ReviewFault, IdleReview, DiscoveryTypeOK
<1>3. faults' # 0 \/ crashes' # 0
  <2>1. faults \in Nat /\ crashes \in Nat  BY DiscoveryAssumption DEF DiscoveryTypeOK
  <2>2. QED  BY <2>1 DEF Crash, ReviewFault, Fault
<1>4. QED  BY <1>1, <1>2, <1>3 DEF ReviewIInv, AssetsOf

LEMMA ReviewRead ==
  ASSUME DiscoveryTypeOK, ReviewIInv, NEW a \in Admin, NEW q \in Row,
         NEW d \in {"promote", "ignore"}, ReadForReview(a, q, d)
  PROVE  ReviewIInv'
<1>1. /\ UNCHANGED <<origin, row, faults, crashes>> /\ review[a].pc = "idle" /\ row[q].status = "NEW"
      /\ \A b \in Admin : b # a => review'[b] = review[b]
      /\ review'[a].pc = d /\ review'[a].row = q
  BY DEF ReadForReview, tables, IdleReview, DiscoveryTypeOK
<1>2. \A r : AssetsOf(r)' = AssetsOf(r) /\ Linking(r)' = Linking(r)
  BY <1>1 DEF AssetsOf, Linking
<1>3. /\ \A r : r # q => Promoting(r)' = Promoting(r)
      /\ Promoting(q)' \subseteq Promoting(q) \cup {a} /\ a \notin Promoting(q)
  BY <1>1 DEF Promoting
<1>4. ASSUME faults = 0, crashes = 0
      PROVE  Cardinality(AssetsOf(q)) + Cardinality(Promoting(q)') <= Cardinality(Admin)
  <2>1. Cardinality(AssetsOf(q)) = Cardinality(Linking(q))  BY <1>1, <1>4 DEF ReviewIInv
  <2> DEFINE P == Promoting(q) \cup {a}
  <2>2. P \subseteq Admin /\ Linking(q) \subseteq Admin /\ P \cap Linking(q) = {}
    BY <1>1 DEF Promoting, Linking
  <2>3. IsFiniteSet(P) /\ IsFiniteSet(Linking(q)) /\ Cardinality(P) \in Nat
    BY <2>2, ReviewSetsFinite, Subsets
  <2>4. Cardinality(P \cup Linking(q)) = Cardinality(P) + Cardinality(Linking(q))
    <3>1. Cardinality(P \cap Linking(q)) = 0  BY <2>2, FS_EmptySet
    <3>2. Cardinality(P \cup Linking(q))
            = Cardinality(P) + Cardinality(Linking(q)) - Cardinality(P \cap Linking(q))
      BY <2>3, FS_Union
    <3>3. QED  BY <3>1, <3>2, <2>3, ReviewSetsFinite
  <2>5. Cardinality(P \cup Linking(q)) <= Cardinality(Admin)
    <3>1. P \cup Linking(q) \in SUBSET Admin  BY <2>2
    <3>2. QED  BY <3>1, ReviewSetsFinite, Subsets
  <2>6. Cardinality(Promoting(q)') \in Nat /\ Cardinality(Promoting(q)') <= Cardinality(P)
    BY <1>3, <2>3, Subsets
  <2>7. QED  BY <2>1, <2>3, <2>4, <2>5, <2>6, ReviewSetsFinite
<1>5. ASSUME faults' = 0, crashes' = 0, NEW r \in Row
      PROVE  /\ row'[r].status = "NEW" => Cardinality(AssetsOf(r)') = Cardinality(Linking(r)')
             /\ Cardinality(AssetsOf(r)') + Cardinality(Promoting(r)') <= Cardinality(Admin)
  <2>1. faults = 0 /\ crashes = 0 /\ row'[r] = row[r]  BY <1>1, <1>5
  <2>2. /\ row[r].status = "NEW" => Cardinality(AssetsOf(r)) = Cardinality(Linking(r))
        /\ Cardinality(AssetsOf(r)) + Cardinality(Promoting(r)) <= Cardinality(Admin)
    BY <2>1 DEF ReviewIInv
  <2>3. CASE r = q  BY <2>1, <2>2, <2>3, <1>2, <1>4
  <2>4. CASE r # q  BY <2>1, <2>2, <2>4, <1>2, <1>3
  <2>5. QED  BY <2>3, <2>4
<1>6. \A r \in Row : row'[r].status = "none" =>
        AssetsOf(r)' = {} /\ \A b \in Admin : review'[b].pc # "idle" => review'[b].row # r
  BY <1>1, <1>2 DEF ReviewIInv
<1>7. \A b \in Admin : review'[b].pc # "idle" => review'[b].row \in Row
  BY <1>1 DEF ReviewIInv
<1>8. QED  BY <1>5, <1>6, <1>7 DEF ReviewIInv

LEMMA ReviewCreate ==
  ASSUME DiscoveryTypeOK, ReviewIInv, NEW a \in Admin, CreateAsset(a)
  PROVE  ReviewIInv'
<1> DEFINE x == CreatedAsset
<1>0. PICK q : q = review[a].row  OBVIOUS
<1>1. x \in NewAsset /\ origin[x] = NoRow  BY FreshAsset DEF CreateAsset
<1>2. /\ UNCHANGED <<row, faults, crashes>> /\ review[a].pc = "promote"
      /\ origin' = [origin EXCEPT ![x] = q]
  BY <1>0 DEF CreateAsset
<1>3. /\ \A b \in Admin : b # a => review'[b] = review[b]
      /\ review'[a].pc = "link" /\ review'[a].row = q
  BY <1>0 DEF CreateAsset, DiscoveryTypeOK, ReviewState
<1> HIDE DEF x
<1>4. q \in Row /\ row[q].status # "none"  BY <1>0, <1>2 DEF ReviewIInv
<1>5. x \notin AssetsOf(q) /\ AssetsOf(q)' = AssetsOf(q) \cup {x}
  BY <1>1, <1>2, <1>4, DiscoveryAssumption DEF AssetsOf, DiscoveryTypeOK
<1>6. \A r \in Row : r # q => AssetsOf(r)' = AssetsOf(r)
  BY <1>1, <1>2, DiscoveryAssumption DEF AssetsOf, DiscoveryTypeOK
<1>7. a \in Promoting(q) /\ Promoting(q)' = Promoting(q) \ {a}
  BY <1>0, <1>2, <1>3 DEF Promoting
<1>8. a \notin Linking(q) /\ Linking(q)' = Linking(q) \cup {a}
  BY <1>2, <1>3 DEF Linking
<1>9. \A r \in Row : r # q => Promoting(r)' = Promoting(r) /\ Linking(r)' = Linking(r)
  BY <1>0, <1>3 DEF Promoting, Linking
<1>10. ASSUME faults' = 0, crashes' = 0, NEW r \in Row
       PROVE  /\ row'[r].status = "NEW" => Cardinality(AssetsOf(r)') = Cardinality(Linking(r)')
              /\ Cardinality(AssetsOf(r)') + Cardinality(Promoting(r)') <= Cardinality(Admin)
  <2>1. faults = 0 /\ crashes = 0 /\ row'[r] = row[r]  BY <1>2, <1>10
  <2>2. /\ row[r].status = "NEW" => Cardinality(AssetsOf(r)) = Cardinality(Linking(r))
        /\ Cardinality(AssetsOf(r)) + Cardinality(Promoting(r)) <= Cardinality(Admin)
    BY <2>1 DEF ReviewIInv
  <2>3. CASE r # q  BY <2>1, <2>2, <2>3, <1>6, <1>9
  <2>4. CASE r = q
    <3>1. Cardinality(AssetsOf(q)') = Cardinality(AssetsOf(q)) + 1
      BY <1>5, ReviewSetsFinite, OneMore
    <3>2. Cardinality(Promoting(q)') = Cardinality(Promoting(q)) - 1
      BY <1>7, ReviewSetsFinite, OneLess
    <3>3. Cardinality(Linking(q)') = Cardinality(Linking(q)) + 1
      BY <1>8, ReviewSetsFinite, OneMore
    <3>4. QED  BY <2>1, <2>2, <2>4, <3>1, <3>2, <3>3, ReviewSetsFinite
  <2>5. QED  BY <2>3, <2>4
<1>11. \A r \in Row : row'[r].status = "none" =>
         AssetsOf(r)' = {} /\ \A b \in Admin : review'[b].pc # "idle" => review'[b].row # r
  <2>1. ASSUME NEW r \in Row, row[r].status = "none"
        PROVE  AssetsOf(r)' = {} /\ \A b \in Admin : review'[b].pc # "idle" => review'[b].row # r
    <3>1. r # q  BY <1>4, <2>1
    <3>2. AssetsOf(r)' = {}  BY <2>1, <3>1, <1>6 DEF ReviewIInv
    <3>3. \A b \in Admin : review'[b].pc # "idle" => review'[b].row # r
      BY <2>1, <3>1, <1>3 DEF ReviewIInv
    <3>4. QED  BY <3>2, <3>3
  <2>2. QED  BY <2>1, <1>2
<1>12. \A b \in Admin : review'[b].pc # "idle" => review'[b].row \in Row
  BY <1>3, <1>4 DEF ReviewIInv
<1>13. QED  BY <1>10, <1>11, <1>12 DEF ReviewIInv

LEMMA ReviewDecided ==
  ASSUME DiscoveryTypeOK, ReviewIInv, NEW a \in Admin, LinkAsset(a) \/ IgnoreRow(a)
  PROVE  ReviewIInv'
<1>0. PICK q : q = review[a].row  OBVIOUS
<1>1. /\ UNCHANGED <<origin, faults, crashes>> /\ review[a].pc \in {"link", "ignore"}
      /\ \A b \in Admin : b # a => review'[b] = review[b]
      /\ review'[a].pc = "idle"
  BY DEF LinkAsset, IgnoreRow, DiscoveryTypeOK, IdleReview
<1>2. q \in Row /\ row[q].status # "none"  BY <1>0, <1>1 DEF ReviewIInv
<1>3. /\ row'[q].status \in {"PROMOTED", "IGNORED"}
      /\ \A r \in Row : r # q => row'[r] = row[r]
  <2>1. row[q] \in FoundRow  BY <1>2 DEF DiscoveryTypeOK
  <2>2. \E new : row' = [row EXCEPT ![q] = new] /\ new.status \in {"PROMOTED", "IGNORED"}
    <3>1. CASE LinkAsset(a)
      <4> DEFINE new == [row[q] EXCEPT !.status = "PROMOTED", !.promoted = review[a].asset]
      <4>1. row' = [row EXCEPT ![q] = new] /\ new.status = "PROMOTED"
        BY <1>0, <2>1, <3>1 DEF LinkAsset, FoundRow
      <4>2. QED  BY <4>1
    <3>2. CASE IgnoreRow(a)
      <4> DEFINE new == [row[q] EXCEPT !.status = "IGNORED"]
      <4>1. row' = [row EXCEPT ![q] = new] /\ new.status = "IGNORED"
        BY <1>0, <2>1, <3>2 DEF IgnoreRow, FoundRow
      <4>2. QED  BY <4>1
    <3>3. QED  BY <3>1, <3>2
  <2>3. QED  BY <1>2, <2>2 DEF DiscoveryTypeOK
<1>4. \A r : AssetsOf(r)' = AssetsOf(r) /\ Promoting(r)' = Promoting(r)
  BY <1>1 DEF AssetsOf, Promoting
<1>5. \A r : r # q => Linking(r)' = Linking(r)  BY <1>0, <1>1 DEF Linking
<1>6. ASSUME faults' = 0, crashes' = 0, NEW r \in Row
      PROVE  /\ row'[r].status = "NEW" => Cardinality(AssetsOf(r)') = Cardinality(Linking(r)')
             /\ Cardinality(AssetsOf(r)') + Cardinality(Promoting(r)') <= Cardinality(Admin)
  <2>1. faults = 0 /\ crashes = 0  BY <1>1, <1>6
  <2>2. /\ row[r].status = "NEW" => Cardinality(AssetsOf(r)) = Cardinality(Linking(r))
        /\ Cardinality(AssetsOf(r)) + Cardinality(Promoting(r)) <= Cardinality(Admin)
    BY <2>1 DEF ReviewIInv
  <2>3. row'[r].status = "NEW" => r # q /\ row'[r] = row[r]  BY <1>3
  <2>4. QED  BY <2>2, <2>3, <1>4, <1>5
<1>7. \A r \in Row : row'[r].status = "none" =>
        AssetsOf(r)' = {} /\ \A b \in Admin : review'[b].pc # "idle" => review'[b].row # r
  <2>1. \A r \in Row : row'[r].status = "none" => row[r].status = "none"  BY <1>3
  <2>2. QED  BY <2>1, <1>1, <1>4 DEF ReviewIInv
<1>8. \A b \in Admin : review'[b].pc # "idle" => review'[b].row \in Row
  BY <1>1 DEF ReviewIInv
<1>9. QED  BY <1>6, <1>7, <1>8 DEF ReviewIInv

(***************************************************************************)
(* The invariant and the theorems                                          *)
(***************************************************************************)
DiscoveryIInv == DiscoveryTypeOK /\ JobsIInv /\ PortsIInv /\ HostsIInv /\ ReviewIInv

LEMMA InitIInv == Init => DiscoveryIInv
<1> SUFFICES ASSUME Init PROVE DiscoveryIInv  OBVIOUS
<1>1. DiscoveryTypeOK  BY InitType
<1>2. /\ \A j \in Job : job[j].status = "none" /\ task[j].pc = "none" /\ task[j].todo = {}
      /\ \A s \in Starter : starter[s].pc = "idle"
      /\ \A r \in Row : row[r].status = "none" /\ row[r].host = NoHost /\ row[r].job = NoJob
      /\ \A x \in NewAsset : origin[x] = NoRow
      /\ \A a \in Admin : review[a].pc = "idle"
  BY DEF Init, NoTask, Idle, NoneFound, IdleReview
<1>3. Found = {}  BY <1>2 DEF Found
<1>4. JobsIInv
  BY <1>2, <1>3 DEF JobsIInv, DownIsIdle, QueuedJobs, LiveTasks, RowsOfJobs, RowsComeLate, Announced,
                    BeforeHosts
<1>5. PortsIInv
  <2>1. \A j \in Job : behind[j] = {} /\ task[j].todo = {}  BY DEF Init, NoTask
  <2>2. QED  BY <1>2, <1>3, <2>1 DEF PortsIInv, AddsUp, Reading, Telling
<1>6. HostsIInv
  <2>1. Clear = {} /\ ActiveJobs = {}  BY <1>2 DEF Clear, ActiveJobs, Active
  <2>2. \A h \in Host : RowsOf(h) = {}  BY <1>2, DiscoveryAssumption DEF RowsOf
  <2>3. Cardinality(Clear) = 0 /\ Cardinality(ActiveJobs) = 0 /\ Cardinality(Starter) \in Nat
    BY <2>1, FS_EmptySet, HostSetsFinite, FS_CardinalityType
  <2>4. QED  BY <2>2, <2>3 DEF HostsIInv
<1>7. ReviewIInv
  <2>1. \A r \in Row : AssetsOf(r) = {} /\ Linking(r) = {} /\ Promoting(r) = {}
    BY <1>2, DiscoveryAssumption DEF AssetsOf, Linking, Promoting
  <2>2. Cardinality({}) = 0  BY FS_EmptySet
  <2>3. \A r \in Row : /\ Cardinality(AssetsOf(r)) = Cardinality(Linking(r))
                      /\ Cardinality(AssetsOf(r)) + Cardinality(Promoting(r)) <= Cardinality(Admin)
    <3>1. \A r \in Row : /\ Cardinality(AssetsOf(r)) = 0 /\ Cardinality(Linking(r)) = 0
                        /\ Cardinality(Promoting(r)) = 0
      BY <2>1, <2>2
    <3>2. QED  BY <3>1, ReviewSetsFinite
  <2>4. QED  BY <1>2, <2>1, <2>3 DEF ReviewIInv
<1>8. QED  BY <1>1, <1>4, <1>5, <1>6, <1>7 DEF DiscoveryIInv

LEMMA StutterIInv == ASSUME DiscoveryIInv, UNCHANGED vars PROVE DiscoveryIInv'
<1>1. DiscoveryTypeOK'  BY DEF DiscoveryIInv, DiscoveryTypeOK, vars, tables, history
<1>2. SameRows /\ RaisedKept  BY SameRowsIfUnchanged, RaisedKeptIfUnchanged DEF vars, tables
<1>3. JobsIInv'  BY <1>2, JobsQuiet DEF DiscoveryIInv, vars, tables
<1>4. PortsIInv'  BY <1>2, PortsQuiet DEF DiscoveryIInv, vars, tables, SameRows
<1>5. HostsIInv'
  BY DEF DiscoveryIInv, HostsIInv, vars, tables, Clear, ActiveJobs, RowsOf, MayRecord
<1>6. ReviewIInv'  BY ReviewQuiet DEF DiscoveryIInv, vars, tables
<1>7. QED  BY <1>1, <1>3, <1>4, <1>5, <1>6 DEF DiscoveryIInv

LEMMA NextIInv == ASSUME DiscoveryIInv, Next PROVE DiscoveryIInv'
<1> USE DEF DiscoveryIInv
<1>1. ASSUME NEW s \in Starter, CheckNoneActive(s) \/ StarterStep(s) \/ StarterFault(s)
      PROVE  DiscoveryIInv'
  <2>1. UNCHANGED <<row, history>> /\ Found' = Found
    BY <1>1 DEF CheckNoneActive, StarterStep, CreateJob, Launch, StarterFault, tables, Found
  <2>2. \A i \in Job : \/ task'[i] = task[i]
                       \/ task[i].pc = "none" /\ task'[i].todo = {} /\ task'[i].pc = "starting"
    <3> DEFINE new == [NoTask EXCEPT !.pc = "starting"]
    <3>1. new.todo = {} /\ new.pc = "starting"  BY DEF NoTask
    <3>2. \/ UNCHANGED task
          \/ task' = [task EXCEPT ![starter[s].job] = new] /\ starter[s].pc = "queued"
      BY <1>1 DEF CheckNoneActive, StarterStep, CreateJob, Launch, StarterFault
    <3> HIDE DEF new
    <3>3. CASE task' = [task EXCEPT ![starter[s].job] = new] /\ starter[s].pc = "queued"
      <4>1. \A i \in Job : task'[i] = task[i] \/ (task'[i] = new /\ i = starter[s].job)
        BY <3>3 DEF DiscoveryTypeOK
      <4>2. task[starter[s].job].pc = "none"  BY <3>3 DEF JobsIInv, QueuedJobs
      <4>3. QED  BY <3>1, <4>1, <4>2
    <3>4. CASE task' = task  BY <3>4
    <3>5. QED  BY <3>2, <3>3, <3>4
  <2>3. PortsIInv'
    <3>1. \A r \in Row : row'[r].stored = row[r].stored  BY <2>1
    <3>2. QED  BY <2>1, <2>2, <3>1, PortsQuiet
  <2>4. QED  BY <1>1, <2>3, StarterType, JobsStarter, HostsStarter, ReviewOthers
<1>2. ASSUME NEW j \in Job, TaskStep(j) \/ TaskFault(j) PROVE DiscoveryIInv'
  <2>1. DiscoveryTypeOK'  BY <1>2, TaskType, TaskFaultType DEF JobsIInv
  <2>2. QED  BY <1>2, <2>1, JobsTask, PortsTask, HostsTask, ReviewOthers
<1>3. CASE ReviewStep
  <2>1. /\ SameRows /\ RaisedKept /\ UNCHANGED <<instance, up, job, starter, task, crashes, history>>
        /\ \A r \in Row : row'[r].stored = row[r].stored
    BY <1>3, ReviewFrame
  <2>2. DiscoveryTypeOK'  BY <1>3, AcknowledgeType, ReviewType DEF ReviewStep
  <2>3. JobsIInv' /\ PortsIInv'  BY <2>1, JobsQuiet, PortsQuiet DEF SameRows
  <2>4. HostsIInv'
    <3>1. Clear' = Clear /\ ActiveJobs' = ActiveJobs /\ \A h : MayRecord(h)' = MayRecord(h)
      BY <2>1 DEF Clear, ActiveJobs, MayRecord
    <3>2. QED  BY <2>1, <3>1, HostsFewer, SameRowsOf
  <2>5. ReviewIInv'
    BY <1>3, ReviewOthers, ReviewEnds, ReviewRead, ReviewCreate, ReviewDecided DEF ReviewStep
  <2>6. QED  BY <2>2, <2>3, <2>4, <2>5
<1>4. CASE Boot \/ BootFault \/ ColdStart
  <2>1. UNCHANGED <<row, task, history>> /\ Found' = Found
    BY <1>4 DEF Boot, BootFault, ColdStart, tables, Found
  <2>2. PortsIInv'  BY <2>1, PortsQuiet
  <2>3. QED  BY <1>4, <2>2, ProcessType, JobsProcess, HostsProcess, ReviewOthers
<1>5. CASE Crash
  <2>1. UNCHANGED row /\ Forgotten(Job) /\ task' = [j \in Job |-> NoTask]
    BY <1>5 DEF Crash, tables
  <2>2. \A i \in Job : task'[i].todo = {} /\ task'[i].pc = "none"  BY <2>1 DEF NoTask
  <2>3. PortsIInv'  BY <2>1, <2>2, PortsForgotten
  <2>4. QED  BY <1>5, <2>3, ProcessType, JobsProcess, HostsProcess, ReviewEnds
<1>6. QED  BY <1>1, <1>2, <1>3, <1>4, <1>5 DEF Next, ReviewStep

THEOREM DiscoveryIInvHolds == Spec => []DiscoveryIInv
<1>1. DiscoveryIInv /\ [Next]_vars => DiscoveryIInv'  BY NextIInv, StutterIInv
<1>2. QED  BY InitIInv, <1>1, PTL DEF Spec

\* Types of the tables, tasks, requests and reviews of discovery and watch.
THEOREM DiscoveryTypes == Spec => []DiscoveryTypeOK
<1>1. DiscoveryIInv => DiscoveryTypeOK  BY DEF DiscoveryIInv
<1>2. QED  BY DiscoveryIInvHolds, <1>1, PTL

\* However many cycles overlap, fail or die, the alerts of a host add up to its
\* stored ports, but for ports that a cycle is about to store, that one alerted
\* and died before storing, or that one stored over another cycle: a cycle
\* compares with the row as it is, unless another has stored it since, and
\* alerts every port of the difference before it stores it.
THEOREM PortChangesAreAlerted == Spec => []PortChangesAlerted
<1>1. DiscoveryIInv => PortChangesAlerted
  <2> SUFFICES ASSUME DiscoveryIInv, NEW r \in Found, NEW p \in Differ(told[r], Ports(row[r].stored))
               PROVE  p \in unsure[r] \cup UNION {Alerted(task[j]) : j \in {i \in Job : task[i].row = r}}
    BY DEF PortChangesAlerted
  <2>1. QED  BY DEF DiscoveryIInv, PortsIInv, AddsUp
<1>2. QED  BY DiscoveryIInvHolds, <1>1, PTL

\* A watch that completed has announced every host it recorded, because an error
\* between the row and its alert fails the job.
THEOREM CompleteWatchesAnnounce == Spec => []CompleteWatchAnnounced
<1>1. DiscoveryIInv => CompleteWatchAnnounced
  <2> SUFFICES ASSUME DiscoveryIInv, NEW r \in Found, job[row[r].job].tool = "watch",
                      job[row[r].job].status = "COMPLETE"
               PROVE  \E x \in alert[r] : x.about = NewHost
    BY DEF CompleteWatchAnnounced
  <2>1. row[r].job \in Job  BY DEF DiscoveryIInv, JobsIInv, RowsOfJobs, Found
  <2>2. task[row[r].job].pc = "none"
    BY <2>1 DEF DiscoveryIInv, JobsIInv, LiveTasks, Active
  <2>3. NewHost \in Raised(r)  BY <2>2 DEF DiscoveryIInv, JobsIInv, Announced
  <2>4. QED  BY <2>3 DEF Raised
<1>2. QED  BY DiscoveryIInvHolds, <1>1, PTL

\* A host has at most as many rows as there can be requests and sweeps at the
\* same time: requests that saw no active job, and active jobs, are at most as
\* many, and only a task that read the names before the first row of a host can
\* add another.
THEOREM HostRowsAreBounded == Spec => []HostRowsBounded
<1>1. DiscoveryIInv => HostRowsBounded
  <2> SUFFICES ASSUME DiscoveryIInv, NEW h \in Host
               PROVE  Cardinality(RowsOf(h)) <= Cardinality(Starter)
    BY DEF HostRowsBounded, RowsOf
  <2>1. /\ Cardinality(RowsOf(h)) \in Nat /\ Cardinality(MayRecord(h)) \in Nat
        /\ Cardinality(Starter) \in Nat
    BY HostSetsFinite, FS_CardinalityType
  <2>2. CASE RowsOf(h) = {}  BY <2>1, <2>2, FS_EmptySet
  <2>3. CASE RowsOf(h) # {}  BY <2>1, <2>3 DEF DiscoveryIInv, HostsIInv
  <2>4. QED  BY <2>2, <2>3
<1>2. QED  BY DiscoveryIInvHolds, <1>1, PTL

\* Promotions that overlap each create an Asset, but no more of them than people
\* review at the same time, as long as no statement fails between the Asset and
\* its link.
THEOREM AssetsAreBounded == Spec => []AssetsPerRowBounded
<1>1. DiscoveryIInv => AssetsPerRowBounded
  <2> SUFFICES ASSUME DiscoveryIInv, faults = 0, crashes = 0, NEW r \in Row
               PROVE  Cardinality(AssetsOf(r)) <= Cardinality(Admin)
    BY DEF AssetsPerRowBounded, AssetsOf
  <2>1. Cardinality(AssetsOf(r)) + Cardinality(Promoting(r)) <= Cardinality(Admin)
    BY DEF DiscoveryIInv, ReviewIInv
  <2>2. QED  BY <2>1, ReviewSetsFinite
<1>2. QED  BY DiscoveryIInvHolds, <1>1, PTL
=============================================================================

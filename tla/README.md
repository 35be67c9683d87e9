# Jupiter: models, checks and proofs

Jupiter is a platform for running security assessments: an Express server on
PostgreSQL (through Prisma) with object storage, an identity provider and a key
service, cron endpoints under `/internal/*`, background jobs that live in the
server process, a React frontend, and a Rust agent on the clients' machines.
This directory holds TLA+ models of the parts whose correctness depends on the
order in which things happen, the TLC configurations that check them on small
instances, and theorems, proved with TLAPS, that hold for every instance.

Paths below are relative to the repository's root.

## 1. The system

### Components and their state

| component | state it keeps | operations | talks to |
|---|---|---|---|
| engagements (`src/modules/engagements`) | `Engagement` row: status, `authorizationSignedAt`, method, envelope id, request status, document reference and its encryption metadata | create, PATCH scope, authorize, authorize/send, authorize/check, download | e-signature provider, object storage, KMS |
| assets (`src/modules/assets`) | `Asset` row: identifier, verification status, method, token | create, verification/start, check, manual | DNS and HTTP of the target |
| scanning (`src/modules/scanning`) | `Test` and `ScanJob` rows; the runner in memory | POST scan, `startScan`, `runScanJob` | Nuclei, VirusTotal, findings import |
| scheduled sweep (`src/modules/internal/scheduled-scans.routes.ts`) | none; reads assets and jobs | GET `/internal/scheduled-scans` | scanning |
| server start (`src/server.ts`) | none | fail orphaned jobs, listen | scanning, discovery |
| agents (`src/modules/agents`) | `EnrollmentToken`, `Device` rows | issue token, enroll, revoke, whoami, checkin | the agent |
| agent (`agent/src`) | `config.json`, private key, check-in loop | enroll, uninstall, run | agents API |
| discovery and watch (`src/modules/discovery`) | `DiscoveryJob`, `DiscoveredAsset`, `WatchAlert` | run, promote, ignore, scheduled watch | CT logs, port probes |
| findings (`src/modules/findings`, `retests`, `security-tests`) | `Finding`, `Retest`, `Test` | import, edit, triage, retest | AI, AI budget |
| AI (`src/ai`) | `AiUsageRecord` | budgeted calls | Anthropic API |
| crypto (`src/crypto`) | wrapped data keys in other rows | encrypt, decrypt, rotate | KMS, customers' KMS |
| clients (`src/modules/clients`) | `Client` and what belongs to it | create, delete | everything above |
| evidence, reports | rows plus objects in storage | upload, complete, malware check, generate | object storage, VirusTotal |
| backups, digests, notifications, usage, audit, compliance, training, cspm, sbom, threat-response | rows of their own | mostly single statements | mail, webhooks |
| frontend, scripts | none | views and one-off tools | the API |

The components interact through the database. There is no queue and no lock:
a handler reads rows, awaits something slow (a provider, a DNS lookup, a scan)
and writes rows by id, and PostgreSQL runs every statement, and the few
transactions, at READ COMMITTED. Scan and discovery jobs are promises of the
server process, which the boot sweep declares failed after a restart.

### What is hard, and what makes each part correct

* **Engagements.** The gate of the whole platform: no test before the
  authorization is signed. `authorize/check` decides on a copy of the row that
  is several network calls old, while sends, resends, other checks and manual
  authorizations write the row. Correct if the gate opens only on evidence for
  this engagement, if an answer shown as SIGNED has opened it, and if a stored
  document can be decrypted by whoever the KMS lets.
* **Assets.** The check of a published token takes seconds, and a restart of
  the verification may come in between. Correct if VERIFIED rests on proof of
  control or on an attestation.
* **Scanning.** Three processes (requests, sweep, runner) and the process's own
  death share the rows. Correct if no scan lacks its authorization, one scan
  runs at a time per asset, every job ends, an outcome is final, and no crash
  blocks an asset.
* **Agents.** Requests are retried, raced and lost; the agent may be killed
  between any two writes to its disk. Correct if a token enrolls one device, and
  an enrolled machine holds the credential its config names and keeps checking in.
* **Discovery and watch.** A request and the sweep start jobs behind a check for
  running ones; a watch raises alerts one by one and then updates the row the next
  cycle compares with. Correct if alerts and stored ports agree, a completed watch has
  announced what it found, every job ends, and races make a bounded number of
  duplicate rows and assets.
* **Findings.** Imports read the open findings once and create one by one; retests,
  people and AI tasks write the same rows. Correct if duplicates are bounded by the
  imports that race, a status says what was last decided, and
  the lists computed from the findings are complete and consistent.
* **AI budget.** Two counts and a create: correct if the caps are exceeded by fewer
  calls than can be made together.
* **A client's data.** Edits, rotation, uploads, background checks, erasure, backups
  and restores write the same rows without a lock, and files outlive transactions.
  Correct if no edit is lost to a rotation, rows have their files and erased rows
  lose them, PENDING evidence is being checked, and a backup can be restored.

`PROJECT.json` lists every such place under `hazards`, at its line.

## 2. Modules

| module | models | state |
|---|---|---|
| `EngagementGate` | abstract: what the authorization promises | `vouched`, `open` |
| `Authorization` | the engagement handlers and the e-signature provider | `engagement` (the table), `provider`, `sentFor`, `storage`, `sender`, `checker` (requests in progress), `attested` |
| `AssetVerification` | the verification handlers and the owner of the target | `asset` (the table), `issuedFor`, `published`, `prober` (requests), `proven`, `justified` |
| `ScanJobs` | requests, sweep, runner, crash and boot; composed with the two modules above | `scan` (Test and ScanJob rows), `runner`, `trigger`, `sweep`, `up`, `faults` |
| `AgentEnrollment` | tokens, enrollment transaction, revocation, device authentication; the agent's enroll, uninstall and check-in | `token`, `usedBy`, `device`, `request`, `disk`, `command`, `daemon`, `signed` |
| `AiBudget` | the gate in front of every AI call, statement by statement | `callsToday`, `callsMonth`, `caller` |
| `FindingRanking` | pure: exploitability, clusters, false-positive score, attack paths | none |
| `Findings` | findings, imports, retests, acceptance of drafts, AI tasks; EXTENDS the two above | `finding` (the table), `retested`, `rivals`, `retester`, `importer`, `admin`, `subject`, `handled` |
| `Discovery` | discovery and watch jobs with the boot sweep, alerts, promotion and ignoring | `job`, `row`, `alert`, `origin` (tables), `starter`, `task`, `review`, `up`, `faults`, `crashes`; `told`, `unsure`, `behind` record what the alerts say |
| `TenantData` | a client's rows and the keys their texts are under: creation, edits, key assignment, BYOK, rotation | `table`, `version`, `editor`, `sweeper`, `last`, `overlapped` |
| `ClientFiles` | EXTENDS `TenantData`: uploads, reports, signed documents, malware check, erasure | `object`, `uploader`, `edition`, `check`, `interrupted`, `eraser`, `erased`, `missed` |
| `Backups` | EXTENDS `ClientFiles`: dumps, pruning, restore; the composed system of a client's data | `dumper`, `catalog`, `stored`, `content`, `torn`, `restored` |
| `AuthorizationProofs`, `AssetVerificationProofs`, `ScanJobsProofs`, `AgentEnrollmentProofs`, `AiBudgetProofs`, `FindingsProofs`, `DiscoveryProofs`, `ClientFilesProofs` | theorems and their proofs | |
| `MC*` | constants of the checked instances | |

**Grain.** One action is one statement against the database, one external call,
or one write to disk, together with the code up to the next await: nothing else
can interleave with it. A handler that awaits is a process with a `pc` and the
values it read; a handler with one statement is one action. For instance
`authorize/check` is `CheckRead` (the row), `CheckAnswer` (the provider's answer
and the decision on the *old* `authorizationSignedAt`), `CheckStore` (fetch,
encrypt and store, best effort) and `CheckWrite`. `startScan` is `CreateTest`,
`CreateJob` and `Launch`; `runScanJob` is `RunnerLoad` to `RunnerFail`, and
`RunnerClose` is the continuation in `startScan`. `PatchTest` is the PATCH that sets the
status of a Test by hand whatever works on it; `edited` records that it happened. A retest
is `RetestInsert` and `RetestCommit`: the insert takes only a key-share lock on the finding, so
other retests of it run in between, and the update locks the row until the commit, with which
it is one step. `before` and `late` say which retests were in progress at an insert and
which have been overtaken by a younger row.

**Failures.** Every request may be abandoned between two steps (an error or a
dead process). `Crash` in `ScanJobs` drops everything in memory, the requests of
the two gates included; `Boot` fails the jobs left and listens. Database errors
are counted by `faults`, because liveness is promised only when they end.
Errors inside the runner's `try` block are ordinary branches. `Discovery` has the same
crash, boot sweep and faults for its own table, and both entries of the program: with
`entry = "server"` (`server.ts`) a dead process comes back by `Boot`, which sweeps; with
`entry = "serverless"` (`api/index.ts`, on which `vercel.json:12` schedules the watch) by
`ColdStart`, which does not. `ScanJobs` has the long-running server only, because scanning needs
one (`src/README.md:755-759`), and one process at a time. In `ClientFiles` a crash drops uploads,
checks and erasures; in `Findings` an import or a task may end at any step.

**One table of rows.** `TenantData` keeps the kinds of rows that hold
encrypted columns, or block an erasure, in one function `table`; the signed document of an
engagement, whose columns are in the engagement's row, counts as a row of its own
(`Backups.TableOf` dumps it with its engagement, `ReplaceDocument` is the manual authorization
that overwrites its reference); `KindOf` and
`ParentOf` are the schema, and `New` and `Removed` enforce its foreign keys as the
database does. A text is the number of the edit that wrote it and the key that wraps
it. What an edit stored last (`last`) and which rows were edited while a sweep held a
copy of them (`overlapped`) are recorded to say what rotation must keep.

**Instances.** In `Findings`, `Discovery` and the client's data the constant `Instance`
is a set of deployments, each with its rows, inputs and bounds, and the initial state
chooses one: one run then covers groups of actors whose full product would not be
checkable.

**Accounts.** The agent keeps its config in the directory of the account it runs as, so `disk`,
`command` and `daemon` of `AgentEnrollment` are functions of `Account`. `Login` are the accounts
that people type commands as, and `ServiceAccount` says as which account the installed service
runs: root on macOS and Linux as on a machine whose agent is installed by root, LocalSystem on Windows.

**Evidence variables.** `attested`, `justified`, `proven`, `sentFor` and
`issuedFor` are not columns. The first two are the audit rows of the successful
calls; `sentFor` is the external id an envelope is created with; `issuedFor` and
`proven` record for whom a token was drawn and what a target published when a check matched. They only
serve to say on what a SIGNED or VERIFIED column rests.

**Data abstraction.** Text, encryption and scan output are abstracted: a stored
document is its storage key, and the three encryption columns are the key of
the object they decrypt, and `docOwn` says whether the client's own key wraps its data key; a scan either has findings or has none; a token is
unguessable because only issued tokens can be published, and a drawn token is
fresh. Clocks appear as the action `ExpireToken`. The check-in columns of
`Device` are left out: no other component reads them. The title of a finding is a name with a
set of tokens: the import's deduplication compares the name, clustering and scoring the tokens; scores are exact
fractions. What nmap prints is a set of ports with state and service. What a backup
holds is a copy of the table. Which keys the system can use is the constant `ByokGranted` (whether
the clients' own key admits it), in `Authorization` with `OwnKeyed` (the engagements whose client has
such a key, registered at any time), and the operator `Unwraps`. Sorting and clustering of findings are
recursive functions, about which proofs are possible.

**Reads.** A download or a listing changes nothing, so it is an operator on the state that says when
it succeeds, and an invariant says when it does: `DocumentServed` (GET authorization-document),
`Readable` (GET of a finding), `EvidenceServed`, `ReportServed` and, in `ClientFiles` too,
`DocumentServed` (the file is in storage and the system can use the key).

**Steps joined.** The creation of a row is one step with the lookup of the key its
text is encrypted under, although the code resolves the key one await earlier;
edits and uploads, where the difference matters, keep the two apart. A PATCH of a
finding that sets a status and accepts a draft is `SetStatus` followed by `AcceptWrite`.

## 3. What TLC checks

| run | instance | properties |
|---|---|---|
| `gates` | 2 engagements, one of a client whose own key does not admit the system, 2 envelopes, 2 blobs, 1 send and 2 check requests; 2 assets, 2 tokens, both methods, 1 check. The two gates share nothing, so each takes its steps while the other is at rest | both types; `SignedNeedsEvidence`; `SignedRequestOpensGate`; `StoredDocumentDecrypts`; `ImplementsGate` (refinement of `EngagementGate`); `VerifiedNeedsProof` |
| `scans` | both gates in full (1 envelope, 1 send, 1 check; 1 token, 1 lookup), 1 asset, 1 manual request, 1 sweep, 1 attempt at a time | type; `TestNeedsAuthorization`; `ScanHasEvidence` |
| `scan_progress` | the gates with manual calls only, 1 asset, 1 manual request, 1 sweep, 2 attempts, 1 database error, Tests closed by hand at any time, under `FairSpec` | `ClosedTestHasOutcome`; `LiveJobHasOwner`; `OutcomeIsFinal`; `RestartHeals`; `TestsClose` |
| `agents` | 2 tokens, 2 enrollments, 1 machine whose agent is enrolled and installed by one account, 2 tries, commands killed anywhere (in the middle of writing the config too), service installation, under `AgentFairSpec` | type; `ConfigHasCredential`; `LateRetryDenied`; `CheckinsContinue` |
| `findings` | five deployments: 2 imports of overlapping results with retests, 3 findings; 3 findings by hand with status changes and retests; 2 overlapping retests of 2 findings; lists of up to 5 findings; 2 findings, 1 request and an AI provider, caps 1 and 2. 1 administrator, 2 assets, 4 titles of which one is similar to all others, two with the same tokens | type; `DuplicatesBounded`; `StatusFollowsRetests`; `OvershootBounded`; `ClustersSound`; `CorroborationHelps`; `AttackPathsComplete` |
| `discovery` | six deployments: 3 jobs that race to record 1 host; 3 jobs of 2 sweeps over 1 row, with a database error, or with a crash; 2 jobs over three outputs with both; 1 row under review by 2 people; a watch on Vercel that dies. Under `FairSpec` | type; `HostRowsBounded`; `PortChangesAlerted`; `CompleteWatchAnnounced`; `AssetsPerRowBounded`; `JobsEnd` |
| `client_data` | twelve deployments, one per group of actors (`MCBackups`), in which the clients' own key does not admit the system: keys, BYOK, edits and rotation; rotation of a check; 2 uploads against an erasure and a crash; 3 reports by 2 requests; 2 reports of different types; a signed document against an erasure, a crash and the client's own key; files and the client's own key; rows made during an erasure; users and credentials; 2 concurrent backups of retention 1; a report, an erasure, a backup and its restore; the same with a signed document | type; `EditsKept`; `FilesPresent`; `ErasureForgets`; `PendingExplained`; `BackupsRestorable`; `VersionsBounded` |
| `one_scan`, `sweep_starvation`, `token_single_use`, `esignature_label`, `service_account` | the smallest instance of each | one property each, violated (section 5) |

**Why the bounds are enough.** Each race here needs two actors on one row, so two
requests of a kind (or one of each of two kinds) on one row, plus a second row to
be confused with, cover it. Two envelopes are a send and a resend; two blobs are
two checks that both store; one lookup of a token suffices: it outlives any number of
restarts, and a second one would write the same; two attempts are the two jobs of a double start, and
an attempt nobody refers to any more is reused, so runs are not bounded in
length. One database error is enough to strand any row, and the restart that heals
it may come at any time. One machine with two enrollments is a
retry, a race and an uninstall with a new enrollment. `Tries` is 12 in the agent;
two tries already separate a retry from the last one. Three jobs are two that overlap
and one that runs after them, with what they left. Two versions of the system key and
a batch of one row make a sweep that is behind and one that must leave rows over. Three
findings with titles similar in a chain are the least that make greedy clusters depend on
their order; with lists of five and bounds of two entries, four targets and three pairs (5, 5
and 10 in the code), attack paths are complete in some lists and cut by each
bound in others. The bounds only matter to the liveness properties: every invariant and action
property of these runs is also a theorem for all values of the constants (section 4), so no safety
property rests on them.

**Symmetry** is used only in runs without liveness, on sets of identifiers the
modules never order or single out.

**Deadlock** is not checked where the system may simply have nothing left to do in a
bounded deployment (`findings`, `discovery`, `client_data`).

**Fairness, and why the code justifies it.** Every await of a runner or a request is
a database call or has a timeout (Nuclei has a kill timer), so a launched runner
and a request past its first read run on: weak fairness of `RunnerStep(k)` and
`TriggerStep(p)`. A supervisor restarts a dead process: weak fairness of `Boot`.
Nothing makes anybody trigger a scan, and no crash is fair. In `AgentFairSpec` the
loop wakes up after every interval (weak fairness of `CheckinStep`), and a request
that is sent again and again is sometimes delivered (strong fairness of
`CheckinArrives`). In `Discovery` the tasks' awaits are port probes, lookups and nmap
with timeouts, and database calls: weak fairness of `TaskStep(j)`, of a request or sweep
past its first read (`StarterStep(s)`) and of `Boot`, which exists in `server.ts` only: nothing is
assumed of `ColdStart`. The liveness properties name what may
excuse them: a database error (`JobsEnd`, `TestsClose`), a crash (`TestsClose`, and `JobsEnd` on
Vercel), or nothing when restarts recur (`RestartHeals`). On `server.ts` `JobsEnd` holds across
crashes because the boot sweep fails what the dead process left.
In `RestartHeals` the restarts must recur for ever; as the database errors are bounded,
a boot sweep finally works.

## 4. What is proved

The theorems hold for any number of engagements, envelopes, assets, tokens, machines,
requests, sweeps, attempts, jobs, rows, findings, uploads, erasures, backups, crashes and
faults. They assume only the named assumptions of the modules (`AuthorizationAssumption`,
`VerificationAssumption`, `ScanAssumption`, `EnrollmentAssumption`, `BudgetAssumption`,
`RankingAssumption`, `FindingsAssumption`, `DiscoveryAssumption`, `TenantAssumption`, `FilesAssumption`,
`BackupAssumption`): the null values are not members of the sets, parents are as the
schema has them, the sets that are counted are finite, and the bounds are numbers. `ConcurrentScansAreBounded` has one hypothesis
more, that requests and sweeps are finitely many. Every invariant and action property of the
passing runs has its theorem.

* **`AuthorizationProofs`**: `AuthorizationTyped`, `GateNeedsEvidence`,
  `SignedOpensGate`, `DocumentDecrypts`, and the refinement
  `AuthorizationRefinesGate`. `SignedNeedsEvidence` is not inductive: a check
  that is about to write says SIGNED about an envelope it read earlier.
  `AuthIInv` adds that rows and requests only know envelopes that were sent for
  their engagement (`RowsKnowEnvelopes`, `SendersKnowEnvelopes`,
  `CheckersHaveEvidence`), that answers in flight are still what the provider says
  when they are final, that an object a check has stored is there and its key is the client's own only
  if the client has one (`OwnKeyed`), and that an answer which skips the opening of the gate
  skips it because the gate was already open when the row was read, and a gate
  never closes.
* **`AssetVerificationProofs`**: `VerificationTyped`, `VerifiedHasProof`. The
  invariant adds that a token in a row, or in a check, was issued for that
  asset, so a match found late is still proof of control.
* **`ScanJobsProofs`**: `ScansTyped`, `NoTestBeforeAuthorization`,
  `ScansHaveEvidence`, `ClosedTestsHaveOutcomes`, `LiveJobsHaveOwners`,
  `OutcomesAreFinal`. The gates are read several awaits before the Test is
  created, so `IInv` carries the evidence along the way (`TriggersEvident`,
  `SweepsEvident`, `ScansEvident`); it survives since neither kind of evidence
  is ever withdrawn (`SignedStays`, `EvidenceStays`), although `VERIFIED` itself
  is. For the rows it adds who owns what: a request owns the attempt it created
  until it launches the runner, alone (`TriggersOwn`); a working runner has a live job
  and an open Test (`RunnersOwn`); nothing runs in a dead process (`DownIsIdle`).
  What a runner's step owes the invariant is one lemma (`RunnerMoves`) that each
  of its actions instantiates, and likewise a restart's (`RestartInv`).
  `ConcurrentScansAreBounded` is what is left of "one scan at a time" (section 5): a request or a sweep
  that found no running job holds a place on its asset until its job exists, and live jobs and
  places of one asset are together at most as many as the requests and sweeps (`Room`). Whoever
  gets a place saw no live job, so only the others can hold one (`CheckRunningRoom`); a
  created job takes over the place of its creator (`CreateJobRoom`); no other step adds to either
  (`Calm`). `ScansRefineGate` and `GatesHoldTogether` carry what is proved of the gates alone
  over to the composition, where a crash may drop their requests at any step.
* **`AgentEnrollmentProofs`**: `AgentTypes`, `ConfigsHaveCredentials`,
  `LateRetriesAreDenied`, for any number of accounts and whichever the services run as. `ConfigHasCredential` needs to know what each step of a command
  has left behind (`CommandLeaves`): the key is stored, for a device the server has, before
  the config is, and the config is gone before the key. That a late retry is
  denied is a temporal formula; it follows from a step lemma, since a used token stays
  used and a transaction that has not read it yet is refused.
* **`AiBudgetProofs`**: `CapsOvershotByCallers`. A caller that has seen a count below its cap
  holds a place until it records its call or gives up. Calls recorded and places held
  together stay below the cap plus the number of callers: whoever finds a
  free place finds at most all the others holding one.
* **`FindingsProofs`**: `FindingsTypes`, `DuplicatesAreBounded`, `StatusesFollowRetests`,
  `FindingsImplementBudget`, `CapsOvershotByFindings`. That a status is its latest retest's or a rival's needs
  that a retest which a younger row has overtaken is on record as a rival of the latest one
  (`LateAreRivals`), so it may still set the status, while one that was over before cannot. The bound on
  duplicates counts the findings of an issue that nobody has touched *and* the imports
  that are unaware of it (`CopiesBounded`). Once there is such a finding it is open
  (by `StatusFollowsRetests`), so no import that starts later is unaware, and one that is
  can create one finding, by which it becomes aware. Every AI call of the composed system is a
  step of `AiBudget` (`FindingsNextBudgeted`), so the bound on the overshoot carries over.
  `ClustersStaySound`, `CorroborationStaysHelpful` and `AttackPathsStayComplete` are about the pure
  functions, for every list of findings of any length, in whatever order the database
  returns it. The second says two things: no finding, wherever it is in the list, raises the
  false-positive score of another; and the finding a cluster is named after is scored ten lower for
  each of its first two companions than it would be alone, down to zero, although clusters and
  score compare titles on their own. That sorting by a key permutes the list is shown by counting places (a finding's
  place is the number of those that come before it). That the greedy clusters partition the
  list goes by the shortest beginning of the list for which they would not. The attack paths are
  the first pairs in the order of entries and targets, each once: all of them, or as many as the bound.
* **`DiscoveryProofs`**: `DiscoveryTypes`, `PortChangesAreAlerted`, `CompleteWatchesAnnounce`,
  `HostRowsAreBounded`, `AssetsAreBounded`. The invariant has four parts. `JobsIInv`: who owns
  a queued job, which jobs have a task, that rows come late in a job, and that a new host of a
  watch is announced, about to be, or its job will not complete. `PortsIInv`: the opened and closed alerts
  of a row add up (`told`) to its stored ports, but for ports that some cycle has alerted and not stored
  (`AddsUp`); a cycle compares with what is stored now unless another has stored the row since
  (`Reading`); and what it has alerted is what its scan found, unless another cycle has alerted the port
  too (`Telling`). So a port may open, close and reopen any number of times, each time with its
  alert. `HostsIInv`: starters that found no running job, active jobs and rows are
  counted together, as the imports above. The last one does the same for reviews and
  the Assets of a row.
* **`ClientFilesProofs`**: `DataIInvHolds`, `EditsSurviveRotation`, `FilesArePresent`,
  `ErasuresForget`, `PendingIsExplained`, `BackupIInvHolds`, `ClientDataTyped`,
  `BackupsStayRestorable`, `VersionsStayBounded`, all of the composed specification with backups and
  restores. The invariant `DataIInv` adds: foreign keys hold; a text is what the latest edit stored
  (`TextsKept`, of which `EditsKept` is a consequence), and a row that a sweep holds is there and
  its copy is that text, unless it was edited meanwhile (`CopiesCurrent`); whatever knows of a file row (the table, a dump, a stored backup, an
  erasure) knows one whose file was stored (`FilesKnown`); nobody has seen the row that an
  upload is about to make (`UploadsOwn`), reports and signed documents included; PENDING evidence has its check (`PendingOwned`);
  and an erasure that has read a table has read every file row of its engagements, or
  that row is on record as missed (`ErasuresRead`), so after its commit no erased row is left
  (`ErasedGo`).

  `BackupIInv` is about dumps, catalog and versions. A dump reads one table after the other, parents
  before children (`ParentsFirst`); a row that goes takes its children with it, so what has been read
  stays closed under foreign keys while nobody creates a row, and a dump during which somebody did is
  in `torn` (`DumpsClosed`). The newest entries of the catalog keep their stored dumps, since
  pruning takes the others (`CatalogKept`). Reports of one engagement and type that carry a version and uploads that have read
  the number for it are counted together, as the copies of a finding are (`EditionsCounted`).

**How inductions are done.** No induction theorem with an operator as a parameter is used. Where a
recursive function is involved (clusters, sorted lists), the proof takes the least natural
number at which the claim fails, and refutes it.

**Only model-checked.** The liveness properties (`RestartHeals`, `TestsClose`, `JobsEnd`,
`CheckinsContinue`), because fairness and `ENABLED` are beyond the prover, and the violations of
section 5, which are single behaviours.

## 5. Where the code and its documentation disagree

Each is a run whose property quotes the documentation, and TLC's counterexample is
a behaviour of the code.

* `one_scan`: "One scan at a time per asset" is enforced by a check and a create with
  awaits in between; two requests pass the check together. How many can is proved
  (`ConcurrentScansAreBounded`).
* `sweep_starvation`: what the sweep's cap leaves over "gets picked up on the next
  run", but the query has no order and no memory, so the next run may take the same
  assets again.
* `token_single_use`: "a retried or raced request can never enroll two devices from
  one token". Retried: true, and checked (`LateRetryDenied`). Raced: two
  transactions at READ COMMITTED both read the token unused.
* `esignature_label`: the label `ESIGNATURE` is said to mean "confirmed via its own
  verified status, not self-attested", but a send after a manual authorization
  sets it.
* `service_account`: the interval is written "so run_service() (above) can read it back"
  (`src/agent/src/service/windows.rs:96-98`). The config is written to the directory of the account
  that types the command, and the service runs as LocalSystem, with a directory of its own: it
  finds neither the interval nor the enrollment, and every check-in fails. `CheckinsContinue` is
  about loops that run as the account that enrolled.

Further disagreements that the models show but that have no run of their own:

* `src/src/crypto/rotation.ts:12` says that repeated runs converge. A run takes 25 rows of a
  table with no condition and no order, so it may take the same ones again: `SweepRead`
  leaves the choice of the batch open.
* `src/src/integrations/malware-check.ts:8-9` says that nothing sits PENDING for ever. A
  restart while the check runs, or a failed audit row before it starts, leaves the
  evidence PENDING: the disjunct `interrupted` of `PendingExplained`.
* `src/src/modules/clients/client-deletion.service.ts:14-20` promises the entire dependency
  graph. A client with a BYOK or cloud credential, a usage event, an AI call, a device, a token
  or a discovery job cannot be erased: the transaction fails on their foreign keys
  (`EraseCommit` is disabled while a row of such a kind is there).
* `src/src/crypto/tenant.ts:49-52` asks for one provider on both sides of a
  field, while the decrypting routes use the system's. Where the client's own key does not admit
  the system (`ByokGranted` is FALSE, as in `client_data`), what is stored under it cannot be read
  back: the last conjuncts of `EditsKept` and `FilesPresent` say that exactly these texts and files
  fail.
* `src/src/modules/engagements/engagements.routes.ts:381-384` answers 404 for a manual authorization.
  A manual authorization after a stored e-signed document replaces the reference and leaves
  the encryption metadata, so the request passes that check and fails on storage:
  `StoredDocumentDecrypts` speaks of references to objects only. The stored file is then named by no
  row, and no erasure will find it (`ReplaceDocument`). The same happens to the first document when two
  concurrent checks each store one; that case is in `Authorization` only, since `ClientFiles` has one
  document per engagement.
* The reference of a manual authorization is free text (`engagements.routes.ts:174`), which the
  erasure passes to storage as a key all the same (`client-deletion.service.ts:53-57`).
* A signed document is encrypted with the client's provider (`engagements.routes.ts:326-327`) and
  served with the system's (396-397): with a key of the client's own that does not admit the system
  GET authorization-document fails (`DocumentServed` in `Authorization` and `ClientFiles`).
* `src/src/modules/discovery/discovery.routes.ts:148-149` says that a hostname "is still exactly one
  DiscoveredAsset row". Two starters that pass the check for a running job together both record
  it: `HostRowsBounded` is a bound of as many rows as starters.
* The repository runs on Vercel too (`vercel.json`, `api/index.ts`), where nothing sweeps at start:
  a discovery or watch job whose function died stays QUEUED or RUNNING, and blocks its asset
  (the excuse of `JobsEnd`). `vercel.json:11` schedules the scans there as well, against
  `src/README.md:755-759`.
* Two watch cycles of one asset may overlap: the one that started earlier may store its scan over
  the other's without alerting the difference, and a later cycle then alerts against that. A closed
  or opened port may go without its alert (`unsure`, by way of `behind`, in `PortChangesAlerted`).
* The status of a finding may be that of an older retest: insert and update of two retests interleave
  (`retests.routes.ts:47-60`), so the younger row may be stored first and its status overwritten
  (`rivals` in `StatusFollowsRetests`).
* Accepting a draft copies the current one (`findings.routes.ts:412-433`), whichever the administrator saw.
* An edit made while a sweep holds the row is lost: the disjunct `overlapped` of `EditsKept`.
* A restored backup brings back erased rows, whose files are gone: the disjunct `erased` of
  `FilesPresent`.
* A failed nmap run reads as a host without open ports, so every port is alerted as closed
  and, in the next cycle, as opened; a service that changes on the same port is stored without an
  alert, although `SERVICE_CHANGED` is among the kinds of alert.

## 6. Not modelled, and the plan

What is left out of the modelled parts: listings, audit rows of downloads, rate limits, roles and
the identity provider (stateless checks of one request), other audit rows than those that are evidence,
the agent's inventory collection and its check-in columns, the CA key row that signs a
credential no request is checked against, a second `evidence/complete` for one storage key, two server
processes at once, `KeyRef` rows (nothing reads them), effort and notifications of
findings, what the AI writes. One command at a time runs of an account in the model: two
`enroll` commands at once are left out. `src/scripts/migrate-to-aws-kms.ts` and the other one-off
scripts run on a stopped or an empty deployment and are left out, the restore excepted.
Erasing a client is an action of the client's data only: the other modules speak of clients
that stay, so they say nothing of a runner whose rows are deleted under it. The status of a
Test that no scan made is read by nobody and left out.
Digests, notifications, SBOM look-ups, cloud scans, host isolation and the frontend keep no state
whose interleavings matter; they stay out.

What was planned is built:

1. `EngagementGate`, `Authorization`: the gate, its refinement, its proofs.
2. `AssetVerification`, then `ScanJobs` composed with both: checks, progress, proofs.
3. `AgentEnrollment`: server and agent together, with proofs.
4. `AiBudget`, `FindingRanking`, `Findings`: the composition, its proofs, and the proof that it
   implements the budget; the soundness of the computed lists for every input.
5. `Discovery`: jobs, watch and boot sweep, with proofs.
6. `TenantData`, `ClientFiles`, `Backups`: keys, files, erasure and backups, with proofs.
7. A theorem for every invariant and action property that a passing run checks.

What is left, in order of worth:

1. An abstract one-place job slot, implemented by scan and discovery jobs under a single
   caller.
2. The CA key row and two enroll commands at once on one machine.

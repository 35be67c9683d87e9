------------------------------ MODULE ScanJobs ------------------------------
(***************************************************************************)
(* Automated scanning (src/src/modules/scanning, the scheduled sweep in    *)
(* src/src/modules/internal/scheduled-scans.routes.ts and the boot sweep   *)
(* in src/src/server.ts), composed with the two gates it relies on: the    *)
(* authorization of the engagement and the verification of the asset.      *)
(*                                                                         *)
(* One call of startScan is an attempt: the Test row and the ScanJob row   *)
(* it creates and the in-process runner it launches.  An attempt whose     *)
(* rows nobody reads any more is reused for a later call.                  *)
(***************************************************************************)
EXTENDS Naturals, FiniteSets, Authorization, AssetVerification

CONSTANTS
  EngagementOf,   \* the engagement of each asset
  Scannable,      \* the assets that are WEB or API and in scope (never updated)
  Attempt,        \* bound: scans whose rows are still of interest
  Admin,          \* concurrent POST .../scan requests
  Sweeper,        \* concurrent GET /internal/scheduled-scans requests
  MaxScansPerRun, \* MAX_SCANS_PER_RUN
  TestStatus,     \* the statuses administrators give a Test by hand
  MaxFaults,      \* bound: database errors
  NoAttempt

Trigger == Admin \cup Sweeper

ASSUME ScanAssumption ==
  /\ EngagementOf \in [Asset -> Engagement]
  /\ Scannable \subseteq Asset
  /\ Admin \cap Sweeper = {}
  /\ MaxScansPerRun \in Nat
  /\ TestStatus \subseteq {"PLANNED", "IN_PROGRESS", "COMPLETE"}
  /\ MaxFaults \in Nat
  /\ NoAttempt \notin Attempt

VARIABLES
  up,       \* the server process accepts requests
  scan,     \* the Test and ScanJob rows of each attempt
  runner,   \* where runScanJob is, in memory
  trigger,  \* requests that start scans
  sweep,    \* what each sweep still has to visit and has started
  faults    \* database errors so far

scanVars == <<up, scan, runner, trigger, sweep, faults>>
vars == <<authVars, verVars, scanVars>>

Active == {"QUEUED", "RUNNING"}
Terminal == {"COMPLETE", "FAILED"}

NoScan ==
  [asset |-> NoAsset, test |-> "none", edited |-> FALSE, job |-> "none", findings |-> FALSE]
IdleTrigger == [pc |-> "idle", asset |-> NoAsset, attempt |-> NoAttempt]
IdleSweep == [todo |-> {}, started |-> 0]

ScanRow ==
  [asset : Asset \cup {NoAsset},
   test  : {"none", "IN_PROGRESS", "COMPLETE"} \cup TestStatus,
   edited : BOOLEAN,   \* history: somebody set the status of the Test by hand
   job   : {"none"} \cup Active \cup Terminal,
   findings : BOOLEAN]

RunnerPc == {"none", "loading", "preparing", "scanning", "importing", "completing",
             "failing", "closing"}

TriggerState ==
  [pc : {"idle", "next", "gated", "clear", "tested", "queued"},
   asset : Asset \cup {NoAsset},
   attempt : Attempt \cup {NoAttempt}]

SweepState == [todo : SUBSET Asset, started : 0..MaxScansPerRun]

ScanTypeOK ==
  /\ up \in BOOLEAN
  /\ scan \in [Attempt -> ScanRow]
  /\ runner \in [Attempt -> RunnerPc]
  /\ trigger \in [Trigger -> TriggerState]
  /\ sweep \in [Sweeper -> SweepState]
  /\ faults \in 0..MaxFaults

TypeOK == AuthTypeOK /\ VerTypeOK /\ ScanTypeOK

ScanInit ==
  /\ up = TRUE
  /\ scan = [k \in Attempt |-> NoScan]
  /\ runner = [k \in Attempt |-> "none"]
  /\ trigger = [p \in Trigger |-> IdleTrigger]
  /\ sweep = [p \in Sweeper |-> IdleSweep]
  /\ faults = 0

Init == AuthInit /\ VerInit /\ ScanInit

gates == <<authVars, verVars>>

(***************************************************************************)
(* What the handlers read                                                  *)
(***************************************************************************)
\* Mutants: one of the two gates is not looked at.
ScanAllowedUnsigned(a) == a \in Scannable /\ asset[a].status = "VERIFIED"
ScanAllowedUnverified(a) == engagement[EngagementOf[a]].signed /\ a \in Scannable

\* The checks of POST .../scan on the asset and its engagement.
ScanAllowed(a) ==
  /\ engagement[EngagementOf[a]].signed
  /\ a \in Scannable
  /\ asset[a].status = "VERIFIED"

\* The where clause of the scheduled sweep asks for an ACTIVE engagement too.
SweepEligible(a) == ScanAllowed(a) /\ engagement[EngagementOf[a]].status = "ACTIVE"

\* scanJob.findFirst with status QUEUED or RUNNING.
AlreadyRunning(a) == \E k \in Attempt : scan[k].asset = a /\ scan[k].job \in Active

\* No row that anybody still reads and no process is left of attempt k.
Unused(k) ==
  /\ scan[k].job \notin Active
  /\ runner[k] = "none"
  /\ \A p \in Trigger : trigger[p].attempt # k

(***************************************************************************)
(* The request that triggers a scan                                        *)
(***************************************************************************)
\* POST .../scan reads the asset with its engagement and passes its checks.
ReadGate(p, a) ==
  /\ up /\ p \in Admin
  /\ trigger[p].pc = "idle"
  /\ ScanAllowed(a)
  /\ trigger' = [trigger EXCEPT ![p] = [IdleTrigger EXCEPT !.pc = "gated", !.asset = a]]
  /\ UNCHANGED <<gates, up, scan, runner, sweep, faults>>

\* The sweep reads its eligible assets once, before its loop.
SweepRead(p) ==
  /\ up /\ p \in Sweeper
  /\ trigger[p].pc = "idle"
  /\ trigger' = [trigger EXCEPT ![p].pc = "next"]
  /\ sweep' = [sweep EXCEPT ![p] = [todo |-> {a \in Asset : SweepEligible(a)}, started |-> 0]]
  /\ UNCHANGED <<gates, up, scan, runner, faults>>

\* The loop takes the next asset; findMany gives them in no particular order.
SweepNext(p) ==
  /\ p \in Sweeper
  /\ trigger[p].pc = "next"
  /\ sweep[p].started < MaxScansPerRun
  /\ \E a \in sweep[p].todo :
       /\ sweep' = [sweep EXCEPT ![p].todo = @ \ {a}]
       /\ trigger' = [trigger EXCEPT ![p] = [@ EXCEPT !.pc = "gated", !.asset = a]]
  /\ UNCHANGED <<gates, up, scan, runner, faults>>

\* Past the cap every remaining asset is skipped; then the sweep responds.
SweepEnd(p) ==
  /\ p \in Sweeper
  /\ trigger[p].pc = "next"
  /\ sweep[p].todo = {} \/ sweep[p].started >= MaxScansPerRun
  /\ trigger' = [trigger EXCEPT ![p] = IdleTrigger]
  /\ sweep' = [sweep EXCEPT ![p] = IdleSweep]
  /\ UNCHANGED <<gates, up, scan, runner, faults>>

\* Where a request goes when it is done with one asset: a sweep visits the
\* next one, a manual request has sent its response.
AssetDone(p) ==
  [trigger EXCEPT ![p] = IF p \in Sweeper THEN [IdleTrigger EXCEPT !.pc = "next"]
                                          ELSE IdleTrigger]

CheckRunning(p) ==
  /\ trigger[p].pc = "gated"
  /\ trigger' = IF AlreadyRunning(trigger[p].asset)
                THEN AssetDone(p)
                ELSE [trigger EXCEPT ![p].pc = "clear"]
  /\ UNCHANGED <<gates, up, scan, runner, sweep, faults>>

(***************************************************************************)
(* startScan                                                               *)
(***************************************************************************)
\* Mutant: the Test gets the schema's default status.
CreateTestPlanned(p) ==
  /\ trigger[p].pc = "clear"
  /\ \E k \in Attempt :
       /\ Unused(k)
       /\ scan' = [scan EXCEPT ![k] = [NoScan EXCEPT !.asset = trigger[p].asset,
                                                     !.test = "PLANNED"]]
       /\ trigger' = [trigger EXCEPT ![p] = [@ EXCEPT !.pc = "tested", !.attempt = k]]
  /\ UNCHANGED <<gates, up, runner, sweep, faults>>

CreateTest(p) ==
  /\ trigger[p].pc = "clear"
  /\ \E k \in Attempt :
       /\ Unused(k)
       /\ scan' = [scan EXCEPT ![k] = [NoScan EXCEPT !.asset = trigger[p].asset,
                                                     !.test = "IN_PROGRESS"]]
       /\ trigger' = [trigger EXCEPT ![p] = [@ EXCEPT !.pc = "tested", !.attempt = k]]
  /\ UNCHANGED <<gates, up, runner, sweep, faults>>

CreateJob(p) ==
  /\ trigger[p].pc = "tested"
  /\ scan' = [scan EXCEPT ![trigger[p].attempt].job = "QUEUED"]
  /\ trigger' = [trigger EXCEPT ![p].pc = "queued"]
  /\ UNCHANGED <<gates, up, runner, sweep, faults>>

\* The usage event is recorded, and runScanJob is launched without waiting.
Launch(p) ==
  /\ trigger[p].pc = "queued"
  /\ runner' = [runner EXCEPT ![trigger[p].attempt] = "loading"]
  /\ trigger' = AssetDone(p)
  /\ sweep' = IF p \in Sweeper THEN [sweep EXCEPT ![p].started = @ + 1] ELSE sweep
  /\ UNCHANGED <<gates, up, scan, faults>>

\* A database call of the request rejects: the request ends with a 500 and what
\* it created stays.
TriggerFault(p) ==
  /\ faults < MaxFaults
  /\ trigger[p].pc # "idle"
  /\ faults' = faults + 1
  /\ trigger' = [trigger EXCEPT ![p] = IdleTrigger]
  /\ sweep' = IF p \in Sweeper THEN [sweep EXCEPT ![p] = IdleSweep] ELSE sweep
  /\ UNCHANGED <<gates, up, scan, runner>>

\* PATCH tests/:testId: the status becomes what was asked for, whatever it was
\* and whatever works on the Test.
PatchTest(k, status) ==
  /\ up
  /\ scan[k].test # "none"
  /\ scan' = [scan EXCEPT ![k].test = status, ![k].edited = TRUE]
  /\ UNCHANGED <<gates, up, runner, trigger, sweep, faults>>

(***************************************************************************)
(* runScanJob                                                              *)
(***************************************************************************)
RunnerGoes(k, pc) == runner' = [runner EXCEPT ![k] = pc]
JobBecomes(k, status) == scan' = [scan EXCEPT ![k].job = status]

RunnerLoad(k) ==
  /\ runner[k] = "loading"
  /\ RunnerGoes(k, "preparing")
  /\ UNCHANGED <<gates, up, scan, trigger, sweep, faults>>

\* The target decrypts, parses and resolves to public addresses, or the catch
\* block is next.
RunnerPrepare(k) ==
  /\ runner[k] = "preparing"
  /\ \/ RunnerGoes(k, "scanning") /\ JobBecomes(k, "RUNNING")
     \/ RunnerGoes(k, "failing") /\ UNCHANGED scan
  /\ UNCHANGED <<gates, up, trigger, sweep, faults>>

\* Nuclei exits and its output parses, or it fails or runs into the kill timer.
RunnerScan(k) ==
  /\ runner[k] = "scanning"
  /\ RunnerGoes(k, "importing") \/ RunnerGoes(k, "failing")
  /\ UNCHANGED <<gates, up, scan, trigger, sweep, faults>>

\* Findings are created one by one: an import that fails leaves those it made.
RunnerImport(k) ==
  /\ runner[k] = "importing"
  /\ RunnerGoes(k, "completing") \/ RunnerGoes(k, "failing")
  /\ \E found \in BOOLEAN : scan' = [scan EXCEPT ![k].findings = found]
  /\ UNCHANGED <<gates, up, trigger, sweep, faults>>

\* The update to COMPLETE, inside the try block.
RunnerComplete(k) ==
  /\ runner[k] = "completing"
  /\ \/ RunnerGoes(k, "closing") /\ JobBecomes(k, "COMPLETE")
     \/ RunnerGoes(k, "failing") /\ UNCHANGED scan
  /\ UNCHANGED <<gates, up, trigger, sweep, faults>>

\* Mutants: the catch block swallows the error, or rethrows it after its update
\* so that the continuation of startScan never runs.
RunnerFailSwallows(k) ==
  /\ runner[k] = "failing"
  /\ RunnerGoes(k, "closing")
  /\ UNCHANGED <<gates, up, scan, trigger, sweep, faults>>

RunnerFailRethrows(k) ==
  /\ runner[k] = "failing"
  /\ RunnerGoes(k, "none")
  /\ JobBecomes(k, "FAILED")
  /\ UNCHANGED <<gates, up, trigger, sweep, faults>>

\* The catch block.
RunnerFail(k) ==
  /\ runner[k] = "failing"
  /\ RunnerGoes(k, "closing")
  /\ JobBecomes(k, "FAILED")
  /\ UNCHANGED <<gates, up, trigger, sweep, faults>>

\* The continuation of startScan closes the Test, whatever the job's outcome.
RunnerClose(k) ==
  /\ runner[k] = "closing"
  /\ RunnerGoes(k, "none")
  /\ scan' = [scan EXCEPT ![k].test = "COMPLETE"]
  /\ UNCHANGED <<gates, up, trigger, sweep, faults>>

\* The first query, the catch block's update and the continuation's update are
\* outside the try block: their errors are logged and end the runner.
RunnerFault(k) ==
  /\ faults < MaxFaults
  /\ runner[k] \in {"loading", "failing", "closing"}
  /\ faults' = faults + 1
  /\ RunnerGoes(k, "none")
  /\ UNCHANGED <<gates, up, scan, trigger, sweep>>

(***************************************************************************)
(* The process                                                             *)
(***************************************************************************)
Crash ==
  /\ up
  /\ up' = FALSE
  /\ runner' = [k \in Attempt |-> "none"]
  /\ trigger' = [p \in Trigger |-> IdleTrigger]
  /\ sweep' = [p \in Sweeper |-> IdleSweep]
  /\ AuthCrash
  /\ VerCrash
  /\ UNCHANGED <<scan, faults>>

\* Mutants: the boot sweep looks at running jobs only, or at every job.
SweptRunningOnly(row) == IF row.job = "RUNNING" THEN [row EXCEPT !.job = "FAILED"] ELSE row
SweptEveryJob(row) == [row EXCEPT !.job = "FAILED"]

\* failOrphanedScanJobs, then listen.
Swept(row) == IF row.job \in Active THEN [row EXCEPT !.job = "FAILED"] ELSE row

\* Mutant: the server listens without the boot sweep.
BootWithoutSweep ==
  /\ ~up
  /\ up' = TRUE
  /\ UNCHANGED <<gates, scan, runner, trigger, sweep, faults>>

Boot ==
  /\ ~up
  /\ up' = TRUE
  /\ scan' = [k \in Attempt |-> Swept(scan[k])]
  /\ UNCHANGED <<gates, runner, trigger, sweep, faults>>

\* An error of the boot sweep is logged and the server listens all the same.
BootFault ==
  /\ ~up
  /\ faults < MaxFaults
  /\ faults' = faults + 1
  /\ up' = TRUE
  /\ UNCHANGED <<gates, scan, runner, trigger, sweep>>

TriggerStep(p) ==
  SweepNext(p) \/ SweepEnd(p) \/ CheckRunning(p) \/ CreateTest(p) \/ CreateJob(p) \/ Launch(p)

RunnerStep(k) ==
  \/ RunnerLoad(k) \/ RunnerPrepare(k) \/ RunnerScan(k) \/ RunnerImport(k)
  \/ RunnerComplete(k) \/ RunnerFail(k) \/ RunnerClose(k)

Next ==
  \/ up /\ AuthRequests /\ UNCHANGED <<verVars, scanVars>>
  \/ up /\ VerRequests /\ UNCHANGED <<authVars, scanVars>>
  \/ (\E v \in Envelope : SignerActs(v)) /\ UNCHANGED <<verVars, scanVars>>
  \/ OwnerActs /\ UNCHANGED <<authVars, scanVars>>
  \/ \E p \in Admin, a \in Asset : ReadGate(p, a)
  \/ \E p \in Sweeper : SweepRead(p)
  \/ \E p \in Trigger : TriggerStep(p) \/ TriggerFault(p)
  \/ \E k \in Attempt, status \in TestStatus : PatchTest(k, status)
  \/ \E k \in Attempt : RunnerStep(k) \/ RunnerFault(k)
  \/ Crash \/ Boot \/ BootFault

Spec == Init /\ [][Next]_vars

(***************************************************************************)
(* Fairness.  A launched runner and a request that got past its first read *)
(* run to their end: every await is a database call or is bounded by a     *)
(* timeout (the scan itself by the kill timer of runNuclei).  A process    *)
(* that died is started again by its supervisor.  Nobody has to trigger a  *)
(* scan, and nothing forces a crash.                                       *)
(***************************************************************************)
Fairness ==
  /\ \A k \in Attempt : WF_vars(RunnerStep(k))
  /\ \A p \in Trigger : WF_vars(TriggerStep(p))
  /\ WF_vars(Boot)

FairSpec == Spec /\ Fairness

\* The scheduler calls the sweep again and again.
CronSpec == FairSpec /\ \A p \in Sweeper : WF_vars(SweepRead(p))

(***************************************************************************)
(* Safety                                                                  *)
(***************************************************************************)
\* "No test (and by extension no finding) can exist on an engagement until it
\* has been explicitly authorized": holds although the sweep and the manual
\* route act on rows they read several awaits ago.
TestNeedsAuthorization ==
  \A k \in Attempt :
    scan[k].test # "none" => engagement[EngagementOf[scan[k].asset]].signed

\* No scan ever runs against a target nobody showed control of or attested, on
\* an engagement nobody vouched for: the evidence behind both gates, not the
\* columns, whatever restarts of verification or resends happened meanwhile.
ScanHasEvidence ==
  \A k \in Attempt :
    scan[k].test # "none" =>
      LET a == scan[k].asset  e == EngagementOf[a]
      IN  /\ a \in justified \/ ControlShown(a)
          /\ e \in attested \/ ProviderConfirmed(e)

\* A Test is closed only after its job has an outcome, unless somebody set its
\* status by hand.
ClosedTestHasOutcome ==
  \A k \in Attempt :
    scan[k].test = "COMPLETE" /\ ~scan[k].edited => scan[k].job \in Terminal

\* While the database answers, a job that blocks its asset is one this process
\* still works on: the boot sweep leaves no orphan behind.
LiveJobHasOwner ==
  faults = 0 /\ up =>
    \A k \in Attempt :
      scan[k].job \in Active =>
        runner[k] \notin {"none", "closing"} \/ \E p \in Trigger : trigger[p].attempt = k

\* "One scan at a time per asset."
OneScanPerAsset ==
  \A k, l \in Attempt :
    scan[k].job \in Active /\ scan[l].job \in Active /\ scan[k].asset = scan[l].asset => k = l

\* An outcome is final: no late update of a runner and no boot sweep changes it
\* (a later scan that reuses the attempt starts from no job at all).
OutcomeIsFinal ==
  [][\A k \in Attempt :
       scan[k].job \in Terminal => scan'[k].job \in {scan[k].job, "none"}]_vars

(***************************************************************************)
(* Liveness                                                                *)
(***************************************************************************)
\* Restarts heal even what database errors left behind.
RestartHeals ==
  []<>~up => \A k \in Attempt : []<>(scan[k].job \notin Active)

\* A runner closes the Test of its scan, whether the job succeeds or fails and
\* whatever status the Test was given by hand meanwhile, unless the process dies or the database fails.
TestsClose ==
  \A k \in Attempt :
    runner[k] # "none" ~> (scan[k].test = "COMPLETE" \/ ~up \/ faults > 0)

\* What the per-run cap leaves over "will be picked up next run": an asset that
\* stays eligible, in a process that stays up, is scanned again and again.
SweepReachesEveryAsset ==
  \A a \in Asset : <>[](up /\ SweepEligible(a)) => []<>AlreadyRunning(a)

=============================================================================

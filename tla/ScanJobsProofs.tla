--------------------------- MODULE ScanJobsProofs ---------------------------
(***************************************************************************)
(* Proofs about ScanJobs, for any number of assets, attempts and           *)
(* concurrent requests, sweeps and faults.                                 *)
(***************************************************************************)
EXTENDS ScanJobs, AuthorizationProofs, AssetVerificationProofs, FiniteSetTheorems

(***************************************************************************)
(* The inductive invariant.  A request passes the gates once and creates   *)
(* the Test several awaits later, so everything on the way from the gates  *)
(* to the Test carries the evidence, which never goes away again.          *)
(***************************************************************************)
\* Both gates of asset a are open, with what opened the second.
Evident(a) ==
  /\ a \in Asset
  /\ engagement[EngagementOf[a]].signed
  /\ a \in justified \/ ControlShown(a)

ScansEvident == \A k \in Attempt : scan[k].test # "none" => Evident(scan[k].asset)

TriggersEvident ==
  \A p \in Trigger : trigger[p].pc \notin {"idle", "next"} => Evident(trigger[p].asset)

SweepsEvident == \A p \in Sweeper : \A a \in sweep[p].todo : Evident(a)

\* A sweep that is about to start a scan is below its cap.
SweepsUnderCap ==
  \A p \in Sweeper :
    trigger[p].pc \notin {"idle", "next"} => sweep[p].started < MaxScansPerRun

\* The Test of a scan that goes on: only a hand can have closed it.
OpenTest(row) == row.test # "none" /\ (row.test = "COMPLETE" => row.edited)

\* A request owns the attempt it created until it launches its runner.
TriggersOwn ==
  \A p \in Trigger :
    /\ trigger[p].pc \in {"tested", "queued"} <=> trigger[p].attempt # NoAttempt
    /\ trigger[p].attempt # NoAttempt =>
         LET k == trigger[p].attempt
         IN  /\ runner[k] = "none"
             /\ OpenTest(scan[k])
             /\ scan[k].job = IF trigger[p].pc = "tested" THEN "none" ELSE "QUEUED"
             /\ \A q \in Trigger : trigger[q].attempt = k => q = p

\* A runner's job is live until the runner decides its outcome.
RunnersOwn ==
  \A k \in Attempt :
    /\ runner[k] = "closing" => scan[k].job \in Terminal /\ scan[k].test # "none"
    /\ runner[k] \notin {"none", "closing"} =>
         scan[k].job \in Active /\ OpenTest(scan[k])

\* Nothing runs in a process that is down.
DownIsIdle ==
  ~up => /\ \A p \in Trigger : trigger[p].pc = "idle"
         /\ \A k \in Attempt : runner[k] = "none"

ScanIInv ==
  /\ ScanTypeOK
  /\ ScansEvident
  /\ TriggersEvident
  /\ SweepsEvident
  /\ SweepsUnderCap
  /\ TriggersOwn
  /\ RunnersOwn
  /\ DownIsIdle
  /\ ClosedTestHasOutcome
  /\ LiveJobHasOwner

IInv == AuthIInv /\ VerIInv /\ ScanIInv

LEMMA InitInv == Init => IInv
<1> SUFFICES ASSUME Init PROVE ScanIInv
  BY AuthInitInv, VerInitInv DEF Init, IInv
<1>1. ScanTypeOK
  BY ScanAssumption DEF Init, ScanInit, ScanTypeOK, ScanRow, RunnerPc,
                        TriggerState, SweepState, NoScan, IdleTrigger, IdleSweep
<1>2. ScansEvident /\ TriggersEvident /\ SweepsEvident /\ SweepsUnderCap
  BY DEF Init, ScanInit, ScansEvident, TriggersEvident, SweepsEvident, SweepsUnderCap, NoScan, IdleTrigger,
         IdleSweep, Trigger
<1>3. TriggersOwn /\ RunnersOwn /\ DownIsIdle
  BY DEF Init, ScanInit, TriggersOwn, RunnersOwn, DownIsIdle, NoScan, IdleTrigger
<1>4. ClosedTestHasOutcome /\ LiveJobHasOwner
  BY DEF Init, ScanInit, ClosedTestHasOutcome, LiveJobHasOwner, NoScan, Active
<1>5. QED  BY <1>1, <1>2, <1>3, <1>4 DEF ScanIInv

(***************************************************************************)
(* Steps of the gates                                                      *)
(***************************************************************************)
LEMMA EvidentStays ==
  ASSUME IInv,
         AuthNext \/ AuthCrash \/ UNCHANGED authVars,
         VerNext \/ VerCrash \/ UNCHANGED verVars,
         NEW a, Evident(a)
  PROVE  Evident(a)'
<1>1. EngagementOf[a] \in Engagement  BY ScanAssumption DEF Evident
<1>2. engagement'[EngagementOf[a]].signed
  BY <1>1, SignedStays DEF IInv, Evident, authVars
<1>3. (a \in justified \/ ControlShown(a))'
  BY EvidenceStays DEF IInv, Evident, verVars, ControlShown
<1>4. QED  BY <1>2, <1>3 DEF Evident

\* Steps of the gates leave the scans alone.
LEMMA GatesStepInv ==
  ASSUME IInv,
         AuthNext \/ UNCHANGED authVars,
         VerNext \/ UNCHANGED verVars,
         UNCHANGED scanVars
  PROVE  IInv'
<1>1. AuthIInv' /\ VerIInv'
  BY AuthNextInv, AuthStuttersInv, VerNextInv, VerStuttersInv DEF IInv
<1>2. ScanTypeOK'  BY DEF IInv, ScanIInv, scanVars, ScanTypeOK
<1>3. ScansEvident'  BY EvidentStays DEF IInv, ScanIInv, scanVars, ScansEvident
<1>4. TriggersEvident'  BY EvidentStays DEF IInv, ScanIInv, scanVars, TriggersEvident
<1>5. SweepsEvident'  BY EvidentStays DEF IInv, ScanIInv, scanVars, SweepsEvident
<1>6. /\ SweepsUnderCap' /\ TriggersOwn' /\ RunnersOwn' /\ DownIsIdle'
      /\ ClosedTestHasOutcome' /\ LiveJobHasOwner'
  BY DEF IInv, ScanIInv, scanVars, SweepsUnderCap, TriggersOwn, RunnersOwn, DownIsIdle, ClosedTestHasOutcome,
         LiveJobHasOwner
<1>7. QED  BY <1>1, <1>2, <1>3, <1>4, <1>5, <1>6 DEF IInv, ScanIInv

(***************************************************************************)
(* Steps of the scans                                                      *)
(***************************************************************************)
LEMMA GatesUnchanged ==
  ASSUME IInv, UNCHANGED gates
  PROVE  /\ AuthIInv' /\ VerIInv'
         /\ \A a : Evident(a)' <=> Evident(a)
<1>1. AuthIInv' /\ VerIInv'  BY AuthStuttersInv, VerStuttersInv DEF IInv, gates
<1>2. \A a : Evident(a)' <=> Evident(a)
  BY DEF gates, authVars, verVars, Evident, ControlShown
<1>3. QED  BY <1>1, <1>2

\* A request moves on without an attempt of its own.
LEMMA TriggerMoves ==
  ASSUME IInv, up, UNCHANGED <<gates, up, scan, runner, faults>>,
         NEW p \in Trigger, NEW t \in TriggerState,
         trigger[p].attempt = NoAttempt,
         trigger' = [trigger EXCEPT ![p] = t],
         t.pc \in {"idle", "next", "gated", "clear"},
         t.attempt = NoAttempt,
         t.pc \in {"gated", "clear"} => Evident(t.asset),
         sweep' \in [Sweeper -> SweepState],
         \A q \in Sweeper : \A a \in sweep'[q].todo : Evident(a),
         SweepsUnderCap'
  PROVE  IInv'
<1> USE DEF IInv, ScanIInv
<1>1. AuthIInv' /\ VerIInv' /\ \A a : Evident(a)' <=> Evident(a)  BY GatesUnchanged
<1>2. ScanTypeOK'  BY DEF ScanTypeOK
<1>3. ScansEvident' /\ SweepsEvident'  BY <1>1 DEF ScansEvident, SweepsEvident
<1>4. TriggersEvident'  BY <1>1 DEF ScanTypeOK, TriggersEvident
<1>5. TriggersOwn'
  <2> SUFFICES ASSUME NEW q \in Trigger
               PROVE  /\ trigger'[q].pc \in {"tested", "queued"} <=> trigger'[q].attempt # NoAttempt
                      /\ trigger'[q].attempt # NoAttempt => q # p
                      /\ q # p => trigger'[q] = trigger[q]
    BY DEF TriggersOwn, ScanTypeOK
  <2>1. QED  BY DEF TriggersOwn, ScanTypeOK
<1>6. RunnersOwn' /\ DownIsIdle' /\ ClosedTestHasOutcome'
  BY DEF RunnersOwn, DownIsIdle, ClosedTestHasOutcome
<1>7. LiveJobHasOwner'
  <2> SUFFICES ASSUME NEW k \in Attempt, NEW q \in Trigger, trigger[q].attempt = k
               PROVE  trigger'[q].attempt = k
    BY DEF LiveJobHasOwner
  <2>1. QED  BY ScanAssumption DEF ScanTypeOK
<1>8. QED  BY <1>1, <1>2, <1>3, <1>4, <1>5, <1>6, <1>7

LEMMA NoAttemptYet ==
  ASSUME IInv, NEW p \in Trigger, trigger[p].pc \notin {"tested", "queued"}
  PROVE  trigger[p].attempt = NoAttempt
  BY DEF IInv, ScanIInv, TriggersOwn

LEMMA UpWhenBusy ==
  ASSUME IInv, \/ \E p \in Trigger : trigger[p].pc # "idle"
               \/ \E k \in Attempt : runner[k] # "none"
  PROVE  up
  BY DEF IInv, ScanIInv, DownIsIdle

\* What the gates let through has evidence behind both.
LEMMA AllowedIsEvident ==
  ASSUME IInv, NEW a \in Asset, ScanAllowed(a) PROVE Evident(a)
  BY DEF IInv, VerIInv, VerifiedNeedsProof, ScanAllowed, Evident

LEMMA ReadGateInv == ASSUME IInv, NEW p \in Admin, NEW a \in Asset, ReadGate(p, a) PROVE IInv'
<1> DEFINE t == [IdleTrigger EXCEPT !.pc = "gated", !.asset = a]
<1>1. t \in TriggerState /\ t.pc = "gated" /\ t.attempt = NoAttempt /\ Evident(t.asset)
  BY AllowedIsEvident DEF ReadGate, TriggerState, IdleTrigger
<1>2. SweepsUnderCap'
  BY ScanAssumption DEF ReadGate, IInv, ScanIInv, ScanTypeOK, SweepsUnderCap, Trigger
<1>3. QED
  BY <1>1, <1>2, TriggerMoves, NoAttemptYet
  DEF ReadGate, Trigger, IInv, ScanIInv, ScanTypeOK, SweepsEvident

LEMMA SweepReadInv == ASSUME IInv, NEW p \in Sweeper, SweepRead(p) PROVE IInv'
<1> DEFINE t == [trigger[p] EXCEPT !.pc = "next"]
<1>1. trigger[p].attempt = NoAttempt /\ p \in Trigger  BY NoAttemptYet DEF SweepRead, Trigger
<1>2. t \in TriggerState /\ t.pc = "next" /\ t.attempt = NoAttempt
  BY <1>1 DEF IInv, ScanIInv, ScanTypeOK, TriggerState
<1>3. trigger' = [trigger EXCEPT ![p] = t]  BY DEF SweepRead
<1>4. sweep' \in [Sweeper -> SweepState]
  BY ScanAssumption DEF SweepRead, IInv, ScanIInv, ScanTypeOK, SweepState
<1>5. \A q \in Sweeper : \A a \in sweep'[q].todo : Evident(a)
  BY AllowedIsEvident
  DEF SweepRead, SweepEligible, IInv, ScanIInv, ScanTypeOK, SweepState, SweepsEvident
<1>6. SweepsUnderCap'
  BY <1>1, <1>2, <1>3 DEF SweepRead, IInv, ScanIInv, ScanTypeOK, SweepsUnderCap, Trigger
<1>7. QED  BY <1>1, <1>2, <1>3, <1>4, <1>5, <1>6, TriggerMoves DEF SweepRead

LEMMA SweepNextInv == ASSUME IInv, NEW p \in Sweeper, SweepNext(p) PROVE IInv'
<1>1. PICK a \in sweep[p].todo :
        /\ sweep' = [sweep EXCEPT ![p].todo = @ \ {a}]
        /\ trigger' = [trigger EXCEPT ![p] = [@ EXCEPT !.pc = "gated", !.asset = a]]
  BY DEF SweepNext
<1> DEFINE t == [trigger[p] EXCEPT !.pc = "gated", !.asset = a]
<1>2. trigger[p].attempt = NoAttempt /\ p \in Trigger /\ up
  BY NoAttemptYet, UpWhenBusy DEF SweepNext, Trigger
<1>3. Evident(a) /\ a \in Asset  BY DEF IInv, ScanIInv, SweepsEvident, Evident
<1>4. trigger[p] \in TriggerState  BY <1>2 DEF IInv, ScanIInv, ScanTypeOK
<1>5. t \in TriggerState /\ t.pc = "gated" /\ t.asset = a /\ t.attempt = NoAttempt
  BY <1>2, <1>3, <1>4 DEF TriggerState
<1>6. trigger' = [trigger EXCEPT ![p] = t]  BY <1>1, <1>4 DEF TriggerState, IInv, ScanIInv, ScanTypeOK
<1>7. sweep' \in [Sweeper -> SweepState]
  BY <1>1 DEF IInv, ScanIInv, ScanTypeOK, SweepState
<1>8. \A q \in Sweeper : \A b \in sweep'[q].todo : Evident(b)
  BY <1>1 DEF IInv, ScanIInv, ScanTypeOK, SweepState, SweepsEvident
<1>9. UNCHANGED <<gates, up, scan, runner, faults>>  BY DEF SweepNext
<1>10. sweep[p].started < MaxScansPerRun  BY DEF SweepNext
<1>11. SweepsUnderCap'
  BY <1>1, <1>6, <1>10 DEF IInv, ScanIInv, ScanTypeOK, SweepState, SweepsUnderCap, Trigger
<1> HIDE DEF t
<1>12. QED  BY <1>2, <1>3, <1>5, <1>6, <1>7, <1>8, <1>9, <1>11, TriggerMoves

LEMMA SweepEndInv == ASSUME IInv, NEW p \in Sweeper, SweepEnd(p) PROVE IInv'
<1>1. trigger[p].attempt = NoAttempt /\ p \in Trigger /\ up
  BY NoAttemptYet, UpWhenBusy DEF SweepEnd, Trigger
<1>2. IdleTrigger \in TriggerState /\ IdleTrigger.pc = "idle" /\ IdleTrigger.attempt = NoAttempt
  BY DEF IdleTrigger, TriggerState
<1>3. sweep' \in [Sweeper -> SweepState]
  BY ScanAssumption DEF SweepEnd, IdleSweep, IInv, ScanIInv, ScanTypeOK, SweepState
<1>4. \A q \in Sweeper : \A b \in sweep'[q].todo : Evident(b)
  BY DEF SweepEnd, IdleSweep, IInv, ScanIInv, ScanTypeOK, SweepState, SweepsEvident
<1>5. SweepsUnderCap'
  BY <1>2 DEF SweepEnd, IInv, ScanIInv, ScanTypeOK, SweepsUnderCap, Trigger
<1>6. QED  BY <1>1, <1>2, <1>3, <1>4, <1>5, TriggerMoves DEF SweepEnd

LEMMA CheckRunningInv == ASSUME IInv, NEW p \in Trigger, CheckRunning(p) PROVE IInv'
<1> DEFINE done == IF p \in Sweeper THEN [IdleTrigger EXCEPT !.pc = "next"] ELSE IdleTrigger
<1> DEFINE clear == [trigger[p] EXCEPT !.pc = "clear"]
<1>1. trigger[p].attempt = NoAttempt /\ trigger[p] \in TriggerState /\ up
  BY NoAttemptYet, UpWhenBusy DEF CheckRunning, IInv, ScanIInv, ScanTypeOK
<1>2. sweep' \in [Sweeper -> SweepState] /\ \A q \in Sweeper : \A b \in sweep'[q].todo : Evident(b)
  BY DEF CheckRunning, IInv, ScanIInv, ScanTypeOK, SweepsEvident
<1>3. done \in TriggerState /\ done.pc \in {"idle", "next"} /\ done.attempt = NoAttempt
  BY DEF IdleTrigger, TriggerState
<1>4. clear \in TriggerState /\ clear.pc = "clear" /\ clear.attempt = NoAttempt
        /\ clear.asset = trigger[p].asset
  BY <1>1 DEF TriggerState
<1>5. Evident(clear.asset)
  BY <1>4 DEF CheckRunning, IInv, ScanIInv, TriggersEvident
<1>6. trigger' = [trigger EXCEPT ![p] = done] \/ trigger' = [trigger EXCEPT ![p] = clear]
  BY DEF CheckRunning, AssetDone
<1>7. UNCHANGED <<gates, up, scan, runner, faults>>  BY DEF CheckRunning
<1>8. SweepsUnderCap'
  BY <1>3, <1>6 DEF CheckRunning, IInv, ScanIInv, ScanTypeOK, SweepsUnderCap, Trigger
<1> HIDE DEF done, clear
<1>9. CASE trigger' = [trigger EXCEPT ![p] = done]
  BY <1>1, <1>2, <1>3, <1>7, <1>8, <1>9, TriggerMoves
<1>10. CASE trigger' = [trigger EXCEPT ![p] = clear]
  BY <1>1, <1>2, <1>4, <1>5, <1>7, <1>8, <1>10, TriggerMoves
<1>11. QED  BY <1>6, <1>9, <1>10

LEMMA CreateTestInv == ASSUME IInv, NEW p \in Trigger, CreateTest(p) PROVE IInv'
<1> USE DEF IInv, ScanIInv
<1> DEFINE a == trigger[p].asset
<1> DEFINE row == [NoScan EXCEPT !.asset = a, !.test = "IN_PROGRESS"]
<1>1. PICK k \in Attempt :
        /\ Unused(k)
        /\ scan' = [scan EXCEPT ![k] = row]
        /\ trigger' = [trigger EXCEPT ![p] = [@ EXCEPT !.pc = "tested", !.attempt = k]]
  BY DEF CreateTest
<1>2. trigger[p].pc = "clear" /\ UNCHANGED <<gates, up, runner, sweep, faults>>  BY DEF CreateTest
<1>3. AuthIInv' /\ VerIInv' /\ \A b : Evident(b)' <=> Evident(b)  BY <1>2, GatesUnchanged
<1>4. Evident(a) /\ a \in Asset  BY <1>2 DEF TriggersEvident, Evident
<1>5. runner[k] = "none" /\ \A q \in Trigger : trigger[q].attempt # k  BY <1>1 DEF Unused
<1>6. row \in ScanRow /\ row.test = "IN_PROGRESS" /\ row.job = "none" /\ row.asset = a
        /\ OpenTest(row)
  BY <1>4 DEF ScanRow, NoScan, OpenTest
<1> HIDE DEF row
<1>7. /\ trigger[p] \in TriggerState
      /\ trigger'[p] = [trigger[p] EXCEPT !.pc = "tested", !.attempt = k]
      /\ \A q \in Trigger : q # p => trigger'[q] = trigger[q]
      /\ scan'[k] = row
      /\ \A l \in Attempt : l # k => scan'[l] = scan[l]
  BY <1>1 DEF ScanTypeOK, TriggerState
<1>8. ScanTypeOK'  BY <1>1, <1>2, <1>6, <1>7 DEF ScanTypeOK, TriggerState
<1>9. ScansEvident'  BY <1>3, <1>4, <1>6, <1>7 DEF ScansEvident
<1>10. TriggersEvident'  BY <1>3, <1>4, <1>7 DEF TriggersEvident, TriggerState
<1>11. SweepsEvident'  BY <1>2, <1>3 DEF SweepsEvident
<1>12. TriggersOwn'
  <2>1. k # NoAttempt /\ trigger[p].attempt = NoAttempt
    BY <1>2, ScanAssumption, NoAttemptYet
  <2> SUFFICES ASSUME NEW q \in Trigger
               PROVE  /\ trigger'[q].pc \in {"tested", "queued"} <=> trigger'[q].attempt # NoAttempt
                      /\ trigger'[q].attempt # NoAttempt =>
                           LET l == trigger'[q].attempt
                           IN  /\ runner'[l] = "none"
                               /\ OpenTest(scan'[l])
                               /\ scan'[l].job = IF trigger'[q].pc = "tested" THEN "none" ELSE "QUEUED"
                               /\ \A r \in Trigger : trigger'[r].attempt = l => r = q
    BY DEF TriggersOwn
  <2>2. CASE q = p
    BY <2>1, <2>2, <1>2, <1>5, <1>6, <1>7 DEF TriggerState
  <2>3. CASE q # p
    <3>1. trigger'[q] = trigger[q] /\ trigger[q].attempt # k /\ trigger'[p].attempt = k
      BY <2>3, <1>5, <1>7 DEF TriggerState
    <3>2. trigger[q].attempt # NoAttempt => scan'[trigger[q].attempt] = scan[trigger[q].attempt]
      BY <3>1, <1>7 DEF ScanTypeOK, TriggerState
    <3>3. ASSUME NEW r \in Trigger, trigger[q].attempt # NoAttempt,
                 trigger'[r].attempt = trigger[q].attempt
          PROVE  r = q
      <4>1. r # p  BY <3>1, <3>3
      <4>2. trigger[r].attempt = trigger[q].attempt  BY <4>1, <3>3, <1>7
      <4>3. QED  BY <4>2, <3>3 DEF TriggersOwn
    <3>4. QED  BY <3>1, <3>2, <3>3, <1>2 DEF TriggersOwn
  <2>4. QED  BY <2>2, <2>3
<1>13. RunnersOwn'  BY <1>2, <1>5, <1>7 DEF RunnersOwn
<1>14. DownIsIdle'  BY <1>2, UpWhenBusy DEF DownIsIdle
<1>15. ClosedTestHasOutcome'  BY <1>6, <1>7 DEF ClosedTestHasOutcome
<1>16. LiveJobHasOwner'
  <2> SUFFICES ASSUME NEW l \in Attempt, faults = 0, up, scan'[l].job \in Active
               PROVE  runner[l] \notin {"none", "closing"} \/ \E q \in Trigger : trigger'[q].attempt = l
    BY <1>2 DEF LiveJobHasOwner
  <2>1. l # k  BY <1>6, <1>7 DEF Active
  <2>2. \A q \in Trigger : trigger[q].attempt = l => q # p
    BY <1>2, NoAttemptYet, ScanAssumption
  <2>3. QED  BY <2>1, <2>2, <1>7 DEF LiveJobHasOwner
<1>17. SweepsUnderCap'  BY <1>2, <1>7 DEF SweepsUnderCap, Trigger
<1>18. QED  BY <1>17, <1>3, <1>8, <1>9, <1>10, <1>11, <1>12, <1>13, <1>14, <1>15, <1>16

LEMMA CreateJobInv == ASSUME IInv, NEW p \in Trigger, CreateJob(p) PROVE IInv'
<1> USE DEF IInv, ScanIInv
<1> DEFINE k == trigger[p].attempt
<1>1. /\ trigger[p].pc = "tested"
      /\ scan' = [scan EXCEPT ![k].job = "QUEUED"]
      /\ trigger' = [trigger EXCEPT ![p].pc = "queued"]
      /\ UNCHANGED <<gates, up, runner, sweep, faults>>
  BY DEF CreateJob
<1>2. AuthIInv' /\ VerIInv' /\ \A b : Evident(b)' <=> Evident(b)  BY <1>1, GatesUnchanged
<1>3. /\ k \in Attempt
      /\ runner[k] = "none"
      /\ OpenTest(scan[k])
      /\ \A q \in Trigger : trigger[q].attempt = k => q = p
      /\ trigger[p] \in TriggerState
      /\ scan[k] \in ScanRow
  BY <1>1 DEF TriggersOwn, ScanTypeOK, TriggerState
<1>4. /\ trigger'[p] = [trigger[p] EXCEPT !.pc = "queued"]
      /\ \A q \in Trigger : q # p => trigger'[q] = trigger[q]
      /\ scan'[k] = [scan[k] EXCEPT !.job = "QUEUED"]
      /\ \A l \in Attempt : l # k => scan'[l] = scan[l]
  BY <1>1, <1>3 DEF ScanTypeOK
<1>5. /\ trigger'[p].pc = "queued" /\ trigger'[p].asset = trigger[p].asset
      /\ trigger'[p].attempt = k
      /\ scan'[k].job = "QUEUED" /\ scan'[k].test = scan[k].test /\ scan'[k].asset = scan[k].asset
      /\ scan'[k].edited = scan[k].edited /\ scan[k].test # "none" /\ OpenTest(scan'[k])
      /\ trigger'[p] \in TriggerState /\ scan'[k] \in ScanRow
  BY <1>3, <1>4 DEF TriggerState, ScanRow, Active, OpenTest
<1>6. ScanTypeOK'  BY <1>1, <1>3, <1>4, <1>5 DEF ScanTypeOK
<1>7. ScansEvident'  BY <1>2, <1>3, <1>4, <1>5 DEF ScansEvident
<1>8. TriggersEvident'  BY <1>1, <1>2, <1>4, <1>5 DEF TriggersEvident
<1>9. SweepsEvident'  BY <1>1, <1>2 DEF SweepsEvident
<1>10. TriggersOwn'
  <2> SUFFICES ASSUME NEW q \in Trigger
               PROVE  /\ trigger'[q].pc \in {"tested", "queued"} <=> trigger'[q].attempt # NoAttempt
                      /\ trigger'[q].attempt # NoAttempt =>
                           LET l == trigger'[q].attempt
                           IN  /\ runner'[l] = "none"
                               /\ OpenTest(scan'[l])
                               /\ scan'[l].job = IF trigger'[q].pc = "tested" THEN "none" ELSE "QUEUED"
                               /\ \A r \in Trigger : trigger'[r].attempt = l => r = q
    BY DEF TriggersOwn
  <2>1. \A r \in Trigger : trigger'[r].attempt = trigger[r].attempt  BY <1>4, <1>5
  <2>2. CASE q = p
    BY <2>1, <2>2, <1>1, <1>3, <1>5, ScanAssumption
  <2>3. CASE q # p
    <3>1. trigger'[q] = trigger[q] /\ trigger[q].attempt # k  BY <2>3, <1>3, <1>4
    <3>2. trigger[q].attempt # NoAttempt => scan'[trigger[q].attempt] = scan[trigger[q].attempt]
      BY <3>1, <1>4 DEF ScanTypeOK, TriggerState
    <3>3. QED  BY <2>1, <3>1, <3>2, <1>1 DEF TriggersOwn
  <2>4. QED  BY <2>2, <2>3
<1>11. RunnersOwn'  BY <1>1, <1>3, <1>4 DEF RunnersOwn
<1>12. DownIsIdle'  BY <1>1, UpWhenBusy DEF DownIsIdle
<1>13. ClosedTestHasOutcome'  BY <1>4, <1>5 DEF ClosedTestHasOutcome, OpenTest
<1>14. LiveJobHasOwner'
  <2>1. \A r \in Trigger : trigger'[r].attempt = trigger[r].attempt  BY <1>4, <1>5
  <2>2. QED  BY <2>1, <1>1, <1>3, <1>4 DEF LiveJobHasOwner
<1>15. SweepsUnderCap'  BY <1>1, <1>4 DEF SweepsUnderCap, Trigger
<1>16. QED  BY <1>15, <1>2, <1>6, <1>7, <1>8, <1>9, <1>10, <1>11, <1>12, <1>13, <1>14

\* A request gives up its attempt, or leaves its asset, in one step.
LEMMA TriggerLetsGo ==
  ASSUME IInv, NEW p \in Trigger, NEW t \in TriggerState,
         t.attempt = NoAttempt, t.pc \in {"idle", "next"}, up,
         trigger' = [trigger EXCEPT ![p] = t],
         UNCHANGED <<gates, up, scan>>,
         sweep' \in [Sweeper -> SweepState],
         \A q \in Sweeper : \A a \in sweep'[q].todo : Evident(a),
         \A q \in Sweeper : q # p => sweep'[q] = sweep[q],
         runner' \in [Attempt -> RunnerPc], faults' \in 0..MaxFaults,
         \A l \in Attempt : l # trigger[p].attempt => runner'[l] = runner[l],
         \/ faults' # 0 /\ runner' = runner
         \/ /\ faults' = faults /\ trigger[p].pc = "queued"
            /\ runner'[trigger[p].attempt] = "loading"
  PROVE  IInv'
<1> USE DEF IInv, ScanIInv
<1>1. AuthIInv' /\ VerIInv' /\ \A b : Evident(b)' <=> Evident(b)  BY GatesUnchanged
<1>2. trigger'[p] = t /\ \A q \in Trigger : q # p => trigger'[q] = trigger[q]
  BY DEF ScanTypeOK
<1>3. ScanTypeOK'  BY DEF ScanTypeOK
<1>4. ScansEvident' /\ SweepsEvident'  BY <1>1 DEF ScansEvident, SweepsEvident
<1>5. TriggersEvident'  BY <1>1, <1>2 DEF TriggersEvident
<1>6. TriggersOwn'
  <2> SUFFICES ASSUME NEW q \in Trigger
               PROVE  /\ trigger'[q].pc \in {"tested", "queued"} <=> trigger'[q].attempt # NoAttempt
                      /\ trigger'[q].attempt # NoAttempt =>
                           LET l == trigger'[q].attempt
                           IN  /\ runner'[l] = "none"
                               /\ OpenTest(scan'[l])
                               /\ scan'[l].job = IF trigger'[q].pc = "tested" THEN "none" ELSE "QUEUED"
                               /\ \A r \in Trigger : trigger'[r].attempt = l => r = q
    BY DEF TriggersOwn
  <2>1. CASE q = p  BY <2>1, <1>2
  <2>2. CASE q # p
    <3>1. trigger'[q] = trigger[q]  BY <2>2, <1>2
    <3>2. CASE trigger[q].attempt = NoAttempt  BY <3>1, <3>2 DEF TriggersOwn
    <3>3. CASE trigger[q].attempt # NoAttempt
      <4>1. trigger[q].attempt \in Attempt  BY <3>3 DEF ScanTypeOK, TriggerState
      <4>2. trigger[q].attempt # trigger[p].attempt  BY <2>2, <3>3 DEF TriggersOwn
      <4>3. runner'[trigger[q].attempt] = "none"  BY <3>3, <4>1, <4>2 DEF TriggersOwn
      <4>4. ASSUME NEW r \in Trigger, trigger'[r].attempt = trigger[q].attempt PROVE r = q
        <5>1. r # p  BY <1>2, <3>3, <4>4
        <5>2. trigger[r].attempt = trigger[q].attempt  BY <5>1, <1>2, <4>4
        <5>3. QED  BY <5>2, <3>3 DEF TriggersOwn
      <4>5. QED  BY <3>1, <3>3, <4>3, <4>4 DEF TriggersOwn
    <3>4. QED  BY <3>2, <3>3
  <2>3. QED  BY <2>1, <2>2
<1>7. trigger[p].pc = "queued" =>
        /\ scan[trigger[p].attempt].job = "QUEUED"
        /\ OpenTest(scan[trigger[p].attempt])
  BY DEF TriggersOwn
<1>8. RunnersOwn'  BY <1>7 DEF RunnersOwn, Active
<1>9. DownIsIdle' /\ ClosedTestHasOutcome'  BY DEF DownIsIdle, ClosedTestHasOutcome
<1>10. LiveJobHasOwner'
  <2> SUFFICES ASSUME NEW l \in Attempt, faults' = 0, scan[l].job \in Active
               PROVE  runner'[l] \notin {"none", "closing"} \/ \E q \in Trigger : trigger'[q].attempt = l
    BY DEF LiveJobHasOwner
  <2>1. CASE l = trigger[p].attempt  BY <2>1
  <2>2. CASE l # trigger[p].attempt
    <3>1. runner'[l] = runner[l] /\ faults = 0  BY <2>2
    <3>2. \A q \in Trigger : trigger[q].attempt = l => trigger'[q].attempt = l  BY <2>2, <1>2
    <3>3. QED  BY <3>1, <3>2 DEF LiveJobHasOwner
  <2>3. QED  BY <2>1, <2>2
<1>11. SweepsUnderCap'  BY <1>2 DEF SweepsUnderCap, Trigger
<1>12. QED  BY <1>1, <1>3, <1>4, <1>5, <1>6, <1>8, <1>9, <1>10, <1>11

LEMMA LaunchInv == ASSUME IInv, NEW p \in Trigger, Launch(p) PROVE IInv'
<1> DEFINE t == IF p \in Sweeper THEN [IdleTrigger EXCEPT !.pc = "next"] ELSE IdleTrigger
<1>1. /\ trigger[p].pc = "queued"
      /\ runner' = [runner EXCEPT ![trigger[p].attempt] = "loading"]
      /\ UNCHANGED <<gates, up, scan, faults>>
  BY DEF Launch
<1>2. up /\ ScanTypeOK /\ SweepsEvident  BY <1>1, UpWhenBusy DEF IInv, ScanIInv
<1>3. t \in TriggerState /\ t.attempt = NoAttempt /\ t.pc \in {"idle", "next"}
  BY DEF IdleTrigger, TriggerState
<1>4. trigger' = [trigger EXCEPT ![p] = t]  BY DEF Launch, AssetDone
<1>5. /\ sweep' \in [Sweeper -> SweepState]
      /\ \A q \in Sweeper : sweep'[q].todo = sweep[q].todo /\ (q # p => sweep'[q] = sweep[q])
  <2>1. CASE p \notin Sweeper  BY <2>1, <1>2 DEF Launch, ScanTypeOK
  <2>2. CASE p \in Sweeper
    <3>1. sweep' = [sweep EXCEPT ![p].started = @ + 1]  BY <2>2 DEF Launch
    <3>2. sweep[p].started < MaxScansPerRun  BY <2>2, <1>1 DEF IInv, ScanIInv, SweepsUnderCap
    <3>3. sweep[p] \in SweepState  BY <2>2, <1>2 DEF ScanTypeOK
    <3>4. [sweep[p] EXCEPT !.started = @ + 1] \in SweepState
      BY <3>2, <3>3, ScanAssumption DEF SweepState
    <3>5. QED  BY <3>1, <3>3, <3>4, <1>2 DEF ScanTypeOK, SweepState
  <2>3. QED  BY <2>1, <2>2
<1>6. trigger[p].attempt \in Attempt
  BY <1>1, <1>2 DEF IInv, ScanIInv, TriggersOwn, ScanTypeOK, TriggerState
<1>7. runner' \in [Attempt -> RunnerPc]  BY <1>1, <1>2, <1>6 DEF ScanTypeOK, RunnerPc
<1>8. /\ runner'[trigger[p].attempt] = "loading"
      /\ \A l \in Attempt : l # trigger[p].attempt => runner'[l] = runner[l]
  BY <1>1, <1>2, <1>6 DEF ScanTypeOK
<1>9. \A q \in Sweeper : \A a \in sweep'[q].todo : Evident(a)  BY <1>2, <1>5 DEF SweepsEvident
<1> HIDE DEF t
<1>10. faults' \in 0..MaxFaults  BY <1>1, <1>2 DEF ScanTypeOK
<1>11. QED  BY <1>1, <1>2, <1>3, <1>4, <1>5, <1>7, <1>8, <1>9, <1>10, TriggerLetsGo

\* A hand that sets the status of a Test disturbs nothing but that Test.
LEMMA PatchTestInv ==
  ASSUME IInv, NEW k \in Attempt, NEW status \in TestStatus, PatchTest(k, status)
  PROVE  IInv'
<1> USE DEF IInv, ScanIInv
<1>1. /\ up /\ scan[k].test # "none"
      /\ UNCHANGED <<gates, up, runner, trigger, sweep, faults>>
  BY DEF PatchTest
<1> DEFINE row == [scan[k] EXCEPT !.test = status, !.edited = TRUE]
<1>2. scan[k] \in ScanRow /\ scan' = [scan EXCEPT ![k] = row]
  BY DEF PatchTest, ScanTypeOK
<1>3. /\ row \in ScanRow /\ row.asset = scan[k].asset /\ row.job = scan[k].job
      /\ row.edited /\ row.test # "none"
  BY <1>2, ScanAssumption DEF ScanRow
<1> HIDE DEF row
<1>4. scan'[k] = row /\ \A l \in Attempt : l # k => scan'[l] = scan[l]
  BY <1>2 DEF ScanTypeOK
<1>5. \A l \in Attempt :
        /\ scan'[l].job = scan[l].job
        /\ OpenTest(scan[l]) => OpenTest(scan'[l])
        /\ scan'[l].test # "none" => scan[l].test # "none" /\ scan'[l].asset = scan[l].asset
        /\ scan[l].test # "none" => scan'[l].test # "none"
  BY <1>1, <1>3, <1>4 DEF OpenTest
<1>6. AuthIInv' /\ VerIInv' /\ \A b : Evident(b)' <=> Evident(b)  BY <1>1, GatesUnchanged
<1>7. ScanTypeOK'  BY <1>1, <1>2, <1>3 DEF ScanTypeOK
<1>8. ScansEvident'  BY <1>5, <1>6 DEF ScansEvident
<1>9. TriggersEvident' /\ SweepsEvident' /\ SweepsUnderCap'
  BY <1>1, <1>6 DEF TriggersEvident, SweepsEvident, SweepsUnderCap
<1>10. TriggersOwn'
  <2>1. \A q \in Trigger : trigger[q].attempt # NoAttempt => trigger[q].attempt \in Attempt
    BY DEF ScanTypeOK, TriggerState
  <2>2. QED  BY <2>1, <1>1, <1>5 DEF TriggersOwn
<1>11. RunnersOwn' /\ DownIsIdle' /\ LiveJobHasOwner'
  BY <1>1, <1>5 DEF RunnersOwn, DownIsIdle, LiveJobHasOwner
<1>12. ClosedTestHasOutcome'  BY <1>3, <1>4 DEF ClosedTestHasOutcome
<1>13. QED  BY <1>6, <1>7, <1>8, <1>9, <1>10, <1>11, <1>12

LEMMA TriggerFaultInv == ASSUME IInv, NEW p \in Trigger, TriggerFault(p) PROVE IInv'
<1>1. /\ faults < MaxFaults /\ faults' = faults + 1
      /\ trigger' = [trigger EXCEPT ![p] = IdleTrigger]
      /\ UNCHANGED <<gates, up, scan, runner>>
  BY DEF TriggerFault
<1>2. up /\ ScanTypeOK /\ SweepsEvident  BY UpWhenBusy DEF TriggerFault, IInv, ScanIInv
<1>3. IdleTrigger \in TriggerState /\ IdleTrigger.attempt = NoAttempt /\ IdleTrigger.pc = "idle"
  BY DEF IdleTrigger, TriggerState
<1>4. IdleSweep \in SweepState /\ IdleSweep.todo = {}
  BY ScanAssumption DEF IdleSweep, SweepState
<1>5. /\ sweep' \in [Sweeper -> SweepState]
      /\ \A q \in Sweeper : sweep'[q] = IF q = p THEN IdleSweep ELSE sweep[q]
  BY <1>2, <1>4 DEF TriggerFault, ScanTypeOK
<1>6. \A q \in Sweeper : \A a \in sweep'[q].todo : Evident(a)
  BY <1>2, <1>4, <1>5 DEF SweepsEvident
<1>7. faults' \in 0..MaxFaults /\ faults' # 0  BY <1>1, <1>2, ScanAssumption DEF ScanTypeOK
<1>8. runner' \in [Attempt -> RunnerPc]  BY <1>1, <1>2 DEF ScanTypeOK
<1>9. QED  BY <1>1, <1>2, <1>3, <1>5, <1>6, <1>7, <1>8, TriggerLetsGo

(***************************************************************************)
(* Steps of a runner: what each of them owes the invariant is stated once. *)
(***************************************************************************)
LEMMA RunnerMoves ==
  ASSUME IInv, UNCHANGED <<gates, up, trigger, sweep>>,
         NEW k \in Attempt, runner[k] # "none",
         NEW pc \in RunnerPc, NEW row \in ScanRow,
         runner' = [runner EXCEPT ![k] = pc],
         scan' = [scan EXCEPT ![k] = row],
         faults' \in 0..MaxFaults, faults' = 0 => faults = 0,
         row.asset = scan[k].asset,
         row.test # "none",
         row.test = "COMPLETE" /\ ~row.edited => row.job \in Terminal,
         pc = "closing" => row.job \in Terminal,
         pc \notin {"none", "closing"} => row.job \in Active /\ OpenTest(row),
         pc = "none" => row.job \notin Active \/ faults' # 0
  PROVE  IInv'
<1> USE DEF IInv, ScanIInv
<1>1. AuthIInv' /\ VerIInv' /\ \A b : Evident(b)' <=> Evident(b)  BY GatesUnchanged
<1>2. /\ runner'[k] = pc /\ scan'[k] = row
      /\ \A l \in Attempt : l # k => runner'[l] = runner[l] /\ scan'[l] = scan[l]
  BY DEF ScanTypeOK
<1>3. scan[k].test # "none"  BY DEF RunnersOwn, OpenTest
<1>4. ScanTypeOK'  BY DEF ScanTypeOK
<1>5. ScansEvident'  BY <1>1, <1>2, <1>3 DEF ScansEvident
<1>6. TriggersEvident' /\ SweepsEvident' /\ SweepsUnderCap'
  BY <1>1 DEF TriggersEvident, SweepsEvident, SweepsUnderCap
<1>7. TriggersOwn'
  <2>1. \A q \in Trigger :
          trigger[q].attempt # NoAttempt =>
            /\ runner'[trigger[q].attempt] = runner[trigger[q].attempt]
            /\ scan'[trigger[q].attempt] = scan[trigger[q].attempt]
    BY <1>2 DEF TriggersOwn, ScanTypeOK, TriggerState
  <2>2. QED  BY <2>1 DEF TriggersOwn
<1>8. RunnersOwn'  BY <1>2 DEF RunnersOwn
<1>9. DownIsIdle'  BY UpWhenBusy DEF DownIsIdle
<1>10. ClosedTestHasOutcome'  BY <1>2 DEF ClosedTestHasOutcome
<1>11. LiveJobHasOwner'
  <2> SUFFICES ASSUME NEW l \in Attempt, faults' = 0, up, scan'[l].job \in Active
               PROVE  runner'[l] \notin {"none", "closing"} \/ \E q \in Trigger : trigger[q].attempt = l
    BY DEF LiveJobHasOwner
  <2>1. CASE l = k  BY <2>1, <1>2 DEF Active, Terminal
  <2>2. CASE l # k  BY <2>2, <1>2 DEF LiveJobHasOwner
  <2>3. QED  BY <2>1, <2>2
<1>12. QED  BY <1>1, <1>4, <1>5, <1>6, <1>7, <1>8, <1>9, <1>10, <1>11

\* What a runner that is still working may take for granted.
LEMMA RunnerHolds ==
  ASSUME IInv, NEW k \in Attempt, runner[k] # "none"
  PROVE  /\ scan[k] \in ScanRow
         /\ scan = [scan EXCEPT ![k] = scan[k]]
         /\ faults \in 0..MaxFaults
         /\ scan[k].test # "none"
         /\ scan[k].test = "COMPLETE" /\ ~scan[k].edited => scan[k].job \in Terminal
         /\ runner[k] = "closing" => scan[k].job \in Terminal
         /\ runner[k] # "closing" => scan[k].job \in Active /\ OpenTest(scan[k])
  BY DEF IInv, ScanIInv, ScanTypeOK, RunnersOwn, ClosedTestHasOutcome, OpenTest

\* A runner that changes its place only.
LEMMA RunnerGoesInv ==
  ASSUME IInv, UNCHANGED <<gates, up, trigger, sweep, faults, scan>>,
         NEW k \in Attempt, runner[k] \notin {"none", "closing"},
         NEW pc \in RunnerPc \ {"none", "closing"}, RunnerGoes(k, pc)
  PROVE  IInv'
  BY RunnerMoves, RunnerHolds DEF RunnerGoes

\* A runner that gives its job a status on the way.
LEMMA JobBecomesInv ==
  ASSUME IInv, UNCHANGED <<gates, up, trigger, sweep, faults>>,
         NEW k \in Attempt, runner[k] \notin {"none", "closing"},
         NEW pc \in RunnerPc \ {"none"}, RunnerGoes(k, pc),
         NEW status \in Active \cup Terminal, JobBecomes(k, status),
         IF pc = "closing" THEN status \in Terminal ELSE status \in Active
  PROVE  IInv'
<1> DEFINE row == [scan[k] EXCEPT !.job = status]
<1>1. scan' = [scan EXCEPT ![k] = row]  BY DEF JobBecomes
<1>2. scan[k] \in ScanRow /\ OpenTest(scan[k]) /\ faults' \in 0..MaxFaults
  BY RunnerHolds
<1>3. /\ row \in ScanRow /\ row.asset = scan[k].asset /\ row.job = status
      /\ OpenTest(row) /\ row.test # "none" /\ (row.test = "COMPLETE" => row.edited)
  BY <1>2 DEF ScanRow, OpenTest
<1> HIDE DEF row
<1>4. QED  BY <1>1, <1>2, <1>3, RunnerMoves DEF RunnerGoes

LEMMA RunnerStepInv == ASSUME IInv, NEW k \in Attempt, RunnerStep(k) PROVE IInv'
<1> USE DEF RunnerPc, Active, Terminal
<1>1. CASE RunnerLoad(k)  BY <1>1, RunnerGoesInv DEF RunnerLoad
<1>2. CASE RunnerPrepare(k)
  <2>1. CASE RunnerGoes(k, "scanning") /\ JobBecomes(k, "RUNNING")
    BY <1>2, <2>1, JobBecomesInv DEF RunnerPrepare
  <2>2. CASE RunnerGoes(k, "failing") /\ UNCHANGED scan
    BY <1>2, <2>2, RunnerGoesInv DEF RunnerPrepare
  <2>3. QED  BY <1>2, <2>1, <2>2 DEF RunnerPrepare
<1>3. CASE RunnerScan(k)  BY <1>3, RunnerGoesInv DEF RunnerScan
<1>4. CASE RunnerImport(k)
  <2>1. PICK found \in BOOLEAN : scan' = [scan EXCEPT ![k].findings = found]
    BY <1>4 DEF RunnerImport
  <2> DEFINE row == [scan[k] EXCEPT !.findings = found]
  <2>2. runner[k] \notin {"none", "closing"}  BY <1>4 DEF RunnerImport
  <2>3. /\ scan[k] \in ScanRow /\ faults \in 0..MaxFaults
        /\ scan[k].job \in Active /\ OpenTest(scan[k])
    BY <2>2, RunnerHolds
  <2>4. /\ row \in ScanRow /\ row.asset = scan[k].asset
        /\ row.job \in Active
        /\ OpenTest(row) /\ row.test # "none" /\ (row.test = "COMPLETE" => row.edited)
    BY <2>3 DEF ScanRow, OpenTest
  <2>5. scan' = [scan EXCEPT ![k] = row]  BY <2>1
  <2>6. PICK pc \in {"completing", "failing"} : runner' = [runner EXCEPT ![k] = pc]
    BY <1>4 DEF RunnerImport, RunnerGoes
  <2>7. UNCHANGED <<gates, up, trigger, sweep, faults>>  BY <1>4 DEF RunnerImport
  <2> HIDE DEF row
  <2>8. QED  BY <2>2, <2>3, <2>4, <2>5, <2>6, <2>7, RunnerMoves
<1>5. CASE RunnerComplete(k)
  <2>1. CASE RunnerGoes(k, "closing") /\ JobBecomes(k, "COMPLETE")
    BY <1>5, <2>1, JobBecomesInv DEF RunnerComplete
  <2>2. CASE RunnerGoes(k, "failing") /\ UNCHANGED scan
    BY <1>5, <2>2, RunnerGoesInv DEF RunnerComplete
  <2>3. QED  BY <1>5, <2>1, <2>2 DEF RunnerComplete
<1>6. CASE RunnerFail(k)  BY <1>6, JobBecomesInv DEF RunnerFail
<1>7. CASE RunnerClose(k)
  <2> DEFINE row == [scan[k] EXCEPT !.test = "COMPLETE"]
  <2>1. runner[k] = "closing" /\ UNCHANGED <<gates, up, trigger, sweep, faults>>
    BY <1>7 DEF RunnerClose
  <2>2. scan[k] \in ScanRow /\ faults \in 0..MaxFaults /\ scan[k].job \in Terminal
    BY <2>1, RunnerHolds
  <2>3. row \in ScanRow /\ row.asset = scan[k].asset /\ row.job = scan[k].job
          /\ row.test = "COMPLETE"
    BY <2>2 DEF ScanRow
  <2>4. scan' = [scan EXCEPT ![k] = row] /\ runner' = [runner EXCEPT ![k] = "none"]
    BY <1>7 DEF RunnerClose, RunnerGoes
  <2> HIDE DEF row
  <2>5. QED  BY <2>1, <2>2, <2>3, <2>4, RunnerMoves
<1>8. QED  BY <1>1, <1>2, <1>3, <1>4, <1>5, <1>6, <1>7 DEF RunnerStep

LEMMA RunnerFaultInv == ASSUME IInv, NEW k \in Attempt, RunnerFault(k) PROVE IInv'
<1>1. /\ runner[k] # "none" /\ runner' = [runner EXCEPT ![k] = "none"]
      /\ UNCHANGED <<gates, up, scan, trigger, sweep>>
  BY DEF RunnerFault, RunnerGoes
<1>2. faults' \in 0..MaxFaults /\ faults' # 0
  BY ScanAssumption DEF RunnerFault, IInv, ScanIInv, ScanTypeOK
<1>3. QED  BY <1>1, <1>2, RunnerHolds, RunnerMoves DEF RunnerPc

(***************************************************************************)
(* Steps of the process                                                    *)
(***************************************************************************)
LEMMA CrashInv == ASSUME IInv, Crash PROVE IInv'
<1> USE DEF IInv, ScanIInv
<1>1. AuthIInv' /\ VerIInv'  BY AuthCrashInv, VerCrashInv DEF Crash
<1>2. ScanTypeOK'
  <2>1. IdleTrigger \in TriggerState /\ IdleSweep \in SweepState /\ "none" \in RunnerPc
    BY ScanAssumption DEF TriggerState, SweepState, RunnerPc, IdleTrigger, IdleSweep
  <2>2. QED  BY <2>1 DEF Crash, ScanTypeOK
<1>3. ScansEvident'  BY EvidentStays DEF Crash, ScansEvident
<1>4. TriggersEvident' /\ SweepsEvident' /\ SweepsUnderCap' /\ DownIsIdle'
  BY DEF Crash, TriggersEvident, SweepsEvident, SweepsUnderCap, DownIsIdle, IdleTrigger,
         IdleSweep, Trigger
<1>5. TriggersOwn' /\ RunnersOwn'  BY DEF Crash, TriggersOwn, RunnersOwn, IdleTrigger
<1>6. ClosedTestHasOutcome' /\ LiveJobHasOwner'
  BY DEF Crash, ClosedTestHasOutcome, LiveJobHasOwner
<1>7. QED  BY <1>1, <1>2, <1>3, <1>4, <1>5, <1>6

\* A restart, whatever it did to the jobs: rows keep everything but their job,
\* and a job that ended keeps its outcome.
LEMMA RestartInv ==
  ASSUME IInv, ~up, up' = TRUE, UNCHANGED <<gates, runner, trigger, sweep>>,
         scan' \in [Attempt -> ScanRow],
         \A k \in Attempt :
           /\ scan'[k].asset = scan[k].asset
           /\ scan'[k].test = scan[k].test
           /\ scan'[k].edited = scan[k].edited
           /\ scan[k].job \in Terminal => scan'[k].job \in Terminal,
         faults' \in 0..MaxFaults,
         faults' = 0 => \A k \in Attempt : scan'[k].job \notin Active
  PROVE  IInv'
<1> USE DEF IInv, ScanIInv
<1>1. AuthIInv' /\ VerIInv' /\ \A b : Evident(b)' <=> Evident(b)  BY GatesUnchanged
<1>2. \A p \in Trigger : trigger[p].pc = "idle" /\ trigger[p].attempt = NoAttempt
  BY DEF DownIsIdle, TriggersOwn
<1>3. \A k \in Attempt : runner[k] = "none"  BY DEF DownIsIdle
<1>4. ScanTypeOK'  BY DEF ScanTypeOK
<1>5. ScansEvident' /\ TriggersEvident' /\ SweepsEvident' /\ SweepsUnderCap'
  BY <1>1 DEF ScansEvident, TriggersEvident, SweepsEvident, SweepsUnderCap
<1>6. TriggersOwn' /\ RunnersOwn' /\ DownIsIdle'
  BY <1>2, <1>3 DEF TriggersOwn, RunnersOwn, DownIsIdle
<1>7. ClosedTestHasOutcome' /\ LiveJobHasOwner'
  BY DEF ClosedTestHasOutcome, LiveJobHasOwner
<1>8. QED  BY <1>1, <1>4, <1>5, <1>6, <1>7

LEMMA BootInv == ASSUME IInv, Boot PROVE IInv'
<1>1. ScanTypeOK  BY DEF IInv, ScanIInv
<1>2. \A k \in Attempt :
        /\ Swept(scan[k]) \in ScanRow
        /\ Swept(scan[k]).asset = scan[k].asset
        /\ Swept(scan[k]).test = scan[k].test
        /\ Swept(scan[k]).edited = scan[k].edited
        /\ Swept(scan[k]).job \notin Active
        /\ scan[k].job \in Terminal => Swept(scan[k]).job \in Terminal
  BY <1>1 DEF ScanTypeOK, ScanRow, Swept, Active, Terminal
<1>3. scan' = [k \in Attempt |-> Swept(scan[k])]  BY DEF Boot
<1>4. QED  BY <1>1, <1>2, <1>3, RestartInv DEF Boot, ScanTypeOK

LEMMA BootFaultInv == ASSUME IInv, BootFault PROVE IInv'
<1>1. ScanTypeOK  BY DEF IInv, ScanIInv
<1>2. faults' \in 0..MaxFaults /\ faults' # 0
  BY <1>1, ScanAssumption DEF BootFault, ScanTypeOK
<1>3. QED  BY <1>1, <1>2, RestartInv DEF BootFault, ScanTypeOK

(***************************************************************************)
(* The invariant and the theorems                                          *)
(***************************************************************************)
LEMMA NextInv == ASSUME IInv, [Next]_vars PROVE IInv'
<1>1. CASE up /\ AuthRequests /\ UNCHANGED <<verVars, scanVars>>
  BY <1>1, GatesStepInv DEF AuthNext
<1>2. CASE up /\ VerRequests /\ UNCHANGED <<authVars, scanVars>>
  BY <1>2, GatesStepInv DEF VerNext
<1>3. CASE (\E v \in Envelope : SignerActs(v)) /\ UNCHANGED <<verVars, scanVars>>
  BY <1>3, GatesStepInv DEF AuthNext
<1>4. CASE OwnerActs /\ UNCHANGED <<authVars, scanVars>>
  BY <1>4, GatesStepInv DEF VerNext
<1>5. CASE \E p \in Admin, a \in Asset : ReadGate(p, a)  BY <1>5, ReadGateInv
<1>6. CASE \E p \in Sweeper : SweepRead(p)  BY <1>6, SweepReadInv
<1>7. ASSUME NEW p \in Trigger, TriggerStep(p) PROVE IInv'
  <2>1. CASE SweepNext(p)  BY <2>1, SweepNextInv DEF SweepNext
  <2>2. CASE SweepEnd(p)  BY <2>2, SweepEndInv DEF SweepEnd
  <2>3. CASE CheckRunning(p)  BY <2>3, CheckRunningInv
  <2>4. CASE CreateTest(p)  BY <2>4, CreateTestInv
  <2>5. CASE CreateJob(p)  BY <2>5, CreateJobInv
  <2>6. CASE Launch(p)  BY <2>6, LaunchInv
  <2>7. QED  BY <1>7, <2>1, <2>2, <2>3, <2>4, <2>5, <2>6 DEF TriggerStep
<1>8. CASE \E p \in Trigger : TriggerFault(p)  BY <1>8, TriggerFaultInv
<1>9. CASE \E k \in Attempt : RunnerStep(k) \/ RunnerFault(k)
  BY <1>9, RunnerStepInv, RunnerFaultInv
<1>10. CASE Crash \/ Boot \/ BootFault  BY <1>10, CrashInv, BootInv, BootFaultInv
<1>11. CASE UNCHANGED vars  BY <1>11, GatesStepInv DEF vars
<1>12. CASE \E k \in Attempt, status \in TestStatus : PatchTest(k, status)
  BY <1>12, PatchTestInv
<1>13. QED
  BY <1>1, <1>2, <1>3, <1>4, <1>5, <1>6, <1>7, <1>8, <1>9, <1>10, <1>11, <1>12 DEF Next

LEMMA Invariance == Spec => []IInv
<1>1. Init => IInv  BY InitInv
<1>2. IInv /\ [Next]_vars => IInv'  BY NextInv
<1>3. QED  BY <1>1, <1>2, PTL DEF Spec

\* The rows, requests and counters of the composed system are well formed; the
\* sweep never counts past its cap.
THEOREM ScansTyped == Spec => []TypeOK
<1>1. IInv => TypeOK
  BY DEF IInv, AuthIInv, VerIInv, ScanIInv, TypeOK
<1>2. QED  BY <1>1, Invariance, PTL

\* No Test exists on an engagement that is not authorized.
THEOREM NoTestBeforeAuthorization == Spec => []TestNeedsAuthorization
<1>1. IInv => TestNeedsAuthorization
  BY DEF IInv, ScanIInv, ScansEvident, Evident, TestNeedsAuthorization
<1>2. QED  BY <1>1, Invariance, PTL

\* Every scan has the evidence behind both gates.
THEOREM ScansHaveEvidence == Spec => []ScanHasEvidence
<1>1. IInv => ScanHasEvidence
  <2> SUFFICES ASSUME IInv, NEW k \in Attempt, scan[k].test # "none"
               PROVE  LET a == scan[k].asset  e == EngagementOf[a]
                      IN  /\ a \in justified \/ ControlShown(a)
                          /\ e \in attested \/ ProviderConfirmed(e)
    BY DEF ScanHasEvidence
  <2>1. Evident(scan[k].asset)  BY DEF IInv, ScanIInv, ScansEvident
  <2>2. EngagementOf[scan[k].asset] \in Engagement  BY <2>1, ScanAssumption DEF Evident
  <2>3. QED  BY <2>1, <2>2 DEF Evident, IInv, AuthIInv, SignedNeedsEvidence
<1>2. QED  BY <1>1, Invariance, PTL

\* A closed Test has a job with an outcome.
THEOREM ClosedTestsHaveOutcomes == Spec => []ClosedTestHasOutcome
<1>1. IInv => ClosedTestHasOutcome  BY DEF IInv, ScanIInv
<1>2. QED  BY <1>1, Invariance, PTL

\* While the database answers, no job blocks its asset without an owner.
THEOREM LiveJobsHaveOwners == Spec => []LiveJobHasOwner
<1>1. IInv => LiveJobHasOwner  BY DEF IInv, ScanIInv
<1>2. QED  BY <1>1, Invariance, PTL

\* No step changes an outcome: only a live job has a runner, and the boot sweep
\* leaves ended jobs alone.
THEOREM OutcomesAreFinal == Spec => OutcomeIsFinal
<1>1. ASSUME IInv, [Next]_vars, NEW k \in Attempt, scan[k].job \in Terminal
      PROVE  scan'[k].job \in {scan[k].job, "none"}
  <2>1. ScanTypeOK /\ TriggersOwn /\ RunnersOwn  BY <1>1 DEF IInv, ScanIInv
  <2>2. CASE UNCHANGED scan  BY <2>2
  <2>3. CASE \E p \in Trigger : CreateTest(p)
    BY <1>1, <2>1, <2>3 DEF CreateTest, ScanTypeOK, NoScan
  <2>4. CASE \E p \in Trigger : CreateJob(p)
    BY <1>1, <2>1, <2>4, ScanAssumption DEF CreateJob, ScanTypeOK, TriggersOwn, Terminal
  <2>5. CASE \E l \in Attempt : RunnerStep(l)
    <3>1. PICK l \in Attempt : RunnerStep(l)  BY <2>5
    <3>2. l = k => runner[l] = "closing" \/ runner[l] = "none"
      BY <1>1, <2>1 DEF RunnersOwn, Active, Terminal
    <3>3. CASE l # k
      BY <3>1, <3>3, <2>1
      DEF RunnerStep, RunnerLoad, RunnerPrepare, RunnerScan, RunnerImport, RunnerComplete,
          RunnerFail, RunnerClose, JobBecomes, ScanTypeOK
    <3>4. CASE l = k
      <4>1. RunnerClose(l)
        BY <3>1, <3>2, <3>4
        DEF RunnerStep, RunnerLoad, RunnerPrepare, RunnerScan, RunnerImport, RunnerComplete,
            RunnerFail
      <4>2. QED  BY <4>1, <2>1 DEF RunnerClose, ScanTypeOK, ScanRow
    <3>5. QED  BY <3>3, <3>4
  <2>6. CASE Boot  BY <1>1, <2>1, <2>6 DEF Boot, Swept, ScanTypeOK, Active, Terminal
  <2>7. CASE \E l \in Attempt, status \in TestStatus : PatchTest(l, status)
    BY <2>1, <2>7 DEF PatchTest, ScanTypeOK
  <2>8. QED
    BY <1>1, <2>2, <2>3, <2>4, <2>5, <2>6, <2>7
    DEF Next, vars, scanVars, ReadGate, SweepRead, TriggerStep, SweepNext, SweepEnd,
        CheckRunning, Launch, TriggerFault, RunnerFault, Crash, BootFault
<1>2. IInv /\ [Next]_vars =>
        [\A k \in Attempt :
           scan[k].job \in Terminal => scan'[k].job \in {scan[k].job, "none"}]_vars
  BY <1>1
<1>3. QED  BY <1>2, Invariance, PTL DEF Spec, OutcomeIsFinal

(***************************************************************************)
(* How many scans of one asset can run.  POST .../scan and the sweep look  *)
(* for a running job and create one two awaits later: a request that found *)
(* none holds a place until its job is there, and jobs and places together *)
(* are at most as many as the requests.                                    *)
(***************************************************************************)
ActiveOn(a) == {k \in Attempt : scan[k].asset = a /\ scan[k].job \in Active}
Places == {"clear", "tested"}
PlacesOn(a) == {p \in Trigger : trigger[p].asset = a /\ trigger[p].pc \in Places}

\* The attempt of a request is one on its asset.
AttemptsOnAsset ==
  \A p \in Trigger :
    trigger[p].attempt # NoAttempt => scan[trigger[p].attempt].asset = trigger[p].asset

Room(a) ==
  IsFiniteSet(ActiveOn(a)) /\ Cardinality(ActiveOn(a)) + Cardinality(PlacesOn(a)) <= Cardinality(Trigger)

RacesIInv == AttemptsOnAsset /\ \A a \in Asset : Room(a)

\* What the check for a running job does guarantee: no more scans of one asset
\* run at once than there are requests and sweeps at work together.
ConcurrentScansBounded ==
  \A a \in Asset : IsFiniteSet(ActiveOn(a)) /\ Cardinality(ActiveOn(a)) <= Cardinality(Trigger)

\* No step but the two below gives an asset a job or a request a place.
NoNewJob ==
  \A k \in Attempt :
    scan'[k].job \in Active => scan[k].job \in Active /\ scan'[k].asset = scan[k].asset
NoNewPlace ==
  \A p \in Trigger :
    trigger'[p].pc \in Places => trigger[p].pc \in Places /\ trigger'[p].asset = trigger[p].asset

LEMMA RoomStays ==
  ASSUME IsFiniteSet(Trigger), NEW a \in Asset, Room(a), NoNewJob, NoNewPlace
  PROVE  Room(a)'
<1>1. ActiveOn(a)' \subseteq ActiveOn(a) /\ PlacesOn(a)' \subseteq PlacesOn(a)
  BY DEF NoNewJob, NoNewPlace, ActiveOn, PlacesOn
<1>2. IsFiniteSet(ActiveOn(a)) /\ IsFiniteSet(PlacesOn(a))
  <2>1. PlacesOn(a) \subseteq Trigger  BY DEF PlacesOn
  <2> QED  BY <2>1, FS_Subset DEF Room
<1>3. /\ IsFiniteSet(ActiveOn(a)')
      /\ Cardinality(ActiveOn(a)') \in Nat /\ Cardinality(ActiveOn(a)) \in Nat
      /\ Cardinality(PlacesOn(a)') \in Nat /\ Cardinality(PlacesOn(a)) \in Nat
      /\ Cardinality(ActiveOn(a)') <= Cardinality(ActiveOn(a))
      /\ Cardinality(PlacesOn(a)') <= Cardinality(PlacesOn(a))
  BY <1>1, <1>2, FS_Subset, FS_CardinalityType
<1>4. Cardinality(Trigger) \in Nat  BY FS_CardinalityType
<1> QED  BY <1>3, <1>4 DEF Room

\* Attempts keep their assets, and a request that has an attempt keeps both.
LEMMA AttemptsStayOnAsset ==
  ASSUME IInv, AttemptsOnAsset,
         \A p \in Trigger : \/ trigger'[p].attempt = NoAttempt
                            \/ /\ trigger'[p].attempt = trigger[p].attempt
                               /\ trigger'[p].asset = trigger[p].asset
                               /\ scan'[trigger[p].attempt].asset = scan[trigger[p].attempt].asset
  PROVE  AttemptsOnAsset'
  BY DEF AttemptsOnAsset

\* The check that finds no running job gives one request a place.
LEMMA CheckRunningRoom ==
  ASSUME IsFiniteSet(Trigger), IInv, RacesIInv, NEW p \in Trigger, CheckRunning(p)
  PROVE  RacesIInv'
<1>1. /\ trigger[p].attempt = NoAttempt /\ trigger[p].pc = "gated" /\ UNCHANGED scan
      /\ trigger \in [Trigger -> TriggerState]
  BY NoAttemptYet DEF CheckRunning, IInv, ScanIInv, ScanTypeOK
<1>2. /\ \A q \in Trigger \ {p} : trigger'[q] = trigger[q]
      /\ trigger'[p].attempt = NoAttempt
      /\ \/ trigger'[p].pc \notin Places
         \/ trigger'[p].asset = trigger[p].asset /\ ~AlreadyRunning(trigger[p].asset)
  <2>1. CASE AlreadyRunning(trigger[p].asset)
    BY <1>1, <2>1 DEF CheckRunning, AssetDone, IdleTrigger, Places
  <2>2. CASE ~AlreadyRunning(trigger[p].asset)
    BY <1>1, <2>2 DEF CheckRunning, TriggerState
  <2> QED  BY <2>1, <2>2
<1>3. AttemptsOnAsset'
  BY <1>1, <1>2, AttemptsStayOnAsset DEF RacesIInv
<1>4. ASSUME NEW a \in Asset
      PROVE  Room(a)'
  <2>1. NoNewJob  BY <1>1 DEF NoNewJob
  <2>2. CASE NoNewPlace
    BY <2>1, <2>2, RoomStays DEF RacesIInv
  <2>3. CASE ~NoNewPlace
    <3>1. trigger'[p].asset = trigger[p].asset /\ ~AlreadyRunning(trigger[p].asset)
      BY <1>2, <2>3 DEF NoNewPlace
    <3>2. CASE a = trigger[p].asset
      <4>1. ActiveOn(a)' = {}
        BY <1>1, <3>1, <3>2 DEF AlreadyRunning, ActiveOn
      <4>2. IsFiniteSet(ActiveOn(a)') /\ Cardinality(ActiveOn(a)') = 0
        BY <4>1, FS_EmptySet
      <4>3. PlacesOn(a)' \subseteq Trigger
        BY DEF PlacesOn
      <4>4. /\ Cardinality(PlacesOn(a)') \in Nat /\ Cardinality(Trigger) \in Nat
            /\ Cardinality(PlacesOn(a)') <= Cardinality(Trigger)
        BY <4>3, FS_Subset, FS_CardinalityType
      <4> QED  BY <4>2, <4>4 DEF Room
    <3>3. CASE a # trigger[p].asset
      <4>1. ActiveOn(a)' = ActiveOn(a)
        BY <1>1 DEF ActiveOn
      <4>2. PlacesOn(a)' = PlacesOn(a)
        BY <1>1, <1>2, <3>1, <3>3 DEF PlacesOn, Places
      <4> QED  BY <4>1, <4>2 DEF Room, RacesIInv
    <3> QED  BY <3>2, <3>3
  <2> QED  BY <2>2, <2>3
<1> QED  BY <1>3, <1>4 DEF RacesIInv

\* The place becomes the job.
LEMMA CreateJobRoom ==
  ASSUME IsFiniteSet(Trigger), IInv, RacesIInv, NEW p \in Trigger, CreateJob(p)
  PROVE  RacesIInv'
<1> DEFINE k == trigger[p].attempt
<1>1. /\ trigger[p].pc = "tested" /\ k # NoAttempt
      /\ trigger \in [Trigger -> TriggerState] /\ scan \in [Attempt -> ScanRow]
  BY DEF CreateJob, IInv, ScanIInv, ScanTypeOK, TriggersOwn
<1>2. k \in Attempt /\ scan[k].job = "none" /\ scan[k].asset = trigger[p].asset
  BY <1>1 DEF IInv, ScanIInv, TriggersOwn, TriggerState, RacesIInv, AttemptsOnAsset
<1>3. /\ \A q \in Trigger \ {p} : trigger'[q] = trigger[q]
      /\ trigger'[p].attempt = k /\ trigger'[p].asset = trigger[p].asset
      /\ trigger'[p].pc = "queued"
      /\ \A l \in Attempt \ {k} : scan'[l] = scan[l]
      /\ scan'[k].asset = scan[k].asset
  BY <1>1, <1>2 DEF CreateJob, TriggerState, ScanRow
<1>4. AttemptsOnAsset'
  <2>1. \A l \in Attempt : scan'[l].asset = scan[l].asset
    BY <1>3
  <2>2. \A q \in Trigger : trigger[q].attempt # NoAttempt => trigger[q].attempt \in Attempt
    BY <1>1 DEF TriggerState
  <2> QED  BY <1>3, <2>1, <2>2, AttemptsStayOnAsset DEF RacesIInv
<1> HIDE DEF k
<1>5. ASSUME NEW a \in Asset
      PROVE  Room(a)'
  <2>0. Room(a)  BY DEF RacesIInv
  <2>1. CASE a # trigger[p].asset
    <3>1. ActiveOn(a)' = ActiveOn(a)
      BY <1>2, <1>3, <2>1 DEF ActiveOn
    <3>2. PlacesOn(a)' = PlacesOn(a)
      BY <1>3, <2>1 DEF PlacesOn
    <3> QED  BY <2>0, <3>1, <3>2 DEF Room
  <2>2. CASE a = trigger[p].asset
    <3>1. ActiveOn(a)' \subseteq ActiveOn(a) \cup {k} /\ k \notin ActiveOn(a)
      BY <1>2, <1>3 DEF ActiveOn, Active
    <3>2. PlacesOn(a)' = PlacesOn(a) \ {p} /\ p \in PlacesOn(a) /\ PlacesOn(a) \subseteq Trigger
      BY <1>1, <1>3, <2>2 DEF PlacesOn, Places
    <3>3. IsFiniteSet(PlacesOn(a)) /\ IsFiniteSet(ActiveOn(a))
      BY <2>0, <3>2, FS_Subset DEF Room
    <3>4. /\ IsFiniteSet(ActiveOn(a) \cup {k})
          /\ Cardinality(ActiveOn(a) \cup {k}) = Cardinality(ActiveOn(a)) + 1
      BY <3>1, <3>3, FS_AddElement
    <3>5. /\ IsFiniteSet(ActiveOn(a)')
          /\ Cardinality(ActiveOn(a)') <= Cardinality(ActiveOn(a)) + 1
      BY <3>1, <3>4, FS_Subset
    <3>6. Cardinality(PlacesOn(a)') = Cardinality(PlacesOn(a)) - 1
      BY <3>2, <3>3, FS_RemoveElement
    <3>7. /\ Cardinality(ActiveOn(a)') \in Nat /\ Cardinality(ActiveOn(a)) \in Nat
          /\ Cardinality(PlacesOn(a)) \in Nat /\ Cardinality(Trigger) \in Nat
      BY <3>3, <3>5, FS_CardinalityType
    <3> QED  BY <2>0, <3>5, <3>6, <3>7 DEF Room
  <2> QED  BY <2>1, <2>2
<1> QED  BY <1>4, <1>5 DEF RacesIInv

\* A step that makes no job, opens no place and keeps the attempts on their
\* assets.
Calm ==
  /\ NoNewJob /\ NoNewPlace
  /\ \A p \in Trigger : \/ trigger'[p].attempt = NoAttempt
                        \/ /\ trigger'[p].attempt = trigger[p].attempt
                           /\ trigger'[p].asset = trigger[p].asset
                           /\ scan'[trigger[p].attempt].asset = scan[trigger[p].attempt].asset

LEMMA CalmRoom == ASSUME IsFiniteSet(Trigger), IInv, RacesIInv, Calm PROVE RacesIInv'
<1>1. AttemptsOnAsset'  BY AttemptsStayOnAsset DEF Calm, RacesIInv
<1>2. \A a \in Asset : Room(a)'  BY RoomStays DEF Calm, RacesIInv
<1> QED  BY <1>1, <1>2 DEF RacesIInv

\* A request steps to a place of the code where it holds no attempt.
LEMMA TriggerCalm ==
  ASSUME IInv, UNCHANGED scan, NEW p \in Trigger, NEW t,
         trigger' = [trigger EXCEPT ![p] = t], t.attempt = NoAttempt, t.pc \notin Places
  PROVE  Calm
<1>1. \A q \in Trigger : trigger'[q] = IF q = p THEN t ELSE trigger[q]
  BY DEF IInv, ScanIInv, ScanTypeOK
<1> QED  BY <1>1 DEF Calm, NoNewJob, NoNewPlace

LEMMA SweepsAndGatesCalm ==
  ASSUME IInv,
         \/ \E p \in Admin, a \in Asset : ReadGate(p, a)
         \/ \E p \in Sweeper : SweepRead(p) \/ SweepNext(p) \/ SweepEnd(p)
         \/ \E p \in Trigger : Launch(p) \/ TriggerFault(p)
  PROVE  Calm
<1> USE DEF Places
<1>0. trigger \in [Trigger -> TriggerState] /\ Admin \cup Sweeper = Trigger
  BY DEF IInv, ScanIInv, ScanTypeOK, Trigger
<1>1. ASSUME NEW p \in Admin, NEW a \in Asset, ReadGate(p, a) PROVE Calm
  <2> DEFINE t == [IdleTrigger EXCEPT !.pc = "gated", !.asset = a]
  <2>1. t.attempt = NoAttempt /\ t.pc = "gated"  BY DEF IdleTrigger
  <2>2. trigger' = [trigger EXCEPT ![p] = t] /\ UNCHANGED scan  BY <1>1 DEF ReadGate
  <2> HIDE DEF t
  <2> QED  BY <1>0, <2>1, <2>2, TriggerCalm
<1>2. ASSUME NEW p \in Sweeper, SweepRead(p) PROVE Calm
  <2> DEFINE t == [trigger[p] EXCEPT !.pc = "next"]
  <2>1. trigger[p].attempt = NoAttempt  BY <1>0, <1>2, NoAttemptYet DEF SweepRead
  <2>2. t.attempt = NoAttempt /\ t.pc = "next"  BY <1>0, <2>1 DEF TriggerState
  <2>3. trigger' = [trigger EXCEPT ![p] = t] /\ UNCHANGED scan  BY <1>2 DEF SweepRead
  <2> HIDE DEF t
  <2> QED  BY <1>0, <2>2, <2>3, TriggerCalm
<1>3. ASSUME NEW p \in Sweeper, SweepNext(p) PROVE Calm
  <2>1. PICK a : trigger' = [trigger EXCEPT ![p] = [@ EXCEPT !.pc = "gated", !.asset = a]]
    BY <1>3 DEF SweepNext
  <2> DEFINE t == [trigger[p] EXCEPT !.pc = "gated", !.asset = a]
  <2>2. trigger[p].attempt = NoAttempt  BY <1>0, <1>3, NoAttemptYet DEF SweepNext
  <2>3. t.attempt = NoAttempt /\ t.pc = "gated"  BY <1>0, <2>2 DEF TriggerState
  <2>4. trigger' = [trigger EXCEPT ![p] = t] /\ UNCHANGED scan  BY <1>0, <1>3, <2>1 DEF SweepNext
  <2> HIDE DEF t
  <2> QED  BY <1>0, <2>3, <2>4, TriggerCalm
<1>4. ASSUME NEW p \in Sweeper, SweepEnd(p) PROVE Calm
  <2>1. IdleTrigger.attempt = NoAttempt /\ IdleTrigger.pc = "idle"  BY DEF IdleTrigger
  <2> QED  BY <1>0, <1>4, <2>1, TriggerCalm DEF SweepEnd
<1>5. ASSUME NEW p \in Trigger, Launch(p) PROVE Calm
  <2> DEFINE t == IF p \in Sweeper THEN [IdleTrigger EXCEPT !.pc = "next"] ELSE IdleTrigger
  <2>1. t.attempt = NoAttempt /\ t.pc \in {"next", "idle"}  BY DEF IdleTrigger
  <2>2. trigger' = [trigger EXCEPT ![p] = t] /\ UNCHANGED scan  BY <1>5 DEF Launch, AssetDone
  <2> HIDE DEF t
  <2> QED  BY <2>1, <2>2, TriggerCalm
<1>6. ASSUME NEW p \in Trigger, TriggerFault(p) PROVE Calm
  <2>1. IdleTrigger.attempt = NoAttempt /\ IdleTrigger.pc = "idle"  BY DEF IdleTrigger
  <2> QED  BY <1>6, <2>1, TriggerCalm DEF TriggerFault
<1> QED  BY <1>1, <1>2, <1>3, <1>4, <1>5, <1>6

\* The Test comes before the job: its attempt has none yet.  The request that
\* creates it had its place already.
LEMMA CreateTestRoom ==
  ASSUME IsFiniteSet(Trigger), IInv, RacesIInv, NEW p \in Trigger, CreateTest(p)
  PROVE  RacesIInv'
<1>1. PICK k \in Attempt :
        /\ Unused(k)
        /\ scan' = [scan EXCEPT ![k] = [NoScan EXCEPT !.asset = trigger[p].asset,
                                                      !.test = "IN_PROGRESS"]]
        /\ trigger' = [trigger EXCEPT ![p] = [@ EXCEPT !.pc = "tested", !.attempt = k]]
  BY DEF CreateTest
<1>2. /\ trigger[p].pc = "clear"
      /\ trigger \in [Trigger -> TriggerState] /\ scan \in [Attempt -> ScanRow]
  BY DEF CreateTest, IInv, ScanIInv, ScanTypeOK
<1>3. /\ \A q \in Trigger \ {p} : trigger'[q] = trigger[q]
      /\ trigger'[p].attempt = k /\ trigger'[p].asset = trigger[p].asset
      /\ trigger'[p].pc = "tested"
      /\ \A l \in Attempt \ {k} : scan'[l] = scan[l]
      /\ scan'[k].asset = trigger[p].asset /\ scan'[k].job = "none"
  BY <1>1, <1>2 DEF TriggerState, NoScan
<1>4. AttemptsOnAsset'
  <2>1. ASSUME NEW q \in Trigger \ {p}, trigger[q].attempt # NoAttempt
        PROVE  scan'[trigger[q].attempt].asset = trigger[q].asset
    <3>1. trigger[q].attempt \in Attempt \ {k}
      BY <1>1, <1>2, <2>1 DEF Unused, TriggerState
    <3> QED  BY <1>3, <2>1, <3>1 DEF RacesIInv, AttemptsOnAsset
  <2> QED  BY <1>3, <2>1 DEF AttemptsOnAsset
<1>5. NoNewJob  BY <1>3 DEF NoNewJob, Active
<1>6. NoNewPlace  BY <1>2, <1>3 DEF NoNewPlace, Places
<1>7. \A a \in Asset : Room(a)'  BY <1>5, <1>6, RoomStays DEF RacesIInv
<1> QED  BY <1>4, <1>7 DEF RacesIInv

\* A row keeps its asset, and gets no job.
LEMMA RowsCalm ==
  ASSUME IInv,
         UNCHANGED trigger \/ trigger' = [p \in Trigger |-> IdleTrigger],
         \A k \in Attempt : /\ scan'[k].asset = scan[k].asset
                            /\ scan'[k].job \in Active => scan[k].job \in Active
  PROVE  Calm
<1>1. NoNewJob  BY DEF NoNewJob
<1>2. \A p \in Trigger : trigger[p].attempt \in Attempt \cup {NoAttempt}
  BY DEF IInv, ScanIInv, ScanTypeOK, TriggerState
<1>3. CASE UNCHANGED trigger
  BY <1>1, <1>2, <1>3 DEF Calm, NoNewPlace
<1>4. CASE trigger' = [p \in Trigger |-> IdleTrigger]
  BY <1>1, <1>4 DEF Calm, NoNewPlace, IdleTrigger, Places
<1> QED  BY <1>3, <1>4

LEMMA RunnerCalm ==
  ASSUME IInv, NEW k \in Attempt, RunnerStep(k) \/ RunnerFault(k)
  PROVE  Calm
<1>0. scan \in [Attempt -> ScanRow] /\ UNCHANGED trigger
  BY DEF IInv, ScanIInv, ScanTypeOK, RunnerStep, RunnerFault, RunnerLoad, RunnerPrepare, RunnerScan,
         RunnerImport, RunnerComplete, RunnerFail, RunnerClose
<1>1. runner[k] \notin {"none", "closing"} => scan[k].job \in Active
  BY DEF IInv, ScanIInv, RunnersOwn
<1>2. \/ UNCHANGED scan
      \/ /\ runner[k] \notin {"none", "closing"}
         /\ \E status \in Active \cup Terminal : JobBecomes(k, status)
      \/ \E found : scan' = [scan EXCEPT ![k].findings = found]
      \/ scan' = [scan EXCEPT ![k].test = "COMPLETE"]
  <2>1. CASE RunnerFault(k)  BY <2>1 DEF RunnerFault
  <2>2. CASE RunnerLoad(k) \/ RunnerScan(k)  BY <2>2 DEF RunnerLoad, RunnerScan
  <2>3. CASE RunnerPrepare(k)  BY <2>3 DEF RunnerPrepare, Active
  <2>4. CASE RunnerImport(k)  BY <2>4 DEF RunnerImport
  <2>5. CASE RunnerComplete(k)  BY <2>5 DEF RunnerComplete, Terminal
  <2>6. CASE RunnerFail(k)  BY <2>6 DEF RunnerFail, Terminal
  <2>7. CASE RunnerClose(k)  BY <2>7 DEF RunnerClose
  <2> QED  BY <2>1, <2>2, <2>3, <2>4, <2>5, <2>6, <2>7 DEF RunnerStep
<1>3. \A l \in Attempt : /\ scan'[l].asset = scan[l].asset
                         /\ scan'[l].job \in Active => scan[l].job \in Active
  <2> SUFFICES ASSUME NEW l \in Attempt
               PROVE  /\ scan'[l].asset = scan[l].asset
                      /\ scan'[l].job \in Active => scan[l].job \in Active
    OBVIOUS
  <2>0. scan[k] \in ScanRow  BY <1>0
  <2>1. CASE UNCHANGED scan  BY <2>1
  <2>2. ASSUME runner[k] \notin {"none", "closing"}, NEW status, JobBecomes(k, status)
        PROVE  /\ scan'[l].asset = scan[l].asset
               /\ scan'[l].job \in Active => scan[l].job \in Active
    BY <1>0, <1>1, <2>0, <2>2 DEF JobBecomes, ScanRow
  <2>3. ASSUME NEW found, scan' = [scan EXCEPT ![k].findings = found]
        PROVE  scan'[l].asset = scan[l].asset /\ scan'[l].job = scan[l].job
    BY <1>0, <2>0, <2>3 DEF ScanRow
  <2>4. CASE scan' = [scan EXCEPT ![k].test = "COMPLETE"]
    BY <1>0, <2>0, <2>4 DEF ScanRow
  <2> QED  BY <1>2, <2>1, <2>2, <2>3, <2>4
<1> QED  BY <1>0, <1>3, RowsCalm

LEMMA ProcessCalm ==
  ASSUME IInv,
         Crash \/ Boot \/ BootFault \/ UNCHANGED scanVars
           \/ \E k \in Attempt, status \in TestStatus : PatchTest(k, status)
  PROVE  Calm
<1>0. scan \in [Attempt -> ScanRow]  BY DEF IInv, ScanIInv, ScanTypeOK
<1>1. CASE UNCHANGED scan /\ (UNCHANGED trigger \/ trigger' = [p \in Trigger |-> IdleTrigger])
  BY <1>1, RowsCalm
<1>2. CASE Boot
  <2>1. \A k \in Attempt : /\ scan'[k].asset = scan[k].asset
                           /\ scan'[k].job \in Active => scan[k].job \in Active
    BY <1>0, <1>2 DEF Boot, Swept, ScanRow
  <2> QED  BY <1>2, <2>1, RowsCalm DEF Boot
<1>3. ASSUME NEW k \in Attempt, NEW status \in TestStatus, PatchTest(k, status)
      PROVE  Calm
  <2>1. \A l \in Attempt : scan'[l].asset = scan[l].asset /\ scan'[l].job = scan[l].job
    <3>1. scan' = [scan EXCEPT ![k] = [scan[k] EXCEPT !.test = status, !.edited = TRUE]]
      BY <1>0, <1>3 DEF PatchTest
    <3> QED  BY <1>0, <3>1 DEF ScanRow
  <2> QED  BY <1>3, <2>1, RowsCalm DEF PatchTest
<1> QED  BY <1>1, <1>2, <1>3 DEF Crash, BootFault, scanVars

LEMMA RacesNext ==
  ASSUME IsFiniteSet(Trigger), IInv, RacesIInv, [Next]_vars PROVE RacesIInv'
<1>1. CASE Calm  BY <1>1, CalmRoom
<1>2. ASSUME NEW p \in Trigger, TriggerStep(p) PROVE RacesIInv'
  <2>1. CASE SweepNext(p) \/ SweepEnd(p) \/ Launch(p)
    BY <1>1, <2>1, SweepsAndGatesCalm DEF SweepNext, SweepEnd
  <2> QED  BY <1>2, <2>1, CheckRunningRoom, CreateTestRoom, CreateJobRoom DEF TriggerStep
<1>3. CASE \E k \in Attempt : RunnerStep(k) \/ RunnerFault(k)
  BY <1>1, <1>3, RunnerCalm
<1>4. CASE \/ \E p \in Admin, a \in Asset : ReadGate(p, a)
           \/ \E p \in Sweeper : SweepRead(p)
           \/ \E p \in Trigger : TriggerFault(p)
  BY <1>1, <1>4, SweepsAndGatesCalm
<1>5. CASE Crash \/ Boot \/ BootFault \/ UNCHANGED scanVars
             \/ \E k \in Attempt, status \in TestStatus : PatchTest(k, status)
  BY <1>1, <1>5, ProcessCalm
<1> QED  BY <1>2, <1>3, <1>4, <1>5 DEF Next, vars

LEMMA RacesInit == ASSUME IsFiniteSet(Trigger), Init PROVE RacesIInv
<1>1. AttemptsOnAsset
  BY DEF Init, ScanInit, IdleTrigger, AttemptsOnAsset
<1>2. ASSUME NEW a \in Asset PROVE Room(a)
  <2>1. ActiveOn(a) = {} /\ PlacesOn(a) = {}
    BY DEF Init, ScanInit, IdleTrigger, NoScan, ActiveOn, PlacesOn, Active, Places
  <2>2. /\ IsFiniteSet(ActiveOn(a)) /\ Cardinality(ActiveOn(a)) = 0 /\ Cardinality(PlacesOn(a)) = 0
        /\ Cardinality(Trigger) \in Nat
    BY <2>1, FS_EmptySet, FS_CardinalityType
  <2> QED  BY <2>2 DEF Room
<1> QED  BY <1>1, <1>2 DEF RacesIInv

\* One scan at a time per asset does not hold of the code; this does: the scans
\* that run on one asset at once are at most as many as the requests and sweeps
\* that can be at work together (POST .../scan, scheduled-scans, startScan).
THEOREM ConcurrentScansAreBounded ==
  ASSUME IsFiniteSet(Trigger) PROVE Spec => []ConcurrentScansBounded
<1>1. Init => RacesIInv  BY RacesInit
<1>2. IInv /\ RacesIInv /\ [Next]_vars => RacesIInv'  BY RacesNext
<1>3. RacesIInv => ConcurrentScansBounded
  <2> SUFFICES ASSUME RacesIInv, NEW a \in Asset
               PROVE  IsFiniteSet(ActiveOn(a)) /\ Cardinality(ActiveOn(a)) <= Cardinality(Trigger)
    BY DEF ConcurrentScansBounded
  <2>1. IsFiniteSet(ActiveOn(a)) /\ IsFiniteSet(PlacesOn(a))
    <3>1. PlacesOn(a) \subseteq Trigger  BY DEF PlacesOn
    <3> QED  BY <3>1, FS_Subset DEF RacesIInv, Room
  <2>2. /\ Cardinality(ActiveOn(a)) \in Nat /\ Cardinality(PlacesOn(a)) \in Nat
        /\ Cardinality(Trigger) \in Nat
    BY <2>1, FS_CardinalityType
  <2> QED  BY <2>1, <2>2 DEF RacesIInv, Room
<1>4. QED  BY <1>1, <1>2, <1>3, Invariance, PTL DEF Spec

(***************************************************************************)
(* The gates within the composed system                                    *)
(***************************************************************************)
\* A crash vouches for nobody and opens nothing.
LEMMA GateStepHere ==
  ASSUME IInv, [Next]_vars PROVE [Gate!GateNext]_(Gate!gateVars)
<1>1. CASE [AuthNext]_authVars  BY <1>1, GateStep DEF IInv
<1>2. CASE Crash
  <2>1. Vouched' = Vouched /\ Opened' = Opened
    BY <1>2 DEF Crash, AuthCrash, Vouched, Opened, ProviderConfirmed
  <2> QED  BY <2>1, GateStutters
<1>3. [AuthNext]_authVars \/ Crash
  BY DEF Next, vars, AuthNext, gates, ReadGate, SweepRead, TriggerStep, TriggerFault, SweepNext,
         SweepEnd, CheckRunning, CreateTest, CreateJob, Launch, PatchTest, RunnerStep, RunnerLoad,
         RunnerPrepare, RunnerScan, RunnerImport, RunnerComplete, RunnerFail, RunnerClose,
         RunnerFault, Boot, BootFault
<1> QED  BY <1>1, <1>2, <1>3

\* The whole system, with its sweeps, runners, crashes and restarts, implements
\* the gate: an engagement opens only after somebody vouched for it, and never
\* closes.
THEOREM ScansRefineGate == Spec => ImplementsGate
<1>1. Init => Gate!GateInit
  BY DEF Init, AuthInit, Gate!GateInit, ProviderConfirmed
<1>2. IInv /\ [Next]_vars => [Gate!GateNext]_(Gate!gateVars)  BY GateStepHere
<1>3. QED  BY <1>1, <1>2, Invariance, PTL DEF Spec, ImplementsGate, Gate!GateSpec

\* What the two gates guarantee on their own survives the composition and its
\* crashes: rows and stored documents are as their own theorems have them.
THEOREM GatesHoldTogether ==
  Spec => [](SignedNeedsEvidence /\ SignedRequestOpensGate /\ StoredDocumentDecrypts
               /\ VerifiedNeedsProof)
<1>1. IInv => SignedNeedsEvidence /\ SignedRequestOpensGate /\ StoredDocumentDecrypts
                /\ VerifiedNeedsProof
  BY DEF IInv, AuthIInv, VerIInv
<1>2. QED  BY <1>1, Invariance, PTL

=============================================================================

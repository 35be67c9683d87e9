------------------------------- MODULE AiBudget -------------------------------
(***************************************************************************)
(* The AI spend cap of one client (src/src/ai/budget.ts).  The gate counts *)
(* the recorded calls of a rolling day and of a rolling month, and records *)
(* the call it allows in a later statement, so callers race for the last   *)
(* places under a cap.                                                     *)
(***************************************************************************)
EXTENDS Integers, FiniteSets

CONSTANTS
  Caller,     \* what may be making an AI call at the same time
  DailyCap,   \* AI_DAILY_CALL_CAP
  MonthlyCap  \* AI_MONTHLY_CALL_CAP

ASSUME BudgetAssumption ==
  /\ IsFiniteSet(Caller) /\ Caller # {}
  /\ DailyCap \in Nat \ {0}
  /\ MonthlyCap \in Nat \ {0}

VARIABLES
  callsToday,  \* AiUsageRecord rows of the last 24 hours
  callsMonth,  \* AiUsageRecord rows of the last 30 days
  caller       \* callers of the gate, and of the provider behind it

budgetVars == <<callsToday, callsMonth, caller>>

Seen == {"unread", "under", "reached"}
CallState == [pc : {"idle", "counting", "recording", "calling"}, day : Seen, month : Seen]
IdleCall == [pc |-> "idle", day |-> "unread", month |-> "unread"]

BudgetTypeOK ==
  /\ callsToday \in Nat
  /\ callsMonth \in Nat
  /\ caller \in [Caller -> CallState]

BudgetInit ==
  /\ callsToday = 0
  /\ callsMonth = 0
  /\ caller = [c \in Caller |-> IdleCall]

\* Both counts are under way.
Counting == [pc |-> "counting", day |-> "unread", month |-> "unread"]

Ask(c) ==
  /\ caller[c].pc = "idle"
  /\ caller' = [caller EXCEPT ![c] = Counting]
  /\ UNCHANGED <<callsToday, callsMonth>>

\* Mutant: the cap may be exceeded by one.
CompareOffByOne(count, cap) == IF count <= cap THEN "under" ELSE "reached"

\* What a count answers.
Compare(count, cap) == IF count < cap THEN "under" ELSE "reached"

\* With both counts read, the gate records the call or refuses it.
Gated(day, month) ==
  IF "unread" \in {day, month} THEN [pc |-> "counting", day |-> day, month |-> month]
  ELSE IF "reached" \in {day, month} THEN IdleCall
  ELSE [pc |-> "recording", day |-> day, month |-> month]

CountDay(c) ==
  /\ caller[c].pc = "counting" /\ caller[c].day = "unread"
  /\ caller' = [caller EXCEPT ![c] = Gated(Compare(callsToday, DailyCap), caller[c].month)]
  /\ UNCHANGED <<callsToday, callsMonth>>

CountMonth(c) ==
  /\ caller[c].pc = "counting" /\ caller[c].month = "unread"
  /\ caller' = [caller EXCEPT ![c] = Gated(caller[c].day, Compare(callsMonth, MonthlyCap))]
  /\ UNCHANGED <<callsToday, callsMonth>>

RecordCall(c) ==
  /\ caller[c].pc = "recording"
  /\ callsToday' = callsToday + 1
  /\ callsMonth' = callsMonth + 1
  /\ caller' = [caller EXCEPT ![c] = [IdleCall EXCEPT !.pc = "calling"]]

\* The provider answered, or the caller died or failed before.
CallEnds(c) ==
  /\ caller[c].pc # "idle"
  /\ caller' = [caller EXCEPT ![c] = IdleCall]
  /\ UNCHANGED <<callsToday, callsMonth>>

\* The oldest record leaves a window.
WindowsMove ==
  /\ \/ callsToday > 0 /\ callsToday' = callsToday - 1 /\ UNCHANGED callsMonth
     \/ callsMonth > callsToday /\ callsMonth' = callsMonth - 1 /\ UNCHANGED callsToday
  /\ UNCHANGED caller

BudgetNext ==
  \/ \E c \in Caller : Ask(c) \/ CountDay(c) \/ CountMonth(c) \/ RecordCall(c) \/ CallEnds(c)
  \/ WindowsMove

BudgetSpec == BudgetInit /\ [][BudgetNext]_budgetVars

\* The caps are exceeded by at most the callers that were in the gate
\* together: checkAndRecordAiUsage counts, then creates, without a lock.
OvershootBounded ==
  /\ callsToday <= DailyCap + Cardinality(Caller) - 1
  /\ callsMonth <= MonthlyCap + Cardinality(Caller) - 1
=============================================================================

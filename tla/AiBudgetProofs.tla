--------------------------- MODULE AiBudgetProofs ---------------------------
(***************************************************************************)
(* Proofs about AiBudget, for any caps and any number of concurrent        *)
(* callers.                                                                *)
(***************************************************************************)
EXTENDS AiBudget, FiniteSetTheorems, TLAPS

(***************************************************************************)
(* The inductive invariant.  A caller that read a count below its cap holds *)
(* a place until it records its call or gives up; calls recorded and places *)
(* held never exceed the bound, because whoever finds a free place finds at *)
(* most all the others holding one.                                        *)
(***************************************************************************)
DayHolders == {c \in Caller : caller[c].day = "under"}
MonthHolders == {c \in Caller : caller[c].month = "under"}

RecordersHoldPlaces ==
  \A c \in Caller : caller[c].pc = "recording" => c \in DayHolders /\ c \in MonthHolders

BudgetIInv ==
  /\ BudgetTypeOK
  /\ RecordersHoldPlaces
  /\ callsToday + Cardinality(DayHolders) <= DailyCap + Cardinality(Caller) - 1
  /\ callsMonth + Cardinality(MonthHolders) <= MonthlyCap + Cardinality(Caller) - 1

LEMMA HoldersFinite ==
  /\ Cardinality(Caller) \in Nat \ {0}
  /\ \A S \in SUBSET Caller : IsFiniteSet(S) /\ Cardinality(S) \in 0..Cardinality(Caller)
<1>1. IsFiniteSet(Caller) /\ Caller # {}  BY BudgetAssumption
<1>2. Cardinality(Caller) \in Nat \ {0}  BY <1>1, FS_CardinalityType, FS_EmptySet
<1>3. ASSUME NEW S \in SUBSET Caller
      PROVE  IsFiniteSet(S) /\ Cardinality(S) \in 0..Cardinality(Caller)
  <2>1. IsFiniteSet(S) /\ Cardinality(S) <= Cardinality(Caller)  BY <1>1, FS_Subset
  <2>2. Cardinality(S) \in Nat  BY <2>1, FS_CardinalityType
  <2>3. QED  BY <2>1, <2>2, <1>2
<1>4. QED  BY <1>2, <1>3

\* Giving up a place, or keeping it.
LEMMA FewerHolders ==
  ASSUME NEW S \in SUBSET Caller, NEW T \in SUBSET S
  PROVE  Cardinality(T) \in Nat /\ Cardinality(S) \in Nat /\ Cardinality(T) <= Cardinality(S)
<1>1. IsFiniteSet(S)  BY HoldersFinite
<1>2. Cardinality(T) <= Cardinality(S)  BY <1>1, FS_Subset
<1>3. QED  BY <1>2, HoldersFinite

\* Taking a place next to holders that are others.
LEMMA OneMoreHolder ==
  ASSUME NEW S \in SUBSET Caller, NEW c \in Caller \ S, NEW T \in SUBSET (S \cup {c})
  PROVE  Cardinality(T) \in Nat /\ Cardinality(T) <= Cardinality(Caller)
<1>1. T \in SUBSET Caller  OBVIOUS
<1>2. QED  BY <1>1, HoldersFinite

\* Turning a place into a call.
LEMMA OneHolderLess ==
  ASSUME NEW S \in SUBSET Caller, NEW c \in S
  PROVE  Cardinality(S \ {c}) = Cardinality(S) - 1 /\ Cardinality(S) \in Nat
<1>1. IsFiniteSet(S)  BY HoldersFinite
<1>2. QED  BY <1>1, HoldersFinite, FS_RemoveElement

LEMMA BudgetInitInv == BudgetInit => BudgetIInv
<1> SUFFICES ASSUME BudgetInit PROVE BudgetIInv  OBVIOUS
<1>1. BudgetTypeOK  BY DEF BudgetInit, BudgetTypeOK, CallState, IdleCall, Seen
<1>2. RecordersHoldPlaces  BY DEF BudgetInit, RecordersHoldPlaces, IdleCall
<1>3. DayHolders = {} /\ MonthHolders = {}
  BY DEF BudgetInit, DayHolders, MonthHolders, IdleCall
<1>4. Cardinality(DayHolders) = 0 /\ Cardinality(MonthHolders) = 0  BY <1>3, FS_EmptySet
<1>5. QED
  BY <1>1, <1>2, <1>4, HoldersFinite, BudgetAssumption DEF BudgetIInv, BudgetInit

\* A step that only gives up places.
LEMMA GivingUpInv ==
  ASSUME BudgetIInv, BudgetTypeOK', RecordersHoldPlaces',
         DayHolders' \subseteq DayHolders, MonthHolders' \subseteq MonthHolders,
         callsToday' <= callsToday, callsMonth' <= callsMonth
  PROVE  BudgetIInv'
<1>1. DayHolders \in SUBSET Caller /\ MonthHolders \in SUBSET Caller
  BY DEF DayHolders, MonthHolders
<1>2. /\ Cardinality(DayHolders)' \in Nat /\ Cardinality(DayHolders) \in Nat
      /\ Cardinality(DayHolders)' <= Cardinality(DayHolders)
  BY <1>1, FewerHolders
<1>3. /\ Cardinality(MonthHolders)' \in Nat /\ Cardinality(MonthHolders) \in Nat
      /\ Cardinality(MonthHolders)' <= Cardinality(MonthHolders)
  BY <1>1, FewerHolders
<1>4. QED
  BY <1>2, <1>3, HoldersFinite, BudgetAssumption DEF BudgetIInv, BudgetTypeOK

LEMMA AskInv ==
  ASSUME NEW c \in Caller, BudgetIInv, Ask(c) PROVE BudgetIInv'
<1> USE DEF BudgetIInv
<1>1. caller' = [caller EXCEPT ![c] = Counting] /\ UNCHANGED <<callsToday, callsMonth>>
  BY DEF Ask
<1>2. BudgetTypeOK'  BY <1>1 DEF BudgetTypeOK, CallState, Counting, Seen
<1>3. RecordersHoldPlaces'
  BY <1>1 DEF BudgetTypeOK, RecordersHoldPlaces, DayHolders, MonthHolders, Counting
<1>4. DayHolders' \subseteq DayHolders /\ MonthHolders' \subseteq MonthHolders
  BY <1>1 DEF BudgetTypeOK, DayHolders, MonthHolders, Counting
<1>5. callsToday' <= callsToday /\ callsMonth' <= callsMonth  BY <1>1 DEF BudgetTypeOK
<1>6. QED  BY <1>2, <1>3, <1>4, <1>5, GivingUpInv

LEMMA CallEndsInv ==
  ASSUME NEW c \in Caller, BudgetIInv, CallEnds(c) PROVE BudgetIInv'
<1> USE DEF BudgetIInv
<1>1. caller' = [caller EXCEPT ![c] = IdleCall] /\ UNCHANGED <<callsToday, callsMonth>>
  BY DEF CallEnds
<1>2. BudgetTypeOK'  BY <1>1 DEF BudgetTypeOK, CallState, IdleCall, Seen
<1>3. RecordersHoldPlaces'
  BY <1>1 DEF BudgetTypeOK, RecordersHoldPlaces, DayHolders, MonthHolders, IdleCall
<1>4. DayHolders' \subseteq DayHolders /\ MonthHolders' \subseteq MonthHolders
  BY <1>1 DEF BudgetTypeOK, DayHolders, MonthHolders, IdleCall
<1>5. callsToday' <= callsToday /\ callsMonth' <= callsMonth  BY <1>1 DEF BudgetTypeOK
<1>6. QED  BY <1>2, <1>3, <1>4, <1>5, GivingUpInv

\* What the gate makes of two counts.
LEMMA GatedFacts ==
  ASSUME NEW day \in Seen, NEW month \in Seen
  PROVE  /\ Gated(day, month) \in CallState
         /\ Gated(day, month).pc = "recording" => day = "under" /\ month = "under"
         /\ Gated(day, month).pc = "recording" =>
              Gated(day, month).day = "under" /\ Gated(day, month).month = "under"
         /\ Gated(day, month).day = "under" => day = "under"
         /\ Gated(day, month).month = "under" => month = "under"
  BY DEF Gated, Seen, CallState, IdleCall

LEMMA CountDayInv ==
  ASSUME NEW c \in Caller, BudgetIInv, CountDay(c) PROVE BudgetIInv'
<1> USE DEF BudgetIInv
<1> DEFINE read == Compare(callsToday, DailyCap)
           new  == Gated(read, caller[c].month)
<1>1. /\ caller[c].day = "unread"
      /\ caller' = [caller EXCEPT ![c] = new]
      /\ UNCHANGED <<callsToday, callsMonth>>
  BY DEF CountDay
<1>2. read \in Seen /\ caller[c].month \in Seen
  BY DEF Compare, Seen, BudgetTypeOK, CallState
<1>3. /\ new \in CallState
      /\ new.pc = "recording" => new.day = "under" /\ new.month = "under"
      /\ new.day = "under" => read = "under"
      /\ new.month = "under" => caller[c].month = "under"
  BY <1>2, GatedFacts
<1> HIDE DEF new, read
<1>4. BudgetTypeOK'  BY <1>1, <1>3 DEF BudgetTypeOK
<1>5. RecordersHoldPlaces'
  BY <1>1, <1>3 DEF BudgetTypeOK, RecordersHoldPlaces, DayHolders, MonthHolders
<1>6. MonthHolders' \subseteq MonthHolders
  BY <1>1, <1>3 DEF BudgetTypeOK, MonthHolders
<1>7. CASE new.day # "under"
  <2>1. DayHolders' \subseteq DayHolders  BY <1>1, <1>7 DEF BudgetTypeOK, DayHolders
  <2>2. callsToday' <= callsToday /\ callsMonth' <= callsMonth  BY <1>1 DEF BudgetTypeOK
  <2>3. QED  BY <1>4, <1>5, <1>6, <2>1, <2>2, GivingUpInv
<1>8. CASE new.day = "under"
  <2>1. callsToday < DailyCap  BY <1>3, <1>8 DEF read, Compare
  <2>2. DayHolders \in SUBSET Caller /\ c \in Caller \ DayHolders
    BY <1>1 DEF DayHolders
  <2>3. DayHolders' \in SUBSET (DayHolders \cup {c})  BY <1>1 DEF BudgetTypeOK, DayHolders
  <2>4. Cardinality(DayHolders)' \in Nat /\ Cardinality(DayHolders)' <= Cardinality(Caller)
    BY <2>2, <2>3, OneMoreHolder
  <2>5. callsToday' + Cardinality(DayHolders)' <= DailyCap + Cardinality(Caller) - 1
    BY <1>1, <2>1, <2>4, HoldersFinite, BudgetAssumption DEF BudgetTypeOK
  <2>6. MonthHolders \in SUBSET Caller  BY DEF MonthHolders
  <2>7. /\ Cardinality(MonthHolders)' \in Nat /\ Cardinality(MonthHolders) \in Nat
        /\ Cardinality(MonthHolders)' <= Cardinality(MonthHolders)
    BY <1>6, <2>6, FewerHolders
  <2>8. callsMonth' + Cardinality(MonthHolders)' <= MonthlyCap + Cardinality(Caller) - 1
    BY <1>1, <2>7, HoldersFinite, BudgetAssumption DEF BudgetTypeOK
  <2>9. QED  BY <1>4, <1>5, <2>5, <2>8
<1>9. QED  BY <1>7, <1>8

LEMMA CountMonthInv ==
  ASSUME NEW c \in Caller, BudgetIInv, CountMonth(c) PROVE BudgetIInv'
<1> USE DEF BudgetIInv
<1> DEFINE read == Compare(callsMonth, MonthlyCap)
           new  == Gated(caller[c].day, read)
<1>1. /\ caller[c].month = "unread"
      /\ caller' = [caller EXCEPT ![c] = new]
      /\ UNCHANGED <<callsToday, callsMonth>>
  BY DEF CountMonth
<1>2. read \in Seen /\ caller[c].day \in Seen
  BY DEF Compare, Seen, BudgetTypeOK, CallState
<1>3. /\ new \in CallState
      /\ new.pc = "recording" => new.day = "under" /\ new.month = "under"
      /\ new.month = "under" => read = "under"
      /\ new.day = "under" => caller[c].day = "under"
  BY <1>2, GatedFacts
<1> HIDE DEF new, read
<1>4. BudgetTypeOK'  BY <1>1, <1>3 DEF BudgetTypeOK
<1>5. RecordersHoldPlaces'
  BY <1>1, <1>3 DEF BudgetTypeOK, RecordersHoldPlaces, DayHolders, MonthHolders
<1>6. DayHolders' \subseteq DayHolders
  BY <1>1, <1>3 DEF BudgetTypeOK, DayHolders
<1>7. CASE new.month # "under"
  <2>1. MonthHolders' \subseteq MonthHolders  BY <1>1, <1>7 DEF BudgetTypeOK, MonthHolders
  <2>2. callsToday' <= callsToday /\ callsMonth' <= callsMonth  BY <1>1 DEF BudgetTypeOK
  <2>3. QED  BY <1>4, <1>5, <1>6, <2>1, <2>2, GivingUpInv
<1>8. CASE new.month = "under"
  <2>1. callsMonth < MonthlyCap  BY <1>3, <1>8 DEF read, Compare
  <2>2. MonthHolders \in SUBSET Caller /\ c \in Caller \ MonthHolders
    BY <1>1 DEF MonthHolders
  <2>3. MonthHolders' \in SUBSET (MonthHolders \cup {c})
    BY <1>1 DEF BudgetTypeOK, MonthHolders
  <2>4. Cardinality(MonthHolders)' \in Nat /\ Cardinality(MonthHolders)' <= Cardinality(Caller)
    BY <2>2, <2>3, OneMoreHolder
  <2>5. callsMonth' + Cardinality(MonthHolders)' <= MonthlyCap + Cardinality(Caller) - 1
    BY <1>1, <2>1, <2>4, HoldersFinite, BudgetAssumption DEF BudgetTypeOK
  <2>6. DayHolders \in SUBSET Caller  BY DEF DayHolders
  <2>7. /\ Cardinality(DayHolders)' \in Nat /\ Cardinality(DayHolders) \in Nat
        /\ Cardinality(DayHolders)' <= Cardinality(DayHolders)
    BY <1>6, <2>6, FewerHolders
  <2>8. callsToday' + Cardinality(DayHolders)' <= DailyCap + Cardinality(Caller) - 1
    BY <1>1, <2>7, HoldersFinite, BudgetAssumption DEF BudgetTypeOK
  <2>9. QED  BY <1>4, <1>5, <2>5, <2>8
<1>9. QED  BY <1>7, <1>8

LEMMA RecordCallInv ==
  ASSUME NEW c \in Caller, BudgetIInv, RecordCall(c) PROVE BudgetIInv'
<1> USE DEF BudgetIInv
<1>1. /\ caller[c].pc = "recording"
      /\ callsToday' = callsToday + 1 /\ callsMonth' = callsMonth + 1
      /\ caller' = [caller EXCEPT ![c] = [IdleCall EXCEPT !.pc = "calling"]]
  BY DEF RecordCall
<1>2. BudgetTypeOK'  BY <1>1 DEF BudgetTypeOK, CallState, IdleCall, Seen
<1>3. RecordersHoldPlaces'
  BY <1>1 DEF BudgetTypeOK, RecordersHoldPlaces, DayHolders, MonthHolders, IdleCall
<1>4. c \in DayHolders /\ c \in MonthHolders  BY <1>1 DEF RecordersHoldPlaces
<1>5. DayHolders' = DayHolders \ {c} /\ MonthHolders' = MonthHolders \ {c}
  BY <1>1 DEF BudgetTypeOK, DayHolders, MonthHolders, IdleCall
<1>6. DayHolders \in SUBSET Caller /\ MonthHolders \in SUBSET Caller
  BY DEF DayHolders, MonthHolders
<1>7. Cardinality(DayHolders)' = Cardinality(DayHolders) - 1 /\ Cardinality(DayHolders) \in Nat
  BY <1>4, <1>5, <1>6, OneHolderLess
<1>8. Cardinality(MonthHolders)' = Cardinality(MonthHolders) - 1 /\ Cardinality(MonthHolders) \in Nat
  BY <1>4, <1>5, <1>6, OneHolderLess
<1>9. QED
  BY <1>1, <1>2, <1>3, <1>7, <1>8, HoldersFinite, BudgetAssumption DEF BudgetTypeOK

LEMMA WindowsMoveInv ==
  ASSUME BudgetIInv, WindowsMove PROVE BudgetIInv'
<1> USE DEF BudgetIInv
<1>1. /\ caller' = caller
      /\ callsToday' \in Nat /\ callsToday' <= callsToday
      /\ callsMonth' \in Nat /\ callsMonth' <= callsMonth
  BY DEF WindowsMove, BudgetTypeOK
<1>2. BudgetTypeOK' /\ RecordersHoldPlaces'
  BY <1>1 DEF BudgetTypeOK, RecordersHoldPlaces, DayHolders, MonthHolders
<1>3. DayHolders' \subseteq DayHolders /\ MonthHolders' \subseteq MonthHolders
  BY <1>1 DEF DayHolders, MonthHolders
<1>4. QED  BY <1>1, <1>2, <1>3, GivingUpInv

LEMMA BudgetNextInv == BudgetIInv /\ [BudgetNext]_budgetVars => BudgetIInv'
<1> SUFFICES ASSUME BudgetIInv, [BudgetNext]_budgetVars PROVE BudgetIInv'  OBVIOUS
<1>1. ASSUME NEW c \in Caller,
             Ask(c) \/ CountDay(c) \/ CountMonth(c) \/ RecordCall(c) \/ CallEnds(c)
      PROVE  BudgetIInv'
  BY <1>1, AskInv, CountDayInv, CountMonthInv, RecordCallInv, CallEndsInv
<1>2. CASE UNCHANGED budgetVars
  BY <1>2 DEF BudgetIInv, BudgetTypeOK, RecordersHoldPlaces, DayHolders, MonthHolders,
              budgetVars
<1>3. QED  BY <1>1, <1>2, WindowsMoveInv DEF BudgetNext

THEOREM BudgetInvariant == BudgetSpec => []BudgetIInv
<1>1. QED  BY BudgetInitInv, BudgetNextInv, PTL DEF BudgetSpec

(***************************************************************************)
(* budget.ts calls the caps hard, and counts and then records without a    *)
(* lock: this is how far callers that are in the gate together exceed      *)
(* them, whatever their number.                                            *)
(***************************************************************************)
LEMMA PlacesBoundCalls == BudgetIInv => OvershootBounded
<1> SUFFICES ASSUME BudgetIInv PROVE OvershootBounded  OBVIOUS
<1>1. DayHolders \in SUBSET Caller /\ MonthHolders \in SUBSET Caller
  BY DEF DayHolders, MonthHolders
<1>2. Cardinality(DayHolders) \in Nat /\ Cardinality(MonthHolders) \in Nat
  BY <1>1, HoldersFinite
<1>3. QED
  BY <1>2, HoldersFinite, BudgetAssumption DEF BudgetIInv, BudgetTypeOK, OvershootBounded

THEOREM CapsOvershotByCallers == BudgetSpec => []OvershootBounded
<1>1. QED  BY BudgetInvariant, PlacesBoundCalls, PTL
=============================================================================

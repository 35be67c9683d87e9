---------------------------- MODULE FindingsProofs ----------------------------
(***************************************************************************)
(* Proofs about Findings, for any findings, items, imports, acceptances    *)
(* and AI calls at the same time.                                          *)
(***************************************************************************)
EXTENDS Findings, AiBudgetProofs, WellFoundedInduction, SequenceTheorems

ItemKey == {Key(i) : i \in Item}
StoredItem == {Adapted(i) : i \in Item}
FindingRow == [item : StoredItem \cup {NoFinding}, source : {"none", "hand", "import"},
               status : FindingStatus, draft : 0..MaxDrafts, guidance : 0..MaxDrafts]
ImportState == [pc : {"idle", "items"}, known : SUBSET ItemKey, todo : SUBSET Item]
RetestState == [finding : Finding \cup {NoFinding}, result : RetestResult \cup {"none"},
                before : SUBSET Retester, late : BOOLEAN]
AcceptState == [pc : {"idle", "read"}, finding : Finding \cup {NoFinding}, text : 0..MaxDrafts]

(***************************************************************************)
(* The inductive invariant.  An import that has not learnt of an issue may *)
(* still create a finding for it; once there is a finding nobody has       *)
(* touched, it is open, so no later import is unaware of it, and those     *)
(* that are can add one finding each.                                      *)
(***************************************************************************)
Copies(k) == {f \in Finding : Untouched(f) /\ Key(finding[f].item) = k}
Unaware(k) == {p \in Importer : importer[p].pc = "items" /\ k \notin importer[p].known}

FindingTypes ==
  /\ instance \in Instance
  /\ finding \in [Finding -> FindingRow]
  /\ retested \in [Finding -> RetestResult \cup {"none"}]
  /\ rivals \in [Finding -> SUBSET RetestResult]
  /\ retester \in [Retester -> RetestState]
  /\ importer \in [Importer -> ImportState]
  /\ admin \in [Admin -> AcceptState]
  /\ subject \in [Request -> Finding \cup {NoFinding}]
  /\ handled \subseteq Finding

FreeRowsFresh == \A f \in Finding : ~Exists(f) => retested[f] = "none"
RowsHaveItems == \A f \in Finding : Exists(f) => finding[f].item \in StoredItem

\* A retest that a younger row has overtaken is a rival of the latest one.
LateAreRivals ==
  \A q \in Retester : Retesting(q) =>
    /\ retester[q].finding \in Existing /\ retester[q].result \in RetestResult
    /\ retester[q].late => /\ retested[retester[q].finding] # "none"
                          /\ retester[q].result \in rivals[retester[q].finding]

CopiesBounded ==
  \A k \in ItemKey :
    Copies(k) # {} => Cardinality(Copies(k)) + Cardinality(Unaware(k)) <= Cardinality(Importer)

FindingsIInv ==
  /\ FindingTypes
  /\ FreeRowsFresh
  /\ RowsHaveItems
  /\ LateAreRivals
  /\ StatusFollowsRetests
  /\ CopiesBounded

LEMMA TypesSplit == FindingsTypeOK <=> FindingTypes /\ BudgetTypeOK
  BY DEF FindingsTypeOK, FindingTypes, FindingRow, ImportState, RetestState, AcceptState, StoredItem, ItemKey

\* Adapting a result keeps its key.
LEMMA AdaptedKeepsKey ==
  ASSUME NEW i \in Item
  PROVE  /\ Adapted(i) \in StoredItem
         /\ Key(Adapted(i)) = Key(i)
         /\ Key(i) \in ItemKey
         /\ i.severity \in Severity => Adapted(i) = i
<1>1. i \in [asset : Asset \cup {NoAsset}, title : Title \cup {NoTitle},
             severity : Severity \cup {"unlisted"}, cvss : {NoCvss} \cup 0..100,
             days : Nat, human : BOOLEAN, steps : BOOLEAN]
  BY FindingsAssumption
<1>2. Key([i EXCEPT !.severity = "INFO"]) = Key(i)
  <2>1. [i EXCEPT !.severity = "INFO"].asset = i.asset  BY <1>1
  <2>2. [i EXCEPT !.severity = "INFO"].title = i.title  BY <1>1
  <2>3. QED  BY <2>1, <2>2 DEF Key
<1>3. i.severity \in Severity => i.severity # "unlisted"  BY DEF Severity
<1>4. QED  BY <1>2, <1>3 DEF Adapted, StoredItem, ItemKey

LEMMA StoredItemKey == ASSUME NEW s \in StoredItem PROVE Key(s) \in ItemKey
<1>1. PICK i \in Item : s = Adapted(i)  BY DEF StoredItem
<1>2. QED  BY <1>1, AdaptedKeepsKey

LEMMA SetsFinite ==
  ASSUME NEW k
  PROVE  /\ IsFiniteSet(Copies(k)) /\ Cardinality(Copies(k)) \in Nat
         /\ IsFiniteSet(Unaware(k)) /\ Cardinality(Unaware(k)) \in Nat
         /\ Cardinality(Unaware(k)) <= Cardinality(Importer)
         /\ Cardinality(Importer) \in Nat
<1>1. IsFiniteSet(Finding) /\ IsFiniteSet(Importer)  BY FindingsAssumption
<1>2. Copies(k) \subseteq Finding /\ Unaware(k) \subseteq Importer  BY DEF Copies, Unaware
<1>3. IsFiniteSet(Copies(k)) /\ IsFiniteSet(Unaware(k))
      /\ Cardinality(Unaware(k)) <= Cardinality(Importer)
  BY <1>1, <1>2, FS_Subset
<1>4. QED  BY <1>1, <1>3, FS_CardinalityType

(***************************************************************************)
(* Initial states                                                          *)
(***************************************************************************)
LEMMA FindingsInitInv == FindingsInit => FindingsIInv
<1> SUFFICES ASSUME FindingsInit PROVE FindingsIInv  OBVIOUS
<1>1. 0 \in 0..MaxDrafts  BY FindingsAssumption
<1>2. NoRow \in FindingRow  BY <1>1 DEF NoRow, FindingRow, FindingStatus
<1>3. IdleAdmin \in AcceptState /\ IdleImport \in ImportState
  BY <1>1 DEF IdleAdmin, AcceptState, IdleImport, ImportState
<1>4. FindingTypes /\ LateAreRivals
  <2>1. IdleRetest \in RetestState  BY DEF IdleRetest, RetestState
  <2>2. QED  BY <1>2, <1>3, <2>1 DEF FindingsInit, FindingTypes, LateAreRivals, Retesting,
                                     IdleRetest
<1>5. \A f \in Finding : ~Exists(f)  BY DEF FindingsInit, Exists, NoRow
<1>6. FreeRowsFresh  BY DEF FindingsInit, FreeRowsFresh
<1>7. RowsHaveItems /\ StatusFollowsRetests
  BY <1>5 DEF RowsHaveItems, StatusFollowsRetests, Existing
<1>8. CopiesBounded
  BY <1>5 DEF CopiesBounded, Copies, Untouched, Exists
<1>9. QED  BY <1>4, <1>6, <1>7, <1>8 DEF FindingsIInv

(***************************************************************************)
(* What a step owes the bound on copies.                                   *)
(***************************************************************************)
LEMMA FewerCopies ==
  ASSUME CopiesBounded, NEW k \in ItemKey, Copies(k)' \subseteq Copies(k), Copies(k)' # {},
         Copies(k) # {} => Unaware(k)' \subseteq Unaware(k)
  PROVE  Cardinality(Copies(k)') + Cardinality(Unaware(k)') <= Cardinality(Importer)
<1> DEFINE S == Copies(k)  T == Copies(k)'  V == Unaware(k)  W == Unaware(k)'
<1>1. T \subseteq S /\ W \subseteq V /\ S # {}  OBVIOUS
<1>2. Cardinality(S) + Cardinality(V) <= Cardinality(Importer)  BY <1>1 DEF CopiesBounded
<1>3. /\ IsFiniteSet(S) /\ Cardinality(S) \in Nat
      /\ IsFiniteSet(V) /\ Cardinality(V) \in Nat /\ Cardinality(Importer) \in Nat
  BY SetsFinite
<1> HIDE DEF S, T, V, W
<1>4. IsFiniteSet(T) /\ Cardinality(T) <= Cardinality(S)  BY <1>1, <1>3, FS_Subset
<1>5. IsFiniteSet(W) /\ Cardinality(W) <= Cardinality(V)  BY <1>1, <1>3, FS_Subset
<1>6. Cardinality(T) \in Nat /\ Cardinality(W) \in Nat  BY <1>4, <1>5, FS_CardinalityType
<1>7. Cardinality(T) + Cardinality(W) <= Cardinality(Importer)
  BY <1>2, <1>3, <1>4, <1>5, <1>6
<1>8. QED  BY <1>7 DEF T, W

LEMMA NoMoreCopies ==
  ASSUME CopiesBounded,
         \A k \in ItemKey : /\ Copies(k)' \subseteq Copies(k)
                            /\ Copies(k) # {} => Unaware(k)' \subseteq Unaware(k)
  PROVE  CopiesBounded'
  BY FewerCopies DEF CopiesBounded

\* One import adds a copy and is unaware of it no more.
LEMMA OneMoreCopy ==
  ASSUME CopiesBounded, NEW k \in ItemKey, NEW f, NEW p \in Unaware(k),
         Copies(k)' \subseteq Copies(k) \cup {f},
         Unaware(k)' \subseteq Unaware(k) \ {p}
  PROVE  Cardinality(Copies(k)') + Cardinality(Unaware(k)') <= Cardinality(Importer)
<1> DEFINE S == Copies(k)  T == Copies(k)'  V == Unaware(k)  W == Unaware(k)'
<1>1. /\ T \subseteq S \cup {f} /\ W \subseteq V \ {p} /\ p \in V
      /\ S # {} => Cardinality(S) + Cardinality(V) <= Cardinality(Importer)
  BY DEF CopiesBounded
<1>2. /\ IsFiniteSet(S) /\ Cardinality(S) \in Nat
      /\ IsFiniteSet(V) /\ Cardinality(V) \in Nat
      /\ Cardinality(V) <= Cardinality(Importer) /\ Cardinality(Importer) \in Nat
  BY SetsFinite
<1> HIDE DEF S, T, V, W
<1>3. Cardinality(V \ {p}) = Cardinality(V) - 1 /\ IsFiniteSet(V \ {p})
  BY <1>1, <1>2, FS_RemoveElement
<1>4. IsFiniteSet(W) /\ Cardinality(W) <= Cardinality(V) - 1  BY <1>1, <1>3, FS_Subset
<1>5. IsFiniteSet(S \cup {f}) /\ Cardinality(S \cup {f}) <= Cardinality(S) + 1
  <2>1. /\ IsFiniteSet(S \cup {f})
        /\ Cardinality(S \cup {f}) = IF f \in S THEN Cardinality(S) ELSE Cardinality(S) + 1
    BY <1>2, FS_AddElement
  <2>2. QED  BY <2>1, <1>2
<1>6. IsFiniteSet(T) /\ Cardinality(T) <= Cardinality(S \cup {f})  BY <1>1, <1>5, FS_Subset
<1>7. /\ Cardinality(T) \in Nat /\ Cardinality(W) \in Nat
      /\ Cardinality(S \cup {f}) \in Nat
  BY <1>4, <1>5, <1>6, FS_CardinalityType
<1>8. S = {} => Cardinality(S) = 0  BY FS_EmptySet
<1>9. Cardinality(T) + Cardinality(W) <= Cardinality(Importer)
  BY <1>1, <1>2, <1>4, <1>5, <1>6, <1>7, <1>8
<1>10. QED  BY <1>9 DEF T, W

\* A copy is open and known to every import that starts.
LEMMA CopiesAreOpen ==
  ASSUME FindingsIInv, NEW k \in ItemKey, Copies(k) # {}
  PROVE  k \in OpenKeys
<1>1. PICK f \in Finding : Untouched(f) /\ Key(finding[f].item) = k  BY DEF Copies
<1>2. f \in Existing \ handled /\ retested[f] = "none"
  BY <1>1 DEF Untouched, Existing, Exists
<1>3. finding[f].status = "OPEN"  BY <1>2 DEF FindingsIInv, StatusFollowsRetests
<1>4. QED  BY <1>1, <1>2, <1>3 DEF OpenKeys, Open

(***************************************************************************)
(* Steps.  Most leave the imports, or the findings, alone.                 *)
(***************************************************************************)
\* The findings are as before.
LEMMA SameFindings ==
  ASSUME FindingsIInv, UNCHANGED <<finding, retested, rivals, retester, handled>>
  PROVE  /\ FreeRowsFresh' /\ RowsHaveItems' /\ LateAreRivals' /\ StatusFollowsRetests'
         /\ \A k : Copies(k)' = Copies(k)
  BY DEF FindingsIInv, FreeRowsFresh, RowsHaveItems, LateAreRivals, StatusFollowsRetests, Copies,
         Untouched, Existing, Exists, Retesting

\* A step of the AI calls, of an acceptance or of an import that changes no
\* finding, and makes no import unaware of an issue that has a copy.
LEMMA QuietStep ==
  ASSUME FindingsIInv, FindingTypes', UNCHANGED <<finding, retested, rivals, retester, handled>>,
         \A k \in ItemKey : Copies(k) # {} => Unaware(k)' \subseteq Unaware(k)
  PROVE  FindingsIInv'
<1>1. /\ FreeRowsFresh' /\ RowsHaveItems' /\ LateAreRivals' /\ StatusFollowsRetests'
      /\ \A k : Copies(k)' = Copies(k)
  BY SameFindings
<1>2. CopiesBounded'  BY <1>1, NoMoreCopies DEF FindingsIInv
<1>3. QED  BY <1>1, <1>2 DEF FindingsIInv

LEMMA CallStep ==
  ASSUME FindingsIInv, UNCHANGED <<instance, finding, retested, rivals, retester, importer, admin, handled>>,
         subject' \in [Request -> Finding \cup {NoFinding}]
  PROVE  FindingsIInv'
<1>1. FindingTypes'  BY DEF FindingsIInv, FindingTypes
<1>2. \A k : Unaware(k)' = Unaware(k)  BY DEF Unaware
<1>3. QED  BY <1>1, <1>2, QuietStep

LEMMA ImportStartInv ==
  ASSUME FindingsIInv, NEW p \in Importer, NEW batch \in instance.batches, ImportStart(p, batch)
  PROVE  FindingsIInv'
<1> DEFINE new == [pc |-> "items", known |-> OpenKeys, todo |-> batch]
<1>1. importer' = [importer EXCEPT ![p] = new]
      /\ UNCHANGED <<instance, finding, retested, rivals, retester, admin, subject, handled>>
  BY DEF ImportStart
<1>2. OpenKeys \subseteq ItemKey
  <2> SUFFICES ASSUME NEW f \in Open PROVE Key(finding[f].item) \in ItemKey  BY DEF OpenKeys
  <2>1. f \in Finding /\ Exists(f)  BY DEF Open, Existing
  <2>2. finding[f].item \in StoredItem  BY <2>1 DEF FindingsIInv, RowsHaveItems
  <2>3. QED  BY <2>2, StoredItemKey
<1>3. batch \in SUBSET Item  BY FindingsAssumption DEF FindingsIInv, FindingTypes
<1>4. new \in ImportState  BY <1>2, <1>3 DEF ImportState
<1>5. FindingTypes'  BY <1>1, <1>4 DEF FindingsIInv, FindingTypes
<1>6. ASSUME NEW k \in ItemKey, Copies(k) # {} PROVE Unaware(k)' \subseteq Unaware(k)
  <2>1. k \in OpenKeys  BY <1>6, CopiesAreOpen
  <2>2. QED  BY <1>1, <2>1 DEF Unaware, FindingsIInv, FindingTypes
<1>7. QED  BY <1>1, <1>5, <1>6, QuietStep

LEMMA ImportSkipInv ==
  ASSUME FindingsIInv, NEW p \in Importer, NEW i \in Item, ImportSkip(p, i)
  PROVE  FindingsIInv'
<1>1. importer' = [importer EXCEPT ![p].todo = importer[p].todo \ {i}]
      /\ UNCHANGED <<instance, finding, retested, rivals, retester, admin, subject, handled>>
  BY DEF ImportSkip
<1>2. importer[p] \in ImportState  BY DEF FindingsIInv, FindingTypes
<1>3. /\ importer'[p] \in ImportState
      /\ importer'[p].pc = importer[p].pc /\ importer'[p].known = importer[p].known
      /\ \A q \in Importer \ {p} : importer'[q] = importer[q]
      /\ importer' = [q \in Importer |-> importer'[q]]
  BY <1>1, <1>2 DEF FindingsIInv, FindingTypes, ImportState
<1>4. importer' \in [Importer -> ImportState]  BY <1>3 DEF FindingsIInv, FindingTypes
<1>5. FindingTypes'  BY <1>1, <1>4 DEF FindingsIInv, FindingTypes
<1>6. \A k : Unaware(k)' = Unaware(k)  BY <1>3 DEF Unaware
<1>7. QED  BY <1>1, <1>5, <1>6, QuietStep

LEMMA ImportEndsInv ==
  ASSUME FindingsIInv, NEW p \in Importer, ImportEnds(p)
  PROVE  FindingsIInv'
<1>1. importer' = [importer EXCEPT ![p] = IdleImport]
      /\ UNCHANGED <<instance, finding, retested, rivals, retester, admin, subject, handled>>
  BY DEF ImportEnds
<1>2. FindingTypes'
  BY <1>1 DEF FindingsIInv, FindingTypes, IdleImport, ImportState
<1>3. \A k : Unaware(k)' \subseteq Unaware(k)
  BY <1>1 DEF Unaware, IdleImport, FindingsIInv, FindingTypes
<1>4. QED  BY <1>1, <1>2, <1>3, QuietStep

\* Drafts and guidance are of no account to the rest.
LEMMA TextStep ==
  ASSUME FindingsIInv, finding' \in [Finding -> FindingRow], admin' \in [Admin -> AcceptState],
         \A f \in Finding : /\ finding'[f].item = finding[f].item
                            /\ finding'[f].source = finding[f].source
                            /\ finding'[f].status = finding[f].status,
         UNCHANGED <<instance, retested, rivals, retester, importer, subject, handled>>
  PROVE  FindingsIInv'
<1>1. FindingTypes'  BY DEF FindingsIInv, FindingTypes
<1>2. \A f \in Finding : Exists(f)' <=> Exists(f)  BY DEF Exists
<1>3. FreeRowsFresh' /\ RowsHaveItems'  BY <1>2 DEF FindingsIInv, FreeRowsFresh, RowsHaveItems
<1>4. StatusFollowsRetests' /\ LateAreRivals'
  BY <1>2 DEF FindingsIInv, StatusFollowsRetests, LateAreRivals, Existing, Retesting
<1>5. \A k : Copies(k)' = Copies(k)  BY DEF Copies, Untouched
<1>6. \A k : Unaware(k)' = Unaware(k)  BY DEF Unaware
<1>7. CopiesBounded'  BY <1>5, <1>6, NoMoreCopies DEF FindingsIInv
<1>8. QED  BY <1>1, <1>3, <1>4, <1>7 DEF FindingsIInv

LEMMA WriteDraftRows ==
  ASSUME FindingsIInv, NEW f, WriteDraft(f)
  PROVE  /\ finding' \in [Finding -> FindingRow]
         /\ \A g \in Finding : /\ finding'[g].item = finding[g].item
                               /\ finding'[g].source = finding[g].source
                               /\ finding'[g].status = finding[g].status
<1>1. finding' = [finding EXCEPT ![f].draft = finding[f].draft + 1]
      /\ finding[f].draft < MaxDrafts
  BY DEF WriteDraft
<1>2. finding \in [Finding -> FindingRow]  BY DEF FindingsIInv, FindingTypes
<1>3. finding' = [g \in Finding |-> finding'[g]]  BY <1>1, <1>2
<1>4. ASSUME NEW g \in Finding
      PROVE  /\ finding'[g] \in FindingRow
             /\ finding'[g].item = finding[g].item /\ finding'[g].source = finding[g].source
             /\ finding'[g].status = finding[g].status
  <2>1. finding[g] \in FindingRow  BY <1>2
  <2>2. CASE g # f
    <3>1. finding'[g] = finding[g]  BY <1>1, <1>2, <2>2
    <3>2. QED  BY <2>1, <3>1
  <2>3. CASE g = f
    <3>1. finding'[g] = [finding[g] EXCEPT !.draft = finding[g].draft + 1]
      BY <1>1, <1>2, <2>3
    <3>2. finding[g].draft + 1 \in 0..MaxDrafts
      BY <1>1, <2>1, <2>3, FindingsAssumption DEF FindingRow
    <3>3. QED  BY <2>1, <3>1, <3>2 DEF FindingRow
  <2>4. QED  BY <2>2, <2>3
<1>5. QED  BY <1>3, <1>4

LEMMA DraftedInv ==
  ASSUME FindingsIInv, NEW c, Drafted(c)
  PROVE  FindingsIInv'
<1>1. WriteDraft(Subject(c)) /\ UNCHANGED <<instance, retested, rivals, retester, importer, admin, subject, handled>>
  BY DEF Drafted
<1>2. admin' \in [Admin -> AcceptState]  BY <1>1 DEF FindingsIInv, FindingTypes
<1>3. QED  BY <1>1, <1>2, WriteDraftRows, TextStep

LEMMA AcceptReadInv ==
  ASSUME FindingsIInv, NEW a \in Admin, NEW f \in Finding, AcceptRead(a, f)
  PROVE  FindingsIInv'
<1> DEFINE new == [pc |-> "read", finding |-> f, text |-> finding[f].draft]
<1>1. admin' = [admin EXCEPT ![a] = new]
      /\ UNCHANGED <<instance, finding, retested, rivals, retester, importer, subject, handled>>
  BY DEF AcceptRead
<1>2. finding[f].draft \in 0..MaxDrafts  BY DEF FindingsIInv, FindingTypes, FindingRow
<1>3. new \in AcceptState  BY <1>2 DEF AcceptState
<1>4. admin' \in [Admin -> AcceptState]  BY <1>1, <1>3 DEF FindingsIInv, FindingTypes
<1>5. finding' \in [Finding -> FindingRow]  BY <1>1 DEF FindingsIInv, FindingTypes
<1>6. QED  BY <1>1, <1>4, <1>5, TextStep

\* What an acceptance writes, if anything.
LEMMA AcceptWriteRows ==
  ASSUME FindingsIInv, NEW a \in Admin, AcceptWrite(a)
  PROVE  /\ finding' \in [Finding -> FindingRow]
         /\ \A g \in Finding : /\ finding'[g].item = finding[g].item
                               /\ finding'[g].source = finding[g].source
                               /\ finding'[g].status = finding[g].status
<1>1. finding \in [Finding -> FindingRow]  BY DEF FindingsIInv, FindingTypes
<1>2. CASE finding' = finding  BY <1>1, <1>2
<1>3. CASE finding' = [finding EXCEPT ![admin[a].finding].guidance = admin[a].text]
  <2>1. admin[a].text \in 0..MaxDrafts  BY DEF FindingsIInv, FindingTypes, AcceptState
  <2>2. finding' = [g \in Finding |-> finding'[g]]  BY <1>1, <1>3
  <2>3. ASSUME NEW g \in Finding
        PROVE  /\ finding'[g] \in FindingRow
               /\ finding'[g].item = finding[g].item /\ finding'[g].source = finding[g].source
               /\ finding'[g].status = finding[g].status
    <3>1. finding[g] \in FindingRow  BY <1>1
    <3>2. CASE g # admin[a].finding
      <4>1. finding'[g] = finding[g]  BY <1>1, <1>3, <3>2
      <4>2. QED  BY <3>1, <4>1
    <3>3. CASE g = admin[a].finding
      <4>1. finding'[g] = [finding[g] EXCEPT !.guidance = admin[a].text]
        BY <1>1, <1>3, <3>3
      <4>2. QED  BY <2>1, <3>1, <3>3, <4>1 DEF FindingRow
    <3>4. QED  BY <3>2, <3>3
  <2>4. QED  BY <2>2, <2>3
<1>4. QED  BY <1>2, <1>3 DEF AcceptWrite

LEMMA AcceptWriteInv ==
  ASSUME FindingsIInv, NEW a \in Admin, AcceptWrite(a)
  PROVE  FindingsIInv'
<1>1. admin' = [admin EXCEPT ![a] = IdleAdmin]
      /\ UNCHANGED <<instance, retested, rivals, retester, importer, subject, handled>>
  BY DEF AcceptWrite
<1>2. IdleAdmin \in AcceptState  BY FindingsAssumption DEF IdleAdmin, AcceptState
<1>3. admin' \in [Admin -> AcceptState]  BY <1>1, <1>2 DEF FindingsIInv, FindingTypes
<1>4. QED  BY <1>1, <1>3, AcceptWriteRows, TextStep

(***************************************************************************)
(* Steps that set a status, or store a finding.                            *)
(***************************************************************************)
\* The status of one row changes, and whoever set it is on record.
LEMMA StatusStep ==
  ASSUME FindingsIInv, NEW f \in Finding, NEW s \in FindingStatus, Exists(f),
         finding' = [finding EXCEPT ![f].status = s],
         retested' \in [Finding -> RetestResult \cup {"none"}],
         rivals' \in [Finding -> SUBSET RetestResult], retester' \in [Retester -> RetestState],
         \A g \in Finding \ {f} : retested'[g] = retested[g] /\ rivals'[g] = rivals[g],
         handled' \subseteq Finding, handled' \in {handled, handled \cup {f}},
         \/ f \in handled'
         \/ /\ retested'[f] # "none"
            /\ \E result \in {retested'[f]} \cup rivals'[f] : s = StatusAfter[result],
         (\A g \in Finding : Exists(g)' <=> Exists(g)) => LateAreRivals',
         UNCHANGED <<instance, importer, admin, subject>>
  PROVE  FindingsIInv'
<1>1. finding \in [Finding -> FindingRow]  BY DEF FindingsIInv, FindingTypes
<1>2. finding' = [g \in Finding |-> finding'[g]]  BY <1>1
<1>3. finding'[f] = [finding[f] EXCEPT !.status = s] /\ finding[f] \in FindingRow  BY <1>1
<1>4. /\ finding'[f] \in FindingRow /\ finding'[f].status = s
      /\ finding'[f].item = finding[f].item /\ finding'[f].source = finding[f].source
  BY <1>3 DEF FindingRow
<1>5. \A g \in Finding \ {f} : finding'[g] = finding[g]  BY <1>1
<1>6. finding' \in [Finding -> FindingRow]  BY <1>1, <1>2, <1>4, <1>5
<1>7. FindingTypes'  BY <1>6 DEF FindingsIInv, FindingTypes
<1>8. \A g \in Finding : Exists(g)' <=> Exists(g)  BY <1>4, <1>5 DEF Exists
<1>9. FreeRowsFresh'
  <2> SUFFICES ASSUME NEW g \in Finding, ~Exists(g)' PROVE retested'[g] = "none"
    BY DEF FreeRowsFresh
  <2>1. ~Exists(g) /\ g # f  BY <1>8
  <2>2. QED  BY <2>1 DEF FindingsIInv, FreeRowsFresh
<1>10. RowsHaveItems'  BY <1>4, <1>5, <1>8 DEF FindingsIInv, RowsHaveItems
<1>11. StatusFollowsRetests'
  <2> SUFFICES ASSUME NEW g \in Finding, Exists(g)', g \notin handled'
               PROVE  \/ retested'[g] = "none" /\ finding'[g].status = "OPEN"
                      \/ \E result \in {retested'[g]} \cup rivals'[g] :
                           retested'[g] # "none" /\ finding'[g].status = StatusAfter[result]
    BY DEF StatusFollowsRetests, Existing
  <2>1. CASE g = f  BY <2>1, <1>4
  <2>2. CASE g # f
    <3>1. g \in Existing \ handled  BY <1>8 DEF Existing
    <3>2. finding'[g] = finding[g] /\ retested'[g] = retested[g] /\ rivals'[g] = rivals[g]
      BY <2>2, <1>5
    <3>3. QED  BY <3>1, <3>2 DEF FindingsIInv, StatusFollowsRetests
  <2>3. QED  BY <2>1, <2>2
<1>12. ASSUME NEW k PROVE Copies(k)' \subseteq Copies(k) /\ Unaware(k)' = Unaware(k)
  <2>1. Unaware(k)' = Unaware(k)  BY DEF Unaware
  <2>2. ASSUME NEW g \in Copies(k)' PROVE g \in Copies(k)
    <3>1. /\ g \in Finding /\ g \notin handled' /\ retested'[g] = "none"
          /\ finding'[g].source = "import" /\ Key(finding'[g].item) = k
      BY <2>2 DEF Copies, Untouched
    <3>2. g # f /\ g \notin handled  BY <3>1
    <3>3. finding'[g] = finding[g] /\ retested'[g] = retested[g]  BY <3>1, <3>2, <1>5
    <3>4. QED  BY <3>1, <3>2, <3>3 DEF Copies, Untouched
  <2>3. QED  BY <2>1, <2>2
<1>13. CopiesBounded'  BY <1>12, NoMoreCopies DEF FindingsIInv
<1>14. QED  BY <1>7, <1>8, <1>9, <1>10, <1>11, <1>13 DEF FindingsIInv

LEMMA SetStatusInv ==
  ASSUME FindingsIInv, NEW f \in Finding, NEW s \in instance.statuses, SetStatus(f, s)
  PROVE  FindingsIInv'
<1>1. s \in FindingStatus  BY FindingsAssumption DEF FindingsIInv, FindingTypes
<1>2. /\ Exists(f) /\ finding' = [finding EXCEPT ![f].status = s]
      /\ handled' = handled \cup {f}
      /\ UNCHANGED <<instance, retested, rivals, retester, importer, admin, subject>>
  BY DEF SetStatus
<1>3. handled' \subseteq Finding /\ f \in handled'  BY <1>2 DEF FindingsIInv, FindingTypes
<1>4. /\ retested' \in [Finding -> RetestResult \cup {"none"}]
      /\ rivals' \in [Finding -> SUBSET RetestResult] /\ retester' \in [Retester -> RetestState]
  BY <1>2 DEF FindingsIInv, FindingTypes
<1>5. (\A g \in Finding : Exists(g)' <=> Exists(g)) => LateAreRivals'
  BY <1>2 DEF FindingsIInv, LateAreRivals, Existing, Retesting
<1>6. QED  BY <1>1, <1>2, <1>3, <1>4, <1>5, StatusStep

\* A retest is over, or begins: no finding changes and none is recorded.
LEMMA RetestQuiet ==
  ASSUME FindingsIInv, retester' \in [Retester -> RetestState], LateAreRivals',
         UNCHANGED <<instance, finding, retested, rivals, importer, admin, subject, handled>>
  PROVE  FindingsIInv'
<1>1. FindingTypes'  BY DEF FindingsIInv, FindingTypes
<1>2. /\ FreeRowsFresh' /\ RowsHaveItems' /\ StatusFollowsRetests'
      /\ \A k : Copies(k)' = Copies(k) /\ Unaware(k)' = Unaware(k)
  BY DEF FindingsIInv, FreeRowsFresh, RowsHaveItems, StatusFollowsRetests, Copies, Unaware,
         Untouched, Existing, Exists
<1>3. CopiesBounded'  BY <1>2, NoMoreCopies DEF FindingsIInv
<1>4. QED  BY <1>1, <1>2, <1>3 DEF FindingsIInv

LEMMA RetestInsertInv ==
  ASSUME FindingsIInv, NEW q \in Retester, NEW f \in Finding, NEW result \in instance.results,
         RetestInsert(q, f, result)
  PROVE  FindingsIInv'
<1> DEFINE new == [finding |-> f, result |-> result, late |-> FALSE,
                   before |-> {p \in Retester : retester[p].finding = f}]
<1>1. result \in RetestResult
  BY FindingsAssumption DEF FindingsIInv, FindingTypes, RetestResult
<1>2. /\ Exists(f) /\ retester' = [retester EXCEPT ![q] = new]
      /\ UNCHANGED <<instance, finding, retested, rivals, importer, admin, subject, handled>>
  BY DEF RetestInsert
<1>3. new \in RetestState /\ new.finding = f /\ new.result = result /\ ~new.late
  BY <1>1 DEF RetestState
<1>4. retester \in [Retester -> RetestState]  BY DEF FindingsIInv, FindingTypes
<1> HIDE DEF new
<1>5. /\ retester' \in [Retester -> RetestState] /\ retester'[q] = new
      /\ \A p \in Retester \ {q} : retester'[p] = retester[p]
  BY <1>2, <1>3, <1>4
<1>6. Existing' = Existing /\ f \in Existing  BY <1>2 DEF Existing, Exists
<1>7. LateAreRivals'
  BY <1>1, <1>2, <1>3, <1>5, <1>6 DEF FindingsIInv, LateAreRivals, Retesting
<1>8. QED  BY <1>2, <1>5, <1>7, RetestQuiet

\* What is left of the other retests when one is over.
LEMMA RetestersAfterFacts ==
  ASSUME FindingTypes, NEW q \in Retester, NEW overtaken,
         retester' = RetestersAfter(q, overtaken)
  PROVE  /\ retester' \in [Retester -> RetestState]
         /\ retester'[q] = IdleRetest
         /\ \A p \in Retester \ {q} :
              /\ retester'[p].finding = retester[p].finding
              /\ retester'[p].result = retester[p].result
              /\ retester'[p].late <=> retester[p].late \/ p \in overtaken
<1>1. retester \in [Retester -> RetestState]  BY DEF FindingTypes
<1>2. retester'[q] = IdleRetest /\ IdleRetest \in RetestState
  BY DEF RetestersAfter, IdleRetest, RetestState
<1>3. ASSUME NEW p \in Retester \ {q}
      PROVE  /\ retester'[p] \in RetestState
             /\ retester'[p].finding = retester[p].finding
             /\ retester'[p].result = retester[p].result
             /\ retester'[p].late <=> retester[p].late \/ p \in overtaken
  <2>1. retester'[p] = [finding |-> retester[p].finding, result |-> retester[p].result,
                        before |-> retester[p].before \ {q},
                        late |-> retester[p].late \/ p \in overtaken]
    BY DEF RetestersAfter
  <2>2. /\ retester[p].finding \in Finding \cup {NoFinding}
        /\ retester[p].result \in RetestResult \cup {"none"}
        /\ retester[p].before \ {q} \subseteq Retester
    BY <1>1 DEF RetestState
  <2> DEFINE b == retester[p].late \/ p \in overtaken
  <2>3. b \in BOOLEAN  OBVIOUS
  <2> HIDE DEF b
  <2>4. retester'[p] \in RetestState /\ retester'[p].late = b
        /\ retester'[p].finding = retester[p].finding /\ retester'[p].result = retester[p].result
    <3>1. retester'[p] = [finding |-> retester[p].finding, result |-> retester[p].result,
                          before |-> retester[p].before \ {q}, late |-> b]
      BY <2>1 DEF b
    <3>2. QED  BY <2>2, <2>3, <3>1 DEF RetestState
  <2>5. QED  BY <2>4 DEF b
<1>4. retester' = [p \in Retester |-> retester'[p]]  BY DEF RetestersAfter
<1>5. QED  BY <1>2, <1>3, <1>4

LEMMA RetestFailsInv ==
  ASSUME FindingsIInv, NEW q \in Retester, RetestFails(q)
  PROVE  FindingsIInv'
<1>1. /\ retester' = RetestersAfter(q, {})
      /\ UNCHANGED <<instance, finding, retested, rivals, importer, admin, subject, handled>>
  BY DEF RetestFails
<1>2. /\ retester' \in [Retester -> RetestState] /\ retester'[q] = IdleRetest
      /\ \A p \in Retester \ {q} : /\ retester'[p].finding = retester[p].finding
                                   /\ retester'[p].result = retester[p].result
                                   /\ retester'[p].late <=> retester[p].late
  BY <1>1, RetestersAfterFacts DEF FindingsIInv
<1>3. Existing' = Existing  BY <1>1 DEF Existing, Exists
<1>4. LateAreRivals'
  BY <1>1, <1>2, <1>3 DEF FindingsIInv, LateAreRivals, Retesting, IdleRetest
<1>5. QED  BY <1>1, <1>2, <1>4, RetestQuiet

\* The row is stored: it is the latest one, which leaves the others that it has
\* overtaken as its rivals, or it is one of the rivals of the latest.
LEMMA RetestCommitInv ==
  ASSUME FindingsIInv, NEW q \in Retester, RetestCommit(q)
  PROVE  FindingsIInv'
<1> DEFINE f == retester[q].finding
           result == retester[q].result
           late == Overtaken(q)
<1>1. /\ Retesting(q) /\ RetestStored(q)
      /\ finding' = [finding EXCEPT ![f].status = StatusAfter[result]]
      /\ UNCHANGED <<instance, importer, admin, subject, handled>>
  BY DEF RetestCommit
<1>2. f \in Existing /\ f \in Finding /\ Exists(f) /\ result \in RetestResult
  BY <1>1 DEF FindingsIInv, LateAreRivals, Existing
<1>3. StatusAfter[result] \in FindingStatus /\ result # "none"
  BY <1>2 DEF StatusAfter, FindingStatus, RetestResult
<1>4. /\ retested \in [Finding -> RetestResult \cup {"none"}]
      /\ rivals \in [Finding -> SUBSET RetestResult] /\ handled' \subseteq Finding
  BY <1>1 DEF FindingsIInv, FindingTypes
<1>5. CASE /\ retester[q].late /\ retester' = RetestersAfter(q, {})
           /\ UNCHANGED <<retested, rivals>>
  <2>1. /\ retester' \in [Retester -> RetestState] /\ retester'[q] = IdleRetest
        /\ \A p \in Retester \ {q} : /\ retester'[p].finding = retester[p].finding
                                     /\ retester'[p].result = retester[p].result
                                     /\ retester'[p].late <=> retester[p].late
    BY <1>5, RetestersAfterFacts DEF FindingsIInv
  <2>2. retested[f] # "none" /\ result \in rivals[f]
    BY <1>1, <1>5 DEF FindingsIInv, LateAreRivals
  <2>3. (\A g \in Finding : Exists(g)' <=> Exists(g)) => LateAreRivals'
    BY <1>5, <2>1 DEF FindingsIInv, LateAreRivals, Retesting, IdleRetest, Existing
  <2>4. \E x \in {retested'[f]} \cup rivals'[f] : StatusAfter[result] = StatusAfter[x]
    BY <1>5, <2>2
  <2> HIDE DEF f, result
  <2>5. QED  BY <1>1, <1>2, <1>3, <1>4, <1>5, <2>1, <2>2, <2>3, <2>4, StatusStep
<1>6. CASE /\ ~retester[q].late /\ retester' = RetestersAfter(q, late)
           /\ retested' = [retested EXCEPT ![f] = result]
           /\ rivals' = [rivals EXCEPT ![f] = {retester[p].result : p \in late}]
  <2>1. /\ retester' \in [Retester -> RetestState] /\ retester'[q] = IdleRetest
        /\ \A p \in Retester \ {q} : /\ retester'[p].finding = retester[p].finding
                                     /\ retester'[p].result = retester[p].result
                                     /\ retester'[p].late <=> retester[p].late \/ p \in late
    BY <1>6, RetestersAfterFacts DEF FindingsIInv
  <2>2. \A p \in late : /\ p \in Retester \ {q} /\ retester[p].finding = f
                        /\ retester[p].result \in RetestResult
    <3> SUFFICES ASSUME NEW p \in late
                 PROVE  /\ p \in Retester \ {q} /\ retester[p].finding = f
                        /\ retester[p].result \in RetestResult
      OBVIOUS
    <3>1. p \in Retester \ {q} /\ retester[p].finding = f  BY DEF Overtaken
    <3>2. Retesting(p)  BY <1>1, <3>1 DEF Retesting
    <3>3. QED  BY <3>1, <3>2 DEF FindingsIInv, LateAreRivals
  <2>3. \A p \in Retester \ {q} : retester[p].finding = f /\ retester[p].late => p \in late
    BY DEF Overtaken
  <2> DEFINE results == {retester[p].result : p \in late}
  <2>4. results \subseteq RetestResult  BY <2>2
  <2>5. \A p \in late : retester[p].result \in results  OBVIOUS
  <2> HIDE DEF f, result, late, results
  <2>6. rivals' = [rivals EXCEPT ![f] = results]  BY <1>6 DEF results
  <2>7. /\ retested' \in [Finding -> RetestResult \cup {"none"}]
        /\ rivals' \in [Finding -> SUBSET RetestResult]
        /\ retested'[f] = result /\ rivals'[f] = results
        /\ \A g \in Finding \ {f} : retested'[g] = retested[g] /\ rivals'[g] = rivals[g]
    BY <1>2, <1>4, <1>6, <2>4, <2>6
  <2>8. ASSUME \A g \in Finding : Exists(g)' <=> Exists(g) PROVE LateAreRivals'
    <3>1. Existing' = Existing  BY <2>8 DEF Existing
    <3> SUFFICES ASSUME NEW p \in Retester, retester'[p].finding # NoFinding
                 PROVE  /\ retester'[p].finding \in Existing' /\ retester'[p].result \in RetestResult
                        /\ retester'[p].late =>
                             /\ retested'[retester'[p].finding] # "none"
                             /\ retester'[p].result \in rivals'[retester'[p].finding]
      BY DEF LateAreRivals, Retesting
    <3>2. p # q  BY <2>1 DEF IdleRetest
    <3>3. Retesting(p)  BY <2>1, <3>2 DEF Retesting
    <3>4. /\ retester[p].finding \in Existing /\ retester[p].result \in RetestResult
          /\ retester[p].late => /\ retested[retester[p].finding] # "none"
                                 /\ retester[p].result \in rivals[retester[p].finding]
      BY <3>3 DEF FindingsIInv, LateAreRivals
    <3>5. retester[p].finding \in Finding  BY <3>4 DEF Existing
    <3>6. CASE retester[p].finding = f
      <4>1. retester'[p].late => p \in late  BY <2>1, <2>3, <3>2, <3>6
      <4>2. QED  BY <1>3, <2>1, <2>5, <2>7, <3>1, <3>2, <3>4, <3>6, <4>1
    <3>7. CASE retester[p].finding # f
      <4>1. p \notin late  BY <2>2, <3>7
      <4>2. QED  BY <2>1, <2>7, <3>1, <3>2, <3>4, <3>5, <3>7, <4>1
    <3>8. QED  BY <3>6, <3>7
  <2>9. \E x \in {retested'[f]} \cup rivals'[f] : StatusAfter[result] = StatusAfter[x]
    BY <2>7
  <2>10. finding' = [finding EXCEPT ![f].status = StatusAfter[result]]  BY <1>1 DEF f, result
  <2>11. QED
    BY <1>1, <1>2, <1>3, <1>4, <2>1, <2>7, <2>8, <2>9, <2>10, StatusStep DEF f, result
<1>7. QED  BY <1>1, <1>5, <1>6 DEF RetestStored

\* A new row is fresh, and the only one that may be a new copy.
LEMMA NewRowFacts ==
  ASSUME FindingsIInv, NEW f \in Finding, NEW i \in StoredItem, NEW source \in {"hand", "import"},
         NewRow(f, i, source), UNCHANGED <<retested, rivals, retester, handled>>
  PROVE  /\ finding' \in [Finding -> FindingRow]
         /\ FreeRowsFresh' /\ RowsHaveItems' /\ LateAreRivals' /\ StatusFollowsRetests'
         /\ \A k : Copies(k)' \subseteq Copies(k) \cup {f}
         /\ \A k : source = "hand" \/ Key(i) # k => Copies(k)' \subseteq Copies(k)
<1> DEFINE new == [item |-> i, source |-> source, status |-> "OPEN", draft |-> 0, guidance |-> 0]
<1>1. ~Exists(f) /\ finding' = [finding EXCEPT ![f] = new]  BY DEF NewRow
<1>2. finding \in [Finding -> FindingRow]  BY DEF FindingsIInv, FindingTypes
<1>3. new \in FindingRow  BY FindingsAssumption DEF FindingRow, FindingStatus
<1>4. finding'[f] = new /\ \A g \in Finding \ {f} : finding'[g] = finding[g]  BY <1>1, <1>2
<1>5. finding' \in [Finding -> FindingRow]  BY <1>1, <1>2, <1>3
<1>6. /\ new.item = i /\ new.source = source /\ new.status = "OPEN" /\ new.source # "none"
  OBVIOUS
<1> HIDE DEF new
<1>7. retested[f] = "none"  BY <1>1 DEF FindingsIInv, FreeRowsFresh
<1>8. \A g \in Finding \ {f} : Exists(g)' <=> Exists(g)  BY <1>4 DEF Exists
<1>9. Exists(f)'  BY <1>4, <1>6 DEF Exists
<1>10. FreeRowsFresh'  BY <1>8, <1>9 DEF FindingsIInv, FreeRowsFresh
<1>11. RowsHaveItems'  BY <1>4, <1>6, <1>8 DEF FindingsIInv, RowsHaveItems
<1>12. StatusFollowsRetests'
  <2> SUFFICES ASSUME NEW g \in Finding, Exists(g)', g \notin handled
               PROVE  \/ retested[g] = "none" /\ finding'[g].status = "OPEN"
                      \/ \E result \in {retested[g]} \cup rivals[g] :
                           retested[g] # "none" /\ finding'[g].status = StatusAfter[result]
    BY DEF StatusFollowsRetests, Existing
  <2>1. CASE g = f  BY <2>1, <1>4, <1>6, <1>7
  <2>2. CASE g # f
    <3>1. g \in Existing \ handled /\ finding'[g] = finding[g]  BY <2>2, <1>4, <1>8 DEF Existing
    <3>2. QED  BY <3>1 DEF FindingsIInv, StatusFollowsRetests
  <2>3. QED  BY <2>1, <2>2
<1>13. ASSUME NEW k, NEW g \in Copies(k)' PROVE g \in Copies(k) \/ g = f
  BY <1>4, <1>13 DEF Copies, Untouched
<1>14. ASSUME NEW k, source = "hand" \/ Key(i) # k, NEW g \in Copies(k)' PROVE g \in Copies(k)
  <2>1. g \in Finding /\ finding'[g].source = "import" /\ Key(finding'[g].item) = k
    BY <1>14 DEF Copies, Untouched
  <2>2. g # f  BY <2>1, <1>4, <1>6, <1>14
  <2>3. QED  BY <2>2, <1>13, <1>14
<1>15. LateAreRivals'
  <2>1. Existing \subseteq Existing'  BY <1>8, <1>9 DEF Existing
  <2>2. QED  BY <2>1 DEF FindingsIInv, LateAreRivals, Retesting
<1>16. QED  BY <1>5, <1>10, <1>11, <1>12, <1>13, <1>14, <1>15

LEMMA CreateByHandInv ==
  ASSUME FindingsIInv, NEW f \in Finding, NEW i \in instance.hand, CreateByHand(f, i)
  PROVE  FindingsIInv'
<1>1. i \in Item /\ i.severity \in Severity
  BY FindingsAssumption DEF FindingsIInv, FindingTypes
<1>2. i \in StoredItem  BY <1>1, AdaptedKeepsKey
<1>3. NewRow(f, i, "hand") /\ UNCHANGED <<instance, retested, rivals, retester, importer, admin, subject, handled>>
  BY DEF CreateByHand
<1>4. /\ finding' \in [Finding -> FindingRow]
      /\ FreeRowsFresh' /\ RowsHaveItems' /\ LateAreRivals' /\ StatusFollowsRetests'
      /\ \A k : Copies(k)' \subseteq Copies(k)
  BY <1>2, <1>3, NewRowFacts
<1>5. FindingTypes'  BY <1>3, <1>4 DEF FindingsIInv, FindingTypes
<1>6. \A k : Unaware(k)' = Unaware(k)  BY <1>3 DEF Unaware
<1>7. CopiesBounded'  BY <1>4, <1>6, NoMoreCopies DEF FindingsIInv
<1>8. QED  BY <1>4, <1>5, <1>7 DEF FindingsIInv

LEMMA ImportCreateInv ==
  ASSUME FindingsIInv, NEW p \in Importer, NEW i \in Item, NEW f \in Finding, ImportCreate(p, i, f)
  PROVE  FindingsIInv'
<1> DEFINE new == [pc |-> "items", known |-> importer[p].known \cup {Key(i)},
                   todo |-> importer[p].todo \ {i}]
<1>1. /\ importer[p].pc = "items" /\ Key(i) \notin importer[p].known
      /\ NewRow(f, Adapted(i), "import")
      /\ importer' = [importer EXCEPT ![p] = new]
      /\ UNCHANGED <<instance, retested, rivals, retester, admin, subject, handled>>
  BY DEF ImportCreate
<1>2. Adapted(i) \in StoredItem /\ Key(Adapted(i)) = Key(i) /\ Key(i) \in ItemKey
  BY AdaptedKeepsKey
<1>3. /\ finding' \in [Finding -> FindingRow]
      /\ FreeRowsFresh' /\ RowsHaveItems' /\ LateAreRivals' /\ StatusFollowsRetests'
      /\ \A k : Copies(k)' \subseteq Copies(k) \cup {f}
      /\ \A k : Key(i) # k => Copies(k)' \subseteq Copies(k)
  BY <1>1, <1>2, NewRowFacts
<1>4. importer \in [Importer -> ImportState]  BY DEF FindingsIInv, FindingTypes
<1>5. new \in ImportState  BY <1>2, <1>4 DEF ImportState
<1>6. /\ importer' \in [Importer -> ImportState]
      /\ importer'[p] = new /\ \A q \in Importer \ {p} : importer'[q] = importer[q]
  BY <1>1, <1>4, <1>5
<1>7. FindingTypes'  BY <1>1, <1>3, <1>6 DEF FindingsIInv, FindingTypes
<1>8. new.known = importer[p].known \cup {Key(i)}  OBVIOUS
<1> HIDE DEF new
<1>9. \A k : Unaware(k)' \subseteq Unaware(k)  BY <1>1, <1>6, <1>8 DEF Unaware
<1>10. CopiesBounded'
  <2> SUFFICES ASSUME NEW k \in ItemKey, Copies(k)' # {}
               PROVE  Cardinality(Copies(k)') + Cardinality(Unaware(k)') <= Cardinality(Importer)
    BY DEF CopiesBounded
  <2>1. CASE k = Key(i)
    <3>1. p \in Unaware(k)  BY <1>1, <2>1 DEF Unaware
    <3>2. p \notin Unaware(k)'  BY <1>6, <1>8, <2>1 DEF Unaware
    <3>3. Unaware(k)' \subseteq Unaware(k) \ {p}  BY <1>9, <3>2
    <3>4. QED  BY <1>3, <3>1, <3>3, OneMoreCopy DEF FindingsIInv
  <2>2. CASE k # Key(i)
    <3>1. Copies(k)' \subseteq Copies(k)  BY <1>3, <2>2
    <3>2. QED  BY <1>9, <3>1, FewerCopies DEF FindingsIInv
  <2>3. QED  BY <2>1, <2>2
<1>11. QED  BY <1>3, <1>7, <1>10 DEF FindingsIInv

(***************************************************************************)
(* The budget.  Whatever the findings do, the AI calls go through its      *)
(* gate: the composed system implements AiBudget.                          *)
(***************************************************************************)
LEMMA AskIsBudgeted ==
  ASSUME FindingTypes, NEW c, Ask(c), c \in instance.rows \cup Request,
         instance.provider = "anthropic"
  PROVE  BudgetNext
<1>1. c \in Caller  BY FindingsAssumption DEF FindingTypes
<1>2. QED  BY <1>1 DEF BudgetNext

LEMMA TriageIsBudgeted ==
  ASSUME FindingTypes, NEW f \in instance.rows, Triage(f)
  PROVE  [BudgetNext]_budgetVars
  BY AskIsBudgeted DEF Triage

LEMMA EndIsBudgeted ==
  ASSUME BudgetTypeOK, NEW c, CallEnds(c)
  PROVE  [BudgetNext]_budgetVars
<1>1. CASE c \in Caller  BY <1>1 DEF BudgetNext
<1>2. CASE c \notin Caller  BY <1>2 DEF CallEnds, BudgetTypeOK, budgetVars
<1>3. QED  BY <1>1, <1>2

LEMMA FindingsNextBudgeted ==
  ASSUME FindingTypes, BudgetTypeOK, [FindingsNext]_allVars
  PROVE  [BudgetNext]_budgetVars
<1>1. ASSUME NEW f \in Finding, NEW i \in instance.hand, CreateByHand(f, i)
      PROVE  [BudgetNext]_budgetVars
  <2>1. f \in instance.rows /\ (Triage(f) \/ UNCHANGED budgetVars)
    BY <1>1 DEF CreateByHand, NewRow
  <2>2. QED  BY <2>1, TriageIsBudgeted
<1>2. ASSUME NEW p \in Importer, NEW i \in Item, NEW f \in Finding, ImportCreate(p, i, f)
      PROVE  [BudgetNext]_budgetVars
  <2>1. f \in instance.rows /\ Triage(f)  BY <1>2 DEF ImportCreate, NewRow
  <2>2. QED  BY <2>1, TriageIsBudgeted
<1>3. ASSUME NEW r \in Request,
             \/ QueryRequest(r) \/ AttackPathRequest(r)
             \/ \E f \in Finding : TriageRequest(r, f)
      PROVE  [BudgetNext]_budgetVars
  <2>1. instance.provider = "anthropic" /\ Ask(r)
    BY <1>3 DEF QueryRequest, AttackPathRequest, TriageRequest, AiRequest
  <2>2. QED  BY <2>1, AskIsBudgeted
<1>4. ASSUME NEW c \in Caller, GateSteps(c) PROVE [BudgetNext]_budgetVars
  BY <1>4 DEF GateSteps, BudgetNext
<1>5. ASSUME NEW c, Drafted(c) \/ NotDrafted(c) \/ Answered(c)
      PROVE  [BudgetNext]_budgetVars
  <2>1. CallEnds(c)  BY <1>5 DEF Drafted, NotDrafted, Answered
  <2>2. QED  BY <2>1, EndIsBudgeted
<1>6. CASE Hours  BY <1>6 DEF Hours, BudgetNext
<1>7. CASE \/ \E p \in Importer, batch \in instance.batches : ImportStart(p, batch)
           \/ \E p \in Importer, i \in Item : ImportSkip(p, i)
           \/ \E p \in Importer : ImportEnds(p)
           \/ \E f \in Finding, s \in instance.statuses : SetStatus(f, s)
           \/ \E q \in instance.retesters :
                \/ \E f \in Finding, result \in instance.results : RetestInsert(q, f, result)
                \/ RetestCommit(q) \/ RetestFails(q)
           \/ \E a \in Admin : AcceptWrite(a) \/ \E f \in Finding : AcceptRead(a, f)
           \/ UNCHANGED allVars
  BY <1>7 DEF ImportStart, ImportSkip, ImportEnds, SetStatus, RetestInsert, RetestCommit,
              RetestFails, AcceptWrite, AcceptRead, allVars
<1>8. QED
  BY <1>1, <1>2, <1>3, <1>4, <1>5, <1>6, <1>7 DEF FindingsNext

LEMMA FindingsNextInv ==
  ASSUME FindingsIInv, [FindingsNext]_allVars
  PROVE  FindingsIInv'
<1>1. ASSUME NEW r \in Request,
             \/ QueryRequest(r) \/ AttackPathRequest(r) \/ Answered(r)
             \/ \E f \in Finding : TriageRequest(r, f)
      PROVE  FindingsIInv'
  <2>1. CASE Answered(r)
    <3>1. UNCHANGED findingVars  BY <2>1 DEF Answered
    <3>2. subject' \in [Request -> Finding \cup {NoFinding}]
      BY <3>1 DEF findingVars, FindingsIInv, FindingTypes
    <3>3. QED  BY <3>1, <3>2, CallStep DEF findingVars
  <2>2. CASE ~Answered(r)
    <3>1. PICK f \in Finding \cup {NoFinding} : AiRequest(r, f)
      BY <1>1, <2>2 DEF QueryRequest, AttackPathRequest, TriageRequest
    <3>2. subject' = [subject EXCEPT ![r] = f]
          /\ UNCHANGED <<instance, finding, retested, rivals, retester, importer, admin, handled>>
      BY <3>1 DEF AiRequest
    <3>3. subject' \in [Request -> Finding \cup {NoFinding}]
      BY <3>2 DEF FindingsIInv, FindingTypes
    <3>4. QED  BY <3>2, <3>3, CallStep
  <2>3. QED  BY <2>1, <2>2
<1>2. ASSUME UNCHANGED findingVars PROVE FindingsIInv'
  <2>1. subject' \in [Request -> Finding \cup {NoFinding}]
    BY <1>2 DEF findingVars, FindingsIInv, FindingTypes
  <2>2. QED  BY <1>2, <2>1, CallStep DEF findingVars
<1>3. ASSUME NEW c \in Caller, GateSteps(c) \/ NotDrafted(c) PROVE FindingsIInv'
  <2>1. UNCHANGED findingVars  BY <1>3 DEF GateSteps, NotDrafted
  <2>2. QED  BY <2>1, <1>2
<1>4. CASE Hours
  <2>1. UNCHANGED findingVars  BY <1>4 DEF Hours
  <2>2. QED  BY <2>1, <1>2
<1>5. CASE UNCHANGED allVars
  <2>1. UNCHANGED findingVars  BY <1>5 DEF allVars, findingVars
  <2>2. QED  BY <2>1, <1>2
<1>6. ASSUME NEW p \in Importer,
             \/ \E batch \in instance.batches : ImportStart(p, batch)
             \/ \E i \in Item : ImportSkip(p, i) \/ \E f \in Finding : ImportCreate(p, i, f)
             \/ ImportEnds(p)
      PROVE  FindingsIInv'
  BY <1>6, ImportStartInv, ImportSkipInv, ImportCreateInv, ImportEndsInv
<1>7. ASSUME NEW f \in Finding,
             \/ \E i \in instance.hand : CreateByHand(f, i)
             \/ \E s \in instance.statuses : SetStatus(f, s)
      PROVE  FindingsIInv'
  BY <1>7, CreateByHandInv, SetStatusInv
<1>8. ASSUME NEW a \in Admin, AcceptWrite(a) \/ \E f \in Finding : AcceptRead(a, f)
      PROVE  FindingsIInv'
  BY <1>8, AcceptWriteInv, AcceptReadInv
<1>9. ASSUME NEW q \in instance.retesters,
             \/ \E f \in Finding, result \in instance.results : RetestInsert(q, f, result)
             \/ RetestCommit(q) \/ RetestFails(q)
      PROVE  FindingsIInv'
  <2>1. q \in Retester  BY FindingsAssumption DEF FindingsIInv, FindingTypes
  <2>2. QED  BY <1>9, <2>1, RetestInsertInv, RetestCommitInv, RetestFailsInv
<1>10. QED
  BY <1>1, <1>3, <1>4, <1>5, <1>6, <1>7, <1>8, <1>9, DraftedInv DEF FindingsNext

LEMMA FindingsBudgetInv ==
  ASSUME FindingsIInv, BudgetIInv, [FindingsNext]_allVars
  PROVE  BudgetIInv'
<1>1. [BudgetNext]_budgetVars
  BY FindingsNextBudgeted DEF FindingsIInv, BudgetIInv
<1>2. QED  BY <1>1, BudgetNextInv

THEOREM FindingsIInvHolds == FindingsSpec => [](FindingsIInv /\ BudgetIInv)
<1>1. FindingsInit => FindingsIInv /\ BudgetIInv
  BY FindingsInitInv, BudgetInitInv DEF FindingsInit
<1>2. FindingsIInv /\ BudgetIInv /\ [FindingsNext]_allVars => FindingsIInv' /\ BudgetIInv'
  BY FindingsNextInv, FindingsBudgetInv
<1>3. QED  BY <1>1, <1>2, PTL DEF FindingsSpec

(***************************************************************************)
(* What follows.                                                           *)
(***************************************************************************)
\* The tables, imports, acceptances and calls are well formed.
THEOREM FindingsTypes == FindingsSpec => []FindingsTypeOK
<1>1. FindingsIInv /\ BudgetIInv => FindingsTypeOK
  BY TypesSplit DEF FindingsIInv, BudgetIInv
<1>2. QED  BY <1>1, FindingsIInvHolds, PTL

\* importScanItems: one issue has at most as many findings nobody has touched
\* as imports run together.
THEOREM DuplicatesAreBounded == FindingsSpec => []DuplicatesBounded
<1>1. ASSUME FindingsIInv PROVE DuplicatesBounded
  <2> SUFFICES ASSUME NEW k \in ItemKey
               PROVE  Cardinality(Copies(k)) <= Cardinality(Importer)
    BY DEF DuplicatesBounded, Copies, ItemKey
  <2>1. /\ Cardinality(Copies(k)) \in Nat /\ Cardinality(Unaware(k)) \in Nat
        /\ Cardinality(Importer) \in Nat
    BY SetsFinite
  <2>2. CASE Copies(k) = {}
    <3>1. Cardinality(Copies(k)) = 0  BY <2>2, FS_EmptySet
    <3>2. QED  BY <2>1, <3>1
  <2>3. CASE Copies(k) # {}
    <3>1. Cardinality(Copies(k)) + Cardinality(Unaware(k)) <= Cardinality(Importer)
      BY <1>1, <2>3 DEF FindingsIInv, CopiesBounded
    <3>2. QED  BY <2>1, <3>1
  <2>4. QED  BY <2>2, <2>3
<1>2. QED  BY <1>1, FindingsIInvHolds, PTL

\* retests.routes.ts: the status of a finding nobody handled is its latest
\* retest's, or that of an older one that was in progress with it.
THEOREM StatusesFollowRetests == FindingsSpec => []StatusFollowsRetests
<1>1. FindingsIInv => StatusFollowsRetests  BY DEF FindingsIInv
<1>2. QED  BY <1>1, FindingsIInvHolds, PTL

\* Every step of imports, triage and requests is one of the AI gate's, or leaves
\* it alone: the composed system implements AiBudget's specification.
THEOREM FindingsImplementBudget == FindingsSpec => BudgetSpec
<1>1. FindingsInit => BudgetInit  BY DEF FindingsInit
<1>2. FindingsIInv /\ BudgetIInv /\ [FindingsNext]_allVars => [BudgetNext]_budgetVars
  BY FindingsNextBudgeted DEF FindingsIInv, BudgetIInv
<1>3. QED  BY <1>1, <1>2, FindingsIInvHolds, PTL DEF FindingsSpec, BudgetSpec

\* The gate's bound on what the caps are exceeded by, in the composed system.
THEOREM CapsOvershotByFindings == FindingsSpec => []OvershootBounded
<1>1. QED  BY FindingsImplementBudget, CapsOvershotByCallers, PTL

(***************************************************************************)
(* Orders and runs                                                         *)
(***************************************************************************)
\* A set of numbers has a least one: what an induction needs.
LEMMA Least ==
  ASSUME NEW T \in SUBSET Nat, T # {}
  PROVE  \E x \in T : \A y \in T : x <= y
<1> DEFINE TT == {0..n : n \in T}
<1>1. TT \subseteq FiniteSubsetsOf(Nat) /\ TT # {}
  <2>1. ASSUME NEW n \in T PROVE 0..n \in FiniteSubsetsOf(Nat)
    BY FS_Interval DEF FiniteSubsetsOf
  <2> QED  BY <2>1
<1>2. PICK X \in TT : \A Y \in TT : <<Y, X>> \notin StrictSubsetOrdering(Nat)
  <2> HIDE DEF TT
  <2> QED  BY <1>1, WFMin, FS_StrictSubsetOrderingWellFounded
<1>3. PICK x \in T : X = 0..x
  OBVIOUS
<1>4. ASSUME NEW y \in T, y < x PROVE FALSE
  <2>1. 0..y \in TT
    OBVIOUS
  <2>2. 0..y \subseteq Nat /\ 0..x \subseteq Nat /\ 0..y \subseteq 0..x /\ 0..y # 0..x
    BY <1>4
  <2>3. <<0..y, 0..x>> \in StrictSubsetOrdering(Nat)
    BY <2>2 DEF StrictSubsetOrdering
  <2> QED  BY <2>1, <2>3, <1>2, <1>3
<1> QED  BY <1>4

Below(S, R, x) == {y \in S : <<y, x>> \in R}
Total(S, R) ==
  /\ \A x, y \in S : <<x, y>> \in R \/ <<y, x>> \in R
  /\ \A x, y \in S : <<x, y>> \in R /\ <<y, x>> \in R => x = y
  /\ \A x, y, z \in S : <<x, y>> \in R /\ <<y, z>> \in R => <<x, z>> \in R

\* In a total order the places, counted from one, are each taken once.
LEMMA Places ==
  ASSUME NEW S, IsFiniteSet(S), NEW R, Total(S, R)
  PROVE  /\ [x \in S |-> Cardinality(Below(S, R, x))] \in Bijection(S, 1..Cardinality(S))
         /\ \A x, y \in S : Cardinality(Below(S, R, x)) <= Cardinality(Below(S, R, y)) => <<x, y>> \in R
<1> DEFINE place(x) == Cardinality(Below(S, R, x))
           places == [x \in S |-> place(x)]
<1>1. ASSUME NEW x \in S
      PROVE  /\ IsFiniteSet(Below(S, R, x)) /\ place(x) \in 1..Cardinality(S) /\ x \in Below(S, R, x)
  <2>1. Below(S, R, x) \in SUBSET S /\ x \in Below(S, R, x)
    BY DEF Below, Total
  <2>2. IsFiniteSet(Below(S, R, x)) /\ place(x) <= Cardinality(S)
    BY <2>1, FS_Subset
  <2>3. place(x) \in Nat /\ Cardinality(S) \in Nat /\ place(x) # 0
    BY <2>1, <2>2, FS_CardinalityType, FS_EmptySet
  <2> QED  BY <2>1, <2>2, <2>3
<1>2. ASSUME NEW x \in S, NEW y \in S, x # y, <<x, y>> \in R
      PROVE  place(x) < place(y)
  <2>1. y \notin Below(S, R, x)
    BY <1>2 DEF Below, Total
  <2>2. Below(S, R, x) \in SUBSET (Below(S, R, y) \ {y})
    BY <1>2, <2>1 DEF Below, Total
  <2>3. /\ IsFiniteSet(Below(S, R, y) \ {y})
        /\ Cardinality(Below(S, R, y) \ {y}) = place(y) - 1
    BY <1>1, FS_RemoveElement
  <2>4. place(x) <= Cardinality(Below(S, R, y) \ {y})
    BY <2>2, <2>3, FS_Subset
  <2> QED  BY <1>1, <2>3, <2>4
<1>3. ASSUME NEW x \in S, NEW y \in S, place(x) <= place(y)
      PROVE  <<x, y>> \in R
  <2>1. CASE x = y
    BY <2>1 DEF Total
  <2>2. CASE x # y
    <3>1. place(x) \in Nat /\ place(y) \in Nat
      BY <1>1
    <3>2. <<y, x>> \in R => place(y) < place(x)
      BY <1>2, <2>2
    <3> QED  BY <1>3, <3>1, <3>2 DEF Total
  <2> QED  BY <2>1, <2>2
<1>4. places \in [S -> 1..Cardinality(S)]
  BY <1>1
<1>5. places \in Injection(S, 1..Cardinality(S))
  <2>1. \A x, y \in S : places[x] = places[y] => x = y
    <3> SUFFICES ASSUME NEW x \in S, NEW y \in S, place(x) = place(y) PROVE x = y
      OBVIOUS
    <3>1. place(x) \in Nat /\ place(y) \in Nat
      BY <1>1
    <3>2. <<x, y>> \in R
      BY <1>3, <3>1
    <3>3. <<y, x>> \in R
      BY <1>3, <3>1
    <3> QED  BY <3>2, <3>3 DEF Total
  <2> HIDE DEF places
  <2> QED  BY <1>4, <2>1 DEF Injection, IsInjective
<1>6. IsFiniteSet(1..Cardinality(S)) /\ Cardinality(1..Cardinality(S)) = Cardinality(S)
  BY FS_CardinalityType, FS_Interval
<1>7. places \in Surjection(S, 1..Cardinality(S))
  <2> HIDE DEF places
  <2> QED  BY <1>5, <1>6, FS_Injection
<1>8. places \in Bijection(S, 1..Cardinality(S))
  BY <1>5, <1>7 DEF Bijection
<1> QED  BY <1>3, <1>8

\* So each place has one element, and they come in the order's order.
LEMMA PlaceOf ==
  ASSUME NEW S, IsFiniteSet(S), NEW R, Total(S, R), NEW k \in 1..Cardinality(S)
  PROVE  \E x \in S : /\ Cardinality(Below(S, R, x)) = k
                      /\ \A y \in S : Cardinality(Below(S, R, y)) = k => y = x
<1> DEFINE places == [x \in S |-> Cardinality(Below(S, R, x))]
<1>1. places \in Bijection(S, 1..Cardinality(S))
  BY Places
<1>2. /\ \A t \in 1..Cardinality(S) : \E x \in S : places[x] = t
      /\ \A x, y \in S : places[x] = places[y] => x = y
  <2> HIDE DEF places
  <2> QED  BY <1>1 DEF Bijection, Surjection, Injection, IsInjective
<1>3. PICK x \in S : places[x] = k
  BY <1>2
<1> QED  BY <1>2, <1>3

(***************************************************************************)
(* The list the route ranks                                                *)
(***************************************************************************)
\* The rows of the live findings, in some order.
IsRead(rows) ==
  /\ rows = [k \in 1..Cardinality(Live) |-> rows[k]]
  /\ \A k \in DOMAIN rows : \E f \in Live : rows[k] = Row(f)
  /\ \A f \in Live : \E k \in DOMAIN rows : rows[k] = Row(f)
  /\ \A k, l \in DOMAIN rows : rows[k].id = rows[l].id => k = l

LEMMA LiveIsFinite == IsFiniteSet(Live) /\ Cardinality(Live) \in Nat
<1>1. Live \in SUBSET Finding
  BY DEF Live, Existing
<1> QED  BY <1>1, FindingsAssumption, FS_Subset, FS_CardinalityType

LEMMA RowId == ASSUME NEW f PROVE Row(f).id = f
BY DEF Row

LEMMA ReadsAreRows == ASSUME NEW rows \in Reads PROVE IsRead(rows)
<1> DEFINE n == Cardinality(Live)
<1>1. PICK order \in SetToSeqs(Live) : rows = [k \in DOMAIN order |-> Row(order[k])]
  BY DEF Reads
<1>2. IsFiniteSet(Live) /\ n \in Nat
  BY LiveIsFinite
<1>3. order \in [1..n -> Live] /\ \A i, j \in 1..n : i # j => order[i] # order[j]
  BY <1>1 DEF SetToSeqs
<1>4. order \in Injection(1..n, Live)
  BY <1>3 DEF Injection, IsInjective
<1>5. order \in Surjection(1..n, Live)
  <2>1. Cardinality(1..n) = n
    BY <1>2, FS_Interval
  <2> QED  BY <1>2, <1>4, <2>1, FS_Injection
<1>6. \A f \in Live : \E k \in 1..n : order[k] = f
  BY <1>5 DEF Surjection
<1>7. DOMAIN rows = 1..n /\ \A k \in 1..n : rows[k] = Row(order[k]) /\ rows[k].id = order[k]
  BY <1>1, <1>3, RowId
<1>8. rows = [k \in 1..n |-> rows[k]]
  BY <1>1, <1>3
<1> QED  BY <1>2, <1>3, <1>6, <1>7, <1>8 DEF IsRead

\* A score is an integer.
LEMMA ScoreTyped ==
  ASSUME FindingTypes, RowsHaveItems, NEW f \in Live
  PROVE  /\ Exploitability(Row(f)) \in Int
         /\ SeverityOrder[Row(f).severity] \in Int
<1> DEFINE r == Row(f)
<1>1. /\ finding[f].item \in StoredItem /\ finding[f].status \in {"OPEN", "REMEDIATING", "RETESTED_FAIL"}
  BY DEF Live, Existing, RowsHaveItems
<1>2. PICK i \in Item : finding[f].item = Adapted(i)
  BY <1>1 DEF StoredItem
<1>3. i \in [asset : Asset \cup {NoAsset}, title : Title \cup {NoTitle},
             severity : Severity \cup {"unlisted"}, cvss : {NoCvss} \cup 0..100,
             days : Nat, human : BOOLEAN, steps : BOOLEAN]
  BY FindingsAssumption
<1>4. /\ finding[f].item.severity \in Severity /\ finding[f].item.cvss \in Int
      /\ finding[f].item.days \in Nat
  BY <1>2, <1>3 DEF Adapted, Severity, NoCvss
<1>5. /\ r.severity \in Severity /\ r.cvss \in Int /\ r.days \in Nat
      /\ r.status \in {"OPEN", "REMEDIATING", "RETESTED_FAIL"}
  BY <1>1, <1>4 DEF Row
<1>6. SeverityBase[r.severity] \in Int /\ SeverityOrder[r.severity] \in Int
  BY <1>5 DEF Severity, SeverityBase, SeverityOrder
<1>7. StatusWeight[r.status] \in {7, 10}
  BY <1>5 DEF StatusWeight
<1>8. SeverityTwice(r) \in Int
  BY <1>5, <1>6 DEF SeverityTwice
<1>9. Exploitability(r) \in Int
  <2> HIDE DEF r
  <2> DEFINE facing == IF AssetTraits[r.asset].facing THEN 6 ELSE 5
             days   == IF r.days > 90 THEN 90 ELSE r.days
             weight == StatusWeight[r.status]
             raw    == (6 * SeverityTwice(r) * facing + 10 * days) * weight
             score  == (raw + 300) \div 600
  <2>1. facing \in {5, 6} /\ days \in Int
    BY <1>5
  <2>2. raw \in Int
    <3> HIDE DEF facing, days, weight
    <3>1. weight \in {7, 10}
      BY <1>7 DEF weight
    <3> QED  BY <1>8, <2>1, <3>1
  <2>3. score \in Int
    <3> HIDE DEF raw
    <3> QED  BY <2>2
  <2>4. Exploitability(r) = IF score > 100 THEN 100 ELSE score
    BY DEF Exploitability
  <2> HIDE DEF score
  <2> QED  BY <2>3, <2>4
<1> QED  BY <1>5, <1>6, <1>9

\* A list is ranked if nothing is scored higher than what comes before it.
IsRanked(list) ==
  \A k, l \in DOMAIN list : k <= l => Exploitability(list[l]) <= Exploitability(list[k])

LEMMA RankedIsRead ==
  ASSUME FindingTypes, RowsHaveItems, NEW rows, IsRead(rows)
  PROVE  IsRead(Ranked(rows)) /\ IsRanked(Ranked(rows))
<1> DEFINE n == Cardinality(Live)
           D == 1..n
           E(i) == Exploitability(rows[i])
           Before(i, j) == \/ E(i) > E(j)
                           \/ E(i) = E(j) /\ i <= j
           R == {p \in D \X D : Before(p[1], p[2])}
           list == Ranked(rows)
<1>1. DOMAIN rows = D /\ n \in Nat /\ IsFiniteSet(D) /\ Cardinality(D) = n
  <2>1. n \in Nat /\ DOMAIN rows = D
    BY LiveIsFinite DEF IsRead
  <2>2. IsFiniteSet(D) /\ Cardinality(D) = n
    <3> HIDE DEF n
    <3> QED  BY <2>1, FS_Interval
  <2> QED  BY <2>1, <2>2
<1>0. /\ \A i \in D : \E f \in Live : rows[i] = Row(f)
      /\ \A f \in Live : \E i \in D : rows[i] = Row(f)
      /\ \A i, j \in D : rows[i].id = rows[j].id => i = j
  BY <1>1 DEF IsRead
<1>2. \A i \in D : E(i) \in Int
  BY <1>1, ScoreTyped DEF IsRead
<1>3. \A i, j \in D : <<i, j>> \in R <=> Before(i, j)
  OBVIOUS
<1>4. Total(D, R)
  <2> HIDE DEF R, E
  <2> QED  BY <1>1, <1>2, <1>3 DEF Total
<1> DEFINE place(i) == Cardinality({j \in DOMAIN rows : Before(j, i)})
<1>5. \A i \in D : place(i) = Cardinality(Below(D, R, i))
  <2> SUFFICES ASSUME NEW i \in D PROVE {j \in DOMAIN rows : Before(j, i)} = Below(D, R, i)
    OBVIOUS
  <2> HIDE DEF R, E
  <2> QED  BY <1>1, <1>3 DEF Below
<1> DEFINE from(k) == CHOOSE i \in DOMAIN rows : place(i) = k
<1>6. list = [k \in D |-> rows[from(k)]]
  BY <1>1 DEF Ranked
<1>7. \A k \in D : from(k) \in D /\ Cardinality(Below(D, R, from(k))) = k
  <2> SUFFICES ASSUME NEW k \in D PROVE from(k) \in D /\ Cardinality(Below(D, R, from(k))) = k
    OBVIOUS
  <2>1. PICK i \in D : Cardinality(Below(D, R, i)) = k
    <3> HIDE DEF R
    <3> QED  BY <1>1, <1>4, PlaceOf
  <2>2. place(i) = k
    BY <1>5, <2>1
  <2>3. from(k) \in D /\ place(from(k)) = k
    <3> HIDE DEF place
    <3> QED  BY <1>1, <2>2
  <2> QED  BY <1>5, <2>3
<1>8. \A i \in D : \E k \in D : from(k) = i
  <2> SUFFICES ASSUME NEW i \in D PROVE \E k \in D : from(k) = i
    OBVIOUS
  <2> DEFINE k == Cardinality(Below(D, R, i))
  <2> HIDE DEF R, from, place
  <2>1. k \in 1..n
    <3>1. [x \in D |-> Cardinality(Below(D, R, x))] \in Bijection(D, 1..Cardinality(D))
      BY <1>1, <1>4, Places
    <3>2. [x \in D |-> Cardinality(Below(D, R, x))] \in [D -> 1..Cardinality(D)]
      BY <3>1 DEF Bijection, Surjection
    <3> QED  BY <1>1, <3>2
  <2>2. \E x \in D : \A y \in D : Cardinality(Below(D, R, y)) = k => y = x
    <3> HIDE DEF k, D
    <3>1. k \in 1..Cardinality(D)
      BY <1>1, <2>1
    <3> QED  BY <1>1, <1>4, <3>1, PlaceOf
  <2>3. Cardinality(Below(D, R, from(k))) = k /\ from(k) \in D
    BY <1>7, <2>1
  <2>4. from(k) = i
    BY <2>2, <2>3
  <2> QED  BY <2>1, <2>4
<1>9. DOMAIN list = D /\ \A k \in D : list[k] = rows[from(k)]
  <2> HIDE DEF from, list
  <2> QED  BY <1>6
<1>10. IsRead(list)
  <2> HIDE DEF from, list, R
  <2>1. list = [k \in 1..Cardinality(Live) |-> list[k]]
    BY <1>6, <1>9
  <2> HIDE DEF D, n
  <2>2. \A k \in D : \E f \in Live : list[k] = Row(f)
    BY <1>0, <1>7, <1>9
  <2>3. \A f \in Live : \E k \in D : list[k] = Row(f)
    BY <1>0, <1>8, <1>9
  <2>4. \A k, l \in D : from(k) = from(l) => k = l
    BY <1>7
  <2>5. \A k, l \in D : list[k].id = list[l].id => k = l
    BY <1>0, <1>7, <1>9, <2>4
  <2> QED  BY <1>9, <2>1, <2>2, <2>3, <2>5, LiveIsFinite DEF IsRead
<1>11. IsRanked(list)
  <2> SUFFICES ASSUME NEW k \in D, NEW l \in D, k <= l
               PROVE  E(from(l)) <= E(from(k))
    <3> HIDE DEF from, list, R
    <3> QED  BY <1>9 DEF IsRanked
  <2>1. Cardinality(Below(D, R, from(k))) <= Cardinality(Below(D, R, from(l)))
    BY <1>7
  <2>2. <<from(k), from(l)>> \in R
    <3> HIDE DEF R, from
    <3> QED  BY <1>1, <1>4, <1>7, <2>1, Places
  <2>3. Before(from(k), from(l))
    <3> HIDE DEF from, E
    <3> QED  BY <2>2
  <2> HIDE DEF from, E, R
  <2> QED  BY <1>2, <1>7, <2>3
<1> QED  BY <1>10, <1>11

(***************************************************************************)
(* Clustering                                                              *)
(***************************************************************************)
Cluster == [title : Title \cup {NoTitle}, ids : SUBSET Finding, assets : SUBSET (Asset \cup {NoAsset}),
            severity : Severity, score : Int]

LEMMA RowTyped ==
  ASSUME FindingTypes, RowsHaveItems, NEW f \in Live
  PROVE  /\ Row(f).id = f /\ f \in Finding
         /\ Row(f).title \in Title \cup {NoTitle}
         /\ Row(f).asset \in Asset \cup {NoAsset}
         /\ Row(f).severity \in Severity
         /\ Exploitability(Row(f)) \in Int
<1>1. /\ finding[f].item \in StoredItem /\ f \in Finding
  BY DEF Live, Existing, RowsHaveItems
<1>2. PICK i \in Item : finding[f].item = Adapted(i)
  BY <1>1 DEF StoredItem
<1>3. i \in [asset : Asset \cup {NoAsset}, title : Title \cup {NoTitle},
             severity : Severity \cup {"unlisted"}, cvss : {NoCvss} \cup 0..100,
             days : Nat, human : BOOLEAN, steps : BOOLEAN]
  BY FindingsAssumption
<1>4. /\ finding[f].item.severity \in Severity /\ finding[f].item.cvss \in Int
      /\ finding[f].item.title \in Title \cup {NoTitle}
      /\ finding[f].item.asset \in Asset \cup {NoAsset}
  BY <1>2, <1>3 DEF Adapted, Severity, NoCvss
<1> QED  BY <1>1, <1>4, ScoreTyped DEF Row

\* The clusters of the first n rows of a ranked list.
ClustersOf(clusters, list, n) ==
  /\ clusters \in Seq(Cluster)
  /\ \A m \in 1..n : \E k \in DOMAIN clusters : list[m].id \in clusters[k].ids
  /\ \A k \in DOMAIN clusters : \A f \in clusters[k].ids : \E m \in 1..n : list[m].id = f
  /\ \A k, l \in DOMAIN clusters : k # l => clusters[k].ids \cap clusters[l].ids = {}
  /\ \A k \in DOMAIN clusters : \A m \in 1..n : list[m].id \in clusters[k].ids =>
       /\ SeverityOrder[list[m].severity] <= SeverityOrder[clusters[k].severity]
       /\ Exploitability(list[m]) <= clusters[k].score
  /\ \A k \in DOMAIN clusters : \E h \in 1..n :
       /\ list[h].id \in clusters[k].ids
       /\ list[h].title = clusters[k].title /\ Exploitability(list[h]) = clusters[k].score
       /\ \A m \in 1..n : list[m].id \in clusters[k].ids =>
            m = h \/ Similar(clusters[k].title, list[m].title)

LEMMA PlaceKeeps ==
  ASSUME FindingTypes, RowsHaveItems, NEW list, IsRead(list), IsRanked(list),
         NEW n \in Nat, n + 1 \in DOMAIN list, NEW clusters, ClustersOf(clusters, list, n)
  PROVE  ClustersOf(Place(clusters, list[n + 1]), list, n + 1)
<1> DEFINE r == list[n + 1]
           fits == {k \in DOMAIN clusters : Similar(clusters[k].title, r.title)}
           after == Place(clusters, r)
<1>1. /\ clusters \in Seq(Cluster) /\ DOMAIN clusters = 1..Len(clusters) /\ Len(clusters) \in Nat
      /\ \A k \in DOMAIN clusters : clusters[k] \in Cluster
  BY LenProperties, ElementOfSeq DEF ClustersOf
<1>2. /\ \A m \in 1..(n + 1) : m \in DOMAIN list /\ (m = n + 1 \/ m \in 1..n)
      /\ \A m \in 1..n : m \in 1..(n + 1) /\ m # n + 1
      /\ n + 1 \in 1..(n + 1)
  BY LiveIsFinite DEF IsRead
<1>3. \A m \in 1..(n + 1) :
        /\ list[m].id \in Finding /\ list[m].title \in Title \cup {NoTitle}
        /\ list[m].asset \in Asset \cup {NoAsset} /\ list[m].severity \in Severity
        /\ Exploitability(list[m]) \in Int
        /\ SeverityOrder[list[m].severity] \in Int
  BY <1>2, RowTyped, ScoreTyped DEF IsRead
<1>4. \A m \in 1..n : list[m].id # r.id /\ Exploitability(r) <= Exploitability(list[m])
  BY <1>2 DEF IsRead, IsRanked
<1>5. \A k \in DOMAIN clusters : r.id \notin clusters[k].ids
  <2> SUFFICES ASSUME NEW k \in DOMAIN clusters, r.id \in clusters[k].ids PROVE FALSE
    OBVIOUS
  <2>1. \E m \in 1..n : list[m].id = r.id
    BY DEF ClustersOf
  <2> QED  BY <1>4, <2>1
<1>6. CASE fits = {}
  <2> DEFINE new == NewCluster(r)
  <2>1. /\ new \in Cluster /\ new.ids = {r.id} /\ new.title = r.title
        /\ new.severity = r.severity /\ new.score = Exploitability(r)
    BY <1>2, <1>3 DEF NewCluster, Cluster
  <2>2. after = Append(clusters, new)
    BY <1>6 DEF Place
  <2>3. /\ after \in Seq(Cluster) /\ Len(after) = Len(clusters) + 1
        /\ DOMAIN after = 1..(Len(clusters) + 1)
        /\ after[Len(clusters) + 1] = new
        /\ \A k \in DOMAIN clusters : after[k] = clusters[k] /\ k # Len(clusters) + 1
        /\ \A k \in DOMAIN after : k \in DOMAIN clusters \/ k = Len(clusters) + 1
    <3> HIDE DEF new, after
    <3> QED  BY <1>1, <2>1, <2>2, AppendProperties, LenProperties
  <2>4. ClustersOf(after, list, n + 1)
    <3> HIDE DEF new, after, fits, r
    <3>1. \A m \in 1..(n + 1) : \E k \in DOMAIN after : list[m].id \in after[k].ids
      <4> TAKE m \in 1..(n + 1)
      <4>1. CASE m = n + 1
        BY <1>1, <2>1, <2>3, <4>1 DEF r
      <4>2. CASE m \in 1..n
        <5>1. PICK k \in DOMAIN clusters : list[m].id \in clusters[k].ids
          BY <4>2 DEF ClustersOf
        <5> QED  BY <1>1, <2>3, <5>1
      <4> QED  BY <1>2, <4>1, <4>2
    <3>2. \A k \in DOMAIN after : \A f \in after[k].ids : \E m \in 1..(n + 1) : list[m].id = f
      <4> SUFFICES ASSUME NEW k \in DOMAIN after, NEW f \in after[k].ids
                   PROVE  \E m \in 1..(n + 1) : list[m].id = f
        OBVIOUS
      <4>1. CASE k \in DOMAIN clusters
        <5>1. \E m \in 1..n : list[m].id = f
          BY <2>3, <4>1 DEF ClustersOf
        <5> QED  BY <1>2, <5>1
      <4>2. CASE k = Len(clusters) + 1
        BY <1>2, <2>1, <2>3, <4>2 DEF r
      <4> QED  BY <2>3, <4>1, <4>2
    <3>3. \A k, l \in DOMAIN after : k # l => after[k].ids \cap after[l].ids = {}
      <4>1. \A k, l \in DOMAIN clusters : k # l => clusters[k].ids \cap clusters[l].ids = {}
        BY DEF ClustersOf
      <4> QED  BY <1>5, <2>1, <2>3, <4>1
    <3>4. ASSUME NEW k \in DOMAIN after, NEW m \in 1..(n + 1), list[m].id \in after[k].ids
          PROVE  /\ SeverityOrder[list[m].severity] <= SeverityOrder[after[k].severity]
                 /\ Exploitability(list[m]) <= after[k].score
      <4>1. CASE k \in DOMAIN clusters
        <5>1. m \in 1..n
          BY <1>2, <1>5, <2>3, <3>4, <4>1 DEF r
        <5> QED  BY <2>3, <3>4, <4>1, <5>1 DEF ClustersOf
      <4>2. CASE k = Len(clusters) + 1
        <5>1. m = n + 1
          BY <1>2, <1>4, <2>1, <2>3, <3>4, <4>2
        <5> QED  BY <1>3, <2>1, <2>3, <4>2, <5>1 DEF r
      <4> QED  BY <2>3, <4>1, <4>2
    <3>5. ASSUME NEW k \in DOMAIN after
          PROVE  \E h \in 1..(n + 1) :
                   /\ list[h].id \in after[k].ids
                   /\ list[h].title = after[k].title /\ Exploitability(list[h]) = after[k].score
                   /\ \A m \in 1..(n + 1) : list[m].id \in after[k].ids =>
                        m = h \/ Similar(after[k].title, list[m].title)
      <4>1. CASE k \in DOMAIN clusters
        <5>1. PICK h \in 1..n :
                /\ list[h].id \in clusters[k].ids
                /\ list[h].title = clusters[k].title /\ Exploitability(list[h]) = clusters[k].score
                /\ \A m \in 1..n : list[m].id \in clusters[k].ids =>
                     m = h \/ Similar(clusters[k].title, list[m].title)
          BY <4>1 DEF ClustersOf
        <5>2. \A m \in 1..(n + 1) : list[m].id \in after[k].ids => m \in 1..n
          BY <1>2, <1>5, <2>3, <4>1 DEF r
        <5> QED  BY <1>2, <2>3, <4>1, <5>1, <5>2
      <4>2. CASE k = Len(clusters) + 1
        <5>1. \A m \in 1..(n + 1) : list[m].id \in after[k].ids => m = n + 1
          BY <1>2, <1>4, <2>1, <2>3, <4>2
        <5> QED  BY <1>2, <2>1, <2>3, <4>2, <5>1 DEF r
      <4> QED  BY <2>3, <4>1, <4>2
    <3> QED  BY <2>3, <3>1, <3>2, <3>3, <3>4, <3>5 DEF ClustersOf
  <2> QED  BY <2>4
<1>7. CASE fits # {}
  <2> DEFINE c == CHOOSE k \in fits : \A l \in fits : k <= l
             joined == Joined(clusters[c], r)
  <2>1. c \in DOMAIN clusters /\ Similar(clusters[c].title, r.title)
    <3>1. fits \in SUBSET Nat
      BY <1>1
    <3>2. \E k \in fits : \A l \in fits : k <= l
      <4> HIDE DEF fits
      <4> QED  BY <1>7, <3>1, Least
    <3>3. c \in fits
      <4> HIDE DEF fits
      <4> QED  BY <3>2
    <3> QED  BY <3>3
  <2>2. after = [clusters EXCEPT ![c] = joined]
    BY <1>7 DEF Place
  <2>3. clusters[c] \in Cluster /\ r.id \in Finding /\ r.asset \in Asset \cup {NoAsset}
        /\ r.severity \in Severity /\ Exploitability(r) \in Int
    BY <1>1, <1>2, <1>3, <2>1
  <2>4. PICK h \in 1..n :
          /\ list[h].id \in clusters[c].ids
          /\ list[h].title = clusters[c].title /\ Exploitability(list[h]) = clusters[c].score
          /\ \A m \in 1..n : list[m].id \in clusters[c].ids =>
               m = h \/ Similar(clusters[c].title, list[m].title)
    BY <2>1 DEF ClustersOf
  <2>5. /\ joined \in Cluster /\ joined.ids = clusters[c].ids \cup {r.id}
        /\ joined.title = clusters[c].title
        /\ joined.severity = IF SeverityOrder[r.severity] > SeverityOrder[clusters[c].severity]
                             THEN r.severity ELSE clusters[c].severity
        /\ joined.score = clusters[c].score
    <3> HIDE DEF c, r, fits
    <3>1. ~(Exploitability(r) > clusters[c].score)
      BY <1>4, <2>3, <2>4 DEF Cluster
    <3>3. joined = [title |-> clusters[c].title, ids |-> clusters[c].ids \cup {r.id},
                    assets |-> clusters[c].assets \cup {r.asset},
                    severity |-> IF SeverityOrder[r.severity] > SeverityOrder[clusters[c].severity]
                                 THEN r.severity ELSE clusters[c].severity,
                    score |-> clusters[c].score]
      BY <3>1 DEF Joined
    <3>4. clusters[c].ids \cup {r.id} \in SUBSET Finding
      BY <2>3 DEF Cluster
    <3>5. clusters[c].assets \cup {r.asset} \in SUBSET (Asset \cup {NoAsset})
      BY <2>3 DEF Cluster
    <3>6. /\ joined.title = clusters[c].title /\ joined.ids = clusters[c].ids \cup {r.id}
          /\ joined.score = clusters[c].score
          /\ joined.severity = IF SeverityOrder[r.severity] > SeverityOrder[clusters[c].severity]
                                THEN r.severity ELSE clusters[c].severity
      BY <3>3
    <3>7. joined.severity \in Severity /\ clusters[c].title \in Title \cup {NoTitle} /\ clusters[c].score \in Int
      BY <2>3, <3>6 DEF Cluster
    <3>8. joined \in Cluster
      BY <3>3, <3>4, <3>5, <3>6, <3>7 DEF Cluster
    <3> QED  BY <3>6, <3>8
  <2>6. /\ after \in Seq(Cluster) /\ DOMAIN after = DOMAIN clusters
        /\ after[c] = joined /\ \A k \in DOMAIN clusters : k # c => after[k] = clusters[k]
    <3> HIDE DEF joined, c, after
    <3> QED  BY <1>1, <2>1, <2>2, <2>5, ExceptSeq
  <2>7. /\ SeverityOrder[joined.severity] \in Int /\ SeverityOrder[clusters[c].severity] \in Int
        /\ SeverityOrder[r.severity] \in Int
        /\ SeverityOrder[clusters[c].severity] <= SeverityOrder[joined.severity]
        /\ SeverityOrder[r.severity] <= SeverityOrder[joined.severity]
    <3>1. \A s \in Severity : SeverityOrder[s] \in Int
      BY DEF Severity, SeverityOrder
    <3>2. clusters[c].severity \in Severity
      BY <2>3 DEF Cluster
    <3> HIDE DEF joined, c, after, r
    <3> QED  BY <2>3, <2>5, <3>1, <3>2
  <2>8. ClustersOf(after, list, n + 1)
    <3> HIDE DEF joined, c, after, fits, r
    <3>1. \A m \in 1..(n + 1) : \E k \in DOMAIN after : list[m].id \in after[k].ids
      <4> TAKE m \in 1..(n + 1)
      <4>1. CASE m = n + 1
        BY <2>1, <2>5, <2>6, <4>1 DEF r
      <4>2. CASE m \in 1..n
        <5>1. PICK k \in DOMAIN clusters : list[m].id \in clusters[k].ids
          BY <4>2 DEF ClustersOf
        <5> QED  BY <2>5, <2>6, <5>1
      <4> QED  BY <1>2, <4>1, <4>2
    <3>2. \A k \in DOMAIN after : \A f \in after[k].ids : \E m \in 1..(n + 1) : list[m].id = f
      <4> SUFFICES ASSUME NEW k \in DOMAIN after, NEW f \in after[k].ids
                   PROVE  \E m \in 1..(n + 1) : list[m].id = f
        OBVIOUS
      <4>1. CASE f = r.id
        BY <1>2, <4>1 DEF r
      <4>2. CASE f # r.id
        <5>1. f \in clusters[k].ids /\ k \in DOMAIN clusters
          BY <2>5, <2>6, <4>2
        <5> QED  BY <1>2, <5>1 DEF ClustersOf
      <4> QED  BY <4>1, <4>2
    <3>3. \A k, l \in DOMAIN after : k # l => after[k].ids \cap after[l].ids = {}
      <4>1. \A k, l \in DOMAIN clusters : k # l => clusters[k].ids \cap clusters[l].ids = {}
        BY DEF ClustersOf
      <4>2. \A k \in DOMAIN clusters :
              after[k].ids = clusters[k].ids \/ (k = c /\ after[k].ids = clusters[c].ids \cup {r.id})
        BY <2>5, <2>6
      <4> QED  BY <1>5, <2>1, <2>6, <4>1, <4>2
    <3>4. ASSUME NEW k \in DOMAIN after, NEW m \in 1..(n + 1), list[m].id \in after[k].ids
          PROVE  /\ SeverityOrder[list[m].severity] <= SeverityOrder[after[k].severity]
                 /\ Exploitability(list[m]) <= after[k].score
      <4>1. CASE k # c
        <5>1. m \in 1..n
          BY <1>2, <1>5, <2>6, <3>4, <4>1 DEF r
        <5> QED  BY <2>6, <3>4, <4>1, <5>1 DEF ClustersOf
      <4>2. CASE k = c /\ m = n + 1
        <5>1. Exploitability(r) <= Exploitability(list[h])
          BY <1>4
        <5> QED  BY <2>4, <2>5, <2>6, <2>7, <4>2, <5>1 DEF r
      <4>3. CASE k = c /\ m \in 1..n
        <5>1. list[m].id \in clusters[c].ids
          BY <1>4, <2>5, <2>6, <3>4, <4>3
        <5>2. /\ SeverityOrder[list[m].severity] <= SeverityOrder[clusters[c].severity]
              /\ Exploitability(list[m]) <= clusters[c].score
          BY <2>1, <4>3, <5>1 DEF ClustersOf
        <5>3. SeverityOrder[list[m].severity] \in Int
          BY <1>2, <1>3
        <5> QED  BY <2>5, <2>6, <2>7, <4>3, <5>2, <5>3
      <4> QED  BY <1>2, <4>1, <4>2, <4>3
    <3>5. ASSUME NEW k \in DOMAIN after
          PROVE  \E g \in 1..(n + 1) :
                   /\ list[g].id \in after[k].ids
                   /\ list[g].title = after[k].title /\ Exploitability(list[g]) = after[k].score
                   /\ \A m \in 1..(n + 1) : list[m].id \in after[k].ids =>
                        m = g \/ Similar(after[k].title, list[m].title)
      <4>1. CASE k # c
        <5>1. PICK g \in 1..n :
                /\ list[g].id \in clusters[k].ids
                /\ list[g].title = clusters[k].title /\ Exploitability(list[g]) = clusters[k].score
                /\ \A m \in 1..n : list[m].id \in clusters[k].ids =>
                     m = g \/ Similar(clusters[k].title, list[m].title)
          BY <2>6 DEF ClustersOf
        <5>2. \A m \in 1..(n + 1) : list[m].id \in after[k].ids => m \in 1..n
          BY <1>2, <1>5, <2>6, <4>1 DEF r
        <5> QED  BY <1>2, <2>6, <4>1, <5>1, <5>2
      <4>2. CASE k = c
        <5>1. \A m \in 1..(n + 1) : list[m].id \in joined.ids => m = h \/ Similar(joined.title, list[m].title)
          BY <1>2, <1>4, <2>1, <2>4, <2>5 DEF r
        <5> QED  BY <1>2, <2>4, <2>5, <2>6, <4>2, <5>1
      <4> QED  BY <4>1, <4>2
    <3> QED  BY <2>6, <3>1, <3>2, <3>3, <3>4, <3>5 DEF ClustersOf
  <2> QED  BY <2>8
<1> QED  BY <1>6, <1>7

\* The clusters up to each row, as the pass computes them.
IsPass(pass, list, n) ==
  pass = [m \in 0..n |-> IF m = 0 THEN <<>> ELSE Place(pass[m - 1], list[m])]

LEMMA PassExists ==
  ASSUME NEW list, NEW n \in Nat
  PROVE  \E pass : IsPass(pass, list, n)
<1> DEFINE T == {m \in Nat : ~\E pass : IsPass(pass, list, m)}
<1>1. ASSUME T # {} PROVE FALSE
  <2>1. PICK x \in T : \A y \in T : x <= y
    <3>1. T \in SUBSET Nat
      OBVIOUS
    <3> HIDE DEF T
    <3> QED  BY <1>1, <3>1, Least
  <2>2. CASE x = 0
    <3> DEFINE pass == [m \in 0..0 |-> <<>>]
    <3>1. IsPass(pass, list, 0)
      BY DEF IsPass
    <3> QED  BY <2>2, <3>1
  <2>3. CASE x # 0
    <3>1. x \in Nat /\ x - 1 \in Nat /\ x - 1 \notin T
      BY <2>1, <2>3
    <3>2. PICK shorter : IsPass(shorter, list, x - 1)
      BY <3>1
    <3> DEFINE pass == [m \in 0..x |-> IF m = x THEN Place(shorter[x - 1], list[x]) ELSE shorter[m]]
    <3>3. \A m \in 0..(x - 1) : shorter[m] = IF m = 0 THEN <<>> ELSE Place(shorter[m - 1], list[m])
      BY <3>2 DEF IsPass
    <3>4. \A m \in 0..x : pass[m] = IF m = 0 THEN <<>> ELSE Place(pass[m - 1], list[m])
      <4> TAKE m \in 0..x
      <4>1. CASE m = 0
        BY <2>3, <3>1, <3>3, <4>1
      <4>2. CASE m # 0 /\ m # x
        <5>1. m \in 0..(x - 1) /\ m - 1 \in 0..x /\ m - 1 # x
          BY <3>1, <4>2
        <5> QED  BY <3>3, <4>2, <5>1
      <4>3. CASE m # 0 /\ m = x
        <5>1. x - 1 \in 0..x /\ x - 1 # x
          BY <3>1
        <5> QED  BY <4>3, <5>1
      <4> QED  BY <4>1, <4>2, <4>3
    <3>5. pass = [m \in 0..x |-> pass[m]]
      OBVIOUS
    <3>6. IsPass(pass, list, x)
      <4> HIDE DEF pass
      <4> QED  BY <3>4, <3>5 DEF IsPass
    <3> QED  BY <2>1, <3>6
  <2> QED  BY <2>2, <2>3
<1> QED  BY <1>1

\* Every pass over a ranked list makes its clusters.
LEMMA ClustersAreSound ==
  ASSUME FindingTypes, RowsHaveItems, NEW list, IsRead(list), IsRanked(list)
  PROVE  ClustersOf(Clusters(list), list, Cardinality(Live))
<1> DEFINE n == Cardinality(Live)
           pass == CHOOSE pass : IsPass(pass, list, Len(list))
           T == {m \in 0..n : ~ClustersOf(pass[m], list, m)}
<1>1. n \in Nat /\ DOMAIN list = 1..n /\ Len(list) = n
  <2>1. n \in Nat
    BY LiveIsFinite
  <2>2. list \in [1..n -> {list[k] : k \in 1..n}] /\ DOMAIN list = 1..n
    BY DEF IsRead
  <2>3. list \in Seq({list[k] : k \in 1..n})
    <3> HIDE DEF n
    <3> QED  BY <2>1, <2>2, SeqDef
  <2>4. DOMAIN list = 1..Len(list) /\ Len(list) \in Nat
    BY <2>3, LenProperties
  <2> HIDE DEF n
  <2> QED  BY <2>1, <2>2, <2>4
<1>2. IsPass(pass, list, n)
  <2>1. \E p : IsPass(p, list, Len(list))
    BY <1>1, PassExists
  <2>2. IsPass(pass, list, Len(list))
    BY <2>1
  <2> HIDE DEF pass, n
  <2> QED  BY <1>1, <2>2
<1>3. Clusters(list) = pass[n]
  <2>1. Clusters(list) = pass[Len(list)]
    BY DEF Clusters, IsPass
  <2> QED  BY <1>1, <2>1
<1> HIDE DEF pass, n
<1>4. \A m \in 0..n : pass[m] = IF m = 0 THEN <<>> ELSE Place(pass[m - 1], list[m])
  BY <1>2 DEF IsPass
<1>5. ASSUME T # {} PROVE FALSE
  <2>1. PICK x \in T : \A y \in T : x <= y
    <3>1. T \in SUBSET Nat
      BY <1>1
    <3> HIDE DEF T
    <3> QED  BY <1>5, <3>1, Least
  <2>2. x \in 0..n /\ ~ClustersOf(pass[x], list, x)
    OBVIOUS
  <2>3. CASE x = 0
    <3>1. pass[0] = <<>>
      BY <1>1, <1>4
    <3>2. <<>> \in Seq(Cluster) /\ DOMAIN <<>> = {}
      BY EmptySeq, LenProperties
    <3>3. 1..0 = {}
      OBVIOUS
    <3>4. ClustersOf(<<>>, list, 0)
      BY <3>2, <3>3 DEF ClustersOf
    <3> QED  BY <2>2, <2>3, <3>1, <3>4
  <2>4. CASE x # 0
    <3>1. x - 1 \in 0..n /\ x - 1 \in Nat /\ x - 1 \notin T /\ x \in DOMAIN list /\ (x - 1) + 1 = x
      BY <1>1, <2>1, <2>2, <2>4
    <3>2. ClustersOf(pass[x - 1], list, x - 1)
      BY <3>1
    <3>3. pass[x] = Place(pass[x - 1], list[x])
      BY <1>4, <2>2, <2>4
    <3>4. ClustersOf(Place(pass[x - 1], list[(x - 1) + 1]), list, (x - 1) + 1)
      <4> DEFINE m == x - 1
      <4>1. m \in Nat /\ m + 1 \in DOMAIN list /\ ClustersOf(pass[m], list, m)
        BY <3>1, <3>2
      <4> HIDE DEF m
      <4>2. ClustersOf(Place(pass[m], list[m + 1]), list, m + 1)
        BY <4>1, PlaceKeeps
      <4> QED  BY <4>2 DEF m
    <3> QED  BY <2>2, <3>1, <3>3, <3>4
  <2> QED  BY <2>3, <2>4
<1>6. ClustersOf(pass[n], list, n)
  BY <1>1, <1>5
<1> QED  BY <1>3, <1>6 DEF n

LEMMA LiveClustersSound ==
  ASSUME FindingTypes, RowsHaveItems, NEW rows \in Reads
  PROVE  /\ IsRead(rows) /\ IsRead(Ranked(rows))
         /\ ClustersOf(Clusters(Ranked(rows)), Ranked(rows), Cardinality(Live))
<1>1. IsRead(rows)
  BY ReadsAreRows
<1>2. IsRead(Ranked(rows)) /\ IsRanked(Ranked(rows))
  BY <1>1, RankedIsRead
<1> QED  BY <1>1, <1>2, ClustersAreSound

\* Every live finding is in one cluster, which shows the worst severity in it
\* and is named after its most exploitable finding (clusterFindings), for any
\* findings, in whatever order the database returns them.
THEOREM ClustersStaySound == FindingsSpec => []ClustersSound
<1>1. FindingsIInv => ClustersSound
  <2> SUFFICES ASSUME FindingTypes, RowsHaveItems, NEW rows \in Reads
               PROVE  LET clusters == Clusters(Ranked(rows))
                      IN  /\ UNION {clusters[k].ids : k \in DOMAIN clusters} = Live
                          /\ \A k, l \in DOMAIN clusters : k # l => clusters[k].ids \cap clusters[l].ids = {}
                          /\ \A k \in DOMAIN clusters :
                               /\ \A f \in clusters[k].ids :
                                    /\ SeverityOrder[Row(f).severity] <= SeverityOrder[clusters[k].severity]
                                    /\ Exploitability(Row(f)) <= clusters[k].score
                               /\ \E f \in clusters[k].ids : /\ Row(f).title = clusters[k].title
                                                            /\ Exploitability(Row(f)) = clusters[k].score
    BY DEF FindingsIInv, ClustersSound
  <2> DEFINE clusters == Clusters(Ranked(rows))
             list == Ranked(rows)
             n == Cardinality(Live)
  <2>1. IsRead(list) /\ ClustersOf(clusters, list, n)
    BY LiveClustersSound
  <2> HIDE DEF clusters, list
  <2>2. \A m \in 1..n : list[m].id \in Live /\ list[m] = Row(list[m].id)
    BY <2>1, RowId DEF IsRead
  <2>3. \A f \in Live : \E m \in 1..n : list[m].id = f
    BY <2>1, RowId DEF IsRead
  <2> HIDE DEF n
  <2>4. UNION {clusters[k].ids : k \in DOMAIN clusters} = Live
    <3>1. ASSUME NEW f \in Live PROVE \E k \in DOMAIN clusters : f \in clusters[k].ids
      <4>1. PICK m \in 1..n : list[m].id = f
        BY <2>3
      <4>2. \E k \in DOMAIN clusters : list[m].id \in clusters[k].ids
        BY <2>1 DEF ClustersOf
      <4> QED  BY <4>1, <4>2
    <3>2. ASSUME NEW k \in DOMAIN clusters, NEW f \in clusters[k].ids PROVE f \in Live
      <4>1. PICK m \in 1..n : list[m].id = f
        BY <2>1 DEF ClustersOf
      <4> QED  BY <2>2, <4>1
    <3> QED  BY <3>1, <3>2
  <2>5. \A k, l \in DOMAIN clusters : k # l => clusters[k].ids \cap clusters[l].ids = {}
    BY <2>1 DEF ClustersOf
  <2>6. ASSUME NEW k \in DOMAIN clusters, NEW f \in clusters[k].ids
        PROVE  /\ SeverityOrder[Row(f).severity] <= SeverityOrder[clusters[k].severity]
               /\ Exploitability(Row(f)) <= clusters[k].score
    <3>1. PICK m \in 1..n : list[m].id = f
      BY <2>1, <2>6 DEF ClustersOf
    <3>2. list[m] = Row(f)
      BY <2>2, <3>1
    <3> QED  BY <2>1, <3>1, <3>2 DEF ClustersOf
  <2>7. ASSUME NEW k \in DOMAIN clusters
        PROVE  \E f \in clusters[k].ids : /\ Row(f).title = clusters[k].title
                                          /\ Exploitability(Row(f)) = clusters[k].score
    <3>1. PICK h \in 1..n : /\ list[h].id \in clusters[k].ids
                            /\ list[h].title = clusters[k].title
                            /\ Exploitability(list[h]) = clusters[k].score
      BY <2>1, <2>7 DEF ClustersOf
    <3> QED  BY <2>2, <3>1
  <2> QED  BY <2>4, <2>5, <2>6, <2>7 DEF clusters
<1> QED  BY <1>1, FindingsIInvHolds, PTL

(***************************************************************************)
(* Corroboration                                                           *)
(***************************************************************************)
LEMMA SimilarIsMutual == ASSUME NEW s, NEW t, Similar(s, t) PROVE Similar(t, s)
<1>1. Tokens[s] \cap Tokens[t] = Tokens[t] \cap Tokens[s]
      /\ Tokens[s] \cup Tokens[t] = Tokens[t] \cup Tokens[s]
  OBVIOUS
<1> QED  BY <1>1 DEF Similar

\* The members of a cluster are similar to one that it is named after.
LEMMA MembersSimilar ==
  ASSUME FindingTypes, RowsHaveItems, NEW list, IsRead(list), NEW clusters,
         ClustersOf(clusters, list, Cardinality(Live)), NEW k \in DOMAIN clusters,
         NEW g \in clusters[k].ids, Row(g).title = clusters[k].title,
         NEW f \in clusters[k].ids, f # g
  PROVE  f \in Live /\ g \in Live /\ Similar(Row(f).title, Row(g).title)
<1> DEFINE n == Cardinality(Live)
<1>1. \A m \in 1..n : list[m].id \in Live /\ list[m] = Row(list[m].id)
  BY RowId DEF IsRead
<1> HIDE DEF n
<1>2. PICK m \in 1..n : list[m].id = f
  BY DEF ClustersOf, n
<1>3. PICK q \in 1..n : list[q].id = g
  BY DEF ClustersOf, n
<1>4. list[m] = Row(f) /\ list[q] = Row(g) /\ f \in Live /\ g \in Live /\ m # q
  BY <1>1, <1>2, <1>3
<1>5. PICK h \in 1..n :
        /\ list[h].title = clusters[k].title
        /\ \A x \in 1..n : list[x].id \in clusters[k].ids =>
             x = h \/ Similar(clusters[k].title, list[x].title)
  BY DEF ClustersOf, n
<1>6. CASE m = h
  BY <1>3, <1>4, <1>5, <1>6
<1>7. CASE m # h
  <2>1. Similar(Row(g).title, Row(f).title)
    BY <1>2, <1>4, <1>5, <1>7
  <2> QED  BY <1>4, <2>1, SimilarIsMutual
<1> QED  BY <1>6, <1>7

\* A finding that n others are similar to is scored accordingly.
LEMMA ScoredByCorroboration ==
  ASSUME NEW r, NEW rows, NEW others \in Nat, Corroborated(r, rows) \in Nat,
         others <= Corroborated(r, rows)
  PROVE  LET alone == FalsePositiveScore(r, <<r>>)
             least == alone - 10 * (IF others > 2 THEN 2 ELSE others)
         IN  FalsePositiveScore(r, rows) <= IF least < 0 THEN 0 ELSE least
<1> DEFINE base == (IF r.human THEN 15 ELSE 40) + (IF r.steps THEN 0 ELSE 20)
                     + (IF r.cvss = NoCvss THEN 10 ELSE 0)
           c == Corroborated(r, rows)
<1>1. base \in 15..70
  OBVIOUS
<1>2. Corroborated(r, <<r>>) = 0
  <2>1. {k \in DOMAIN <<r>> : <<r>>[k].id # r.id /\ Similar(<<r>>[k].title, r.title)} = {}
    OBVIOUS
  <2> QED  BY <2>1, FS_EmptySet DEF Corroborated
<1>3. FalsePositiveScore(r, <<r>>) = base
  <2>1. FalsePositiveScore(r, <<r>>) = IF base - 10 * 0 < 0 THEN 0 ELSE base - 10 * 0
    BY <1>2 DEF FalsePositiveScore
  <2> HIDE DEF base
  <2> QED  BY <1>1, <2>1
<1>4. FalsePositiveScore(r, rows) =
        IF base - (IF c >= 2 THEN 20 ELSE 10 * c) < 0 THEN 0 ELSE base - (IF c >= 2 THEN 20 ELSE 10 * c)
  BY DEF FalsePositiveScore
<1> HIDE DEF base, c
<1>5. c \in Nat /\ others <= c
  BY DEF c
<1> QED  BY <1>1, <1>3, <1>4, <1>5

\* One finding more or less in the list.
LEMMA FurtherFinding ==
  ASSUME NEW rows, IsFiniteSet(DOMAIN rows), NEW r, NEW k
  PROVE  FalsePositiveScore(r, rows) <= FalsePositiveScore(r, Without(rows, k))
<1> DEFINE fewer == Without(rows, k)
           similar(list) == {j \in DOMAIN list : list[j].id # r.id /\ Similar(list[j].title, r.title)}
           S == similar(rows)
           T == similar(fewer)
           base == (IF r.human THEN 15 ELSE 40) + (IF r.steps THEN 0 ELSE 20)
                     + (IF r.cvss = NoCvss THEN 10 ELSE 0)
           less(c) == IF c >= 2 THEN 20 ELSE 10 * c
           score(c) == IF base - less(c) < 0 THEN 0 ELSE base - less(c)
<1>1. S \in SUBSET DOMAIN rows /\ T \in SUBSET S
  BY DEF Without
<1>2. base \in 15..70
  OBVIOUS
<1>3. IsFiniteSet(S) /\ IsFiniteSet(T) /\ Cardinality(T) <= Cardinality(S)
  <2> HIDE DEF S, T
  <2>1. IsFiniteSet(S)  BY <1>1, FS_Subset
  <2> QED  BY <1>1, <2>1, FS_Subset
<1>4. Cardinality(S) \in Nat /\ Cardinality(T) \in Nat
  BY <1>3, FS_CardinalityType
<1>5. FalsePositiveScore(r, rows) = score(Cardinality(S))
      /\ FalsePositiveScore(r, fewer) = score(Cardinality(T))
  <2>1. Corroborated(r, rows) = Cardinality(S) /\ Corroborated(r, fewer) = Cardinality(T)
    BY DEF Corroborated
  <2> HIDE DEF S, T, fewer
  <2>2. ASSUME NEW list, Corroborated(r, list) \in Nat
        PROVE  FalsePositiveScore(r, list) = score(Corroborated(r, list))
    <3> DEFINE c == Corroborated(r, list)
               h == IF r.human THEN 15 ELSE 40
               st == IF r.steps THEN 0 ELSE 20
               cv == IF r.cvss = NoCvss THEN 10 ELSE 0
    <3>1. /\ h \in Int /\ st \in Int /\ cv \in Int /\ base = h + st + cv
          /\ less(c) \in Int
      BY <2>2
    <3>2. FalsePositiveScore(r, list)
            = IF h + st + (cv - less(c)) < 0 THEN 0 ELSE h + st + (cv - less(c))
      BY DEF FalsePositiveScore
    <3> HIDE DEF base, less, h, st, cv, c
    <3>3. h + st + (cv - less(c)) = base - less(c)
      BY <3>1
    <3> QED  BY <3>2, <3>3 DEF c
  <2> HIDE DEF score
  <2> QED  BY <1>4, <2>1, <2>2
<1> HIDE DEF S, T, base, fewer
<1>6. score(Cardinality(S)) <= score(Cardinality(T))
  <2> DEFINE c == Cardinality(S)  d == Cardinality(T)
  <2>1. c \in Nat /\ d \in Nat /\ d <= c
    BY <1>3, <1>4
  <2> HIDE DEF c, d
  <2>2. less(d) <= less(c) /\ less(c) \in Int /\ less(d) \in Int
    BY <2>1
  <2> HIDE DEF less
  <2>3. score(c) <= score(d)
    BY <1>2, <2>2
  <2> QED  BY <2>3 DEF c, d
<1> QED  BY <1>5, <1>6 DEF fewer

\* computeFalsePositiveScore: a further finding, in whatever order the rows are
\* read, never makes another look more like a false positive; and the finding
\* that clusterFindings names a cluster after is scored lower for each of its
\* first two companions.
THEOREM CorroborationStaysHelpful == FindingsSpec => []CorroborationHelps
<1>1. FindingsIInv => CorroborationHelps
  <2> SUFFICES ASSUME FindingTypes, RowsHaveItems, NEW rows \in Reads
               PROVE  /\ \A n, k \in DOMAIN rows : k # n =>
                           FalsePositiveScore(rows[n], rows) <= FalsePositiveScore(rows[n], Without(rows, k))
                      /\ \A k \in DOMAIN Clusters(Ranked(rows)), n \in DOMAIN rows :
                           /\ rows[n].id \in Clusters(Ranked(rows))[k].ids
                           /\ rows[n].title = Clusters(Ranked(rows))[k].title
                           => LET others == Cardinality(Clusters(Ranked(rows))[k].ids) - 1
                                  alone  == FalsePositiveScore(rows[n], <<rows[n]>>)
                                  least  == alone - 10 * (IF others > 2 THEN 2 ELSE others)
                              IN  FalsePositiveScore(rows[n], rows) <= IF least < 0 THEN 0 ELSE least
    BY DEF FindingsIInv, CorroborationHelps
  <2>0. \A n, k \in DOMAIN rows : k # n =>
          FalsePositiveScore(rows[n], rows) <= FalsePositiveScore(rows[n], Without(rows, k))
    <3>1. IsRead(rows)  BY LiveClustersSound
    <3>2. IsFiniteSet(DOMAIN rows)
      <4> DEFINE c == Cardinality(Live)
      <4>1. c \in Nat /\ DOMAIN rows = 1..c
        BY <3>1, LiveIsFinite DEF IsRead
      <4> HIDE DEF c
      <4> QED  BY <4>1, FS_Interval
    <3> QED  BY <3>2, FurtherFinding
  <2> SUFFICES ASSUME NEW k \in DOMAIN Clusters(Ranked(rows)), NEW n \in DOMAIN rows,
                      rows[n].id \in Clusters(Ranked(rows))[k].ids,
                      rows[n].title = Clusters(Ranked(rows))[k].title
               PROVE  LET others == Cardinality(Clusters(Ranked(rows))[k].ids) - 1
                          alone  == FalsePositiveScore(rows[n], <<rows[n]>>)
                          least  == alone - 10 * (IF others > 2 THEN 2 ELSE others)
                      IN  FalsePositiveScore(rows[n], rows) <= IF least < 0 THEN 0 ELSE least
    BY <2>0
  <2> DEFINE clusters == Clusters(Ranked(rows))
             ids == clusters[k].ids
             r == rows[n]
             similar == {m \in DOMAIN rows : rows[m].id # r.id /\ Similar(rows[m].title, r.title)}
             companions == ids \ {r.id}
             at(f) == CHOOSE m \in DOMAIN rows : rows[m].id = f
             found == [f \in companions |-> at(f)]
  <2>1. IsRead(rows) /\ IsRead(Ranked(rows)) /\ ClustersOf(clusters, Ranked(rows), Cardinality(Live))
    BY LiveClustersSound
  <2> HIDE DEF clusters
  <2>2. /\ k \in DOMAIN clusters /\ r.id \in ids /\ r.title = clusters[k].title
    BY DEF clusters
  <2>3. /\ \A m \in DOMAIN rows : rows[m].id \in Live /\ rows[m] = Row(rows[m].id)
        /\ \A f \in Live : \E m \in DOMAIN rows : rows[m].id = f
    <3>1. IsRead(rows)
      BY <2>1
    <3>2. \A m \in DOMAIN rows : rows[m].id \in Live /\ rows[m] = Row(rows[m].id)
      BY <3>1, RowId DEF IsRead
    <3>3. \A f \in Live : \E m \in DOMAIN rows : rows[m].id = f
      BY <3>1, RowId DEF IsRead
    <3> QED  BY <3>2, <3>3
  <2>4. \A f \in companions : f \in Live /\ Similar(Row(f).title, r.title)
    <3> SUFFICES ASSUME NEW f \in companions
                 PROVE  f \in Live /\ Similar(Row(f).title, r.title)
      OBVIOUS
    <3>1. f \in ids /\ f # r.id /\ r = Row(r.id)
      BY <2>3
    <3> DEFINE g == r.id
    <3>2. Row(g).title = clusters[k].title /\ g \in ids /\ f # g
      BY <2>2, <3>1
    <3> HIDE DEF g
    <3>3. f \in Live /\ Similar(Row(f).title, Row(g).title)
      BY <2>1, <2>2, <3>1, <3>2, MembersSimilar
    <3> QED  BY <3>1, <3>3 DEF g
  <2>5. \A f \in companions : at(f) \in DOMAIN rows /\ rows[at(f)].id = f /\ rows[at(f)] = Row(f)
    BY <2>3, <2>4
  <2>6. \A f \in companions : at(f) \in similar
    <3> HIDE DEF at
    <3> QED  BY <2>4, <2>5
  <2>7. IsFiniteSet(similar) /\ Cardinality(similar) \in Nat
    <3>1. DOMAIN rows = 1..Cardinality(Live)
      BY <2>1 DEF IsRead
    <3>2. IsFiniteSet(DOMAIN rows)
      <4> DEFINE c == Cardinality(Live)
      <4>1. c \in Nat /\ DOMAIN rows = 1..c
        BY <3>1, LiveIsFinite
      <4> HIDE DEF c
      <4> QED  BY <4>1, FS_Interval
    <3>3. similar \in SUBSET DOMAIN rows
      OBVIOUS
    <3> HIDE DEF similar
    <3> QED  BY <3>2, <3>3, FS_Subset, FS_CardinalityType
  <2>8. found \in Injection(companions, similar)
    <3>1. \A f, g \in companions : found[f] = found[g] => f = g
      <4> HIDE DEF at, companions
      <4> QED  BY <2>5
    <3>2. found \in [companions -> similar]
      <4> HIDE DEF at, companions, similar
      <4> QED  BY <2>6
    <3> HIDE DEF found, companions, similar
    <3> QED  BY <3>1, <3>2 DEF Injection, IsInjective
  <2>9. IsFiniteSet(companions) /\ Cardinality(companions) <= Cardinality(similar) /\ Cardinality(companions) \in Nat
    <3> HIDE DEF found, companions, similar
    <3> QED  BY <2>7, <2>8, FS_Injection, FS_CardinalityType
  <2>10. Cardinality(ids) - 1 = Cardinality(companions)
    <3>1. companions \cup {r.id} = ids
      BY <2>2
    <3>2. Cardinality(companions \cup {r.id}) = Cardinality(ids)
      <4> HIDE DEF companions, ids, r
      <4> QED  BY <3>1
    <3>3. Cardinality(companions \cup {r.id}) = Cardinality(companions) + 1
      <4>1. r.id \notin companions
        OBVIOUS
      <4> HIDE DEF companions
      <4> QED  BY <2>9, <4>1, FS_AddElement
    <3> HIDE DEF companions, ids, r
    <3> QED  BY <2>9, <3>2, <3>3
  <2>11. Corroborated(r, rows) = Cardinality(similar)
    BY DEF Corroborated
  <2> DEFINE others == Cardinality(ids) - 1
  <2>12. others \in Nat /\ Corroborated(r, rows) \in Nat /\ others <= Corroborated(r, rows)
    <3> HIDE DEF companions, similar, ids, r
    <3> QED  BY <2>7, <2>9, <2>10, <2>11
  <2> HIDE DEF others
  <2>13. LET alone == FalsePositiveScore(r, <<r>>)
             least == alone - 10 * (IF others > 2 THEN 2 ELSE others)
         IN  FalsePositiveScore(r, rows) <= IF least < 0 THEN 0 ELSE least
    BY <2>12, ScoredByCorroboration
  <2> QED  BY <2>13 DEF others, clusters
<1> QED  BY <1>1, FindingsIInvHolds, PTL

(***************************************************************************)
(* Attack paths                                                            *)
(***************************************************************************)
\* Pairs of an entry and a target by their places in a list, and their order.
PairsOf(list) ==
  {p \in FirstOf(list, IsEntry, MaxEntryPoints) \X FirstOf(list, IsTarget, MaxTargets) :
     Apart(list[p[1]], list[p[2]])}
Earlier(p, q) == p[1] < q[1] \/ (p[1] = q[1] /\ p[2] <= q[2])
PairOrder(S) == {x \in S \X S : Earlier(x[1], x[2])}
PathCount(list) ==
  IF Cardinality(PairsOf(list)) < MaxCandidates THEN Cardinality(PairsOf(list)) ELSE MaxCandidates

LEMMA ListLength ==
  ASSUME NEW n \in Nat, NEW list, list = [k \in 1..n |-> list[k]]
  PROVE  DOMAIN list = 1..n /\ Len(list) = n
<1>1. list \in [1..n -> {list[k] : k \in 1..n}] /\ DOMAIN list = 1..n
  OBVIOUS
<1>2. list \in Seq({list[k] : k \in 1..n})
  BY <1>1, SeqDef
<1>3. DOMAIN list = 1..Len(list) /\ Len(list) \in Nat
  BY <1>2, LenProperties
<1> QED  BY <1>1, <1>3

LEMMA PairsFinite ==
  ASSUME NEW list, IsRead(list)
  PROVE  /\ IsFiniteSet(PairsOf(list)) /\ Cardinality(PairsOf(list)) \in Nat
         /\ \A p \in PairsOf(list) :
              /\ p[1] \in DOMAIN list /\ p[2] \in DOMAIN list /\ p = <<p[1], p[2]>>
              /\ p[1] \in Int /\ p[2] \in Int
              /\ IsEntry(list[p[1]]) /\ IsTarget(list[p[2]])
              /\ list[p[1]].asset # list[p[2]].asset
         /\ Total(PairsOf(list), PairOrder(PairsOf(list)))
<1> DEFINE E == FirstOf(list, IsEntry, MaxEntryPoints)
           T == FirstOf(list, IsTarget, MaxTargets)
           S == PairsOf(list)
<1>1. DOMAIN list = 1..Cardinality(Live)
  BY DEF IsRead
<1>2. IsFiniteSet(DOMAIN list) /\ DOMAIN list \subseteq Int
  <2> DEFINE c == Cardinality(Live)
  <2>1. c \in Nat /\ DOMAIN list = 1..c
    BY <1>1, LiveIsFinite
  <2> HIDE DEF c
  <2> QED  BY <2>1, FS_Interval
<1>3. /\ E \in SUBSET DOMAIN list /\ T \in SUBSET DOMAIN list
      /\ \A i \in E : IsEntry(list[i])
      /\ \A i \in T : IsTarget(list[i])
  BY DEF FirstOf
<1>4. S \in SUBSET (E \X T) /\ \A p \in S : list[p[1]].asset # list[p[2]].asset
  BY DEF PairsOf, Apart
<1> HIDE DEF E, T, S
<1>5. IsFiniteSet(S) /\ Cardinality(S) \in Nat
  <2>1. IsFiniteSet(E) /\ IsFiniteSet(T)
    BY <1>2, <1>3, FS_Subset
  <2>2. IsFiniteSet(E \X T)
    BY <2>1, FS_Product
  <2> QED  BY <1>4, <2>2, FS_Subset, FS_CardinalityType
<1>6. \A p \in S : /\ p[1] \in DOMAIN list /\ p[2] \in DOMAIN list /\ p = <<p[1], p[2]>>
                   /\ p[1] \in Int /\ p[2] \in Int
                   /\ IsEntry(list[p[1]]) /\ IsTarget(list[p[2]])
                   /\ list[p[1]].asset # list[p[2]].asset
  <2> SUFFICES ASSUME NEW p \in S
               PROVE  /\ p[1] \in DOMAIN list /\ p[2] \in DOMAIN list /\ p = <<p[1], p[2]>>
                      /\ p[1] \in Int /\ p[2] \in Int
                      /\ IsEntry(list[p[1]]) /\ IsTarget(list[p[2]])
                      /\ list[p[1]].asset # list[p[2]].asset
    OBVIOUS
  <2>1. p \in E \X T
    BY <1>4
  <2>2. p = <<p[1], p[2]>> /\ p[1] \in E /\ p[2] \in T
    BY <2>1
  <2> QED  BY <1>2, <1>3, <1>4, <2>2
<1>7. Total(S, PairOrder(S))
  <2>1. \A p, q \in S : <<p, q>> \in PairOrder(S) <=> Earlier(p, q)
    BY DEF PairOrder
  <2>2. \A p, q \in S : Earlier(p, q) \/ Earlier(q, p)
    BY <1>6 DEF Earlier
  <2>3. ASSUME NEW p \in S, NEW q \in S, Earlier(p, q), Earlier(q, p) PROVE p = q
    <3>1. p[1] = q[1] /\ p[2] = q[2]
      BY <1>6, <2>3 DEF Earlier
    <3> QED  BY <1>6, <3>1
  <2>4. \A p, q, r \in S : Earlier(p, q) /\ Earlier(q, r) => Earlier(p, r)
    BY <1>6 DEF Earlier
  <2> QED  BY <2>1, <2>2, <2>3, <2>4 DEF Total
<1> QED  BY <1>5, <1>6, <1>7 DEF S

\* The list of paths holds the first pairs in their order, each once.
LEMMA PathsListed ==
  ASSUME NEW rows, IsRead(Ranked(rows))
  PROVE  /\ PathCount(Ranked(rows)) \in Nat
         /\ PathCount(Ranked(rows)) <= Cardinality(PairsOf(Ranked(rows)))
         /\ PathCount(Ranked(rows)) <= MaxCandidates
         /\ DOMAIN AttackPaths(rows) = 1..PathCount(Ranked(rows))
         /\ Len(AttackPaths(rows)) = PathCount(Ranked(rows))
         /\ \A k \in 1..PathCount(Ranked(rows)) : \E p \in PairsOf(Ranked(rows)) :
              /\ AttackPaths(rows)[k] = <<Ranked(rows)[p[1]], Ranked(rows)[p[2]]>>
              /\ Cardinality(Below(PairsOf(Ranked(rows)), PairOrder(PairsOf(Ranked(rows))), p)) = k
<1> DEFINE list == Ranked(rows)
           S == PairsOf(list)
           R == PairOrder(S)
           length == PathCount(list)
           place(p) == Cardinality({q \in S : Earlier(q, p)})
           pair(k) == CHOOSE p \in S : place(p) = k
           paths == AttackPaths(rows)
<1>1. IsFiniteSet(S) /\ Cardinality(S) \in Nat /\ Total(S, R)
  BY PairsFinite
<1>2. MaxCandidates \in Nat
  BY RankingAssumption
<1>3. length \in Nat /\ length <= Cardinality(S) /\ length <= MaxCandidates
  <2> HIDE DEF S
  <2>1. length = IF Cardinality(S) < MaxCandidates THEN Cardinality(S) ELSE MaxCandidates
    BY DEF PathCount, S
  <2> QED  BY <1>1, <1>2, <2>1
<1>4. paths = [k \in 1..length |-> <<list[pair(k)[1]], list[pair(k)[2]]>>]
  BY DEF AttackPaths, PathCount, PairsOf, Earlier
<1>5. ASSUME NEW p \in S PROVE place(p) = Cardinality(Below(S, R, p))
  <2>1. {q \in S : Earlier(q, p)} = Below(S, R, p)
    <3> HIDE DEF S
    <3> QED  BY DEF Below, PairOrder
  <2> QED  BY <2>1
<1> HIDE DEF list, S, R, length, paths
<1>6. ASSUME NEW k \in 1..length
      PROVE  \E p \in S : /\ paths[k] = <<list[p[1]], list[p[2]]>>
                          /\ Cardinality(Below(S, R, p)) = k
  <2>1. k \in 1..Cardinality(S)
    BY <1>1, <1>3
  <2>2. PICK p \in S : Cardinality(Below(S, R, p)) = k
    BY <1>1, <2>1, PlaceOf
  <2>3. place(p) = k
    BY <1>5, <2>2
  <2>4. pair(k) \in S /\ place(pair(k)) = k
    <3> HIDE DEF place
    <3> QED  BY <2>3
  <2>5. paths[k] = <<list[pair(k)[1]], list[pair(k)[2]]>>
    <3> HIDE DEF pair
    <3> QED  BY <1>4
  <2>6. Cardinality(Below(S, R, pair(k))) = k
    BY <1>5, <2>4
  <2> HIDE DEF pair
  <2> QED  BY <2>4, <2>5, <2>6
<1>7. DOMAIN paths = 1..length /\ Len(paths) = length
  <2>1. paths = [k \in 1..length |-> paths[k]]
    <3> HIDE DEF pair
    <3> QED  BY <1>4
  <2> QED  BY <1>3, <2>1, ListLength
<1> QED  BY <1>3, <1>6, <1>7 DEF list, S, R, length, paths

\* There are no more places of some findings in a list than findings.
LEMMA PlacesOfFindings ==
  ASSUME NEW list, IsRead(list), NEW F \in SUBSET Live, NEW I \in SUBSET DOMAIN list,
         \A j \in I : list[j].id \in F
  PROVE  IsFiniteSet(I) /\ Cardinality(I) \in Nat /\ Cardinality(I) <= Cardinality(F)
<1> DEFINE id == [j \in I |-> list[j].id]
<1>1. IsFiniteSet(F)
  BY LiveIsFinite, FS_Subset
<1>2. id \in [I -> F] /\ \A i, j \in I : id[i] = id[j] => i = j
  BY DEF IsRead
<1>3. id \in Injection(I, F)
  <2> HIDE DEF id
  <2> QED  BY <1>2 DEF Injection, IsInjective
<1> HIDE DEF id
<1> QED  BY <1>1, <1>3, FS_Injection, FS_CardinalityType

\* The attack paths are the first of all pairs of an entry and a target on
\* different assets, each once, and all of them unless a bound cuts them
\* (findAttackPathCandidates): for any bounds and any number of findings.
THEOREM AttackPathsStayComplete == FindingsSpec => []AttackPathsComplete
<1>1. FindingsIInv => AttackPathsComplete
  <2> SUFFICES ASSUME FindingTypes, RowsHaveItems, NEW rows \in Reads
               PROVE  LET paths   == AttackPaths(rows)
                          shown   == {<<paths[k][1].id, paths[k][2].id>> : k \in DOMAIN paths}
                          entries == {f \in Live : IsEntry(Row(f))}
                          targets == {f \in Live : IsTarget(Row(f))}
                          pairs   == {pair \in entries \X targets : Row(pair[1]).asset # Row(pair[2]).asset}
                      IN  /\ Len(paths) <= MaxCandidates
                          /\ shown \subseteq pairs /\ Cardinality(shown) = Len(paths)
                          /\ Cardinality(entries) <= MaxEntryPoints /\ Cardinality(targets) <= MaxTargets
                               => Len(paths) = (IF Cardinality(pairs) < MaxCandidates
                                                THEN Cardinality(pairs) ELSE MaxCandidates)
    BY DEF FindingsIInv, AttackPathsComplete
  <2> DEFINE paths   == AttackPaths(rows)
             shown   == {<<paths[k][1].id, paths[k][2].id>> : k \in DOMAIN paths}
             entries == {f \in Live : IsEntry(Row(f))}
             targets == {f \in Live : IsTarget(Row(f))}
             pairs   == {pair \in entries \X targets : Row(pair[1]).asset # Row(pair[2]).asset}
             list    == Ranked(rows)
             S       == PairsOf(list)
             length  == PathCount(list)
             ids(p)  == <<list[p[1]].id, list[p[2]].id>>
  <2>1. IsRead(list)
    BY LiveClustersSound
  <2>2. /\ length \in Nat /\ length <= Cardinality(S) /\ length <= MaxCandidates
        /\ DOMAIN paths = 1..length /\ Len(paths) = length
        /\ \A k \in 1..length : \E p \in S :
             /\ paths[k] = <<list[p[1]], list[p[2]]>>
             /\ Cardinality(Below(S, PairOrder(S), p)) = k
    BY <2>1, PathsListed
  <2>3. /\ IsFiniteSet(S) /\ Cardinality(S) \in Nat
        /\ \A p \in S : /\ p[1] \in DOMAIN list /\ p[2] \in DOMAIN list /\ p = <<p[1], p[2]>>
                        /\ IsEntry(list[p[1]]) /\ IsTarget(list[p[2]])
                        /\ list[p[1]].asset # list[p[2]].asset
    BY <2>1, PairsFinite
  <2>a. length = IF Cardinality(S) < MaxCandidates THEN Cardinality(S) ELSE MaxCandidates
    BY DEF PathCount
  <2> HIDE DEF list, S, length, paths
  <2>4. /\ \A m \in DOMAIN list : list[m].id \in Live /\ list[m] = Row(list[m].id)
        /\ \A f \in Live : \E m \in DOMAIN list : list[m].id = f /\ list[m] = Row(f)
        /\ \A m, l \in DOMAIN list : list[m].id = list[l].id => m = l
    BY <2>1, RowId DEF IsRead
  <2>5. \A p \in S : ids(p) \in pairs
    <3> SUFFICES ASSUME NEW p \in S PROVE ids(p) \in pairs
      OBVIOUS
    <3> DEFINE f == list[p[1]].id  g == list[p[2]].id
    <3>1. f \in Live /\ g \in Live /\ list[p[1]] = Row(f) /\ list[p[2]] = Row(g)
      BY <2>3, <2>4
    <3>2. IsEntry(Row(f)) /\ IsTarget(Row(g)) /\ Row(f).asset # Row(g).asset
      BY <2>3, <3>1
    <3> HIDE DEF f, g
    <3>3. <<f, g>> \in pairs
      BY <3>1, <3>2
    <3> QED  BY <3>3 DEF f, g
  <2>6. \A p, q \in S : ids(p) = ids(q) => p = q
    <3> SUFFICES ASSUME NEW p \in S, NEW q \in S, ids(p) = ids(q) PROVE p = q
      OBVIOUS
    <3>1. p[1] = q[1] /\ p[2] = q[2]
      BY <2>3, <2>4
    <3> QED  BY <2>3, <3>1
  <2>7. \A k \in 1..length : \E p \in S :
          /\ <<paths[k][1].id, paths[k][2].id>> = ids(p)
          /\ Cardinality(Below(S, PairOrder(S), p)) = k
    <3> SUFFICES ASSUME NEW k \in 1..length
                 PROVE  \E p \in S : /\ <<paths[k][1].id, paths[k][2].id>> = ids(p)
                                     /\ Cardinality(Below(S, PairOrder(S), p)) = k
      OBVIOUS
    <3>1. PICK p \in S : /\ paths[k] = <<list[p[1]], list[p[2]]>>
                         /\ Cardinality(Below(S, PairOrder(S), p)) = k
      BY <2>2
    <3>2. paths[k][1] = list[p[1]] /\ paths[k][2] = list[p[2]]
      BY <3>1
    <3> QED  BY <3>1, <3>2
  <2>8. shown \subseteq pairs
    <3> SUFFICES ASSUME NEW k \in DOMAIN paths
                 PROVE  <<paths[k][1].id, paths[k][2].id>> \in pairs
      OBVIOUS
    <3>1. PICK p \in S : <<paths[k][1].id, paths[k][2].id>> = ids(p)
      BY <2>2, <2>7
    <3> HIDE DEF pairs
    <3> QED  BY <2>5, <3>1
  <2>9. Cardinality(shown) = length
    <3> DEFINE shows == [k \in 1..length |-> <<paths[k][1].id, paths[k][2].id>>]
    <3>1. shows \in Surjection(1..length, shown)
      BY <2>2 DEF Surjection
    <3>2. \A k, l \in 1..length : shows[k] = shows[l] => k = l
      <4> SUFFICES ASSUME NEW k \in 1..length, NEW l \in 1..length, shows[k] = shows[l] PROVE k = l
        OBVIOUS
      <4>1. PICK p \in S : shows[k] = ids(p) /\ Cardinality(Below(S, PairOrder(S), p)) = k
        BY <2>7
      <4>2. PICK q \in S : shows[l] = ids(q) /\ Cardinality(Below(S, PairOrder(S), q)) = l
        BY <2>7
      <4> HIDE DEF ids, shows
      <4>3. p = q
        BY <2>6, <4>1, <4>2
      <4> QED  BY <4>1, <4>2, <4>3
    <3>3. IsFiniteSet(1..length) /\ Cardinality(1..length) = length
      BY <2>2, FS_Interval
    <3> HIDE DEF shows, shown
    <3>4. shows \in Bijection(1..length, shown)
      BY <3>1, <3>2 DEF Bijection, Injection, IsInjective, Surjection
    <3> QED  BY <3>3, <3>4, FS_Bijection DEF ExistsBijection
  <2>10. ASSUME Cardinality(entries) <= MaxEntryPoints, Cardinality(targets) <= MaxTargets
         PROVE  Cardinality(pairs) = Cardinality(S)
    <3>1. ASSUME NEW m \in DOMAIN list, IsEntry(list[m]) PROVE m \in FirstOf(list, IsEntry, MaxEntryPoints)
      <4> DEFINE I == {j \in DOMAIN list : IsEntry(list[j]) /\ j <= m}
      <4>1. \A j \in I : list[j].id \in entries
        BY <2>4
      <4>2. I \in SUBSET DOMAIN list /\ entries \in SUBSET Live
        OBVIOUS
      <4>3. Cardinality(I) <= Cardinality(entries) /\ Cardinality(I) \in Nat /\ Cardinality(entries) \in Nat
        <5> HIDE DEF I, entries
        <5> QED  BY <2>1, <4>1, <4>2, PlacesOfFindings, LiveIsFinite, FS_Subset, FS_CardinalityType
      <4>4. Cardinality(I) <= MaxEntryPoints
        <5> HIDE DEF I, entries
        <5> QED  BY <2>10, <4>3, RankingAssumption
      <4> QED  BY <3>1, <4>4 DEF FirstOf
    <3>2. ASSUME NEW m \in DOMAIN list, IsTarget(list[m]) PROVE m \in FirstOf(list, IsTarget, MaxTargets)
      <4> DEFINE I == {j \in DOMAIN list : IsTarget(list[j]) /\ j <= m}
      <4>1. \A j \in I : list[j].id \in targets
        BY <2>4
      <4>2. I \in SUBSET DOMAIN list /\ targets \in SUBSET Live
        OBVIOUS
      <4>3. Cardinality(I) <= Cardinality(targets) /\ Cardinality(I) \in Nat /\ Cardinality(targets) \in Nat
        <5> HIDE DEF I, targets
        <5> QED  BY <2>1, <4>1, <4>2, PlacesOfFindings, LiveIsFinite, FS_Subset, FS_CardinalityType
      <4>4. Cardinality(I) <= MaxTargets
        <5> HIDE DEF I, targets
        <5> QED  BY <2>10, <4>3, RankingAssumption
      <4> QED  BY <3>2, <4>4 DEF FirstOf
    <3>3. ASSUME NEW pair \in pairs PROVE \E p \in S : ids(p) = pair
      <4>1. pair \in entries \X targets /\ Row(pair[1]).asset # Row(pair[2]).asset
        BY <3>3
      <4>2. /\ pair = <<pair[1], pair[2]>> /\ pair[1] \in Live /\ pair[2] \in Live
            /\ IsEntry(Row(pair[1])) /\ IsTarget(Row(pair[2]))
        BY <4>1
      <4>3. PICK m \in DOMAIN list : list[m].id = pair[1] /\ list[m] = Row(pair[1])
        BY <2>4, <4>2
      <4>4. PICK l \in DOMAIN list : list[l].id = pair[2] /\ list[l] = Row(pair[2])
        BY <2>4, <4>2
      <4>5. <<m, l>> \in S
        <5>1. m \in FirstOf(list, IsEntry, MaxEntryPoints) /\ l \in FirstOf(list, IsTarget, MaxTargets)
          BY <3>1, <3>2, <4>2, <4>3, <4>4
        <5>2. Apart(list[m], list[l])
          BY <4>1, <4>3, <4>4 DEF Apart
        <5> QED  BY <5>1, <5>2 DEF S, PairsOf
      <4> QED  BY <4>2, <4>3, <4>4, <4>5
    <3> DEFINE shows == [p \in S |-> ids(p)]
    <3>4. shows \in Surjection(S, pairs)
      <4> HIDE DEF ids, pairs
      <4> QED  BY <2>5, <3>3 DEF Surjection
    <3>5. \A p, q \in S : shows[p] = shows[q] => p = q
      BY <2>6
    <3> HIDE DEF shows, pairs
    <3>6. shows \in Bijection(S, pairs)
      BY <3>4, <3>5 DEF Bijection, Injection, IsInjective, Surjection
    <3> QED  BY <2>3, <3>6, FS_Bijection DEF ExistsBijection
  <2>11. Cardinality(entries) <= MaxEntryPoints /\ Cardinality(targets) <= MaxTargets
           => length = (IF Cardinality(pairs) < MaxCandidates
                        THEN Cardinality(pairs) ELSE MaxCandidates)
    <3> HIDE DEF pairs, entries, targets
    <3> QED  BY <2>a, <2>10
  <2> HIDE DEF pairs, entries, targets, shown
  <2>12. /\ Len(paths) <= MaxCandidates
         /\ shown \subseteq pairs /\ Cardinality(shown) = Len(paths)
         /\ Cardinality(entries) <= MaxEntryPoints /\ Cardinality(targets) <= MaxTargets
              => Len(paths) = (IF Cardinality(pairs) < MaxCandidates
                               THEN Cardinality(pairs) ELSE MaxCandidates)
    BY <2>2, <2>8, <2>9, <2>11
  <2> QED  BY <2>12 DEF paths, shown, pairs, entries, targets
<1> QED  BY <1>1, FindingsIInvHolds, PTL
=============================================================================

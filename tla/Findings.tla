------------------------------- MODULE Findings -------------------------------
(***************************************************************************)
(* The findings of one engagement (src/src/modules/findings): scan imports *)
(* with their deduplication, findings by hand, status changes, retests,    *)
(* and the AI drafts that a background task writes next to them.  Imports  *)
(* and tasks run concurrently and may die between two statements.          *)
(***************************************************************************)
EXTENDS AiBudget, FindingRanking

CONSTANTS
  Finding,      \* ids of Finding rows
  Request,      \* AI calls made on request: triage, query, attack paths
  Importer,     \* concurrent POST findings/import requests and scan imports
  Retester,     \* concurrent POST findings/:findingId/retest requests
  Admin,        \* concurrent PATCH findings/:id requests that accept a draft
  Item,         \* scanner results and hand-written findings
  NoAsset, NoFinding,
  NoTitle,      \* a result without a name
  Instance,     \* bounds: the deployments and inputs to choose one from, each
                \* with its AI provider, rows, hand-written findings, format and
                \* batches of imported items, statuses to set, and
                \* retests: the requests at one time, and their results
  MaxDrafts     \* bound: drafts per finding

ASSUME FindingsAssumption ==
  /\ IsFiniteSet(Finding) /\ IsFiniteSet(Importer)
  /\ MaxDrafts \in Nat
  /\ Finding \cap Request = {}
  /\ NoAsset \notin Asset
  /\ NoFinding \notin Finding
  /\ NoTitle \notin Title
  /\ \A in \in Instance :
       /\ in.provider \in {"noop", "anthropic"}  \* AI_TRIAGE_PROVIDER
       /\ in.rows \subseteq Finding
       /\ in.provider = "anthropic" => in.rows \cup Request = Caller
       /\ in.hand \subseteq {i \in Item : i.severity \in Severity /\ i.title # NoTitle}
       /\ in.format \in {"normalized", "nuclei"}
       /\ in.batches \subseteq SUBSET Item
       /\ in.statuses \subseteq FindingStatus
       /\ in.retesters \subseteq Retester
       /\ in.results \subseteq {"FIXED", "NOT_FIXED", "PARTIALLY_FIXED"}
  /\ Item \subseteq [asset : Asset \cup {NoAsset}, title : Title \cup {NoTitle},
                     severity : Severity \cup {"unlisted"}, cvss : {NoCvss} \cup 0..100,
                     days : Nat, human : BOOLEAN, steps : BOOLEAN]

VARIABLES
  instance,   \* the deployment and its inputs
  finding,    \* the Finding table
  retested,   \* result of each finding's latest Retest row (by retestedAt)
  rivals,     \* results of the retests in progress that this one had overtaken
  retester,   \* retest transactions in progress
  importer,   \* imports in progress
  admin,      \* acceptances of a draft in progress
  subject,    \* what each request's AI call is about
  handled     \* findings whose status an administrator set by PATCH

findingVars == <<instance, finding, retested, rivals, retester, importer, admin, subject, handled>>
allVars == <<findingVars, budgetVars>>

NoRow == [item |-> NoFinding, source |-> "none", status |-> "OPEN", draft |-> 0, guidance |-> 0]
RetestResult == {"FIXED", "NOT_FIXED", "PARTIALLY_FIXED"}

\* assetId and title, the key of the deduplication: the title as it is written.
Key(i) == <<i.asset, i.title>>

\* adaptNucleiResult takes a severity it does not know for INFO; the schema of
\* normalized items refuses it.  A result without a name is of no use.
Usable(i) == i.title # NoTitle /\ (instance.format = "nuclei" \/ i.severity \in Severity)
Adapted(i) == IF i.severity = "unlisted" THEN [i EXCEPT !.severity = "INFO"] ELSE i

IdleImport == [pc |-> "idle", known |-> {}, todo |-> {}]
IdleRetest == [finding |-> NoFinding, result |-> "none", before |-> {}, late |-> FALSE]
IdleAdmin == [pc |-> "idle", finding |-> NoFinding, text |-> 0]

FindingsTypeOK ==
  /\ BudgetTypeOK
  /\ instance \in Instance
  /\ finding \in [Finding -> [item : {Adapted(i) : i \in Item} \cup {NoFinding}, source : {"none", "hand", "import"},
                              status : FindingStatus, draft : 0..MaxDrafts,
                              guidance : 0..MaxDrafts]]
  /\ retested \in [Finding -> RetestResult \cup {"none"}]
  /\ rivals \in [Finding -> SUBSET RetestResult]
  /\ retester \in [Retester -> [finding : Finding \cup {NoFinding}, result : RetestResult \cup {"none"},
                                before : SUBSET Retester, late : BOOLEAN]]
  /\ importer \in [Importer -> [pc : {"idle", "items"}, known : SUBSET {Key(i) : i \in Item},
                                todo : SUBSET Item]]
  /\ admin \in [Admin -> [pc : {"idle", "read"}, finding : Finding \cup {NoFinding},
                          text : 0..MaxDrafts]]
  /\ subject \in [Request -> Finding \cup {NoFinding}]
  /\ handled \subseteq Finding

FindingsInit ==
  /\ BudgetInit
  /\ instance \in Instance
  /\ finding = [f \in Finding |-> NoRow]
  /\ retested = [f \in Finding |-> "none"]
  /\ rivals = [f \in Finding |-> {}]
  /\ retester = [q \in Retester |-> IdleRetest]
  /\ importer = [p \in Importer |-> IdleImport]
  /\ admin = [a \in Admin |-> IdleAdmin]
  /\ subject = [r \in Request |-> NoFinding]
  /\ handled = {}

Exists(f) == finding[f].source # "none"
Existing == {f \in Finding : Exists(f)}

\* Findings an import takes for open.
Open == {f \in Existing : finding[f].status \in {"OPEN", "REMEDIATING"}}
OpenKeys == {Key(finding[f].item) : f \in Open}

(***************************************************************************)
(* Creating findings                                                       *)
(***************************************************************************)
\* The row, with Prisma's defaults.
NewRow(f, i, source) ==
  /\ f \in instance.rows /\ ~Exists(f)
  /\ finding' = [finding EXCEPT ![f] = [item |-> i, source |-> source, status |-> "OPEN",
                                        draft |-> 0, guidance |-> 0]]

\* triageFinding enters the budget's gate.  Without a provider the gate and the
\* call are no-ops, and nothing is drafted.
Triage(f) == IF instance.provider = "anthropic" THEN Ask(f) ELSE UNCHANGED budgetVars

\* POST findings: nothing is compared with what is open.  If the audit row
\* cannot be written the request fails before it starts the triage.
CreateByHand(f, i) ==
  /\ i.asset # NoAsset
  /\ NewRow(f, i, "hand")
  /\ Triage(f) \/ UNCHANGED budgetVars
  /\ UNCHANGED <<instance, retested, rivals, retester, importer, admin, subject, handled>>

\* importScanItems reads the open findings once.
ImportStart(p, batch) ==
  /\ importer[p].pc = "idle"
  /\ importer' = [importer EXCEPT ![p] = [pc |-> "items", known |-> OpenKeys, todo |-> batch]]
  /\ UNCHANGED <<instance, finding, retested, rivals, retester, admin, subject, handled, budgetVars>>

\* Not a usable result, no asset matches, or the issue is known to be open.
ImportSkip(p, i) ==
  /\ importer[p].pc = "items" /\ i \in importer[p].todo
  /\ ~Usable(i) \/ i.asset = NoAsset \/ Key(i) \in importer[p].known
  /\ importer' = [importer EXCEPT ![p].todo = @ \ {i}]
  /\ UNCHANGED <<instance, finding, retested, rivals, retester, admin, subject, handled, budgetVars>>

\* Mutant: the batch does not learn what it has created.
ImportCreateForgets(p, i, f) ==
  /\ importer[p].pc = "items" /\ i \in importer[p].todo
  /\ Usable(i) /\ i.asset # NoAsset /\ Key(i) \notin importer[p].known
  /\ NewRow(f, Adapted(i), "import")
  /\ Triage(f)
  /\ importer' = [importer EXCEPT ![p].todo = @ \ {i}]
  /\ UNCHANGED <<instance, retested, rivals, retester, admin, subject, handled>>

\* The finding is created, its triage starts, and the batch knows it.
ImportCreate(p, i, f) ==
  /\ importer[p].pc = "items" /\ i \in importer[p].todo
  /\ Usable(i) /\ i.asset # NoAsset /\ Key(i) \notin importer[p].known
  /\ NewRow(f, Adapted(i), "import")
  /\ Triage(f)
  /\ importer' = [importer EXCEPT
                    ![p] = [pc |-> "items", known |-> importer[p].known \cup {Key(i)},
                            todo |-> importer[p].todo \ {i}]]
  /\ UNCHANGED <<instance, retested, rivals, retester, admin, subject, handled>>

\* The import is done, or fails and leaves the findings it has created.
ImportEnds(p) ==
  /\ importer[p].pc = "items"
  /\ importer' = [importer EXCEPT ![p] = IdleImport]
  /\ UNCHANGED <<instance, finding, retested, rivals, retester, admin, subject, handled, budgetVars>>

(***************************************************************************)
(* What administrators decide                                              *)
(***************************************************************************)
\* PATCH findings/:id with a status.
SetStatus(f, s) ==
  /\ Exists(f)
  /\ finding' = [finding EXCEPT ![f].status = s]
  /\ handled' = handled \cup {f}
  /\ UNCHANGED <<instance, retested, rivals, retester, importer, admin, subject, budgetVars>>

\* PATCH findings/:id that accepts the draft: the draft is read and decrypted,
AcceptRead(a, f) ==
  /\ admin[a].pc = "idle"
  /\ Exists(f) /\ finding[f].draft # 0
  /\ admin' = [admin EXCEPT ![a] = [pc |-> "read", finding |-> f, text |-> finding[f].draft]]
  /\ UNCHANGED <<instance, finding, retested, rivals, retester, importer, subject, handled, budgetVars>>

\* then written as the guidance, or the request fails.
AcceptWrite(a) ==
  /\ admin[a].pc = "read"
  /\ \/ finding' = [finding EXCEPT ![admin[a].finding].guidance = admin[a].text]
     \/ UNCHANGED finding
  /\ admin' = [admin EXCEPT ![a] = IdleAdmin]
  /\ UNCHANGED <<instance, retested, rivals, retester, importer, subject, handled, budgetVars>>

\* Mutant: the result is stored as the status.
StatusAfterCopies == [FIXED |-> "FIXED", NOT_FIXED |-> "NOT_FIXED",
                      PARTIALLY_FIXED |-> "PARTIALLY_FIXED"]

StatusAfter == [FIXED |-> "RETESTED_PASS", NOT_FIXED |-> "RETESTED_FAIL",
                PARTIALLY_FIXED |-> "REMEDIATING"]

(***************************************************************************)
(* POST findings/:findingId/retest, a READ COMMITTED transaction of two    *)
(* statements: the Retest row, then the finding's status.  The insert only *)
(* takes a key-share lock on the finding, so other retests of it may run   *)
(* in between; the update locks it until the commit.  A Retest row is as   *)
(* old as its insert, and nobody sees it before the commit.                *)
(***************************************************************************)
Retesting(q) == retester[q].finding # NoFinding

\* The row is inserted, while the retests of `before` are in progress.
RetestInsert(q, f, result) ==
  /\ ~Retesting(q)
  /\ Exists(f)
  /\ retester' = [retester EXCEPT ![q] = [finding |-> f, result |-> result, late |-> FALSE,
                                          before |-> {p \in Retester : retester[p].finding = f}]]
  /\ UNCHANGED <<instance, finding, retested, rivals, importer, admin, subject, handled, budgetVars>>

\* Retests in progress when q is over and a younger row than those of `overtaken` is stored.
RetestersAfter(q, overtaken) ==
  [p \in Retester |->
     IF p = q THEN IdleRetest
     ELSE [finding |-> retester[p].finding, result |-> retester[p].result,
           before |-> retester[p].before \ {q}, late |-> retester[p].late \/ p \in overtaken]]

\* Other retests of q's finding with rows older than a stored one, once q's is stored.
Overtaken(q) ==
  {p \in Retester \ {q} : /\ retester[p].finding = retester[q].finding
                          /\ p \in retester[q].before \/ retester[p].late}

\* The Retest row is stored, as the finding's latest unless a younger one is there.
RetestStored(q) ==
  LET f == retester[q].finding
  IN  \/ /\ retester[q].late
         /\ retester' = RetestersAfter(q, {})
         /\ UNCHANGED <<retested, rivals>>
      \/ /\ ~retester[q].late
         /\ retester' = RetestersAfter(q, Overtaken(q))
         /\ retested' = [retested EXCEPT ![f] = retester[q].result]
         /\ rivals' = [rivals EXCEPT ![f] = {retester[p].result : p \in Overtaken(q)}]

\* Mutant: the row and the status are not one transaction.
RetestCommitSplit(q) ==
  /\ Retesting(q)
  /\ RetestStored(q)
  /\ \/ finding' = [finding EXCEPT ![retester[q].finding].status = StatusAfter[retester[q].result]]
     \/ UNCHANGED finding
  /\ UNCHANGED <<instance, importer, admin, subject, handled, budgetVars>>

\* The finding is updated and the transaction commits.
RetestCommit(q) ==
  /\ Retesting(q)
  /\ RetestStored(q)
  /\ finding' = [finding EXCEPT ![retester[q].finding].status = StatusAfter[retester[q].result]]
  /\ UNCHANGED <<instance, importer, admin, subject, handled, budgetVars>>

\* The transaction is rolled back.
RetestFails(q) ==
  /\ Retesting(q)
  /\ retester' = RetestersAfter(q, {})
  /\ UNCHANGED <<instance, finding, retested, rivals, importer, admin, subject, handled, budgetVars>>

\* The columns that the routes select.  An import stores no reproduction steps.
Row(f) ==
  LET i == finding[f].item
  IN  [id |-> f, asset |-> i.asset, title |-> i.title, severity |-> i.severity, cvss |-> i.cvss,
       days |-> i.days, human |-> i.human, steps |-> finding[f].source = "hand" /\ i.steps,
       status |-> finding[f].status]

Live == {f \in Existing : finding[f].status \in {"OPEN", "REMEDIATING", "RETESTED_FAIL"}}

\* The orders in which the database may return the live findings.
Reads == {[k \in DOMAIN order |-> Row(order[k])] : order \in SetToSeqs(Live)}

(***************************************************************************)
(* AI calls                                                                *)
(***************************************************************************)
AiRequest(r, f) ==
  /\ instance.provider = "anthropic"
  /\ Ask(r)
  /\ subject' = [subject EXCEPT ![r] = f]
  /\ UNCHANGED <<instance, finding, retested, rivals, retester, importer, admin, handled>>

\* POST findings/:id/triage.
TriageRequest(r, f) == Exists(f) /\ AiRequest(r, f)

\* POST findings/query.
QueryRequest(r) == AiRequest(r, NoFinding)

\* The narration of attack paths, if there are any.
AttackPathRequest(r) ==
  /\ AiRequest(r, NoFinding)
  /\ \E rows \in Reads : AttackPaths(rows) # <<>>

\* The gate, for any caller.
GateSteps(c) ==
  /\ CountDay(c) \/ CountMonth(c) \/ RecordCall(c)
  /\ UNCHANGED findingVars

Subject(c) == IF c \in Request THEN subject[c] ELSE c

WriteDraft(f) ==
  /\ finding[f].draft < MaxDrafts
  /\ finding' = [finding EXCEPT ![f].draft = @ + 1]

\* The provider drafted something for the finding the call is about.
Drafted(c) ==
  /\ caller[c].pc = "calling"
  /\ Subject(c) # NoFinding
  /\ WriteDraft(Subject(c))
  /\ CallEnds(c)
  /\ UNCHANGED <<instance, retested, rivals, retester, importer, admin, subject, handled>>

\* The answer to a query, or the narration, goes to the caller only.
Answered(r) ==
  /\ caller[r].pc = "calling" /\ subject[r] = NoFinding
  /\ CallEnds(r)
  /\ UNCHANGED findingVars

\* No answer, nothing to store, an error anywhere in the task, or its death.
NotDrafted(c) ==
  /\ CallEnds(c)
  /\ UNCHANGED findingVars

Hours == WindowsMove /\ UNCHANGED findingVars

FindingsNext ==
  \/ \E f \in Finding, i \in instance.hand : CreateByHand(f, i)
  \/ \E p \in Importer, batch \in instance.batches : ImportStart(p, batch)
  \/ \E p \in Importer, i \in Item : ImportSkip(p, i) \/ \E f \in Finding : ImportCreate(p, i, f)
  \/ \E p \in Importer : ImportEnds(p)
  \/ \E f \in Finding, s \in instance.statuses : SetStatus(f, s)
  \/ \E q \in instance.retesters :
       \/ \E f \in Finding, result \in instance.results : RetestInsert(q, f, result)
       \/ RetestCommit(q) \/ RetestFails(q)
  \/ \E a \in Admin : AcceptWrite(a) \/ \E f \in Finding : AcceptRead(a, f)
  \/ \E r \in Request : QueryRequest(r) \/ AttackPathRequest(r) \/ Answered(r) \/ \E f \in Finding : TriageRequest(r, f)
  \/ \E c \in Caller : GateSteps(c) \/ Drafted(c) \/ NotDrafted(c)
  \/ Hours

FindingsSpec == FindingsInit /\ [][FindingsNext]_allVars

(***************************************************************************)
(* Properties of the deduplication and of decisions                        *)
(***************************************************************************)
Untouched(f) == finding[f].source = "import" /\ f \notin handled /\ retested[f] = "none"

\* An issue that is reported again and again leaves at most as many open
\* findings that nobody has touched as imports can run at the same time:
\* importScanItems reads the open findings once, and creates one by one.
DuplicatesBounded ==
  \A k \in {Key(i) : i \in Item} :
    Cardinality({f \in Finding : Untouched(f) /\ Key(finding[f].item) = k})
      <= Cardinality(Importer)

\* A finding whose status nobody set by hand has the status of its latest
\* retest, or of one that was in progress with it and older: a retest that was
\* over before the latest one began never decides, however retests, imports
\* and AI drafts interleave and fail.
StatusFollowsRetests ==
  \A f \in Existing \ handled :
    \/ retested[f] = "none" /\ finding[f].status = "OPEN"
    \/ \E result \in {retested[f]} \cup rivals[f] :
         retested[f] # "none" /\ finding[f].status = StatusAfter[result]

(***************************************************************************)
(* Properties of the lists computed from the findings.  They are stated of *)
(* moments with no request in progress: a request that ends leaves the     *)
(* table as it is, so every table is seen at such a moment.                *)
(***************************************************************************)
Quiet ==
  /\ \A p \in Importer : importer[p] = IdleImport
  /\ \A a \in Admin : admin[a] = IdleAdmin
  /\ caller = [c \in Caller |-> IdleCall]

\* Every live finding is in one cluster, which shows the worst severity of its
\* members and is named after its most exploitable one, although similarity of
\* titles is not transitive and the pass over the findings is greedy.
ClustersSound ==
  Quiet => \A rows \in Reads :
    LET clusters == Clusters(Ranked(rows))
    IN  /\ UNION {clusters[k].ids : k \in DOMAIN clusters} = Live
        /\ \A k, l \in DOMAIN clusters : k # l => clusters[k].ids \cap clusters[l].ids = {}
        /\ \A k \in DOMAIN clusters :
             /\ \A f \in clusters[k].ids :
                  /\ SeverityOrder[Row(f).severity] <= SeverityOrder[clusters[k].severity]
                  /\ Exploitability(Row(f)) <= clusters[k].score
             /\ \E f \in clusters[k].ids : /\ Row(f).title = clusters[k].title
                                          /\ Exploitability(Row(f)) = clusters[k].score

Without(rows, k) == [j \in DOMAIN rows \ {k} |-> rows[j]]

\* A further finding, similar or not, never makes another look more like a false
\* positive; and the two lists agree: the finding a cluster is named after is
\* scored lower for each of the first two others in its cluster, which the code
\* counts among all findings and not per cluster.
CorroborationHelps ==
  Quiet => \A rows \in Reads :
    LET clusters == Clusters(Ranked(rows))
    IN  /\ \A n, k \in DOMAIN rows : k # n =>
             FalsePositiveScore(rows[n], rows) <= FalsePositiveScore(rows[n], Without(rows, k))
        /\ \A k \in DOMAIN clusters, n \in DOMAIN rows :
             rows[n].id \in clusters[k].ids /\ rows[n].title = clusters[k].title =>
               LET others == Cardinality(clusters[k].ids) - 1
                   alone  == FalsePositiveScore(rows[n], <<rows[n]>>)
                   least  == alone - 10 * (IF others > 2 THEN 2 ELSE others)
               IN  FalsePositiveScore(rows[n], rows) <= IF least < 0 THEN 0 ELSE least

\* Unless a bound cuts the list, the attack paths are all pairs of an entry
\* and a target on different assets, each once.
AttackPathsComplete ==
  Quiet => \A rows \in Reads :
    LET paths   == AttackPaths(rows)
        shown   == {<<paths[k][1].id, paths[k][2].id>> : k \in DOMAIN paths}
        entries == {f \in Live : IsEntry(Row(f))}
        targets == {f \in Live : IsTarget(Row(f))}
        pairs   == {pair \in entries \X targets : Row(pair[1]).asset # Row(pair[2]).asset}
    IN  /\ Len(paths) <= MaxCandidates
        /\ shown \subseteq pairs /\ Cardinality(shown) = Len(paths)
        /\ Cardinality(entries) <= MaxEntryPoints /\ Cardinality(targets) <= MaxTargets
             => Len(paths) = (IF Cardinality(pairs) < MaxCandidates
                              THEN Cardinality(pairs) ELSE MaxCandidates)
=============================================================================

---------------------------- MODULE FindingRanking ----------------------------
(***************************************************************************)
(* What GET findings/clusters and GET attack-paths compute from the        *)
(* findings of an engagement (src/src/modules/findings/clustering.ts,      *)
(* false-positive-score.ts, attack-path.ts).  Scores are exact fractions   *)
(* where the code rounds floating point.                                   *)
(***************************************************************************)
EXTENDS Integers, Sequences, SequencesExt

CONSTANTS
  Asset,         \* the assets of the engagement
  Title,         \* the titles of findings
  Tokens,        \* title -> what normalizeTitleTokens keeps of it
  AssetTraits,   \* asset -> [facing, criticality]: WEB or API in scope, Asset.criticality
  MaxEntryPoints, MaxTargets, MaxCandidates  \* the constants of attack-path.ts

ASSUME RankingAssumption ==
  /\ {MaxEntryPoints, MaxTargets, MaxCandidates} \subseteq Nat
  /\ \A s \in Title : Tokens[s] \subseteq STRING /\ IsFiniteSet(Tokens[s])

Severity == {"INFO", "LOW", "MEDIUM", "HIGH", "CRITICAL"}
FindingStatus == {"OPEN", "REMEDIATING", "RETESTED_PASS", "RETESTED_FAIL", "ACCEPTED_RISK"}
NoCvss == -1

SeverityOrder == [INFO |-> 0, LOW |-> 1, MEDIUM |-> 2, HIGH |-> 3, CRITICAL |-> 4]
SeverityBase == [INFO |-> 5, LOW |-> 20, MEDIUM |-> 40, HIGH |-> 70, CRITICAL |-> 95]

\* Tenths.
StatusWeight == [OPEN |-> 10, REMEDIATING |-> 7, RETESTED_FAIL |-> 10,
                 RETESTED_PASS |-> 0, ACCEPTED_RISK |-> 0]

\* Jaccard similarity of the title tokens is at least SIMILARITY_THRESHOLD.
Similar(s, t) ==
  /\ Tokens[s] # {} /\ Tokens[t] # {}
  /\ 2 * Cardinality(Tokens[s] \cap Tokens[t]) >= Cardinality(Tokens[s] \cup Tokens[t])

\* Twice the severity component; cvss is in tenths.
SeverityTwice(r) ==
  IF r.cvss = NoCvss THEN 2 * SeverityBase[r.severity] ELSE SeverityBase[r.severity] + r.cvss

\* (severityComponent * (1.2 or 1) + ageBonus) * statusWeight, rounded, at most 100.
Exploitability(r) ==
  LET facing == IF AssetTraits[r.asset].facing THEN 6 ELSE 5
      days   == IF r.days > 90 THEN 90 ELSE r.days
      raw    == (6 * SeverityTwice(r) * facing + 10 * days) * StatusWeight[r.status]
      score  == (raw + 300) \div 600
  IN  IF score > 100 THEN 100 ELSE score

\* `ranked`: the rows as the route sorts them, stable on the order it read.
Ranked(rows) ==
  LET Before(i, j) == \/ Exploitability(rows[i]) > Exploitability(rows[j])
                      \/ Exploitability(rows[i]) = Exploitability(rows[j]) /\ i <= j
      place(i) == Cardinality({j \in DOMAIN rows : Before(j, i)})
  IN  [k \in DOMAIN rows |-> rows[CHOOSE i \in DOMAIN rows : place(i) = k]]

NewCluster(r) ==
  [title |-> r.title, ids |-> {r.id}, assets |-> {r.asset}, severity |-> r.severity,
   score |-> Exploitability(r)]

\* Mutant: a cluster keeps the severity of its representative.
JoinedKeepsSeverity(c, r) == [c EXCEPT !.ids = @ \cup {r.id}, !.assets = @ \cup {r.asset}]

Joined(c, r) ==
  [title |-> c.title, ids |-> c.ids \cup {r.id}, assets |-> c.assets \cup {r.asset},
   severity |-> IF SeverityOrder[r.severity] > SeverityOrder[c.severity] THEN r.severity ELSE c.severity,
   score |-> IF Exploitability(r) > c.score THEN Exploitability(r) ELSE c.score]

\* The finding joins the first cluster whose representative is similar.
Place(clusters, r) ==
  LET fits == {k \in DOMAIN clusters : Similar(clusters[k].title, r.title)}
  IN  IF fits = {} THEN Append(clusters, NewCluster(r))
      ELSE LET k == CHOOSE k \in fits : \A l \in fits : k <= l
           IN  [clusters EXCEPT ![k] = Joined(@, r)]

\* clusterFindings, before its final sort by score.
Clusters(rows) ==
  LET upTo[n \in 0..Len(rows)] == IF n = 0 THEN <<>> ELSE Place(upTo[n - 1], rows[n])
  IN  upTo[Len(rows)]

Corroborated(r, rows) ==
  Cardinality({k \in DOMAIN rows : rows[k].id # r.id /\ Similar(rows[k].title, r.title)})

\* Mutant: corroboration by similar findings is held against a finding.
FalsePositiveScoreAdds(r, rows) ==
  (IF r.human THEN 15 ELSE 40) + (IF r.steps THEN 0 ELSE 20) + (IF r.cvss = NoCvss THEN 10 ELSE 0)
    + (IF Corroborated(r, rows) >= 2 THEN 20 ELSE 10 * Corroborated(r, rows))

\* computeFalsePositiveScore; the sum lies in -5..70, so the upper clamp is idle.
FalsePositiveScore(r, rows) ==
  LET sum == (IF r.human THEN 15 ELSE 40) + (IF r.steps THEN 0 ELSE 20)
               + (IF r.cvss = NoCvss THEN 10 ELSE 0)
               - (IF Corroborated(r, rows) >= 2 THEN 20 ELSE 10 * Corroborated(r, rows))
  IN  IF sum < 0 THEN 0 ELSE sum

IsEntry(r) == AssetTraits[r.asset].facing /\ r.severity \in {"HIGH", "CRITICAL"}
IsTarget(r) == AssetTraits[r.asset].criticality \in {"HIGH", "CRITICAL"}

\* The first n places of a list with a row that passes the test.
FirstOf(list, Test(_), n) ==
  {i \in DOMAIN list :
     Test(list[i]) /\ Cardinality({j \in DOMAIN list : Test(list[j]) /\ j <= i}) <= n}

\* Mutant: a pair may lie on one asset.
ApartById(e, t) == e.id # t.id

\* A path leads from one asset to another, so between two findings.
Apart(e, t) == e.asset # t.asset

\* findAttackPathCandidates: pairs in order, entries first, cut at MaxCandidates.
AttackPaths(rows) ==
  LET list  == Ranked(rows)
      pairs == {p \in FirstOf(list, IsEntry, MaxEntryPoints) \X FirstOf(list, IsTarget, MaxTargets) :
                  Apart(list[p[1]], list[p[2]])}
      Before(p, q) == p[1] < q[1] \/ (p[1] = q[1] /\ p[2] <= q[2])
      place(p) == Cardinality({q \in pairs : Before(q, p)})
      pair(k) == CHOOSE p \in pairs : place(p) = k
      length == IF Cardinality(pairs) < MaxCandidates THEN Cardinality(pairs) ELSE MaxCandidates
  IN  [k \in 1..length |-> <<list[pair(k)[1]], list[pair(k)[2]]>>]
=============================================================================

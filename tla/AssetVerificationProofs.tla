----------------------- MODULE AssetVerificationProofs -----------------------
(***************************************************************************)
(* Proofs about AssetVerification, for any number of assets, tokens and    *)
(* concurrent checks.                                                      *)
(***************************************************************************)
EXTENDS AssetVerification, TLAPS

(***************************************************************************)
(* The inductive invariant.  A check compares a token it read earlier with *)
(* what is published now, and writes later still: what it holds must stay  *)
(* a token generated for its asset, whatever verification/start does.      *)
(***************************************************************************)
\* A row awaiting or past a DNS or HTTP proof holds a token of its own asset.
RowsHoldTheirToken ==
  \A a \in Asset :
    asset[a].method \in ProofMethod => asset[a].token \in Token /\ issuedFor[asset[a].token] = a

\* So does a check in progress; one that matched has found its token.
ProbersHoldTheirToken ==
  \A p \in ProbeRequest :
    prober[p].pc # "idle" =>
      /\ prober[p].asset \in Asset
      /\ prober[p].token \in Token
      /\ issuedFor[prober[p].token] = prober[p].asset
      /\ prober[p].pc = "matched" => prober[p].token \in proven[prober[p].asset]

VerIInv ==
  /\ VerTypeOK
  /\ RowsHoldTheirToken
  /\ ProbersHoldTheirToken
  /\ VerifiedNeedsProof

LEMMA VerInitInv == VerInit => VerIInv
  BY VerificationAssumption
  DEF VerInit, VerIInv, VerTypeOK, VerificationRow, Method, ProofMethod, IdleProbe,
      RowsHoldTheirToken, ProbersHoldTheirToken, VerifiedNeedsProof

LEMMA VerificationStartInv ==
  ASSUME NEW a \in Asset, NEW m \in OfferedMethod, VerIInv, VerificationStart(a, m)
  PROVE  VerIInv'
<1> USE DEF VerIInv
<1>1. PICK t \in Token :
        /\ issuedFor[t] = NoAsset
        /\ issuedFor' = [issuedFor EXCEPT ![t] = a]
        /\ asset' = [asset EXCEPT ![a] = [status |-> "PENDING", method |-> m, token |-> t]]
  BY DEF VerificationStart
<1>2. UNCHANGED <<published, prober, proven, justified>>  BY DEF VerificationStart
<1>3. m \in ProofMethod  BY VerificationAssumption
<1>4. \A u \in Token : issuedFor[u] \in Asset => issuedFor'[u] = issuedFor[u]
  BY <1>1, VerificationAssumption DEF VerTypeOK
<1>5. VerTypeOK'  BY <1>1, <1>2, <1>3 DEF VerTypeOK, VerificationRow, Method
<1>6. RowsHoldTheirToken'  BY <1>1, <1>4 DEF VerTypeOK, RowsHoldTheirToken
<1>7. ProbersHoldTheirToken'  BY <1>2, <1>4 DEF ProbersHoldTheirToken
<1>8. VerifiedNeedsProof'
  BY <1>1, <1>2, <1>4 DEF VerTypeOK, VerifiedNeedsProof, ControlShown
<1>9. QED  BY <1>5, <1>6, <1>7, <1>8

LEMMA VerificationManualInv ==
  ASSUME NEW a \in Asset, VerIInv, VerificationManual(a) PROVE VerIInv'
  BY DEF VerIInv, VerificationManual, VerTypeOK, VerificationRow, Method, ProofMethod,
         RowsHoldTheirToken, ProbersHoldTheirToken, VerifiedNeedsProof, ControlShown

LEMMA ProbeReadInv ==
  ASSUME NEW p \in ProbeRequest, NEW a \in Asset, VerIInv, ProbeRead(p, a) PROVE VerIInv'
  BY DEF VerIInv, ProbeRead, VerTypeOK, VerificationRow, Method,
         RowsHoldTheirToken, ProbersHoldTheirToken, VerifiedNeedsProof, ControlShown

LEMMA ProbeLookupInv ==
  ASSUME NEW p \in ProbeRequest, VerIInv, ProbeLookup(p) PROVE VerIInv'
<1> USE DEF VerIInv
<1>1. /\ prober[p].asset \in Asset
      /\ prober[p].token \in Token
      /\ issuedFor[prober[p].token] = prober[p].asset
      /\ UNCHANGED <<asset, issuedFor, published, justified>>
  BY DEF ProbeLookup, ProbersHoldTheirToken
<1> DEFINE found == {x.token : x \in published[prober[p].asset]}
<1>2. CASE /\ Publishes(prober[p].asset, prober[p].method, prober[p].token)
           /\ prober' = [prober EXCEPT ![p].pc = "matched"]
           /\ proven' = [proven EXCEPT ![prober[p].asset] = @ \cup found]
  <2>1. prober[p].token \in found  BY <1>2 DEF Publishes
  <2>2. found \subseteq Token  BY <1>1 DEF VerTypeOK, Publication
  <2> HIDE DEF found
  <2>3. VerTypeOK'  BY <1>1, <1>2, <2>2 DEF VerTypeOK
  <2>4. RowsHoldTheirToken'  BY <1>1 DEF RowsHoldTheirToken
  <2>5. ProbersHoldTheirToken'  BY <1>1, <1>2, <2>1 DEF VerTypeOK, ProbersHoldTheirToken
  <2>6. VerifiedNeedsProof'  BY <1>1, <1>2 DEF VerTypeOK, VerifiedNeedsProof, ControlShown
  <2>7. QED  BY <2>3, <2>4, <2>5, <2>6
<1>3. CASE prober' = [prober EXCEPT ![p] = IdleProbe] /\ UNCHANGED proven
  BY <1>1, <1>3 DEF VerTypeOK, Method, IdleProbe, RowsHoldTheirToken, ProbersHoldTheirToken,
                    VerifiedNeedsProof, ControlShown
<1>4. QED  BY <1>2, <1>3 DEF ProbeLookup

\* The late write: the match may be of a token the row no longer holds.
LEMMA ProbeConfirmInv ==
  ASSUME NEW p \in ProbeRequest, VerIInv, ProbeConfirm(p) PROVE VerIInv'
<1> USE DEF VerIInv, ProbeConfirm
<1> DEFINE a == prober[p].asset
<1>1. a \in Asset /\ ControlShown(a)  BY DEF ProbersHoldTheirToken, ControlShown
<1>2. VerTypeOK'  BY <1>1 DEF VerTypeOK, VerificationRow, Method, IdleProbe
<1>3. RowsHoldTheirToken'  BY <1>1 DEF VerTypeOK, VerificationRow, RowsHoldTheirToken
<1>4. ProbersHoldTheirToken'  BY DEF VerTypeOK, ProbersHoldTheirToken, IdleProbe
<1>5. VerifiedNeedsProof'
  BY <1>1 DEF VerTypeOK, VerificationRow, VerifiedNeedsProof, ControlShown
<1>6. QED  BY <1>2, <1>3, <1>4, <1>5

LEMMA AbandonProbeInv ==
  ASSUME NEW p \in ProbeRequest, VerIInv, AbandonProbe(p) PROVE VerIInv'
  BY DEF VerIInv, AbandonProbe, VerTypeOK, Method, IdleProbe, RowsHoldTheirToken,
         ProbersHoldTheirToken, VerifiedNeedsProof, ControlShown

LEMMA VerCrashInv == ASSUME VerIInv, VerCrash PROVE VerIInv'
  BY DEF VerIInv, VerCrash, VerTypeOK, Method, IdleProbe, RowsHoldTheirToken,
         ProbersHoldTheirToken, VerifiedNeedsProof, ControlShown

\* Whatever the owner of the target publishes or takes down.
LEMMA OwnerActsInv == ASSUME VerIInv, OwnerActs PROVE VerIInv'
<1> USE DEF VerIInv
<1>1. UNCHANGED <<asset, issuedFor, prober, proven, justified>>
  BY DEF OwnerActs, Publish, Withdraw
<1>2. published' \in [Asset -> SUBSET Publication]
  <2>1. ASSUME NEW a \in Asset, NEW m \in OfferedMethod, NEW t \in Token, Publish(a, m, t)
        PROVE  published' \in [Asset -> SUBSET Publication]
    BY <2>1, VerificationAssumption DEF Publish, VerTypeOK, Publication
  <2>2. ASSUME NEW a \in Asset, Withdraw(a)
        PROVE  published' \in [Asset -> SUBSET Publication]
    BY <2>2 DEF Withdraw, VerTypeOK
  <2>3. QED  BY <2>1, <2>2 DEF OwnerActs
<1>3. QED
  BY <1>1, <1>2 DEF VerTypeOK, RowsHoldTheirToken, ProbersHoldTheirToken, VerifiedNeedsProof,
                    ControlShown

LEMMA VerStuttersInv == ASSUME VerIInv, UNCHANGED verVars PROVE VerIInv'
  BY DEF verVars, VerIInv, VerTypeOK, RowsHoldTheirToken, ProbersHoldTheirToken,
         VerifiedNeedsProof, ControlShown

LEMMA VerNextInv == ASSUME VerIInv, VerNext PROVE VerIInv'
<1>1. CASE \E a \in Asset, m \in OfferedMethod : VerificationStart(a, m)
  BY <1>1, VerificationStartInv
<1>2. CASE \E a \in Asset : VerificationManual(a)  BY <1>2, VerificationManualInv
<1>3. CASE \E p \in ProbeRequest, a \in Asset : ProbeRead(p, a)  BY <1>3, ProbeReadInv
<1>4. CASE \E p \in ProbeRequest : ProbeLookup(p) \/ ProbeConfirm(p) \/ AbandonProbe(p)
  BY <1>4, ProbeLookupInv, ProbeConfirmInv, AbandonProbeInv
<1>5. CASE OwnerActs  BY <1>5, OwnerActsInv
<1>6. QED  BY <1>1, <1>2, <1>3, <1>4, <1>5 DEF VerNext, VerRequests

\* Evidence for an asset stays: tokens keep their asset, and neither a proof
\* nor an attestation is taken back.
LEMMA EvidenceStays ==
  ASSUME VerIInv, VerNext \/ VerCrash, NEW a \in Asset, a \in justified \/ ControlShown(a)
  PROVE  (a \in justified \/ ControlShown(a))'
<1> USE DEF VerIInv
<1>1. justified \subseteq justified' /\ proven[a] \subseteq proven'[a]
  <2>1. CASE \E p \in ProbeRequest : ProbeLookup(p)
    BY <2>1 DEF VerTypeOK, ProbeLookup, ProbersHoldTheirToken
  <2>2. CASE \E b \in Asset : VerificationManual(b)  BY <2>2 DEF VerificationManual
  <2>3. CASE UNCHANGED <<justified, proven>>  BY <2>3
  <2>4. QED
    BY <2>1, <2>2, <2>3
    DEF VerNext, VerRequests, OwnerActs, VerCrash, VerificationStart, ProbeRead, ProbeConfirm,
        AbandonProbe, Publish, Withdraw
<1>2. \A t \in Token : issuedFor[t] = a => issuedFor'[t] = a
  BY VerificationAssumption
  DEF VerIInv, VerTypeOK, VerNext, VerRequests, OwnerActs, VerCrash, VerificationStart,
      VerificationManual, ProbeRead, ProbeLookup, ProbeConfirm, AbandonProbe, Publish, Withdraw
<1>3. proven[a] \subseteq Token  BY DEF VerIInv, VerTypeOK
<1>4. QED  BY <1>1, <1>2, <1>3 DEF ControlShown

LEMMA VerInvariance == VerSpec => []VerIInv
<1>1. VerInit => VerIInv  BY VerInitInv
<1>2. VerIInv /\ [VerNext]_verVars => VerIInv'  BY VerNextInv, VerStuttersInv
<1>3. QED  BY <1>1, <1>2, PTL DEF VerSpec

\* Type correctness of the verification columns and of the checks in progress.
THEOREM VerificationTyped == VerSpec => []VerTypeOK
<1>1. VerIInv => VerTypeOK  BY DEF VerIInv
<1>2. QED  BY <1>1, VerInvariance, PTL

\* An asset is VERIFIED only on an attestation or on a token of its own found
\* at its target, although verification/check writes on a row it read before
\* the lookup.
THEOREM VerifiedHasProof == VerSpec => []VerifiedNeedsProof
<1>1. VerIInv => VerifiedNeedsProof  BY DEF VerIInv
<1>2. QED  BY <1>1, VerInvariance, PTL

=============================================================================

------------------------- MODULE AuthorizationProofs -------------------------
(***************************************************************************)
(* Proofs about Authorization, for any number of engagements, envelopes    *)
(* and concurrent requests.                                                *)
(***************************************************************************)
EXTENDS Authorization, TLAPS

(***************************************************************************)
(* The inductive invariant.  SignedNeedsEvidence is not inductive alone: a *)
(* check that is about to write must already have its evidence, and that   *)
(* rests on every envelope in a row or a request having been sent for the  *)
(* engagement it is used for.                                              *)
(***************************************************************************)
\* An envelope has an engagement only once the provider created it.
EnvelopesFresh == \A v \in Envelope : provider[v] = "unsent" => sentFor[v] = NoEngagement

\* A row names only envelopes sent for it.
RowsKnowEnvelopes ==
  \A e \in Engagement :
    engagement[e].envelope # NoEnvelope => sentFor[engagement[e].envelope] = e

\* So does a send that has yet to write its row.
SendersKnowEnvelopes ==
  \A p \in SendRequest :
    sender[p].pc = "sent" =>
      /\ sender[p].eng \in Engagement
      /\ sender[p].env \in Envelope
      /\ sentFor[sender[p].env] = sender[p].eng

\* What a check read from its row still holds, signed never being reset, the
\* object it stored, if any, is there, and it is under a key its client has.
CheckerRead(c) ==
  /\ c.eng \in Engagement
  /\ c.env \in Envelope
  /\ sentFor[c.env] = c.eng
  /\ c.already => engagement[c.eng].signed
  /\ c.blob # NoBlob => c.blob \in storage
  /\ c.own => c.eng \in OwnKeyed

\* What the provider answered still holds, an envelope never being unsigned.
CheckerAnswered(c) ==
  /\ c.result # "unsent"
  /\ c.result = "SIGNED" => provider[c.env] = "SIGNED"

CheckerState ==
  [pc : {"idle", "read", "fetch", "write"},
   eng : Engagement \cup {NoEngagement},
   env : Envelope \cup {NoEnvelope},
   already : BOOLEAN,
   result : ProviderStatus,
   blob : Blob \cup {NoBlob},
   own : BOOLEAN]

\* Only the documents of clients with a key of their own are under such a key.
OwnKeysRegistered == \A e \in Engagement : engagement[e].docOwn => e \in OwnKeyed

CheckersHaveEvidence ==
  \A p \in CheckRequest :
    /\ checker[p].pc # "idle" => CheckerRead(checker[p])
    /\ checker[p].pc \in {"fetch", "write"} => CheckerAnswered(checker[p])

AuthIInv ==
  /\ AuthTypeOK
  /\ EnvelopesFresh
  /\ RowsKnowEnvelopes
  /\ SendersKnowEnvelopes
  /\ CheckersHaveEvidence
  /\ SignedNeedsEvidence
  /\ SignedRequestOpensGate
  /\ StoredDocumentDecrypts
  /\ OwnKeysRegistered

LEMMA AuthInitInv == AuthInit => AuthIInv
  BY AuthorizationAssumption
  DEF AuthInit, AuthIInv, AuthTypeOK, EnvelopesFresh, RowsKnowEnvelopes, SendersKnowEnvelopes,
      CheckersHaveEvidence, CheckerRead, CheckerAnswered, SignedNeedsEvidence,
      SignedRequestOpensGate, StoredDocumentDecrypts, OwnKeysRegistered, DocumentWhole, DocumentServed, ProviderConfirmed,
      EngagementRow, EngagementStatus, ProviderStatus, IdleSend, IdleCheck

LEMMA AuthorizeInv == ASSUME NEW e \in Engagement, AuthIInv, Authorize(e) PROVE AuthIInv'
<1> USE DEF AuthIInv, Authorize
<1>1. AuthTypeOK'
  <2> DEFINE row == [engagement[e] EXCEPT !.docRef = FreeText, !.signed = TRUE,
                                          !.method = "MANUAL", !.status = "ACTIVE"]
  <2>0. engagement[e] \in EngagementRow  BY DEF AuthTypeOK
  <2>1. row \in EngagementRow  BY <2>0 DEF EngagementRow, EngagementStatus
  <2>2. engagement' = [engagement EXCEPT ![e] = row]  OBVIOUS
  <2>3. engagement' \in [Engagement -> EngagementRow]  BY <2>1, <2>2 DEF AuthTypeOK
  <2>4. QED  BY <2>3 DEF AuthTypeOK
<1>2. EnvelopesFresh'  BY DEF EnvelopesFresh
<1>3. RowsKnowEnvelopes'  BY DEF AuthTypeOK, EngagementRow, RowsKnowEnvelopes
<1>4. SendersKnowEnvelopes'  BY DEF SendersKnowEnvelopes
<1>5. CheckersHaveEvidence'
  BY DEF AuthTypeOK, EngagementRow, CheckersHaveEvidence, CheckerRead, CheckerAnswered
<1>6. SignedNeedsEvidence'
  BY DEF AuthTypeOK, EngagementRow, SignedNeedsEvidence, ProviderConfirmed
<1>7. SignedRequestOpensGate'  BY DEF AuthTypeOK, EngagementRow, SignedRequestOpensGate
<1>8. StoredDocumentDecrypts' /\ OwnKeysRegistered'
  BY AuthorizationAssumption DEF AuthTypeOK, EngagementRow, StoredDocumentDecrypts, OwnKeysRegistered, DocumentWhole, DocumentServed
<1>9. QED  BY <1>1, <1>2, <1>3, <1>4, <1>5, <1>6, <1>7, <1>8 DEF AuthIInv

LEMMA SetScopeInv ==
  ASSUME NEW e \in Engagement, NEW s \in ScopeStatus, AuthIInv, SetScope(e, s)
  PROVE  AuthIInv'
<1> USE DEF AuthIInv, SetScope
<1>1. AuthTypeOK'
  <2> DEFINE row == [engagement[e] EXCEPT !.status = s]
  <2>0. engagement[e] \in EngagementRow  BY DEF AuthTypeOK
  <2>1. row \in EngagementRow  BY <2>0, AuthorizationAssumption DEF EngagementRow
  <2>2. engagement' = [engagement EXCEPT ![e] = row]  OBVIOUS
  <2>3. engagement' \in [Engagement -> EngagementRow]  BY <2>1, <2>2 DEF AuthTypeOK
  <2>4. QED  BY <2>3 DEF AuthTypeOK
<1>2. EnvelopesFresh' /\ SendersKnowEnvelopes'  BY DEF EnvelopesFresh, SendersKnowEnvelopes
<1>3. \A f \in Engagement : engagement'[f] = [engagement[f] EXCEPT !.status = engagement'[f].status]
  BY DEF AuthTypeOK, EngagementRow
<1>4. RowsKnowEnvelopes'  BY <1>3 DEF AuthTypeOK, EngagementRow, RowsKnowEnvelopes
<1>5. CheckersHaveEvidence'
  BY <1>3 DEF AuthTypeOK, EngagementRow, CheckersHaveEvidence, CheckerRead, CheckerAnswered
<1>6. SignedNeedsEvidence'
  BY <1>3 DEF AuthTypeOK, EngagementRow, SignedNeedsEvidence, ProviderConfirmed
<1>7. SignedRequestOpensGate'  BY <1>3 DEF AuthTypeOK, EngagementRow, SignedRequestOpensGate
<1>8. StoredDocumentDecrypts' /\ OwnKeysRegistered'  BY <1>3 DEF AuthTypeOK, EngagementRow, StoredDocumentDecrypts, OwnKeysRegistered, DocumentWhole, DocumentServed
<1>9. QED  BY <1>1, <1>2, <1>3, <1>4, <1>5, <1>6, <1>7, <1>8

LEMMA SendToProviderInv ==
  ASSUME NEW p \in SendRequest, NEW e \in Engagement, AuthIInv, SendToProvider(p, e)
  PROVE  AuthIInv'
<1> USE DEF AuthIInv
<1>0. PICK v \in Envelope :
        /\ provider[v] = "unsent"
        /\ provider' = [provider EXCEPT ![v] = "SENT"]
        /\ sentFor' = [sentFor EXCEPT ![v] = e]
        /\ sender' = [sender EXCEPT ![p] = [pc |-> "sent", eng |-> e, env |-> v]]
        /\ UNCHANGED <<engagement, storage, checker, attested>>
  BY DEF SendToProvider
<1>a. sentFor[v] = NoEngagement  BY <1>0 DEF EnvelopesFresh
<1>b. sentFor'[v] = e /\ provider'[v] = "SENT"  BY <1>0 DEF AuthTypeOK
<1>c. \A w : w # v => sentFor'[w] = sentFor[w] /\ provider'[w] = provider[w]
  BY <1>0 DEF AuthTypeOK
<1>1. AuthTypeOK'  BY <1>0 DEF AuthTypeOK, ProviderStatus
<1>2. EnvelopesFresh'  BY <1>b, <1>c DEF EnvelopesFresh
<1>3. RowsKnowEnvelopes'
  BY <1>0, <1>a, <1>c, AuthorizationAssumption DEF RowsKnowEnvelopes
<1>4. SendersKnowEnvelopes'
  BY <1>0, <1>a, <1>b, <1>c, AuthorizationAssumption DEF AuthTypeOK, SendersKnowEnvelopes
<1>5. CheckersHaveEvidence'
  BY <1>0, <1>a, <1>c, AuthorizationAssumption
  DEF CheckersHaveEvidence, CheckerRead, CheckerAnswered
<1>6. SignedNeedsEvidence'
  BY <1>0, <1>a, <1>c, AuthorizationAssumption DEF SignedNeedsEvidence, ProviderConfirmed
<1>7. SignedRequestOpensGate'  BY <1>0 DEF SignedRequestOpensGate
<1>8. StoredDocumentDecrypts' /\ OwnKeysRegistered'  BY <1>0 DEF StoredDocumentDecrypts, OwnKeysRegistered, DocumentWhole, DocumentServed
<1>9. QED  BY <1>1, <1>2, <1>3, <1>4, <1>5, <1>6, <1>7, <1>8

LEMMA SendRecordInv == ASSUME NEW p \in SendRequest, AuthIInv, SendRecord(p) PROVE AuthIInv'
<1> USE DEF AuthIInv, SendRecord
<1> DEFINE e == sender[p].eng
<1>0. e \in Engagement /\ sender[p].env \in Envelope /\ sentFor[sender[p].env] = e
  BY DEF SendersKnowEnvelopes
<1>1. AuthTypeOK'
  <2> DEFINE row == [engagement[e] EXCEPT !.method = "ESIGNATURE", !.request = "SENT",
                                          !.envelope = sender[p].env]
  <2>0. engagement[e] \in EngagementRow  BY <1>0 DEF AuthTypeOK
  <2>1. row \in EngagementRow  BY <1>0, <2>0 DEF EngagementRow
  <2>2. engagement' = [engagement EXCEPT ![e] = row]  OBVIOUS
  <2>3. engagement' \in [Engagement -> EngagementRow]  BY <2>1, <2>2 DEF AuthTypeOK
  <2>4. QED  BY <2>3 DEF AuthTypeOK, IdleSend
<1>2. EnvelopesFresh'  BY DEF EnvelopesFresh
<1>3. RowsKnowEnvelopes'  BY <1>0 DEF AuthTypeOK, EngagementRow, RowsKnowEnvelopes
<1>4. SendersKnowEnvelopes'  BY DEF AuthTypeOK, SendersKnowEnvelopes, IdleSend
<1>5. CheckersHaveEvidence'
  BY <1>0 DEF AuthTypeOK, EngagementRow, CheckersHaveEvidence, CheckerRead, CheckerAnswered
<1>6. SignedNeedsEvidence'
  BY <1>0 DEF AuthTypeOK, EngagementRow, SignedNeedsEvidence, ProviderConfirmed
<1>7. SignedRequestOpensGate'  BY <1>0 DEF AuthTypeOK, EngagementRow, SignedRequestOpensGate
<1>8. StoredDocumentDecrypts' /\ OwnKeysRegistered'  BY <1>0 DEF AuthTypeOK, EngagementRow, StoredDocumentDecrypts, OwnKeysRegistered, DocumentWhole, DocumentServed
<1>9. QED  BY <1>1, <1>2, <1>3, <1>4, <1>5, <1>6, <1>7, <1>8 DEF AuthIInv

LEMMA CheckReadInv ==
  ASSUME NEW p \in CheckRequest, NEW e \in Engagement, AuthIInv, CheckRead(p, e)
  PROVE  AuthIInv'
<1> USE DEF AuthIInv, CheckRead
<1> DEFINE c == [IdleCheck EXCEPT !.pc = "read", !.eng = e, !.env = engagement[e].envelope,
                                  !.already = engagement[e].signed]
<1>0. checker' = [checker EXCEPT ![p] = c] /\ c.pc = "read" /\ CheckerRead(c)
  BY DEF AuthTypeOK, EngagementRow, RowsKnowEnvelopes, CheckerRead, IdleCheck
<1>1. AuthTypeOK'  BY DEF AuthTypeOK, EngagementRow, ProviderStatus, IdleCheck
<1>2. EnvelopesFresh'  BY DEF EnvelopesFresh
<1>3. RowsKnowEnvelopes'  BY DEF RowsKnowEnvelopes
<1>4. SendersKnowEnvelopes'  BY DEF SendersKnowEnvelopes
<1>5. CheckersHaveEvidence'
  <2> SUFFICES ASSUME NEW q \in CheckRequest
               PROVE  /\ checker'[q].pc # "idle" => CheckerRead(checker[q])'
                      /\ checker'[q].pc \in {"fetch", "write"} => CheckerAnswered(checker[q])'
    BY DEF CheckersHaveEvidence
  <2>1. CASE q = p
    BY <2>1, <1>0 DEF AuthTypeOK, CheckerRead
  <2>2. CASE q # p
    BY <2>2, <1>0 DEF AuthTypeOK, CheckersHaveEvidence, CheckerRead, CheckerAnswered
  <2>3. QED  BY <2>1, <2>2
<1>6. SignedNeedsEvidence'  BY DEF SignedNeedsEvidence, ProviderConfirmed
<1>7. SignedRequestOpensGate'  BY DEF SignedRequestOpensGate
<1>8. StoredDocumentDecrypts' /\ OwnKeysRegistered'  BY DEF StoredDocumentDecrypts, OwnKeysRegistered, DocumentWhole, DocumentServed
<1>9. QED  BY <1>1, <1>2, <1>3, <1>4, <1>5, <1>6, <1>7, <1>8 DEF AuthIInv

\* A check moves on without writing its row: it may have stored an object.
LEMMA CheckerMovesInv ==
  ASSUME AuthIInv, NEW p \in CheckRequest, NEW c \in CheckerState,
         checker' = [checker EXCEPT ![p] = c], storage \subseteq storage', storage' \subseteq Blob,
         UNCHANGED <<engagement, provider, sentFor, sender, attested>>,
         CheckerRead(c)', c.pc \in {"fetch", "write"} => CheckerAnswered(c)
  PROVE  AuthIInv'
<1> USE DEF AuthIInv
<1>0. /\ checker \in [CheckRequest -> CheckerState]
      /\ checker' \in [CheckRequest -> CheckerState]
      /\ checker'[p] = c
      /\ \A q \in CheckRequest : q # p => checker'[q] = checker[q]
  BY DEF AuthTypeOK, CheckerState
<1>1. AuthTypeOK'  BY <1>0 DEF AuthTypeOK, CheckerState
<1>2. EnvelopesFresh'  BY DEF EnvelopesFresh
<1>3. RowsKnowEnvelopes'  BY DEF RowsKnowEnvelopes
<1>4. SendersKnowEnvelopes'  BY DEF SendersKnowEnvelopes
<1>5. CheckersHaveEvidence'
  <2> SUFFICES ASSUME NEW q \in CheckRequest
               PROVE  /\ checker'[q].pc # "idle" => CheckerRead(checker[q])'
                      /\ checker'[q].pc \in {"fetch", "write"} => CheckerAnswered(checker[q])'
    BY DEF CheckersHaveEvidence
  <2>1. CASE q = p  BY <2>1, <1>0 DEF CheckerRead, CheckerAnswered
  <2>2. CASE q # p  BY <2>2, <1>0 DEF CheckersHaveEvidence, CheckerRead, CheckerAnswered
  <2>3. QED  BY <2>1, <2>2
<1>6. SignedNeedsEvidence'  BY DEF SignedNeedsEvidence, ProviderConfirmed
<1>7. SignedRequestOpensGate'  BY DEF SignedRequestOpensGate
<1>8. StoredDocumentDecrypts' /\ OwnKeysRegistered'  BY DEF StoredDocumentDecrypts, OwnKeysRegistered, DocumentWhole, DocumentServed
<1>9. QED  BY <1>1, <1>2, <1>3, <1>4, <1>5, <1>6, <1>7, <1>8

LEMMA CheckAnswerInv == ASSUME NEW p \in CheckRequest, AuthIInv, CheckAnswer(p) PROVE AuthIInv'
<1> USE DEF AuthIInv, CheckAnswer
<1> DEFINE result == provider[checker[p].env]
<1> DEFINE next == IF JustSigned(result, checker[p].already) THEN "fetch" ELSE "write"
<1>0. PICK c : c = [checker[p] EXCEPT !.result = result, !.pc = next]  OBVIOUS
<1>1. checker[p] \in CheckerState  BY DEF AuthTypeOK, CheckerState
<1>2. CheckerRead(checker[p])  BY DEF CheckersHaveEvidence
<1>3. result \in ProviderStatus /\ result # "unsent"
  BY <1>2, AuthorizationAssumption DEF AuthTypeOK, CheckerRead, EnvelopesFresh
<1>4. c \in CheckerState  BY <1>0, <1>1, <1>3 DEF CheckerState
<1>5. CheckerRead(c)'  BY <1>0, <1>1, <1>2 DEF CheckerRead, CheckerState
<1>6. CheckerAnswered(c)  BY <1>0, <1>1, <1>3 DEF CheckerAnswered, CheckerState
<1>7. checker' = [checker EXCEPT ![p] = c]  BY <1>0
<1>8. QED  BY <1>4, <1>5, <1>6, <1>7, CheckerMovesInv DEF AuthTypeOK

LEMMA CheckStoreInv == ASSUME NEW p \in CheckRequest, AuthIInv, CheckStore(p) PROVE AuthIInv'
<1> USE DEF AuthIInv
<1>1. checker[p].pc = "fetch" /\ UNCHANGED <<engagement, provider, sentFor, sender, attested>>
  BY DEF CheckStore
<1>2. checker[p] \in CheckerState  BY DEF AuthTypeOK, CheckerState
<1>3. CheckerRead(checker[p]) /\ CheckerAnswered(checker[p])  BY <1>1 DEF CheckersHaveEvidence
<1>4. ASSUME NEW b \in Blob, NEW own \in BOOLEAN, own => checker[p].eng \in OwnKeyed,
             storage' = storage \cup {b},
             checker' = [checker EXCEPT
                          ![p] = [@ EXCEPT !.pc = "write", !.blob = b, !.own = own]]
      PROVE  AuthIInv'
  <2>0. PICK c : c = [checker[p] EXCEPT !.pc = "write", !.blob = b, !.own = own]  OBVIOUS
  <2>1. c \in CheckerState  BY <1>2, <2>0 DEF CheckerState
  <2>2. CheckerRead(c)'  BY <1>1, <1>2, <1>3, <1>4, <2>0 DEF CheckerRead, CheckerState
  <2>3. CheckerAnswered(c)  BY <1>2, <1>3, <2>0 DEF CheckerAnswered, CheckerState
  <2>4. checker' = [checker EXCEPT ![p] = c]  BY <1>4, <2>0
  <2>5. storage \subseteq storage' /\ storage' \subseteq Blob  BY <1>4 DEF AuthTypeOK
  <2>6. QED  BY <1>1, <2>1, <2>2, <2>3, <2>4, <2>5, CheckerMovesInv
<1>5. ASSUME storage' = storage, checker' = [checker EXCEPT ![p].pc = "write"]
      PROVE  AuthIInv'
  <2>0. PICK c : c = [checker[p] EXCEPT !.pc = "write"]  OBVIOUS
  <2>1. c \in CheckerState  BY <1>2, <2>0 DEF CheckerState
  <2>2. CheckerRead(c)'  BY <1>1, <1>2, <1>3, <1>5, <2>0 DEF CheckerRead, CheckerState
  <2>3. CheckerAnswered(c)  BY <1>2, <1>3, <2>0 DEF CheckerAnswered, CheckerState
  <2>4. checker' = [checker EXCEPT ![p] = c]  BY <1>5, <2>0
  <2>5. storage \subseteq storage' /\ storage' \subseteq Blob  BY <1>5 DEF AuthTypeOK
  <2>6. QED  BY <1>1, <2>1, <2>2, <2>3, <2>4, <2>5, CheckerMovesInv
<1>6. QED  BY <1>4, <1>5 DEF CheckStore

\* What authorize/check makes of a row: a row, with the gate no less open.
LEMMA CheckedRowType ==
  ASSUME NEW row \in EngagementRow,
         NEW c \in CheckerState,
         c.result # "unsent"
  PROVE  /\ CheckedRow(row, c) \in EngagementRow
         /\ CheckedRow(row, c).envelope = row.envelope
         /\ CheckedRow(row, c).request = c.result
         /\ CheckedRow(row, c).signed <=> row.signed \/ JustSigned(c.result, c.already)
         /\ \/ /\ CheckedRow(row, c).docRef = row.docRef
               /\ CheckedRow(row, c).docKey = row.docKey
               /\ CheckedRow(row, c).docOwn = row.docOwn
            \/ /\ CheckedRow(row, c).docRef = c.blob
               /\ CheckedRow(row, c).docKey = c.blob
               /\ CheckedRow(row, c).docOwn = c.own
               /\ c.blob # NoBlob
<1> DEFINE answered == [row EXCEPT !.request = c.result]
<1> DEFINE opened == [answered EXCEPT !.signed = TRUE, !.status = "ACTIVE"]
<1> DEFINE stored == [opened EXCEPT !.docRef = c.blob, !.docKey = c.blob, !.docOwn = c.own]
<1>1. /\ answered \in EngagementRow
      /\ opened \in EngagementRow
      /\ c.blob # NoBlob => stored \in EngagementRow
  BY DEF EngagementRow, EngagementStatus, ProviderStatus, CheckerState
<1>2. CASE ~JustSigned(c.result, c.already)
  <2>1. CheckedRow(row, c) = answered  BY <1>2 DEF CheckedRow
  <2>2. QED  BY <1>1, <1>2, <2>1 DEF EngagementRow
<1>3. CASE JustSigned(c.result, c.already) /\ c.blob = NoBlob
  <2>1. CheckedRow(row, c) = opened  BY <1>3 DEF CheckedRow
  <2>2. QED  BY <1>1, <1>3, <2>1 DEF EngagementRow
<1>4. CASE JustSigned(c.result, c.already) /\ c.blob # NoBlob
  <2>1. CheckedRow(row, c) = stored  BY <1>4 DEF CheckedRow
  <2>2. QED  BY <1>1, <1>4, <2>1 DEF EngagementRow
<1>5. QED  BY <1>2, <1>3, <1>4

LEMMA CheckWriteInv ==
  ASSUME NEW p \in CheckRequest, AuthIInv, CheckWrite(p) PROVE AuthIInv'
<1> USE DEF AuthIInv, CheckWrite
<1> DEFINE c == checker[p]
<1> DEFINE e == c.eng
<1> DEFINE row == CheckedRow(engagement[e], c)
<1>a. CheckerRead(c) /\ CheckerAnswered(c)  BY DEF CheckersHaveEvidence
<1>b. e \in Engagement /\ engagement[e] \in EngagementRow  BY <1>a DEF CheckerRead, AuthTypeOK
<1>c. /\ row \in EngagementRow
      /\ row.envelope = engagement[e].envelope
      /\ row.request = c.result
      /\ row.signed <=> engagement[e].signed \/ JustSigned(c.result, c.already)
      /\ \/ /\ row.docRef = engagement[e].docRef /\ row.docKey = engagement[e].docKey
            /\ row.docOwn = engagement[e].docOwn
         \/ /\ row.docRef = c.blob /\ row.docKey = c.blob /\ c.blob # NoBlob
            /\ row.docOwn = c.own
  BY <1>a, <1>b, CheckedRowType DEF AuthTypeOK, CheckerState, CheckerAnswered
<1> HIDE DEF row
<1>d. engagement' = [engagement EXCEPT ![e] = row]  BY DEF row
<1>e. /\ engagement'[e] = row
      /\ \A f \in Engagement : f # e => engagement'[f] = engagement[f]
  BY <1>b, <1>d DEF AuthTypeOK
<1>1. AuthTypeOK'  BY <1>b, <1>c, <1>d DEF AuthTypeOK, IdleCheck, ProviderStatus
<1>2. EnvelopesFresh'  BY DEF EnvelopesFresh
<1>3. RowsKnowEnvelopes'  BY <1>c, <1>e DEF RowsKnowEnvelopes
<1>4. SendersKnowEnvelopes'  BY DEF SendersKnowEnvelopes
<1>5. CheckersHaveEvidence'
  <2> SUFFICES ASSUME NEW q \in CheckRequest, checker'[q].pc # "idle"
               PROVE  /\ CheckerRead(checker[q])'
                      /\ checker'[q].pc \in {"fetch", "write"} => CheckerAnswered(checker[q])'
    BY DEF CheckersHaveEvidence
  <2>1. q # p /\ checker'[q] = checker[q]  BY DEF AuthTypeOK, IdleCheck
  <2>2. CheckerRead(checker[q])'
    BY <2>1, <1>c, <1>e DEF CheckersHaveEvidence, CheckerRead
  <2>3. QED  BY <2>1, <2>2 DEF CheckersHaveEvidence, CheckerAnswered
<1>6. SignedNeedsEvidence'
  BY <1>a, <1>b, <1>c, <1>e
  DEF SignedNeedsEvidence, ProviderConfirmed, CheckerRead, CheckerAnswered, JustSigned
<1>7. SignedRequestOpensGate'
  BY <1>a, <1>c, <1>e DEF SignedRequestOpensGate, CheckerRead, JustSigned
<1>8. StoredDocumentDecrypts' /\ OwnKeysRegistered'
  BY <1>a, <1>b, <1>c, <1>e DEF StoredDocumentDecrypts, OwnKeysRegistered, DocumentWhole, DocumentServed, CheckerRead
<1>9. QED  BY <1>1, <1>2, <1>3, <1>4, <1>5, <1>6, <1>7, <1>8 DEF AuthIInv

LEMMA SignerActsInv == ASSUME NEW v \in Envelope, AuthIInv, SignerActs(v) PROVE AuthIInv'
<1> USE DEF AuthIInv, SignerActs
<1>0. /\ provider[v] = "SENT" /\ provider'[v] \in {"SIGNED", "DECLINED"}
      /\ \A w : w # v => provider'[w] = provider[w]
  BY DEF AuthTypeOK
<1>1. AuthTypeOK'  BY DEF AuthTypeOK, ProviderStatus
<1>2. EnvelopesFresh'  BY <1>0 DEF EnvelopesFresh
<1>3. RowsKnowEnvelopes'  BY DEF RowsKnowEnvelopes
<1>4. SendersKnowEnvelopes'  BY DEF SendersKnowEnvelopes
<1>5. CheckersHaveEvidence'
  BY <1>0 DEF CheckersHaveEvidence, CheckerRead, CheckerAnswered
<1>6. SignedNeedsEvidence'  BY <1>0 DEF SignedNeedsEvidence, ProviderConfirmed
<1>7. SignedRequestOpensGate'  BY DEF SignedRequestOpensGate
<1>8. StoredDocumentDecrypts' /\ OwnKeysRegistered'  BY DEF StoredDocumentDecrypts, OwnKeysRegistered, DocumentWhole, DocumentServed
<1>9. QED  BY <1>1, <1>2, <1>3, <1>4, <1>5, <1>6, <1>7, <1>8

\* Requests that end without writing anything, any number of them at once.
LEMMA RequestsEndInv ==
  ASSUME AuthIInv, UNCHANGED <<engagement, provider, sentFor, storage, attested>>,
         sender' = [p \in SendRequest |-> sender'[p]],
         checker' = [p \in CheckRequest |-> checker'[p]],
         \A p \in SendRequest : sender'[p] \in {sender[p], IdleSend},
         \A p \in CheckRequest : checker'[p] \in {checker[p], IdleCheck}
  PROVE  AuthIInv'
<1> USE DEF AuthIInv
<1>1. AuthTypeOK'
  <2>1. \A p \in SendRequest : sender'[p] \in [pc : {"idle", "sent"},
                                                eng : Engagement \cup {NoEngagement},
                                                env : Envelope \cup {NoEnvelope}]
    BY DEF AuthTypeOK, IdleSend
  <2>2. \A p \in CheckRequest : checker'[p] \in CheckerState
    <3>1. IdleCheck \in CheckerState  BY DEF IdleCheck, CheckerState, ProviderStatus
    <3>2. \A p \in CheckRequest : checker[p] \in CheckerState  BY DEF AuthTypeOK, CheckerState
    <3>3. QED  BY <3>1, <3>2
  <2>3. sender' \in [SendRequest -> [pc : {"idle", "sent"},
                                     eng : Engagement \cup {NoEngagement},
                                     env : Envelope \cup {NoEnvelope}]]
    BY <2>1
  <2>4. checker' \in [CheckRequest -> CheckerState]  BY <2>2
  <2>5. QED  BY <2>3, <2>4 DEF AuthTypeOK, CheckerState
<1>2. EnvelopesFresh'  BY DEF EnvelopesFresh
<1>3. RowsKnowEnvelopes'  BY DEF RowsKnowEnvelopes
<1>4. SendersKnowEnvelopes'  BY DEF SendersKnowEnvelopes, IdleSend
<1>5. CheckersHaveEvidence'
  BY DEF CheckersHaveEvidence, CheckerRead, CheckerAnswered, IdleCheck
<1>6. SignedNeedsEvidence'  BY DEF SignedNeedsEvidence, ProviderConfirmed
<1>7. SignedRequestOpensGate'  BY DEF SignedRequestOpensGate
<1>8. StoredDocumentDecrypts' /\ OwnKeysRegistered'  BY DEF StoredDocumentDecrypts, OwnKeysRegistered, DocumentWhole, DocumentServed
<1>9. QED  BY <1>1, <1>2, <1>3, <1>4, <1>5, <1>6, <1>7, <1>8

LEMMA AbandonSendInv == ASSUME NEW p \in SendRequest, AuthIInv, AbandonSend(p) PROVE AuthIInv'
  BY RequestsEndInv DEF AbandonSend, AuthIInv, AuthTypeOK

LEMMA AbandonCheckInv ==
  ASSUME NEW p \in CheckRequest, AuthIInv, AbandonCheck(p) PROVE AuthIInv'
  BY RequestsEndInv DEF AbandonCheck, AuthIInv, AuthTypeOK

LEMMA AuthCrashInv == ASSUME AuthIInv, AuthCrash PROVE AuthIInv'
  BY RequestsEndInv DEF AuthCrash

LEMMA AuthStuttersInv == ASSUME AuthIInv, UNCHANGED authVars PROVE AuthIInv'
  BY RequestsEndInv DEF authVars, AuthIInv, AuthTypeOK

(***************************************************************************)
(* Theorems                                                                *)
(***************************************************************************)
\* Every step of the handlers, of a signer and of a crash keeps the invariant.
LEMMA AuthNextInv == ASSUME AuthIInv, AuthNext PROVE AuthIInv'
<1>1. CASE \E e \in Engagement : Authorize(e)  BY <1>1, AuthorizeInv
<1>2. CASE \E e \in Engagement, s \in ScopeStatus : SetScope(e, s)  BY <1>2, SetScopeInv
<1>3. CASE \E p \in SendRequest, e \in Engagement : SendToProvider(p, e)
  BY <1>3, SendToProviderInv
<1>4. CASE \E p \in SendRequest : SendRecord(p) \/ AbandonSend(p)
  BY <1>4, SendRecordInv, AbandonSendInv
<1>5. CASE \E p \in CheckRequest, e \in Engagement : CheckRead(p, e)  BY <1>5, CheckReadInv
<1>6. CASE \E p \in CheckRequest :
             CheckAnswer(p) \/ CheckStore(p) \/ CheckWrite(p) \/ AbandonCheck(p)
  BY <1>6, CheckAnswerInv, CheckStoreInv, CheckWriteInv, AbandonCheckInv
<1>7. CASE \E v \in Envelope : SignerActs(v)  BY <1>7, SignerActsInv
<1>8. QED  BY <1>1, <1>2, <1>3, <1>4, <1>5, <1>6, <1>7 DEF AuthNext, AuthRequests

LEMMA AuthInvariance == AuthSpec => []AuthIInv
<1>1. AuthInit => AuthIInv  BY AuthInitInv
<1>2. AuthIInv /\ [AuthNext]_authVars => AuthIInv'  BY AuthNextInv, AuthStuttersInv
<1>3. QED  BY <1>1, <1>2, PTL DEF AuthSpec

\* Type correctness of the engagement rows and of the requests that authorize.
THEOREM AuthorizationTyped == AuthSpec => []AuthTypeOK
<1>1. AuthIInv => AuthTypeOK  BY DEF AuthIInv
<1>2. QED  BY <1>1, AuthInvariance, PTL

\* The hard gate: nothing opens an engagement without an attestation or a
\* completed envelope of its own, whatever the number of concurrent requests.
THEOREM GateNeedsEvidence == AuthSpec => []SignedNeedsEvidence
<1>1. AuthIInv => SignedNeedsEvidence  BY DEF AuthIInv
<1>2. QED  BY <1>1, AuthInvariance, PTL

\* A request shown as SIGNED has opened its gate, although authorize/check
\* decides on a copy of the row it read before it asked the provider.
THEOREM SignedOpensGate == AuthSpec => []SignedRequestOpensGate
<1>1. AuthIInv => SignedRequestOpensGate  BY DEF AuthIInv
<1>2. QED  BY <1>1, AuthInvariance, PTL

\* A stored document is whole and, unless its client has a key of its own that
\* does not admit the system, can be fetched and decrypted, however many checks
\* store one at the same time and whenever the client registers its key.
THEOREM DocumentDecrypts == AuthSpec => []StoredDocumentDecrypts
<1>1. AuthIInv => StoredDocumentDecrypts  BY DEF AuthIInv
<1>2. QED  BY <1>1, AuthInvariance, PTL

(***************************************************************************)
(* Refinement                                                              *)
(***************************************************************************)
Vouched == {e \in Engagement : e \in attested \/ ProviderConfirmed(e)}
Opened == {e \in Engagement : engagement[e].signed}

\* A step that vouches for nobody and opens nothing maps to a stutter.
LEMMA GateStutters ==
  ASSUME Vouched' = Vouched, Opened' = Opened
  PROVE  [Gate!GateNext]_(Gate!gateVars)
  BY DEF Vouched, Opened, Gate!gateVars

LEMMA GateStep == ASSUME AuthIInv, [AuthNext]_authVars PROVE [Gate!GateNext]_(Gate!gateVars)
<1> USE DEF AuthIInv, Vouched, Opened, ProviderConfirmed
<1>1. ASSUME NEW e \in Engagement, Authorize(e) PROVE Gate!Attest(e)
  BY <1>1 DEF Authorize, Gate!Attest, AuthTypeOK, EngagementRow
<1>2. ASSUME NEW e \in Engagement, NEW s \in ScopeStatus, SetScope(e, s)
      PROVE  Vouched' = Vouched /\ Opened' = Opened
  BY <1>2 DEF SetScope, AuthTypeOK, EngagementRow
<1>3. ASSUME NEW p \in SendRequest, NEW e \in Engagement, SendToProvider(p, e)
      PROVE  Vouched' = Vouched /\ Opened' = Opened
  BY <1>3 DEF SendToProvider, AuthTypeOK, EnvelopesFresh
<1>4. ASSUME NEW p \in SendRequest, SendRecord(p)
      PROVE  Vouched' = Vouched /\ Opened' = Opened
  BY <1>4 DEF SendRecord, AuthTypeOK, EngagementRow
<1>5. ASSUME NEW p \in CheckRequest, CheckWrite(p)
      PROVE  (\E e \in Engagement : Gate!Open(e)) \/ (Vouched' = Vouched /\ Opened' = Opened)
  <2> DEFINE c == checker[p]
  <2>1. CheckerRead(c) /\ CheckerAnswered(c)  BY <1>5 DEF CheckWrite, CheckersHaveEvidence
  <2>2. /\ c.eng \in Engagement
        /\ engagement[c.eng] \in EngagementRow
        /\ CheckedRow(engagement[c.eng], c).signed
             <=> engagement[c.eng].signed \/ JustSigned(c.result, c.already)
    BY <1>5, <2>1, CheckedRowType DEF CheckerRead, CheckerAnswered, CheckerState, AuthTypeOK
  <2>3. Vouched' = Vouched  BY <1>5 DEF CheckWrite
  <2>4. CASE JustSigned(c.result, c.already)
    <3>1. c.eng \in Vouched  BY <2>1, <2>4 DEF CheckerRead, CheckerAnswered, JustSigned
    <3>2. Opened' = Opened \cup {c.eng}  BY <1>5, <2>2, <2>4 DEF CheckWrite, AuthTypeOK
    <3>3. QED  BY <2>2, <2>3, <3>1, <3>2 DEF Gate!Open
  <2>5. CASE ~JustSigned(c.result, c.already)
    <3>1. Opened' = Opened  BY <1>5, <2>2, <2>5 DEF CheckWrite, AuthTypeOK
    <3>2. QED  BY <2>3, <3>1
  <2>6. QED  BY <2>4, <2>5
<1>6. ASSUME NEW v \in Envelope, SignerActs(v)
      PROVE  (\E e \in Engagement : Gate!Vouch(e)) \/ (Vouched' = Vouched /\ Opened' = Opened)
  BY <1>6 DEF SignerActs, AuthTypeOK, Gate!Vouch
<1>7. ASSUME UNCHANGED <<engagement, provider, sentFor, attested>>
      PROVE  Vouched' = Vouched /\ Opened' = Opened
  BY <1>7
<1>8. CASE UNCHANGED authVars  BY <1>7, <1>8, GateStutters DEF authVars
<1>9. CASE AuthNext
  <2>1. (\E e \in Engagement : Gate!Attest(e) \/ Gate!Open(e) \/ Gate!Vouch(e))
          \/ (Vouched' = Vouched /\ Opened' = Opened)
    BY <1>1, <1>2, <1>3, <1>4, <1>5, <1>6, <1>7, <1>9
    DEF AuthNext, AuthRequests, CheckRead, CheckAnswer, CheckStore, AbandonSend, AbandonCheck
  <2>2. QED  BY <2>1, GateStutters DEF Gate!GateNext
<1>10. QED  BY <1>8, <1>9

\* The handlers implement the abstract gate: an engagement opens only after
\* somebody vouched for it, and never closes.
THEOREM AuthorizationRefinesGate == AuthSpec => ImplementsGate
<1>1. AuthInit => Gate!GateInit
  BY DEF AuthInit, Gate!GateInit, ProviderConfirmed
<1>2. AuthIInv /\ [AuthNext]_authVars => [Gate!GateNext]_(Gate!gateVars)  BY GateStep
<1>3. QED  BY <1>1, <1>2, AuthInvariance, PTL DEF AuthSpec, ImplementsGate, Gate!GateSpec

\* An open gate stays open, the form in which other modules use it.
LEMMA SignedStays ==
  ASSUME AuthIInv, AuthNext \/ AuthCrash, NEW e \in Engagement, engagement[e].signed
  PROVE  engagement'[e].signed
<1>1. CASE AuthNext
  <2>1. Opened \subseteq Opened'
    BY <1>1, GateStep
    DEF Gate!GateNext, Gate!gateVars, Gate!Vouch, Gate!Open, Gate!Attest, Opened
  <2>2. QED  BY <2>1 DEF Opened
<1>2. CASE AuthCrash  BY <1>2 DEF AuthCrash
<1>3. QED  BY <1>1, <1>2

=============================================================================

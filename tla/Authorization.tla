---------------------------- MODULE Authorization ----------------------------
(***************************************************************************)
(* The engagement row and the handlers that authorize testing on it        *)
(* (src/src/modules/engagements/engagements.routes.ts).  Every await of a  *)
(* handler is a point where another request may run, so a handler that     *)
(* reads a row, calls the e-signature provider and writes the row back is  *)
(* three steps of a request process here.                                  *)
(***************************************************************************)
CONSTANTS
  Engagement,    \* the engagements
  Envelope,      \* envelope ids the provider can hand out (bound: resends)
  Blob,          \* object storage keys (bound: stored signed documents)
  SendRequest,   \* concurrent POST :id/authorize/send requests
  CheckRequest,  \* concurrent POST :id/authorize/check requests
  ScopeStatus,   \* the statuses PATCH :id/scope is called with
  OwnKeyed,      \* engagements of clients that register an AWS key of their own
  ByokGranted,   \* whether such a client's AWS account lets the system's role use its key
  NoEngagement, NoEnvelope, NoBlob, FreeText

EngagementStatus == {"SCOPING", "ACTIVE", "REPORTING", "RETEST", "CLOSED"}

ASSUME AuthorizationAssumption ==
  /\ ScopeStatus \subseteq EngagementStatus
  /\ OwnKeyed \subseteq Engagement
  /\ ByokGranted \in BOOLEAN
  /\ NoEngagement \notin Engagement
  /\ NoEnvelope \notin Envelope
  /\ NoBlob \notin Blob
  /\ FreeText \notin Blob
  /\ FreeText # NoBlob

VARIABLES
  engagement,  \* the Engagement table
  provider,    \* the status checkStatus reports for each envelope
  sentFor,     \* the externalId each envelope was created with
  storage,     \* keys under authorization-docs/ that hold an object
  sender,      \* authorize/send requests in progress
  checker,     \* authorize/check requests in progress
  attested     \* engagements with a successful POST :id/authorize (its audit rows)

authVars == <<engagement, provider, sentFor, storage, sender, checker, attested>>

EngagementRow ==
  [status   : EngagementStatus,
   signed   : BOOLEAN,                         \* authorizationSignedAt is not null
   method   : {"none", "MANUAL", "ESIGNATURE"},
   envelope : Envelope \cup {NoEnvelope},
   request  : {"none", "SENT", "SIGNED", "DECLINED"},
   docRef   : Blob \cup {NoBlob, FreeText},
   docKey   : Blob \cup {NoBlob},              \* the object that docIv, docAuthTag and the
                                               \* wrapped data key in the row decrypt
   docOwn   : BOOLEAN]                         \* that data key is wrapped by the client's own key

ProviderStatus == {"unsent", "SENT", "SIGNED", "DECLINED"}

IdleSend  == [pc |-> "idle", eng |-> NoEngagement, env |-> NoEnvelope]
IdleCheck == [pc |-> "idle", eng |-> NoEngagement, env |-> NoEnvelope,
              already |-> FALSE, result |-> "unsent", blob |-> NoBlob, own |-> FALSE]

AuthTypeOK ==
  /\ engagement \in [Engagement -> EngagementRow]
  /\ provider \in [Envelope -> ProviderStatus]
  /\ sentFor \in [Envelope -> Engagement \cup {NoEngagement}]
  /\ storage \subseteq Blob
  /\ sender \in [SendRequest -> [pc : {"idle", "sent"},
                                 eng : Engagement \cup {NoEngagement},
                                 env : Envelope \cup {NoEnvelope}]]
  /\ checker \in [CheckRequest -> [pc : {"idle", "read", "fetch", "write"},
                                   eng : Engagement \cup {NoEngagement},
                                   env : Envelope \cup {NoEnvelope},
                                   already : BOOLEAN,
                                   result : ProviderStatus,
                                   blob : Blob \cup {NoBlob},
                                   own : BOOLEAN]]
  /\ attested \subseteq Engagement

\* POST / creates the row with Prisma's defaults and no authorization.
AuthInit ==
  /\ engagement = [e \in Engagement |->
                     [status |-> "SCOPING", signed |-> FALSE, method |-> "none",
                      envelope |-> NoEnvelope, request |-> "none",
                      docRef |-> NoBlob, docKey |-> NoBlob, docOwn |-> FALSE]]
  /\ provider = [v \in Envelope |-> "unsent"]
  /\ sentFor = [v \in Envelope |-> NoEngagement]
  /\ storage = {}
  /\ sender = [p \in SendRequest |-> IdleSend]
  /\ checker = [p \in CheckRequest |-> IdleCheck]
  /\ attested = {}

(***************************************************************************)
(* Handlers that write the row with one statement                          *)
(***************************************************************************)
\* Mutant: closing an engagement takes its authorization back.
SetScopeRevokes(e, s) ==
  /\ engagement' = [engagement EXCEPT
                      ![e] = [@ EXCEPT !.status = s, !.signed = @ /\ s # "CLOSED"]]
  /\ UNCHANGED <<provider, sentFor, storage, sender, checker, attested>>

\* PATCH :id/scope with a status (the encrypted scope texts are left out).
SetScope(e, s) ==
  /\ engagement' = [engagement EXCEPT ![e].status = s]
  /\ UNCHANGED <<provider, sentFor, storage, sender, checker, attested>>

\* POST :id/authorize.  The document reference is text typed by the
\* administrator; the encryption metadata of an earlier stored document stays.
Authorize(e) ==
  /\ engagement' = [engagement EXCEPT
                      ![e] = [@ EXCEPT !.docRef = FreeText, !.signed = TRUE,
                                       !.method = "MANUAL", !.status = "ACTIVE"]]
  /\ attested' = attested \cup {e}
  /\ UNCHANGED <<provider, sentFor, storage, sender, checker>>

(***************************************************************************)
(* POST :id/authorize/send                                                 *)
(***************************************************************************)
\* The provider creates and distributes an envelope for e.  A provider error
\* ends the request with a 502 and changes nothing here.
SendToProvider(p, e) ==
  /\ sender[p].pc = "idle"
  /\ \E v \in Envelope :
       /\ provider[v] = "unsent"
       /\ provider' = [provider EXCEPT ![v] = "SENT"]
       /\ sentFor' = [sentFor EXCEPT ![v] = e]
       /\ sender' = [sender EXCEPT ![p] = [pc |-> "sent", eng |-> e, env |-> v]]
  /\ UNCHANGED <<engagement, storage, checker, attested>>

\* The row now names the new envelope, whatever it named before.
SendRecord(p) ==
  /\ sender[p].pc = "sent"
  /\ engagement' = [engagement EXCEPT
                      ![sender[p].eng] = [@ EXCEPT !.method = "ESIGNATURE", !.request = "SENT",
                                                   !.envelope = sender[p].env]]
  /\ sender' = [sender EXCEPT ![p] = IdleSend]
  /\ UNCHANGED <<provider, sentFor, storage, checker, attested>>

(***************************************************************************)
(* POST :id/authorize/check                                                *)
(***************************************************************************)
CheckRead(p, e) ==
  /\ checker[p].pc = "idle"
  /\ engagement[e].envelope # NoEnvelope
  /\ checker' = [checker EXCEPT
                   ![p] = [IdleCheck EXCEPT !.pc = "read", !.eng = e,
                                            !.env = engagement[e].envelope,
                                            !.already = engagement[e].signed]]
  /\ UNCHANGED <<engagement, provider, sentFor, storage, sender, attested>>

\* Mutant: any final answer counts as a signature.
JustSignedOnAnyAnswer(result, already) == result # "SENT" /\ ~already

\* The status reported for a request that read `already` from the row.
JustSigned(result, already) == result = "SIGNED" /\ ~already

CheckAnswer(p) ==
  /\ checker[p].pc = "read"
  /\ LET result == provider[checker[p].env]
     IN  checker' = [checker EXCEPT
                       ![p] = [@ EXCEPT !.result = result,
                                        !.pc = IF JustSigned(result, checker[p].already)
                                               THEN "fetch" ELSE "write"]]
  /\ UNCHANGED <<engagement, provider, sentFor, storage, sender, attested>>

\* What the provider hands out the signed PDF of: it asks for the status again.
SignedDocument(v) == provider[v] = "SIGNED"

\* Best effort: the signed PDF is encrypted with the client's provider, whose
\* key is the client's own from the moment it registers one, and stored under
\* a new storage key, or fetching or storing it fails and the row keeps its
\* document fields.
CheckStore(p) ==
  /\ checker[p].pc = "fetch"
  /\ \/ \E b \in Blob \ storage, own \in BOOLEAN :
          /\ SignedDocument(checker[p].env)
          /\ own => checker[p].eng \in OwnKeyed
          /\ storage' = storage \cup {b}
          /\ checker' = [checker EXCEPT
                           ![p] = [@ EXCEPT !.pc = "write", !.blob = b, !.own = own]]
     \/ /\ checker' = [checker EXCEPT ![p].pc = "write"]
        /\ UNCHANGED storage
  /\ UNCHANGED <<engagement, provider, sentFor, sender, attested>>

\* Mutant: the provider's status goes to the engagement's status column.
CheckedRowWrongColumn(row, c) ==
  [row EXCEPT !.status = c.result, !.signed = @ \/ JustSigned(c.result, c.already)]

\* Mutant: the gate waits for the stored document, which is only best effort.
CheckedRowNeedsDocument(row, c) ==
  IF c.blob = NoBlob
  THEN [row EXCEPT !.request = c.result]
  ELSE [row EXCEPT !.request = c.result, !.signed = TRUE, !.status = "ACTIVE",
                   !.docRef = c.blob, !.docKey = c.blob, !.docOwn = c.own]

\* Mutant: the encryption metadata of a stored document is kept if there is one.
CheckedRowKeepsMetadata(row, c) ==
  [row EXCEPT !.request = c.result,
              !.signed = @ \/ JustSigned(c.result, c.already),
              !.docRef = IF c.blob = NoBlob THEN @ ELSE c.blob,
              !.docKey = IF @ = NoBlob THEN c.blob ELSE @,
              !.docOwn = IF row.docKey = NoBlob THEN c.own ELSE @]

\* The row a finished check writes over the row it finds.
CheckedRow(row, c) ==
  LET answered == [row EXCEPT !.request = c.result]
      opened   == [answered EXCEPT !.signed = TRUE, !.status = "ACTIVE"]
  IN  IF ~JustSigned(c.result, c.already) THEN answered
      ELSE IF c.blob = NoBlob THEN opened
      ELSE [opened EXCEPT !.docRef = c.blob, !.docKey = c.blob, !.docOwn = c.own]

CheckWrite(p) ==
  /\ checker[p].pc = "write"
  /\ engagement' = [engagement EXCEPT
                      ![checker[p].eng] = CheckedRow(engagement[checker[p].eng], checker[p])]
  /\ checker' = [checker EXCEPT ![p] = IdleCheck]
  /\ UNCHANGED <<provider, sentFor, storage, sender, attested>>

(***************************************************************************)
(* The provider's signer, and requests that die                            *)
(***************************************************************************)
SignerActs(v) ==
  /\ provider[v] = "SENT"
  /\ \E s \in {"SIGNED", "DECLINED"} : provider' = [provider EXCEPT ![v] = s]
  /\ UNCHANGED <<engagement, sentFor, storage, sender, checker, attested>>

\* A provider or database error, or the loss of the process, ends a request.
AbandonSend(p) ==
  /\ sender[p].pc # "idle"
  /\ sender' = [sender EXCEPT ![p] = IdleSend]
  /\ UNCHANGED <<engagement, provider, sentFor, storage, checker, attested>>

AbandonCheck(p) ==
  /\ checker[p].pc # "idle"
  /\ checker' = [checker EXCEPT ![p] = IdleCheck]
  /\ UNCHANGED <<engagement, provider, sentFor, storage, sender, attested>>

\* A crash of the server process ends every request in progress.
AuthCrash ==
  /\ sender' = [p \in SendRequest |-> IdleSend]
  /\ checker' = [p \in CheckRequest |-> IdleCheck]
  /\ UNCHANGED <<engagement, provider, sentFor, storage, attested>>

AuthRequests ==
  \/ \E e \in Engagement : Authorize(e)
  \/ \E e \in Engagement, s \in ScopeStatus : SetScope(e, s)
  \/ \E p \in SendRequest, e \in Engagement : SendToProvider(p, e)
  \/ \E p \in SendRequest : SendRecord(p) \/ AbandonSend(p)
  \/ \E p \in CheckRequest, e \in Engagement : CheckRead(p, e)
  \/ \E p \in CheckRequest : CheckAnswer(p) \/ CheckStore(p) \/ CheckWrite(p) \/ AbandonCheck(p)

AuthNext == AuthRequests \/ \E v \in Envelope : SignerActs(v)

AuthSpec == AuthInit /\ [][AuthNext]_authVars

(***************************************************************************)
(* Properties                                                              *)
(***************************************************************************)
\* The signer of an envelope that was sent for e completed it.
ProviderConfirmed(e) == \E v \in Envelope : sentFor[v] = e /\ provider[v] = "SIGNED"

\* An engagement is open to testing only if an administrator attested a
\* signed document or the provider reports a completed envelope that was sent
\* for this very engagement, however sends, checks and resends interleave
\* (the hard gate that authorize and authorize/check implement).
SignedNeedsEvidence ==
  \A e \in Engagement : engagement[e].signed => e \in attested \/ ProviderConfirmed(e)

\* The dashboard never shows a signature request as SIGNED while the gate is
\* still closed: authorize/check decides on alreadySigned from an old read.
SignedRequestOpensGate ==
  \A e \in Engagement : engagement[e].request = "SIGNED" => engagement[e].signed

\* The object the row refers to is there, and the row's encryption metadata is
\* that object's.
DocumentWhole(e) ==
  /\ engagement[e].docRef # NoBlob /\ engagement[e].docKey # NoBlob
  /\ engagement[e].docRef \in storage
  /\ engagement[e].docKey = engagement[e].docRef

\* GET :id/authorization-document: the document is whole, and its data key is
\* unwrapped with the system's own role, whichever key wrapped it.
DocumentServed(e) ==
  /\ DocumentWhole(e)
  /\ engagement[e].docOwn => ByokGranted

\* A stored document that a row points at is whole (authorize/check stores the
\* object before the row, and concurrent checks store one each), and it can be
\* downloaded unless its client has a key of its own that does not admit the
\* system's role: authorize/check encrypts with the client's provider, the
\* download decrypts with the system's.
StoredDocumentDecrypts ==
  \A e \in Engagement :
    engagement[e].docRef \in Blob =>
      /\ DocumentWhole(e)
      /\ e \notin OwnKeyed \/ ByokGranted => DocumentServed(e)

\* An engagement labelled ESIGNATURE was confirmed by the provider, as the
\* comment on enum AuthorizationMethod says of that label.
EsignatureMeansConfirmed ==
  \A e \in Engagement :
    engagement[e].signed /\ engagement[e].method = "ESIGNATURE" => ProviderConfirmed(e)

\* The handlers implement the gate: an attestation or a signer vouches, and
\* the row's authorizationSignedAt opens it.
Gate == INSTANCE EngagementGate WITH
          vouched <- {e \in Engagement : e \in attested \/ ProviderConfirmed(e)},
          open    <- {e \in Engagement : engagement[e].signed}

ImplementsGate == Gate!GateSpec
=============================================================================

-------------------------- MODULE AssetVerification --------------------------
(***************************************************************************)
(* Ownership verification of assets (src/src/modules/assets).  An asset    *)
(* becomes VERIFIED when a token issued for it is found published at the   *)
(* target, or when an administrator attests ownership.  The check handler  *)
(* reads the row, looks the token up over the network for up to seconds,   *)
(* and then writes the row; verification/start may run in between.         *)
(***************************************************************************)
CONSTANTS
  Asset,          \* the assets
  Token,          \* verification tokens (bound: calls of verification/start)
  OfferedMethod,  \* the methods verification/start is called with
  ProbeRequest,   \* concurrent POST verification/check requests
  NoAsset, NoToken, Justification

ProofMethod == {"DNS_TXT", "HTTP_FILE"}

ASSUME VerificationAssumption ==
  /\ OfferedMethod \subseteq ProofMethod
  /\ NoAsset \notin Asset
  /\ NoToken \notin Token
  /\ Justification \notin Token
  /\ Justification # NoToken

VARIABLES
  asset,      \* the verification columns of the Asset table
  issuedFor,  \* the asset each token was generated for
  published,  \* what the target of each asset publishes
  prober,     \* verification/check requests in progress
  proven,     \* the tokens each asset's target published when a check matched
  justified   \* assets with a successful verification/manual (its audit rows)

verVars == <<asset, issuedFor, published, prober, proven, justified>>

Method == ProofMethod \cup {"none", "MANUAL"}
Publication == [method : ProofMethod, token : Token]

VerificationRow ==
  [status : {"UNVERIFIED", "PENDING", "VERIFIED"},
   method : Method,
   token  : Token \cup {NoToken, Justification}]

IdleProbe == [pc |-> "idle", asset |-> NoAsset, method |-> "none", token |-> NoToken]

VerTypeOK ==
  /\ asset \in [Asset -> VerificationRow]
  /\ issuedFor \in [Token -> Asset \cup {NoAsset}]
  /\ published \in [Asset -> SUBSET Publication]
  /\ prober \in [ProbeRequest -> [pc : {"idle", "lookup", "matched"},
                                  asset : Asset \cup {NoAsset},
                                  method : Method,
                                  token : Token \cup {NoToken, Justification}]]
  /\ proven \in [Asset -> SUBSET Token]
  /\ justified \subseteq Asset

\* POST /engagements/:engagementId/assets creates the row UNVERIFIED.
VerInit ==
  /\ asset = [a \in Asset |-> [status |-> "UNVERIFIED", method |-> "none", token |-> NoToken]]
  /\ issuedFor = [t \in Token |-> NoAsset]
  /\ published = [a \in Asset |-> {}]
  /\ prober = [p \in ProbeRequest |-> IdleProbe]
  /\ proven = [a \in Asset |-> {}]
  /\ justified = {}

\* POST verification/start: a fresh token, and whatever was verified is not.
VerificationStart(a, m) ==
  /\ \E t \in Token :
       /\ issuedFor[t] = NoAsset
       /\ issuedFor' = [issuedFor EXCEPT ![t] = a]
       /\ asset' = [asset EXCEPT ![a] = [status |-> "PENDING", method |-> m, token |-> t]]
  /\ UNCHANGED <<published, prober, proven, justified>>

\* Mutant: the method is written to the status column.
VerificationManualWrongColumn(a) ==
  /\ asset' = [asset EXCEPT
                 ![a] = [status |-> "MANUAL", method |-> "MANUAL", token |-> Justification]]
  /\ justified' = justified \cup {a}
  /\ UNCHANGED <<issuedFor, published, prober, proven>>

\* POST verification/manual: the token column now records the justification.
VerificationManual(a) ==
  /\ asset' = [asset EXCEPT
                 ![a] = [status |-> "VERIFIED", method |-> "MANUAL", token |-> Justification]]
  /\ justified' = justified \cup {a}
  /\ UNCHANGED <<issuedFor, published, prober, proven>>

(***************************************************************************)
(* POST verification/check                                                 *)
(***************************************************************************)
ProbeRead(p, a) ==
  /\ prober[p].pc = "idle"
  /\ asset[a].method \in ProofMethod
  /\ asset[a].token # NoToken
  /\ prober' = [prober EXCEPT
                  ![p] = [pc |-> "lookup", asset |-> a,
                          method |-> asset[a].method, token |-> asset[a].token]]
  /\ UNCHANGED <<asset, issuedFor, published, proven, justified>>

\* Mutant: any published token will do.
PublishesAnyToken(a, m, t) == \E x \in published[a] : x.method = m

\* checkDnsTxt looks for the exact token among the TXT records, checkHttpFile
\* compares it with the one well-known file.
Publishes(a, m, t) == [method |-> m, token |-> t] \in published[a]

\* A lookup that fails for any reason counts as not verified.
ProbeLookup(p) ==
  /\ prober[p].pc = "lookup"
  /\ \/ /\ Publishes(prober[p].asset, prober[p].method, prober[p].token)
        /\ prober' = [prober EXCEPT ![p].pc = "matched"]
        /\ proven' = [proven EXCEPT ![prober[p].asset] =
                         @ \cup {x.token : x \in published[prober[p].asset]}]
     \/ /\ prober' = [prober EXCEPT ![p] = IdleProbe]
        /\ UNCHANGED proven
  /\ UNCHANGED <<asset, issuedFor, published, justified>>

\* The update sets the status only: method and token stay what they now are.
ProbeConfirm(p) ==
  /\ prober[p].pc = "matched"
  /\ asset' = [asset EXCEPT ![prober[p].asset].status = "VERIFIED"]
  /\ prober' = [prober EXCEPT ![p] = IdleProbe]
  /\ UNCHANGED <<issuedFor, published, proven, justified>>

AbandonProbe(p) ==
  /\ prober[p].pc # "idle"
  /\ prober' = [prober EXCEPT ![p] = IdleProbe]
  /\ UNCHANGED <<asset, issuedFor, published, proven, justified>>

VerCrash ==
  /\ prober' = [p \in ProbeRequest |-> IdleProbe]
  /\ UNCHANGED <<asset, issuedFor, published, proven, justified>>

(***************************************************************************)
(* The owner of the target                                                 *)
(***************************************************************************)
\* A TXT record is added beside the others; the well-known file is replaced.
Publish(a, m, t) ==
  /\ issuedFor[t] # NoAsset
  /\ published' = [published EXCEPT
                     ![a] = {x \in @ : m = "DNS_TXT" \/ x.method # m}
                              \cup {[method |-> m, token |-> t]}]
  /\ UNCHANGED <<asset, issuedFor, prober, proven, justified>>

Withdraw(a) ==
  /\ published[a] # {}
  /\ \E x \in published[a] : published' = [published EXCEPT ![a] = @ \ {x}]
  /\ UNCHANGED <<asset, issuedFor, prober, proven, justified>>

VerRequests ==
  \/ \E a \in Asset, m \in OfferedMethod : VerificationStart(a, m)
  \/ \E a \in Asset : VerificationManual(a)
  \/ \E p \in ProbeRequest, a \in Asset : ProbeRead(p, a)
  \/ \E p \in ProbeRequest : ProbeLookup(p) \/ ProbeConfirm(p) \/ AbandonProbe(p)

OwnerActs ==
  \/ \E a \in Asset, m \in OfferedMethod, t \in Token : Publish(a, m, t)
  \/ \E a \in Asset : Withdraw(a)

VerNext == VerRequests \/ OwnerActs

VerSpec == VerInit /\ [][VerNext]_verVars

(***************************************************************************)
(* Properties                                                              *)
(***************************************************************************)
\* Whoever asked for a to be verified showed control of it: when some check
\* matched, its target published a token generated for a and no other asset.
ControlShown(a) == \E t \in proven[a] : issuedFor[t] = a

\* An asset is VERIFIED only if an administrator attested it or its control was
\* shown at some time, however restarts of the verification interleave with
\* checks of older tokens.
VerifiedNeedsProof ==
  \A a \in Asset : asset[a].status = "VERIFIED" => a \in justified \/ ControlShown(a)

=============================================================================

--------------------------- MODULE EngagementGate ---------------------------
(***************************************************************************)
(* What the engagement authorization promises, with none of its requests:  *)
(* an engagement is closed to testing until somebody vouched for it (an    *)
(* administrator attested a paper document, or the signer of an envelope   *)
(* sent for it signed), and once open it is never closed again.            *)
(***************************************************************************)
CONSTANT Engagement

VARIABLES
  vouched,  \* the engagements somebody vouched for
  open      \* the engagements whose authorizationSignedAt is set

gateVars == <<vouched, open>>

GateInit ==
  /\ vouched = {}
  /\ open = {}

\* A signer completes an envelope sent for e.
Vouch(e) ==
  /\ vouched' = vouched \cup {e}
  /\ UNCHANGED open

\* The gate of e opens on the word of whoever vouched for it earlier.
Open(e) ==
  /\ e \in vouched
  /\ open' = open \cup {e}
  /\ UNCHANGED vouched

\* An administrator's attestation vouches and opens in one step.
Attest(e) ==
  /\ vouched' = vouched \cup {e}
  /\ open' = open \cup {e}

GateNext == \E e \in Engagement : Vouch(e) \/ Open(e) \/ Attest(e)

GateSpec == GateInit /\ [][GateNext]_gateVars
=============================================================================

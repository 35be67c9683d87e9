------------------------------- MODULE MCGates --------------------------------
(* The two gates of a scan, the engagement's authorization and the asset's     *)
(* verification, on small instances: MCGates.cfg, MCEsignatureLabel.cfg.       *)
EXTENDS Authorization, AssetVerification, Functions, TLC

VARIABLE gate  \* the gate whose requests run

\* The gates share no state, so their interleavings add nothing: each takes its
\* steps while the other is at rest.
GatesInit == AuthInit /\ VerInit /\ gate \in {"authorization", "verification"}

GatesNext ==
  \/ gate = "authorization" /\ AuthNext /\ UNCHANGED <<verVars, gate>>
  \/ gate = "verification" /\ VerNext /\ UNCHANGED <<authVars, gate>>

GatesSpec == GatesInit /\ [][GatesNext]_<<authVars, verVars, gate>>

\* The permutations of S, each with the same permutation of T.  One gate being
\* at rest, permuting both alike is as good as permuting each on its own.
Alike(S, T) ==
  LET pair == CHOOSE g \in Bijection(T, S) : TRUE
  IN  {f @@ [t \in T |-> CHOOSE u \in T : pair[u] = f[pair[t]]] : f \in Permutations(S)}

MCSymmetry == Alike(Envelope, Token) \cup Alike(Blob, Asset) \cup Permutations(CheckRequest)

=============================================================================

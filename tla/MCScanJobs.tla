----------------------------- MODULE MCScanJobs -----------------------------
(* ScanJobs on small instances: see MCScanJobs*.cfg. *)
EXTENDS ScanJobs, TLC

CONSTANT e1

\* Every asset belongs to the one engagement of the instance.
MCEngagementOf == [a \in Asset |-> e1]

MCSymmetry == Permutations(Attempt) \cup Permutations(Token)

=============================================================================

-------------------------- MODULE MCAgentEnrollment --------------------------
(* AgentEnrollment on small instances: MCAgentEnrollment.cfg is a machine whose *)
(* agent is enrolled and installed as root, MCServiceAccount.cfg one where a    *)
(* user does both and the service runs as LocalSystem, and MCTokenSingleUse.cfg *)
(* two enrollments with one token.                                              *)
EXTENDS AgentEnrollment, TLC

CONSTANT service

MCServiceAccount == [a \in Account |-> service]

=============================================================================

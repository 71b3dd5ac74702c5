-------------------------- MODULE MCRuleDeployment --------------------------
(* Model values for RuleDeployment: one rule set whose builder is there from *)
(* the start and one whose builder comes late.                               *)
EXTENDS RuleDeployment

CONSTANTS engine, container, storeThread, r1, r2, a1, o1

=============================================================================

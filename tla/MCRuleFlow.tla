----------------------------- MODULE MCRuleFlow -----------------------------
(* Three objects in two namespaces and one file nobody generated.           *)
EXTENDS RuleFlow
MCNsOf == [o \in Generated |-> IF o = 2 THEN 2 ELSE 1]
=============================================================================

------------------------------ MODULE MCRuleSets ------------------------------
(* Instances of RuleSets for TLC. *)
EXTENDS RuleSets

(* Every write may fail but those that retire the old rule set: activation *)
(* goes on when these do.                                                  *)
ButRetiring == Steps \ {"retire", "drop", "off"}
=============================================================================

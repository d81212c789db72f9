---------------------------- MODULE MCRuleManager ----------------------------
(***************************************************************************)
(* Instances of RuleManager for TLC: the configurations, which are sets of *)
(* strings and model values, are given in the configuration files.         *)
(***************************************************************************)
EXTENDS RuleManager

=============================================================================

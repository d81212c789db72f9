----------------------------- MODULE MCRuleBatch -----------------------------
(***************************************************************************)
(* Instances of RuleBatch for TLC: two chains of one table and one of      *)
(* another, a rule that works and one that a run may make a refused one.   *)
(***************************************************************************)
EXTENDS RuleBatch

CONSTANTS dns, local, external, nat, mangle

MCTableOf == [c \in Chain |-> IF c = external THEN mangle ELSE nat]

=============================================================================

---------------------------- MODULE MCComboRouting ----------------------------
(* Instances of ComboRouting for TLC.                                      *)
EXTENDS ComboRouting

CONSTANT none

MCOwner  == [a \in Accounts |-> IF a < 3 THEN "p" ELSE "q"]
MCVia    == [m \in Members |-> IF m = 1 THEN "q" ELSE "p"]
MCWeight == [m \in Members |-> IF m = 1 THEN 2 ELSE 1]
MCQuota  == [p \in Providers |-> IF p = "p" THEN 1 ELSE none]
=============================================================================

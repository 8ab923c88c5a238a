----------------------------- MODULE MCModuleCall -----------------------------
(* Small instances of ModuleCall: two calls of one caller, or one call each   *)
(* of two.                                                                    *)
EXTENDS ModuleCall

OneOwner == [c \in Correlations |-> "a"]
TwoOwners == [c \in Correlations |-> IF c = 1 THEN "a" ELSE "b"]
PartBodies == {<<>>} \cup {<<i>> : i \in 1 .. MaxFrags}
=============================================================================

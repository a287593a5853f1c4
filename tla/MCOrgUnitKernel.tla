-------------------------- MODULE MCOrgUnitKernel --------------------------
(***************************************************************************)
(* The kernel on small instances.  Names and codes are model values: the   *)
(* kernel compares them and never orders them, so they are symmetric.      *)
(***************************************************************************)
EXTENDS OrgUnitProperties

CONSTANTS a, b, c

OneName == {a}
TwoNames == {a, b}
ThreeCodes == {a, b, c}
Symmetry == Permutations({a, b})
=============================================================================

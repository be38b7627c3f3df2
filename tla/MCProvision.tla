---------------------------- MODULE MCProvision -----------------------------
(***************************************************************************)
(* Small instances of Provision.                                           *)
(***************************************************************************)
EXTENDS Provision, TLC
CONSTANTS u1, u2, in1, in2, a1, a2, s1, s2

MCHandlers == {a1, a2}
Symmetry == Permutations(MCHandlers)
WithoutDelete == AllOps \ {"deleteUser"}
=============================================================================

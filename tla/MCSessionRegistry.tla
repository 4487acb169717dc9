-------------------------- MODULE MCSessionRegistry --------------------------
(***************************************************************************)
(* Small instances of SessionRegistry.                                     *)
(***************************************************************************)
EXTENDS SessionRegistry, TLC

CONSTANTS i1, i2, i3, k1, k2, k3, k4

ThreeIdentities == {i1, i2, i3}
FourCredentials == {k1, k2, k3, k4}
Symmetry == Permutations(Credentials)
=============================================================================

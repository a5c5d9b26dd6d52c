---------------------------- MODULE MCLeaseGate ----------------------------
(* Small instances of LeaseGate for TLC. *)
EXTENDS LeaseGate, TLC

CONSTANTS h1, h2, h3

TwoHolders == {h1, h2}
ThreeHolders == {h1, h2, h3}
HolderSymmetry == Permutations(Holders)
=============================================================================

---------------------------- MODULE MCBlockVault ----------------------------
(***************************************************************************)
(* Small instances of BlockVault.                                          *)
(***************************************************************************)
EXTENDS BlockVault, TLC

CONSTANTS n1, n2

NodeSymmetry == Permutations(Node)
=============================================================================

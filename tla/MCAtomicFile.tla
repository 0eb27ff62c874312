---------------------------- MODULE MCAtomicFile ----------------------------
(***************************************************************************)
(* Three processes that write one name and differ in nothing; the files    *)
(* they make differ in length.                                             *)
(***************************************************************************)
EXTENDS AtomicFile, TLC

CONSTANTS w1, w2, w3
MCPieces == <<2, 1, 2, 1>>
Symmetry == Permutations(Writers)
=============================================================================

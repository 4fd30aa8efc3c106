----------------------------- MODULE MCWebcfgDB ------------------------------
(***************************************************************************)
(* The database with documents that are model values: nothing tells one    *)
(* from another, so TLC looks at one order of them.                        *)
(***************************************************************************)
EXTENDS WebcfgDB, TLC

Symmetry == Permutations(Docs)
=============================================================================

---------------------------- MODULE MCPageThreads ----------------------------
(***************************************************************************)
(* Two pages of four blocks; the last block of page 0 ends in page 1.  In  *)
(* page 0 the threads jump to its first and last block; its inner blocks   *)
(* are opened and trapped like those of page 1.                            *)
(***************************************************************************)
EXTENDS PageThreads, TLC

MCTargets == {<<0, 1>>, <<0, NumBlocks>>} \cup {<<1, b>> : b \in Blocks \ {1}}

Symmetry == Permutations(Threads)
=============================================================================

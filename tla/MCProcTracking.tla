---------------------------- MODULE MCProcTracking ----------------------------
(***************************************************************************)
(* Three ids: a process with two threads or two processes, a child or a    *)
(* thread of one of them, and ids that are used again.  One code page and  *)
(* two nodes for one id.                                                   *)
(***************************************************************************)
EXTENDS ProcTracking, TLC

CONSTANTS p1, p2, p3

const_Pids == {p1, p2, p3}

Symmetry == Permutations(const_Pids)
=============================================================================

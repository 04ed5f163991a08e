---------------------------- MODULE MCBlockSearch ----------------------------
(***************************************************************************)
(* Bytes that reach every part of the layout: NOP; 66, 67, REX.W; the      *)
(* escapes 0F, 38, 3A; C5, C4, 62; 81 (an immediate and an extension; map  *)
(* 1 after C4 and 62), E2 (map 2); B8 (a 64-bit immediate), F7 (TEST or    *)
(* NOT), C3, 74, 0E; 05 and 44 as ModRM bytes ask for a displacement and a *)
(* SIB byte.                                                               *)
(***************************************************************************)
EXTENDS BlockSearch

MCAlphabet == {\h90, \h66, \h67, \h48, \h0F, \h38, \hC5, \hC4, \h62, \h81,
               \hE2, \hB8, \hF7, \hC3, \h74, \h0E, \h05, \h44}
=============================================================================

---------------------------- MODULE MCModuleLife ----------------------------
(***************************************************************************)
(* Pages of six bytes and a shellcode of two, in zones that end before, at *)
(* and after a page border.                                                *)
(***************************************************************************)
EXTENDS ModuleLife

MCZones == {z \in (0..3) \X (1..8) : z[1] < z[2]}
MCTexts == {{p} : p \in 0..7}
=============================================================================

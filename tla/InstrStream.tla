----------------------------- MODULE InstrStream -----------------------------
(***************************************************************************)
(* Instruction streams and the length disassembler of libs/zone.c.         *)
(*                                                                         *)
(* A cell stands for a byte of a user page.  What matters of a byte is     *)
(* what the disassembler does when it meets it as the first byte of an     *)
(* instruction, so a cell belongs to zero or more of the classes below;    *)
(* the cell after a Long one is its operand, whatever class it is in.      *)
(* INV is INVALID_ONE_BYTE_OPCODE (0x0E), the filler of a closed page: an  *)
(* undefined opcode, and a legal operand.                                  *)
(***************************************************************************)
EXTENDS Naturals

CONSTANTS
    Cell,      \* the byte values told apart
    INV,       \* 0x0E
    Long,      \* first bytes of two-byte instructions
    Control,   \* first bytes of a JMP, Jcc, CALL or RET
    Illegal    \* first bytes of undefined instructions

ASSUME StreamAssumption ==
    /\ INV \in Illegal
    /\ Illegal \subseteq Cell /\ Long \subseteq Cell /\ Control \subseteq Cell
    /\ Illegal \cap (Long \cup Control) = {}

\* MAX_INSTRUCTION_SIZE: the cells enough to hold any instruction.
MaxInstr == 3

InstrLen(c) == IF c \in Long THEN 2 ELSE 1

(***************************************************************************)
(* disassemble_code over the bytes [s, n) of code: the first control       *)
(* instruction that lies in [s, n) ends a block ("success"); without one   *)
(* the result is the address after the last whole instruction              *)
(* ("continue", s itself when the first instruction crosses n); an         *)
(* undefined instruction met on the way, or an empty range, is an "error". *)
(***************************************************************************)
Disassemble(code, s, n) ==
    LET from[i \in s..n] ==
          IF i = n
            THEN [ret |-> "continue", end |-> n]
          ELSE IF code[i] \in Illegal
            THEN [ret |-> "error", end |-> n]
          ELSE IF i + InstrLen(code[i]) > n
            THEN [ret |-> "continue", end |-> i]
          ELSE IF code[i] \in Control
            THEN [ret |-> "success", end |-> i + InstrLen(code[i])]
          ELSE from[i + InstrLen(code[i])]
    IN  IF n <= s THEN [ret |-> "error", end |-> n] ELSE from[s]

=============================================================================

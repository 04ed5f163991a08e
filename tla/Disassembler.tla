---------------------------- MODULE Disassembler ----------------------------
(***************************************************************************)
(* disassemble_code of libs/zone.c on the bytes of an instruction stream.  *)
(*                                                                         *)
(* code is a function of positions; a search covers [s, n).  Where the C   *)
(* code walks a cursor over one instruction and leaves at the first check  *)
(* that fails, the operators below state the layout of the instruction     *)
(* whose first byte is at s: where its opcode is, what follows it, how     *)
(* long it is.  Every test of an undefined opcode comes right after the    *)
(* check that the opcode lies before n, and every other check is that the  *)
(* bytes read so far lie before n, so an instruction is undefined when its *)
(* opcode is there and undefined, and crosses n when it ends after n; the  *)
(* bytes at n and after it never count (At).                               *)
(***************************************************************************)
EXTENDS Naturals, Sequences, FiniteSets, FiniteSetsExt, OpcodeTables

\* The bit fields of a ModRM byte, the base of a SIB byte, and bit W of REX.
MODRM_MOD(x) == x \div 64
MODRM_REG_OPCODE(x) == (x \div 8) % 8
MODRM_R_M(x) == x % 8
SIB_BASE(x) == x % 8
CHECK_REX(v) == v \div 16 = 4
CHECK_REXW(v) == (v \div 8) % 2 = 1

At(code, i, n) == IF i < n THEN code[i] ELSE 0
-----------------------------------------------------------------------------
\* The prefixes that stand for themselves; 62, C4 and C5 begin an EVEX or a
\* VEX prefix, whose other bytes are skipped unread.
Plain(v) == CHECK_REX(v) \/ v \in prefix_t \ {\h62, \hC4, \hC5}

(***************************************************************************)
(* The prefixes of the instruction at s: the encoding they choose, the     *)
(* opcode map a three-byte VEX or an EVEX prefix selects, the position of  *)
(* the byte after them, and the sizes 66, 67 and REX.W ask for.            *)
(***************************************************************************)
Prefixes(code, s, n) ==
    LET last == Min({i \in s..n : i = n \/ ~Plain(code[i])})
        plain == {code[i] : i \in s..(last - 1)}
        b == At(code, last, n)
    IN  [enc  |-> CASE b = \h62 -> "evex" [] b = \hC4 -> "vex3"
                    [] b = \hC5 -> "vex2" [] OTHER -> "legacy",
         map  |-> IF b = \h62 THEN At(code, last + 1, n) % 4
                              ELSE At(code, last + 1, n) % 32,
         op   |-> last + (CASE b = \h62 -> 4 [] b = \hC4 -> 3
                            [] b = \hC5 -> 2 [] OTHER -> 0),
         ddef |-> IF \h66 \in plain THEN 2 ELSE 4,
         mdef |-> IF \h67 \in plain THEN 2 ELSE 4,
         rexw |-> \E v \in plain : CHECK_REX(v) /\ CHECK_REXW(v)]

(***************************************************************************)
(* The opcode byte that selects the layout: after 0F, 0F 38 and 0F 3A in   *)
(* maps 1, 2 and 3, as after the VEX and EVEX prefixes of these maps.      *)
(***************************************************************************)
Opcode(code, p, n) ==
    LET esc1 == At(code, p.op, n)  esc2 == At(code, p.op + 1, n)
        escapes == IF p.enc # "legacy" \/ esc1 # \h0F THEN 0
                   ELSE IF p.op + 1 < n /\ esc2 \in {\h38, \h3A} THEN 2 ELSE 1
    IN  [at  |-> p.op + escapes,
         op  |-> At(code, p.op + escapes, n),
         map |-> CASE p.enc = "vex2" -> 1
                   [] p.enc \in {"vex3", "evex"} -> p.map
                   [] escapes = 2 -> IF esc2 = \h38 THEN 2 ELSE 3
                   [] OTHER -> escapes]

\* CHECK_..._UD, and the maps and opcodes a VEX or EVEX prefix may not have;
\* a two-byte VEX prefix takes every opcode.
Undefined(enc, map, op) ==
    CASE enc = "legacy" ->
           op \in (CASE map = 0 -> one_byte_ud_t [] map = 1 -> two_byte_ud_t
                     [] map = 2 -> three_byte_038_ud_t [] map = 3 -> three_byte_03A_ud_t)
      [] enc = "vex2" -> FALSE
      [] enc = "vex3" ->
           op \notin (CASE map = 1 -> vex_0F_t [] map = 2 -> vex_0F38_t
                        [] map = 3 -> vex_0F3A_t [] OTHER -> {})
      [] enc = "evex" ->
           op \notin (CASE map = 1 -> evex_0F_t [] map = 2 -> evex_0F38_t
                        [] map = 3 -> evex_0F3A_t [] OTHER -> {})

HasModrm(enc, map, op) ==
    CASE enc = "legacy" ->
           op \in (CASE map = 0 -> modrm_t [] map = 1 -> modrm2_t
                     [] map = 2 -> modrm38_t [] map = 3 -> modrm3a_t)
      [] enc = "evex" -> TRUE
      [] OTHER -> ~(map = 1 /\ op = \h77)

\* The immediate of maps 1 to 3 after a VEX or an EVEX prefix.
VexImm8(enc, map, op) ==
    \/ map = 1 /\ op \in ((\h70..\h73) \cup {\hC2, \hC4, \hC5, \hC6})
    \/ map = 2 /\ enc = "vex3" /\ op = \h13
    \/ map = 3 /\ (enc = "evex" \/ op \notin {\h4A, \h4B, \h4C})

\* dsize before REX.W is looked at.  F6 and F7 are TEST, with an immediate,
\* only when the ModRM byte selects extension 0.
ImmediateMutant(p, map, op, modrm) ==   \* the one-byte immediates are forgotten
    IF p.enc = "legacy" /\ map = 0 /\ op \in data66_t THEN p.ddef ELSE 0
Immediate(p, map, op, modrm) ==
    LET size(cond, k) == IF cond THEN k ELSE 0
    IN  CASE p.enc # "legacy" -> size(VexImm8(p.enc, map, op), 1)
          [] map = 0 -> size(op \in {\hF6, \hF7} /\ MODRM_REG_OPCODE(modrm) = 0,
                             IF op = \hF7 THEN p.ddef ELSE 1)
                        + size(op \in data1_t, 1) + size(op \in data2_t, 2)
                        + size(op \in data66_t, p.ddef)
          [] map = 1 -> size(op \in data1_2, 1) + size(op \div 16 = 8, p.ddef)
          [] map = 2 -> 0
          [] map = 3 -> 1

\* The displacement that the ModRM byte, and the SIB byte after it, ask for.
Displacement(modrm, sib, mdef) ==
    CASE MODRM_MOD(modrm) = 3 -> 0
      [] MODRM_MOD(modrm) = 1 -> 1
      [] MODRM_MOD(modrm) = 2 -> mdef
      [] MODRM_MOD(modrm) = 0 ->
           IF \/ MODRM_R_M(modrm) = 5
              \/ MODRM_R_M(modrm) = 4 /\ SIB_BASE(sib) = 5
             THEN mdef ELSE 0

HasSib(modrm) == MODRM_MOD(modrm) # 3 /\ MODRM_R_M(modrm) = 4
-----------------------------------------------------------------------------
\* The type of the first of the tables that holds op.
FirstIn(op, tables) ==
    LET hits == {i \in DOMAIN tables : op \in tables[i][1]}
    IN  IF hits = {} THEN "OTHER" ELSE tables[Min(hits)][2]

\* instruction_type as the opcode alone gives it; a VEX or EVEX instruction
\* has none.
OpcodeType(enc, map, op) ==
    CASE enc # "legacy" -> "VEX"
      [] map = 0 -> FirstIn(op,
           << <<one_byte_arith_t, "ARITHMETIC">>, <<one_byte_control_t, "CONTROL">>,
              <<one_byte_logical_t, "LOGICAL">>, <<one_byte_memory_t, "MEMORY">>,
              <<one_byte_system_t, "SYSTEM">>, <<one_byte_jcc_t, "JCC">>,
              <<one_byte_jmp_t, "JMP">>, <<one_byte_call_t, "CALL">>,
              <<one_byte_ret_t, "RET">> >>)
      [] map = 1 -> FirstIn(op,
           << <<two_byte_arithmetic_t, "ARITHMETIC">>, <<two_byte_control_t, "CONTROL">>,
              <<two_byte_logical_t, "LOGICAL">>, <<two_byte_memory_t, "MEMORY">>,
              <<two_byte_system_t, "SYSTEM">>, <<two_byte_jcc_t, "JCC">> >>)
      [] map = 2 -> FirstIn(op,
           << <<three_byte_038_arithmetic_t, "ARITHMETIC">>,
              <<three_byte_038_memory_t, "MEMORY">>,
              <<three_byte_038_control_t, "CONTROL">> >>)
      [] map = 3 -> FirstIn(op,
           << <<three_byte_03A_arithmetic_t, "ARITHMETIC">>,
              <<three_byte_03A_memory_t, "MEMORY">> >>)

(***************************************************************************)
(* The type after the opcode extension in the ModRM byte.  CHECK_F6_F7     *)
(* masks the two low bits away and compares with F6, which no byte passes: *)
(* the NOT, NEG, MUL and DIV of F6 and F7 keep the type of their opcode.   *)
(***************************************************************************)
ExtendedType(op, reg, type) ==
    CASE op \in op_code_ext_t /\ op \div 8 = 16 /\ reg \in {1, 4, 6} -> "LOGICAL"
      [] op \in op_code_ext_t /\ op \div 8 = 16 /\ reg = 7 -> "CONTROL"
      [] op = \hFF /\ reg \in {2, 3} -> "CALL"
      [] op = \hFF /\ reg \in {4, 5} -> "JMP"
      [] op = \hFF /\ reg = 6 -> "MEMORY"
      [] OTHER -> type

\* The sizes of the memory and of the immediate operand: REX.W widens the
\* immediate of B8..BF and the address of A1 and A3, when no 0F came before.
MemorySize(p, o, disp) ==
    IF p.rexw /\ (p.enc # "legacy" \/ o.map = 0) /\ o.op \in {\hA1, \hA3} THEN 8
    ELSE disp + (IF p.enc = "legacy" /\ o.map = 0 /\ o.op \in {\hA0, \hA3} THEN p.mdef ELSE 0)

DataSize(p, o, modrm) ==
    IF p.rexw /\ (p.enc # "legacy" \/ o.map = 0) /\ o.op \in \hB8..\hBF THEN 8
    ELSE Immediate(p, o.map, o.op, modrm)

\* The instruction with the prefixes p and the opcode o.
Layout(code, p, o, n) ==
    LET modrm == At(code, o.at + 1, n)
        sib == At(code, o.at + 2, n)
        has == HasModrm(p.enc, o.map, o.op)
        type == OpcodeType(p.enc, o.map, o.op)
        disp == IF has THEN Displacement(modrm, sib, p.mdef) ELSE 0
        end == o.at + 1 + (IF has THEN 1 ELSE 0) + (IF has /\ HasSib(modrm) THEN 1 ELSE 0)
               + MemorySize(p, o, disp) + DataSize(p, o, modrm)
    IN  IF o.at >= n THEN [status |-> "crosses"]
        ELSE IF Undefined(p.enc, o.map, o.op) THEN [status |-> "undefined"]
        ELSE IF end > n THEN [status |-> "crosses"]
        ELSE [status |-> "whole", end |-> end,
              type |-> IF has /\ (p.enc # "legacy" \/ o.map = 0)
                         THEN ExtendedType(o.op, MODRM_REG_OPCODE(modrm), type) ELSE type]

Instruction(code, s, n) ==
    LET p == Prefixes(code, s, n)
    IN  Layout(code, p, Opcode(code, p, n), n)
-----------------------------------------------------------------------------
\* The counters of struct stats, one byte each; a control transfer counts as
\* a control instruction.
Counters == {"CONTROL", "ARITHMETIC", "LOGICAL", "MEMORY", "SYSTEM", "OTHER", "VEX"}
Transfers == {"JCC", "JMP", "CALL", "RET"}
Counter(type) == IF type \in Transfers THEN "CONTROL" ELSE type
NoCount == [c \in Counters |-> 0]
Count(stats, c) == [stats EXCEPT ![c] = (@ + 1) % 256]

(***************************************************************************)
(* disassemble_code on [s, n): the first control transfer ends the block   *)
(* ("success"), an undefined instruction is an "error"; with neither, the  *)
(* search goes on ("continue") at the first byte after the last whole      *)
(* instruction.                                                            *)
(***************************************************************************)
disassemble_code(code, s, n, stats) ==
    LET from[x \in (s..n) \X [Counters -> 0..255]] ==
          LET i == x[1]  st == x[2]
              ins == Instruction(code, i, n)
          IN  IF i = n THEN [ret |-> "continue", end |-> n, stats |-> st]
              ELSE CASE ins.status = "crosses" -> [ret |-> "continue", end |-> i, stats |-> st]
                     [] ins.status = "undefined" -> [ret |-> "error", end |-> n, stats |-> st]
                     [] OTHER ->   \* "whole"
                          IF ins.type \in Transfers
                            THEN [ret |-> "success", end |-> ins.end,
                                  stats |-> Count(st, "CONTROL")]
                            ELSE from[<<ins.end, Count(st, ins.type)>>]
    IN  IF n <= s THEN [ret |-> "error", end |-> n, stats |-> stats] ELSE from[<<s, stats>>]

(***************************************************************************)
(* handle_cross_page, of libs/fprobes/fprober_invalid_op.c: a buffer of    *)
(* MAX_INSTRUCTION_SIZE bytes that begins with the instruction at s, which *)
(* crosses a border, is disassembled.  The answer is the position after    *)
(* the last instruction in it, or after its first control transfer; 0      *)
(* stands for an error.                                                    *)
(***************************************************************************)
MAX_INSTRUCTION_SIZE == 15

handle_cross_pageMutant(code, s) ==   \* the first byte is not copied
    LET r == disassemble_code(code, s + 1, s + MAX_INSTRUCTION_SIZE, NoCount)
    IN  IF r.ret = "error" \/ r.end <= s THEN 0 ELSE r.end
handle_cross_page(code, s) ==
    LET r == disassemble_code(code, s, s + MAX_INSTRUCTION_SIZE, NoCount)
    IN  IF r.ret = "error" \/ r.end <= s THEN 0 ELSE r.end
=============================================================================

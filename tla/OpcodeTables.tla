---------------------------- MODULE OpcodeTables ----------------------------
(***************************************************************************)
(* The opcode tables of libs/ld.h.  CHECK_TABLE(t, v) reads bit v of t, so *)
(* a table is the set of the bytes whose bit is 1 and CHECK_X(v) is v \in  *)
(* the set; the names are those of the tables.  The tables that no path of *)
(* disassemble_code reads (all_0s_t) are left out.                         *)
(***************************************************************************)
EXTENDS Naturals

-----------------------------------------------------------------------------
\* Prefixes and one-byte opcodes: layout, then instruction type.

prefix_t ==
    (\h64..\h67) \cup {\h26, \h2E, \h36, \h3E, \h62, \h9B, \hC4, \hC5,
      \hF0, \hF2, \hF3}

modrm_t ==
    (\h00..\h03) \cup (\h08..\h0B) \cup (\h10..\h13) \cup (\h18..\h1B)
    \cup (\h20..\h23) \cup (\h28..\h2B) \cup (\h30..\h33) \cup (\h38..\h3B)
    \cup (\h80..\h8F) \cup (\hD0..\hD3) \cup (\hD8..\hDF) \cup {\h63, \h69,
      \h6B, \hC0, \hC1, \hC6, \hC7, \hF6, \hF7, \hFE, \hFF}

data1_t ==
    (\h70..\h80) \cup (\hB0..\hB7) \cup (\hE0..\hE7) \cup {\h04, \h0C,
      \h14, \h1C, \h24, \h2C, \h34, \h3C, \h6A, \h6B, \h83, \hA8, \hC0,
      \hC1, \hC6, \hC8, \hCD, \hEB}

data2_t ==
    {\hC2, \hC8, \hCA}

data66_t ==
    (\hB8..\hBF) \cup {\h05, \h0D, \h15, \h1D, \h25, \h2D, \h35, \h3D,
      \h68, \h69, \h81, \h9A, \hA9, \hC7, \hE8, \hE9}

one_byte_ud_t ==
    (\h3F..\h4F) \cup {\h06, \h07, \h0E, \h16, \h17, \h1E, \h1F, \h27,
      \h2F, \h37, \h60, \h61, \h82, \h9A, \hD4, \hD5, \hD6, \hEA}

one_byte_arith_t ==
    (\h00..\h05) \cup (\h10..\h15) \cup (\h18..\h1D) \cup (\h28..\h2D)
    \cup {\h69, \h6B, \h80, \h81, \h83, \hD8, \hDC, \hDE, \hF6, \hF7, \hFE,
      \hFF}

one_byte_jcc_t ==
    (\h70..\h7F) \cup {\hE3}

one_byte_jmp_t ==
    {\hE9, \hEB, \hFF}

one_byte_ret_t ==
    {\hC2, \hC3, \hCA, \hCB, \hCF}

one_byte_call_t ==
    {\hE8, \hFF}

one_byte_control_t ==
    (\h38..\h3D) \cup (\hA6..\hA9) \cup (\hF5..\hFD) \cup {\h80, \h81,
      \h83, \h84, \h85, \hAE, \hAF, \hE0, \hE1, \hE2}

one_byte_logical_t ==
    (\h08..\h0D) \cup (\h20..\h25) \cup (\h30..\h35) \cup {\h80, \h81,
      \h83, \hC0, \hC1, \hD0, \hD1, \hD2, \hF6, \hF7}

one_byte_memory_t ==
    (\h86..\h8F) \cup (\h91..\h99) \cup (\h9E..\hA5) \cup (\hAA..\hAD)
    \cup (\hB0..\hBF) \cup (\hC6..\hC9) \cup {\hD7, \hD9, \hDA, \hDB, \hDD,
      \hDF, \hFF}

one_byte_system_t ==
    (\h6C..\h6F) \cup (\hE4..\hE7) \cup (\hEC..\hF0) \cup {\h8B, \hCC,
      \hCD, \hCE, \hF5}

op_code_ext_t ==
    {\h80, \h81, \h83, \hF6, \hF7, \hFF}

-----------------------------------------------------------------------------
\* Two-byte opcodes: 0F xx.

modrm2_t ==
    (\h00..\h03) \cup (\h10..\h23) \cup (\h28..\h2F) \cup (\h40..\h76)
    \cup (\h78..\h7F) \cup (\h90..\h9F) \cup (\hAB..\hC7) \cup (\hD0..\hFF)
    \cup {\hA3, \hA4, \hA5}

data1_2 ==
    (\h70..\h73) \cup {\hA4, \hAC, \hBA, \hC2, \hC4, \hC5, \hC6}

two_byte_ud_t ==
    (\h24..\h27) \cup (\h3B..\h3F) \cup {\h04, \h0A, \h0C, \h0E, \h0F,
      \h36, \h39, \h7A, \h7B, \hA6, \hA7, \hFF}

two_byte_arithmetic_t ==
    (\h5C..\h5F) \cup (\hD0..\hD5) \cup (\hE0..\hE5) \cup (\hF1..\hF6)
    \cup (\hF8..\hFE) \cup {\h50, \h51, \h52, \h58, \h59, \h71, \h72, \h73,
      \h7C, \h7D, \hA4, \hA5, \hAC, \hAD, \hAF, \hC0, \hC1, \hD8, \hD9,
      \hDA, \hDC, \hDD, \hDE, \hE8, \hE9, \hEA, \hEC, \hED, \hEE}

two_byte_jcc_t ==
    (\h80..\h8F)

two_byte_control_t ==
    (\h40..\h4F) \cup (\h90..\h9F) \cup {\h74, \h75, \h76, \hB0, \hB1,
      \hC2, \hC7}

two_byte_logical_t ==
    (\h54..\h57) \cup {\hDB, \hDF, \hEB, \hEF}

two_byte_memory_t ==
    (\h10..\h13) \cup (\h20..\h23) \cup (\hB2..\hB7) \cup (\hBA..\hBF)
    \cup (\hC8..\hCF) \cup {\h02, \h03, \h16, \h17, \h28, \h29, \h2B, \h50,
      \h6E, \h6F, \h7E, \h7F, \hA0, \hA1, \hA3, \hA8, \hA9, \hAB, \hC3,
      \hC4, \hC5, \hD6, \hE7, \hF7}

two_byte_system_t ==
    (\h05..\h09) \cup (\h30..\h35) \cup {\h00, \h01, \h0B, \h78, \h79,
      \hA2, \hAA, \hAE, \hB9, \hFF}

-----------------------------------------------------------------------------
\* Three-byte opcodes: 0F 38 xx and 0F 3A xx.

modrm38_t ==
    (\h00..\h0B) \cup (\h20..\h25) \cup (\h28..\h2B) \cup (\h30..\h35)
    \cup (\h37..\h41) \cup (\hC8..\hCD) \cup (\hDB..\hDF) \cup {\h10, \h14,
      \h15, \h17, \h1C, \h1D, \h1E, \h80, \h81, \h82, \hF0, \hF1, \hF3,
      \hF6}

three_byte_038_ud_t ==
    (\h0C..\h0F) \cup (\h18..\h1B) \cup (\h2C..\h2F) \cup (\h42..\h7F)
    \cup (\h83..\hC7) \cup (\hCE..\hDA) \cup (\hE0..\hEF) \cup (\hF7..\hFF)
    \cup {\h11, \h12, \h13, \h16, \h26, \h27, \h36, \hF2, \hF4, \hF5}

three_byte_038_arithmetic_t ==
    (\h00..\h07) \cup (\h38..\h3F) \cup {\h0B, \h10, \h1C, \h1D, \h1E,
      \h28, \h50, \h51, \h55, \h56, \hF6}

three_byte_038_memory_t ==
    (\h20..\h25) \cup (\h30..\h35) \cup {\h2A, \hF0, \hF1}

three_byte_038_control_t ==
    {\h17, \h29, \h37}

modrm3a_t ==
    (\h08..\h0F) \cup (\h14..\h17) \cup (\h60..\h63) \cup {\h20, \h21,
      \h22, \h40, \h41, \h42, \h44, \hCC, \hDF}

three_byte_03A_ud_t ==
    (\h00..\h07) \cup (\h10..\h13) \cup (\h18..\h1F) \cup (\h23..\h3F)
    \cup (\h45..\h5F) \cup (\h64..\hCB) \cup (\hCD..\hDE) \cup (\hE0..\hFF)
    \cup {\h43}

three_byte_03A_arithmetic_t ==
    (\h40..\h44)

three_byte_03A_memory_t ==
    (\h14..\h17) \cup {\h20, \h21, \h22}

-----------------------------------------------------------------------------
\* Opcodes valid after a VEX or an EVEX prefix, per opcode map.

vex_0F3A_t ==
    (\h08..\h0F) \cup (\h14..\h19) \cup (\h60..\h63) \cup {\h00, \h01,
      \h02, \h04, \h05, \h06, \h1D, \h20, \h21, \h22, \h38, \h39, \h40,
      \h41, \h42, \h44, \h46, \h4A, \h4B, \h4C, \hCC, \hDF, \hF0}

vex_0F38_t ==
    (\h00..\h10) \cup (\h13..\h1A) \cup (\h20..\h25) \cup (\h28..\h41)
    \cup (\h90..\h93) \cup (\h96..\h9F) \cup (\hA6..\hAF) \cup (\hB6..\hBF)
    \cup (\hC8..\hCD) \cup (\hDB..\hDF) \cup (\hF0..\hF3) \cup {\h1C, \h1D,
      \h1E, \h45, \h46, \h47, \h58, \h59, \h5A, \h78, \h79, \h80, \h81,
      \h82, \h8C, \h8E, \hF5, \hF6, \hF7}

vex_0F_t ==
    (\h10..\h17) \cup (\h28..\h2F) \cup (\h50..\h77) \cup (\h7C..\h7F)
    \cup (\hD0..\hFE) \cup {\hC2, \hC4, \hC5, \hC6}

evex_0F3A_t ==
    (\h08..\h0B) \cup (\h14..\h18) \cup (\h1D..\h23) \cup (\h38..\h3B)
    \cup (\h54..\h57) \cup (\h70..\h73) \cup {\h00, \h01, \h03, \h04, \h05,
      \h0F, \h1A, \h25, \h26, \h27, \h29, \h2B, \h3E, \h3F, \h42, \h43,
      \h44, \h50, \h51, \h66, \h67, \hCE, \hCF}

evex_0F38_t ==
    (\h10..\h16) \cup (\h18..\h2D) \cup (\h30..\h39) \cup (\h3B..\h40)
    \cup (\h42..\h47) \cup (\h4C..\h55) \cup (\h58..\h5B) \cup (\h62..\h66)
    \cup (\h70..\h73) \cup (\h75..\h7F) \cup (\h88..\h8B) \cup (\h8F..\h93)
    \cup (\h96..\hA3) \cup (\hA6..\hAF) \cup (\hB4..\hBF) \cup (\hCA..\hCD)
    \cup (\hDC..\hDF) \cup {\h00, \h04, \h0B, \h0C, \h0D, \h68, \h83, \h8D,
      \hC4, \hC6, \hC7, \hC8, \hCF}

evex_0F_t ==
    (\h10..\h17) \cup (\h28..\h2F) \cup (\h54..\h76) \cup (\h78..\h7B)
    \cup (\hDB..\hEF) \cup (\hF1..\hF6) \cup (\hF8..\hFE) \cup {\h51, \h7E,
      \h7F, \hC2, \hC4, \hC5, \hC6, \hD0, \hD1, \hD2, \hD4, \hD5, \hD6,
      \hD8, \hD9}

=============================================================================

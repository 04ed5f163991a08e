----------------------------- MODULE BlockSearch -----------------------------
(***************************************************************************)
(* A search for the end of a block in a stream that is met piece by piece. *)
(* sig_handler disassembles up to the end of a page, keeps the position    *)
(* after the last whole instruction and goes on from there when the next   *)
(* page is at hand; the pieces stand for the pages, cut anywhere.  The     *)
(* stream begins with Free bytes of Alphabet and goes on with Filler.      *)
(***************************************************************************)
EXTENDS Disassembler

CONSTANTS
    Alphabet,   \* the bytes the stream begins with
    Free,       \* how many of them
    Filler,     \* the byte that follows them
    Piece,      \* how many of those come at once
    MaxLen      \* the length of the longest stream

ASSUME SearchAssumption ==
    /\ Alphabet \subseteq 0..255 /\ Filler \in 0..255
    /\ Free \in Nat /\ Piece \in Nat \ {0} /\ MaxLen \in Nat

VARIABLES
    text,    \* the bytes at hand
    seen,    \* how many of them the search has covered
    from,    \* where it goes on: its end_offset
    ret,     \* the answer of its last disassemble_code
    stats    \* the counters of the zone

vars == <<text, seen, from, ret, stats>>

Init ==
    /\ text = <<>> /\ seen = 0 /\ from = 1
    /\ ret = "continue" /\ stats = NoCount

\* The next bytes become readable.
Arrive ==
    /\ ret = "continue"
    /\ IF Len(text) < Free
         THEN \E b \in Alphabet : text' = Append(text, b)
         ELSE /\ Len(text) + Piece <= MaxLen
              /\ text' = text \o [i \in 1..Piece |-> Filler]
    /\ UNCHANGED <<seen, from, ret, stats>>

\* One turn of sig_handler's loop: from end_offset of the last turn to the
\* end of what is readable.
TurnPastEndMutant ==   \* the end of the zone is one byte too far
    /\ ret = "continue" /\ seen < Len(text)
    /\ LET r == disassemble_code(text, from, Len(text) + 1, stats)
       IN  ret' = r.ret /\ from' = r.end + 1 /\ stats' = r.stats
    /\ seen' = Len(text)
    /\ UNCHANGED text
TurnFromBorderMutant ==   \* the search goes on at the page border
    /\ ret = "continue" /\ seen < Len(text)
    /\ LET r == disassemble_code(text, seen + 1, Len(text) + 1, stats)
       IN  ret' = r.ret /\ from' = r.end /\ stats' = r.stats
    /\ seen' = Len(text)
    /\ UNCHANGED text
Turn ==
    /\ ret = "continue" /\ seen < Len(text)
    /\ LET r == disassemble_code(text, from, Len(text) + 1, stats)
       IN  ret' = r.ret /\ from' = r.end /\ stats' = r.stats
    /\ seen' = Len(text)
    /\ UNCHANGED text

Next == Arrive \/ Turn

Spec == Init /\ [][Next]_vars
-----------------------------------------------------------------------------
TypeOK ==
    /\ text \in Seq(0..255) /\ seen \in 0..Len(text)
    /\ from \in 1..(Len(text) + 1)
    /\ ret \in {"continue", "success", "error"}
    /\ stats \in [Counters -> 0..255]

\* However the stream is cut, the search ends where one call on all of it
\* would: no turn loses an instruction that crosses a cut, counts it twice,
\* or takes over the prefixes of the turn before.
CutAnywhere ==
    seen > 0 =>
        LET whole == disassemble_code(text, 1, seen + 1, NoCount)
        IN  <<ret, from, stats>> = <<whole.ret, whole.end, whole.stats>>

\* The positions at which the instructions of code begin, from s on.
Boundaries(code, s, n) ==
    LET begins[i \in s..n] ==
          IF i = n THEN {}
          ELSE LET ins == Instruction(code, i, n)
               IN  {i} \cup IF ins.status = "whole" THEN {ins.end} \cup
                               (IF ins.end < n THEN begins[ins.end] ELSE {}) ELSE {}
    IN  begins[s]

\* The position handle_cross_page finds for an instruction that crosses the
\* end of what was covered is one at which an instruction begins, in the
\* bytes after that end.
CrossingResumes ==
    ret = "continue" /\ from <= seen /\ from + MAX_INSTRUCTION_SIZE <= Len(text) + 1 =>
        LET found == handle_cross_page(text, from)
        IN  found # 0 => found > seen /\ found \in Boundaries(text, from, Len(text) + 1)

\* The one- and two-byte instructions without a ModRM byte, and what
\* InstrStream, the stream of the page models, takes them for.
ShortBytes == 0..255 \ (prefix_t \cup (\h40..\h4F) \cup {\h0F} \cup modrm_t \cup data2_t
                        \cup data66_t \cup {\hA0, \hA3, \hF6, \hF7})
Stream == INSTANCE InstrStream WITH
    Cell <- ShortBytes, INV <- \h0E, Long <- (data1_t \ one_byte_ud_t) \cap ShortBytes,
    Control <- (one_byte_jcc_t \cup one_byte_jmp_t \cup one_byte_call_t \cup one_byte_ret_t)
               \cap ShortBytes,
    Illegal <- one_byte_ud_t \cap ShortBytes

\* On streams of such instructions the search of the page models is the
\* search of the code: it ends at the same byte with the same answer.
StreamAgrees ==
    seen > 0 /\ (\A i \in 1..seen : text[i] \in ShortBytes) =>
       LET s == Stream!Disassemble(text, 1, seen + 1)
       IN  <<ret, from>> = <<s.ret, s.end>>

\* "REX.W causes 66h to be ignored" (src/libs/zone.c:792): with REX.W before
\* its opcode, an instruction without 0F has the layout it has without 66.
RexWIgnores66 ==
    Len(text) > 2 /\ text[1] = \h66 /\ CHECK_REX(text[2]) /\ CHECK_REXW(text[2])
                  /\ text[3] \notin prefix_t \cup {\h0F} =>
        LET with == Instruction(text, 1, Len(text) + 1)
            without == Instruction(text, 2, Len(text) + 1)
        IN  with.status = "whole" => without.status = "whole" /\ without.end = with.end
=============================================================================

-------------------------- MODULE BlockSearch_proofs --------------------------
(***************************************************************************)
(* What holds of BlockSearch for every stream of bytes and every way to    *)
(* cut it: the search ends where one call on the whole stream would, and   *)
(* goes on after a cut where an instruction begins.                        *)
(***************************************************************************)
EXTENDS BlockSearch, TLAPS, SequenceTheorems, WellFoundedInduction

Byte == 0..255
Stats == [Counters -> 0..255]

\* code has bytes from s to n.
Bytes(code, s, n) == \A i \in s..n : i < n => code[i] \in Byte

\* code and more have the same bytes from s to n.
Agree(code, more, s, n) == \A i \in s..n : i < n => code[i] = more[i]

-----------------------------------------------------------------------------
(* Numbers.                                                                *)

\* A set of numbers has a least one.
LEMMA LeastNumber ==
    ASSUME NEW T \in SUBSET Nat, T # {}
    PROVE  \E x \in T : \A y \in T : x <= y
  <1>1. PICK x \in T : \A y \in T : <<y, x>> \notin OpToRel(<, Nat)
    BY NatLessThanWellFounded, WFMin
  <1>2. \A a, b \in Nat : a < b => <<a, b>> \in OpToRel(<, Nat)
    BY Zenon DEF OpToRel
  <1>3. ASSUME NEW y \in T
        PROVE  x <= y
    <2>1. x \in Nat /\ y \in Nat /\ ~(y < x)
      BY <1>1, <1>2
    <2> QED
      BY <2>1
  <1> QED
    BY <1>3

LEMMA MinNumber ==
    ASSUME NEW T \in SUBSET Nat, T # {}
    PROVE  Min(T) \in T /\ \A y \in T : Min(T) <= y
  <1>1. \E x \in T : \A y \in T : x <= y
    BY LeastNumber
  <1> QED
    BY <1>1 DEF Min

\* The fields of a ModRM byte.
LEMMA Fields ==
    ASSUME NEW x \in Byte
    PROVE  MODRM_MOD(x) \in 0..3
  BY DEF Byte, MODRM_MOD

LEMMA AtByte ==
    ASSUME NEW code, NEW s \in Nat, NEW n \in Nat, Bytes(code, s, n), NEW i \in Nat, s <= i
    PROVE  At(code, i, n) \in Byte
  BY DEF Bytes, At, Byte

-----------------------------------------------------------------------------
(* The prefixes of an instruction.                                         *)

\* Where the prefixes of the instruction at s that stand for themselves end.
Last(code, s, n) == Min({i \in s..n : i = n \/ ~Plain(code[i])})

LEMMA LastIs ==
    ASSUME NEW code, NEW s \in Nat, NEW n \in Nat, s < n
    PROVE  /\ Last(code, s, n) \in s..n
           /\ Last(code, s, n) = n \/ ~Plain(code[Last(code, s, n)])
           /\ \A i \in s..n : i < Last(code, s, n) => Plain(code[i])
  <1> DEFINE T == {i \in s..n : i = n \/ ~Plain(code[i])}
             l == Last(code, s, n)
  <1>1. T \in SUBSET Nat /\ n \in T
    OBVIOUS
  <1>2. l = Min(T)
    BY DEF Last
  <1> HIDE DEF l, T
  <1>3. l \in T /\ \A i \in T : l <= i
    BY <1>1, <1>2, MinNumber
  <1>4. l \in s..n /\ (l = n \/ ~Plain(code[l]))
    BY <1>3 DEF T
  <1>5. ASSUME NEW i \in s..n, i < l
        PROVE  Plain(code[i])
    <2>1. i \notin T
      BY <1>3, <1>4, <1>5
    <2> QED
      BY <2>1 DEF T
  <1> QED
    BY <1>4, <1>5 DEF l

\* The prefixes end at the same place when more of the stream is at hand.
LEMMA SameLast ==
    ASSUME NEW code, NEW more, NEW s \in Nat, NEW n \in Nat, NEW m \in Nat, s < n, n <= m,
           Agree(code, more, s, n), Last(code, s, n) < n \/ Last(more, s, m) < n
    PROVE  Last(code, s, n) = Last(more, s, m) /\ Last(code, s, n) < n
  <1> DEFINE k == Last(code, s, n)
             l == Last(more, s, m)
  <1>1. /\ k \in s..n /\ (k = n \/ ~Plain(code[k]))
        /\ \A i \in s..n : i < k => Plain(code[i])
    BY LastIs
  <1>2. /\ l \in s..m /\ (l = m \/ ~Plain(more[l]))
        /\ \A i \in s..m : i < l => Plain(more[i])
    <2>1. s < m
      OBVIOUS
    <2> QED
      BY <2>1, LastIs
  <1>3. k < n \/ l < n
    OBVIOUS
  <1> HIDE DEF k, l
  <1>4. \A i \in s..n : i < n => code[i] = more[i]
    BY DEF Agree
  <1>5. ~(k < l)
    <2> SUFFICES ASSUME k < l PROVE FALSE
      OBVIOUS
    <2>1. k < n
      BY <1>1, <1>2, <1>3
    <2>2. ~Plain(code[k]) /\ code[k] = more[k]
      BY <1>1, <1>4, <2>1
    <2>3. k \in s..m
      BY <1>1, <1>2
    <2> QED
      BY <1>2, <2>2, <2>3
  <1>6. ~(l < k)
    <2> SUFFICES ASSUME l < k PROVE FALSE
      OBVIOUS
    <2>1. l < n /\ l \in s..n
      BY <1>1, <1>2
    <2>2. ~Plain(more[l]) /\ code[l] = more[l]
      BY <1>2, <1>4, <2>1
    <2> QED
      BY <1>1, <2>1, <2>2
  <1>7. k = l
    BY <1>1, <1>2, <1>5, <1>6
  <1> QED
    BY <1>3, <1>7 DEF k, l

\* What the prefixes at s are.
LEMMA PrefixesAre ==
    ASSUME NEW code, NEW s \in Nat, NEW n \in Nat, s < n, Bytes(code, s, n)
    PROVE  /\ Prefixes(code, s, n).enc \in {"legacy", "vex2", "vex3", "evex"}
           /\ Prefixes(code, s, n).op \in Nat
           /\ Last(code, s, n) <= Prefixes(code, s, n).op
           /\ Prefixes(code, s, n).enc \in {"vex3", "evex"} =>
                Last(code, s, n) + 1 < Prefixes(code, s, n).op
           /\ Prefixes(code, s, n).ddef \in {2, 4} /\ Prefixes(code, s, n).mdef \in {2, 4}
           /\ Prefixes(code, s, n).rexw \in BOOLEAN
  <1> DEFINE last == Last(code, s, n)
             b == At(code, last, n)
             op == last + (CASE b = \h62 -> 4 [] b = \hC4 -> 3 [] b = \hC5 -> 2 [] OTHER -> 0)
             enc == CASE b = \h62 -> "evex" [] b = \hC4 -> "vex3" [] b = \hC5 -> "vex2"
                      [] OTHER -> "legacy"
             p == Prefixes(code, s, n)
  <1>1. last \in s..n
    BY LastIs
  <1>2. p.op = op /\ p.enc = enc
    BY DEF Prefixes, Last
  <1>3. p.ddef \in {2, 4} /\ p.mdef \in {2, 4} /\ p.rexw \in BOOLEAN
    BY DEF Prefixes
  <1> HIDE DEF last, b, p
  <1>4. /\ op \in Nat /\ last <= op /\ enc \in {"legacy", "vex2", "vex3", "evex"}
        /\ enc \in {"vex3", "evex"} => last + 1 < op
    BY <1>1
  <1> QED
    BY <1>2, <1>3, <1>4 DEF last, p

PrefixRecord(last, plain, b, next) ==
    [enc  |-> CASE b = \h62 -> "evex" [] b = \hC4 -> "vex3"
                [] b = \hC5 -> "vex2" [] OTHER -> "legacy",
     map  |-> IF b = \h62 THEN next % 4 ELSE next % 32,
     op   |-> last + (CASE b = \h62 -> 4 [] b = \hC4 -> 3 [] b = \hC5 -> 2 [] OTHER -> 0),
     ddef |-> IF \h66 \in plain THEN 2 ELSE 4,
     mdef |-> IF \h67 \in plain THEN 2 ELSE 4,
     rexw |-> \E v \in plain : CHECK_REX(v) /\ CHECK_REXW(v)]

\* They are the same when more of the stream is at hand; what a VEX or EVEX
\* prefix says of the map is read before the opcode.
LEMMA SamePrefixes ==
    ASSUME NEW code, NEW more, NEW s \in Nat, NEW n \in Nat, NEW m \in Nat, s < n, n <= m,
           Agree(code, more, s, n), Last(code, s, n) < n \/ Last(more, s, m) < n
    PROVE  /\ Prefixes(code, s, n).enc = Prefixes(more, s, m).enc
           /\ Prefixes(code, s, n).op = Prefixes(more, s, m).op
           /\ Prefixes(code, s, n).ddef = Prefixes(more, s, m).ddef
           /\ Prefixes(code, s, n).mdef = Prefixes(more, s, m).mdef
           /\ Prefixes(code, s, n).rexw = Prefixes(more, s, m).rexw
           /\ Last(code, s, n) + 1 < n => Prefixes(code, s, n).map = Prefixes(more, s, m).map
  <1> DEFINE last == Last(code, s, n)
  <1>1. Last(more, s, m) = last /\ last < n /\ last \in s..n
    BY SameLast, LastIs
  <1> HIDE DEF last
  <1>2. \A i \in s..n : i < n => code[i] = more[i]
    BY DEF Agree
  <1>3. At(code, last, n) = At(more, last, m)
    BY <1>1, <1>2 DEF At
  <1>4. last + 1 < n => At(code, last + 1, n) = At(more, last + 1, m)
    BY <1>1, <1>2 DEF At
  <1>5. {code[i] : i \in s..(last - 1)} = {more[i] : i \in s..(last - 1)}
    <2>1. \A i \in s..(last - 1) : code[i] = more[i]
      BY <1>1, <1>2
    <2> QED
      BY <2>1
  <1>6. /\ Prefixes(code, s, n) = PrefixRecord(last, {code[i] : i \in s..(last - 1)},
                                               At(code, last, n), At(code, last + 1, n))
        /\ Prefixes(more, s, m) = PrefixRecord(last, {more[i] : i \in s..(last - 1)},
                                               At(more, last, m), At(more, last + 1, m))
    BY <1>1, Zenon DEF Prefixes, Last, last, PrefixRecord
  <1>7. ASSUME NEW plain, NEW b, NEW x, NEW y
        PROVE  /\ PrefixRecord(last, plain, b, x).enc = PrefixRecord(last, plain, b, y).enc
               /\ PrefixRecord(last, plain, b, x).op = PrefixRecord(last, plain, b, y).op
               /\ PrefixRecord(last, plain, b, x).ddef = PrefixRecord(last, plain, b, y).ddef
               /\ PrefixRecord(last, plain, b, x).mdef = PrefixRecord(last, plain, b, y).mdef
               /\ PrefixRecord(last, plain, b, x).rexw = PrefixRecord(last, plain, b, y).rexw
    BY DEF PrefixRecord
  <1>8. last + 1 < n => Prefixes(code, s, n) = Prefixes(more, s, m)
    BY ONLY <1>3, <1>4, <1>5, <1>6, Zenon
  <1>9. Prefixes(code, s, n) = PrefixRecord(last, {more[i] : i \in s..(last - 1)},
                                            At(more, last, m), At(code, last + 1, n))
    BY ONLY <1>3, <1>5, <1>6, Zenon
  <1> DEFINE plain == {more[i] : i \in s..(last - 1)}
             b == At(more, last, m)
             x == At(code, last + 1, n)
             y == At(more, last + 1, m)
             p == Prefixes(code, s, n)
             q == Prefixes(more, s, m)
  <1>10. p = PrefixRecord(last, plain, b, x) /\ q = PrefixRecord(last, plain, b, y)
    BY ONLY <1>6, <1>9, Zenon
  <1>11. last + 1 < n => p = q
    BY <1>8
  <1> HIDE DEF plain, b, x, y, p, q
  <1>12. /\ p.enc = q.enc /\ p.op = q.op /\ p.ddef = q.ddef /\ p.mdef = q.mdef
         /\ p.rexw = q.rexw
    BY ONLY <1>7, <1>10
  <1> QED
    BY <1>11, <1>12 DEF last, p, q

-----------------------------------------------------------------------------
(* The opcode of an instruction.                                           *)

Escapes(code, p, n) ==
    IF p.enc # "legacy" \/ At(code, p.op, n) # \h0F THEN 0
    ELSE IF p.op + 1 < n /\ At(code, p.op + 1, n) \in {\h38, \h3A} THEN 2 ELSE 1

OpcodeMap(enc, map, escapes, esc2) ==
    CASE enc = "vex2" -> 1
      [] enc \in {"vex3", "evex"} -> map
      [] escapes = 2 -> IF esc2 = \h38 THEN 2 ELSE 3
      [] OTHER -> escapes

LEMMA OpcodeFields ==
    ASSUME NEW code, NEW p, NEW n
    PROVE  /\ Opcode(code, p, n).at = p.op + Escapes(code, p, n)
           /\ Opcode(code, p, n).op = At(code, p.op + Escapes(code, p, n), n)
           /\ Opcode(code, p, n).map = OpcodeMap(p.enc, p.map, Escapes(code, p, n),
                                                 At(code, p.op + 1, n))
           /\ Opcode(code, p, n) = [at  |-> Opcode(code, p, n).at,
                                    op  |-> Opcode(code, p, n).op,
                                    map |-> Opcode(code, p, n).map]
  <1>1. Opcode(code, p, n) =
          [at  |-> p.op + Escapes(code, p, n),
           op  |-> At(code, p.op + Escapes(code, p, n), n),
           map |-> OpcodeMap(p.enc, p.map, Escapes(code, p, n), At(code, p.op + 1, n))]
    BY Zenon DEF Opcode, Escapes, OpcodeMap
  <1> QED
    BY <1>1

LEMMA OpcodeIs ==
    ASSUME NEW code, NEW s \in Nat, NEW n \in Nat, s < n, Bytes(code, s, n)
    PROVE  LET p == Prefixes(code, s, n)
               o == Opcode(code, p, n)
           IN  /\ o.at \in Nat /\ p.op <= o.at /\ s <= o.at
               /\ o.op \in Byte
               /\ p.enc = "legacy" => o.map \in 0..3
  <1> DEFINE p == Prefixes(code, s, n)
             e == Escapes(code, p, n)
             o == Opcode(code, p, n)
  <1>1. p.op \in Nat /\ s <= p.op
    <2>1. Last(code, s, n) \in s..n
      BY LastIs
    <2> QED
      BY <2>1, PrefixesAre
  <1>2. e \in {0, 1, 2}
    BY DEF Escapes
  <1>3. /\ o.at = p.op + e /\ o.op = At(code, p.op + e, n)
        /\ o.map = OpcodeMap(p.enc, p.map, e, At(code, p.op + 1, n))
    BY OpcodeFields
  <1> HIDE DEF p, e, o
  <1>4. p.enc = "legacy" => o.map \in 0..3
    BY <1>2, <1>3 DEF OpcodeMap
  <1>5. o.op \in Byte
    BY <1>1, <1>2, <1>3, AtByte
  <1> QED
    BY <1>1, <1>2, <1>3, <1>4, <1>5 DEF p, o

\* The opcode is the same when more of the stream is at hand.
LEMMA SameOpcode ==
    ASSUME NEW code, NEW more, NEW s \in Nat, NEW n \in Nat, NEW m \in Nat, s < n, n <= m,
           Agree(code, more, s, n), Bytes(code, s, n), Bytes(more, s, m),
           NEW p, NEW q, p = Prefixes(code, s, n), q = Prefixes(more, s, m),
           \/ Opcode(code, p, n).at < n
           \/ Opcode(more, q, m).at < n
    PROVE  /\ Opcode(code, p, n) = Opcode(more, q, m)
           /\ Opcode(code, p, n).at < n
           /\ p.enc = q.enc /\ p.ddef = q.ddef /\ p.mdef = q.mdef /\ p.rexw = q.rexw
  <1> DEFINE l == Last(code, s, n)
  <1>1. s < m
    OBVIOUS
  <1>2. /\ Opcode(code, p, n).at \in Nat /\ p.op <= Opcode(code, p, n).at
        /\ Last(code, s, n) <= p.op /\ p.op \in Nat
    BY OpcodeIs, PrefixesAre
  <1>3. /\ Opcode(more, q, m).at \in Nat /\ q.op <= Opcode(more, q, m).at
        /\ Last(more, s, m) <= q.op /\ q.op \in Nat
    BY <1>1, OpcodeIs, PrefixesAre
  <1>4. Last(code, s, n) \in Int /\ Last(more, s, m) \in Int /\ s <= l
    <2>1. Last(code, s, n) \in s..n
      BY LastIs
    <2>2. Last(more, s, m) \in s..m
      BY <1>1, LastIs
    <2> QED
      BY <2>1, <2>2
  <1>5. Last(code, s, n) < n \/ Last(more, s, m) < n
    <2> DEFINE a == Opcode(code, p, n).at
               b == Opcode(more, q, m).at
               k == Last(more, s, m)
    <2> HIDE DEF a, b, k, l
    <2>1. a < n \/ b < n
      BY DEF a, b
    <2>2. a \in Nat /\ b \in Nat /\ p.op <= a /\ q.op <= b /\ l <= p.op /\ k <= q.op
          /\ l \in Int /\ k \in Int /\ p.op \in Nat /\ q.op \in Nat
      BY <1>2, <1>3, <1>4 DEF a, b, k, l
    <2>3. l < n \/ k < n
      BY <2>1, <2>2
    <2> QED
      BY <2>3 DEF k, l
  <1>6. /\ p.enc = q.enc /\ p.op = q.op
        /\ p.ddef = q.ddef /\ p.mdef = q.mdef /\ p.rexw = q.rexw
        /\ l + 1 < n => p.map = q.map
    BY <1>5, SamePrefixes
  <1>7. p.enc \in {"vex3", "evex"} => l + 1 < p.op
    BY PrefixesAre
  <1> DEFINE d == Escapes(code, p, n)
             e == Escapes(more, q, m)
             c1 == At(code, p.op, n)
             c2 == At(code, p.op + 1, n)
             m1 == At(more, p.op, m)
             m2 == At(more, p.op + 1, m)
  <1>8. /\ d = IF p.enc # "legacy" \/ c1 # \h0F THEN 0
               ELSE IF p.op + 1 < n /\ c2 \in {\h38, \h3A} THEN 2 ELSE 1
        /\ e = IF p.enc # "legacy" \/ m1 # \h0F THEN 0
               ELSE IF p.op + 1 < m /\ m2 \in {\h38, \h3A} THEN 2 ELSE 1
    BY <1>6 DEF Escapes
  <1>9. \A i \in s..n : i < n => At(code, i, n) = At(more, i, m)
    BY DEF Agree, At
  <1>10. /\ Opcode(code, p, n).at = p.op + d
         /\ Opcode(more, q, m).at = p.op + e
    BY <1>6, OpcodeFields
  <1>11. p.op + d < n \/ p.op + e < n
    BY <1>10
  <1> HIDE DEF d, e, l, c1, c2, m1, m2
  <1>12. s <= p.op /\ p.op < n /\ p.op \in Nat
    BY <1>2, <1>4, <1>8, <1>11 DEF l
  <1>13. c1 = m1 /\ (p.op + 1 < n => c2 = m2)
    BY <1>9, <1>12 DEF c1, c2, m1, m2
  <1>14. d = e /\ p.op + d < n /\ d \in {0, 1, 2} /\ (d # 0 => p.op + 1 < n)
    BY <1>8, <1>11, <1>12, <1>13
  <1>15. At(code, p.op + d, n) = At(more, p.op + d, m)
    BY <1>9, <1>12, <1>14
  <1>16. OpcodeMap(p.enc, p.map, d, c2) = OpcodeMap(q.enc, q.map, d, m2)
    <2>1. p.enc \in {"vex3", "evex"} => p.map = q.map
      BY <1>4, <1>6, <1>7, <1>12 DEF l
    <2>2. d = 2 => c2 = m2
      BY <1>13, <1>14
    <2> QED
      BY <1>6, <2>1, <2>2 DEF OpcodeMap
  <1>17. /\ Opcode(code, p, n).op = Opcode(more, q, m).op
         /\ Opcode(code, p, n).map = Opcode(more, q, m).map
         /\ Opcode(code, p, n).at = Opcode(more, q, m).at
    <2>1. /\ Opcode(code, p, n).op = At(code, p.op + d, n)
          /\ Opcode(more, q, m).op = At(more, q.op + e, m)
          /\ Opcode(code, p, n).map = OpcodeMap(p.enc, p.map, d, c2)
          /\ Opcode(more, q, m).map = OpcodeMap(q.enc, q.map, e, At(more, q.op + 1, m))
      BY OpcodeFields DEF d, e, c2
    <2>2. q.op = p.op /\ e = d /\ At(more, q.op + 1, m) = m2
      BY <1>6, <1>14 DEF m2
    <2> QED
      BY ONLY <1>10, <1>15, <1>16, <2>1, <2>2
  <1>18. Opcode(code, p, n) = Opcode(more, q, m)
    <2> DEFINE a == Opcode(code, p, n)
               b == Opcode(more, q, m)
    <2>1. a = [at |-> a.at, op |-> a.op, map |-> a.map]
      BY OpcodeFields
    <2>2. b = [at |-> b.at, op |-> b.op, map |-> b.map]
      BY OpcodeFields
    <2>3. a.op = b.op /\ a.map = b.map /\ a.at = b.at
      BY <1>17
    <2> HIDE DEF a, b
    <2>4. a = b
      BY ONLY <2>1, <2>2, <2>3
    <2> QED
      BY ONLY <2>4 DEF a, b
  <1> QED
    BY <1>6, <1>10, <1>14, <1>18

-----------------------------------------------------------------------------
(* The layout of an instruction.                                           *)

\* Where an instruction with these bytes after its opcode ends.
EndOf(p, o, modrm, sib) ==
    LET has == HasModrm(p.enc, o.map, o.op)
    IN  o.at + 1 + (IF has THEN 1 ELSE 0) + (IF has /\ HasSib(modrm) THEN 1 ELSE 0)
          + MemorySize(p, o, IF has THEN Displacement(modrm, sib, p.mdef) ELSE 0)
          + DataSize(p, o, modrm)

TypeOf(p, o, modrm) ==
    IF HasModrm(p.enc, o.map, o.op) /\ (p.enc # "legacy" \/ o.map = 0)
      THEN ExtendedType(o.op, MODRM_REG_OPCODE(modrm), OpcodeType(p.enc, o.map, o.op))
      ELSE OpcodeType(p.enc, o.map, o.op)

LayoutOf(p, o, n, modrm, sib) ==
    IF o.at >= n THEN [status |-> "crosses"]
    ELSE IF Undefined(p.enc, o.map, o.op) THEN [status |-> "undefined"]
    ELSE IF EndOf(p, o, modrm, sib) > n THEN [status |-> "crosses"]
    ELSE [status |-> "whole", end |-> EndOf(p, o, modrm, sib), type |-> TypeOf(p, o, modrm)]

LEMMA LayoutIs ==
    ASSUME NEW code, NEW p, NEW o, NEW n
    PROVE  Layout(code, p, o, n) =
             LayoutOf(p, o, n, At(code, o.at + 1, n), At(code, o.at + 2, n))
  BY Zenon DEF Layout, LayoutOf, EndOf, TypeOf

\* Prefixes and an opcode as a search finds them.
Sane(p, o) ==
    /\ p.enc \in {"legacy", "vex2", "vex3", "evex"}
    /\ p.ddef \in {2, 4} /\ p.mdef \in {2, 4}
    /\ o.at \in Nat /\ o.op \in Byte /\ (p.enc = "legacy" => o.map \in 0..3)

LEMMA ImmediateSize ==
    ASSUME NEW p, NEW o, Sane(p, o), NEW modrm
    PROVE  Immediate(p, o.map, o.op, modrm) \in Nat
  <1>1. CASE p.enc # "legacy"
    BY <1>1 DEF Immediate, Sane
  <1>2. CASE p.enc = "legacy" /\ o.map = 0
    BY <1>2 DEF Immediate, Sane
  <1>3. CASE p.enc = "legacy" /\ o.map = 1
    BY <1>3 DEF Immediate, Sane
  <1>4. CASE p.enc = "legacy" /\ o.map \in {2, 3}
    BY <1>4 DEF Immediate
  <1> QED
    BY <1>1, <1>2, <1>3, <1>4 DEF Sane

LEMMA DisplacementSize ==
    ASSUME NEW modrm \in Byte, NEW sib, NEW mdef \in {2, 4}
    PROVE  Displacement(modrm, sib, mdef) \in Nat
  <1>1. MODRM_MOD(modrm) \in 0..3
    BY Fields
  <1> QED
    BY <1>1 DEF Displacement

LEMMA EndAfter ==
    ASSUME NEW p, NEW o, Sane(p, o), NEW modrm \in Byte, NEW sib \in Byte
    PROVE  /\ EndOf(p, o, modrm, sib) \in Nat
           /\ o.at + 1 <= EndOf(p, o, modrm, sib)
           /\ HasModrm(p.enc, o.map, o.op) => o.at + 2 <= EndOf(p, o, modrm, sib)
           /\ HasModrm(p.enc, o.map, o.op) /\ HasSib(modrm)
                => o.at + 3 <= EndOf(p, o, modrm, sib)
  <1> DEFINE has == HasModrm(p.enc, o.map, o.op)
             disp == IF has THEN Displacement(modrm, sib, p.mdef) ELSE 0
             mem == MemorySize(p, o, disp)
             data == DataSize(p, o, modrm)
             sibs == HasSib(modrm)
  <1>1. disp \in Nat
    BY DisplacementSize DEF Sane
  <1> HIDE DEF disp, has, sibs
  <1>2. mem \in Nat
    BY <1>1 DEF MemorySize, Sane
  <1>3. data \in Nat
    BY ImmediateSize DEF DataSize
  <1>4. EndOf(p, o, modrm, sib) =
          o.at + 1 + (IF has THEN 1 ELSE 0) + (IF has /\ sibs THEN 1 ELSE 0) + mem + data
    BY DEF EndOf, has, disp, sibs
  <1>5. o.at \in Nat
    BY DEF Sane
  <1> HIDE DEF mem, data
  <1> QED
    BY <1>2, <1>3, <1>4, <1>5 DEF has, sibs

\* Only the bytes that belong to the instruction decide its layout.
LEMMA SameEnd ==
    ASSUME NEW p, NEW q, NEW o, Sane(p, o),
           p.enc = q.enc, p.ddef = q.ddef, p.mdef = q.mdef, p.rexw = q.rexw,
           NEW modrm \in Byte, NEW sib \in Byte, NEW modrm2 \in Byte, NEW sib2 \in Byte,
           HasModrm(p.enc, o.map, o.op) => modrm = modrm2,
           HasModrm(p.enc, o.map, o.op) /\ HasSib(modrm) => sib = sib2
    PROVE  /\ EndOf(p, o, modrm, sib) = EndOf(q, o, modrm2, sib2)
           /\ TypeOf(p, o, modrm) = TypeOf(q, o, modrm2)
  <1> DEFINE has == HasModrm(p.enc, o.map, o.op)
  <1>1. has => Displacement(modrm, sib, p.mdef) = Displacement(modrm2, sib2, p.mdef)
    <2>1. CASE has /\ HasSib(modrm)
      BY <2>1
    <2>2. CASE has /\ ~HasSib(modrm)
      <3>1. MODRM_MOD(modrm) \in 0..3 /\ modrm = modrm2
        BY <2>2, Fields
      <3>2. MODRM_MOD(modrm) = 3 \/ MODRM_R_M(modrm) # 4
        BY <2>2 DEF HasSib
      <3> QED
        BY <3>1, <3>2 DEF Displacement
    <2> QED
      BY <2>1, <2>2
  <1>2. Immediate(p, o.map, o.op, modrm) = Immediate(q, o.map, o.op, modrm2)
    <2>1. CASE has
      <3>1. modrm = modrm2
        BY <2>1
      <3> QED
        BY <3>1 DEF Immediate
    <2>2. CASE ~has
      <3>1. p.enc = "legacy" /\ o.map = 0 => o.op \notin {\hF6, \hF7}
        <4>1. \hF6 \in modrm_t /\ \hF7 \in modrm_t
          BY DEF modrm_t
        <4> QED
          BY <2>2, <4>1 DEF HasModrm
      <3>2. CASE p.enc # "legacy"
        BY <3>2 DEF Immediate
      <3>3. CASE p.enc = "legacy" /\ o.map = 0
        BY <3>1, <3>3 DEF Immediate
      <3>4. CASE p.enc = "legacy" /\ o.map \in {1, 2, 3}
        BY <3>4 DEF Immediate
      <3> QED
        BY <3>2, <3>3, <3>4 DEF Sane
    <2> QED
      BY <2>1, <2>2
  <1>3. DataSize(p, o, modrm) = DataSize(q, o, modrm2)
    BY <1>2 DEF DataSize
  <1>4. \A d : MemorySize(p, o, d) = MemorySize(q, o, d)
    BY DEF MemorySize
  <1>5. HasSib(modrm) = HasSib(modrm2) \/ ~has
    BY DEF HasSib
  <1>6. TypeOf(p, o, modrm) = TypeOf(q, o, modrm2)
    BY DEF TypeOf
  <1> DEFINE disp == IF has THEN Displacement(modrm, sib, p.mdef) ELSE 0
             disp2 == IF has THEN Displacement(modrm2, sib2, p.mdef) ELSE 0
  <1>7. disp = disp2
    BY <1>1
  <1>8. /\ EndOf(p, o, modrm, sib) =
             o.at + 1 + (IF has THEN 1 ELSE 0) + (IF has /\ HasSib(modrm) THEN 1 ELSE 0)
               + MemorySize(p, o, disp) + DataSize(p, o, modrm)
        /\ EndOf(q, o, modrm2, sib2) =
             o.at + 1 + (IF has THEN 1 ELSE 0) + (IF has /\ HasSib(modrm2) THEN 1 ELSE 0)
               + MemorySize(q, o, disp2) + DataSize(q, o, modrm2)
    BY DEF EndOf
  <1> HIDE DEF has, disp, disp2
  <1>9. EndOf(p, o, modrm, sib) = EndOf(q, o, modrm2, sib2)
    <2>1. (IF has /\ HasSib(modrm) THEN 1 ELSE 0) = (IF has /\ HasSib(modrm2) THEN 1 ELSE 0)
      BY <1>5
    <2> QED
      BY <1>3, <1>4, <1>7, <1>8, <2>1
  <1> QED
    BY <1>6, <1>9

-----------------------------------------------------------------------------
(* One instruction.                                                        *)

LEMMA SaneThere ==
    ASSUME NEW code, NEW s \in Nat, NEW n \in Nat, s < n, Bytes(code, s, n)
    PROVE  Sane(Prefixes(code, s, n), Opcode(code, Prefixes(code, s, n), n))
  BY PrefixesAre, OpcodeIs DEF Sane

\* An instruction is whole, undefined or cut, and a whole one moves on.
LEMMA InstructionIs ==
    ASSUME NEW code, NEW s \in Nat, NEW n \in Nat, s < n, Bytes(code, s, n)
    PROVE  LET i == Instruction(code, s, n)
           IN  /\ i.status \in {"crosses", "undefined", "whole"}
               /\ i.status = "whole" => i.end \in Nat /\ s < i.end /\ i.end <= n
  <1> DEFINE p == Prefixes(code, s, n)
             o == Opcode(code, p, n)
             modrm == At(code, o.at + 1, n)
             sib == At(code, o.at + 2, n)
             i == Instruction(code, s, n)
             end == EndOf(p, o, modrm, sib)
  <1>1. Sane(p, o) /\ s <= o.at /\ o.at \in Nat
    BY SaneThere, OpcodeIs
  <1>2. modrm \in Byte /\ sib \in Byte
    <2>1. o.at + 1 \in Nat /\ o.at + 2 \in Nat /\ s <= o.at + 1 /\ s <= o.at + 2
      BY <1>1
    <2> QED
      BY <2>1, AtByte
  <1>3. i = LayoutOf(p, o, n, modrm, sib)
    BY LayoutIs DEF Instruction
  <1> HIDE DEF p, o, modrm, sib, i
  <1>4. end \in Nat /\ o.at + 1 <= end
    BY <1>1, <1>2, EndAfter
  <1> HIDE DEF end
  <1>5. /\ i.status \in {"crosses", "undefined", "whole"}
        /\ i.status = "whole" => i.end = end /\ ~(end > n)
    BY <1>3 DEF LayoutOf, end
  <1> QED
    BY <1>1, <1>4, <1>5 DEF i

\* A whole or undefined instruction stays what it is when more of the stream
\* is at hand; one that was cut ends in what came later.
LEMMA Stable ==
    ASSUME NEW code, NEW more, NEW s \in Nat, NEW n \in Nat, NEW m \in Nat, s < n, n <= m,
           Agree(code, more, s, n), Bytes(code, s, n), Bytes(more, s, m)
    PROVE  LET i == Instruction(code, s, n)
               j == Instruction(more, s, m)
           IN  /\ i.status # "crosses" => j = i
               /\ j.status = "whole" /\ j.end <= n => i = j
               /\ j.status = "undefined" => i.status # "whole"
  <1> DEFINE p == Prefixes(code, s, n)
             q == Prefixes(more, s, m)
             o == Opcode(code, p, n)
             u == Opcode(more, q, m)
             i == Instruction(code, s, n)
             j == Instruction(more, s, m)
             c1 == At(code, o.at + 1, n)
             c2 == At(code, o.at + 2, n)
             m1 == At(more, u.at + 1, m)
             m2 == At(more, u.at + 2, m)
  <1>0. s < m
    OBVIOUS
  <1>1. Sane(p, o) /\ Sane(q, u) /\ s <= o.at /\ s <= u.at /\ o.at \in Nat /\ u.at \in Nat
    BY <1>0, SaneThere, OpcodeIs
  <1>2. c1 \in Byte /\ c2 \in Byte /\ m1 \in Byte /\ m2 \in Byte
    <2>1. /\ o.at + 1 \in Nat /\ o.at + 2 \in Nat /\ s <= o.at + 1 /\ s <= o.at + 2
          /\ u.at + 1 \in Nat /\ u.at + 2 \in Nat /\ s <= u.at + 1 /\ s <= u.at + 2
      BY <1>1
    <2> HIDE DEF o, u
    <2> QED
      BY <2>1, AtByte
  <1>3. i = LayoutOf(p, o, n, c1, c2) /\ j = LayoutOf(q, u, m, m1, m2)
    BY LayoutIs DEF Instruction
  <1>4. o.at < n \/ u.at < n => /\ o = u /\ o.at < n
                                /\ p.enc = q.enc /\ p.ddef = q.ddef
                                /\ p.mdef = q.mdef /\ p.rexw = q.rexw
    BY SameOpcode
  <1>5. \A k \in s..n : k < n => At(code, k, n) = At(more, k, m)
    BY DEF Agree, At
  <1> DEFINE has == HasModrm(p.enc, o.map, o.op)
  <1>6. o = u => (o.at + 1 < n => c1 = m1) /\ (o.at + 2 < n => c2 = m2)
    <2>1. o.at + 1 < n => o.at + 1 \in s..n
      BY <1>1
    <2>2. o.at + 2 < n => o.at + 2 \in s..n
      BY <1>1
    <2> HIDE DEF o, u
    <2> QED
      BY <1>5, <2>1, <2>2
  <1> HIDE DEF p, q, o, u, i, j, c1, c2, m1, m2
  <1>7. \/ ~(o.at >= n) /\ ~(u.at >= n)
        \/ o.at >= n /\ u.at >= n
    <2>1. o.at < n \/ u.at < n => o = u /\ o.at < n
      BY <1>4
    <2>2. o.at \in Nat /\ u.at \in Nat /\ n \in Nat
      BY <1>1
    <2>3. CASE o.at < n \/ u.at < n
      <3>1. o.at < n /\ u.at < n
        BY ONLY <2>1, <2>3
      <3> QED
        BY ONLY <2>2, <3>1
    <2>4. CASE ~(o.at < n) /\ ~(u.at < n)
      BY ONLY <2>2, <2>4
    <2> QED
      BY ONLY <2>3, <2>4
  <1>8. CASE o.at >= n /\ u.at >= n
    <2>1. i.status = "crosses"
      BY <1>3, <1>8 DEF LayoutOf
    <2>2. EndOf(q, u, m1, m2) \in Nat /\ u.at + 1 <= EndOf(q, u, m1, m2)
      BY <1>1, <1>2, EndAfter
    <2>3. j.status = "whole" => j.end = EndOf(q, u, m1, m2)
      BY <1>3 DEF LayoutOf
    <2>4. j.status = "whole" => ~(j.end <= n)
      BY <1>1, <1>8, <2>2, <2>3
    <2> QED
      BY <2>1, <2>4 DEF i, j
  <1>9. CASE ~(o.at >= n) /\ ~(u.at >= n)
    <2>1. /\ o = u /\ o.at < n
          /\ p.enc = q.enc /\ p.ddef = q.ddef /\ p.mdef = q.mdef /\ p.rexw = q.rexw
      BY <1>1, <1>4, <1>9
    <2> DEFINE e == EndOf(p, o, c1, c2)
               f == EndOf(q, u, m1, m2)
    <2>2. /\ e \in Nat /\ f \in Nat
          /\ has => o.at + 2 <= e /\ o.at + 2 <= f
          /\ has /\ HasSib(c1) => o.at + 3 <= e
          /\ has /\ HasSib(m1) => o.at + 3 <= f
      BY <1>1, <1>2, <2>1, EndAfter
    <2> HIDE DEF e, f, has
    <2>3. e <= n \/ f <= n => /\ has => c1 = m1
                              /\ has /\ HasSib(c1) => c2 = m2
      <3>1. has /\ (e <= n \/ f <= n) => o.at + 1 < n
        BY <1>1, <2>2
      <3>2. has /\ (e <= n \/ f <= n) => c1 = m1
        BY <1>6, <2>1, <3>1
      <3>3. has /\ HasSib(c1) /\ (e <= n \/ f <= n) => o.at + 2 < n
        BY <1>1, <2>2, <3>2
      <3> QED
        BY <1>6, <2>1, <3>2, <3>3
    <2>4. e <= n \/ f <= n => e = f /\ TypeOf(p, o, c1) = TypeOf(q, u, m1)
      <3> SUFFICES ASSUME e <= n \/ f <= n
                   PROVE  e = f /\ TypeOf(p, o, c1) = TypeOf(q, u, m1)
        OBVIOUS
      <3>1. /\ HasModrm(p.enc, o.map, o.op) => c1 = m1
            /\ HasModrm(p.enc, o.map, o.op) /\ HasSib(c1) => c2 = m2
        BY <2>3 DEF has
      <3>2. /\ EndOf(p, o, c1, c2) = EndOf(q, o, m1, m2)
            /\ TypeOf(p, o, c1) = TypeOf(q, o, m1)
        BY <1>1, <1>2, <2>1, <3>1, SameEnd
      <3> QED
        BY <2>1, <3>2 DEF e, f
    <2>5. ~(o.at >= m) /\ ~(u.at >= m)
      BY <1>1, <1>9, <2>1
    <2> DEFINE bad == Undefined(p.enc, o.map, o.op)
    <2>6. bad = Undefined(q.enc, u.map, u.op)
      BY <2>1
    <2>7. CASE bad
      <3>1. i = [status |-> "undefined"] /\ j = [status |-> "undefined"]
        BY <1>3, <1>9, <2>5, <2>6, <2>7 DEF LayoutOf
      <3> QED
        BY <3>1 DEF i, j
    <2>8. CASE ~bad
      <3>1. /\ e > n => i = [status |-> "crosses"]
            /\ ~(e > n) => i = [status |-> "whole", end |-> e, type |-> TypeOf(p, o, c1)]
            /\ f > m => j = [status |-> "crosses"]
            /\ ~(f > m) => j = [status |-> "whole", end |-> f, type |-> TypeOf(q, u, m1)]
        BY <1>3, <1>9, <2>5, <2>6, <2>8 DEF LayoutOf, e, f
      <3> HIDE DEF bad
      <3>2. CASE e <= n
        <4>1. e = f /\ ~(e > n) /\ ~(f > m) /\ TypeOf(p, o, c1) = TypeOf(q, u, m1)
          BY <2>2, <2>4, <3>2
        <4>2. i = j /\ j.status = "whole"
          BY <3>1, <4>1
        <4> QED
          BY <4>2 DEF i, j
      <3>3. CASE ~(e <= n)
        <4>1. e > n /\ ~(f <= n)
          BY <2>2, <2>4, <3>3
        <4>2. i.status = "crosses"
          BY <3>1, <4>1
        <4>3. j.status = "whole" => j.end = f
          BY <3>1
        <4>4. j.status # "undefined"
          BY <3>1
        <4> QED
          BY <4>1, <4>2, <4>3, <4>4 DEF i, j
      <3> QED
        BY <3>2, <3>3
    <2> QED
      BY <2>7, <2>8
  <1> QED
    BY <1>1, <1>7, <1>8, <1>9

-----------------------------------------------------------------------------
(* The search over the instructions, which is a recursive function.        *)

\* What holds at each position when it holds at all later ones.
LEMMA Downward ==
    ASSUME NEW s \in Nat, NEW n \in Nat, NEW T,
           \A i \in s..n : (\A j \in s..n : i < j => j \in T) => i \in T
    PROVE  \A i \in s..n : i \in T
  <1> DEFINE Bad == {d \in 0..(n - s) : n - d \in s..n /\ n - d \notin T}
  <1> SUFFICES ASSUME NEW i \in s..n, i \notin T PROVE FALSE
    OBVIOUS
  <1>1. n - i \in 0..(n - s) /\ n - (n - i) = i
    OBVIOUS
  <1>2. Bad # {} /\ Bad \in SUBSET Nat
    <2> DEFINE e == n - i
    <2>1. e \in 0..(n - s) /\ n - e = i
      BY <1>1
    <2> HIDE DEF e
    <2>2. e \in Bad
      BY <2>1
    <2>3. Bad \in SUBSET Nat
      OBVIOUS
    <2> HIDE DEF Bad
    <2> QED
      BY <2>2, <2>3
  <1>3. PICK d \in Bad : \A e \in Bad : d <= e
    <2> HIDE DEF Bad
    <2> QED
      BY <1>2, LeastNumber
  <1> DEFINE k == n - d
  <1>4. d \in 0..(n - s) /\ k \in s..n /\ k \notin T
    BY <1>3
  <1>5. ASSUME NEW j \in s..n, k < j
        PROVE  j \in T
    <2>1. n - j \in 0..(n - s) /\ n - (n - j) = j /\ ~(d <= n - j)
      BY <1>4, <1>5
    <2>2. n - j \notin Bad
      BY <1>3, <2>1
    <2> QED
      BY <2>1, <2>2
  <1> HIDE DEF k
  <1> QED
    BY <1>4, <1>5

\* One turn of disassemble_code's loop.
Step(f, code, n, x) ==
    IF x[1] = n THEN [ret |-> "continue", end |-> n, stats |-> x[2]]
    ELSE CASE Instruction(code, x[1], n).status = "crosses" ->
                [ret |-> "continue", end |-> x[1], stats |-> x[2]]
           [] Instruction(code, x[1], n).status = "undefined" ->
                [ret |-> "error", end |-> n, stats |-> x[2]]
           [] OTHER ->
                IF Instruction(code, x[1], n).type \in Transfers
                  THEN [ret |-> "success", end |-> Instruction(code, x[1], n).end,
                        stats |-> Count(x[2], "CONTROL")]
                  ELSE f[<<Instruction(code, x[1], n).end,
                           Count(x[2], Instruction(code, x[1], n).type)>>]

IsSearch(f, code, s, n) == f = [x \in (s..n) \X Stats |-> Step(f, code, n, x)]
Search(code, s, n) == CHOOSE f : IsSearch(f, code, s, n)
Walk(code, i, n, st) == Search(code, i, n)[<<i, st>>]

LEMMA DisassembleIs ==
    ASSUME NEW code, NEW s \in Nat, NEW n \in Nat, s < n, NEW st
    PROVE  disassemble_code(code, s, n, st) = Walk(code, s, n, st)
  <1>1. ~(n <= s)
    OBVIOUS
  <1> QED
    BY ONLY <1>1, Zenon DEF disassemble_code, Walk, Search, IsSearch, Step, Stats

LEMMA CountStats ==
    ASSUME NEW st \in Stats, NEW c
    PROVE  Count(st, c) \in Stats
  <1>1. CASE c \in Counters
    <2>1. st[c] \in 0..255
      BY <1>1 DEF Stats
    <2>2. (st[c] + 1) % 256 \in 0..255
      BY <2>1
    <2> QED
      BY <2>2 DEF Count, Stats
  <1>2. CASE c \notin Counters
    BY <1>2 DEF Count, Stats
  <1> QED
    BY <1>1, <1>2

\* A turn looks only at what the search says of later positions.
LEMMA StepLooksAhead ==
    ASSUME NEW code, NEW n \in Nat, NEW i \in Nat, i <= n, Bytes(code, i, n),
           NEW f, NEW g, NEW st \in Stats,
           \A j \in (i + 1)..n : \A t \in Stats : f[<<j, t>>] = g[<<j, t>>]
    PROVE  Step(f, code, n, <<i, st>>) = Step(g, code, n, <<i, st>>)
  <1> DEFINE ins == Instruction(code, i, n)
  <1>1. CASE i = n
    BY <1>1 DEF Step
  <1>2. CASE i < n
    <2>1. /\ ins.status \in {"crosses", "undefined", "whole"}
          /\ ins.status = "whole" => ins.end \in (i + 1)..n
      BY <1>2, InstructionIs
    <2> DEFINE t == Count(st, ins.type)
    <2>2. t \in Stats
      BY CountStats
    <2> HIDE DEF t
    <2>3. ins.status = "whole" => f[<<ins.end, t>>] = g[<<ins.end, t>>]
      BY <2>1, <2>2
    <2>4. <<i, st>>[1] = i /\ <<i, st>>[2] = st
      OBVIOUS
    <2> HIDE DEF ins
    <2>5. /\ Step(f, code, n, <<i, st>>) =
               IF i = n THEN [ret |-> "continue", end |-> n, stats |-> st]
               ELSE CASE ins.status = "crosses" ->
                           [ret |-> "continue", end |-> i, stats |-> st]
                      [] ins.status = "undefined" ->
                           [ret |-> "error", end |-> n, stats |-> st]
                      [] OTHER ->
                           IF ins.type \in Transfers
                             THEN [ret |-> "success", end |-> ins.end,
                                   stats |-> Count(st, "CONTROL")]
                             ELSE f[<<ins.end, t>>]
          /\ Step(g, code, n, <<i, st>>) =
               IF i = n THEN [ret |-> "continue", end |-> n, stats |-> st]
               ELSE CASE ins.status = "crosses" ->
                           [ret |-> "continue", end |-> i, stats |-> st]
                      [] ins.status = "undefined" ->
                           [ret |-> "error", end |-> n, stats |-> st]
                      [] OTHER ->
                           IF ins.type \in Transfers
                             THEN [ret |-> "success", end |-> ins.end,
                                   stats |-> Count(st, "CONTROL")]
                             ELSE g[<<ins.end, t>>]
      BY <2>4 DEF Step, ins, t
    <2>6. CASE ins.status = "whole"
      BY <2>3, <2>5, <2>6
    <2>7. CASE ins.status = "crosses"
      BY <2>5, <2>7
    <2>8. CASE ins.status = "undefined"
      BY <2>5, <2>8
    <2> QED
      BY <2>1, <2>6, <2>7, <2>8
  <1> QED
    BY <1>1, <1>2

LEMMA BytesFrom ==
    ASSUME NEW code, NEW s \in Nat, NEW n \in Nat, NEW i \in s..n, Bytes(code, s, n)
    PROVE  Bytes(code, i, n)
  BY DEF Bytes

\* The search is defined from every position on.
LEMMA SearchExists ==
    ASSUME NEW code, NEW s \in Nat, NEW n \in Nat, s <= n, Bytes(code, s, n)
    PROVE  IsSearch(Search(code, s, n), code, s, n)
  <1> DEFINE T == {i \in s..n : \E f : IsSearch(f, code, i, n)}
  <1>1. ASSUME NEW i \in s..n, \A j \in s..n : i < j => j \in T
        PROVE  i \in T
    <2>1. i \in Nat /\ i <= n
      OBVIOUS
    <2>2. PICK f : i = n \/ IsSearch(f, code, i + 1, n)
      <3>1. CASE i = n
        BY <3>1
      <3>2. CASE i < n
        <4>1. i + 1 \in T
          BY <1>1, <3>2
        <4> QED
          BY <4>1
      <3> QED
        BY <2>1, <3>1, <3>2
    <2> DEFINE h == [x \in (i..n) \X Stats |->
                       IF x[1] = i THEN Step(f, code, n, x) ELSE f[x]]
    <2>3. ASSUME NEW j \in i..n, NEW t \in Stats
          PROVE  h[<<j, t>>] = IF j = i THEN Step(f, code, n, <<j, t>>) ELSE f[<<j, t>>]
      OBVIOUS
    <2>4. h = [x \in (i..n) \X Stats |-> h[x]]
      OBVIOUS
    <2> HIDE DEF h
    <2>5. ASSUME NEW j \in i..n, NEW t \in Stats
          PROVE  h[<<j, t>>] = Step(h, code, n, <<j, t>>)
      <3>1. j \in Nat /\ j <= n /\ j \in s..n
        OBVIOUS
      <3>2. Bytes(code, j, n)
        BY <3>1, BytesFrom
      <3>3. ASSUME NEW k \in (j + 1)..n, NEW u \in Stats
            PROVE  h[<<k, u>>] = f[<<k, u>>]
        <4>1. k \in i..n /\ k # i
          OBVIOUS
        <4> QED
          BY <2>3, <4>1
      <3>4. Step(h, code, n, <<j, t>>) = Step(f, code, n, <<j, t>>)
        BY ONLY <3>1, <3>2, <3>3, StepLooksAhead, t \in Stats, n \in Nat
      <3>5. CASE j = i
        BY <2>3, <3>4, <3>5
      <3>6. CASE j # i
        <4>1. i # n /\ j \in (i + 1)..n
          BY <3>6
        <4>2. IsSearch(f, code, i + 1, n)
          BY <2>2, <4>1
        <4>3. <<j, t>> \in ((i + 1)..n) \X Stats
          BY <4>1
        <4>4. f[<<j, t>>] = Step(f, code, n, <<j, t>>)
          BY <4>2, <4>3 DEF IsSearch
        <4> QED
          BY <2>3, <3>4, <3>6, <4>4
      <3> QED
        BY <3>5, <3>6
    <2>6. ASSUME NEW x \in (i..n) \X Stats
          PROVE  h[x] = Step(h, code, n, x)
      <3>1. x = <<x[1], x[2]>> /\ x[1] \in i..n /\ x[2] \in Stats
        OBVIOUS
      <3> QED
        BY <2>5, <3>1
    <2>7. IsSearch(h, code, i, n)
      BY <2>4, <2>6 DEF IsSearch
    <2> QED
      BY <2>7
  <1>2. s \in s..n
    OBVIOUS
  <1> HIDE DEF T
  <1>3. \A i \in s..n : i \in T
    BY <1>1, Downward
  <1> QED
    BY <1>2, <1>3 DEF T, Search

\* A longer search agrees with a shorter one where both are defined.
LEMMA SearchAgrees ==
    ASSUME NEW code, NEW s \in Nat, NEW n \in Nat, NEW r \in s..n, Bytes(code, s, n),
           NEW i \in r..n, NEW st \in Stats
    PROVE  Search(code, s, n)[<<i, st>>] = Search(code, r, n)[<<i, st>>]
  <1> DEFINE f == Search(code, s, n)
             g == Search(code, r, n)
             T == {k \in r..n : \A t \in Stats : f[<<k, t>>] = g[<<k, t>>]}
  <1>1. r \in Nat /\ r <= n /\ s <= n /\ Bytes(code, r, n)
    BY BytesFrom
  <1>2. IsSearch(f, code, s, n) /\ IsSearch(g, code, r, n)
    BY <1>1, SearchExists
  <1> HIDE DEF f, g
  <1>3. ASSUME NEW k \in r..n, \A j \in r..n : k < j => j \in T
        PROVE  k \in T
    <2>1. k \in Nat /\ k <= n /\ k \in s..n
      BY <1>1
    <2>2. Bytes(code, k, n)
      BY <2>1, BytesFrom
    <2>3. ASSUME NEW j \in (k + 1)..n, NEW t \in Stats
          PROVE  f[<<j, t>>] = g[<<j, t>>]
      <3>1. j \in r..n /\ k < j
        BY <1>1
      <3>2. j \in T
        BY <1>3, <3>1
      <3> QED
        BY <3>2
    <2>4. ASSUME NEW t \in Stats
          PROVE  f[<<k, t>>] = g[<<k, t>>]
      <3>1. Step(f, code, n, <<k, t>>) = Step(g, code, n, <<k, t>>)
        BY ONLY <2>1, <2>2, <2>3, StepLooksAhead, t \in Stats, n \in Nat
      <3>2. <<k, t>> \in (s..n) \X Stats /\ <<k, t>> \in (r..n) \X Stats
        BY <2>1
      <3> QED
        BY <1>2, <3>1, <3>2 DEF IsSearch
    <2> QED
      BY <2>4
  <1> HIDE DEF T
  <1>4. \A k \in r..n : k \in T
    BY <1>1, <1>3, Downward
  <1> QED
    BY <1>4 DEF T, f, g

\* What disassemble_code does at one position, in terms of a later one.
LEMMA WalkIs ==
    ASSUME NEW code, NEW i \in Nat, NEW n \in Nat, i <= n, Bytes(code, i, n), NEW st \in Stats
    PROVE  LET ins == Instruction(code, i, n)
           IN  /\ i = n => Walk(code, i, n, st) = [ret |-> "continue", end |-> n, stats |-> st]
               /\ i < n /\ ins.status = "crosses" =>
                    Walk(code, i, n, st) = [ret |-> "continue", end |-> i, stats |-> st]
               /\ i < n /\ ins.status = "undefined" =>
                    Walk(code, i, n, st) = [ret |-> "error", end |-> n, stats |-> st]
               /\ i < n /\ ins.status = "whole" /\ ins.type \in Transfers =>
                    Walk(code, i, n, st) =
                      [ret |-> "success", end |-> ins.end, stats |-> Count(st, "CONTROL")]
               /\ i < n /\ ins.status = "whole" /\ ins.type \notin Transfers =>
                    Walk(code, i, n, st) = Walk(code, ins.end, n, Count(st, ins.type))
  <1> DEFINE ins == Instruction(code, i, n)
             f == Search(code, i, n)
             t == Count(st, ins.type)
  <1>1. IsSearch(f, code, i, n)
    BY SearchExists
  <1>2. <<i, st>> \in (i..n) \X Stats /\ <<i, st>>[1] = i /\ <<i, st>>[2] = st
    OBVIOUS
  <1>3. i < n => /\ ins.status \in {"crosses", "undefined", "whole"}
                 /\ ins.status = "whole" => ins.end \in i..n
    BY InstructionIs
  <1>4. t \in Stats
    BY CountStats
  <1>5. i < n /\ ins.status = "whole" => f[<<ins.end, t>>] = Walk(code, ins.end, n, t)
    <2> SUFFICES ASSUME i < n, ins.status = "whole"
                 PROVE  f[<<ins.end, t>>] = Walk(code, ins.end, n, t)
      OBVIOUS
    <2> DEFINE e == ins.end
    <2>1. e \in i..n /\ e \in e..n
      BY <1>3
    <2> HIDE DEF e, t, ins, f
    <2>2. Search(code, i, n)[<<e, t>>] = Search(code, e, n)[<<e, t>>]
      BY <1>4, <2>1, SearchAgrees
    <2> QED
      BY <2>2 DEF Walk, f, e
  <1>6. f[<<i, st>>] = Step(f, code, n, <<i, st>>)
    BY <1>1, <1>2 DEF IsSearch
  <1>7. Walk(code, i, n, st) = f[<<i, st>>]
    BY DEF Walk
  <1> HIDE DEF ins, f, t
  <1>8. Walk(code, i, n, st) =
          IF i = n THEN [ret |-> "continue", end |-> n, stats |-> st]
          ELSE CASE ins.status = "crosses" ->
                      [ret |-> "continue", end |-> i, stats |-> st]
                 [] ins.status = "undefined" ->
                      [ret |-> "error", end |-> n, stats |-> st]
                 [] OTHER ->
                      IF ins.type \in Transfers
                        THEN [ret |-> "success", end |-> ins.end,
                              stats |-> Count(st, "CONTROL")]
                        ELSE f[<<ins.end, t>>]
    BY <1>2, <1>6, <1>7 DEF Step, ins, t
  <1> DEFINE w == Walk(code, i, n, st)
  <1>9. /\ i = n => w = [ret |-> "continue", end |-> n, stats |-> st]
        /\ i < n /\ ins.status = "crosses" => w = [ret |-> "continue", end |-> i, stats |-> st]
        /\ i < n /\ ins.status = "undefined" => w = [ret |-> "error", end |-> n, stats |-> st]
        /\ i < n /\ ins.status = "whole" /\ ins.type \in Transfers =>
             w = [ret |-> "success", end |-> ins.end, stats |-> Count(st, "CONTROL")]
        /\ i < n /\ ins.status = "whole" /\ ins.type \notin Transfers =>
             w = Walk(code, ins.end, n, t)
    <2> HIDE DEF w
    <2>1. i = n => w = [ret |-> "continue", end |-> n, stats |-> st]
      BY <1>8 DEF w
    <2>2. i < n /\ ins.status = "crosses" => w = [ret |-> "continue", end |-> i, stats |-> st]
      BY <1>8 DEF w
    <2>3. i < n /\ ins.status = "undefined" => w = [ret |-> "error", end |-> n, stats |-> st]
      BY <1>8 DEF w
    <2>4. i < n /\ ins.status = "whole" /\ ins.type \in Transfers =>
             w = [ret |-> "success", end |-> ins.end, stats |-> Count(st, "CONTROL")]
      BY <1>8 DEF w
    <2>5. i < n /\ ins.status = "whole" /\ ins.type \notin Transfers =>
             w = Walk(code, ins.end, n, t)
      BY <1>5, <1>8 DEF w
    <2> QED
      BY <2>1, <2>2, <2>3, <2>4, <2>5
  <1> QED
    BY <1>9 DEF ins, t

\* Where a search ends, and why it goes on.
LEMMA WalkEnds ==
    ASSUME NEW code, NEW s \in Nat, NEW n \in Nat, s <= n, Bytes(code, s, n), NEW st \in Stats
    PROVE  LET w == Walk(code, s, n, st)
           IN  /\ w.ret \in {"continue", "success", "error"} /\ w.end \in s..n
               /\ w.stats \in Stats
               /\ w.ret = "continue" /\ w.end < n =>
                    Instruction(code, w.end, n).status = "crosses"
  <1> DEFINE Good(w, i) ==
               /\ w.ret \in {"continue", "success", "error"} /\ w.end \in i..n
               /\ w.stats \in Stats
               /\ w.ret = "continue" /\ w.end < n =>
                    Instruction(code, w.end, n).status = "crosses"
             T == {i \in s..n : \A t \in Stats : Good(Walk(code, i, n, t), i)}
  <1>1. ASSUME NEW i \in s..n, \A j \in s..n : i < j => j \in T
        PROVE  i \in T
    <2>1. i \in Nat /\ i <= n /\ Bytes(code, i, n)
      BY BytesFrom
    <2>2. ASSUME NEW t \in Stats
          PROVE  Good(Walk(code, i, n, t), i)
      <3> DEFINE ins == Instruction(code, i, n)
                 w == Walk(code, i, n, t)
                 u == Count(t, ins.type)
                 c == Count(t, "CONTROL")
      <3>1. /\ i = n => w = [ret |-> "continue", end |-> n, stats |-> t]
            /\ i < n /\ ins.status = "crosses" =>
                 w = [ret |-> "continue", end |-> i, stats |-> t]
            /\ i < n /\ ins.status = "undefined" =>
                 w = [ret |-> "error", end |-> n, stats |-> t]
            /\ i < n /\ ins.status = "whole" /\ ins.type \in Transfers =>
                 w = [ret |-> "success", end |-> ins.end, stats |-> c]
            /\ i < n /\ ins.status = "whole" /\ ins.type \notin Transfers =>
                 w = Walk(code, ins.end, n, u)
        BY <2>1, WalkIs
      <3>2. u \in Stats /\ c \in Stats
        BY CountStats
      <3>3. i < n => /\ ins.status \in {"crosses", "undefined", "whole"}
                     /\ ins.status = "whole" =>
                          ins.end \in s..n /\ i < ins.end /\ ins.end \in i..n
        BY <2>1, InstructionIs
      <3>4. i < n /\ ins.status = "whole" => Good(Walk(code, ins.end, n, u), ins.end)
        <4> SUFFICES ASSUME i < n, ins.status = "whole"
                     PROVE  Good(Walk(code, ins.end, n, u), ins.end)
          OBVIOUS
        <4>1. ins.end \in T
          BY <1>1, <3>3
        <4> DEFINE e == ins.end
        <4> HIDE DEF ins, u, Good, e
        <4>2. e \in T
          BY <4>1 DEF e
        <4> QED
          BY <3>2, <4>2 DEF e
      <3>5. i \in i..n /\ n \in i..n
        BY <2>1
      <3>6. i < n /\ ins.status = "crosses" => Instruction(code, i, n).status = "crosses"
        OBVIOUS
      <3> HIDE DEF w, u, c, T
      <3> SUFFICES Good(w, i)
        BY DEF w
      <3>7. CASE i = n
        BY <3>1, <3>5, <3>7
      <3>8. CASE i < n /\ ins.status = "crosses"
        BY <3>1, <3>5, <3>6, <3>8
      <3> HIDE DEF ins
      <3>9. CASE i < n /\ ins.status = "undefined"
        BY <3>1, <3>5, <3>9
      <3>10. CASE i < n /\ ins.status = "whole" /\ ins.type \in Transfers
        BY <3>1, <3>2, <3>3, <3>10
      <3>11. CASE i < n /\ ins.status = "whole" /\ ins.type \notin Transfers
        <4>1. Good(w, ins.end)
          BY <3>1, <3>4, <3>11
        <4>2. \A x \in ins.end..n : x \in i..n
          BY <2>1, <3>3, <3>11
        <4> QED
          BY <4>1, <4>2
      <3>12. i = n \/ i < n
        BY <2>1
      <3> QED
        BY <3>3, <3>7, <3>8, <3>9, <3>10, <3>11, <3>12
    <2> HIDE DEF Good
    <2> QED
      BY <2>2
  <1>2. s \in s..n
    OBVIOUS
  <1> HIDE DEF T
  <1>3. \A i \in s..n : i \in T
    BY <1>1, Downward
  <1>4. s \in T
    BY <1>2, <1>3
  <1> QED
    BY <1>4 DEF T

\* The search of bytes that are at hand gives the same when more are.
LEMMA AgreeFrom ==
    ASSUME NEW code, NEW more, NEW s \in Nat, NEW n \in Nat, NEW i \in s..n,
           Agree(code, more, s, n)
    PROVE  Agree(code, more, i, n) /\ Agree(more, code, i, n)
  BY DEF Agree

LEMMA SameKind ==
    ASSUME NEW code, NEW more, NEW i \in Nat, NEW n \in Nat, i < n,
           Agree(code, more, i, n), Agree(more, code, i, n),
           Bytes(code, i, n), Bytes(more, i, n)
    PROVE  \/ Instruction(code, i, n) = Instruction(more, i, n)
           \/ /\ Instruction(code, i, n).status = "crosses"
              /\ Instruction(more, i, n).status = "crosses"
  <1>1. n <= n
    OBVIOUS
  <1>2. Instruction(code, i, n).status # "crosses" =>
          Instruction(more, i, n) = Instruction(code, i, n)
    BY <1>1, Stable
  <1>3. Instruction(more, i, n).status # "crosses" =>
          Instruction(code, i, n) = Instruction(more, i, n)
    BY <1>1, Stable
  <1> QED
    BY ONLY <1>2, <1>3

LEMMA WalkSame ==
    ASSUME NEW code, NEW more, NEW s \in Nat, NEW n \in Nat, s <= n,
           Agree(code, more, s, n), Bytes(code, s, n), Bytes(more, s, n), NEW st \in Stats
    PROVE  Walk(code, s, n, st) = Walk(more, s, n, st)
  <1> DEFINE T == {i \in s..n : \A t \in Stats : Walk(code, i, n, t) = Walk(more, i, n, t)}
  <1>1. ASSUME NEW i \in s..n, \A j \in s..n : i < j => j \in T
        PROVE  i \in T
    <2>1. /\ i \in Nat /\ i <= n /\ Bytes(code, i, n) /\ Bytes(more, i, n)
          /\ Agree(code, more, i, n) /\ Agree(more, code, i, n)
      BY BytesFrom, AgreeFrom
    <2>2. ASSUME NEW t \in Stats
          PROVE  Walk(code, i, n, t) = Walk(more, i, n, t)
      <3> DEFINE ins == Instruction(code, i, n)
                 oth == Instruction(more, i, n)
                 w == Walk(code, i, n, t)
                 v == Walk(more, i, n, t)
                 u == Count(t, ins.type)
      <3>1. /\ i = n => w = [ret |-> "continue", end |-> n, stats |-> t]
            /\ i < n /\ ins.status = "crosses" =>
                 w = [ret |-> "continue", end |-> i, stats |-> t]
            /\ i < n /\ ins.status = "undefined" =>
                 w = [ret |-> "error", end |-> n, stats |-> t]
            /\ i < n /\ ins.status = "whole" /\ ins.type \in Transfers =>
                 w = [ret |-> "success", end |-> ins.end, stats |-> Count(t, "CONTROL")]
            /\ i < n /\ ins.status = "whole" /\ ins.type \notin Transfers =>
                 w = Walk(code, ins.end, n, u)
        BY <2>1, WalkIs
      <3>2. /\ i = n => v = [ret |-> "continue", end |-> n, stats |-> t]
            /\ i < n /\ oth.status = "crosses" =>
                 v = [ret |-> "continue", end |-> i, stats |-> t]
            /\ i < n /\ oth.status = "undefined" =>
                 v = [ret |-> "error", end |-> n, stats |-> t]
            /\ i < n /\ oth.status = "whole" /\ oth.type \in Transfers =>
                 v = [ret |-> "success", end |-> oth.end, stats |-> Count(t, "CONTROL")]
            /\ i < n /\ oth.status = "whole" /\ oth.type \notin Transfers =>
                 v = Walk(more, oth.end, n, Count(t, oth.type))
        BY <2>1, WalkIs
      <3>3. i < n => \/ ins = oth
                     \/ ins.status = "crosses" /\ oth.status = "crosses"
        BY <2>1, SameKind
      <3>4. u \in Stats
        BY CountStats
      <3>5. i < n => /\ ins.status \in {"crosses", "undefined", "whole"}
                     /\ ins.status = "whole" => ins.end \in s..n /\ i < ins.end
        BY <2>1, InstructionIs
      <3>6. i < n /\ ins.status = "whole" => Walk(code, ins.end, n, u) = Walk(more, ins.end, n, u)
        <4> SUFFICES ASSUME i < n, ins.status = "whole"
                     PROVE  Walk(code, ins.end, n, u) = Walk(more, ins.end, n, u)
          OBVIOUS
        <4> DEFINE e == ins.end
        <4>1. e \in T
          BY <1>1, <3>5
        <4> HIDE DEF ins, u, e
        <4> QED
          BY <3>4, <4>1 DEF e
      <3>7. i = n \/ i < n
        BY <2>1
      <3> HIDE DEF ins, oth, w, v, T
      <3> SUFFICES w = v
        BY DEF w, v
      <3>8. CASE i = n
        BY <3>1, <3>2, <3>8
      <3>9. CASE i < n /\ ins.status = "crosses" /\ oth.status = "crosses"
        BY <3>1, <3>2, <3>9
      <3>10. CASE i < n /\ ins = oth
        <4>1. CASE ins.status = "crosses"
          BY <3>9, <3>10, <4>1
        <4>2. CASE ins.status = "undefined"
          BY <3>1, <3>2, <3>10, <4>2
        <4>3. CASE ins.status = "whole"
          BY <3>1, <3>2, <3>6, <3>10, <4>3
        <4> QED
          BY <3>5, <3>10, <4>1, <4>2, <4>3
      <3> QED
        BY <3>3, <3>7, <3>8, <3>9, <3>10
    <2> QED
      BY <2>2
  <1>2. s \in s..n
    OBVIOUS
  <1> HIDE DEF T
  <1>3. \A i \in s..n : i \in T
    BY <1>1, Downward
  <1> QED
    BY <1>2, <1>3 DEF T

\* A search that goes on, goes on as if it had never stopped: the search of
\* the longer stream is the same from the beginning and from where it stopped.
LEMMA WalkResumes ==
    ASSUME NEW code, NEW more, NEW s \in Nat, NEW n \in Nat, NEW m \in Nat, s <= n, n <= m,
           Agree(code, more, s, n), Bytes(code, s, n), Bytes(more, s, m), NEW st \in Stats,
           Walk(code, s, n, st).ret = "continue"
    PROVE  Walk(more, s, m, st) =
             Walk(more, Walk(code, s, n, st).end, m, Walk(code, s, n, st).stats)
  <1> DEFINE Good(w, i, t) == w.ret = "continue" =>
                                Walk(more, i, m, t) = Walk(more, w.end, m, w.stats)
             T == {i \in s..n : \A t \in Stats : Good(Walk(code, i, n, t), i, t)}
  <1>1. ASSUME NEW i \in s..n, \A j \in s..n : i < j => j \in T
        PROVE  i \in T
    <2>1. i \in Nat /\ i <= n /\ i <= m /\ i \in s..m
      OBVIOUS
    <2>2. Bytes(code, i, n) /\ Bytes(more, i, m) /\ Agree(code, more, i, n)
      BY <2>1, BytesFrom, AgreeFrom
    <2>3. ASSUME NEW t \in Stats
          PROVE  Good(Walk(code, i, n, t), i, t)
      <3> DEFINE ins == Instruction(code, i, n)
                 w == Walk(code, i, n, t)
                 u == Count(t, ins.type)
      <3>1. /\ i = n => w = [ret |-> "continue", end |-> n, stats |-> t]
            /\ i < n /\ ins.status = "crosses" =>
                 w = [ret |-> "continue", end |-> i, stats |-> t]
            /\ i < n /\ ins.status = "undefined" =>
                 w = [ret |-> "error", end |-> n, stats |-> t]
            /\ i < n /\ ins.status = "whole" /\ ins.type \in Transfers =>
                 w = [ret |-> "success", end |-> ins.end, stats |-> Count(t, "CONTROL")]
            /\ i < n /\ ins.status = "whole" /\ ins.type \notin Transfers =>
                 w = Walk(code, ins.end, n, u)
        BY <2>1, <2>2, WalkIs
      <3>2. u \in Stats
        BY CountStats
      <3>3. i < n => /\ ins.status \in {"crosses", "undefined", "whole"}
                     /\ ins.status = "whole" => ins.end \in s..n /\ i < ins.end
        BY <2>1, <2>2, InstructionIs
      <3>4. i < n /\ ins.status = "whole" =>
              Good(Walk(code, ins.end, n, u), ins.end, u)
        <4> SUFFICES ASSUME i < n, ins.status = "whole"
                     PROVE  Good(Walk(code, ins.end, n, u), ins.end, u)
          OBVIOUS
        <4> DEFINE e == ins.end
        <4>1. e \in T
          BY <1>1, <3>3
        <4> HIDE DEF ins, u, e, Good
        <4> QED
          BY <3>2, <4>1 DEF e
      <3>5. i < n /\ ins.status = "whole" /\ ins.type \notin Transfers =>
              Walk(more, i, m, t) = Walk(more, ins.end, m, u)
        <4> SUFFICES ASSUME i < n, ins.status = "whole", ins.type \notin Transfers
                     PROVE  Walk(more, i, m, t) = Walk(more, ins.end, m, u)
          OBVIOUS
        <4> DEFINE oth == Instruction(more, i, m)
        <4>1. i < m
          BY <2>1
        <4>2. oth = ins
          BY <2>1, <2>2, Stable
        <4>3. oth.status = "whole" /\ oth.type \notin Transfers =>
                Walk(more, i, m, t) = Walk(more, oth.end, m, Count(t, oth.type))
          BY <2>1, <2>2, <4>1, WalkIs
        <4> HIDE DEF ins, oth
        <4> QED
          BY <4>2, <4>3
      <3> HIDE DEF ins, w, u, T
      <3> SUFFICES Good(w, i, t)
        BY DEF w
      <3>6. CASE i = n
        BY <3>1, <3>6
      <3>7. CASE i < n /\ ins.status = "crosses"
        BY <3>1, <3>7
      <3>8. CASE i < n /\ ins.status = "undefined"
        BY <3>1, <3>8
      <3>9. CASE i < n /\ ins.status = "whole" /\ ins.type \in Transfers
        BY <3>1, <3>9
      <3>10. CASE i < n /\ ins.status = "whole" /\ ins.type \notin Transfers
        BY <3>1, <3>4, <3>5, <3>10
      <3>11. i = n \/ i < n
        BY <2>1
      <3> QED
        BY <3>3, <3>6, <3>7, <3>8, <3>9, <3>10, <3>11
    <2> HIDE DEF Good
    <2> QED
      BY <2>3
  <1>2. s \in s..n
    OBVIOUS
  <1> HIDE DEF T
  <1>3. \A i \in s..n : i \in T
    BY <1>1, Downward
  <1>4. s \in T
    BY <1>2, <1>3
  <1> QED
    BY <1>4 DEF T

-----------------------------------------------------------------------------
(* The search that is met piece by piece.                                  *)

\* What the search says before its first turn.
Fresh == seen = 0 => from = 1 /\ ret = "continue" /\ stats = NoCount

IInv == TypeOK /\ Fresh /\ CutAnywhere

LEMMA TextBytes ==
    ASSUME NEW t \in Seq(Byte), NEW s \in 1..(Len(t) + 1), NEW n \in 1..(Len(t) + 1)
    PROVE  Bytes(t, s, n)
  BY DEF Bytes

LEMMA TypeFacts ==
    ASSUME TypeOK
    PROVE  /\ text \in Seq(Byte) /\ Len(text) \in Nat /\ seen \in 0..Len(text)
           /\ from \in 1..(Len(text) + 1)
           /\ ret \in {"continue", "success", "error"} /\ stats \in Stats
  <1>1. text \in Seq(Byte)
    BY DEF TypeOK, Byte
  <1>2. Len(text) \in Nat
    BY <1>1
  <1>3. /\ seen \in 0..Len(text) /\ from \in 1..(Len(text) + 1)
        /\ ret \in {"continue", "success", "error"} /\ stats \in Stats
    BY DEF TypeOK, Stats
  <1> QED
    BY <1>1, <1>2, <1>3

LEMMA NoCountStats == NoCount \in Stats
  BY DEF NoCount, Stats

LEMMA InitIInv ==
    ASSUME Init
    PROVE  IInv
  <1>1. TypeOK
    <2>1. text \in Seq(0..255) /\ Len(text) = 0
      BY DEF Init
    <2> QED
      BY <2>1, NoCountStats DEF Init, TypeOK, Stats
  <1>2. Fresh /\ CutAnywhere
    BY DEF Init, Fresh, CutAnywhere
  <1> QED
    BY <1>1, <1>2 DEF IInv

\* Bytes are only ever appended.
LEMMA ArriveAppends ==
    ASSUME TypeOK, Arrive
    PROVE  /\ text' \in Seq(Byte) /\ Len(text) <= Len(text')
           /\ \A i \in 1..Len(text) : text'[i] = text[i]
  <1>1. text \in Seq(Byte) /\ Len(text) \in Nat
    BY TypeFacts
  <1>2. CASE Len(text) < Free
    <2>1. PICK b \in Alphabet : text' = Append(text, b)
      BY <1>2 DEF Arrive
    <2>2. b \in Byte
      BY SearchAssumption DEF Byte
    <2> QED
      BY <1>1, <2>1, <2>2
  <1>3. CASE ~(Len(text) < Free)
    <2> DEFINE more == [i \in 1..Piece |-> Filler]
    <2>1. text' = text \o more
      BY <1>3 DEF Arrive
    <2>2. Piece \in Nat /\ Filler \in Byte
      BY SearchAssumption DEF Byte
    <2>3. more \in Seq(Byte)
      BY <2>2
    <2> HIDE DEF more
    <2>4. /\ text \o more \in Seq(Byte) /\ Len(text \o more) = Len(text) + Len(more)
          /\ \A i \in 1..Len(text) : (text \o more)[i] = text[i]
      BY <1>1, <2>3, ConcatProperties
    <2>5. Len(more) \in Nat
      BY <2>3
    <2> QED
      BY <1>1, <2>1, <2>4, <2>5
  <1> QED
    BY <1>2, <1>3

LEMMA ArriveIInv ==
    ASSUME IInv, Arrive
    PROVE  IInv'
  <1>1. /\ text' \in Seq(Byte) /\ Len(text) <= Len(text')
        /\ \A i \in 1..Len(text) : text'[i] = text[i]
    BY ArriveAppends DEF IInv
  <1>2. UNCHANGED <<seen, from, ret, stats>>
    BY DEF Arrive
  <1>3. /\ text \in Seq(Byte) /\ Len(text) \in Nat /\ seen \in 0..Len(text)
        /\ from \in 1..(Len(text) + 1)
        /\ ret \in {"continue", "success", "error"} /\ stats \in Stats
    BY TypeFacts DEF IInv
  <1>4. TypeOK'
    <2>1. Len(text') \in Nat
      BY <1>1
    <2>2. seen \in 0..Len(text') /\ from \in 1..(Len(text') + 1)
      BY <1>1, <1>3, <2>1
    <2> QED
      BY <1>1, <1>2, <1>3, <2>2 DEF TypeOK, Byte, Stats
  <1>5. Fresh'
    BY <1>2 DEF IInv, Fresh
  <1>6. CutAnywhere'
    <2>1. CASE seen = 0
      BY <1>2, <2>1 DEF CutAnywhere
    <2>2. CASE seen > 0
      <3> DEFINE n == seen + 1
                 old == disassemble_code(text, 1, n, NoCount)
                 new == disassemble_code(text', 1, n, NoCount)
      <3>1. n \in Nat /\ 1 < n /\ 1 <= n /\ n \in 1..(Len(text) + 1)
        BY <1>3, <2>2
      <3>2. n \in 1..(Len(text') + 1) /\ Len(text') \in Nat /\ 1 \in 1..(Len(text') + 1)
            /\ 1 \in 1..(Len(text) + 1)
        BY <1>1, <1>3, <3>1
      <3>3. Agree(text, text', 1, n)
        <4>1. ASSUME NEW i \in 1..n, i < n
              PROVE  text[i] = text'[i]
          <5>1. i \in 1..Len(text)
            BY <1>3, <3>1, <4>1
          <5> QED
            BY <1>1, <5>1
        <4> QED
          BY <4>1 DEF Agree
      <3>4. Bytes(text, 1, n) /\ Bytes(text', 1, n)
        BY <1>1, <1>3, <3>1, <3>2, TextBytes
      <3> HIDE DEF n
      <3>5. Walk(text, 1, n, NoCount) = Walk(text', 1, n, NoCount)
        BY <3>1, <3>3, <3>4, NoCountStats, WalkSame
      <3>6. old = new
        BY <3>1, <3>5, DisassembleIs
      <3>7. <<ret, from, stats>> = <<old.ret, old.end, old.stats>>
        BY <2>2 DEF IInv, CutAnywhere, n
      <3> HIDE DEF old, new
      <3>8. <<ret', from', stats'>> = <<new.ret, new.end, new.stats>>
        BY <1>2, <3>6, <3>7
      <3>9. n' = n
        BY <1>2 DEF n
      <3> QED
        BY <1>2, <3>8 DEF CutAnywhere, new, n
    <2> QED
      BY <1>3, <2>1, <2>2
  <1> QED
    BY <1>4, <1>5, <1>6 DEF IInv

LEMMA TurnIInv ==
    ASSUME IInv, Turn
    PROVE  IInv'
  <1> DEFINE m == Len(text) + 1
             n == seen + 1
             r == disassemble_code(text, from, m, stats)
             all == disassemble_code(text, 1, m, NoCount)
  <1>1. /\ text \in Seq(Byte) /\ Len(text) \in Nat /\ seen \in 0..Len(text)
        /\ from \in 1..(Len(text) + 1) /\ stats \in Stats
    BY TypeFacts DEF IInv
  <1>2. /\ ret = "continue" /\ seen < Len(text) /\ seen' = Len(text) /\ text' = text
        /\ ret' = r.ret /\ from' = r.end /\ stats' = r.stats
    BY DEF Turn
  <1>3. m \in Nat /\ n \in Nat /\ n < m /\ 1 < m /\ 1 <= n /\ 1 \in Nat /\ 1 <= m /\ n <= m
        /\ m \in 1..(Len(text) + 1) /\ 1 \in 1..(Len(text) + 1)
    BY <1>1, <1>2
  <1>4. /\ from \in 1..n
        /\ n <= m /\ seen > 0 => /\ Walk(text, 1, n, NoCount).ret = "continue"
                                 /\ Walk(text, 1, n, NoCount).end = from
                                 /\ Walk(text, 1, n, NoCount).stats = stats
    <2>1. CASE seen = 0
      BY <1>1, <2>1 DEF IInv, Fresh
    <2>2. CASE seen > 0
      <3> DEFINE old == disassemble_code(text, 1, n, NoCount)
      <3>1. <<ret, from, stats>> = <<old.ret, old.end, old.stats>>
        BY <2>2 DEF IInv, CutAnywhere
      <3>2. 1 < n /\ n \in 1..(Len(text) + 1)
        BY <1>1, <2>2
      <3>3. old = Walk(text, 1, n, NoCount)
        BY <1>3, <3>2, DisassembleIs
      <3>4. Bytes(text, 1, n)
        BY <1>1, <1>3, <3>2, TextBytes
      <3> HIDE DEF n, old
      <3>5. Walk(text, 1, n, NoCount).end \in 1..n
        BY <1>3, <3>4, NoCountStats, WalkEnds
      <3> QED
        BY <1>2, <3>1, <3>3, <3>5
    <2> QED
      BY <1>1, <2>1, <2>2
  <1>5. from \in Nat /\ from < m /\ from <= m
    BY <1>3, <1>4
  <1>6. Bytes(text, from, m) /\ Bytes(text, 1, m)
    BY <1>1, <1>3, TextBytes
  <1>7. r = Walk(text, from, m, stats) /\ all = Walk(text, 1, m, NoCount)
    BY <1>3, <1>5, DisassembleIs
  <1>8. r = all
    <2>1. CASE seen = 0
      BY <2>1 DEF IInv, Fresh
    <2>2. CASE seen > 0
      <3>1. n \in 1..(Len(text) + 1)
        BY <1>1
      <3>2. Bytes(text, 1, n) /\ Agree(text, text, 1, n)
        BY <1>1, <1>3, <3>1, TextBytes DEF Agree
      <3> DEFINE w == Walk(text, 1, n, NoCount)
      <3> HIDE DEF n, m, r, all
      <3>3. w.ret = "continue" /\ w.end = from /\ w.stats = stats
        BY <1>3, <1>4, <2>2
      <3>4. Walk(text, 1, m, NoCount) = Walk(text, w.end, m, w.stats)
        BY <1>3, <1>6, <3>2, <3>3, NoCountStats, WalkResumes
      <3> QED
        BY <1>7, <3>3, <3>4
    <2> QED
      BY <1>1, <2>1, <2>2
  <1>9. /\ r.ret \in {"continue", "success", "error"} /\ r.end \in from..m
        /\ r.stats \in Stats
    <2> HIDE DEF m, r
    <2> QED
      BY <1>1, <1>5, <1>6, <1>7, WalkEnds DEF m
  <1> HIDE DEF r, all
  <1>10. TypeOK'
    <2>1. r.end \in 1..(Len(text) + 1)
      BY <1>1, <1>9
    <2>2. text' \in Seq(0..255) /\ seen' \in 0..Len(text')
      BY <1>1, <1>2 DEF Byte
    <2> QED
      BY <1>2, <1>9, <2>1, <2>2 DEF TypeOK, Stats
  <1>11. Fresh'
    BY <1>1, <1>2 DEF Fresh
  <1>12. CutAnywhere'
    <2>1. <<ret', from', stats'>> = <<all.ret, all.end, all.stats>>
      BY <1>2, <1>8
    <2>2. all = disassemble_code(text', 1, seen' + 1, NoCount)
      BY <1>2 DEF all
    <2> QED
      BY <2>1, <2>2 DEF CutAnywhere
  <1> QED
    BY <1>10, <1>11, <1>12 DEF IInv

LEMMA StutterIInv ==
    ASSUME IInv, UNCHANGED vars
    PROVE  IInv'
  BY DEF IInv, TypeOK, Fresh, CutAnywhere, vars

\* The inductive invariant, of which the invariants below are parts.
LEMMA InductiveInvariant == Spec => []IInv
  <1>1. Init => IInv
    BY InitIInv
  <1>2. IInv /\ [Next]_vars => IInv'
    <2> SUFFICES ASSUME IInv, [Next]_vars PROVE IInv'
      OBVIOUS
    <2>1. CASE Arrive
      BY <2>1, ArriveIInv
    <2>2. CASE Turn
      BY <2>2, TurnIInv
    <2>3. CASE UNCHANGED vars
      BY <2>3, StutterIInv
    <2> QED
      BY <2>1, <2>2, <2>3 DEF Next
  <1> QED
    BY <1>1, <1>2, PTL DEF Spec

\* The positions, counters and answers of a search are what they are declared
\* to be: no counter of struct stats leaves its byte, and end_offset stays in
\* the zone or at its end.
THEOREM TypeCorrect == Spec => []TypeOK
  <1>1. IInv => TypeOK
    BY DEF IInv
  <1> QED
    BY <1>1, InductiveInvariant, PTL

\* Whatever the bytes of a stream are and wherever the borders of its pages
\* fall, the turns of sig_handler's loop (fprober_sig_handler.c:363-427) answer
\* what one disassemble_code of all of it answers: the same end, the same
\* verdict and the same counters.
THEOREM CutsDoNotMatter == Spec => []CutAnywhere
  <1>1. IInv => CutAnywhere
    BY DEF IInv
  <1> QED
    BY <1>1, InductiveInvariant, PTL

-----------------------------------------------------------------------------
(* The instruction that crosses a border.                                  *)

\* Boundaries' function.
Begin(f, code, n, i) ==
    IF i = n THEN {}
    ELSE {i} \cup IF Instruction(code, i, n).status = "whole"
                    THEN {Instruction(code, i, n).end} \cup
                         (IF Instruction(code, i, n).end < n
                            THEN f[Instruction(code, i, n).end] ELSE {})
                    ELSE {}

IsBegins(f, code, s, n) == f = [i \in s..n |-> Begin(f, code, n, i)]
Begins(code, s, n) == CHOOSE f : IsBegins(f, code, s, n)

LEMMA BoundariesIs ==
    ASSUME NEW code, NEW s, NEW n
    PROVE  Boundaries(code, s, n) = Begins(code, s, n)[s]
  BY Zenon DEF Boundaries, Begins, IsBegins, Begin

LEMMA BeginLooksAhead ==
    ASSUME NEW code, NEW n \in Nat, NEW i \in Nat, i <= n, Bytes(code, i, n), NEW f, NEW g,
           \A j \in (i + 1)..n : f[j] = g[j]
    PROVE  Begin(f, code, n, i) = Begin(g, code, n, i)
  <1> DEFINE ins == Instruction(code, i, n)
  <1>1. CASE i = n
    BY <1>1 DEF Begin
  <1>2. CASE i < n
    <2>1. ins.status = "whole" => ins.end \in (i + 1)..n
      BY <1>2, InstructionIs
    <2> HIDE DEF ins
    <2>2. ins.status = "whole" => f[ins.end] = g[ins.end]
      BY <2>1
    <2> QED
      BY <2>2 DEF Begin, ins
  <1> QED
    BY <1>1, <1>2

LEMMA BeginsExists ==
    ASSUME NEW code, NEW s \in Nat, NEW n \in Nat, s <= n, Bytes(code, s, n)
    PROVE  IsBegins(Begins(code, s, n), code, s, n)
  <1> DEFINE T == {i \in s..n : \E f : IsBegins(f, code, i, n)}
  <1>1. ASSUME NEW i \in s..n, \A j \in s..n : i < j => j \in T
        PROVE  i \in T
    <2>1. i \in Nat /\ i <= n
      OBVIOUS
    <2>2. PICK f : i = n \/ IsBegins(f, code, i + 1, n)
      <3>1. CASE i = n
        BY <3>1
      <3>2. CASE i < n
        <4>1. i + 1 \in T
          BY <1>1, <3>2
        <4> QED
          BY <4>1
      <3> QED
        BY <2>1, <3>1, <3>2
    <2> DEFINE h == [j \in i..n |-> IF j = i THEN Begin(f, code, n, i) ELSE f[j]]
    <2>3. ASSUME NEW j \in i..n
          PROVE  h[j] = IF j = i THEN Begin(f, code, n, i) ELSE f[j]
      OBVIOUS
    <2>4. h = [j \in i..n |-> h[j]]
      OBVIOUS
    <2> HIDE DEF h
    <2>5. ASSUME NEW j \in i..n
          PROVE  h[j] = Begin(h, code, n, j)
      <3>1. j \in Nat /\ j <= n /\ j \in s..n
        OBVIOUS
      <3>2. Bytes(code, j, n)
        BY <3>1, BytesFrom
      <3>3. ASSUME NEW k \in (j + 1)..n
            PROVE  h[k] = f[k]
        <4>1. k \in i..n /\ k # i
          OBVIOUS
        <4> QED
          BY <2>3, <4>1
      <3>4. Begin(h, code, n, j) = Begin(f, code, n, j)
        BY ONLY <3>1, <3>2, <3>3, BeginLooksAhead, n \in Nat
      <3>5. CASE j = i
        BY <2>3, <3>4, <3>5
      <3>6. CASE j # i
        <4>1. i # n /\ j \in (i + 1)..n
          BY <3>6
        <4>2. IsBegins(f, code, i + 1, n)
          BY <2>2, <4>1
        <4>3. f[j] = Begin(f, code, n, j)
          BY <4>1, <4>2 DEF IsBegins
        <4> QED
          BY <2>3, <3>4, <3>6, <4>3
      <3> QED
        BY <3>5, <3>6
    <2>6. IsBegins(h, code, i, n)
      BY <2>4, <2>5 DEF IsBegins
    <2> QED
      BY <2>6
  <1>2. s \in s..n
    OBVIOUS
  <1> HIDE DEF T
  <1>3. \A i \in s..n : i \in T
    BY <1>1, Downward
  <1> QED
    BY <1>2, <1>3 DEF T, Begins

\* A search without an error ends where an instruction of the longer stream
\* begins.
LEMMA EndsAtBoundary ==
    ASSUME NEW code, NEW s \in Nat, NEW m \in Nat, NEW n \in Nat, s < m, m <= n,
           Bytes(code, s, n), NEW st \in Stats, Walk(code, s, m, st).ret # "error"
    PROVE  Walk(code, s, m, st).end \in Boundaries(code, s, n)
  <1> DEFINE f == Begins(code, s, n)
             Good(i, t) == i < m => Walk(code, i, m, t).ret = "error" \/
                                    Walk(code, i, m, t).end \in f[i]
             T == {i \in s..m : \A t \in Stats : Good(i, t)}
  <1>1. s <= n /\ s \in s..m /\ IsBegins(f, code, s, n)
    BY BeginsExists
  <1>2. \A i \in s..n : f[i] = Begin(f, code, n, i)
    BY <1>1 DEF IsBegins
  <1> HIDE DEF f
  <1>3. ASSUME NEW i \in s..m, \A j \in s..m : i < j => j \in T
        PROVE  i \in T
    <2>1. /\ i \in Nat /\ i \in s..n /\ i <= m
          /\ Bytes(code, i, n) /\ Bytes(code, i, m) /\ Agree(code, code, i, m)
      BY DEF Bytes, Agree
    <2>2. ASSUME NEW t \in Stats
          PROVE  Good(i, t)
      <3> SUFFICES ASSUME i < m, Walk(code, i, m, t).ret # "error"
                   PROVE  Walk(code, i, m, t).end \in f[i]
        OBVIOUS
      <3> DEFINE ins == Instruction(code, i, m)
                 oth == Instruction(code, i, n)
                 w == Walk(code, i, m, t)
                 u == Count(t, ins.type)
      <3>1. /\ ins.status = "crosses" =>
                 w = [ret |-> "continue", end |-> i, stats |-> t]
            /\ ins.status = "undefined" =>
                 w = [ret |-> "error", end |-> m, stats |-> t]
            /\ ins.status = "whole" /\ ins.type \in Transfers =>
                 w = [ret |-> "success", end |-> ins.end, stats |-> Count(t, "CONTROL")]
            /\ ins.status = "whole" /\ ins.type \notin Transfers =>
                 w = Walk(code, ins.end, m, u)
        BY <2>1, WalkIs
      <3>2. u \in Stats
        BY CountStats
      <3>3. /\ ins.status \in {"crosses", "undefined", "whole"}
            /\ ins.status = "whole" => ins.end \in s..m /\ i < ins.end
        BY <2>1, InstructionIs
      <3>4. ins.status = "whole" => oth = ins
        BY <2>1, Stable
      <3>5. f[i] = Begin(f, code, n, i) /\ i # n
        BY <1>2, <2>1
      <3>6. /\ i \in f[i]
            /\ oth.status = "whole" => /\ oth.end \in f[i]
                                       /\ oth.end < n => \A x \in f[oth.end] : x \in f[i]
        BY <3>5 DEF Begin
      <3>7. ins.status = "whole" => Good(ins.end, u)
        <4> SUFFICES ASSUME ins.status = "whole" PROVE Good(ins.end, u)
          OBVIOUS
        <4> DEFINE e == ins.end
        <4>1. e \in T
          BY <1>3, <3>3
        <4> HIDE DEF ins, u, e, Good
        <4> QED
          BY <3>2, <4>1 DEF e
      <3>8. ins.status = "whole" /\ ins.end = m =>
              Walk(code, ins.end, m, u) = [ret |-> "continue", end |-> m, stats |-> u]
        <4> SUFFICES ASSUME ins.status = "whole", ins.end = m
                     PROVE  Walk(code, m, m, u) = [ret |-> "continue", end |-> m, stats |-> u]
          OBVIOUS
        <4>1. Bytes(code, m, m) /\ m <= m
          BY DEF Bytes
        <4> HIDE DEF u
        <4> QED
          BY <3>2, <4>1, WalkIs
      <3>9. w.ret # "error"
        OBVIOUS
      <3> SUFFICES w.end \in f[i]
        BY DEF w
      <3> HIDE DEF ins, oth, w, u, T
      <3>10. CASE ins.status = "crosses"
        BY <3>1, <3>6, <3>10
      <3>11. CASE ins.status = "undefined"
        BY <3>1, <3>9, <3>11
      <3>12. CASE ins.status = "whole" /\ ins.type \in Transfers
        BY <3>1, <3>4, <3>6, <3>12
      <3>13. CASE ins.status = "whole" /\ ins.type \notin Transfers
        <4>1. w = Walk(code, ins.end, m, u) /\ oth = ins
          BY <3>1, <3>4, <3>13
        <4>2. CASE ins.end = m
          <5>1. w.end = ins.end
            BY <3>8, <3>13, <4>1, <4>2
          <5> QED
            BY <3>6, <3>13, <4>1, <5>1
        <4>3. CASE ins.end < m
          <5>1. w.end \in f[ins.end]
            BY <3>7, <3>9, <3>13, <4>1, <4>3
          <5>2. ins.end < n
            BY <3>3, <3>13, <4>3
          <5> QED
            BY <3>6, <3>13, <4>1, <5>1, <5>2
        <4> QED
          BY <3>3, <3>13, <4>2, <4>3
      <3> QED
        BY <3>3, <3>10, <3>11, <3>12, <3>13
    <2> HIDE DEF Good
    <2> QED
      BY <2>2
  <1> HIDE DEF T
  <1>4. \A i \in s..m : i \in T
    BY <1>3, Downward
  <1>5. s \in T
    BY <1>1, <1>4
  <1>6. Walk(code, s, m, st).end \in f[s]
    BY <1>5 DEF T
  <1> QED
    BY <1>6, BoundariesIs DEF f

LEMMA CrossingFound ==
    ASSUME TypeOK, CutAnywhere
    PROVE  CrossingResumes
  <1> DEFINE n == seen + 1
             m == from + MAX_INSTRUCTION_SIZE
             all == Len(text) + 1
             r == disassemble_code(text, from, m, NoCount)
             found == handle_cross_page(text, from)
  <1> SUFFICES ASSUME ret = "continue", from <= seen, m <= all, found # 0
               PROVE  found > seen /\ found \in Boundaries(text, from, all)
    BY DEF CrossingResumes
  <1>1. /\ text \in Seq(Byte) /\ Len(text) \in Nat /\ seen \in 0..Len(text)
        /\ from \in 1..(Len(text) + 1) /\ stats \in Stats
    BY TypeFacts
  <1>2. /\ n \in Nat /\ m \in Nat /\ all \in Nat /\ from \in Nat /\ from < n /\ from < m
        /\ from <= m /\ m <= all /\ 1 < n /\ 1 <= n /\ 1 \in Nat /\ seen > 0
        /\ n \in 1..(Len(text) + 1) /\ m \in 1..(Len(text) + 1) /\ 1 \in 1..(Len(text) + 1)
        /\ all \in 1..(Len(text) + 1)
    BY <1>1 DEF MAX_INSTRUCTION_SIZE
  <1>3. r.ret # "error" /\ r.end > from /\ found = r.end
    <2>1. from \in Nat /\ r.end \in Int
      <3>1. r = Walk(text, from, m, NoCount)
        BY <1>2, DisassembleIs
      <3>2. Bytes(text, from, m)
        BY <1>1, <1>2, TextBytes
      <3> HIDE DEF m, r
      <3>3. r.end \in from..m
        BY <1>2, <3>1, <3>2, NoCountStats, WalkEnds
      <3> QED
        BY <1>2, <3>3
    <2>2. found = IF r.ret = "error" \/ r.end <= from THEN 0 ELSE r.end
      BY DEF handle_cross_page
    <2> HIDE DEF r, found
    <2>3. found # 0
      BY DEF found
    <2> QED
      BY <2>1, <2>2, <2>3
  <1>4. /\ Bytes(text, from, n) /\ Bytes(text, from, m) /\ Bytes(text, from, all)
        /\ Bytes(text, 1, n)
        /\ Agree(text, text, from, n) /\ Agree(text, text, from, m)
    BY <1>1, <1>2, TextBytes DEF Agree
  <1>5. Instruction(text, from, n).status = "crosses"
    <2> DEFINE whole == disassemble_code(text, 1, n, NoCount)
    <2>1. <<ret, from, stats>> = <<whole.ret, whole.end, whole.stats>>
      BY <1>2 DEF CutAnywhere
    <2>2. whole = Walk(text, 1, n, NoCount)
      BY <1>2, DisassembleIs
    <2> HIDE DEF n, whole
    <2>3. whole.ret = "continue" /\ whole.end = from /\ whole.end < n
      BY <1>2, <2>1
    <2> QED
      BY <1>2, <1>4, <2>2, <2>3, NoCountStats, WalkEnds
  <1>6. r = Walk(text, from, m, NoCount)
    BY <1>2, DisassembleIs
  <1> HIDE DEF n, m, all, r, found
  <1> DEFINE ins == Instruction(text, from, m)
  <1>7. ins.status = "whole"
    <2>1. ins.status # "crosses"
      BY <1>2, <1>3, <1>4, <1>6, NoCountStats, WalkIs
    <2>2. ins.status # "undefined"
      BY <1>2, <1>3, <1>4, <1>6, NoCountStats, WalkIs
    <2> QED
      BY <1>2, <1>4, <2>1, <2>2, InstructionIs
  <1>8. ins.end > n /\ ins.end \in Nat /\ ins.end <= m
    <2>1. ins.end \in Nat /\ ins.end <= m
      BY <1>2, <1>4, <1>7, InstructionIs
    <2>2. CASE m <= n
      <3> DEFINE other == Instruction(text, from, n)
      <3>1. from \in Nat /\ m \in Nat /\ n \in Nat /\ from < m
        BY <1>2
      <3>2. ins.status # "crosses" => other = ins
        BY ONLY <1>4, <2>2, <3>1, Stable
      <3> QED
        BY <1>5, <1>7, <3>2
    <2>3. CASE n <= m
      <3>1. ins.status = "whole" /\ ins.end <= n => Instruction(text, from, n) = ins
        BY <1>2, <1>4, <2>3, Stable
      <3> HIDE DEF ins
      <3>2. ~(ins.end <= n)
        BY <1>5, <1>7, <3>1
      <3> QED
        BY <1>2, <2>1, <3>2
    <2> QED
      BY <1>2, <2>2, <2>3
  <1>9. r.end >= ins.end /\ r.end \in Nat
    <2>1. CASE ins.type \in Transfers
      <3>1. r = [ret |-> "success", end |-> ins.end, stats |-> Count(NoCount, "CONTROL")]
        BY <1>2, <1>4, <1>6, <1>7, <2>1, NoCountStats, WalkIs
      <3> QED
        BY <1>8, <3>1
    <2>2. CASE ins.type \notin Transfers
      <3> DEFINE u == Count(NoCount, ins.type)
      <3>1. r = Walk(text, ins.end, m, u)
        BY <1>2, <1>4, <1>6, <1>7, <2>2, NoCountStats, WalkIs
      <3>2. u \in Stats
        BY NoCountStats, CountStats
      <3>3. ins.end \in from..m
        BY <1>2, <1>7, <1>4, InstructionIs
      <3>4. Bytes(text, ins.end, m)
        BY <1>2, <1>4, <3>3, BytesFrom
      <3> HIDE DEF ins, u
      <3>5. r.end \in ins.end..m
        BY <1>2, <1>8, <3>1, <3>2, <3>4, WalkEnds
      <3> QED
        BY <1>2, <1>8, <3>5
    <2> QED
      BY <2>1, <2>2
  <1>10. found > seen
    <2>1. n = seen + 1 /\ seen \in Nat
      BY <1>1 DEF n
    <2> HIDE DEF ins
    <2> QED
      BY <1>2, <1>3, <1>8, <1>9, <2>1
  <1>11. found \in Boundaries(text, from, all)
    BY <1>2, <1>3, <1>4, <1>6, NoCountStats, EndsAtBoundary
  <1> QED
    BY <1>10, <1>11

\* For every stream, an instruction that crosses the end of what was covered is
\* resumed by handle_cross_page (fprober_invalid_op.c:33-80) at a byte after
\* that end where an instruction of the stream begins, or not at all.
THEOREM ResumesAtAnInstruction == Spec => []CrossingResumes
  <1>1. IInv => CrossingResumes
    BY CrossingFound DEF IInv
  <1> QED
    BY <1>1, InductiveInvariant, PTL

-----------------------------------------------------------------------------
(* The instructions without a ModRM byte, of which InstrStream is made.    *)

LEMMA ShortIs ==
    ASSUME NEW b \in ShortBytes
    PROVE  /\ b \in Byte /\ ~Plain(b) /\ b \notin {\h62, \hC4, \hC5, \h0F}
           /\ b \notin modrm_t /\ b \notin data2_t /\ b \notin data66_t
           /\ b \notin {\hA0, \hA3, \hF6, \hF7}
  <1>1. /\ b \in Byte /\ b \notin prefix_t /\ ~(\h40 <= b /\ b <= \h4F) /\ b # \h0F
        /\ b \notin modrm_t /\ b \notin data2_t /\ b \notin data66_t
        /\ b \notin {\hA0, \hA3, \hF6, \hF7}
    BY DEF ShortBytes, Byte
  <1>2. \h62 \in prefix_t /\ \hC4 \in prefix_t /\ \hC5 \in prefix_t
    BY DEF prefix_t
  <1>3. b \div 16 # 4
    BY <1>1 DEF Byte
  <1>4. ~Plain(b)
    BY <1>1, <1>3 DEF Plain, CHECK_REX
  <1> QED
    BY <1>1, <1>2, <1>4

\* The tables of one-byte instruction types.
Tables ==
    << <<one_byte_arith_t, "ARITHMETIC">>, <<one_byte_control_t, "CONTROL">>,
       <<one_byte_logical_t, "LOGICAL">>, <<one_byte_memory_t, "MEMORY">>,
       <<one_byte_system_t, "SYSTEM">>, <<one_byte_jcc_t, "JCC">>,
       <<one_byte_jmp_t, "JMP">>, <<one_byte_call_t, "CALL">>,
       <<one_byte_ret_t, "RET">> >>

ShortTransfers ==
    (one_byte_jcc_t \cup one_byte_jmp_t \cup one_byte_call_t \cup one_byte_ret_t)
      \cap ShortBytes

\* No byte of theirs is a control transfer and something else.
LEMMA TransferOnly ==
    ASSUME NEW b \in ShortTransfers
    PROVE  /\ b \notin one_byte_arith_t /\ b \notin one_byte_control_t
           /\ b \notin one_byte_logical_t /\ b \notin one_byte_memory_t
           /\ b \notin one_byte_system_t
  <1>1. b \in (\h70..\h7F) \cup {\hE3, \hEB, \hC3, \hCB, \hCF}
    <2>1. b \notin {\hE9, \hE8, \hFF, \hC2, \hCA}
      <3>1. b \in ShortBytes
        BY DEF ShortTransfers
      <3>2. /\ \hE9 \in data66_t /\ \hE8 \in data66_t /\ \hFF \in modrm_t
            /\ \hC2 \in data2_t /\ \hCA \in data2_t
        BY DEF data66_t, modrm_t, data2_t
      <3> QED
        BY <3>1, <3>2, ShortIs
    <2>2. b \in one_byte_jcc_t \cup one_byte_jmp_t \cup one_byte_call_t \cup one_byte_ret_t
      BY DEF ShortTransfers
    <2> QED
      BY <2>1, <2>2 DEF one_byte_jcc_t, one_byte_jmp_t, one_byte_call_t, one_byte_ret_t
  <1>2. b \notin one_byte_arith_t
    BY <1>1 DEF one_byte_arith_t
  <1>3. b \notin one_byte_control_t
    BY <1>1 DEF one_byte_control_t
  <1>4. b \notin one_byte_logical_t
    BY <1>1 DEF one_byte_logical_t
  <1>5. b \notin one_byte_memory_t
    BY <1>1 DEF one_byte_memory_t
  <1>6. b \notin one_byte_system_t
    BY <1>1 DEF one_byte_system_t
  <1> QED
    BY <1>2, <1>3, <1>4, <1>5, <1>6

LEMMA ShortType ==
    ASSUME NEW b \in ShortBytes
    PROVE  OpcodeType("legacy", 0, b) \in Transfers <=> b \in ShortTransfers
  <1> DEFINE hits == {i \in DOMAIN Tables : b \in Tables[i][1]}
             type == OpcodeType("legacy", 0, b)
  <1>1. type = IF hits = {} THEN "OTHER" ELSE Tables[Min(hits)][2]
    <2>1. type = FirstIn(b, Tables)
      BY DEF OpcodeType, Tables
    <2> QED
      BY <2>1, Zenon DEF FirstIn
  <1>2. DOMAIN Tables = 1..9
    BY DEF Tables
  <1>3. /\ Tables[1] = <<one_byte_arith_t, "ARITHMETIC">>
        /\ Tables[2] = <<one_byte_control_t, "CONTROL">>
        /\ Tables[3] = <<one_byte_logical_t, "LOGICAL">>
        /\ Tables[4] = <<one_byte_memory_t, "MEMORY">>
        /\ Tables[5] = <<one_byte_system_t, "SYSTEM">>
        /\ Tables[6] = <<one_byte_jcc_t, "JCC">>
        /\ Tables[7] = <<one_byte_jmp_t, "JMP">>
        /\ Tables[8] = <<one_byte_call_t, "CALL">>
        /\ Tables[9] = <<one_byte_ret_t, "RET">>
    BY DEF Tables
  <1>4. hits \in SUBSET Nat /\ \A i \in hits : i \in 1..9 /\ b \in Tables[i][1]
    BY <1>2
  <1> DEFINE k == Min(hits)
  <1>5. hits # {} => k \in hits
    <2> HIDE DEF hits
    <2> QED
      BY <1>4, MinNumber
  <1>6. /\ 6 \in hits <=> b \in one_byte_jcc_t
        /\ 7 \in hits <=> b \in one_byte_jmp_t
        /\ 8 \in hits <=> b \in one_byte_call_t
        /\ 9 \in hits <=> b \in one_byte_ret_t
        /\ 1 \in hits <=> b \in one_byte_arith_t
        /\ 2 \in hits <=> b \in one_byte_control_t
        /\ 3 \in hits <=> b \in one_byte_logical_t
        /\ 4 \in hits <=> b \in one_byte_memory_t
        /\ 5 \in hits <=> b \in one_byte_system_t
    BY <1>2, <1>3
  <1>7. b \in ShortTransfers <=>
          b \in one_byte_jcc_t \/ b \in one_byte_jmp_t \/ b \in one_byte_call_t
            \/ b \in one_byte_ret_t
    BY DEF ShortTransfers
  <1>8. \A i \in 1..9 : Tables[i][2] \in Transfers <=> i \in 6..9
    BY <1>3 DEF Transfers
  <1> HIDE DEF hits, k, type
  <1>9. CASE b \in ShortTransfers
    <2>1. hits # {} /\ k \in hits
      BY <1>5, <1>6, <1>7, <1>9
    <2>2. 1 \notin hits /\ 2 \notin hits /\ 3 \notin hits /\ 4 \notin hits /\ 5 \notin hits
      BY <1>6, <1>9, TransferOnly
    <2>3. k \in 6..9
      BY <1>4, <2>1, <2>2
    <2>4. type = Tables[k][2]
      BY <1>1, <2>1 DEF k
    <2>5. type \in Transfers
      BY <1>8, <2>3, <2>4
    <2> QED
      BY <1>9, <2>5 DEF type
  <1>10. CASE b \notin ShortTransfers
    <2>1. 6 \notin hits /\ 7 \notin hits /\ 8 \notin hits /\ 9 \notin hits
      BY <1>6, <1>7, <1>10
    <2>2. CASE hits = {}
      <3>1. type \notin Transfers
        BY <1>1, <2>2 DEF Transfers
      <3> QED
        BY <1>10, <3>1 DEF type
    <2>3. CASE hits # {}
      <3>1. k \in hits /\ k \in 1..9 /\ k \notin 6..9
        <4>1. k \in hits /\ k \in 1..9
          BY <1>4, <1>5, <2>3
        <4>2. k # 6 /\ k # 7 /\ k # 8 /\ k # 9
          BY <2>1, <4>1
        <4> QED
          BY <4>1, <4>2
      <3>2. type = Tables[k][2]
        BY <1>1, <2>3 DEF k
      <3>3. type \notin Transfers
        BY <1>8, <3>1, <3>2
      <3> QED
        BY <1>10, <3>3 DEF type
    <2> QED
      BY <2>2, <2>3
  <1> QED
    BY <1>9, <1>10

\* The layout of these instructions.
LEMMA ShortInstruction ==
    ASSUME NEW code, NEW i \in Nat, NEW n \in Nat, i < n, Bytes(code, i, n),
           code[i] \in ShortBytes
    PROVE  LET b == code[i]
               ins == Instruction(code, i, n)
               end == i + (IF b \in data1_t THEN 2 ELSE 1)
           IN  /\ b \in one_byte_ud_t => ins.status = "undefined"
               /\ b \notin one_byte_ud_t /\ end > n => ins.status = "crosses"
               /\ b \notin one_byte_ud_t /\ ~(end > n) =>
                    /\ ins.status = "whole" /\ ins.end = end
                    /\ ins.type = OpcodeType("legacy", 0, b)
  <1> DEFINE b == code[i]
             ins == Instruction(code, i, n)
             end == i + (IF b \in data1_t THEN 2 ELSE 1)
             l == Last(code, i, n)
             p == Prefixes(code, i, n)
             o == Opcode(code, p, n)
             modrm == At(code, o.at + 1, n)
             sib == At(code, o.at + 2, n)
  <1>1. /\ b \in Byte /\ ~Plain(b) /\ b \notin {\h62, \hC4, \hC5, \h0F}
        /\ b \notin modrm_t /\ b \notin data2_t /\ b \notin data66_t
        /\ b \notin {\hA0, \hA3, \hF6, \hF7}
    BY ShortIs
  <1>2. l = i
    <2>1. l \in i..n /\ \A j \in i..n : j < l => Plain(code[j])
      BY LastIs
    <2>2. i \in i..n
      OBVIOUS
    <2> HIDE DEF l
    <2>3. ~(i < l)
      BY <1>1, <2>1, <2>2
    <2> QED
      BY <2>1, <2>3
  <1>3. At(code, i, n) = b
    BY DEF At
  <1>4. p = PrefixRecord(i, {code[j] : j \in i..(i - 1)}, b, At(code, i + 1, n))
    <2>1. p = PrefixRecord(l, {code[j] : j \in i..(l - 1)}, At(code, l, n),
                           At(code, l + 1, n))
      BY Zenon DEF Prefixes, Last, PrefixRecord
    <2> HIDE DEF p, l, b
    <2> QED
      BY ONLY <1>2, <1>3, <2>1, Zenon
  <1>5. {code[j] : j \in i..(i - 1)} = {}
    OBVIOUS
  <1>6. p.enc = "legacy" /\ p.op = i /\ p.ddef = 4 /\ p.mdef = 4 /\ p.rexw = FALSE
    <2> DEFINE x == At(code, i + 1, n)
               q == PrefixRecord(i, {}, b, x)
    <2>1. p = q
      BY <1>4, <1>5
    <2>2. b # \h62 /\ b # \hC4 /\ b # \hC5
      BY <1>1
    <2> HIDE DEF x, b
    <2>3. q.enc = "legacy" /\ q.op = i /\ q.ddef = 4 /\ q.mdef = 4 /\ q.rexw = FALSE
      BY <2>2 DEF PrefixRecord
    <2> QED
      BY <2>1, <2>3
  <1> HIDE DEF p
  <1>7. Escapes(code, p, n) = 0
    BY <1>1, <1>3, <1>6 DEF Escapes
  <1>8. o.at = i /\ o.op = b /\ o.map = 0
    <2>1. /\ o.at = p.op + 0 /\ o.op = At(code, p.op + 0, n)
          /\ o.map = OpcodeMap(p.enc, p.map, 0, At(code, p.op + 1, n))
      BY <1>7, OpcodeFields
    <2>2. p.op + 0 = i
      BY <1>6
    <2> HIDE DEF o
    <2> QED
      BY <1>3, <1>6, <2>1, <2>2 DEF OpcodeMap
  <1>9. ins = LayoutOf(p, o, n, modrm, sib)
    BY LayoutIs DEF Instruction, p
  <1> HIDE DEF o, modrm, sib, b
  <1>10. ~HasModrm(p.enc, o.map, o.op)
    BY <1>1, <1>6, <1>8 DEF HasModrm
  <1>11. MemorySize(p, o, 0) = 0
    BY <1>1, <1>6, <1>8 DEF MemorySize
  <1>12. DataSize(p, o, modrm) = IF b \in data1_t THEN 1 ELSE 0
    <2>1. Immediate(p, o.map, o.op, modrm) = IF b \in data1_t THEN 1 ELSE 0
      BY <1>1, <1>6, <1>8 DEF Immediate
    <2> QED
      BY <1>6, <2>1 DEF DataSize
  <1>13. EndOf(p, o, modrm, sib) = end
    BY <1>8, <1>10, <1>11, <1>12 DEF EndOf
  <1>14. TypeOf(p, o, modrm) = OpcodeType("legacy", 0, b)
    BY <1>6, <1>8, <1>10 DEF TypeOf
  <1>15. Undefined(p.enc, o.map, o.op) <=> b \in one_byte_ud_t
    BY <1>6, <1>8 DEF Undefined
  <1>16. ~(o.at >= n)
    BY <1>8
  <1> HIDE DEF ins, end
  <1>17. /\ b \in one_byte_ud_t => ins.status = "undefined"
         /\ b \notin one_byte_ud_t /\ end > n => ins.status = "crosses"
         /\ b \notin one_byte_ud_t /\ ~(end > n) =>
              /\ ins.status = "whole" /\ ins.end = end
              /\ ins.type = OpcodeType("legacy", 0, b)
    BY <1>9, <1>13, <1>14, <1>15, <1>16 DEF LayoutOf
  <1> QED
    BY <1>17 DEF ins, end, b

-----------------------------------------------------------------------------
(* InstrStream's search on these instructions.                             *)

ShortLong == (data1_t \ one_byte_ud_t) \cap ShortBytes
ShortIllegal == one_byte_ud_t \cap ShortBytes
ShortLen(c) == IF c \in ShortLong THEN 2 ELSE 1

\* One turn of its loop.
StreamStep(f, code, n, i) ==
    IF i = n
      THEN [ret |-> "continue", end |-> n]
    ELSE IF code[i] \in ShortIllegal
      THEN [ret |-> "error", end |-> n]
    ELSE IF i + ShortLen(code[i]) > n
      THEN [ret |-> "continue", end |-> i]
    ELSE IF code[i] \in ShortTransfers
      THEN [ret |-> "success", end |-> i + ShortLen(code[i])]
    ELSE f[i + ShortLen(code[i])]

IsStream(f, code, s, n) == f = [i \in s..n |-> StreamStep(f, code, n, i)]
StreamFrom(code, s, n) == CHOOSE f : IsStream(f, code, s, n)

LEMMA StreamIs ==
    ASSUME NEW code, NEW s \in Nat, NEW n \in Nat, s < n
    PROVE  Stream!Disassemble(code, s, n) = StreamFrom(code, s, n)[s]
  <1>1. ~(n <= s)
    OBVIOUS
  <1> QED
    BY ONLY <1>1, Zenon
       DEF Stream!Disassemble, Stream!InstrLen, StreamFrom, IsStream, StreamStep,
           ShortLong, ShortIllegal, ShortLen, ShortTransfers

LEMMA StreamLooksAhead ==
    ASSUME NEW code, NEW n \in Nat, NEW i \in Nat, i <= n, NEW f, NEW g,
           \A j \in (i + 1)..n : f[j] = g[j]
    PROVE  StreamStep(f, code, n, i) = StreamStep(g, code, n, i)
  <1> DEFINE e == i + ShortLen(code[i])
  <1>1. e \in Nat /\ i < e
    BY DEF ShortLen
  <1> HIDE DEF e
  <1>2. ~(e > n) => f[e] = g[e]
    BY <1>1
  <1> QED
    BY <1>2 DEF StreamStep, e

LEMMA StreamExists ==
    ASSUME NEW code, NEW s \in Nat, NEW n \in Nat, s <= n
    PROVE  IsStream(StreamFrom(code, s, n), code, s, n)
  <1> DEFINE T == {i \in s..n : \E f : IsStream(f, code, i, n)}
  <1>1. ASSUME NEW i \in s..n, \A j \in s..n : i < j => j \in T
        PROVE  i \in T
    <2>1. i \in Nat /\ i <= n
      OBVIOUS
    <2>2. PICK f : i = n \/ IsStream(f, code, i + 1, n)
      <3>1. CASE i = n
        BY <3>1
      <3>2. CASE i < n
        <4>1. i + 1 \in T
          BY <1>1, <3>2
        <4> QED
          BY <4>1
      <3> QED
        BY <2>1, <3>1, <3>2
    <2> DEFINE h == [j \in i..n |-> IF j = i THEN StreamStep(f, code, n, i) ELSE f[j]]
    <2>3. ASSUME NEW j \in i..n
          PROVE  h[j] = IF j = i THEN StreamStep(f, code, n, i) ELSE f[j]
      OBVIOUS
    <2>4. h = [j \in i..n |-> h[j]]
      OBVIOUS
    <2> HIDE DEF h
    <2>5. ASSUME NEW j \in i..n
          PROVE  h[j] = StreamStep(h, code, n, j)
      <3>1. j \in Nat /\ j <= n
        OBVIOUS
      <3>2. ASSUME NEW k \in (j + 1)..n
            PROVE  h[k] = f[k]
        <4>1. k \in i..n /\ k # i
          OBVIOUS
        <4> QED
          BY <2>3, <4>1
      <3>3. StreamStep(h, code, n, j) = StreamStep(f, code, n, j)
        BY ONLY <3>1, <3>2, StreamLooksAhead, n \in Nat
      <3>4. CASE j = i
        BY <2>3, <3>3, <3>4
      <3>5. CASE j # i
        <4>1. i # n /\ j \in (i + 1)..n
          BY <3>5
        <4>2. IsStream(f, code, i + 1, n)
          BY <2>2, <4>1
        <4>3. f[j] = StreamStep(f, code, n, j)
          BY <4>1, <4>2 DEF IsStream
        <4> QED
          BY <2>3, <3>3, <3>5, <4>3
      <3> QED
        BY <3>4, <3>5
    <2>6. IsStream(h, code, i, n)
      BY <2>4, <2>5 DEF IsStream
    <2> QED
      BY <2>6
  <1>2. s \in s..n
    OBVIOUS
  <1> HIDE DEF T
  <1>3. \A i \in s..n : i \in T
    BY <1>1, Downward
  <1> QED
    BY <1>2, <1>3 DEF T, StreamFrom

\* On streams of these instructions the two searches are one.
LEMMA StreamIsCode ==
    ASSUME NEW code, NEW s \in Nat, NEW n \in Nat, s < n, Bytes(code, s, n), NEW st \in Stats,
           \A i \in s..n : i < n => code[i] \in ShortBytes
    PROVE  /\ Stream!Disassemble(code, s, n).ret = Walk(code, s, n, st).ret
           /\ Stream!Disassemble(code, s, n).end = Walk(code, s, n, st).end
  <1> DEFINE f == StreamFrom(code, s, n)
             Good(w, i) == f[i].ret = w.ret /\ f[i].end = w.end
             T == {i \in s..n : \A t \in Stats : Good(Walk(code, i, n, t), i)}
  <1>1. s <= n /\ s \in s..n
    OBVIOUS
  <1>2. \A i \in s..n : f[i] = StreamStep(f, code, n, i)
    BY <1>1, StreamExists DEF IsStream
  <1> HIDE DEF f
  <1>3. ASSUME NEW i \in s..n, \A j \in s..n : i < j => j \in T
        PROVE  i \in T
    <2>1. i \in Nat /\ i <= n /\ Bytes(code, i, n)
      BY BytesFrom
    <2>2. ASSUME NEW t \in Stats
          PROVE  Good(Walk(code, i, n, t), i)
      <3> DEFINE ins == Instruction(code, i, n)
                 w == Walk(code, i, n, t)
                 b == code[i]
                 u == Count(t, ins.type)
                 end == i + (IF b \in data1_t THEN 2 ELSE 1)
      <3>1. /\ i = n => w = [ret |-> "continue", end |-> n, stats |-> t]
            /\ i < n /\ ins.status = "crosses" =>
                 w = [ret |-> "continue", end |-> i, stats |-> t]
            /\ i < n /\ ins.status = "undefined" =>
                 w = [ret |-> "error", end |-> n, stats |-> t]
            /\ i < n /\ ins.status = "whole" /\ ins.type \in Transfers =>
                 w = [ret |-> "success", end |-> ins.end, stats |-> Count(t, "CONTROL")]
            /\ i < n /\ ins.status = "whole" /\ ins.type \notin Transfers =>
                 w = Walk(code, ins.end, n, u)
        BY <2>1, WalkIs
      <3>2. u \in Stats
        BY CountStats
      <3>3. i < n => b \in ShortBytes
        OBVIOUS
      <3>4. i < n => /\ b \in one_byte_ud_t => ins.status = "undefined"
                     /\ b \notin one_byte_ud_t /\ end > n => ins.status = "crosses"
                     /\ b \notin one_byte_ud_t /\ ~(end > n) =>
                          /\ ins.status = "whole" /\ ins.end = end
                          /\ ins.type = OpcodeType("legacy", 0, b)
        BY <2>1, <3>3, ShortInstruction
      <3>5. i < n => (OpcodeType("legacy", 0, b) \in Transfers <=> b \in ShortTransfers)
        BY <3>3, ShortType
      <3>6. i < n => /\ b \in ShortIllegal <=> b \in one_byte_ud_t
                     /\ b \notin one_byte_ud_t => i + ShortLen(b) = end
        BY <3>3 DEF ShortIllegal, ShortLen, ShortLong
      <3>7. f[i] = IF i = n THEN [ret |-> "continue", end |-> n]
                   ELSE IF b \in ShortIllegal THEN [ret |-> "error", end |-> n]
                   ELSE IF i + ShortLen(b) > n THEN [ret |-> "continue", end |-> i]
                   ELSE IF b \in ShortTransfers
                     THEN [ret |-> "success", end |-> i + ShortLen(b)]
                   ELSE f[i + ShortLen(b)]
        BY <1>2 DEF StreamStep
      <3>8. i < n => end \in Nat /\ i < end
        BY <2>1
      <3>9. i < n /\ b \notin one_byte_ud_t /\ ~(end > n) => Good(Walk(code, end, n, u), end)
        <4> SUFFICES ASSUME i < n, b \notin one_byte_ud_t, ~(end > n)
                     PROVE  Good(Walk(code, end, n, u), end)
          OBVIOUS
        <4> DEFINE e == end
        <4>1. e \in s..n
          BY <2>1, <3>8
        <4>2. e \in T
          BY <1>3, <3>8, <4>1
        <4> HIDE DEF ins, u, e, Good
        <4> QED
          BY <3>2, <4>2 DEF e
      <3> HIDE DEF w
      <3> SUFFICES Good(w, i)
        BY DEF w
      <3> HIDE DEF ins, b, u, end, T
      <3>10. CASE i = n
        BY <3>1, <3>7, <3>10
      <3>11. CASE i < n /\ b \in one_byte_ud_t
        <4>1. w = [ret |-> "error", end |-> n, stats |-> t]
          BY <3>1, <3>4, <3>11
        <4>2. f[i] = [ret |-> "error", end |-> n]
          BY <2>1, <3>6, <3>7, <3>11
        <4> QED
          BY <4>1, <4>2
      <3>12. CASE i < n /\ b \notin one_byte_ud_t /\ end > n
        <4>1. w = [ret |-> "continue", end |-> i, stats |-> t]
          BY <3>1, <3>4, <3>12
        <4>2. f[i] = [ret |-> "continue", end |-> i]
          BY <2>1, <3>6, <3>7, <3>12
        <4> QED
          BY <4>1, <4>2
      <3>13. CASE i < n /\ b \notin one_byte_ud_t /\ ~(end > n)
        <4>1. /\ i # n /\ b \notin ShortIllegal /\ i + ShortLen(b) = end
              /\ ins.status = "whole" /\ ins.end = end
              /\ ins.type \in Transfers <=> b \in ShortTransfers
          BY <2>1, <3>4, <3>5, <3>6, <3>13
        <4>2. CASE b \in ShortTransfers
          <5>1. w = [ret |-> "success", end |-> end, stats |-> Count(t, "CONTROL")]
            BY <3>1, <3>13, <4>1, <4>2
          <5>2. f[i] = [ret |-> "success", end |-> end]
            BY <3>7, <3>13, <4>1, <4>2
          <5> QED
            BY <5>1, <5>2
        <4>3. CASE b \notin ShortTransfers
          <5>1. w = Walk(code, end, n, u)
            BY <3>1, <3>13, <4>1, <4>3
          <5>2. f[i] = f[end]
            BY <3>7, <3>13, <4>1, <4>3
          <5> QED
            BY <3>9, <3>13, <5>1, <5>2
        <4> QED
          BY <4>2, <4>3
      <3> QED
        BY <2>1, <3>10, <3>11, <3>12, <3>13
    <2> HIDE DEF Good
    <2> QED
      BY <2>2
  <1> HIDE DEF T
  <1>4. \A i \in s..n : i \in T
    BY <1>3, Downward
  <1>5. s \in T
    BY <1>1, <1>4
  <1>6. Good(Walk(code, s, n, st), s)
    BY <1>5 DEF T
  <1>7. Stream!Disassemble(code, s, n) = f[s]
    BY StreamIs DEF f
  <1> QED
    BY <1>6, <1>7

\* The search of the page models, on instructions without a ModRM byte, ends
\* at the same byte with the same answer as disassemble_code (zone.c:801-927) does,
\* for every alphabet of such instructions.
THEOREM StreamIsFaithful == Spec => []StreamAgrees
  <1>1. IInv => StreamAgrees
    <2> DEFINE n == seen + 1
               all == disassemble_code(text, 1, n, NoCount)
               s == Stream!Disassemble(text, 1, n)
    <2> SUFFICES ASSUME IInv, seen > 0, \A i \in 1..seen : text[i] \in ShortBytes
                 PROVE  <<ret, from>> = <<s.ret, s.end>>
      BY DEF StreamAgrees
    <2>1. /\ text \in Seq(Byte) /\ Len(text) \in Nat /\ seen \in 0..Len(text)
      BY TypeFacts DEF IInv
    <2>2. /\ n \in Nat /\ 1 \in Nat /\ 1 < n /\ n \in 1..(Len(text) + 1)
          /\ 1 \in 1..(Len(text) + 1)
      BY <2>1
    <2>3. Bytes(text, 1, n)
      BY <2>1, <2>2, TextBytes
    <2>4. ASSUME NEW i \in 1..n, i < n
          PROVE  text[i] \in ShortBytes
      <3>1. i \in 1..seen
        BY <2>1, <2>4
      <3> QED
        BY <3>1
    <2>5. all = Walk(text, 1, n, NoCount)
      BY <2>2, DisassembleIs
    <2>6. <<ret, from, stats>> = <<all.ret, all.end, all.stats>>
      BY DEF IInv, CutAnywhere
    <2> HIDE DEF n, all, s
    <2>7. s.ret = Walk(text, 1, n, NoCount).ret /\ s.end = Walk(text, 1, n, NoCount).end
      BY <2>2, <2>3, <2>4, NoCountStats, StreamIsCode DEF s
    <2> QED
      BY <2>5, <2>6, <2>7
  <1> QED
    BY <1>1, InductiveInvariant, PTL

=============================================================================

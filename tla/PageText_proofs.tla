--------------------------- MODULE PageText_proofs ---------------------------
(***************************************************************************)
(* What becomes of the text of a process: however its pages are closed,    *)
(* trapped, restored and stored to, no byte of it is lost, and what runs   *)
(* is what CheckedText promises.                                           *)
(***************************************************************************)
EXTENDS PageLife_proofs, WellFoundedInduction

\* The text of the process, and what it stores, has no undefined instruction,
\* and no INV as an operand; its mprotect calls make executable what was never
\* executable, and it maps nothing anew.
Plain ==
    /\ \A a \in Addr : Text[a] \notin Illegal
    /\ Stored \cap Illegal = {}
    /\ \A t \in Transitions : t[2] = "w" /\ t[3] \in {"x", "wx"}
    /\ Remapped = {}

Intact(p) == \A a \in CellsOf(p) : mem[a] = prog[a]

\* What page p holds, and what its master copies do.
TextInv(p) ==
    /\ ~Executable(vma[p]) => masters[p] = <<>> /\ pte[p].exeDeny /\ ~pte[p].origExe
    /\ pte[p].exeDeny => ~pte[p].check
    /\ ~pte[p].check => Intact(p)
    /\ \A a \in CellsOf(p) : mem[a] # prog[a] => mem[a] = INV /\ masters[p] # <<>>
    /\ \A i \in DOMAIN masters[p] : masters[p][i] = Content(prog, p)
    /\ vma[p] = "wx" => /\ Len(masters[p]) <= 1
                        /\ ~pte[p].check => masters[p] = <<>>
                        /\ pte[p].check => pte[p].origWrite

TInv ==
    /\ \A p \in Pages : TextInv(p)
    /\ \A a \in Addr : prog[a] \notin Illegal

-----------------------------------------------------------------------------
(* The search of disassemble_code, which is a recursive function.          *)

\* One turn of its loop, at i.
Turn(from, code, n, i) ==
    IF i = n
      THEN [ret |-> "continue", end |-> n]
    ELSE IF code[i] \in Illegal
      THEN [ret |-> "error", end |-> n]
    ELSE IF i + InstrLen(code[i]) > n
      THEN [ret |-> "continue", end |-> i]
    ELSE IF code[i] \in Control
      THEN [ret |-> "success", end |-> i + InstrLen(code[i])]
    ELSE from[i + InstrLen(code[i])]

\* A set of numbers has a least one.
LEMMA LeastNumber ==
    ASSUME NEW T \in SUBSET Nat, T # {}
    PROVE  \E x \in T : \A y \in T : x <= y
  <1>1. PICK x \in T : \A y \in T : <<y, x>> \notin OpToRel(<, Nat)
    BY NatLessThanWellFounded, WFMin
  <1>2. \A a, b \in Nat : a < b => <<a, b>> \in OpToRel(<, Nat)
    BY Zenon DEF OpToRel
  <1>3. ASSUME NEW y \in T
        PROVE  x <= y
    <2>1. x \in Nat /\ y \in Nat /\ ~(y < x)
      BY <1>1, <1>2
    <2> QED
      BY <2>1
  <1> QED
    BY <1>3

\* The search is defined from every position on.
LEMMA SearchExists ==
    ASSUME NEW code, NEW s \in Nat, NEW n \in Nat, s <= n
    PROVE  \E f : f = [i \in s..n |-> Turn(f, code, n, i)]
  <1> DEFINE Found(d) == \E f : f = [i \in (n - d)..n |-> Turn(f, code, n, i)]
             Missing == {d \in 0..(n - s) : ~Found(d)}
  <1>1. n - (n - s) = s /\ n - s \in 0..(n - s)
    OBVIOUS
  <1>2. Missing = {}
    <2> SUFFICES ASSUME Missing # {} PROVE FALSE
      OBVIOUS
    <2>1. PICK d \in Missing : \A e \in Missing : d <= e
      <3>1. Missing \in SUBSET Nat
        OBVIOUS
      <3> HIDE DEF Missing
      <3> QED
        BY <3>1, LeastNumber
    <2>2. d \in Nat /\ d <= n - s /\ ~Found(d)
      BY <2>1
    <2>3. CASE d = 0
      <3> DEFINE f == [i \in n..n |-> [ret |-> "continue", end |-> n]]
      <3>1. \A g : \A i \in n..n : Turn(g, code, n, i) = [ret |-> "continue", end |-> n]
        BY DEF Turn
      <3>2. f = [i \in n..n |-> Turn(f, code, n, i)]
        BY <3>1
      <3>3. n - d = n
        BY <2>3
      <3> HIDE DEF f
      <3>4. Found(d)
        BY <3>2, <3>3
      <3> QED
        BY <2>2, <3>4
    <2>4. CASE d > 0
      <3>1. d - 1 \in 0..(n - s) /\ ~(d <= d - 1)
        BY <2>2, <2>4
      <3>2. Found(d - 1)
        BY <2>1, <3>1
      <3> DEFINE j == n - d
      <3>3. j \in Nat /\ j < n /\ n - (d - 1) = j + 1 /\ j \in j..n
        BY <2>2, <2>4
      <3> HIDE DEF j
      <3>4. PICK f : f = [i \in (j + 1)..n |-> Turn(f, code, n, i)]
        BY <3>2, <3>3
      <3> DEFINE h == [i \in j..n |-> IF i = j THEN Turn(f, code, n, i) ELSE f[i]]
      <3>5. \A i \in (j + 1)..n : h[i] = f[i]
        BY <3>3
      <3>6. ASSUME NEW i \in j..n
            PROVE  Turn(h, code, n, i) = Turn(f, code, n, i)
        <4>1. i + InstrLen(code[i]) <= n => i + InstrLen(code[i]) \in (j + 1)..n
          BY <3>3 DEF InstrLen
        <4> HIDE DEF h
        <4>2. \/ i + InstrLen(code[i]) > n
              \/ h[i + InstrLen(code[i])] = f[i + InstrLen(code[i])]
          <5>1. i + InstrLen(code[i]) \in Int
            BY <3>3 DEF InstrLen
          <5> QED
            BY <3>5, <4>1, <5>1
        <4> QED
          BY <4>2 DEF Turn
      <3>7. \A i \in j..n : h[i] = Turn(h, code, n, i)
        <4>1. \A i \in j..n : i = j \/ i \in (j + 1)..n
          BY <3>3
        <4>2. ASSUME NEW i \in j..n
              PROVE  h[i] = Turn(f, code, n, i)
          <5>1. CASE i = j
            BY <5>1
          <5>2. CASE i \in (j + 1)..n
            <6>1. h[i] = f[i]
              BY <3>5, <5>2
            <6>2. f[i] = Turn(f, code, n, i)
              BY <3>4, <5>2
            <6> QED
              BY <6>1, <6>2
          <5> QED
            BY <4>1, <5>1, <5>2
        <4> QED
          BY <3>6, <4>2
      <3>8. h = [i \in j..n |-> h[i]]
        OBVIOUS
      <3> HIDE DEF h
      <3>9. h = [i \in j..n |-> Turn(h, code, n, i)]
        BY <3>7, <3>8
      <3>10. Found(d)
        BY <3>9 DEF j
      <3> QED
        BY <2>2, <3>10
    <2> QED
      BY <2>2, <2>3, <2>4
  <1>3. Found(n - s)
    BY <1>1, <1>2
  <1> QED
    BY <1>1, <1>3

\* It ends in the range it was given, and without an error when the range has
\* no undefined instruction.
LEMMA Searches ==
    ASSUME NEW code, NEW s \in Nat, NEW n \in Nat, s < n
    PROVE  /\ Disassemble(code, s, n).end \in s..n
           /\ (\A i \in s..n : i < n => code[i] \notin Illegal) =>
                Disassemble(code, s, n).ret # "error"
  <1> DEFINE from == CHOOSE f : f = [i \in s..n |-> Turn(f, code, n, i)]
  <1>1. Disassemble(code, s, n) = from[s]
    BY DEF Disassemble, Turn
  <1>2. from = [i \in s..n |-> Turn(from, code, n, i)]
    BY SearchExists
  <1> HIDE DEF from
  <1>3. \A i \in s..n : from[i] = Turn(from, code, n, i)
    BY <1>2
  <1> DEFINE Clean == \A i \in s..n : i < n => code[i] \notin Illegal
             Good(i) == from[i].end \in i..n /\ (Clean => from[i].ret # "error")
             Bad == {d \in 0..(n - s) : ~Good(n - d)}
  <1>4. Bad = {}
    <2> SUFFICES ASSUME Bad # {} PROVE FALSE
      OBVIOUS
    <2>1. PICK d \in Bad : \A e \in Bad : d <= e
      <3>1. Bad \in SUBSET Nat
        OBVIOUS
      <3> HIDE DEF Bad
      <3> QED
        BY <3>1, LeastNumber
    <2> DEFINE i == n - d
               j == i + InstrLen(code[i])
    <2>2. d \in 0..(n - s) /\ i \in s..n /\ ~Good(i) /\ i \in Nat
      BY <2>1
    <2>3. j \in Nat /\ i < j
      BY <2>2 DEF InstrLen
    <2>4. j <= n => Good(j)
      <3>1. j <= n => n - j \in 0..(n - s) /\ ~(d <= n - j) /\ n - (n - j) = j
        BY <2>2, <2>3
      <3> HIDE DEF Good, i, j
      <3> QED
        BY <2>1, <3>1
    <2>5. i < n /\ Clean => code[i] \notin Illegal
      BY <2>2
    <2> HIDE DEF i, j, Clean
    <2>6. from[i] = Turn(from, code, n, i)
      BY <1>3, <2>2
    <2>7. Good(i)
      <3>1. CASE i = n
        BY <2>2, <2>6, <3>1 DEF Turn
      <3>2. CASE i # n /\ code[i] \in Illegal
        <4>1. from[i] = [ret |-> "error", end |-> n] /\ i < n
          BY <2>2, <2>6, <3>2 DEF Turn
        <4> QED
          BY <2>2, <2>5, <3>2, <4>1
      <3>3. CASE i # n /\ code[i] \notin Illegal /\ j > n
        <4>1. from[i] = [ret |-> "continue", end |-> i]
          BY <2>6, <3>3 DEF Turn, j
        <4> QED
          BY <2>2, <4>1
      <3>4. CASE i # n /\ code[i] \notin Illegal /\ ~(j > n) /\ code[i] \in Control
        <4>1. from[i] = [ret |-> "success", end |-> j]
          BY <2>6, <3>4 DEF Turn, j
        <4> QED
          BY <2>2, <2>3, <3>4, <4>1
      <3>5. CASE i # n /\ code[i] \notin Illegal /\ ~(j > n) /\ code[i] \notin Control
        <4>1. from[i] = from[j]
          BY <2>6, <3>5 DEF Turn, j
        <4> QED
          BY <2>2, <2>3, <2>4, <3>5, <4>1
      <3> QED
        BY <3>1, <3>2, <3>3, <3>4, <3>5
    <2> QED
      BY <2>2, <2>7
  <1>5. Good(s)
    <2>1. n - s \in 0..(n - s) /\ n - (n - s) = s
      OBVIOUS
    <2> HIDE DEF Good
    <2> QED
      BY <1>4, <2>1
  <1> QED
    BY <1>1, <1>5
-----------------------------------------------------------------------------
(* Pages and their master copies.                                          *)

LEMMA PageCells ==
    ASSUME NEW a \in Addr
    PROVE  PageOf(a) \in Pages /\ a \in CellsOf(PageOf(a))
  BY PageOfAddr DEF CellsOf

LEMMA CopiesTyped ==
    ASSUME TypeOK, NEW p \in Pages
    PROVE  /\ masters[p] \in Seq([CellsOf(p) -> Cell]) /\ Len(masters[p]) \in Nat
           /\ DOMAIN masters[p] = 1..Len(masters[p])
           /\ pte[p] \in PteFlags /\ vma[p] \in Prot
           /\ masters[p] # <<>> => 1 \in DOMAIN masters[p] /\ Head(masters[p]) = masters[p][1]
  <1>1. masters[p] \in Seq([CellsOf(p) -> Cell]) /\ pte[p] \in PteFlags /\ vma[p] \in Prot
    BY DEF TypeOK
  <1>2. masters[p] # <<>> => Len(masters[p]) > 0
    BY ONLY <1>1, EmptySeq
  <1> QED
    BY <1>1, <1>2

\* What the trap handler works on is the text.
LEMMA ViewIsText ==
    ASSUME TypeOK, TInv, NEW a \in Addr
    PROVE  MasterView[a] = prog[a]
  <1> DEFINE p == PageOf(a)
  <1>1. p \in Pages /\ a \in CellsOf(p) /\ TextInv(p)
    BY PageCells DEF TInv
  <1>2. CASE masters[p] # <<>>
    <2>1. Head(masters[p]) = Content(prog, p)
      BY <1>1, <1>2, CopiesTyped DEF TextInv
    <2>2. Content(prog, p)[a] = prog[a]
      BY <1>1 DEF Content
    <2> QED
      BY <1>2, <2>1, <2>2 DEF MasterView
  <1>3. CASE masters[p] = <<>>
    BY <1>1, <1>3 DEF MasterView, TextInv
  <1> QED
    BY <1>2, <1>3

\* Copies of pages that hold the text are copies of the text.
LEMMA RegistersText ==
    ASSUME TypeOK, NEW S, NEW q \in Pages, TextInv(q), q \in S => Intact(q)
    PROVE  /\ \A i \in DOMAIN Register(S)[q] : Register(S)[q][i] = Content(prog, q)
           /\ masters[q] # <<>> => Register(S)[q] # <<>>
           /\ q \in S => Register(S)[q] # <<>> /\ (masters[q] = <<>> => Len(Register(S)[q]) = 1)
           /\ q \notin S => Register(S)[q] = masters[q]
  <1>1. CASE q \in S
    <2> DEFINE c == Content(mem, q)
               m == masters[q]
    <2>1. c = Content(prog, q) /\ c \in [CellsOf(q) -> Cell]
      BY <1>1 DEF Content, Intact, TypeOK, CellsOf
    <2>2. m \in Seq([CellsOf(q) -> Cell]) /\ Len(m) \in Nat
          /\ \A i \in DOMAIN m : m[i] = Content(prog, q)
      BY CopiesTyped DEF TextInv
    <2>3. Register(S)[q] = <<c>> \o m
      BY <1>1 DEF Register
    <2> HIDE DEF c, m
    <2>4. /\ Len(<<c>> \o m) = 1 + Len(m) /\ DOMAIN (<<c>> \o m) = 1..(1 + Len(m))
          /\ DOMAIN m = 1..Len(m)
          /\ \A i \in 1..(1 + Len(m)) : (<<c>> \o m)[i] = IF i = 1 THEN c ELSE m[i - 1]
      BY <2>1, <2>2
    <2>5. \A i \in 1..(1 + Len(m)) : i = 1 \/ i - 1 \in 1..Len(m)
      BY <2>2
    <2>6. \A i \in DOMAIN (<<c>> \o m) : (<<c>> \o m)[i] = Content(prog, q)
      BY <2>1, <2>2, <2>4, <2>5
    <2>7. <<c>> \o m # <<>>
      BY <2>1, <2>2, <2>4
    <2>8. m = <<>> => Len(<<c>> \o m) = 1
      BY <2>4
    <2> QED
      BY <1>1, <2>3, <2>6, <2>7, <2>8 DEF m
  <1>2. CASE q \notin S
    BY <1>2 DEF Register, TextInv
  <1> QED
    BY <1>1, <1>2

\* Page q is registered if it is in S and opened if it is in T; only a page
\* that is both is closed.
LEMMA PageOpens ==
    ASSUME IInv, NEW q \in Pages, TextInv(q), NEW S, NEW T, NEW w \in BOOLEAN,
           vma' = vma, prog' = prog, masters'[q] = Register(S)[q],
           pte'[q] = IF q \in T THEN Allowed(pte[q], w) ELSE pte[q],
           q \in S => /\ Intact(q) /\ Executable(vma[q])
                      /\ vma[q] = "wx" => q \in T /\ masters[q] = <<>>,
           q \in T => /\ Executable(vma[q]) /\ (pte[q].write => w)
                      /\ vma[q] = "wx" => w \/ pte[q].origWrite,
           \A a \in CellsOf(q) : \/ mem'[a] = mem[a]
                                 \/ mem'[a] = prog[a]
                                 \/ q \in S /\ q \in T /\ mem'[a] = INV
    PROVE  TextInv(q)'
  <1>1. /\ TypeOK /\ pte[q] \in PteFlags /\ masters[q] \in Seq([CellsOf(q) -> Cell])
        /\ pte[q].check \in BOOLEAN
    BY DEF IInv, TypeOK, PteFlags
  <1>2. /\ \A i \in DOMAIN masters'[q] : masters'[q][i] = Content(prog, q)
        /\ masters[q] # <<>> => masters'[q] # <<>>
        /\ q \in S => masters'[q] # <<>> /\ (masters[q] = <<>> => Len(masters'[q]) = 1)
        /\ q \notin S => masters'[q] = masters[q]
    BY <1>1, RegistersText
  <1>3. q \in T => /\ ~pte'[q].exeDeny /\ pte'[q].check
                   /\ vma[q] = "wx" => pte'[q].origWrite
    BY <1>1 DEF Allowed, PteFlags
  <1>4. q \notin T => pte'[q] = pte[q]
    OBVIOUS
  <1>5. ~Executable(vma'[q]) => masters'[q] = <<>> /\ pte'[q].exeDeny /\ ~pte'[q].origExe
    BY <1>2, <1>4 DEF TextInv
  <1>6. pte'[q].exeDeny => ~pte'[q].check
    BY <1>3, <1>4 DEF TextInv
  <1>7. ~pte'[q].check => \A a \in CellsOf(q) : mem'[a] = prog'[a]
    BY <1>3, <1>4 DEF TextInv, Intact
  <1>8. \A a \in CellsOf(q) : mem'[a] # prog'[a] => mem'[a] = INV /\ masters'[q] # <<>>
    BY <1>2 DEF TextInv
  <1>9. vma'[q] = "wx" => /\ Len(masters'[q]) <= 1
                          /\ ~pte'[q].check => masters'[q] = <<>>
                          /\ pte'[q].check => pte'[q].origWrite
    <2>1. CASE q \in S
      <3>1. vma'[q] = "wx" => q \in T /\ masters[q] = <<>>
        BY <2>1
      <3>2. masters[q] = <<>> => Len(masters'[q]) = 1
        BY ONLY <1>2, <2>1
      <3>3. 1 <= 1
        OBVIOUS
      <3>4. masters[q] = <<>> => Len(masters'[q]) <= 1
        BY ONLY <3>2, <3>3, Zenon
      <3> QED
        BY <1>3, <3>1, <3>4
    <2>2. CASE q \notin S
      BY <1>2, <1>3, <1>4, <2>2 DEF TextInv
    <2> QED
      BY <2>1, <2>2
  <1>10. Content(prog', q) = Content(prog, q)
    OBVIOUS
  <1> QED
    BY <1>2, <1>5, <1>6, <1>7, <1>8, <1>9, <1>10 DEF TextInv, Intact, CellsOf, Content

\* Page q is written back from its master copy, which is dropped.
LEMMA PageRestored ==
    ASSUME IInv, NEW q \in Pages, TextInv(q), vma' = vma, prog' = prog, pte'[q] = pte[q],
           masters[q] # <<>>, masters'[q] = Tail(masters[q]),
           \A a \in CellsOf(q) : mem'[a] = prog[a]
    PROVE  TextInv(q)'
  <1> DEFINE m == masters[q]
             c == Content(prog, q)
  <1>0. m # <<>>
    OBVIOUS
  <1>1. m \in Seq([CellsOf(q) -> Cell])
    BY DEF IInv, TypeOK
  <1>2. /\ Tail(m) \in Seq([CellsOf(q) -> Cell]) /\ Len(Tail(m)) = Len(m) - 1 /\ Len(m) \in Nat
        /\ DOMAIN m = 1..Len(m) /\ DOMAIN Tail(m) = 1..(Len(m) - 1)
        /\ \A i \in 1..(Len(m) - 1) : Tail(m)[i] = m[i + 1]
    <2> HIDE DEF m
    <2> QED
      BY <1>1, <1>0, HeadTailProperties
  <1>3. \A i \in DOMAIN Tail(m) : Tail(m)[i] = c
    <2>1. \A i \in DOMAIN m : m[i] = c
      BY DEF TextInv
    <2>2. \A i \in 1..(Len(m) - 1) : i + 1 \in 1..Len(m)
      BY <1>2
    <2> HIDE DEF m, c
    <2> QED
      BY <1>2, <2>1, <2>2
  <1>4. vma[q] = "wx" => Len(Tail(m)) <= 1 /\ pte[q].check
    BY <1>2 DEF TextInv
  <1>5. Executable(vma[q])
    BY DEF TextInv
  <1>6. c' = c
    OBVIOUS
  <1> QED
    BY <1>3, <1>4, <1>5, <1>6 DEF TextInv, Intact, CellsOf, Content

-----------------------------------------------------------------------------
(* The fetch fault.                                                        *)

\* The pages of S are registered and those of T opened, as a fault on p does.
LEMMA FetchKeepsText ==
    ASSUME IInv, TInv, NEW p \in Pages, NEW S, NEW T, p \in T, pte[p].origExe,
           AllowExe(p, T), vma' = vma, prog' = prog,
           \A q \in Pages : masters'[q] = Register(S)[q],
           \A q \in Pages : q \in S \/ q \in T => q = p \/ vma[q] = "x",
           \A q \in Pages : q \in S => Intact(q) /\ (vma[q] = "wx" => masters[q] = <<>>),
           \A b \in Addr : \/ mem'[b] = mem[b]
                           \/ PageOf(b) \in S /\ PageOf(b) \in T /\ mem'[b] = INV
    PROVE  TInv'
  <1>1. ASSUME NEW q \in Pages
        PROVE  TextInv(q)'
    <2> DEFINE w == q = p /\ Writable(vma[q])
    <2>1. /\ w \in BOOLEAN /\ TextInv(q)
          /\ pte'[q] = IF q \in T THEN Allowed(pte[q], w) ELSE pte[q]
      BY DEF AllowExe, TInv
    <2>2. q \in S \/ q \in T => Executable(vma[q])
      BY DEF IInv, PageInv, Executable
    <2>3. q \in T => /\ pte[q].write => w
                     /\ vma[q] = "wx" => w
      BY DEF IInv, PageInv, Writable
    <2>4. q \in S => /\ Intact(q)
                     /\ vma[q] = "wx" => q \in T /\ masters[q] = <<>>
      OBVIOUS
    <2>5. \A b \in CellsOf(q) : \/ mem'[b] = mem[b]
                                \/ mem'[b] = prog[b]
                                \/ q \in S /\ q \in T /\ mem'[b] = INV
      BY DEF CellsOf
    <2>6. masters'[q] = Register(S)[q]
      OBVIOUS
    <2> HIDE DEF w
    <2> QED
      BY <2>1, <2>2, <2>3, <2>4, <2>5, <2>6, PageOpens
  <1> QED
    BY <1>1 DEF TInv

\* The zone of a fetch fault holds the text: the faulting page was not checked,
\* the next one not opened.
LEMMA ZoneText ==
    ASSUME IInv, TInv, NEW a \in Addr, FetchToOpen(a)
    PROVE  /\ PageOf(a) \in Pages /\ pte[PageOf(a)].origExe
           /\ PageOf(a) \in ZonePages(a, FetchSearch(a).n)
           /\ \A q \in ZonePages(a, FetchSearch(a).n) :
                /\ q = PageOf(a) \/ vma[q] = "x"
                /\ Intact(q) /\ (vma[q] = "wx" => masters[q] = <<>>)
  <1> DEFINE p == PageOf(a)
             n == FetchSearch(a).n
  <1>1. p \in Pages /\ p \in Int /\ pte[p].origExe /\ ~pte[p].check /\ TextInv(p)
    BY PageOfAddr DEF FetchToOpen, Pages, TInv
  <1>2. Intact(p) /\ (vma[p] = "wx" => masters[p] = <<>>)
    BY <1>1 DEF TextInv
  <1>3. n = 1 \/ (n = 2 /\ ~AlreadyOpened(p + 1))
    BY DEF FetchSearch
  <1>4. p \in ZonePages(a, n) /\ \A q \in ZonePages(a, n) : q \in Pages /\ (q = p \/ vma[q] = "x")
    BY FetchedPages DEF IInv
  <1> HIDE DEF n
  <1>5. ASSUME NEW q \in ZonePages(a, n), q # p
        PROVE  Intact(q) /\ vma[q] = "x"
    <2>1. q \in Pages /\ q \in Int /\ p <= q /\ q < p + n
      BY <1>4 DEF Pages, ZonePages
    <2>2. q = p + 1 /\ n = 2
      BY <1>1, <1>3, <1>5, <2>1
    <2>3. TextInv(q) /\ pte[q].exeDeny
      BY <1>3, <2>1, <2>2 DEF TInv, AlreadyOpened
    <2> QED
      BY <1>4, <1>5, <2>3 DEF TextInv
  <1> QED
    BY <1>1, <1>2, <1>4, <1>5 DEF n

LEMMA FetchOpenZoneText ==
    ASSUME IInv, TInv, FetchOpenZone
    PROVE  TInv'
  <1>1. PICK a \in Addr :
          /\ FetchToOpen(a)
          /\ \E s \in {FetchSearch(a)} : \E z \in {FetchZone(a, s)} :
               /\ masters' = Register(z.pages)
               /\ mem' = CloseOuterZone(mem, z.pages, z.start, z.end)
               /\ AllowExe(PageOf(a), z.pages)
          /\ UNCHANGED <<vma, pc, alive, changes, prog>>
    BY DEF FetchOpenZone
  <1> DEFINE S == ZonePages(a, FetchSearch(a).n)
             start == FetchStart(a, FetchSearch(a))
             end == FetchEnd(a, FetchSearch(a))
  <1>2. /\ masters' = Register(S)
        /\ mem' = CloseOuterZone(mem, S, start, end)
        /\ AllowExe(PageOf(a), S)
    BY <1>1 DEF FetchZone
  <1>3. /\ PageOf(a) \in Pages /\ pte[PageOf(a)].origExe /\ PageOf(a) \in S
        /\ \A q \in S : /\ q = PageOf(a) \/ vma[q] = "x"
                        /\ Intact(q) /\ (vma[q] = "wx" => masters[q] = <<>>)
    BY <1>1, ZoneText
  <1> HIDE DEF S, start, end
  <1>4. \A b \in Addr : mem'[b] = mem[b] \/ (PageOf(b) \in S /\ mem'[b] = INV)
    BY <1>2 DEF CloseOuterZone
  <1>5. vma' = vma /\ prog' = prog
    BY <1>1
  <1> QED
    BY <1>2, <1>3, <1>4, <1>5, FetchKeepsText

\* Nothing is registered when the page was checked before.
LEMMA NothingRegistered ==
    ASSUME NEW q \in Pages
    PROVE  Register({})[q] = masters[q]
  BY DEF Register

LEMMA FetchAlreadyCheckedText ==
    ASSUME IInv, TInv, FetchAlreadyChecked
    PROVE  TInv'
  <1>1. PICK a \in Addr :
          /\ pte[PageOf(a)].origExe
          /\ AllowExe(PageOf(a), {PageOf(a)})
          /\ UNCHANGED <<vma, mem, masters, cross, pc, alive, changes, hidden>>
    BY DEF FetchAlreadyChecked
  <1>2. PageOf(a) \in Pages
    BY PageOfAddr
  <1> QED
    BY <1>1, <1>2, NothingRegistered, FetchKeepsText DEF hidden

LEMMA FetchDisassemblerErrorText ==
    ASSUME IInv, TInv, FetchDisassemblerError
    PROVE  TInv'
  <1>1. PICK a \in Addr :
          /\ FetchToOpen(a)
          /\ AllowExe(PageOf(a), {PageOf(a)})
          /\ UNCHANGED <<vma, mem, masters, pc, alive, changes, prog>>
    BY DEF FetchDisassemblerError
  <1>2. PageOf(a) \in Pages /\ pte[PageOf(a)].origExe
    BY <1>1, PageOfAddr DEF FetchToOpen
  <1> QED
    BY <1>1, <1>2, NothingRegistered, FetchKeepsText

LEMMA FetchPageCheckText ==
    ASSUME IInv, TInv, FetchPageCheck
    PROVE  TInv'
  <1>1. PICK a \in Addr :
          /\ FetchToOpen(a)
          /\ \E s \in {FetchSearch(a)} : \E z \in {FetchZone(a, s)}, p \in {PageOf(a)} :
               /\ \E k \in 0 .. s.n : masters' = Register({q \in z.pages : q < p + k})
               /\ AllowExe(p, {p})
          /\ UNCHANGED <<vma, mem, pc, alive, changes, prog>>
    BY ZenonT(30) DEF FetchPageCheck
  <1> DEFINE Z == ZonePages(a, FetchSearch(a).n)
  <1>2. PICK k : /\ masters' = Register({q \in Z : q < PageOf(a) + k})
                 /\ AllowExe(PageOf(a), {PageOf(a)})
    BY <1>1 DEF FetchZone
  <1>3. /\ PageOf(a) \in Pages /\ pte[PageOf(a)].origExe
        /\ \A q \in Z : /\ q = PageOf(a) \/ vma[q] = "x"
                        /\ Intact(q) /\ (vma[q] = "wx" => masters[q] = <<>>)
    BY <1>1, ZoneText
  <1> HIDE DEF Z
  <1> DEFINE S == {q \in Z : q < PageOf(a) + k}
  <1>4. /\ \A q \in S : /\ q = PageOf(a) \/ vma[q] = "x"
                        /\ Intact(q) /\ (vma[q] = "wx" => masters[q] = <<>>)
        /\ masters' = Register(S)
    BY <1>2, <1>3
  <1> DEFINE T == {PageOf(a)}
  <1>5. PageOf(a) \in T /\ AllowExe(PageOf(a), T) /\ \A q \in T : q = PageOf(a)
    BY <1>2
  <1>6. vma' = vma /\ prog' = prog /\ mem' = mem
    BY <1>1
  <1> HIDE DEF S, T
  <1> QED
    BY <1>3, <1>4, <1>5, <1>6, FetchKeepsText

-----------------------------------------------------------------------------
(* The trap on an undefined opcode.                                        *)

\* A search that reaches the next page finds an instruction boundary in it.
LEMMA Crosses ==
    ASSUME TypeOK, TInv, NEW a \in Addr, PageOf(a) + 1 \in Pages
    PROVE  CrossPage(Disassemble(MasterView, a, PageEnd(PageOf(a))).end).ret # "error"
  <1> DEFINE p == PageOf(a)
             e == Disassemble(MasterView, a, PageEnd(p)).end
             n == PageEnd(p)
  <1>1. /\ NumPages \in Nat /\ PageSize \in Nat /\ PageSize > 3
        /\ p \in Nat /\ p + 2 <= NumPages /\ a \in Nat
        /\ PageOf(a) = a \div PageSize
    BY PageOfAddr, PageAssumption DEF Pages, Addr, MaxInstr, PageOf
  <1>2. n = (p + 1) * PageSize
    BY DEF PageEnd
  <1>3. a < n /\ n \in Nat
    BY <1>1, <1>2, Z3
  <1>4. n + PageSize <= NumPages * PageSize
    BY <1>1, <1>2, Z3
  <1> HIDE DEF n
  <1>5. e \in a..n
    BY <1>1, <1>3, Searches DEF n
  <1> HIDE DEF e
  <1>6. e \in Nat /\ e + MaxInstr \in Nat /\ e < e + MaxInstr
    BY <1>1, <1>3, <1>5 DEF MaxInstr
  <1>7. ASSUME NEW i \in e..(e + MaxInstr), i < e + MaxInstr
        PROVE  MasterView[i] \notin Illegal
    <2>1. NumPages * PageSize \in Nat
      BY <1>1
    <2>2. i \in Addr
      <3> DEFINE top == NumPages * PageSize
      <3>1. top \in Nat /\ n + PageSize <= top
        BY <2>1, <1>4
      <3> HIDE DEF top
      <3>2. i \in 0..top - 1
        BY <1>1, <1>3, <1>5, <1>6, <1>7, <3>1 DEF MaxInstr
      <3> QED
        BY <3>2 DEF Addr, top
    <2> QED
      BY <2>2, ViewIsText DEF TInv
  <1>8. Disassemble(MasterView, e, e + MaxInstr).ret # "error"
    BY <1>6, <1>7, Searches
  <1> QED
    BY <1>8 DEF CrossPage, e, n

\* Whenever the next page is looked up and gives a copy, the zone reaches it.
LEMMA TrapLooksOn ==
    ASSUME TypeOK, TInv, NEW a \in Addr, NEW avail, NEW closed,
           TrapSearch(a, avail, closed).ret # "fatal",
           PageOf(a) + 1 \in TrapSearch(a, avail, closed).looked,
           PageOf(a) + 1 \in avail, PageOf(a) + 1 \in Pages
    PROVE  TrapSearch(a, avail, closed).n = 2
  <1> DEFINE p     == PageOf(a)
             q     == p + 1
             m     == Closing(mem, closed)
             first == Disassemble(MasterView, a, NextZone(m, a))
             toEnd == first.ret = "continue" /\ NextZone(m, a) = PageEnd(p)
             onePage == [ret    |-> IF first.ret = "error" THEN "restore" ELSE "zone",
                         n      |-> 1,
                         end    |-> IF first.ret = "success" \/ toEnd
                                      THEN first.end ELSE NextZone(m, a),
                         cross  |-> IF toEnd THEN Spill(p, first.end) ELSE {},
                         looked |-> IF toEnd THEN {p, q} ELSE {p},
                         probe  |-> a]
             s == TrapSearch(a, avail, closed)
             hole == (q \notin Pages \/ masters[q] = <<>>) /\ FoundProt(q) = "none"
  <1>1. /\ ~toEnd => s = onePage
        /\ toEnd /\ hole => s = [onePage EXCEPT !.ret = "fatal"]
        /\ toEnd /\ ~hole => \/ q \notin avail \/ CrossPage(first.end).ret = "error"
                             \/ s.n = 2
    BY DEF TrapSearch
  <1>2. p \in Int /\ p # q
    BY PageOfAddr DEF Pages
  <1>3. onePage.looked = IF toEnd THEN {p, q} ELSE {p}
    OBVIOUS
  <1>4. [onePage EXCEPT !.ret = "fatal"].ret = "fatal"
    OBVIOUS
  <1>5. toEnd => CrossPage(first.end).ret # "error"
    BY Crosses
  <1> HIDE DEF onePage, s, first, hole
  <1>6. toEnd
    <2>1. ~toEnd => s.looked = {p}
      BY <1>1, <1>3
    <2>2. q \in s.looked
      BY DEF s
    <2> QED
      BY <1>2, <2>1, <2>2
  <1>7. s.ret # "fatal"
    BY DEF s
  <1>8. ~hole
    BY <1>1, <1>4, <1>6, <1>7
  <1> QED
    BY <1>1, <1>5, <1>6, <1>8 DEF s

\* What a trap closes it has registered.
LEMMA ClosedMade ==
    ASSUME NEW a \in Addr, NEW l \in Lookups(a)
    PROVE  \A q \in l.closed : q \in l.avail /\ masters[q] = <<>>
  <1> DEFINE here == {q \in Pages : PageOf(a) <= q /\ q <= PageOf(a) + 1}
             old == {q \in here : masters[q] # <<>>}
             new == {q \in here \ old : Registrable(q)}
  <1>1. PICK made \in Succeeding("register", new) :
          l \in {[avail |-> old \cup made, closed |-> closed] :
                    closed \in Succeeding("close", made)}
    BY DEF Lookups
  <1>2. made \subseteq new
    BY DEF Succeeding
  <1>3. l.avail = old \cup made /\ l.closed \subseteq made
    BY <1>1 DEF Succeeding
  <1> QED
    BY <1>2, <1>3

\* The page that traps has a master copy; a page the trap makes is the next
\* one, it holds the text, may be executed, and is opened before the trap ends.
LEMMA TrapText ==
    ASSUME IInv, TInv, NEW a \in Addr, IsTrap(a), NEW l \in Lookups(a),
           TrapSearch(a, l.avail, l.closed).ret # "fatal"
    PROVE  /\ PageOf(a) \in Pages /\ masters[PageOf(a)] # <<>>
           /\ PageOf(a) \notin Made(l, TrapSearch(a, l.avail, l.closed))
           /\ \A q \in Made(l, TrapSearch(a, l.avail, l.closed)) :
                /\ q < PageOf(a) + TrapSearch(a, l.avail, l.closed).n
                /\ masters[q] = <<>> /\ Intact(q) /\ Executable(vma[q])
                /\ LastProt(a, l, TrapSearch(a, l.avail, l.closed)) = vma[q]
  <1> DEFINE p == PageOf(a)
             s == TrapSearch(a, l.avail, l.closed)
  <1>1. p \in Pages /\ a \in CellsOf(p) /\ TextInv(p) /\ p \in Int
    BY PageCells DEF TInv, Pages
  <1>2. mem[a] # prog[a]
    BY DEF IsTrap, Traps, TInv
  <1>3. masters[p] # <<>>
    BY <1>1, <1>2 DEF TextInv
  <1>4. TypeOK
    BY DEF IInv
  <1>5. ASSUME NEW q \in Made(l, s)
        PROVE  /\ q < p + s.n /\ masters[q] = <<>> /\ Intact(q)
               /\ Executable(vma[q]) /\ LastProt(a, l, s) = vma[q]
    <2>1. q \in s.looked /\ q \in l.avail /\ masters[q] = <<>>
      BY <1>5 DEF Made
    <2>2. q \in Pages /\ q = p + 1 /\ Registrable(q)
      BY <1>3, <2>1, LookedUp
    <2>3. TextInv(q)
      BY <2>2 DEF TInv
    <2>4. Intact(q)
      BY <2>1, <2>3 DEF TextInv, Intact
    <2>5. Executable(vma[q]) /\ vma[q] # "none"
      BY <2>2, <2>3 DEF TextInv, Registrable
    <2>6. s.n = 2
      BY <1>4, <2>1, <2>2, TrapLooksOn
    <2>7. LastProt(a, l, s) = FoundProt(q)
      BY <2>1, <2>2 DEF LastProt
    <2>8. FoundProt(q) = vma[q]
      BY <1>4, <2>2, <2>5, FoundProtHere DEF TypeOK
    <2> HIDE DEF s
    <2>9. q < p + s.n
      BY <1>1, <2>2, <2>6
    <2> QED
      BY <2>1, <2>4, <2>5, <2>7, <2>8, <2>9
  <1>6. p \notin Made(l, s)
    BY <1>3 DEF Made
  <1> QED
    BY <1>1, <1>3, <1>5, <1>6

\* The pages the trap made are opened; the others keep what they are.
LEMMA TrapPageText ==
    ASSUME IInv, TInv, NEW a \in Addr, IsTrap(a), NEW l \in Lookups(a), NEW s,
           s = TrapSearch(a, l.avail, l.closed), s.ret # "fatal",
           AllowMade(a, l, s), vma' = vma, prog' = prog,
           NEW q \in Pages, masters'[q] = Register(Made(l, s))[q],
           \A b \in CellsOf(q) : \/ mem'[b] = Closing(mem, l.closed \cap s.looked)[b]
                                 \/ mem'[b] = MasterView[b]
    PROVE  TextInv(q)'
  <1> DEFINE M == Made(l, s)
             w == Writable(LastProt(a, l, s))
  <1>1. q \in M => /\ q < PageOf(a) + s.n
                   /\ masters[q] = <<>> /\ Intact(q) /\ Executable(vma[q])
                   /\ LastProt(a, l, s) = vma[q]
    BY TrapText
  <1>2. w \in BOOLEAN
    BY DEF Writable
  <1>3. pte'[q] = IF q \in M THEN Allowed(pte[q], w) ELSE pte[q]
    BY <1>1 DEF AllowMade
  <1>4. q \in M => (pte[q].write => w) /\ (vma[q] = "wx" => w)
    BY <1>1 DEF IInv, PageInv, Writable
  <1>5. \A b \in CellsOf(q) : \/ mem'[b] = mem[b]
                              \/ mem'[b] = prog[b]
                              \/ q \in M /\ mem'[b] = INV
    <2> TAKE b \in CellsOf(q)
    <2>1. b \in Addr /\ PageOf(b) = q
      BY DEF CellsOf
    <2>2. MasterView[b] = prog[b]
      BY <2>1, ViewIsText DEF IInv
    <2>3. q \in l.closed \cap s.looked => q \in M
      BY ClosedMade DEF Made
    <2> QED
      BY <2>1, <2>2, <2>3 DEF Closing
  <1>6. TextInv(q)
    BY DEF TInv
  <1> HIDE DEF M, w
  <1>7. masters'[q] = Register(M)[q]
    BY DEF M
  <1> QED
    BY <1>1, <1>2, <1>3, <1>4, <1>5, <1>6, <1>7, PageOpens

LEMMA TrapOpenZoneText ==
    ASSUME IInv, TInv, TrapOpenZone
    PROVE  TInv'
  <1>1. PICK a \in Addr :
          /\ IsTrap(a)
          /\ \E l \in Lookups(a) : \E s \in {TrapSearch(a, l.avail, l.closed)} :
             \E zone \in {{b \in Addr : a <= b /\ b < TrapEnd(a, s)}},
                m \in {Closing(mem, l.closed \cap s.looked)} :
               /\ PageOf(a) \in l.avail
               /\ s.ret = "zone"
               /\ MasterView[a] # INV
               /\ cross' = cross \cup s.cross
               /\ masters' = Register(Made(l, s))
               /\ mem' = [b \in Addr |-> IF b \in zone THEN MasterView[b] ELSE m[b]]
               /\ verified' = verified \cup zone
               /\ AllowMade(a, l, s)
          /\ UNCHANGED <<vma, pc, alive, changes, prog>>
    BY DEF TrapOpenZone
  <1>0. a \in Addr /\ IsTrap(a)
    BY <1>1
  <1>2. PICK l \in Lookups(a) : \E s \in {TrapSearch(a, l.avail, l.closed)} :
             \E zone \in {{b \in Addr : a <= b /\ b < TrapEnd(a, s)}},
                m \in {Closing(mem, l.closed \cap s.looked)} :
               /\ s.ret = "zone"
               /\ masters' = Register(Made(l, s))
               /\ mem' = [b \in Addr |-> IF b \in zone THEN MasterView[b] ELSE m[b]]
               /\ AllowMade(a, l, s)
    BY <1>1, ZenonT(30)
  <1>3. PICK s \in {TrapSearch(a, l.avail, l.closed)} :
             \E zone \in {{b \in Addr : a <= b /\ b < TrapEnd(a, s)}},
                m \in {Closing(mem, l.closed \cap s.looked)} :
               /\ s.ret = "zone"
               /\ masters' = Register(Made(l, s))
               /\ mem' = [b \in Addr |-> IF b \in zone THEN MasterView[b] ELSE m[b]]
               /\ AllowMade(a, l, s)
    BY <1>2
  <1>4. PICK zone : mem' = [b \in Addr |-> IF b \in zone THEN MasterView[b]
                                           ELSE Closing(mem, l.closed \cap s.looked)[b]]
    BY <1>3
  <1>5. /\ s = TrapSearch(a, l.avail, l.closed) /\ s.ret # "fatal"
        /\ AllowMade(a, l, s) /\ masters' = Register(Made(l, s))
        /\ vma' = vma /\ prog' = prog
    BY <1>1, <1>3
  <1>6. \A q \in Pages : \A b \in CellsOf(q) :
          \/ mem'[b] = Closing(mem, l.closed \cap s.looked)[b]
          \/ mem'[b] = MasterView[b]
    BY <1>4 DEF CellsOf
  <1>7. ASSUME NEW q \in Pages
        PROVE  TextInv(q)'
    <2>1. /\ masters'[q] = Register(Made(l, s))[q]
          /\ \A b \in CellsOf(q) : \/ mem'[b] = Closing(mem, l.closed \cap s.looked)[b]
                                  \/ mem'[b] = MasterView[b]
      BY <1>5, <1>6
    <2> QED
      BY ONLY IInv, TInv, <1>0, <1>5, <2>1, q \in Pages, TrapPageText
  <1> QED
    BY <1>5, <1>7 DEF TInv

LEMMA TrapRestorePageText ==
    ASSUME IInv, TInv, TrapRestorePage
    PROVE  TInv'
  <1>1. PICK a \in Addr :
          /\ IsTrap(a)
          /\ \E l \in Lookups(a) : \E s \in {TrapSearch(a, l.avail, l.closed)} :
             \E p \in {PageOf(a)}, m \in {Closing(mem, l.closed \cap s.looked)} :
               /\ p \in l.avail
               /\ \/ s.ret = "restore" /\ ~FillerAt(p, s.probe)
                  \/ s.ret = "zone" /\ MasterView[a] # INV /\ "write" \in Failures
               /\ cross' = cross \cup s.cross \cup {<<p, "start">>, <<p, "end">>}
               /\ masters' = [Register(Made(l, s)) EXCEPT ![p] = Tail(@)]
               /\ mem' = [b \in Addr |-> IF PageOf(b) = p THEN MasterView[b] ELSE m[b]]
               /\ verified' = verified \cup CellsOf(p)
               /\ AllowMade(a, l, s)
          /\ UNCHANGED <<vma, pc, alive, changes, prog>>
    BY DEF TrapRestorePage
  <1> DEFINE p == PageOf(a)
  <1>0. a \in Addr /\ IsTrap(a)
    BY <1>1
  <1>2. PICK l \in Lookups(a) :
          \E s \in {TrapSearch(a, l.avail, l.closed)} :
             \E r \in {PageOf(a)}, m \in {Closing(mem, l.closed \cap s.looked)} :
               /\ r \in l.avail
               /\ \/ s.ret = "restore" /\ ~FillerAt(r, s.probe)
                  \/ s.ret = "zone" /\ MasterView[a] # INV /\ "write" \in Failures
               /\ cross' = cross \cup s.cross \cup {<<r, "start">>, <<r, "end">>}
               /\ masters' = [Register(Made(l, s)) EXCEPT ![r] = Tail(@)]
               /\ mem' = [b \in Addr |-> IF PageOf(b) = r THEN MasterView[b] ELSE m[b]]
               /\ verified' = verified \cup CellsOf(r)
               /\ AllowMade(a, l, s)
    BY <1>1
  <1>3. PICK s \in {TrapSearch(a, l.avail, l.closed)} :
          \E r \in {PageOf(a)}, m \in {Closing(mem, l.closed \cap s.looked)} :
            /\ s.ret = "restore" \/ s.ret = "zone"
            /\ masters' = [Register(Made(l, s)) EXCEPT ![r] = Tail(@)]
            /\ mem' = [b \in Addr |-> IF PageOf(b) = r THEN MasterView[b] ELSE m[b]]
            /\ AllowMade(a, l, s)
    BY <1>2
  <1>4. /\ s = TrapSearch(a, l.avail, l.closed) /\ s.ret # "fatal"
        /\ masters' = [Register(Made(l, s)) EXCEPT ![p] = Tail(@)]
        /\ mem' = [b \in Addr |-> IF PageOf(b) = p THEN MasterView[b]
                                  ELSE Closing(mem, l.closed \cap s.looked)[b]]
        /\ AllowMade(a, l, s)
        /\ vma' = vma /\ prog' = prog
    BY <1>1, <1>3, ZenonT(30)
  <1>5. p \in Pages /\ masters[p] # <<>> /\ p \notin Made(l, s)
    BY <1>1, <1>4, TrapText
  <1>6. TextInv(p)'
    <2>1. masters'[p] = Tail(masters[p])
      BY <1>4, <1>5 DEF Register
    <2>2. pte'[p] = pte[p]
      BY <1>4, <1>5 DEF AllowMade
    <2>3. \A b \in CellsOf(p) : mem'[b] = prog[b]
      BY <1>4, ViewIsText DEF IInv, CellsOf
    <2>4. TextInv(p)
      BY <1>5 DEF TInv
    <2> HIDE DEF p
    <2> QED
      BY <1>4, <1>5, <2>1, <2>2, <2>3, <2>4, PageRestored
  <1>7. ASSUME NEW q \in Pages, q # p
        PROVE  TextInv(q)'
    <2>1. masters'[q] = Register(Made(l, s))[q]
      BY <1>4, <1>7 DEF Register
    <2>2. \A b \in CellsOf(q) : \/ mem'[b] = Closing(mem, l.closed \cap s.looked)[b]
                               \/ mem'[b] = MasterView[b]
      BY <1>4, <1>7 DEF CellsOf
    <2> QED
      BY ONLY IInv, TInv, <1>0, <1>4, <2>1, <2>2, q \in Pages, TrapPageText, ZenonT(30)
  <1> QED
    BY <1>4, <1>6, <1>7 DEF TInv

-----------------------------------------------------------------------------
(* What the process does by itself.                                        *)

\* A page without a master copy that holds the text and is closed.
LEMMA ClosedText ==
    ASSUME NEW q \in Pages, masters'[q] = <<>>, pte'[q].exeDeny, ~pte'[q].check,
           ~Executable(vma'[q]) => ~pte'[q].origExe,
           \A b \in CellsOf(q) : mem'[b] = prog'[b]
    PROVE  TextInv(q)'
  <1>1. Len(masters'[q]) <= 1 /\ DOMAIN masters'[q] = {}
    <2>1. Len(<<>>) <= 1 /\ DOMAIN <<>> = {}
      OBVIOUS
    <2> QED
      BY <2>1, Zenon
  <1> QED
    BY <1>1 DEF TextInv, Intact, CellsOf

\* A page nothing happens to.
LEMMA SameText ==
    ASSUME NEW q \in Pages, TextInv(q),
           masters'[q] = masters[q], pte'[q] = pte[q], vma'[q] = vma[q],
           \A b \in CellsOf(q) : mem'[b] = mem[b] /\ prog'[b] = prog[b]
    PROVE  TextInv(q)'
  <1>1. Content(prog', q) = Content(prog, q)
    BY DEF Content
  <1>2. Content(prog, q)' = Content(prog', q)
    BY DEF Content, CellsOf
  <1> QED
    BY <1>1, <1>2 DEF TextInv, Intact, CellsOf

\* What a store leaves of the pages: the one it hits holds the new text.
Rewritten ==
    \E p \in Pages :
      /\ \A b \in CellsOf(p) : mem'[b] = prog'[b]
      /\ \A q \in Pages \ {p} : \A b \in CellsOf(q) :
           mem'[b] = mem[b] /\ prog'[b] = prog[b]

\* A store to a page that holds the text and lost its master copy.
LEMMA StoreText ==
    ASSUME IInv, TInv, Plain, NEW a \in Addr, NEW c \in Stored, NEW base \in [Addr -> Cell],
           Written(a, c, base), vma' = vma,
           \A q \in Pages \ {PageOf(a)} :
             /\ masters'[q] = masters[q] /\ pte'[q] = pte[q]
             /\ \A b \in CellsOf(q) : base[b] = mem[b],
           \A b \in CellsOf(PageOf(a)) : base[b] = prog[b],
           masters'[PageOf(a)] = <<>>,
           pte'[PageOf(a)].exeDeny, ~pte'[PageOf(a)].check,
           ~Executable(vma[PageOf(a)]) => ~pte'[PageOf(a)].origExe
    PROVE  TInv' /\ Rewritten
  <1> DEFINE p == PageOf(a)
  <1>1. p \in Pages /\ a \in CellsOf(p) /\ prog \in [Addr -> Cell]
    BY PageCells DEF IInv, TypeOK
  <1>2. \A b \in Addr : /\ mem'[b] = IF b = a THEN c ELSE base[b]
                        /\ prog'[b] = IF b = a THEN c ELSE prog[b]
    BY <1>1 DEF Written
  <1>3. \A b \in CellsOf(p) : b \in Addr
    BY DEF CellsOf
  <1>4. TextInv(p)'
    <2>1. \A b \in CellsOf(p) : mem'[b] = prog'[b]
      BY <1>2, <1>3
    <2> HIDE DEF p
    <2>2. /\ masters'[p] = <<>> /\ pte'[p].exeDeny /\ ~pte'[p].check
          /\ ~Executable(vma'[p]) => ~pte'[p].origExe
      BY DEF p
    <2> QED
      BY <1>1, <2>1, <2>2, ClosedText
  <1>5. ASSUME NEW q \in Pages, q # p
        PROVE  TextInv(q)'
    <2>1. TextInv(q) /\ masters'[q] = masters[q] /\ pte'[q] = pte[q] /\ vma'[q] = vma[q]
      BY <1>5 DEF TInv
    <2>2. \A b \in CellsOf(q) : mem'[b] = mem[b] /\ prog'[b] = prog[b]
      BY <1>2, <1>5 DEF CellsOf
    <2> QED
      BY <2>1, <2>2, SameText
  <1>6. \A b \in Addr : prog'[b] \notin Illegal
    BY <1>2 DEF TInv, Plain
  <1>7. Rewritten
    BY <1>1, <1>2, <1>3 DEF Rewritten, CellsOf
  <1> QED
    BY <1>4, <1>5, <1>6, <1>7 DEF TInv

LEMMA StoreDirectText ==
    ASSUME IInv, TInv, Plain, StoreDirect
    PROVE  TInv' /\ Rewritten
  <1>1. PICK a \in Addr, c \in Stored :
          /\ Changing
          /\ Writable(vma[PageOf(a)]) /\ pte[PageOf(a)].write
          /\ Written(a, c, mem)
          /\ UNCHANGED <<vma, pte, masters, cross, pc, alive>>
    BY DEF StoreDirect
  <1> DEFINE p == PageOf(a)
  <1>2. p \in Pages /\ TextInv(p) /\ mem \in [Addr -> Cell]
    BY PageCells DEF IInv, TInv, TypeOK
  <1>3. pte[p].exeDeny /\ ~pte[p].check
    BY <1>1, <1>2 DEF IInv, PageInv
  <1>4. Intact(p) /\ masters[p] = <<>> /\ (~Executable(vma[p]) => ~pte[p].origExe)
    BY <1>1, <1>2, <1>3 DEF TextInv, Writable, Executable
  <1>5. /\ Written(a, c, mem) /\ vma' = vma /\ pte' = pte /\ masters' = masters
        /\ \A b \in CellsOf(p) : mem[b] = prog[b]
    BY <1>1, <1>4 DEF Intact
  <1> QED
    BY <1>2, <1>3, <1>4, <1>5, StoreText

LEMMA StoreFaultWXText ==
    ASSUME IInv, TInv, Plain, StoreFaultWX
    PROVE  TInv' /\ Rewritten
  <1>1. PICK a \in Addr, c \in Stored :
          LET p      == PageOf(a)
              before == pte[p]
              back   == WasClosed(before, masters[p])
          IN
          /\ Changing
          /\ vma[p] = "wx" /\ ~before.write
          /\ Written(a, c, IF back
                             THEN [b \in Addr |-> IF PageOf(b) = p
                                     THEN Head(masters[p])[b] ELSE mem[b]]
                             ELSE mem)
          /\ masters' = IF back THEN [masters EXCEPT ![p] = Tail(@)] ELSE masters
          /\ \E granted \in Granted(before) :
               pte' = [pte EXCEPT ![p] = AfterStore(granted)]
          /\ UNCHANGED <<vma, cross, pc, alive>>
    BY DEF StoreFaultWX
  <1> DEFINE p == PageOf(a)
             back == WasClosed(pte[p], masters[p])
             base == IF back
                       THEN [b \in Addr |-> IF PageOf(b) = p
                               THEN Head(masters[p])[b] ELSE mem[b]]
                       ELSE mem
  <1>2. /\ p \in Pages /\ TextInv(p) /\ TypeOK /\ mem \in [Addr -> Cell]
        /\ pte \in [Pages -> PteFlags] /\ DOMAIN masters = Pages
    BY PageCells DEF IInv, TInv, TypeOK
  <1>3. /\ Written(a, c, base) /\ vma' = vma /\ vma[p] = "wx"
        /\ masters' = IF back THEN [masters EXCEPT ![p] = Tail(masters[p])] ELSE masters
    BY <1>1
  <1>4. PICK granted : /\ granted \in Granted(pte[p])
                       /\ pte' = [pte EXCEPT ![p] = AfterStore(granted)]
    BY <1>1
  <1>5. /\ pte'[p].exeDeny /\ ~pte'[p].check
        /\ \A q \in Pages \ {p} : pte'[q] = pte[q]
    <2>1. pte[p] \in PteFlags
      BY <1>2
    <2>2. granted \in PteFlags
      BY <1>4, <2>1 DEF Granted, PteFlags
    <2>3. AfterStore(granted).exeDeny /\ ~AfterStore(granted).check
      BY <2>2 DEF AfterStore, PteFlags
    <2> QED
      BY <1>2, <1>4, <2>3
  <1>6. /\ masters[p] # <<>> => Tail(masters[p]) = <<>>
        /\ masters[p] # <<>> => Head(masters[p]) = Content(prog, p)
        /\ masters[p] # <<>> => Head(masters[p]) \in [CellsOf(p) -> Cell]
    <2> DEFINE m == masters[p]
               C == [CellsOf(p) -> Cell]
    <2>1. m \in Seq(C) /\ Len(m) <= 1
      BY <1>2, <1>3 DEF TextInv, TypeOK
    <2>2. m # <<>> => 1 \in DOMAIN m /\ Head(m) = m[1]
      BY <1>2, CopiesTyped
    <2>3. \A i \in DOMAIN m : m[i] = Content(prog, p)
      BY <1>2 DEF TextInv
    <2> HIDE DEF m, C
    <2>4. m # <<>> => Tail(m) \in Seq(C) /\ Len(Tail(m)) = Len(m) - 1 /\ Len(m) \in Nat
                      /\ Head(m) \in C
      BY <2>1, HeadTailProperties
    <2>5. m # <<>> => Len(Tail(m)) <= 0
      BY <2>1, <2>4
    <2>6. \A x \in Seq(C) : x # <<>> => Len(x) \in Nat \ {0}
      BY EmptySeq
    <2>7. m # <<>> => Tail(m) = <<>>
      BY <2>4, <2>5, <2>6
    <2> QED
      BY <2>2, <2>3, <2>4, <2>7 DEF m, C
  <1>7. masters[p] # <<>> => back
    BY <1>2, <1>3 DEF TextInv, WasClosed
  <1>8. /\ base \in [Addr -> Cell]
        /\ \A b \in Addr : PageOf(b) # p => base[b] = mem[b]
        /\ \A b \in CellsOf(p) : base[b] = prog[b]
    <2>1. CASE masters[p] # <<>>
      BY <1>2, <1>6, <1>7, <2>1 DEF CellsOf, Content
    <2>2. CASE masters[p] = <<>>
      <3>1. base = mem
        BY <2>2 DEF WasClosed
      <3>2. \A b \in CellsOf(p) : mem[b] = prog[b]
        BY <1>2, <2>2 DEF TextInv
      <3> HIDE DEF base
      <3> QED
        BY <1>2, <3>1, <3>2
    <2> QED
      BY <2>1, <2>2
  <1>9. masters'[p] = <<>> /\ \A q \in Pages \ {p} : masters'[q] = masters[q]
    <2>1. CASE masters[p] # <<>>
      BY <1>2, <1>3, <1>6, <1>7, <2>1
    <2>2. CASE masters[p] = <<>>
      BY <1>3, <2>2 DEF WasClosed
    <2> QED
      BY <2>1, <2>2
  <1>10. Executable(vma[p])
    BY <1>3 DEF Executable
  <1> HIDE DEF base, back
  <1>11. \A q \in Pages \ {p} : /\ masters'[q] = masters[q] /\ pte'[q] = pte[q]
                                /\ \A b \in CellsOf(q) : base[b] = mem[b]
    BY <1>5, <1>8, <1>9 DEF CellsOf
  <1> QED
    BY <1>3, <1>5, <1>8, <1>9, <1>10, <1>11, StoreText

LEMMA StoreFaultWText ==
    ASSUME IInv, TInv, Plain, StoreFaultW
    PROVE  TInv' /\ Rewritten
  <1>1. PICK a \in Addr, c \in Stored :
          /\ Changing
          /\ vma[PageOf(a)] = "w" /\ ~pte[PageOf(a)].write
          /\ Written(a, c, mem)
          /\ \E granted \in Granted(pte[PageOf(a)]) :
               pte' = [pte EXCEPT ![PageOf(a)] = granted]
          /\ UNCHANGED <<vma, masters, cross, pc, alive>>
    BY DEF StoreFaultW
  <1> DEFINE p == PageOf(a)
  <1>2. /\ p \in Pages /\ TextInv(p) /\ mem \in [Addr -> Cell]
        /\ pte \in [Pages -> PteFlags]
    BY PageCells DEF IInv, TInv, TypeOK
  <1>3. /\ masters[p] = <<>> /\ pte[p].exeDeny /\ ~pte[p].check /\ ~pte[p].origExe
        /\ Intact(p)
    BY <1>1, <1>2 DEF TextInv, Executable
  <1>4. /\ pte'[p].exeDeny /\ ~pte'[p].check /\ ~pte'[p].origExe
        /\ \A q \in Pages \ {p} : pte'[q] = pte[q]
    <2>1. pte[p] \in PteFlags
      BY <1>2
    <2>2. \A g \in Granted(pte[p]) : g.exeDeny /\ ~g.check /\ ~g.origExe
      BY <1>3, <2>1 DEF Granted, PteFlags
    <2> QED
      BY <1>1, <1>2, <2>2
  <1>5. /\ Written(a, c, mem) /\ vma' = vma /\ masters' = masters
        /\ \A b \in CellsOf(p) : mem[b] = prog[b]
    BY <1>1, <1>3 DEF Intact
  <1> QED
    BY <1>2, <1>3, <1>4, <1>5, StoreText

LEMMA MprotectText ==
    ASSUME IInv, TInv, Plain, Mprotect
    PROVE  TInv'
  <1>1. PICK t \in Transitions, write \in BOOLEAN :
          /\ Changing
          /\ vma[t[1]] = t[2]
          /\ vma' = [vma EXCEPT ![t[1]] = t[3]]
          /\ pte' = [pte EXCEPT ![t[1]] =
                       [exeDeny   |-> TRUE,
                        check     |-> pte[t[1]].check,
                        origExe   |-> Executable(t[3]),
                        origWrite |-> FALSE,
                        write     |-> write]]
          /\ UNCHANGED <<mem, masters, cross, pc, alive, prog, verified>>
    BY DEF Mprotect
  <1> DEFINE p == t[1]
  <1>2. p \in Pages /\ t[3] \in {"x", "wx"} /\ vma[p] = "w"
    BY <1>1, PageAssumption DEF Plain
  <1>3. /\ TextInv(p) /\ vma \in [Pages -> Prot] /\ pte \in [Pages -> PteFlags]
    BY <1>2 DEF IInv, TInv, TypeOK
  <1>4. masters[p] = <<>> /\ ~pte[p].check /\ Intact(p)
    BY <1>2, <1>3 DEF TextInv, Executable
  <1>5. TextInv(p)'
    <2>1. vma'[p] = t[3] /\ Executable(vma'[p])
      BY <1>1, <1>2, <1>3 DEF Executable
    <2>2. pte'[p].exeDeny /\ ~pte'[p].check
      BY <1>1, <1>2, <1>3, <1>4
    <2>3. masters'[p] = <<>> /\ \A b \in CellsOf(p) : mem'[b] = prog'[b]
      BY <1>1, <1>4 DEF Intact
    <2> HIDE DEF p
    <2> QED
      BY <1>2, <2>1, <2>2, <2>3, ClosedText
  <1>6. ASSUME NEW q \in Pages, q # p
        PROVE  TextInv(q)'
    <2>1. TextInv(q) /\ masters'[q] = masters[q] /\ pte'[q] = pte[q] /\ vma'[q] = vma[q]
      BY <1>1, <1>3, <1>6 DEF TInv
    <2>2. \A b \in CellsOf(q) : mem'[b] = mem[b] /\ prog'[b] = prog[b]
      BY <1>1
    <2> QED
      BY <2>1, <2>2, SameText
  <1>7. prog' = prog
    BY <1>1
  <1> QED
    BY <1>5, <1>6, <1>7 DEF TInv

LEMMA StutterText ==
    ASSUME TInv, UNCHANGED <<vma, pte, mem, masters, prog>>
    PROVE  TInv'
  <1>1. \A q \in Pages : TextInv(q)'
    BY SameText DEF TInv
  <1> QED
    BY <1>1 DEF TInv

-----------------------------------------------------------------------------
(* The specification.                                                      *)

LEMMA InitText ==
    ASSUME Plain, Init
    PROVE  TInv
  <1>1. PICK untouched \in SUBSET {p \in Pages : ~Executable(InitProt[p])} :
          pte = [p \in Pages |-> [MappedPte(InitProt[p]) EXCEPT
                                    !.write = @ /\ p \notin untouched]]
    BY DEF Init
  <1>2. \A p \in Pages : /\ pte[p].exeDeny /\ ~pte[p].check
                         /\ pte[p].origExe = Executable(InitProt[p])
    BY <1>1 DEF MappedPte
  <1>3. ASSUME NEW p \in Pages
        PROVE  TextInv(p)
    <2>1. masters[p] = <<>> /\ vma = InitProt
      BY DEF Init
    <2>2. Len(<<>>) <= 1 /\ DOMAIN <<>> = {}
      OBVIOUS
    <2>3. Len(masters[p]) <= 1 /\ DOMAIN masters[p] = {}
      BY <2>1, <2>2, Zenon
    <2>4. \A a \in CellsOf(p) : mem[a] = prog[a]
      BY DEF Init
    <2> QED
      BY <1>2, <2>1, <2>3, <2>4 DEF TextInv, Intact
  <1>4. \A a \in Addr : prog[a] \notin Illegal
    BY DEF Init, Plain
  <1> QED
    BY <1>3, <1>4 DEF TInv

LEMMA NextText ==
    ASSUME IInv, TInv, Plain, Next
    PROVE  TInv'
  <1>1. Die \/ Enter \/ Execute \/ Exit => UNCHANGED <<vma, pte, mem, masters, prog>>
    BY DEF Die, Enter, Execute, Exit, hidden
  <1>2. CASE FetchFault
    <2>1. FetchFatal \/ FetchRejected => Die
      BY DEF FetchFatal, FetchRejected
    <2> QED
      BY <1>1, <1>2, <2>1, StutterText, FetchAlreadyCheckedText, FetchOpenZoneText,
         FetchDisassemblerErrorText, FetchPageCheckText DEF FetchFault
  <1>3. CASE InvalidOpcode
    <2>1. TrapFatal => Die
      BY DEF TrapFatal
    <2> QED
      BY <1>1, <1>3, <2>1, StutterText, TrapOpenZoneText, TrapRestorePageText DEF InvalidOpcode
  <1>4. CASE Process
    <2>1. ~Remap
      BY DEF Remap, Plain
    <2> QED
      BY <1>1, <1>4, <2>1, StutterText, StoreDirectText, StoreFaultWXText, StoreFaultWText,
         MprotectText DEF Process
  <1> QED
    BY <1>2, <1>3, <1>4 DEF Next

LEMMA PlainSealed ==
    ASSUME Plain
    PROVE  Sealed
  BY DEF Plain, Sealed

LEMMA TextHolds ==
    ASSUME Plain
    PROVE  Spec => [](IInv /\ TInv)
  <1>1. Spec => []IInv
    BY PlainSealed, InvariantHolds
  <1>2. Init => TInv
    BY InitText
  <1>3. IInv /\ TInv /\ [Next]_vars => TInv'
    <2>1. ASSUME IInv, TInv, UNCHANGED vars
          PROVE  TInv'
      BY <2>1, StutterText DEF vars
    <2> QED
      BY <2>1, NextText
  <1> QED
    BY <1>1, <1>2, <1>3, PTL DEF Spec

\* Nothing a handler does costs the process a byte of its text, whichever steps
\* fail: a byte that is not the program's is the filler, and the newest master
\* copy of its page, the one the next trap or store restores it from, holds the
\* program's (register_page, fprobes_helper.c:210-313; fprober_invalid_op.c:833-882;
\* fprober_handle_mm.c:256-316).
THEOREM TextIsKept ==
    ASSUME Plain
    PROVE  Spec => []NothingLost
  <1>1. IInv /\ TInv => NothingLost
    <2> SUFFICES ASSUME IInv, TInv, NEW a \in Addr, mem[a] # prog[a]
                 PROVE  /\ mem[a] = INV
                        /\ masters[PageOf(a)] # <<>>
                        /\ Head(masters[PageOf(a)])[a] = prog[a]
      BY DEF NothingLost
    <2> DEFINE p == PageOf(a)
    <2>1. p \in Pages /\ a \in CellsOf(p) /\ TextInv(p) /\ TypeOK
      BY PageCells DEF IInv, TInv
    <2>2. mem[a] = INV /\ masters[p] # <<>>
      BY <2>1 DEF TextInv
    <2>3. Head(masters[p]) = Content(prog, p)
      BY <2>1, <2>2, CopiesTyped DEF TextInv
    <2> QED
      BY <2>1, <2>2, <2>3 DEF Content
  <1> QED
    BY <1>1, TextHolds, PTL

\* A page the process can store to without a fault holds its own bytes: no
\* store the module does not see lands on the filler, where a later restore
\* would undo it (fprober_handle_mm.c:30-147, 256-316).
THEOREM StoresHitTheText ==
    ASSUME Plain
    PROVE  Spec => []WritableIntact
  <1>1. IInv /\ TInv => WritableIntact
    <2> SUFFICES ASSUME IInv, TInv, NEW a \in Addr, pte[PageOf(a)].write
                 PROVE  mem[a] = prog[a]
      BY DEF WritableIntact
    <2>1. PageOf(a) \in Pages /\ a \in CellsOf(PageOf(a)) /\ TextInv(PageOf(a))
      BY PageCells DEF TInv
    <2> QED
      BY <2>1 DEF IInv, PageInv, TextInv, Intact
  <1> QED
    BY <1>1, TextHolds, PTL

-----------------------------------------------------------------------------
(* The promise of CheckedText.                                             *)

\* The filler is no byte of the text, of a mapping or of a store.
NoFiller ==
    /\ \A a \in Addr : Text[a] # INV /\ FreshText[a] # INV
    /\ INV \notin Stored

OwnBytes == \A a \in Addr : prog[a] # INV

LEMMA PageBegins ==
    ASSUME NEW p \in Pages
    PROVE  PageBase(p) \in CellsOf(p)
  <1>1. /\ NumPages \in Nat /\ PageSize \in Nat /\ PageSize > 3
        /\ p \in Nat /\ p + 1 <= NumPages
    BY PageAssumption DEF Pages, MaxInstr
  <1>2. /\ p * PageSize \in Nat /\ p * PageSize < NumPages * PageSize
        /\ NumPages * PageSize \in Nat
    <2>1. (p + 1) * PageSize <= NumPages * PageSize
      BY <1>1, Z3
    <2> QED
      BY <1>1, <2>1, Z3
  <1>3. (p * PageSize) \div PageSize = p
    BY <1>1, Z3
  <1>4. p * PageSize \in Addr
    <2> DEFINE top == NumPages * PageSize
               a == p * PageSize
    <2>1. a \in Nat /\ a < top /\ top \in Nat
      BY <1>2
    <2> HIDE DEF top, a
    <2>2. a \in 0..top - 1
      BY <2>1
    <2> QED
      BY <2>2 DEF Addr, top, a
  <1> QED
    BY <1>3, <1>4 DEF PageBase, CellsOf, PageOf

\* A store or a new mapping changes one page and takes its check back.
LEMMA ChangeAllowed ==
    ASSUME NEW a \in Addr, pc = Idle, pc' = pc, prog' \in [Addr -> Cell],
           \A b \in Addr \ CellsOf(PageOf(a)) : prog'[b] = prog[b],
           verified' = verified \ CellsOf(PageOf(a))
    PROVE  Promise!Change
  BY DEF Promise!Change

\* What changes the process: its stores and mappings.
LEMMA ChangeKept ==
    ASSUME IInv, StoreDirect \/ StoreFaultWX \/ StoreFaultW \/ Remap
    PROVE  Promise!Change
  <1>1. prog \in [Addr -> Cell]
    BY DEF IInv, TypeOK
  <1>2. ASSUME NEW a \in Addr, NEW c \in Stored, NEW base, Written(a, c, base),
               Changing, pc' = pc
        PROVE  Promise!Change
    <2>1. /\ prog' = [prog EXCEPT ![a] = c]
          /\ verified' = verified \ CellsOf(PageOf(a))
      BY <1>2 DEF Written
    <2>2. prog' \in [Addr -> Cell] /\ a \in CellsOf(PageOf(a)) /\ pc = Idle
      BY <1>1, <1>2, <2>1, PageAssumption, PageCells DEF Changing
    <2>3. \A b \in Addr \ CellsOf(PageOf(a)) : prog'[b] = prog[b]
      BY <1>1, <2>1, <2>2
    <2> QED
      BY <1>2, <2>1, <2>2, <2>3, ChangeAllowed
  <1>3. StoreDirect => Promise!Change
    BY <1>2 DEF StoreDirect
  <1>4. StoreFaultWX => Promise!Change
    BY <1>2 DEF StoreFaultWX
  <1>5. StoreFaultW => Promise!Change
    BY <1>2 DEF StoreFaultW
  <1>6. ASSUME Remap
        PROVE  Promise!Change
    <2>1. PICK p \in Remapped :
            /\ Changing
            /\ prog' = [a \in Addr |-> IF PageOf(a) = p THEN FreshText[a] ELSE prog[a]]
            /\ verified' = verified \ CellsOf(p)
            /\ pc' = pc
      BY <1>6 DEF Remap
    <2>2. PageBase(p) \in Addr /\ PageOf(PageBase(p)) = p
      BY PageBegins, PageAssumption DEF CellsOf
    <2>3. prog' \in [Addr -> Cell] /\ pc = Idle
      BY <1>1, <2>1, PageAssumption DEF Changing
    <2>4. \A b \in Addr \ CellsOf(p) : prog'[b] = prog[b]
      BY <2>1 DEF CellsOf
    <2> QED
      BY <2>1, <2>2, <2>3, <2>4, ChangeAllowed
  <1> QED
    BY <1>3, <1>4, <1>5, <1>6

\* An instruction that runs whole was checked whole.
LEMMA RunKept ==
    ASSUME IInv, Closes, OwnBytes, WholeInstructions, Execute
    PROVE  Promise!Run
  <1>1. pc \in Addr /\ pc # Idle /\ Runs(pc) /\ UNCHANGED <<prog, verified>>
    BY DEF Execute, hidden, IInv, TypeOK
  <1>2. pc \in InstrCells(pc)
    <2>1. pc \in Int /\ InstrLen(mem[pc]) >= 1 /\ InstrLen(mem[pc]) \in Nat
      BY <1>1 DEF Addr, InstrLen
    <2> QED
      BY <1>1, <2>1 DEF InstrCells
  <1>3. mem[pc] = prog[pc] /\ \A b \in InstrCells(pc) : mem[b] = prog[b]
    BY <1>1, <1>2 DEF WholeInstructions
  <1>4. prog[pc] \notin Illegal
    BY <1>1, <1>3 DEF Runs, Faults, Traps
  <1>5. \A b \in InstrCells(pc) : b \in verified
    <2> TAKE b \in InstrCells(pc)
    <2>1. b \in Addr /\ mem[b] # INV
      BY <1>3 DEF InstrCells, OwnBytes
    <2>2. ~pte[PageOf(b)].exeDeny
      BY <1>1 DEF Runs, Faults, Denied
    <2> QED
      BY <2>1, <2>2, PageCells DEF IInv, PageInv
  <1>6. \A b \in Addr : pc <= b /\ b < pc + InstrLen(prog[pc]) => b \in verified
    BY <1>3, <1>5 DEF InstrCells
  <1>7. IF prog[pc] \in Control THEN pc' \in Addr \cup {Idle}
        ELSE pc' \in {pc + InstrLen(prog[pc]), Idle}
    BY <1>3 DEF Execute, Entries
  <1>8. Promise!InstrLen(prog[pc]) = InstrLen(prog[pc])
    BY DEF Promise!InstrLen, InstrLen
  <1> QED
    BY <1>1, <1>4, <1>6, <1>7, <1>8 DEF Promise!Run

\* The handlers only add to what was checked.
LEMMA CheckKept ==
    ASSUME IInv, IInv',
           \/ FetchAlreadyChecked \/ FetchOpenZone
           \/ FetchDisassemblerError \/ FetchPageCheck
           \/ TrapOpenZone \/ TrapRestorePage
    PROVE  Promise!Check
  <1>1. verified \subseteq verified' /\ pc' = pc /\ prog' = prog
    <2>1. CASE FetchAlreadyChecked
      BY <2>1 DEF FetchAlreadyChecked, hidden
    <2>2. CASE FetchOpenZone
      BY <2>2 DEF FetchOpenZone
    <2>3. CASE FetchDisassemblerError
      BY <2>3 DEF FetchDisassemblerError
    <2>4. CASE FetchPageCheck
      BY <2>4 DEF FetchPageCheck
    <2>5. CASE TrapOpenZone
      BY <2>5 DEF TrapOpenZone
    <2>6. CASE TrapRestorePage
      BY <2>6 DEF TrapRestorePage
    <2> QED
      BY <2>1, <2>2, <2>3, <2>4, <2>5, <2>6
  <1>2. verified' \subseteq Addr
    BY DEF IInv, TypeOK
  <1> QED
    BY <1>1, <1>2 DEF Promise!Check

LEMMA NextKept ==
    ASSUME IInv, IInv', Closes, OwnBytes, WholeInstructions, [Next]_vars
    PROVE  [Promise!Next]_Promise!vars
  <1>1. Die => Promise!Signal
    BY DEF Die, hidden, Promise!Signal
  <1>2. Enter => Promise!Enter
    BY DEF Enter, Entries, hidden, Promise!Enter
  <1>3. Mprotect \/ Exit \/ UNCHANGED vars => UNCHANGED Promise!vars
    BY DEF Mprotect, Exit, vars, hidden, Promise!vars
  <1>4. FetchFatal \/ FetchRejected \/ TrapFatal => Die
    BY DEF FetchFatal, FetchRejected, TrapFatal
  <1>5. CASE FetchFault \/ InvalidOpcode
    BY <1>1, <1>4, <1>5, CheckKept DEF FetchFault, InvalidOpcode, Promise!Next
  <1>6. CASE Process
    BY <1>2, <1>3, <1>6, RunKept, ChangeKept DEF Process, Promise!Next
  <1> QED
    BY <1>3, <1>5, <1>6 DEF Next

\* The text of the process never gets a filler byte.
LEMMA OwnBytesKept ==
    ASSUME NoFiller, IInv, OwnBytes, [Next]_vars
    PROVE  OwnBytes'
  <1>1. ASSUME NEW a \in Addr, NEW c \in Stored, NEW base, Written(a, c, base)
        PROVE  OwnBytes'
    BY <1>1 DEF Written, OwnBytes, NoFiller, IInv, TypeOK
  <1>2. prog' = prog => OwnBytes'
    BY DEF OwnBytes
  <1>3. StoreDirect \/ StoreFaultWX \/ StoreFaultW => OwnBytes'
    BY <1>1 DEF StoreDirect, StoreFaultWX, StoreFaultW
  <1>4. Remap => OwnBytes'
    BY DEF Remap, OwnBytes, NoFiller
  <1>5. Die \/ Enter \/ Execute \/ Exit \/ Mprotect \/ UNCHANGED vars => prog' = prog
    BY DEF Die, Enter, Execute, Exit, Mprotect, hidden, vars
  <1>6. FetchFatal \/ FetchRejected \/ TrapFatal => Die
    BY DEF FetchFatal, FetchRejected, TrapFatal
  <1>7. FetchAlreadyChecked \/ FetchOpenZone \/ FetchDisassemblerError => prog' = prog
    BY DEF FetchAlreadyChecked, FetchOpenZone, FetchDisassemblerError, hidden
  <1>8. FetchPageCheck \/ TrapOpenZone \/ TrapRestorePage => prog' = prog
    BY DEF FetchPageCheck, TrapOpenZone, TrapRestorePage
  <1> QED
    BY <1>2, <1>3, <1>4, <1>5, <1>6, <1>7, <1>8 DEF Next, FetchFault, InvalidOpcode, Process

\* The handlers keep the promise of CheckedText as long as no instruction is
\* cut by the border of a zone: whatever they open, close, trap and restore, an
\* instruction runs only as the process wrote it, every byte of it was checked
\* since its page changed, and a change costs the page all of its check.  The
\* one thing that can break the promise is the torn instruction
\* (fprober_sig_handler.c:510-522); INV must not be a byte of the text.
THEOREM PromiseKeptUnlessTorn ==
    ASSUME Sealed, Closes, NoFiller
    PROVE  Spec /\ []WholeInstructions => PromiseKept
  <1>1. Spec => []IInv
    BY InvariantHolds
  <1>2. Init => OwnBytes
    BY DEF Init, OwnBytes, NoFiller
  <1>3. IInv /\ OwnBytes /\ [Next]_vars => OwnBytes'
    BY OwnBytesKept
  <1>4. Init => Promise!Init
    BY PageAssumption DEF Init, Promise!Init
  <1>5. IInv /\ IInv' /\ OwnBytes /\ WholeInstructions /\ [Next]_vars
          => [Promise!Next]_Promise!vars
    BY NextKept
  <1> QED
    BY <1>1, <1>2, <1>3, <1>4, <1>5, PTL DEF Spec, PromiseKept, Promise!Spec

-----------------------------------------------------------------------------
(* Texts no instruction of which crosses the border of a page: where their *)
(* instructions begin.                                                     *)

Top == NumPages * PageSize

\* One step of the recursion of Entries.
PathTurn(f, text, i) ==
    IF i \notin Addr THEN {} ELSE {i} \cup f[i + InstrLen(text[i])]
IsPath(f, text) ==
    f = [i \in 0 .. NumPages * PageSize + 1 |-> PathTurn(f, text, i)]
Path(text) == CHOOSE f : IsPath(f, text)

\* The addresses of the instructions of text, one behind the other.
Starts(text) == Path(text)[0]
After(text, b) == b + InstrLen(text[b])

\* No instruction crosses the border of a page.
Aligned(text) ==
    \A b \in Starts(text) : PageOf(After(text, b) - 1) = PageOf(b)

\* The operands.
Inside(text) == {b + 1 : b \in {c \in Starts(text) : text[c] \in Long}}

\* A jump goes to an instruction.
LEMMA EntriesBegin ==
    ASSUME NEW a \in Entries
    PROVE  a \in Starts(prog)
  BY Zenon DEF Entries, Starts, Path, IsPath, PathTurn

LEMMA Lengths ==
    ASSUME NEW text, NEW b \in Int
    PROVE  /\ After(text, b) \in {b + 1, b + 2} /\ After(text, b) \in Int
           /\ text[b] \in Long <=> After(text, b) = b + 2
  BY DEF After, InstrLen

LEMMA Sizes ==
    /\ NumPages \in Nat /\ PageSize \in Nat /\ PageSize > 3 /\ Top \in Nat
    /\ Addr = 0 .. Top - 1 /\ Pages = 0 .. NumPages - 1
  <1>1. NumPages \in Nat /\ PageSize \in Nat /\ PageSize > 3
    BY PageAssumption DEF MaxInstr
  <1>2. NumPages * PageSize \in Nat
    BY <1>1
  <1> QED
    BY <1>1, <1>2 DEF Top, Addr, Pages

\* The addresses of a page lie between its base and its end.
LEMMA Borders ==
    ASSUME NEW p \in Pages
    PROVE  /\ p \in Nat /\ PageBase(p) \in Nat /\ PageEnd(p) = PageBase(p) + PageSize
           /\ PageEnd(p) <= Top /\ PageEnd(p) \in Nat
           /\ \A a \in Int : PageOf(a) = p <=> PageBase(p) <= a /\ a < PageEnd(p)
  <1>1. p \in Nat /\ p + 1 <= NumPages /\ PageSize \in Nat /\ PageSize > 3 /\ NumPages \in Nat
    BY Sizes
  <1>2. PageBase(p) = p * PageSize /\ PageEnd(p) = (p + 1) * PageSize /\ Top = NumPages * PageSize
    BY DEF PageBase, PageEnd, Top
  <1>3. p * PageSize \in Nat /\ (p + 1) * PageSize = p * PageSize + PageSize
    BY <1>1, Z3
  <1>4. (p + 1) * PageSize <= NumPages * PageSize
    BY <1>1, Z3
  <1>5. ASSUME NEW a \in Int
        PROVE  a \div PageSize = p <=> p * PageSize <= a /\ a < (p + 1) * PageSize
    <2>1. PageSize * (a \div PageSize) <= a /\ a < PageSize * (a \div PageSize + 1)
          /\ a \div PageSize \in Int
      BY <1>1, Z3
    <2> DEFINE d == a \div PageSize
    <2> HIDE DEF d
    <2>2. PageSize * d <= a /\ a < PageSize * (d + 1) /\ d \in Int
      BY <2>1 DEF d
    <2>3. d = p => p * PageSize <= a /\ a < (p + 1) * PageSize
      BY <1>1, <2>2, Z3
    <2>4. d < p => ~(p * PageSize <= a)
      BY <1>1, <2>2, Z3
    <2>5. p < d => ~(a < (p + 1) * PageSize)
      BY <1>1, <2>2, Z3
    <2>6. d < p \/ d = p \/ p < d
      BY <1>1, <2>2
    <2> QED
      BY <2>3, <2>4, <2>5, <2>6 DEF d
  <1> QED
    BY <1>1, <1>2, <1>3, <1>4, <1>5 DEF PageOf

\* What holds at each position when it holds at all later ones.
LEMMA Downward ==
    ASSUME NEW s \in Nat, NEW n \in Nat, NEW T,
           \A i \in s..n : (\A j \in s..n : i < j => j \in T) => i \in T
    PROVE  \A i \in s..n : i \in T
  <1> DEFINE Bad == {d \in 0..(n - s) : n - d \in s..n /\ n - d \notin T}
  <1> SUFFICES ASSUME NEW i \in s..n, i \notin T PROVE FALSE
    OBVIOUS
  <1>1. n - i \in 0..(n - s) /\ n - (n - i) = i
    OBVIOUS
  <1>2. Bad # {} /\ Bad \in SUBSET Nat
    <2> DEFINE e == n - i
    <2>1. e \in 0..(n - s) /\ n - e = i
      BY <1>1
    <2> HIDE DEF e
    <2>2. e \in Bad
      BY <2>1
    <2>3. Bad \in SUBSET Nat
      OBVIOUS
    <2> HIDE DEF Bad
    <2> QED
      BY <2>2, <2>3
  <1>3. PICK d \in Bad : \A e \in Bad : d <= e
    <2> HIDE DEF Bad
    <2> QED
      BY <1>2, LeastNumber
  <1> DEFINE k == n - d
  <1>4. d \in 0..(n - s) /\ k \in s..n /\ k \notin T
    BY <1>3
  <1>5. ASSUME NEW j \in s..n, k < j
        PROVE  j \in T
    <2>1. n - j \in 0..(n - s) /\ n - (n - j) = j /\ ~(d <= n - j)
      BY <1>4, <1>5
    <2>2. n - j \notin Bad
      BY <1>3, <2>1
    <2> QED
      BY <2>1, <2>2
  <1> HIDE DEF k
  <1> QED
    BY <1>4, <1>5

\* The recursion of Entries defines a function.
LEMMA PathExists ==
    ASSUME NEW text
    PROVE  IsPath(Path(text), text)
  <1> DEFINE n == NumPages * PageSize + 1
             T == {i \in 0..n : \E f : f = [j \in i..n |-> PathTurn(f, text, j)]}
  <1>0. n \in Nat /\ 0 \in 0..n /\ 0 \in Nat /\ Top \in Nat /\ n = Top + 1
    BY Sizes DEF Top
  <1> HIDE DEF n
  <1>1. ASSUME NEW i \in 0..n, \A j \in 0..n : i < j => j \in T
        PROVE  i \in T
    <2>1. i \in Nat /\ i <= n
      BY <1>0
    <2>2. PICK f : i = n \/ f = [j \in (i + 1)..n |-> PathTurn(f, text, j)]
      <3>1. CASE i = n
        BY <3>1
      <3>2. CASE i < n
        <4>1. i + 1 \in T
          BY <1>0, <1>1, <3>2
        <4> QED
          BY <4>1
      <3> QED
        BY <1>0, <2>1, <3>1, <3>2
    <2> DEFINE h == [j \in i..n |-> IF j = i THEN PathTurn(f, text, i) ELSE f[j]]
    <2>3. ASSUME NEW j \in i..n
          PROVE  h[j] = IF j = i THEN PathTurn(f, text, i) ELSE f[j]
      OBVIOUS
    <2>4. h = [j \in i..n |-> h[j]]
      OBVIOUS
    <2> HIDE DEF h
    <2>5. ASSUME NEW j \in i..n
          PROVE  h[j] = PathTurn(h, text, j)
      <3>1. j \in Nat /\ j <= n
        BY <1>0, <2>1
      <3>2. j \in Addr => After(text, j) \in i..n /\ After(text, j) # i /\ After(text, j) \in j..n
        BY <1>0, <2>1, <3>1, Sizes, Lengths
      <3>3. PathTurn(h, text, j) = PathTurn(f, text, j)
        <4>1. j \in Addr => h[After(text, j)] = f[After(text, j)]
          BY <2>3, <3>2
        <4> QED
          BY <4>1 DEF PathTurn, After
      <3>4. CASE j = i
        BY <2>3, <3>3, <3>4
      <3>5. CASE j # i
        <4>1. i # n /\ j \in (i + 1)..n
          BY <1>0, <2>1, <3>1, <3>5
        <4>2. f[j] = PathTurn(f, text, j)
          BY <2>2, <4>1
        <4> QED
          BY <2>3, <3>3, <3>5, <4>2
      <3> QED
        BY <3>4, <3>5
    <2>6. h = [j \in i..n |-> PathTurn(h, text, j)]
      BY <2>4, <2>5
    <2> QED
      BY <2>6
  <1> HIDE DEF T
  <1>2. \A i \in 0..n : i \in T
    <2>1. n \in Nat /\ 0 \in Nat
      BY <1>0
    <2> QED
      BY ONLY <2>1, <1>1, Downward
  <1>3. PICK f : f = [j \in 0..n |-> PathTurn(f, text, j)]
    BY <1>0, <1>2 DEF T
  <1>4. IsPath(f, text)
    BY <1>3 DEF IsPath, n
  <1> QED
    BY <1>4 DEF Path

\* What it is at each address.
LEMMA PathIs ==
    ASSUME NEW text, NEW i \in 0 .. Top + 1
    PROVE  /\ i \notin Addr => Path(text)[i] = {}
           /\ i \in Addr => /\ Path(text)[i] = {i} \cup Path(text)[After(text, i)]
                            /\ After(text, i) \in 0 .. Top + 1 /\ i < After(text, i)
  <1>1. Path(text)[i] = PathTurn(Path(text), text, i)
    BY PathExists DEF IsPath, Top
  <1>2. i \in Addr => After(text, i) \in 0 .. Top + 1 /\ i < After(text, i)
    BY Sizes, Lengths
  <1> QED
    BY <1>1, <1>2 DEF PathTurn, After

\* Each instruction is followed by one.
LEMMA PathGoesOn ==
    ASSUME NEW text
    PROVE  /\ Starts(text) \subseteq Addr
           /\ 0 \in Addr => 0 \in Starts(text)
           /\ \A b \in Starts(text) :
                After(text, b) \in Addr => After(text, b) \in Starts(text)
  <1> DEFINE n == Top + 1
             P == Path(text)
             T == {i \in 0..n : /\ P[i] \subseteq Addr
                                /\ \A b \in P[i] :
                                     After(text, b) \in Addr => After(text, b) \in P[i]}
  <1>0. n \in Nat /\ 0 \in 0..n /\ 0 \in Nat
    BY Sizes
  <1>1. ASSUME NEW i \in 0..n, \A j \in 0..n : i < j => j \in T
        PROVE  i \in T
    <2>1. CASE i \notin Addr
      <3>1. P[i] = {}
        BY <2>1, PathIs
      <3> QED
        BY <3>1
    <2>2. CASE i \in Addr
      <3> DEFINE j == After(text, i)
      <3>1. P[i] = {i} \cup P[j] /\ j \in 0..n /\ i < j
        BY <2>2, PathIs
      <3>2. j \in T
        BY <1>1, <3>1
      <3>3. j \in Addr => j \in P[j]
        BY <3>1, PathIs
      <3> HIDE DEF P
      <3>4. P[i] \subseteq Addr
        BY <2>2, <3>1, <3>2
      <3>5. \A b \in P[i] : After(text, b) \in Addr => After(text, b) \in P[i]
        BY <3>1, <3>2, <3>3
      <3> QED
        BY <3>4, <3>5
    <2> QED
      BY <2>1, <2>2
  <1>2. 0 \in Addr => 0 \in P[0]
    BY <1>0, PathIs
  <1> HIDE DEF T, n
  <1>3. \A i \in 0..n : i \in T
    BY ONLY <1>0, <1>1, Downward
  <1> QED
    BY <1>0, <1>2, <1>3 DEF T, Starts

\* What holds of the first instruction and goes over to the next holds of all.
LEMMA PathLeast ==
    ASSUME NEW text, NEW S, 0 \in S,
           \A b \in Starts(text) \cap S : After(text, b) \in Addr => After(text, b) \in S
    PROVE  Starts(text) \subseteq S
  <1> DEFINE n == Top + 1
             P == Path(text)
             T == {i \in 0..n : i \in Starts(text) \cap S => P[i] \subseteq S}
  <1>0. n \in Nat /\ 0 \in 0..n /\ 0 \in Nat
    BY Sizes
  <1>1. ASSUME NEW i \in 0..n, \A j \in 0..n : i < j => j \in T
        PROVE  i \in T
    <2> SUFFICES ASSUME i \in Starts(text) \cap S PROVE P[i] \subseteq S
      OBVIOUS
    <2> DEFINE j == After(text, i)
    <2>1. i \in Addr
      BY PathGoesOn
    <2>2. P[i] = {i} \cup P[j] /\ j \in 0..n /\ i < j
      BY <2>1, PathIs
    <2>3. CASE j \in Addr
      <3>1. j \in Starts(text) \cap S
        BY <2>3, PathGoesOn
      <3>2. j \in T
        BY <1>1, <2>2
      <3> HIDE DEF P, j
      <3> QED
        BY <2>2, <3>1, <3>2
    <2>4. CASE j \notin Addr
      <3>1. P[j] = {}
        BY <2>2, <2>4, PathIs
      <3> QED
        BY <2>2, <3>1
    <2> QED
      BY <2>3, <2>4
  <1> HIDE DEF T, n
  <1>2. \A i \in 0..n : i \in T
    BY ONLY <1>0, <1>1, Downward
  <1>3. CASE 0 \in Addr
    <2>1. 0 \in Starts(text)
      BY <1>3, PathGoesOn
    <2>2. P[0] \subseteq S
      BY <1>0, <1>2, <2>1 DEF T
    <2> QED
      BY <2>2 DEF Starts
  <1>4. CASE 0 \notin Addr
    <2>1. P[0] = {}
      BY <1>0, <1>4, PathIs DEF n
    <2> QED
      BY <2>1 DEF Starts
  <1> QED
    BY <1>3, <1>4

\* An instruction but the first lies behind another.
LEMMA Predecessor ==
    ASSUME NEW text, NEW b \in Starts(text), b # 0
    PROVE  \E c \in Starts(text) : After(text, c) = b
  <1> DEFINE S == {0} \cup {After(text, c) : c \in Starts(text)}
  <1>1. Starts(text) \subseteq S
    <2>1. \A c \in Starts(text) \cap S : After(text, c) \in Addr => After(text, c) \in S
      OBVIOUS
    <2>2. 0 \in S
      OBVIOUS
    <2> HIDE DEF S
    <2> QED
      BY <2>1, <2>2, PathLeast
  <1> QED
    BY <1>1

\* No instruction begins inside another.
LEMMA NoOverlap ==
    ASSUME NEW text, NEW b \in Starts(text), NEW c \in Starts(text), b < c
    PROVE  After(text, b) <= c
  <1> DEFINE Torn == {x \in Starts(text) : \E y \in Starts(text) : y < x /\ x < After(text, y)}
  <1>1. Starts(text) \subseteq Nat
    BY PathGoesOn, Sizes
  <1> SUFFICES ASSUME Torn # {} PROVE FALSE
    <2>1. Torn = {} => ~(c < After(text, b))
      OBVIOUS
    <2>2. b \in Int /\ c \in Int /\ After(text, b) \in Int
      BY <1>1, Lengths
    <2> HIDE DEF Torn
    <2> QED
      BY <2>1, <2>2
  <1>2. PICK x \in Torn : \A z \in Torn : x <= z
    <2>1. Torn \in SUBSET Nat
      BY <1>1
    <2> HIDE DEF Torn
    <2> QED
      BY <2>1, LeastNumber
  <1>3. PICK y \in Starts(text) : y < x /\ x < After(text, y)
    BY <1>2
  <1>4. x \in Starts(text) /\ x \in Nat /\ y \in Nat /\ After(text, y) \in Int
    BY <1>1, <1>2, <1>3, Lengths
  <1>5. PICK d \in Starts(text) : After(text, d) = x
    BY <1>3, <1>4, Predecessor
  <1>6. d \in Nat /\ d < x
    BY <1>1, <1>5, Lengths
  <1>7. CASE d < y
    <2>1. y \in Torn
      BY <1>3, <1>5, <1>7
    <2> QED
      BY <1>2, <1>3, <1>4, <2>1
  <1>8. CASE y < d
    <2>1. d < After(text, y)
      BY <1>3, <1>4, <1>6
    <2>2. d \in Torn
      BY <1>8, <2>1
    <2> QED
      BY <1>2, <1>4, <1>6, <2>2
  <1>9. CASE d = y
    BY <1>3, <1>4, <1>5, <1>9
  <1> QED
    BY <1>4, <1>6, <1>7, <1>8, <1>9

\* Every page begins with an instruction.
LEMMA BasesBegin ==
    ASSUME NEW text, Aligned(text), NEW p \in Pages
    PROVE  PageBase(p) \in Starts(text)
  <1> DEFINE B == PageBase(p)
             D == {d \in 0..B : B - d \in Starts(text)}
  <1>0. B \in Nat /\ B < Top /\ B \in Addr /\ 0 \in Addr /\ Top \in Nat
    BY Borders, Sizes
  <1>1. Starts(text) \subseteq Nat /\ Starts(text) \subseteq Addr /\ 0 \in Starts(text)
    BY <1>0, PathGoesOn, Sizes
  <1> HIDE DEF B
  <1>2. PICK d \in D : \A e \in D : d <= e
    <2>1. D \in SUBSET Nat
      OBVIOUS
    <2>2. B - B = 0 /\ B \in 0..B
      BY <1>0
    <2>3. B \in D
      BY <1>1, <2>2
    <2> HIDE DEF D
    <2> QED
      BY <2>1, <2>3, LeastNumber
  <1> DEFINE b == B - d
             n == After(text, b)
  <1>3. d \in 0..B /\ b \in Starts(text) /\ b \in Nat /\ b <= B
    BY <1>0, <1>1, <1>2
  <1>4. n \in Int /\ b < n
    BY <1>3, Lengths
  <1>5. n <= B \/ b = B
    <2> SUFFICES ASSUME b < B, B < n PROVE FALSE
      BY <1>0, <1>3, <1>4
    <2>1. PageOf(b) # p
      BY <1>3, Borders DEF B
    <2>2. PageOf(n - 1) = PageOf(b)
      BY <1>3 DEF Aligned
    <2>3. n \in {b + 1, b + 2}
      BY <1>3, Lengths
    <2>4. n - 1 = B
      BY <1>0, <1>3, <2>3
    <2>5. PageOf(B) = p
      BY <1>0, Borders, Sizes DEF B
    <2> QED
      BY <2>1, <2>2, <2>4, <2>5
  <1>6. CASE b = B
    BY <1>3, <1>6 DEF B
  <1>7. CASE n <= B
    <2>1. n \in Addr
      BY <1>0, <1>3, <1>4, <1>7, Sizes
    <2>2. n \in Starts(text)
      BY <1>3, <2>1, PathGoesOn
    <2> DEFINE e == B - n
    <2>3. e \in 0..B /\ B - e = n /\ e < d
      BY <1>0, <1>3, <1>4, <1>7
    <2> HIDE DEF e
    <2>4. e \in D
      BY <2>2, <2>3
    <2> QED
      BY <1>2, <1>3, <2>3, <2>4
  <1> QED
    BY <1>5, <1>6, <1>7

\* Two texts that agree on a page have the same instructions there.
LEMMA SameStarts ==
    ASSUME NEW text, NEW other, Aligned(text), Aligned(other), NEW p \in Pages,
           \A a \in CellsOf(p) : text[a] = other[a]
    PROVE  \A b \in CellsOf(p) : b \in Starts(text) => b \in Starts(other)
  <1> DEFINE S == {b \in Addr : PageOf(b) = p => b \in Starts(other)}
  <1>1. 0 \in Addr /\ 0 \in S
    BY PathGoesOn, Borders, Sizes
  <1>2. ASSUME NEW b \in Starts(text) \cap S, After(text, b) \in Addr, PageOf(After(text, b)) = p
        PROVE  After(text, b) \in Starts(other)
    <2> DEFINE n == After(text, b)
    <2>1. b \in Addr /\ b \in Int /\ n \in {b + 1, b + 2} /\ n \in Int
      BY PathGoesOn, Sizes, Lengths
    <2>2. CASE PageOf(b) = p
      <3>1. b \in Starts(other) /\ After(other, b) = n
        BY <2>1, <2>2 DEF CellsOf, After
      <3> QED
        BY <1>2, <3>1, PathGoesOn
    <2>3. CASE PageOf(b) # p
      <3>1. PageOf(n - 1) # p
        BY <2>3 DEF Aligned
      <3>2. n = PageBase(p)
        BY <1>2, <2>1, <3>1, Borders
      <3> QED
        BY <3>2, BasesBegin
    <2> QED
      BY <2>2, <2>3
  <1>3. \A b \in Starts(text) \cap S : After(text, b) \in Addr => After(text, b) \in S
    BY <1>2
  <1> HIDE DEF S
  <1>4. Starts(text) \subseteq S
    BY <1>1, <1>3, PathLeast
  <1> QED
    BY <1>4 DEF S, CellsOf

-----------------------------------------------------------------------------
(* Where a zone may begin and end without cutting an instruction: anywhere *)
(* but at an operand.                                                      *)

LEMMA InsideIs ==
    ASSUME NEW text, NEW x
    PROVE  x \in Inside(text) <=> \E b \in Starts(text) : text[b] \in Long /\ x = b + 1
  BY DEF Inside

\* An operand is in the page of its instruction.
LEMMA Operand ==
    ASSUME NEW text, Aligned(text), NEW b \in Starts(text), text[b] \in Long
    PROVE  /\ b \in Addr /\ b + 1 \in Addr /\ PageOf(b + 1) = PageOf(b)
           /\ b + 1 \in Inside(text)
  <1>1. b \in Addr /\ b \in Int
    BY PathGoesOn, Sizes
  <1>2. After(text, b) = b + 2 /\ (b + 2) - 1 = b + 1
    BY <1>1, Lengths
  <1>3. PageOf(b + 1) = PageOf(b)
    BY <1>2 DEF Aligned
  <1>4. b + 1 \in Addr
    <2> DEFINE p == PageOf(b)
    <2>1. p \in Pages
      BY <1>1, PageCells
    <2>2. b + 1 < PageEnd(p) /\ PageEnd(p) <= Top /\ PageEnd(p) \in Nat
      BY <1>1, <1>3, <2>1, Borders
    <2> HIDE DEF p
    <2> QED
      BY <1>1, <2>2, Sizes
  <1> QED
    BY <1>1, <1>3, <1>4, InsideIs

\* An instruction does not begin inside one.
LEMMA StartsAreNot ==
    ASSUME NEW text, NEW x \in Starts(text)
    PROVE  x \notin Inside(text)
  <1> SUFFICES ASSUME NEW b \in Starts(text), text[b] \in Long, x = b + 1 PROVE FALSE
    BY InsideIs
  <1>1. b \in Int
    BY PathGoesOn, Sizes
  <1>2. After(text, b) = b + 2
    BY <1>1, Lengths
  <1>3. b < x
    BY <1>1
  <1>4. After(text, b) <= x
    BY <1>3, NoOverlap
  <1> QED
    BY <1>1, <1>2, <1>4

\* A page begins and ends between two instructions.
LEMMA BasesAreNot ==
    ASSUME NEW text, Aligned(text), NEW p \in Pages
    PROVE  PageBase(p) \notin Inside(text) /\ PageEnd(p) \notin Inside(text)
  <1> SUFFICES ASSUME NEW b \in Starts(text), text[b] \in Long,
                      b + 1 = PageBase(p) \/ b + 1 = PageEnd(p)
               PROVE  FALSE
    BY InsideIs
  <1>1. b \in Int /\ PageOf(b + 1) = PageOf(b)
    BY Operand, Sizes
  <1>2. PageBase(p) \in Nat /\ PageEnd(p) = PageBase(p) + PageSize /\ PageSize > 3 /\ PageSize \in Nat
    BY Borders, Sizes
  <1>3. PageOf(b) = p <=> PageBase(p) <= b /\ b < PageEnd(p)
    BY <1>1, Borders
  <1>4. b + 1 \in Int /\ (PageOf(b + 1) = p <=> PageBase(p) <= b + 1 /\ b + 1 < PageEnd(p))
    BY <1>1, Borders
  <1> QED
    BY <1>1, <1>2, <1>3, <1>4

LEMMA Division ==
    ASSUME NEW z \in Int
    PROVE  /\ z \div PageSize \in Int /\ z % PageSize \in 0..PageSize - 1
           /\ z = PageSize * (z \div PageSize) + (z % PageSize)
  <1>1. PageSize \in Nat /\ PageSize > 3
    BY Sizes
  <1>2. z \div PageSize \in Int
    BY <1>1, Z3
  <1>3. z % PageSize \in 0..PageSize - 1
    BY <1>1, Z3
  <1>4. z = PageSize * (z \div PageSize) + (z % PageSize)
    BY <1>1, Z3
  <1> QED
    BY <1>2, <1>3, <1>4

\* Nor are the addresses that begin a page by their remainder.
LEMMA RemaindersAreNot ==
    ASSUME NEW text, Aligned(text), NEW x \in Int, x % PageSize = 0
    PROVE  x \notin Inside(text) /\ x - PageSize \notin Inside(text)
  <1>1. PageSize \in Nat /\ PageSize > 3
    BY Sizes
  <1>2. ASSUME NEW y \in Inside(text)
        PROVE  y \in Int /\ y % PageSize # 0
    <2>1. PICK b \in Starts(text) : text[b] \in Long /\ y = b + 1
      BY InsideIs
    <2>2. b \in Int /\ b \div PageSize = (b + 1) \div PageSize
      BY <2>1, Operand, Sizes DEF PageOf
    <2> DEFINE d == b \div PageSize
    <2>3. /\ d \in Int /\ b + 1 \in Int
          /\ b = PageSize * d + (b % PageSize) /\ b % PageSize \in 0..PageSize - 1
          /\ b + 1 = PageSize * d + ((b + 1) % PageSize)
      BY <2>2, Division
    <2>4. PageSize * d \in Int /\ (b + 1) % PageSize \in Int
      BY <1>1, <2>3, Division
    <2> HIDE DEF d
    <2>5. (b + 1) % PageSize # 0
      BY <1>1, <2>2, <2>3, <2>4
    <2> QED
      BY <2>1, <2>3, <2>5
  <1>3. (x - PageSize) % PageSize = 0
    <2> DEFINE d == x \div PageSize
    <2>1. x = PageSize * d /\ d \in Int
      BY <1>1, Z3
    <2> HIDE DEF d
    <2>2. x - PageSize = PageSize * (d - 1)
      BY <1>1, <2>1, Z3
    <2>3. (PageSize * (d - 1)) % PageSize = 0
      <3>1. \A k \in Int : (PageSize * k) % PageSize = 0
        BY <1>1, Z3
      <3>2. d - 1 \in Int
        BY <2>1
      <3> QED
        BY ONLY <3>1, <3>2
    <2> QED
      BY <2>2, <2>3
  <1> QED
    BY <1>2, <1>3

\* A search ends at an instruction of the text, or behind all of it.
LEMMA SearchEnds ==
    ASSUME NEW text, Aligned(text), NEW code, NEW s \in Starts(text), NEW n \in Nat, s < n,
           n <= Top, \A i \in s..n : i < n => code[i] = text[i] /\ text[i] \notin Illegal
    PROVE  LET e == Disassemble(code, s, n).end
           IN  e \in s..n /\ (e \in Addr => e \in Starts(text)) /\ e \notin Inside(text)
  <1> DEFINE from == CHOOSE f : f = [i \in s..n |-> Turn(f, code, n, i)]
             e == Disassemble(code, s, n).end
  <1>0. s \in Nat /\ Top \in Nat
    BY PathGoesOn, Sizes
  <1>1. Disassemble(code, s, n) = from[s]
    BY <1>0 DEF Disassemble, Turn
  <1>2. from = [i \in s..n |-> Turn(from, code, n, i)]
    BY <1>0, SearchExists
  <1> HIDE DEF from
  <1>3. \A i \in s..n : from[i] = Turn(from, code, n, i)
    BY <1>2
  <1> DEFINE Fine(x) == x \in Addr => x \in Starts(text)
             T == {i \in s..n : Fine(i) => Fine(from[i].end)}
  <1>4. ASSUME NEW i \in s..n, \A j \in s..n : i < j => j \in T
        PROVE  i \in T
    <2> SUFFICES ASSUME Fine(i) PROVE Fine(from[i].end)
      OBVIOUS
    <2> DEFINE j == i + InstrLen(code[i])
    <2>0. i \in Nat /\ from[i] = Turn(from, code, n, i)
      BY <1>0, <1>3
    <2>1. CASE i = n
      BY <2>0, <2>1 DEF Turn
    <2>2. CASE i # n
      <3>1. i < n /\ code[i] = text[i] /\ code[i] \notin Illegal /\ i \in Addr
        BY <1>0, <2>2, Sizes
      <3>2. j = After(text, i) /\ j \in Nat /\ i < j
        BY <2>0, <3>1, Lengths DEF After
      <3>3. Fine(j)
        BY <3>1, <3>2, PathGoesOn
      <3> HIDE DEF j, Fine
      <3>4. CASE j > n
        <4>1. from[i] = [ret |-> "continue", end |-> i]
          BY <2>0, <2>2, <3>1, <3>4 DEF Turn, j
        <4> QED
          BY <4>1
      <3>5. CASE ~(j > n) /\ code[i] \in Control
        <4>1. from[i] = [ret |-> "success", end |-> j]
          BY <2>0, <2>2, <3>1, <3>5 DEF Turn, j
        <4> QED
          BY <3>3, <4>1
      <3>6. CASE ~(j > n) /\ code[i] \notin Control
        <4>1. from[i] = from[j]
          BY <2>0, <2>2, <3>1, <3>6 DEF Turn, j
        <4>2. j \in s..n
          BY <1>0, <3>2, <3>6
        <4> QED
          BY <1>4, <3>2, <3>3, <4>1, <4>2
      <3> QED
        BY <3>4, <3>5, <3>6
    <2> QED
      BY <2>1, <2>2
  <1> HIDE DEF T
  <1>5. \A i \in s..n : i \in T
    BY ONLY <1>0, n \in Nat, <1>4, Downward
  <1>6. s \in s..n
    BY <1>0
  <1>7. Fine(e)
    BY <1>1, <1>5, <1>6 DEF T
  <1>8. e \in s..n
    BY <1>0, Searches
  <1> HIDE DEF e
  <1>9. e \notin Inside(text)
    <2>1. e \in Inside(text) => e \in Addr
      BY InsideIs, Operand
    <2> QED
      BY <1>7, <2>1, StartsAreNot
  <1> QED
    BY <1>7, <1>8, <1>9 DEF e

-----------------------------------------------------------------------------
(* Zones of whole instructions.                                            *)

\* An instruction is closed with its operand or not at all.
Whole(text, m) ==
    \A b \in Starts(text) : text[b] \in Long => (m[b] = INV <=> m[b + 1] = INV)

\* A zone has both bytes of an instruction or none.
LEMMA ZoneWhole ==
    ASSUME NEW text, NEW b \in Starts(text), text[b] \in Long, NEW s \in Int, NEW e \in Int
    PROVE  /\ s \notin Inside(text) => (s <= b <=> s <= b + 1)
           /\ e \notin Inside(text) => (b < e <=> b + 1 < e)
  <1>1. b \in Int /\ b + 1 \in Inside(text)
    BY PathGoesOn, Sizes, InsideIs
  <1> QED
    BY <1>1

\* Pages are closed with all their instructions.
LEMMA ClosingWhole ==
    ASSUME NEW text, Aligned(text), NEW m, NEW pages, Whole(text, m)
    PROVE  Whole(text, Closing(m, pages))
  BY Operand DEF Whole, Closing

\* What the scan for INV returns: the rest of the page, or the first byte that is not INV.
LEMMA NextZoneIs ==
    ASSUME NEW m, NEW s \in Addr
    PROVE  LET e == NextZone(m, s)
           IN  /\ e \in Nat /\ s < e /\ e <= PageEnd(PageOf(s))
               /\ e # PageEnd(PageOf(s)) =>
                    m[e] # INV /\ \A c \in s .. e - 1 : m[c] = INV
  <1> DEFINE n == PageEnd(PageOf(s))
             Q(b) == (b = n \/ m[b] # INV) /\ \A c \in s .. b - 1 : m[c] = INV
             B == {b \in s..n : b = n \/ m[b] # INV}
  <1>0. s \in Nat /\ n \in Nat /\ s < n
    BY PageCells, Borders, Sizes
  <1>1. CASE m[s] # INV
    BY <1>0, <1>1 DEF NextZone
  <1>2. CASE m[s] = INV
    <2> HIDE DEF n
    <2>1. PICK b \in B : \A c \in B : b <= c
      <3>1. n \in B /\ B \in SUBSET Nat
        BY <1>0
      <3> HIDE DEF B
      <3> QED
        BY <3>1, LeastNumber
    <2>2. b \in s..n /\ b \in Nat /\ (b = n \/ m[b] # INV)
      BY <1>0, <2>1
    <2>3. \A c \in s .. b - 1 : m[c] = INV
      <3> SUFFICES ASSUME NEW c \in s .. b - 1 PROVE m[c] = INV
        OBVIOUS
      <3>1. c \in s..n /\ ~(b <= c)
        BY <1>0, <2>2
      <3> QED
        BY <2>1, <3>1
    <2>4. \E x \in s..n : Q(x)
      BY <2>2, <2>3
    <2> DEFINE e == CHOOSE x \in s..n : Q(x)
    <2>5. e \in s..n /\ Q(e)
      <3> HIDE DEF Q
      <3> QED
        BY <2>4
    <2>6. NextZone(m, s) = e
      BY <1>2 DEF NextZone, n
    <2> HIDE DEF e
    <2>7. e # s
      BY <1>0, <1>2, <2>5
    <2> QED
      BY <1>0, <2>5, <2>6, <2>7 DEF n
  <1> QED
    BY <1>1, <1>2

\* The next open zone begins with an instruction.
LEMMA NextZoneBegins ==
    ASSUME NEW text, Aligned(text), NEW m, Whole(text, m), NEW s \in Starts(text)
    PROVE  NextZone(m, s) \notin Inside(text)
  <1> DEFINE e == NextZone(m, s)
             n == PageEnd(PageOf(s))
  <1>1. s \in Addr /\ s \in Nat /\ PageOf(s) \in Pages
    BY PathGoesOn, PageCells, Sizes
  <1>2. /\ e \in Nat /\ s < e
        /\ e # n => m[e] # INV /\ \A c \in s .. e - 1 : m[c] = INV
    BY <1>1, NextZoneIs
  <1>3. n \notin Inside(text)
    BY <1>1, BasesAreNot
  <1> HIDE DEF e, n
  <1> SUFFICES ASSUME e \in Inside(text) PROVE FALSE
    BY DEF e
  <1>4. PICK b \in Starts(text) : text[b] \in Long /\ e = b + 1
    BY InsideIs
  <1>5. b \in Nat
    BY PathGoesOn, Sizes
  <1>6. b \in s .. e - 1
    BY <1>1, <1>2, <1>4, <1>5
  <1>7. m[b] = INV /\ m[b + 1] # INV
    BY <1>2, <1>3, <1>4, <1>6
  <1> QED
    BY <1>4, <1>7 DEF Whole

\* The zone of a fetch fault.
LEMMA FetchBorders ==
    ASSUME IInv, TInv, Aligned(prog), NEW a \in Starts(prog), FetchToOpen(a)
    PROVE  LET s == FetchSearch(a)
           IN  /\ FetchStart(a, s) \in Int /\ FetchStart(a, s) \notin Inside(prog)
               /\ FetchEnd(a, s) \in Int /\ FetchEnd(a, s) \notin Inside(prog)
  <1> DEFINE p == PageOf(a)
             first == Disassemble(mem, a, PageEnd(p))
             second == Disassemble(mem, first.end, PageEnd(p + 1))
             s == FetchSearch(a)
  <1>1. a \in Addr /\ a \in Nat /\ p \in Pages /\ p \in Nat /\ a < PageEnd(p)
        /\ PageEnd(p) \in Nat /\ PageEnd(p) <= Top /\ PageBase(p) \in Int /\ Top \in Nat
    BY PathGoesOn, PageCells, Borders, Sizes
  <1>2. a \notin Inside(prog) /\ PageBase(p) \notin Inside(prog) /\ PageEnd(p) \notin Inside(prog)
    BY <1>1, StartsAreNot, BasesAreNot
  <1>3. ASSUME NEW q \in Pages, Intact(q), NEW i \in Int, PageOf(i) = q
        PROVE  mem[i] = prog[i] /\ prog[i] \notin Illegal
    <2>1. i \in Addr
      BY <1>3, Borders, Sizes
    <2> QED
      BY <1>3, <2>1 DEF Intact, CellsOf, TInv
  <1>4. Intact(p)
    BY <1>1, ZoneText
  <1>5. \A i \in a..PageEnd(p) : i < PageEnd(p) => mem[i] = prog[i] /\ prog[i] \notin Illegal
    <2> SUFFICES ASSUME NEW i \in a..PageEnd(p), i < PageEnd(p)
                 PROVE  mem[i] = prog[i] /\ prog[i] \notin Illegal
      OBVIOUS
    <2>1. i \in Int /\ PageBase(p) <= i
      BY <1>1, Borders
    <2> QED
      BY <1>1, <1>3, <1>4, <2>1, Borders
  <1>6. /\ first.end \in a..PageEnd(p) /\ first.end \notin Inside(prog)
        /\ first.end \in Addr => first.end \in Starts(prog)
    BY <1>1, <1>5, SearchEnds
  <1>7. \/ s.end = first.end
        \/ s.end = second.end /\ FoundProt(p + 1) = "x" /\ ~AlreadyOpened(p + 1)
    <2> DEFINE one == [ret |-> first.ret, n |-> 1, end |-> first.end,
                       cross |-> IF first.ret = "continue"
                                   THEN Spill(p, first.end) ELSE {}]
               two == [ret |-> second.ret, n |-> 2, end |-> second.end,
                       cross |-> one.cross \cup
                                 (IF second.ret = "continue"
                                    THEN Spill(p + 1, second.end) ELSE {})]
               dead == [one EXCEPT !.ret = "fatal"]
    <2>1. \/ s = one \/ s = dead
          \/ s = two /\ FoundProt(p + 1) = "x" /\ ~AlreadyOpened(p + 1)
      BY Zenon DEF FetchSearch
    <2>2. one.end = first.end /\ two.end = second.end
      OBVIOUS
    <2>3. dead.end = one.end
      OBVIOUS
    <2> HIDE DEF one, two, dead, s, first, second
    <2> QED
      BY <2>1, <2>2, <2>3
  <1> HIDE DEF first, s
  <1>8. s.end = second.end /\ FoundProt(p + 1) = "x" /\ ~AlreadyOpened(p + 1)
          => second.end \in Int /\ second.end \notin Inside(prog)
    <2> SUFFICES ASSUME FoundProt(p + 1) = "x", ~AlreadyOpened(p + 1)
                 PROVE  second.end \in Int /\ second.end \notin Inside(prog)
      OBVIOUS
    <2> DEFINE q == p + 1
    <2>1. q \in Pages
      <3>1. q \notin Pages => {r \in Pages : r >= q /\ vma[r] # "none"} = {}
        BY <1>1, Sizes
      <3>2. q \notin Pages => FoundProt(q) = "none"
        BY <3>1 DEF FoundProt
      <3> QED
        BY <3>2
    <2>2. TextInv(q) /\ pte[q].exeDeny
      BY <2>1 DEF TInv, AlreadyOpened
    <2>3. Intact(q)
      BY <2>2 DEF TextInv
    <2>4. PageBase(q) = PageEnd(p)
      BY <1>1 DEF PageBase, PageEnd
    <2>5. PageEnd(q) \in Nat /\ PageEnd(q) <= Top /\ PageEnd(p) < PageEnd(q)
      BY <2>1, <2>4, Borders, Sizes
    <2>6. first.end \in Starts(prog) /\ first.end \in Nat /\ first.end < PageEnd(q)
      <3>1. first.end \in Nat /\ first.end < PageEnd(q) /\ first.end < Top
        BY <1>1, <1>6, <2>5
      <3> QED
        BY <1>6, <3>1, Sizes
    <2> HIDE DEF q
    <2>7. \A i \in first.end..PageEnd(q) : i < PageEnd(q) =>
            mem[i] = prog[i] /\ prog[i] \notin Illegal
      <3> SUFFICES ASSUME NEW i \in first.end..PageEnd(q), i < PageEnd(q)
                   PROVE  mem[i] = prog[i] /\ prog[i] \notin Illegal
        OBVIOUS
      <3>1. i \in Int /\ a <= i
        BY <1>1, <1>6, <2>6
      <3>2. CASE i < PageEnd(p)
        <4>1. i \in a..PageEnd(p)
          BY <1>1, <3>1, <3>2
        <4> QED
          BY <1>5, <3>2, <4>1
      <3>3. CASE PageEnd(p) <= i
        <4>1. PageOf(i) = q
          BY <2>1, <2>4, <3>1, <3>3, Borders
        <4> QED
          BY <1>3, <2>1, <2>3, <3>1, <4>1
      <3> QED
        BY <1>1, <3>1, <3>2, <3>3
    <2>8. /\ Disassemble(mem, first.end, PageEnd(q)).end \in first.end..PageEnd(q)
          /\ Disassemble(mem, first.end, PageEnd(q)).end \notin Inside(prog)
      BY <2>5, <2>6, <2>7, SearchEnds
    <2> QED
      BY <2>5, <2>6, <2>8 DEF q
  <1> HIDE DEF second
  <1>9. s.end \in Int /\ s.end \notin Inside(prog)
    BY <1>1, <1>6, <1>7, <1>8
  <1> QED
    BY <1>1, <1>2, <1>9 DEF FetchStart, FetchEnd, s

\* The zone of a trap.
LEMMA TrapBorders ==
    ASSUME IInv, TInv, Aligned(prog), Whole(prog, mem), NEW a \in Starts(prog),
           NEW avail, NEW closed, TrapSearch(a, avail, closed).ret = "zone"
    PROVE  /\ TrapEnd(a, TrapSearch(a, avail, closed)) \in Int
           /\ TrapEnd(a, TrapSearch(a, avail, closed)) \notin Inside(prog)
  <1> DEFINE p      == PageOf(a)
             q      == p + 1
             m      == Closing(mem, closed)
             first  == Disassemble(MasterView, a, NextZone(m, a))
             so     == CrossPage(first.end).end
             second == Disassemble(MasterView, so, NextZone(m, so))
             toEnd  == first.ret = "continue" /\ NextZone(m, a) = PageEnd(p)
             hole   == (q \notin Pages \/ masters[q] = <<>>) /\ FoundProt(q) = "none"
             s      == TrapSearch(a, avail, closed)
             Border(x) == x \in Int /\ x \notin Inside(prog)
  <1>1. /\ a \in Addr /\ a \in Nat /\ p \in Pages /\ p \in Nat
        /\ PageEnd(p) \in Nat /\ PageEnd(p) <= Top /\ Top \in Nat
    BY PathGoesOn, PageCells, Borders, Sizes
  <1>2. Whole(prog, m)
    BY ClosingWhole
  <1>3. \A i \in Addr : MasterView[i] = prog[i] /\ prog[i] \notin Illegal
    BY ViewIsText DEF IInv, TInv
  <1> HIDE DEF m
  \* A search in the master copies.
  <1>4. ASSUME NEW b \in Starts(prog), NEW n \in Nat, b < n, n <= Top
        PROVE  LET e == Disassemble(MasterView, b, n).end
               IN  e \in b..n /\ (e \in Addr => e \in Starts(prog)) /\ e \notin Inside(prog)
    <2>1. b \in Nat
      BY PathGoesOn, Sizes
    <2>2. \A i \in b..n : i < n => i \in Addr
      BY <1>1, <1>4, <2>1, Sizes
    <2> QED
      BY <1>3, <1>4, <2>2, SearchEnds
  <1>5. ASSUME NEW b \in Starts(prog)
        PROVE  /\ NextZone(m, b) \in Nat /\ b < NextZone(m, b)
               /\ NextZone(m, b) <= Top /\ Border(NextZone(m, b))
    <2>1. b \in Addr /\ PageOf(b) \in Pages
      BY PathGoesOn, PageCells
    <2>2. /\ NextZone(m, b) \in Nat /\ b < NextZone(m, b)
          /\ NextZone(m, b) <= PageEnd(PageOf(b))
      BY <2>1, NextZoneIs
    <2>3. PageEnd(PageOf(b)) <= Top /\ PageEnd(PageOf(b)) \in Nat
      BY <2>1, Borders
    <2>4. NextZone(m, b) \notin Inside(prog)
      BY <1>2, NextZoneBegins
    <2> QED
      BY <1>1, <2>2, <2>3, <2>4
  <1>6. /\ first.end \in a..NextZone(m, a) /\ Border(first.end)
        /\ first.end \in Addr => first.end \in Starts(prog)
    BY <1>1, <1>4, <1>5
  <1> HIDE DEF first
  <1>7. toEnd /\ ~hole => Border(second.end) /\ Border(NextZone(m, so))
    <2> SUFFICES ASSUME toEnd, ~hole PROVE Border(second.end) /\ Border(NextZone(m, so))
      OBVIOUS
    <2>1. q \in Pages
      <3>1. q \notin Pages => {r \in Pages : r >= q /\ vma[r] # "none"} = {}
        BY <1>1, Sizes
      <3>2. q \notin Pages => FoundProt(q) = "none"
        BY <3>1 DEF FoundProt
      <3> QED
        BY <3>2
    <2>2. PageBase(q) = PageEnd(p)
      BY <1>1 DEF PageBase, PageEnd
    <2>3. PageEnd(q) \in Nat /\ PageEnd(q) <= Top /\ PageEnd(p) + 3 < PageEnd(q)
      BY <1>1, <2>1, <2>2, Borders, Sizes
    <2> HIDE DEF q
    <2> DEFINE e == first.end
    <2>4. e \in Nat /\ e + 3 < Top /\ e + 3 \in Nat /\ e < e + 3
      BY <1>1, <1>6, <2>3
    <2>5. e \in Starts(prog)
      BY <1>1, <1>6, <2>4, Sizes
    <2> HIDE DEF e
    <2>6. so = Disassemble(MasterView, e, e + 3).end
      BY DEF CrossPage, MaxInstr, e
    <2>7. so \in e..(e + 3) /\ (so \in Addr => so \in Starts(prog))
      BY <1>1, <1>4, <2>4, <2>5, <2>6
    <2> HIDE DEF so
    <2>8. so \in Starts(prog)
      BY <1>1, <2>4, <2>7, Sizes
    <2>9. Border(NextZone(m, so))
      BY <1>5, <2>8
    <2>10. second.end \in so..NextZone(m, so) /\ second.end \notin Inside(prog)
      BY <1>4, <1>5, <2>8
    <2> QED
      BY <2>9, <2>10
  <1>8. \/ s.end = first.end \/ s.end = NextZone(m, a)
        \/ toEnd /\ ~hole /\ (s.end = second.end \/ s.end = NextZone(m, so))
    <2> DEFINE last == second.ret = "continue" /\ NextZone(m, so) = PageEnd(q)
               one == [ret    |-> IF first.ret = "error" THEN "restore" ELSE "zone",
                       n      |-> 1,
                       end    |-> IF first.ret = "success" \/ toEnd
                                    THEN first.end ELSE NextZone(m, a),
                       cross  |-> IF toEnd THEN Spill(p, first.end) ELSE {},
                       looked |-> IF toEnd THEN {p, q} ELSE {p},
                       probe  |-> a]
               two == [ret    |-> IF second.ret = "error" THEN "restore" ELSE "zone",
                       n      |-> 2,
                       end    |-> IF second.ret = "success" \/ last
                                    THEN second.end ELSE NextZone(m, so),
                       cross  |-> one.cross \cup
                                  (IF last THEN Spill(q, second.end) ELSE {}),
                       looked |-> {p, q},
                       probe  |-> so - PageSize]
               dead == [one EXCEPT !.ret = "fatal"]
    <2>1. s = one \/ s = dead \/ (s = two /\ toEnd /\ ~hole)
      BY Zenon DEF TrapSearch, m, first
    <2>2. /\ one.end = IF first.ret = "success" \/ toEnd THEN first.end ELSE NextZone(m, a)
          /\ two.end = IF second.ret = "success" \/ last THEN second.end ELSE NextZone(m, so)
      OBVIOUS
    <2>3. dead.end = one.end
      OBVIOUS
    <2> HIDE DEF one, two, dead, s, second, toEnd, hole, last, so
    <2> QED
      BY <2>1, <2>2, <2>3
  <1>9. Border(PageEnd(p))
    BY <1>1, BasesAreNot
  <1>10. Border(NextZone(m, a))
    BY <1>5
  <1> HIDE DEF s, second, so, toEnd, hole, Border
  <1>11. Border(s.end)
    BY <1>6, <1>7, <1>8, <1>10
  <1> QED
    BY <1>9, <1>11 DEF TrapEnd, s, Border

-----------------------------------------------------------------------------
(* Nothing cuts an instruction of such a text.                             *)

TextAligned == Aligned(prog)

\* The process is at an instruction of its text, and every instruction of it
\* is closed with its operand or not at all.
WInv ==
    /\ pc # Idle => pc \in Starts(prog)
    /\ Whole(prog, mem)

LEMMA Primed ==
    /\ Starts(prog)' = Starts(prog')
    /\ TextAligned' <=> Aligned(prog')
    /\ Whole(prog, mem)' <=> Whole(prog', mem')
  <1>1. Starts(prog)' = Starts(prog')
    BY DEF Starts, Path, IsPath, PathTurn, InstrLen
  <1>2. \A b : After(prog, b)' = After(prog', b)
    BY DEF After, InstrLen
  <1>3. TextAligned' <=> Aligned(prog')
    BY <1>1, <1>2 DEF TextAligned, Aligned, PageOf, After, InstrLen
  <1>4. Whole(prog, mem)' <=> Whole(prog', mem')
    BY <1>1 DEF Whole
  <1> QED
    BY <1>1, <1>3, <1>4

LEMMA SameWhole ==
    ASSUME WInv, prog' = prog, mem' = mem,
           pc' = pc \/ pc' = Idle \/ pc' \in Starts(prog)
    PROVE  WInv'
  BY Primed DEF WInv

\* A byte that is not the filler is the program's own.
LEMMA OwnByte ==
    ASSUME TInv, NEW a \in Addr, mem[a] # INV
    PROVE  mem[a] = prog[a]
  BY PageCells DEF TInv, TextInv

\* What the instruction at pc takes, when it is not closed.
LEMMA InstrIs ==
    ASSUME TInv, TextAligned, NEW a \in Starts(prog)
    PROVE  /\ a \in Addr
           /\ \A b \in InstrCells(a) :
                /\ b \in Addr /\ PageOf(b) = PageOf(a)
                /\ b = a \/ (b = a + 1 /\ mem[a] = prog[a] /\ prog[a] \in Long)
  <1>1. a \in Addr /\ a \in Int
    BY PathGoesOn, Sizes
  <1>2. ASSUME NEW b \in InstrCells(a), b # a
        PROVE  b = a + 1 /\ mem[a] \in Long
    <2>1. b \in Addr /\ b \in Int /\ a <= b /\ b < a + InstrLen(mem[a])
      BY <1>2, Sizes DEF InstrCells
    <2>2. CASE mem[a] \in Long
      <3>1. InstrLen(mem[a]) = 2
        BY <2>2 DEF InstrLen
      <3> QED
        BY <1>1, <1>2, <2>1, <2>2, <3>1
    <2>3. CASE mem[a] \notin Long
      <3>1. InstrLen(mem[a]) = 1
        BY <2>3 DEF InstrLen
      <3> QED
        BY <1>1, <1>2, <2>1, <3>1
    <2> QED
      BY <2>2, <2>3
  <1>3. mem[a] \in Long => mem[a] = prog[a]
    BY <1>1, OwnByte, StreamAssumption
  <1>4. mem[a] \in Long => a + 1 \in Addr /\ PageOf(a + 1) = PageOf(a)
    BY <1>3, Operand DEF TextAligned
  <1>5. InstrCells(a) \subseteq Addr
    BY DEF InstrCells
  <1> QED
    BY <1>1, <1>2, <1>3, <1>4, <1>5

\* So a fetch faults at its first byte.
LEMMA FaultsAtStart ==
    ASSUME IInv, TInv, TextAligned, WInv, NEW a \in Addr, IsFetchFault(a)
    PROVE  a \in Starts(prog)
  <1>1. pc \in Starts(prog) /\ Faults(pc) /\ a = FaultAddress(pc)
    BY DEF IsFetchFault, WInv
  <1>2. \A b \in InstrCells(pc) : PageOf(b) = PageOf(pc)
    BY <1>1, InstrIs
  <1>3. Readable(pc) => Denied(pc) = {}
    BY <1>2 DEF Readable, Denied
  <1>4. ~Readable(pc)
    BY <1>1, <1>3 DEF Faults
  <1> QED
    BY <1>1, <1>4 DEF FaultAddress

LEMMA FetchOpenZoneWhole ==
    ASSUME IInv, TInv, TextAligned, WInv, FetchOpenZone
    PROVE  WInv'
  <1>1. PICK a \in Addr :
          /\ FetchToOpen(a)
          /\ \E s \in {FetchSearch(a)} : \E z \in {FetchZone(a, s)} :
               mem' = CloseOuterZone(mem, z.pages, z.start, z.end)
          /\ UNCHANGED <<vma, pc, alive, changes, prog>>
    BY DEF FetchOpenZone
  <1> DEFINE S == ZonePages(a, FetchSearch(a).n)
             start == FetchStart(a, FetchSearch(a))
             end == FetchEnd(a, FetchSearch(a))
  <1>2. mem' = CloseOuterZone(mem, S, start, end)
    BY <1>1 DEF FetchZone
  <1>3. a \in Starts(prog)
    BY <1>1, FaultsAtStart DEF FetchToOpen
  <1>4. /\ start \in Int /\ start \notin Inside(prog)
        /\ end \in Int /\ end \notin Inside(prog)
    BY <1>1, <1>3, FetchBorders DEF TextAligned
  <1> HIDE DEF S, start, end
  <1>5. ASSUME NEW b \in Starts(prog), prog[b] \in Long
        PROVE  mem'[b] = INV <=> mem'[b + 1] = INV
    <2>1. b \in Addr /\ b + 1 \in Addr /\ PageOf(b + 1) = PageOf(b)
      BY <1>5, Operand DEF TextAligned
    <2>2. (start <= b <=> start <= b + 1) /\ (b < end <=> b + 1 < end)
      BY <1>4, <1>5, ZoneWhole
    <2>3. end % PageSize = 0 => (b < end - PageSize <=> b + 1 < end - PageSize)
      <3>1. end - PageSize \in Int
        BY <1>4, Sizes
      <3>2. end % PageSize = 0 => end - PageSize \notin Inside(prog)
        BY <1>4, RemaindersAreNot DEF TextAligned
      <3> QED
        BY <1>5, <3>1, <3>2, ZoneWhole
    <2>4. Kept(b, start, end) <=> Kept(b + 1, start, end)
      BY <2>2, <2>3 DEF Kept
    <2>5. /\ mem'[b] = IF PageOf(b) \in S /\ ~Kept(b, start, end) THEN INV ELSE mem[b]
          /\ mem'[b + 1] = IF PageOf(b) \in S /\ ~Kept(b + 1, start, end)
                             THEN INV ELSE mem[b + 1]
      BY <1>2, <2>1 DEF CloseOuterZone
    <2>6. mem[b] = INV <=> mem[b + 1] = INV
      BY <1>5 DEF WInv, Whole
    <2> QED
      BY <2>4, <2>5, <2>6
  <1>6. prog' = prog /\ pc' = pc
    BY <1>1
  <1>7. Whole(prog', mem')
    BY <1>5, <1>6 DEF Whole
  <1> QED
    BY <1>6, <1>7, Primed DEF WInv

\* Instructions that the trap writes back, and instructions it does not touch
\* or closes whole.
LEMMA TrapWhole ==
    ASSUME IInv, TInv, TextAligned, WInv, NEW zone, NEW closed,
           pc' = pc, prog' = prog,
           mem' = [b \in Addr |-> IF b \in zone THEN MasterView[b]
                                  ELSE Closing(mem, closed)[b]],
           \A b \in Starts(prog) : prog[b] \in Long => (b \in zone <=> b + 1 \in zone)
    PROVE  WInv'
  <1> DEFINE m == Closing(mem, closed)
  <1>1. Whole(prog, m)
    BY ClosingWhole DEF WInv, TextAligned
  <1> HIDE DEF m
  <1>2. ASSUME NEW b \in Starts(prog), prog[b] \in Long
        PROVE  mem'[b] = INV <=> mem'[b + 1] = INV
    <2>1. b \in Addr /\ b + 1 \in Addr
      BY <1>2, Operand DEF TextAligned
    <2>2. /\ mem'[b] = IF b \in zone THEN MasterView[b] ELSE m[b]
          /\ mem'[b + 1] = IF b + 1 \in zone THEN MasterView[b + 1] ELSE m[b + 1]
      BY <2>1 DEF m
    <2>3. \A c \in Addr : MasterView[c] = prog[c] /\ prog[c] # INV
      BY ViewIsText, StreamAssumption DEF IInv, TInv
    <2>4. CASE b \in zone
      BY <1>2, <2>1, <2>2, <2>3, <2>4
    <2>5. CASE b \notin zone
      <3>1. m[b] = INV <=> m[b + 1] = INV
        BY <1>1, <1>2 DEF Whole
      <3> QED
        BY <1>2, <2>2, <2>5, <3>1
    <2> QED
      BY <2>4, <2>5
  <1>3. Whole(prog', mem')
    BY <1>2 DEF Whole
  <1> QED
    BY <1>3, Primed DEF WInv

LEMMA TrapOpenZoneWhole ==
    ASSUME IInv, TInv, TextAligned, WInv, TrapOpenZone
    PROVE  WInv'
  <1>1. PICK a \in Addr :
          /\ IsTrap(a)
          /\ \E l \in Lookups(a) : \E s \in {TrapSearch(a, l.avail, l.closed)} :
             \E zone \in {{b \in Addr : a <= b /\ b < TrapEnd(a, s)}},
                m \in {Closing(mem, l.closed \cap s.looked)} :
               /\ PageOf(a) \in l.avail
               /\ s.ret = "zone"
               /\ MasterView[a] # INV
               /\ cross' = cross \cup s.cross
               /\ masters' = Register(Made(l, s))
               /\ mem' = [b \in Addr |-> IF b \in zone THEN MasterView[b] ELSE m[b]]
               /\ verified' = verified \cup zone
               /\ AllowMade(a, l, s)
          /\ UNCHANGED <<vma, pc, alive, changes, prog>>
    BY DEF TrapOpenZone
  <1>2. PICK l \in Lookups(a) : \E s \in {TrapSearch(a, l.avail, l.closed)} :
             \E zone \in {{b \in Addr : a <= b /\ b < TrapEnd(a, s)}},
                m \in {Closing(mem, l.closed \cap s.looked)} :
               /\ s.ret = "zone"
               /\ mem' = [b \in Addr |-> IF b \in zone THEN MasterView[b] ELSE m[b]]
    BY <1>1, ZenonT(30)
  <1> DEFINE s == TrapSearch(a, l.avail, l.closed)
             zone == {b \in Addr : a <= b /\ b < TrapEnd(a, s)}
             closed == l.closed \cap s.looked
  <1>3. /\ s.ret = "zone"
        /\ mem' = [b \in Addr |-> IF b \in zone THEN MasterView[b]
                                  ELSE Closing(mem, closed)[b]]
    BY <1>2
  <1>4. a \in Starts(prog) /\ a \in Int /\ a \notin Inside(prog)
    <2>1. a \in Starts(prog)
      BY <1>1, Sizes DEF IsTrap, WInv, Idle
    <2> QED
      BY <2>1, StartsAreNot, Sizes
  <1>5. TrapEnd(a, s) \in Int /\ TrapEnd(a, s) \notin Inside(prog)
    BY <1>3, <1>4, TrapBorders DEF TextAligned, WInv
  <1> HIDE DEF s
  <1>6. ASSUME NEW b \in Starts(prog), prog[b] \in Long
        PROVE  b \in zone <=> b + 1 \in zone
    <2>1. b \in Addr /\ b + 1 \in Addr
      BY <1>6, Operand DEF TextAligned
    <2>2. (a <= b <=> a <= b + 1) /\ (b < TrapEnd(a, s) <=> b + 1 < TrapEnd(a, s))
      BY <1>4, <1>5, <1>6, ZoneWhole
    <2> QED
      BY <2>1, <2>2
  <1> HIDE DEF zone, closed
  <1>7. pc' = pc /\ prog' = prog
    BY <1>1
  <1> QED
    BY <1>3, <1>6, <1>7, TrapWhole

LEMMA TrapRestorePageWhole ==
    ASSUME IInv, TInv, TextAligned, WInv, TrapRestorePage
    PROVE  WInv'
  <1>1. PICK a \in Addr :
          /\ IsTrap(a)
          /\ \E l \in Lookups(a) : \E s \in {TrapSearch(a, l.avail, l.closed)} :
             \E p \in {PageOf(a)}, m \in {Closing(mem, l.closed \cap s.looked)} :
               /\ p \in l.avail
               /\ \/ s.ret = "restore" /\ ~FillerAt(p, s.probe)
                  \/ s.ret = "zone" /\ MasterView[a] # INV /\ "write" \in Failures
               /\ cross' = cross \cup s.cross \cup {<<p, "start">>, <<p, "end">>}
               /\ masters' = [Register(Made(l, s)) EXCEPT ![p] = Tail(@)]
               /\ mem' = [b \in Addr |-> IF PageOf(b) = p THEN MasterView[b] ELSE m[b]]
               /\ verified' = verified \cup CellsOf(p)
               /\ AllowMade(a, l, s)
          /\ UNCHANGED <<vma, pc, alive, changes, prog>>
    BY DEF TrapRestorePage
  <1>2. PICK closed : mem' = [b \in Addr |-> IF PageOf(b) = PageOf(a) THEN MasterView[b]
                                             ELSE Closing(mem, closed)[b]]
    BY <1>1
  <1> DEFINE zone == CellsOf(PageOf(a))
  <1>3. \A b \in Addr : b \in zone <=> PageOf(b) = PageOf(a)
    BY DEF CellsOf
  <1> HIDE DEF zone
  <1>4. mem' = [b \in Addr |-> IF b \in zone THEN MasterView[b]
                               ELSE Closing(mem, closed)[b]]
    BY <1>2, <1>3
  <1>5. \A b \in Starts(prog) : prog[b] \in Long => (b \in zone <=> b + 1 \in zone)
    BY <1>3, Operand DEF TextAligned
  <1>6. pc' = pc /\ prog' = prog
    BY <1>1
  <1> QED
    BY <1>4, <1>5, <1>6, TrapWhole

\* A store makes whole what it hits and leaves the other pages.
LEMMA StoreWhole ==
    ASSUME IInv, TInv, Plain, TextAligned, TextAligned', WInv,
           StoreDirect \/ StoreFaultWX \/ StoreFaultW
    PROVE  WInv'
  <1>1. TInv' /\ Rewritten
    BY StoreDirectText, StoreFaultWXText, StoreFaultWText
  <1>2. PICK p \in Pages :
          /\ \A b \in CellsOf(p) : mem'[b] = prog'[b]
          /\ \A q \in Pages \ {p} : \A b \in CellsOf(q) :
               mem'[b] = mem[b] /\ prog'[b] = prog[b]
    BY <1>1 DEF Rewritten
  <1>3. Aligned(prog') /\ \A b \in Addr : prog'[b] # INV
    BY <1>1, Primed, StreamAssumption DEF TInv
  <1>4. ASSUME NEW b \in Starts(prog'), prog'[b] \in Long
        PROVE  mem'[b] = INV <=> mem'[b + 1] = INV
    <2> DEFINE q == PageOf(b)
    <2>1. b \in Addr /\ b + 1 \in Addr /\ b \in CellsOf(q) /\ b + 1 \in CellsOf(q) /\ q \in Pages
      BY <1>3, <1>4, Operand, PageCells
    <2> HIDE DEF q
    <2>2. CASE q = p
      BY <1>2, <1>3, <2>1, <2>2
    <2>3. CASE q # p
      <3>1. \A c \in CellsOf(q) : mem'[c] = mem[c] /\ prog'[c] = prog[c]
        BY <1>2, <2>1, <2>3
      <3>2. b \in Starts(prog) /\ prog[b] \in Long
        BY <1>3, <1>4, <2>1, <3>1, SameStarts DEF TextAligned
      <3> QED
        BY <2>1, <3>1, <3>2 DEF WInv, Whole
    <2> QED
      BY <2>2, <2>3
  <1>5. Whole(prog', mem')
    BY <1>4 DEF Whole
  <1>6. pc' = Idle
    BY DEF StoreDirect, StoreFaultWX, StoreFaultW, Changing
  <1> QED
    BY <1>5, <1>6, Primed DEF WInv

LEMMA ExecuteWhole ==
    ASSUME TInv, WInv, Execute
    PROVE  WInv'
  <1>1. mem' = mem /\ prog' = prog
    BY DEF Execute, hidden
  <1>2. pc \in Starts(prog) /\ pc \in Addr
    BY PathGoesOn DEF Execute, WInv
  <1>3. mem[pc] = prog[pc]
    <2>1. mem[pc] \notin Illegal
      BY DEF Execute, Runs, Faults, Traps
    <2> QED
      BY <1>2, <2>1, OwnByte, StreamAssumption
  <1>4. pc' = Idle \/ pc' \in Starts(prog)
    <2>1. CASE mem[pc] \in Control
      BY <2>1, EntriesBegin DEF Execute
    <2>2. CASE mem[pc] \notin Control
      <3>1. pc' = Idle \/ (pc' = After(prog, pc) /\ pc' \in Addr)
        BY <1>3, <2>2 DEF Execute, After
      <3> QED
        BY <1>2, <3>1, PathGoesOn
    <2> QED
      BY <2>1, <2>2
  <1> QED
    BY <1>1, <1>4, SameWhole

LEMMA NextWhole ==
    ASSUME IInv, TInv, Plain, TextAligned, TextAligned', WInv, [Next]_vars
    PROVE  WInv'
  <1>1. Die \/ Exit \/ Mprotect \/ UNCHANGED vars => WInv'
    <2>1. Die \/ Exit \/ Mprotect \/ UNCHANGED vars
            => mem' = mem /\ prog' = prog /\ (pc' = pc \/ pc' = Idle)
      BY DEF Die, Exit, Mprotect, Changing, vars, hidden
    <2> QED
      BY <2>1, SameWhole
  <1>2. Enter => WInv'
    <2>1. Enter => mem' = mem /\ prog' = prog /\ pc' \in Starts(prog)
      BY EntriesBegin DEF Enter, hidden
    <2> QED
      BY <2>1, SameWhole
  <1>3. FetchFatal \/ FetchRejected \/ TrapFatal => Die
    BY DEF FetchFatal, FetchRejected, TrapFatal
  <1>4. FetchAlreadyChecked \/ FetchDisassemblerError \/ FetchPageCheck => WInv'
    <2>1. FetchAlreadyChecked => mem' = mem /\ prog' = prog /\ pc' = pc
      BY DEF FetchAlreadyChecked, hidden
    <2>2. FetchDisassemblerError => mem' = mem /\ prog' = prog /\ pc' = pc
      BY DEF FetchDisassemblerError
    <2>3. FetchPageCheck => mem' = mem /\ prog' = prog /\ pc' = pc
      BY DEF FetchPageCheck
    <2> QED
      BY <2>1, <2>2, <2>3, SameWhole
  <1>5. CASE FetchFault
    BY <1>1, <1>3, <1>4, <1>5, FetchOpenZoneWhole DEF FetchFault
  <1>6. CASE InvalidOpcode
    BY <1>1, <1>3, <1>6, TrapOpenZoneWhole, TrapRestorePageWhole DEF InvalidOpcode
  <1>7. CASE Process
    <2>1. ~Remap
      BY DEF Remap, Plain
    <2> QED
      BY <1>1, <1>2, <1>7, <2>1, ExecuteWhole, StoreWhole DEF Process
  <1> QED
    BY <1>1, <1>5, <1>6, <1>7 DEF Next

LEMMA InitWhole ==
    ASSUME Plain, Init, TextAligned
    PROVE  WInv
  <1>1. prog = Text /\ mem = Text /\ pc = Idle
    BY DEF Init
  <1>2. ASSUME NEW b \in Starts(prog), prog[b] \in Long
        PROVE  mem[b] # INV /\ mem[b + 1] # INV
    <2>1. b \in Addr /\ b + 1 \in Addr
      BY <1>2, Operand DEF TextAligned
    <2> QED
      BY <1>1, <2>1, StreamAssumption DEF Plain
  <1> QED
    BY <1>1, <1>2 DEF WInv, Whole

\* What runs is whole.
LEMMA WholeRuns ==
    ASSUME TInv, TextAligned, WInv
    PROVE  WholeInstructions
  <1> SUFFICES ASSUME pc # Idle, Runs(pc), NEW b \in InstrCells(pc)
               PROVE  mem[b] = prog[b]
    BY DEF WholeInstructions
  <1>1. pc \in Starts(prog) /\ mem[pc] # INV
    BY StreamAssumption DEF WInv, Runs, Faults, Traps
  <1>2. b \in Addr /\ (b = pc \/ (b = pc + 1 /\ prog[pc] \in Long))
    BY <1>1, InstrIs
  <1>3. mem[b] # INV
    BY <1>1, <1>2 DEF WInv, Whole
  <1> QED
    BY <1>2, <1>3, OwnByte

\* The border of a page is the only one that tears an instruction: as long as
\* the text of the process has none that crosses it, no zone that is opened,
\* closed, reopened or restored, whichever steps fail, begins or ends inside one
\* (sig_handler, fprober_sig_handler.c:302-508; close_outer_zone, zone.c:938-977;
\* invalid_op_handler, fprober_invalid_op.c:351-675).
THEOREM OnlyTheBorderTears ==
    ASSUME Plain
    PROVE  Spec /\ []TextAligned => []WholeInstructions
  <1>1. Spec => [](IInv /\ TInv)
    BY TextHolds
  <1>2. Init /\ TextAligned => WInv
    BY InitWhole
  <1>3. IInv /\ TInv /\ TextAligned /\ TextAligned' /\ WInv /\ [Next]_vars => WInv'
    BY NextWhole
  <1>4. TInv /\ TextAligned /\ WInv => WholeInstructions
    BY WholeRuns
  <1> QED
    BY <1>1, <1>2, <1>3, <1>4, PTL DEF Spec

\* The text of a process that does not store to its own code stays aligned if
\* it was, so such a process never runs a torn instruction.
THEOREM FixedTextIsWhole ==
    ASSUME Plain, Stored = {}, Aligned(Text)
    PROVE  Spec => []WholeInstructions
  <1>1. Init => prog = Text
    BY DEF Init
  <1>2. prog = Text /\ [Next]_vars => (prog = Text)'
    <2>1. ~(StoreDirect \/ StoreFaultWX \/ StoreFaultW \/ Remap)
      BY DEF StoreDirect, StoreFaultWX, StoreFaultW, Remap, Plain
    <2>2. Die \/ Enter \/ Execute \/ Exit \/ Mprotect \/ UNCHANGED vars => prog' = prog
      BY DEF Die, Enter, Execute, Exit, Mprotect, hidden, vars
    <2>3. FetchFatal \/ FetchRejected \/ TrapFatal => Die
      BY DEF FetchFatal, FetchRejected, TrapFatal
    <2>4. FetchAlreadyChecked \/ FetchOpenZone \/ FetchDisassemblerError => prog' = prog
      BY DEF FetchAlreadyChecked, FetchOpenZone, FetchDisassemblerError, hidden
    <2>5. FetchPageCheck \/ TrapOpenZone \/ TrapRestorePage => prog' = prog
      BY DEF FetchPageCheck, TrapOpenZone, TrapRestorePage
    <2>6. [Next]_vars => prog' = prog
      BY <2>1, <2>2, <2>3, <2>4, <2>5 DEF Next, FetchFault, InvalidOpcode, Process
    <2> QED
      BY <2>6
  <1>3. prog = Text => TextAligned
    BY DEF TextAligned
  <1> QED
    BY <1>1, <1>2, <1>3, OnlyTheBorderTears, PTL DEF Spec

\* A process whose text has no such instruction and no filler byte gets all of
\* what CheckedText promises, whatever it stores.
THEOREM AlignedTextIsChecked ==
    ASSUME Plain, Closes, NoFiller
    PROVE  Spec /\ []TextAligned => PromiseKept
  BY PlainSealed, OnlyTheBorderTears, PromiseKeptUnlessTorn, PTL

=============================================================================

--------------------------- MODULE PageLife_proofs ---------------------------
(***************************************************************************)
(* What holds of PageLife for every number of pages, page size and text:   *)
(* only checked bytes can run, CHECK_DENY_BIT keeps its word and a page is *)
(* never writable unseen while it may run.                                 *)
(***************************************************************************)
EXTENDS PageLife, TLAPS, SequenceTheorems

\* The process does not make an executable page writable: it seals what it
\* wrote.
Sealed ==
    \A t \in Transitions :
      /\ t[3] \in {"x", "wx"}
      /\ t[3] = "wx" => t[2] = "w"

\* The kernel writes a closed page back.
Closes == "close" \notin Failures

\* The part of the invariant about page p.
PageInv(p) ==
    /\ Closes /\ (~pte[p].exeDeny \/ pte[p].check) =>
         \A a \in CellsOf(p) : mem[a] = INV \/ a \in verified
    /\ pte[p].write => pte[p].exeDeny /\ ~pte[p].check /\ Writable(vma[p])
    /\ vma[p] = "w" => pte[p].exeDeny /\ ~pte[p].check
    /\ pte[p].origExe => Executable(vma[p])

IInv == TypeOK /\ \A p \in Pages : PageInv(p)

-----------------------------------------------------------------------------
(* Pages, addresses and flags.                                             *)

LEMMA PageOfAddr ==
    ASSUME NEW a \in Addr
    PROVE  PageOf(a) \in Pages
  <1>1. /\ NumPages \in Nat /\ PageSize \in Nat /\ PageSize > 0
        /\ a \in Int /\ 0 <= a /\ a < NumPages * PageSize
    BY PageAssumption, SMTT(30) DEF Addr, MaxInstr
  <1>2. /\ PageOf(a) \in Int
        /\ PageSize * PageOf(a) <= a /\ a < PageSize * (PageOf(a) + 1)
    BY <1>1, Z3 DEF PageOf
  <1>3. 0 <= PageOf(a)
    BY <1>1, <1>2, Z3
  <1>4. PageOf(a) < NumPages
    BY <1>1, <1>2, Z3
  <1> QED
    BY <1>1, <1>2, <1>3, <1>4 DEF Pages

LEMMA FoundProtHere ==
    ASSUME vma \in [Pages -> Prot], NEW q \in Pages, vma[q] # "none"
    PROVE  FoundProt(q) = vma[q]
  <1> DEFINE above == {r \in Pages : r >= q /\ vma[r] # "none"}
             least == CHOOSE r \in above : \A s \in above : r <= s
  <1>1. q \in above /\ \A s \in above : q <= s
    BY PageAssumption DEF Pages
  <1>2. least \in above /\ \A s \in above : least <= s
    BY <1>1
  <1>3. least = q
    BY <1>1, <1>2, PageAssumption DEF Pages
  <1> QED
    BY <1>1, <1>3 DEF FoundProt

LEMMA AllowedFlags ==
    ASSUME NEW f \in PteFlags, NEW w \in BOOLEAN
    PROVE  /\ Allowed(f, w) \in PteFlags
           /\ Allowed(f, w).write => f.write /\ ~w
           /\ ~Allowed(f, w).exeDeny
           /\ Allowed(f, w).check
           /\ Allowed(f, w).origExe = f.origExe
  BY DEF PteFlags, Allowed


\* Opening the pages of S keeps the invariant when what may run of them is
\* the filler or was checked and those that were writable are not any more.
LEMMA Opened ==
    ASSUME IInv,
           NEW S \in SUBSET Pages, NEW w \in [Pages -> BOOLEAN],
           vma' = vma,
           pte' = [q \in Pages |-> IF q \in S THEN Allowed(pte[q], w[q])
                                              ELSE pte[q]],
           verified \subseteq verified',
           \A q \in S : vma[q] # "w" /\ (pte[q].write => w[q]),
           \A q \in S : \A a \in CellsOf(q) : Closes => mem'[a] = INV \/ a \in verified',
           \A q \in Pages \ S : \A a \in CellsOf(q) :
             mem'[a] = mem[a] \/ mem'[a] = INV \/ a \in verified'
    PROVE  pte' \in [Pages -> PteFlags] /\ \A q \in Pages : PageInv(q)'
  <1>1. \A q \in Pages : pte[q] \in PteFlags /\ w[q] \in BOOLEAN
    BY DEF IInv, TypeOK
  <1>2. pte' \in [Pages -> PteFlags]
    BY <1>1, AllowedFlags
  <1>3. ASSUME NEW q \in Pages
        PROVE  PageInv(q)'
    <2>1. CASE q \in S
      <3>1. /\ ~pte'[q].exeDeny
            /\ pte'[q].write => pte[q].write /\ ~w[q]
            /\ pte'[q].origExe = pte[q].origExe
        <4>1. pte'[q] = Allowed(pte[q], w[q])
          BY <2>1
        <4>2. pte[q] \in PteFlags /\ w[q] \in BOOLEAN
          BY <1>1
        <4>3. /\ ~Allowed(pte[q], w[q]).exeDeny
              /\ Allowed(pte[q], w[q]).write => pte[q].write /\ ~w[q]
              /\ Allowed(pte[q], w[q]).origExe = pte[q].origExe
          BY ONLY <4>2, AllowedFlags
        <4> QED
          BY ONLY <4>1, <4>3
      <3>2. vma'[q] # "w" /\ ~pte'[q].write
        BY <1>1, <2>1, <3>1
      <3>3. Closes => \A a \in CellsOf(q) : mem'[a] = INV \/ a \in verified'
        BY <2>1
      <3>4. pte'[q].origExe => Executable(vma'[q])
        BY <3>1 DEF IInv, PageInv
      <3> QED
        BY <3>2, <3>3, <3>4 DEF PageInv, CellsOf
    <2>2. CASE q \notin S
      <3>1. pte'[q] = pte[q] /\ vma'[q] = vma[q]
        BY <2>2
      <3> QED
        BY <2>2, <3>1 DEF IInv, PageInv, CellsOf
    <2> QED
      BY <2>1, <2>2
  <1> QED
    BY <1>2, <1>3

\* Taking execution and the check of page p back keeps it, whatever is stored.
LEMMA Closed ==
    ASSUME IInv,
           NEW p \in Pages, NEW f \in PteFlags,
           f.exeDeny, ~f.check,
           pte' = [pte EXCEPT ![p] = f],
           f.write => Writable(vma'[p]),
           f.origExe => Executable(vma'[p]),
           \A q \in Pages \ {p} : vma'[q] = vma[q],
           \A q \in Pages \ {p} : \A a \in CellsOf(q) :
             mem'[a] = mem[a] /\ (a \in verified => a \in verified')
    PROVE  pte' \in [Pages -> PteFlags] /\ \A q \in Pages : PageInv(q)'
  <1>1. pte' \in [Pages -> PteFlags] /\ pte'[p] = f
    BY DEF IInv, TypeOK
  <1>2. PageInv(p)'
    BY <1>1 DEF PageInv
  <1>3. ASSUME NEW q \in Pages, q # p
        PROVE  PageInv(q)'
    <2>1. pte'[q] = pte[q] /\ vma'[q] = vma[q]
      BY <1>3 DEF IInv, TypeOK
    <2> QED
      BY <1>3, <2>1 DEF IInv, PageInv, CellsOf
  <1> QED
    BY <1>1, <1>2, <1>3

-----------------------------------------------------------------------------
(* What the handlers work on.                                              *)

\* The zone of a fetch fault is the faulting page and at most the next one,
\* which is execute-only.
LEMMA FetchedPages ==
    ASSUME TypeOK, NEW a \in Addr
    PROVE  /\ PageOf(a) \in ZonePages(a, FetchSearch(a).n)
           /\ \A q \in ZonePages(a, FetchSearch(a).n) :
                q \in Pages /\ (q = PageOf(a) \/ vma[q] = "x")
           /\ FetchSearch(a).cross \subseteq Int \X {"start", "end"}
           /\ FetchSearch(a).n \in Int
  <1> DEFINE p == PageOf(a)
             n == FetchSearch(a).n
  <1>1. p \in Pages /\ p \in Int
    BY PageOfAddr DEF Pages
  <1>2. n = 1 \/ (n = 2 /\ FoundProt(p + 1) = "x" /\ vma[p + 1] # "none")
    BY DEF FetchSearch
  <1>3. ASSUME p + 1 \in Pages, FoundProt(p + 1) = "x", vma[p + 1] # "none"
        PROVE  vma[p + 1] = "x"
    BY <1>3, FoundProtHere DEF TypeOK
  <1>4. ASSUME NEW q \in Int, NEW end
        PROVE  Spill(q, end) \subseteq Int \X {"start", "end"}
    <2>1. <<q, "end">> \in Int \X {"start", "end"}
      OBVIOUS
    <2>2. <<q + 1, "start">> \in Int \X {"start", "end"}
      OBVIOUS
    <2> QED
      BY ONLY <2>1, <2>2 DEF Spill
  <1>5. FetchSearch(a).cross \subseteq Int \X {"start", "end"}
    <2>1. PICK end, later :
             FetchSearch(a).cross \subseteq Spill(p, end) \cup Spill(p + 1, later)
      BY DEF FetchSearch
    <2>2. p + 1 \in Int
      BY <1>1
    <2> QED
      BY <1>1, <1>4, <2>1, <2>2
  <1> HIDE DEF n
  <1>6. \A q \in Pages :
           p <= q /\ q < p + n => q = p \/ (q = p + 1 /\ n = 2)
    BY <1>1, <1>2 DEF Pages
  <1>7. p <= p /\ p < p + n /\ n \in Int
    BY <1>1, <1>2
  <1> QED
    BY <1>1, <1>2, <1>3, <1>5, <1>6, <1>7 DEF ZonePages, n

LEMMA FlagsTyped ==
    ASSUME TypeOK, NEW a \in Addr
    PROVE  FetchFlags(a, FetchSearch(a)) \subseteq Int \X {"start", "end"}
  BY FetchedPages DEF TypeOK, FetchFlags, Unregister

\* A master copy is put on top of the older ones.
LEMMA Registered ==
    ASSUME TypeOK, NEW S
    PROVE  /\ DOMAIN Register(S) = Pages
           /\ \A q \in Pages :
                /\ Register(S)[q] \in Seq([CellsOf(q) -> Cell])
                /\ q \in S \/ masters[q] # <<>> => Register(S)[q] # <<>>
  <1>1. ASSUME NEW q \in Pages
        PROVE  /\ <<Content(mem, q)>> \o masters[q] \in Seq([CellsOf(q) -> Cell])
               /\ <<Content(mem, q)>> \o masters[q] # <<>>
    <2>1. Content(mem, q) \in [CellsOf(q) -> Cell]
      BY DEF Content, CellsOf, TypeOK
    <2>2. masters[q] \in Seq([CellsOf(q) -> Cell])
      BY DEF TypeOK
    <2> HIDE DEF TypeOK
    <2> QED
      BY <2>1, <2>2
  <1> QED
    BY <1>1 DEF Register, TypeOK

LEMMA ClosedTyped ==
    ASSUME TypeOK
    PROVE  /\ \A S, start, end : CloseOuterZone(mem, S, start, end) \in [Addr -> Cell]
           /\ \A S : Closing(mem, S) \in [Addr -> Cell]
           /\ MasterView \in [Addr -> Cell]
  <1>1. INV \in Cell
    BY StreamAssumption
  <1>2. ASSUME NEW a \in Addr
        PROVE  MasterView[a] \in Cell
    <2>1. PageOf(a) \in Pages /\ a \in CellsOf(PageOf(a))
      BY PageOfAddr DEF CellsOf
    <2>2. masters[PageOf(a)] \in Seq([CellsOf(PageOf(a)) -> Cell])
      BY <2>1 DEF TypeOK
    <2>3. masters[PageOf(a)] # <<>> =>
            Head(masters[PageOf(a)]) \in [CellsOf(PageOf(a)) -> Cell]
      BY ONLY <2>2, HeadTailProperties
    <2> QED
      BY <2>1, <2>3 DEF MasterView, TypeOK
  <1>3. MasterView \in [Addr -> Cell]
    BY <1>2 DEF MasterView
  <1> QED
    BY <1>1, <1>3 DEF TypeOK, CloseOuterZone, Closing

-----------------------------------------------------------------------------
(* The fetch fault.                                                        *)

\* Where a fetch fault is: an address, and its page when it is to be opened.
LEMMA FetchPage ==
    ASSUME IInv, NEW a \in Addr, pte[PageOf(a)].origExe
    PROVE  /\ PageOf(a) \in Pages
           /\ vma[PageOf(a)] # "w"
  BY PageOfAddr DEF IInv, PageInv, Executable

\* The pages of the zone may run: the first can be writable, the next cannot.
LEMMA AllowExeOpens ==
    ASSUME IInv, NEW p \in Pages, NEW S \in SUBSET Pages,
           vma[p] # "w", \A q \in S : q = p \/ vma[q] = "x",
           AllowExe(p, S), vma' = vma, verified \subseteq verified',
           \A q \in S : \A a \in CellsOf(q) : Closes => mem'[a] = INV \/ a \in verified',
           \A q \in Pages \ S : \A a \in CellsOf(q) : mem'[a] = mem[a]
    PROVE  pte' \in [Pages -> PteFlags] /\ \A q \in Pages : PageInv(q)'
  <1> DEFINE w == [q \in Pages |-> q = p /\ Writable(vma[q])]
  <1>1. w \in [Pages -> BOOLEAN]
    OBVIOUS
  <1>2. pte' = [q \in Pages |-> IF q \in S THEN Allowed(pte[q], w[q]) ELSE pte[q]]
    BY DEF AllowExe
  <1>3. \A q \in S : vma[q] # "w" /\ (pte[q].write => w[q])
    <2>1. \A q \in S : pte[q].write => Writable(vma[q])
      BY DEF IInv, PageInv
    <2> QED
      BY <2>1 DEF Writable
  <1> HIDE DEF w
  <1> QED
    BY <1>1, <1>2, <1>3, Opened

LEMMA FetchOpenZoneKeeps ==
    ASSUME IInv, FetchOpenZone
    PROVE  IInv'
  <1>1. PICK a \in Addr :
          /\ FetchToOpen(a)
          /\ \E s \in {FetchSearch(a)} : \E z \in {FetchZone(a, s)} :
               /\ cross' = z.flags
               /\ masters' = Register(z.pages)
               /\ mem' = CloseOuterZone(mem, z.pages, z.start, z.end)
               /\ verified' = verified \cup {b \in Addr : z.start <= b /\ b < z.end}
               /\ AllowExe(PageOf(a), z.pages)
          /\ UNCHANGED <<vma, pc, alive, changes, prog>>
    BY DEF FetchOpenZone
  <1> DEFINE p == PageOf(a)
             S == ZonePages(a, FetchSearch(a).n)
             start == FetchStart(a, FetchSearch(a))
             end == FetchEnd(a, FetchSearch(a))
  <1>2. /\ cross' = FetchFlags(a, FetchSearch(a))
        /\ masters' = Register(S)
        /\ mem' = CloseOuterZone(mem, S, start, end)
        /\ verified' = verified \cup {b \in Addr : start <= b /\ b < end}
        /\ AllowExe(p, S)
    BY <1>1 DEF FetchZone
  <1>3. TypeOK
    BY DEF IInv
  <1>4. p \in Pages /\ vma[p] # "w"
    BY <1>1, FetchPage DEF FetchToOpen
  <1>5. S \in SUBSET Pages /\ \A q \in S : q = p \/ vma[q] = "x"
    BY <1>3, FetchedPages
  <1> HIDE DEF S, start, end
  <1>6. \A b \in Addr : PageOf(b) \in S => mem'[b] = INV \/ b \in verified'
    BY <1>2 DEF CloseOuterZone, Kept
  <1>7. \A b \in Addr : PageOf(b) \notin S => mem'[b] = mem[b]
    BY <1>2, <1>3 DEF CloseOuterZone, TypeOK
  <1>8. pte' \in [Pages -> PteFlags] /\ \A q \in Pages : PageInv(q)'
    BY <1>1, <1>2, <1>4, <1>5, <1>6, <1>7, AllowExeOpens DEF CellsOf
  <1>9. TypeOK'
    <2>1. mem' \in [Addr -> Cell]
      BY <1>2, <1>3, ClosedTyped
    <2>2. /\ DOMAIN masters' = Pages
          /\ \A q \in Pages : masters'[q] \in Seq([CellsOf(q) -> Cell])
      BY <1>2, <1>3, Registered
    <2>3. cross' \subseteq Int \X {"start", "end"}
      BY <1>2, <1>3, FlagsTyped
    <2>4. verified' \subseteq Addr
      BY <1>2, <1>3 DEF TypeOK
    <2> QED
      BY <1>1, <1>3, <1>8, <2>1, <2>2, <2>3, <2>4 DEF TypeOK, CellsOf
  <1> QED
    BY <1>8, <1>9 DEF IInv

LEMMA DieKeeps ==
    ASSUME IInv, Die
    PROVE  IInv'
  BY DEF IInv, TypeOK, PageInv, Die, hidden, CellsOf

LEMMA FetchAlreadyCheckedKeeps ==
    ASSUME IInv, FetchAlreadyChecked
    PROVE  IInv'
  <1>1. PICK a \in Addr :
          /\ pte[PageOf(a)].origExe /\ pte[PageOf(a)].check
          /\ AllowExe(PageOf(a), {PageOf(a)})
          /\ UNCHANGED <<vma, mem, masters, cross, pc, alive, changes, hidden>>
    BY DEF FetchAlreadyChecked
  <1> DEFINE p == PageOf(a)
  <1>2. p \in Pages /\ vma[p] # "w"
    BY <1>1, FetchPage
  <1>3. \A b \in CellsOf(p) : Closes => mem'[b] = INV \/ b \in verified'
    BY <1>1, <1>2 DEF IInv, PageInv, hidden
  <1>4. pte' \in [Pages -> PteFlags] /\ \A q \in Pages : PageInv(q)'
    BY <1>1, <1>2, <1>3, AllowExeOpens DEF hidden
  <1> QED
    BY <1>1, <1>4 DEF IInv, TypeOK, hidden, CellsOf

\* The whole faulting page is checked and may run as it is.
LEMMA WholePageKeeps ==
    ASSUME IInv, NEW p \in Pages, vma[p] # "w",
           AllowExe(p, {p}),
           verified' = verified \cup CellsOf(p),
           cross' \subseteq Int \X {"start", "end"},
           DOMAIN masters' = Pages,
           \A q \in Pages : masters'[q] \in Seq([CellsOf(q) -> Cell]),
           UNCHANGED <<vma, mem, pc, alive, changes, prog>>
    PROVE  IInv'
  <1>1. pte' \in [Pages -> PteFlags] /\ \A q \in Pages : PageInv(q)'
    BY AllowExeOpens
  <1> QED
    BY <1>1 DEF IInv, TypeOK, CellsOf

LEMMA FetchDisassemblerErrorKeeps ==
    ASSUME IInv, FetchDisassemblerError
    PROVE  IInv'
  <1>1. PICK a \in Addr :
          /\ FetchToOpen(a)
          /\ cross' = cross \cup FetchSearch(a).cross
                        \cup {<<PageOf(a), "start">>, <<PageOf(a), "end">>}
          /\ verified' = verified \cup CellsOf(PageOf(a))
          /\ AllowExe(PageOf(a), {PageOf(a)})
          /\ UNCHANGED <<vma, mem, masters, pc, alive, changes, prog>>
    BY DEF FetchDisassemblerError
  <1>2. PageOf(a) \in Pages /\ PageOf(a) \in Int /\ vma[PageOf(a)] # "w"
    BY <1>1, FetchPage DEF FetchToOpen, Pages
  <1>3. cross' \subseteq Int \X {"start", "end"}
    BY <1>1, <1>2, FetchedPages DEF IInv, TypeOK
  <1> QED
    BY <1>1, <1>2, <1>3, WholePageKeeps DEF IInv, TypeOK

LEMMA FetchPageCheckKeeps ==
    ASSUME IInv, FetchPageCheck
    PROVE  IInv'
  <1>1. PICK a \in Addr :
          /\ FetchToOpen(a)
          /\ \E s \in {FetchSearch(a)} : \E z \in {FetchZone(a, s)}, p \in {PageOf(a)} :
               /\ s.ret \in {"success", "continue"}
               /\ \E k \in 0 .. s.n :
                    /\ OnlyRegistered(p, s, z.pages, k)
                    /\ masters' = Register({q \in z.pages : q < p + k})
               /\ cross' = z.flags
                    \cup (IF z.start % PageSize = 0 THEN {} ELSE {<<p, "start">>})
                    \cup (IF z.end % PageSize = 0 THEN {} ELSE {<<p + s.n - 1, "end">>})
               /\ verified' = verified \cup CellsOf(p)
               /\ AllowExe(p, {p})
          /\ UNCHANGED <<vma, mem, pc, alive, changes, prog>>
    BY DEF FetchPageCheck
  <1> DEFINE p == PageOf(a)
             n == FetchSearch(a).n
  <1>2. /\ \E S : masters' = Register(S)
        /\ \E S \in SUBSET {<<p, "start">>, <<p + n - 1, "end">>} :
             cross' = FetchFlags(a, FetchSearch(a)) \cup S
        /\ verified' = verified \cup CellsOf(p)
        /\ AllowExe(p, {p})
    <2>1. PICK z \in {FetchZone(a, FetchSearch(a))} :
            /\ \E k : masters' = Register({q \in z.pages : q < p + k})
            /\ cross' = z.flags
                 \cup (IF z.start % PageSize = 0 THEN {} ELSE {<<p, "start">>})
                 \cup (IF z.end % PageSize = 0 THEN {} ELSE {<<p + n - 1, "end">>})
            /\ verified' = verified \cup CellsOf(p)
            /\ AllowExe(p, {p})
      BY <1>1
    <2>2. z.flags = FetchFlags(a, FetchSearch(a))
      BY <2>1 DEF FetchZone
    <2>3. cross' = FetchFlags(a, FetchSearch(a)) \cup
                    ((IF z.start % PageSize = 0 THEN {} ELSE {<<p, "start">>})
                     \cup (IF z.end % PageSize = 0 THEN {} ELSE {<<p + n - 1, "end">>}))
      BY <2>1, <2>2
    <2> QED
      BY <2>1, <2>3
  <1>3. p \in Pages /\ p \in Int /\ vma[p] # "w"
    BY <1>1, FetchPage DEF FetchToOpen, Pages
  <1>4. n \in Int
    BY FetchedPages DEF IInv
  <1> HIDE DEF n
  <1>5. cross' \subseteq Int \X {"start", "end"}
    BY <1>2, <1>3, <1>4, FlagsTyped DEF IInv, n
  <1>6. /\ DOMAIN masters' = Pages
        /\ \A q \in Pages : masters'[q] \in Seq([CellsOf(q) -> Cell])
    BY <1>2, Registered DEF IInv
  <1> QED
    BY <1>1, <1>2, <1>3, <1>5, <1>6, WholePageKeeps

-----------------------------------------------------------------------------
(* The trap on an undefined opcode.                                        *)

\* A page a trap registers is one the process can execute, and it is closed.
LEMMA LookedUp ==
    ASSUME IInv, NEW a \in Addr, NEW l \in Lookups(a)
    PROVE  \A q \in l.avail :
             /\ q \in Pages /\ (q = PageOf(a) \/ q = PageOf(a) + 1)
             /\ masters[q] = <<>> => Registrable(q) /\ (Closes => q \in l.closed)
  <1> DEFINE here == {q \in Pages : PageOf(a) <= q /\ q <= PageOf(a) + 1}
             old == {q \in here : masters[q] # <<>>}
             new == {q \in here \ old : Registrable(q)}
  <1>1. PICK made \in Succeeding("register", new) :
          l \in {[avail |-> old \cup made, closed |-> closed] :
                    closed \in Succeeding("close", made)}
    BY DEF Lookups
  <1>2. made \subseteq new
    BY DEF Succeeding
  <1>3. l.avail = old \cup made /\ (Closes => l.closed = made)
    BY <1>1 DEF Succeeding, Closes
  <1>4. \A q \in here : q = PageOf(a) \/ q = PageOf(a) + 1
    BY PageOfAddr DEF Pages
  <1> QED
    BY <1>2, <1>3, <1>4

LEMMA TrapSearched ==
    ASSUME NEW a \in Addr, NEW avail, NEW closed
    PROVE  /\ PageOf(a) \in TrapSearch(a, avail, closed).looked
           /\ TrapSearch(a, avail, closed).cross \subseteq Int \X {"start", "end"}
  <1> DEFINE p == PageOf(a)
             s == TrapSearch(a, avail, closed)
  <1>1. p \in Int /\ p + 1 \in Int
    BY PageOfAddr DEF Pages
  <1>2. p \in s.looked
    BY DEF TrapSearch
  <1>3. PICK end, later : s.cross \subseteq Spill(p, end) \cup Spill(p + 1, later)
    BY DEF TrapSearch
  <1>4. ASSUME NEW q \in Int, NEW e
        PROVE  Spill(q, e) \subseteq Int \X {"start", "end"}
    <2>1. <<q, "end">> \in Int \X {"start", "end"}
      OBVIOUS
    <2>2. <<q + 1, "start">> \in Int \X {"start", "end"}
      OBVIOUS
    <2> QED
      BY ONLY <2>1, <2>2 DEF Spill
  <1> HIDE DEF s
  <1>5. s.cross \subseteq Int \X {"start", "end"}
    BY <1>1, <1>3, <1>4
  <1> QED
    BY <1>2, <1>5 DEF s

\* What a trap may open: the pages it made, whose bytes are the filler but
\* for those it checked.
LEMMA TrapOpens ==
    ASSUME IInv, NEW a \in Addr, IsTrap(a),
           NEW l \in Lookups(a), NEW s,
           AllowMade(a, l, s), vma' = vma, verified \subseteq verified',
           \A b \in Addr : \/ mem'[b] = Closing(mem, l.closed \cap s.looked)[b]
                           \/ b \in verified'
    PROVE  pte' \in [Pages -> PteFlags] /\ \A q \in Pages : PageInv(q)'
  <1> DEFINE p == PageOf(a)
             S == {q \in Pages : q \in Made(l, s) /\ q < p + s.n}
             w == [q \in Pages |-> Writable(LastProt(a, l, s))]
  <1>1. \A q \in S : /\ Registrable(q) /\ (Closes => q \in l.closed) /\ q \in s.looked
                     /\ masters[q] = <<>> /\ (q = p \/ q = p + 1)
    BY LookedUp DEF Made
  <1>2. w \in [Pages -> BOOLEAN]
    BY DEF Writable
  <1>3. pte' = [q \in Pages |-> IF q \in S THEN Allowed(pte[q], w[q]) ELSE pte[q]]
    BY DEF AllowMade
  <1>4. ASSUME NEW q \in S
        PROVE  vma[q] # "w" /\ (pte[q].write => w[q])
    <2>1. vma[q] # "w" /\ vma[q] # "none"
      BY <1>1 DEF IInv, PageInv, Registrable, Executable
    <2>2. CASE q = p
      <3>1. ~pte[q].exeDeny
        BY <2>2 DEF IsTrap, Traps, Readable
      <3> QED
        BY <2>1, <3>1 DEF IInv, PageInv
    <2>3. CASE q = p + 1
      <3>1. LastProt(a, l, s) = FoundProt(q)
        BY <1>1, <2>3 DEF LastProt
      <3>2. FoundProt(q) = vma[q]
        BY <2>1, FoundProtHere DEF IInv, TypeOK
      <3>3. pte[q].write => Writable(vma[q])
        BY DEF IInv, PageInv
      <3> QED
        BY <2>1, <3>1, <3>2, <3>3
    <2> QED
      BY <1>1, <2>2, <2>3
  <1>5. \A b \in Addr : /\ Closes /\ PageOf(b) \in S => mem'[b] = INV \/ b \in verified'
                        /\ mem'[b] = mem[b] \/ mem'[b] = INV \/ b \in verified'
    BY <1>1 DEF Closing
  <1> HIDE DEF S, w
  <1>6. S \in SUBSET Pages
    BY DEF S
  <1> QED
    BY <1>2, <1>3, <1>4, <1>5, <1>6, Opened DEF CellsOf

LEMMA TrapOpenZoneKeeps ==
    ASSUME IInv, TrapOpenZone
    PROVE  IInv'
  <1>1. PICK a \in Addr :
          /\ IsTrap(a)
          /\ \E l \in Lookups(a) : \E s \in {TrapSearch(a, l.avail, l.closed)} :
             \E zone \in {{b \in Addr : a <= b /\ b < TrapEnd(a, s)}},
                m \in {Closing(mem, l.closed \cap s.looked)} :
               /\ PageOf(a) \in l.avail
               /\ s.ret = "zone"
               /\ MasterView[a] # INV
               /\ cross' = cross \cup s.cross
               /\ masters' = Register(Made(l, s))
               /\ mem' = [b \in Addr |-> IF b \in zone THEN MasterView[b] ELSE m[b]]
               /\ verified' = verified \cup zone
               /\ AllowMade(a, l, s)
          /\ UNCHANGED <<vma, pc, alive, changes, prog>>
    BY DEF TrapOpenZone
  <1>2. PICK l \in Lookups(a) :
          \E s \in {TrapSearch(a, l.avail, l.closed)} :
          \E zone \in {{b \in Addr : a <= b /\ b < TrapEnd(a, s)}},
             m \in {Closing(mem, l.closed \cap s.looked)} :
            /\ cross' = cross \cup s.cross
            /\ masters' = Register(Made(l, s))
            /\ mem' = [b \in Addr |-> IF b \in zone THEN MasterView[b] ELSE m[b]]
            /\ verified' = verified \cup zone
            /\ AllowMade(a, l, s)
    BY <1>1, ZenonT(30)
  <1> DEFINE s == TrapSearch(a, l.avail, l.closed)
             zone == {b \in Addr : a <= b /\ b < TrapEnd(a, s)}
  <1>3. /\ cross' = cross \cup s.cross
        /\ masters' = Register(Made(l, s))
        /\ mem' = [b \in Addr |-> IF b \in zone THEN MasterView[b]
                                  ELSE Closing(mem, l.closed \cap s.looked)[b]]
        /\ verified' = verified \cup zone /\ zone \subseteq Addr
        /\ AllowMade(a, l, s)
    BY <1>2
  <1> HIDE DEF s, zone
  <1>4. pte' \in [Pages -> PteFlags] /\ \A q \in Pages : PageInv(q)'
    BY <1>1, <1>3, TrapOpens
  <1>5. TypeOK'
    <2>1. mem' \in [Addr -> Cell]
      BY <1>3, ClosedTyped DEF IInv
    <2>2. /\ DOMAIN masters' = Pages
          /\ \A q \in Pages : masters'[q] \in Seq([CellsOf(q) -> Cell])
      BY <1>3, Registered DEF IInv
    <2>3. cross' \subseteq Int \X {"start", "end"}
      BY <1>3, TrapSearched DEF IInv, TypeOK, s
    <2> QED
      BY <1>1, <1>3, <1>4, <2>1, <2>2, <2>3 DEF IInv, TypeOK, CellsOf
  <1> QED
    BY <1>4, <1>5 DEF IInv

LEMMA TrapRestorePageKeeps ==
    ASSUME IInv, TrapRestorePage
    PROVE  IInv'
  <1>1. PICK a \in Addr :
          /\ IsTrap(a)
          /\ \E l \in Lookups(a) : \E s \in {TrapSearch(a, l.avail, l.closed)} :
             \E p \in {PageOf(a)}, m \in {Closing(mem, l.closed \cap s.looked)} :
               /\ p \in l.avail
               /\ \/ s.ret = "restore" /\ ~FillerAt(p, s.probe)
                  \/ s.ret = "zone" /\ MasterView[a] # INV /\ "write" \in Failures
               /\ cross' = cross \cup s.cross \cup {<<p, "start">>, <<p, "end">>}
               /\ masters' = [Register(Made(l, s)) EXCEPT ![p] = Tail(@)]
               /\ mem' = [b \in Addr |-> IF PageOf(b) = p THEN MasterView[b] ELSE m[b]]
               /\ verified' = verified \cup CellsOf(p)
               /\ AllowMade(a, l, s)
          /\ UNCHANGED <<vma, pc, alive, changes, prog>>
    BY DEF TrapRestorePage
  <1> DEFINE p == PageOf(a)
  <1>2. PICK l \in Lookups(a) :
          \E s \in {TrapSearch(a, l.avail, l.closed)} :
          \E q \in {PageOf(a)}, m \in {Closing(mem, l.closed \cap s.looked)} :
            /\ q \in l.avail
            /\ \/ s.ret = "restore" /\ ~FillerAt(q, s.probe)
               \/ s.ret = "zone" /\ MasterView[a] # INV /\ "write" \in Failures
            /\ cross' = cross \cup s.cross \cup {<<q, "start">>, <<q, "end">>}
            /\ masters' = [Register(Made(l, s)) EXCEPT ![q] = Tail(@)]
            /\ mem' = [b \in Addr |-> IF PageOf(b) = q THEN MasterView[b] ELSE m[b]]
            /\ verified' = verified \cup CellsOf(q)
            /\ AllowMade(a, l, s)
    BY <1>1
  <1> DEFINE s == TrapSearch(a, l.avail, l.closed)
  <1>3. /\ p \in l.avail
        /\ cross' = cross \cup s.cross \cup {<<p, "start">>, <<p, "end">>}
        /\ masters' = [Register(Made(l, s)) EXCEPT ![p] = Tail(@)]
        /\ mem' = [b \in Addr |-> IF PageOf(b) = p THEN MasterView[b]
                                  ELSE Closing(mem, l.closed \cap s.looked)[b]]
        /\ verified' = verified \cup CellsOf(p)
        /\ AllowMade(a, l, s)
    BY <1>2
  <1>4. p \in Pages /\ p \in Int
    BY PageOfAddr DEF Pages
  <1> HIDE DEF s
  <1>5. pte' \in [Pages -> PteFlags] /\ \A q \in Pages : PageInv(q)'
    <2>1. \A b \in Addr : \/ mem'[b] = Closing(mem, l.closed \cap s.looked)[b]
                          \/ b \in verified'
      BY <1>3 DEF CellsOf
    <2> QED
      BY <1>1, <1>3, <2>1, TrapOpens
  <1>6. TypeOK'
    <2>1. mem' \in [Addr -> Cell]
      BY <1>3, ClosedTyped DEF IInv
    <2>2. /\ DOMAIN masters' = Pages
          /\ \A q \in Pages : masters'[q] \in Seq([CellsOf(q) -> Cell])
      <3> DEFINE R == Register(Made(l, s))
      <3>1. /\ DOMAIN R = Pages
            /\ \A q \in Pages :
                 /\ R[q] \in Seq([CellsOf(q) -> Cell])
                 /\ q \in Made(l, s) \/ masters[q] # <<>> => R[q] # <<>>
        BY Registered DEF IInv
      <3>2. p \in Made(l, s) \/ masters[p] # <<>>
        BY <1>3, TrapSearched DEF Made, s
      <3>3. R[p] \in Seq([CellsOf(p) -> Cell]) /\ R[p] # <<>>
        BY <1>4, <3>1, <3>2
      <3>4. Tail(R[p]) \in Seq([CellsOf(p) -> Cell])
        BY ONLY <3>3, HeadTailProperties
      <3>5. masters' = [q \in Pages |-> IF q = p THEN Tail(R[p]) ELSE R[q]]
        BY <1>3, <3>1
      <3> HIDE DEF R
      <3> QED
        BY <3>1, <3>4, <3>5
    <2>3. cross' \subseteq Int \X {"start", "end"}
      BY <1>3, <1>4, TrapSearched DEF IInv, TypeOK, s
    <2> QED
      BY <1>1, <1>3, <1>5, <2>1, <2>2, <2>3 DEF IInv, TypeOK, CellsOf
  <1> QED
    BY <1>5, <1>6 DEF IInv

-----------------------------------------------------------------------------
(* What the process does by itself.                                        *)

LEMMA RunKeeps ==
    ASSUME IInv, Enter \/ Execute \/ Exit
    PROVE  IInv'
  <1>1. pc' \in Addr \cup {Idle}
    BY DEF Enter, Execute, Exit, Entries, IInv, TypeOK
  <1> QED
    BY <1>1 DEF Enter, Execute, Exit, IInv, TypeOK, PageInv, hidden, CellsOf

\* A store changes one byte and takes the check of its page back.
LEMMA WrittenTyped ==
    ASSUME IInv, NEW a \in Addr, NEW c \in Stored, NEW base \in [Addr -> Cell],
           \A b \in Addr : PageOf(b) # PageOf(a) => base[b] = mem[b],
           Written(a, c, base)
    PROVE  /\ mem' \in [Addr -> Cell] /\ prog' \in [Addr -> Cell]
           /\ verified' \subseteq Addr
           /\ \A q \in Pages \ {PageOf(a)} : \A b \in CellsOf(q) :
                mem'[b] = mem[b] /\ (b \in verified => b \in verified')
  BY PageAssumption DEF IInv, TypeOK, Written, CellsOf

LEMMA StoreDirectKeeps ==
    ASSUME IInv, StoreDirect
    PROVE  IInv'
  <1>1. PICK a \in Addr, c \in Stored :
          /\ Changing
          /\ Writable(vma[PageOf(a)]) /\ pte[PageOf(a)].write
          /\ Written(a, c, mem)
          /\ UNCHANGED <<vma, pte, masters, cross, pc, alive>>
    BY DEF StoreDirect
  <1> DEFINE p == PageOf(a)
             f == pte[p]
  <1>2. p \in Pages /\ f \in PteFlags
    BY PageOfAddr DEF IInv, TypeOK
  <1>3. /\ f.exeDeny /\ ~f.check /\ (f.write => Writable(vma[p]))
        /\ f.origExe => Executable(vma[p])
    BY <1>1, <1>2 DEF IInv, PageInv
  <1>4. /\ mem' \in [Addr -> Cell] /\ prog' \in [Addr -> Cell]
        /\ verified' \subseteq Addr
        /\ \A q \in Pages \ {p} : \A b \in CellsOf(q) :
             mem'[b] = mem[b] /\ (b \in verified => b \in verified')
    BY <1>1, WrittenTyped DEF IInv, TypeOK
  <1>5. pte' = [pte EXCEPT ![p] = f] /\ vma' = vma
    BY <1>1, <1>2 DEF IInv, TypeOK
  <1>6. pte' \in [Pages -> PteFlags] /\ \A q \in Pages : PageInv(q)'
    <2> HIDE DEF p, f
    <2> QED
      BY <1>2, <1>3, <1>4, <1>5, Closed
  <1>7. changes' \in 0 .. MaxChanges
    BY <1>1, PageAssumption DEF IInv, TypeOK, Changing
  <1> QED
    BY <1>1, <1>4, <1>6, <1>7 DEF IInv, TypeOK, CellsOf

LEMMA StoreFaultWXKeeps ==
    ASSUME IInv, StoreFaultWX
    PROVE  IInv'
  <1>1. PICK a \in Addr, c \in Stored :
          LET p      == PageOf(a)
              before == pte[p]
              back   == WasClosed(before, masters[p])
          IN
          /\ Changing
          /\ vma[p] = "wx" /\ ~before.write
          /\ Written(a, c, IF back
                             THEN [b \in Addr |-> IF PageOf(b) = p
                                     THEN Head(masters[p])[b] ELSE mem[b]]
                             ELSE mem)
          /\ masters' = IF back THEN [masters EXCEPT ![p] = Tail(@)] ELSE masters
          /\ \E granted \in Granted(before) :
               pte' = [pte EXCEPT ![p] = AfterStore(granted)]
          /\ UNCHANGED <<vma, cross, pc, alive>>
    BY DEF StoreFaultWX
  <1> DEFINE p == PageOf(a)
             back == WasClosed(pte[p], masters[p])
             base == IF back
                       THEN [b \in Addr |-> IF PageOf(b) = p
                               THEN Head(masters[p])[b] ELSE mem[b]]
                       ELSE mem
  <1>2. /\ p \in Pages /\ pte[p] \in PteFlags
        /\ masters[p] \in Seq([CellsOf(p) -> Cell])
    BY PageOfAddr DEF IInv, TypeOK
  <1>3. masters[p] # <<>> => /\ Head(masters[p]) \in [CellsOf(p) -> Cell]
                             /\ Tail(masters[p]) \in Seq([CellsOf(p) -> Cell])
    BY ONLY <1>2, HeadTailProperties
  <1>4. /\ base \in [Addr -> Cell]
        /\ \A b \in Addr : PageOf(b) # p => base[b] = mem[b]
    BY <1>3 DEF IInv, TypeOK, CellsOf, WasClosed
  <1>5. PICK f \in PteFlags :
          /\ f.exeDeny /\ ~f.check /\ pte' = [pte EXCEPT ![p] = f]
    <2>1. PICK granted \in Granted(pte[p]) :
            pte' = [pte EXCEPT ![p] = AfterStore(granted)]
      BY <1>1
    <2>2. granted \in PteFlags
      BY <1>2 DEF Granted, PteFlags
    <2> DEFINE f == AfterStore(granted)
    <2>3. f \in PteFlags /\ f.exeDeny /\ ~f.check
      BY <2>2 DEF PteFlags, AfterStore
    <2> QED
      BY <2>1, <2>3
  <1>6. Written(a, c, base) /\ vma' = vma /\ vma[p] = "wx"
    BY <1>1
  <1> HIDE DEF base
  <1>7. /\ mem' \in [Addr -> Cell] /\ prog' \in [Addr -> Cell]
        /\ verified' \subseteq Addr
        /\ \A q \in Pages \ {p} : \A b \in CellsOf(q) :
             mem'[b] = mem[b] /\ (b \in verified => b \in verified')
    BY <1>4, <1>6, WrittenTyped
  <1>8. pte' \in [Pages -> PteFlags] /\ \A q \in Pages : PageInv(q)'
    <2>1. Writable(vma'[p]) /\ Executable(vma'[p])
      BY <1>6 DEF Writable, Executable
    <2> HIDE DEF p
    <2> QED
      BY <1>2, <1>5, <1>6, <1>7, <2>1, Closed
  <1>9. /\ DOMAIN masters' = Pages
        /\ \A q \in Pages : masters'[q] \in Seq([CellsOf(q) -> Cell])
    BY <1>1, <1>2, <1>3 DEF IInv, TypeOK, WasClosed
  <1>10. changes' \in 0 .. MaxChanges
    BY <1>1, PageAssumption DEF IInv, TypeOK, Changing
  <1> QED
    BY <1>1, <1>7, <1>8, <1>9, <1>10 DEF IInv, TypeOK, CellsOf

LEMMA StoreFaultWKeeps ==
    ASSUME IInv, StoreFaultW
    PROVE  IInv'
  <1>1. PICK a \in Addr, c \in Stored :
          /\ Changing
          /\ vma[PageOf(a)] = "w" /\ ~pte[PageOf(a)].write
          /\ Written(a, c, mem)
          /\ \E granted \in Granted(pte[PageOf(a)]) :
               pte' = [pte EXCEPT ![PageOf(a)] = granted]
          /\ UNCHANGED <<vma, masters, cross, pc, alive>>
    BY DEF StoreFaultW
  <1> DEFINE p == PageOf(a)
  <1>2. p \in Pages /\ pte[p] \in PteFlags
    BY PageOfAddr DEF IInv, TypeOK
  <1>3. pte[p].exeDeny /\ ~pte[p].check /\ ~pte[p].origExe
    BY <1>1, <1>2 DEF IInv, PageInv, Executable
  <1>4. PICK f \in PteFlags :
          /\ f.exeDeny /\ ~f.check /\ ~f.origExe
          /\ pte' = [pte EXCEPT ![p] = f]
    <2>1. \A g \in Granted(pte[p]) :
             g \in PteFlags /\ g.exeDeny /\ ~g.check /\ ~g.origExe
      BY <1>2, <1>3 DEF Granted, PteFlags
    <2> QED
      BY <1>1, <2>1
  <1>5. /\ mem' \in [Addr -> Cell] /\ prog' \in [Addr -> Cell]
        /\ verified' \subseteq Addr
        /\ \A q \in Pages \ {p} : \A b \in CellsOf(q) :
             mem'[b] = mem[b] /\ (b \in verified => b \in verified')
    BY <1>1, WrittenTyped DEF IInv, TypeOK
  <1>6. pte' \in [Pages -> PteFlags] /\ \A q \in Pages : PageInv(q)'
    <2>1. Writable(vma'[p]) /\ vma' = vma
      BY <1>1 DEF Writable
    <2> HIDE DEF p
    <2> QED
      BY <1>2, <1>4, <1>5, <2>1, Closed
  <1>7. changes' \in 0 .. MaxChanges
    BY <1>1, PageAssumption DEF IInv, TypeOK, Changing
  <1> QED
    BY <1>1, <1>5, <1>6, <1>7 DEF IInv, TypeOK, CellsOf

LEMMA MprotectKeeps ==
    ASSUME IInv, Sealed, Mprotect
    PROVE  IInv'
  <1>1. PICK t \in Transitions, write \in BOOLEAN :
          /\ Changing
          /\ vma[t[1]] = t[2]
          /\ write => Writable(t[3])
          /\ vma' = [vma EXCEPT ![t[1]] = t[3]]
          /\ pte' = [pte EXCEPT ![t[1]] =
                       [exeDeny   |-> TRUE,
                        check     |-> pte[t[1]].check,
                        origExe   |-> Executable(t[3]),
                        origWrite |-> FALSE,
                        write     |-> write]]
          /\ UNCHANGED <<mem, masters, cross, pc, alive, prog, verified>>
    BY DEF Mprotect
  <1> DEFINE p == t[1]
  <1>2. /\ p \in Pages /\ t[3] \in Prot
        /\ t[3] \in {"x", "wx"}
        /\ t[3] = "wx" => vma[p] = "w"
    BY <1>1, PageAssumption DEF Sealed
  <1>3. /\ vma' \in [Pages -> Prot] /\ vma'[p] = t[3]
        /\ \A q \in Pages \ {p} : vma'[q] = vma[q] /\ pte'[q] = pte[q]
    BY <1>1, <1>2 DEF IInv, TypeOK
  <1>4. /\ pte'[p].exeDeny /\ pte'[p].check = pte[p].check
        /\ pte'[p].write = write
        /\ pte[p].check \in BOOLEAN
    BY <1>1, <1>2 DEF IInv, TypeOK, PteFlags
  <1>5. pte' \in [Pages -> PteFlags]
    <2>1. Executable(t[3]) \in BOOLEAN
      BY DEF Executable
    <2> QED
      BY <1>1, <1>4, <2>1 DEF IInv, TypeOK, PteFlags
  <1>6. Executable(vma'[p]) /\ (pte'[p].write => Writable(vma'[p]) /\ vma[p] = "w")
    BY <1>1, <1>2, <1>3, <1>4 DEF Executable, Writable
  <1>7. PageInv(p)'
    <2>1. pte'[p].write => ~pte'[p].check
      BY <1>2, <1>4, <1>6 DEF IInv, PageInv
    <2>2. Closes /\ pte'[p].check =>
             \A b \in CellsOf(p) : mem'[b] = INV \/ b \in verified'
      BY <1>1, <1>2, <1>4 DEF IInv, PageInv
    <2> QED
      BY <1>2, <1>3, <1>4, <1>6, <2>1, <2>2 DEF PageInv, CellsOf
  <1>8. \A q \in Pages \ {p} : PageInv(q)'
    BY <1>1, <1>3 DEF IInv, PageInv, CellsOf
  <1>9. changes' \in 0 .. MaxChanges
    BY <1>1, PageAssumption DEF IInv, TypeOK, Changing
  <1> QED
    BY <1>1, <1>3, <1>5, <1>7, <1>8, <1>9 DEF IInv, TypeOK, CellsOf

LEMMA RemapKeeps ==
    ASSUME IInv, Remap
    PROVE  IInv'
  <1>1. PICK p \in Remapped :
          /\ Changing
          /\ vma' = [vma EXCEPT ![p] = "x"]
          /\ pte' = [pte EXCEPT ![p] = MappedPte("x")]
          /\ mem' = [a \in Addr |-> IF PageOf(a) = p THEN FreshText[a] ELSE mem[a]]
          /\ prog' = [a \in Addr |-> IF PageOf(a) = p THEN FreshText[a] ELSE prog[a]]
          /\ verified' = verified \ CellsOf(p)
          /\ UNCHANGED <<masters, cross, pc, alive>>
    BY DEF Remap
  <1>2. p \in Pages
    BY PageAssumption
  <1> DEFINE f == MappedPte("x")
  <1>3. f \in PteFlags /\ f.exeDeny /\ ~f.check /\ ~f.write
    <2>1. Executable("x") \in BOOLEAN /\ Writable("x") \in BOOLEAN /\ ~Writable("x")
      BY DEF Executable, Writable
    <2> QED
      BY <2>1 DEF MappedPte, PteFlags
  <1>4. /\ vma' \in [Pages -> Prot] /\ Executable(vma'[p])
        /\ \A q \in Pages \ {p} : vma'[q] = vma[q]
    BY <1>1, <1>2 DEF IInv, TypeOK, Prot, Executable
  <1>5. /\ mem' \in [Addr -> Cell] /\ prog' \in [Addr -> Cell]
        /\ verified' \subseteq Addr
        /\ \A q \in Pages \ {p} : \A b \in CellsOf(q) :
             mem'[b] = mem[b] /\ (b \in verified => b \in verified')
    BY <1>1, PageAssumption DEF IInv, TypeOK, CellsOf
  <1>6. pte' \in [Pages -> PteFlags] /\ \A q \in Pages : PageInv(q)'
    <2>1. pte' = [pte EXCEPT ![p] = f]
      BY <1>1
    <2> HIDE DEF f
    <2> QED
      BY <1>2, <1>3, <1>4, <1>5, <2>1, Closed
  <1>7. changes' \in 0 .. MaxChanges
    BY <1>1, PageAssumption DEF IInv, TypeOK, Changing
  <1> QED
    BY <1>1, <1>4, <1>5, <1>6, <1>7 DEF IInv, TypeOK, CellsOf

-----------------------------------------------------------------------------
(* The specification.                                                      *)

LEMMA InitHolds ==
    ASSUME Init
    PROVE  IInv
  <1>1. PICK untouched \in SUBSET {p \in Pages : ~Executable(InitProt[p])} :
          pte = [p \in Pages |-> [MappedPte(InitProt[p]) EXCEPT
                                    !.write = @ /\ p \notin untouched]]
    BY DEF Init
  <1>2. \A p \in Pages : /\ pte[p] \in PteFlags
                         /\ pte[p].exeDeny
                         /\ ~pte[p].check
                         /\ pte[p].write => Writable(InitProt[p])
                         /\ pte[p].origExe = Executable(InitProt[p])
    <2> TAKE p \in Pages
    <2> DEFINE w == Writable(InitProt[p]) /\ p \notin untouched
    <2>1. pte[p] = [exeDeny |-> TRUE, check |-> FALSE,
                    origExe |-> Executable(InitProt[p]),
                    origWrite |-> FALSE, write |-> w]
      BY <1>1 DEF MappedPte
    <2>2. w \in BOOLEAN /\ Executable(InitProt[p]) \in BOOLEAN
      BY DEF Executable, Writable
    <2>3. w => Writable(InitProt[p])
      OBVIOUS
    <2> HIDE DEF w
    <2> QED
      BY <2>1, <2>2, <2>3 DEF PteFlags
  <1>3. pte \in [Pages -> PteFlags]
    BY <1>1, <1>2
  <1>4. TypeOK
    BY <1>3, PageAssumption DEF Init, TypeOK
  <1>5. \A p \in Pages : PageInv(p)
    BY <1>2 DEF Init, PageInv
  <1> QED
    BY <1>4, <1>5 DEF IInv

LEMMA NextKeeps ==
    ASSUME IInv, Sealed, Next
    PROVE  IInv'
  <1>1. CASE FetchFault
    <2>1. FetchFatal \/ FetchRejected => Die
      BY DEF FetchFatal, FetchRejected
    <2> QED
      BY <1>1, <2>1, DieKeeps, FetchAlreadyCheckedKeeps, FetchOpenZoneKeeps,
         FetchDisassemblerErrorKeeps, FetchPageCheckKeeps DEF FetchFault
  <1>2. CASE InvalidOpcode
    <2>1. TrapFatal => Die
      BY DEF TrapFatal
    <2> QED
      BY <1>2, <2>1, DieKeeps, TrapOpenZoneKeeps, TrapRestorePageKeeps DEF InvalidOpcode
  <1>3. CASE Process
    BY <1>3, RunKeeps, StoreDirectKeeps, StoreFaultWXKeeps, StoreFaultWKeeps,
       MprotectKeeps, RemapKeeps DEF Process
  <1> QED
    BY <1>1, <1>2, <1>3 DEF Next

LEMMA InvariantHolds ==
    ASSUME Sealed
    PROVE  Spec => []IInv
  <1>1. Init => IInv
    BY InitHolds
  <1>2. IInv /\ [Next]_vars => IInv'
    <2>1. CASE Next
      BY <2>1, NextKeeps
    <2>2. CASE UNCHANGED vars
      BY <2>2 DEF vars, IInv, TypeOK, PageInv, CellsOf
    <2> QED
      BY <2>1, <2>2
  <1> QED
    BY <1>1, <1>2, PTL DEF Spec

\* Every variable keeps its type.
THEOREM TypeCorrect ==
    ASSUME Sealed
    PROVE  Spec => []TypeOK
  <1>1. IInv => TypeOK
    BY DEF IInv
  <1> QED
    BY <1>1, InvariantHolds, PTL

\* Only the filler and bytes checked since the last write of their page can be
\* fetched, whatever the size and the text of the process, the stores it makes
\* and the other steps that fail, as long as the kernel can write back a page it
\* closes and the process only seals its pages (sig_handler.c:155-176,
\* invalid_op.c:764-770, handle_mm.c:252-316).
THEOREM OnlyCheckedBytesRun ==
    ASSUME Sealed, Closes
    PROVE  Spec => []OnlyCheckedRuns
  <1>1. IInv => OnlyCheckedRuns
    BY PageOfAddr DEF IInv, PageInv, OnlyCheckedRuns, CellsOf
  <1> QED
    BY <1>1, InvariantHolds, PTL

\* CHECK_DENY_BIT on a page says that it was not written since the check.
THEOREM CheckBitHolds ==
    ASSUME Sealed, Closes
    PROVE  Spec => []CheckHolds
  <1>1. IInv => CheckHolds
    BY PageOfAddr DEF IInv, PageInv, CheckHolds, CellsOf
  <1> QED
    BY <1>1, InvariantHolds, PTL

\* No page is at once writable without a fault and executable or checked.
THEOREM NeverWritableAndExecutable ==
    ASSUME Sealed
    PROVE  Spec => []WriteXorExecute
  <1>1. IInv => WriteXorExecute
    BY DEF IInv, PageInv, WriteXorExecute
  <1> QED
    BY <1>1, InvariantHolds, PTL

=============================================================================

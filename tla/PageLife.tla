------------------------------- MODULE PageLife -------------------------------
(***************************************************************************)
(* The life of the executable pages of one monitored process: from the     *)
(* mapping, through the first instruction fetch, which opens a checked     *)
(* zone of the page and closes the rest of it with INV, the invalid-opcode *)
(* traps that reopen it zone by zone, the stores that restore it, to       *)
(* mprotect and a new mapping at the same place.                           *)
(*                                                                         *)
(* The process has one thread and private pages, so every handler takes    *)
(* its skip_lock path and runs to completion before the process moves: a   *)
(* handler is one action.  Addresses are linear and count cells; the code  *)
(* is the build in the repository: ZONE_KERNEL_SYNC_CHECK, SYNC_CHECK,     *)
(* MAX_PAGES 2, one block per zone, no DOS_PROTECTION, ONE_OPEN_ZONE 0.    *)
(***************************************************************************)
EXTENDS InstrStream, Integers, FiniteSets, Sequences

CONSTANTS
    NumPages,      \* pages of the monitored range, 0 .. NumPages - 1
    PageSize,      \* cells per page
    InvRun,        \* cells of the "altered page" test (QWORD_SIZE + 1)
    Text,          \* the initial content, a function from addresses to cells
    FreshText,     \* the content a new mapping brings
    InitProt,      \* the initial protection of every page
    Stored,        \* the cells a store may write
    Transitions,   \* the mprotect calls of the process: <<page, from, to>>
    Remapped,      \* the pages it may map anew
    Failures,      \* the kernel steps that may fail: see below
    MaxChanges     \* bound on stores, mprotect calls and mappings

Pages == 0 .. NumPages - 1
Addr  == 0 .. (NumPages * PageSize) - 1
Prot  == {"none", "w", "x", "wx"}

\* "alloc": kmalloc; "register": the master copy; "close": writing the closed
\* page back; "write": writing the zone back; "check": the check rejects
\* what it is given, or the user is over the byte limit.
FailureKinds == {"alloc", "register", "close", "write", "check"}

Idle == -1   \* the process runs code that is not monitored

ASSUME PageAssumption ==
    /\ NumPages \in Nat /\ PageSize \in Nat /\ PageSize > MaxInstr
    /\ InvRun \in Nat \ {0}
    /\ Text \in [Addr -> Cell] /\ FreshText \in [Addr -> Cell]
    /\ InitProt \in [Pages -> Prot]
    /\ Stored \subseteq Cell
    /\ Transitions \subseteq Pages \X Prot \X Prot
    /\ Remapped \subseteq Pages
    /\ Failures \subseteq FailureKinds
    /\ MaxChanges \in Nat

VARIABLES
    vma,       \* the protection of the page's VMA
    pte,       \* the flags of the page's PTE the module uses
    mem,       \* what the pages hold
    masters,   \* page_hash_table: the master copies of a page, newest first
    cross,     \* cross_pages_integrity_hash_table: <<page, flag>>
    pc,        \* the address of the instruction being fetched, or Idle
    alive,     \* FALSE once a signal was delivered to the process
    changes,   \* how many stores, mprotect calls and mappings were made
    prog,      \* ghost: the program text, what the process itself stored
    verified   \* ghost: addresses checked since the page was last written

hidden == <<prog, verified>>
vars == <<vma, pte, mem, masters, cross, pc, alive, changes, prog, verified>>

PageOf(a)   == a \div PageSize
PageBase(p) == p * PageSize
PageEnd(p)  == (p + 1) * PageSize
CellsOf(p)  == {a \in Addr : PageOf(a) = p}
Content(m, p) == [a \in CellsOf(p) |-> m[a]]

Executable(prot) == prot \in {"x", "wx"}
Writable(prot)   == prot \in {"w", "wx"}

PteFlags == [exeDeny   : BOOLEAN,   \* EXE_DENY_BIT, the NX bit of the PTE
             check     : BOOLEAN,   \* CHECK_DENY_BIT: checked, no write since
             origExe   : BOOLEAN,   \* ORIG_EXE_BIT
             origWrite : BOOLEAN,   \* ORIG_WRITE_BIT
             write     : BOOLEAN]   \* WRITE_BIT

(***************************************************************************)
(* do_mmap_ret_handler_f: every page of an executable mapping is           *)
(* materialised, denied execution and marked unchecked.                    *)
(***************************************************************************)
MappedPteMutant(prot) ==   \* CHECK_DENY of an earlier mapping kept
    [exeDeny |-> TRUE, check |-> TRUE, origExe |-> Executable(prot),
     origWrite |-> FALSE, write |-> Writable(prot)]
MappedPte(prot) ==
    [exeDeny   |-> TRUE,
     check     |-> FALSE,
     origExe   |-> Executable(prot),
     origWrite |-> FALSE,
     write     |-> Writable(prot)]

\* The PTE of a page that is not executable turns writable at its first store,
\* which may not have happened.
Init ==
    /\ vma = InitProt
    /\ \E untouched \in SUBSET {p \in Pages : ~Executable(InitProt[p])} :
         pte = [p \in Pages |-> [MappedPte(InitProt[p]) EXCEPT
                                    !.write = @ /\ p \notin untouched]]
    /\ mem = Text
    /\ prog = Text
    /\ masters = [p \in Pages |-> <<>>]
    /\ cross = {}
    /\ pc = Idle
    /\ alive = TRUE
    /\ changes = 0
    /\ verified = {}

(***************************************************************************)
(* What the handlers share.                                                *)
(***************************************************************************)

\* find_vma(mm, page): the VMA that holds page, or else the first one above.
FoundProt(p) ==
    LET above == {q \in Pages : q >= p /\ vma[q] # "none"}
    IN  IF above = {} THEN "none"
        ELSE vma[CHOOSE q \in above : \A r \in above : q <= r]

\* register_page and register_private_page refuse a page that begins or ends
\* with InvRun cells of INV: it "might have been altered".
Altered(content, p) ==
    \/ \A a \in CellsOf(p) : a < PageBase(p) + InvRun => content[a] = INV
    \/ \A a \in CellsOf(p) : a >= PageEnd(p) - InvRun => content[a] = INV

\* find_page_cross_pages_integrity(page before p) & PARTIALLY_OPENED_END
PrecedingCrosses(flags, p) == <<p - 1, "end">> \in flags

\* The flags set when an instruction crosses the end of page p.
Spill(p, end) ==
    IF end < PageEnd(p) THEN {<<p, "end">>, <<p + 1, "start">>} ELSE {}

\* unregister_page_cross_pages_integrity: the whole node of the page goes.
Unregister(flags, p) == {f \in flags : f[1] # p}

\* The flip_bit sequence that lets a checked page execute; a page of a
\* writable VMA loses WRITE so that the next store is seen.
AllowedWriteMutant(flags, writable) ==   \* WRITE stays
    [flags EXCEPT !.exeDeny = FALSE, !.check = TRUE,
                  !.origWrite = IF writable THEN TRUE ELSE @]
Allowed(flags, writable) ==
    [flags EXCEPT !.exeDeny = FALSE, !.check = TRUE,
                  !.write = IF writable THEN FALSE ELSE @,
                  !.origWrite = IF writable THEN TRUE ELSE @]

\* A handler returned 0 with the signal pending: the process dies of it.
Die ==
    /\ alive' = FALSE
    /\ pc' = Idle
    /\ UNCHANGED <<vma, pte, mem, masters, cross, changes, hidden>>

(***************************************************************************)
(* The instruction at pc.  The address that faults is the first one of the *)
(* instruction whose page may not be executed.                             *)
(***************************************************************************)
InstrCells(a) == {b \in Addr : a <= b /\ b < a + InstrLen(mem[a])}
Denied(a) == {b \in InstrCells(a) : pte[PageOf(b)].exeDeny}
Readable(a) == ~pte[PageOf(a)].exeDeny   \* the first byte can be fetched

FaultAddressMutant(a) == a   \* the handler looks at the program counter
FaultAddress(a) ==
    IF ~Readable(a) THEN a ELSE CHOOSE b \in Denied(a) : \A c \in Denied(a) : b <= c

Faults(a) == ~Readable(a) \/ Denied(a) # {}
Traps(a)  == Readable(a) /\ mem[a] \in Illegal
Runs(a)   == ~Faults(a) /\ ~Traps(a)

\* The next page was fetched before: it holds fillers, the search stops here.
AlreadyOpened(q) == ~pte[q].exeDeny

(***************************************************************************)
(* sig_handler: the fetch fault.                                           *)
(*                                                                         *)
(* The search loop: disassemble from the faulting address to the end of    *)
(* the page and, when no control instruction is found, go on in the next   *)
(* page if it is execute-only and was not opened yet.  n is the number of  *)
(* pages of the zone, end its end, cross the flags it registered.          *)
(***************************************************************************)
FetchSearch(a) ==
    LET p      == PageOf(a)
        first  == Disassemble(mem, a, PageEnd(p))
        onePage == [ret |-> first.ret, n |-> 1, end |-> first.end,
                    cross |-> IF first.ret = "continue"
                                THEN Spill(p, first.end) ELSE {}]
        second == Disassemble(mem, first.end, PageEnd(p + 1))
    IN  IF first.ret # "continue" \/ FoundProt(p + 1) # "x"
          THEN onePage
        ELSE IF vma[p + 1] = "none"         \* copy_from_user of a hole fails
          THEN [onePage EXCEPT !.ret = "fatal"]
        ELSE IF AlreadyOpened(p + 1)
          THEN onePage
        ELSE [ret |-> second.ret, n |-> 2, end |-> second.end,
              cross |-> onePage.cross \cup
                        (IF second.ret = "continue"
                           THEN Spill(p + 1, second.end) ELSE {})]

\* unregister_page_cross_pages_integrity for an aligned start and end.
FetchFlags(a, s) ==
    LET flags  == cross \cup s.cross
        starts == IF a = PageBase(PageOf(a))
                    THEN Unregister(flags, PageOf(a)) ELSE flags
    IN  IF s.end % PageSize = 0
          THEN Unregister(starts, PageOf(a) + s.n - 1) ELSE starts

\* end == start: the zone is the rest of the page.
FetchEnd(a, s) == IF s.end = a THEN PageEnd(PageOf(a)) ELSE s.end

FetchStart(a, s) ==
    IF PrecedingCrosses(FetchFlags(a, s), PageOf(a))
      THEN PageBase(PageOf(a)) ELSE a

ZonePages(a, n) == {q \in Pages : PageOf(a) <= q /\ q < PageOf(a) + n}

\* close_outer_zone keeps [start, end) and fills the rest with INV; an end on
\* a page boundary is offset 0 of the last page, which is filled as a whole.
KeptAfterMutant(b, start, end) ==   \* nothing is closed after the zone
    start <= b
Kept(b, start, end) ==
    /\ start <= b /\ b < end
    /\ end % PageSize = 0 => b < end - PageSize

CloseOuterZone(m, pages, start, end) ==
    [b \in Addr |-> IF PageOf(b) \in pages /\ ~Kept(b, start, end)
                      THEN INV ELSE m[b]]

\* The allow_exe label: the zone's pages may execute; only the first can be
\* writable.
AllowExe(p, pages) ==
    pte' = [q \in Pages |->
              IF q \in pages
                THEN Allowed(pte[q], q = p /\ Writable(vma[q]))
                ELSE pte[q]]

\* The first n pages of the zone get a master copy, in order.
RegisterMutant(pages) ==   \* every copy is taken from the first page
    LET first == CHOOSE p \in pages : \A q \in pages : p <= q
    IN  [q \in Pages |-> IF q \in pages THEN <<Content(mem, first)>> \o masters[q]
                                        ELSE masters[q]]
Register(pages) ==
    [q \in Pages |-> IF q \in pages THEN <<Content(mem, q)>> \o masters[q]
                                    ELSE masters[q]]

IsFetchFault(a) ==
    /\ alive /\ pc # Idle
    /\ Faults(pc)
    /\ a = FaultAddress(pc)

\* Not a page that was executable: the signal is delivered.  So it is when
\* the buffer cannot be allocated or the next page cannot be copied.
FetchFatal ==
    \E a \in Addr :
      /\ IsFetchFault(a)
      /\ \/ ~pte[PageOf(a)].origExe
         \/ /\ ~pte[PageOf(a)].check
            /\ \/ "alloc" \in Failures
               \/ FetchSearch(a).ret = "fatal"
      /\ Die

\* CHECK_DENY_BIT: the page was checked and not written since.
FetchAlreadyChecked ==
    \E a \in Addr :
      LET p == PageOf(a) IN
      /\ IsFetchFault(a)
      /\ pte[p].origExe /\ pte[p].check
      /\ AllowExe(p, {p})
      /\ UNCHANGED <<vma, mem, masters, cross, pc, alive, changes, hidden>>

FetchToOpen(a) ==
    /\ IsFetchFault(a)
    /\ pte[PageOf(a)].origExe /\ ~pte[PageOf(a)].check

\* The zone of the search s: its pages and its bytes.
FetchZone(a, s) ==
    [pages |-> ZonePages(a, s.n),
     flags |-> FetchFlags(a, s),
     start |-> FetchStart(a, s),
     end   |-> FetchEnd(a, s)]

\* Every step succeeds: [start, end) was checked, the rest is closed.
FetchOpenZone ==
    \E a \in Addr :
      /\ FetchToOpen(a)
      /\ \E s \in {FetchSearch(a)} : \E z \in {FetchZone(a, s)} :
           /\ s.ret \in {"success", "continue"}
           /\ \A q \in z.pages : ~Altered(mem, q)
           /\ cross' = z.flags
           /\ masters' = Register(z.pages)
           /\ mem' = CloseOuterZone(mem, z.pages, z.start, z.end)
           /\ verified' = verified \cup {b \in Addr : z.start <= b /\ b < z.end}
           /\ AllowExe(PageOf(a), z.pages)
      /\ UNCHANGED <<vma, pc, alive, changes, prog>>

\* The check rejects the zone, or the whole page when that is what it gets.
FetchRejected ==
    \E a \in Addr :
      /\ FetchToOpen(a)
      /\ "check" \in Failures
      /\ Die

\* disassembler_error: the whole page is checked and left open.
FetchDisassemblerError ==
    \E a \in Addr :
      /\ FetchToOpen(a)
      /\ \E s \in {FetchSearch(a)}, p \in {PageOf(a)} :
           /\ s.ret = "error"
           /\ cross' = cross \cup s.cross \cup {<<p, "start">>, <<p, "end">>}
           /\ verified' = verified \cup CellsOf(p)
           /\ AllowExe(p, {p})
      /\ UNCHANGED <<vma, mem, masters, pc, alive, changes, prog>>

\* Only the first k pages of the zone could be registered, or all of them but
\* the outer zone was not closed.
OnlyRegistered(p, s, pages, k) ==
    /\ \A q \in pages : q < p + k => ~Altered(mem, q)
    /\ \/ k < s.n /\ ("register" \in Failures \/ Altered(mem, p + k))
       \/ k = s.n /\ "close" \in Failures

\* page_check: the whole first page is checked and left open; what was
\* registered stays.
FetchPageCheck ==
    \E a \in Addr :
      /\ FetchToOpen(a)
      /\ \E s \in {FetchSearch(a)} : \E z \in {FetchZone(a, s)}, p \in {PageOf(a)} :
           /\ s.ret \in {"success", "continue"}
           /\ \E k \in 0 .. s.n :
                /\ OnlyRegistered(p, s, z.pages, k)
                /\ masters' = Register({q \in z.pages : q < p + k})
           /\ cross' = z.flags
                \cup (IF z.start % PageSize = 0 THEN {} ELSE {<<p, "start">>})
                \cup (IF z.end % PageSize = 0 THEN {} ELSE {<<p + s.n - 1, "end">>})
           /\ verified' = verified \cup CellsOf(p)
           /\ AllowExe(p, {p})
      /\ UNCHANGED <<vma, mem, pc, alive, changes, prog>>

(***************************************************************************)
(* invalid_op_handler: the trap on an undefined opcode.  It works on the   *)
(* master copies; a page without one is registered and closed on the spot  *)
(* (page_not_fetched_yet).                                                 *)
(*                                                                         *)
(* avail is the set of pages whose lookup gives a master copy, closed      *)
(* those of them that were registered and closed by this trap.             *)
(***************************************************************************)
Registrable(q) ==
    /\ vma[q] # "none"
    /\ ~pte[q].exeDeny \/ pte[q].origExe
    /\ ~Altered(mem, q)

\* What pages_data holds: the newest master copy, or the copy just made.
MasterView ==
    [a \in Addr |-> LET p == PageOf(a)
                    IN IF masters[p] # <<>> THEN Head(masters[p])[a] ELSE mem[a]]

Closing(m, pages) == [a \in Addr |-> IF PageOf(a) \in pages THEN INV ELSE m[a]]

\* find_first_invalid_opcode_byte: where the next open zone begins, or the
\* end of the page, also when the byte at s is itself open.
NextZone(m, s) ==
    LET end == PageEnd(PageOf(s))
    IN  IF m[s] # INV THEN end
        ELSE CHOOSE b \in s .. end :
               /\ b = end \/ m[b] # INV
               /\ \A c \in s .. b - 1 : m[c] = INV

\* handle_cross_page: the first instruction boundary in the next page, found
\* on the bytes from the end of this page's last instruction onwards.
CrossPage(end) == Disassemble(MasterView, end, end + MaxInstr)

\* The search loop.  looked is the pages that were looked up, probe the
\* start_offset the loop leaves behind, as an address of the first page.
TrapSearch(a, avail, closed) ==
    LET p     == PageOf(a)
        q     == p + 1
        m     == Closing(mem, closed)
        first == Disassemble(MasterView, a, NextZone(m, a))
        toEnd == first.ret = "continue" /\ NextZone(m, a) = PageEnd(p)
        onePage == [ret    |-> IF first.ret = "error" THEN "restore" ELSE "zone",
                    n      |-> 1,
                    end    |-> IF first.ret = "success" \/ toEnd
                                 THEN first.end ELSE NextZone(m, a),
                    cross  |-> IF toEnd THEN Spill(p, first.end) ELSE {},
                    looked |-> IF toEnd THEN {p, q} ELSE {p},
                    probe  |-> a]
        so     == CrossPage(first.end).end
        second == Disassemble(MasterView, so, NextZone(m, so))
        last   == second.ret = "continue" /\ NextZone(m, so) = PageEnd(q)
    IN  IF ~toEnd THEN onePage
        ELSE IF (q \notin Pages \/ masters[q] = <<>>) /\ FoundProt(q) = "none"
          THEN [onePage EXCEPT !.ret = "fatal"]
        ELSE IF q \notin avail \/ CrossPage(first.end).ret = "error"
          THEN onePage
        ELSE [ret    |-> IF second.ret = "error" THEN "restore" ELSE "zone",
              n      |-> 2,
              end    |-> IF second.ret = "success" \/ last
                           THEN second.end ELSE NextZone(m, so),
              cross  |-> onePage.cross \cup
                         (IF last THEN Spill(q, second.end) ELSE {}),
              looked |-> {p, q},
              probe  |-> so - PageSize]

\* The steps of kind that succeed, among those tried on the pages in tried.
Succeeding(kind, tried) == IF kind \in Failures THEN SUBSET tried ELSE {tried}

\* The lookups of a trap at a: which pages give a master copy, and which of
\* those made on the spot could be closed.
Lookups(a) ==
    LET here == {q \in Pages : PageOf(a) <= q /\ q <= PageOf(a) + 1}
        old  == {q \in here : masters[q] # <<>>}
        new  == {q \in here \ old : Registrable(q)}
    IN  UNION {{[avail |-> old \cup made, closed |-> closed] :
                   closed \in Succeeding("close", made)} :
                 made \in Succeeding("register", new)}

\* The pages the trap registered, once the search is known.
Made(l, s) == {q \in s.looked \cap l.avail : masters[q] = <<>>}

\* The vma variable when the exit label is reached: the last VMA looked up.
LastProt(a, l, s) ==
    IF PageOf(a) + 1 \in s.looked
         /\ (PageOf(a) + 1 \notin Pages \/ masters[PageOf(a) + 1] = <<>>)
      THEN FoundProt(PageOf(a) + 1) ELSE vma[PageOf(a)]

\* The exit label: a page made and opened by the trap needs no fetch fault.
AllowMade(a, l, s) ==
    pte' = [q \in Pages |->
              IF q \in Made(l, s) /\ q < PageOf(a) + s.n
                THEN Allowed(pte[q], Writable(LastProt(a, l, s)))
                ELSE pte[q]]

IsTrap(a) == alive /\ pc = a /\ Traps(a)

\* end == start: the zone is the rest of the page.
TrapEnd(a, s) == IF s.end = a THEN PageEnd(PageOf(a)) ELSE s.end

\* The zone is checked and its bytes written back from the master copies.
TrapOpenZone ==
    \E a \in Addr :
      /\ IsTrap(a)
      /\ \E l \in Lookups(a) : \E s \in {TrapSearch(a, l.avail, l.closed)} :
         \E zone \in {{b \in Addr : a <= b /\ b < TrapEnd(a, s)}},
            m \in {Closing(mem, l.closed \cap s.looked)} :
           /\ PageOf(a) \in l.avail
           /\ s.ret = "zone"
           /\ MasterView[a] # INV
           /\ cross' = cross \cup s.cross
           /\ masters' = Register(Made(l, s))
           /\ mem' = [b \in Addr |-> IF b \in zone THEN MasterView[b] ELSE m[b]]
           /\ verified' = verified \cup zone
           /\ AllowMade(a, l, s)
      /\ UNCHANGED <<vma, pc, alive, changes, prog>>

\* The nine bytes of the master copy looked at before the page is restored.
FillerAt(p, from) ==
    \A b \in CellsOf(p) : from <= b /\ b < from + InvRun => MasterView[b] = INV

\* restore_page: the whole first page is checked, written back from its
\* master copy, which is dropped, and marked as open at both ends.
TrapRestorePage ==
    \E a \in Addr :
      /\ IsTrap(a)
      /\ \E l \in Lookups(a) : \E s \in {TrapSearch(a, l.avail, l.closed)} :
         \E p \in {PageOf(a)}, m \in {Closing(mem, l.closed \cap s.looked)} :
           /\ p \in l.avail
           /\ \/ s.ret = "restore" /\ ~FillerAt(p, s.probe)
              \/ s.ret = "zone" /\ MasterView[a] # INV /\ "write" \in Failures
           /\ cross' = cross \cup s.cross \cup {<<p, "start">>, <<p, "end">>}
           /\ masters' = [Register(Made(l, s)) EXCEPT ![p] = Tail(@)]
           /\ mem' = [b \in Addr |-> IF PageOf(b) = p THEN MasterView[b] ELSE m[b]]
           /\ verified' = verified \cup CellsOf(p)
           /\ AllowMade(a, l, s)
      /\ UNCHANGED <<vma, pc, alive, changes, prog>>

\* error_exit: no master copy, a hole after the page, a filler byte in the
\* master copy, a rejected zone.  SIGILL is delivered.
TrapFatal ==
    \E a \in Addr :
      /\ IsTrap(a)
      /\ \E l \in Lookups(a) : \E s \in {TrapSearch(a, l.avail, l.closed)} :
           \/ PageOf(a) \notin l.avail
           \/ s.ret = "fatal"
           \/ s.ret = "zone" /\ MasterView[a] = INV
           \/ s.ret = "restore" /\ FillerAt(PageOf(a), s.probe)
           \/ Failures \cap {"check", "write"} # {}
      /\ Die

(***************************************************************************)
(* What the process does by itself.  It changes its pages from code that   *)
(* is not monitored, so only while pc is Idle.                             *)
(***************************************************************************)

\* It enters the monitored code, or a control instruction jumps, only at an
\* instruction of its own text.
Entries ==
    LET from[i \in 0 .. NumPages * PageSize + 1] ==
          IF i \notin Addr THEN {} ELSE {i} \cup from[i + InstrLen(prog[i])]
    IN  {a \in Addr : a \in from[0] /\ Executable(vma[PageOf(a)])}

Enter ==
    /\ alive /\ pc = Idle
    /\ pc' \in Entries
    /\ UNCHANGED <<vma, pte, mem, masters, cross, alive, changes, hidden>>

Execute ==
    /\ alive /\ pc # Idle
    /\ Runs(pc)
    /\ IF mem[pc] \in Control THEN pc' \in Entries \cup {Idle}
       ELSE pc' = IF pc + InstrLen(mem[pc]) \in Addr THEN pc + InstrLen(mem[pc]) ELSE Idle
    /\ UNCHANGED <<vma, pte, mem, masters, cross, alive, changes, hidden>>

\* The content and the check state of page p after the store of c at a.
Written(a, c, base) ==
    /\ mem' = [base EXCEPT ![a] = c]
    /\ prog' = [prog EXCEPT ![a] = c]
    /\ verified' = verified \ CellsOf(PageOf(a))

Changing == alive /\ pc = Idle /\ changes < MaxChanges /\ changes' = changes + 1

\* A store to a page whose PTE is writable: nothing sees it.
StoreDirect ==
    \E a \in Addr, c \in Stored :
      /\ Changing
      /\ Writable(vma[PageOf(a)]) /\ pte[PageOf(a)].write
      /\ Written(a, c, mem)
      /\ UNCHANGED <<vma, pte, masters, cross, pc, alive>>

\* What the kernel leaves of the PTE when it grants a write: it reuses the
\* page and keeps the module's bits, or copies it and makes a new PTE.
Granted(flags) ==
    {[flags EXCEPT !.write = TRUE],
     [flags EXCEPT !.write = TRUE, !.check = FALSE, !.origWrite = FALSE]}

\* A page closed by the module, from the flags it had at the entry of
\* handle_mm_fault.
WasClosedMutant(before, copies) ==   \* the test of CHECK_DENY inverted
    before.origWrite /\ ~before.check /\ copies # <<>>
WasClosed(before, copies) == before.origWrite /\ before.check /\ copies # <<>>

\* The exit handler: the page will be checked at its next fetch.
AfterStoreMutant(granted) ==         \* CHECK_DENY kept
    [granted EXCEPT !.origExe = TRUE, !.exeDeny = TRUE]
AfterStore(granted) ==
    [granted EXCEPT !.origExe = TRUE, !.exeDeny = TRUE, !.check = FALSE]

\* A write fault on a WX page: one that was closed is restored before the
\* store.
StoreFaultWX ==
    \E a \in Addr, c \in Stored :
      LET p      == PageOf(a)
          before == pte[p]
          back   == WasClosed(before, masters[p])
      IN
      /\ Changing
      /\ vma[p] = "wx" /\ ~before.write
      /\ Written(a, c, IF back
                         THEN [b \in Addr |-> IF PageOf(b) = p
                                 THEN Head(masters[p])[b] ELSE mem[b]]
                         ELSE mem)
      /\ masters' = IF back THEN [masters EXCEPT ![p] = Tail(@)] ELSE masters
      /\ \E granted \in Granted(before) :
           pte' = [pte EXCEPT ![p] = AfterStore(granted)]
      /\ UNCHANGED <<vma, cross, pc, alive>>

\* A write fault on a page that is not executable: the exit handler tests a
\* local orig_write_bit it has not read yet, so its last branch is dead.
StoreFaultW ==
    \E a \in Addr, c \in Stored :
      LET p == PageOf(a) IN
      /\ Changing
      /\ vma[p] = "w" /\ ~pte[p].write
      /\ Written(a, c, mem)
      /\ \E granted \in Granted(pte[p]) : pte' = [pte EXCEPT ![p] = granted]
      /\ UNCHANGED <<vma, masters, cross, pc, alive>>

(***************************************************************************)
(* mprotect: an executable VMA's pages are denied execution.  CHECK_DENY   *)
(* sits in a bit the kernel preserves; the high bits are set anew from the *)
(* protection.  The handler of mprotect_fixup stores VM_WAS_EXECUTABLE in  *)
(* r10, which does not carry the new flags, so change_protection never     *)
(* sees it.  The kernel may map a writable page writable at once.          *)
(***************************************************************************)
Mprotect ==
    \E t \in Transitions, write \in BOOLEAN :
      LET p == t[1] IN
      /\ Changing
      /\ vma[p] = t[2] /\ t[2] # t[3]
      /\ t[2] # "none" /\ t[3] # "none"
      /\ write => Writable(t[3])
      /\ vma' = [vma EXCEPT ![p] = t[3]]
      /\ pte' = [pte EXCEPT ![p] =
                    [exeDeny   |-> TRUE,
                     check     |-> @.check,
                     origExe   |-> Executable(t[3]),
                     origWrite |-> FALSE,
                     write     |-> write]]
      /\ UNCHANGED <<mem, masters, cross, pc, alive, prog, verified>>

\* munmap and a new executable mapping at the same place.  munmap is not
\* hooked: the master copies and the crossing flags stay.
Remap ==
    \E p \in Remapped :
      /\ Changing
      /\ vma' = [vma EXCEPT ![p] = "x"]
      /\ pte' = [pte EXCEPT ![p] = MappedPte("x")]
      /\ mem' = [a \in Addr |-> IF PageOf(a) = p THEN FreshText[a] ELSE mem[a]]
      /\ prog' = [a \in Addr |-> IF PageOf(a) = p THEN FreshText[a] ELSE prog[a]]
      /\ verified' = verified \ CellsOf(p)
      /\ UNCHANGED <<masters, cross, pc, alive>>

\* The process ends by itself or stays dead.
Exit ==
    /\ pc = Idle
    /\ alive' = FALSE
    /\ UNCHANGED <<vma, pte, mem, masters, cross, pc, changes, hidden>>

FetchFault ==
    \/ FetchFatal
    \/ FetchAlreadyChecked
    \/ FetchOpenZone
    \/ FetchRejected
    \/ FetchDisassemblerError
    \/ FetchPageCheck

InvalidOpcode ==
    \/ TrapOpenZone
    \/ TrapRestorePage
    \/ TrapFatal

Process ==
    \/ Enter
    \/ Execute
    \/ StoreDirect
    \/ StoreFaultWX
    \/ StoreFaultW
    \/ Mprotect
    \/ Remap
    \/ Exit

Next == FetchFault \/ InvalidOpcode \/ Process

Spec == Init /\ [][Next]_vars

\* The thread is not stopped for ever in the middle of monitored code: the
\* instruction at pc runs, or its fault or trap is handled.
Step == Execute \/ FetchFault \/ InvalidOpcode

Fairness == WF_vars(Step)

FairSpec == Spec /\ Fairness

-----------------------------------------------------------------------------

TypeOK ==
    /\ vma \in [Pages -> Prot]
    /\ pte \in [Pages -> PteFlags]
    /\ mem \in [Addr -> Cell]
    /\ prog \in [Addr -> Cell]
    /\ DOMAIN masters = Pages
    /\ \A p \in Pages : masters[p] \in Seq([CellsOf(p) -> Cell])
    /\ cross \subseteq Int \X {"start", "end"}
    /\ pc \in Addr \cup {Idle}
    /\ alive \in BOOLEAN
    /\ changes \in 0 .. MaxChanges
    /\ verified \subseteq Addr

\* What can be fetched was checked: every byte of a page that may execute is
\* the filler or went through the check after the last write to its page.
OnlyCheckedRuns ==
    \A a \in Addr :
      ~pte[PageOf(a)].exeDeny /\ mem[a] # INV => a \in verified

\* CHECK_DENY_BIT keeps its word across write faults and mprotect: the page
\* was not written since its bytes were checked or closed.
CheckHolds ==
    \A a \in Addr : pte[PageOf(a)].check /\ mem[a] # INV => a \in verified

\* A page that can be stored to unseen cannot run and must be checked first.
WriteXorExecute ==
    \A p \in Pages : pte[p].write => pte[p].exeDeny /\ ~pte[p].check

\* Closing a page loses nothing: a byte that is not the program's own is the
\* filler, and the newest master copy of its page still holds the program's.
NothingLost ==
    \A a \in Addr :
      mem[a] # prog[a] =>
        /\ mem[a] = INV
        /\ masters[PageOf(a)] # <<>>
        /\ Head(masters[PageOf(a)])[a] = prog[a]

\* A page the process can store to without a fault holds its own bytes.
WritableIntact ==
    \A a \in Addr : pte[PageOf(a)].write => mem[a] = prog[a]

\* No instruction is cut by the border of a zone: one that can run is the
\* program's own, operand included (sig_handler.c:510-519).
WholeInstructions ==
    pc # Idle /\ Runs(pc) => \A b \in InstrCells(pc) : mem[b] = prog[b]

\* CheckedText, with the ghosts for the text and its checked part.
Promise == INSTANCE CheckedText WITH
    Addresses <- Addr,
    PageCells <- LAMBDA a : CellsOf(PageOf(a)),
    Outside   <- Idle,
    text      <- prog,
    checked   <- verified,
    at        <- pc

\* The handlers implement the promise of CheckedText: whatever they close,
\* trap and restore, the process runs its own instructions, each of them
\* checked in full, and a change of a page costs it the check of all of it.
PromiseKept == Promise!Spec

\* Handling a fault or a trap makes progress: an instruction that was reached
\* runs in the end, or the process leaves it with a signal.
EventuallyRuns ==
    \A a \in Addr : pc = a ~> (Runs(a) \/ pc # a)

=============================================================================

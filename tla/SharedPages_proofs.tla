------------------------- MODULE SharedPages_proofs -------------------------
(***************************************************************************)
(* However many processes share the page, with a page table of any size:   *)
(* what they hold on the master copies, and what they may execute.         *)
(***************************************************************************)
EXTENDS SharedPages, TLAPS, SequenceTheorems, WellFoundedInduction
-----------------------------------------------------------------------------
(* Page tables.  Everything that is done to a table keeps its shape.       *)

Last(bits) == [i \in 0..(Entries - 1) |->
                 IF i = Page THEN Entry(bits, <<>>) ELSE Entry(Fresh, <<>>)]
Directory(huge, bits) == IF huge THEN Entry(bits, <<>>) ELSE Entry({"VALID"}, Last(bits))
\* The table of a process whose mapping entry for the page has these bits.
TableWith(huge, bits) ==
    Only(Entry({"VALID"}, Only(Entry({"VALID"}, Only(Directory(huge, bits))))))

\* The bits a mapping entry may have: it is valid, and of its own level.
Good(huge, bits) == "VALID" \in bits /\ (huge <=> "LH_MAPPING" \in bits)

\* The page and its neighbour are the first two of the address space.
LEMMA Indices ==
    /\ PML4(Page) = 0 /\ PDP(Page) = 0 /\ PDE(Page) = 0 /\ PTE(Page) = 1
    /\ PML4(Neighbour) = 0 /\ PDP(Neighbour) = 0 /\ PDE(Neighbour) = 0 /\ PTE(Neighbour) = 0
    /\ 0 \in 0..(Entries - 1) /\ 1 \in 0..(Entries - 1)
  <1>1. 0 \div Entries = 0 /\ 1 \div Entries = 0 /\ 0 % Entries = 0 /\ 1 % Entries = 1
    BY EntriesAssumption
  <1> QED
    BY <1>1, EntriesAssumption DEF PML4, PDP, PDE, PTE, Page, Neighbour

LEMMA TableFields ==
    ASSUME NEW huge \in BOOLEAN, NEW bits
    PROVE  /\ TableWith(huge, bits)[0].bits = {"VALID"}
           /\ TableWith(huge, bits)[0].next[0].bits = {"VALID"}
           /\ TableWith(huge, bits)[0].next[0].next[0] = Directory(huge, bits)
           /\ huge => Directory(huge, bits).bits = bits
           /\ ~huge => /\ Directory(huge, bits).bits = {"VALID"}
                       /\ Directory(huge, bits).next[1].bits = bits
                       /\ Directory(huge, bits).next[0].bits = Fresh
  <1>1. Last(bits)[1].bits = bits /\ Last(bits)[0].bits = Fresh
    BY Indices DEF Last, Entry, Page
  <1> QED
    BY <1>1, Indices DEF TableWith, Only, Entry, Directory

\* The walk ends at the entry that maps the page.
LEMMA PathOf ==
    ASSUME NEW huge \in BOOLEAN, NEW bits, Good(huge, bits)
    PROVE  /\ huge => Path(TableWith(huge, bits), Page) = <<0, 0, 0>>
           /\ ~huge => /\ Path(TableWith(huge, bits), Page) = <<0, 0, 0, 1>>
                       /\ Path(TableWith(huge, bits), Neighbour) = <<0, 0, 0, 0>>
  <1>1. "VALID" \in Fresh /\ "LH_MAPPING" \notin {"VALID"}
    BY DEF Fresh
  <1> DEFINE t == TableWith(huge, bits)
             e2 == t[0].next[0].next[0]
  <1>2. VALID(t[0]) /\ VALID(t[0].next[0]) /\ VALID(e2)
    BY TableFields DEF VALID, Good
  <1>3. "LH_MAPPING" \in e2.bits <=> huge
    BY <1>1, TableFields DEF Good
  <1>4. ~huge => VALID(e2.next[1]) /\ VALID(e2.next[0])
    BY <1>1, TableFields, SMTT(30) DEF VALID, Good
  <1>5. CASE huge
    <2>1. PML4(Page) = 0 /\ PDP(Page) = 0 /\ PDE(Page) = 0
      BY Indices
    <2>2. Path(t, Page) = <<0, 0, 0>>
      <3> HIDE DEF t
      <3> QED
        BY <1>2, <1>3, <1>5, <2>1 DEF Path
    <2> QED
      BY <1>5, <2>2
  <1>6. CASE ~huge
    <2>1. ASSUME NEW a \in {Page, Neighbour}
          PROVE  Path(t, a) = <<0, 0, 0, PTE(a)>>
      <3>1. PML4(a) = 0 /\ PDP(a) = 0 /\ PDE(a) = 0 /\ VALID(e2.next[PTE(a)])
        BY <1>4, <1>6, Indices
      <3> HIDE DEF t
      <3> QED
        BY <1>2, <1>3, <1>6, <3>1 DEF Path
    <2> QED
      BY <1>6, <2>1, Indices
  <1> QED
    BY <1>5, <1>6

\* The bits of the entry are what it was made of.
LEMMA BitsOf ==
    ASSUME NEW huge \in BOOLEAN, NEW bits, Good(huge, bits)
    PROVE  /\ get_page_table_entry(TableWith(huge, bits), Page) = bits
           /\ ~huge => get_page_table_entry(TableWith(huge, bits), Neighbour) = Fresh
  <1> DEFINE t == TableWith(huge, bits)
  <1>1. /\ <<0, 0, 0>> # <<>> /\ DOMAIN <<0, 0, 0>> = 1..3
        /\ \A x : <<0, 0, 0, x>> # <<>> /\ DOMAIN <<0, 0, 0, x>> = 1..4
                  /\ DOMAIN <<0, 0, 0, x>> # 1..3
    OBVIOUS
  <1>2. CASE huge
    <2>1. Path(t, Page) = <<0, 0, 0>>
      BY <1>2, PathOf
    <2>2. get_page_table_entry(t, Page) = t[0].next[0].next[0].bits
      BY <1>1, <2>1 DEF get_page_table_entry
    <2> QED
      BY <1>2, <2>2, TableFields
  <1>3. CASE ~huge
    <2>1. Path(t, Page) = <<0, 0, 0, 1>> /\ Path(t, Neighbour) = <<0, 0, 0, 0>>
      BY <1>3, PathOf
    <2>2. /\ get_page_table_entry(t, Page) = t[0].next[0].next[0].next[1].bits
          /\ get_page_table_entry(t, Neighbour) = t[0].next[0].next[0].next[0].bits
      BY <1>1, <2>1 DEF get_page_table_entry
    <2>3. /\ t[0].next[0].next[0].next[1].bits = bits
          /\ t[0].next[0].next[0].next[0].bits = Fresh
      BY <1>3, TableFields
    <2> QED
      BY <1>3, <2>2, <2>3, Zenon
  <1> QED
    BY <1>2, <1>3

LEMMA Replace ==
    ASSUME NEW e, NEW f
    PROVE  [Only(e) EXCEPT ![0] = f] = Only(f)
  BY Indices DEF Only

LEMMA ReplaceFields ==
    ASSUME NEW b, NEW n, NEW x
    PROVE  /\ [Entry(b, n) EXCEPT !.next = x] = Entry(b, x)
           /\ [Entry(b, n) EXCEPT !.bits = x] = Entry(x, n)
           /\ Entry(b, n).next = n /\ Entry(b, n).bits = b
  BY DEF Entry

\* Only the bits of the entry that maps the page are changed.
LEMMA ChangeOf ==
    ASSUME NEW huge \in BOOLEAN, NEW bits, Good(huge, bits), NEW clear, NEW set
    PROVE  Change(TableWith(huge, bits), Page, clear, set)
             = TableWith(huge, (bits \ clear) \cup set)
  <1> DEFINE t == TableWith(huge, bits)
             new == (bits \ clear) \cup set
             V == {"VALID"}
             d == Directory(huge, bits)
  <1>1. /\ <<0, 0, 0>> # <<>> /\ DOMAIN <<0, 0, 0>> = 1..3
        /\ <<0, 0, 0, 1>> # <<>> /\ DOMAIN <<0, 0, 0, 1>> = 1..4
        /\ DOMAIN <<0, 0, 0, 1>> # 1..3
    OBVIOUS
  <1>2. t[0] = Entry(V, Only(Entry(V, Only(d)))) /\ t[0].next[0] = Entry(V, Only(d))
    BY Indices DEF TableWith, Only, Entry
  <1>3. ASSUME NEW e
        PROVE  [t EXCEPT ![0] = [t[0] EXCEPT !.next = [t[0].next EXCEPT ![0] =
                 [t[0].next[0] EXCEPT !.next = [t[0].next[0].next EXCEPT ![0] = e]]]]]
               = Only(Entry(V, Only(Entry(V, Only(e)))))
    <2>1. [t[0].next[0].next EXCEPT ![0] = e] = Only(e)
      BY <1>2, Replace, ReplaceFields
    <2>2. [t[0].next[0] EXCEPT !.next = Only(e)] = Entry(V, Only(e))
      BY <1>2, ReplaceFields
    <2>3. [t[0].next EXCEPT ![0] = Entry(V, Only(e))] = Only(Entry(V, Only(e)))
      BY <1>2, Replace, ReplaceFields
    <2>4. [t[0] EXCEPT !.next = Only(Entry(V, Only(e)))] = Entry(V, Only(Entry(V, Only(e))))
      BY <1>2, ReplaceFields
    <2>5. [t EXCEPT ![0] = Entry(V, Only(Entry(V, Only(e))))]
            = Only(Entry(V, Only(Entry(V, Only(e)))))
      BY Replace DEF TableWith
    <2> QED
      BY <2>1, <2>2, <2>3, <2>4, <2>5, ZenonT(30)
  <1>4. t[0].next[0].next[0] = d
    BY TableFields
  <1>5. CASE huge
    <2>1. Path(t, Page) = <<0, 0, 0>>
      BY <1>5, PathOf
    <2> DEFINE w == Path(t, Page)
    <2>2. Change(t, Page, clear, set)
            = [t EXCEPT ![w[1]].next[w[2]].next[w[3]].bits = (@ \ clear) \cup set]
      <3> HIDE DEF t
      <3> QED
        BY <1>1, <2>1 DEF Change
    <2>3. w[1] = 0 /\ w[2] = 0 /\ w[3] = 0
      BY <2>1
    <2>4. Change(t, Page, clear, set)
            = [t EXCEPT ![0].next[0].next[0].bits = (d.bits \ clear) \cup set]
      <3> HIDE DEF t, w, d
      <3> QED
        BY <2>2, <2>3, <1>4
    <2>5. [d EXCEPT !.bits = (d.bits \ clear) \cup set] = Directory(huge, new)
      <3>1. d = Entry(bits, <<>>) /\ Directory(huge, new) = Entry(new, <<>>)
        BY <1>5 DEF Directory
      <3> HIDE DEF d, new
      <3>2. d.bits = bits
        BY <3>1, ReplaceFields
      <3>3. (d.bits \ clear) \cup set = new
        BY <3>2 DEF new
      <3>4. [d EXCEPT !.bits = new] = Entry(new, <<>>)
        BY <3>1, ReplaceFields
      <3> QED
        BY <3>1, <3>3, <3>4
    <2>6. Change(t, Page, clear, set) = Only(Entry(V, Only(Entry(V, Only(Directory(huge, new))))))
      <3> HIDE DEF t, d, new
      <3> QED
        BY <2>4, <2>5, <1>3, <1>4
    <2> QED
      BY <2>6 DEF TableWith
  <1>6. CASE ~huge
    <2>1. Path(t, Page) = <<0, 0, 0, 1>>
      BY <1>6, PathOf
    <2> DEFINE w == Path(t, Page)
    <2>2. Change(t, Page, clear, set)
            = [t EXCEPT ![w[1]].next[w[2]].next[w[3]].next[w[4]].bits = (@ \ clear) \cup set]
      <3> HIDE DEF t
      <3> QED
        BY <1>1, <2>1 DEF Change
    <2>3. w[1] = 0 /\ w[2] = 0 /\ w[3] = 0 /\ w[4] = 1
      BY <2>1
    <2>4. Change(t, Page, clear, set)
            = [t EXCEPT ![0].next[0].next[0].next[1].bits = (d.next[1].bits \ clear) \cup set]
      <3> HIDE DEF t, w, d
      <3> QED
        BY <2>2, <2>3, <1>4
    <2>5. [d EXCEPT !.next[1].bits = (d.next[1].bits \ clear) \cup set] = Directory(huge, new)
      <3>1. d = Entry(V, Last(bits)) /\ Directory(huge, new) = Entry(V, Last(new))
        BY <1>6 DEF Directory
      <3> HIDE DEF d, new
      <3>2. d.next = Last(bits) /\ d.next[1] = Entry(bits, <<>>)
        <4>1. Last(bits)[1] = Entry(bits, <<>>)
          BY Indices DEF Last, Page
        <4> QED
          BY <3>1, <4>1, ReplaceFields
      <3>3. [d.next[1] EXCEPT !.bits = (d.next[1].bits \ clear) \cup set] = Entry(new, <<>>)
        <4>1. d.next[1].bits = bits
          BY <3>2, ReplaceFields
        <4>2. (d.next[1].bits \ clear) \cup set = new
          BY <4>1 DEF new
        <4>3. [d.next[1] EXCEPT !.bits = new] = Entry(new, <<>>)
          BY <3>2, ReplaceFields
        <4> QED
          BY <4>2, <4>3
      <3>4. [d.next EXCEPT ![1] = Entry(new, <<>>)] = Last(new)
        BY <3>2, Indices DEF Last, Page
      <3>5. [d EXCEPT !.next = Last(new)] = Entry(V, Last(new))
        BY <3>1, ReplaceFields
      <3> QED
        BY <3>1, <3>3, <3>4, <3>5
    <2>6. Change(t, Page, clear, set) = Only(Entry(V, Only(Entry(V, Only(Directory(huge, new))))))
      <3> HIDE DEF t, d, new
      <3> QED
        BY <2>4, <2>5, <1>3, <1>4
    <2> QED
      BY <2>6 DEF TableWith
  <1> QED
    BY <1>5, <1>6

(* The fold of a fork over the pages of one VMA: none, or the one page.    *)

LoseWrite(a, u) ==
    IF "WRITE_BIT" \in get_page_table_entry(u, a)
      THEN Change(u, a, {"WRITE_BIT"}, {"ORIG_WRITE_BIT"}) ELSE u

LEMMA FoldNone ==
    ASSUME NEW t
    PROVE  FoldSet(LoseWrite, t, {}) = t
  <1> DEFINE Iter(i) == i = [s \in SUBSET {} |->
                               IF s = {} THEN t
                               ELSE LoseWrite(CHOOSE x \in s : TRUE,
                                              i[s \ {CHOOSE x \in s : TRUE}])]
             it == [s \in SUBSET {} |-> t]
  <1>1. Iter(it)
    OBVIOUS
  <1>2. Iter(CHOOSE i : Iter(i))
    <2> HIDE DEF Iter, it
    <2> QED
      BY <1>1
  <1>3. (CHOOSE i : Iter(i))[{}] = t
    BY <1>2
  <1> QED
    BY <1>3 DEF FoldSet, MapThenFoldSet

LEMMA FoldOne ==
    ASSUME NEW t, NEW a
    PROVE  FoldSet(LoseWrite, t, {a}) = LoseWrite(a, t)
  <1> DEFINE Iter(i) == i = [s \in SUBSET {a} |->
                               IF s = {} THEN t
                               ELSE LoseWrite(CHOOSE x \in s : TRUE,
                                              i[s \ {CHOOSE x \in s : TRUE}])]
             it == [s \in SUBSET {a} |-> IF s = {} THEN t ELSE LoseWrite(a, t)]
  <1>1. Iter(it)
    <2>1. ASSUME NEW s \in SUBSET {a}, s # {}
          PROVE  (CHOOSE x \in s : TRUE) = a /\ s \ {a} = {}
      OBVIOUS
    <2> QED
      BY <2>1
  <1>2. Iter(CHOOSE i : Iter(i))
    <2> HIDE DEF Iter, it
    <2> QED
      BY <1>1
  <1> DEFINE f == CHOOSE i : Iter(i)
  <1>3. f[{}] = t /\ f[{a}] = LoseWrite(a, t)
    <2>1. f[{}] = t
      BY <1>2
    <2>2. (CHOOSE x \in {a} : TRUE) = a /\ {a} \ {a} = {}
      OBVIOUS
    <2> HIDE DEF f
    <2>3. f[{a}] = LoseWrite(CHOOSE x \in {a} : TRUE, f[{a} \ {CHOOSE x \in {a} : TRUE}])
      BY <1>2 DEF f
    <2> QED
      BY <2>1, <2>2, <2>3
  <1> QED
    BY <1>3 DEF FoldSet, MapThenFoldSet

LEMMA ForkTable ==
    ASSUME NEW huge \in BOOLEAN, NEW bits, Good(huge, bits), NEW flags
    PROVE  set_all_sh_pages_non_writable(TableWith(huge, bits),
                {[start |-> Page, end |-> Page + 1, flags |-> flags]})
             = TableWith(huge, IF {"VM_SHARED", "VM_WRITE", "VM_EXEC"} \subseteq flags
                                    /\ "WRITE_BIT" \in bits
                               THEN (bits \ {"WRITE_BIT"}) \cup {"ORIG_WRITE_BIT"} ELSE bits)
  <1> DEFINE v == [start |-> Page, end |-> Page + 1, flags |-> flags]
             t == TableWith(huge, bits)
             all == {"VM_SHARED", "VM_WRITE", "VM_EXEC"} \subseteq flags
             wx == {w \in {v} : {"VM_SHARED", "VM_WRITE", "VM_EXEC"} \subseteq w.flags}
             pages == UNION {w.start .. w.end - 1 : w \in wx}
  <1>1. set_all_sh_pages_non_writable(t, {v}) = FoldSet(LoseWrite, t, pages)
    BY DEF set_all_sh_pages_non_writable, LoseWrite
  <1>2. pages = IF all THEN {Page} ELSE {}
    <2>1. v.start .. v.end - 1 = {Page}
      BY DEF Page
    <2>2. wx = IF all THEN {v} ELSE {}
      OBVIOUS
    <2> HIDE DEF v
    <2> QED
      BY <2>1, <2>2
  <1>3. LoseWrite(Page, t) = IF "WRITE_BIT" \in bits
                              THEN TableWith(huge, (bits \ {"WRITE_BIT"}) \cup {"ORIG_WRITE_BIT"})
                              ELSE t
    BY BitsOf, ChangeOf DEF LoseWrite
  <1>4. set_all_sh_pages_non_writable(t, {v}) = IF all THEN LoseWrite(Page, t) ELSE t
    <2> HIDE DEF pages, t, v, all
    <2> QED
      BY <1>1, <1>2, FoldNone, FoldOne
  <1> QED
    BY <1>3, <1>4
-----------------------------------------------------------------------------
(* The inductive invariant: what holds of every mapping, and what holds    *)
(* while nobody can write it.                                              *)

Info == [data : Data, ref_count : Nat, live : BOOLEAN]
Node == [info : 1..Len(infos), address : BOOLEAN]

TablesOK ==
    /\ table = [p \in Procs |-> TableWith(large, Bits(p))]
    /\ \A p \in Procs : Good(large, Bits(p))

MastersOK ==
    /\ infos \in Seq(Info) /\ Len(infos) <= MaxInfos
    /\ shared \in Seq(1..Len(infos))
    /\ nodes \in [Procs -> Seq(Node)]

JobsOK ==
    /\ job \in [Procs -> Jobs]
    /\ \A p \in Procs : job[p].pc \in {"trap", "search"} => job[p].info \in 1..Len(infos)
    /\ stores \in Versions

LockOK ==
    /\ mutex \in Procs \cup {NoProc}
    /\ \A p \in Procs : job[p].pc \in {"fetched", "close", "search"} <=> mutex = p

Types ==
    /\ <<writers, large>> \in Mappings
    /\ TablesOK /\ MastersOK /\ JobsOK /\ LockOK
    /\ mem \in Data
    /\ checked \subseteq Blocks \X (Versions \cup {Filler, Garbage})

\* Only a process that may write has WRITE_BIT, and it may not execute.
WriteOK == \A p \in Procs : "WRITE_BIT" \in Bits(p) => p \in writers /\ Denied(p)

Text == [b \in Blocks |-> 0]   \* the bytes of a page nobody can write

\* All of the text was checked, or every byte of it that stands open.
AllChecked == \A b \in Blocks : <<b, 0>> \in checked
OpenChecked == \A b \in Blocks : mem[b] = Filler \/ <<b, 0>> \in checked

\* Nothing is registered yet, and only a process that checked the whole page may
\* execute it ...
Unregistered ==
    /\ shared = <<>> /\ infos = <<>> /\ mem = Text
    /\ \A p \in Procs :
         /\ nodes[p] = <<>>
         /\ job[p].pc \in {"user", "fetch", "fetched"} \/ job[p] = Killed("unregistered")
         /\ ~Denied(p) => AllChecked

\* ... or it is registered, once, and what stands open was checked, unless its
\* process was killed by the check or is still about to make it.
Registered ==
    /\ shared = << 1 >> /\ Len(infos) = 1 /\ infos[1].live /\ infos[1].data = Text
    /\ \A b \in Blocks : mem[b] \in {0, Filler}
    /\ \A p \in Procs :
         /\ \A k \in DOMAIN nodes[p] : nodes[p][k].info = 1
         /\ \/ job[p].pc \in {"user", "fetch", "close", "trap", "search"}
            \/ job[p].pc = "killed" /\ job[p].by # "copy"
    /\ \/ Refused \/ OpenChecked
       \/ (\E p \in Procs : job[p].pc = "close") /\ \A q \in Procs : Denied(q)

ReadOnly ==
    /\ Unregistered \/ Registered
    /\ \A p \in Procs : job[p].pc \in {"fetched", "close"} => job[p].data = Text

IInv == Types /\ WriteOK /\ (writers = {} => ReadOnly)
-----------------------------------------------------------------------------
(* Page tables, step by step.                                              *)

LEMMA Constants ==
    /\ NoProc \notin Procs
    /\ 0 \in Versions /\ Filler \notin Versions /\ Filler # 0
    /\ \A w, h : <<w, h>> \in Mappings => w \subseteq Procs /\ h \in BOOLEAN
    /\ MaxStores \in Nat /\ MaxInfos \in Nat
    /\ 1 \in Blocks /\ NumBlocks \in Blocks
  BY SharedAssumption DEF Versions, Blocks

\* The mapping entry of one process changes, and stays one of its level.
LEMMA FlipBits ==
    ASSUME Types, NEW p \in Procs, NEW clear, NEW set, Flip(p, clear, set), large' = large,
           {"VALID", "LH_MAPPING"} \cap clear = {}, {"VALID", "LH_MAPPING"} \cap set = {}
    PROVE  /\ TablesOK'
           /\ \A q \in Procs :
                Bits(q)' = IF q = p THEN (Bits(p) \ clear) \cup set ELSE Bits(q)
  <1> DEFINE new(q) == IF q = p THEN (Bits(p) \ clear) \cup set ELSE Bits(q)
  <1>1. large \in BOOLEAN /\ \A q \in Procs : Good(large, new(q))
    BY Constants DEF Types, TablesOK, Good
  <1>2. \A q \in Procs : table[q] = TableWith(large, Bits(q))
    BY Zenon DEF Types, TablesOK
  <1>3. Change(table[p], Page, clear, set) = TableWith(large, new(p))
    BY <1>1, <1>2, ChangeOf DEF Types, TablesOK
  <1> HIDE DEF new
  <1>4. table' = [q \in Procs |-> TableWith(large, new(q))]
    <2>1. table' = [table EXCEPT ![p] = TableWith(large, new(p))]
      BY <1>3 DEF Flip
    <2>2. \A q \in Procs : q # p => new(q) = Bits(q)
      BY DEF new
    <2> QED
      BY <1>2, <2>1, <2>2 DEF Types, TablesOK
  <1>5. \A q \in Procs : Bits(q)' = new(q)
    <2> TAKE q \in Procs
    <2>1. table'[q] = TableWith(large, new(q))
      BY <1>4
    <2> QED
      BY <1>1, <2>1, BitsOf DEF Bits
  <1>6. TablesOK'
    <2>1. \A q \in Procs : TableWith(large', Bits(q)') = TableWith(large, new(q))
      BY <1>5
    <2>2. \A q \in Procs : Good(large', Bits(q)')
      BY <1>1, <1>5
    <2>3. table' = [q \in Procs |-> TableWith(large', Bits(q)')]
      BY <1>4, <2>1
    <2> QED
      BY <2>2, <2>3 DEF TablesOK
  <1> QED
    BY <1>5, <1>6 DEF new

\* A fork takes the right to write from the parent.
LEMMA ForkBits ==
    ASSUME Types, NEW p \in Procs, Fork(p)
    PROVE  /\ TablesOK'
           /\ \A q \in Procs : q # p => Bits(q)' = Bits(q)
           /\ Bits(p)' \in {Bits(p), (Bits(p) \ {"WRITE_BIT"}) \cup {"ORIG_WRITE_BIT"}}
  <1> DEFINE flags == {"VM_SHARED", "VM_EXEC"} \cup (IF p \in writers THEN {"VM_WRITE"} ELSE {})
             lost == IF {"VM_SHARED", "VM_WRITE", "VM_EXEC"} \subseteq flags /\ "WRITE_BIT" \in Bits(p)
                       THEN (Bits(p) \ {"WRITE_BIT"}) \cup {"ORIG_WRITE_BIT"} ELSE Bits(p)
             new(q) == IF q = p THEN lost ELSE Bits(q)
  <1>1. large \in BOOLEAN /\ \A q \in Procs : Good(large, new(q))
    BY Constants DEF Types, TablesOK, Good
  <1>2. \A q \in Procs : table[q] = TableWith(large, Bits(q))
    BY Zenon DEF Types, TablesOK
  <1>3. table' = [table EXCEPT ![p] = TableWith(large, new(p))]
    <2>1. Good(large, Bits(p))
      BY DEF Types, TablesOK
    <2>2. set_all_sh_pages_non_writable(TableWith(large, Bits(p)),
            {[start |-> Page, end |-> Page + 1, flags |-> flags]}) = TableWith(large, lost)
      BY <1>1, <2>1, ForkTable, ZenonT(30)
    <2> QED
      BY <1>2, <2>2 DEF Fork
  <1>4. table' = [q \in Procs |-> TableWith(large, new(q))]
    <2>1. \A q \in Procs : q # p => new(q) = Bits(q)
      OBVIOUS
    <2> HIDE DEF new
    <2> QED
      BY <1>2, <1>3, <2>1 DEF Types, TablesOK
  <1>5. \A q \in Procs : Bits(q)' = new(q)
    <2> TAKE q \in Procs
    <2> HIDE DEF new
    <2>1. table'[q] = TableWith(large, new(q))
      BY <1>4
    <2> QED
      BY <1>1, <2>1, BitsOf DEF Bits
  <1>6. TablesOK'
    <2> HIDE DEF new
    <2>1. \A q \in Procs : TableWith(large', Bits(q)') = TableWith(large, new(q))
      BY <1>5 DEF Fork, mapping
    <2>2. \A q \in Procs : Good(large', Bits(q)')
      BY <1>1, <1>5 DEF Fork, mapping
    <2>3. table' = [q \in Procs |-> TableWith(large', Bits(q)')]
      BY <1>4, <2>1
    <2> QED
      BY <2>2, <2>3 DEF TablesOK
  <1> QED
    BY <1>5, <1>6

\* What an action does to the page tables.
Keep == UNCHANGED table
GrantBits(p) == Flip(p, {"CHECK_DENY_BIT"}, {"WRITE_BIT", "ORIG_EXE_BIT", "EXE_DENY_BIT"})
TableStep(p) == Keep \/ Allow(p) \/ (p \in writers /\ GrantBits(p)) \/ Fork(p)

LEMMA TableInv ==
    ASSUME Types, WriteOK, NEW p \in Procs, TableStep(p), UNCHANGED mapping
    PROVE  TablesOK' /\ WriteOK'
  <1> USE DEF mapping
  <1>1. CASE Keep
    BY <1>1 DEF Keep, Types, TablesOK, WriteOK, Bits, Denied
  <1>2. CASE Allow(p)
    <2>1. CASE p \in writers
      <3>1. Flip(p, {"EXE_DENY_BIT", "WRITE_BIT"}, {"ORIG_WRITE_BIT", "CHECK_DENY_BIT"})
        BY <1>2, <2>1 DEF Allow
      <3> QED
        BY <3>1, FlipBits DEF WriteOK, Denied
    <2>2. CASE p \notin writers
      <3>1. Flip(p, {"EXE_DENY_BIT"}, {"CHECK_DENY_BIT"})
        BY <1>2, <2>2 DEF Allow
      <3> QED
        BY <2>2, <3>1, FlipBits DEF WriteOK, Denied
    <2> QED
      BY <2>1, <2>2
  <1>3. CASE p \in writers /\ GrantBits(p)
    <2>1. Flip(p, {"CHECK_DENY_BIT"}, {"WRITE_BIT", "ORIG_EXE_BIT", "EXE_DENY_BIT"})
      BY <1>3 DEF GrantBits
    <2> QED
      BY <1>3, <2>1, FlipBits DEF WriteOK, Denied
  <1>4. CASE Fork(p)
    BY <1>4, ForkBits DEF WriteOK, Denied
  <1> QED
    BY <1>1, <1>2, <1>3, <1>4 DEF TableStep

\* Which processes may execute the page changes by no step but these.
LEMMA DeniedStep ==
    ASSUME Types, NEW p \in Procs, UNCHANGED mapping
    PROVE  /\ Keep \/ Fork(p) => \A q \in Procs : Denied(q)' = Denied(q)
           /\ Allow(p) => \A q \in Procs : q # p => Denied(q)' = Denied(q)
  <1> USE DEF mapping
  <1>1. ASSUME Keep
        PROVE  \A q \in Procs : Denied(q)' = Denied(q)
    BY <1>1 DEF Keep, Denied, Bits
  <1>2. ASSUME Fork(p)
        PROVE  \A q \in Procs : Denied(q)' = Denied(q)
    BY <1>2, ForkBits DEF Denied
  <1>3. ASSUME Allow(p)
        PROVE  \A q \in Procs : q # p => Denied(q)' = Denied(q)
    <2>1. CASE p \in writers
      BY <1>3, <2>1, FlipBits DEF Allow, Denied
    <2>2. CASE p \notin writers
      BY <1>3, <2>2, FlipBits DEF Allow, Denied
    <2> QED
      BY <2>1, <2>2
  <1> QED
    BY <1>1, <1>2, <1>3
-----------------------------------------------------------------------------
(* Master copies, step by step.                                            *)

LEMMA SeqLarger ==
    ASSUME NEW S, NEW T, S \subseteq T, NEW s \in Seq(S)
    PROVE  s \in Seq(T)
  OBVIOUS

\* A node in front of the others of the process.
LEMMA Prepend ==
    ASSUME MastersOK, NEW p \in Procs, NEW n, Len(infos') \in Nat, Len(infos) <= Len(infos'),
           n \in Node', nodes' = [nodes EXCEPT ![p] = <<n>> \o @]
    PROVE  /\ nodes' \in [Procs -> Seq(Node')]
           /\ nodes'[p] = <<n>> \o nodes[p]
           /\ Len(nodes'[p]) = Len(nodes[p]) + 1
           /\ nodes'[p][1] = n
           /\ \A k \in DOMAIN nodes[p] : nodes'[p][k + 1] = nodes[p][k]
           /\ \A q \in Procs : q # p => nodes'[q] = nodes[q]
  <1>1. Node \subseteq Node'
    BY DEF Node, MastersOK
  <1>2. \A q \in Procs : nodes[q] \in Seq(Node')
    BY <1>1, SeqLarger DEF MastersOK
  <1>3. <<n>> \in Seq(Node') /\ Len(<<n>>) = 1 /\ <<n>>[1] = n
    OBVIOUS
  <1>4. nodes'[p] = <<n>> \o nodes[p] /\ \A q \in Procs : q # p => nodes'[q] = nodes[q]
    BY DEF MastersOK
  <1> DEFINE all == <<n>> \o nodes[p]
  <1>5. /\ all \in Seq(Node') /\ Len(all) = 1 + Len(nodes[p]) /\ all[1] = n
        /\ \A k \in DOMAIN nodes[p] : all[k + 1] = nodes[p][k]
    <2>1. Len(nodes[p]) \in Nat /\ DOMAIN nodes[p] = 1..Len(nodes[p])
      BY <1>2
    <2> QED
      BY <1>2, <1>3, <2>1, ConcatProperties
  <1>6. nodes' \in [Procs -> Seq(Node')]
    <2> HIDE DEF all
    <2> QED
      BY <1>2, <1>4, <1>5 DEF MastersOK, all
  <1> QED
    BY <1>2, <1>4, <1>5, <1>6

LEMMA AttachInv ==
    ASSUME MastersOK, NEW p \in Procs, shared # <<>>, Attach(p)
    PROVE  /\ MastersOK' /\ Len(infos') = Len(infos)
           /\ shared[1] \in DOMAIN infos
           /\ \A i \in DOMAIN infos :
                /\ infos'[i].data = infos[i].data /\ infos'[i].live = infos[i].live
                /\ infos'[i].ref_count = IF i = shared[1] THEN infos[i].ref_count + 1
                                          ELSE infos[i].ref_count
           /\ Len(nodes'[p]) = Len(nodes[p]) + 1
           /\ nodes'[p][1].info = shared[1]
           /\ \A k \in DOMAIN nodes[p] : nodes'[p][k + 1] = nodes[p][k]
           /\ \A q \in Procs : q # p => nodes'[q] = nodes[q]
  <1>1. shared[1] \in 1..Len(infos) /\ DOMAIN infos = 1..Len(infos) /\ Len(infos) \in Nat
    BY DEF MastersOK
  <1> DEFINE rec == [infos[shared[1]] EXCEPT !.ref_count = @ + 1]
  <1>2. infos' = [infos EXCEPT ![shared[1]] = rec] /\ infos \in [1..Len(infos) -> Info]
    BY DEF Attach, MastersOK
  <1>3. infos' \in Seq(Info) /\ Len(infos') = Len(infos)
    <2>1. rec \in Info
      BY <1>1, <1>2 DEF Info
    <2> HIDE DEF rec
    <2> QED
      BY <1>1, <1>2, <2>1 DEF MastersOK
  <1>4. \A i \in DOMAIN infos :
          /\ infos'[i].data = infos[i].data /\ infos'[i].live = infos[i].live
          /\ infos'[i].ref_count = IF i = shared[1] THEN infos[i].ref_count + 1
                                    ELSE infos[i].ref_count
    BY <1>1, <1>2 DEF Info
  <1> DEFINE n == [info |-> shared[1], address |-> TRUE]
  <1>5. n \in Node' /\ n.info = shared[1]
    BY <1>1, <1>3 DEF Node
  <1>6. nodes' = [nodes EXCEPT ![p] = <<n>> \o @] /\ shared' = shared
    BY DEF Attach
  <1> HIDE DEF n
  <1>7. Len(infos') \in Nat /\ Len(infos) <= Len(infos')
    BY <1>1, <1>3
  <1>8. MastersOK'
    BY <1>3, <1>5, <1>6, <1>7, Prepend DEF MastersOK
  <1> QED
    BY <1>1, <1>3, <1>4, <1>5, <1>6, <1>7, <1>8, Prepend

LEMMA RegisterInv ==
    ASSUME MastersOK, NEW p \in Procs, NEW data \in Data, register_shared_page(p, data)
    PROVE  /\ MastersOK' /\ Len(infos') = Len(infos) + 1
           /\ infos' = Append(infos, [data |-> data, ref_count |-> 1, live |-> TRUE])
           /\ shared' = <<Len(infos) + 1>> \o shared
           /\ Len(nodes'[p]) = Len(nodes[p]) + 1
           /\ nodes'[p][1].info = Len(infos) + 1
           /\ \A k \in DOMAIN nodes[p] : nodes'[p][k + 1] = nodes[p][k]
           /\ \A q \in Procs : q # p => nodes'[q] = nodes[q]
  <1> DEFINE new == [data |-> data, ref_count |-> 1, live |-> TRUE]
  <1>1. new \in Info
    BY DEF Info
  <1>2. infos' = Append(infos, new) /\ Len(infos) < MaxInfos
    BY DEF register_shared_page
  <1> HIDE DEF new
  <1>3. infos' \in Seq(Info) /\ Len(infos') = Len(infos) + 1 /\ Len(infos) \in Nat
    BY <1>1, <1>2, AppendProperties DEF MastersOK
  <1>4. shared' = <<Len(infos) + 1>> \o shared
    BY DEF register_shared_page
  <1>5. shared' \in Seq(1..Len(infos'))
    <2>1. shared \in Seq(1..Len(infos'))
      BY <1>3, SeqLarger DEF MastersOK
    <2>2. <<Len(infos) + 1>> \in Seq(1..Len(infos'))
      BY <1>3
    <2> QED
      BY <1>4, <2>1, <2>2, ConcatProperties
  <1>6. PICK leftover \in BOOLEAN :
          nodes' = [nodes EXCEPT ![p] = <<[info |-> Len(infos) + 1, address |-> leftover]>> \o @]
    BY DEF register_shared_page
  <1> DEFINE n == [info |-> Len(infos) + 1, address |-> leftover]
  <1>7. n \in Node' /\ n.info = Len(infos) + 1
    BY <1>3 DEF Node
  <1>8. nodes' = [nodes EXCEPT ![p] = <<n>> \o @]
    BY <1>6
  <1> HIDE DEF n
  <1>9. Len(infos') \in Nat /\ Len(infos) <= Len(infos') /\ Len(infos') <= MaxInfos
    BY <1>2, <1>3, Constants
  <1>10. MastersOK'
    BY <1>3, <1>5, <1>7, <1>8, <1>9, Prepend DEF MastersOK
  <1> QED
    BY <1>2, <1>3, <1>4, <1>7, <1>8, <1>9, <1>10, Prepend DEF new

\* A copy that is freed stays a record of its type.
LEMMA FreeInv ==
    ASSUME MastersOK, NEW i \in 1..Len(infos), Free(i)
    PROVE  infos' \in Seq(Info) /\ Len(infos') = Len(infos)
  <1>1. infos \in [1..Len(infos) -> Info] /\ Len(infos) \in Nat
    BY DEF MastersOK
  <1>2. PICK data \in {infos[i].data} \cup {[b \in Blocks |-> x] : x \in {Garbage, Filler}} :
          infos' = [infos EXCEPT ![i].live = FALSE, ![i].data = data]
    BY DEF Free
  <1>3. data \in Data
    BY <1>1 DEF Info, Data
  <1> DEFINE rec == [infos[i] EXCEPT !.live = FALSE, !.data = data]
  <1>4. rec \in Info
    BY <1>1, <1>3 DEF Info
  <1>5. infos' = [infos EXCEPT ![i] = rec]
    BY <1>1, <1>2 DEF Info
  <1> HIDE DEF rec
  <1> QED
    BY <1>1, <1>4, <1>5 DEF MastersOK

LEMMA FirstKnown ==
    ASSUME MastersOK, NEW p \in Procs, Known(p) # {}
    PROVE  /\ Min(Known(p)) \in 1..Len(nodes[p]) /\ Len(nodes[p]) \in Nat
           /\ nodes[p][Min(Known(p))] \in Node
  <1>1. nodes[p] \in Seq(Node)
    BY DEF MastersOK
  <1>2. Known(p) \subseteq Nat /\ Known(p) \subseteq 1..Len(nodes[p])
    BY <1>1 DEF Known
  <1>3. PICK x \in Known(p) : \A y \in Known(p) : <<y, x>> \notin OpToRel(<, Nat)
    BY <1>2, NatLessThanWellFounded, WFMin
  <1>4. \A y \in Known(p) : x <= y
    <2>1. \A a, b \in Nat : a < b => <<a, b>> \in OpToRel(<, Nat)
      BY Zenon DEF OpToRel
    <2>2. x \in Nat
      BY <1>2
    <2> TAKE y \in Known(p)
    <2>3. y \in Nat /\ ~(y < x)
      BY <1>2, <1>3, <2>1, <2>2
    <2> QED
      BY <2>2, <2>3
  <1>5. Min(Known(p)) \in Known(p)
    BY <1>4 DEF Min
  <1> QED
    BY <1>1, <1>2, <1>5

RestoreShared == shared # <<>> /\ shared' = Tail(shared) /\ Free(shared[1]) /\ UNCHANGED nodes

LEMMA TailTyped ==
    ASSUME MastersOK, shared # <<>>
    PROVE  Tail(shared) \in Seq(1..Len(infos))
  BY DEF MastersOK

LEMMA RestoreInv ==
    ASSUME MastersOK, NEW p \in Procs, restore_page(p)
    PROVE  MastersOK' /\ Len(infos') = Len(infos) /\ mem' \in Data
  <1> DEFINE at == Min(Known(p))
             i == nodes[p][at].info
             new == SubSeq(nodes[p], 1, at - 1) \o SubSeq(nodes[p], at + 1, Len(nodes[p]))
  <1>1. at \in 1..Len(nodes[p]) /\ Len(nodes[p]) \in Nat /\ i \in 1..Len(infos)
    BY FirstKnown DEF Node, restore_page
  <1>2. infos' \in Seq(Info) /\ Len(infos') = Len(infos)
    BY <1>1, FreeInv DEF restore_page
  <1>3. shared' \in Seq(1..Len(infos'))
    BY <1>2, TailTyped DEF restore_page, MastersOK
  <1>4. new \in Seq(Node)
    <2>1. nodes[p] \in Seq(Node)
      BY DEF MastersOK
    <2> HIDE DEF at
    <2>2. SubSeq(nodes[p], 1, at - 1) \in Seq(Node)
      BY <1>1, <2>1, SubSeqProperties
    <2>3. SubSeq(nodes[p], at + 1, Len(nodes[p])) \in Seq(Node)
      BY <1>1, <2>1, SubSeqProperties
    <2> QED
      BY <2>2, <2>3, ConcatProperties
  <1>5. nodes' = [nodes EXCEPT ![p] = new]
    BY DEF restore_page
  <1>7. mem' \in Data
    <2>1. infos \in [1..Len(infos) -> Info] /\ mem' = infos[i].data
      BY DEF MastersOK, restore_page
    <2> HIDE DEF i
    <2> QED
      BY <1>1, <2>1 DEF Info
  <1>6. Node' = Node
    BY <1>2 DEF Node
  <1> HIDE DEF new
  <1> QED
    BY <1>2, <1>3, <1>4, <1>5, <1>6, <1>7 DEF MastersOK

LEMMA RestoreSharedInv ==
    ASSUME MastersOK, RestoreShared
    PROVE  MastersOK' /\ Len(infos') = Len(infos)
  <1>1. shared[1] \in 1..Len(infos)
    BY DEF MastersOK, RestoreShared
  <1>2. infos' \in Seq(Info) /\ Len(infos') = Len(infos)
    BY <1>1, FreeInv DEF RestoreShared
  <1>3. Node' = Node
    BY <1>2 DEF Node
  <1> QED
    BY <1>2, <1>3, TailTyped DEF RestoreShared, MastersOK
-----------------------------------------------------------------------------
(* What a process does, step by step.                                      *)

LEMMA JobFields ==
    ASSUME Types, NEW p \in Procs
    PROVE  /\ job[p].pc \in {"user", "killed", "fetch", "unknown", "fetched", "close", "write",
                             "trap", "search"}
           /\ job[p].pc \in {"fetch", "unknown", "fetched", "close", "trap", "search"} =>
                job[p].block \in Blocks
           /\ job[p].pc \in {"fetched", "close"} =>
                /\ job[p].data \in Data
                /\ job[p] = [pc |-> job[p].pc, block |-> job[p].block, data |-> job[p].data]
           /\ job[p].pc = "killed" => job[p].by \in Reasons
           /\ job[p].pc = "write" => job[p].version \in Versions
           /\ job[p].pc \in {"trap", "search"} =>
                /\ job[p].info \in Infos /\ job[p].fetched \in BOOLEAN
                /\ job[p].info \in 1..Len(infos)
                /\ job[p] = [pc |-> job[p].pc, block |-> job[p].block, info |-> job[p].info,
                             fetched |-> job[p].fetched]
  <1>1. job[p] \in Jobs /\ (job[p].pc \in {"trap", "search"} => job[p].info \in 1..Len(infos))
    BY DEF Types, JobsOK
  <1> QED
    BY <1>1 DEF Jobs, User, Killed

\* A process goes to its next step, and the mutex with it.
LEMMA GotoInv ==
    ASSUME Types, NEW p \in Procs, NEW j \in Jobs, Goto(p, j), stores' \in Versions,
           Len(infos') \in Nat, Len(infos) <= Len(infos'),
           j.pc \in {"trap", "search"} => j.info \in 1..Len(infos'),
           mutex' \in Procs \cup {NoProc},
           j.pc \in {"fetched", "close", "search"} <=> mutex' = p,
           \A q \in Procs : q # p => (mutex' = q <=> mutex = q)
    PROVE  /\ JobsOK' /\ LockOK'
           /\ job'[p] = j /\ \A q \in Procs : q # p => job'[q] = job[q]
  <1>1. job'[p] = j /\ \A q \in Procs : q # p => job'[q] = job[q]
    BY DEF Types, JobsOK, Goto
  <1>2. job' \in [Procs -> Jobs]
    BY DEF Types, JobsOK, Goto
  <1>3. \A q \in Procs : job'[q].pc \in {"trap", "search"} => job'[q].info \in 1..Len(infos')
    <2> TAKE q \in Procs
    <2>1. CASE q = p
      BY <1>1, <2>1
    <2>2. CASE q # p
      <3>1. job[q].pc \in {"trap", "search"} => job[q].info \in 1..Len(infos)
        BY DEF Types, JobsOK
      <3>2. Len(infos) \in Nat
        BY DEF Types, MastersOK
      <3> QED
        BY <1>1, <2>2, <3>1, <3>2
    <2> QED
      BY <2>1, <2>2
  <1>4. JobsOK'
    BY <1>2, <1>3 DEF JobsOK
  <1>5. LockOK'
    BY <1>1 DEF Types, LockOK
  <1> QED
    BY <1>1, <1>4, <1>5

\* The rest of the state, put together.
LEMMA TypesFrom ==
    ASSUME Types, UNCHANGED mapping, TablesOK', MastersOK', JobsOK', LockOK',
           mem' \in Data, checked' \subseteq Blocks \X (Versions \cup {Filler, Garbage})
    PROVE  Types'
  BY DEF Types, mapping

LEMMA Records ==
    /\ User \in Jobs /\ User.pc = "user"
    /\ \A why \in Reasons : Killed(why) \in Jobs /\ Killed(why).pc = "killed" /\ Killed(why).by = why
    /\ {"unregistered", "registered", "trap", "copy"} = Reasons
    /\ \A b \in Blocks : [pc |-> "fetch", block |-> b] \in Jobs
                         /\ [pc |-> "unknown", block |-> b] \in Jobs
    /\ \A b \in Blocks, d \in Data : [pc |-> "fetched", block |-> b, data |-> d] \in Jobs
                                     /\ [pc |-> "close", block |-> b, data |-> d] \in Jobs
    /\ \A v \in Versions : [pc |-> "write", version |-> v] \in Jobs
    /\ \A b \in Blocks, i \in Infos, f \in BOOLEAN :
         /\ [pc |-> "trap", block |-> b, info |-> i, fetched |-> f] \in Jobs
         /\ [pc |-> "search", block |-> b, info |-> i, fetched |-> f] \in Jobs
  BY DEF Jobs, User, Killed, Reasons

LEMMA InfosLen ==
    ASSUME MastersOK
    PROVE  Len(infos) \in Nat /\ DOMAIN infos = 1..Len(infos) /\ Len(infos) <= MaxInfos
  BY DEF MastersOK

LEMMA MastersSame ==
    ASSUME MastersOK, UNCHANGED masters
    PROVE  MastersOK' /\ Len(infos) \in Nat /\ Len(infos') = Len(infos)
  <1>1. Node' = Node /\ Len(infos') = Len(infos)
    BY DEF masters, Node
  <1> QED
    BY <1>1 DEF MastersOK, masters

LEMMA FetchFaultTypes ==
    ASSUME Types, WriteOK, NEW p \in Procs, FetchFault(p)
    PROVE  Types' /\ WriteOK'
  <1> USE DEF FetchFault
  <1> USE Constants
  <1>1. MastersOK' /\ Len(infos) \in Nat /\ Len(infos') \in Nat /\ Len(infos) <= Len(infos')
    BY MastersSame DEF Types
  <1>2. JobsOK' /\ LockOK'
    <2> PICK b \in Blocks : Goto(p, [pc |-> "fetch", block |-> b])
      OBVIOUS
    <2> DEFINE j == [pc |-> "fetch", block |-> b]
    <2>1. j \in Jobs
      BY Records
    <2>2. Goto(p, j)
      OBVIOUS
    <2> QED
      BY <1>1, <2>1, <2>2, GotoInv, Records, JobFields DEF Types, LockOK, JobsOK
  <1>3. mem' \in Data /\ checked' \subseteq Blocks \X (Versions \cup {Filler, Garbage})
    BY DEF Types
  <1>4. TablesOK' /\ WriteOK' /\ UNCHANGED mapping
    <2>1. TableStep(p) /\ UNCHANGED mapping
      BY DEF TableStep, Keep
    <2> QED
      BY <2>1, TableInv
  <1> QED
    BY <1>1, <1>2, <1>3, <1>4, TypesFrom

LEMMA FetchAttachTypes ==
    ASSUME Types, WriteOK, NEW p \in Procs, FetchAttach(p)
    PROVE  Types' /\ WriteOK'
  <1> USE DEF FetchAttach
  <1> USE Constants
  <1>1. MastersOK' /\ Len(infos) \in Nat /\ Len(infos') \in Nat /\ Len(infos) <= Len(infos')
    BY AttachInv DEF Types, MastersOK
  <1>2. JobsOK' /\ LockOK'
    <2> DEFINE j == User
    <2>1. j \in Jobs
      BY Records, JobFields
    <2>2. Goto(p, j)
      OBVIOUS
    <2> QED
      BY <1>1, <2>1, <2>2, GotoInv, Records, JobFields DEF Types, LockOK, JobsOK, User
  <1>3. mem' \in Data /\ checked' \subseteq Blocks \X (Versions \cup {Filler, Garbage})
    BY DEF Types
  <1>4. TablesOK' /\ WriteOK' /\ UNCHANGED mapping
    <2>1. TableStep(p) /\ UNCHANGED mapping
      BY DEF TableStep, Keep
    <2> QED
      BY <2>1, TableInv
  <1> QED
    BY <1>1, <1>2, <1>3, <1>4, TypesFrom

LEMMA FetchCopyTypes ==
    ASSUME Types, WriteOK, NEW p \in Procs, FetchCopy(p)
    PROVE  Types' /\ WriteOK'
  <1> USE DEF FetchCopy
  <1> USE Constants
  <1>1. MastersOK' /\ Len(infos) \in Nat /\ Len(infos') \in Nat /\ Len(infos) <= Len(infos')
    BY MastersSame DEF Types
  <1>2. JobsOK' /\ LockOK'
    <2> DEFINE j == [pc |-> "fetched", block |-> job[p].block, data |-> mem]
    <2>1. j \in Jobs
      BY Records, JobFields DEF Types
    <2>2. Goto(p, j)
      OBVIOUS
    <2> QED
      BY <1>1, <2>1, <2>2, GotoInv, Records, JobFields DEF Types, LockOK, JobsOK, Lock
  <1>3. mem' \in Data /\ checked' \subseteq Blocks \X (Versions \cup {Filler, Garbage})
    BY DEF Types
  <1>4. TablesOK' /\ WriteOK' /\ UNCHANGED mapping
    <2>1. TableStep(p) /\ UNCHANGED mapping
      BY DEF TableStep, Keep
    <2> QED
      BY <2>1, TableInv
  <1> QED
    BY <1>1, <1>2, <1>3, <1>4, TypesFrom

LEMMA FetchRegisterTypes ==
    ASSUME Types, WriteOK, NEW p \in Procs, FetchRegister(p)
    PROVE  Types' /\ WriteOK'
  <1> USE DEF FetchRegister
  <1> USE Constants
  <1>0. /\ job[p].block \in Blocks /\ job[p].data \in Data
        /\ \A b \in Blocks : job[p].data[b] \in Versions \cup {Filler, Garbage}
    BY JobFields DEF Data
  <1>1. MastersOK' /\ Len(infos) \in Nat /\ Len(infos') \in Nat /\ Len(infos) <= Len(infos')
    <2>1. register_shared_page(p, job[p].data) /\ MastersOK
      BY DEF Types
    <2>2. MastersOK' /\ Len(infos') = Len(infos) + 1
      BY <1>0, <2>1, RegisterInv
    <2> QED
      BY <2>1, <2>2, InfosLen
  <1>2. JobsOK' /\ LockOK'
    <2> DEFINE j == [pc |-> "close", block |-> job[p].block, data |-> job[p].data]
    <2>1. j \in Jobs
      BY Records, JobFields
    <2>2. Goto(p, j)
      <3>1. job[p] = [pc |-> job[p].pc, block |-> job[p].block, data |-> job[p].data]
        BY JobFields
      <3>2. [job[p] EXCEPT !.pc = "close"] = j
        BY <3>1
      <3> QED
        BY <3>2
    <2> QED
      BY <1>1, <2>1, <2>2, GotoInv, Records, JobFields DEF Types, LockOK, JobsOK
  <1>3. mem' \in Data /\ checked' \subseteq Blocks \X (Versions \cup {Filler, Garbage})
    BY <1>0 DEF Types
  <1>4. TablesOK' /\ WriteOK' /\ UNCHANGED mapping
    <2>1. TableStep(p) /\ UNCHANGED mapping
      BY DEF TableStep, Keep
    <2> QED
      BY <2>1, TableInv
  <1> QED
    BY <1>1, <1>2, <1>3, <1>4, TypesFrom

LEMMA FetchWholeTypes ==
    ASSUME Types, WriteOK, NEW p \in Procs, FetchWhole(p)
    PROVE  Types' /\ WriteOK'
  <1> USE DEF FetchWhole
  <1> USE Constants
  <1>0. /\ job[p].block \in Blocks /\ job[p].data \in Data
        /\ \A b \in Blocks : job[p].data[b] \in Versions \cup {Filler, Garbage}
    BY JobFields DEF Data
  <1>1. MastersOK' /\ Len(infos) \in Nat /\ Len(infos') \in Nat /\ Len(infos) <= Len(infos')
    BY MastersSame DEF Types
  <1>2. JobsOK' /\ LockOK'
    <2> DEFINE j == User
    <2>1. j \in Jobs
      BY Records, JobFields
    <2>2. Goto(p, j)
      OBVIOUS
    <2> QED
      BY <1>1, <2>1, <2>2, GotoInv, Records, JobFields DEF Types, LockOK, JobsOK, Unlock, User
  <1>3. mem' \in Data /\ checked' \subseteq Blocks \X (Versions \cup {Filler, Garbage})
    BY <1>0 DEF Types
  <1>4. TablesOK' /\ WriteOK' /\ UNCHANGED mapping
    <2>1. TableStep(p) /\ UNCHANGED mapping
      BY DEF TableStep, Keep
    <2> QED
      BY <2>1, TableInv
  <1> QED
    BY <1>1, <1>2, <1>3, <1>4, TypesFrom

LEMMA FetchCloseTypes ==
    ASSUME Types, WriteOK, NEW p \in Procs, FetchClose(p)
    PROVE  Types' /\ WriteOK'
  <1> USE DEF FetchClose
  <1> USE Constants
  <1>0. /\ job[p].block \in Blocks /\ job[p].data \in Data
        /\ \A b \in Blocks : job[p].data[b] \in Versions \cup {Filler, Garbage}
    BY JobFields DEF Data
  <1>1. MastersOK' /\ Len(infos) \in Nat /\ Len(infos') \in Nat /\ Len(infos) <= Len(infos')
    BY MastersSame DEF Types
  <1>2. JobsOK' /\ LockOK'
    <2> DEFINE j == User
    <2>1. j \in Jobs
      BY Records, JobFields
    <2>2. Goto(p, j)
      OBVIOUS
    <2> QED
      BY <1>1, <2>1, <2>2, GotoInv, Records, JobFields DEF Types, LockOK, JobsOK, Unlock, User
  <1>3. mem' \in Data /\ checked' \subseteq Blocks \X (Versions \cup {Filler, Garbage})
    BY <1>0 DEF Types, Data, CloseOuter
  <1>4. TablesOK' /\ WriteOK' /\ UNCHANGED mapping
    <2>1. TableStep(p) /\ UNCHANGED mapping
      BY DEF TableStep, Keep
    <2> QED
      BY <2>1, TableInv
  <1> QED
    BY <1>1, <1>2, <1>3, <1>4, TypesFrom

LEMMA FetchFailsTypes ==
    ASSUME Types, WriteOK, NEW p \in Procs, FetchFails(p)
    PROVE  Types' /\ WriteOK'
  <1> USE DEF FetchFails
  <1> USE Constants
  <1>1. MastersOK' /\ Len(infos) \in Nat /\ Len(infos') \in Nat /\ Len(infos) <= Len(infos')
    BY MastersSame DEF Types
  <1>2. JobsOK' /\ LockOK'
    <2> DEFINE why == IF job[p].pc = "close" THEN "registered" ELSE "unregistered"
               j == Killed(why)
    <2>1. j \in Jobs /\ j.pc = "killed"
      BY Records
    <2>2. Goto(p, j)
      OBVIOUS
    <2> QED
      BY <1>1, <2>1, <2>2, GotoInv, Records, JobFields DEF Types, LockOK, JobsOK, Unlock
  <1>3. mem' \in Data /\ checked' \subseteq Blocks \X (Versions \cup {Filler, Garbage})
    BY DEF Types
  <1>4. TablesOK' /\ WriteOK' /\ UNCHANGED mapping
    <2>1. TableStep(p) /\ UNCHANGED mapping
      BY DEF TableStep, Keep
    <2> QED
      BY <2>1, TableInv
  <1> QED
    BY <1>1, <1>2, <1>3, <1>4, TypesFrom

LEMMA TrapFoundTypes ==
    ASSUME Types, WriteOK, NEW p \in Procs, TrapFound(p)
    PROVE  Types' /\ WriteOK'
  <1> USE DEF TrapFound
  <1> USE Constants
  <1>1. MastersOK' /\ Len(infos) \in Nat /\ Len(infos') \in Nat /\ Len(infos) <= Len(infos')
    BY MastersSame DEF Types
  <1>2. JobsOK' /\ LockOK'
    <2> PICK b \in Blocks : Goto(p, [pc |-> "trap", block |-> b, info |-> nodes[p][Min(Known(p))].info, fetched |-> TRUE])
      OBVIOUS
    <2> DEFINE j == [pc |-> "trap", block |-> b, info |-> nodes[p][Min(Known(p))].info, fetched |-> TRUE]
    <2>1. j \in Jobs /\ j.info \in 1..Len(infos)
      <3>1. nodes[p][Min(Known(p))].info \in 1..Len(infos) /\ Len(infos) <= MaxInfos
        BY FirstKnown DEF Types, MastersOK, Node
      <3>2. nodes[p][Min(Known(p))].info \in Infos
        BY <1>1, <3>1 DEF Infos
      <3> QED
        BY <3>1, <3>2, Records
    <2>2. Goto(p, j)
      OBVIOUS
    <2> QED
      BY <1>1, <2>1, <2>2, GotoInv, Records, JobFields DEF Types, LockOK, JobsOK
  <1>3. mem' \in Data /\ checked' \subseteq Blocks \X (Versions \cup {Filler, Garbage})
    BY DEF Types
  <1>4. TablesOK' /\ WriteOK' /\ UNCHANGED mapping
    <2>1. TableStep(p) /\ UNCHANGED mapping
      BY DEF TableStep, Keep
    <2> QED
      BY <2>1, TableInv
  <1> QED
    BY <1>1, <1>2, <1>3, <1>4, TypesFrom

LEMMA TrapAttachTypes ==
    ASSUME Types, WriteOK, NEW p \in Procs, TrapAttach(p)
    PROVE  Types' /\ WriteOK'
  <1> USE DEF TrapAttach
  <1> USE Constants
  <1>1. MastersOK' /\ Len(infos) \in Nat /\ Len(infos') \in Nat /\ Len(infos) <= Len(infos')
    BY AttachInv DEF Types, MastersOK
  <1>2. JobsOK' /\ LockOK'
    <2> PICK b \in Blocks : Goto(p, [pc |-> "trap", block |-> b, info |-> shared[1], fetched |-> FALSE])
      OBVIOUS
    <2> DEFINE j == [pc |-> "trap", block |-> b, info |-> shared[1], fetched |-> FALSE]
    <2>1. j \in Jobs /\ j.info \in 1..Len(infos)
      <3>1. shared[1] \in 1..Len(infos) /\ Len(infos) <= MaxInfos
        BY DEF Types, MastersOK
      <3>2. shared[1] \in Infos
        BY <1>1, <3>1 DEF Infos
      <3> QED
        BY <3>1, <3>2, Records
    <2>2. Goto(p, j)
      OBVIOUS
    <2> QED
      BY <1>1, <2>1, <2>2, GotoInv, Records, JobFields DEF Types, LockOK, JobsOK
  <1>3. mem' \in Data /\ checked' \subseteq Blocks \X (Versions \cup {Filler, Garbage})
    BY DEF Types
  <1>4. TablesOK' /\ WriteOK' /\ UNCHANGED mapping
    <2>1. TableStep(p) /\ UNCHANGED mapping
      BY DEF TableStep, Keep
    <2> QED
      BY <2>1, TableInv
  <1> QED
    BY <1>1, <1>2, <1>3, <1>4, TypesFrom

LEMMA TrapUnknownTypes ==
    ASSUME Types, WriteOK, NEW p \in Procs, TrapUnknown(p)
    PROVE  Types' /\ WriteOK'
  <1> USE DEF TrapUnknown
  <1> USE Constants
  <1>1. MastersOK' /\ Len(infos) \in Nat /\ Len(infos') \in Nat /\ Len(infos) <= Len(infos')
    BY MastersSame DEF Types
  <1>2. JobsOK' /\ LockOK'
    <2> PICK b \in Blocks : Goto(p, [pc |-> "unknown", block |-> b])
      OBVIOUS
    <2> DEFINE j == [pc |-> "unknown", block |-> b]
    <2>1. j \in Jobs
      BY Records
    <2>2. Goto(p, j)
      OBVIOUS
    <2> QED
      BY <1>1, <2>1, <2>2, GotoInv, Records, JobFields DEF Types, LockOK, JobsOK
  <1>3. mem' \in Data /\ checked' \subseteq Blocks \X (Versions \cup {Filler, Garbage})
    BY DEF Types
  <1>4. TablesOK' /\ WriteOK' /\ UNCHANGED mapping
    <2>1. TableStep(p) /\ UNCHANGED mapping
      BY DEF TableStep, Keep
    <2> QED
      BY <2>1, TableInv
  <1> QED
    BY <1>1, <1>2, <1>3, <1>4, TypesFrom

LEMMA TrapRegisterTypes ==
    ASSUME Types, WriteOK, NEW p \in Procs, TrapRegister(p)
    PROVE  Types' /\ WriteOK'
  <1> USE DEF TrapRegister
  <1> USE Constants
  <1>0. Len(infos) + 1 \in Infos /\ Len(infos') = Len(infos) + 1
    <2>1. register_shared_page(p, mem) /\ mem \in Data /\ MastersOK
      BY DEF Types
    <2>2. Len(infos) < MaxInfos /\ Len(infos) \in Nat
      BY DEF register_shared_page, Types, MastersOK
    <2>3. Len(infos') = Len(infos) + 1
      BY <2>1, RegisterInv
    <2> QED
      BY <2>2, <2>3 DEF Infos
  <1>1. MastersOK' /\ Len(infos) \in Nat /\ Len(infos') \in Nat /\ Len(infos) <= Len(infos')
    <2>1. register_shared_page(p, mem) /\ mem \in Data /\ MastersOK
      BY DEF Types
    <2>2. MastersOK' /\ Len(infos') = Len(infos) + 1
      BY <1>0, <2>1, RegisterInv
    <2> QED
      BY <2>1, <2>2, InfosLen
  <1>2. JobsOK' /\ LockOK'
    <2> DEFINE j == [pc |-> "search", block |-> job[p].block, info |-> Len(infos) + 1, fetched |-> FALSE]
    <2>1. j \in Jobs
      BY <1>0, <1>1, Records, JobFields DEF Infos
    <2>2. Goto(p, j)
      OBVIOUS
    <2> QED
      BY <1>1, <2>1, <2>2, GotoInv, Records, JobFields, RegisterInv, <1>0, SMTT(30) DEF Types, LockOK, JobsOK, Lock
  <1>3. mem' \in Data /\ checked' \subseteq Blocks \X (Versions \cup {Filler, Garbage})
    BY DEF Types, Data
  <1>4. TablesOK' /\ WriteOK' /\ UNCHANGED mapping
    <2>1. TableStep(p) /\ UNCHANGED mapping
      BY DEF TableStep, Keep
    <2> QED
      BY <2>1, TableInv
  <1> QED
    BY <1>1, <1>2, <1>3, <1>4, TypesFrom

LEMMA TrapRefusedTypes ==
    ASSUME Types, WriteOK, NEW p \in Procs, TrapRefused(p)
    PROVE  Types' /\ WriteOK'
  <1> USE DEF TrapRefused
  <1> USE Constants
  <1>1. MastersOK' /\ Len(infos) \in Nat /\ Len(infos') \in Nat /\ Len(infos) <= Len(infos')
    BY MastersSame DEF Types
  <1>2. JobsOK' /\ LockOK'
    <2> DEFINE j == Killed("copy")
    <2>1. j \in Jobs /\ j.pc = "killed"
      BY Records
    <2>2. Goto(p, j)
      OBVIOUS
    <2> QED
      BY <1>1, <2>1, <2>2, GotoInv, Records, JobFields DEF Types, LockOK, JobsOK
  <1>3. mem' \in Data /\ checked' \subseteq Blocks \X (Versions \cup {Filler, Garbage})
    BY DEF Types
  <1>4. TablesOK' /\ WriteOK' /\ UNCHANGED mapping
    <2>1. TableStep(p) /\ UNCHANGED mapping
      BY DEF TableStep, Keep
    <2> QED
      BY <2>1, TableInv
  <1> QED
    BY <1>1, <1>2, <1>3, <1>4, TypesFrom

LEMMA TrapLockTypes ==
    ASSUME Types, WriteOK, NEW p \in Procs, TrapLock(p)
    PROVE  Types' /\ WriteOK'
  <1> USE DEF TrapLock
  <1> USE Constants
  <1>1. MastersOK' /\ Len(infos) \in Nat /\ Len(infos') \in Nat /\ Len(infos) <= Len(infos')
    BY MastersSame DEF Types
  <1>2. JobsOK' /\ LockOK'
    <2> DEFINE j == [pc |-> "search", block |-> job[p].block, info |-> job[p].info, fetched |-> job[p].fetched]
    <2>1. j \in Jobs
      BY Records, JobFields
    <2>2. Goto(p, j)
      <3>1. job[p] = [pc |-> job[p].pc, block |-> job[p].block, info |-> job[p].info,
                      fetched |-> job[p].fetched]
        BY JobFields
      <3>2. [job[p] EXCEPT !.pc = "search"] = j
        BY <3>1
      <3> QED
        BY <3>2
    <2> QED
      BY <1>1, <2>1, <2>2, GotoInv, Records, JobFields DEF Types, LockOK, JobsOK, Lock
  <1>3. mem' \in Data /\ checked' \subseteq Blocks \X (Versions \cup {Filler, Garbage})
    BY DEF Types
  <1>4. TablesOK' /\ WriteOK' /\ UNCHANGED mapping
    <2>1. TableStep(p) /\ UNCHANGED mapping
      BY DEF TableStep, Keep
    <2> QED
      BY <2>1, TableInv
  <1> QED
    BY <1>1, <1>2, <1>3, <1>4, TypesFrom

LEMMA TrapOpenTypes ==
    ASSUME Types, WriteOK, NEW p \in Procs, TrapOpen(p)
    PROVE  Types' /\ WriteOK'
  <1> USE DEF TrapOpen
  <1> USE Constants
  <1>0. job[p].block \in Blocks /\ infos[job[p].info].data \in Data
    <2>1. job[p].info \in 1..Len(infos) /\ job[p].block \in Blocks
      BY JobFields
    <2>2. infos \in [1..Len(infos) -> Info]
      BY DEF Types, MastersOK
    <2> QED
      BY <2>1, <2>2 DEF Info
  <1>1. MastersOK' /\ Len(infos) \in Nat /\ Len(infos') \in Nat /\ Len(infos) <= Len(infos')
    BY MastersSame DEF Types
  <1>2. JobsOK' /\ LockOK'
    <2> DEFINE j == User
    <2>1. j \in Jobs
      BY Records, JobFields
    <2>2. Goto(p, j)
      OBVIOUS
    <2> QED
      BY <1>1, <2>1, <2>2, GotoInv, Records, JobFields DEF Types, LockOK, JobsOK, Unlock, User
  <1>3. mem' \in Data /\ checked' \subseteq Blocks \X (Versions \cup {Filler, Garbage})
    BY <1>0 DEF Types, Data
  <1>4. TablesOK' /\ WriteOK' /\ UNCHANGED mapping
    <2>1. TableStep(p) /\ UNCHANGED mapping
      BY DEF TableStep, Keep
    <2> QED
      BY <2>1, TableInv
  <1> QED
    BY <1>1, <1>2, <1>3, <1>4, TypesFrom

LEMMA TrapNothingTypes ==
    ASSUME Types, WriteOK, NEW p \in Procs, TrapNothing(p)
    PROVE  Types' /\ WriteOK'
  <1> USE DEF TrapNothing
  <1> USE Constants
  <1>1. MastersOK' /\ Len(infos) \in Nat /\ Len(infos') \in Nat /\ Len(infos) <= Len(infos')
    BY MastersSame DEF Types
  <1>2. JobsOK' /\ LockOK'
    <2> DEFINE j == Killed("copy")
    <2>1. j \in Jobs /\ j.pc = "killed"
      BY Records
    <2>2. Goto(p, j)
      OBVIOUS
    <2> QED
      BY <1>1, <2>1, <2>2, GotoInv, Records, JobFields DEF Types, LockOK, JobsOK, Unlock
  <1>3. mem' \in Data /\ checked' \subseteq Blocks \X (Versions \cup {Filler, Garbage})
    BY DEF Types
  <1>4. TablesOK' /\ WriteOK' /\ UNCHANGED mapping
    <2>1. TableStep(p) /\ UNCHANGED mapping
      BY DEF TableStep, Keep
    <2> QED
      BY <2>1, TableInv
  <1> QED
    BY <1>1, <1>2, <1>3, <1>4, TypesFrom

LEMMA TrapRestoreTypes ==
    ASSUME Types, WriteOK, NEW p \in Procs, TrapRestore(p)
    PROVE  Types' /\ WriteOK'
  <1> USE DEF TrapRestore
  <1> USE Constants
  <1>0. job[p].block \in Blocks /\ infos[job[p].info].data \in Data
    <2>1. job[p].info \in 1..Len(infos) /\ job[p].block \in Blocks
      BY JobFields
    <2>2. infos \in [1..Len(infos) -> Info]
      BY DEF Types, MastersOK
    <2> QED
      BY <2>1, <2>2 DEF Info
  <1>1. /\ MastersOK' /\ Len(infos) \in Nat /\ Len(infos') \in Nat /\ Len(infos) <= Len(infos')
        /\ mem' \in Data
    <2>1. MastersOK' /\ Len(infos') = Len(infos) /\ mem' \in Data
      BY RestoreInv DEF Types
    <2> QED
      BY <2>1, InfosLen
  <1>2. JobsOK' /\ LockOK'
    <2> DEFINE j == User
    <2>1. j \in Jobs
      BY Records, JobFields
    <2>2. Goto(p, j)
      OBVIOUS
    <2> QED
      BY <1>1, <2>1, <2>2, GotoInv, Records, JobFields DEF Types, LockOK, JobsOK, Unlock, User
  <1>3. mem' \in Data /\ checked' \subseteq Blocks \X (Versions \cup {Filler, Garbage})
    BY <1>0, <1>1 DEF Types, Data
  <1>4. TablesOK' /\ WriteOK' /\ UNCHANGED mapping
    <2>1. TableStep(p) /\ UNCHANGED mapping
      BY DEF TableStep, Keep
    <2> QED
      BY <2>1, TableInv
  <1> QED
    BY <1>1, <1>2, <1>3, <1>4, TypesFrom

LEMMA TrapFailsTypes ==
    ASSUME Types, WriteOK, NEW p \in Procs, TrapFails(p)
    PROVE  Types' /\ WriteOK'
  <1> USE DEF TrapFails
  <1> USE Constants
  <1>1. MastersOK' /\ Len(infos) \in Nat /\ Len(infos') \in Nat /\ Len(infos) <= Len(infos')
    BY MastersSame DEF Types
  <1>2. JobsOK' /\ LockOK'
    <2> DEFINE j == Killed("trap")
    <2>1. j \in Jobs /\ j.pc = "killed"
      BY Records
    <2>2. Goto(p, j)
      OBVIOUS
    <2> QED
      BY <1>1, <2>1, <2>2, GotoInv, Records, JobFields DEF Types, LockOK, JobsOK, Unlock
  <1>3. mem' \in Data /\ checked' \subseteq Blocks \X (Versions \cup {Filler, Garbage})
    BY DEF Types
  <1>4. TablesOK' /\ WriteOK' /\ UNCHANGED mapping
    <2>1. TableStep(p) /\ UNCHANGED mapping
      BY DEF TableStep, Keep
    <2> QED
      BY <2>1, TableInv
  <1> QED
    BY <1>1, <1>2, <1>3, <1>4, TypesFrom

LEMMA StoreTypes ==
    ASSUME Types, WriteOK, NEW p \in Procs, Store(p)
    PROVE  Types' /\ WriteOK'
  <1>1. MastersOK' /\ Len(infos') = Len(infos)
    BY MastersSame DEF Types, Store
  <1>2. JobsOK' /\ LockOK'
    BY <1>1, Constants DEF Store, Types, JobsOK, LockOK, Versions
  <1>3. mem' \in Data /\ checked' \subseteq Blocks \X (Versions \cup {Filler, Garbage})
    BY Constants DEF Store, Types, JobsOK, Data, Versions
  <1>4. TablesOK' /\ WriteOK' /\ UNCHANGED mapping
    <2>1. TableStep(p) /\ UNCHANGED mapping
      BY DEF TableStep, Keep, Store
    <2> QED
      BY <2>1, TableInv
  <1> QED
    BY <1>1, <1>2, <1>3, <1>4, TypesFrom

LEMMA StoreAgainTypes ==
    ASSUME Types, WriteOK, NEW p \in Procs, StoreAgain(p)
    PROVE  Types' /\ WriteOK'
  <1> USE DEF StoreAgain
  <1> USE Constants
  <1>1. MastersOK' /\ Len(infos) \in Nat /\ Len(infos') \in Nat /\ Len(infos) <= Len(infos')
    BY MastersSame DEF Types
  <1>2. JobsOK' /\ LockOK'
    <2> DEFINE j == User
    <2>1. j \in Jobs
      BY Records, JobFields
    <2>2. Goto(p, j)
      OBVIOUS
    <2> QED
      BY <1>1, <2>1, <2>2, GotoInv, Records, JobFields DEF Types, LockOK, JobsOK, User
  <1>3. mem' \in Data /\ checked' \subseteq Blocks \X (Versions \cup {Filler, Garbage})
    BY JobFields DEF Types, Data
  <1>4. TablesOK' /\ WriteOK' /\ UNCHANGED mapping
    <2>1. TableStep(p) /\ UNCHANGED mapping
      BY DEF TableStep, Keep
    <2> QED
      BY <2>1, TableInv
  <1> QED
    BY <1>1, <1>2, <1>3, <1>4, TypesFrom

LEMMA FaultPlainTypes ==
    ASSUME Types, WriteOK, NEW p \in Procs, FaultPlain(p)
    PROVE  Types' /\ WriteOK'
  <1> USE DEF FaultPlain
  <1> USE Constants
  <1>0. stores + 1 \in Versions /\ stores' = stores + 1
    BY DEF Grant, WriteFault, Types, JobsOK, Versions
  <1>1. MastersOK' /\ Len(infos) \in Nat /\ Len(infos') \in Nat /\ Len(infos) <= Len(infos')
    BY MastersSame DEF Types
  <1>2. JobsOK' /\ LockOK'
    <2> DEFINE j == [pc |-> "write", version |-> stores + 1]
    <2>1. j \in Jobs
      BY <1>0, Records
    <2>2. Goto(p, j)
      BY DEF Grant
    <2> QED
      BY <1>0, <1>1, <2>1, <2>2, GotoInv, Records, JobFields DEF Types, LockOK, JobsOK, Grant, WriteFault
  <1>3. mem' \in Data /\ checked' \subseteq Blocks \X (Versions \cup {Filler, Garbage})
    BY DEF Types
  <1>4. TablesOK' /\ WriteOK' /\ UNCHANGED mapping
    <2>1. TableStep(p) /\ UNCHANGED mapping
      BY DEF TableStep, Grant, GrantBits, WriteFault
    <2> QED
      BY <2>1, TableInv
  <1> QED
    BY <1>1, <1>2, <1>3, <1>4, TypesFrom

LEMMA FaultRestoreTypes ==
    ASSUME Types, WriteOK, NEW p \in Procs, FaultRestore(p)
    PROVE  Types' /\ WriteOK'
  <1> USE DEF FaultRestore
  <1> USE Constants
  <1>0. stores + 1 \in Versions /\ stores' = stores + 1
    BY DEF Grant, WriteFault, Types, JobsOK, Versions
  <1>1. /\ MastersOK' /\ Len(infos) \in Nat /\ Len(infos') \in Nat /\ Len(infos) <= Len(infos')
        /\ mem' \in Data
    <2>1. MastersOK' /\ Len(infos') = Len(infos) /\ mem' \in Data
      BY RestoreInv DEF Types
    <2> QED
      BY <2>1, InfosLen
  <1>2. JobsOK' /\ LockOK'
    <2> DEFINE j == [pc |-> "write", version |-> stores + 1]
    <2>1. j \in Jobs
      BY <1>0, Records
    <2>2. Goto(p, j)
      BY DEF Grant
    <2> QED
      BY <1>0, <1>1, <2>1, <2>2, GotoInv, Records, JobFields DEF Types, LockOK, JobsOK, Grant, WriteFault
  <1>3. mem' \in Data /\ checked' \subseteq Blocks \X (Versions \cup {Filler, Garbage})
    BY <1>1 DEF Types
  <1>4. TablesOK' /\ WriteOK' /\ UNCHANGED mapping
    <2>1. TableStep(p) /\ UNCHANGED mapping
      BY DEF TableStep, Grant, GrantBits, WriteFault
    <2> QED
      BY <2>1, TableInv
  <1> QED
    BY <1>1, <1>2, <1>3, <1>4, TypesFrom

LEMMA FaultRestoreSharedTypes ==
    ASSUME Types, WriteOK, NEW p \in Procs, FaultRestoreShared(p)
    PROVE  Types' /\ WriteOK'
  <1> USE DEF FaultRestoreShared
  <1> USE Constants
  <1>0. stores + 1 \in Versions /\ stores' = stores + 1
    BY DEF Grant, WriteFault, Types, JobsOK, Versions
  <1>5. infos[shared[1]].data \in Data
    <2>1. shared[1] \in 1..Len(infos)
      BY DEF Types, MastersOK
    <2>2. infos \in [1..Len(infos) -> Info]
      BY DEF Types, MastersOK
    <2> QED
      BY <2>1, <2>2 DEF Info
  <1>1. MastersOK' /\ Len(infos) \in Nat /\ Len(infos') \in Nat /\ Len(infos) <= Len(infos')
    <2>1. RestoreShared
      BY DEF RestoreShared
    <2> QED
      BY <2>1, RestoreSharedInv DEF Types, MastersOK
  <1>2. JobsOK' /\ LockOK'
    <2> DEFINE j == [pc |-> "write", version |-> stores + 1]
    <2>1. j \in Jobs
      BY <1>0, Records
    <2>2. Goto(p, j)
      BY DEF Grant
    <2> QED
      BY <1>0, <1>1, <2>1, <2>2, GotoInv, Records, JobFields DEF Types, LockOK, JobsOK, Grant, WriteFault
  <1>3. mem' \in Data /\ checked' \subseteq Blocks \X (Versions \cup {Filler, Garbage})
    BY <1>5 DEF Types, Data
  <1>4. TablesOK' /\ WriteOK' /\ UNCHANGED mapping
    <2>1. TableStep(p) /\ UNCHANGED mapping
      BY DEF TableStep, Grant, GrantBits, WriteFault
    <2> QED
      BY <2>1, TableInv
  <1> QED
    BY <1>1, <1>2, <1>3, <1>4, TypesFrom

LEMMA ForkTypes ==
    ASSUME Types, WriteOK, NEW p \in Procs, Fork(p)
    PROVE  Types' /\ WriteOK'
  <1>1. MastersOK' /\ Len(infos') = Len(infos)
    BY MastersSame DEF Types, Fork
  <1>2. JobsOK' /\ LockOK'
    BY <1>1 DEF Fork, Types, JobsOK, LockOK
  <1>3. TablesOK' /\ WriteOK' /\ UNCHANGED mapping
    <2>1. TableStep(p) /\ UNCHANGED mapping
      BY DEF TableStep, Fork
    <2> QED
      BY <2>1, TableInv
  <1> QED
    BY <1>1, <1>2, <1>3, TypesFrom DEF Fork, Types
-----------------------------------------------------------------------------
(* A mapping nobody can write.                                             *)

\* The nodes of a process, one of them new in front, lead to the first copy.
LEMMA MoreNodes ==
    ASSUME NEW p \in Procs, NEW S, NEW T, nodes[p] \in Seq(S), nodes'[p] \in Seq(T),
           \A q \in Procs : \A k \in DOMAIN nodes[q] : nodes[q][k].info = 1,
           Len(nodes'[p]) = Len(nodes[p]) + 1, nodes'[p][1].info = 1,
           \A k \in DOMAIN nodes[p] : nodes'[p][k + 1] = nodes[p][k],
           \A q \in Procs : q # p => nodes'[q] = nodes[q]
    PROVE  \A q \in Procs : \A k \in DOMAIN nodes'[q] : nodes'[q][k].info = 1
  <1> DEFINE n == Len(nodes[p])
  <1>1. n \in Nat /\ DOMAIN nodes[p] = 1..n /\ DOMAIN nodes'[p] = 1..(n + 1)
    OBVIOUS
  <1> TAKE q \in Procs
  <1> TAKE k \in DOMAIN nodes'[q]
  <1>2. CASE q = p
    <2>1. CASE k = 1
      BY <1>2, <2>1
    <2>2. CASE k # 1
      <3>1. k - 1 \in DOMAIN nodes[p] /\ (k - 1) + 1 = k
        BY <1>1, <1>2, <2>2
      <3> QED
        BY <1>2, <3>1
    <2> QED
      BY <2>1, <2>2
  <1>3. CASE q # p
    BY <1>3
  <1> QED
    BY <1>2, <1>3

\* A process that was killed by its check stays so.
LEMMA RefusedStays ==
    ASSUME Types, NEW p \in Procs, NEW j, Goto(p, j), job[p].pc # "killed", Refused
    PROVE  Refused'
  <1>1. PICK q \in Procs : job[q] = Killed("registered")
    BY DEF Refused
  <1>2. q # p
    BY <1>1 DEF Killed
  <1>3. job'[q] = job[q]
    BY <1>2 DEF Goto, Types, JobsOK
  <1> QED
    BY <1>1, <1>3 DEF Refused, Killed

\* Only a process at a step of a handler changes.
LEMMA ReadOnlyJob ==
    ASSUME Types, ReadOnly, NEW p \in Procs, NEW j, Goto(p, j), job[p].pc # "killed",
           Unregistered => j.pc \in {"user", "fetch", "fetched"} \/ j = Killed("unregistered"),
           Registered => /\ \/ j.pc \in {"user", "fetch", "close", "trap", "search"}
                            \/ j.pc = "killed" /\ j.by # "copy"
                         /\ job[p].pc = "close" => j = Killed("registered"),
           j.pc \in {"fetched", "close"} => j.data = Text,
           \A q \in Procs : Denied(q)' = Denied(q), UNCHANGED <<masters, mem, checked>>
    PROVE  ReadOnly'
  <1>1. job'[p] = j /\ \A q \in Procs : q # p => job'[q] = job[q]
    BY DEF Goto, Types, JobsOK
  <1>2. UNCHANGED <<infos, shared, nodes>> /\ Text' = Text
    BY DEF masters, Text
  <1>3. (AllChecked <=> AllChecked') /\ (OpenChecked <=> OpenChecked')
    BY DEF AllChecked, OpenChecked
  <1>4. Unregistered => Unregistered'
    <2> SUFFICES ASSUME Unregistered PROVE Unregistered'
      OBVIOUS
    <2>1. \A q \in Procs : job'[q].pc \in {"user", "fetch", "fetched"} \/ job'[q] = Killed("unregistered")
      BY <1>1 DEF Unregistered
    <2> QED
      BY <1>2, <1>3, <2>1 DEF Unregistered, Killed
  <1>5. Registered => Registered'
    <2> SUFFICES ASSUME Registered PROVE Registered'
      OBVIOUS
    <2>1. \A q \in Procs : \/ job'[q].pc \in {"user", "fetch", "close", "trap", "search"}
                           \/ job'[q].pc = "killed" /\ job'[q].by # "copy"
      BY <1>1 DEF Registered
    <2>2. \/ Refused' \/ OpenChecked'
          \/ (\E q \in Procs : job'[q].pc = "close") /\ \A q \in Procs : Denied(q)'
      <3>1. CASE Refused
        BY <3>1, RefusedStays
      <3>2. CASE OpenChecked
        BY <1>3, <3>2
      <3>3. CASE (\E q \in Procs : job[q].pc = "close") /\ \A q \in Procs : Denied(q)
        <4>1. PICK q \in Procs : job[q].pc = "close"
          BY <3>3
        <4>2. CASE q = p
          BY <1>1, <4>1, <4>2 DEF Refused, Killed
        <4>3. CASE q # p
          BY <1>1, <3>3, <4>1, <4>3
        <4> QED
          BY <4>2, <4>3
      <3> QED
        BY <3>1, <3>2, <3>3 DEF Registered
    <2> QED
      BY <1>2, <2>1, <2>2 DEF Registered
  <1>6. \A q \in Procs : job'[q].pc \in {"fetched", "close"} => job'[q].data = Text'
    BY <1>1, <1>2 DEF ReadOnly
  <1> QED
    BY <1>4, <1>5, <1>6 DEF ReadOnly

LEMMA Alone ==
    ASSUME Types, NEW p \in Procs, NEW q \in Procs, job[q].pc \in {"fetched", "close", "search"},
           mutex \in {NoProc, p}
    PROVE  q = p
  BY Constants DEF Types, LockOK

\* While no process is about to check, what stands open was checked.
LEMMA NobodyCloses ==
    ASSUME Registered, \A q \in Procs : job[q].pc # "close"
    PROVE  Refused \/ OpenChecked
  BY DEF Registered

LEMMA FetchFaultReadOnly ==
    ASSUME Types, ReadOnly, NEW p \in Procs, FetchFault(p)
    PROVE  ReadOnly'
  <1>1. PICK b \in Blocks : Goto(p, [pc |-> "fetch", block |-> b])
    BY DEF FetchFault
  <1>2. \A q \in Procs : Denied(q)' = Denied(q)
    BY DEF FetchFault, Denied, Bits
  <1>3. job[p].pc = "user"
    BY DEF FetchFault, User
  <1> QED
    BY <1>1, <1>2, <1>3, ReadOnlyJob DEF FetchFault

LEMMA FetchCopyReadOnly ==
    ASSUME Types, ReadOnly, NEW p \in Procs, FetchCopy(p)
    PROVE  ReadOnly'
  <1> DEFINE j == [pc |-> "fetched", block |-> job[p].block, data |-> mem]
  <1>1. Goto(p, j) /\ j.pc = "fetched" /\ j.data = mem
    BY DEF FetchCopy
  <1>2. \A q \in Procs : Denied(q)' = Denied(q)
    BY DEF FetchCopy, Denied, Bits
  <1>3. Unregistered /\ ~Registered
    BY DEF FetchCopy, ReadOnly, Registered
  <1>4. j.data = Text
    BY <1>1, <1>3 DEF Unregistered
  <1> HIDE DEF j
  <1>5. job[p].pc = "fetch" /\ UNCHANGED <<masters, mem, checked>>
    BY DEF FetchCopy
  <1> QED
    BY <1>1, <1>2, <1>3, <1>4, <1>5, ReadOnlyJob

\* The check of the page fails: before it is registered nothing is left of it,
\* and afterwards all of it, for the next process.
LEMMA FetchFailsReadOnly ==
    ASSUME Types, ReadOnly, NEW p \in Procs, FetchFails(p)
    PROVE  ReadOnly'
  <1> DEFINE j == Killed(IF job[p].pc = "close" THEN "registered" ELSE "unregistered")
  <1>1. Goto(p, j) /\ job[p].pc \in {"fetched", "close"} /\ UNCHANGED <<masters, mem, checked>>
    BY DEF FetchFails
  <1>2. j.pc = "killed" /\ j.by # "copy"
    BY DEF Killed
  <1>3. \A q \in Procs : Denied(q)' = Denied(q)
    BY DEF FetchFails, Denied, Bits
  <1>4. Unregistered => j = Killed("unregistered")
    BY <1>1 DEF Unregistered, Killed
  <1>5. job[p].pc = "close" => j = Killed("registered")
    OBVIOUS
  <1> HIDE DEF j
  <1> QED
    BY <1>1, <1>2, <1>3, <1>4, <1>5, ReadOnlyJob

LEMMA TrapFoundReadOnly ==
    ASSUME Types, ReadOnly, NEW p \in Procs, TrapFound(p)
    PROVE  ReadOnly'
  <1>1. PICK b \in Blocks :
          Goto(p, [pc |-> "trap", block |-> b, info |-> nodes[p][Min(Known(p))].info,
                   fetched |-> TRUE])
    BY DEF TrapFound
  <1>2. \A q \in Procs : Denied(q)' = Denied(q)
    BY DEF TrapFound, Denied, Bits
  <1>3. ~Unregistered
    BY DEF TrapFound, Unregistered, Known
  <1>4. job[p].pc = "user" /\ UNCHANGED <<masters, mem, checked>>
    BY DEF TrapFound, User
  <1> QED
    BY <1>1, <1>2, <1>3, <1>4, ReadOnlyJob

LEMMA TrapLockReadOnly ==
    ASSUME Types, ReadOnly, NEW p \in Procs, TrapLock(p)
    PROVE  ReadOnly'
  <1> DEFINE j == [job[p] EXCEPT !.pc = "search"]
  <1>1. Goto(p, j) /\ j.pc = "search" /\ job[p].pc = "trap"
    <2>1. job[p] = [pc |-> job[p].pc, block |-> job[p].block, info |-> job[p].info,
                    fetched |-> job[p].fetched]
      BY JobFields DEF TrapLock
    <2> QED
      BY <2>1 DEF TrapLock
  <1>2. \A q \in Procs : Denied(q)' = Denied(q)
    BY DEF TrapLock, Denied, Bits
  <1>3. ~Unregistered
    BY <1>1 DEF Unregistered, Killed
  <1>4. UNCHANGED <<masters, mem, checked>>
    BY DEF TrapLock
  <1> HIDE DEF j
  <1> QED
    BY <1>1, <1>2, <1>3, <1>4, ReadOnlyJob

LEMMA TrapFailsReadOnly ==
    ASSUME Types, ReadOnly, NEW p \in Procs, TrapFails(p)
    PROVE  ReadOnly'
  <1> DEFINE j == Killed("trap")
  <1>1. Goto(p, j) /\ job[p].pc = "search" /\ UNCHANGED <<masters, mem, checked>>
    BY DEF TrapFails
  <1>2. j.pc = "killed" /\ j.by # "copy"
    BY DEF Killed
  <1>3. \A q \in Procs : Denied(q)' = Denied(q)
    BY DEF TrapFails, Denied, Bits
  <1>4. ~Unregistered
    BY <1>1 DEF Unregistered, Killed
  <1> HIDE DEF j
  <1> QED
    BY <1>1, <1>2, <1>3, <1>4, ReadOnlyJob

LEMMA ForkReadOnly ==
    ASSUME Types, ReadOnly, NEW p \in Procs, Fork(p)
    PROVE  ReadOnly'
  <1>1. \A q \in Procs : Denied(q)' = Denied(q)
    BY DeniedStep DEF Fork
  <1>2. Text' = Text /\ UNCHANGED <<infos, shared, nodes, mem, job, checked>>
    BY DEF Fork, masters, Text
  <1>3. (AllChecked <=> AllChecked') /\ (OpenChecked <=> OpenChecked') /\ (Refused <=> Refused')
    BY <1>2 DEF AllChecked, OpenChecked, Refused, Killed
  <1>4. (Unregistered => Unregistered') /\ (Registered => Registered')
    BY <1>1, <1>2, <1>3 DEF Unregistered, Registered, Killed
  <1> QED
    BY <1>2, <1>4 DEF ReadOnly

\* A process leaves its handler, and what stands open was checked.
LEMMA Leaves ==
    ASSUME Types, ReadOnly, Registered, NEW p \in Procs, Goto(p, User),
           shared' = << 1 >>, Len(infos') = 1, infos'[1].live, infos'[1].data = Text,
           \A q \in Procs : \A k \in DOMAIN nodes'[q] : nodes'[q][k].info = 1,
           \A b \in Blocks : mem'[b] \in {0, Filler},
           Refused' \/ OpenChecked'
    PROVE  ReadOnly'
  <1>1. job'[p] = User /\ \A q \in Procs : q # p => job'[q] = job[q]
    BY DEF Goto, Types, JobsOK
  <1>2. User.pc = "user" /\ Text' = Text
    BY DEF User, Text
  <1>3. \A q \in Procs : \/ job'[q].pc \in {"user", "fetch", "close", "trap", "search"}
                         \/ job'[q].pc = "killed" /\ job'[q].by # "copy"
    BY <1>1, <1>2 DEF Registered
  <1>4. Registered'
    BY <1>2, <1>3 DEF Registered
  <1>5. \A q \in Procs : job'[q].pc \in {"fetched", "close"} => job'[q].data = Text'
    BY <1>1, <1>2 DEF ReadOnly
  <1> QED
    BY <1>4, <1>5 DEF ReadOnly

\* The node of one more process leads to the copy.
LEMMA AttachOne ==
    ASSUME Types, Registered, NEW p \in Procs, Attach(p)
    PROVE  /\ shared' = << 1 >> /\ Len(infos') = 1
           /\ infos'[1].live /\ infos'[1].data = Text
           /\ \A q \in Procs : \A k \in DOMAIN nodes'[q] : nodes'[q][k].info = 1
  <1>1. MastersOK /\ shared = << 1 >> /\ shared # <<>> /\ shared[1] = 1 /\ Len(infos) = 1
    BY DEF Types, Registered
  <1>2. /\ MastersOK' /\ Len(infos') = Len(infos)
        /\ \A i \in DOMAIN infos :
             infos'[i].data = infos[i].data /\ infos'[i].live = infos[i].live
        /\ Len(nodes'[p]) = Len(nodes[p]) + 1
        /\ nodes'[p][1].info = shared[1]
        /\ \A k \in DOMAIN nodes[p] : nodes'[p][k + 1] = nodes[p][k]
        /\ \A q \in Procs : q # p => nodes'[q] = nodes[q]
    BY <1>1, AttachInv
  <1>3. 1 \in DOMAIN infos
    BY <1>1, InfosLen
  <1>4. \A q \in Procs : \A k \in DOMAIN nodes[q] : nodes[q][k].info = 1
    BY DEF Registered
  <1>5. nodes[p] \in Seq(Node) /\ nodes'[p] \in Seq(Node')
    BY <1>1, <1>2 DEF MastersOK
  <1>6. \A q \in Procs : \A k \in DOMAIN nodes'[q] : nodes'[q][k].info = 1
    BY <1>1, <1>2, <1>4, <1>5, MoreNodes
  <1> QED
    BY <1>1, <1>2, <1>3, <1>6 DEF Attach, Registered

\* The second process is let in as the first one left the page.
LEMMA FetchAttachReadOnly ==
    ASSUME Types, ReadOnly, NEW p \in Procs, FetchAttach(p)
    PROVE  ReadOnly'
  <1>1. Registered /\ Attach(p) /\ Goto(p, User) /\ job[p].pc = "fetch"
    BY DEF FetchAttach, ReadOnly, Unregistered
  <1>2. /\ shared' = << 1 >> /\ Len(infos') = 1
        /\ infos'[1].live /\ infos'[1].data = Text
        /\ \A q \in Procs : \A k \in DOMAIN nodes'[q] : nodes'[q][k].info = 1
    BY <1>1, AttachOne
  <1>3. \A q \in Procs : job[q].pc # "close"
    BY Alone DEF FetchAttach
  <1>4. Refused \/ OpenChecked
    BY <1>1, <1>3, NobodyCloses
  <1>5. mem' = mem /\ checked' = checked
    BY DEF FetchAttach
  <1>6. Refused' \/ OpenChecked'
    <2>1. CASE Refused
      BY <1>1, <2>1, RefusedStays
    <2>2. CASE OpenChecked
      BY <1>5, <2>2 DEF OpenChecked
    <2> QED
      BY <1>4, <2>1, <2>2
  <1>7. \A b \in Blocks : mem'[b] \in {0, Filler}
    BY <1>1, <1>5 DEF Registered
  <1> QED
    BY <1>1, <1>2, <1>6, <1>7, Leaves

LEMMA TrapAttachReadOnly ==
    ASSUME Types, ReadOnly, NEW p \in Procs, TrapAttach(p)
    PROVE  ReadOnly'
  <1>1. Registered /\ Attach(p) /\ Text' = Text
    BY DEF TrapAttach, ReadOnly, Unregistered, Text
  <1>2. /\ shared' = << 1 >> /\ Len(infos') = 1
        /\ infos'[1].live /\ infos'[1].data = Text
        /\ \A q \in Procs : \A k \in DOMAIN nodes'[q] : nodes'[q][k].info = 1
    BY <1>1, AttachOne
  <1>3. PICK b \in Blocks :
          Goto(p, [pc |-> "trap", block |-> b, info |-> shared[1], fetched |-> FALSE])
    BY DEF TrapAttach
  <1>4. job'[p].pc = "trap" /\ \A q \in Procs : q # p => job'[q] = job[q]
    BY <1>3 DEF Goto, Types, JobsOK
  <1>5. \A q \in Procs : Denied(q)' = Denied(q)
    BY DEF TrapAttach, Denied, Bits
  <1>6. mem' = mem /\ checked' = checked /\ job[p].pc = "user"
    BY DEF TrapAttach, User
  <1>7. (OpenChecked <=> OpenChecked') /\ (Refused => Refused')
    <2>1. OpenChecked <=> OpenChecked'
      BY <1>6 DEF OpenChecked
    <2>2. Refused => Refused'
      BY <1>3, <1>6, RefusedStays
    <2> QED
      BY <2>1, <2>2
  <1>8. \/ Refused' \/ OpenChecked'
        \/ (\E q \in Procs : job'[q].pc = "close") /\ \A q \in Procs : Denied(q)'
    BY <1>1, <1>4, <1>5, <1>6, <1>7 DEF Registered
  <1>9. Registered'
    BY <1>1, <1>2, <1>4, <1>6, <1>8 DEF Registered
  <1> QED
    BY <1>1, <1>4, <1>9 DEF ReadOnly

\* The first process registers the page, which only a process that checked the
\* whole of it may execute yet ...
LEMMA FetchRegisterReadOnly ==
    ASSUME Types, ReadOnly, NEW p \in Procs, FetchRegister(p)
    PROVE  ReadOnly'
  <1>1. Unregistered /\ Text' = Text /\ MastersOK
    BY DEF FetchRegister, ReadOnly, Registered, Text, Types
  <1> DEFINE d == job[p].data
  <1>2. d = Text /\ d \in Data
    BY JobFields DEF FetchRegister, ReadOnly
  <1>3. register_shared_page(p, d)
    BY DEF FetchRegister
  <1>4. /\ MastersOK' /\ Len(infos') = Len(infos) + 1
        /\ infos' = Append(infos, [data |-> d, ref_count |-> 1, live |-> TRUE])
        /\ shared' = <<Len(infos) + 1>> \o shared
        /\ Len(nodes'[p]) = Len(nodes[p]) + 1
        /\ nodes'[p][1].info = Len(infos) + 1
        /\ \A k \in DOMAIN nodes[p] : nodes'[p][k + 1] = nodes[p][k]
        /\ \A q \in Procs : q # p => nodes'[q] = nodes[q]
    BY <1>1, <1>2, <1>3, RegisterInv
  <1>5. infos = <<>> /\ shared = <<>> /\ \A q \in Procs : nodes[q] = <<>>
    BY <1>1 DEF Unregistered
  <1>6. /\ shared' = << 1 >> /\ Len(infos') = 1
        /\ infos'[1] = [data |-> d, ref_count |-> 1, live |-> TRUE]
    BY <1>4, <1>5
  <1>7. \A q \in Procs : \A k \in DOMAIN nodes'[q] : nodes'[q][k].info = 1
    <2>1. nodes[p] \in Seq(Node) /\ nodes'[p] \in Seq(Node')
      BY <1>1, <1>4 DEF MastersOK
    <2>2. nodes'[p][1].info = 1
      BY <1>4, <1>5
    <2>3. \A q \in Procs : \A k \in DOMAIN nodes[q] : nodes[q][k].info = 1
      BY <1>5
    <2> QED
      BY <1>4, <2>1, <2>2, <2>3, MoreNodes
  <1> DEFINE j == [job[p] EXCEPT !.pc = "close"]
  <1>8. j.pc = "close" /\ j.data = d
    <2>1. job[p] = [pc |-> job[p].pc, block |-> job[p].block, data |-> d]
      BY JobFields DEF FetchRegister
    <2> QED
      BY <2>1
  <1>9. job'[p] = j /\ \A q \in Procs : q # p => job'[q] = job[q]
    BY DEF FetchRegister, Goto, Types, JobsOK
  <1>10. \A q \in Procs : Denied(q)' = Denied(q)
    BY DEF FetchRegister, Denied, Bits
  <1>11. mem' = Text /\ checked' = checked
    BY <1>1 DEF FetchRegister, Unregistered
  <1>12. \A q \in Procs : q # p => \/ job'[q].pc \in {"user", "fetch"}
                                   \/ job'[q] = Killed("unregistered")
    BY <1>1, <1>9, Alone DEF FetchRegister, Unregistered, Types, LockOK
  <1>13. \/ OpenChecked'
         \/ (\E q \in Procs : job'[q].pc = "close") /\ \A q \in Procs : Denied(q)'
    <2> HIDE DEF j
    <2>1. CASE AllChecked
      BY <1>11, <2>1 DEF AllChecked, OpenChecked
    <2>2. CASE ~AllChecked
      BY <1>1, <1>8, <1>9, <1>10, <2>2 DEF Unregistered
    <2> QED
      BY <2>1, <2>2
  <1>14. Registered'
    <2>1. infos'[1].live /\ infos'[1].data = Text'
      BY <1>1, <1>2, <1>6
    <2>2. \A b \in Blocks : mem'[b] \in {0, Filler}
      BY <1>11 DEF Text
    <2> HIDE DEF j, d
    <2>3. \A q \in Procs : \/ job'[q].pc \in {"user", "fetch", "close", "trap", "search"}
                           \/ job'[q].pc = "killed" /\ job'[q].by # "copy"
      BY <1>8, <1>9, <1>12 DEF Killed
    <2> QED
      BY <1>6, <1>7, <1>13, <2>1, <2>2, <2>3 DEF Registered
  <1>15. \A q \in Procs : job'[q].pc \in {"fetched", "close"} => job'[q].data = Text'
    <2> HIDE DEF j, d
    <2> QED
      BY <1>1, <1>2, <1>8, <1>9, <1>12 DEF Killed
  <1> QED
    BY <1>14, <1>15 DEF ReadOnly

\* ... checks the zone it leaves open when it closes the page ...
LEMMA FetchCloseReadOnly ==
    ASSUME Types, ReadOnly, NEW p \in Procs, FetchClose(p)
    PROVE  ReadOnly'
  <1>1. Registered /\ job[p].pc = "close" /\ Goto(p, User)
    BY DEF FetchClose, ReadOnly, Unregistered, Killed
  <1>2. job[p].data = Text /\ job[p].block \in Blocks
    BY <1>1, JobFields DEF ReadOnly
  <1>3. checked' = checked \cup {<<job[p].block, 0>>}
    BY <1>2 DEF FetchClose, Text
  <1>4. PICK zone \in Zones(job[p].block) : mem' = CloseOuter(job[p].data, zone)
    BY DEF FetchClose
  <1>5. zone \subseteq {job[p].block}
    BY DEF Zones
  <1>6. \A b \in Blocks : mem'[b] \in {0, Filler} /\ (mem'[b] = Filler \/ b = job[p].block)
    BY <1>2, <1>4, <1>5 DEF CloseOuter, Text
  <1>7. OpenChecked'
    BY <1>3, <1>6 DEF OpenChecked
  <1>8. UNCHANGED <<infos, shared, nodes>>
    BY DEF FetchClose, masters
  <1>9. /\ infos[1].live /\ infos[1].data = Text /\ shared = << 1 >> /\ Len(infos) = 1
        /\ \A q \in Procs : \A k \in DOMAIN nodes[q] : nodes[q][k].info = 1
    BY <1>1 DEF Registered
  <1> QED
    BY <1>1, <1>6, <1>7, <1>8, <1>9, Leaves

\* ... or checks all of it and leaves it open, registered or not.
LEMMA FetchWholeReadOnly ==
    ASSUME Types, ReadOnly, NEW p \in Procs, FetchWhole(p)
    PROVE  ReadOnly'
  <1>1. job[p].pc \in {"fetched", "close"} /\ Goto(p, User) /\ Allow(p) /\ mem' = mem
    BY DEF FetchWhole
  <1>2. job[p].data = Text
    BY <1>1 DEF ReadOnly
  <1>3. AllChecked'
    <2>1. \A b \in Blocks : <<b, job[p].data[b]>> \in checked'
      BY DEF FetchWhole
    <2>2. \A b \in Blocks : job[p].data[b] = 0
      BY <1>2 DEF Text
    <2> QED
      BY <2>1, <2>2 DEF AllChecked
  <1>4. UNCHANGED <<infos, shared, nodes>> /\ Text' = Text
    BY DEF FetchWhole, masters, Text
  <1>5. job'[p] = User /\ \A q \in Procs : q # p => job'[q] = job[q]
    BY <1>1 DEF Goto, Types, JobsOK
  <1>6. CASE Unregistered
    <2>1. \A q \in Procs : \/ job'[q].pc \in {"user", "fetch", "fetched"}
                           \/ job'[q] = Killed("unregistered")
      BY <1>5, <1>6 DEF Unregistered, User
    <2>2. Unregistered'
      BY <1>1, <1>3, <1>4, <1>6, <2>1 DEF Unregistered, Killed
    <2>3. \A q \in Procs : job'[q].pc \in {"fetched", "close"} => job'[q].data = Text'
      BY <1>4, <1>5 DEF ReadOnly, User
    <2> QED
      BY <2>2, <2>3 DEF ReadOnly
  <1>7. CASE Registered
    <2>1. OpenChecked'
      BY <1>3 DEF AllChecked, OpenChecked
    <2>2. \A b \in Blocks : mem'[b] \in {0, Filler}
      BY <1>1, <1>7 DEF Registered
    <2>3. /\ infos[1].live /\ infos[1].data = Text /\ shared = << 1 >> /\ Len(infos) = 1
          /\ \A q \in Procs : \A k \in DOMAIN nodes[q] : nodes[q][k].info = 1
      BY <1>7 DEF Registered
    <2> QED
      BY <1>1, <1>4, <1>7, <2>1, <2>2, <2>3, Leaves
  <1> QED
    BY <1>6, <1>7 DEF ReadOnly

\* A trap checks the block before it opens it.
LEMMA TrapOpenReadOnly ==
    ASSUME Types, ReadOnly, NEW p \in Procs, TrapOpen(p)
    PROVE  ReadOnly'
  <1>1. Registered /\ Goto(p, User) /\ job[p].pc = "search"
    BY DEF TrapOpen, ReadOnly, Unregistered, Killed
  <1> DEFINE b == job[p].block
  <1>2. b \in Blocks /\ job[p].info = 1
    <2>1. b \in Blocks /\ job[p].info \in 1..Len(infos)
      BY JobFields DEF TrapOpen
    <2>2. Len(infos) = 1
      BY <1>1 DEF Registered
    <2> QED
      BY <2>1, <2>2
  <1>3. infos[job[p].info].data[b] = 0
    BY <1>1, <1>2 DEF Registered, Text
  <1>4. mem' = [mem EXCEPT ![b] = 0] /\ checked' = checked \cup {<<b, 0>>}
    BY <1>3 DEF TrapOpen
  <1>5. \A q \in Procs : job[q].pc # "close"
    BY Alone DEF TrapOpen, Types, LockOK
  <1>6. Refused \/ OpenChecked
    BY <1>1, <1>5, NobodyCloses
  <1>7. mem \in [Blocks -> Versions \cup {Filler, Garbage}]
    BY DEF Types, Data
  <1>8. \A c \in Blocks : mem'[c] \in {0, Filler}
    BY <1>1, <1>4, <1>7 DEF Registered
  <1>9. Refused' \/ OpenChecked'
    <2>1. CASE Refused
      BY <1>1, <2>1, RefusedStays
    <2>2. CASE OpenChecked
      BY <1>4, <1>7, <2>2 DEF OpenChecked
    <2> QED
      BY <1>6, <2>1, <2>2
  <1>10. UNCHANGED <<infos, shared, nodes>>
    BY DEF TrapOpen, masters
  <1>11. /\ infos[1].live /\ infos[1].data = Text /\ shared = << 1 >> /\ Len(infos) = 1
         /\ \A q \in Procs : \A k \in DOMAIN nodes[q] : nodes[q][k].info = 1
    BY <1>1 DEF Registered
  <1> HIDE DEF b
  <1> QED
    BY <1>1, <1>8, <1>9, <1>10, <1>11, Leaves

\* The other steps are not taken: a trap is never at an unknown page or an empty
\* copy, restore_page cannot write, and there is nothing a store could fault on.
LEMMA NotTaken ==
    ASSUME Types, WriteOK, ReadOnly, writers = {}, NEW p \in Procs
    PROVE  ~(\/ TrapUnknown(p) \/ TrapRegister(p) \/ TrapRefused(p)
             \/ TrapNothing(p) \/ TrapRestore(p) \/ Store(p) \/ StoreAgain(p) \/ FaultPlain(p)
             \/ FaultRestore(p) \/ FaultRestoreShared(p))
  <1>1. job[p].pc \notin {"unknown", "write"}
    BY DEF ReadOnly, Unregistered, Registered, Killed
  <1>2. ~TrapUnknown(p)
    <2>1. Unregistered => \A b \in Blocks : mem[b] # Filler
      BY Constants DEF Unregistered, Text
    <2>2. Registered => shared # <<>>
      BY DEF Registered
    <2> QED
      BY <2>1, <2>2 DEF TrapUnknown, ReadOnly
  <1>3. ~TrapRegister(p) /\ ~TrapRefused(p) /\ ~StoreAgain(p)
    BY <1>1 DEF TrapRegister, TrapRefused, StoreAgain
  <1>4. ~TrapNothing(p)
    <2> SUFFICES ASSUME TrapNothing(p) PROVE FALSE
      OBVIOUS
    <2>1. Registered
      BY DEF TrapNothing, ReadOnly, Unregistered, Killed
    <2>2. job[p].info = 1 /\ job[p].block \in Blocks
      <3>1. job[p].block \in Blocks /\ job[p].info \in 1..Len(infos)
        BY JobFields DEF TrapNothing
      <3>2. Len(infos) = 1
        BY <2>1 DEF Registered
      <3> QED
        BY <3>1, <3>2
    <2> QED
      BY <2>1, <2>2, Constants DEF TrapNothing, Registered, Text
  <1>5. ~TrapRestore(p)
    BY DEF TrapRestore, MayRestore
  <1>6. ~Store(p) /\ ~WriteFault(p)
    BY DEF Store, WriteFault
  <1> QED
    BY <1>2, <1>3, <1>4, <1>5, <1>6 DEF FaultPlain, FaultRestore, FaultRestoreShared

LEMMA ReadOnlyStep ==
    ASSUME Types, WriteOK, ReadOnly, writers = {}, NEW p \in Procs,
           \/ FetchFault(p) \/ Fetch(p)
           \/ TrapFound(p) \/ TrapAttach(p) \/ TrapUnknown(p) \/ Trap(p)
           \/ Store(p) \/ StoreAgain(p) \/ FaultPlain(p) \/ FaultRestore(p)
           \/ FaultRestoreShared(p) \/ Fork(p)
    PROVE  ReadOnly'
  BY NotTaken, FetchFaultReadOnly, FetchAttachReadOnly, FetchCopyReadOnly, FetchRegisterReadOnly,
     FetchCloseReadOnly, FetchWholeReadOnly, FetchFailsReadOnly, TrapFoundReadOnly,
     TrapAttachReadOnly, TrapLockReadOnly, TrapOpenReadOnly, TrapFailsReadOnly, ForkReadOnly
  DEF Fetch, Trap

LEMMA TypesStep ==
    ASSUME Types, WriteOK, NEW p \in Procs,
           \/ FetchFault(p) \/ Fetch(p)
           \/ TrapFound(p) \/ TrapAttach(p) \/ TrapUnknown(p) \/ Trap(p)
           \/ Store(p) \/ StoreAgain(p) \/ FaultPlain(p) \/ FaultRestore(p)
           \/ FaultRestoreShared(p) \/ Fork(p)
    PROVE  Types' /\ WriteOK' /\ writers' = writers
  <1>1. writers' = writers
    BY DEF FetchFault, Fetch, TrapFound, TrapAttach, TrapUnknown, Trap, Store, StoreAgain,
           FaultPlain, FaultRestore, FaultRestoreShared, Fork, FetchAttach, FetchCopy,
           FetchRegister, FetchClose, FetchWhole, FetchFails, TrapRegister, TrapRefused, TrapLock,
           TrapOpen, TrapNothing, TrapRestore, TrapFails, mapping
  <1> QED
    BY <1>1, FetchFaultTypes, FetchAttachTypes, FetchCopyTypes, FetchRegisterTypes,
       FetchCloseTypes, FetchWholeTypes, FetchFailsTypes, TrapFoundTypes, TrapAttachTypes,
       TrapUnknownTypes, TrapRegisterTypes, TrapRefusedTypes, TrapLockTypes, TrapOpenTypes,
       TrapNothingTypes, TrapRestoreTypes, TrapFailsTypes, StoreTypes, StoreAgainTypes,
       FaultPlainTypes, FaultRestoreTypes, FaultRestoreSharedTypes, ForkTypes
    DEF Fetch, Trap
-----------------------------------------------------------------------------
LEMMA InitInv == Init => IInv
  <1> SUFFICES ASSUME Init PROVE IInv
    OBVIOUS
  <1> USE Constants
  <1>0. large \in BOOLEAN /\ writers \subseteq Procs /\ <<writers, large>> \in Mappings
    <2>1. PICK m \in Mappings : writers = m[1] /\ large = m[2]
      BY DEF Init
    <2>2. m = <<m[1], m[2]>>
      BY SharedAssumption
    <2> QED
      BY <2>1, <2>2
  <1> DEFINE first == Fresh \cup (IF large THEN {"LH_MAPPING"} ELSE {})
  <1>1. Good(large, first)
    BY DEF Good, Fresh
  <1>2. table = [p \in Procs |-> TableWith(large, first)]
    <2>1. CASE large
      BY <2>1 DEF Init, FreshTable, TableWith, Directory
    <2>2. CASE ~large
      <3>1. Last(first) = [i \in 0..(Entries - 1) |-> Entry(Fresh, <<>>)]
        BY <2>2 DEF Last
      <3> QED
        BY <2>2, <3>1 DEF Init, FreshTable, TableWith, Directory
    <2> QED
      BY <2>1, <2>2
  <1>3. (\A p \in Procs : Bits(p) = first) /\ TablesOK
    <2> HIDE DEF first
    <2>1. \A p \in Procs : Bits(p) = first
      BY <1>0, <1>1, <1>2, BitsOf DEF Bits
    <2> QED
      BY <1>1, <1>2, <2>1 DEF TablesOK
  <1>4. MastersOK /\ JobsOK /\ LockOK
    BY Records DEF Init, MastersOK, JobsOK, LockOK, User
  <1>5. mem \in Data /\ checked = {}
    BY DEF Init, Data
  <1>6. WriteOK /\ \A p \in Procs : Denied(p)
    BY <1>3 DEF WriteOK, Denied, Fresh
  <1>7. ReadOnly
    <2>1. Unregistered
      BY <1>6 DEF Init, Unregistered, User, Text
    <2> QED
      BY <2>1 DEF Init, ReadOnly, User
  <1> QED
    BY <1>0, <1>3, <1>4, <1>5, <1>6, <1>7 DEF IInv, Types

LEMMA StutterInv ==
    ASSUME IInv, UNCHANGED vars
    PROVE  IInv'
  <1> USE DEF vars
  <1>1. Types'
    <2>1. TablesOK'
      BY DEF IInv, Types, TablesOK, Bits
    <2>2. MastersOK'
      BY MastersSame DEF IInv, Types, masters
    <2>3. JobsOK' /\ LockOK'
      BY DEF IInv, Types, JobsOK, LockOK
    <2> QED
      BY <2>1, <2>2, <2>3 DEF IInv, Types
  <1>2. WriteOK'
    BY DEF IInv, WriteOK, Denied, Bits
  <1>3. writers = {} => ReadOnly'
    <2> SUFFICES ASSUME ReadOnly PROVE ReadOnly'
      BY DEF IInv
    <2>1. \A q \in Procs : Denied(q)' = Denied(q)
      BY DEF Denied, Bits
    <2>2. /\ (AllChecked <=> AllChecked') /\ (OpenChecked <=> OpenChecked')
          /\ (Refused <=> Refused') /\ Text' = Text
      BY DEF AllChecked, OpenChecked, Refused, Killed, Text
    <2>3. (Unregistered => Unregistered') /\ (Registered => Registered')
      BY <2>1, <2>2 DEF Unregistered, Registered, Killed
    <2> QED
      BY <2>2, <2>3 DEF ReadOnly
  <1> QED
    BY <1>1, <1>2, <1>3 DEF IInv

\* Invariance of the inductive invariant.
THEOREM Invariance == Spec => []IInv
  <1>1. IInv /\ [Next]_vars => IInv'
    <2> SUFFICES ASSUME IInv, [Next]_vars PROVE IInv'
      OBVIOUS
    <2>1. CASE UNCHANGED vars
      BY <2>1, StutterInv
    <2>2. CASE Next
      <3>1. PICK p \in Procs :
              \/ FetchFault(p) \/ Fetch(p)
              \/ TrapFound(p) \/ TrapAttach(p) \/ TrapUnknown(p) \/ Trap(p)
              \/ Store(p) \/ StoreAgain(p) \/ FaultPlain(p) \/ FaultRestore(p)
              \/ FaultRestoreShared(p) \/ Fork(p)
        BY <2>2 DEF Next
      <3>2. Types' /\ WriteOK' /\ writers' = writers
        BY <3>1, TypesStep DEF IInv
      <3>3. writers = {} => ReadOnly'
        BY <3>1, ReadOnlyStep DEF IInv
      <3> QED
        BY <3>2, <3>3 DEF IInv
    <2> QED
      BY <2>1, <2>2
  <1> QED
    BY <1>1, InitInv, PTL DEF Spec
-----------------------------------------------------------------------------
(* What the invariant says of the runs' properties.                        *)

LEMMA InvariantTypes == IInv => TypeOK
  <1> SUFFICES ASSUME IInv PROVE TypeOK
    OBVIOUS
  <1>1. /\ <<writers, large>> \in Mappings /\ mem \in Data
        /\ checked \subseteq Blocks \X (Versions \cup {Filler, Garbage})
    BY DEF IInv, Types
  <1>2. \A p \in Procs : job[p] \in Jobs
    BY DEF IInv, Types, JobsOK
  <1>3. \A i \in DOMAIN infos :
          infos[i].data \in Data /\ infos[i].live \in BOOLEAN /\ infos[i].ref_count \in Nat
    <2>1. infos \in [1..Len(infos) -> Info] /\ DOMAIN infos = 1..Len(infos)
      BY DEF IInv, Types, MastersOK
    <2> QED
      BY <2>1 DEF Info
  <1>4. \A k \in DOMAIN shared : shared[k] \in DOMAIN infos
    BY DEF IInv, Types, MastersOK
  <1>5. \A p \in Procs : \A k \in DOMAIN nodes[p] : nodes[p][k].info \in DOMAIN infos
    <2> TAKE p \in Procs
    <2> TAKE k \in DOMAIN nodes[p]
    <2>1. nodes[p] \in Seq(Node) /\ DOMAIN infos = 1..Len(infos)
      BY DEF IInv, Types, MastersOK
    <2>2. nodes[p][k] \in Node
      BY <2>1
    <2>3. nodes[p][k].info \in 1..Len(infos)
      BY <2>2 DEF Node
    <2> QED
      BY <2>1, <2>3
  <1>6. \A p \in Procs : job[p].pc \in {"fetched", "close", "search"} <=> mutex = p
    BY DEF IInv, Types, LockOK
  <1> QED
    BY <1>1, <1>2, <1>3, <1>4, <1>5, <1>6 DEF TypeOK

\* Let in without a check of its own, a process executes what the first one
\* checked, unless that one was killed.
LEMMA InvariantChecked == IInv => SharedChecked
  <1> SUFFICES ASSUME IInv, writers = {}, ~Refused, NEW p \in Procs, ~Denied(p),
                      NEW b \in Blocks
               PROVE  mem[b] = Filler \/ <<b, mem[b]>> \in checked
    BY DEF SharedChecked, Vetted
  <1>1. CASE Unregistered
    BY <1>1 DEF Unregistered, AllChecked, Text
  <1>2. CASE Registered
    BY <1>2 DEF Registered, OpenChecked
  <1> QED
    BY <1>1, <1>2 DEF IInv, ReadOnly

LEMMA InvariantMasters == IInv => OneMaster /\ Recoverable /\ NobodyKilled
  <1> SUFFICES ASSUME IInv, writers = {} PROVE OneMaster /\ Recoverable /\ NobodyKilled
    BY DEF OneMaster, Recoverable, NobodyKilled
  <1>1. CASE Unregistered
    BY <1>1 DEF Unregistered, OneMaster, Recoverable, NobodyKilled, Text, Killed
  <1>2. CASE Registered
    <2>1. shared # <<>> /\ shared[1] = 1 /\ Len(shared) = 1
      BY <1>2 DEF Registered
    <2>2. OneMaster
      <3>1. infos[1].live /\ \A p \in Procs : \A k \in DOMAIN nodes[p] : nodes[p][k].info = 1
        BY <1>2 DEF Registered
      <3> QED
        BY <2>1, <3>1 DEF OneMaster
    <2>3. Recoverable
      BY <1>2, <2>1 DEF Registered, Recoverable, Text
    <2>4. NobodyKilled
      BY <1>2 DEF Registered, NobodyKilled, Killed
    <2> QED
      BY <2>2, <2>3, <2>4
  <1> QED
    BY <1>1, <1>2 DEF IInv, ReadOnly

LEMMA InvariantTables == IInv => WriteXorExecute /\ NeighbourDenied
  <1> SUFFICES ASSUME IInv PROVE WriteXorExecute /\ NeighbourDenied
    OBVIOUS
  <1>1. WriteXorExecute
    BY DEF IInv, WriteOK, WriteXorExecute
  <1>2. ASSUME ~large, NEW p \in Procs
        PROVE  "EXE_DENY_BIT" \in get_page_table_entry(table[p], Neighbour)
    <2>1. large \in BOOLEAN /\ Good(large, Bits(p))
      BY Constants DEF IInv, Types, TablesOK
    <2>2. table[p] = TableWith(large, Bits(p))
      BY Zenon DEF IInv, Types, TablesOK
    <2>3. get_page_table_entry(TableWith(large, Bits(p)), Neighbour) = Fresh
      BY <1>2, <2>1, BitsOf
    <2> QED
      BY <2>2, <2>3 DEF Fresh
  <1> QED
    BY <1>1, <1>2 DEF NeighbourDenied

\* Types: in every reachable state, of any number of processes and blocks and
\* page tables of any size, the variables hold what the code can put there,
\* every pointer in a bucket leads to an allocated copy, and the mutex belongs
\* to the process that is in the part of a handler that runs with it.
THEOREM SharedTypes == Spec => []TypeOK
  BY Invariance, InvariantTypes, PTL

\* Checks: while nobody can write the mapping, whatever a process of it may
\* execute passed a check of some process, unless the process that registered
\* the page was killed by its check.
THEOREM WhatIsSharedWasChecked == Spec => []SharedChecked
  BY Invariance, InvariantChecked, PTL

\* Master copies: processes that meet the page at once register one copy, to
\* which all their nodes lead, whatever fails in a handler.
THEOREM OneCopy == Spec => []OneMaster
  BY Invariance, InvariantMasters, PTL

\* It has the bytes behind every filler of the page ...
THEOREM NothingIsLost == Spec => []Recoverable
  BY Invariance, InvariantMasters, PTL

\* ... so that no trap at a filler kills a process for want of them.
THEOREM EveryTrapIsServed == Spec => []NobodyKilled
  BY Invariance, InvariantMasters, PTL

\* Page tables: no process may write the page and execute it, through write
\* faults and forks.
THEOREM SharedWriteXorExecute == Spec => []WriteXorExecute
  BY Invariance, InvariantTables, PTL

\* An entry beside that of the page is never touched.
THEOREM SharedNeighbourDenied == Spec => []NeighbourDenied
  BY Invariance, InvariantTables, PTL
=============================================================================

----------------------------- MODULE PageTables -----------------------------
(***************************************************************************)
(* The page-table walks of page_table_utils.c.  A table is a function on   *)
(* 0..Entries-1; an entry has bits and, above the last level, the next     *)
(* table.  An address counts pages.  A PDE with LH_MAPPING maps Entries    *)
(* pages by itself; LH_MAPPING is not looked at in a PDP entry.            *)
(***************************************************************************)
EXTENDS Integers, FiniteSetsExt

CONSTANT Entries    \* entries per table, 512

ASSUME EntriesAssumption == Entries \in Nat \ {0, 1}

\* The index at each level: the digits of the address, the lowest one last.
PTEMutant(a) == (a \div Entries) % Entries
PTE(a)  == a % Entries
PDE(a)  == (a \div Entries) % Entries
PDP(a)  == PDE(a \div Entries)
PML4(a) == PDP(a \div Entries)

VALID(entry) == "VALID" \in entry.bits

\* Where the entry that maps address a stands: the index at every level of
\* the walk, or nothing when one of the entries on the way is not valid.
Path(t, a) ==
    LET e4 == t[PML4(a)]  e3 == e4.next[PDP(a)]  e2 == e3.next[PDE(a)]
    IN  IF ~VALID(e4) \/ ~VALID(e3) \/ ~VALID(e2) THEN <<>>
        ELSE IF "LH_MAPPING" \in e2.bits THEN <<PML4(a), PDP(a), PDE(a)>>
        ELSE IF ~VALID(e2.next[PTE(a)]) THEN <<>>
        ELSE <<PML4(a), PDP(a), PDE(a), PTE(a)>>

\* The value of the mapping entry; 0, no bit, when the address is not mapped.
get_page_table_entry(t, a) ==
    LET w == Path(t, a)
    IN  CASE w = <<>> -> {}
          [] DOMAIN w = 1..3 -> t[w[1]].next[w[2]].next[w[3]].bits
          [] DOMAIN w = 1..4 -> t[w[1]].next[w[2]].next[w[3]].next[w[4]].bits

\* Bits set and cleared in the mapping entry, if there is one.
Change(t, a, clear, set) ==
    LET w == Path(t, a)  to(bits) == (bits \ clear) \cup set
    IN  CASE w = <<>> -> t
          [] DOMAIN w = 1..3 -> [t EXCEPT ![w[1]].next[w[2]].next[w[3]].bits = to(@)]
          [] DOMAIN w = 1..4 ->
               [t EXCEPT ![w[1]].next[w[2]].next[w[3]].next[w[4]].bits = to(@)]

(***************************************************************************)
(* set_all_sh_pages_non_writable: the shared WX pages of the VMAs that can *)
(* be written (USER_BIT is the number of a bit, used as a mask: 2 is that  *)
(* of WRITE_BIT) lose WRITE_BIT and remember it.  vmas is a set of         *)
(* [start, end, flags]; t is the table that is loaded, which is not that   *)
(* of the task the VMAs are read from.                                     *)
(***************************************************************************)
set_all_sh_pages_non_writable(t, vmas) ==
    LET wx == {v \in vmas : {"VM_SHARED", "VM_WRITE", "VM_EXEC"} \subseteq v.flags}
        pages == UNION {v.start .. v.end - 1 : v \in wx}
    IN  FoldSet(LAMBDA a, u : IF "WRITE_BIT" \in get_page_table_entry(u, a)
                                THEN Change(u, a, {"WRITE_BIT"}, {"ORIG_WRITE_BIT"}) ELSE u,
                t, pages)
=============================================================================

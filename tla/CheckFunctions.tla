--------------------------- MODULE CheckFunctions ---------------------------
(***************************************************************************)
(* check_function_1, the check that looks for a shellcode in the bytes of  *)
(* a zone, and the memmem it uses.  Positions are user addresses; what     *)
(* matters of the bytes is where the shellcode stands, the set found.      *)
(* Lengths are unsigned longs: one that is counted below zero wraps.       *)
(***************************************************************************)
EXTENDS Integers

CONSTANTS
    PageBytes,      \* PAGE_SIZE
    NeedleBytes,    \* the length of the shellcode, 11
    SyncChecks      \* num_of_sync_checks

ASSUME CheckAssumption ==
    /\ PageBytes \in Nat \ {0} /\ NeedleBytes \in Nat \ {0} /\ SyncChecks \in Nat

\* PAGE_ALIGN_UP(a) - a
UntilPageEnd(a) == (PageBytes - (a % PageBytes)) % PageBytes

(***************************************************************************)
(* The positions at which dumb_memmem compares in len bytes from hs on:    *)
(* before hs + len - NeedleBytes, and none when len is shorter than the    *)
(* shellcode.  A len that wrapped is too long for that test, but then      *)
(* hs + len - NeedleBytes wraps as well, to before hs.                     *)
(***************************************************************************)
ComparedMutant(hs, len) ==   \* the comparison stops two positions early
    IF len < NeedleBytes THEN {} ELSE hs..(hs + len - NeedleBytes - 2)
Compared(hs, len) ==
    IF len < NeedleBytes THEN {} ELSE hs..(hs + len - NeedleBytes - 1)

(***************************************************************************)
(* The windows <<first, length>> check_function_1 searches in the zone     *)
(* [start, end): SyncChecks of them, each a byte further.  A zone that     *)
(* ends with its page loses a byte at a time; one that would be shifted    *)
(* over the end of the page keeps its length until it gets there.          *)
(***************************************************************************)
ShrinkMutant(until, i) == 0   \* a window that reached the page end keeps its length
Shrink(until, i) == IF i < until THEN 0 ELSE i - until
Windows(start, end) ==
    {<<start + i, end - start - Shrink(UntilPageEnd(end), i)>> : i \in 0..(SyncChecks - 1)}

\* The positions compared, and the verdict: 1 is a zone that may run.
Examined(start, end) == UNION {Compared(w[1], w[2]) : w \in Windows(start, end)}

check_function_1(found, start, end) ==
    IF end <= start \/ found \cap Examined(start, end) = {} THEN 1 ELSE 0
=============================================================================

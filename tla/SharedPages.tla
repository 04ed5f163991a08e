---------------------------- MODULE SharedPages ----------------------------
(***************************************************************************)
(* One page of a shared mapping, at the same address in several monitored  *)
(* processes: the branches of sig_handler, invalid_op_handler and          *)
(* do_fault_ret_handler_f for VM_SHARED, the master copy in the bucket for *)
(* shared pages and the nodes in the buckets of the processes.  Each       *)
(* process has one thread and its own page table; the bytes of the page    *)
(* and the master copies are common.  The build has no SHARED_DEFENCE, so  *)
(* shared_flip_bit does nothing.  Every error path of the handlers may be  *)
(* taken: a disassembler error, a failed check or byte limit, a copy or a  *)
(* write that fails.                                                       *)
(*                                                                         *)
(* Assumed: nothing is unmapped or mprotected, no allocation fails, no     *)
(* process is the parent of another one, a zone lies in the page, and a    *)
(* process that gets SIGSEGV or SIGILL ends.  Its nodes and copies stay:   *)
(* handle_exit does not call cleanup_process.  What the handlers write to  *)
(* a page raises no write fault of its own.                                *)
(*                                                                         *)
(* The page is a row of blocks as in PageThreads.  The value of a block is *)
(* the version of its bytes, the filler, or what is read from freed        *)
(* memory.                                                                 *)
(***************************************************************************)
EXTENDS PageTables, Sequences

CONSTANTS
    Procs,
    NoProc,      \* the owner of the mutex when it is not locked
    NumBlocks,
    Filler,      \* a block of fillers, 0e
    Garbage,     \* what freed memory holds once it is used again
    Mappings,    \* the mappings: pairs of the processes whose VMA has VM_WRITE
                 \* and whether a PDE maps the page
    MaxStores,   \* stores, in all
    MaxInfos     \* master copies allocated, in all

Blocks == 1..NumBlocks
Page == 1          \* the address of the page
Neighbour == 0     \* and of the page before it
Versions == 0..MaxStores

ASSUME SharedAssumption ==
    /\ NoProc \notin Procs /\ NumBlocks \in Nat \ {0, 1}
    /\ Mappings \subseteq (SUBSET Procs) \X BOOLEAN
    /\ {Filler, Garbage} \cap Versions = {} /\ MaxStores \in Nat /\ MaxInfos \in Nat \ {0}

VARIABLES
    writers,   \* the processes whose mapping has VM_WRITE
    large,     \* the mapping entry is a PDE
    table,     \* the page table of each process
    mem,       \* the blocks of the page
    infos,     \* the page_info allocated so far
    shared,    \* the bucket of the shared pages: infos, newest first
    nodes,     \* the bucket of each process: its nodes for the page, newest first
    mutex,     \* the mutex of the page in the row of the shared pages
    job,       \* what each process does
    stores,
    checked    \* ghost: the <<block, value>> that went through run_kernel_check

vars == <<writers, large, table, mem, infos, shared, nodes, mutex, job, stores, checked>>
mapping == <<writers, large>>
masters == <<infos, shared, nodes>>

User == [pc |-> "user"]
\* A signal ends the process: SIGSEGV from sig_handler, before or after it has
\* registered the page; SIGILL from invalid_op_handler, because of the check or
\* a write, or of the master copy.
Reasons == {"unregistered", "registered", "trap", "copy"}
Killed(why) == [pc |-> "killed", by |-> why]

\* The page as do_mmap_ret_handler_f leaves it; its neighbour is private text.
Entry(bits, next) == [bits |-> bits, next |-> next]
Fresh == {"VALID", "EXE_DENY_BIT", "ORIG_EXE_BIT"}
Only(e) == [i \in 0..(Entries - 1) |-> IF i = 0 THEN e ELSE Entry({}, <<>>)]
FreshTable(huge) ==
    LET last == [i \in 0..(Entries - 1) |-> Entry(Fresh, <<>>)]
        pde  == IF huge THEN Entry(Fresh \cup {"LH_MAPPING"}, <<>>) ELSE Entry({"VALID"}, last)
    IN  Only(Entry({"VALID"}, Only(Entry({"VALID"}, Only(pde)))))

Init ==
    /\ \E m \in Mappings : writers = m[1] /\ large = m[2]
    /\ table = [p \in Procs |-> FreshTable(large)]
    /\ mem = [b \in Blocks |-> 0]
    /\ infos = <<>> /\ shared = <<>> /\ nodes = [p \in Procs |-> <<>>]
    /\ mutex = NoProc
    /\ job = [p \in Procs |-> User]
    /\ stores = 0 /\ checked = {}

Bits(p) == get_page_table_entry(table[p], Page)
Denied(p) == "EXE_DENY_BIT" \in Bits(p)

Goto(p, j) == job' = [job EXCEPT ![p] = j]
Flip(p, clear, set) == table' = [table EXCEPT ![p] = Change(@, Page, clear, set)]

LockMutant(p) == mutex' = p   \* a row of its own for each process
Lock(p) == mutex = NoProc /\ mutex' = p
UnlockMutant == UNCHANGED mutex   \* the row of the process is unlocked instead
Unlock == mutex' = NoProc
-----------------------------------------------------------------------------
(* Master copies *)

\* page_shared_not_registered_yet and creating_shared_page_node: the copy at
\* this address in the shared bucket is also entered under the process.
Attach(p) ==
    /\ infos' = [infos EXCEPT ![shared[1]].ref_count = @ + 1]
    /\ nodes' = [nodes EXCEPT ![p] = <<[info |-> shared[1], address |-> TRUE]>> \o @]
    /\ UNCHANGED shared

\* The consistency check of register_shared_page: fillers at either end.
Altered(data) == data[1] = Filler \/ data[NumBlocks] = Filler

register_shared_pageMutant(p, data) ==   \* not entered in the shared bucket
    /\ Len(infos) < MaxInfos
    /\ infos' = Append(infos, [data |-> data, ref_count |-> 1, live |-> TRUE])
    /\ nodes' = [nodes EXCEPT ![p] = <<[info |-> Len(infos) + 1, address |-> TRUE]>> \o @]
    /\ UNCHANGED shared
\* register_shared_page.  The node of the process never gets its address; what
\* the allocator left there may happen to be the same address.
register_shared_page(p, data) ==
    /\ Len(infos) < MaxInfos
    /\ infos' = Append(infos, [data |-> data, ref_count |-> 1, live |-> TRUE])
    /\ shared' = <<Len(infos) + 1>> \o shared
    /\ \E leftover \in BOOLEAN :
         nodes' = [nodes EXCEPT ![p] = <<[info |-> Len(infos) + 1, address |-> leftover]>> \o @]

\* Where the nodes of the process stand that find_current_page and
\* restore_page accept; they take the first one.
Known(p) == {k \in DOMAIN nodes[p] : nodes[p][k].address}

\* kfree: the memory keeps its contents until it is used again, perhaps for
\* the fillers of another page.
Free(i) ==
    \E data \in {infos[i].data} \cup {[b \in Blocks |-> x] : x \in {Garbage, Filler}} :
        infos' = [infos EXCEPT ![i].live = FALSE, ![i].data = data]

\* restore_page, through the node of the process: the page is written back and
\* the copy freed, whatever its ref_count.  is_shared is read from the
\* page_info, which may be freed.
restore_page(p) ==
    /\ Known(p) # {}
    /\ LET at == Min(Known(p))  i == nodes[p][at].info
       IN  /\ mem' = infos[i].data
           /\ \E is_shared \in (IF infos[i].live THEN {TRUE} ELSE BOOLEAN) :
                shared' = IF is_shared /\ shared # <<>> THEN Tail(shared) ELSE shared
           /\ nodes' = [nodes EXCEPT ![p] = SubSeq(@, 1, at - 1) \o SubSeq(@, at + 1, Len(@))]
           /\ Free(i)

\* allow_exe, and the exit label of invalid_op_handler for a page of
\* pages_not_fetched.
AllowMutant(p) ==   \* a WX page keeps WRITE_BIT
    Flip(p, {"EXE_DENY_BIT"}, {"CHECK_DENY_BIT"})
Allow(p) ==
    IF p \in writers
      THEN Flip(p, {"EXE_DENY_BIT", "WRITE_BIT"}, {"ORIG_WRITE_BIT", "CHECK_DENY_BIT"})
      ELSE Flip(p, {"EXE_DENY_BIT"}, {"CHECK_DENY_BIT"})
-----------------------------------------------------------------------------
(***************************************************************************)
(* sig_handler.  CHECK_DENY_BIT is never set together with EXE_DENY_BIT    *)
(* here, and one thread does not find its page opened after the wait.      *)
(***************************************************************************)
FetchFault(p) ==
    /\ job[p] = User /\ Denied(p) /\ "ORIG_EXE_BIT" \in Bits(p)
    /\ \E b \in Blocks : Goto(p, [pc |-> "fetch", block |-> b])
    /\ UNCHANGED <<mapping, table, mem, masters, mutex, stores, checked>>

\* A page another process has registered is let execute as it is.
FetchAttach(p) ==
    /\ job[p].pc = "fetch" /\ mutex = NoProc /\ shared # <<>>
    /\ Attach(p) /\ Allow(p) /\ Goto(p, User)
    /\ UNCHANGED <<mapping, mem, mutex, stores, checked>>

FetchCopy(p) ==
    /\ job[p].pc = "fetch" /\ Lock(p) /\ shared = <<>>
    /\ Goto(p, [pc |-> "fetched", block |-> job[p].block, data |-> mem])
    /\ UNCHANGED <<mapping, table, mem, masters, stores, checked>>

FetchRegister(p) ==
    /\ job[p].pc = "fetched" /\ ~Altered(job[p].data)
    /\ register_shared_page(p, job[p].data)
    /\ Goto(p, [job[p] EXCEPT !.pc = "close"])
    /\ UNCHANGED <<mapping, table, mem, mutex, stores, checked>>

\* The zone is checked, and close_outer_zone writes the page back with fillers
\* around it: everywhere, if the zone ends where the page does.
Zones(block) == {{block}} \cup (IF block = NumBlocks THEN {{}} ELSE {})
CloseOuterMutant(data, zone) == data   \* without the fillers
CloseOuter(data, zone) == [b \in Blocks |-> IF b \in zone THEN data[b] ELSE Filler]
FetchClose(p) ==
    /\ job[p].pc = "close"
    /\ checked' = checked \cup {<<job[p].block, job[p].data[job[p].block]>>}
    /\ \E zone \in Zones(job[p].block) : mem' = CloseOuter(job[p].data, zone)
    /\ Allow(p) /\ Unlock /\ Goto(p, User)
    /\ UNCHANGED <<mapping, masters, stores>>

\* disassembler_error, and page_check when the page cannot be registered or
\* closed: all of it is checked, and it stays open, registered or not.
FetchWhole(p) ==
    /\ job[p].pc \in {"fetched", "close"}
    /\ checked' = checked \cup {<<b, job[p].data[b]>> : b \in Blocks}
    /\ Allow(p) /\ Unlock /\ Goto(p, User)
    /\ UNCHANGED <<mapping, mem, masters, stores>>

\* The exit label: a check that fails, of the zone or of the whole page, the
\* byte limit or the copy.  What is registered stays registered.
FetchFails(p) ==
    /\ job[p].pc \in {"fetched", "close"}
    /\ Unlock /\ Goto(p, Killed(IF job[p].pc = "close" THEN "registered" ELSE "unregistered"))
    /\ UNCHANGED <<mapping, table, mem, masters, stores, checked>>
-----------------------------------------------------------------------------
(***************************************************************************)
(* invalid_op_handler.  The master copy is looked for, and attached, before*)
(* the mutex is taken.                                                     *)
(***************************************************************************)
TrapFound(p) ==
    /\ job[p] = User /\ ~Denied(p) /\ Known(p) # {}
    /\ \E b \in Blocks :
         /\ mem[b] = Filler
         /\ Goto(p, [pc |-> "trap", block |-> b, info |-> nodes[p][Min(Known(p))].info, fetched |-> TRUE])
    /\ UNCHANGED <<mapping, table, mem, masters, mutex, stores, checked>>

TrapAttach(p) ==
    /\ job[p] = User /\ ~Denied(p) /\ Known(p) = {} /\ shared # <<>>
    /\ \E b \in Blocks :
         /\ mem[b] = Filler
         /\ Goto(p, [pc |-> "trap", block |-> b, info |-> shared[1], fetched |-> FALSE])
    /\ Attach(p)
    /\ UNCHANGED <<mapping, table, mem, mutex, stores, checked>>

\* Neither: page_not_fetched_yet copies what is in the page now, after a wait
\* for the mutex and without another look.
TrapUnknown(p) ==
    /\ job[p] = User /\ ~Denied(p) /\ Known(p) = {} /\ shared = <<>>
    /\ \E b \in Blocks :
         /\ mem[b] = Filler
         /\ Goto(p, [pc |-> "unknown", block |-> b])
    /\ UNCHANGED <<mapping, table, mem, masters, mutex, stores, checked>>

\* Registered and closed as a whole; that it cannot be closed is only logged ...
TrapRegister(p) ==
    /\ job[p].pc = "unknown" /\ Lock(p) /\ ~Altered(mem)
    /\ register_shared_page(p, mem)
    /\ mem' \in {mem, [b \in Blocks |-> Filler]}
    /\ Goto(p, [pc |-> "search", block |-> job[p].block, info |-> Len(infos) + 1,
                fetched |-> FALSE])
    /\ UNCHANGED <<mapping, table, stores, checked>>

\* ... or refused, because it is altered or cannot be copied: error_exit, and
\* the kernel delivers SIGILL.
TrapRefused(p) ==
    /\ job[p].pc = "unknown" /\ mutex = NoProc
    /\ Goto(p, Killed("copy"))
    /\ UNCHANGED <<mapping, table, mem, masters, mutex, stores, checked>>

TrapLock(p) ==
    /\ job[p].pc = "trap" /\ Lock(p)
    /\ Goto(p, [job[p] EXCEPT !.pc = "search"])
    /\ UNCHANGED <<mapping, table, mem, masters, stores, checked>>

\* The block of the master copy is checked and written to the page.
TrapOpen(p) ==
    LET b == job[p].block  data == infos[job[p].info].data
    IN  /\ job[p].pc = "search" /\ data[b] # Filler
        /\ checked' = checked \cup {<<b, data[b]>>}
        /\ mem' = [mem EXCEPT ![b] = data[b]]
        /\ IF job[p].fetched THEN UNCHANGED table ELSE Allow(p)
        /\ Unlock /\ Goto(p, User)
        /\ UNCHANGED <<mapping, masters, stores>>

\* restore_zone_bytes refuses a zone of fillers, and so does the restore_page
\* label.
TrapNothing(p) ==
    /\ job[p].pc = "search" /\ infos[job[p].info].data[job[p].block] = Filler
    /\ Unlock /\ Goto(p, Killed("copy"))
    /\ UNCHANGED <<mapping, table, mem, masters, stores, checked>>

\* The restore_page label, after a disassembler error or a write that fails:
\* the master copy is checked as a whole.  restore_page passes no VMA, so that
\* get_user_pages keeps FOLL_WRITE, with which it fails in a shared mapping
\* that is not writable.
MayRestoreMutant(p) == TRUE   \* FOLL_WRITE is dropped, as with a VMA
MayRestore(p) == p \in writers
TrapRestore(p) ==
    LET data == infos[job[p].info].data
    IN  /\ job[p].pc = "search" /\ data[job[p].block] # Filler /\ MayRestore(p)
        /\ checked' = checked \cup {<<b, data[b]>> : b \in Blocks}
        /\ restore_page(p)
        /\ IF job[p].fetched THEN UNCHANGED table ELSE Allow(p)
        /\ Unlock /\ Goto(p, User)
        /\ UNCHANGED <<mapping, stores>>

\* error_exit: a check that fails, of the zone or of the master copy, the byte
\* limit, or restore_page, which finds no node or cannot write.
TrapFails(p) ==
    /\ job[p].pc = "search"
    /\ Unlock /\ Goto(p, Killed("trap"))
    /\ UNCHANGED <<mapping, table, mem, masters, stores, checked>>
-----------------------------------------------------------------------------
(* Stores, and the write fault: do_fault_ret_handler_f for a WX page *)

\* A store without a fault, and the one that is done again after a fault.
Store(p) ==
    /\ p \in writers /\ job[p] = User /\ "WRITE_BIT" \in Bits(p) /\ stores < MaxStores
    /\ \E b \in Blocks : mem' = [mem EXCEPT ![b] = stores + 1]
    /\ stores' = stores + 1
    /\ UNCHANGED <<mapping, table, masters, mutex, job, checked>>

StoreAgain(p) ==
    /\ job[p].pc = "write"
    /\ \E b \in Blocks : mem' = [mem EXCEPT ![b] = job[p].version]
    /\ Goto(p, User)
    /\ UNCHANGED <<mapping, table, masters, mutex, stores, checked>>

\* The kernel sets WRITE_BIT; the handler denies execution and forgets the
\* check.
Grant(p) ==
    /\ Flip(p, {"CHECK_DENY_BIT"}, {"WRITE_BIT", "ORIG_EXE_BIT", "EXE_DENY_BIT"})
    /\ stores' = stores + 1
    /\ Goto(p, [pc |-> "write", version |-> stores + 1])

WriteFault(p) == p \in writers /\ job[p] = User /\ "WRITE_BIT" \notin Bits(p) /\ stores < MaxStores

\* The first store to the page, or one to a page no process has registered.
FaultPlain(p) ==
    /\ WriteFault(p)
    /\ \/ "ORIG_WRITE_BIT" \notin Bits(p)
       \/ "CHECK_DENY_BIT" \in Bits(p) /\ Known(p) = {}
       \/ "CHECK_DENY_BIT" \notin Bits(p) /\ shared = <<>>
    /\ Grant(p)
    /\ UNCHANGED <<mapping, mem, masters, mutex, checked>>

FaultRestore(p) ==
    /\ WriteFault(p) /\ {"ORIG_WRITE_BIT", "CHECK_DENY_BIT"} \subseteq Bits(p)
    /\ restore_page(p)
    /\ Grant(p)
    /\ UNCHANGED <<mapping, mutex, checked>>

\* restore_sh_page, through the shared bucket: nodes of processes stay.
FaultRestoreShared(p) ==
    /\ WriteFault(p) /\ "ORIG_WRITE_BIT" \in Bits(p) /\ "CHECK_DENY_BIT" \notin Bits(p)
    /\ shared # <<>>
    /\ mem' = infos[shared[1]].data
    /\ shared' = Tail(shared)
    /\ Free(shared[1])
    /\ Grant(p)
    /\ UNCHANGED <<mapping, nodes, mutex, checked>>

\* kernel_clone_ret_handler_f: the VMAs are the child's, which are like its
\* parent's, the page table is the one that is loaded, the parent's.
Fork(p) ==
    /\ job[p] = User
    /\ table' = [table EXCEPT ![p] = set_all_sh_pages_non_writable(@,
         {[start |-> Page, end |-> Page + 1,
           flags |-> {"VM_SHARED", "VM_EXEC"} \cup (IF p \in writers THEN {"VM_WRITE"} ELSE {})]})]
    /\ UNCHANGED <<mapping, mem, masters, mutex, job, stores, checked>>

Fetch(p) ==
    \/ FetchAttach(p) \/ FetchCopy(p) \/ FetchRegister(p) \/ FetchClose(p)
    \/ FetchWhole(p) \/ FetchFails(p)
Trap(p) ==
    \/ TrapRegister(p) \/ TrapRefused(p) \/ TrapLock(p) \/ TrapOpen(p)
    \/ TrapNothing(p) \/ TrapRestore(p) \/ TrapFails(p)

Next ==
    \E p \in Procs :
        \/ FetchFault(p) \/ Fetch(p)
        \/ TrapFound(p) \/ TrapAttach(p) \/ TrapUnknown(p) \/ Trap(p)
        \/ Store(p) \/ StoreAgain(p) \/ FaultPlain(p) \/ FaultRestore(p) \/ FaultRestoreShared(p) \/ Fork(p)

Spec == Init /\ [][Next]_vars
-----------------------------------------------------------------------------
(* Properties *)

Data == [Blocks -> Versions \cup {Filler, Garbage}]
Infos == 1..MaxInfos
Jobs ==
    {User} \cup {Killed(why) : why \in Reasons} \cup [pc : {"fetch", "unknown"}, block : Blocks]
    \cup [pc : {"fetched", "close"}, block : Blocks, data : Data]
    \cup [pc : {"write"}, version : Versions]
    \cup [pc : {"trap", "search"}, block : Blocks, info : Infos, fetched : BOOLEAN]

\* TypeOK: every master copy in a bucket was allocated, and the mutex belongs
\* to a process in a part of a handler that runs with it.
TypeOK ==
    /\ <<writers, large>> \in Mappings
    /\ mem \in Data /\ \A p \in Procs : job[p] \in Jobs
    /\ \A i \in DOMAIN infos :
         infos[i].data \in Data /\ infos[i].live \in BOOLEAN /\ infos[i].ref_count \in Nat
    /\ \A k \in DOMAIN shared : shared[k] \in DOMAIN infos
    /\ \A p \in Procs : \A k \in DOMAIN nodes[p] : nodes[p][k].info \in DOMAIN infos
    /\ checked \subseteq Blocks \X (Versions \cup {Filler, Garbage})
    /\ \A p \in Procs : job[p].pc \in {"fetched", "close", "search"} <=> mutex = p

\* What any process of the mapping can execute went through a check.
Vetted ==
    \A p \in Procs : ~Denied(p) => \A b \in Blocks : mem[b] = Filler \/ <<b, mem[b]>> \in checked

\* SharedChecked: while nobody can write the mapping, what any process of it can
\* execute passed a check, though only the first process to fetch the page
\* checks and the others are let in without one; unless that process was
\* killed by its own check, after it had registered the page.
Refused == \E p \in Procs : job[p] = Killed("registered")
SharedChecked == writers = {} => Refused \/ Vetted

\* OneMaster: two processes that meet the page at once, by fetch faults or
\* traps, register one master copy, and every node of a process leads to it,
\* whatever check, write or restore_page of a handler fails.
OneMaster ==
    writers = {} =>
        /\ Len(shared) <= 1
        /\ \A p \in Procs : \A k \in DOMAIN nodes[p] :
             shared # <<>> /\ nodes[p][k].info = shared[1] /\ infos[shared[1]].live

\* Recoverable: a filler in the page stands for bytes the bucket still has, and
\* what stands open is what it has.
Recoverable ==
    writers = {} =>
        \A b \in Blocks :
            IF shared = <<>> THEN mem[b] = 0
            ELSE infos[shared[1]].data[b] = 0 /\ mem[b] \in {0, Filler}

\* WriteXorExecute: no process has the page open for both, whatever the other
\* processes of the mapping and forks did.
WriteXorExecute ==
    \A p \in Procs : "WRITE_BIT" \in Bits(p) => Denied(p)

\* NeighbourDenied: letting the page execute never lets the page before it,
\* which has an entry of its own, execute.
NeighbourDenied ==
    ~large => \A p \in Procs :
        "EXE_DENY_BIT" \in get_page_table_entry(table[p], Neighbour)

\* NobodyKilled: a trap at a filler always finds the master copy, and bytes in
\* it, while nobody can write the mapping, whichever process closed the zone;
\* a SIGILL has its cause in a check or a write that failed.
NobodyKilled ==
    writers = {} => \A p \in Procs : job[p] # Killed("copy")

\* CheckedAgain: what sig_handler's comment promises of a page after a write
\* fault, for every mapping: it is checked again before it executes.
CheckedAgain == Vetted
=============================================================================

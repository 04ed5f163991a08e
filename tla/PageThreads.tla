----------------------------- MODULE PageThreads -----------------------------
(***************************************************************************)
(* The threads of one monitored process in the handlers of the fetch fault *)
(* (sig_handler) and of the invalid opcode trap (invalid_op_handler), with *)
(* the page mutexes they take.  PageLife has the bytes and one thread;     *)
(* here a handler is many steps and a page is a row of blocks, the zones   *)
(* it is opened by.  The pages are private, execute-only text: no thread   *)
(* changes them, and nothing the handlers allocate or write fails.  Every  *)
(* thread is in hooked_pids; ProcTracking says which are.                  *)
(*                                                                         *)
(* A block ends in a control instruction, is longer than QWORD_SIZE bytes  *)
(* and is open or closed as a whole.  The last block of a page ends at its *)
(* border, or, in a crossing page, is one instruction that ends in the     *)
(* first block of the next page.                                           *)
(***************************************************************************)
EXTENDS Integers, Sequences

CONSTANTS
    Threads,
    NoThread,   \* the owner of a mutex that is not locked
    NumPages,
    NumBlocks,  \* blocks per page
    Crossing,   \* the pages whose last block ends in the next page
    Targets     \* the blocks the threads jump to

Pages  == 0 .. NumPages - 1
Blocks == 1 .. NumBlocks
Spots  == Pages \X Blocks   \* where a thread can be

\* The block after a crossing instruction begins with the rest of it, and is
\* reached by running that instruction.
AfterCrossing(s) == s[2] = 1 /\ s[1] - 1 \in Crossing

Outside == <<-1, 0>>        \* the thread runs code that is not monitored

ASSUME ThreadsAssumption ==
    /\ NumPages \in Nat \ {0} /\ NumBlocks \in Nat \ {0, 1}
    /\ NoThread \notin Threads
    /\ Crossing \subseteq {p \in Pages : p + 1 \in Pages}
    /\ Targets \subseteq {s \in Spots : ~AfterCrossing(s)}

VARIABLES
    exeDeny,  \* EXE_DENY_BIT of the page's PTE
    check,    \* CHECK_DENY_BIT
    mem,      \* the blocks of the page that are not filled with 0x0E
    masters,  \* page_hash_table: the blocks in each master copy, newest first
    ends,     \* cross_pages_integrity_hash_table: PARTIALLY_OPENED_END
    owner,    \* the mutex of the page's bucket in the bucket of the pid
    pc,       \* the block the thread runs, or Outside
    at,       \* the step of the handler the thread is in, or "user"
    job,      \* the locals of the handler
    alive,    \* FALSE once a signal was delivered
    checked   \* ghost: the blocks that went through run_kernel_check

tables == <<masters, ends, checked>>
bits == <<exeDeny, check>>
vars == <<exeDeny, check, mem, masters, ends, owner, pc, at, job, alive, checked>>

NoJob == [spot |-> Outside,   \* where the fault or trap happened
          data |-> <<>>,      \* the pages of the zone, as the handler has them
          zone |-> {},        \* the blocks from the start to the end of the zone
          todo |-> {},        \* the pages it will let execute
          held |-> <<>>]      \* page_lock_idxs: the pages it locked, in order

Labels == {"user", "fetch_fault", "fetch_lock", "fetch_first", "fetch_next",
           "fetch_second", "fetch_register", "fetch_close",
           "trap_find", "trap_lock", "trap_search",
           "trap_join", "trap_make", "trap_made", "trap_close", "trap_open",
           "allow", "unlock"}

Init ==
    /\ exeDeny = [p \in Pages |-> TRUE]
    /\ check = [p \in Pages |-> FALSE]
    /\ mem = [p \in Pages |-> Blocks]
    /\ masters = [p \in Pages |-> <<>>]
    /\ ends = {}
    /\ owner = [p \in Pages |-> NoThread]
    /\ pc = [t \in Threads |-> Outside]
    /\ at = [t \in Threads |-> "user"]
    /\ job = [t \in Threads |-> NoJob]
    /\ alive = TRUE
    /\ checked = {}

(***************************************************************************)
(* What a thread meets at block s.                                         *)
(***************************************************************************)
Open(s) == s[2] \in mem[s[1]]

\* The last instruction of block s ends in the next page.
Crosses(s) == s[2] = NumBlocks /\ s[1] \in Crossing

\* The block whose fetch faults: s itself, or the one s ends in.
Faulting(s) ==
    IF exeDeny[s[1]] THEN {s}
    ELSE {f \in {<<s[1] + 1, 1>>} : Open(s) /\ Crosses(s) /\ exeDeny[s[1] + 1]}

Traps(s) == ~exeDeny[s[1]] /\ ~Open(s)
Runs(s)  == Faulting(s) = {} /\ ~Traps(s)

InUser(t) == alive /\ at[t] = "user"

Enter(t) ==
    /\ InUser(t) /\ pc[t] = Outside
    /\ \E s \in Targets : pc' = [pc EXCEPT ![t] = s]
    /\ UNCHANGED <<bits, mem, tables, owner, at, job, alive>>

Execute(t) ==
    /\ InUser(t) /\ pc[t] # Outside /\ Runs(pc[t])
    /\ \E s \in IF Crosses(pc[t]) THEN {<<pc[t][1] + 1, 1>>}
                ELSE Targets \cup {Outside} :
         pc' = [pc EXCEPT ![t] = s]
    /\ UNCHANGED <<bits, mem, tables, owner, at, job, alive>>

(***************************************************************************)
(* The steps of the handlers.  Consecutive pages have different mutexes:   *)
(* hash_min multiplies the address, which puts their buckets half the      *)
(* table apart, so a zone of MAX_PAGES pages never locks one twice.        *)
(***************************************************************************)
In(t, label)   == at[t] = label
Goto(t, label) == at' = [at EXCEPT ![t] = label]

First(t) == job[t].spot[1]
Next2(t) == job[t].spot[1] + 1   \* the next page

\* The pages of the zone: num_pages of them, from the first.
ZonePages(t) == First(t) .. First(t) + Len(job[t].data) - 1

LockMutant(t, p) ==   \* the mutex is not waited for
    /\ owner' = [owner EXCEPT ![p] = t]
    /\ job' = [job EXCEPT ![t].held = Append(@, p)]
Lock(t, p) ==
    /\ owner[p] = NoThread
    /\ owner' = [owner EXCEPT ![p] = t]
    /\ job' = [job EXCEPT ![t].held = Append(@, p)]

Begin(t, spot) == job' = [job EXCEPT ![t].spot = spot, ![t].data = <<>>]

\* What the handler has of page p.
Held(t, p) == job[t].data[p - First(t) + 1]

AddPage(t, p) == job' = [job EXCEPT ![t].data = Append(@, mem[p])]

\* allow_exe and the exit label of the trap: one page after the other.
Allow(t) ==
    /\ In(t, "allow")
    /\ \E p \in job[t].todo :
         /\ \A q \in job[t].todo : p <= q
         /\ exeDeny' = [exeDeny EXCEPT ![p] = FALSE]
         /\ check' = [check EXCEPT ![p] = TRUE]
         /\ job' = [job EXCEPT ![t].todo = @ \ {p}]
         /\ IF job[t].todo = {p} THEN Goto(t, "unlock") ELSE UNCHANGED at
    /\ UNCHANGED <<mem, tables, owner, pc, alive>>

UnlockMutant(t) ==   \* the mutex of the first page only
    /\ In(t, "unlock")
    /\ owner' = [owner EXCEPT ![First(t)] = NoThread]
    /\ job' = [job EXCEPT ![t] = NoJob]
    /\ Goto(t, "user")
    /\ UNCHANGED <<bits, mem, tables, pc, alive>>
\* find_ret, exit and error_exit: the mutexes go, the last one first.
Unlock(t) ==
    /\ In(t, "unlock")
    /\ LET n == Len(job[t].held) IN
       /\ owner' = [owner EXCEPT ![job[t].held[n]] = NoThread]
       /\ IF n = 1 THEN Goto(t, "user") /\ job' = [job EXCEPT ![t] = NoJob]
          ELSE job' = [job EXCEPT ![t].held = SubSeq(@, 1, n - 1)] /\ UNCHANGED at
    /\ UNCHANGED <<bits, mem, tables, pc, alive>>

(***************************************************************************)
(* sig_handler.                                                            *)
(***************************************************************************)

\* The processor raises the fault; the handler runs some time later.
Fault(t) ==
    /\ InUser(t) /\ pc[t] # Outside
    /\ \E s \in Faulting(pc[t]) : Begin(t, s)
    /\ Goto(t, "fetch_fault")
    /\ UNCHANGED <<bits, mem, tables, owner, pc, alive>>

\* CHECK_DENY_BIT is read before any mutex is taken.  When it is set the
\* page is let execute, if it was not, and the handler returns.
FetchChecked(t) ==
    /\ In(t, "fetch_fault")
    /\ check[First(t)]
    /\ exeDeny' = [exeDeny EXCEPT ![First(t)] = FALSE]
    /\ job' = [job EXCEPT ![t] = NoJob]
    /\ Goto(t, "user")
    /\ UNCHANGED <<check, mem, tables, owner, pc, alive>>

FetchUnchecked(t) ==
    /\ In(t, "fetch_fault")
    /\ ~check[First(t)]
    /\ Goto(t, "fetch_lock")
    /\ UNCHANGED <<bits, mem, tables, owner, pc, job, alive>>

FetchLock(t) ==
    /\ In(t, "fetch_lock")
    /\ Lock(t, First(t))
    /\ Goto(t, "fetch_first")
    /\ UNCHANGED <<bits, mem, tables, pc, alive>>

\* Another thread was faster.
OpenedMeanwhileMutant(p) == FALSE   \* the bit is not read again
OpenedMeanwhile(p) == ~exeDeny[p]

FetchReturn(t) ==
    /\ In(t, "fetch_first")
    /\ OpenedMeanwhile(First(t))
    /\ Goto(t, "unlock")
    /\ UNCHANGED <<bits, mem, tables, owner, pc, job, alive>>

\* The page is copied and disassembled from the block on; the search goes on
\* in the next page when no control instruction ends it.
FetchFirst(t) ==
    /\ In(t, "fetch_first")
    /\ ~OpenedMeanwhile(First(t))
    /\ AddPage(t, First(t))
    /\ IF Crosses(job[t].spot)
         THEN Goto(t, "fetch_next") /\ ends' = ends \cup {First(t)}
         ELSE Goto(t, "fetch_register") /\ UNCHANGED ends
    /\ UNCHANGED <<bits, mem, masters, checked, owner, pc, alive>>

FetchNext(t) ==
    /\ In(t, "fetch_next")
    /\ Lock(t, Next2(t))
    /\ Goto(t, "fetch_second")
    /\ UNCHANGED <<bits, mem, tables, pc, alive>>

\* A page that was opened holds fillers: the zone ends before it.
FetchSecond(t) ==
    /\ In(t, "fetch_second")
    /\ IF ~exeDeny[Next2(t)] THEN UNCHANGED job ELSE AddPage(t, Next2(t))
    /\ Goto(t, "fetch_register")
    /\ UNCHANGED <<bits, mem, tables, owner, pc, alive>>

\* The zone starts at the base of the page when the page before it is open
\* up to an instruction that crosses into this one.
FetchZone(t) ==
    LET p == First(t)
        b == job[t].spot[2]
    IN  {<<p, c>> : c \in IF p - 1 \in ends THEN 1 .. b ELSE {b}}
        \cup {<<q, 1>> : q \in ZonePages(t) \ {p}}

\* A zone that ends at the border of its last page: close_outer_zone fills
\* all of that page.
EndsAtBorder(t) == Len(job[t].data) = 1 /\ job[t].spot[2] = NumBlocks

\* The crossing flag goes when the zone starts or ends at a page border; the
\* master copies are registered, the zone is checked.
FetchRegister(t) ==
    /\ In(t, "fetch_register")
    /\ LET p == First(t)
           b == job[t].spot[2]
       IN  ends' = IF b = 1 \/ (b = NumBlocks /\ p \notin Crossing)
                     THEN ends \ {p} ELSE ends
    /\ masters' = [p \in Pages |->
                     IF p \in ZonePages(t) THEN <<Held(t, p)>> \o masters[p]
                     ELSE masters[p]]
    /\ checked' = checked \cup FetchZone(t)
    /\ job' = [job EXCEPT ![t].zone = FetchZone(t)]
    /\ Goto(t, "fetch_close")
    /\ UNCHANGED <<bits, mem, owner, pc, alive>>

\* close_outer_zone: the pages of the zone are written from the copies, with
\* everything filled outside of the zone.
FetchCloseMutant(t) ==   \* the pages may execute before they are closed
    /\ In(t, "fetch_close")
    /\ exeDeny' = [p \in Pages |-> exeDeny[p] /\ p \notin ZonePages(t)]
    /\ job' = [job EXCEPT ![t].todo = ZonePages(t)]
    /\ Goto(t, "allow")
    /\ UNCHANGED <<check, mem, tables, owner, pc, alive>>
FetchCloseFirstMutant(t) ==   \* only the first page may execute
    /\ In(t, "fetch_close")
    /\ mem' = [p \in Pages |->
                 IF p \in ZonePages(t)
                   THEN {b \in Held(t, p) : ~EndsAtBorder(t) /\ <<p, b>> \in job[t].zone}
                   ELSE mem[p]]
    /\ job' = [job EXCEPT ![t].todo = {First(t)}]
    /\ Goto(t, "allow")
    /\ UNCHANGED <<bits, tables, owner, pc, alive>>
FetchClose(t) ==
    /\ In(t, "fetch_close")
    /\ mem' = [p \in Pages |->
                 IF p \in ZonePages(t)
                   THEN {b \in Held(t, p) : ~EndsAtBorder(t) /\ <<p, b>> \in job[t].zone}
                   ELSE mem[p]]
    /\ job' = [job EXCEPT ![t].todo = ZonePages(t)]
    /\ Goto(t, "allow")
    /\ UNCHANGED <<bits, tables, owner, pc, alive>>

(***************************************************************************)
(* invalid_op_handler.  A page is looked up in the table before its mutex  *)
(* is taken, and not again after.                                          *)
(***************************************************************************)
Trap(t) ==
    /\ InUser(t) /\ pc[t] # Outside
    /\ Traps(pc[t])
    /\ Begin(t, pc[t])
    /\ Goto(t, "trap_find")
    /\ UNCHANGED <<bits, mem, tables, owner, pc, alive>>

\* A page with fillers has a master copy.
TrapFind(t) ==
    /\ In(t, "trap_find")
    /\ job' = [job EXCEPT ![t].data = <<Head(masters[First(t)])>>]
    /\ Goto(t, "trap_lock")
    /\ UNCHANGED <<bits, mem, tables, owner, pc, alive>>

TrapLock(t) ==
    /\ In(t, "trap_lock")
    /\ Lock(t, First(t))
    /\ Goto(t, "trap_search")
    /\ UNCHANGED <<bits, mem, tables, pc, alive>>

\* The master copy has the filler here: SIGILL is delivered.
TrapFatal(t) ==
    /\ In(t, "trap_search")
    /\ job[t].spot[2] \notin Held(t, First(t))
    /\ alive' = FALSE
    /\ Goto(t, "unlock")
    /\ UNCHANGED <<bits, mem, tables, owner, pc, job>>

\* The block is disassembled in the master copy and, when it ends in the
\* next page, that page is looked up.
TrapSearch(t) ==
    /\ In(t, "trap_search")
    /\ job[t].spot[2] \in Held(t, First(t))
    /\ IF ~Crosses(job[t].spot)
         THEN Goto(t, "trap_open") /\ UNCHANGED <<ends, job>>
         ELSE /\ ends' = ends \cup {First(t)}
              /\ IF masters[Next2(t)] = <<>>
                   THEN Goto(t, "trap_make") /\ UNCHANGED job
                   ELSE /\ Goto(t, "trap_join")
                        /\ job' = [job EXCEPT ![t].data =
                                     Append(@, Head(masters[Next2(t)]))]
    /\ UNCHANGED <<bits, mem, masters, checked, owner, pc, alive>>

TrapJoin(t) ==
    /\ In(t, "trap_join")
    /\ Lock(t, Next2(t))
    /\ Goto(t, "trap_open")
    /\ UNCHANGED <<bits, mem, tables, pc, alive>>

TrapMake(t) ==
    /\ In(t, "trap_make")
    /\ Lock(t, Next2(t))
    /\ Goto(t, "trap_made")
    /\ UNCHANGED <<bits, mem, tables, pc, alive>>

\* register_private_page refuses a page that begins or ends with the filler.
Altered(p) == ~({1, NumBlocks} \subseteq mem[p])

\* page_not_fetched_yet: the page as it is becomes a master copy, opened or
\* not; when it is refused the zone ends at the border.
TrapMade(t) ==
    /\ In(t, "trap_made")
    /\ LET q == Next2(t) IN
       IF Altered(q)
         THEN Goto(t, "trap_open") /\ UNCHANGED <<masters, job>>
         ELSE /\ masters' = [masters EXCEPT ![q] = <<mem[q]>> \o @]
              /\ job' = [job EXCEPT ![t].data = Append(@, mem[q]), ![t].todo = {q}]
              /\ Goto(t, "trap_close")
    /\ UNCHANGED <<bits, mem, ends, checked, owner, pc, alive>>

TrapClose(t) ==
    /\ In(t, "trap_close")
    /\ mem' = [mem EXCEPT ![Next2(t)] = {}]
    /\ Goto(t, "trap_open")
    /\ UNCHANGED <<bits, tables, owner, pc, job, alive>>

\* The zone is checked and written back from the master copies.
TrapZone(t) == {job[t].spot} \cup {<<q, 1>> : q \in ZonePages(t) \ {First(t)}}

TrapOpen(t) ==
    /\ In(t, "trap_open")
    /\ checked' = checked \cup TrapZone(t)
    /\ mem' = [p \in Pages |->
                 mem[p] \cup {b \in Blocks : <<p, b>> \in TrapZone(t) /\ b \in Held(t, p)}]
    /\ Goto(t, IF job[t].todo = {} THEN "unlock" ELSE "allow")
    /\ UNCHANGED <<bits, masters, ends, owner, pc, job, alive>>

-----------------------------------------------------------------------------

\* The process was killed, and every thread has left the kernel.
Gone ==
    /\ ~alive
    /\ \A t \in Threads : In(t, "user")
    /\ UNCHANGED vars

Fetch(t) ==
    \/ Fault(t)
    \/ FetchChecked(t)
    \/ FetchUnchecked(t)
    \/ FetchLock(t)
    \/ FetchReturn(t)
    \/ FetchFirst(t)
    \/ FetchNext(t)
    \/ FetchSecond(t)
    \/ FetchRegister(t)
    \/ FetchClose(t)

InvalidOpcode(t) ==
    \/ Trap(t)
    \/ TrapFind(t)
    \/ TrapLock(t)
    \/ TrapFatal(t)
    \/ TrapSearch(t)
    \/ TrapJoin(t)
    \/ TrapMake(t)
    \/ TrapMade(t)
    \/ TrapClose(t)
    \/ TrapOpen(t)

\* The thread is not stopped for ever: its handler goes on, its instruction
\* runs, faults or traps.
Step(t) == Execute(t) \/ Fetch(t) \/ InvalidOpcode(t) \/ Allow(t) \/ Unlock(t)

Next == Gone \/ (\E t \in Threads : Enter(t) \/ Step(t))

Spec == Init /\ [][Next]_vars

Fairness == \A t \in Threads : WF_vars(Step(t))

FairSpec == Spec /\ Fairness

-----------------------------------------------------------------------------

\* Types, and the mutexes: one is owned by the thread that lists it as held.
TypeOK ==
    /\ exeDeny \in [Pages -> BOOLEAN] /\ check \in [Pages -> BOOLEAN]
    /\ mem \in [Pages -> SUBSET Blocks]
    /\ \A p \in Pages : masters[p] \in Seq(SUBSET Blocks)
    /\ ends \subseteq Pages
    /\ pc \in [Threads -> Spots \cup {Outside}]
    /\ at \in [Threads -> Labels]
    /\ alive \in BOOLEAN
    /\ checked \subseteq Spots
    /\ \A p \in Pages : owner[p] =
         IF \E t \in Threads : \E i \in DOMAIN job[t].held : job[t].held[i] = p
           THEN CHOOSE t \in Threads : \E i \in DOMAIN job[t].held : job[t].held[i] = p
           ELSE NoThread

\* No thread can fetch a block that was not checked, whatever the other
\* threads are doing to its page at that moment.
OnlyChecked ==
    \A s \in Spots : ~exeDeny[s[1]] /\ Open(s) => s \in checked

\* A closed page that may not execute yet is in the hands of the thread that
\* closed it: the next fetch never copies fillers as if they were the page.
DeniedUntouched ==
    \A p \in Pages : exeDeny[p] /\ mem[p] # Blocks => owner[p] # NoThread

\* A page no instruction crosses into is registered once, and whole, however
\* many threads fault on it together (fprobes_helper.c:279).
UncrossedOneMaster ==
    \A p \in Pages :
      p - 1 \notin Crossing => masters[p] \in {<<>>, <<Blocks>>}

\* No thread waits for ever in a handler, or traps again and again: the block
\* it is at runs in the end, unless a signal kills the process.
Waits(t) == pc[t] # Outside /\ ~(In(t, "user") /\ Runs(pc[t]))

EventuallyRuns == \A t \in Threads : Waits(t) ~> ~Waits(t) \/ ~alive

=============================================================================

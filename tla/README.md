# FlowScanner in TLA+

FlowScanner is a Linux kernel module that traces the basic blocks of the programs it monitors. It
denies execution on every executable page, and when the first instruction of a page is fetched it
*opens* one zone, the bytes up to the next control instruction: the zone is checked, queued for a
user agent and let execute, and the rest of the page is filled with the undefined opcode `0x0E`.
Every fill the program runs into traps, and the trap opens one zone more. Stores, `mprotect` and
new mappings take all of it back.

This directory holds TLA+ models of that mechanism, the TLC configurations that check them and
proofs for TLAPS. The code modelled is the build of the `Makefile`: `ZONE_KERNEL_SYNC_CHECK`,
`SYNC_CHECK`, `MAX_PAGES` 2, one block per zone, `ONE_OPEN_ZONE` 0, without `DOS_PROTECTION`,
`SHARED_DEFENCE` and `HOOKED_PROCESS_NAME`.

`tlc -config X.cfg MC<Module>.tla` runs a configuration, `tlapm M_proofs.tla` the proofs of M.

## The system

| part | code | state | operations | what makes it hard | what makes it correct |
|---|---|---|---|---|---|
| fetch fault handler | `fprober_sig_handler.c` | PTE bits, master copies, crossing flags, page mutexes | first fetch of a page: search the zone, register, check, close, let execute | two pages under two mutexes, an instruction across the border, failures half way | nothing unchecked runs, no instruction is cut |
| invalid opcode handler | `fprober_invalid_op.c` | the same | a fill is reached: find the master copy, join the next open zone, check, restore bytes | lookup before the mutex, the copy and the page disagree | the program's own bytes come back, the instruction runs |
| write fault handler | `fprober_handle_mm.c` | PTE bits, master copies | restore a closed page before a store, deny execution after it | acts on a snapshot, takes no page mutex | stores meet the program's bytes; they cost the check |
| mprotect, mmap handlers | `fprobe_change_prot.c`, `fprober_mmap.c` | PTE bits, VMA flags | deny, remember, undo | the bits outlive the protection | CHECK_DENY_BIT keeps its word |
| zones, disassembler | `libs/zone.c`, `ld.h`, `instruction.h` | – | where a zone ends; close, restore | zone ends at a page border | zones are whole instructions |
| master copies, crossing flags | `fprobes_helper.c`, `utils.c` | two hash tables | register, find, drop | duplicates, stale entries | one whole copy of a page |
| page mutexes | `my_mutexes.h` | buckets of mutexes | lock, unlock | one held while another is waited for | no thread waits for ever |
| process management | `fprober_proc_mngmt.c` | `hooked_pids`, `started`, `finished` | exec adds an id, exit removes one, clone none | failed exec, threads, ids used again | the right tasks are monitored |
| zone queue, device | `zone.c`, `driver.c` | `zone_hash_table`, totals | handlers add a zone, `ioctl` copies and removes one | lists without locks, copies that fail | every zone reaches the agent |
| lock-free lists | `hlist_lock_free.h` | bucket heads, `next`, `pprev` | add at the head, delete | overlapping insertions and deletions | nothing is lost, nothing spins |
| shared pages | `fprobes_helper.c`, `page_table_utils.c` | reference counts | share, inherit, drop | checks and writes that fail half way, freed while others hold it | one copy, of checked bytes; freed when nobody uses it |
| kernel checks | `kernel_checks.c` | list of check functions | add, remove, run | one walk without the lock | a check that is registered runs |
| module life cycle | `mod.c` | probes, tables, device, threads | initialise with roll-back, remove | order of removal | nothing runs into freed state |
| byte limit per user | `fprobes_helper.c`, `mod.c` | bytes per user | add, compare, decay | atomics and a cleaner thread | the limit holds |
| agents, tests, data | `user/`, `test/` | – | – | – | read as documentation |

The handlers are called back by the kernel in the context of the task that faulted. They meet in
the PTE bits and the text of the process, in the page tables of the module under the page mutexes,
in `hooked_pids` with no lock at all, and hand zones to the agent through the lock-free buckets.
`PROJECT.json` lists every component with its state of modelling and every hazard with its line.

### PTE bits

`EXE_DENY_BIT` denies execution. `CHECK_DENY_BIT` says that the page was checked and not written
since. `ORIG_EXE_BIT` and `ORIG_WRITE_BIT` remember what the program asked for.

## Modules

| module | models | abstracts |
|---|---|---|
| `InstrStream` | `disassemble_code` as the page models need it: where the search of a zone ends | instructions by length, control or not, undefined or not |
| `OpcodeTables` | the tables of `ld.h` and `instruction.h`, as sets of opcodes | – |
| `Disassembler` | `disassemble_code` on x86 bytes: prefixes, VEX and EVEX, ModRM, SIB, displacements and immediates, the counters; `handle_cross_page` | the text it logs |
| `BlockSearch` | a search that goes on from page to page over a stream that arrives in pieces | the pages are cuts of a stream |
| `CheckFunctions` | `check_function_1` and `dumb_memmem`: which positions are compared | bytes by where the shellcode stands |
| `ModuleLife` | `test_init`, `test_exit`, `init_fprobes`, `remove_fprobes`, the registry of check functions and the handlers that walk it | a handler is its `run_kernel_check` |
| `PageTables` | the walk to the entry that maps an address, `flip_bit`, `get_page_table_entry`, `set_all_sh_pages_non_writable` | tables of `Entries` entries |
| `SharedPages` | one page of a shared mapping in several processes: the shared branches of the three fault handlers, their error paths, the shared bucket, fork | one thread each; a page is a row of blocks |
| `CheckedText` | the abstract promise: an instruction runs as the program wrote it and only after each of its bytes was checked; a change of a page costs it the check | how |
| `PageLife` | all page handlers for one thread, byte by byte | a handler is one action; pages are cells |
| `PageThreads` | the fetch and trap handlers of several threads, step by step under the mutexes | private text only; a page is a row of blocks |
| `LockFreeList` | `hlist_add_head_atomic`, `hlist_del_init_atomic`, one load or store at a time | one bucket |
| `ZoneQueue` | `create_zone` / `transfer_zone` by the threads, the `ioctl` `RD_VALUE` by the agent | a zone is its list node |
| `ProcTracking` | `hooked_pids` over exec, clone, fork and exit, and what a task meets that is not in it | pages by denied / filled; table operations are one step |
| `PageLife_proofs`, `PageThreads_proofs`, `ProcTracking_proofs`, `ModuleLife_proofs`, `SharedPages_proofs`, `ZoneQueue_proofs`, `BlockSearch_proofs` | theorems about the module of that name | |
| `PageText_proofs` | theorems about what `PageLife` does with the text, and that it implements `CheckedText` | |
| `MC…` | instances for TLC | |

`PageLife` takes the search from `InstrStream` and is shown to implement `CheckedText`;
`BlockSearch` composes the disassembler with the loop of the handler and compares it with
`InstrStream` on the instructions both know; `ModuleLife` runs the check functions, `SharedPages`
works through `PageTables`; `ZoneQueue` composes the list with its users. `PageThreads` and `ProcTracking` describe the same
handlers from the sides `PageLife` leaves out. `PageThreads` takes for granted that every thread
is in `hooked_pids`. In the code a second thread is there only by an exec that failed or an id
left behind, which `ProcTracking` shows: the mutexes are checked for the programs the code wants to
support.

### PageLife

`pte`, `vma`, `mem` are what the processor sees; `masters` is `page_hash_table` (per page, newest
first, as the lookup finds them), `cross` the crossing flags. `prog` and `verified` are ghosts:
what the program wrote, and the addresses that went through `run_kernel_check` since their page
changed. The disjuncts of `FetchFault` and `InvalidOpcode` are the paths of the two handlers,
failures included: `Failures` says which of `kmalloc`, registration, page write, zone write and
check may fail. `StoreFaultWX` and `StoreFaultW` are the two branches of the write fault handler
with the store that follows, `Mprotect` the pair of mprotect handlers around what the kernel does,
`Remap` a new mapping at the same place. A process with one thread takes the `skip_lock` paths, so
a handler is atomic with respect to it.

### PageThreads

`at[t]` is the step of the handler thread t is in, `job[t]` its locals, `owner` the mutexes. A step
ends where another thread can see the difference: at a lock, a lookup, a registration, a copy to the
page, a change of bits. Blocks are opened and closed as a whole; block `AfterCrossing` begins with
the end of the instruction before it.

### LockFreeList and ZoneQueue

A node has a pointer and a back pointer; `loc` holds what an operation has loaded. The deletion's
`__sync_bool_compare_and_swap(n->pprev, *n->pprev, next)` loads its destination and its old value
at times the language does not order, so both orders are allowed (`DelLoadDest`, `DelLoadOld`). Freed
nodes keep what they hold and are not used again. The agent is one process; `along` says whether it
reads while the program runs.

### ProcTracking

`hooked[t]` counts the nodes of an id. `Exec` is the handler and what the kernel then does: the
other threads die, the calling thread takes the id of the main thread, and `handle_exit` of the old
main thread sees either id. `ExecFails` is an exec that fails after `bprm_execve` was entered.
`Fork` copies the bits of those entries that the kernel copies. A task that is not `Found` and meets
a denied page or a fill is killed, and `lost` records whether its process was alone.

### Disassembler and BlockSearch

`Instruction(code, s, n)` is one turn of the loop of `disassemble_code`: the operators before it
(`Prefixes`, `Opcode`, `HasModrm`, `Immediate`, `Displacement`, `HasSib`) are its sections in the order of
the code, and `Layout` adds up the length and the type from them.
`disassemble_code` folds it over a range and stops where the code returns. In `BlockSearch` bytes
arrive (`Arrive`) and the handler searches on from `end_offset` (`Turn`), so every way of cutting
an instruction by a page border comes up.

### ModuleLife

`phase` and `step` say where `insmod` or `rmmod` is, `have`, `locks`, `lookup`, `node` and `hooks` what
exists. `LoadFails` and `LoadHookFails` are the error branches, `Undo` the labels at the end of
`test_init`, whose calls `test_exit` repeats. The hooks go live one by one while the module is still
loading, and their handlers (`Enter`, `Check`, `Advance`, `Answer`) interleave with all of it. A node that was unlinked is never freed, but its
pointers are poisoned: a walker that reads them ends in `oops`. `FPROBES_COUNT` is computed as in the
header, 9, although the table has ten functions; the tenth, `filemap_map_pages`, is never registered.

### SharedPages and PageTables

`table[p]` is the page table of a process, four levels of it; every change of a bit goes through
the walk. `shared` is the bucket of the shared pages, `nodes[p]` those of a process, both pointing
into `infos`, and `ref_count` and `live` are the fields of a master copy. The address of the
node `register_shared_page` makes for the process is never set, so whether `find_current_page`
accepts it is a choice (`leftover`). Freed memory keeps its contents or holds something else
(`Free`). A process whose store faulted repeats it (`StoreAgain`). `Fork` is what the return handler of
`kernel_clone` does to the table that is loaded, which is the parent's.
Processes that share a page and are both monitored are not parent and child in this build, as
children have no node in `hooked_pids`; each has executed a listed program.

The error paths of the handlers are steps of their own, which may always be taken. `FetchWhole` is
`disassembler_error` and `page_check`: the whole page is checked and left open, registered or not. `FetchFails` is the
`exit` label: a check that fails, before or after the page was registered (`sig_handler.c:524`, `:547`).
`TrapRestore` is the `restore_page` label of `invalid_op_handler`, `TrapFails` its `error_exit`, `TrapNothing` a zone that
begins with a filler. A process that is killed keeps in `by` where that happened.

`restore_page` writes the page back through `get_user_pages` and frees the copy. It passes no VMA
(`zone.c:1152`), so `write_pages_on_not_writable_user_pages` keeps `FOLL_WRITE`; in a shared mapping without `VM_WRITE` the kernel
then answers `-EFAULT`, as the code itself explains (`utils.c:151`), and `restore_page` returns before it
unlinks or frees anything. That is `MayRestore`. Closing a page passes the VMA, and
`write_zone_on_not_writable_user_pages`, which opens a zone, never asks for `FOLL_WRITE`, so both succeed there.

Assumed of a shared page: nothing is unmapped or protected anew, no allocation fails, a zone lies in
the page, a process has one thread and is not the parent of another one, and what the handlers write
raises no write fault of its own. A process that gets a signal ends; its nodes and the copies stay,
because `handle_exit` does not call `cleanup_process`.

## Runs

| run | bounds | shows |
|---|---|---|
| `page_life_jit` | two pages of four cells, an instruction across the border, the second page WX with one store and no zone from its base to its border; `FairSpec`; 1 908 states | `WritableIntact`, `NothingLost`, `WholeInstructions`, `PromiseKept`, `EventuallyRuns` |
| `page_life_changes` | two writable pages sealed by mprotect, one mapped anew, three changes, every failure but "close"; 138 211 states | `OnlyCheckedRuns`, `CheckHolds`, `WriteXorExecute` |
| `page_threads` | two threads, two pages of four blocks, a crossing instruction; `FairSpec`; 75 152 states | `OnlyChecked`, `DeniedUntouched`, `UncrossedOneMaster`, `EventuallyRuns`; no deadlock |
| `shared_pages` | two processes, two blocks, two entries per table, two stores, two master copies; nobody or one may write, small pages or a huge one; every error path; 1 589 235 states | `SharedChecked`, `OneMaster`, `Recoverable`, `NobodyKilled` while nobody may write, `WriteXorExecute` and `NeighbourDenied` always |
| `block_search` | streams that begin with any three of eighteen bytes, five bytes at a time, up to nineteen; 110 764 states | `CutAnywhere`, `CrossingResumes`, `StreamAgrees` |
| `module_life` | two loads, one handler, zones before, at and after the border of a page of six bytes, a shellcode of two; 118 023 states | `NothingLeft`, `HooksServed`, `CheckedUntilExit`, `ShellcodeStopped`, `StaysInPage` |
| `zone_queue` | three zones of two threads, one failure; `FairSpec`; 54 709 states | `NewestFirst` and `Delivered` when the agent starts after the program, `Answers` always |
| `proc_tracking` | three ids, one page, two nodes per id, symmetric; 853 099 states | `Traced`, `AloneSurvives` |

Each of them but `page_life_jit` also checks the type invariant of its module. Four runs end in a
counterexample:

| run | property | what the code does |
|---|---|---|
| `torn_instruction` | `WholeInstructions` | a zone that ends at a page border fills all of its last page, also the tail of the instruction that `sig_handler.c:512` wants to protect |
| `lost_zone` | `AllRead` | a deletion overwrites the head that insertions have moved; "no more data" is answered with a zone unread (`driver.c:181`) |
| `rex_wide` | `RexWIgnores66` | 66 before REX.W halves the immediate, though `zone.c:799` says that REX.W makes 66 be ignored; the next instruction is looked for two bytes early |
| `shared_store` | `CheckedAgain` | the write fault of the process that registered a WX shared page does not find its node; the next fetch attaches to the old master copy and runs what was stored unchecked (`sig_handler.c:161`) |

For every property of a passing run `PROJECT.json` names a changed definition, kept next to the
true one with the suffix `Mutant`, that breaks it: a return that is missing, a bit that is kept, a
test inverted, the wrong id.

### Why the bounds are enough

*Pages of four cells*: a zone is at most two pages (`MAX_PAGES`), so the handlers tell apart the
page they start in and the next one; four cells leave room for a crossing instruction, a zone inside
a page, one that ends at the border and the `InvRun` cells of the "altered page" test. *One or three
changes*: store, seal, remap and their pairs; the flags they leave are all in the PTE, which a fourth
change finds in a state that was met before. *Blocks*: four per page give a first, a last and two
inner ones, which are opened in both orders. *Two threads*: a page has one mutex and a thread holds at
most two. *Zones*: one thread with two zones and one with one overlap an insertion with a deletion
and with another insertion, and leave a back pointer stale twice. *Streams*: three free bytes reach a prefix or an
escape, an opcode and its ModRM byte in every combination the layout depends on; the alphabet has a
byte for each of its branches. *Processes*: the page has one mutex and one master copy, so a third process
meets what the second met; two stores are one that takes the page away from its check and one after
a fork or a second fetch. *Loads*: the second one begins from what the first left behind; the check is
about zones and borders, so pages of six bytes are enough for every shift of the window. *Ids*: three give a process
with a thread and a child, or a thread and a stranger; two nodes per id are one to remove and one
to leave behind.

The range of the properties is narrowed where the code does otherwise, and only there:
`UncrossedOneMaster` leaves out pages that begin with the end of an instruction, which a trap can
register twice, since it looks them up before it has their mutex (`invalid_op.c:464`). `NewestFirst` and
`Delivered` leave out the agent that reads along, of `lost_zone`. `page_life_changes` leaves out mprotect
calls that make an executable page write-only: the store does not clear `CHECK_DENY_BIT` then, because
`VM_WAS_EXECUTABLE` never reaches the VMA (`change_prot.c:236`, `handle_mm.c:332`). `page_life_jit` leaves
out mprotect, after which a search may take the fillers of a closed page for code
(`sig_handler.c:358`), and the text of `torn_instruction`, whose second page can be one zone. `AloneSurvives` leaves out
processes with threads, which have no node in `hooked_pids` and are killed by a denied page. The
properties of `SharedPages` about bytes and copies are for mappings nobody may write, because of
`shared_store` and because the write fault of one process frees the master copy under the nodes of the others, whatever
its `ref_count` (`zone.c:1177`). `SharedChecked` also leaves out (`Refused`) a shared page whose check fails: `sig_handler`
registers it before (`sig_handler.c:524`, `:547`), the process is killed, the copy stays, and the next process that
fetches the page is let in without a check (`sig_handler.c:282`), though `fprobes_helper.c:626` takes it for checked. TLC
finds these six steps when `Vetted`, the property without the exception, is checked with two processes and no writer.
`NobodyKilled` is about the master copy: a check, a byte limit or a write that
fails still ends in SIGILL. The mutant of `NobodyKilled` lets `restore_page` succeed in a mapping that is not writable
(`MayRestoreMutant`): it frees the copy, and `OneMaster` and `Recoverable` fail with it too. `PageThreads` has no check that fails. `ShellcodeStopped`
leaves out the shellcode that ends with its page or fills its zone, and `CheckedUntilExit` the zones that
`test_exit` overtakes.

### Fairness

`PageLife`: a fault, a trap or a runnable instruction is eventually taken, weakly fair, for one
thread. The program's own choices (entering, storing, `mprotect`) are not fair. `PageThreads`: every
thread makes its steps, weakly fair. A thread that waits for a mutex has no step enabled, so
nothing is assumed about who gets it. The scheduler of the kernel gives as much, and
a handler sleeps nowhere but in the mutexes. `ZoneQueue`: every thread, and the agent, which polls in
a loop. The other
modules have no liveness: a process of `SharedPages` takes its mutex as the threads of `PageThreads` do, and
`TypeOK` there says that only a handler between its lock and its unlock holds it.

## Proofs

`PageLife_proofs` proves, for every number of pages, page size, text and bound:

* `TypeCorrect`, `OnlyCheckedBytesRun`, `CheckBitHolds`, `NeverWritableAndExecutable`: `TypeOK`,
  `OnlyCheckedRuns`, `CheckHolds`, `WriteXorExecute`.

They rest on `Sealed`: mprotect only makes pages executable (a writable page may become WX), so that
no executable page is made writable. Without it a store after X to W keeps `CHECK_DENY_BIT`.
`OnlyCheckedBytesRun` and `CheckBitHolds` also need `Closes`, that writing a closed page back does not fail: a failed close in
`page_not_fetched_yet` keeps the master copy (`invalid_op.c:208`), and the trap handler then opens
what was not checked. The properties are not inductive: that checked bytes stay the only ones needs
that `CHECK_DENY_BIT` holds for pages that are denied, that a writable page is unchecked, and that
`ORIG_EXE_BIT` is set on executable pages only, since a fault handler decides from it. `IInv` is these,
page by page (`PageInv`), with `TypeOK`. There is a lemma for each operator that writes a page or its
flags and one step for each path of each handler.

`PageText_proofs` goes on from there, with the bounds of `PageLife_proofs`:

* `TextIsKept`, `StoresHitTheText`: `NothingLost` and `WritableIntact`, whichever steps fail, under
  `Plain`: the text and what is stored have no undefined instruction, nothing is mapped anew, and mprotect
  makes writable pages executable.
* `PromiseKeptUnlessTorn`: `PageLife` implements `CheckedText`, `Spec /\ []WholeInstructions => PromiseKept`,
  under `Sealed`, `Closes` and the assumption that the filler is no byte of the text (`NoFiller`).
* `OnlyTheBorderTears`: under `Plain`, `Spec /\ []TextAligned => []WholeInstructions`, whichever steps
  fail: as long as no instruction of the text crosses the border of a page, no handler cuts one.
  `FixedTextIsWhole` is the case of a process that does not store to its code: `Spec => []WholeInstructions`
  if the initial text is aligned. `AlignedTextIsChecked` puts it together with `PromiseKeptUnlessTorn`.

`TInv` says what a page holds and what its copies do: only the filler differs from the text, there is a
copy then, every copy is the text of its page, and a page that is not checked is intact. The last is
why a master copy taken from the page is whole. `Searches` says what the handlers rely on of the recursive
search of `InstrStream`: it ends in its range, and without an error where no instruction is undefined. Each part of `Plain` is
needed: from WX to X, `register_page` copies a page that is closed; a page that is mapped anew finds
the copies of the old one; with an undefined instruction in the text a page WX is left with its fillers
and writable. `page_life_jit`, which checks all of these properties, is an instance of `Plain`, `NoFiller`,
`Sealed` and `Closes` in which `WholeInstructions` holds. In the refinement a handler that opens or closes a
page is a stutter or a `Check`, an instruction that runs is the program's because of `OnlyCheckedRuns`
and `WholeInstructions`, and a store is a `Change`. `WholeInstructions` cannot be left out:
`torn_instruction` runs a cut instruction.

For `OnlyTheBorderTears` the invariant `WInv` says that the process is at an instruction of its text
and that every instruction is closed with its operand or not at all. The instructions of a text are those
that the recursion of `Entries` passes (`Starts`); the addresses where a zone must not begin or end are the
operands (`Inside`). The proof shows that no border of a zone is one: a search that begins at an instruction
ends between two (`SearchEnds`), so does the scan for the next byte that is not `INV` when `WInv` holds
(`NextZoneBegins`), and pages begin and end between instructions because the text is aligned (`BasesAreNot`).
A store may turn an operand into an instruction, but only on the page it restores (`SameStarts`).
`TextAligned` is what the code needs and does not check: without it the border of the page cuts an instruction,
and `torn_instruction` is such a text. It is not necessary: `page_life_jit` has an instruction across the
border and a history in which it stays whole. TLC checked `WInv` before it was proved, on two pages with
stores, mprotect calls and failing steps, in the states where the text is aligned.

`ProcTracking_proofs` proves, for any set of ids and of pages:

* `TypeCorrect`, `ListedAreTraced`, `NobodyAloneIsKilled`: `TypeOK`, `Traced`, `AloneSurvives`.

`AloneSurvives` needs the reason why nobody is killed: a process that shares nothing has one task,
and if any of its pages is denied or filled that task is in `hooked_pids`, and there is a master
copy of what is filled (`AloneInv`). It also needs that no task outlives its process (`ProcessInv`),
so that an id that is used again starts clean. `IInv` was checked by TLC before it was proved.
No assumption is made beyond `TrackingAssumption`.

`PageThreads_proofs` proves, for any number of threads, pages and blocks and any crossing pages:

* `TypeCorrect`, `NothingUncheckedRuns`, `ClosedPagesAreLocked`, `RegisteredOnce`: `TypeOK`,
  `OnlyChecked`, `DeniedUntouched`, `UncrossedOneMaster`.

The argument is rely and guarantee: a thread changes a page only while it has its mutex
(`Untouched`, `StepKeeps`), so what it knows of that page (`JobInv`) survives the steps of the others
(`OthersKeep`). `HeldInv` says which mutexes each step of a handler has, and `PageInv` that a page
that may execute has a master copy and no unchecked block open, and that a page with a master copy
that may not execute yet is in the plans of the thread that owns its mutex (`Closes`). A fetch fault
that finds the page denied under the mutex therefore finds it whole and unregistered, which is why
the second test of `EXE_DENY_BIT` is enough. No assumption beyond `ThreadsAssumption`.

`ModuleLife_proofs` proves, for any handlers, zones, page size, needle and number of loads:

* `TypeCorrect`, `NothingStays`, `HooksAreServed`, `CheckedUntilTheExit`, `CheckStaysInPage`: `TypeOK`,
  `NothingLeft`, `HooksServed`, `CheckedUntilExit`, `StaysInPage`.
* `NoShellcodeInSight`: `ShellcodeStopped`, for the modes 0 and 1 of `DCE_CHECK_MODE`, which the one
  check function decides, and two windows or more (`SyncChecks > 1`, the module parameter
  `num_of_sync_checks`).

`IInv` has two parts: `Made`, what has been made or taken away at each step of `test_init` and
`test_exit`, and `WalkInv`, what a handler in the registry has seen. The second holds only with the first:
the node a handler walks over stays linked until `test_exit` begins.

`SharedPages_proofs` proves, for any processes, blocks, levels and entries of the page tables:

* `SharedTypes`, `SharedWriteXorExecute`, `SharedNeighbourDenied`: `TypeOK`, `WriteXorExecute`,
  `NeighbourDenied`.
* `WhatIsSharedWasChecked`, `OneCopy`, `NothingIsLost`, `EveryTrapIsServed`: `SharedChecked`,
  `OneMaster`, `Recoverable`, `NobodyKilled`, which speak of mappings nobody may write, with every error path of
  the handlers.

First the page tables: `PathOf` and `ChangeOf` say what the walk reads and that a change reaches one entry,
`ForkTable` what a fork leaves of a table. `IInv` has the types, `WriteOK` (who may write may not execute) and,
while nobody may write, `ReadOnly`: either no copy exists, the page holds the text, and a process that is not denied has
checked all of it (`Unregistered`); or there is one copy, which holds the text and to which all nodes lead, and every block that
stands open was checked (`Registered`). Two cases are left out of the last: the process with the mutex may be about to
check and close the page while everyone is denied, and it may have been killed by that check (`Refused`). The first is why
those that wait for the mutex find nothing unchecked; the second is where they would. Nobody leaves a
registered page for an unregistered one, because `MayRestore` fails for a process that cannot write.

`ZoneQueue_proofs` proves, for any number of threads and zones:

* `QueueTypes`, `NoNullPointer`: `TypeOK`, and that `__hlist_del_atomic` follows no null pointer, also when the
  agent reads along and lists are damaged as in `lost_zone`.
* `NewestZoneFirst`, `AllReadAtTheEnd`: for an agent that starts after the program, `NewestFirst` and that
  "no more data" is answered only when it has every zone.

Until the agent starts there are insertions only, then deletions only. `Late(k)` describes both: of the
zones added, the first k are still in the table, one behind the other, and the agent has
the rest. The back pointers are the delicate part: two insertions that overlap leave the back pointer of
the older node stale until the newer one is linked (`Back`), and a deletion at the head repairs the next.

`BlockSearch_proofs` proves, for every stream of bytes, every way to cut it and every alphabet:

* `TypeCorrect`, `CutsDoNotMatter`, `ResumesAtAnInstruction`, `StreamIsFaithful`: `TypeOK`, `CutAnywhere`,
  `CrossingResumes`, `StreamAgrees`.

`Stable` is about one instruction: if it ends before the cut, more bytes behind the cut change nothing of
it, prefix by prefix and field by field; if it does not, the search stops at its first byte.
`WalkResumes` carries that over the loop: a search that was cut and goes on where it stopped returns what
one search of the whole does, and counts the same. `StreamIsCode` does the same for the loop of
`InstrStream` on instructions without a ModRM byte, so that what `PageLife` calls long, control and undefined
is what the disassembler makes of x86 bytes.

The recursive functions are unfolded and compared without an induction theorem: the positions where the
claim fails are a set of numbers, it has a least one (`LeastNumber`, from the well-foundedness of
`<`), and there the claim holds because it holds at the next. `SearchExists` shows in the same way that the
functions the `CHOOSE` stands for exist.

Only model-checked:

* `WholeInstructions` and `PromiseKept` for a text with an instruction across the border of a page, where they
  hold of some texts and histories (`page_life_jit`) and fail of others (`torn_instruction`).
* Liveness under fairness, which is out of the prover's reach: `EventuallyRuns` of `PageLife` and `PageThreads`, `Delivered` and
  `Answers` of `ZoneQueue`, and the freedom from deadlock of the runs.
* `LockFreeList` has no property of its own; `ZoneQueue_proofs` proves about it what `ZoneQueue` uses.

## Not modelled

* The byte limit per user: the cleaner that would give it a life cycle runs only with
  `DOS_PROTECTION`; a user over the limit is a failing check in `PageLife`.
* `RD_MEM`, `GET_CFG_BY_PID`, the totals of zones and pages.
* In `page_table_utils.c` what nothing calls: `set_all_pages_non_executable`,
  `set_all_pages_non_writable`, `manage_inherited_pages`, `map_user_address` and the tables it allocates,
  `is_mapped_addr`, `print_flags`. In `fprobes_helper.c` `brute_search_and_register`.
* `find_ret`, which runs the disassembler's code over the kernel once, when the module is loaded.
* `sig_handler_2`, the page-mode build, `HOOKED_PROCESS_NAME` (whose handlers do not compile),
  `SHARED_DEFENCE`, `ONE_OPEN_ZONE`, `close_inner_zone`.
* Pointers of `hooked_pids` (plain lists without a lock), frees of a master copy by a write
  fault of another thread of the same process, reclaim of pages, allocations that fail for shared pages.
* Agents, benchmarks, recorded data.

## Plan

Done, in this order: `InstrStream`, `CheckedText`, `PageLife`, its proofs, `PageThreads`,
`LockFreeList`, `ZoneQueue`, `ProcTracking` and its proofs, `OpcodeTables`, `Disassembler`,
`BlockSearch`, `CheckFunctions`, `ModuleLife`, `PageTables`, `SharedPages`, the proofs of `ModuleLife`,
`PageThreads`, `SharedPages`, `ZoneQueue`, `BlockSearch`, and that `PageLife` implements `CheckedText`. Next:

1. `PageThreads` with WX pages and the write fault handler, which takes no page mutex.
2. `UserQuota`, `check_bytes_limit` under several handlers of one user.
3. The plain lists of `hooked_pids`, pointer by pointer as in `LockFreeList`.

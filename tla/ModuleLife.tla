----------------------------- MODULE ModuleLife -----------------------------
(***************************************************************************)
(* Loading and unloading the module (mod.c), the hooks it registers        *)
(* (init_fprobes, remove_fprobes) and the check engine its handlers call   *)
(* (kernel_checks.c).  The handlers of the hooks in Checking open a zone   *)
(* when run_kernel_check lets it pass; a handler is its walk through the   *)
(* list of check functions.                                                *)
(*                                                                         *)
(* The list holds one node, that of check_function_1: test_init adds it,   *)
(* test_exit takes it out.  Check functions run under the read lock and    *)
(* list_del under the write lock, so each of them is one step; the walk    *)
(* from node to node holds no lock.                                        *)
(***************************************************************************)
EXTENDS CheckFunctions, Sequences

CONSTANTS
    Threads,    \* tasks whose faults and traps the hooks see
    Mode,       \* DCE_CHECK_MODE
    Zones,      \* the zones <<start, end>> the handlers search
    Texts,      \* where the shellcode stands in user memory
    MaxLoads    \* how many times the module is loaded

ASSUME ModuleAssumption ==
    /\ Mode \in 0..2
    /\ Zones \subseteq Nat \X Nat /\ Texts \subseteq SUBSET Nat /\ MaxLoads \in Nat

\* The functions to hook, in the order of the table fprobe, and how many of
\* them init_fprobes counts.
syms_ret == <<"kernel_clone", "do_mmap", "handle_mm_fault", "bprm_execve",
    "mprotect_fixup", "change_protection", "force_sig_fault", "do_error_trap",
    "do_task_dead", "filemap_map_pages">>
FPROBES_kret_COUNT == 3
KPROBES_COUNT == 6
FPROBES_COUNT == FPROBES_kret_COUNT + KPROBES_COUNT

\* The hooks whose handlers call run_kernel_check.
Checking == {i \in 1..Len(syms_ret) : syms_ret[i] \in {"force_sig_fault", "do_error_trap"}}

VARIABLES
    phase,     \* what insmod or rmmod is doing
    step,      \* and how far it is
    have,      \* the resources of the device, 1..4 in the order they are made
    locks,     \* spinlocks_init has run
    lookup,    \* flush_tlb_mm_range was found
    node,      \* the node of check_function_1
    hooks,     \* the fprobes that are registered
    flags,     \* fprobe_flags
    loads,     \* the loads so far
    walk       \* per thread, its run_kernel_check

vars == <<phase, step, have, locks, lookup, node, hooks, flags, loads, walk>>
kernelVars == <<have, locks, lookup, node, hooks, flags>>

\* alloc_chrdev_region, cdev_add, class_create, device_create; then
\* check_mode, spinlocks_init, add_check_function, the lookups, the hooks.
LastResource == 4
CheckMode == 5
InitLocks == 6
AddCheck  == 7
Lookup    == 8
FirstHookMutant == 6   \* the hooks are registered before the locks are made
FirstHook == 9

Idle == [pc |-> "idle"]
Unloaded == [active |-> FALSE, linked |-> FALSE, poisoned |-> FALSE]

Init ==
    /\ phase = "out" /\ step = 0 /\ have = {} /\ locks = FALSE /\ lookup = FALSE
    /\ node = Unloaded /\ hooks = {} /\ flags = {} /\ loads = 0
    /\ walk = [t \in Threads |-> Idle]
-----------------------------------------------------------------------------
(* test_init *)

Load ==
    /\ phase = "out" /\ loads < MaxLoads
    /\ phase' = "loading" /\ step' = 1 /\ loads' = loads + 1
    /\ node' = Unloaded /\ locks' = FALSE /\ lookup' = FALSE /\ flags' = {}
    /\ UNCHANGED <<have, hooks, walk>>

\* A step that succeeds.
LoadStep ==
    /\ phase = "loading" /\ step < FirstHook
    /\ step' = step + 1
    /\ have' = IF step <= LastResource THEN have \cup {step} ELSE have
    /\ locks' = (locks \/ step = InitLocks)
    /\ lookup' = (lookup \/ step = Lookup)
    /\ node' = IF step = AddCheck
                 THEN [active |-> TRUE, linked |-> TRUE, poisoned |-> FALSE] ELSE node
    /\ UNCHANGED <<phase, hooks, flags, loads, walk>>

\* The label a failed step jumps to: what was made before it is undone from
\* there on, the last first.  spinlocks_init and add_check_function do not
\* fail, and no label takes the check function out again.
UndoFromMutant(s) == IF s > LastResource THEN LastResource ELSE s - 2   \* one label too low
UndoFrom(s) == IF s > LastResource THEN LastResource ELSE s - 1

LoadFails ==
    /\ phase = "loading" /\ step < FirstHook /\ step \notin {InitLocks, AddCheck}
    /\ phase' = "undoing" /\ step' = UndoFrom(step)
    /\ UNCHANGED <<kernelVars, loads, walk>>

\* init_fprobes: one hook after the other.
LoadHook ==
    /\ phase = "loading" /\ step \in FirstHook..(FirstHook + FPROBES_COUNT - 1)
    /\ LET i == step - FirstHook + 1
       IN  hooks' = hooks \cup {i} /\ flags' = flags \cup {i}
    /\ step' = step + 1
    /\ UNCHANGED <<phase, have, locks, lookup, node, loads, walk>>

LoadHookFails ==
    /\ phase = "loading" /\ step \in FirstHook..(FirstHook + FPROBES_COUNT - 1)
    /\ phase' = "unhooking" /\ step' = step - FirstHook
    /\ UNCHANGED <<kernelVars, loads, walk>>

Loaded ==
    /\ phase = "loading" /\ step = FirstHook + FPROBES_COUNT
    /\ phase' = "live"
    /\ UNCHANGED <<step, kernelVars, loads, walk>>

\* unregister_fprobe comes back when no handler of the hook runs.
Unused(i) == \A t \in Threads : walk[t] # Idle => walk[t].hook # i

\* while (--i >= 0) unregister_fprobe(&fprobe[i])
RollBackMutant ==   \* while (--i > 0)
    /\ phase = "unhooking"
    /\ IF step > 1
         THEN /\ Unused(step) /\ hooks' = hooks \ {step} /\ step' = step - 1 /\ UNCHANGED phase
         ELSE /\ phase' = "undoing" /\ step' = LastResource /\ UNCHANGED hooks
    /\ UNCHANGED <<have, locks, lookup, node, flags, loads, walk>>
RollBack ==
    /\ phase = "unhooking"
    /\ IF step > 0
         THEN /\ Unused(step) /\ hooks' = hooks \ {step} /\ step' = step - 1 /\ UNCHANGED phase
         ELSE /\ phase' = "undoing" /\ step' = LastResource /\ UNCHANGED hooks
    /\ UNCHANGED <<have, locks, lookup, node, flags, loads, walk>>

\* The labels of test_init, and the same calls in test_exit.
Undo ==
    /\ phase \in {"undoing", "removing"}
    /\ IF step > 0
         THEN /\ have' = have \ {step} /\ step' = step - 1 /\ UNCHANGED phase
         ELSE /\ phase' = IF phase = "undoing" THEN "out" ELSE "unregistering"
              /\ step' = IF phase = "undoing" THEN 0 ELSE 1
              /\ UNCHANGED have
    /\ UNCHANGED <<locks, lookup, node, hooks, flags, loads, walk>>
-----------------------------------------------------------------------------
(* test_exit *)

\* remove_check_function: active is cleared, then the node is unlinked and
\* its pointers are poisoned; it is never freed.
Unload ==
    /\ phase = "live"
    /\ phase' = "leaving" /\ node' = [node EXCEPT !.active = FALSE]
    /\ UNCHANGED <<step, have, locks, lookup, hooks, flags, loads, walk>>

Unlink ==
    /\ phase = "leaving"
    /\ node' = [node EXCEPT !.linked = FALSE, !.poisoned = TRUE]
    /\ phase' = "removing" /\ step' = LastResource
    /\ UNCHANGED <<have, locks, lookup, hooks, flags, loads, walk>>

\* remove_fprobes
Unregister ==
    /\ phase = "unregistering"
    /\ IF step <= FPROBES_COUNT
         THEN /\ step \in flags => Unused(step)
              /\ hooks' = IF step \in flags THEN hooks \ {step} ELSE hooks
              /\ step' = step + 1 /\ UNCHANGED phase
         ELSE /\ phase' = "out" /\ step' = 0 /\ UNCHANGED hooks
    /\ UNCHANGED <<have, locks, lookup, node, flags, loads, walk>>
-----------------------------------------------------------------------------
(* run_kernel_check, called by a handler *)

\* The head is read.
Enter(t) ==
    /\ walk[t] = Idle
    /\ \E i \in Checking \cap hooks, z \in Zones, x \in Texts :
         walk' = [walk EXCEPT ![t] =
                    [pc |-> IF node.linked THEN "at" ELSE "end", hook |-> i,
                     zone |-> z, text |-> x, run |-> 0, negative |-> 0]]
    /\ UNCHANGED <<phase, step, kernelVars, loads>>

\* The check function of the node is called if the node is active.
CheckMutant(t) ==   \* active nodes are passed over
    /\ walk[t].pc = "at"
    /\ walk' = [walk EXCEPT ![t].pc = "next"]
    /\ UNCHANGED <<phase, step, kernelVars, loads>>
Check(t) ==
    /\ walk[t].pc = "at"
    /\ LET w == walk[t]
       IN  walk' = [walk EXCEPT ![t] =
             IF node.active
               THEN [w EXCEPT !.pc = "next", !.run = w.run + 1,
                       !.negative = w.negative + check_function_1(w.text, w.zone[1], w.zone[2])]
               ELSE [w EXCEPT !.pc = "next"]]
    /\ UNCHANGED <<phase, step, kernelVars, loads>>

\* pos = pos->next: the head again, or the poison of a node that was taken
\* out, whose dereference ends the task.
Advance(t) ==
    /\ walk[t].pc = "next"
    /\ walk' = [walk EXCEPT ![t].pc = IF node.poisoned THEN "oops" ELSE "end"]
    /\ UNCHANGED <<phase, step, kernelVars, loads>>

\* A check function answers 1 for a zone that may run: total_negative counts
\* these answers.
Passes(run, negative) ==
    CASE Mode = 0 -> negative = run
      [] Mode = 1 -> negative >= run - negative
      [] Mode = 2 -> negative # run

Answer(t) ==
    /\ walk[t].pc = "end"
    /\ walk' = [walk EXCEPT ![t].pc =
                  IF Passes(walk[t].run, walk[t].negative) THEN "opened" ELSE "killed"]
    /\ UNCHANGED <<phase, step, kernelVars, loads>>

Leave(t) ==
    /\ walk[t].pc \in {"opened", "killed", "oops"}
    /\ walk' = [walk EXCEPT ![t] = Idle]
    /\ UNCHANGED <<phase, step, kernelVars, loads>>

Next ==
    \/ Load \/ LoadStep \/ LoadFails \/ LoadHook \/ LoadHookFails \/ Loaded
    \/ RollBack \/ Undo \/ Unload \/ Unlink \/ Unregister
    \/ \E t \in Threads : Enter(t) \/ Check(t) \/ Advance(t) \/ Answer(t) \/ Leave(t)

Spec == Init /\ [][Next]_vars
-----------------------------------------------------------------------------
Phases == {"out", "loading", "unhooking", "undoing", "live", "leaving", "removing",
           "unregistering"}

Walks == [pc : {"at", "next", "end", "oops", "opened", "killed"}, hook : Checking,
          zone : Zones, text : Texts, run : 0..1, negative : 0..1]

TypeOK ==
    /\ phase \in Phases /\ step \in 0..(FirstHook + FPROBES_COUNT) /\ loads \in 0..MaxLoads
    /\ have \subseteq 1..LastResource /\ locks \in BOOLEAN /\ lookup \in BOOLEAN
    /\ node \in [active : BOOLEAN, linked : BOOLEAN, poisoned : BOOLEAN]
    /\ hooks \subseteq 1..Len(syms_ret) /\ flags \subseteq 1..FPROBES_COUNT
    /\ walk \in [Threads -> {Idle} \cup Walks]

\* Whichever step of test_init fails, and after test_exit, no hook calls into
\* the module, no part of its device is left, and no handler is running.
NothingLeft ==
    phase = "out" => hooks = {} /\ have = {} /\ \A t \in Threads : walk[t] = Idle

\* A hook is registered only while what its handler uses is there: the page
\* mutexes, flush_tlb_mm_range, and until test_exit the check function.
HooksServed ==
    hooks # {} =>
        /\ locks /\ lookup
        /\ phase \in {"loading", "unhooking", "undoing", "live"} => node.linked /\ node.active

\* A zone that no check function saw is let pass, as an empty list is; it
\* happens only to handlers that test_exit overtakes.
CheckedUntilExit ==
    \A t \in Threads :
        walk[t].pc = "opened" /\ walk[t].run = 0 =>
            phase \in {"leaving", "removing", "unregistering"}

\* Mode AT LEAST ONE: a zone is not opened with a shellcode in it.  Two
\* places are out of the check's sight, because dumb_memmem does not compare
\* at the last position: the end of the page, and a zone as long as the
\* shellcode.
ShellcodeStopped ==
    \A t \in Threads :
        walk[t].pc = "opened" /\ walk[t].run > 0 =>
            LET start == walk[t].zone[1]  end == walk[t].zone[2]
            IN  \A p \in walk[t].text :
                  ~ /\ start <= p /\ p + NeedleBytes <= end
                    /\ UntilPageEnd(p + NeedleBytes) # 0 /\ end - start > NeedleBytes

\* However the window is shifted, the check reads no byte outside the pages
\* of the zone.
StaysInPage ==
    \A t \in Threads : walk[t] # Idle =>
        LET start == walk[t].zone[1]  end == walk[t].zone[2]
        IN  \A p \in Examined(start, end) :
              start <= p /\ p + NeedleBytes <= end + UntilPageEnd(end)
=============================================================================

----------------------------- MODULE ProcTracking -----------------------------
(***************************************************************************)
(* Which tasks are monitored.  Every handler of the module looks up        *)
(* current->pid, the id of the task, in hooked_pids and leaves the event   *)
(* to the kernel when it is not there.  exec_handler adds a node when      *)
(* bprm_execve is entered, handle_exit removes one in do_task_dead, and    *)
(* the handlers of kernel_clone add none.                                  *)
(*                                                                         *)
(* A process is named by the id of its main thread.  Of its private code   *)
(* pages we keep whether they may be fetched and are filled with 0x0E      *)
(* around the blocks opened so far; PageLife has the bytes and PageThreads *)
(* the steps of the handlers.  What the kernel does is kept    *)
(* only as far as it decides which id current has: threads share pages,    *)
(* fork copies them, an id is free again when its process is gone, and a   *)
(* thread that calls execve takes the id of the main thread.               *)
(*                                                                         *)
(* kmalloc in exec_handler does not fail, and an operation on hooked_pids  *)
(* is one step.                                                            *)
(***************************************************************************)
EXTENDS Integers

CONSTANTS
    Pids,
    NoPid,      \* the parent of a process whose parent is gone
    Pages,      \* the code pages of a program
    MaxNodes    \* bound on the nodes of one id in hooked_pids

ASSUME TrackingAssumption ==
    /\ MaxNodes \in Nat \ {0}
    /\ NoPid \notin Pids

VARIABLES
    tgid,      \* the process of a task; NoPid when the id is not in use
    live,      \* the tasks that did not exit
    parent,    \* real_parent->tgid of a process
    denied,    \* the pages of a process with EXE_DENY_BIT
    filled,    \* those that hold 0x0E
    masters,   \* page_hash_table: the (process, page) with a master copy
    hooked,    \* hooked_pids: how many nodes an id has
    started,
    finished,
    listed,    \* ghost: processes whose main thread executed a listed program
    mixed,     \* ghost: processes that had another thread or inherited pages
               \* of a monitored one since their program was executed
    lost       \* ghost: "mixed" or "alone" processes the module's bits killed

kernel == <<tgid, live, parent>>
pages == <<denied, filled, masters>>
flags == <<started, finished>>
ghosts == <<listed, mixed, lost>>
vars == <<tgid, live, parent, denied, filled, masters, hooked,
          started, finished, listed, mixed, lost>>

Group(p) == {t \in live : tgid[t] = p}
Found(t) == hooked[t] > 0
Free(t) == tgid[t] = NoPid

-----------------------------------------------------------------------------
(* hooked_pids is empty when the module is inserted, and no process that   *)
(* runs then is in it.                                                     *)
Init ==
    /\ tgid = [t \in Pids |-> NoPid]
    /\ live = {}
    /\ parent = [p \in Pids |-> NoPid]
    /\ denied = [p \in Pids |-> {}]
    /\ filled = [p \in Pids |-> {}]
    /\ masters = {}
    /\ hooked = [t \in Pids |-> 0]
    /\ started = FALSE /\ finished = FALSE
    /\ listed = {} /\ mixed = {} /\ lost = {}

-----------------------------------------------------------------------------
UncheckedMutant(nodes, dead) ==   \* a node is removed also when none was found
    [t \in Pids |-> IF t \in dead THEN nodes[t] - 1 ELSE nodes[t]]

ByProcessMutant(nodes, dead) ==   \* the table is looked up by current->tgid
    [t \in Pids |-> IF nodes[t] > 0 /\ \E u \in dead : tgid[u] = t
                    THEN nodes[t] - 1 ELSE nodes[t]]

(* handle_exit removes the first node of the id. *)
WithoutNodes(nodes, dead) ==
    [t \in Pids |-> IF t \in dead /\ nodes[t] > 0 THEN nodes[t] - 1 ELSE nodes[t]]

(* handle_exit ends the reading of the zones when a monitored main thread  *)
(* exits as the last of its process; if all of them are killed at once, it *)
(* depends on their order.                                                 *)
FinishedAfter(p, dead) ==
    IF p \in dead /\ Found(p) /\ dead = Group(p)
    THEN IF dead = {p} THEN {TRUE} ELSE {TRUE, finished}
    ELSE {finished}

(* The tasks dead of process p exit.  The last one takes the process. *)
Exits(p, dead) ==
    /\ hooked' = WithoutNodes(hooked, dead)
    /\ finished' \in FinishedAfter(p, dead)
    /\ live' = live \ dead
    /\ LET over == dead = Group(p)
           gone == IF over THEN {t \in Pids : tgid[t] = p} ELSE dead \ {p}
       IN /\ tgid' = [t \in Pids |-> IF t \in gone THEN NoPid ELSE tgid[t]]
          /\ parent' = [q \in Pids |-> IF over /\ (q = p \/ parent[q] = p)
                                         THEN NoPid ELSE parent[q]]
          /\ denied' = [denied EXCEPT ![p] = IF over THEN {} ELSE @]
          /\ filled' = [filled EXCEPT ![p] = IF over THEN {} ELSE @]
          /\ listed' = IF over THEN listed \ {p} ELSE listed
          /\ mixed' = IF over THEN mixed \ {p} ELSE mixed
    /\ UNCHANGED <<masters, started>>

Exit(t) ==
    /\ t \in live
    /\ Exits(tgid[t], {t})
    /\ UNCHANGED lost

(* A signal nobody handles: SIGSEGV or SIGILL. *)
Killed(p) ==
    /\ Exits(p, Group(p))
    /\ lost' = lost \cup {IF p \in mixed THEN "mixed" ELSE "alone"}

-----------------------------------------------------------------------------
(* exec_handler. *)
Track(t) ==
    /\ hooked[t] < MaxNodes
    /\ hooked' = [hooked EXCEPT ![t] = @ + 1]
    /\ finished' = FALSE /\ started' = TRUE

(* execve fails after bprm_execve was entered. *)
ExecFails(t) ==
    /\ t \in live
    /\ Track(t)
    /\ UNCHANGED <<kernel, pages, ghosts>>

EveryTaskMutant(nodes, t, new) == new   \* current->pid is not looked up

(* do_mmap's handlers set EXE_DENY_BIT on what a monitored task maps. *)
DeniedTo(nodes, t, new) == IF nodes[t] > 0 THEN new ELSE {}

(* execve by task t of process p, of a program in hooked_list or not.  The *)
(* other threads exit, and t takes the id of the main thread, which then   *)
(* exits under its own id or under that of t.                              *)
Exec(t, match) ==
    LET p == tgid[t]
        nodes == IF match THEN [hooked EXCEPT ![t] = @ + 1] ELSE hooked
    IN /\ t \in live
       /\ match => hooked[t] < MaxNodes
       /\ \E old \in IF t # p /\ p \in live THEN {p, t} ELSE {p} :
            hooked' = WithoutNodes(nodes, (Group(p) \ {p, t}) \cup
                                          (IF p \in live /\ t # p THEN {old} ELSE {}))
       /\ started' = (started \/ match)
       /\ finished' = (finished /\ ~match)
       /\ live' = (live \ Group(p)) \cup {p}
       /\ tgid' = [u \in Pids |-> IF u # p /\ tgid[u] = p THEN NoPid ELSE tgid[u]]
       /\ denied' = [denied EXCEPT ![p] = DeniedTo(hooked', p, Pages)]
       /\ filled' = [filled EXCEPT ![p] = {}]
       /\ listed' = IF match /\ t = p THEN listed \cup {p} ELSE listed \ {p}
       /\ mixed' = mixed \ {p}
       /\ UNCHANGED <<parent, masters, lost>>

-----------------------------------------------------------------------------
(* A process of somebody else: the module did not touch its pages. *)
Start(p) ==
    /\ Free(p)
    /\ tgid' = [tgid EXCEPT ![p] = p]
    /\ live' = live \cup {p}
    /\ UNCHANGED <<parent, denied, filled, masters, hooked, flags, ghosts>>

(* kernel_clone with CLONE_THREAD: u shares the pages and has no node. *)
NewThread(t, u) ==
    /\ t \in live /\ Free(u)
    /\ tgid' = [tgid EXCEPT ![u] = tgid[t]]
    /\ live' = live \cup {u}
    /\ mixed' = mixed \cup {tgid[t]}
    /\ UNCHANGED <<parent, pages, hooked, flags, listed, lost>>

(* fork.  The child has the bits of the entries the kernel copies, and it  *)
(* copies those of a page that was filled; an entry it does not copy is    *)
(* made again, without EXE_DENY_BIT, when the child needs it.  The exit    *)
(* handler of kernel_clone goes through the writable shared pages only.    *)
Fork(t, u) ==
    LET p == tgid[t]
    IN /\ t \in live /\ Free(u)
       /\ tgid' = [tgid EXCEPT ![u] = u]
       /\ live' = live \cup {u}
       /\ parent' = [parent EXCEPT ![u] = p]
       /\ \E copied \in SUBSET denied[p] :
            denied' = [denied EXCEPT ![u] = copied]
       /\ filled' = [filled EXCEPT ![u] = filled[p]]
       /\ mixed' = IF denied[p] \cup filled[p] = {} THEN mixed ELSE mixed \cup {u}
       /\ UNCHANGED <<masters, hooked, flags, listed, lost>>

(* mmap of executable memory. *)
Map(t, page) ==
    LET p == tgid[t]
    IN /\ t \in live
       /\ denied' = [denied EXCEPT ![p] = (@ \ {page}) \cup DeniedTo(hooked, t, {page})]
       /\ filled' = [filled EXCEPT ![p] = @ \ {page}]
       /\ UNCHANGED <<kernel, masters, hooked, flags, ghosts>>

-----------------------------------------------------------------------------
(* sig_handler registers, fills and allows the page, or lets SIGSEGV go. *)
Fetch(t, page) ==
    LET p == tgid[t]
    IN /\ t \in live
       /\ page \in denied[p]
       /\ \/ /\ Found(t)
             /\ denied' = [denied EXCEPT ![p] = @ \ {page}]
             /\ filled' = [filled EXCEPT ![p] = @ \cup {page}]
             /\ masters' = masters \cup {<<p, page>>}
             /\ UNCHANGED <<kernel, hooked, flags, ghosts>>
          \/ /\ ~Found(t)
             /\ Killed(p)

(* The page was fetched before the fork: the child copies the master copy  *)
(* of its parent.                                                          *)
Inherited(p, page) == <<p, page>> \in masters \/ <<parent[p], page>> \in masters

(* A block that is not open: invalid_op_handler opens it from a master     *)
(* copy, or lets SIGILL go.  Without a master copy page_not_fetched_yet    *)
(* registers the page as it is, unless it begins or ends with 0x0E.        *)
Trap(t, page) ==
    LET p == tgid[t]
    IN /\ t \in live
       /\ page \in filled[p] \ denied[p]
       /\ \/ /\ Found(t)
             /\ masters' = masters \cup {<<p, page>>}
             /\ UNCHANGED <<kernel, denied, filled, hooked, flags, ghosts>>
          \/ /\ ~Found(t) \/ ~Inherited(p, page)
             /\ Killed(p)

Next ==
    \E t \in Pids :
       \/ Start(t)
       \/ Exit(t)
       \/ ExecFails(t)
       \/ \E match \in BOOLEAN : Exec(t, match)
       \/ \E u \in Pids : NewThread(t, u) \/ Fork(t, u)
       \/ \E page \in Pages : Map(t, page) \/ Fetch(t, page) \/ Trap(t, page)

Spec == Init /\ [][Next]_vars

-----------------------------------------------------------------------------
(* Type invariant; a process that is gone has no pages. *)
TypeOK ==
    /\ tgid \in [Pids -> Pids \cup {NoPid}]
    /\ live \subseteq {t \in Pids : tgid[t] # NoPid}
    /\ parent \in [Pids -> Pids \cup {NoPid}]
    /\ denied \in [Pids -> SUBSET Pages] /\ filled \in [Pids -> SUBSET Pages]
    /\ \A p \in Pids : tgid[p] # p => denied[p] \cup filled[p] = {}
    /\ masters \subseteq Pids \X Pages
    /\ hooked \in [Pids -> 0 .. MaxNodes]
    /\ started \in BOOLEAN /\ finished \in BOOLEAN
    /\ listed \cup mixed \subseteq Pids
    /\ lost \subseteq {"alone", "mixed"}

(* A main thread that executed a listed program is found in hooked_pids    *)
(* until it exits, whatever its threads and children, the other processes  *)
(* and the nodes that dead processes left behind do (exec_handler and      *)
(* handle_exit).                                                           *)
Traced == \A p \in listed \cap live : Found(p)

(* The module never kills a process that has one thread and no page of     *)
(* another process: EXE_DENY_BIT and 0x0E are put only where the task that *)
(* will meet them is monitored (do_mmap_ret_handler_f, sig_handler,        *)
(* invalid_op_handler).                                                    *)
AloneSurvives == "alone" \notin lost
=============================================================================

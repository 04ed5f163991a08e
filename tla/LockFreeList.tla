---------------------------- MODULE LockFreeList ----------------------------
(***************************************************************************)
(* One bucket of a lock-free hash table (libs/hlist_lock_free.h), pointer  *)
(* by pointer.  An hlist is singly linked forward; pprev of a node is the  *)
(* address of the pointer that points to it.  Processes run the insertion  *)
(* at the head (hlist_add_head_atomic) and the deletion                    *)
(* (hlist_del_init_atomic) step by step; the module that extends this one  *)
(* says when they start and where they go on.                              *)
(***************************************************************************)
CONSTANTS
    Procs,
    Nodes,
    First,   \* the address of h->first
    Null

Slots == Nodes \cup {First}   \* a node stands for the address of its next

ASSUME ListAssumption == Null \notin Slots /\ First \notin Nodes

VARIABLES
    ptr,    \* what each pointer holds: h->first, or the next of a node
    pprev,  \* of each node
    loc,    \* the locals of each process
    at      \* the step of each process

NoLocals == [node |-> Null,    \* the argument n
             next |-> Null,    \* first, or next
             pprev |-> Null,   \* pprev
             dest |-> Null,    \* n->pprev, read again for the CAS
             old |-> Null]     \* *pprev, the value the CAS expects

ListTypeOK ==
    /\ ptr \in [Slots -> Nodes \cup {Null}]
    /\ pprev \in [Nodes -> Slots \cup {Null}]
    /\ loc \in [Procs -> [node : Nodes \cup {Null}, next : Nodes \cup {Null},
                          pprev : Slots \cup {Null}, dest : Slots \cup {Null},
                          old : Nodes \cup {Null}]]

EmptyList ==
    /\ ptr = [s \in Slots |-> Null]
    /\ pprev = [n \in Nodes |-> Null]

In(p, label)   == at[p] = label
Goto(p, label) == at' = [at EXCEPT ![p] = label]
Node(p)        == loc[p].node

(***************************************************************************)
(* hlist_add_head_atomic.  Nobody reads next and pprev of the new node     *)
(* before it is linked in, so they are written with the read of the head.  *)
(***************************************************************************)
AddRead(p) ==
    /\ In(p, "add_read")
    /\ ptr' = [ptr EXCEPT ![Node(p)] = ptr[First]]
    /\ pprev' = [pprev EXCEPT ![Node(p)] = First]
    /\ loc' = [loc EXCEPT ![p].next = ptr[First]]
    /\ Goto(p, "add_back")

AddBack(p) ==
    /\ In(p, "add_back")
    /\ pprev' = IF loc[p].next = Null THEN pprev
                ELSE [pprev EXCEPT ![loc[p].next] = Node(p)]
    /\ Goto(p, "add_swap")
    /\ UNCHANGED <<ptr, loc>>

AddSwapMutant(p, done) ==   \* a store for the compare-and-swap
    /\ In(p, "add_swap")
    /\ ptr' = [ptr EXCEPT ![First] = Node(p)] /\ Goto(p, done)
    /\ UNCHANGED <<pprev, loc>>
AddSwap(p, done) ==
    /\ In(p, "add_swap")
    /\ \/ /\ ptr[First] = loc[p].next
          /\ ptr' = [ptr EXCEPT ![First] = Node(p)]
          /\ Goto(p, done)
       \/ /\ ptr[First] # loc[p].next
          /\ Goto(p, "add_read")
          /\ UNCHANGED ptr
    /\ UNCHANGED <<pprev, loc>>

(***************************************************************************)
(* hlist_del_init_atomic.  The address of the CAS is n->pprev read again,  *)
(* the value it expects is what the pprev read before points to; C leaves  *)
(* open which of these two arguments is evaluated first.                   *)
(***************************************************************************)
DelStart(p, done) ==
    /\ In(p, "del_start")
    /\ Goto(p, IF pprev[Node(p)] = Null THEN done ELSE "del_read")   \* hlist_unhashed
    /\ UNCHANGED <<ptr, pprev, loc>>

DelRead(p) ==
    /\ In(p, "del_read")
    /\ loc' = [loc EXCEPT ![p].next = ptr[Node(p)], ![p].pprev = pprev[Node(p)]]
    /\ Goto(p, "del_back")
    /\ UNCHANGED <<ptr, pprev>>

DelBackMutant(p) ==   \* the back pointer of the next node is left alone
    /\ In(p, "del_back") /\ Goto(p, "del_load") /\ UNCHANGED <<ptr, pprev, loc>>
DelBack(p) ==
    /\ In(p, "del_back")
    /\ pprev' = IF loc[p].next = Null THEN pprev
                ELSE [pprev EXCEPT ![loc[p].next] = loc[p].pprev]
    /\ Goto(p, "del_load")
    /\ UNCHANGED <<ptr, loc>>

DelLoadDest(p) ==
    /\ at[p] \in {"del_load", "del_load_dest"}
    /\ loc' = [loc EXCEPT ![p].dest = pprev[Node(p)]]
    /\ Goto(p, IF In(p, "del_load") THEN "del_load_old" ELSE "del_swap")
    /\ UNCHANGED <<ptr, pprev>>

DelLoadOld(p) ==
    /\ at[p] \in {"del_load", "del_load_old"}
    /\ loc' = [loc EXCEPT ![p].old = ptr[loc[p].pprev]]
    /\ Goto(p, IF In(p, "del_load") THEN "del_load_dest" ELSE "del_swap")
    /\ UNCHANGED <<ptr, pprev>>

DelSwapMutant(p) ==   \* the loop goes round without reading pprev again
    /\ In(p, "del_swap")
    /\ \/ /\ ptr[loc[p].dest] = loc[p].old
          /\ ptr' = [ptr EXCEPT ![loc[p].dest] = loc[p].next]
          /\ Goto(p, "del_init")
       \/ /\ ptr[loc[p].dest] # loc[p].old
          /\ Goto(p, "del_load")
          /\ UNCHANGED ptr
    /\ UNCHANGED <<pprev, loc>>
DelSwap(p) ==
    /\ In(p, "del_swap")
    /\ \/ /\ ptr[loc[p].dest] = loc[p].old
          /\ ptr' = [ptr EXCEPT ![loc[p].dest] = loc[p].next]
          /\ Goto(p, "del_init")
       \/ /\ ptr[loc[p].dest] # loc[p].old
          /\ Goto(p, "del_read")
          /\ UNCHANGED ptr
    /\ UNCHANGED <<pprev, loc>>

DelInit(p, done) ==
    /\ In(p, "del_init")
    /\ ptr' = [ptr EXCEPT ![Node(p)] = Null]
    /\ pprev' = [pprev EXCEPT ![Node(p)] = Null]
    /\ Goto(p, done)
    /\ UNCHANGED loc

\* hlist_add_head_atomic and hlist_del_init_atomic, going on at done.
AddHead(p, done) == AddRead(p) \/ AddBack(p) \/ AddSwap(p, done)
Delete(p, done)  ==
    \/ DelStart(p, done) \/ DelRead(p) \/ DelBack(p)
    \/ DelLoadDest(p) \/ DelLoadOld(p) \/ DelSwap(p) \/ DelInit(p, done)
=============================================================================

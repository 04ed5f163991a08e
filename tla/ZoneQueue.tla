------------------------------ MODULE ZoneQueue ------------------------------
(***************************************************************************)
(* The opened zones on their way to the agent.  The threads of a monitored *)
(* process add each zone they open to zone_hash_table (transfer_zone and   *)
(* create_zone, libs/zone.c); the agent takes one out with each ioctl      *)
(* RD_VALUE (insp_ioctl, driver.c).  The threads share a key, their tgid,  *)
(* so that all zones are in one bucket.  No lock is taken: the spinlocks   *)
(* around the list are commented out.                                      *)
(*                                                                         *)
(* A zone stands for the node that holds it: memory that was freed is not  *)
(* allocated again and keeps its contents, and what the three kfree of the *)
(* ioctl do is not seen.                                                   *)
(* The totals that RD_MEM reports (tot_num_of_zones, total_zones_size) are *)
(* left out: they are updated without a lock or an atomic instruction, and *)
(* nothing depends on them.                                                *)
(***************************************************************************)
EXTENDS LockFreeList, Integers, Sequences, SequencesExt

CONSTANTS
    Threads,
    Agent,
    Opens,         \* how many zones each thread opens
    Along,         \* whether the agent may read along: TRUE, FALSE or both
    MaxFailures    \* allocations and copies that fail

Zones == UNION {{t} \X (1 .. Opens[t]) : t \in Threads}
AllSent == <<Null, -1>>   \* the answer that there is no more data

ASSUME QueueAssumption ==
    /\ Nodes = Zones /\ Procs = Threads \cup {Agent} /\ Agent \notin Threads
    /\ Opens \in [Threads -> Nat] /\ MaxFailures \in Nat
    /\ Along \subseteq BOOLEAN

VARIABLES
    along,    \* FALSE: the agent starts when the program has ended
    made,     \* how many zones each thread has opened
    fails,    \* how many calls have failed
    buff,     \* the buffer the agent passes to the ioctl
    added,    \* ghost: the zones in the table, in the order they were added
    asked,    \* ghost: how many of them there were when the ioctl began
    got       \* ghost: the zones that were copied to the agent

list == <<ptr, pprev, loc>>
ghosts == <<added, asked, got>>
vars == <<list, at, along, made, fails, buff, ghosts>>

Labels == {"idle", "add_read", "add_back", "add_swap", "read_bucket", "copy",
           "del_start", "del_read", "del_back", "del_load", "del_load_dest", "del_load_old", "del_swap",
           "del_init", "answered"}

Init ==
    /\ EmptyList
    /\ loc = [p \in Procs |-> NoLocals]
    /\ at = [p \in Procs |-> "idle"]
    /\ along \in Along
    /\ made = [t \in Threads |-> 0]
    /\ fails = 0
    /\ buff = Null
    /\ added = <<>> /\ asked = 0 /\ got = {}

MayOpen(t) == In(t, "idle") /\ made[t] < Opens[t]

ThreadsDone == \A t \in Threads : In(t, "idle") /\ made[t] = Opens[t]

Fail == fails < MaxFailures /\ fails' = fails + 1

(***************************************************************************)
(* A thread: the zone it has just opened gets a node in the table.         *)
(***************************************************************************)
MakeZone(t) ==
    /\ MayOpen(t)
    /\ made' = [made EXCEPT ![t] = @ + 1]
    /\ loc' = [loc EXCEPT ![t].node = <<t, made'[t]>>]
    /\ Goto(t, "add_read")
    /\ UNCHANGED <<along, ptr, pprev, fails, buff, ghosts>>

\* One of the three allocations fails: those before it are freed, and the
\* handler goes on without the zone.
MakeFailsMutant(t) ==   \* the return after the failed allocation is missing
    /\ MayOpen(t)
    /\ Fail
    /\ made' = [made EXCEPT ![t] = @ + 1]
    /\ loc' = [loc EXCEPT ![t].node = Null]
    /\ Goto(t, "add_read")
    /\ UNCHANGED <<along, ptr, pprev, buff, ghosts>>
MakeFails(t) ==
    /\ MayOpen(t)
    /\ Fail
    /\ made' = [made EXCEPT ![t] = @ + 1]
    /\ UNCHANGED <<along, list, at, buff, ghosts>>

AddZone(t) ==
    /\ AddHead(t, "idle")
    /\ added' = IF ptr'[First] # ptr[First] THEN Append(added, Node(t)) ELSE added
    /\ UNCHANGED <<along, made, fails, buff, asked, got>>

(***************************************************************************)
(* The agent: one ioctl after the other, each with the same buffer.        *)
(***************************************************************************)
Ioctl ==
    /\ In(Agent, "idle")
    /\ along \/ ThreadsDone
    /\ asked' = Len(added)
    /\ Goto(Agent, "read_bucket")
    /\ UNCHANGED <<along, list, made, fails, buff, added, got>>

\* hash_for_each_safe stops at the first node of the bucket.
FindZone ==
    /\ In(Agent, "read_bucket") /\ ptr[First] # Null
    /\ loc' = [loc EXCEPT ![Agent].node = ptr[First]]
    /\ Goto(Agent, "copy")
    /\ UNCHANGED <<along, ptr, pprev, made, fails, buff, ghosts>>

\* The bucket is empty.  The answer may not reach the agent, who is not told.
NoMoreData ==
    /\ In(Agent, "read_bucket") /\ ptr[First] = Null
    /\ \/ buff' = AllSent /\ UNCHANGED fails
       \/ Fail /\ UNCHANGED buff
    /\ Goto(Agent, "answered")
    /\ UNCHANGED <<along, list, made, ghosts>>

CopyZone ==
    /\ In(Agent, "copy")
    /\ buff' = Node(Agent)
    /\ got' = got \cup {buff'}
    /\ Goto(Agent, "del_start")
    /\ UNCHANGED <<along, list, made, fails, added, asked>>

\* -EFAULT: the zone stays in the table for the next ioctl.
CopyFailsMutant ==   \* the return after the failed copy is missing
    /\ In(Agent, "copy")
    /\ Fail
    /\ Goto(Agent, "del_start")
    /\ UNCHANGED <<along, list, made, buff, ghosts>>
CopyFails ==
    /\ In(Agent, "copy")
    /\ Fail
    /\ Goto(Agent, "idle")
    /\ UNCHANGED <<along, list, made, buff, ghosts>>

DeleteZone ==
    /\ Delete(Agent, "answered")
    /\ UNCHANGED <<along, made, fails, buff, ghosts>>

\* The ioctl has returned 0 and the agent looks at its buffer.
Answered ==
    /\ In(Agent, "answered")
    /\ Goto(Agent, "idle")
    /\ UNCHANGED <<along, list, made, fails, buff, ghosts>>

Thread(t) == MakeZone(t) \/ MakeFails(t) \/ AddZone(t)
Reader    ==
    \/ Ioctl \/ FindZone \/ NoMoreData \/ CopyZone \/ CopyFails
    \/ DeleteZone \/ Answered

Next == Reader \/ \E t \in Threads : Thread(t)
Spec == Init /\ [][Next]_vars

\* No process is stopped for ever between two steps; the agent keeps asking.
FairSpec == Spec /\ WF_vars(Reader) /\ \A t \in Threads : WF_vars(Thread(t))

TypeOK ==
    /\ ListTypeOK
    /\ at \in [Procs -> Labels]
    /\ along \in Along
    /\ made \in [Threads -> Nat] /\ \A t \in Threads : made[t] <= Opens[t]
    /\ fails \in 0 .. MaxFailures
    /\ buff \in Zones \cup {Null, AllSent}
    /\ got \subseteq Zones
    /\ Range(added) \subseteq Zones /\ asked \in 0 .. Len(added)

\* When the driver answers that there is no more data, the agent has got
\* every zone that was in the table when it asked: no interleaving of the
\* insertions, no failure of a copy and no deletion has lost one.  (What the
\* agent reports as "All zones have been read".)
AllRead ==
    In(Agent, "answered") /\ buff = AllSent =>
        Range(SubSeq(added, 1, asked)) \subseteq got

\* An agent that starts when the program has ended gets each zone once, the
\* newest first: a zone is copied to it only when every zone added later has
\* been copied before, whatever back pointers the overlapping insertions of
\* hlist_add_head_atomic have left.
NewestFirst ==
    [][\A z \in Zones : ~along /\ CopyZone /\ buff' = z =>
         /\ z \notin got
         /\ \A i, j \in DOMAIN added :
              added[i] = z /\ j > i => added[j] \in got]_vars

\* An agent that starts when the program has ended eventually gets every
\* zone that was added, also after a copy has failed with -EFAULT.
Delivered == ~along => \A z \in Zones : z \in Range(added) ~> z \in got

\* No ioctl spins for ever in __hlist_del_atomic, whatever the insertions that
\* overlap with it do to the node it deletes and to its neighbours.
Answers == In(Agent, "read_bucket") ~> In(Agent, "idle")
=============================================================================

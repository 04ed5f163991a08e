-------------------------- MODULE ZoneQueue_proofs --------------------------
(***************************************************************************)
(* Any number of threads add any number of zones to the lock-free list, in *)
(* steps that interleave: what the pointers hold, and in which order an    *)
(* agent that starts when the program has ended gets the zones.            *)
(***************************************************************************)
EXTENDS ZoneQueue, TLAPS, SequenceTheorems

\* The steps of the agent with a zone in hand, those that delete it, and what
\* a deletion has read by then.
Deleting == {"del_start", "del_read", "del_back", "del_load", "del_load_dest",
             "del_load_old", "del_swap"}
WithZone == Deleting \cup {"copy", "del_init"}
Hashed   == (Deleting \cup {"del_init"}) \ {"del_start"}
HasRead  == Hashed \ {"del_read"}
HasDest  == {"del_load_old", "del_swap"}
HasOld   == {"del_load_dest", "del_swap"}

Types ==
    /\ ListTypeOK
    /\ at \in [Procs -> Labels]
    /\ along \in Along
    /\ made \in [Threads -> Nat] /\ \A t \in Threads : made[t] <= Opens[t]
    /\ fails \in 0 .. MaxFailures
    /\ buff \in Zones \cup {Null, AllSent}
    /\ got \subseteq Zones
    /\ added \in Seq(Zones) /\ asked \in 0 .. Len(added)

ThreadOK(t) ==
    /\ at[t] \in {"idle", "add_read", "add_back", "add_swap"}
    /\ at[t] # "idle" => loc[t].node = <<t, made[t]>> /\ loc[t].node \in Zones

\* The agent holds a node, and the back pointers it follows are pointers.
AgentOK ==
    /\ at[Agent] \notin {"add_read", "add_back", "add_swap"}
    /\ at[Agent] \in WithZone => Node(Agent) \in Zones
    /\ at[Agent] \in Hashed => pprev[Node(Agent)] # Null
    /\ at[Agent] \in HasRead => loc[Agent].pprev # Null
    /\ at[Agent] \in HasDest => loc[Agent].dest # Null

Typed == Types /\ (\A t \in Threads : ThreadOK(t)) /\ AgentOK

\* Of the zones added, the first k are still in the table, one behind the other.
Top(i) == IF i = 0 THEN Null ELSE added[i]
Chain(k) == ptr[First] = Top(k) /\ \A i \in 1..k : ptr[added[i]] = Top(i - 1)

\* Every zone is added once, and not before it is made.
Distinct ==
    /\ \A i, j \in DOMAIN added : added[i] = added[j] => i = j
    /\ \A i \in DOMAIN added : \A t \in Threads :
         added[i][1] = t => added[i][2] <= made[t] /\ (at[t] # "idle" => added[i][2] # made[t])

\* A thread links its node in front of what it found there; nobody else
\* writes to the node before.
Linking(t) ==
    at[t] \in {"add_back", "add_swap"} =>
        /\ ptr[Node(t)] = loc[t].next /\ pprev[Node(t)] = First
        /\ \E i \in 0 .. Len(added) : loc[t].next = Top(i)

\* The back pointer of the first node is that of the head, unless a thread is
\* about to put a node in front of it.
Back(k) ==
    k > 0 => \/ pprev[added[k]] = First
             \/ \E t \in Threads : at[t] = "add_swap" /\ loc[t].next = added[k]

\* The agent deletes the first node.
Deletes(k) ==
    /\ at[Agent] \in Deleting \cup {"copy"} => k > 0 /\ Node(Agent) = added[k]
    /\ at[Agent] = "del_init" => k < Len(added) /\ Node(Agent) = added[k + 1]
    /\ at[Agent] \in HasRead \cap Deleting => loc[Agent].pprev = First /\ loc[Agent].next = Top(k - 1)
    /\ at[Agent] \in {"del_load", "del_load_dest", "del_load_old", "del_swap"} /\ k > 1 =>
         pprev[added[k - 1]] = First
    /\ at[Agent] \in HasDest => loc[Agent].dest = First
    /\ at[Agent] \in HasOld => loc[Agent].old = added[k]
    /\ at[Agent] \in Deleting \cup {"del_init", "answered"} => buff \in Zones \/ k = 0

Late(k) ==
    /\ Chain(k) /\ Distinct /\ Back(k) /\ Deletes(k)
    /\ \A t \in Threads : Linking(t)
    /\ got = {added[j] : j \in (k + 1) .. Len(added)}
               \cup (IF at[Agent] \in Deleting THEN {added[k]} ELSE {})
    /\ at[Agent] # "idle" \/ k < Len(added) => ThreadsDone

IInv == Typed /\ (~along => \E k \in 0 .. Len(added) : Late(k))
-----------------------------------------------------------------------------
(* Types.                                                                  *)

LEMMA Constants ==
    /\ Nodes = Zones /\ Slots = Zones \cup {First}
    /\ Null \notin Zones /\ First \notin Zones /\ First # Null
    /\ Procs = Threads \cup {Agent} /\ Agent \notin Threads
    /\ MaxFailures \in Nat /\ Opens \in [Threads -> Nat]
  BY ListAssumption, QueueAssumption DEF Slots

LEMMA ZoneFacts ==
    /\ \A t \in Threads, n \in Nat : n \in 1..Opens[t] => <<t, n>> \in Zones
    /\ \A z \in Zones : z[1] \in Threads /\ z[2] \in 1..Opens[z[1]] /\ z = <<z[1], z[2]>>
  BY DEF Zones

\* A process moves on.
LEMMA Moves ==
    ASSUME at \in [Procs -> Labels], NEW p \in Procs, NEW l \in Labels, Goto(p, l)
    PROVE  /\ at' \in [Procs -> Labels] /\ at'[p] = l
           /\ \A q \in Procs : q # p => at'[q] = at[q]
  BY DEF Goto

Local == [node : Nodes \cup {Null}, next : Nodes \cup {Null}, pprev : Slots \cup {Null},
          dest : Slots \cup {Null}, old : Nodes \cup {Null}]

\* One of its locals changes.
LEMMA LocalChanges ==
    ASSUME Types, NEW p \in Procs, NEW l \in Local, loc' = [loc EXCEPT ![p] = l]
    PROVE  /\ loc' \in [Procs -> Local] /\ loc'[p] = l
           /\ \A q \in Procs : q # p => loc'[q] = loc[q]
  BY DEF Types, ListTypeOK, Local

\* What the invariant keeps of a thread whose locals and step do not change.
LEMMA ThreadKeeps ==
    ASSUME NEW t, ThreadOK(t), at'[t] = at[t], loc'[t] = loc[t], made'[t] = made[t]
    PROVE  ThreadOK(t)'
  BY DEF ThreadOK

LEMMA AgentKeeps ==
    ASSUME AgentOK, at'[Agent] = at[Agent], loc'[Agent] = loc[Agent],
           at[Agent] \in Hashed => pprev'[Node(Agent)] # Null
    PROVE  AgentOK'
  BY DEF AgentOK, Node

\* A thread acts: only its own step and locals change.
LEMMA ThreadActs ==
    ASSUME Typed, NEW t \in Threads, NEW l \in {"idle", "add_read", "add_back", "add_swap"},
           Goto(t, l), NEW m \in Local, loc' = [loc EXCEPT ![t] = m],
           l # "idle" => m.node = <<t, made'[t]>> /\ m.node \in Zones,
           \A q \in Threads : q # t => made'[q] = made[q],
           at[Agent] \in Hashed => pprev'[Node(Agent)] # Null
    PROVE  /\ \A q \in Threads : ThreadOK(q)'
           /\ AgentOK' /\ at' \in [Procs -> Labels] /\ loc' \in [Procs -> Local]
           /\ at'[t] = l /\ loc'[t] = m /\ at'[Agent] = at[Agent] /\ loc'[Agent] = loc[Agent]
           /\ \A q \in Threads : q # t => at'[q] = at[q] /\ loc'[q] = loc[q]
  <1> USE Constants
  <1>1. Types /\ l \in Labels /\ t \in Procs /\ Agent \in Procs /\ t # Agent
    BY DEF Typed, Labels
  <1>2. at' \in [Procs -> Labels] /\ at'[t] = l /\ \A q \in Procs : q # t => at'[q] = at[q]
    BY <1>1, Moves DEF Types
  <1>3. /\ loc' \in [Procs -> Local] /\ loc'[t] = m
        /\ \A q \in Procs : q # t => loc'[q] = loc[q]
    BY <1>1, LocalChanges
  <1>4. AgentOK'
    BY <1>1, <1>2, <1>3, AgentKeeps DEF Typed
  <1>5. ThreadOK(t)'
    BY <1>2, <1>3 DEF ThreadOK
  <1>6. ASSUME NEW q \in Threads, q # t
        PROVE  ThreadOK(q)'
    BY <1>2, <1>3, <1>6, ThreadKeeps DEF Typed
  <1> QED
    BY <1>1, <1>2, <1>3, <1>4, <1>5, <1>6

\* The agent acts: no thread does.
LEMMA AgentActs ==
    ASSUME Typed, NEW l \in Labels, Goto(Agent, l), NEW m \in Local,
           loc' = [loc EXCEPT ![Agent] = m], made' = made,
           l \notin {"add_read", "add_back", "add_swap"},
           l \in WithZone => m.node \in Zones,
           l \in Hashed => pprev'[m.node] # Null,
           l \in HasRead => m.pprev # Null,
           l \in HasDest => m.dest # Null
    PROVE  /\ \A q \in Threads : ThreadOK(q)'
           /\ AgentOK' /\ at' \in [Procs -> Labels] /\ loc' \in [Procs -> Local]
           /\ at'[Agent] = l /\ loc'[Agent] = m
           /\ \A q \in Threads : at'[q] = at[q] /\ loc'[q] = loc[q]
  <1> USE Constants
  <1>1. Types /\ Agent \in Procs
    BY DEF Typed
  <1>2. at' \in [Procs -> Labels] /\ at'[Agent] = l
        /\ \A q \in Procs : q # Agent => at'[q] = at[q]
    BY <1>1, Moves DEF Types
  <1>3. /\ loc' \in [Procs -> Local] /\ loc'[Agent] = m
        /\ \A q \in Procs : q # Agent => loc'[q] = loc[q]
    BY <1>1, LocalChanges
  <1>4. AgentOK'
    BY <1>2, <1>3 DEF AgentOK, Node
  <1>5. ASSUME NEW q \in Threads
        PROVE  ThreadOK(q)' /\ at'[q] = at[q] /\ loc'[q] = loc[q]
    BY <1>2, <1>3, ThreadKeeps DEF Typed
  <1> QED
    BY <1>2, <1>3, <1>4, <1>5

LEMMA LocalOf ==
    ASSUME Types, NEW p \in Procs
    PROVE  /\ loc[p] \in Local
           /\ loc[p] = [node |-> loc[p].node, next |-> loc[p].next, pprev |-> loc[p].pprev,
                        dest |-> loc[p].dest, old |-> loc[p].old]
           /\ loc[p].node \in Nodes \cup {Null} /\ loc[p].next \in Nodes \cup {Null}
           /\ loc[p].pprev \in Slots \cup {Null} /\ loc[p].dest \in Slots \cup {Null}
           /\ loc[p].old \in Nodes \cup {Null}
           /\ loc = [loc EXCEPT ![p] = loc[p]]
  <1>1. loc \in [Procs -> Local]
    BY DEF Types, ListTypeOK, Local
  <1> QED
    BY <1>1 DEF Local

\* The pointers keep their types.
LEMMA PointersTyped ==
    ASSUME Types, NEW s \in Slots, NEW n \in Nodes \cup {Null}
    PROVE  [ptr EXCEPT ![s] = n] \in [Slots -> Nodes \cup {Null}]
  BY DEF Types, ListTypeOK

LEMMA BackTyped ==
    ASSUME Types, NEW s \in Nodes, NEW n \in Slots \cup {Null}
    PROVE  [pprev EXCEPT ![s] = n] \in [Nodes -> Slots \cup {Null}]
  BY DEF Types, ListTypeOK

LEMMA TypesFrom ==
    ASSUME Types, along' = along, ptr' \in [Slots -> Nodes \cup {Null}],
           pprev' \in [Nodes -> Slots \cup {Null}], loc' \in [Procs -> Local],
           at' \in [Procs -> Labels],
           made' \in [Threads -> Nat], \A t \in Threads : made'[t] <= Opens[t],
           fails' \in 0 .. MaxFailures, buff' \in Zones \cup {Null, AllSent},
           got' \subseteq Zones, added' \in Seq(Zones), asked' \in 0 .. Len(added')
    PROVE  Types'
  BY DEF Types, ListTypeOK, Local

LEMMA MakeZoneTyped ==
    ASSUME Typed, NEW t \in Threads, MakeZone(t)
    PROVE  Typed'
  <1> USE Constants
  <1>0. Types
    BY DEF Typed
  <1>1. made' = [made EXCEPT ![t] = made[t] + 1] /\ made[t] \in Nat /\ made[t] < Opens[t]
    BY <1>0 DEF MakeZone, MayOpen, Types
  <1>2. /\ made' \in [Threads -> Nat] /\ \A q \in Threads : made'[q] <= Opens[q]
        /\ made'[t] = made[t] + 1 /\ \A q \in Threads : q # t => made'[q] = made[q]
    BY <1>0, <1>1 DEF Types
  <1> DEFINE z == <<t, made'[t]>>
             m == [node |-> z, next |-> loc[t].next, pprev |-> loc[t].pprev,
                   dest |-> loc[t].dest, old |-> loc[t].old]
  <1>3. z \in Zones
    <2>1. Opens[t] \in Nat /\ made'[t] \in 1..Opens[t] /\ made'[t] \in Nat
      BY <1>1, <1>2
    <2> QED
      BY <2>1, ZoneFacts
  <1>4. m \in Local /\ loc' = [loc EXCEPT ![t] = m] /\ m.node = z
    <2>1. m \in Local
      BY <1>0, <1>3, LocalOf DEF Local
    <2>2. [loc[t] EXCEPT !.node = z] = m
      <3> DEFINE r == [node |-> loc[t].node, next |-> loc[t].next,
                       pprev |-> loc[t].pprev, dest |-> loc[t].dest,
                       old |-> loc[t].old]
      <3>1. loc[t] = r
        BY <1>0, LocalOf
      <3>2. [r EXCEPT !.node = z] = m
        OBVIOUS
      <3> HIDE DEF r, m
      <3> QED
        BY <3>1, <3>2
    <2>3. loc' = [loc EXCEPT ![t] = [loc[t] EXCEPT !.node = z]]
      BY DEF MakeZone
    <2> QED
      BY <2>1, <2>2, <2>3
  <1>5. at[Agent] \in Hashed => pprev'[Node(Agent)] # Null
    BY DEF MakeZone, Typed, AgentOK
  <1>6. Goto(t, "add_read")
    BY DEF MakeZone
  <1> HIDE DEF m
  <1>7. /\ \A q \in Threads : ThreadOK(q)'
        /\ AgentOK' /\ at' \in [Procs -> Labels] /\ loc' \in [Procs -> Local]
    BY <1>2, <1>3, <1>4, <1>5, <1>6, ThreadActs
  <1>8. Types'
    BY <1>0, <1>2, <1>7, TypesFrom DEF MakeZone, Types, ListTypeOK, ghosts
  <1> QED
    BY <1>7, <1>8 DEF Typed

LEMMA MakeFailsTyped ==
    ASSUME Typed, NEW t \in Threads, MakeFails(t)
    PROVE  Typed'
  <1> USE Constants
  <1>0. Types
    BY DEF Typed
  <1>1. made' = [made EXCEPT ![t] = made[t] + 1] /\ made[t] \in Nat /\ made[t] < Opens[t]
    BY <1>0 DEF MakeFails, MayOpen, Types
  <1>2. /\ made' \in [Threads -> Nat] /\ \A q \in Threads : made'[q] <= Opens[q]
        /\ \A q \in Threads : q # t => made'[q] = made[q]
    BY <1>0, <1>1 DEF Types
  <1>3. fails' \in 0 .. MaxFailures
    BY <1>0 DEF MakeFails, Fail, Types
  <1>4. Types'
    BY <1>0, <1>2, <1>3, TypesFrom DEF MakeFails, Types, ListTypeOK, ghosts, list, Local
  <1>5. ThreadOK(t)'
    BY DEF MakeFails, MayOpen, In, ThreadOK, Typed
  <1>6. ASSUME NEW q \in Threads, q # t
        PROVE  ThreadOK(q)'
    BY <1>2, <1>6, ThreadKeeps DEF MakeFails, Typed, list
  <1>7. AgentOK'
    BY AgentKeeps DEF MakeFails, Typed, list, AgentOK
  <1> QED
    BY <1>4, <1>5, <1>6, <1>7 DEF Typed

\* What a thread that adds its zone knows.
LEMMA Adding ==
    ASSUME Typed, NEW t \in Threads, at[t] # "idle"
    PROVE  /\ Node(t) \in Zones /\ Node(t) = <<t, made[t]>>
           /\ t \in Procs /\ Agent \in Procs /\ Types
           /\ loc[t].next \in Zones \cup {Null}
  BY Constants, LocalOf DEF Typed, ThreadOK, Node

LEMMA AddReadTyped ==
    ASSUME Typed, NEW t \in Threads, AddZone(t), AddRead(t)
    PROVE  Typed' /\ added' = added
  <1> USE Constants
  <1>0. /\ Node(t) \in Zones /\ Node(t) = <<t, made[t]>>
        /\ t \in Procs /\ Agent \in Procs /\ Types
    BY Adding DEF AddRead, In
  <1>1. added' = added
    BY <1>0 DEF AddRead, AddZone, Types, ListTypeOK
  <1>2. ptr[First] \in Zones \cup {Null}
    BY <1>0 DEF Types, ListTypeOK
  <1>3. ptr' \in [Slots -> Nodes \cup {Null}] /\ pprev' \in [Nodes -> Slots \cup {Null}]
    BY <1>0, <1>2, PointersTyped, BackTyped DEF AddRead
  <1> DEFINE m == [node |-> loc[t].node, next |-> ptr[First], pprev |-> loc[t].pprev,
                   dest |-> loc[t].dest, old |-> loc[t].old]
  <1>4. m \in Local /\ loc' = [loc EXCEPT ![t] = m] /\ m.node = Node(t)
    <2>1. m \in Local
      BY <1>0, <1>2, LocalOf DEF Local
    <2>2. [loc[t] EXCEPT !.next = ptr[First]] = m
      <3> DEFINE r == [node |-> loc[t].node, next |-> loc[t].next,
                       pprev |-> loc[t].pprev, dest |-> loc[t].dest,
                       old |-> loc[t].old]
      <3>1. loc[t] = r
        BY <1>0, LocalOf
      <3>2. [r EXCEPT !.next = ptr[First]] = m
        OBVIOUS
      <3> HIDE DEF r, m
      <3> QED
        BY <3>1, <3>2
    <2>3. loc' = [loc EXCEPT ![t] = [loc[t] EXCEPT !.next = ptr[First]]]
      BY DEF AddRead
    <2> QED
      BY <2>1, <2>2, <2>3 DEF Node
  <1>5. at[Agent] \in Hashed => pprev'[Node(Agent)] # Null
    <2>1. \A n \in Nodes : pprev'[n] = IF n = Node(t) THEN First ELSE pprev[n]
      BY <1>0 DEF AddRead, Types, ListTypeOK
    <2> QED
      BY <2>1 DEF Typed, AgentOK, Hashed, WithZone
  <1>6. Goto(t, "add_back") /\ made' = made
    BY DEF AddRead, AddZone
  <1> HIDE DEF m
  <1>7. /\ \A q \in Threads : ThreadOK(q)'
        /\ AgentOK' /\ at' \in [Procs -> Labels] /\ loc' \in [Procs -> Local]
    BY <1>0, <1>4, <1>5, <1>6, ThreadActs
  <1>8. Types'
    BY <1>0, <1>1, <1>3, <1>6, <1>7, TypesFrom DEF AddZone, Types
  <1> QED
    BY <1>1, <1>7, <1>8 DEF Typed

LEMMA AddBackTyped ==
    ASSUME Typed, NEW t \in Threads, AddZone(t), AddBack(t)
    PROVE  Typed' /\ added' = added
  <1> USE Constants
  <1>0. /\ Node(t) \in Zones /\ Node(t) = <<t, made[t]>>
        /\ t \in Procs /\ Agent \in Procs /\ Types /\ loc[t].next \in Zones \cup {Null}
    BY Adding DEF AddBack, In
  <1>1. added' = added
    BY DEF AddBack, AddZone
  <1>2. /\ pprev' \in [Nodes -> Slots \cup {Null}]
        /\ \A n \in Nodes : pprev'[n] # pprev[n] => pprev'[n] = Node(t)
    <2>1. CASE loc[t].next = Null
      BY <1>0, <2>1 DEF AddBack, Types, ListTypeOK
    <2>2. CASE loc[t].next # Null
      BY <1>0, <2>2 DEF AddBack, Types, ListTypeOK
    <2> QED
      BY <2>1, <2>2
  <1>3. at[Agent] \in Hashed => pprev'[Node(Agent)] # Null
    BY <1>0, <1>2 DEF Typed, AgentOK, Hashed, WithZone
  <1>4. loc[t] \in Local /\ loc' = [loc EXCEPT ![t] = loc[t]] /\ loc[t].node = Node(t)
    BY <1>0, LocalOf DEF AddBack, Node
  <1>5. Goto(t, "add_swap") /\ made' = made
    BY DEF AddBack, AddZone
  <1>6. /\ \A q \in Threads : ThreadOK(q)'
        /\ AgentOK' /\ at' \in [Procs -> Labels] /\ loc' \in [Procs -> Local]
    BY <1>0, <1>3, <1>4, <1>5, ThreadActs
  <1>7. Types'
    BY <1>0, <1>1, <1>2, <1>5, <1>6, TypesFrom DEF AddZone, AddBack, Types, ListTypeOK
  <1> QED
    BY <1>1, <1>6, <1>7 DEF Typed

LEMMA AddSwapTyped ==
    ASSUME Typed, NEW t \in Threads, AddZone(t), AddSwap(t, "idle")
    PROVE  Typed'
  <1> USE Constants
  <1>0. /\ Node(t) \in Zones /\ Node(t) = <<t, made[t]>>
        /\ t \in Procs /\ Agent \in Procs /\ Types
    BY Adding DEF AddSwap, In
  <1>1. added' \in Seq(Zones) /\ Len(added) \in Nat /\ Len(added') >= Len(added)
    <2>1. added \in Seq(Zones) /\ (added' = added \/ added' = Append(added, Node(t)))
      BY <1>0 DEF AddZone, Types
    <2>2. /\ Append(added, Node(t)) \in Seq(Zones)
          /\ Len(Append(added, Node(t))) = Len(added) + 1 /\ Len(added) \in Nat
      BY <1>0, <2>1, AppendProperties
    <2> QED
      BY <2>1, <2>2
  <1>2. ptr' \in [Slots -> Nodes \cup {Null}]
    <2>1. ptr' = ptr \/ ptr' = [ptr EXCEPT ![First] = Node(t)]
      BY DEF AddSwap
    <2>2. [ptr EXCEPT ![First] = Node(t)] \in [Slots -> Nodes \cup {Null}]
      BY <1>0, PointersTyped
    <2>3. ptr \in [Slots -> Nodes \cup {Null}]
      BY <1>0 DEF Types, ListTypeOK
    <2> QED
      BY <2>1, <2>2, <2>3
  <1>3. at[Agent] \in Hashed => pprev'[Node(Agent)] # Null
    BY DEF AddSwap, Typed, AgentOK
  <1>4. loc[t] \in Local /\ loc' = [loc EXCEPT ![t] = loc[t]] /\ loc[t].node = Node(t)
    BY <1>0, LocalOf DEF AddSwap, Node
  <1>5. made' = made /\ (Goto(t, "idle") \/ Goto(t, "add_read"))
    BY DEF AddSwap, AddZone
  <1>6. /\ \A q \in Threads : ThreadOK(q)'
        /\ AgentOK' /\ at' \in [Procs -> Labels] /\ loc' \in [Procs -> Local]
    BY <1>0, <1>3, <1>4, <1>5, ThreadActs
  <1>7. asked' \in 0..Len(added')
    BY <1>0, <1>1 DEF AddZone, Types
  <1>8. Types'
    BY <1>0, <1>1, <1>2, <1>5, <1>6, <1>7, TypesFrom DEF AddZone, AddSwap, Types, ListTypeOK
  <1> QED
    BY <1>6, <1>8 DEF Typed

LEMMA IoctlTyped ==
    ASSUME Typed, Ioctl
    PROVE  Typed'
  <1> USE Constants
  <1>0. Types /\ AgentOK /\ Agent \in Procs
    BY DEF Typed
  <1>1. loc[Agent] \in Local /\ loc' = [loc EXCEPT ![Agent] = loc[Agent]]
    BY <1>0, LocalOf DEF Ioctl, list
  <1>2. Goto(Agent, "read_bucket") /\ made' = made /\ "read_bucket" \in Labels
    BY DEF Ioctl, Labels
  <1>3. /\ \A q \in Threads : ThreadOK(q)'
        /\ AgentOK' /\ at' \in [Procs -> Labels] /\ loc' \in [Procs -> Local]
    BY <1>1, <1>2, AgentActs DEF WithZone, Hashed, HasRead, HasDest, Deleting
  <1>4. Types'
    BY <1>0, <1>3, TypesFrom DEF Ioctl, Types, ListTypeOK, list, ghosts
  <1> QED
    BY <1>3, <1>4 DEF Typed

LEMMA NoMoreDataTyped ==
    ASSUME Typed, NoMoreData
    PROVE  Typed'
  <1> USE Constants
  <1>0. Types /\ AgentOK /\ Agent \in Procs
    BY DEF Typed
  <1>1. loc[Agent] \in Local /\ loc' = [loc EXCEPT ![Agent] = loc[Agent]]
    BY <1>0, LocalOf DEF NoMoreData, list
  <1>2. Goto(Agent, "answered") /\ made' = made /\ "answered" \in Labels
    BY DEF NoMoreData, Labels
  <1>3. /\ \A q \in Threads : ThreadOK(q)'
        /\ AgentOK' /\ at' \in [Procs -> Labels] /\ loc' \in [Procs -> Local]
    BY <1>1, <1>2, AgentActs DEF WithZone, Hashed, HasRead, HasDest, Deleting
  <1>4. Types'
    BY <1>0, <1>3, TypesFrom DEF NoMoreData, Types, ListTypeOK, list, ghosts, Fail
  <1> QED
    BY <1>3, <1>4 DEF Typed

LEMMA CopyZoneTyped ==
    ASSUME Typed, CopyZone
    PROVE  Typed'
  <1> USE Constants
  <1>0. Types /\ AgentOK /\ Agent \in Procs
    BY DEF Typed
  <1>1. loc[Agent] \in Local /\ loc' = [loc EXCEPT ![Agent] = loc[Agent]]
    BY <1>0, LocalOf DEF CopyZone, list
  <1>2. Goto(Agent, "del_start") /\ made' = made /\ "del_start" \in Labels
    BY DEF CopyZone, Labels
  <1>3. /\ \A q \in Threads : ThreadOK(q)'
        /\ AgentOK' /\ at' \in [Procs -> Labels] /\ loc' \in [Procs -> Local]
    <2>1. loc[Agent].node \in Zones
      BY <1>0 DEF CopyZone, In, AgentOK, WithZone, Node
    <2> QED
      BY <1>1, <1>2, <2>1, AgentActs DEF WithZone, Hashed, HasRead, HasDest, Deleting
  <1>4. Types'
    BY <1>0, <1>3, TypesFrom DEF CopyZone, Types, ListTypeOK, list, ghosts, AgentOK, In, Node, WithZone
  <1> QED
    BY <1>3, <1>4 DEF Typed

LEMMA CopyFailsTyped ==
    ASSUME Typed, CopyFails
    PROVE  Typed'
  <1> USE Constants
  <1>0. Types /\ AgentOK /\ Agent \in Procs
    BY DEF Typed
  <1>1. loc[Agent] \in Local /\ loc' = [loc EXCEPT ![Agent] = loc[Agent]]
    BY <1>0, LocalOf DEF CopyFails, list
  <1>2. Goto(Agent, "idle") /\ made' = made /\ "idle" \in Labels
    BY DEF CopyFails, Labels
  <1>3. /\ \A q \in Threads : ThreadOK(q)'
        /\ AgentOK' /\ at' \in [Procs -> Labels] /\ loc' \in [Procs -> Local]
    BY <1>1, <1>2, AgentActs DEF WithZone, Hashed, HasRead, HasDest, Deleting
  <1>4. Types'
    BY <1>0, <1>3, TypesFrom DEF CopyFails, Types, ListTypeOK, list, ghosts, Fail
  <1> QED
    BY <1>3, <1>4 DEF Typed

LEMMA AnsweredTyped ==
    ASSUME Typed, Answered
    PROVE  Typed'
  <1> USE Constants
  <1>0. Types /\ AgentOK /\ Agent \in Procs
    BY DEF Typed
  <1>1. loc[Agent] \in Local /\ loc' = [loc EXCEPT ![Agent] = loc[Agent]]
    BY <1>0, LocalOf DEF Answered, list
  <1>2. Goto(Agent, "idle") /\ made' = made /\ "idle" \in Labels
    BY DEF Answered, Labels
  <1>3. /\ \A q \in Threads : ThreadOK(q)'
        /\ AgentOK' /\ at' \in [Procs -> Labels] /\ loc' \in [Procs -> Local]
    BY <1>1, <1>2, AgentActs DEF WithZone, Hashed, HasRead, HasDest, Deleting
  <1>4. Types'
    BY <1>0, <1>3, TypesFrom DEF Answered, Types, ListTypeOK, list, ghosts
  <1> QED
    BY <1>3, <1>4 DEF Typed

LEMMA FindZoneTyped ==
    ASSUME Typed, FindZone
    PROVE  Typed'
  <1> USE Constants
  <1>0. Types /\ AgentOK /\ Agent \in Procs
    BY DEF Typed
  <1>1. ptr[First] \in Zones
    BY <1>0 DEF FindZone, Types, ListTypeOK
  <1> DEFINE m == [node |-> ptr[First], next |-> loc[Agent].next, pprev |-> loc[Agent].pprev,
                   dest |-> loc[Agent].dest, old |-> loc[Agent].old]
  <1>2. m \in Local /\ loc' = [loc EXCEPT ![Agent] = m] /\ m.node = ptr[First]
    <2>1. m \in Local
      BY <1>0, <1>1, LocalOf DEF Local
    <2>2. [loc[Agent] EXCEPT !.node = ptr[First]] = m
      <3> DEFINE r == [node |-> loc[Agent].node, next |-> loc[Agent].next,
                       pprev |-> loc[Agent].pprev, dest |-> loc[Agent].dest,
                       old |-> loc[Agent].old]
      <3>1. loc[Agent] = r
        BY <1>0, LocalOf
      <3>2. [r EXCEPT !.node = ptr[First]] = m
        OBVIOUS
      <3> HIDE DEF r, m
      <3> QED
        BY <3>1, <3>2
    <2>3. loc' = [loc EXCEPT ![Agent] = [loc[Agent] EXCEPT !.node = ptr[First]]]
      BY DEF FindZone
    <2> QED
      BY <2>1, <2>2, <2>3
  <1>3. Goto(Agent, "copy") /\ made' = made /\ "copy" \in Labels
    BY DEF FindZone, Labels
  <1> HIDE DEF m
  <1>4. /\ \A q \in Threads : ThreadOK(q)'
        /\ AgentOK' /\ at' \in [Procs -> Labels] /\ loc' \in [Procs -> Local]
    BY <1>1, <1>2, <1>3, AgentActs DEF Hashed, HasRead, HasDest, Deleting
  <1>5. Types'
    BY <1>0, <1>4, TypesFrom DEF FindZone, Types, ListTypeOK, ghosts
  <1> QED
    BY <1>4, <1>5 DEF Typed

\* What the agent knows while it deletes a node.
LEMMA DeletingFacts ==
    ASSUME Typed, at[Agent] \in Deleting \cup {"del_init"}
    PROVE  /\ Node(Agent) \in Zones
           /\ at[Agent] \in Hashed => pprev[Node(Agent)] \in Slots
           /\ at[Agent] \in HasRead => loc[Agent].pprev \in Slots
           /\ at[Agent] \in HasDest => loc[Agent].dest \in Slots
           /\ loc[Agent].next \in Zones \cup {Null}
           /\ Types /\ Agent \in Procs
  <1>1. Node(Agent) \in Zones /\ Types /\ Agent \in Procs
    BY Constants DEF Typed, AgentOK, WithZone
  <1> QED
    BY <1>1, Constants, LocalOf DEF Typed, AgentOK, Types, ListTypeOK

LEMMA DelStartTyped ==
    ASSUME Typed, DeleteZone, DelStart(Agent, "answered")
    PROVE  Typed'
  <1> USE Constants
  <1>0. Types /\ Agent \in Procs /\ Node(Agent) \in Zones
    BY DeletingFacts DEF DelStart, In, Deleting
  <1>1. loc[Agent] \in Local /\ loc' = [loc EXCEPT ![Agent] = loc[Agent]] /\ loc[Agent].node = Node(Agent)
    BY <1>0, LocalOf DEF DelStart, Node
  <1> DEFINE l == IF pprev[Node(Agent)] = Null THEN "answered" ELSE "del_read"
  <1>2. Goto(Agent, l) /\ made' = made /\ l \in Labels /\ pprev' = pprev
    BY DEF DelStart, DeleteZone, Labels
  <1>3. /\ \A q \in Threads : ThreadOK(q)'
        /\ AgentOK' /\ at' \in [Procs -> Labels] /\ loc' \in [Procs -> Local]
    <2>1. /\ l \notin {"add_read", "add_back", "add_swap"} /\ l \notin HasRead /\ l \notin HasDest
          /\ l \in Hashed => pprev'[loc[Agent].node] # Null
      BY <1>1, <1>2 DEF Hashed, HasRead, HasDest, Deleting
    <2> HIDE DEF l
    <2> QED
      BY <1>0, <1>1, <1>2, <2>1, AgentActs
  <1>4. Types'
    BY <1>0, <1>3, TypesFrom DEF DelStart, DeleteZone, Types, ListTypeOK, ghosts
  <1> QED
    BY <1>3, <1>4 DEF Typed

LEMMA DelReadTyped ==
    ASSUME Typed, DeleteZone, DelRead(Agent)
    PROVE  Typed'
  <1> USE Constants
  <1>0. Types /\ Agent \in Procs /\ Node(Agent) \in Zones /\ pprev[Node(Agent)] \in Slots
    BY DeletingFacts DEF DelRead, In, Deleting, Hashed
  <1>1. ptr[Node(Agent)] \in Zones \cup {Null}
    BY <1>0 DEF Types, ListTypeOK
  <1> DEFINE m == [node |-> loc[Agent].node, next |-> ptr[Node(Agent)],
                   pprev |-> pprev[Node(Agent)], dest |-> loc[Agent].dest,
                   old |-> loc[Agent].old]
  <1>2. m \in Local /\ loc' = [loc EXCEPT ![Agent] = m] /\ m.node = Node(Agent)
        /\ m.pprev = pprev[Node(Agent)]
    <2>1. m \in Local
      BY <1>0, <1>1, LocalOf DEF Local
    <2>2. [loc[Agent] EXCEPT !.next = ptr[Node(Agent)], !.pprev = pprev[Node(Agent)]] = m
      <3> DEFINE r == [node |-> loc[Agent].node, next |-> loc[Agent].next,
                       pprev |-> loc[Agent].pprev, dest |-> loc[Agent].dest,
                       old |-> loc[Agent].old]
      <3>1. loc[Agent] = r
        BY <1>0, LocalOf
      <3>2. [r EXCEPT !.next = ptr[Node(Agent)], !.pprev = pprev[Node(Agent)]] = m
        <4> DEFINE s == [node |-> loc[Agent].node, next |-> ptr[Node(Agent)],
                         pprev |-> loc[Agent].pprev, dest |-> loc[Agent].dest,
                         old |-> loc[Agent].old]
        <4>1. [r EXCEPT !.next = ptr[Node(Agent)]] = s
          OBVIOUS
        <4>2. [s EXCEPT !.pprev = pprev[Node(Agent)]] = m
          OBVIOUS
        <4> HIDE DEF r, s, m
        <4> QED
          BY <4>1, <4>2
      <3> HIDE DEF r, m
      <3> QED
        BY <3>1, <3>2
    <2>3. loc' = [loc EXCEPT ![Agent] =
                    [loc[Agent] EXCEPT !.next = ptr[Node(Agent)], !.pprev = pprev[Node(Agent)]]]
      BY <1>0 DEF DelRead, Types, ListTypeOK
    <2> QED
      BY <2>1, <2>2, <2>3 DEF Node
  <1>3. Goto(Agent, "del_back") /\ made' = made /\ "del_back" \in Labels /\ pprev' = pprev
    BY DEF DelRead, DeleteZone, Labels
  <1> HIDE DEF m
  <1>4. /\ \A q \in Threads : ThreadOK(q)'
        /\ AgentOK' /\ at' \in [Procs -> Labels] /\ loc' \in [Procs -> Local]
    BY <1>0, <1>2, <1>3, AgentActs DEF HasDest
  <1>5. Types'
    BY <1>0, <1>4, TypesFrom DEF DelRead, DeleteZone, Types, ListTypeOK, ghosts
  <1> QED
    BY <1>4, <1>5 DEF Typed

LEMMA DelBackTyped ==
    ASSUME Typed, DeleteZone, DelBack(Agent)
    PROVE  Typed'
  <1> USE Constants
  <1>0. /\ Types /\ Agent \in Procs /\ Node(Agent) \in Zones /\ pprev[Node(Agent)] \in Slots
        /\ loc[Agent].pprev \in Slots /\ loc[Agent].next \in Zones \cup {Null}
    BY DeletingFacts DEF DelBack, In, Deleting, Hashed, HasRead
  <1>1. loc[Agent] \in Local /\ loc' = [loc EXCEPT ![Agent] = loc[Agent]] /\ loc[Agent].node = Node(Agent)
    BY <1>0, LocalOf DEF DelBack, Node
  <1>2. Goto(Agent, "del_load") /\ made' = made /\ "del_load" \in Labels
    BY DEF DelBack, DeleteZone, Labels
  <1>3. pprev' \in [Nodes -> Slots \cup {Null}] /\ pprev'[Node(Agent)] # Null
    <2>1. CASE loc[Agent].next = Null
      BY <1>0, <2>1 DEF DelBack, Types, ListTypeOK
    <2>2. CASE loc[Agent].next # Null
      BY <1>0, <2>2 DEF DelBack, Types, ListTypeOK
    <2> QED
      BY <2>1, <2>2
  <1>4. /\ \A q \in Threads : ThreadOK(q)'
        /\ AgentOK' /\ at' \in [Procs -> Labels] /\ loc' \in [Procs -> Local]
    BY <1>0, <1>1, <1>2, <1>3, AgentActs DEF HasDest
  <1>5. Types'
    BY <1>0, <1>3, <1>4, TypesFrom DEF DelBack, DeleteZone, Types, ListTypeOK, ghosts
  <1> QED
    BY <1>4, <1>5 DEF Typed

LEMMA DelLoadDestTyped ==
    ASSUME Typed, DeleteZone, DelLoadDest(Agent)
    PROVE  Typed'
  <1> USE Constants
  <1>0. /\ Types /\ Agent \in Procs /\ Node(Agent) \in Zones /\ pprev[Node(Agent)] \in Slots
        /\ loc[Agent].pprev \in Slots
    BY DeletingFacts DEF DelLoadDest, In, Deleting, Hashed, HasRead
  <1> DEFINE m == [node |-> loc[Agent].node, next |-> loc[Agent].next,
                   pprev |-> loc[Agent].pprev, dest |-> pprev[Node(Agent)],
                   old |-> loc[Agent].old]
  <1>2. /\ m \in Local /\ loc' = [loc EXCEPT ![Agent] = m] /\ m.node = Node(Agent)
        /\ m.pprev = loc[Agent].pprev /\ m.dest = pprev[Node(Agent)]
    <2>1. m \in Local
      BY <1>0, LocalOf DEF Local
    <2>2. [loc[Agent] EXCEPT !.dest = pprev[Node(Agent)]] = m
      <3> DEFINE r == [node |-> loc[Agent].node, next |-> loc[Agent].next,
                       pprev |-> loc[Agent].pprev, dest |-> loc[Agent].dest,
                       old |-> loc[Agent].old]
      <3>1. loc[Agent] = r
        BY <1>0, LocalOf
      <3>2. [r EXCEPT !.dest = pprev[Node(Agent)]] = m
        OBVIOUS
      <3> HIDE DEF r, m
      <3> QED
        BY <3>1, <3>2
    <2>3. loc' = [loc EXCEPT ![Agent] = [loc[Agent] EXCEPT !.dest = pprev[Node(Agent)]]]
      BY DEF DelLoadDest
    <2> QED
      BY <2>1, <2>2, <2>3 DEF Node
  <1> DEFINE l == IF In(Agent, "del_load") THEN "del_load_old" ELSE "del_swap"
  <1>3. Goto(Agent, l) /\ made' = made /\ l \in Labels /\ pprev' = pprev
        /\ l \notin {"add_read", "add_back", "add_swap"}
    BY DEF DelLoadDest, DeleteZone, Labels
  <1> HIDE DEF m, l
  <1>4. /\ \A q \in Threads : ThreadOK(q)'
        /\ AgentOK' /\ at' \in [Procs -> Labels] /\ loc' \in [Procs -> Local]
    <2>1. /\ m.node \in Zones /\ pprev'[m.node] # Null /\ m.pprev # Null
          /\ l \in HasDest => m.dest # Null
      BY <1>0, <1>2, <1>3
    <2> QED
      BY <1>2, <1>3, <2>1, AgentActs
  <1>5. Types'
    BY <1>0, <1>4, TypesFrom DEF DelLoadDest, DeleteZone, Types, ListTypeOK, ghosts
  <1> QED
    BY <1>4, <1>5 DEF Typed

LEMMA DelLoadOldTyped ==
    ASSUME Typed, DeleteZone, DelLoadOld(Agent)
    PROVE  Typed'
  <1> USE Constants
  <1>0. /\ Types /\ Agent \in Procs /\ Node(Agent) \in Zones /\ pprev[Node(Agent)] \in Slots
        /\ loc[Agent].pprev \in Slots
        /\ at[Agent] = "del_load_old" => loc[Agent].dest \in Slots
    BY DeletingFacts DEF DelLoadOld, In, Deleting, Hashed, HasRead, HasDest
  <1> DEFINE m == [node |-> loc[Agent].node, next |-> loc[Agent].next,
                   pprev |-> loc[Agent].pprev, dest |-> loc[Agent].dest,
                   old |-> ptr[loc[Agent].pprev]]
  <1>2. /\ m \in Local /\ loc' = [loc EXCEPT ![Agent] = m] /\ m.node = Node(Agent)
        /\ m.pprev = loc[Agent].pprev /\ m.dest = loc[Agent].dest
    <2>1. ptr[loc[Agent].pprev] \in Nodes \cup {Null}
      BY <1>0 DEF Types, ListTypeOK
    <2>2. m \in Local
      BY <1>0, <2>1, LocalOf DEF Local
    <2>3. [loc[Agent] EXCEPT !.old = ptr[loc[Agent].pprev]] = m
      <3> DEFINE r == [node |-> loc[Agent].node, next |-> loc[Agent].next,
                       pprev |-> loc[Agent].pprev, dest |-> loc[Agent].dest,
                       old |-> loc[Agent].old]
      <3>1. loc[Agent] = r
        BY <1>0, LocalOf
      <3>2. [r EXCEPT !.old = ptr[loc[Agent].pprev]] = m
        OBVIOUS
      <3> HIDE DEF r, m
      <3> QED
        BY <3>1, <3>2
    <2>4. loc' = [loc EXCEPT ![Agent] = [loc[Agent] EXCEPT !.old = ptr[loc[Agent].pprev]]]
      BY DEF DelLoadOld
    <2> QED
      BY <2>2, <2>3, <2>4 DEF Node
  <1> DEFINE l == IF In(Agent, "del_load") THEN "del_load_dest" ELSE "del_swap"
  <1>3. /\ Goto(Agent, l) /\ made' = made /\ l \in Labels /\ pprev' = pprev
        /\ l \notin {"add_read", "add_back", "add_swap"}
        /\ l \in HasDest => at[Agent] = "del_load_old"
    BY DEF DelLoadOld, DeleteZone, Labels, In, HasDest
  <1> HIDE DEF m, l
  <1>4. /\ \A q \in Threads : ThreadOK(q)'
        /\ AgentOK' /\ at' \in [Procs -> Labels] /\ loc' \in [Procs -> Local]
    <2>1. /\ m.node \in Zones /\ pprev'[m.node] # Null /\ m.pprev # Null
          /\ l \in HasDest => m.dest # Null
      BY <1>0, <1>2, <1>3
    <2> QED
      BY <1>2, <1>3, <2>1, AgentActs
  <1>5. Types'
    BY <1>0, <1>4, TypesFrom DEF DelLoadOld, DeleteZone, Types, ListTypeOK, ghosts
  <1> QED
    BY <1>4, <1>5 DEF Typed

LEMMA DelSwapTyped ==
    ASSUME Typed, DeleteZone, DelSwap(Agent)
    PROVE  Typed'
  <1> USE Constants
  <1>0. /\ Types /\ Agent \in Procs /\ Node(Agent) \in Zones /\ pprev[Node(Agent)] \in Slots
        /\ loc[Agent].pprev \in Slots /\ loc[Agent].dest \in Slots
        /\ loc[Agent].next \in Zones \cup {Null}
    BY DeletingFacts DEF DelSwap, In, Deleting, Hashed, HasRead, HasDest
  <1>1. loc[Agent] \in Local /\ loc' = [loc EXCEPT ![Agent] = loc[Agent]] /\ loc[Agent].node = Node(Agent)
    BY <1>0, LocalOf DEF DelSwap, Node
  <1>2. made' = made /\ pprev' = pprev /\ (Goto(Agent, "del_init") \/ Goto(Agent, "del_read"))
    BY DEF DelSwap, DeleteZone
  <1>3. ptr' \in [Slots -> Nodes \cup {Null}]
    <2>1. ptr' \in {ptr, [ptr EXCEPT ![loc[Agent].dest] = loc[Agent].next]}
      BY DEF DelSwap
    <2> QED
      BY <1>0, <2>1, PointersTyped DEF Types, ListTypeOK
  <1>4. /\ \A q \in Threads : ThreadOK(q)'
        /\ AgentOK' /\ at' \in [Procs -> Labels] /\ loc' \in [Procs -> Local]
    <2>1. "del_init" \in Labels /\ "del_read" \in Labels /\ "del_init" \notin HasDest
          /\ "del_read" \notin HasDest
      BY DEF Labels, HasDest
    <2>2. CASE Goto(Agent, "del_init")
      BY <1>0, <1>1, <1>2, <2>1, <2>2, AgentActs
    <2>3. CASE Goto(Agent, "del_read")
      BY <1>0, <1>1, <1>2, <2>1, <2>3, AgentActs
    <2> QED
      BY <1>2, <2>2, <2>3
  <1>5. Types'
    BY <1>0, <1>3, <1>4, TypesFrom DEF DelSwap, DeleteZone, Types, ListTypeOK, ghosts
  <1> QED
    BY <1>4, <1>5 DEF Typed

LEMMA DelInitTyped ==
    ASSUME Typed, DeleteZone, DelInit(Agent, "answered")
    PROVE  Typed'
  <1> USE Constants
  <1>0. Types /\ Agent \in Procs /\ Node(Agent) \in Zones
    BY DeletingFacts DEF DelInit, In
  <1>1. loc[Agent] \in Local /\ loc' = [loc EXCEPT ![Agent] = loc[Agent]]
    BY <1>0, LocalOf DEF DelInit, Node
  <1>2. Goto(Agent, "answered") /\ made' = made /\ "answered" \in Labels
    BY DEF DelInit, DeleteZone, Labels
  <1>3. ptr' \in [Slots -> Nodes \cup {Null}] /\ pprev' \in [Nodes -> Slots \cup {Null}]
    BY <1>0, PointersTyped, BackTyped DEF DelInit
  <1>4. /\ \A q \in Threads : ThreadOK(q)'
        /\ AgentOK' /\ at' \in [Procs -> Labels] /\ loc' \in [Procs -> Local]
    BY <1>1, <1>2, AgentActs DEF WithZone, Hashed, HasRead, HasDest, Deleting
  <1>5. Types'
    BY <1>0, <1>3, <1>4, TypesFrom DEF DelInit, DeleteZone, Types, ListTypeOK, ghosts
  <1> QED
    BY <1>4, <1>5 DEF Typed

LEMMA TypedStep == Typed /\ [Next]_vars => Typed'
  <1> SUFFICES ASSUME Typed, [Next]_vars PROVE Typed'
    OBVIOUS
  <1>1. CASE UNCHANGED vars
    BY <1>1 DEF vars, list, ghosts, Typed, Types, ListTypeOK, ThreadOK, AgentOK, Node
  <1>2. CASE Reader
    <2>1. CASE DeleteZone
      BY <2>1, DelStartTyped, DelReadTyped, DelBackTyped, DelLoadDestTyped, DelLoadOldTyped,
         DelSwapTyped, DelInitTyped DEF DeleteZone, Delete
    <2> QED
      BY <1>2, <2>1, IoctlTyped, FindZoneTyped, NoMoreDataTyped, CopyZoneTyped, CopyFailsTyped,
         AnsweredTyped DEF Reader
  <1>3. ASSUME NEW t \in Threads, Thread(t)
        PROVE  Typed'
    <2>1. CASE AddZone(t)
      BY <2>1, AddReadTyped, AddBackTyped, AddSwapTyped DEF AddZone, AddHead
    <2> QED
      BY <1>3, <2>1, MakeZoneTyped, MakeFailsTyped DEF Thread
  <1> QED
    BY <1>1, <1>2, <1>3 DEF Next
-----------------------------------------------------------------------------
(* The order of the zones, for an agent that starts when the program has   *)
(* ended: first the threads, which find no agent at work.                  *)

LEMMA AddedFacts ==
    ASSUME Typed
    PROVE  /\ Len(added) \in Nat /\ DOMAIN added = 1..Len(added)
           /\ \A i \in 1..Len(added) : added[i] \in Zones /\ added[i] # Null
           /\ Top(0) = Null /\ \A i \in 1..Len(added) : Top(i) = added[i]
  <1>1. added \in Seq(Zones)
    BY DEF Typed, Types
  <1> QED
    BY <1>1, Constants DEF Top

LEMMA ThreadPhase ==
    ASSUME Typed, NEW k \in 0 .. Len(added), Late(k), ~ThreadsDone
    PROVE  at[Agent] = "idle" /\ k = Len(added) /\ got = {}
  <1>1. at[Agent] = "idle" /\ k = Len(added)
    <2>1. Len(added) \in Nat
      BY AddedFacts
    <2>2. ~(at[Agent] # "idle" \/ k < Len(added))
      BY DEF Late
    <2> QED
      BY <2>1, <2>2
  <1>2. (k + 1) .. Len(added) = {}
    BY <1>1, AddedFacts
  <1> QED
    BY <1>1, <1>2 DEF Late, Deleting

LEMMA ThreadLate ==
    ASSUME Typed', NEW k \in Nat, Len(added') = k, at'[Agent] = "idle", got' = {},
           Chain(k)', Distinct', Back(k)', \A q \in Threads : Linking(q)'
    PROVE  (\E n \in 0 .. Len(added) : Late(n))'
  <1>1. k \in 0 .. Len(added') /\ (k + 1) .. Len(added') = {}
    OBVIOUS
  <1>2. Deletes(k)'
    BY DEF Deletes, Deleting, HasRead, Hashed, HasDest, HasOld
  <1>3. got' = {added'[j] : j \in (k + 1) .. Len(added')}
                 \cup (IF at'[Agent] \in Deleting THEN {added'[k]} ELSE {})
    BY <1>1 DEF Deleting
  <1>4. ~(at'[Agent] # "idle" \/ k < Len(added'))
    OBVIOUS
  <1>5. Late(k)'
    BY <1>2, <1>3, <1>4 DEF Late
  <1> QED
    BY <1>1, <1>5

\* A node that is not added yet is none of the table.
LEMMA NewNode ==
    ASSUME Typed, Distinct, NEW t \in Threads, at[t] # "idle"
    PROVE  /\ \A i \in 1..Len(added) : added[i] # Node(t)
           /\ \A i \in 0..Len(added) : Top(i) # Node(t)
           /\ \A q \in Threads : q # t /\ at[q] # "idle" => Node(q) # Node(t)
           /\ Node(t) \in Zones /\ Node(t) # Null /\ Node(t) # First
  <1>1. Node(t) = <<t, made[t]>> /\ Node(t) \in Zones
    BY Adding
  <1>2. \A i \in 1..Len(added) : added[i] # Node(t)
    <2> SUFFICES ASSUME NEW i \in 1..Len(added), added[i] = Node(t) PROVE FALSE
      OBVIOUS
    <2>1. added[i][1] = t /\ added[i][2] = made[t]
      BY <1>1
    <2> QED
      BY <2>1, AddedFacts DEF Distinct
  <1>3. \A i \in 0..Len(added) : Top(i) # Node(t)
    BY <1>1, <1>2, AddedFacts, Constants DEF Top
  <1>4. \A q \in Threads : q # t /\ at[q] # "idle" => Node(q) # Node(t)
    <2> SUFFICES ASSUME NEW q \in Threads, q # t, at[q] # "idle" PROVE Node(q) # Node(t)
      OBVIOUS
    <2>1. Node(q) = <<q, made[q]>>
      BY Adding
    <2> QED
      BY <1>1, <2>1
  <1> QED
    BY <1>1, <1>2, <1>3, <1>4, Constants

LEMMA MakeZoneLate ==
    ASSUME Typed, Typed', NEW k \in 0 .. Len(added), Late(k), NEW t \in Threads, MakeZone(t)
    PROVE  (\E n \in 0 .. Len(added) : Late(n))'
  <1> USE Constants
  <1>1. at[Agent] = "idle" /\ k = Len(added) /\ got = {} /\ at[t] = "idle"
    <2>1. made[t] < Opens[t] /\ made[t] \in Nat /\ Opens[t] \in Nat /\ at[t] = "idle"
      BY DEF MakeZone, MayOpen, In, Typed, Types
    <2>2. ~ThreadsDone
      BY <2>1 DEF ThreadsDone
    <2> QED
      BY <2>1, <2>2, ThreadPhase
  <1>2. /\ at'[t] = "add_read" /\ at'[Agent] = "idle"
        /\ \A q \in Threads : q # t => at'[q] = at[q]
    BY <1>1 DEF MakeZone, Goto, Typed, Types
  <1>3. \A q \in Threads : q # t => loc'[q] = loc[q]
    BY DEF MakeZone, Typed, Types, ListTypeOK
  <1>4. made' = [made EXCEPT ![t] = made[t] + 1] /\ made \in [Threads -> Nat]
    BY DEF MakeZone, Typed, Types
  <1>5. UNCHANGED <<ptr, pprev, added, got>>
    BY DEF MakeZone, ghosts
  <1>6. Chain(k)'
    BY <1>1, <1>5 DEF Late, Chain, Top
  <1>7. Distinct'
    <2>1. \A i \in DOMAIN added : added[i][2] \in Int
      BY AddedFacts, ZoneFacts
    <2> QED
      BY <1>1, <1>2, <1>4, <1>5, <2>1 DEF Late, Distinct
  <1>8. Back(k)'
    BY <1>1, <1>2, <1>3, <1>5 DEF Late, Back
  <1>9. ASSUME NEW q \in Threads
        PROVE  Linking(q)'
    BY <1>2, <1>3, <1>5 DEF Late, Linking, Node, Top
  <1> QED
    BY <1>1, <1>2, <1>5, <1>6, <1>7, <1>8, <1>9, ThreadLate

LEMMA MakeFailsLate ==
    ASSUME Typed, Typed', NEW k \in 0 .. Len(added), Late(k), NEW t \in Threads, MakeFails(t)
    PROVE  (\E n \in 0 .. Len(added) : Late(n))'
  <1> USE Constants
  <1>1. at[Agent] = "idle" /\ k = Len(added) /\ got = {} /\ at[t] = "idle"
    <2>1. made[t] < Opens[t] /\ made[t] \in Nat /\ Opens[t] \in Nat /\ at[t] = "idle"
      BY DEF MakeFails, MayOpen, In, Typed, Types
    <2>2. ~ThreadsDone
      BY <2>1 DEF ThreadsDone
    <2> QED
      BY <2>1, <2>2, ThreadPhase
  <1>2. made' = [made EXCEPT ![t] = made[t] + 1] /\ made \in [Threads -> Nat]
    BY DEF MakeFails, Typed, Types
  <1>3. UNCHANGED <<ptr, pprev, loc, at, added, got>>
    BY DEF MakeFails, ghosts, list
  <1>4. Chain(k)'
    BY <1>1, <1>3 DEF Late, Chain, Top
  <1>5. Distinct'
    <2>1. \A i \in DOMAIN added : added[i][2] \in Int
      BY AddedFacts, ZoneFacts
    <2> QED
      BY <1>1, <1>2, <1>3, <2>1 DEF Late, Distinct
  <1>6. Back(k)'
    BY <1>1, <1>3 DEF Late, Back
  <1>7. ASSUME NEW q \in Threads
        PROVE  Linking(q)'
    BY <1>3 DEF Late, Linking, Node, Top
  <1> QED
    BY <1>1, <1>3, <1>4, <1>5, <1>6, <1>7, ThreadLate

\* The agent is not at work while a thread adds a zone.
LEMMA AddPhase ==
    ASSUME Typed, NEW k \in 0 .. Len(added), Late(k), NEW t \in Threads, at[t] # "idle"
    PROVE  at[Agent] = "idle" /\ k = Len(added) /\ got = {} /\ Distinct
  <1>1. ~ThreadsDone
    BY DEF ThreadsDone, In
  <1> QED
    BY <1>1, ThreadPhase DEF Late

LEMMA AddReadLate ==
    ASSUME Typed, Typed', NEW k \in 0 .. Len(added), Late(k), NEW t \in Threads,
           AddZone(t), AddRead(t)
    PROVE  (\E n \in 0 .. Len(added) : Late(n))'
  <1> USE Constants
  <1>0. at[t] = "add_read" /\ Types /\ t \in Procs
    BY DEF AddRead, In, Typed
  <1>1. at[Agent] = "idle" /\ k = Len(added) /\ got = {} /\ Distinct
    BY <1>0, AddPhase
  <1>2. /\ at'[t] = "add_back" /\ at'[Agent] = "idle"
        /\ \A q \in Threads : q # t => at'[q] = at[q]
    BY <1>0, <1>1 DEF AddRead, Goto, Types
  <1>3. /\ loc'[t].next = ptr[First] /\ loc'[t].node = loc[t].node
        /\ \A q \in Threads : q # t => loc'[q] = loc[q]
    BY <1>0 DEF AddRead, Types, ListTypeOK
  <1>4. /\ \A i \in 1..Len(added) : added[i] # Node(t)
        /\ \A q \in Threads : q # t /\ at[q] # "idle" => Node(q) # Node(t)
        /\ Node(t) \in Zones /\ Node(t) # First
    BY <1>0, <1>1, NewNode
  <1>5. /\ \A s \in Slots : ptr'[s] = IF s = Node(t) THEN ptr[First] ELSE ptr[s]
        /\ \A s \in Nodes : pprev'[s] = IF s = Node(t) THEN First ELSE pprev[s]
    BY <1>0, <1>4 DEF AddRead, Types, ListTypeOK
  <1>6. UNCHANGED <<made, added, got>>
    BY AddReadTyped DEF AddZone
  <1>7. Chain(k)'
    BY <1>1, <1>4, <1>5, <1>6, AddedFacts DEF Late, Chain, Top
  <1>8. Distinct'
    BY <1>0, <1>1, <1>2, <1>6 DEF Distinct
  <1>9. Back(k)'
    <2>1. CASE Len(added) > 0
      <3>1. added[k] \in Nodes /\ pprev'[added[k]] = pprev[added[k]]
        BY <1>1, <1>4, <1>5, <2>1, AddedFacts
      <3> QED
        BY <1>0, <1>1, <1>2, <1>3, <1>6, <2>1, <3>1 DEF Late, Back
    <2>2. CASE ~(Len(added) > 0)
      BY <1>6, <2>2 DEF Back
    <2> QED
      BY <2>1, <2>2
  <1>10. ASSUME NEW q \in Threads
         PROVE  Linking(q)'
    <2>1. CASE q = t
      <3>1. ptr'[Node(t)] = ptr[First] /\ pprev'[Node(t)] = First /\ Node(t)' = Node(t)
        BY <1>3, <1>4, <1>5 DEF Node
      <3>2. ptr[First] = Top(k)' /\ k \in 0..Len(added')
        BY <1>6 DEF Late, Chain, Top
      <3> QED
        BY <1>3, <2>1, <3>1, <3>2 DEF Linking
    <2>2. CASE q # t
      <3>1. CASE at[q] \in {"add_back", "add_swap"}
        <4>1. Node(q) \in Nodes /\ Node(q) # Node(t) /\ Node(q)' = Node(q)
          BY <1>3, <1>4, <2>2, <3>1, Adding DEF Node
        <4>2. ptr'[Node(q)] = ptr[Node(q)] /\ pprev'[Node(q)] = pprev[Node(q)]
          BY <1>5, <4>1
        <4> QED
          BY <1>2, <1>3, <1>6, <2>2, <4>1, <4>2 DEF Late, Linking, Top
      <3>2. CASE at[q] \notin {"add_back", "add_swap"}
        BY <1>2, <2>2, <3>2 DEF Linking
      <3> QED
        BY <3>1, <3>2
    <2> QED
      BY <2>1, <2>2
  <1> QED
    BY <1>1, <1>2, <1>6, <1>7, <1>8, <1>9, <1>10, ThreadLate

LEMMA AddBackLate ==
    ASSUME Typed, Typed', NEW k \in 0 .. Len(added), Late(k), NEW t \in Threads,
           AddZone(t), AddBack(t)
    PROVE  (\E n \in 0 .. Len(added) : Late(n))'
  <1> USE Constants
  <1>0. at[t] = "add_back" /\ Types /\ t \in Procs
    BY DEF AddBack, In, Typed
  <1>1. at[Agent] = "idle" /\ k = Len(added) /\ got = {} /\ Distinct
    BY <1>0, AddPhase
  <1>2. /\ at'[t] = "add_swap" /\ at'[Agent] = "idle"
        /\ \A q \in Threads : q # t => at'[q] = at[q]
    BY <1>0, <1>1 DEF AddBack, Goto, Types
  <1>3. UNCHANGED <<ptr, loc, made, added, got>>
    BY AddBackTyped DEF AddZone, AddBack
  <1>4. PICK i \in 0..Len(added) : loc[t].next = Top(i)
    BY <1>0 DEF Late, Linking
  <1>5. \A s \in Nodes : s # loc[t].next => pprev'[s] = pprev[s]
    <2>1. CASE loc[t].next = Null
      BY <2>1 DEF AddBack
    <2>2. CASE loc[t].next # Null
      BY <1>0, <2>2 DEF AddBack, Types, ListTypeOK
    <2> QED
      BY <2>1, <2>2
  <1>6. Chain(k)'
    BY <1>1, <1>3 DEF Late, Chain, Top
  <1>7. Distinct'
    BY <1>0, <1>1, <1>2, <1>3 DEF Distinct
  <1>8. Back(k)'
    <2>1. CASE Len(added) > 0 /\ loc[t].next = added[k]
      BY <1>1, <1>2, <1>3, <2>1 DEF Back
    <2>2. CASE Len(added) > 0 /\ loc[t].next # added[k]
      <3>1. added[k] \in Nodes /\ pprev'[added[k]] = pprev[added[k]]
        BY <1>1, <1>5, <2>2, AddedFacts
      <3> QED
        BY <1>0, <1>1, <1>2, <1>3, <2>2, <3>1 DEF Late, Back
    <2>3. CASE ~(Len(added) > 0)
      BY <1>3, <2>3 DEF Back
    <2> QED
      BY <2>1, <2>2, <2>3
  <1>9. ASSUME NEW q \in Threads
        PROVE  Linking(q)'
    <2>1. CASE at'[q] \in {"add_back", "add_swap"}
      <3>1. at[q] \in {"add_back", "add_swap"}
        BY <1>0, <1>2, <2>1
      <3>2. Node(q) \in Nodes /\ Node(q) # loc[t].next /\ Node(q)' = Node(q)
        BY <1>1, <1>3, <1>4, <3>1, NewNode DEF Node
      <3>3. pprev'[Node(q)] = pprev[Node(q)]
        BY <1>5, <3>2
      <3> QED
        BY <1>3, <3>1, <3>2, <3>3 DEF Late, Linking, Top
    <2>2. CASE at'[q] \notin {"add_back", "add_swap"}
      BY <2>2 DEF Linking
    <2> QED
      BY <2>1, <2>2
  <1> QED
    BY <1>1, <1>2, <1>3, <1>6, <1>7, <1>8, <1>9, ThreadLate

LEMMA AddSwapLate ==
    ASSUME Typed, Typed', NEW k \in 0 .. Len(added), Late(k), NEW t \in Threads,
           AddZone(t), AddSwap(t, "idle")
    PROVE  (\E n \in 0 .. Len(added) : Late(n))'
  <1> USE Constants
  <1>0. at[t] = "add_swap" /\ Types /\ t \in Procs
    BY DEF AddSwap, In, Typed
  <1>1. at[Agent] = "idle" /\ k = Len(added) /\ got = {} /\ Distinct
    BY <1>0, AddPhase
  <1>2. /\ \A i \in 1..Len(added) : added[i] # Node(t)
        /\ \A i \in 0..Len(added) : Top(i) # Node(t)
        /\ \A q \in Threads : q # t /\ at[q] # "idle" => Node(q) # Node(t)
        /\ Node(t) \in Zones /\ Node(t) # Null /\ Node(t) # First /\ Node(t) = <<t, made[t]>>
    BY <1>0, <1>1, NewNode, Adding
  <1>3. UNCHANGED <<pprev, loc, made, got>>
    BY DEF AddZone, AddSwap
  <1>4. /\ at'[Agent] = "idle"
        /\ \A q \in Threads : q # t => at'[q] = at[q]
    BY <1>0, <1>1 DEF AddSwap, Goto, Types
  <1>5. ptr[First] = Top(k) /\ Len(added) \in Nat /\ k \in Nat /\ added \in Seq(Zones)
    BY <1>0, <1>1, AddedFacts DEF Late, Chain, Types
  <1>6. ptr[Node(t)] = loc[t].next /\ pprev[Node(t)] = First
    BY <1>0 DEF Late, Linking
  <1>7. CASE ptr[First] = loc[t].next
    <2>1. /\ at'[t] = "idle" /\ ptr' = [ptr EXCEPT ![First] = Node(t)]
      BY <1>0, <1>7 DEF AddSwap, Goto, Types
    <2>2. ptr'[First] = Node(t) /\ \A s \in Slots : s # First => ptr'[s] = ptr[s]
      BY <1>0, <2>1 DEF Types, ListTypeOK
    <2>3. added' = Append(added, Node(t))
      BY <1>2, <1>5, <2>2 DEF AddZone
    <2>4. /\ Len(added') = k + 1 /\ added'[k + 1] = Node(t)
          /\ \A i \in 1..k : added'[i] = added[i]
      BY <1>1, <1>2, <1>5, <2>3, AppendProperties
    <2>5. k + 1 \in Nat /\ DOMAIN added' = 1..(k + 1) /\ DOMAIN added = 1..k
      BY <1>1, <1>2, <1>5, <2>3, AppendProperties
    <2>6. \A i \in 0..k : Top(i)' = Top(i)
      BY <2>4 DEF Top
    <2>7. Chain(k + 1)'
      <3>1. Top(k + 1)' = Node(t)
        BY <1>5, <2>4 DEF Top
      <3>2. ASSUME NEW i \in 1..(k + 1)
            PROVE  ptr'[added'[i]] = Top(i - 1)'
        <4>1. CASE i = k + 1
          <5>1. Node(t) \in Slots /\ i - 1 = k /\ k \in 0..k
            BY <1>2, <1>5, <4>1
          <5>2. ptr'[Node(t)] = Top(k)
            BY <1>2, <1>5, <1>6, <1>7, <2>2, <5>1
          <5>3. Top(i - 1)' = Top(k)
            BY <2>6, <5>1
          <5> QED
            BY <2>4, <4>1, <5>2, <5>3
        <4>2. CASE i # k + 1
          <5>1. i \in 1..k /\ added[i] \in Nodes /\ i - 1 \in 0..k
            BY <1>1, <1>5, <4>2, AddedFacts
          <5>2. ptr'[added[i]] = ptr[added[i]] /\ ptr[added[i]] = Top(i - 1)
            BY <2>2, <5>1 DEF Late, Chain
          <5> QED
            BY <2>4, <2>6, <5>1, <5>2
        <4> QED
          BY <4>1, <4>2
      <3> QED
        BY <2>2, <3>1, <3>2 DEF Chain
    <2>8. Distinct'
      <3>1. \A i, j \in 1..(k + 1) : added'[i] = added'[j] => i = j
        <4>1. \A i \in 1..k : added'[i] # added'[k + 1]
          BY <1>1, <1>2, <2>4
        <4>2. \A i, j \in 1..k : added'[i] = added'[j] => i = j
          BY <1>1, <2>4, <2>5 DEF Distinct
        <4>3. \A i \in 1..(k + 1) : i \in 1..k \/ i = k + 1
          BY <1>5
        <4> QED
          BY <4>1, <4>2, <4>3
      <3>2. ASSUME NEW i \in 1..(k + 1), NEW q \in Threads, added'[i][1] = q
            PROVE  added'[i][2] <= made'[q] /\ (at'[q] # "idle" => added'[i][2] # made'[q])
        <4>1. CASE i = k + 1
          <5>1. q = t /\ added'[i][2] = made[t] /\ made[t] \in Nat
            BY <1>0, <1>2, <2>4, <3>2, <4>1 DEF Types
          <5> QED
            BY <1>3, <2>1, <5>1
        <4>2. CASE i # k + 1
          <5>1. i \in 1..k /\ added'[i] = added[i]
            BY <1>5, <2>4, <4>2
          <5>2. added[i][2] <= made[q] /\ (at[q] # "idle" => added[i][2] # made[q])
            BY <1>1, <2>5, <3>2, <5>1 DEF Distinct
          <5> QED
            BY <1>0, <1>3, <1>4, <2>1, <5>1, <5>2
        <4> QED
          BY <4>1, <4>2
      <3> QED
        BY <2>5, <3>1, <3>2 DEF Distinct
    <2>9. Back(k + 1)'
      BY <1>3, <1>6, <2>4 DEF Back
    <2>10. ASSUME NEW q \in Threads
           PROVE  Linking(q)'
      <3>1. CASE at'[q] \in {"add_back", "add_swap"}
        <4>1. q # t /\ at[q] \in {"add_back", "add_swap"}
          BY <1>4, <2>1, <3>1
        <4>2. Node(q) \in Nodes /\ Node(q)' = Node(q)
          BY <1>3, <4>1, Adding DEF Node
        <4>3. ptr'[Node(q)] = ptr[Node(q)]
          BY <2>2, <4>2
        <4>4. PICK i \in 0..Len(added) : loc[q].next = Top(i)
          BY <4>1 DEF Late, Linking
        <4>5. i \in 0..Len(added') /\ loc'[q].next = Top(i)'
          BY <1>1, <1>3, <1>5, <2>4, <2>6, <4>4
        <4>6. ptr'[Node(q)] = loc'[q].next /\ pprev'[Node(q)] = First
          BY <1>3, <4>1, <4>3 DEF Late, Linking
        <4> QED
          BY <4>2, <4>5, <4>6 DEF Linking
      <3>2. CASE at'[q] \notin {"add_back", "add_swap"}
        BY <3>2 DEF Linking
      <3> QED
        BY <3>1, <3>2
    <2> QED
      BY <1>1, <1>3, <1>4, <2>4, <2>5, <2>7, <2>8, <2>9, <2>10, ThreadLate
  <1>8. CASE ptr[First] # loc[t].next
    <2>1. at'[t] = "add_read" /\ ptr' = ptr /\ added' = added
      BY <1>0, <1>8 DEF AddSwap, Goto, Types, AddZone
    <2>2. Chain(k)'
      BY <2>1 DEF Late, Chain, Top
    <2>3. Distinct'
      BY <1>0, <1>1, <1>3, <1>4, <2>1 DEF Distinct
    <2>4. Back(k)'
      <3>1. CASE k > 0 /\ pprev[added[k]] # First
        <4>1. PICK q \in Threads : at[q] = "add_swap" /\ loc[q].next = added[k]
          BY <3>1 DEF Late, Back
        <4>2. q # t
          BY <1>5, <1>8, <3>1, <4>1 DEF Top
        <4> QED
          BY <1>3, <1>4, <2>1, <4>1, <4>2 DEF Back
      <3>2. CASE ~(k > 0 /\ pprev[added[k]] # First)
        BY <1>3, <2>1, <3>2 DEF Back
      <3> QED
        BY <3>1, <3>2
    <2>5. ASSUME NEW q \in Threads
          PROVE  Linking(q)'
      BY <1>3, <1>4, <2>1 DEF Late, Linking, Node, Top
    <2> QED
      BY <1>1, <1>3, <1>4, <1>5, <2>1, <2>2, <2>3, <2>4, <2>5, ThreadLate
  <1> QED
    BY <1>7, <1>8
-----------------------------------------------------------------------------
(* The agent at work: no thread is.                                        *)

LEMMA AgentFacts ==
    ASSUME Typed, NEW k \in 0 .. Len(added), Late(k), ThreadsDone
    PROVE  /\ Types /\ Agent \in Procs /\ k \in Nat /\ Len(added) \in Nat
           /\ DOMAIN added = 1..Len(added)
           /\ ptr[First] = Top(k) /\ \A i \in 1..k : ptr[added[i]] = Top(i - 1)
           /\ k > 0 => pprev[added[k]] = First /\ added[k] \in Nodes /\ ptr[First] = added[k]
                       /\ ptr[added[k]] = Top(k - 1)
           /\ \A i \in 1..Len(added) : added[i] \in Nodes
           /\ \A i, j \in 1..Len(added) : added[i] = added[j] => i = j
  <1>1. /\ Types /\ Agent \in Procs /\ k \in Nat /\ Len(added) \in Nat
        /\ DOMAIN added = 1..Len(added)
        /\ \A i \in 1..Len(added) : added[i] \in Nodes
    BY AddedFacts, Constants DEF Typed
  <1>2. Chain(k) /\ Distinct /\ Back(k)
    BY DEF Late
  <1>3. \A t \in Threads : at[t] = "idle"
    BY DEF ThreadsDone, In
  <1>4. k > 0 => k \in 1..k /\ k \in 1..Len(added)
    BY <1>1
  <1>5. k > 0 => pprev[added[k]] = First
    BY <1>2, <1>3 DEF Back
  <1>6. ptr[First] = Top(k) /\ \A i \in 1..k : ptr[added[i]] = Top(i - 1)
    BY <1>2 DEF Chain
  <1>7. k > 0 => Top(k) = added[k]
    BY <1>1 DEF Top
  <1>8. \A i, j \in 1..Len(added) : added[i] = added[j] => i = j
    BY <1>1, <1>2 DEF Distinct
  <1> QED
    BY <1>1, <1>4, <1>5, <1>6, <1>7, <1>8

\* Only the agent has moved, and of the zones the first n are in the table.
LEMMA AgentLate ==
    ASSUME Typed, NEW k \in 0 .. Len(added), Late(k), ThreadsDone, NEW l \in Labels,
           Goto(Agent, l), added' = added, made' = made,
           \A t \in Threads : loc'[t] = loc[t],
           NEW n \in 0 .. Len(added), Chain(n)', n > 0 => pprev'[added[n]] = First,
           at'[Agent] = l => Deletes(n)',
           got' = {added[j] : j \in (n + 1) .. Len(added)}
                    \cup (IF l \in Deleting THEN {added[n]} ELSE {})
    PROVE  (\E m \in 0 .. Len(added) : Late(m))'
  <1>1. at'[Agent] = l /\ \A t \in Threads : at'[t] = at[t] /\ at[t] = "idle"
    BY Moves, Constants DEF Typed, Types, ThreadsDone, In
  <1>2. Distinct'
    BY <1>1 DEF Late, Distinct
  <1>3. Back(n)'
    BY DEF Back
  <1>4. \A t \in Threads : Linking(t)'
    BY <1>1 DEF Linking
  <1>5. ThreadsDone'
    BY <1>1 DEF ThreadsDone, In
  <1>6. Late(n)'
    BY <1>1, <1>2, <1>3, <1>4, <1>5 DEF Late
  <1> QED
    BY <1>6

LEMMA IoctlLate ==
    ASSUME Typed, ~along, NEW k \in 0 .. Len(added), Late(k), Ioctl
    PROVE  (\E m \in 0 .. Len(added) : Late(m))'
  <1>1. ThreadsDone /\ at[Agent] = "idle"
    BY DEF Ioctl, In
  <1>2. Goto(Agent, "read_bucket") /\ "read_bucket" \in Labels
    BY DEF Ioctl, Labels
  <1>3. UNCHANGED <<ptr, pprev, loc, made, added, got>>
    BY DEF Ioctl, list
  <1>4. Chain(k)' /\ (k > 0 => pprev'[added[k]] = First)
    BY <1>1, <1>3, AgentFacts DEF Late, Chain, Top
  <1>5. at'[Agent] = "read_bucket" => Deletes(k)'
    BY DEF Deletes, Deleting, HasRead, Hashed, HasDest, HasOld
  <1>6. got' = {added[j] : j \in (k + 1) .. Len(added)}
                 \cup (IF "read_bucket" \in Deleting THEN {added[k]} ELSE {})
    BY <1>1, <1>3 DEF Late, Deleting
  <1> QED
    BY <1>1, <1>2, <1>3, <1>4, <1>5, <1>6, AgentLate

\* During a request the threads are done.
LEMMA Working ==
    ASSUME NEW k \in 0 .. Len(added), Late(k), at[Agent] # "idle"
    PROVE  ThreadsDone
  BY DEF Late

LEMMA FindZoneLate ==
    ASSUME Typed, NEW k \in 0 .. Len(added), Late(k), FindZone
    PROVE  (\E m \in 0 .. Len(added) : Late(m))'
  <1>1. ThreadsDone /\ at[Agent] = "read_bucket" /\ ptr[First] # Null
    BY Working DEF FindZone, In
  <1>2. Goto(Agent, "copy") /\ "copy" \in Labels
    BY DEF FindZone, Labels
  <1>3. UNCHANGED <<ptr, pprev, made, added, got>>
    BY DEF FindZone, ghosts
  <1>4. k > 0 /\ ptr[First] = added[k]
    BY <1>1, AgentFacts DEF Top
  <1>5. loc'[Agent].node = ptr[First] /\ \A t \in Threads : loc'[t] = loc[t]
    BY <1>1, AgentFacts, Constants DEF FindZone, Types, ListTypeOK
  <1>6. Chain(k)' /\ (k > 0 => pprev'[added[k]] = First)
    BY <1>1, <1>3, AgentFacts DEF Late, Chain, Top
  <1>7. at'[Agent] = "copy" => Deletes(k)'
    BY <1>3, <1>4, <1>5 DEF Deletes, Deleting, HasRead, Hashed, HasDest, HasOld, Node
  <1>8. got' = {added[j] : j \in (k + 1) .. Len(added)}
                 \cup (IF "copy" \in Deleting THEN {added[k]} ELSE {})
    BY <1>1, <1>3 DEF Late, Deleting
  <1> QED
    BY <1>1, <1>2, <1>3, <1>5, <1>6, <1>7, <1>8, AgentLate

LEMMA NoMoreDataLate ==
    ASSUME Typed, NEW k \in 0 .. Len(added), Late(k), NoMoreData
    PROVE  (\E m \in 0 .. Len(added) : Late(m))'
  <1>1. ThreadsDone /\ at[Agent] = "read_bucket" /\ ptr[First] = Null
    BY Working DEF NoMoreData, In
  <1>2. Goto(Agent, "answered") /\ "answered" \in Labels
    BY DEF NoMoreData, Labels
  <1>3. UNCHANGED <<ptr, pprev, loc, made, added, got>>
    BY DEF NoMoreData, ghosts, list
  <1>4. k = 0
    <2>1. k > 0 => ptr[First] \in Zones /\ k \in Nat
      BY <1>1, AgentFacts, Constants
    <2> QED
      BY <1>1, <2>1, AgentFacts, Constants
  <1>5. Chain(k)' /\ (k > 0 => pprev'[added[k]] = First)
    BY <1>1, <1>3, AgentFacts DEF Late, Chain, Top
  <1>6. at'[Agent] = "answered" => Deletes(k)'
    BY <1>4 DEF Deletes, Deleting, HasRead, Hashed, HasDest, HasOld
  <1>7. got' = {added[j] : j \in (k + 1) .. Len(added)}
                 \cup (IF "answered" \in Deleting THEN {added[k]} ELSE {})
    BY <1>1, <1>3 DEF Late, Deleting
  <1> QED
    BY <1>1, <1>2, <1>3, <1>5, <1>6, <1>7, AgentLate

LEMMA CopyZoneLate ==
    ASSUME Typed, NEW k \in 0 .. Len(added), Late(k), CopyZone
    PROVE  (\E m \in 0 .. Len(added) : Late(m))'
  <1>1. ThreadsDone /\ at[Agent] = "copy"
    BY Working DEF CopyZone, In
  <1>2. Goto(Agent, "del_start") /\ "del_start" \in Labels
    BY DEF CopyZone, Labels
  <1>3. UNCHANGED <<ptr, pprev, loc, made, added>>
    BY DEF CopyZone, list
  <1>4. k > 0 /\ Node(Agent) = added[k] /\ added[k] \in Zones
    BY <1>1, AgentFacts, Constants DEF Late, Deletes
  <1>5. buff' = added[k] /\ got' = got \cup {added[k]}
    BY <1>4 DEF CopyZone
  <1>6. Chain(k)' /\ (k > 0 => pprev'[added[k]] = First)
    BY <1>1, <1>3, AgentFacts DEF Late, Chain, Top
  <1>7. at'[Agent] = "del_start" => Deletes(k)'
    BY <1>3, <1>4, <1>5 DEF Deletes, Deleting, HasRead, Hashed, HasDest, HasOld, Node
  <1>8. got' = {added[j] : j \in (k + 1) .. Len(added)}
                 \cup (IF "del_start" \in Deleting THEN {added[k]} ELSE {})
    BY <1>1, <1>5 DEF Late, Deleting
  <1> QED
    BY <1>1, <1>2, <1>3, <1>6, <1>7, <1>8, AgentLate

LEMMA CopyFailsLate ==
    ASSUME Typed, NEW k \in 0 .. Len(added), Late(k), CopyFails
    PROVE  (\E m \in 0 .. Len(added) : Late(m))'
  <1>1. ThreadsDone /\ at[Agent] = "copy"
    BY Working DEF CopyFails, In
  <1>2. Goto(Agent, "idle") /\ "idle" \in Labels
    BY DEF CopyFails, Labels
  <1>3. UNCHANGED <<ptr, pprev, loc, made, added, got>>
    BY DEF CopyFails, ghosts, list
  <1>4. Chain(k)' /\ (k > 0 => pprev'[added[k]] = First)
    BY <1>1, <1>3, AgentFacts DEF Late, Chain, Top
  <1>5. at'[Agent] = "idle" => Deletes(k)'
    BY DEF Deletes, Deleting, HasRead, Hashed, HasDest, HasOld
  <1>6. got' = {added[j] : j \in (k + 1) .. Len(added)}
                 \cup (IF "idle" \in Deleting THEN {added[k]} ELSE {})
    BY <1>1, <1>3 DEF Late, Deleting
  <1> QED
    BY <1>1, <1>2, <1>3, <1>4, <1>5, <1>6, AgentLate

LEMMA AnsweredLate ==
    ASSUME Typed, NEW k \in 0 .. Len(added), Late(k), Answered
    PROVE  (\E m \in 0 .. Len(added) : Late(m))'
  <1>1. ThreadsDone /\ at[Agent] = "answered"
    BY Working DEF Answered, In
  <1>2. Goto(Agent, "idle") /\ "idle" \in Labels
    BY DEF Answered, Labels
  <1>3. UNCHANGED <<ptr, pprev, loc, made, added, got>>
    BY DEF Answered, ghosts, list
  <1>4. Chain(k)' /\ (k > 0 => pprev'[added[k]] = First)
    BY <1>1, <1>3, AgentFacts DEF Late, Chain, Top
  <1>5. at'[Agent] = "idle" => Deletes(k)'
    BY DEF Deletes, Deleting, HasRead, Hashed, HasDest, HasOld
  <1>6. got' = {added[j] : j \in (k + 1) .. Len(added)}
                 \cup (IF "idle" \in Deleting THEN {added[k]} ELSE {})
    BY <1>1, <1>3 DEF Late, Deleting
  <1> QED
    BY <1>1, <1>2, <1>3, <1>4, <1>5, <1>6, AgentLate

\* What a deletion keeps and knows until its compare-and-swap.
LEMMA Swapping ==
    ASSUME Typed, NEW k \in 0 .. Len(added), Late(k), DeleteZone, at[Agent] \in Deleting
    PROVE  /\ ThreadsDone /\ k > 0 /\ Node(Agent) = added[k] /\ UNCHANGED <<made, buff, added, got>>
           /\ got = {added[j] : j \in (k + 1) .. Len(added)} \cup {added[k]}
           /\ buff \in Zones
           /\ at[Agent] \in HasRead => loc[Agent].pprev = First /\ loc[Agent].next = Top(k - 1)
           /\ at[Agent] \in HasDest => loc[Agent].dest = First
           /\ at[Agent] \in HasOld => loc[Agent].old = added[k]
           /\ at[Agent] \in {"del_load", "del_load_dest", "del_load_old", "del_swap"} /\ k > 1 =>
                pprev[added[k - 1]] = First
  <1>1. at[Agent] # "idle" /\ UNCHANGED <<made, buff, added, got>>
    BY DEF DeleteZone, ghosts, Deleting
  <1>2. ThreadsDone /\ Deletes(k)
    BY <1>1, Working DEF Late
  <1>3. k > 0 /\ Node(Agent) = added[k]
    BY <1>2 DEF Deletes
  <1>4. buff \in Zones
    BY <1>2, <1>3, AgentFacts DEF Deletes
  <1> QED
    BY <1>1, <1>2, <1>3, <1>4 DEF Late, Deletes

LEMMA DelStartLate ==
    ASSUME Typed, NEW k \in 0 .. Len(added), Late(k), DeleteZone, DelStart(Agent, "answered")
    PROVE  (\E m \in 0 .. Len(added) : Late(m))'
  <1>0. at[Agent] = "del_start"
    BY DEF DelStart, In
  <1>1. /\ ThreadsDone /\ k > 0 /\ Node(Agent) = added[k] /\ UNCHANGED <<made, buff, added, got>>
        /\ got = {added[j] : j \in (k + 1) .. Len(added)} \cup {added[k]} /\ buff \in Zones
    BY <1>0, Swapping DEF Deleting
  <1>2. Goto(Agent, "del_read") /\ "del_read" \in Labels
    BY <1>1, AgentFacts, Constants DEF DelStart, Labels
  <1>3. UNCHANGED <<ptr, pprev, loc>>
    BY DEF DelStart
  <1>4. Chain(k)' /\ (k > 0 => pprev'[added[k]] = First)
    BY <1>1, <1>3, AgentFacts DEF Late, Chain, Top
  <1>5. at'[Agent] = "del_read" => Deletes(k)'
    BY <1>1, <1>3 DEF Deletes, Deleting, HasRead, Hashed, HasDest, HasOld, Node
  <1>6. got' = {added[j] : j \in (k + 1) .. Len(added)}
                 \cup (IF "del_read" \in Deleting THEN {added[k]} ELSE {})
    BY <1>1 DEF Deleting
  <1> QED
    BY <1>1, <1>2, <1>3, <1>4, <1>5, <1>6, AgentLate

LEMMA DelReadLate ==
    ASSUME Typed, NEW k \in 0 .. Len(added), Late(k), DeleteZone, DelRead(Agent)
    PROVE  (\E m \in 0 .. Len(added) : Late(m))'
  <1>0. at[Agent] = "del_read"
    BY DEF DelRead, In
  <1>1. /\ ThreadsDone /\ k > 0 /\ Node(Agent) = added[k] /\ UNCHANGED <<made, buff, added, got>>
        /\ got = {added[j] : j \in (k + 1) .. Len(added)} \cup {added[k]} /\ buff \in Zones
    BY <1>0, Swapping DEF Deleting
  <1>2. Goto(Agent, "del_back") /\ "del_back" \in Labels
    BY DEF DelRead, Labels
  <1>3. UNCHANGED <<ptr, pprev>>
    BY DEF DelRead
  <1>4. /\ loc'[Agent].node = loc[Agent].node /\ loc'[Agent].next = ptr[Node(Agent)]
        /\ loc'[Agent].pprev = pprev[Node(Agent)] /\ \A t \in Threads : loc'[t] = loc[t]
    BY <1>1, AgentFacts, Constants DEF DelRead, Types, ListTypeOK
  <1>5. Chain(k)' /\ (k > 0 => pprev'[added[k]] = First)
    BY <1>1, <1>3, AgentFacts DEF Late, Chain, Top
  <1>6. at'[Agent] = "del_back" => Deletes(k)'
    <2>1. loc'[Agent].pprev = First /\ loc'[Agent].next = Top(k - 1)'
      BY <1>1, <1>4, AgentFacts DEF Top
    <2> QED
      BY <1>1, <1>4, <2>1 DEF Deletes, Deleting, HasRead, Hashed, HasDest, HasOld, Node
  <1>7. got' = {added[j] : j \in (k + 1) .. Len(added)}
                 \cup (IF "del_back" \in Deleting THEN {added[k]} ELSE {})
    BY <1>1 DEF Deleting
  <1> QED
    BY <1>1, <1>2, <1>4, <1>5, <1>6, <1>7, AgentLate

LEMMA DelBackLate ==
    ASSUME Typed, NEW k \in 0 .. Len(added), Late(k), DeleteZone, DelBack(Agent)
    PROVE  (\E m \in 0 .. Len(added) : Late(m))'
  <1>0. at[Agent] = "del_back"
    BY DEF DelBack, In
  <1>1. /\ ThreadsDone /\ k > 0 /\ Node(Agent) = added[k] /\ UNCHANGED <<made, buff, added, got>>
        /\ got = {added[j] : j \in (k + 1) .. Len(added)} \cup {added[k]} /\ buff \in Zones
        /\ loc[Agent].pprev = First /\ loc[Agent].next = Top(k - 1)
    BY <1>0, Swapping DEF Deleting, HasRead, Hashed
  <1>2. Goto(Agent, "del_load") /\ "del_load" \in Labels
    BY DEF DelBack, Labels
  <1>3. UNCHANGED <<ptr, loc>>
    BY DEF DelBack
  <1>4. pprev'[added[k]] = First /\ (k > 1 => pprev'[added[k - 1]] = First)
    <2>1. CASE k > 1
      <3>1. k \in 1..Len(added) /\ k - 1 \in 1..Len(added) /\ k - 1 # k
        BY <1>1, <2>1, AgentFacts
      <3>2. /\ added[k - 1] # added[k] /\ added[k - 1] \in Nodes /\ added[k - 1] # Null
            /\ added[k] \in Nodes /\ pprev[added[k]] = First
        BY <1>1, <3>1, AgentFacts, AddedFacts
      <3>3. Top(k - 1) = added[k - 1]
        BY <2>1, AgentFacts, <1>1 DEF Top
      <3>4. pprev' = [pprev EXCEPT ![added[k - 1]] = First]
        BY <1>1, <3>2, <3>3 DEF DelBack
      <3> QED
        BY <1>1, <3>2, <3>4, AgentFacts DEF Types, ListTypeOK
    <2>2. CASE ~(k > 1)
      <3>1. k = 1
        BY <1>1, <2>2, AgentFacts
      <3>2. loc[Agent].next = Null
        BY <1>1, <3>1 DEF Top
      <3> QED
        BY <1>1, <2>2, <3>2, AgentFacts DEF DelBack
    <2> QED
      BY <2>1, <2>2
  <1>5. Chain(k)'
    BY <1>1, <1>3 DEF Late, Chain, Top
  <1>6. at'[Agent] = "del_load" => Deletes(k)'
    <2>1. loc'[Agent].pprev = First /\ loc'[Agent].next = Top(k - 1)'
      BY <1>1, <1>3 DEF Top
    <2> QED
      BY <1>1, <1>3, <1>4, <2>1 DEF Deletes, Deleting, HasRead, Hashed, HasDest, HasOld, Node
  <1>7. got' = {added[j] : j \in (k + 1) .. Len(added)}
                 \cup (IF "del_load" \in Deleting THEN {added[k]} ELSE {})
    BY <1>1 DEF Deleting
  <1> QED
    BY <1>1, <1>2, <1>3, <1>4, <1>5, <1>6, <1>7, AgentLate

LEMMA DelLoadDestLate ==
    ASSUME Typed, NEW k \in 0 .. Len(added), Late(k), DeleteZone, DelLoadDest(Agent)
    PROVE  (\E m \in 0 .. Len(added) : Late(m))'
  <1>0. at[Agent] = "del_load" \/ at[Agent] = "del_load_dest"
    BY DEF DelLoadDest
  <1>1. /\ ThreadsDone /\ k > 0 /\ Node(Agent) = added[k] /\ UNCHANGED <<made, buff, added, got>>
        /\ got = {added[j] : j \in (k + 1) .. Len(added)} \cup {added[k]} /\ buff \in Zones
        /\ loc[Agent].pprev = First /\ loc[Agent].next = Top(k - 1)
        /\ k > 1 => pprev[added[k - 1]] = First
        /\ at[Agent] = "del_load_dest" => loc[Agent].old = added[k]
    BY <1>0, Swapping DEF Deleting, HasRead, Hashed, HasOld
  <1>2. UNCHANGED <<ptr, pprev>>
    BY DEF DelLoadDest
  <1>3. /\ loc'[Agent].node = loc[Agent].node /\ loc'[Agent].next = loc[Agent].next
        /\ loc'[Agent].pprev = loc[Agent].pprev /\ loc'[Agent].old = loc[Agent].old
        /\ loc'[Agent].dest = First /\ \A t \in Threads : loc'[t] = loc[t]
    BY <1>1, AgentFacts, Constants DEF DelLoadDest, Types, ListTypeOK
  <1>4. Chain(k)' /\ (k > 0 => pprev'[added[k]] = First)
    BY <1>1, <1>2, AgentFacts DEF Late, Chain, Top
  <1>5. loc'[Agent].pprev = First /\ loc'[Agent].next = Top(k - 1)'
    BY <1>1, <1>3 DEF Top
  <1>6. CASE at[Agent] = "del_load"
    <2>1. Goto(Agent, "del_load_old") /\ "del_load_old" \in Labels
      BY <1>6 DEF DelLoadDest, Labels, In
    <2>2. at'[Agent] = "del_load_old" => Deletes(k)'
      BY <1>1, <1>2, <1>3, <1>5 DEF Deletes, Deleting, HasRead, Hashed, HasDest, HasOld, Node
    <2>3. got' = {added[j] : j \in (k + 1) .. Len(added)}
                   \cup (IF "del_load_old" \in Deleting THEN {added[k]} ELSE {})
      BY <1>1 DEF Deleting
    <2> QED
      BY <1>1, <1>3, <1>4, <2>1, <2>2, <2>3, AgentLate
  <1>7. CASE at[Agent] = "del_load_dest"
    <2>1. Goto(Agent, "del_swap") /\ "del_swap" \in Labels
      BY <1>7 DEF DelLoadDest, Labels, In
    <2>2. at'[Agent] = "del_swap" => Deletes(k)'
      BY <1>1, <1>2, <1>3, <1>5, <1>7 DEF Deletes, Deleting, HasRead, Hashed, HasDest, HasOld, Node
    <2>3. got' = {added[j] : j \in (k + 1) .. Len(added)}
                   \cup (IF "del_swap" \in Deleting THEN {added[k]} ELSE {})
      BY <1>1 DEF Deleting
    <2> QED
      BY <1>1, <1>3, <1>4, <2>1, <2>2, <2>3, AgentLate
  <1> QED
    BY <1>0, <1>6, <1>7

LEMMA DelLoadOldLate ==
    ASSUME Typed, NEW k \in 0 .. Len(added), Late(k), DeleteZone, DelLoadOld(Agent)
    PROVE  (\E m \in 0 .. Len(added) : Late(m))'
  <1>0. at[Agent] = "del_load" \/ at[Agent] = "del_load_old"
    BY DEF DelLoadOld
  <1>1. /\ ThreadsDone /\ k > 0 /\ Node(Agent) = added[k] /\ UNCHANGED <<made, buff, added, got>>
        /\ got = {added[j] : j \in (k + 1) .. Len(added)} \cup {added[k]} /\ buff \in Zones
        /\ loc[Agent].pprev = First /\ loc[Agent].next = Top(k - 1)
        /\ k > 1 => pprev[added[k - 1]] = First
        /\ at[Agent] = "del_load_old" => loc[Agent].dest = First
    BY <1>0, Swapping DEF Deleting, HasRead, Hashed, HasDest
  <1>2. UNCHANGED <<ptr, pprev>>
    BY DEF DelLoadOld
  <1>3. /\ loc'[Agent].node = loc[Agent].node /\ loc'[Agent].next = loc[Agent].next
        /\ loc'[Agent].pprev = loc[Agent].pprev /\ loc'[Agent].dest = loc[Agent].dest
        /\ loc'[Agent].old = added[k] /\ \A t \in Threads : loc'[t] = loc[t]
    BY <1>1, AgentFacts, Constants DEF DelLoadOld, Types, ListTypeOK
  <1>4. Chain(k)' /\ (k > 0 => pprev'[added[k]] = First)
    BY <1>1, <1>2, AgentFacts DEF Late, Chain, Top
  <1>5. loc'[Agent].pprev = First /\ loc'[Agent].next = Top(k - 1)'
    BY <1>1, <1>3 DEF Top
  <1>6. CASE at[Agent] = "del_load"
    <2>1. Goto(Agent, "del_load_dest") /\ "del_load_dest" \in Labels
      BY <1>6 DEF DelLoadOld, Labels, In
    <2>2. at'[Agent] = "del_load_dest" => Deletes(k)'
      BY <1>1, <1>2, <1>3, <1>5 DEF Deletes, Deleting, HasRead, Hashed, HasDest, HasOld, Node
    <2>3. got' = {added[j] : j \in (k + 1) .. Len(added)}
                   \cup (IF "del_load_dest" \in Deleting THEN {added[k]} ELSE {})
      BY <1>1 DEF Deleting
    <2> QED
      BY <1>1, <1>3, <1>4, <2>1, <2>2, <2>3, AgentLate
  <1>7. CASE at[Agent] = "del_load_old"
    <2>1. Goto(Agent, "del_swap") /\ "del_swap" \in Labels
      BY <1>7 DEF DelLoadOld, Labels, In
    <2>2. at'[Agent] = "del_swap" => Deletes(k)'
      BY <1>1, <1>2, <1>3, <1>5, <1>7 DEF Deletes, Deleting, HasRead, Hashed, HasDest, HasOld, Node
    <2>3. got' = {added[j] : j \in (k + 1) .. Len(added)}
                   \cup (IF "del_swap" \in Deleting THEN {added[k]} ELSE {})
      BY <1>1 DEF Deleting
    <2> QED
      BY <1>1, <1>3, <1>4, <2>1, <2>2, <2>3, AgentLate
  <1> QED
    BY <1>0, <1>6, <1>7

\* The compare-and-swap succeeds: nobody has put a node in front.
LEMMA DelSwapLate ==
    ASSUME Typed, NEW k \in 0 .. Len(added), Late(k), DeleteZone, DelSwap(Agent)
    PROVE  (\E m \in 0 .. Len(added) : Late(m))'
  <1>0. at[Agent] = "del_swap"
    BY DEF DelSwap, In
  <1>1. /\ ThreadsDone /\ k > 0 /\ Node(Agent) = added[k] /\ UNCHANGED <<made, buff, added, got>>
        /\ got = {added[j] : j \in (k + 1) .. Len(added)} \cup {added[k]} /\ buff \in Zones
        /\ loc[Agent].next = Top(k - 1) /\ loc[Agent].dest = First /\ loc[Agent].old = added[k]
        /\ k > 1 => pprev[added[k - 1]] = First
    BY <1>0, Swapping DEF Deleting, HasRead, Hashed, HasDest, HasOld
  <1>2. /\ ptr' = [ptr EXCEPT ![First] = Top(k - 1)] /\ UNCHANGED <<pprev, loc>>
        /\ Goto(Agent, "del_init") /\ "del_init" \in Labels
    BY <1>1, AgentFacts DEF DelSwap, Labels
  <1>3. /\ k - 1 \in 0..Len(added) /\ k - 1 < Len(added) /\ (k - 1) + 1 = k
        /\ k - 1 > 0 => k > 1
    BY <1>1, AgentFacts
  <1>4. Chain(k - 1)'
    <2>1. ptr'[First] = Top(k - 1)
      BY <1>1, <1>2, AgentFacts, Constants DEF Types, ListTypeOK
    <2>2. ASSUME NEW i \in 1..(k - 1)
          PROVE  ptr'[added[i]] = Top(i - 1)
      <3>1. i \in 1..k /\ added[i] \in Nodes /\ added[i] # First
        BY <1>1, AgentFacts, Constants
      <3> QED
        BY <1>1, <1>2, <3>1, AgentFacts, Constants DEF Types, ListTypeOK
    <2> QED
      BY <1>1, <2>1, <2>2 DEF Chain, Top
  <1>5. at'[Agent] = "del_init" => Deletes(k - 1)'
    BY <1>1, <1>2, <1>3 DEF Deletes, Deleting, HasRead, Hashed, HasDest, HasOld, Node
  <1>6. got' = {added[j] : j \in ((k - 1) + 1) .. Len(added)}
                 \cup (IF "del_init" \in Deleting THEN {added[k - 1]} ELSE {})
    <2>1. k .. Len(added) = {k} \cup (k + 1) .. Len(added)
      BY <1>1, AgentFacts
    <2> QED
      BY <1>1, <1>3, <2>1 DEF Deleting
  <1> DEFINE n == k - 1
  <1>7. n \in 0 .. Len(added) /\ Chain(n)' /\ (n > 0 => pprev'[added[n]] = First)
    BY <1>1, <1>2, <1>3, <1>4
  <1> HIDE DEF n
  <1> QED
    BY <1>1, <1>2, <1>5, <1>6, <1>7, AgentLate DEF n

LEMMA DelInitLate ==
    ASSUME Typed, NEW k \in 0 .. Len(added), Late(k), DeleteZone, DelInit(Agent, "answered")
    PROVE  (\E m \in 0 .. Len(added) : Late(m))'
  <1>0. at[Agent] = "del_init"
    BY DEF DelInit, In
  <1>1. /\ ThreadsDone /\ UNCHANGED <<made, buff, added, got, loc>>
        /\ k < Len(added) /\ Node(Agent) = added[k + 1] /\ (buff \in Zones \/ k = 0)
    BY <1>0, Working DEF Late, Deletes, DelInit, DeleteZone, ghosts
  <1>2. Goto(Agent, "answered") /\ "answered" \in Labels
    BY DEF DelInit, Labels
  <1>3. k + 1 \in 1..Len(added) /\ Node(Agent) \in Nodes /\ Node(Agent) # First
    BY <1>1, AgentFacts, Constants
  <1>4. ASSUME NEW i \in 1..k
        PROVE  /\ added[i] \in Nodes /\ added[i] # Node(Agent)
               /\ ptr'[added[i]] = ptr[added[i]] /\ pprev'[added[i]] = pprev[added[i]]
    <2>1. i \in 1..Len(added) /\ i # k + 1
      BY <1>1, AgentFacts
    <2>2. added[i] \in Nodes /\ added[i] # Node(Agent)
      BY <1>1, <1>3, <2>1, AgentFacts
    <2> QED
      BY <1>1, <2>2, AgentFacts, Constants DEF DelInit, Types, ListTypeOK
  <1>5. ptr'[First] = ptr[First]
    BY <1>1, <1>3, AgentFacts, Constants DEF DelInit, Types, ListTypeOK
  <1>6. Chain(k)' /\ (k > 0 => pprev'[added[k]] = First)
    <2>1. Chain(k)'
      BY <1>1, <1>4, <1>5 DEF Late, Chain, Top
    <2>2. k > 0 => k \in 1..k /\ pprev[added[k]] = First
      BY <1>1, AgentFacts
    <2> QED
      BY <1>4, <2>1, <2>2
  <1>7. at'[Agent] = "answered" => Deletes(k)'
    BY <1>1 DEF Deletes, Deleting, HasRead, Hashed, HasDest, HasOld
  <1>8. got' = {added[j] : j \in (k + 1) .. Len(added)}
                 \cup (IF "answered" \in Deleting THEN {added[k]} ELSE {})
    BY <1>0, <1>1 DEF Late, Deleting
  <1> QED
    BY <1>1, <1>2, <1>6, <1>7, <1>8, AgentLate
-----------------------------------------------------------------------------
(* The invariant, and what it says.                                        *)

LEMMA Started == Init => IInv
  <1> SUFFICES ASSUME Init PROVE IInv
    OBVIOUS
  <1> USE Constants
  <1>1. /\ ptr = [s \in Slots |-> Null] /\ pprev = [n \in Nodes |-> Null]
        /\ loc = [p \in Procs |-> NoLocals] /\ at = [p \in Procs |-> "idle"]
        /\ made = [t \in Threads |-> 0] /\ fails = 0 /\ buff = Null /\ along \in Along
        /\ added = <<>> /\ asked = 0 /\ got = {}
    BY DEF Init, EmptyList
  <1>2. added \in Seq(Zones) /\ Len(added) = 0 /\ DOMAIN added = {}
    BY <1>1
  <1>3. Types
    <2>1. ListTypeOK
      BY <1>1 DEF ListTypeOK, NoLocals
    <2>2. at \in [Procs -> Labels]
      BY <1>1 DEF Labels
    <2> QED
      BY <1>1, <1>2, <2>1, <2>2 DEF Types
  <1>4. Typed
    BY <1>1, <1>3 DEF Typed, ThreadOK, AgentOK, WithZone, Hashed, HasRead, HasDest, Deleting
  <1>5. Late(0)
    <2>1. Chain(0)
      BY <1>1 DEF Chain, Top
    <2>2. Distinct
      BY <1>2 DEF Distinct
    <2>3. Deletes(0)
      BY <1>1 DEF Deletes, Deleting, HasRead, Hashed, HasDest, HasOld
    <2>4. got = {added[j] : j \in (0 + 1) .. Len(added)}
                  \cup (IF at[Agent] \in Deleting THEN {added[0]} ELSE {})
      BY <1>1, <1>2 DEF Deleting
    <2>5. Back(0)
      BY DEF Back
    <2>6. \A t \in Threads : Linking(t)
      BY <1>1 DEF Linking
    <2>7. at[Agent] = "idle" /\ ~(0 < Len(added))
      BY <1>1, <1>2
    <2> QED
      BY <2>1, <2>2, <2>3, <2>4, <2>5, <2>6, <2>7 DEF Late
  <1> QED
    BY <1>2, <1>4, <1>5 DEF IInv

LEMMA LateStep ==
    ASSUME Typed, Typed', ~along, NEW k \in 0 .. Len(added), Late(k), [Next]_vars
    PROVE  (\E n \in 0 .. Len(added) : Late(n))'
  <1>1. CASE UNCHANGED vars
    BY <1>1 DEF vars, list, ghosts, Late, Chain, Top, Distinct, Back, Deletes, Linking, Node,
                ThreadsDone, In
  <1>2. CASE Reader
    <2>1. CASE DeleteZone
      BY <2>1, DelStartLate, DelReadLate, DelBackLate, DelLoadDestLate, DelLoadOldLate,
         DelSwapLate, DelInitLate DEF DeleteZone, Delete
    <2> QED
      BY <1>2, <2>1, IoctlLate, FindZoneLate, NoMoreDataLate, CopyZoneLate, CopyFailsLate,
         AnsweredLate DEF Reader
  <1>3. ASSUME NEW t \in Threads, Thread(t)
        PROVE  (\E n \in 0 .. Len(added) : Late(n))'
    <2>1. CASE AddZone(t)
      BY <2>1, AddReadLate, AddBackLate, AddSwapLate DEF AddZone, AddHead
    <2> QED
      BY <1>3, <2>1, MakeZoneLate, MakeFailsLate DEF Thread
  <1> QED
    BY <1>1, <1>2, <1>3 DEF Next

LEMMA Invariance == Spec => []IInv
  <1>1. IInv /\ [Next]_vars => IInv'
    <2> SUFFICES ASSUME IInv, [Next]_vars PROVE IInv'
      OBVIOUS
    <2>1. Typed /\ Typed'
      BY TypedStep DEF IInv
    <2>2. along' = along
      BY DEF Next, Reader, Ioctl, FindZone, NoMoreData, CopyZone, CopyFails, DeleteZone,
             Answered, Thread, MakeZone, MakeFails, AddZone, vars
    <2>3. CASE ~along
      <3>1. PICK k \in 0 .. Len(added) : Late(k)
        BY <2>3 DEF IInv
      <3> QED
        BY <2>1, <2>3, <3>1, LateStep DEF IInv
    <2> QED
      BY <2>1, <2>2, <2>3 DEF IInv
  <1> QED
    BY <1>1, Started, PTL DEF Spec

\* Every pointer of the list is that of a node, of the head or null, every
\* process is at a step of the code of hlist_add_head_atomic, of
\* hlist_del_init_atomic or of the ioctl, and no zone is added that was not made.
THEOREM QueueTypes == Spec => []TypeOK
  <1>1. IInv => TypeOK
    BY DEF IInv, Typed, Types, TypeOK, Range
  <1> QED
    BY <1>1, Invariance, PTL

\* __hlist_del_atomic follows no null pointer, whatever the insertions that
\* overlap with it write to the node it deletes and to its neighbours: the node
\* stays hashed until it is deleted, and a back pointer read before or read
\* again is that of the head or of a node.  Holds for an agent that reads along.
THEOREM NoNullPointer ==
    Spec => [](/\ at[Agent] \in WithZone => Node(Agent) \in Zones
               /\ at[Agent] \in Hashed => pprev[Node(Agent)] # Null
               /\ at[Agent] \in HasRead => loc[Agent].pprev # Null
               /\ at[Agent] \in HasDest => loc[Agent].dest # Null)
  <1>1. IInv => /\ at[Agent] \in WithZone => Node(Agent) \in Zones
                /\ at[Agent] \in Hashed => pprev[Node(Agent)] # Null
                /\ at[Agent] \in HasRead => loc[Agent].pprev # Null
                /\ at[Agent] \in HasDest => loc[Agent].dest # Null
    BY DEF IInv, Typed, AgentOK
  <1> QED
    BY <1>1, Invariance, PTL

\* An agent that starts when the program has ended gets each zone once, the
\* newest first, for any number of threads and zones.
THEOREM NewestZoneFirst == Spec => NewestFirst
  <1>1. IInv /\ [Next]_vars =>
          [\A z \in Zones : ~along /\ CopyZone /\ buff' = z =>
             /\ z \notin got
             /\ \A i, j \in DOMAIN added :
                  added[i] = z /\ j > i => added[j] \in got]_vars
    <2> SUFFICES ASSUME IInv, NEW z \in Zones, ~along, CopyZone, buff' = z
                 PROVE  /\ z \notin got
                        /\ \A i, j \in DOMAIN added :
                             added[i] = z /\ j > i => added[j] \in got
      OBVIOUS
    <2>1. PICK k \in 0 .. Len(added) : Late(k)
      BY DEF IInv
    <2>2. Typed /\ at[Agent] = "copy" /\ ThreadsDone
      BY <2>1, Working DEF IInv, CopyZone, In
    <2>3. k > 0 /\ z = added[k] /\ got = {added[j] : j \in (k + 1) .. Len(added)}
      BY <2>1, <2>2 DEF CopyZone, Late, Deletes, Deleting
    <2>4. /\ DOMAIN added = 1..Len(added) /\ k \in 1..Len(added) /\ Len(added) \in Nat
          /\ \A i, j \in DOMAIN added : added[i] = added[j] => i = j
      <3>1. /\ DOMAIN added = 1..Len(added) /\ k \in Nat /\ Len(added) \in Nat
            /\ \A i, j \in 1..Len(added) : added[i] = added[j] => i = j
        BY <2>1, <2>2, AgentFacts
      <3> QED
        BY <2>3, <3>1
    <2>5. z \notin got
      BY <2>3, <2>4
    <2>6. ASSUME NEW i \in DOMAIN added, NEW j \in DOMAIN added, added[i] = z, j > i
          PROVE  added[j] \in got
      <3>1. i = k
        BY <2>3, <2>4, <2>6
      <3> QED
        BY <2>3, <2>4, <2>6, <3>1
    <2> QED
      BY <2>5, <2>6
  <1> QED
    BY <1>1, Invariance, PTL DEF Spec, NewestFirst

\* To such an agent the driver says that there is no more data only when it has
\* got every zone that was added: with an agent that reads along the run
\* lost_zone finds the contrary.
THEOREM AllReadAtTheEnd == Spec => [](~along => AllRead)
  <1>1. IInv => (~along => AllRead)
    <2> SUFFICES ASSUME IInv, ~along, at[Agent] = "answered", buff = AllSent
                 PROVE  Range(SubSeq(added, 1, asked)) \subseteq got
      BY DEF AllRead, In
    <2>1. PICK k \in 0 .. Len(added) : Late(k)
      BY DEF IInv
    <2>2. buff \notin Zones
      <3>1. AllSent[2] = -1
        BY DEF AllSent
      <3> QED
        BY <3>1, ZoneFacts
    <2>3. got = {added[j] : j \in 1 .. Len(added)}
      BY <2>1, <2>2 DEF Late, Deletes, Deleting
    <2>4. added \in Seq(Zones) /\ asked \in 0 .. Len(added)
      BY DEF IInv, Typed, Types
    <2>5. ASSUME NEW i \in DOMAIN SubSeq(added, 1, asked)
          PROVE  SubSeq(added, 1, asked)[i] \in got
      <3>1. i \in 1 .. asked /\ SubSeq(added, 1, asked)[i] = added[i] /\ i \in 1 .. Len(added)
        BY <2>4
      <3> QED
        BY <2>3, <3>1
    <2> QED
      BY <2>5 DEF Range
  <1> QED
    BY <1>1, Invariance, PTL
=============================================================================

------------------------- MODULE ProcTracking_proofs -------------------------
(***************************************************************************)
(* A listed program is monitored until it ends, and a process on its own   *)
(* is never killed by the module, for any ids and pages.                   *)
(***************************************************************************)
EXTENDS ProcTracking, TLAPS

(* A task has a process, and what is said of a process ends with it. *)
ProcessInv ==
    /\ \A t \in Pids : tgid[t] # NoPid => tgid[tgid[t]] = tgid[t]
    /\ \A p \in listed \cup mixed : tgid[p] = p

(* A process that never shared its pages has one task, which is found in   *)
(* hooked_pids if the module did anything to the pages.                    *)
AloneInv(p) ==
    tgid[p] = p /\ p \notin mixed =>
       /\ p \in live
       /\ \A t \in Pids : tgid[t] = p => t = p
       /\ denied[p] \cup filled[p] # {} => Found(p)
       /\ \A page \in filled[p] : <<p, page>> \in masters

IInv ==
    /\ TypeOK
    /\ ProcessInv
    /\ Traced
    /\ \A p \in Pids : AloneInv(p)
    /\ AloneSurvives

-----------------------------------------------------------------------------
LEMMA InitInv == Init => IInv
  <1> SUFFICES ASSUME Init PROVE IInv
    OBVIOUS
  <1> USE TrackingAssumption
  <1>1. TypeOK
    <2>1. started \in BOOLEAN /\ finished \in BOOLEAN
      BY Zenon DEF Init
    <2>2. hooked \in [Pids -> 0 .. MaxNodes]
      BY DEF Init
    <2> QED
      BY <2>1, <2>2 DEF Init, TypeOK
  <1>2. ProcessInv /\ Traced /\ AloneSurvives
    BY DEF Init, ProcessInv, Traced, AloneSurvives
  <1>3. \A p \in Pids : AloneInv(p)
    BY DEF Init, AloneInv
  <1> QED
    BY <1>1, <1>2, <1>3 DEF IInv

(* handle_exit changes the nodes of the dead only. *)
LEMMA NodesLeft ==
    ASSUME NEW nodes \in [Pids -> Nat], NEW dead
    PROVE  /\ WithoutNodes(nodes, dead) \in [Pids -> Nat]
           /\ \A t \in Pids : WithoutNodes(nodes, dead)[t] <= nodes[t]
           /\ \A t \in Pids \ dead : WithoutNodes(nodes, dead)[t] = nodes[t]
  BY DEF WithoutNodes

(* Some tasks of a process exit, by themselves or killed. *)
LEMMA ExitsKeepInv ==
    ASSUME IInv, NEW p \in Pids, tgid[p] = p,
           NEW dead \in SUBSET Group(p), dead # {},
           Exits(p, dead),
           lost' \subseteq {"mixed"}
    PROVE  IInv'
  <1> USE TrackingAssumption
  <1>1. /\ hooked' \in [Pids -> Nat]
        /\ \A t \in Pids : hooked'[t] <= hooked[t]
        /\ \A t \in Pids \ dead : hooked'[t] = hooked[t]
    <2>1. hooked \in [Pids -> Nat]
      BY DEF IInv, TypeOK
    <2> QED
      BY <2>1, NodesLeft DEF Exits
  <1>2. TypeOK'
    <2>1. hooked' \in [Pids -> 0 .. MaxNodes]
      <3>1. \A t \in Pids : hooked'[t] \in 0 .. MaxNodes
        BY <1>1 DEF IInv, TypeOK
      <3> QED
        BY <1>1, <3>1
    <2>2. tgid' \in [Pids -> Pids \cup {NoPid}] /\ parent' \in [Pids -> Pids \cup {NoPid}]
      BY DEF IInv, TypeOK, Exits
    <2>3. live' \subseteq {t \in Pids : tgid'[t] # NoPid}
      BY DEF IInv, TypeOK, Exits, Group
    <2>4. /\ denied' \in [Pids -> SUBSET Pages] /\ filled' \in [Pids -> SUBSET Pages]
          /\ \A q \in Pids : tgid'[q] # q => denied'[q] \cup filled'[q] = {}
      BY DEF IInv, TypeOK, Exits, Group
    <2>5. started' \in BOOLEAN /\ finished' \in BOOLEAN
      BY DEF IInv, TypeOK, Exits, FinishedAfter
    <2>6. masters' \subseteq Pids \X Pages /\ listed' \cup mixed' \subseteq Pids
      BY DEF IInv, TypeOK, Exits
    <2> QED
      BY <2>1, <2>2, <2>3, <2>4, <2>5, <2>6 DEF TypeOK
  <1>3. ProcessInv'
    BY DEF IInv, TypeOK, ProcessInv, Exits, Group
  <1>4. Traced'
    <2> SUFFICES ASSUME NEW q \in listed' \cap live' PROVE hooked'[q] > 0
      BY DEF Traced, Found
    <2>1. q \in listed \cap live /\ q \in Pids \ dead
      BY DEF IInv, TypeOK, Exits
    <2> QED
      BY <2>1, <1>1 DEF IInv, Traced, Found
  <1>5. ASSUME NEW q \in Pids PROVE AloneInv(q)'
    <2> SUFFICES ASSUME tgid'[q] = q, q \notin mixed' PROVE AloneInv(q)'
      BY DEF AloneInv
    <2>1. q # p
      <3> SUFFICES ASSUME q = p PROVE FALSE
        OBVIOUS
      <3>1. dead # Group(p) /\ p \notin mixed
        BY DEF IInv, TypeOK, Exits
      <3>2. Group(p) \subseteq {p}
        BY <3>1 DEF IInv, TypeOK, AloneInv, Group
      <3> QED
        BY <3>1, <3>2
    <2>2. tgid[q] = q /\ q \notin mixed /\ AloneInv(q)
      BY <2>1 DEF IInv, TypeOK, Exits
    <2>3. q \in live' /\ q \notin dead
      BY <2>1, <2>2 DEF AloneInv, Exits, Group
    <2>4. \A t \in Pids : tgid'[t] = q => t = q
      BY <2>2 DEF IInv, TypeOK, AloneInv, Exits
    <2>5. denied'[q] = denied[q] /\ filled'[q] = filled[q] /\ masters' = masters
      BY <2>1 DEF IInv, TypeOK, Exits
    <2> QED
      BY <1>1, <2>2, <2>3, <2>4, <2>5 DEF AloneInv, Found
  <1>6. AloneSurvives'
    BY DEF AloneSurvives
  <1> QED
    BY <1>2, <1>3, <1>4, <1>5, <1>6 DEF IInv

-----------------------------------------------------------------------------
LEMMA ExitKeepsInv ==
    ASSUME IInv, NEW t \in Pids, Exit(t)
    PROVE  IInv'
  <1>1. tgid[t] \in Pids /\ tgid[tgid[t]] = tgid[t]
    BY DEF IInv, TypeOK, ProcessInv, Exit
  <1>2. {t} \in SUBSET Group(tgid[t]) /\ {t} # {}
    BY DEF Exit, Group
  <1>3. lost' \subseteq {"mixed"}
    BY DEF IInv, TypeOK, AloneSurvives, Exit
  <1> QED
    BY <1>1, <1>2, <1>3, ExitsKeepInv DEF Exit

(* The kernel kills a process on the way of one of its tasks. *)
LEMMA KilledKeepsInv ==
    ASSUME IInv, NEW t \in live, tgid[t] \in mixed, Killed(tgid[t])
    PROVE  IInv'
  <1>1. tgid[t] \in Pids /\ tgid[tgid[t]] = tgid[t]
    BY DEF IInv, TypeOK, ProcessInv
  <1>2. Group(tgid[t]) # {}
    BY DEF Group
  <1>3. lost' \subseteq {"mixed"}
    BY DEF IInv, TypeOK, AloneSurvives, Killed
  <1> QED
    BY <1>1, <1>2, <1>3, ExitsKeepInv DEF Killed

LEMMA ExecFailsKeepsInv ==
    ASSUME IInv, NEW t \in Pids, ExecFails(t)
    PROVE  IInv'
  <1> USE TrackingAssumption
  <1>1. /\ hooked' \in [Pids -> 0 .. MaxNodes]
        /\ \A u \in Pids : hooked'[u] >= hooked[u]
    BY DEF IInv, TypeOK, ExecFails, Track
  <1>2. UNCHANGED <<tgid, live, parent, denied, filled, masters, listed, mixed, lost>>
    BY DEF ExecFails, kernel, pages, ghosts
  <1>3. started' \in BOOLEAN /\ finished' \in BOOLEAN
    BY Zenon DEF ExecFails, Track
  <1>4. TypeOK' /\ ProcessInv' /\ AloneSurvives'
    BY <1>1, <1>2, <1>3 DEF IInv, TypeOK, ProcessInv, AloneSurvives
  <1>5. \A u \in Pids : Found(u) => Found(u)'
    BY <1>1 DEF IInv, TypeOK, Found
  <1>6. Traced'
    BY <1>2, <1>5 DEF IInv, TypeOK, Traced
  <1>7. \A p \in Pids : AloneInv(p)'
    BY <1>2, <1>5 DEF IInv, AloneInv
  <1> QED
    BY <1>4, <1>6, <1>7 DEF IInv

LEMMA ExecKeepsInv ==
    ASSUME IInv, NEW t \in Pids, NEW match \in BOOLEAN, Exec(t, match)
    PROVE  IInv'
  <1> USE TrackingAssumption
  <1> DEFINE p == tgid[t]
             nodes == IF match THEN [hooked EXCEPT ![t] = @ + 1] ELSE hooked
  <1>1. /\ t \in live /\ p \in Pids /\ tgid[p] = p
        /\ match => hooked[t] < MaxNodes
    BY DEF IInv, TypeOK, ProcessInv, Exec
  <1>2. /\ nodes \in [Pids -> Nat]
        /\ \A u \in Pids : nodes[u] <= MaxNodes
        /\ \A u \in Pids \ {t} : nodes[u] = hooked[u]
        /\ match => nodes[t] > 0
    BY <1>1 DEF IInv, TypeOK
  <1>3. PICK old \in {p, t} :
          hooked' = WithoutNodes(nodes, (Group(p) \ {p, t}) \cup
                                        (IF p \in live /\ t # p THEN {old} ELSE {}))
    BY DEF Exec
  <1>4. /\ hooked' \in [Pids -> Nat]
        /\ \A u \in Pids : hooked'[u] <= nodes[u]
        /\ \A u \in Pids : u \notin Group(p) \cup {p} => hooked'[u] = hooked[u]
        /\ t = p => hooked'[p] = nodes[p]
    <2>1. t \in Group(p)
      BY <1>1 DEF Group
    <2> DEFINE dead == (Group(p) \ {p, t}) \cup
                       (IF p \in live /\ t # p THEN {old} ELSE {})
    <2>2. dead \subseteq Group(p) \cup {p} /\ t \notin Group(p) \ {p, t}
          /\ (t = p => p \notin dead)
      BY <2>1
    <2>3. \A u \in Pids : u \notin Group(p) \cup {p} => u # t /\ u \notin dead
      BY <2>1, <2>2
    <2> HIDE DEF dead, nodes
    <2>4. /\ hooked' \in [Pids -> Nat]
          /\ \A u \in Pids : hooked'[u] <= nodes[u]
          /\ \A u \in Pids \ dead : hooked'[u] = nodes[u]
      <3>1. hooked' = WithoutNodes(nodes, dead)
        BY <1>3 DEF dead
      <3> QED
        BY <1>2, <3>1, NodesLeft
    <2> QED
      BY <1>1, <1>2, <2>2, <2>3, <2>4
  <1>5. TypeOK'
    <2>1. hooked' \in [Pids -> 0 .. MaxNodes]
      <3>1. \A u \in Pids : hooked'[u] \in 0 .. MaxNodes
        BY <1>2, <1>4
      <3> QED
        BY <1>4, <3>1
    <2>2. tgid' \in [Pids -> Pids \cup {NoPid}] /\ parent' \in [Pids -> Pids \cup {NoPid}]
      BY DEF IInv, TypeOK, Exec
    <2>3. live' \subseteq {u \in Pids : tgid'[u] # NoPid}
      BY <1>1 DEF IInv, TypeOK, Exec, Group
    <2>4. /\ denied' \in [Pids -> SUBSET Pages] /\ filled' \in [Pids -> SUBSET Pages]
          /\ \A q \in Pids : tgid'[q] # q => denied'[q] \cup filled'[q] = {}
      BY <1>1 DEF IInv, TypeOK, Exec, DeniedTo
    <2>5. started' \in BOOLEAN /\ finished' \in BOOLEAN
      BY Zenon DEF Exec
    <2>6. masters' \subseteq Pids \X Pages /\ listed' \cup mixed' \subseteq Pids
          /\ lost' \subseteq {"alone", "mixed"}
      BY <1>1 DEF IInv, TypeOK, Exec
    <2> QED
      BY <2>1, <2>2, <2>3, <2>4, <2>5, <2>6 DEF TypeOK
  <1>6. ProcessInv'
    BY <1>1 DEF IInv, TypeOK, ProcessInv, Exec
  <1>7. Traced'
    <2> SUFFICES ASSUME NEW q \in listed' \cap live' PROVE hooked'[q] > 0
      BY DEF Traced, Found
    <2>1. CASE q = p
      BY <2>1, <1>2, <1>4 DEF Exec
    <2>2. CASE q # p
      <3>1. q \in listed \cap live /\ q \notin Group(p) /\ q \in Pids
        BY <2>2, <1>1 DEF IInv, TypeOK, Exec
      <3> QED
        BY <2>2, <3>1, <1>4 DEF IInv, Traced, Found
    <2> QED
      BY <2>1, <2>2
  <1>8. ASSUME NEW q \in Pids PROVE AloneInv(q)'
    <2> SUFFICES ASSUME tgid'[q] = q, q \notin mixed' PROVE AloneInv(q)'
      BY DEF AloneInv
    <2>1. CASE q = p
      <3>1. q \in live' /\ filled'[q] = {} /\ denied'[q] = DeniedTo(hooked', p, Pages)
        BY <2>1, <1>1 DEF IInv, TypeOK, Exec
      <3>2. \A u \in Pids : tgid'[u] = q => u = q
        BY <2>1, <1>1 DEF IInv, TypeOK, Exec
      <3> QED
        BY <2>1, <3>1, <3>2 DEF AloneInv, DeniedTo, Found
    <2>2. CASE q # p
      <3>1. tgid[q] = q /\ q \notin mixed /\ AloneInv(q)
        BY <2>2, <1>1 DEF IInv, TypeOK, Exec
      <3>2. q \notin Group(p) /\ hooked'[q] = hooked[q]
        BY <2>2, <3>1, <1>4 DEF Group
      <3>3. q \in live' /\ denied'[q] = denied[q] /\ filled'[q] = filled[q] /\ masters' = masters
        BY <2>2, <3>1, <3>2, <1>1 DEF IInv, TypeOK, AloneInv, Exec
      <3>4. \A u \in Pids : tgid'[u] = q => u = q
        BY <2>2, <3>1, <1>1 DEF IInv, TypeOK, AloneInv, Exec
      <3> QED
        BY <3>1, <3>2, <3>3, <3>4 DEF AloneInv, Found
    <2> QED
      BY <2>1, <2>2
  <1>9. AloneSurvives'
    BY DEF IInv, AloneSurvives, Exec
  <1> QED
    BY <1>5, <1>6, <1>7, <1>8, <1>9 DEF IInv

LEMMA StartKeepsInv ==
    ASSUME IInv, NEW p \in Pids, Start(p)
    PROVE  IInv'
  <1> USE TrackingAssumption
  <1>1. /\ tgid[p] = NoPid /\ p \notin live
        /\ \A t \in Pids : tgid[t] # p
    BY DEF IInv, TypeOK, ProcessInv, Start, Free
  <1>2. /\ UNCHANGED <<parent, denied, filled, masters, hooked, started, finished,
                       listed, mixed, lost>>
        /\ tgid' = [tgid EXCEPT ![p] = p] /\ live' = live \cup {p}
    BY DEF Start, flags, ghosts
  <1>3. TypeOK'
    BY <1>1, <1>2 DEF IInv, TypeOK
  <1>4. ProcessInv'
    BY <1>1, <1>2 DEF IInv, TypeOK, ProcessInv
  <1>5. Traced' /\ AloneSurvives'
    BY <1>1, <1>2 DEF IInv, TypeOK, ProcessInv, Traced, Found, AloneSurvives
  <1>6. \A q \in Pids : AloneInv(q)'
    BY <1>1, <1>2 DEF IInv, TypeOK, AloneInv, Found
  <1> QED
    BY <1>3, <1>4, <1>5, <1>6 DEF IInv

LEMMA NewThreadKeepsInv ==
    ASSUME IInv, NEW t \in Pids, NEW u \in Pids, NewThread(t, u)
    PROVE  IInv'
  <1> USE TrackingAssumption
  <1>1. /\ tgid[u] = NoPid /\ u \notin live /\ u \notin listed
        /\ \A v \in Pids : tgid[v] # u
        /\ t \in live /\ tgid[t] \in Pids /\ tgid[tgid[t]] = tgid[t]
    BY DEF IInv, TypeOK, ProcessInv, NewThread, Free
  <1>2. /\ UNCHANGED <<parent, denied, filled, masters, hooked, started, finished,
                       listed, lost>>
        /\ tgid' = [tgid EXCEPT ![u] = tgid[t]] /\ live' = live \cup {u}
        /\ mixed' = mixed \cup {tgid[t]}
    BY DEF NewThread, pages, flags
  <1>3. TypeOK'
    BY <1>1, <1>2 DEF IInv, TypeOK
  <1>4. ProcessInv'
    BY <1>1, <1>2 DEF IInv, TypeOK, ProcessInv
  <1>5. Traced' /\ AloneSurvives'
    BY <1>1, <1>2 DEF IInv, TypeOK, Traced, Found, AloneSurvives
  <1>6. \A q \in Pids : AloneInv(q)'
    BY <1>1, <1>2 DEF IInv, TypeOK, AloneInv, Found
  <1> QED
    BY <1>3, <1>4, <1>5, <1>6 DEF IInv

LEMMA ForkKeepsInv ==
    ASSUME IInv, NEW t \in Pids, NEW u \in Pids, Fork(t, u)
    PROVE  IInv'
  <1> USE TrackingAssumption
  <1> DEFINE p == tgid[t]
  <1>1. /\ tgid[u] = NoPid /\ u \notin live /\ u \notin listed
        /\ \A v \in Pids : tgid[v] # u
        /\ t \in live /\ p \in Pids /\ tgid[p] = p
    BY DEF IInv, TypeOK, ProcessInv, Fork, Free
  <1>2. /\ UNCHANGED <<masters, hooked, started, finished, listed, lost>>
        /\ tgid' = [tgid EXCEPT ![u] = u] /\ live' = live \cup {u}
        /\ parent' = [parent EXCEPT ![u] = p]
        /\ filled' = [filled EXCEPT ![u] = filled[p]]
        /\ mixed' = IF denied[p] \cup filled[p] = {} THEN mixed ELSE mixed \cup {u}
    BY DEF Fork, flags
  <1>3. PICK copied \in SUBSET denied[p] : denied' = [denied EXCEPT ![u] = copied]
    BY DEF Fork
  <1>4. TypeOK'
    BY <1>1, <1>2, <1>3 DEF IInv, TypeOK
  <1>5. ProcessInv'
    BY <1>1, <1>2 DEF IInv, TypeOK, ProcessInv
  <1>6. Traced' /\ AloneSurvives'
    BY <1>1, <1>2 DEF IInv, TypeOK, Traced, Found, AloneSurvives
  <1>7. ASSUME NEW q \in Pids PROVE AloneInv(q)'
    <2> SUFFICES ASSUME tgid'[q] = q, q \notin mixed' PROVE AloneInv(q)'
      BY DEF AloneInv
    <2>1. CASE q = u
      <3>1. denied'[q] \cup filled'[q] = {}
        BY <2>1, <1>1, <1>2, <1>3 DEF IInv, TypeOK
      <3> QED
        BY <2>1, <3>1, <1>1, <1>2 DEF IInv, TypeOK, AloneInv
    <2>2. CASE q # u
      BY <2>2, <1>1, <1>2, <1>3 DEF IInv, TypeOK, AloneInv, Found
    <2> QED
      BY <2>1, <2>2
  <1> QED
    BY <1>4, <1>5, <1>6, <1>7 DEF IInv

LEMMA MapKeepsInv ==
    ASSUME IInv, NEW t \in Pids, NEW page \in Pages, Map(t, page)
    PROVE  IInv'
  <1> DEFINE p == tgid[t]
  <1>1. t \in live /\ p \in Pids /\ tgid[p] = p
    BY DEF IInv, TypeOK, ProcessInv, Map, TrackingAssumption
  <1>2. UNCHANGED <<tgid, live, parent, masters, hooked, started, finished,
                    listed, mixed, lost>>
    BY DEF Map, kernel, flags, ghosts
  <1>3. TypeOK'
    BY <1>1, <1>2 DEF IInv, TypeOK, Map, DeniedTo
  <1>4. ProcessInv' /\ Traced' /\ AloneSurvives'
    BY <1>2 DEF IInv, ProcessInv, Traced, Found, AloneSurvives
  <1>5. ASSUME NEW q \in Pids PROVE AloneInv(q)'
    <2>1. CASE q = p
      <3> SUFFICES ASSUME tgid[q] = q, q \notin mixed PROVE AloneInv(q)'
        BY <1>2 DEF AloneInv
      <3>1. t = p /\ AloneInv(p)
        BY <2>1, <1>1 DEF IInv, AloneInv
      <3> QED
        BY <2>1, <3>1, <1>1, <1>2 DEF IInv, TypeOK, AloneInv, Map, DeniedTo, Found
    <2>2. CASE q # p
      BY <2>2, <1>1, <1>2 DEF IInv, TypeOK, AloneInv, Map, Found
    <2> QED
      BY <2>1, <2>2
  <1> QED
    BY <1>3, <1>4, <1>5 DEF IInv

LEMMA FetchKeepsInv ==
    ASSUME IInv, NEW t \in Pids, NEW page \in Pages, Fetch(t, page)
    PROVE  IInv'
  <1> DEFINE p == tgid[t]
  <1>1. /\ t \in live /\ p \in Pids /\ tgid[p] = p
        /\ page \in denied[p]
    BY DEF IInv, TypeOK, ProcessInv, Fetch, TrackingAssumption
  <1>2. CASE ~Found(t)
    <2>1. Killed(p)
      BY <1>2 DEF Fetch
    <2>2. p \in mixed
      BY <1>1, <1>2 DEF IInv, TypeOK, AloneInv
    <2> QED
      BY <1>1, <2>1, <2>2, KilledKeepsInv
  <1>3. CASE Found(t)
    <2>1. /\ UNCHANGED <<tgid, live, parent, hooked, started, finished,
                         listed, mixed, lost>>
          /\ denied' = [denied EXCEPT ![p] = @ \ {page}]
          /\ filled' = [filled EXCEPT ![p] = @ \cup {page}]
          /\ masters' = masters \cup {<<p, page>>}
      BY <1>3 DEF Fetch, kernel, flags, ghosts
    <2>2. TypeOK'
      BY <1>1, <2>1 DEF IInv, TypeOK
    <2>3. ProcessInv' /\ Traced' /\ AloneSurvives'
      BY <2>1 DEF IInv, ProcessInv, Traced, Found, AloneSurvives
    <2>4. ASSUME NEW q \in Pids PROVE AloneInv(q)'
      <3>1. CASE q = p
        BY <3>1, <1>1, <2>1 DEF IInv, TypeOK, AloneInv, Found
      <3>2. CASE q # p
        BY <3>2, <1>1, <2>1 DEF IInv, TypeOK, AloneInv, Found
      <3> QED
        BY <3>1, <3>2
    <2> QED
      BY <2>2, <2>3, <2>4 DEF IInv
  <1> QED
    BY <1>2, <1>3

LEMMA TrapKeepsInv ==
    ASSUME IInv, NEW t \in Pids, NEW page \in Pages, Trap(t, page)
    PROVE  IInv'
  <1> DEFINE p == tgid[t]
  <1>1. /\ t \in live /\ p \in Pids /\ tgid[p] = p
        /\ page \in filled[p]
    BY DEF IInv, TypeOK, ProcessInv, Trap, TrackingAssumption
  <1>2. CASE Killed(p) /\ (~Found(t) \/ ~Inherited(p, page))
    <2>1. p \in mixed
      BY <1>1, <1>2 DEF IInv, TypeOK, AloneInv, Inherited
    <2> QED
      BY <1>1, <1>2, <2>1, KilledKeepsInv
  <1>3. CASE /\ masters' = masters \cup {<<p, page>>}
             /\ UNCHANGED <<kernel, denied, filled, hooked, flags, ghosts>>
    <2>1. UNCHANGED <<tgid, live, parent, denied, filled, hooked, started, finished,
                      listed, mixed, lost>>
      BY <1>3 DEF kernel, flags, ghosts
    <2>2. TypeOK'
      BY <1>1, <1>3, <2>1 DEF IInv, TypeOK
    <2>3. ProcessInv' /\ Traced' /\ AloneSurvives'
      BY <2>1 DEF IInv, ProcessInv, Traced, Found, AloneSurvives
    <2>4. \A q \in Pids : AloneInv(q)'
      BY <1>3, <2>1 DEF IInv, AloneInv, Found
    <2> QED
      BY <2>2, <2>3, <2>4 DEF IInv
  <1> QED
    BY <1>2, <1>3 DEF Trap

-----------------------------------------------------------------------------
LEMMA NextKeepsInv == IInv /\ [Next]_vars => IInv'
  <1> SUFFICES ASSUME IInv, [Next]_vars PROVE IInv'
    OBVIOUS
  <1>1. CASE UNCHANGED vars
    <2>1. TypeOK' /\ ProcessInv' /\ Traced' /\ AloneSurvives'
      BY <1>1 DEF vars, IInv, TypeOK, ProcessInv, Traced, Found, AloneSurvives
    <2>2. \A p \in Pids : AloneInv(p)'
      BY <1>1 DEF vars, IInv, AloneInv, Found
    <2> QED
      BY <2>1, <2>2 DEF IInv
  <1>2. CASE Next
    <2> PICK t \in Pids :
          \/ Start(t)
          \/ Exit(t)
          \/ ExecFails(t)
          \/ \E match \in BOOLEAN : Exec(t, match)
          \/ \E u \in Pids : NewThread(t, u) \/ Fork(t, u)
          \/ \E page \in Pages : Map(t, page) \/ Fetch(t, page) \/ Trap(t, page)
      BY <1>2 DEF Next
    <2>1. CASE Start(t)
      BY <2>1, StartKeepsInv
    <2>2. CASE Exit(t)
      BY <2>2, ExitKeepsInv
    <2>3. CASE ExecFails(t)
      BY <2>3, ExecFailsKeepsInv
    <2>4. ASSUME NEW match \in BOOLEAN, Exec(t, match) PROVE IInv'
      BY <2>4, ExecKeepsInv
    <2>5. ASSUME NEW u \in Pids, NewThread(t, u) PROVE IInv'
      BY <2>5, NewThreadKeepsInv
    <2>6. ASSUME NEW u \in Pids, Fork(t, u) PROVE IInv'
      BY <2>6, ForkKeepsInv
    <2>7. ASSUME NEW page \in Pages, Map(t, page) PROVE IInv'
      BY <2>7, MapKeepsInv
    <2>8. ASSUME NEW page \in Pages, Fetch(t, page) PROVE IInv'
      BY <2>8, FetchKeepsInv
    <2>9. ASSUME NEW page \in Pages, Trap(t, page) PROVE IInv'
      BY <2>9, TrapKeepsInv
    <2> QED
      BY <2>1, <2>2, <2>3, <2>4, <2>5, <2>6, <2>7, <2>8, <2>9
  <1> QED
    BY <1>1, <1>2

(* The tables keep their types, and no id has a negative number of nodes   *)
(* (hooked_pids, page_hash_table).                                         *)
THEOREM TypeCorrect == Spec => []TypeOK
  <1>1. IInv => TypeOK
    BY DEF IInv
  <1> QED
    BY <1>1, InitInv, NextKeepsInv, PTL DEF Spec

(* A main thread that executed a listed program is monitored until it      *)
(* exits (exec_handler, handle_exit).                                      *)
THEOREM ListedAreTraced == Spec => []Traced
  <1>1. IInv => Traced
    BY DEF IInv
  <1> QED
    BY <1>1, InitInv, NextKeepsInv, PTL DEF Spec

(* The module kills no process that runs alone: one thread, no pages of a  *)
(* monitored process (do_mmap_ret_handler_f, sig_handler,                  *)
(* invalid_op_handler).                                                    *)
THEOREM NobodyAloneIsKilled == Spec => []AloneSurvives
  <1>1. IInv => AloneSurvives
    BY DEF IInv
  <1> QED
    BY <1>1, InitInv, NextKeepsInv, PTL DEF Spec
=============================================================================

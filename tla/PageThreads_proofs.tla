-------------------------- MODULE PageThreads_proofs --------------------------
(***************************************************************************)
(* However many threads fault and trap, on however many pages: a thread    *)
(* changes a page only while it has its mutex, what may execute was        *)
(* checked, and a page no instruction crosses into is registered once.     *)
(***************************************************************************)
EXTENDS PageThreads, TLAPS, SequenceTheorems

Jobs == [spot : Spots \cup {Outside}, data : Seq(SUBSET Blocks),
         zone : SUBSET Spots, todo : SUBSET Pages, held : Seq(Pages)]

Types ==
    /\ exeDeny \in [Pages -> BOOLEAN] /\ check \in [Pages -> BOOLEAN]
    /\ mem \in [Pages -> SUBSET Blocks]
    /\ masters \in [Pages -> Seq(SUBSET Blocks)]
    /\ ends \subseteq Pages
    /\ owner \in [Pages -> Threads \cup {NoThread}]
    /\ pc \in [Threads -> Spots \cup {Outside}]
    /\ at \in [Threads -> Labels]
    /\ job \in [Threads -> Jobs]
    /\ alive \in BOOLEAN
    /\ checked \subseteq Spots

Locks(t, p) == \E i \in DOMAIN job[t].held : job[t].held[i] = p

\* The mutexes of thread t, by its step.
HeldInv(t) ==
    LET one == job[t].held = <<First(t)>>
        two == job[t].held = <<First(t), Next2(t)>> /\ First(t) \in Crossing
    IN  /\ at[t] \in {"user", "fetch_fault", "fetch_lock", "trap_find", "trap_lock"} =>
             job[t].held = <<>>
        /\ at[t] \in {"fetch_first", "fetch_next", "trap_search", "trap_join", "trap_make"} =>
             one
        /\ at[t] \in {"fetch_second", "trap_made", "trap_close"} => two
        /\ at[t] \in {"fetch_register", "fetch_close", "trap_open", "allow"} =>
             (one /\ Len(job[t].data) = 1) \/ (two /\ Len(job[t].data) \in {1, 2})
        /\ at[t] = "unlock" => one \/ two

\* What it knows, and what it is going to do.
JobInv(t) ==
    /\ at[t] # "user" => job[t].spot \in Spots
    /\ at[t] \in {"fetch_next", "trap_join", "trap_make"} => First(t) \in Crossing
    /\ at[t] \in {"fetch_fault", "fetch_lock", "fetch_first", "trap_find"} => job[t].data = <<>>
    /\ at[t] \in {"fetch_next", "fetch_second", "trap_lock", "trap_search", "trap_make",
                  "trap_made"} => Len(job[t].data) = 1
    /\ at[t] \in {"trap_join", "trap_close"} => Len(job[t].data) = 2
    /\ at[t] \notin {"trap_close", "trap_open", "allow"} => job[t].todo = {}
    /\ at[t] = "trap_close" => job[t].todo = {Next2(t)} /\ masters[Next2(t)] # <<>>
    /\ at[t] = "allow" => job[t].todo # {}
    /\ at[t] \in {"trap_open", "allow"} =>
         \A p \in job[t].todo :
            /\ p \in ZonePages(t) /\ masters[p] # <<>>
            /\ \A b \in mem[p] : <<p, b>> \in checked
    /\ at[t] = "fetch_close" =>
         job[t].zone \subseteq checked /\ \A p \in ZonePages(t) : masters[p] # <<>>
    /\ at[t] \in {"fetch_next", "fetch_second", "fetch_register"} =>
         exeDeny[First(t)] /\ masters[First(t)] = <<>> /\ job[t].data[1] = Blocks
    /\ at[t] = "trap_find" => masters[First(t)] # <<>>

\* Thread t has page p registered and has not let it execute yet.
Closes(t, p) ==
    \/ at[t] \in {"trap_close", "trap_open", "allow"} /\ p \in job[t].todo
    \/ at[t] = "fetch_close" /\ p \in ZonePages(t)

PageInv(p) ==
    /\ ~exeDeny[p] => masters[p] # <<>> /\ \A b \in mem[p] : <<p, b>> \in checked
    /\ check[p] => ~exeDeny[p]
    /\ exeDeny[p] /\ (masters[p] # <<>> \/ mem[p] # Blocks) =>
         owner[p] # NoThread /\ Closes(owner[p], p)
    /\ p - 1 \notin Crossing => masters[p] \in {<<>>, <<Blocks>>}

IInv ==
    /\ Types
    /\ \A p \in Pages, t \in Threads : owner[p] = t <=> Locks(t, p)
    /\ \A t \in Threads : HeldInv(t) /\ JobInv(t)
    /\ \A p \in Pages : PageInv(p)

Untouched(p) ==
    /\ owner'[p] = owner[p] /\ exeDeny'[p] = exeDeny[p] /\ check'[p] = check[p]
    /\ mem'[p] = mem[p] /\ masters'[p] = masters[p]

\* The part of the state the invariant relates.
shared == <<exeDeny, check, mem, masters, owner, checked>>
-----------------------------------------------------------------------------
(* Pages and mutexes.                                                      *)

LEMMA PageFacts ==
    /\ Pages \subseteq Int /\ Blocks \subseteq Int
    /\ 1 \in Blocks /\ NumBlocks \in Blocks
    /\ \A p \in Crossing : p \in Pages /\ p + 1 \in Pages
    /\ NoThread \notin Threads
    /\ Outside \notin Spots
  BY ThreadsAssumption DEF Pages, Blocks, Outside, Spots

\* A thread holds the mutexes it lists.
LEMMA HeldPages ==
    ASSUME NEW t, NEW p
    PROVE  /\ job[t].held = <<>> => ~Locks(t, p)
           /\ \A x : job[t].held = <<x>> => (Locks(t, p) <=> p = x)
           /\ \A x, y : job[t].held = <<x, y>> => (Locks(t, p) <=> p \in {x, y})
  BY DEF Locks

\* A zone has one page or two.
LEMMA ZoneFacts ==
    ASSUME NEW t, First(t) \in Int
    PROVE  /\ Len(job[t].data) = 1 => ZonePages(t) = {First(t)}
           /\ Len(job[t].data) = 2 => ZonePages(t) = {First(t), Next2(t)}
           /\ Next2(t) = First(t) + 1
  <1>1. \A f \in Int : f .. (f + 1 - 1) = {f} /\ f .. (f + 2 - 1) = {f, f + 1}
    OBVIOUS
  <1>2. Next2(t) = First(t) + 1
    BY DEF Next2, First
  <1> QED
    BY <1>1, <1>2 DEF ZonePages

\* At first no page may execute and no thread is in a handler.
LEMMA InitInv == Init => IInv
  <1> SUFFICES ASSUME Init PROVE IInv
    OBVIOUS
  <1> USE PageFacts
  <1>1. Types
    <2>1. alive \in BOOLEAN
      BY Zenon DEF Init
    <2>2. NoJob \in Jobs
      BY DEF NoJob, Jobs
    <2>3. exeDeny \in [Pages -> BOOLEAN] /\ check \in [Pages -> BOOLEAN]
      BY DEF Init
    <2> QED
      BY <2>1, <2>2, <2>3 DEF Init, Types, Labels
  <1>2. ASSUME NEW p \in Pages, NEW t \in Threads
        PROVE  owner[p] = t <=> Locks(t, p)
    BY HeldPages DEF Init, NoJob
  <1>3. ASSUME NEW t \in Threads
        PROVE  HeldInv(t) /\ JobInv(t)
    BY DEF Init, HeldInv, JobInv, NoJob
  <1>4. ASSUME NEW p \in Pages
        PROVE  PageInv(p)
    BY DEF Init, PageInv
  <1> QED
    BY <1>1, <1>2, <1>3, <1>4 DEF IInv

\* What a handler holds, it has the mutex of.
LEMMA HolderOwns ==
    ASSUME IInv, NEW t \in Threads
    PROVE  /\ at[t] \in {"fetch_first", "fetch_next", "fetch_second", "fetch_register",
                         "fetch_close", "trap_search", "trap_join", "trap_make", "trap_made",
                         "trap_close", "trap_open", "allow", "unlock"} =>
                 First(t) \in Pages /\ owner[First(t)] = t
           /\ at[t] \in {"fetch_second", "trap_made", "trap_close"} =>
                 Next2(t) \in Pages /\ owner[Next2(t)] = t
           /\ at[t] \in {"fetch_register", "fetch_close", "trap_open", "allow"} =>
                 \A p \in ZonePages(t) : p \in Pages /\ owner[p] = t
  <1> USE PageFacts
  <1>1. at[t] # "user" => First(t) \in Pages
    BY DEF IInv, JobInv, First, Spots
  <1>2. \A p \in Pages : owner[p] = t <=> Locks(t, p)
    BY DEF IInv
  <1>3. HeldInv(t)
    BY DEF IInv
  <1>4. job[t].held = <<First(t)>> \/ job[t].held = <<First(t), Next2(t)>> =>
          Locks(t, First(t))
    BY HeldPages
  <1>5. job[t].held = <<First(t), Next2(t)>> /\ First(t) \in Crossing =>
          Locks(t, Next2(t)) /\ Next2(t) \in Pages
    BY HeldPages DEF Next2, First
  <1>6. ASSUME at[t] \in {"fetch_register", "fetch_close", "trap_open", "allow"},
               NEW p \in ZonePages(t)
        PROVE  p \in Pages /\ owner[p] = t
    <2>1. CASE job[t].held = <<First(t)>> /\ Len(job[t].data) = 1
      BY <1>1, <1>2, <1>4, <1>6, <2>1, ZoneFacts
    <2>2. CASE /\ job[t].held = <<First(t), Next2(t)>> /\ First(t) \in Crossing
               /\ Len(job[t].data) \in {1, 2}
      <3>1. p = First(t) \/ p = Next2(t)
        BY <1>1, <1>6, <2>2, ZoneFacts
      <3> QED
        BY <1>1, <1>2, <1>4, <1>5, <1>6, <2>2, <3>1
    <2> QED
      BY <1>3, <1>6, <2>1, <2>2 DEF HeldInv
  <1> QED
    BY <1>1, <1>2, <1>3, <1>4, <1>5, <1>6 DEF HeldInv

\* A step of t that changes no page whose mutex it has not disturbs no other
\* thread.
LEMMA OthersKeep ==
    ASSUME IInv, NEW t \in Threads,
           \A u \in Threads \ {t} : job'[u] = job[u] /\ at'[u] = at[u],
           \A p \in Pages : owner[p] \notin {t, NoThread} => Untouched(p),
           checked \subseteq checked',
           \A p \in Pages : masters[p] # <<>> => masters'[p] # <<>>,
           NEW u \in Threads, u # t
    PROVE  HeldInv(u)' /\ JobInv(u)'
  <1>1. job'[u] = job[u] /\ at'[u] = at[u]
    OBVIOUS
  <1>2. First(u)' = First(u) /\ Next2(u)' = Next2(u) /\ ZonePages(u)' = ZonePages(u)
    BY <1>1 DEF First, Next2, ZonePages
  <1>3. HeldInv(u) /\ JobInv(u)
    BY DEF IInv
  <1>4. HeldInv(u)'
    BY <1>1, <1>2, <1>3 DEF HeldInv
  <1>5. \A p \in Pages : owner[p] = u =>
          mem'[p] = mem[p] /\ masters'[p] = masters[p] /\ exeDeny'[p] = exeDeny[p]
    BY PageFacts DEF Untouched
  <1>6. at[u] = "trap_close" => masters'[Next2(u)] # <<>>
    BY <1>3, HolderOwns DEF JobInv
  <1>7. ASSUME at[u] \in {"trap_open", "allow"}, NEW p \in job[u].todo
        PROVE  masters'[p] # <<>> /\ \A b \in mem'[p] : <<p, b>> \in checked'
    <2>1. p \in ZonePages(u) /\ masters[p] # <<>> /\ \A b \in mem[p] : <<p, b>> \in checked
      BY <1>3, <1>7 DEF JobInv
    <2>2. p \in Pages /\ owner[p] = u
      BY <1>7, <2>1, HolderOwns
    <2> QED
      BY <1>5, <2>1, <2>2
  <1>8. ASSUME at[u] = "fetch_close"
        PROVE  job[u].zone \subseteq checked' /\ \A p \in ZonePages(u) : masters'[p] # <<>>
    <2>1. \A p \in ZonePages(u) : p \in Pages /\ masters[p] # <<>>
      BY <1>3, <1>8, HolderOwns DEF JobInv
    <2> QED
      BY <1>3, <1>8, <2>1 DEF JobInv
  <1>9. at[u] \in {"fetch_next", "fetch_second", "fetch_register"} =>
          exeDeny'[First(u)] /\ masters'[First(u)] = <<>> /\ job[u].data[1] = Blocks
    BY <1>3, <1>5, HolderOwns DEF JobInv
  <1>10. at[u] = "trap_find" => masters'[First(u)] # <<>>
    <2>1. at[u] = "trap_find" => First(u) \in Pages /\ masters[First(u)] # <<>>
      BY <1>3 DEF JobInv, First, Spots
    <2> QED
      BY <2>1
  <1>11. JobInv(u)'
    BY <1>1, <1>2, <1>3, <1>6, <1>7, <1>8, <1>9, <1>10 DEF JobInv
  <1> QED
    BY <1>4, <1>11

\* What a step of t has to show.
LEMMA StepKeeps ==
    ASSUME IInv, NEW t \in Threads, Types',
           \A u \in Threads \ {t} : job'[u] = job[u] /\ at'[u] = at[u],
           \A p \in Pages : owner[p] # t /\ owner'[p] # t => Untouched(p),
           \A p \in Pages : owner[p] \notin {t, NoThread} => owner'[p] = owner[p],
           \A p \in Pages : owner[p] \in {t, NoThread} => owner'[p] \in {t, NoThread},
           \A p \in Pages : owner'[p] = t <=> Locks(t, p)',
           checked \subseteq checked',
           \A p \in Pages : masters[p] # <<>> => masters'[p] # <<>>,
           HeldInv(t)', JobInv(t)',
           \A p \in Pages : owner[p] = t \/ owner'[p] = t => PageInv(p)'
    PROVE  IInv'
  <1> USE PageFacts
  <1>1. ASSUME NEW u \in Threads
        PROVE  HeldInv(u)' /\ JobInv(u)'
    <2>1. \A p \in Pages : owner[p] \notin {t, NoThread} => Untouched(p)
      OBVIOUS
    <2> QED
      BY <2>1, OthersKeep
  <1>2. ASSUME NEW p \in Pages, NEW u \in Threads, u # t
        PROVE  owner'[p] = u <=> Locks(u, p)'
    <2>1. Locks(u, p)' <=> Locks(u, p)
      BY <1>2 DEF Locks
    <2>2. owner[p] = u <=> Locks(u, p)
      BY DEF IInv
    <2>3. owner'[p] = u <=> owner[p] = u
      BY <1>2 DEF IInv, Types
    <2> QED
      BY <2>1, <2>2, <2>3
  <1>3. ASSUME NEW p \in Pages, owner[p] # t, owner'[p] # t
        PROVE  PageInv(p)'
    <2>1. Untouched(p) /\ PageInv(p)
      BY <1>3 DEF IInv
    <2>2. ASSUME owner[p] # NoThread, Closes(owner[p], p)
          PROVE  Closes(owner[p], p)'
      <3>1. owner[p] \in Threads \ {t}
        BY <1>3, <2>2 DEF IInv, Types
      <3>2. /\ job'[owner[p]] = job[owner[p]] /\ at'[owner[p]] = at[owner[p]]
            /\ owner'[p] = owner[p]
        BY <3>1, <2>1 DEF Untouched
      <3> QED
        BY <2>2, <3>2 DEF Closes, ZonePages, First
    <2> QED
      BY <2>1, <2>2 DEF PageInv, Untouched
  <1>4. \A p \in Pages, u \in Threads : (owner[p] = u <=> Locks(u, p))'
    <2> SUFFICES ASSUME NEW p \in Pages, NEW u \in Threads
                 PROVE  owner'[p] = u <=> Locks(u, p)'
      OBVIOUS
    <2> QED
      BY <1>2
  <1>5. \A p \in Pages : PageInv(p)'
    BY <1>3
  <1> QED
    BY <1>1, <1>4, <1>5 DEF IInv

\* A step inside the handler: only the locals change.
LEMMA LocalStep ==
    ASSUME IInv, NEW t \in Threads, Types', UNCHANGED shared,
           \A u \in Threads \ {t} : job'[u] = job[u] /\ at'[u] = at[u],
           job'[t].held = job[t].held, HeldInv(t)', JobInv(t)',
           \A p \in Pages : owner[p] = t /\ Closes(t, p) => Closes(t, p)'
    PROVE  IInv'
  <1>1. \A p \in Pages : owner'[p] = t <=> Locks(t, p)'
    BY DEF IInv, Locks, shared
  <1>2. \A p \in Pages : Untouched(p)
    BY DEF Untouched, shared
  <1>3. ASSUME NEW p \in Pages, owner[p] = t
        PROVE  PageInv(p)'
    <2>1. Closes(owner[p], p) => Closes(owner[p], p)'
      BY <1>3 DEF shared
    <2> QED
      BY <2>1 DEF IInv, PageInv, shared
  <1>4. \A p \in Pages : owner[p] \notin {t, NoThread} => owner'[p] = owner[p]
    BY DEF shared
  <1>5. \A p \in Pages : owner[p] \in {t, NoThread} => owner'[p] \in {t, NoThread}
    BY DEF shared
  <1>6. checked \subseteq checked' /\ \A p \in Pages : masters[p] # <<>> => masters'[p] # <<>>
    BY DEF shared
  <1> QED
    BY <1>1, <1>2, <1>3, <1>4, <1>5, <1>6, StepKeeps DEF shared

\* A step that takes the mutex of page q, which was free.
LEMMA LockStep ==
    ASSUME IInv, NEW t \in Threads, NEW q \in Pages, Lock(t, q), Types',
           UNCHANGED <<exeDeny, check, mem, masters, checked>>,
           \A u \in Threads \ {t} : job'[u] = job[u] /\ at'[u] = at[u],
           HeldInv(t)', JobInv(t)',
           \A p \in Pages : owner[p] = t /\ Closes(t, p) => Closes(t, p)'
    PROVE  IInv'
  <1> USE PageFacts
  <1>1. \A p \in Pages : owner'[p] = IF p = q THEN t ELSE owner[p]
    BY DEF Lock, IInv, Types
  <1>2. owner[q] = NoThread
    BY DEF Lock
  <1>3. job[t].held \in Seq(Pages) /\ job'[t].held = Append(job[t].held, q)
    BY DEF Lock, IInv, Types, Jobs
  <1>4. ASSUME NEW p \in Pages
        PROVE  owner'[p] = t <=> Locks(t, p)'
    <2>1. Locks(t, p)' <=> Locks(t, p) \/ p = q
      <3>1. Len(job[t].held) \in Nat /\ DOMAIN job'[t].held = 1 .. Len(job[t].held) + 1
            /\ job'[t].held[Len(job[t].held) + 1] = q
        BY <1>3
      <3>2. \A i \in DOMAIN job[t].held : i \in DOMAIN job'[t].held
                                          /\ job'[t].held[i] = job[t].held[i]
        BY <1>3
      <3>3. \A i \in DOMAIN job'[t].held :
              i \in DOMAIN job[t].held \/ i = Len(job[t].held) + 1
        BY <1>3, <3>1
      <3>4. Locks(t, p) => Locks(t, p)'
        BY <3>2 DEF Locks
      <3>5. p = q => Locks(t, p)'
        BY <3>1 DEF Locks
      <3>6. ASSUME NEW i \in DOMAIN job'[t].held, job'[t].held[i] = p
            PROVE  Locks(t, p) \/ p = q
        BY <3>1, <3>2, <3>3, <3>6 DEF Locks
      <3> QED
        BY <3>4, <3>5, <3>6 DEF Locks
    <2>2. owner[p] = t <=> Locks(t, p)
      BY DEF IInv
    <2> QED
      BY <1>1, <2>1, <2>2
  <1>5. ASSUME NEW p \in Pages, owner[p] = t \/ owner'[p] = t
        PROVE  PageInv(p)'
    <2>1. PageInv(p) /\ owner'[p] = t /\ (owner[p] = t \/ owner[p] = NoThread)
      BY <1>1, <1>2, <1>5 DEF IInv
    <2>2. owner[p] # NoThread /\ Closes(owner[p], p) => Closes(owner[p], p)'
      <3>1. owner[p] = t /\ Closes(t, p) => Closes(t, p)'
        OBVIOUS
      <3> QED
        BY <2>1, <3>1 DEF Closes, ZonePages, First
    <2> QED
      BY <2>1, <2>2 DEF PageInv
  <1>6. \A p \in Pages : owner[p] # t /\ owner'[p] # t => Untouched(p)
    BY <1>1 DEF Untouched
  <1>7. /\ \A p \in Pages : owner[p] \notin {t, NoThread} => owner'[p] = owner[p]
        /\ \A p \in Pages : owner[p] \in {t, NoThread} => owner'[p] \in {t, NoThread}
    BY <1>1, <1>2
  <1>8. checked \subseteq checked' /\ \A p \in Pages : masters[p] # <<>> => masters'[p] # <<>>
    OBVIOUS
  <1> QED
    BY <1>4, <1>5, <1>6, <1>7, <1>8, StepKeeps
-----------------------------------------------------------------------------
(* The steps of sig_handler and invalid_op_handler that change its locals. *)

LEMMA FaultKeepsInv ==
    ASSUME IInv, NEW t \in Threads, Fault(t)
    PROVE  IInv'
  <1> USE PageFacts
  <1>1. job[t] \in Jobs /\ HeldInv(t) /\ JobInv(t)
    BY DEF IInv, Types
  <1>2. PICK s \in Faulting(pc[t]) :
          /\ job' = [job EXCEPT ![t].spot = s, ![t].data = <<>>]
          /\ at' = [at EXCEPT ![t] = "fetch_fault"] /\ at[t] = "user"
          /\ s \in Spots /\ job'[t].spot = s /\ job'[t].data = <<>>
          /\ at'[t] = "fetch_fault"
          /\ job'[t].todo = job[t].todo /\ job'[t].held = job[t].held
    <2>1. PICK s \in Faulting(pc[t]) : Begin(t, s)
      BY DEF Fault
    <2>2. s \in Spots
      <3>1. pc[t] \in Spots
        BY DEF Fault, IInv, Types
      <3> QED
        BY <2>1, <3>1 DEF Faulting, Crosses, Spots
    <2>3. job' = [job EXCEPT ![t].spot = s, ![t].data = <<>>]
      BY <2>1 DEF Begin
    <2>4. job'[t] = [job[t] EXCEPT !.spot = s, !.data = <<>>]
      BY <2>3 DEF IInv, Types
    <2>5. /\ job'[t].spot = s /\ job'[t].data = <<>>
          /\ job'[t].todo = job[t].todo /\ job'[t].held = job[t].held
      BY <1>1, <2>4 DEF Jobs
    <2> QED
      BY <2>1, <2>2, <2>3, <2>5 DEF Fault, Goto, InUser, IInv, Types
  <1>3. job' \in [Threads -> Jobs]
    <2>1. [job[t] EXCEPT !.spot = job'[t].spot, !.data = job'[t].data] \in Jobs
      <3>1. job'[t].spot \in Spots /\ job'[t].data \in Seq(SUBSET Blocks)
        BY <1>2, EmptySeq
      <3> QED
        BY <1>1, <3>1 DEF Jobs
    <2>2. job' = [job EXCEPT ![t] = [job[t] EXCEPT !.spot = job'[t].spot, !.data = job'[t].data]]
      BY <1>2 DEF IInv, Types
    <2> QED
      BY <2>1, <2>2 DEF IInv, Types
  <1>4. Types'
    BY <1>2, <1>3 DEF IInv, Types, Labels, Fault, Goto, In, bits, tables
  <1>5. UNCHANGED shared /\ \A u \in Threads \ {t} : job'[u] = job[u] /\ at'[u] = at[u]
    BY DEF Fault, Goto, shared, bits, tables, IInv, Types, Begin
  <1>6. HeldInv(t)'
    BY <1>1, <1>2 DEF HeldInv, First, Next2
  <1>7. JobInv(t)'
    BY <1>1, <1>2, <1>5 DEF JobInv, First, Next2, ZonePages, shared
  <1> QED
    BY <1>1, <1>2, <1>4, <1>5, <1>6, <1>7, LocalStep DEF Closes

LEMMA TrapKeepsInv ==
    ASSUME IInv, NEW t \in Threads, Trap(t)
    PROVE  IInv'
  <1> USE PageFacts
  <1>1. job[t] \in Jobs /\ HeldInv(t) /\ JobInv(t)
    BY DEF IInv, Types
  <1>2. /\ job' = [job EXCEPT ![t].spot = pc[t], ![t].data = <<>>]
        /\ at' = [at EXCEPT ![t] = "trap_find"] /\ at[t] = "user"
        /\ pc[t] \in Spots /\ job'[t].spot = pc[t] /\ job'[t].data = <<>>
        /\ at'[t] = "trap_find" /\ masters[pc[t][1]] # <<>>
        /\ job'[t].todo = job[t].todo /\ job'[t].held = job[t].held
    <2>1. pc[t] \in Spots /\ pc[t][1] \in Pages
      BY DEF Trap, IInv, Types, Spots
    <2>2. masters[pc[t][1]] # <<>>
      BY <2>1 DEF Trap, Traps, IInv, PageInv
    <2> QED
      BY <2>1, <2>2 DEF Trap, Begin, Goto, InUser, IInv, Types, Jobs
  <1>3. job' \in [Threads -> Jobs]
    <2>1. [job[t] EXCEPT !.spot = job'[t].spot, !.data = job'[t].data] \in Jobs
      <3>1. job'[t].spot \in Spots /\ job'[t].data \in Seq(SUBSET Blocks)
        BY <1>2, EmptySeq
      <3> QED
        BY <1>1, <3>1 DEF Jobs
    <2>2. job' = [job EXCEPT ![t] = [job[t] EXCEPT !.spot = job'[t].spot, !.data = job'[t].data]]
      BY <1>2 DEF IInv, Types
    <2> QED
      BY <2>1, <2>2 DEF IInv, Types
  <1>4. Types'
    BY <1>2, <1>3 DEF IInv, Types, Labels, Trap, Goto, In, bits, tables
  <1>5. UNCHANGED shared /\ \A u \in Threads \ {t} : job'[u] = job[u] /\ at'[u] = at[u]
    BY DEF Trap, Goto, shared, bits, tables, IInv, Types, Begin
  <1>6. HeldInv(t)'
    BY <1>1, <1>2 DEF HeldInv, First, Next2
  <1>7. JobInv(t)'
    BY <1>1, <1>2, <1>5 DEF JobInv, First, Next2, ZonePages, shared
  <1> QED
    BY <1>1, <1>2, <1>4, <1>5, <1>6, <1>7, LocalStep DEF Closes

\* A zone gets its second page.
LEMMA SecondPage ==
    ASSUME NEW S, NEW s \in Seq(S), Len(s) = 1, NEW x \in S
    PROVE  /\ Append(s, x) \in Seq(S) /\ Len(Append(s, x)) = 2
           /\ Append(s, x)[1] = s[1]
  BY AppendProperties, SMTT(30)

\* The data of a thread changes.
LEMMA DataType ==
    ASSUME IInv, NEW t \in Threads, NEW d \in Seq(SUBSET Blocks),
           job' = [job EXCEPT ![t].data = d]
    PROVE  /\ job' \in [Threads -> Jobs]
           /\ job'[t].data = d /\ job'[t].spot = job[t].spot
           /\ job'[t].todo = job[t].todo /\ job'[t].held = job[t].held
  <1>1. job[t] \in Jobs
    BY DEF IInv, Types
  <1>2. [job[t] EXCEPT !.data = d] \in Jobs
    BY <1>1 DEF Jobs
  <1>3. job' = [job EXCEPT ![t] = [job[t] EXCEPT !.data = d]]
    OBVIOUS
  <1>4. job' \in [Threads -> Jobs] /\ job'[t] = [job[t] EXCEPT !.data = d]
    BY <1>2, <1>3 DEF IInv, Types
  <1> QED
    BY <1>1, <1>4 DEF Jobs

LEMMA FetchUncheckedKeepsInv ==
    ASSUME IInv, NEW t \in Threads, FetchUnchecked(t)
    PROVE  IInv'
  <1> USE PageFacts
  <1>1. job[t] \in Jobs /\ HeldInv(t) /\ JobInv(t)
    BY DEF IInv, Types
  <1>2. job' = job /\ at[t] = "fetch_fault" /\ at'[t] = "fetch_lock"
    BY DEF FetchUnchecked, In, Goto, IInv, Types
  <1>3. job' \in [Threads -> Jobs]
    BY <1>2 DEF IInv, Types
  <1>4. Types'
    BY <1>2, <1>3 DEF IInv, Types, Labels, FetchUnchecked, Goto, In, bits, tables
  <1>5. UNCHANGED shared /\ \A u \in Threads \ {t} : job'[u] = job[u] /\ at'[u] = at[u]
    BY DEF FetchUnchecked, Goto, shared, bits, tables, IInv, Types
  <1>6. HeldInv(t)'
    BY <1>1, <1>2 DEF HeldInv, First, Next2
  <1>7. JobInv(t)'
    BY <1>1, <1>2, <1>5 DEF JobInv, First, Next2, ZonePages, shared
  <1> QED
    BY <1>1, <1>2, <1>4, <1>5, <1>6, <1>7, LocalStep DEF Closes

LEMMA FetchReturnKeepsInv ==
    ASSUME IInv, NEW t \in Threads, FetchReturn(t)
    PROVE  IInv'
  <1> USE PageFacts
  <1>1. job[t] \in Jobs /\ HeldInv(t) /\ JobInv(t)
    BY DEF IInv, Types
  <1>2. job' = job /\ at[t] = "fetch_first" /\ at'[t] = "unlock"
    BY DEF FetchReturn, In, Goto, IInv, Types
  <1>3. job' \in [Threads -> Jobs]
    BY <1>2 DEF IInv, Types
  <1>4. Types'
    BY <1>2, <1>3 DEF IInv, Types, Labels, FetchReturn, Goto, In, bits, tables
  <1>5. UNCHANGED shared /\ \A u \in Threads \ {t} : job'[u] = job[u] /\ at'[u] = at[u]
    BY DEF FetchReturn, Goto, shared, bits, tables, IInv, Types
  <1>6. HeldInv(t)'
    BY <1>1, <1>2 DEF HeldInv, First, Next2
  <1>7. JobInv(t)'
    BY <1>1, <1>2, <1>5 DEF JobInv, First, Next2, ZonePages, shared
  <1> QED
    BY <1>1, <1>2, <1>4, <1>5, <1>6, <1>7, LocalStep DEF Closes

LEMMA TrapFatalKeepsInv ==
    ASSUME IInv, NEW t \in Threads, TrapFatal(t)
    PROVE  IInv'
  <1> USE PageFacts
  <1>1. job[t] \in Jobs /\ HeldInv(t) /\ JobInv(t)
    BY DEF IInv, Types
  <1>2. job' = job /\ at[t] = "trap_search" /\ at'[t] = "unlock"
    BY DEF TrapFatal, In, Goto, IInv, Types
  <1>3. job' \in [Threads -> Jobs]
    BY <1>2 DEF IInv, Types
  <1>4. Types'
    BY <1>2, <1>3 DEF IInv, Types, Labels, TrapFatal, Goto, In, bits, tables
  <1>5. UNCHANGED shared /\ \A u \in Threads \ {t} : job'[u] = job[u] /\ at'[u] = at[u]
    BY DEF TrapFatal, Goto, shared, bits, tables, IInv, Types
  <1>6. HeldInv(t)'
    BY <1>1, <1>2 DEF HeldInv, First, Next2
  <1>7. JobInv(t)'
    BY <1>1, <1>2, <1>5 DEF JobInv, First, Next2, ZonePages, shared
  <1> QED
    BY <1>1, <1>2, <1>4, <1>5, <1>6, <1>7, LocalStep DEF Closes

LEMMA FetchFirstKeepsInv ==
    ASSUME IInv, NEW t \in Threads, FetchFirst(t)
    PROVE  IInv'
  <1> USE PageFacts
  <1>1. job[t] \in Jobs /\ HeldInv(t) /\ JobInv(t)
    BY DEF IInv, Types
  <1>2. /\ Len(job'[t].data) = 1 /\ job'[t].data[1] = Blocks
        /\ job' \in [Threads -> Jobs] /\ at' \in [Threads -> Labels]
        /\ job'[t].spot = job[t].spot /\ job'[t].todo = job[t].todo
        /\ job'[t].held = job[t].held
        /\ at[t] = "fetch_first" /\ ends' \subseteq Pages
        /\ exeDeny[First(t)] /\ masters[First(t)] = <<>>
        /\ \/ at'[t] = "fetch_register"
           \/ at'[t] = "fetch_next" /\ First(t) \in Crossing
    <2>1. at[t] = "fetch_first" /\ exeDeny[First(t)] /\ job[t].data = <<>>
      BY <1>1 DEF FetchFirst, In, OpenedMeanwhile, JobInv
    <2>2. First(t) \in Pages /\ owner[First(t)] = t
      BY <2>1, HolderOwns
    <2>3. masters[First(t)] = <<>> /\ mem[First(t)] = Blocks
      BY <2>1, <2>2 DEF IInv, PageInv, Closes
    <2>4. job' = [job EXCEPT ![t].data = <<Blocks>>]
      <3>1. Append(<<>>, Blocks) = <<Blocks>>
        OBVIOUS
      <3> QED
        BY <2>1, <2>3, <3>1 DEF FetchFirst, AddPage
    <2>5. <<Blocks>> \in Seq(SUBSET Blocks) /\ Len(<<Blocks>>) = 1 /\ <<Blocks>>[1] = Blocks
      OBVIOUS
    <2>6. at' \in [Threads -> Labels]
      BY DEF FetchFirst, Goto, Labels, IInv, Types
    <2>7. \/ at'[t] = "fetch_register"
          \/ at'[t] = "fetch_next" /\ First(t) \in Crossing
      BY DEF FetchFirst, Goto, Crosses, First, IInv, Types
    <2>8. ends' \subseteq Pages
      BY <2>2, ZenonT(30) DEF FetchFirst, IInv, Types
    <2> QED
      BY <2>1, <2>3, <2>4, <2>5, <2>6, <2>7, <2>8, DataType
  <1>3. job' \in [Threads -> Jobs]
    BY <1>2
  <1>4. Types'
    BY <1>2, <1>3 DEF IInv, Types, Labels, FetchFirst, Goto, In, bits, tables
  <1>5. UNCHANGED shared /\ \A u \in Threads \ {t} : job'[u] = job[u] /\ at'[u] = at[u]
    BY DEF FetchFirst, Goto, shared, bits, tables, IInv, Types, AddPage
  <1>6. HeldInv(t)'
    BY <1>1, <1>2 DEF HeldInv, First, Next2
  <1>7. JobInv(t)'
    BY <1>1, <1>2, <1>5 DEF JobInv, First, Next2, ZonePages, shared
  <1> QED
    BY <1>1, <1>2, <1>4, <1>5, <1>6, <1>7, LocalStep DEF Closes

LEMMA FetchSecondKeepsInv ==
    ASSUME IInv, NEW t \in Threads, FetchSecond(t)
    PROVE  IInv'
  <1> USE PageFacts
  <1>1. job[t] \in Jobs /\ HeldInv(t) /\ JobInv(t)
    BY DEF IInv, Types
  <1>2. /\ Len(job'[t].data) \in {1, 2} /\ job'[t].data[1] = Blocks
        /\ job' \in [Threads -> Jobs] /\ at' \in [Threads -> Labels]
        /\ job'[t].spot = job[t].spot /\ job'[t].todo = job[t].todo
        /\ job'[t].held = job[t].held
        /\ at[t] = "fetch_second" /\ at'[t] = "fetch_register"
    <2>1. /\ at[t] = "fetch_second" /\ at'[t] = "fetch_register"
          /\ at' \in [Threads -> Labels]
      BY DEF FetchSecond, In, Goto, Labels, IInv, Types
    <2>2. /\ Len(job[t].data) = 1 /\ job[t].data[1] = Blocks
          /\ job[t].data \in Seq(SUBSET Blocks)
      BY <1>1, <2>1 DEF JobInv, Jobs
    <2>3. CASE job' = job
      BY <2>1, <2>2, <2>3 DEF IInv, Types
    <2>4. CASE AddPage(t, Next2(t))
      <3>1. mem[Next2(t)] \in SUBSET Blocks
        BY <2>1, HolderOwns DEF IInv, Types
      <3> DEFINE d == Append(job[t].data, mem[Next2(t)])
      <3>2. d \in Seq(SUBSET Blocks) /\ Len(d) = 2 /\ d[1] = Blocks
        BY <2>2, <3>1, SecondPage
      <3>3. job' = [job EXCEPT ![t].data = d]
        BY <2>4 DEF AddPage
      <3> HIDE DEF d
      <3> QED
        BY <2>1, <3>2, <3>3, DataType
    <2> QED
      BY <2>3, <2>4 DEF FetchSecond
  <1>3. job' \in [Threads -> Jobs]
    BY <1>2
  <1>4. Types'
    BY <1>2, <1>3 DEF IInv, Types, Labels, FetchSecond, Goto, In, bits, tables
  <1>5. UNCHANGED shared /\ \A u \in Threads \ {t} : job'[u] = job[u] /\ at'[u] = at[u]
    BY DEF FetchSecond, Goto, shared, bits, tables, IInv, Types, AddPage
  <1>6. HeldInv(t)'
    BY <1>1, <1>2 DEF HeldInv, First, Next2
  <1>7. JobInv(t)'
    BY <1>1, <1>2, <1>5 DEF JobInv, First, Next2, ZonePages, shared
  <1> QED
    BY <1>1, <1>2, <1>4, <1>5, <1>6, <1>7, LocalStep DEF Closes

LEMMA TrapFindKeepsInv ==
    ASSUME IInv, NEW t \in Threads, TrapFind(t)
    PROVE  IInv'
  <1> USE PageFacts
  <1>1. job[t] \in Jobs /\ HeldInv(t) /\ JobInv(t)
    BY DEF IInv, Types
  <1>2. /\ Len(job'[t].data) = 1
        /\ job' \in [Threads -> Jobs] /\ at' \in [Threads -> Labels]
        /\ job'[t].spot = job[t].spot /\ job'[t].todo = job[t].todo
        /\ job'[t].held = job[t].held
        /\ at[t] = "trap_find" /\ at'[t] = "trap_lock"
    <2>1. /\ at[t] = "trap_find" /\ at'[t] = "trap_lock"
          /\ at' \in [Threads -> Labels]
      BY DEF TrapFind, In, Goto, Labels, IInv, Types
    <2> DEFINE h == Head(masters[First(t)])
    <2>2. masters[First(t)] \in Seq(SUBSET Blocks) /\ masters[First(t)] # <<>>
      BY <1>1, <2>1 DEF JobInv, First, Spots, IInv, Types
    <2>3. h \in SUBSET Blocks
      BY <2>2
    <2>4. job' = [job EXCEPT ![t].data = <<h>>]
      BY DEF TrapFind
    <2> HIDE DEF h
    <2>5. <<h>> \in Seq(SUBSET Blocks) /\ Len(<<h>>) = 1
      BY <2>3
    <2> QED
      BY <2>1, <2>4, <2>5, DataType
  <1>3. job' \in [Threads -> Jobs]
    BY <1>2
  <1>4. Types'
    BY <1>2, <1>3 DEF IInv, Types, Labels, TrapFind, Goto, In, bits, tables
  <1>5. UNCHANGED shared /\ \A u \in Threads \ {t} : job'[u] = job[u] /\ at'[u] = at[u]
    BY DEF TrapFind, Goto, shared, bits, tables, IInv, Types
  <1>6. HeldInv(t)'
    BY <1>1, <1>2 DEF HeldInv, First, Next2
  <1>7. JobInv(t)'
    BY <1>1, <1>2, <1>5 DEF JobInv, First, Next2, ZonePages, shared
  <1> QED
    BY <1>1, <1>2, <1>4, <1>5, <1>6, <1>7, LocalStep DEF Closes

LEMMA TrapSearchKeepsInv ==
    ASSUME IInv, NEW t \in Threads, TrapSearch(t)
    PROVE  IInv'
  <1> USE PageFacts
  <1>1. job[t] \in Jobs /\ HeldInv(t) /\ JobInv(t)
    BY DEF IInv, Types
  <1>2. /\ at[t] = "trap_search" /\ ends' \subseteq Pages
        /\ job' \in [Threads -> Jobs] /\ at' \in [Threads -> Labels]
        /\ job'[t].spot = job[t].spot /\ job'[t].todo = job[t].todo
        /\ job'[t].held = job[t].held
        /\ \/ at'[t] = "trap_open" /\ Len(job'[t].data) = 1
           \/ at'[t] = "trap_make" /\ Len(job'[t].data) = 1 /\ First(t) \in Crossing
           \/ at'[t] = "trap_join" /\ Len(job'[t].data) = 2 /\ First(t) \in Crossing
    <2>1. at[t] = "trap_search"
      BY DEF TrapSearch, In
    <2>2. Len(job[t].data) = 1 /\ job[t].data \in Seq(SUBSET Blocks) /\ First(t) \in Pages
      BY <1>1, <2>1, HolderOwns DEF JobInv, Jobs
    <2>3. ends' \subseteq Pages
      BY <2>2 DEF TrapSearch, IInv, Types
    <2>4. CASE ~Crosses(job[t].spot)
      <3>1. job' = job /\ at'[t] = "trap_open" /\ at' \in [Threads -> Labels]
        BY <2>4 DEF TrapSearch, Goto, Labels, IInv, Types
      <3> QED
        BY <2>1, <2>2, <2>3, <3>1 DEF IInv, Types
    <2>5. CASE Crosses(job[t].spot) /\ masters[Next2(t)] = <<>>
      <3>1. /\ job' = job /\ at'[t] = "trap_make" /\ First(t) \in Crossing
            /\ at' \in [Threads -> Labels]
        BY <2>5 DEF TrapSearch, Goto, Crosses, First, Labels, IInv, Types
      <3> QED
        BY <2>1, <2>2, <2>3, <3>1 DEF IInv, Types
    <2>6. CASE Crosses(job[t].spot) /\ masters[Next2(t)] # <<>>
      <3> DEFINE h == Head(masters[Next2(t)])
                 d == Append(job[t].data, h)
      <3>1. First(t) \in Crossing
        BY <2>6 DEF Crosses, First
      <3>2. masters[Next2(t)] \in Seq(SUBSET Blocks)
        BY <3>1 DEF IInv, Types, Next2, First
      <3>3. h \in SUBSET Blocks
        BY <2>6, <3>2
      <3>4. /\ job' = [job EXCEPT ![t].data = d] /\ at'[t] = "trap_join"
            /\ at' \in [Threads -> Labels]
        BY <2>6 DEF TrapSearch, Goto, Labels, IInv, Types
      <3> HIDE DEF h
      <3>5. d \in Seq(SUBSET Blocks) /\ Len(d) = 2
        BY <2>2, <3>3, SecondPage
      <3> HIDE DEF d
      <3> QED
        BY <2>1, <2>3, <3>1, <3>4, <3>5, DataType
    <2> QED
      BY <2>4, <2>5, <2>6
  <1>3. job' \in [Threads -> Jobs]
    BY <1>2
  <1>4. Types'
    BY <1>2, <1>3 DEF IInv, Types, Labels, TrapSearch, Goto, In, bits, tables
  <1>5. UNCHANGED shared /\ \A u \in Threads \ {t} : job'[u] = job[u] /\ at'[u] = at[u]
    BY DEF TrapSearch, Goto, shared, bits, tables, IInv, Types
  <1>6. HeldInv(t)'
    BY <1>1, <1>2 DEF HeldInv, First, Next2
  <1>7. JobInv(t)'
    BY <1>1, <1>2, <1>5 DEF JobInv, First, Next2, ZonePages, shared
  <1> QED
    BY <1>1, <1>2, <1>4, <1>5, <1>6, <1>7, LocalStep DEF Closes

LEMMA FetchCheckedKeepsInv ==
    ASSUME IInv, NEW t \in Threads, FetchChecked(t)
    PROVE  IInv'
  <1> USE PageFacts
  <1>1. job[t] \in Jobs /\ HeldInv(t) /\ JobInv(t) /\ at[t] = "fetch_fault"
    BY DEF IInv, Types, FetchChecked, In
  <1>2. exeDeny' = exeDeny
    <2>1. First(t) \in Pages
      BY <1>1 DEF JobInv, First, Spots
    <2>2. exeDeny[First(t)] = FALSE
      BY <2>1 DEF FetchChecked, IInv, PageInv, Types
    <2> QED
      BY <2>1, <2>2 DEF FetchChecked, IInv, Types
  <1>3. NoJob \in Jobs /\ job[t].held = <<>>
    BY <1>1 DEF NoJob, Jobs, HeldInv
  <1>4. /\ job' \in [Threads -> Jobs] /\ at' \in [Threads -> Labels]
        /\ job'[t] = NoJob /\ at'[t] = "user"
        /\ \A u \in Threads \ {t} : job'[u] = job[u] /\ at'[u] = at[u]
    BY <1>3 DEF FetchChecked, Goto, Labels, IInv, Types
  <1>5. Types' /\ UNCHANGED shared
    BY <1>2, <1>4 DEF IInv, Types, FetchChecked, shared, tables
  <1>6. HeldInv(t)' /\ JobInv(t)' /\ job'[t].held = job[t].held
    BY <1>3, <1>4 DEF HeldInv, JobInv, NoJob
  <1>7. \A p \in Pages : owner[p] = t /\ Closes(t, p) => Closes(t, p)'
    BY <1>1 DEF Closes
  <1> QED
    BY <1>4, <1>5, <1>6, <1>7, LocalStep

\* A thread runs outside of the handlers.
LEMMA UserKeepsInv ==
    ASSUME IInv, NEW t \in Threads, Enter(t) \/ Execute(t)
    PROVE  IInv'
  <1> USE PageFacts
  <1>1. pc' \in [Threads -> Spots \cup {Outside}]
    <2>1. CASE Enter(t)
      BY <2>1, ThreadsAssumption DEF Enter, IInv, Types
    <2>2. CASE Execute(t)
      <3>1. Crosses(pc[t]) => <<pc[t][1] + 1, 1>> \in Spots
        BY DEF Crosses, Spots
      <3>2. Targets \subseteq Spots
        BY ThreadsAssumption
      <3> QED
        BY <2>2, <3>1, <3>2 DEF Execute, IInv, Types
    <2> QED
      BY <2>1, <2>2
  <1>2. UNCHANGED <<exeDeny, check, mem, masters, ends, checked, owner, at, job, alive>>
    BY DEF Enter, Execute, bits, tables
  <1>3. Types'
    BY <1>1, <1>2 DEF IInv, Types
  <1>4. UNCHANGED shared
    BY <1>2 DEF shared
  <1>5. HeldInv(t)' /\ JobInv(t)'
    BY <1>2 DEF IInv, HeldInv, JobInv, First, Next2, ZonePages
  <1>6. \A p \in Pages : Closes(t, p) => Closes(t, p)'
    BY <1>2 DEF Closes, ZonePages, First
  <1> QED
    BY <1>2, <1>3, <1>4, <1>5, <1>6, LocalStep
-----------------------------------------------------------------------------
(* The mutexes. *)

LEMMA Appending == \A x, y : Append(<<>>, x) = <<x>> /\ Append(<<x>>, y) = <<x, y>>
  <1> SUFFICES ASSUME NEW x, NEW y
               PROVE  Append(<<>>, x) = <<x>> /\ Append(<<x>>, y) = <<x, y>>
    OBVIOUS
  <1>1. <<>> \in Seq({x, y}) /\ <<x>> \in Seq({x, y}) /\ <<x, y>> \in Seq({x, y})
    OBVIOUS
  <1>2. Append(<<>>, x) = <<x>>
    BY <1>1
  <1>3. Append(<<x>>, y) = <<x, y>>
    <2> DEFINE a == Append(<<x>>, y)
    <2>1. a \in Seq({x, y}) /\ Len(a) = 2 /\ a[1] = x /\ a[2] = y
      BY <1>1, AppendProperties
    <2>2. Len(<<x, y>>) = 2 /\ <<x, y>>[1] = x /\ <<x, y>>[2] = y
      OBVIOUS
    <2> HIDE DEF a
    <2>3. \A i \in 1 .. Len(a) : a[i] = <<x, y>>[i]
      BY <2>1, <2>2
    <2> QED
      BY <1>1, <2>1, <2>2, <2>3, SeqEqual DEF a
  <1> QED
    BY <1>2, <1>3

LEMMA LockType ==
    ASSUME IInv, NEW t \in Threads, NEW q \in Pages, Lock(t, q)
    PROVE  /\ job' \in [Threads -> Jobs]
           /\ owner' \in [Pages -> Threads \cup {NoThread}]
           /\ job'[t].spot = job[t].spot /\ job'[t].data = job[t].data
           /\ job'[t].zone = job[t].zone /\ job'[t].todo = job[t].todo
           /\ job'[t].held = Append(job[t].held, q)
           /\ \A u \in Threads \ {t} : job'[u] = job[u]
  <1> DEFINE h == Append(job[t].held, q)
  <1>1. job[t] \in Jobs
    BY DEF IInv, Types
  <1>2. h \in Seq(Pages)
    BY <1>1 DEF Jobs
  <1>3. job' = [job EXCEPT ![t].held = h]
    BY DEF Lock
  <1>4. owner' \in [Pages -> Threads \cup {NoThread}]
    BY DEF Lock, IInv, Types
  <1> HIDE DEF h
  <1>5. [job[t] EXCEPT !.held = h] \in Jobs
    BY <1>1, <1>2 DEF Jobs
  <1>6. job' = [job EXCEPT ![t] = [job[t] EXCEPT !.held = h]]
    BY <1>3
  <1>7. /\ job' \in [Threads -> Jobs] /\ job'[t] = [job[t] EXCEPT !.held = h]
        /\ \A u \in Threads \ {t} : job'[u] = job[u]
    BY <1>5, <1>6 DEF IInv, Types
  <1>8. /\ job'[t].spot = job[t].spot /\ job'[t].data = job[t].data
        /\ job'[t].zone = job[t].zone /\ job'[t].todo = job[t].todo /\ job'[t].held = h
    BY <1>1, <1>7 DEF Jobs
  <1> QED
    BY <1>4, <1>7, <1>8 DEF h

LEMMA FetchLockKeepsInv ==
    ASSUME IInv, NEW t \in Threads, FetchLock(t)
    PROVE  IInv'
  <1> USE PageFacts
  <1>1. /\ HeldInv(t) /\ JobInv(t) /\ at[t] = "fetch_lock" /\ at'[t] = "fetch_first"
        /\ at' \in [Threads -> Labels] /\ Lock(t, First(t))
        /\ UNCHANGED <<exeDeny, check, mem, masters, ends, checked, pc, alive>>
    BY DEF IInv, Types, FetchLock, In, Goto, Labels, bits, tables
  <1>2. First(t) \in Pages /\ job[t].held = <<>>
    BY <1>1 DEF JobInv, HeldInv, First, Next2, Spots
  <1>3. job'[t].held = <<First(t)>>
    <2>1. job'[t].held = Append(job[t].held, First(t))
      BY <1>1, <1>2, LockType
    <2> QED
      BY <1>2, <2>1, Appending
  <1>4. Types'
    BY <1>1, <1>2, LockType DEF IInv, Types
  <1>5. HeldInv(t)'
    BY <1>1, <1>2, <1>3, LockType DEF HeldInv, First, Next2
  <1>6. JobInv(t)'
    BY <1>1, <1>2, LockType DEF JobInv, First, Next2, ZonePages
  <1>7. \A u \in Threads \ {t} : job'[u] = job[u] /\ at'[u] = at[u]
    BY <1>2, LockType DEF FetchLock, Goto, IInv, Types
  <1>8. \A p \in Pages : owner[p] = t /\ Closes(t, p) => Closes(t, p)'
    BY <1>1 DEF Closes
  <1> QED
    BY <1>1, <1>2, <1>4, <1>5, <1>6, <1>7, <1>8, LockStep

LEMMA FetchNextKeepsInv ==
    ASSUME IInv, NEW t \in Threads, FetchNext(t)
    PROVE  IInv'
  <1> USE PageFacts
  <1>1. /\ HeldInv(t) /\ JobInv(t) /\ at[t] = "fetch_next" /\ at'[t] = "fetch_second"
        /\ at' \in [Threads -> Labels] /\ Lock(t, Next2(t))
        /\ UNCHANGED <<exeDeny, check, mem, masters, ends, checked, pc, alive>>
    BY DEF IInv, Types, FetchNext, In, Goto, Labels, bits, tables
  <1>2. Next2(t) \in Pages /\ job[t].held = <<First(t)>> /\ First(t) \in Crossing
    BY <1>1 DEF JobInv, HeldInv, First, Next2, Spots
  <1>3. job'[t].held = <<First(t), Next2(t)>>
    <2>1. job'[t].held = Append(job[t].held, Next2(t))
      BY <1>1, <1>2, LockType
    <2> QED
      BY <1>2, <2>1, Appending
  <1>4. Types'
    BY <1>1, <1>2, LockType DEF IInv, Types
  <1>5. HeldInv(t)'
    BY <1>1, <1>2, <1>3, LockType DEF HeldInv, First, Next2
  <1>6. JobInv(t)'
    BY <1>1, <1>2, LockType DEF JobInv, First, Next2, ZonePages
  <1>7. \A u \in Threads \ {t} : job'[u] = job[u] /\ at'[u] = at[u]
    BY <1>2, LockType DEF FetchNext, Goto, IInv, Types
  <1>8. \A p \in Pages : owner[p] = t /\ Closes(t, p) => Closes(t, p)'
    BY <1>1 DEF Closes
  <1> QED
    BY <1>1, <1>2, <1>4, <1>5, <1>6, <1>7, <1>8, LockStep

LEMMA TrapLockKeepsInv ==
    ASSUME IInv, NEW t \in Threads, TrapLock(t)
    PROVE  IInv'
  <1> USE PageFacts
  <1>1. /\ HeldInv(t) /\ JobInv(t) /\ at[t] = "trap_lock" /\ at'[t] = "trap_search"
        /\ at' \in [Threads -> Labels] /\ Lock(t, First(t))
        /\ UNCHANGED <<exeDeny, check, mem, masters, ends, checked, pc, alive>>
    BY DEF IInv, Types, TrapLock, In, Goto, Labels, bits, tables
  <1>2. First(t) \in Pages /\ job[t].held = <<>>
    BY <1>1 DEF JobInv, HeldInv, First, Next2, Spots
  <1>3. job'[t].held = <<First(t)>>
    <2>1. job'[t].held = Append(job[t].held, First(t))
      BY <1>1, <1>2, LockType
    <2> QED
      BY <1>2, <2>1, Appending
  <1>4. Types'
    BY <1>1, <1>2, LockType DEF IInv, Types
  <1>5. HeldInv(t)'
    BY <1>1, <1>2, <1>3, LockType DEF HeldInv, First, Next2
  <1>6. JobInv(t)'
    BY <1>1, <1>2, LockType DEF JobInv, First, Next2, ZonePages
  <1>7. \A u \in Threads \ {t} : job'[u] = job[u] /\ at'[u] = at[u]
    BY <1>2, LockType DEF TrapLock, Goto, IInv, Types
  <1>8. \A p \in Pages : owner[p] = t /\ Closes(t, p) => Closes(t, p)'
    BY <1>1 DEF Closes
  <1> QED
    BY <1>1, <1>2, <1>4, <1>5, <1>6, <1>7, <1>8, LockStep

LEMMA TrapJoinKeepsInv ==
    ASSUME IInv, NEW t \in Threads, TrapJoin(t)
    PROVE  IInv'
  <1> USE PageFacts
  <1>1. /\ HeldInv(t) /\ JobInv(t) /\ at[t] = "trap_join" /\ at'[t] = "trap_open"
        /\ at' \in [Threads -> Labels] /\ Lock(t, Next2(t))
        /\ UNCHANGED <<exeDeny, check, mem, masters, ends, checked, pc, alive>>
    BY DEF IInv, Types, TrapJoin, In, Goto, Labels, bits, tables
  <1>2. Next2(t) \in Pages /\ job[t].held = <<First(t)>> /\ First(t) \in Crossing
    BY <1>1 DEF JobInv, HeldInv, First, Next2, Spots
  <1>3. job'[t].held = <<First(t), Next2(t)>>
    <2>1. job'[t].held = Append(job[t].held, Next2(t))
      BY <1>1, <1>2, LockType
    <2> QED
      BY <1>2, <2>1, Appending
  <1>4. Types'
    BY <1>1, <1>2, LockType DEF IInv, Types
  <1>5. HeldInv(t)'
    BY <1>1, <1>2, <1>3, LockType DEF HeldInv, JobInv, First, Next2
  <1>6. JobInv(t)'
    BY <1>1, <1>2, LockType DEF JobInv, First, Next2, ZonePages
  <1>7. \A u \in Threads \ {t} : job'[u] = job[u] /\ at'[u] = at[u]
    BY <1>2, LockType DEF TrapJoin, Goto, IInv, Types
  <1>8. \A p \in Pages : owner[p] = t /\ Closes(t, p) => Closes(t, p)'
    BY <1>1 DEF Closes
  <1> QED
    BY <1>1, <1>2, <1>4, <1>5, <1>6, <1>7, <1>8, LockStep

LEMMA TrapMakeKeepsInv ==
    ASSUME IInv, NEW t \in Threads, TrapMake(t)
    PROVE  IInv'
  <1> USE PageFacts
  <1>1. /\ HeldInv(t) /\ JobInv(t) /\ at[t] = "trap_make" /\ at'[t] = "trap_made"
        /\ at' \in [Threads -> Labels] /\ Lock(t, Next2(t))
        /\ UNCHANGED <<exeDeny, check, mem, masters, ends, checked, pc, alive>>
    BY DEF IInv, Types, TrapMake, In, Goto, Labels, bits, tables
  <1>2. Next2(t) \in Pages /\ job[t].held = <<First(t)>> /\ First(t) \in Crossing
    BY <1>1 DEF JobInv, HeldInv, First, Next2, Spots
  <1>3. job'[t].held = <<First(t), Next2(t)>>
    <2>1. job'[t].held = Append(job[t].held, Next2(t))
      BY <1>1, <1>2, LockType
    <2> QED
      BY <1>2, <2>1, Appending
  <1>4. Types'
    BY <1>1, <1>2, LockType DEF IInv, Types
  <1>5. HeldInv(t)'
    BY <1>1, <1>2, <1>3, LockType DEF HeldInv, First, Next2
  <1>6. JobInv(t)'
    BY <1>1, <1>2, LockType DEF JobInv, First, Next2, ZonePages
  <1>7. \A u \in Threads \ {t} : job'[u] = job[u] /\ at'[u] = at[u]
    BY <1>2, LockType DEF TrapMake, Goto, IInv, Types
  <1>8. \A p \in Pages : owner[p] = t /\ Closes(t, p) => Closes(t, p)'
    BY <1>1 DEF Closes
  <1> QED
    BY <1>1, <1>2, <1>4, <1>5, <1>6, <1>7, <1>8, LockStep

\* A step that leaves the mutexes alone.
LEMMA OwnStep ==
    ASSUME IInv, NEW t \in Threads, Types', owner' = owner,
           \A u \in Threads \ {t} : job'[u] = job[u] /\ at'[u] = at[u],
           job'[t].held = job[t].held,
           \A p \in Pages : owner[p] # t => Untouched(p),
           checked \subseteq checked',
           \A p \in Pages : masters[p] # <<>> => masters'[p] # <<>>,
           HeldInv(t)', JobInv(t)',
           \A p \in Pages : owner[p] = t => PageInv(p)'
    PROVE  IInv'
  <1>1. \A p \in Pages : owner'[p] = t <=> Locks(t, p)'
    BY DEF IInv, Locks
  <1> QED
    BY <1>1, StepKeeps

LEMMA FirstOfTwo == \A x, y : SubSeq(<<x, y>>, 1, 1) = <<x>>
  <1> SUFFICES ASSUME NEW x, NEW y PROVE SubSeq(<<x, y>>, 1, 1) = <<x>>
    OBVIOUS
  <1> DEFINE s == SubSeq(<<x, y>>, 1, 1)
  <1>1. <<x, y>> \in Seq({x, y}) /\ <<x>> \in Seq({x, y}) /\ Len(<<x, y>>) = 2
        /\ Len(<<x>>) = 1 /\ <<x>>[1] = x /\ <<x, y>>[1] = x
    OBVIOUS
  <1>2. s \in Seq({x, y}) /\ Len(s) = 1 /\ s[1] = x
    BY <1>1, SubSeqProperties
  <1> HIDE DEF s
  <1>3. \A i \in 1 .. Len(s) : s[i] = <<x>>[i]
    BY <1>1, <1>2
  <1> QED
    BY <1>1, <1>2, <1>3, SeqEqual DEF s

LEMMA UnlockKeepsInv ==
    ASSUME IInv, NEW t \in Threads, Unlock(t)
    PROVE  IInv'
  <1> USE PageFacts
  <1> DEFINE f == First(t)
             g == Next2(t)
  <1>1. /\ job[t] \in Jobs /\ HeldInv(t) /\ JobInv(t) /\ at[t] = "unlock"
        /\ UNCHANGED <<exeDeny, check, mem, masters, ends, checked, pc, alive>>
    BY DEF IInv, Types, Unlock, In, bits, tables
  <1>2. f \in Pages /\ owner[f] = t
    BY <1>1, HolderOwns
  <1>3. ASSUME NEW p \in Pages, owner[p] = t
        PROVE  ~(exeDeny[p] /\ (masters[p] # <<>> \/ mem[p] # Blocks)) /\ PageInv(p)
    BY <1>1, <1>3 DEF IInv, PageInv, Closes
  <1>4. ASSUME NEW p \in Pages, owner[p] = t
        PROVE  PageInv(p)'
    BY <1>1, <1>3, <1>4 DEF PageInv
  <1> DEFINE n == Len(job[t].held)
  <1>5. CASE job[t].held = <<f>>
    <2>1. n = 1 /\ job[t].held[n] = f
      BY <1>5
    <2>2. /\ owner' = [owner EXCEPT ![f] = NoThread]
          /\ job' = [job EXCEPT ![t] = NoJob] /\ at' = [at EXCEPT ![t] = "user"]
      BY <2>1 DEF Unlock, Goto
    <2>3. NoJob \in Jobs
      BY DEF NoJob, Jobs
    <2>4. /\ job'[t] = NoJob /\ at'[t] = "user"
          /\ \A u \in Threads \ {t} : job'[u] = job[u] /\ at'[u] = at[u]
          /\ \A p \in Pages : owner'[p] = IF p = f THEN NoThread ELSE owner[p]
      BY <2>2 DEF IInv, Types
    <2>5. Types'
      BY <1>1, <2>2, <2>3 DEF IInv, Types, Labels
    <2>6. HeldInv(t)' /\ JobInv(t)'
      BY <2>4 DEF HeldInv, JobInv, NoJob
    <2>7. ASSUME NEW p \in Pages
          PROVE  owner'[p] = t <=> Locks(t, p)'
      <3>1. ~Locks(t, p)'
        BY <2>4 DEF Locks, NoJob
      <3>2. owner[p] = t => p = f
        BY <1>5, HeldPages DEF IInv
      <3> QED
        BY <2>4, <3>1, <3>2
    <2> QED
      BY <1>1, <1>2, <1>4, <2>4, <2>5, <2>6, <2>7, StepKeeps DEF Untouched
  <1>6. CASE job[t].held = <<f, g>> /\ f \in Crossing
    <2>0. g \in Pages /\ owner[g] = t /\ g # f
      <3>0. g = f + 1 /\ f \in Int
        BY <1>2, ZoneFacts
      <3>1. g \in Pages /\ g # f
        BY <1>6, <3>0
      <3>2. Locks(t, g)
        BY <1>6, HeldPages
      <3> QED
        BY <3>1, <3>2 DEF IInv
    <2>1. n = 2 /\ job[t].held[n] = g /\ SubSeq(job[t].held, 1, n - 1) = <<f>>
      <3>1. Len(<<f, g>>) = 2 /\ <<f, g>>[2] = g /\ 2 - 1 = 1
        OBVIOUS
      <3>2. n = 2 /\ job[t].held[2] = g
        BY <1>6, <3>1
      <3> QED
        BY <1>6, <3>1, <3>2, FirstOfTwo
    <2>2. /\ owner' = [owner EXCEPT ![g] = NoThread]
          /\ job' = [job EXCEPT ![t].held = <<f>>] /\ at' = at
      <3>1. n # 1
        BY <2>1
      <3> QED
        BY <2>1, <3>1 DEF Unlock
    <2>3. [job[t] EXCEPT !.held = <<f>>] \in Jobs
      <3>1. <<f>> \in Seq(Pages)
        BY <1>2
      <3> QED
        BY <1>1, <3>1 DEF Jobs
    <2>4. /\ job' \in [Threads -> Jobs] /\ job'[t] = [job[t] EXCEPT !.held = <<f>>]
          /\ \A u \in Threads \ {t} : job'[u] = job[u] /\ at'[u] = at[u]
          /\ \A p \in Pages : owner'[p] = IF p = g THEN NoThread ELSE owner[p]
      BY <2>2, <2>3 DEF IInv, Types
    <2>5. Types'
      BY <1>1, <2>2, <2>4 DEF IInv, Types
    <2>6. /\ job'[t].spot = job[t].spot /\ job'[t].data = job[t].data
          /\ job'[t].todo = job[t].todo /\ job'[t].held = <<f>> /\ at'[t] = "unlock"
      BY <1>1, <2>2, <2>4 DEF Jobs
    <2>7. HeldInv(t)' /\ JobInv(t)'
      BY <1>1, <2>6 DEF HeldInv, JobInv, First
    <2>8. ASSUME NEW p \in Pages
          PROVE  owner'[p] = t <=> Locks(t, p)'
      <3>1. Locks(t, p)' <=> p = f
        BY <2>6 DEF Locks
      <3>2. owner[p] = t <=> p \in {f, g}
        BY <1>6, HeldPages DEF IInv
      <3> QED
        BY <2>0, <2>4, <3>1, <3>2
    <2> QED
      BY <1>1, <1>4, <2>0, <2>4, <2>5, <2>7, <2>8, StepKeeps DEF Untouched
  <1> QED
    BY <1>1, <1>5, <1>6 DEF HeldInv
-----------------------------------------------------------------------------
(* The steps that change a page or what is known of it. *)

LEMMA AllowKeepsInv ==
    ASSUME IInv, NEW t \in Threads, Allow(t)
    PROVE  IInv'
  <1> USE PageFacts
  <1>1. /\ job[t] \in Jobs /\ HeldInv(t) /\ JobInv(t) /\ at[t] = "allow"
        /\ UNCHANGED <<mem, masters, ends, checked, owner, pc, alive>>
    BY DEF IInv, Types, Allow, In, tables
  <1>2. PICK p \in job[t].todo :
          /\ exeDeny' = [exeDeny EXCEPT ![p] = FALSE]
          /\ check' = [check EXCEPT ![p] = TRUE]
          /\ job' = [job EXCEPT ![t].todo = job[t].todo \ {p}]
          /\ IF job[t].todo = {p} THEN Goto(t, "unlock") ELSE UNCHANGED at
    BY DEF Allow
  <1> DEFINE d == job[t].todo \ {p}
  <1>3. p \in Pages /\ owner[p] = t
    BY <1>1, HolderOwns DEF JobInv
  <1>4. [job[t] EXCEPT !.todo = d] \in Jobs
    BY <1>1 DEF Jobs
  <1>5. /\ job' \in [Threads -> Jobs] /\ job'[t] = [job[t] EXCEPT !.todo = d]
        /\ at' \in [Threads -> Labels]
        /\ at'[t] = IF d = {} THEN "unlock" ELSE "allow"
        /\ \A u \in Threads \ {t} : job'[u] = job[u] /\ at'[u] = at[u]
    <2>1. job' \in [Threads -> Jobs] /\ job'[t] = [job[t] EXCEPT !.todo = d]
          /\ \A u \in Threads \ {t} : job'[u] = job[u]
      BY <1>2, <1>4 DEF IInv, Types
    <2>2. CASE job[t].todo = {p}
      <3>1. d = {} /\ at' = [at EXCEPT ![t] = "unlock"]
        BY <1>2, <2>2 DEF Goto
      <3> HIDE DEF d
      <3> QED
        BY <2>1, <3>1 DEF Labels, IInv, Types
    <2>3. CASE job[t].todo # {p}
      BY <1>1, <1>2, <2>1, <2>3 DEF IInv, Types
    <2> QED
      BY <2>2, <2>3
  <1>6. /\ job'[t].spot = job[t].spot /\ job'[t].data = job[t].data
        /\ job'[t].todo = d /\ job'[t].held = job[t].held
    BY <1>1, <1>5 DEF Jobs
  <1>7. Types'
    BY <1>1, <1>2, <1>3, <1>5 DEF IInv, Types
  <1>8. HeldInv(t)'
    BY <1>1, <1>5, <1>6 DEF HeldInv, First, Next2
  <1>9. JobInv(t)'
    BY <1>1, <1>5, <1>6 DEF JobInv, First, Next2, ZonePages
  <1>10. ASSUME NEW q \in Pages
         PROVE  /\ exeDeny'[q] = IF q = p THEN FALSE ELSE exeDeny[q]
                /\ check'[q] = IF q = p THEN TRUE ELSE check[q]
    BY <1>2 DEF IInv, Types
  <1>11. ASSUME NEW q \in Pages, owner[q] = t
         PROVE  PageInv(q)'
    <2>1. CASE q = p
      BY <1>1, <1>10, <1>11, <2>1 DEF IInv, PageInv, JobInv
    <2>2. CASE q # p
      <3>1. Closes(t, q) => Closes(t, q)'
        BY <1>1, <1>5, <1>6, <2>2 DEF Closes
      <3> QED
        BY <1>1, <1>10, <1>11, <2>2, <3>1 DEF IInv, PageInv, Closes, ZonePages, First
    <2> QED
      BY <2>1, <2>2
  <1> QED
    BY <1>1, <1>3, <1>5, <1>6, <1>7, <1>8, <1>9, <1>10, <1>11, OwnStep, ZenonT(30) DEF Untouched

\* The zone and the plans of a thread change.
LEMMA PlanType ==
    ASSUME IInv, NEW t \in Threads, NEW j \in Jobs, job' = [job EXCEPT ![t] = j]
    PROVE  /\ job' \in [Threads -> Jobs] /\ job'[t] = j
           /\ \A u \in Threads \ {t} : job'[u] = job[u]
  BY DEF IInv, Types

\* What the handler has of a page of its zone is a set of blocks.
LEMMA HeldType ==
    ASSUME NEW t, job[t] \in Jobs, First(t) \in Int, NEW p \in ZonePages(t)
    PROVE  Held(t, p) \in SUBSET Blocks
  <1>1. job[t].data \in Seq(SUBSET Blocks)
    BY DEF Jobs
  <1> DEFINE f == First(t)
             n == Len(job[t].data)
  <1>2. n \in Nat /\ p \in f .. f + n - 1
    BY <1>1 DEF ZonePages
  <1>3. p - f + 1 \in 1 .. n
    <2> HIDE DEF f, n
    <2> QED
      BY <1>2 DEF f
  <1> QED
    BY <1>1, <1>3 DEF Held

LEMMA FetchZoneType ==
    ASSUME IInv, NEW t \in Threads, at[t] = "fetch_register"
    PROVE  FetchZone(t) \subseteq Spots
  <1> USE PageFacts
  <1>1. job[t].spot \in Spots /\ \A q \in ZonePages(t) : q \in Pages
    BY HolderOwns DEF IInv, JobInv
  <1>2. First(t) \in Pages /\ job[t].spot[2] \in Blocks
    BY <1>1 DEF First, Spots
  <1>3. 1 .. job[t].spot[2] \subseteq Blocks
    BY <1>2 DEF Blocks
  <1> QED
    BY <1>1, <1>2, <1>3 DEF FetchZone, Spots

LEMMA FetchRegisterKeepsInv ==
    ASSUME IInv, NEW t \in Threads, FetchRegister(t)
    PROVE  IInv'
  <1> USE PageFacts
  <1> DEFINE f == First(t)
             g == Next2(t)
             z == FetchZone(t)
             j == [job[t] EXCEPT !.zone = z]
  <1>1. /\ job[t] \in Jobs /\ HeldInv(t) /\ JobInv(t) /\ at[t] = "fetch_register"
        /\ UNCHANGED <<exeDeny, check, mem, owner, pc, alive>>
        /\ ends' \subseteq ends /\ checked' = checked \cup z
        /\ at' = [at EXCEPT ![t] = "fetch_close"]
    BY DEF IInv, Types, FetchRegister, In, Goto, bits
  <1>2. f \in Pages /\ f \in Int /\ owner[f] = t /\ \A p \in ZonePages(t) : p \in Pages /\ owner[p] = t
    BY <1>1, HolderOwns
  <1>3. z \subseteq Spots
    BY <1>1, FetchZoneType
  <1>4. job' = [job EXCEPT ![t] = j]
    BY DEF FetchRegister
  <1> HIDE DEF z
  <1>5. /\ j \in Jobs /\ j.spot = job[t].spot /\ j.data = job[t].data
        /\ j.todo = job[t].todo /\ j.held = job[t].held /\ j.zone = z
    BY <1>1, <1>3 DEF Jobs
  <1> HIDE DEF j
  <1>6. /\ job' \in [Threads -> Jobs] /\ job'[t] = j /\ at'[t] = "fetch_close"
        /\ at' \in [Threads -> Labels]
        /\ \A u \in Threads \ {t} : job'[u] = job[u] /\ at'[u] = at[u]
    BY <1>1, <1>4, <1>5, PlanType DEF IInv, Types, Labels
  <1>7. ASSUME NEW p \in Pages
        PROVE  /\ masters'[p] \in Seq(SUBSET Blocks)
               /\ p \in ZonePages(t) => masters'[p] # <<>>
               /\ p \notin ZonePages(t) => masters'[p] = masters[p]
    <2>1. masters[p] \in Seq(SUBSET Blocks)
      BY DEF IInv, Types
    <2>2. CASE p \in ZonePages(t)
      <3> DEFINE h == Held(t, p)
      <3>1. h \in SUBSET Blocks
        BY <1>1, <1>2, <2>2, HeldType
      <3>2. masters'[p] = <<h>> \o masters[p]
        BY <2>2 DEF FetchRegister
      <3> HIDE DEF h
      <3>3. <<h>> \in Seq(SUBSET Blocks) /\ Len(<<h>>) = 1
        BY <3>1
      <3>4. <<h>> \o masters[p] \in Seq(SUBSET Blocks) /\ Len(<<h>> \o masters[p]) = 1 + Len(masters[p])
        BY <2>1, <3>3, ConcatProperties
      <3>5. Len(masters[p]) \in Nat
        BY <2>1
      <3>6. Len(masters'[p]) # 0
        BY <3>2, <3>4, <3>5
      <3> QED
        BY <2>2, <3>2, <3>4, <3>6
    <2>3. CASE p \notin ZonePages(t)
      BY <2>1, <2>3 DEF FetchRegister
    <2> QED
      BY <2>2, <2>3
  <1>8. f \in ZonePages(t) => masters'[f] = <<Blocks>>
    <2>1. masters[f] = <<>> /\ job[t].data[1] = Blocks
      BY <1>1 DEF JobInv
    <2>2. Held(t, f) = Blocks
      <3>1. f - f + 1 = 1
        BY <1>2
      <3> QED
        BY <2>1, <3>1 DEF Held
    <2>3. f \in ZonePages(t) => masters'[f] = <<Blocks>> \o <<>>
      BY <1>2, <2>1, <2>2 DEF FetchRegister
    <2>4. <<Blocks>> \o <<>> = <<Blocks>>
      <3>1. <<Blocks>> \in Seq(SUBSET Blocks)
        OBVIOUS
      <3> QED
        BY <3>1, ConcatEmptySeq
    <2> QED
      BY <2>3, <2>4
  <1>9. ASSUME NEW p \in ZonePages(t), p # f
        PROVE  p - 1 \in Crossing
    <2>1. \/ job[t].held = <<f>> /\ Len(job[t].data) = 1
          \/ f \in Crossing /\ Len(job[t].data) \in {1, 2}
      BY <1>1 DEF HeldInv
    <2>2. p = g /\ g = f + 1 /\ f \in Crossing
      BY <1>2, <1>9, <2>1, ZoneFacts
    <2>3. p - 1 = f
      BY <1>2, <2>2
    <2> QED
      BY <2>2, <2>3
  <1>10. Types'
    <2>1. masters' = [p \in Pages |-> masters'[p]]
      BY DEF FetchRegister
    <2>2. masters' \in [Pages -> Seq(SUBSET Blocks)]
      BY <1>7, <2>1
    <2> QED
      BY <1>1, <1>3, <1>6, <2>2 DEF IInv, Types
  <1>11. HeldInv(t)'
    BY <1>1, <1>5, <1>6 DEF HeldInv, First, Next2
  <1>12. ZonePages(t)' = ZonePages(t)
    BY <1>5, <1>6 DEF ZonePages, First
  <1>13. JobInv(t)'
    <2>1. \A p \in ZonePages(t) : masters'[p] # <<>>
      BY <1>2, <1>7
    <2>2. job[t].spot \in Spots /\ job[t].todo = {} /\ z \subseteq checked'
      BY <1>1 DEF JobInv
    <2> QED
      BY <1>5, <1>6, <1>12, <2>1, <2>2 DEF JobInv
  <1>14. ASSUME NEW p \in Pages
         PROVE  masters[p] # <<>> => masters'[p] # <<>>
    BY <1>7
  <1>15. ASSUME NEW p \in Pages, owner[p] = t
         PROVE  PageInv(p)'
    <2>1. PageInv(p) /\ (Closes(t, p) <=> FALSE)
      BY <1>1 DEF IInv, PageInv, Closes
    <2>2. CASE p \in ZonePages(t)
      <3>1. Closes(t, p)'
        BY <1>6, <1>12, <2>2 DEF Closes
      <3>2. p - 1 \notin Crossing => masters'[p] = <<Blocks>>
        BY <1>8, <1>9, <2>2
      <3> QED
        BY <1>1, <1>7, <1>15, <2>1, <2>2, <3>1, <3>2 DEF PageInv, IInv, Types
    <2>3. CASE p \notin ZonePages(t)
      BY <1>1, <1>7, <1>15, <2>1, <2>3 DEF PageInv
    <2> QED
      BY <2>2, <2>3
  <1>16. \A p \in Pages : owner[p] # t => Untouched(p)
    BY <1>1, <1>2, <1>7 DEF Untouched
  <1> QED
    BY <1>1, <1>5, <1>6, <1>10, <1>11, <1>13, <1>14, <1>15, <1>16, OwnStep

LEMMA FetchCloseKeepsInv ==
    ASSUME IInv, NEW t \in Threads, FetchClose(t)
    PROVE  IInv'
  <1> USE PageFacts
  <1> DEFINE z == ZonePages(t)
             j == [job[t] EXCEPT !.todo = z]
  <1>1. /\ job[t] \in Jobs /\ HeldInv(t) /\ JobInv(t) /\ at[t] = "fetch_close"
        /\ UNCHANGED <<exeDeny, check, masters, ends, checked, owner, pc, alive>>
        /\ at' = [at EXCEPT ![t] = "allow"]
    BY DEF IInv, Types, FetchClose, In, Goto, bits, tables
  <1>2. First(t) \in Pages /\ First(t) \in Int /\ \A p \in z : p \in Pages /\ owner[p] = t
    BY <1>1, HolderOwns
  <1>3. z # {}
    BY <1>1, <1>2, ZoneFacts DEF HeldInv
  <1>4. job' = [job EXCEPT ![t] = j]
    BY DEF FetchClose
  <1>5. /\ j \in Jobs /\ j.spot = job[t].spot /\ j.data = job[t].data
        /\ j.todo = z /\ j.held = job[t].held
    <2> HIDE DEF z
    <2> QED
      BY <1>1, <1>2 DEF Jobs
  <1> HIDE DEF j
  <1>6. /\ job' \in [Threads -> Jobs] /\ job'[t] = j /\ at'[t] = "allow"
        /\ at' \in [Threads -> Labels]
        /\ \A u \in Threads \ {t} : job'[u] = job[u] /\ at'[u] = at[u]
    BY <1>1, <1>4, <1>5, PlanType DEF IInv, Types, Labels
  <1>7. ASSUME NEW p \in Pages
        PROVE  /\ mem'[p] \in SUBSET Blocks
               /\ p \in z => \A b \in mem'[p] : <<p, b>> \in checked
               /\ p \notin z => mem'[p] = mem[p]
    <2>1. CASE p \in z
      <3>1. mem'[p] = {b \in Held(t, p) : ~EndsAtBorder(t) /\ <<p, b>> \in job[t].zone}
        BY <2>1 DEF FetchClose
      <3>2. Held(t, p) \in SUBSET Blocks
        BY <1>1, <1>2, <2>1, HeldType
      <3>3. job[t].zone \subseteq checked
        BY <1>1 DEF JobInv
      <3> QED
        BY <2>1, <3>1, <3>2, <3>3
    <2>2. CASE p \notin z
      BY <2>2 DEF FetchClose, IInv, Types
    <2> QED
      BY <2>1, <2>2
  <1>8. Types'
    <2>1. mem' = [p \in Pages |-> mem'[p]]
      BY DEF FetchClose
    <2>2. mem' \in [Pages -> SUBSET Blocks]
      BY <1>7, <2>1
    <2> QED
      BY <1>1, <1>6, <2>2 DEF IInv, Types
  <1>9. HeldInv(t)'
    BY <1>1, <1>5, <1>6 DEF HeldInv, First, Next2
  <1>10. ZonePages(t)' = z
    BY <1>5, <1>6 DEF ZonePages, First
  <1>11. JobInv(t)'
    <2>1. \A p \in z : masters[p] # <<>>
      BY <1>1 DEF JobInv
    <2>2. \A p \in z : \A b \in mem'[p] : <<p, b>> \in checked
      BY <1>2, <1>7
    <2>3. job[t].spot \in Spots
      BY <1>1 DEF JobInv
    <2> HIDE DEF z
    <2> QED
      BY <1>1, <1>3, <1>5, <1>6, <1>10, <2>1, <2>2, <2>3 DEF JobInv
  <1>12. ASSUME NEW p \in Pages, owner[p] = t
         PROVE  PageInv(p)'
    <2>1. PageInv(p) /\ (Closes(t, p) <=> p \in z)
      BY <1>1 DEF IInv, PageInv, Closes
    <2>2. Closes(t, p)' <=> p \in z
      BY <1>5, <1>6 DEF Closes
    <2>3. p \in z => masters[p] # <<>>
      BY <1>1 DEF JobInv
    <2> HIDE DEF z
    <2>4. t # NoThread
      OBVIOUS
    <2> QED
      BY <1>1, <1>7, <1>12, <2>1, <2>2, <2>3, <2>4 DEF PageInv
  <1>13. \A p \in Pages : owner[p] # t => Untouched(p)
    BY <1>1, <1>2, <1>7 DEF Untouched
  <1> QED
    BY <1>1, <1>5, <1>6, <1>8, <1>9, <1>11, <1>12, <1>13, OwnStep

LEMMA TrapMadeKeepsInv ==
    ASSUME IInv, NEW t \in Threads, TrapMade(t)
    PROVE  IInv'
  <1> USE PageFacts
  <1> DEFINE f == First(t)
             g == Next2(t)
             d == Append(job[t].data, mem[g])
             j == [job[t] EXCEPT !.data = d, !.todo = {g}]
  <1>1. /\ job[t] \in Jobs /\ HeldInv(t) /\ JobInv(t) /\ at[t] = "trap_made"
        /\ UNCHANGED <<exeDeny, check, mem, ends, checked, owner, pc, alive>>
    BY DEF IInv, Types, TrapMade, In, bits
  <1>2. f \in Pages /\ f \in Int /\ g \in Pages /\ owner[g] = t /\ f \in Crossing
    BY <1>1, HolderOwns DEF HeldInv
  <1>3. CASE Altered(g)
    <2>1. masters' = masters /\ job' = job /\ at' = [at EXCEPT ![t] = "trap_open"]
      BY <1>3 DEF TrapMade, Goto
    <2>2. /\ job'[t] = job[t] /\ at'[t] = "trap_open" /\ at' \in [Threads -> Labels]
          /\ \A u \in Threads \ {t} : job'[u] = job[u] /\ at'[u] = at[u]
      BY <2>1 DEF IInv, Types, Labels
    <2>3. Types'
      BY <1>1, <2>1, <2>2 DEF IInv, Types
    <2>4. HeldInv(t)'
      BY <1>1, <2>2 DEF HeldInv, JobInv, First, Next2
    <2>5. JobInv(t)'
      BY <1>1, <2>2 DEF JobInv
    <2>6. UNCHANGED shared
      BY <1>1, <2>1 DEF shared
    <2> QED
      BY <1>1, <2>1, <2>2, <2>3, <2>4, <2>5, <2>6, LocalStep DEF Closes
  <1>4. CASE ~Altered(g)
    <2>1. /\ masters' = [masters EXCEPT ![g] = <<mem[g]>> \o masters[g]]
          /\ job' = [job EXCEPT ![t] = j]
          /\ at' = [at EXCEPT ![t] = "trap_close"]
      BY <1>4 DEF TrapMade, Goto
    <2>2. mem[g] \in SUBSET Blocks /\ masters[g] \in Seq(SUBSET Blocks)
      BY <1>2 DEF IInv, Types
    <2>3. d \in Seq(SUBSET Blocks) /\ Len(d) = 2
      <3>1. job[t].data \in Seq(SUBSET Blocks) /\ Len(job[t].data) = 1
        BY <1>1 DEF JobInv, Jobs
      <3> QED
        BY <2>2, <3>1, SecondPage, ZenonT(30)
    <2> HIDE DEF d
    <2>4. /\ j \in Jobs /\ j.spot = job[t].spot /\ j.data = d
          /\ j.todo = {g} /\ j.held = job[t].held
      BY <1>1, <1>2, <2>3 DEF Jobs
    <2> HIDE DEF j
    <2>5. /\ job' \in [Threads -> Jobs] /\ job'[t] = j /\ at'[t] = "trap_close"
          /\ at' \in [Threads -> Labels]
          /\ \A u \in Threads \ {t} : job'[u] = job[u] /\ at'[u] = at[u]
      BY <2>1, <2>4, PlanType DEF IInv, Types, Labels
    <2>6. <<mem[g]>> \o masters[g] \in Seq(SUBSET Blocks) /\ <<mem[g]>> \o masters[g] # <<>>
      <3> DEFINE h == mem[g]
      <3>1. <<h>> \in Seq(SUBSET Blocks) /\ Len(<<h>>) = 1
        BY <2>2
      <3>2. /\ <<h>> \o masters[g] \in Seq(SUBSET Blocks)
            /\ Len(<<h>> \o masters[g]) = 1 + Len(masters[g])
        BY <2>2, <3>1, ConcatProperties
      <3>3. Len(masters[g]) \in Nat
        BY <2>2
      <3>4. Len(<<h>> \o masters[g]) # 0
        BY <3>2, <3>3
      <3> QED
        BY <3>2, <3>4
    <2> DEFINE m == <<mem[g]>> \o masters[g]
    <2>7. m \in Seq(SUBSET Blocks) /\ m # <<>> /\ masters' = [masters EXCEPT ![g] = m]
      BY <2>1, <2>6
    <2> HIDE DEF m
    <2>8. ASSUME NEW p \in Pages
          PROVE  masters'[p] = IF p = g THEN m ELSE masters[p]
      BY <2>7 DEF IInv, Types
    <2>9. Types'
      BY <1>1, <2>5, <2>7 DEF IInv, Types
    <2>10. HeldInv(t)'
      BY <1>1, <2>4, <2>5 DEF HeldInv, First, Next2
    <2>11. JobInv(t)'
      <3>1. Next2(t)' = g /\ job'[t].todo = {g} /\ masters'[g] # <<>>
        BY <1>2, <2>4, <2>5, <2>7, <2>8 DEF Next2
      <3> QED
        BY <1>1, <2>3, <2>4, <2>5, <3>1 DEF JobInv
    <2>12. ASSUME NEW p \in Pages, owner[p] = t
           PROVE  PageInv(p)'
      <3>1. PageInv(p) /\ ~Closes(t, p)
        BY <1>1 DEF IInv, PageInv, JobInv, Closes
      <3>2. CASE p = g
        <4>1. Closes(t, p)'
          BY <2>4, <2>5, <3>2 DEF Closes
        <4>2. p - 1 \in Crossing
          <5>1. g = f + 1
            BY <1>2, ZoneFacts
          <5>2. g - 1 = f
            BY <1>2, <5>1
          <5> QED
            BY <1>2, <3>2, <5>2
        <4> QED
          BY <1>1, <2>7, <2>8, <2>12, <3>1, <3>2, <4>1, <4>2 DEF PageInv
      <3>3. CASE p # g
        BY <1>1, <2>8, <2>12, <3>1, <3>3 DEF PageInv
      <3> QED
        BY <3>2, <3>3
    <2>13. \A p \in Pages : owner[p] # t => Untouched(p)
      BY <1>1, <1>2, <2>8 DEF Untouched
    <2>14. \A p \in Pages : masters[p] # <<>> => masters'[p] # <<>>
      BY <2>7, <2>8
    <2> QED
      BY <1>1, <2>4, <2>5, <2>9, <2>10, <2>11, <2>12, <2>13, <2>14, OwnStep
  <1> QED
    BY <1>3, <1>4

LEMMA TrapCloseKeepsInv ==
    ASSUME IInv, NEW t \in Threads, TrapClose(t)
    PROVE  IInv'
  <1> USE PageFacts
  <1> DEFINE g == Next2(t)
  <1>1. /\ job[t] \in Jobs /\ HeldInv(t) /\ JobInv(t) /\ at[t] = "trap_close"
        /\ UNCHANGED <<exeDeny, check, masters, ends, checked, owner, pc, job, alive>>
        /\ mem' = [mem EXCEPT ![g] = {}] /\ at' = [at EXCEPT ![t] = "trap_open"]
    BY DEF IInv, Types, TrapClose, In, Goto, bits, tables
  <1>2. g \in Pages /\ owner[g] = t /\ First(t) \in Int
    BY <1>1, HolderOwns
  <1>3. job[t].todo = {g} /\ g \in ZonePages(t) /\ masters[g] # <<>> /\ Len(job[t].data) = 2
    BY <1>1, <1>2, ZoneFacts DEF JobInv
  <1>4. /\ at'[t] = "trap_open" /\ at' \in [Threads -> Labels]
        /\ \A u \in Threads \ {t} : job'[u] = job[u] /\ at'[u] = at[u]
    BY <1>1 DEF IInv, Types, Labels
  <1>5. ASSUME NEW p \in Pages
        PROVE  mem'[p] = IF p = g THEN {} ELSE mem[p]
    BY <1>1 DEF IInv, Types
  <1>6. Types'
    BY <1>1, <1>4 DEF IInv, Types
  <1>7. HeldInv(t)'
    BY <1>1, <1>3, <1>4 DEF HeldInv, First, Next2
  <1>8. JobInv(t)'
    <2>1. ZonePages(t)' = ZonePages(t) /\ job' = job /\ masters' = masters /\ mem'[g] = {}
      BY <1>1, <1>2, <1>5 DEF ZonePages, First
    <2>2. job[t].spot \in Spots
      BY <1>1 DEF JobInv
    <2> HIDE DEF g
    <2> QED
      BY <1>3, <1>4, <2>1, <2>2 DEF JobInv
  <1>9. ASSUME NEW p \in Pages, owner[p] = t
        PROVE  PageInv(p)'
    <2>1. PageInv(p) /\ (Closes(t, p) <=> p = g) /\ (Closes(t, p)' <=> p = g)
      BY <1>1, <1>3, <1>4 DEF IInv, PageInv, Closes
    <2> QED
      BY <1>1, <1>5, <1>9, <2>1 DEF PageInv
  <1>10. \A p \in Pages : owner[p] # t => Untouched(p)
    BY <1>1, <1>2, <1>5 DEF Untouched
  <1> QED
    BY <1>1, <1>4, <1>6, <1>7, <1>8, <1>9, <1>10, OwnStep

LEMMA TrapOpenKeepsInv ==
    ASSUME IInv, NEW t \in Threads, TrapOpen(t)
    PROVE  IInv'
  <1> USE PageFacts
  <1> DEFINE z == TrapZone(t)
  <1>1. /\ job[t] \in Jobs /\ HeldInv(t) /\ JobInv(t) /\ at[t] = "trap_open"
        /\ UNCHANGED <<exeDeny, check, masters, ends, owner, pc, job, alive>>
        /\ checked' = checked \cup z
        /\ at' = [at EXCEPT ![t] = IF job[t].todo = {} THEN "unlock" ELSE "allow"]
    BY DEF IInv, Types, TrapOpen, In, Goto, bits
  <1>2. /\ job[t].spot \in Spots /\ First(t) \in Pages /\ owner[First(t)] = t
        /\ \A p \in ZonePages(t) : p \in Pages /\ owner[p] = t
    BY <1>1, HolderOwns DEF JobInv
  <1>3. z \subseteq Spots /\ \A s \in z : owner[s[1]] = t
    <2>1. job[t].spot[1] = First(t)
      BY DEF First
    <2> QED
      BY <1>2, <2>1 DEF TrapZone, Spots
  <1>4. ASSUME NEW p \in Pages
        PROVE  /\ mem'[p] \in SUBSET Blocks /\ mem[p] \subseteq mem'[p]
               /\ \A b \in mem'[p] : b \in mem[p] \/ <<p, b>> \in z
    BY DEF TrapOpen, IInv, Types
  <1>5. ASSUME NEW p \in Pages, owner[p] # t
        PROVE  mem'[p] = mem[p]
    <2>1. ASSUME NEW b PROVE <<p, b>> \notin z
      <3>1. <<p, b>>[1] = p
        OBVIOUS
      <3> QED
        BY <1>3, <1>5, <3>1
    <2> QED
      BY <1>4, <2>1
  <1> HIDE DEF z
  <1>6. /\ at'[t] = IF job[t].todo = {} THEN "unlock" ELSE "allow"
        /\ at' \in [Threads -> Labels]
        /\ \A u \in Threads \ {t} : job'[u] = job[u] /\ at'[u] = at[u]
    BY <1>1 DEF IInv, Types, Labels
  <1>7. Types'
    <2>1. mem' = [p \in Pages |-> mem'[p]]
      BY DEF TrapOpen
    <2>2. mem' \in [Pages -> SUBSET Blocks]
      BY <1>4, <2>1
    <2> QED
      BY <1>1, <1>3, <1>6, <2>2 DEF IInv, Types
  <1>8. HeldInv(t)'
    BY <1>1, <1>6 DEF HeldInv, First, Next2
  <1>9. JobInv(t)'
    <2>1. ZonePages(t)' = ZonePages(t)
      BY <1>1 DEF ZonePages, First
    <2>2. \A p \in job[t].todo : p \in ZonePages(t) /\ masters[p] # <<>>
      BY <1>1 DEF JobInv
    <2>3. ASSUME NEW p \in job[t].todo
          PROVE  \A b \in mem'[p] : <<p, b>> \in checked'
      <3>1. p \in Pages /\ \A b \in mem[p] : <<p, b>> \in checked
        BY <1>1, <1>2, <2>2, <2>3 DEF JobInv
      <3> QED
        BY <1>1, <1>4, <3>1
    <2> QED
      BY <1>1, <1>2, <1>6, <2>1, <2>2, <2>3 DEF JobInv
  <1>10. ASSUME NEW p \in Pages, owner[p] = t
         PROVE  PageInv(p)'
    <2>1. PageInv(p) /\ (Closes(t, p) => Closes(t, p)')
      BY <1>1, <1>6 DEF IInv, PageInv, Closes
    <2>2. ~exeDeny[p] => \A b \in mem'[p] : <<p, b>> \in checked'
      BY <1>1, <1>4, <2>1 DEF PageInv
    <2>3. mem'[p] # Blocks => mem[p] # Blocks
      BY <1>4
    <2>4. exeDeny[p] /\ (masters[p] # <<>> \/ mem'[p] # Blocks) => Closes(t, p)'
      BY <1>10, <2>1, <2>3 DEF PageInv
    <2> QED
      BY <1>1, <1>10, <2>1, <2>2, <2>4 DEF PageInv
  <1>11. \A p \in Pages : owner[p] # t => Untouched(p)
    BY <1>1, <1>5 DEF Untouched
  <1>12. checked \subseteq checked'
    BY <1>1
  <1> QED
    BY <1>1, <1>6, <1>7, <1>8, <1>9, <1>10, <1>11, <1>12, OwnStep
-----------------------------------------------------------------------------
(* The specification. *)

LEMMA StutterKeepsInv ==
    ASSUME IInv, UNCHANGED vars
    PROVE  IInv'
  <1> USE DEF vars, bits, tables
  <1>1. Types'
    BY DEF IInv, Types
  <1>2. \A p \in Pages, t \in Threads : (owner[p] = t <=> Locks(t, p))'
    BY DEF IInv, Locks
  <1>3. \A t \in Threads : HeldInv(t)' /\ JobInv(t)'
    BY DEF IInv, HeldInv, JobInv, First, Next2, ZonePages
  <1>4. \A p \in Pages : PageInv(p)'
    BY DEF IInv, PageInv, Closes, ZonePages, First
  <1> QED
    BY <1>1, <1>2, <1>3, <1>4 DEF IInv

LEMMA NextKeepsInv ==
    ASSUME IInv, [Next]_vars
    PROVE  IInv'
  <1>1. ASSUME NEW t \in Threads, Enter(t) \/ Execute(t)
        PROVE  IInv'
    BY <1>1, UserKeepsInv
  <1>2. ASSUME NEW t \in Threads, Fetch(t)
        PROVE  IInv'
    BY <1>2, FaultKeepsInv, FetchCheckedKeepsInv, FetchUncheckedKeepsInv, FetchLockKeepsInv,
       FetchReturnKeepsInv, FetchFirstKeepsInv, FetchNextKeepsInv, FetchSecondKeepsInv,
       FetchRegisterKeepsInv, FetchCloseKeepsInv DEF Fetch
  <1>3. ASSUME NEW t \in Threads, InvalidOpcode(t)
        PROVE  IInv'
    BY <1>3, TrapKeepsInv, TrapFindKeepsInv, TrapLockKeepsInv, TrapFatalKeepsInv,
       TrapSearchKeepsInv, TrapJoinKeepsInv, TrapMakeKeepsInv, TrapMadeKeepsInv,
       TrapCloseKeepsInv, TrapOpenKeepsInv DEF InvalidOpcode
  <1>4. ASSUME NEW t \in Threads, Allow(t) \/ Unlock(t)
        PROVE  IInv'
    BY <1>4, AllowKeepsInv, UnlockKeepsInv
  <1>5. CASE Gone \/ UNCHANGED vars
    BY <1>5, StutterKeepsInv DEF Gone
  <1> QED
    BY <1>1, <1>2, <1>3, <1>4, <1>5 DEF Next, Step

\* The inductive invariant: a mutex belongs to the thread that lists it, each
\* step of the two handlers holds the mutexes it needs, and a page with a
\* master copy that may not execute yet is in the plans of the thread that
\* has its mutex.
THEOREM InvariantHolds == Spec => []IInv
  <1>1. IInv /\ [Next]_vars => IInv'
    BY NextKeepsInv
  <1> QED
    BY InitInv, <1>1, PTL DEF Spec

\* The state has its types, and page_lock_idxs of the handlers and the owners
\* of the mutexes agree.
THEOREM TypeCorrect == Spec => []TypeOK
  <1>1. ASSUME IInv PROVE TypeOK
    <2>1. ASSUME NEW p \in Pages
          PROVE  owner[p] = IF \E t \in Threads : \E i \in DOMAIN job[t].held : job[t].held[i] = p
                   THEN CHOOSE t \in Threads : \E i \in DOMAIN job[t].held : job[t].held[i] = p
                   ELSE NoThread
      <3>1. \A t \in Threads : owner[p] = t <=> \E i \in DOMAIN job[t].held : job[t].held[i] = p
        BY <1>1 DEF IInv, Locks
      <3>2. CASE owner[p] \in Threads
        BY <3>1, <3>2
      <3>3. CASE owner[p] \notin Threads
        <4>1. owner[p] = NoThread
          BY <1>1, <3>3 DEF IInv, Types
        <4> QED
          BY <3>1, <3>3, <4>1
      <3> QED
        BY <3>2, <3>3
    <2>2. \A p \in Pages : masters[p] \in Seq(SUBSET Blocks)
      BY <1>1 DEF IInv, Types
    <2>3. Types
      BY <1>1 DEF IInv
    <2> QED
      BY <2>1, <2>2, <2>3 DEF TypeOK, Types
  <1> QED
    BY <1>1, InvariantHolds, PTL

\* No block of a page that may execute is open before run_kernel_check saw it,
\* however the handlers of several threads interleave.
THEOREM NothingUncheckedRuns == Spec => []OnlyChecked
  <1>1. ASSUME IInv PROVE OnlyChecked
    <2> SUFFICES ASSUME NEW s \in Spots, ~exeDeny[s[1]], Open(s)
                 PROVE  s \in checked
      BY DEF OnlyChecked
    <2>1. s[1] \in Pages /\ s[2] \in mem[s[1]] /\ s = <<s[1], s[2]>>
      BY DEF Spots, Open
    <2> QED
      BY <1>1, <2>1 DEF IInv, PageInv
  <1> QED
    BY <1>1, InvariantHolds, PTL

\* What sig_handler copies is the page and not its fillers: a closed page that
\* may not execute yet is behind a mutex.
THEOREM ClosedPagesAreLocked == Spec => []DeniedUntouched
  <1>1. IInv => DeniedUntouched
    BY DEF IInv, PageInv, DeniedUntouched
  <1> QED
    BY <1>1, InvariantHolds, PTL

\* A page no instruction crosses into is in page_hash_table once and whole.
THEOREM RegisteredOnce == Spec => []UncrossedOneMaster
  <1>1. IInv => UncrossedOneMaster
    BY DEF IInv, PageInv, UncrossedOneMaster
  <1> QED
    BY <1>1, InvariantHolds, PTL
=============================================================================

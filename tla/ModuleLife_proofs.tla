-------------------------- MODULE ModuleLife_proofs --------------------------
(***************************************************************************)
(* Loading and unloading leave nothing behind, a hook is registered only   *)
(* while what it uses is there, and a checked zone holds no shellcode in   *)
(* sight, for any threads, zones and sizes.                                *)
(***************************************************************************)
EXTENDS ModuleLife, TLAPS

Exiting == phase \in {"leaving", "removing", "unregistering"}

\* What the handlers of the hooks use before test_exit begins.
Ready ==
    /\ locks /\ lookup
    /\ node.active /\ node.linked /\ ~node.poisoned

(***************************************************************************)
(* What each step of insmod and of rmmod has made or taken away so far.    *)
(***************************************************************************)
Made ==
    /\ phase = "out" => hooks = {} /\ have = {}
    /\ phase = "loading" =>
           /\ step >= 1
           /\ have = 1..(IF step > LastResource THEN LastResource ELSE step - 1)
           /\ hooks = 1..(step - FirstHook) /\ flags = hooks
           /\ step > InitLocks => locks
           /\ step > AddCheck => node.active /\ node.linked
           /\ step > Lookup => lookup
           /\ ~node.poisoned
    /\ phase = "unhooking" =>
           have = 1..LastResource /\ step < FPROBES_COUNT /\ hooks = 1..step /\ Ready
    /\ phase = "undoing" =>
           hooks = {} /\ step <= LastResource /\ have = 1..step
    /\ phase = "live" => have = 1..LastResource /\ Ready
    /\ phase = "leaving" => have = 1..LastResource
    /\ phase = "removing" => step <= LastResource /\ have = 1..step
    /\ phase \in {"live", "leaving", "removing"} => hooks = 1..FPROBES_COUNT /\ flags = hooks
    /\ phase = "unregistering" =>
           step >= 1 /\ have = {} /\ hooks = step..FPROBES_COUNT /\ flags = 1..FPROBES_COUNT
    /\ Exiting => locks /\ lookup

\* What the walk w through the list of check functions has seen so far.
WalkInv(w) ==
    /\ w.hook \in hooks
    /\ w.pc = "at" => w.run = 0 /\ w.negative = 0
    /\ w.pc # "at" /\ ~Exiting => w.run = 1
    /\ w.run = 1 => w.negative = check_function_1(w.text, w.zone[1], w.zone[2])
    /\ w.pc = "opened" => Passes(w.run, w.negative)

IInv == TypeOK /\ Made /\ \A t \in Threads : walk[t] # Idle => WalkInv(walk[t])


-----------------------------------------------------------------------------
USE DEF LastResource, CheckMode, InitLocks, AddCheck, Lookup, FirstHook,
        FPROBES_kret_COUNT, KPROBES_COUNT, FPROBES_COUNT

\* The table of the functions to hook has one entry more than is counted.
LEMMA TenFunctions == Len(syms_ret) = 10
  BY DEF syms_ret

\* Nothing is loaded at first.
LEMMA InitInv == Init => IInv
  <1> SUFFICES ASSUME Init PROVE IInv
    OBVIOUS
  <1>1. TypeOK
    <2>1. locks \in BOOLEAN /\ lookup \in BOOLEAN
      BY Zenon DEF Init
    <2>2. node \in [active : BOOLEAN, linked : BOOLEAN, poisoned : BOOLEAN]
      BY DEF Init, Unloaded
    <2>3. walk \in [Threads -> {Idle} \cup Walks]
      BY DEF Init
    <2> QED
      BY <2>1, <2>2, <2>3, ModuleAssumption DEF Init, TypeOK, Phases
  <1>2. Made
    BY DEF Init, Made, Exiting
  <1> QED
    BY <1>1, <1>2 DEF Init, IInv

\* A step of insmod or rmmod disturbs no handler when it takes no hook away
\* that has one running, and when what test_exit began goes on until then.
LEMMA HandlersStay ==
    ASSUME IInv, UNCHANGED walk,
           \A t \in Threads : walk[t] # Idle => walk[t].hook \in hooks',
           Exiting => Exiting' \/ \A t \in Threads : walk[t] = Idle
    PROVE  \A t \in Threads : walk'[t] # Idle => WalkInv(walk[t])'
  BY DEF IInv, WalkInv

\* Without hooks there are no handlers.
LEMMA NoHandler ==
    ASSUME IInv, hooks = {}
    PROVE  \A t \in Threads : walk[t] = Idle
  BY DEF IInv, WalkInv

LEMMA LoadKeepsInv == IInv /\ Load => IInv'
  <1> SUFFICES ASSUME IInv, Load PROVE IInv'
    OBVIOUS
  <1>1. TypeOK'
    <2>1. locks' \in BOOLEAN /\ lookup' \in BOOLEAN
      BY Zenon DEF Load
    <2>2. node' \in [active : BOOLEAN, linked : BOOLEAN, poisoned : BOOLEAN]
      BY DEF Load, Unloaded
    <2> QED
      BY <2>1, <2>2, ModuleAssumption DEF IInv, Load, TypeOK, Phases
  <1>2. Made'
    BY DEF IInv, TypeOK, Load, Made, Exiting, Unloaded
  <1>3. \A t \in Threads : walk'[t] # Idle => WalkInv(walk[t])'
    BY NoHandler DEF IInv, Made, Load
  <1> QED
    BY <1>1, <1>2, <1>3 DEF IInv

LEMMA LoadStepKeepsInv == IInv /\ LoadStep => IInv'
  <1> SUFFICES ASSUME IInv, LoadStep PROVE IInv'
    OBVIOUS
  <1>1. TypeOK'
    <2>1. locks' \in BOOLEAN /\ lookup' \in BOOLEAN
      BY Zenon DEF LoadStep, IInv, TypeOK
    <2>2. node' \in [active : BOOLEAN, linked : BOOLEAN, poisoned : BOOLEAN]
      BY DEF LoadStep, IInv, TypeOK
    <2> QED
      <3>1. have' \subseteq 1..LastResource
        BY DEF IInv, Made, LoadStep, TypeOK
      <3>2. phase' \in Phases /\ step' \in 0..(FirstHook + FPROBES_COUNT)
        BY DEF IInv, LoadStep, TypeOK
      <3> QED
        BY <2>1, <2>2, <3>1, <3>2 DEF IInv, LoadStep, TypeOK
  <1>2. Made'
    <2>1. /\ phase = "loading" /\ phase' = "loading" /\ step \in Nat /\ step < FirstHook
          /\ step' = step + 1 /\ hooks' = hooks /\ flags' = flags
      BY DEF IInv, TypeOK, LoadStep
    <2>2. /\ step >= 1
          /\ have = 1..(IF step > LastResource THEN LastResource ELSE step - 1)
          /\ hooks = 1..(step - FirstHook) /\ flags = hooks
          /\ ~node.poisoned
      BY <2>1 DEF IInv, Made
    <2>3. have' = 1..(IF step' > LastResource THEN LastResource ELSE step' - 1)
      <3>1. have' = IF step <= LastResource THEN have \cup {step} ELSE have
        BY DEF LoadStep
      <3>2. CASE step < LastResource
        <4>1. have = 1..(step - 1) /\ have' = have \cup {step} /\ ~(step' > LastResource)
          BY <2>1, <2>2, <3>1, <3>2
        <4>2. have' = 1..step /\ step = step' - 1
          BY <2>1, <2>2, <4>1
        <4> QED
          BY <4>1, <4>2
      <3>3. CASE step = LastResource
        <4>1. have = 1..3 /\ have' = have \cup {4} /\ step' > LastResource
          BY <2>1, <2>2, <3>1, <3>3
        <4> QED
          BY <4>1
      <3>4. CASE step > LastResource
        <4>1. have' = have /\ have = 1..LastResource /\ step' > LastResource
          BY <2>1, <2>2, <3>1, <3>4
        <4> QED
          BY <4>1
      <3> QED
        BY <2>1, <3>2, <3>3, <3>4
    <2>4. /\ step' > InitLocks => locks'
          /\ step' > Lookup => lookup'
      <3>1. (step > InitLocks => locks) /\ (step > Lookup => lookup)
        BY <2>1 DEF IInv, Made
      <3>2. (locks \/ step = InitLocks => locks') /\ (lookup \/ step = Lookup => lookup')
        BY Zenon DEF LoadStep
      <3>3. /\ step' > InitLocks => step = InitLocks \/ step > InitLocks
            /\ step' > Lookup => step = Lookup \/ step > Lookup
        BY <2>1
      <3> QED
        BY <3>1, <3>2, <3>3, Zenon
    <2>5. /\ step' > AddCheck => node'.active /\ node'.linked
          /\ ~node'.poisoned
      <3>1. CASE step = AddCheck
        BY <3>1 DEF LoadStep
      <3>2. CASE step # AddCheck
        BY <2>1, <2>2, <3>2 DEF IInv, Made, LoadStep
      <3> QED
        BY <3>1, <3>2
    <2>6. hooks' = 1..(step' - FirstHook)
      BY <2>1, <2>2
    <2> QED
      BY <2>1, <2>2, <2>3, <2>4, <2>5, <2>6 DEF Made, Exiting
  <1>3. \A t \in Threads : walk'[t] # Idle => WalkInv(walk[t])'
    BY HandlersStay DEF IInv, WalkInv, LoadStep, Exiting
  <1> QED
    BY <1>1, <1>2, <1>3 DEF IInv

LEMMA LoadFailsKeepsInv == IInv /\ LoadFails => IInv'
  <1> SUFFICES ASSUME IInv, LoadFails PROVE IInv'
    OBVIOUS
  <1>1. TypeOK'
    BY DEF IInv, LoadFails, TypeOK, Phases, UndoFrom, kernelVars, Made
  <1>2. Made'
    BY DEF IInv, TypeOK, LoadFails, Made, Exiting, UndoFrom, kernelVars
  <1>3. \A t \in Threads : walk'[t] # Idle => WalkInv(walk[t])'
    BY HandlersStay DEF IInv, WalkInv, LoadFails, Exiting, kernelVars
  <1> QED
    BY <1>1, <1>2, <1>3 DEF IInv

LEMMA LoadHookKeepsInv == IInv /\ LoadHook => IInv'
  <1> SUFFICES ASSUME IInv, LoadHook PROVE IInv'
    OBVIOUS
  <1>1. TypeOK'
    BY TenFunctions DEF IInv, LoadHook, TypeOK, Phases
  <1>2. Made'
    BY DEF IInv, TypeOK, LoadHook, Made, Exiting
  <1>3. \A t \in Threads : walk'[t] # Idle => WalkInv(walk[t])'
    BY HandlersStay DEF IInv, WalkInv, LoadHook, Exiting
  <1> QED
    BY <1>1, <1>2, <1>3 DEF IInv

LEMMA LoadHookFailsKeepsInv == IInv /\ LoadHookFails => IInv'
  <1> SUFFICES ASSUME IInv, LoadHookFails PROVE IInv'
    OBVIOUS
  <1>1. TypeOK'
    BY DEF IInv, LoadHookFails, TypeOK, Phases, kernelVars
  <1>2. Made'
    BY DEF IInv, TypeOK, LoadHookFails, Made, Ready, Exiting, kernelVars
  <1>3. \A t \in Threads : walk'[t] # Idle => WalkInv(walk[t])'
    BY HandlersStay DEF IInv, WalkInv, LoadHookFails, Exiting, kernelVars
  <1> QED
    BY <1>1, <1>2, <1>3 DEF IInv

LEMMA LoadedKeepsInv == IInv /\ Loaded => IInv'
  <1> SUFFICES ASSUME IInv, Loaded PROVE IInv'
    OBVIOUS
  <1>1. TypeOK'
    BY DEF IInv, Loaded, TypeOK, Phases, kernelVars
  <1>2. Made'
    BY DEF IInv, TypeOK, Loaded, Made, Ready, Exiting, kernelVars
  <1>3. \A t \in Threads : walk'[t] # Idle => WalkInv(walk[t])'
    BY HandlersStay DEF IInv, WalkInv, Loaded, Exiting, kernelVars
  <1> QED
    BY <1>1, <1>2, <1>3 DEF IInv

LEMMA RollBackKeepsInv == IInv /\ RollBack => IInv'
  <1> SUFFICES ASSUME IInv, RollBack PROVE IInv'
    OBVIOUS
  <1>1. TypeOK'
    <2>1. step' \in 0..(FirstHook + FPROBES_COUNT)
      BY SMTT(30) DEF IInv, RollBack, TypeOK
    <2>2. phase' \in Phases
      BY DEF RollBack, Phases, IInv, TypeOK
    <2>3. hooks' \subseteq hooks /\ have' \subseteq have
      BY DEF RollBack
    <2> QED
      BY <2>1, <2>2, <2>3 DEF IInv, TypeOK, RollBack
  <1>2. Made'
    <2>1. CASE step > 0
      <3>1. /\ phase = "unhooking" /\ phase' = "unhooking" /\ step \in Nat
            /\ step' = step - 1 /\ hooks' = hooks \ {step}
            /\ UNCHANGED <<have, locks, lookup, node>>
        BY <2>1 DEF IInv, TypeOK, RollBack
      <3>2. have = 1..LastResource /\ step < FPROBES_COUNT /\ hooks = 1..step /\ Ready
        BY <3>1 DEF IInv, Made
      <3>3. hooks' = 1..step' /\ step' < FPROBES_COUNT
        BY <2>1, <3>1, <3>2
      <3> QED
        BY <3>1, <3>2, <3>3 DEF Made, Ready, Exiting
    <2>2. CASE ~(step > 0)
      BY <2>2 DEF IInv, TypeOK, RollBack, Made, Ready, Exiting
    <2> QED
      BY <2>1, <2>2
  <1>3. \A t \in Threads : walk'[t] # Idle => WalkInv(walk[t])'
    BY HandlersStay DEF IInv, WalkInv, RollBack, Unused, Exiting
  <1> QED
    BY <1>1, <1>2, <1>3 DEF IInv

LEMMA UndoKeepsInv == IInv /\ Undo => IInv'
  <1> SUFFICES ASSUME IInv, Undo PROVE IInv'
    OBVIOUS
  <1>1. TypeOK'
    <2>1. step' \in 0..(FirstHook + FPROBES_COUNT)
      BY SMTT(30) DEF IInv, Undo, TypeOK
    <2>2. phase' \in Phases
      BY DEF Undo, Phases, IInv, TypeOK
    <2>3. hooks' \subseteq hooks /\ have' \subseteq have
      BY DEF Undo
    <2> QED
      BY <2>1, <2>2, <2>3 DEF IInv, TypeOK, Undo
  <1>2. Made'
    <2>1. CASE step > 0
      <3>1. /\ phase \in {"undoing", "removing"} /\ phase' = phase /\ step \in Nat
            /\ step' = step - 1 /\ have' = have \ {step}
            /\ UNCHANGED <<locks, lookup, hooks, flags>>
        BY <2>1 DEF IInv, TypeOK, Undo
      <3>2. have = 1..step /\ step <= LastResource
        BY <3>1 DEF IInv, Made
      <3>3. have' = 1..step' /\ step' <= LastResource
        BY <2>1, <3>1, <3>2
      <3> QED
        BY <3>1, <3>3 DEF IInv, Made, Exiting
    <2>2. CASE ~(step > 0)
      <3>1. phase \in {"undoing", "removing"} /\ step = 0 /\ have = 1..step
        BY <2>2 DEF IInv, TypeOK, Undo, Made
      <3>2. have' = {}
        BY <2>2, <3>1 DEF Undo
      <3>3. CASE phase = "undoing"
        BY <2>2, <3>2, <3>3 DEF IInv, Undo, Made, Exiting
      <3>4. CASE phase = "removing"
        BY <2>2, <3>2, <3>4 DEF IInv, Undo, Made, Exiting
      <3> QED
        BY <3>1, <3>3, <3>4
    <2> QED
      BY <2>1, <2>2
  <1>3. \A t \in Threads : walk'[t] # Idle => WalkInv(walk[t])'
    BY HandlersStay, NoHandler DEF IInv, WalkInv, Undo, Made, Exiting
  <1> QED
    BY <1>1, <1>2, <1>3 DEF IInv

LEMMA UnloadKeepsInv == IInv /\ (Unload \/ Unlink) => IInv'
  <1> SUFFICES ASSUME IInv, Unload \/ Unlink PROVE IInv'
    OBVIOUS
  <1>1. TypeOK'
    <2>1. node' \in [active : BOOLEAN, linked : BOOLEAN, poisoned : BOOLEAN]
      BY DEF IInv, TypeOK, Unload, Unlink
    <2> QED
      BY <2>1 DEF IInv, Unload, Unlink, TypeOK, Phases
  <1>2. Made'
    <2>1. CASE Unload
      BY <2>1 DEF IInv, Unload, Made, Ready, Exiting
    <2>2. CASE Unlink
      BY <2>2 DEF IInv, Unlink, Made, Exiting
    <2> QED
      BY <2>1, <2>2
  <1>3. \A t \in Threads : walk'[t] # Idle => WalkInv(walk[t])'
    BY HandlersStay DEF IInv, WalkInv, Unload, Unlink, Exiting
  <1> QED
    BY <1>1, <1>2, <1>3 DEF IInv

LEMMA UnregisterKeepsInv == IInv /\ Unregister => IInv'
  <1> SUFFICES ASSUME IInv, Unregister PROVE IInv'
    OBVIOUS
  <1>1. TypeOK'
    <2>1. step' \in 0..(FirstHook + FPROBES_COUNT)
      <3>1. /\ step \in 0..(FirstHook + FPROBES_COUNT)
            /\ step' = IF step <= FPROBES_COUNT THEN step + 1 ELSE 0
        BY DEF IInv, Unregister, TypeOK
      <3> QED
        BY <3>1
    <2>2. phase' \in Phases
      BY DEF Unregister, Phases, IInv, TypeOK
    <2>3. hooks' \subseteq hooks /\ have' \subseteq have
      BY DEF Unregister
    <2> QED
      BY <2>1, <2>2, <2>3 DEF IInv, TypeOK, Unregister
  <1>2. Made'
    <2>1. CASE step <= FPROBES_COUNT
      <3>1. /\ phase = "unregistering" /\ phase' = "unregistering" /\ step \in Nat
            /\ step' = step + 1
            /\ hooks' = IF step \in flags THEN hooks \ {step} ELSE hooks
            /\ UNCHANGED <<have, locks, lookup, flags>>
        BY <2>1 DEF IInv, TypeOK, Unregister
      <3>2. step >= 1 /\ have = {} /\ hooks = step..FPROBES_COUNT /\ flags = 1..FPROBES_COUNT
        BY <3>1 DEF IInv, Made
      <3>3. hooks' = step'..FPROBES_COUNT /\ step' >= 1
        <4>1. hooks' = (step..FPROBES_COUNT) \ {step}
          BY <2>1, <3>1, <3>2
        <4>2. \A k \in Nat : (k..FPROBES_COUNT) \ {k} = (k + 1)..FPROBES_COUNT
          OBVIOUS
        <4>3. step' = step + 1 /\ step \in Nat /\ step >= 1
          BY <3>1, <3>2
        <4> QED
          BY <4>1, <4>2, <4>3
      <3>4. locks' /\ lookup'
        BY <3>1 DEF IInv, Made, Exiting
      <3> QED
        BY <3>1, <3>2, <3>3, <3>4 DEF Made, Exiting
    <2>2. CASE ~(step <= FPROBES_COUNT)
      BY <2>2 DEF IInv, TypeOK, Unregister, Made, Exiting
    <2> QED
      BY <2>1, <2>2
  <1>3. \A t \in Threads : walk'[t] # Idle => WalkInv(walk[t])'
    <2>1. CASE step <= FPROBES_COUNT
      BY <2>1, HandlersStay DEF IInv, TypeOK, Made, WalkInv, Unregister, Unused, Exiting
    <2>2. CASE ~(step <= FPROBES_COUNT)
      <3>1. hooks = {}
        BY <2>2 DEF IInv, TypeOK, Made, Unregister
      <3> QED
        BY <3>1, NoHandler DEF Unregister
    <2> QED
      BY <2>1, <2>2
  <1> QED
    BY <1>1, <1>2, <1>3 DEF IInv
-----------------------------------------------------------------------------
\* A step of the handler t.
LEMMA WalkStep ==
    ASSUME IInv, NEW t \in Threads, NEW w \in {Idle} \cup Walks,
           walk' = [walk EXCEPT ![t] = w], UNCHANGED <<phase, step, kernelVars, loads>>,
           w # Idle => WalkInv(w)
    PROVE  IInv'
  <1>1. walk' \in [Threads -> {Idle} \cup Walks]
    BY DEF IInv, TypeOK
  <1>2. TypeOK'
    BY <1>1 DEF IInv, TypeOK, kernelVars
  <1>3. Made'
    BY DEF IInv, Made, Ready, Exiting, kernelVars
  <1>4. ASSUME NEW u \in Threads, walk'[u] # Idle PROVE WalkInv(walk[u])'
    <2>1. walk'[u] = IF u = t THEN w ELSE walk[u]
      BY DEF IInv, TypeOK
    <2>2. WalkInv(walk'[u])
      BY <1>4, <2>1 DEF IInv
    <2> QED
      BY <2>2 DEF WalkInv, Exiting, kernelVars
  <1> QED
    BY <1>2, <1>3, <1>4 DEF IInv

\* A handler that is somewhere is not idle.
LEMMA RunningWalk ==
    ASSUME IInv, NEW t \in Threads, walk[t].pc # "idle"
    PROVE  walk[t] \in Walks /\ WalkInv(walk[t])
  BY DEF IInv, TypeOK, Idle

\* While a hook is registered and test_exit has not begun, the check function
\* is in the list.
LEMMA ServedHook ==
    ASSUME IInv, hooks # {}
    PROVE  ~Exiting => node.linked /\ node.active
  <1> SUFFICES ASSUME ~Exiting PROVE node.linked /\ node.active
    OBVIOUS
  <1>1. phase \in {"out", "loading", "unhooking", "undoing", "live"}
    BY DEF IInv, TypeOK, Phases, Exiting
  <1>2. CASE phase = "loading"
    <2>1. hooks = 1..(step - FirstHook) /\ step \in Nat
      BY <1>2 DEF IInv, TypeOK, Made
    <2>2. step > AddCheck
      BY <2>1
    <2> QED
      BY <1>2, <2>2 DEF IInv, Made
  <1> QED
    BY <1>1, <1>2 DEF IInv, Made, Ready

LEMMA EnterKeepsInv ==
    ASSUME IInv, NEW t \in Threads, Enter(t)
    PROVE  IInv'
  <1> PICK i \in Checking \cap hooks, z \in Zones, x \in Texts :
          walk' = [walk EXCEPT ![t] =
                     [pc |-> IF node.linked THEN "at" ELSE "end", hook |-> i,
                      zone |-> z, text |-> x, run |-> 0, negative |-> 0]]
    BY DEF Enter
  <1> DEFINE w == [pc |-> IF node.linked THEN "at" ELSE "end", hook |-> i,
                   zone |-> z, text |-> x, run |-> 0, negative |-> 0]
  <1>1. w \in Walks
    BY DEF Walks
  <1>2. WalkInv(w)
    BY ServedHook DEF WalkInv
  <1> QED
    BY <1>1, <1>2, WalkStep DEF Enter

LEMMA CheckKeepsInv ==
    ASSUME IInv, NEW t \in Threads, Check(t)
    PROVE  IInv'
  <1> DEFINE v == walk[t]
             c == check_function_1(v.text, v.zone[1], v.zone[2])
             w == IF node.active
                    THEN [v EXCEPT !.pc = "next", !.run = v.run + 1, !.negative = v.negative + c]
                    ELSE [v EXCEPT !.pc = "next"]
  <1>1. v \in Walks /\ WalkInv(v) /\ v.pc = "at" /\ v.run = 0 /\ v.negative = 0
    BY RunningWalk DEF Check, WalkInv
  <1>2. c \in 0..1
    BY DEF check_function_1
  <1>3. w \in Walks
    <2>1. [v EXCEPT !.pc = "next"] \in Walks
      BY <1>1 DEF Walks
    <2>2. v.run + 1 \in 0..1 /\ v.negative + c \in 0..1
      BY <1>1, <1>2
    <2> HIDE DEF c
    <2>3. [v EXCEPT !.pc = "next", !.run = v.run + 1, !.negative = v.negative + c] \in Walks
      BY <1>1, <2>2 DEF Walks
    <2> QED
      BY <2>1, <2>3
  <1>4. walk' = [walk EXCEPT ![t] = w]
    BY DEF Check
  <1>5. WalkInv(w)
    BY <1>1, <1>2, ServedHook DEF WalkInv, Walks
  <1> QED
    BY <1>3, <1>4, <1>5, WalkStep DEF Check

LEMMA AdvanceKeepsInv ==
    ASSUME IInv, NEW t \in Threads, Advance(t)
    PROVE  IInv'
  <1> DEFINE w == [walk[t] EXCEPT !.pc = IF node.poisoned THEN "oops" ELSE "end"]
  <1>1. walk[t] \in Walks /\ WalkInv(walk[t]) /\ walk[t].pc = "next"
    BY RunningWalk DEF Advance
  <1>2. w \in Walks
    BY <1>1 DEF Walks
  <1>3. WalkInv(w)
    BY <1>1 DEF WalkInv, Walks
  <1> QED
    BY <1>2, <1>3, WalkStep DEF Advance

LEMMA AnswerKeepsInv ==
    ASSUME IInv, NEW t \in Threads, Answer(t)
    PROVE  IInv'
  <1> DEFINE w == [walk[t] EXCEPT !.pc =
                     IF Passes(walk[t].run, walk[t].negative) THEN "opened" ELSE "killed"]
  <1>1. walk[t] \in Walks /\ WalkInv(walk[t]) /\ walk[t].pc = "end"
    BY RunningWalk DEF Answer
  <1>2. w \in Walks
    BY <1>1 DEF Walks
  <1>3. WalkInv(w)
    BY <1>1 DEF WalkInv, Walks
  <1> QED
    BY <1>2, <1>3, WalkStep DEF Answer

LEMMA LeaveKeepsInv ==
    ASSUME IInv, NEW t \in Threads, Leave(t)
    PROVE  IInv'
  BY WalkStep DEF Leave

LEMMA NextKeepsInv == IInv /\ [Next]_vars => IInv'
  <1> SUFFICES ASSUME IInv, [Next]_vars PROVE IInv'
    OBVIOUS
  <1>1. CASE Next
    <2>1. CASE \/ Load \/ LoadStep \/ LoadFails \/ LoadHook \/ LoadHookFails \/ Loaded
               \/ RollBack \/ Undo \/ Unload \/ Unlink \/ Unregister
      BY <2>1, LoadKeepsInv, LoadStepKeepsInv, LoadFailsKeepsInv, LoadHookKeepsInv,
         LoadHookFailsKeepsInv, LoadedKeepsInv, RollBackKeepsInv, UndoKeepsInv,
         UnloadKeepsInv, UnregisterKeepsInv
    <2>2. ASSUME NEW t \in Threads,
                 Enter(t) \/ Check(t) \/ Advance(t) \/ Answer(t) \/ Leave(t)
          PROVE  IInv'
      BY <2>2, EnterKeepsInv, CheckKeepsInv, AdvanceKeepsInv, AnswerKeepsInv, LeaveKeepsInv
    <2> QED
      BY <1>1, <2>1, <2>2 DEF Next
  <1>2. CASE UNCHANGED vars
    <2>1. TypeOK' /\ Made'
      BY <1>2 DEF IInv, TypeOK, Made, Ready, Exiting, vars
    <2>2. \A t \in Threads : walk'[t] # Idle => WalkInv(walk[t])'
      BY <1>2 DEF IInv, WalkInv, Exiting, vars
    <2> QED
      BY <2>1, <2>2 DEF IInv
  <1> QED
    BY <1>1, <1>2

\* The inductive invariant: what has been made at each step of test_init and of
\* test_exit, and what a handler in the registry can have seen of it.
THEOREM InvariantHolds == Spec => []IInv
  BY InitInv, NextKeepsInv, PTL DEF Spec
-----------------------------------------------------------------------------
(* The windows of check_function_1.                                        *)

\* There is always a number of bytes until the page ends.
LEMMA UntilType ==
    ASSUME NEW a \in Int
    PROVE  UntilPageEnd(a) \in Nat
  BY CheckAssumption, Z3 DEF UntilPageEnd

\* No window reaches beyond the page in which the zone ends.
LEMMA WindowInPage ==
    ASSUME NEW start \in Nat, NEW end \in Nat, NEW p \in Examined(start, end)
    PROVE  start <= p /\ p + NeedleBytes <= end + UntilPageEnd(end)
  <1> DEFINE until == UntilPageEnd(end)
  <1>1. until \in Nat /\ NeedleBytes \in Nat /\ SyncChecks \in Nat
    BY UntilType, CheckAssumption
  <1>2. PICK i \in 0..(SyncChecks - 1) :
          p \in Compared(start + i, end - start - Shrink(until, i))
    BY DEF Examined, Windows
  <1>3. Shrink(until, i) \in Nat /\ i - Shrink(until, i) <= until
    BY <1>1 DEF Shrink
  <1>4. p \in (start + i)..(start + i + (end - start - Shrink(until, i)) - NeedleBytes - 1)
    BY <1>2 DEF Compared
  <1> HIDE DEF until
  <1> QED
    BY <1>1, <1>3, <1>4 DEF until

\* The first two windows compare at every position of a zone that is longer
\* than the shellcode, but at the last one of a page.
LEMMA WindowsCover ==
    ASSUME SyncChecks > 1, NEW start \in Nat, NEW end \in Nat, NEW p \in Nat,
           start <= p, p + NeedleBytes <= end, UntilPageEnd(p + NeedleBytes) # 0,
           end - start > NeedleBytes
    PROVE  p \in Examined(start, end)
  <1> DEFINE until == UntilPageEnd(end)
  <1>1. until \in Nat /\ NeedleBytes \in Nat /\ SyncChecks \in Nat
    BY UntilType, CheckAssumption
  <1>2. \A i \in 0..(SyncChecks - 1) :
          <<start + i, end - start - Shrink(until, i)>> \in Windows(start, end)
    BY DEF Windows
  <1>3. \A i \in 0..(SyncChecks - 1) :
          Compared(start + i, end - start - Shrink(until, i)) \subseteq Examined(start, end)
    <2> SUFFICES ASSUME NEW i \in 0..(SyncChecks - 1),
                        NEW q \in Compared(start + i, end - start - Shrink(until, i))
                 PROVE  q \in Examined(start, end)
      OBVIOUS
    <2> DEFINE w == <<start + i, end - start - Shrink(until, i)>>
    <2>1. w \in Windows(start, end) /\ q \in Compared(w[1], w[2])
      BY <1>2
    <2> QED
      BY <2>1, Zenon DEF Examined
  <1>4. CASE p + NeedleBytes < end
    <2>1. Shrink(until, 0) = 0
      BY <1>1 DEF Shrink
    <2>2. p \in Compared(start + 0, end - start - Shrink(until, 0))
      BY <1>1, <1>4, <2>1 DEF Compared
    <2> QED
      BY <1>1, <1>3, <2>2
  <1>5. CASE p + NeedleBytes = end
    <2>1. until # 0
      BY <1>5
    <2>2. Shrink(until, 1) = 0
      BY <1>1, <2>1 DEF Shrink
    <2>3. p \in Compared(start + 1, end - start - Shrink(until, 1))
      BY <1>1, <1>5, <2>2 DEF Compared
    <2> QED
      BY <1>1, <1>3, <2>3
  <1> QED
    BY <1>1, <1>4, <1>5
-----------------------------------------------------------------------------
\* Every variable of test_init, test_exit and the handlers keeps its type.
THEOREM TypeCorrect == Spec => []TypeOK
  <1>1. IInv => TypeOK
    BY DEF IInv
  <1> QED
    BY <1>1, InvariantHolds, PTL

\* A load that fails at any step, and an unload, leave no hook, no part of the
\* device and no handler that runs (the labels of test_init, test_exit,
\* remove_fprobes).
THEOREM NothingStays == Spec => []NothingLeft
  <1>1. IInv => NothingLeft
    BY NoHandler DEF IInv, Made, NothingLeft
  <1> QED
    BY <1>1, InvariantHolds, PTL

\* The mutexes and the addresses a handler uses are there as long as its hook
\* is registered, the check function until test_exit takes it out.
THEOREM HooksAreServed == Spec => []HooksServed
  <1>1. IInv => HooksServed
    <2> SUFFICES ASSUME IInv, hooks # {}
                 PROVE  /\ locks /\ lookup
                        /\ phase \in {"loading", "unhooking", "undoing", "live"} =>
                             node.linked /\ node.active
      BY DEF HooksServed
    <2>1. phase \in {"loading", "unhooking", "undoing", "live"} => node.linked /\ node.active
      BY ServedHook DEF Exiting
    <2>2. CASE phase = "loading"
      <3>1. hooks = 1..(step - FirstHook) /\ step \in Nat
        BY <2>2 DEF IInv, TypeOK, Made
      <3>2. step > InitLocks /\ step > Lookup
        BY <3>1
      <3> QED
        BY <2>1, <2>2, <3>2 DEF IInv, Made
    <2> QED
      BY <2>1, <2>2 DEF IInv, TypeOK, Phases, Made, Ready, Exiting
  <1> QED
    BY <1>1, InvariantHolds, PTL

\* A zone is opened unchecked only by a handler that test_exit overtakes: the
\* hooks come after add_check_function and the error paths keep its node.
THEOREM CheckedUntilTheExit == Spec => []CheckedUntilExit
  <1>1. IInv => CheckedUntilExit
    <2> SUFFICES ASSUME IInv, NEW t \in Threads, walk[t].pc = "opened", walk[t].run = 0
                 PROVE  Exiting
      BY DEF CheckedUntilExit, Exiting
    <2>1. walk[t] \in Walks /\ WalkInv(walk[t])
      BY RunningWalk
    <2> QED
      BY <2>1 DEF WalkInv
  <1> QED
    BY <1>1, InvariantHolds, PTL

\* check_function_1 reads no byte behind the page in which its zone ends,
\* whatever the zone, the page size and the number of windows.
THEOREM CheckStaysInPage == Spec => []StaysInPage
  <1>1. IInv => StaysInPage
    <2> SUFFICES ASSUME IInv, NEW t \in Threads, walk[t] # Idle,
                        NEW p \in Examined(walk[t].zone[1], walk[t].zone[2])
                 PROVE  /\ walk[t].zone[1] <= p
                        /\ p + NeedleBytes <= walk[t].zone[2] + UntilPageEnd(walk[t].zone[2])
      BY DEF StaysInPage
    <2>1. walk[t].zone \in Nat \X Nat
      BY ModuleAssumption DEF IInv, TypeOK, Walks
    <2> QED
      BY <2>1, WindowInPage
  <1> QED
    BY <1>1, InvariantHolds, PTL

\* With two windows or more and a mode that obeys the one check function, no
\* zone is opened in which dumb_memmem can see the shellcode.
THEOREM NoShellcodeInSight ==
    ASSUME SyncChecks > 1, Mode \in {0, 1}
    PROVE  Spec => []ShellcodeStopped
  <1>1. IInv => ShellcodeStopped
    <2> SUFFICES ASSUME IInv, NEW t \in Threads, walk[t].pc = "opened", walk[t].run > 0,
                        NEW p \in walk[t].text,
                        walk[t].zone[1] <= p, p + NeedleBytes <= walk[t].zone[2],
                        UntilPageEnd(p + NeedleBytes) # 0,
                        walk[t].zone[2] - walk[t].zone[1] > NeedleBytes
                 PROVE  FALSE
      BY DEF ShellcodeStopped
    <2> DEFINE start == walk[t].zone[1]
               end == walk[t].zone[2]
               c == check_function_1(walk[t].text, start, end)
    <2>1. walk[t] \in Walks /\ WalkInv(walk[t])
      BY RunningWalk
    <2>2. walk[t].zone \in Nat \X Nat /\ p \in Nat /\ walk[t].run = 1
      <3>1. walk[t].zone \in Zones /\ walk[t].text \in Texts /\ walk[t].run \in 0..1
        BY <2>1 DEF Walks
      <3>2. walk[t].text \subseteq Nat
        BY <3>1, ModuleAssumption
      <3> QED
        BY <3>1, <3>2, ModuleAssumption
    <2>3. p \in Examined(start, end)
      BY <2>2, WindowsCover
    <2>4. c = 0
      <3>1. walk[t].text \cap Examined(start, end) # {}
        BY <2>3
      <3>2. ~(end <= start)
        BY <2>2, CheckAssumption
      <3> QED
        BY <3>1, <3>2 DEF check_function_1
    <2>5. Passes(1, c)
      BY <2>1, <2>2 DEF WalkInv
    <2> HIDE DEF c
    <2> QED
      <3>1. CASE Mode = 0
        BY <2>4, <2>5, <3>1 DEF Passes
      <3>2. CASE Mode = 1
        BY <2>4, <2>5, <3>2 DEF Passes
      <3> QED
        BY <3>1, <3>2
  <1> QED
    BY <1>1, InvariantHolds, PTL
=============================================================================

--------------------------- MODULE SuiteCapProofs ---------------------------
(***************************************************************************)
(* Under every host that keeps to the contract, for any number of threads, *)
(* instances, groups and scheme calls: the suite cap is type correct, its  *)
(* guarded allocations are never repeated and never come too late, and a   *)
(* state that was checked holds until the last scheme call.                *)
(***************************************************************************)
EXTENDS SuiteCap, TLAPS

USE DEF Instances, ThisSuite, SuitePart, OtherName, StateArray, NoArray,
        NoState

AllocVars == (Owned \ OwnedScalars) \cup {StateArray}

(* The slot of a call is a slot of the state.                              *)
LEMMA SlotType ==
  ASSUME NEW c \in Calls
  PROVE  Slot(c) \in Slots
BY ConstantsAssumption DEF Slot, Slots, Calls

(* What the tables say is a state, or nothing.                             *)
LEMMA StateTables ==
  ASSUME NEW p \in Phases
  PROVE  /\ CheckState[p] \in States \cup {NoState}
         /\ SetState[p] \in States \cup {NoState}
BY DEF CheckState, SetState, States

(* What a phase function allocates are suite-owned arrays, and the state   *)
(* array just where instances are declared and the state is used.          *)
LEMMA AllocsType ==
  ASSUME NEW c \in Calls, PartFound(c)
  PROVE  /\ Preamble(c) \subseteq Allocs(c)
         /\ Allocs(c) \subseteq AllocVars
         /\ StateArray \in Allocs(c) <=> MultiInstance /\ UsesState(c.fn)
         /\ StateArray \in Preamble(c) <=> MultiInstance /\ UsesState(c.fn)
         /\ \A j \in DOMAIN Schemes[Entry(c)] :
              /\ Schemes[Entry(c)][j].allocs \subseteq Allocs(c)
              /\ Schemes[Entry(c)][j].allocs \subseteq Owned \ OwnedScalars
<1>1. Entry(c) \in Entries
  BY DEF PartFound
<1>2. /\ Lazy[Entry(c)] \subseteq Owned \ OwnedScalars
      /\ Schemes[Entry(c)] \in Seq(SchemeCall)
  BY <1>1, ConstantsAssumption
<1>3. \A j \in DOMAIN Schemes[Entry(c)] :
        Schemes[Entry(c)][j].allocs \subseteq Owned \ OwnedScalars
  <2>1. ASSUME NEW body \in Seq(SchemeCall), NEW j \in DOMAIN body
        PROVE  body[j] \in SchemeCall
    BY <2>1
  <2> QED
    BY <1>2, <2>1 DEF SchemeCall
<1>4. StateArray \notin Owned
  BY ConstantsAssumption
<1> QED
  BY <1>2, <1>3, <1>4 DEF Allocs, Preamble, AllocVars

(***************************************************************************)
(* The initial states.                                                     *)
(***************************************************************************)
(* The empty frame of a thread outside the cap is a call.                  *)
LEMMA NoCallType == NoCall \in Calls
BY ConstantsAssumption DEF NoCall, Calls, Phases, FlatPhases

(* The invariant holds before any entry point has been called.             *)
LEMMA InitInv == Init => IInv
<1> SUFFICES ASSUME Init PROVE IInv
  OBVIOUS
<1>1. TypeOK
  <2>1. Undefined \in Tags
    BY DEF Undefined, Tags
  <2> QED
    BY <2>1, NoCallType
       DEF Init, TypeOK, States, Faults, PCs, Causes
<1>2. \A t \in Threads : ~Inside(t) /\ pc[t] = "idle"
  BY DEF Init, Inside
<1> QED
  BY <1>1, <1>2 DEF Init, IInv, NoStateFault, InsideKnown, OutsideUnchecked,
     AboutToAllocate, PairwiseCompatible, StateProvided, Initializing, HoldsSinceCheck

(***************************************************************************)
(* Entering the cap.                                                       *)
(***************************************************************************)
(* A call that enters under the contract is compatible with all inside.    *)
LEMMA DispatchInv ==
  ASSUME IInv, NEW t \in Threads, NEW c \in Calls,
         Dispatch(t, c), Contract(t, c)
  PROVE  IInv'
<1> USE DEF Dispatch, module_vars
<1>0. TypeOK /\ PartFound(c) /\ SuiteFound(c)
  BY DEF IInv
<1>1. TypeOK'
  <2>1. Preamble(c) \subseteq AllocVars
    BY <1>0, AllocsType
  <2> QED
    BY <1>0, <2>1 DEF TypeOK, PCs, AllocVars
<1>2. NoStateFault'
  BY DEF IInv, NoStateFault
<1>3. InsideKnown'
  BY <1>0, AllocsType DEF IInv, TypeOK, InsideKnown, Inside
<1>4. AboutToAllocate'
  BY <1>0 DEF IInv, TypeOK, AboutToAllocate
<1>5. PairwiseCompatible'
  <2>1. ASSUME NEW u \in Threads, u # t, Inside(u)'
        PROVE  Compatible(t, u)' /\ Compatible(u, t)'
    <3>1. Inside(u) /\ call'[u] = call[u] /\ call'[t] = c
      BY <1>0, <2>1 DEF TypeOK, Inside
    <3>2. Warm(c) /\ MayOverlap(c, call[u])
      BY <2>1, <3>1 DEF Contract
    <3> QED
      BY <3>1, <3>2 DEF Compatible, Warm, MayOverlap, StateReady
  <2>2. ASSUME NEW u \in Threads, NEW v \in Threads, u # t, v # t, u # v,
               Inside(u)', Inside(v)'
        PROVE  Compatible(u, v)'
    BY <1>0, <2>2 DEF IInv, TypeOK, PairwiseCompatible, Compatible, Inside,
       MayOverlap, StateReady
  <2> QED
    BY <2>1, <2>2 DEF PairwiseCompatible
<1>6. StateProvided'
  <2>1. MultiInstance /\ UsesState(c.fn) => StateArray \in Preamble(c)
    BY <1>0, AllocsType
  <2>2. k[t] = 0
    BY DEF IInv, OutsideUnchecked, Inside
  <2> QED
    BY <1>0, <2>1, <2>2 DEF IInv, TypeOK, StateProvided, Inside
<1>7. OutsideUnchecked'
  BY <1>0 DEF IInv, TypeOK, OutsideUnchecked, Inside
<1>8. Initializing'
  BY <1>0 DEF IInv, TypeOK, Initializing, StateReady
<1>9. HoldsSinceCheck'
  BY <1>0 DEF IInv, TypeOK, HoldsSinceCheck, OutsideUnchecked, Inside
<1> QED
  BY <1>1, <1>2, <1>3, <1>4, <1>5, <1>6, <1>7, <1>8, <1>9 DEF IInv

(* A call for an unknown suite or part touches nothing but its frame.      *)
LEMMA MissInv ==
  ASSUME IInv, NEW t \in Threads, NEW c \in Calls, Miss(t, c)
  PROVE  IInv'
<1> USE DEF Miss, module_vars
<1>0. TypeOK
  BY DEF IInv
<1>1. TypeOK'
  BY <1>0 DEF TypeOK, PCs, Causes
<1>2. NoStateFault'
  BY DEF IInv, NoStateFault
<1>3. ASSUME NEW u \in Threads, Inside(u)'
      PROVE  Inside(u) /\ u # t /\ pc'[u] = pc[u] /\ errflg'[u] = errflg[u]
  BY <1>0, <1>3 DEF TypeOK, Inside
<1>4. InsideKnown'
  BY <1>3 DEF IInv, InsideKnown
<1>5. OutsideUnchecked'
  BY <1>0 DEF IInv, TypeOK, OutsideUnchecked, Inside
<1>6. AboutToAllocate' /\ Initializing'
  BY <1>0 DEF IInv, TypeOK, AboutToAllocate, Initializing, StateReady
<1>7. PairwiseCompatible'
  BY <1>3 DEF IInv, PairwiseCompatible, Compatible, MayOverlap, StateReady
<1>8. StateProvided'
  BY <1>3 DEF IInv, StateProvided
<1>9. HoldsSinceCheck'
  BY <1>3 DEF IInv, HoldsSinceCheck
<1> QED
  BY <1>1, <1>2, <1>4, <1>5, <1>6, <1>7, <1>8, <1>9 DEF IInv

(***************************************************************************)
(* Guarded allocations.                                                    *)
(***************************************************************************)
(* The allocated() test drops an array from the list or picks it.          *)
LEMMA TestAllocatedInv ==
  ASSUME IInv, NEW t \in Threads, TestAllocated(t)
  PROVE  IInv'
<1> USE DEF module_vars
<1>0. TypeOK /\ InsideKnown
  BY DEF IInv
<1>1. PICK v \in todo[t] :
        IF v \in allocated
        THEN /\ todo' = [todo EXCEPT ![t] = @ \ {v}]
             /\ UNCHANGED <<pc, cur>>
        ELSE /\ pc' = [pc EXCEPT ![t] = "allocate"]
             /\ cur' = [cur EXCEPT ![t] = v]
             /\ UNCHANGED todo
  BY DEF TestAllocated
<1>2. /\ Inside(t) /\ pc[t] \in {"alloc", "call"}
      /\ UNCHANGED <<suite_state, allocated, data, fault, call, k, errflg, cause>>
  BY DEF TestAllocated, Inside
<1>3. ASSUME NEW u \in Threads
      PROVE  /\ Inside(u)' <=> Inside(u)
             /\ todo'[u] \subseteq todo[u]
             /\ todo[u] \ todo'[u] \subseteq allocated
  BY <1>0, <1>1, <1>2, <1>3 DEF TypeOK, Inside
<1>4. TypeOK'
  <2>1. todo[t] \subseteq AllocVars /\ v \in AllocVars
    BY <1>0 DEF TypeOK, AllocVars
  <2>2. CASE v \in allocated
    BY <1>0, <1>1, <1>2, <2>1, <2>2 DEF TypeOK, AllocVars
  <2>3. CASE v \notin allocated
    BY <1>0, <1>1, <1>2, <2>1, <2>3 DEF TypeOK, AllocVars, PCs
  <2> QED
    BY <2>2, <2>3
<1>5. NoStateFault'
  BY <1>2 DEF IInv, NoStateFault
<1>6. InsideKnown'
  <2>1. ASSUME NEW u \in Threads, pc'[u] = "call" PROVE pc[u] = "call"
    BY <1>0, <1>1, <2>1 DEF TypeOK
  <2> QED
    BY <1>0, <1>2, <1>3, <2>1 DEF InsideKnown
<1>7. OutsideUnchecked'
  BY <1>2, <1>3 DEF IInv, OutsideUnchecked
<1>8. AboutToAllocate'
  BY <1>0, <1>1, <1>2 DEF IInv, TypeOK, AboutToAllocate
<1>9. PairwiseCompatible'
  BY <1>2, <1>3 DEF IInv, PairwiseCompatible, Compatible, MayOverlap, StateReady
<1>10. StateProvided'
  BY <1>2, <1>3 DEF IInv, StateProvided
<1>11. Initializing'
  BY <1>0, <1>1, <1>2 DEF IInv, TypeOK, Initializing, StateReady
<1>12. HoldsSinceCheck'
  BY <1>2, <1>3 DEF IInv, HoldsSinceCheck
<1> QED
  BY <1>4, <1>5, <1>6, <1>7, <1>8, <1>9, <1>10, <1>11, <1>12 DEF IInv

(* Two threads are never about to allocate, and no thread is about to      *)
(* allocate the state array while another one uses the state.              *)
LEMMA AllocatesAlone ==
  ASSUME IInv, NEW t \in Threads, NEW u \in Threads, t # u,
         pc[t] = "allocate", Inside(u)
  PROVE  /\ pc[u] # "allocate"
         /\ cur[t] = StateArray => ~UsesState(call[u].fn)
<1>1. /\ Inside(t) /\ call[t] \in Calls /\ call[u] \in Calls
      /\ PartFound(call[t]) /\ PartFound(call[u])
      /\ cur[t] \in todo[t] \ allocated /\ cur[t] \in Allocs(call[t])
  BY DEF IInv, TypeOK, Inside, InsideKnown, AboutToAllocate
<1>2. pc[u] = "allocate" => cur[u] \in Allocs(call[u]) \ allocated
  BY DEF IInv, InsideKnown, AboutToAllocate
<1>3. Compatible(t, u)
  BY <1>1 DEF IInv, PairwiseCompatible
<1>4. pc[u] # "allocate"
  BY <1>1, <1>2, <1>3 DEF Compatible
<1>5. cur[t] = StateArray => ~UsesState(call[u].fn)
  BY <1>1, <1>3, AllocsType DEF Compatible, StateReady
<1> QED
  BY <1>4, <1>5

(* What is about to be allocated after the check is not the state array.   *)
LEMMA AllocatesStateEarly ==
  ASSUME IInv, NEW t \in Threads, pc[t] = "allocate", cur[t] = StateArray
  PROVE  UsesState(call[t].fn) /\ k[t] = 0
<1>1. /\ Inside(t) /\ call[t] \in Calls /\ PartFound(call[t])
      /\ StateArray \notin allocated /\ StateArray \in Allocs(call[t])
  BY DEF IInv, TypeOK, Inside, InsideKnown, AboutToAllocate
<1>2. UsesState(call[t].fn)
  BY <1>1, AllocsType
<1> QED
  BY <1>1, <1>2 DEF IInv, StateProvided

(* The allocate statement: of the state array, or of another array.        *)
LEMMA AllocateInv ==
  ASSUME IInv, NEW t \in Threads, Allocate(t)
  PROVE  IInv'
<1> DEFINE v == cur[t]
<1>0. TypeOK /\ InsideKnown
  BY DEF IInv
<1>1. /\ pc[t] = "allocate" /\ Inside(t)
      /\ v \in todo[t] /\ v \notin allocated
      /\ v \in AllocVars
  BY DEF Allocate, IInv, TypeOK, AboutToAllocate, Inside, AllocVars
<1>2. /\ allocated' = allocated \cup {v}
      /\ fault' = fault
      /\ UNCHANGED <<call, k, errflg, cause>>
  BY <1>1 DEF Allocate
<1>3. CASE v = StateArray
  <2>1. /\ pc' = [pc EXCEPT ![t] = "init"]
        /\ suite_state' = [s \in Slots |-> "undefined"]
        /\ UNCHANGED <<data, todo, cur>>
    BY <1>3 DEF Allocate
  <2>2. UsesState(call[t].fn) /\ k[t] = 0
    BY <1>1, <1>3, AllocatesStateEarly
  <2>3. ASSUME NEW u \in Threads, u # t, Inside(u)
        PROVE  ~UsesState(call[u].fn)
    BY <1>1, <1>3, <2>3, AllocatesAlone
  <2>4. ASSUME NEW u \in Threads
        PROVE  Inside(u)' <=> Inside(u)
    BY <1>0, <1>1, <2>1 DEF TypeOK, Inside
  <2>5. TypeOK'
    BY <1>0, <1>1, <1>2, <2>1 DEF TypeOK, PCs, AllocVars
  <2>6. NoStateFault'
    BY <1>2 DEF IInv, NoStateFault
  <2>7. InsideKnown'
    BY <1>0, <1>2, <2>1, <2>4 DEF InsideKnown, TypeOK
  <2>8. OutsideUnchecked'
    BY <1>2, <2>4 DEF IInv, OutsideUnchecked
  <2>9. AboutToAllocate'
    <3>1. ASSUME NEW u \in Threads, pc'[u] = "allocate"
          PROVE  FALSE
      <4>1. u # t /\ pc[u] = "allocate" /\ Inside(u)
        BY <1>0, <2>1, <3>1 DEF TypeOK, Inside
      <4> QED
        BY <1>1, <4>1, AllocatesAlone
    <3> QED
      BY <3>1 DEF AboutToAllocate
  <2>10. PairwiseCompatible'
    <3>1. ASSUME NEW u \in Threads, NEW w \in Threads, u # w,
                 Inside(u), Inside(w)
          PROVE  ~(UsesState(call[u].fn) /\ UsesState(call[w].fn))
      <4>1. CASE u = t
        BY <2>3, <3>1, <4>1
      <4>2. CASE u # t
        BY <2>3, <3>1, <4>2
      <4> QED
        BY <4>1, <4>2
    <3> QED
      BY <1>2, <2>4, <3>1 DEF IInv, PairwiseCompatible, Compatible, MayOverlap
  <2>11. StateProvided'
    BY <1>2, <1>3 DEF StateProvided
  <2>12. Initializing'
    <3>1. ASSUME NEW u \in Threads, pc'[u] = "init"
          PROVE  u = t
      <4>1. CASE u # t
        <5>1. pc[u] = "init" /\ Inside(u)
          BY <1>0, <2>1, <3>1, <4>1 DEF TypeOK, Inside
        <5> QED
          BY <2>3, <4>1, <5>1 DEF IInv, Initializing
      <4> QED
        BY <4>1
    <3>2. ~StateReady'
      <4>1. 1 \in Slots
        BY ConstantsAssumption DEF Slots
      <4> QED
        BY <2>1, <4>1 DEF StateReady
    <3> QED
      BY <1>2, <1>3, <2>1, <2>2, <3>1, <3>2 DEF Initializing
  <2>13. HoldsSinceCheck'
    <3>1. ASSUME NEW u \in Threads, Inside(u), k[u] # 0
          PROVE  CheckState[call[u].fn] = NoState
      <4>1. ~UsesState(call[u].fn)
        BY <2>2, <2>3, <3>1
      <4> QED
        BY <4>1 DEF UsesState
    <3> QED
      BY <1>2, <2>4, <3>1 DEF HoldsSinceCheck
  <2> QED
    BY <2>5, <2>6, <2>7, <2>8, <2>9, <2>10, <2>11, <2>12, <2>13 DEF IInv
<1>4. CASE v # StateArray
  <2>1. /\ pc' = [pc EXCEPT ![t] = Resume(t)]
        /\ data' = [data EXCEPT ![cur[t]] = [b \in Blocks |-> Undefined]]
        /\ todo' = [todo EXCEPT ![t] = @ \ {cur[t]}]
        /\ cur' = [cur EXCEPT ![t] = NoArray]
        /\ UNCHANGED suite_state
    BY <1>4 DEF Allocate
  <2>2. Resume(t) = IF k[t] = 0 THEN "alloc" ELSE "call"
    BY DEF Resume
  <2>3. ASSUME NEW u \in Threads
        PROVE  /\ Inside(u)' <=> Inside(u)
               /\ todo'[u] \subseteq todo[u]
               /\ todo[u] \ todo'[u] \subseteq allocated'
               /\ StateArray \in todo[u] => StateArray \in todo'[u]
    BY <1>0, <1>1, <1>2, <1>4, <2>1, <2>2 DEF TypeOK, Inside
  <2>4. StateReady' <=> StateReady
    BY <1>2, <1>4, <2>1 DEF StateReady
  <2>5. TypeOK'
    <3>1. data' \in [Owned -> [Blocks -> Tags]]
      <4>1. [b \in Blocks |-> Undefined] \in [Blocks -> Tags]
        BY DEF Undefined, Tags
      <4> QED
        BY <1>0, <2>1, <4>1 DEF TypeOK
    <3>2. todo' \in [Threads -> SUBSET ((Owned \ OwnedScalars) \cup {StateArray})]
      BY <1>0, <2>1 DEF TypeOK
    <3> QED
      BY <1>0, <1>1, <1>2, <2>1, <2>2, <3>1, <3>2 DEF TypeOK, PCs, AllocVars
  <2>6. NoStateFault'
    BY <1>2 DEF IInv, NoStateFault
  <2>7. InsideKnown'
    BY <1>0, <1>2, <2>1, <2>2, <2>3 DEF InsideKnown, TypeOK
  <2>8. OutsideUnchecked'
    BY <1>2, <2>3 DEF IInv, OutsideUnchecked
  <2>9. AboutToAllocate'
    <3>1. ASSUME NEW u \in Threads, pc'[u] = "allocate"
          PROVE  FALSE
      <4>1. u # t /\ pc[u] = "allocate" /\ Inside(u)
        BY <1>0, <2>1, <2>2, <3>1 DEF TypeOK, Inside
      <4> QED
        BY <1>1, <4>1, AllocatesAlone
    <3> QED
      BY <3>1 DEF AboutToAllocate
  <2>10. PairwiseCompatible'
    BY <1>2, <2>3, <2>4 DEF IInv, PairwiseCompatible, Compatible, MayOverlap
  <2>11. StateProvided'
    BY <1>2, <2>3 DEF IInv, StateProvided
  <2>12. Initializing'
    <3>1. ASSUME NEW u \in Threads, pc'[u] = "init"
          PROVE  u # t /\ pc[u] = "init" /\ cur'[u] = cur[u]
      BY <1>0, <2>1, <2>2, <3>1 DEF TypeOK
    <3> QED
      BY <1>2, <2>4, <3>1 DEF IInv, Initializing
  <2>13. HoldsSinceCheck'
    BY <1>2, <2>1, <2>3 DEF IInv, HoldsSinceCheck
  <2> QED
    BY <2>5, <2>6, <2>7, <2>8, <2>9, <2>10, <2>11, <2>12, <2>13 DEF IInv
<1> QED
  BY <1>3, <1>4

(* The state array becomes ready, and no other thread uses it.             *)
LEMMA InitStateInv ==
  ASSUME IInv, NEW t \in Threads, InitState(t)
  PROVE  IInv'
<1>0. TypeOK /\ InsideKnown
  BY DEF IInv
<1>1. /\ pc[t] = "init" /\ Inside(t) /\ cur[t] = StateArray /\ k[t] = 0
      /\ StateArray \in allocated /\ ~StateReady /\ UsesState(call[t].fn)
  BY DEF InitState, IInv, Initializing, Inside
<1>2. /\ suite_state' = [s \in Slots |-> "uninitialized"]
      /\ pc' = [pc EXCEPT ![t] = "alloc"]
      /\ todo' = [todo EXCEPT ![t] = @ \ {StateArray}]
      /\ cur' = [cur EXCEPT ![t] = NoArray]
      /\ UNCHANGED <<allocated, data, fault, call, k, errflg, cause>>
  BY <1>1 DEF InitState, Resume
<1>3. StateReady'
  BY <1>1, <1>2 DEF StateReady
<1>4. ASSUME NEW u \in Threads, u # t, Inside(u)
      PROVE  ~UsesState(call[u].fn)
  BY <1>1, <1>4 DEF IInv, PairwiseCompatible, Compatible
<1>5. ASSUME NEW u \in Threads
      PROVE  /\ Inside(u)' <=> Inside(u)
             /\ todo'[u] \subseteq todo[u]
  BY <1>0, <1>1, <1>2 DEF TypeOK, Inside
<1>6. TypeOK'
  BY <1>0, <1>2 DEF TypeOK, PCs, States
<1>7. NoStateFault'
  BY <1>2 DEF IInv, NoStateFault
<1>8. InsideKnown'
  BY <1>0, <1>2, <1>5 DEF InsideKnown, TypeOK
<1>9. OutsideUnchecked'
  BY <1>2, <1>5 DEF IInv, OutsideUnchecked
<1>10. AboutToAllocate'
  BY <1>0, <1>2 DEF IInv, TypeOK, AboutToAllocate
<1>11. PairwiseCompatible'
  BY <1>2, <1>3, <1>5 DEF IInv, PairwiseCompatible, Compatible, MayOverlap
<1>12. StateProvided'
  BY <1>1, <1>2 DEF StateProvided
<1>13. Initializing'
  <2>1. ASSUME NEW u \in Threads, pc'[u] = "init"
        PROVE  FALSE
    <3>1. u # t /\ pc[u] = "init" /\ Inside(u)
      BY <1>0, <1>2, <2>1 DEF TypeOK, Inside
    <3> QED
      BY <1>4, <3>1 DEF IInv, Initializing
  <2> QED
    BY <2>1 DEF Initializing
<1>14. HoldsSinceCheck'
  <2>1. ASSUME NEW u \in Threads, Inside(u), k[u] # 0
        PROVE  CheckState[call[u].fn] = NoState
    <3>1. ~UsesState(call[u].fn)
      BY <1>1, <1>4, <2>1
    <3> QED
      BY <3>1 DEF UsesState
  <2> QED
    BY <1>2, <1>5, <2>1 DEF HoldsSinceCheck
<1> QED
  BY <1>6, <1>7, <1>8, <1>9, <1>10, <1>11, <1>12, <1>13, <1>14 DEF IInv

(***************************************************************************)
(* The state check and the scheme calls.                                   *)
(***************************************************************************)
(* The state check is made with the state array in place.                  *)
LEMMA CheckInv ==
  ASSUME IInv, NEW t \in Threads, Check(t)
  PROVE  IInv'
<1>0. TypeOK /\ InsideKnown
  BY DEF IInv
<1>1. /\ pc[t] = "alloc" /\ todo[t] = {} /\ Inside(t)
      /\ pc' = [pc EXCEPT ![t] = "call"]
      /\ k' = [k EXCEPT ![t] = 1]
      /\ errflg' = [errflg EXCEPT ![t] = IF Mismatch(t) THEN 1 ELSE @]
      /\ cause' = [cause EXCEPT ![t] = IF Mismatch(t) THEN "state" ELSE @]
      /\ UNCHANGED <<suite_state, allocated, data, call, todo, cur>>
  BY DEF Check, Inside
<1>2. UsesState(call[t].fn) => StateArray \in allocated
  BY <1>1 DEF IInv, StateProvided
<1>3. fault' = fault
  BY <1>2 DEF Check, StateMissing
<1>4. ASSUME NEW u \in Threads
      PROVE  Inside(u)' <=> Inside(u)
  BY <1>0, <1>1 DEF TypeOK, Inside
<1>5. TypeOK'
  BY <1>0, <1>1, <1>3 DEF TypeOK, PCs, Causes
<1>6. NoStateFault'
  BY <1>3 DEF IInv, NoStateFault
<1>7. InsideKnown'
  BY <1>0, <1>1, <1>4 DEF InsideKnown, TypeOK
<1>8. OutsideUnchecked'
  BY <1>0, <1>1, <1>4 DEF IInv, TypeOK, OutsideUnchecked
<1>9. AboutToAllocate' /\ Initializing'
  BY <1>0, <1>1 DEF IInv, TypeOK, AboutToAllocate, Initializing, StateReady
<1>10. PairwiseCompatible'
  BY <1>1, <1>4 DEF IInv, PairwiseCompatible, Compatible, MayOverlap, StateReady
<1>11. StateProvided'
  BY <1>0, <1>1, <1>2, <1>4 DEF IInv, TypeOK, StateProvided
<1>12. HoldsSinceCheck'
  <2>1. ASSUME errflg'[t] = 0, CheckState[call[t].fn] # NoState
        PROVE  suite_state[Slot(call[t])] = CheckState[call[t].fn]
    BY <1>0, <1>1, <2>1 DEF TypeOK, Mismatch
  <2>2. ASSUME NEW u \in Threads, u # t
        PROVE  k'[u] = k[u] /\ errflg'[u] = errflg[u]
    BY <1>0, <1>1, <2>2 DEF TypeOK
  <2> QED
    BY <1>1, <1>4, <2>1, <2>2 DEF IInv, HoldsSinceCheck
<1> QED
  BY <1>5, <1>6, <1>7, <1>8, <1>9, <1>10, <1>11, <1>12 DEF IInv

(* What the three outcomes of a scheme call have in common.                *)
LEMMA AdvanceInv ==
  ASSUME IInv, NEW t \in Threads, AtScheme(t), Advance(t),
         data' \in [Owned -> [Blocks -> Tags]],
         fault' \in Faults, NoStateFault',
         errflg' = errflg \/ errflg' = [errflg EXCEPT ![t] = 1],
         cause' \in [Threads -> Causes]
  PROVE  IInv'
<1>0. TypeOK /\ InsideKnown
  BY DEF IInv
<1>1. /\ pc[t] = "call" /\ todo[t] = {} /\ k[t] \in DOMAIN Body(t)
      /\ Inside(t)
      /\ call[t] \in Calls /\ PartFound(call[t])
  BY <1>0 DEF AtScheme, Inside, InsideKnown, TypeOK
<1>2. /\ Body(t)[k[t]].allocs \subseteq Allocs(call[t])
      /\ Body(t)[k[t]].allocs \subseteq Owned \ OwnedScalars
  BY <1>1, AllocsType DEF Body
<1>3. /\ todo' = [todo EXCEPT ![t] = Body(t)[k[t]].allocs]
      /\ k' = [k EXCEPT ![t] = @ + 1]
      /\ UNCHANGED <<suite_state, allocated, pc, call, cur>>
  BY DEF Advance
<1>4. k[t] # 0 /\ k[t] \in Nat
  BY <1>0, <1>1 DEF InsideKnown, TypeOK
<1>5. TypeOK'
  BY <1>0, <1>2, <1>3, <1>4 DEF TypeOK
<1>6. ASSUME NEW u \in Threads
      PROVE  /\ Inside(u)' <=> Inside(u)
             /\ k'[u] = 0 <=> k[u] = 0
             /\ errflg'[u] = 0 => errflg[u] = 0
             /\ todo'[u] = todo[u] \/ u = t
  BY <1>0, <1>3, <1>4 DEF TypeOK, Inside
<1>7. InsideKnown'
  BY <1>0, <1>2, <1>3, <1>6 DEF InsideKnown, TypeOK
<1>8. OutsideUnchecked'
  BY <1>6 DEF IInv, OutsideUnchecked
<1>9. AboutToAllocate' /\ Initializing'
  BY <1>1, <1>3, <1>6 DEF IInv, AboutToAllocate, Initializing, StateReady
<1>10. PairwiseCompatible'
  BY <1>3, <1>6 DEF IInv, PairwiseCompatible, Compatible, MayOverlap, StateReady
<1>11. StateProvided'
  BY <1>1, <1>3, <1>6 DEF IInv, StateProvided
<1>12. HoldsSinceCheck'
  BY <1>3, <1>6 DEF IInv, HoldsSinceCheck
<1> QED
  BY <1>5, <1>7, <1>8, <1>9, <1>10, <1>11, <1>12 DEF IInv

(* A scheme call that succeeds.                                            *)
LEMMA SchemeInv ==
  ASSUME IInv, NEW t \in Threads, Scheme(t)
  PROVE  IInv'
<1>1. TypeOK /\ AtScheme(t) /\ Advance(t) /\ UNCHANGED <<errflg, cause>>
  BY DEF Scheme, IInv
<1>2. data' \in [Owned -> [Blocks -> Tags]]
  <2>1. Tag(call[t]) \in Tags
    BY <1>1, ConstantsAssumption DEF TypeOK, Calls, Tag, Tags
  <2>2. data' = [v \in Owned |-> [b \in Blocks |->
                   IF /\ v \in Body(t)[k[t]].writes
                      /\ b \in Written(v, call[t])
                   THEN Tag(call[t]) ELSE data[v][b]]]
    BY DEF Scheme
  <2> QED
    BY <1>1, <2>1, <2>2 DEF TypeOK
<1>3. fault' \in Faults /\ NoStateFault'
  BY <1>1 DEF Scheme, IInv, TypeOK, Faults, NoStateFault
<1> QED
  BY <1>1, <1>2, <1>3, AdvanceInv DEF TypeOK

(* A scheme call that raises errflg.                                       *)
LEMMA SchemeFailsInv ==
  ASSUME IInv, NEW t \in Threads, SchemeFails(t)
  PROVE  IInv'
<1>1. /\ AtScheme(t) /\ Advance(t)
      /\ errflg' = [errflg EXCEPT ![t] = 1]
      /\ UNCHANGED <<data, fault>>
  BY DEF SchemeFails
<1>2. cause' \in [Threads -> Causes]
  BY DEF SchemeFails, IInv, TypeOK, Causes
<1>3. data' \in [Owned -> [Blocks -> Tags]] /\ fault' \in Faults /\ NoStateFault'
  BY <1>1 DEF IInv, TypeOK, NoStateFault
<1> QED
  BY <1>1, <1>2, <1>3, AdvanceInv

(* A scheme call that is skipped because errflg is set.                    *)
LEMMA SkipSchemeInv ==
  ASSUME IInv, NEW t \in Threads, SkipScheme(t)
  PROVE  IInv'
<1>1. AtScheme(t) /\ Advance(t) /\ UNCHANGED <<data, fault, errflg, cause>>
  BY DEF SkipScheme
<1>2. /\ data' \in [Owned -> [Blocks -> Tags]] /\ fault' \in Faults
      /\ NoStateFault' /\ cause' \in [Threads -> Causes]
  BY <1>1 DEF IInv, TypeOK, NoStateFault
<1> QED
  BY <1>1, <1>2, AdvanceInv

(* The end of the scheme calls.                                            *)
LEMMA CallsDoneInv ==
  ASSUME IInv, NEW t \in Threads, CallsDone(t)
  PROVE  IInv'
<1>0. TypeOK /\ InsideKnown
  BY DEF IInv
<1>1. /\ pc[t] = "call" /\ pc' = [pc EXCEPT ![t] = "set"]
      /\ UNCHANGED <<suite_state, allocated, data, fault, call, todo, cur, k,
                     errflg, cause>>
  BY DEF CallsDone, module_vars
<1>2. ASSUME NEW u \in Threads
      PROVE  /\ Inside(u)' <=> Inside(u)
             /\ pc'[u] = pc[u] \/ pc'[u] = "set"
  BY <1>0, <1>1 DEF TypeOK, Inside
<1>3. TypeOK'
  BY <1>0, <1>1 DEF TypeOK, PCs
<1>4. NoStateFault' /\ InsideKnown' /\ OutsideUnchecked' /\ AboutToAllocate'
  BY <1>1, <1>2 DEF IInv, NoStateFault, InsideKnown, OutsideUnchecked,
     AboutToAllocate
<1>5. PairwiseCompatible'
  BY <1>1, <1>2 DEF IInv, PairwiseCompatible, Compatible, MayOverlap, StateReady
<1>6. StateProvided' /\ Initializing' /\ HoldsSinceCheck'
  BY <1>1, <1>2 DEF IInv, StateProvided, Initializing, HoldsSinceCheck, StateReady
<1> QED
  BY <1>3, <1>4, <1>5, <1>6 DEF IInv

(***************************************************************************)
(* Leaving the cap: the state is set, and no one else inside has checked   *)
(* that slot.                                                              *)
(***************************************************************************)
(* Setting the state invalidates no check another thread has made.         *)
LEMMA ReturnInv ==
  ASSUME IInv, NEW t \in Threads, Return(t)
  PROVE  IInv'
<1> DEFINE s == AssignedState(t)
<1>0. TypeOK /\ InsideKnown /\ call[t] \in Calls /\ Slot(call[t]) \in Slots
  BY SlotType DEF IInv, TypeOK
<1>1. /\ pc[t] \in {"set", "miss"}
      /\ suite_state' = IF s = NoState THEN suite_state
                        ELSE [suite_state EXCEPT ![Slot(call[t])] = s]
      /\ pc' = [pc EXCEPT ![t] = "idle"]
      /\ call' = [call EXCEPT ![t] = NoCall]
      /\ k' = [k EXCEPT ![t] = 0]
      /\ errflg' = [errflg EXCEPT ![t] = 0]
      /\ cause' = [cause EXCEPT ![t] = "none"]
      /\ UNCHANGED <<allocated, data, fault, todo, cur>>
  BY DEF Return
<1>2. /\ s \in States \cup {NoState}
      /\ s # NoState => /\ Inside(t) /\ Sets(call[t])
                        /\ UsesState(call[t].fn)
  <2>1. call[t].fn \in Phases
    BY <1>0 DEF Calls
  <2>2. CASE pc[t] = "set"
    BY <2>1, <2>2, StateTables DEF AssignedState, Sets, UsesState, Inside
  <2>3. CASE pc[t] # "set"
    BY <2>3 DEF AssignedState
  <2> QED
    BY <2>2, <2>3
<1>3. ASSUME NEW u \in Threads, Inside(u)'
      PROVE  /\ u # t /\ Inside(u) /\ pc'[u] = pc[u] /\ call'[u] = call[u]
             /\ k'[u] = k[u] /\ errflg'[u] = errflg[u]
  BY <1>0, <1>1, <1>3 DEF TypeOK, Inside
<1>4. StateReady => StateReady'
  BY <1>0, <1>1, <1>2 DEF StateReady, States, TypeOK
<1>5. TypeOK'
  <2>1. suite_state' \in [Slots -> States \cup {"undefined"}]
    BY <1>0, <1>1, <1>2 DEF TypeOK
  <2> QED
    BY <1>0, <1>1, <2>1, NoCallType DEF TypeOK, PCs, Causes
<1>6. NoStateFault'
  BY <1>1 DEF IInv, NoStateFault
<1>7. InsideKnown'
  BY <1>0, <1>1, <1>3 DEF InsideKnown
<1>8. OutsideUnchecked'
  BY <1>0, <1>1 DEF IInv, TypeOK, OutsideUnchecked, Inside
<1>9. AboutToAllocate'
  BY <1>0, <1>1 DEF IInv, TypeOK, AboutToAllocate
<1>10. PairwiseCompatible'
  BY <1>1, <1>3, <1>4 DEF IInv, PairwiseCompatible, Compatible, MayOverlap
<1>11. StateProvided'
  BY <1>1, <1>3 DEF IInv, StateProvided
<1>12. Initializing'
  <2>1. ASSUME NEW u \in Threads, pc'[u] = "init"
        PROVE  Inside(u)' /\ pc[u] = "init"
    BY <1>0, <1>1, <2>1 DEF TypeOK, Inside
  <2>2. ASSUME NEW u \in Threads, pc'[u] = "init"
        PROVE  s = NoState
    BY <1>2, <1>3, <2>1, <2>2
       DEF IInv, Initializing, PairwiseCompatible, Compatible
  <2> QED
    BY <1>1, <1>3, <2>1, <2>2 DEF IInv, Initializing, StateReady
<1>13. HoldsSinceCheck'
  <2>1. ASSUME NEW u \in Threads, Inside(u)', s # NoState
        PROVE  Slot(call[u]) # Slot(call[t])
    BY <1>2, <1>3, <2>1 DEF IInv, PairwiseCompatible, Compatible, MayOverlap
  <2>2. ASSUME NEW u \in Threads, Inside(u)'
        PROVE  suite_state'[Slot(call[u])] = suite_state[Slot(call[u])]
    BY <1>0, <1>1, <2>1, <2>2, SlotType DEF TypeOK
  <2> QED
    BY <1>3, <2>2 DEF IInv, HoldsSinceCheck
<1> QED
  BY <1>5, <1>6, <1>7, <1>8, <1>9, <1>10, <1>11, <1>12, <1>13 DEF IInv

(***************************************************************************)
(* The theorems.                                                           *)
(***************************************************************************)
(* A stuttering step keeps the invariant.                                  *)
LEMMA StutterInv == IInv /\ UNCHANGED cap_vars => IInv'
<1> SUFFICES ASSUME IInv, UNCHANGED cap_vars PROVE IInv'
  OBVIOUS
<1> USE DEF cap_vars
<1>1. TypeOK' /\ NoStateFault'
  BY DEF IInv, TypeOK, NoStateFault
<1>2. ASSUME NEW t \in Threads PROVE Inside(t)' <=> Inside(t)
  BY DEF Inside
<1>3. InsideKnown' /\ OutsideUnchecked' /\ AboutToAllocate' /\ StateProvided'
  BY <1>2 DEF IInv, InsideKnown, OutsideUnchecked, AboutToAllocate, StateProvided
<1>4. PairwiseCompatible'
  BY <1>2 DEF IInv, PairwiseCompatible, Compatible, MayOverlap, StateReady
<1>5. Initializing' /\ HoldsSinceCheck'
  BY <1>2 DEF IInv, Initializing, HoldsSinceCheck, StateReady
<1> QED
  BY <1>1, <1>3, <1>4, <1>5 DEF IInv

(* The invariant is inductive, one lemma per action of the cap.            *)
LEMMA NextInv == IInv /\ Next => IInv'
<1> SUFFICES ASSUME IInv, NEW t \in Threads,
                    \/ \E c \in Calls : Dispatch(t, c) /\ Contract(t, c)
                    \/ \E c \in Calls : Miss(t, c)
                    \/ Inner(t)
                    \/ Return(t)
             PROVE  IInv'
  BY DEF Next
<1>1. CASE \E c \in Calls : Dispatch(t, c) /\ Contract(t, c)
  BY <1>1, DispatchInv
<1>2. CASE \E c \in Calls : Miss(t, c)
  BY <1>2, MissInv
<1>3. CASE Inner(t)
  <2>1. CASE TestAllocated(t)
    BY <2>1, TestAllocatedInv
  <2>2. CASE Allocate(t)
    BY <2>2, AllocateInv
  <2>3. CASE InitState(t)
    BY <2>3, InitStateInv
  <2>4. CASE Check(t)
    BY <2>4, CheckInv
  <2>5. CASE Scheme(t)
    BY <2>5, SchemeInv
  <2>6. CASE SchemeFails(t)
    BY <2>6, SchemeFailsInv
  <2>7. CASE SkipScheme(t)
    BY <2>7, SkipSchemeInv
  <2>8. CASE CallsDone(t)
    BY <2>8, CallsDoneInv
  <2> QED
    BY <1>3, <2>1, <2>2, <2>3, <2>4, <2>5, <2>6, <2>7, <2>8 DEF Inner
<1>4. CASE Return(t)
  BY <1>4, ReturnInv
<1> QED
  BY <1>1, <1>2, <1>3, <1>4

(* The inductive invariant holds in every behaviour of the suite cap under *)
(* the contract of overlapping calls (_assemble_func's body order).        *)
THEOREM Invariance == Spec => []IInv
<1>1. Init => IInv
  BY InitInv
<1>2. IInv /\ [Next]_cap_vars => IInv'
  BY NextInv, StutterInv
<1> QED
  BY <1>1, <1>2, PTL DEF Spec

(* Every variable of the suite cap keeps its type: in particular only      *)
(* arrays are ever allocated, and the state is one of the CCPP states.     *)
THEOREM TypeCorrectness == Spec => []TypeOK
<1>1. IInv => TypeOK
  BY DEF IInv
<1> QED
  BY <1>1, Invariance, PTL

(* The test-then-allocate of the generated preamble                        *)
(* (_build_suite_state_lazy_alloc) never allocates twice and never leaves  *)
(* the state array out, however many threads and instances there are.      *)
THEOREM StateIsThere == Spec => []NoStateFault
<1>1. IInv => NoStateFault
  BY DEF IInv
<1> QED
  BY <1>1, Invariance, PTL

(* The one state check ahead of the scheme calls (generateStateCheckOps)   *)
(* is as good as one ahead of each of them.                                *)
THEOREM CheckIsEnough == Spec => []CheckedStateHolds
<1>1. IInv => CheckedStateHolds
  BY DEF IInv, InsideKnown, HoldsSinceCheck, CheckedStateHolds, Inside
<1> QED
  BY <1>1, Invariance, PTL
=============================================================================

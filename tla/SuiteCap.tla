------------------------------ MODULE SuiteCap ------------------------------
(***************************************************************************)
(* The generated suite cap at run time, behind the entry points of the     *)
(* host cap (ccpp_register, ccpp_init, ccpp_physics_*, ccpp_final).        *)
(*                                                                         *)
(* A call of a thread goes through the body that _assemble_func lays out:  *)
(* errflg is cleared, the lazy allocations are made, the suite state is    *)
(* checked, the scheme calls are made while errflg is zero, and the suite  *)
(* state is set, whatever happened before.  Several threads may be inside  *)
(* the cap at once; everything at module scope is shared between them.     *)
(***************************************************************************)
EXTENDS Naturals, Sequences

CONSTANTS
  Threads,        \* the threads of the host program
  NumInstances,   \* number_of_instances, passed to every call
  MultiInstance,  \* the host declares instance_number and number_of_instances
  Groups,         \* the groups (suite parts) of the suite
  Blocks,         \* blocks of columns, the unit a run call may be chunked by
  Owned,          \* suite-owned variables, declared at module scope
  OwnedScalars,   \* those among them of rank zero: never allocated
  Lazy,           \* Lazy[e]: arrays with a LazyAllocOp ahead of the calls of e
  Schemes         \* Schemes[e]: the scheme calls of e, in order

Instances == 1..NumInstances

ThisSuite == "suite"        \* the suite this cap was generated for
SuitePart == "whole_suite"  \* the part of a flat (suite-level) call
OtherName == "other"        \* any name the host cap does not know
StateArray == "ccpp_suite_state"
NoArray == "none"

(***************************************************************************)
(* The phase functions of a suite cap and what each does to the state.     *)
(***************************************************************************)
FlatPhases == {"suite_register", "suite_initialize", "suite_finalize"}
GroupPhases == {"group_init", "timestep_init", "run", "timestep_final",
                "group_final"}
Phases == FlatPhases \cup GroupPhases

States == {"uninitialized", "initialized", "in_time_step"}
NoState == "none"

(* Faulty variant: the timestep phases check the state they set.           *)
CheckedTimestepState ==
  [p \in Phases |->
    CASE p = "suite_initialize" -> "uninitialized"
      [] p \in {"suite_finalize", "group_init", "group_final",
                "timestep_init"} -> "initialized"
      [] p \in {"run", "timestep_final"} -> "in_time_step"
      [] OTHER -> NoState]

CheckState ==
  [p \in Phases |->
    CASE p = "suite_initialize" -> "uninitialized"
      [] p \in {"suite_finalize", "group_init", "group_final"} -> "initialized"
      [] p = "run" -> "in_time_step"
      [] OTHER -> NoState]

(* Faulty variant: finalize leaves the state as it is.                     *)
SetStateNoReset ==
  [p \in Phases |->
    CASE p \in {"suite_initialize", "timestep_final"} -> "initialized"
      [] p = "timestep_init" -> "in_time_step"
      [] OTHER -> NoState]

SetState ==
  [p \in Phases |->
    CASE p \in {"suite_initialize", "timestep_final"} -> "initialized"
      [] p = "suite_finalize" -> "uninitialized"
      [] p = "timestep_init" -> "in_time_step"
      [] OTHER -> NoState]

UsesState(p) == CheckState[p] # NoState \/ SetState[p] # NoState

Entries == (FlatPhases \X {SuitePart}) \cup (GroupPhases \X Groups)

(* One scheme call: the suite-owned variables it reads and writes, and the *)
(* arrays whose allocation was deferred until it has produced their size.  *)
SchemeCall == [reads : SUBSET Owned, writes : SUBSET Owned,
               allocs : SUBSET (Owned \ OwnedScalars)]

ASSUME ConstantsAssumption ==
  /\ NumInstances \in Nat \ {0}
  /\ MultiInstance \in BOOLEAN
  /\ StateArray \notin Owned /\ NoArray \notin Owned
  /\ OwnedScalars \subseteq Owned
  /\ {SuitePart, OtherName} \cap Groups = {}
  /\ Lazy \in [Entries -> SUBSET (Owned \ OwnedScalars)]
  /\ Schemes \in [Entries -> Seq(SchemeCall)]

(* A call of the host: the names it dispatches on, the instance, and the   *)
(* blocks of columns lb:ub.                                                *)
Calls == [suite : {ThisSuite, OtherName}, fn : Phases,
          part : Groups \cup {SuitePart, OtherName}, inst : Instances,
          blks : SUBSET Blocks]

Entry(c) == <<c.fn, c.part>>
SuiteFound(c) == c.suite = ThisSuite
PartFound(c) == Entry(c) \in Entries

(* The slot of ccpp_suite_state a call uses: its own instance's entry, or  *)
(* the one scalar of a host that does not declare instances.               *)
Slot(c) == IF MultiInstance THEN c.inst ELSE 1
Slots == IF MultiInstance THEN Instances ELSE {1}

(* The guarded allocations at the head of a phase function.                *)
PreambleWithScalars(c) ==       \* faulty variant: scalars allocated as well
  Lazy[Entry(c)] \cup OwnedScalars \cup (IF MultiInstance /\ UsesState(c.fn)
                                         THEN {StateArray} ELSE {})
PreambleWithoutState(c) == Lazy[Entry(c)]   \* faulty variant
Preamble(c) ==
  Lazy[Entry(c)] \cup (IF MultiInstance /\ UsesState(c.fn)
                       THEN {StateArray} ELSE {})

(* Everything a call may allocate, deferred allocations included.          *)
Allocs(c) == Preamble(c) \cup
             UNION {Schemes[Entry(c)][j].allocs : j \in DOMAIN Schemes[Entry(c)]}

(***************************************************************************)
(* State.  The first five variables are at module scope of the suite cap,  *)
(* the others are the frame of the call each thread is in.                 *)
(***************************************************************************)
VARIABLES
  suite_state,  \* ccpp_suite_state: the state in each slot
  allocated,    \* the allocatable variables that are allocated
  data,         \* data[v][b]: whose values suite-owned v holds in block b
  fault,        \* the run-time error that stopped the program, if any
  pc,           \* where in the phase function a thread is
  call,         \* the call it is in
  todo,         \* guarded allocations it has still to go through
  cur,          \* the array it found unallocated and is about to allocate
  k,            \* the next scheme call; 0 until the state has been checked
  errflg,       \* the intent(out) error flag of the call
  cause         \* what raised it

module_vars == <<suite_state, allocated, data, fault>>
frame_vars == <<pc, call, todo, cur, k, errflg, cause>>
cap_vars == <<suite_state, allocated, data, fault,
              pc, call, todo, cur, k, errflg, cause>>

(* A tag says whose values a cell holds: the instance and the blocks of    *)
(* the call that wrote it.                                                 *)
Undefined == [inst |-> 0, blks |-> {}]
Tag(c) == [inst |-> c.inst, blks |-> c.blks]
Tags == [inst : Nat, blks : SUBSET Blocks]

NoCall == [suite |-> OtherName, fn |-> "suite_register", part |-> SuitePart,
           inst |-> 1, blks |-> {}]
Causes == {"none", "no_suite", "no_part", "state", "scheme"}
Faults == {"none", "double_allocate", "unallocated_state", "unallocated_owned"}
PCs == {"idle", "alloc", "allocate", "init", "call", "set", "miss"}

TypeOK ==
  /\ suite_state \in [Slots -> States \cup {"undefined"}]
  /\ allocated \subseteq (Owned \ OwnedScalars) \cup {StateArray}
  /\ data \in [Owned -> [Blocks -> Tags]]
  /\ fault \in Faults
  /\ pc \in [Threads -> PCs]
  /\ call \in [Threads -> Calls]
  /\ todo \in [Threads -> SUBSET ((Owned \ OwnedScalars) \cup {StateArray})]
  /\ cur \in [Threads -> (Owned \ OwnedScalars) \cup {StateArray, NoArray}]
  /\ k \in [Threads -> Nat]
  /\ errflg \in [Threads -> {0, 1}]
  /\ cause \in [Threads -> Causes]

(* A host without instances has one scalar state with a static value;      *)
(* otherwise the state is an unallocated array.                            *)
Init ==
  /\ suite_state = [s \in Slots |->
                      IF MultiInstance THEN "undefined" ELSE "uninitialized"]
  /\ allocated = IF MultiInstance THEN {} ELSE {StateArray}
  /\ data = [v \in Owned |-> [b \in Blocks |-> Undefined]]
  /\ fault = "none"
  /\ pc = [t \in Threads |-> "idle"]
  /\ call = [t \in Threads |-> NoCall]
  /\ todo = [t \in Threads |-> {}]
  /\ cur = [t \in Threads |-> NoArray]
  /\ k = [t \in Threads |-> 0]
  /\ errflg = [t \in Threads |-> 0]
  /\ cause = [t \in Threads |-> "none"]

Running == fault = "none"
Body(t) == Schemes[Entry(call[t])]

(***************************************************************************)
(* The host cap finds the suite and the suite part, or reports that there  *)
(* is none.  errflg is cleared on entry.                                   *)
(***************************************************************************)
Dispatch(t, c) ==
  /\ Running /\ pc[t] = "idle"
  /\ SuiteFound(c) /\ PartFound(c)
  /\ pc' = [pc EXCEPT ![t] = "alloc"]
  /\ call' = [call EXCEPT ![t] = c]
  /\ todo' = [todo EXCEPT ![t] = Preamble(c)]
  /\ errflg' = [errflg EXCEPT ![t] = 0]
  /\ UNCHANGED <<module_vars, cur, k, cause>>

Miss(t, c) ==
  /\ Running /\ pc[t] = "idle"
  /\ ~(SuiteFound(c) /\ PartFound(c))
  /\ pc' = [pc EXCEPT ![t] = "miss"]
  /\ errflg' = [errflg EXCEPT ![t] = 1]
  /\ cause' = [cause EXCEPT ![t] = IF SuiteFound(c) THEN "no_part"
                                                    ELSE "no_suite"]
  /\ UNCHANGED <<module_vars, call, todo, cur, k>>

(***************************************************************************)
(* if (.not. allocated(v)) then; allocate(v(n)); v = init; end if          *)
(* The test, the allocate statement and the initialization are separate    *)
(* steps of the thread.  ccpp_suite_state comes last in the preamble.  No  *)
(* step below depends on errflg: the code is not guarded by it.            *)
(***************************************************************************)
TestAllocated(t) ==
  /\ Running /\ pc[t] \in {"alloc", "call"}
  /\ \E v \in todo[t] :
       /\ v = StateArray => todo[t] = {StateArray}
       /\ IF v \in allocated
          THEN /\ todo' = [todo EXCEPT ![t] = @ \ {v}]
               /\ UNCHANGED <<pc, cur>>
          ELSE /\ pc' = [pc EXCEPT ![t] = "allocate"]
               /\ cur' = [cur EXCEPT ![t] = v]
               /\ UNCHANGED todo
  /\ UNCHANGED <<module_vars, call, k, errflg, cause>>

(* Back to where the allocation was met: the preamble or a scheme call.    *)
Resume(t) == IF k[t] = 0 THEN "alloc" ELSE "call"

(* Allocating an allocated array is a run-time error.                      *)
Allocate(t) ==
  /\ Running /\ pc[t] = "allocate"
  /\ fault' = IF cur[t] \in allocated THEN "double_allocate" ELSE fault
  /\ allocated' = allocated \cup {cur[t]}
  /\ IF cur[t] = StateArray
     THEN /\ pc' = [pc EXCEPT ![t] = "init"]
          /\ suite_state' = [s \in Slots |-> "undefined"]
          /\ UNCHANGED <<data, todo, cur>>
     ELSE /\ pc' = [pc EXCEPT ![t] = Resume(t)]
          /\ data' = [data EXCEPT ![cur[t]] = [b \in Blocks |-> Undefined]]
          /\ todo' = [todo EXCEPT ![t] = @ \ {cur[t]}]
          /\ cur' = [cur EXCEPT ![t] = NoArray]
          /\ UNCHANGED suite_state
  /\ UNCHANGED <<call, k, errflg, cause>>

InitState(t) ==
  /\ Running /\ pc[t] = "init"
  /\ suite_state' = [s \in Slots |-> "uninitialized"]
  /\ pc' = [pc EXCEPT ![t] = Resume(t)]
  /\ todo' = [todo EXCEPT ![t] = @ \ {cur[t]}]
  /\ cur' = [cur EXCEPT ![t] = NoArray]
  /\ UNCHANGED <<allocated, data, fault, call, k, errflg, cause>>

(***************************************************************************)
(* The state check raises errflg and goes on; the calls after it are       *)
(* guarded by errflg, the state assignment is not.                         *)
(***************************************************************************)
StateMissing(t) == UsesState(call[t].fn) /\ StateArray \notin allocated

(* Faulty variant: the check looks at the first instance's entry.          *)
MismatchOfFirst(t) == /\ CheckState[call[t].fn] # NoState
                      /\ suite_state[1] # CheckState[call[t].fn]

Mismatch(t) == /\ CheckState[call[t].fn] # NoState
               /\ suite_state[Slot(call[t])] # CheckState[call[t].fn]

Check(t) ==
  /\ Running /\ pc[t] = "alloc" /\ todo[t] = {}
  /\ fault' = IF StateMissing(t) THEN "unallocated_state" ELSE fault
  /\ pc' = [pc EXCEPT ![t] = "call"]
  /\ k' = [k EXCEPT ![t] = 1]
  /\ errflg' = [errflg EXCEPT ![t] = IF Mismatch(t) THEN 1 ELSE @]
  /\ cause' = [cause EXCEPT ![t] = IF Mismatch(t) THEN "state" ELSE @]
  /\ UNCHANGED <<suite_state, allocated, data, call, todo, cur>>

AtScheme(t) == pc[t] = "call" /\ todo[t] = {} /\ k[t] \in DOMAIN Body(t)
Touched(t) == Body(t)[k[t]].reads \cup Body(t)[k[t]].writes

(* Faulty variant: the deferred allocations are lost.                      *)
AdvanceOnly(t) ==
  /\ k' = [k EXCEPT ![t] = @ + 1]
  /\ UNCHANGED <<suite_state, allocated, pc, call, todo, cur>>

(* The next scheme call, and then the allocations deferred to it.          *)
Advance(t) ==
  /\ todo' = [todo EXCEPT ![t] = Body(t)[k[t]].allocs]
  /\ k' = [k EXCEPT ![t] = @ + 1]
  /\ UNCHANGED <<suite_state, allocated, pc, call, cur>>

(* Faulty variant: the horizontal dimension is not sliced.                 *)
WrittenWhole(v, c) == Blocks

(* A scheme writes the blocks it is called for, and the whole of a scalar. *)
Written(v, c) == IF v \in OwnedScalars THEN Blocks ELSE c.blks

Scheme(t) ==
  /\ Running /\ AtScheme(t) /\ errflg[t] = 0
  /\ fault' = IF Touched(t) \subseteq allocated \cup OwnedScalars
              THEN fault ELSE "unallocated_owned"
  /\ data' = [v \in Owned |-> [b \in Blocks |->
                IF /\ v \in Body(t)[k[t]].writes
                   /\ b \in Written(v, call[t])
                THEN Tag(call[t]) ELSE data[v][b]]]
  /\ Advance(t)
  /\ UNCHANGED <<errflg, cause>>

SchemeFails(t) ==
  /\ Running /\ AtScheme(t) /\ errflg[t] = 0
  /\ errflg' = [errflg EXCEPT ![t] = 1]
  /\ cause' = [cause EXCEPT ![t] = "scheme"]
  /\ Advance(t)
  /\ UNCHANGED <<data, fault>>

SkipScheme(t) ==
  /\ Running /\ AtScheme(t) /\ errflg[t] # 0
  /\ Advance(t)
  /\ UNCHANGED <<data, fault, errflg, cause>>

CallsDone(t) ==
  /\ Running /\ pc[t] = "call" /\ todo[t] = {} /\ k[t] \notin DOMAIN Body(t)
  /\ pc' = [pc EXCEPT ![t] = "set"]
  /\ UNCHANGED <<module_vars, call, todo, cur, k, errflg, cause>>

(* The state is assigned whatever errflg is, and the function returns: the *)
(* frame is gone.                                                          *)
AssignedState(t) == IF pc[t] = "set" THEN SetState[call[t].fn] ELSE NoState

Return(t) ==
  /\ Running /\ pc[t] \in {"set", "miss"}
  /\ suite_state' =
       IF AssignedState(t) = NoState THEN suite_state
       ELSE [suite_state EXCEPT ![Slot(call[t])] = AssignedState(t)]
  /\ pc' = [pc EXCEPT ![t] = "idle"]
  /\ call' = [call EXCEPT ![t] = NoCall]
  /\ k' = [k EXCEPT ![t] = 0]
  /\ errflg' = [errflg EXCEPT ![t] = 0]
  /\ cause' = [cause EXCEPT ![t] = "none"]
  /\ UNCHANGED <<allocated, data, fault, todo, cur>>

(* Everything a thread does between entering the cap and returning.        *)
Inner(t) == \/ TestAllocated(t) \/ Allocate(t) \/ InitState(t) \/ Check(t)
            \/ Scheme(t) \/ SchemeFails(t) \/ SkipScheme(t) \/ CallsDone(t)

(***************************************************************************)
(* What the cap needs of a host that overlaps calls.  A call may start     *)
(* while others are inside only if everything it may allocate is already   *)
(* there, and only if neither it nor they set the state of its slot.  The  *)
(* code does not enforce this; a host with one thread meets it trivially.  *)
(***************************************************************************)
Inside(t) == pc[t] \notin {"idle", "miss"}
Sets(c) == SetState[c.fn] # NoState

StateReady == /\ StateArray \in allocated
              /\ \A s \in Slots : suite_state[s] # "undefined"
Warm(c) == /\ Allocs(c) \subseteq allocated
           /\ UsesState(c.fn) => StateReady

MayOverlap(c, d) == Slot(c) = Slot(d) => ~Sets(c) /\ ~Sets(d)

Contract(t, c) ==
  \A u \in Threads \ {t} : Inside(u) => Warm(c) /\ MayOverlap(c, call[u])

Next ==
  \E t \in Threads :
    \/ \E c \in Calls : Dispatch(t, c) /\ Contract(t, c)
    \/ \E c \in Calls : Miss(t, c)
    \/ Inner(t)
    \/ Return(t)

Spec == Init /\ [][Next]_cap_vars

(***************************************************************************)
(* Properties.                                                             *)
(***************************************************************************)

(* No thread allocates an array another one has allocated since it looked, *)
(* and none uses the state array before it exists: the guarded allocations *)
(* of _build_suite_state_lazy_alloc are enough under the contract.         *)
NoStateFault == fault \notin {"double_allocate", "unallocated_state"}

(* The state a phase function has checked still holds at each of its       *)
(* scheme calls: nobody moves the instance on between the check and the    *)
(* use (generateStateCheckOps reads the state once, ahead of all calls).   *)
CheckedStateHolds ==
  \A t \in Threads :
    /\ pc[t] = "call" /\ errflg[t] = 0
    /\ CheckState[call[t].fn] # NoState
    => suite_state[Slot(call[t])] = CheckState[call[t].fn]

(* A scheme call finds the suite-owned arrays it touches allocated, and    *)
(* what it reads of them was written for the same instance and for the     *)
(* same columns.  The variables are at module scope (_build_module_vars)   *)
(* and only their horizontal dimension is sliced.                          *)
OwnValue(t, v) ==
  \A b \in call[t].blks : /\ data[v][b].inst = call[t].inst
                          /\ b \in data[v][b].blks

ReadsOwnValues ==
  /\ fault # "unallocated_owned"
  /\ \A t \in Threads :
       Running /\ AtScheme(t) /\ errflg[t] = 0
       => \A v \in Body(t)[k[t]].reads : OwnValue(t, v)

(***************************************************************************)
(* The inductive invariant behind TypeOK, NoStateFault and                 *)
(* CheckedStateHolds (see SuiteCapProofs), part by part.                   *)
(***************************************************************************)

(* A thread inside the cap was dispatched to a function that exists, and   *)
(* all it has still to allocate belongs to that function.                  *)
InsideKnown ==
  \A t \in Threads : Inside(t) =>
    /\ SuiteFound(call[t]) /\ PartFound(call[t])
    /\ todo[t] \subseteq Allocs(call[t])
    /\ pc[t] = "call" => k[t] # 0

(* A thread outside the cap has checked nothing.                           *)
OutsideUnchecked == \A t \in Threads : ~Inside(t) => k[t] = 0

(* What a thread is about to allocate is still unallocated.                *)
AboutToAllocate ==
  \A t \in Threads : pc[t] = "allocate" => cur[t] \in todo[t] \ allocated

(* Two threads inside: at most one of them may still allocate, they do not *)
(* get at a slot one of them sets, and if both use the state it is ready.  *)
Compatible(t, u) ==
  /\ Allocs(call[t]) \subseteq allocated \/ Allocs(call[u]) \subseteq allocated
  /\ MayOverlap(call[t], call[u])
  /\ UsesState(call[t].fn) /\ UsesState(call[u].fn) => StateReady

PairwiseCompatible ==
  \A t, u \in Threads : t # u /\ Inside(t) /\ Inside(u) => Compatible(t, u)

(* A call that uses the state array finds it allocated or will allocate    *)
(* it, the latter only before its state check.                             *)
StateProvided ==
  /\ ~MultiInstance => StateArray \in allocated
  /\ \A t \in Threads : Inside(t) /\ UsesState(call[t].fn) =>
       \/ StateArray \in allocated
       \/ StateArray \in todo[t] /\ k[t] = 0

(* Between the allocation of the state array and its initialization.       *)
Initializing ==
  \A t \in Threads : pc[t] = "init" =>
    /\ cur[t] = StateArray /\ k[t] = 0
    /\ StateArray \in allocated /\ ~StateReady
    /\ UsesState(call[t].fn)

(* From the check on, deferred allocations included, the checked state     *)
(* holds while errflg is zero.                                             *)
HoldsSinceCheck ==
  \A t \in Threads :
    Inside(t) /\ k[t] # 0 /\ errflg[t] = 0 /\ CheckState[call[t].fn] # NoState
    => suite_state[Slot(call[t])] = CheckState[call[t].fn]

IInv == /\ TypeOK /\ NoStateFault
        /\ InsideKnown /\ OutsideUnchecked /\ AboutToAllocate
        /\ PairwiseCompatible /\ StateProvided
        /\ Initializing /\ HoldsSinceCheck
=============================================================================

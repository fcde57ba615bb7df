-------------------------- MODULE HostDriverProofs --------------------------
(***************************************************************************)
(* What the drivers may count on: a driver that keeps to the contract has  *)
(* the suite cap's invariant; a driver that makes its calls one after      *)
(* another keeps to it, whatever its plan, its arrays and its instances;   *)
(* and a driver with orderly plans keeps to it with any number of threads, *)
(* is never rejected, and gives every instance the life of Lifecycle.  And *)
(* schemes read values of their own, whatever the threads do: in a host    *)
(* with one instance and orderly plans that write before they read, no     *)
(* scheme call finds a suite-owned array unallocated, and each reads what  *)
(* was written for its own columns.                                        *)
(***************************************************************************)
EXTENDS HostDriver, SuiteCapProofs

ContractKept ==
  \A t \in Threads : pc[t] = "idle" /\ pc'[t] = "alloc" => Contract(t, call'[t])

(* The next call of a task, and what is left of it, are calls.              *)
LEMMA TaskSteps ==
  ASSUME NEW s \in Seq(Calls), s # <<>>
  PROVE  Head(s) \in Calls /\ Tail(s) \in Seq(Calls)
OBVIOUS

(* A stage of a plan is a set of tasks.                                     *)
LEMMA StageType ==
  ASSUME NEW p \in Plans
  PROVE  /\ 1 \in DOMAIN p /\ DOMAIN p = 1..Len(p) /\ Len(p) \in Nat
         /\ \A s \in DOMAIN p : p[s] \subseteq Seq(Calls)
<1>1. p \in Seq(SUBSET Seq(Calls)) /\ p # <<>>
  BY PlansAssumption
<1> QED
  BY <1>1

(* The types of what the driver keeps.                                      *)
LEMMA HostTypedInit == HostInit => HostTyped
BY StageType, NoCallType DEF HostInit, Init, HostTyped, PCs, Calling

(* No thread is anywhere, or in any call, but where the cap's code can be.                   *)
LEMMA PlaceType ==
  ASSUME pc \in [Threads -> PCs], call \in [Threads -> Calls], NEW t \in Threads,
         \/ \E c \in Calls : Dispatch(t, c) \/ Miss(t, c)
         \/ Inner(t) \/ Return(t)
  PROVE  /\ pc' \in [Threads -> PCs] /\ call' \in [Threads -> Calls]
         /\ \A u \in Threads : u # t => pc'[u] = pc[u]
         /\ Inner(t) => pc[t] # "idle"
         /\ Return(t) => pc'[t] = "idle"
<1>1. \E q \in PCs : pc' = [pc EXCEPT ![t] = q]
  <2>1. CASE \E c \in Calls : Dispatch(t, c) \/ Miss(t, c)
    BY <2>1 DEF Dispatch, Miss, PCs
  <2>2. CASE TestAllocated(t) \/ Scheme(t) \/ SchemeFails(t) \/ SkipScheme(t)
    <3>1. pc' = pc \/ pc' = [pc EXCEPT ![t] = "allocate"]
      BY <2>2 DEF TestAllocated, Scheme, SchemeFails, SkipScheme, Advance
    <3>2. pc = [pc EXCEPT ![t] = pc[t]] /\ pc[t] \in PCs
      OBVIOUS
    <3> QED
      BY <3>1, <3>2 DEF PCs
  <2>3. CASE Allocate(t) \/ InitState(t)
    BY <2>3 DEF Allocate, InitState, Resume, PCs
  <2>4. CASE Check(t) \/ CallsDone(t) \/ Return(t)
    BY <2>4 DEF Check, CallsDone, Return, PCs
  <2> QED
    BY <2>1, <2>2, <2>3, <2>4 DEF Inner
<1>2. Inner(t) => pc[t] # "idle"
  BY DEF Inner, TestAllocated, Allocate, InitState, Check, Scheme, SchemeFails,
     SkipScheme, CallsDone, AtScheme
<1>3. Return(t) => pc'[t] = "idle"
  BY DEF Return
<1>4. call' \in [Threads -> Calls]
  BY NoCallType DEF Dispatch, Miss, Inner, TestAllocated, Allocate, InitState, Check, Scheme,
     SchemeFails, SkipScheme, CallsDone, Return, Advance, module_vars
<1> QED
  BY <1>1, <1>2, <1>3, <1>4

(* A step of the driver keeps them.                                        *)
LEMMA HostTypedNext ==
  ASSUME HostTyped, [HostNext]_vars
  PROVE  HostTyped'
<1>1. ASSUME NEW t \in Threads, TakeTask(t) PROVE HostTyped'
  BY <1>1 DEF HostTyped, TakeTask, cap_vars, Calling
<1>2. ASSUME NEW t \in Threads, MakeCall(t) PROVE HostTyped'
  <2>1. Head(rest[t]) \in Calls
    BY <1>2, TaskSteps DEF MakeCall, HostTyped
  <2>2. /\ pc' \in [Threads -> PCs] /\ call' \in [Threads -> Calls]
        /\ \A u \in Threads : u # t => pc'[u] = pc[u]
    BY <1>2, <2>1, PlaceType DEF MakeCall, HostTyped
  <2> QED
    BY <1>2, <2>2 DEF MakeCall, HostTyped, host_vars, Calling
<1>3. ASSUME NEW t \in Threads, Proceed(t) PROVE HostTyped'
  <2>1. /\ pc' \in [Threads -> PCs] /\ call' \in [Threads -> Calls] /\ pc[t] # "idle"
        /\ \A u \in Threads : u # t => pc'[u] = pc[u]
    BY <1>3, PlaceType DEF Proceed, HostTyped
  <2> QED
    BY <1>3, <2>1 DEF Proceed, HostTyped, host_vars, Calling
<1>4. ASSUME NEW t \in Threads, CallReturns(t) PROVE HostTyped'
  <2>1. pc[t] # "idle"
    BY <1>4 DEF CallReturns, Return
  <2>2. Tail(rest[t]) \in Seq(Calls)
    BY <2>1, TaskSteps DEF HostTyped, Calling
  <2>3. /\ pc' \in [Threads -> PCs] /\ call' \in [Threads -> Calls] /\ pc'[t] = "idle"
        /\ \A u \in Threads : u # t => pc'[u] = pc[u]
    BY <1>4, PlaceType DEF CallReturns, HostTyped
  <2>4. ran' \in [Instances -> SUBSET ((Groups \cup {SuitePart, OtherName}) \X Blocks)]
    <3>1. /\ call[t].inst \in Instances /\ call[t].blks \subseteq Blocks
          /\ call[t].part \in Groups \cup {SuitePart, OtherName}
      BY DEF HostTyped, Calls
    <3>2. ran' = Ran(t)
      BY <1>4 DEF CallReturns
    <3> QED
      BY <3>1, <3>2 DEF Ran, HostTyped
  <2> QED
    BY <1>4, <2>2, <2>3, <2>4 DEF CallReturns, HostTyped, Calling
<1>5. ASSUME NextStage PROVE HostTyped'
  <2>1. stage + 1 \in DOMAIN plan /\ plan[stage + 1] \subseteq Seq(Calls)
    BY <1>5, StageType DEF NextStage, HostTyped
  <2> QED
    BY <1>5, <2>1 DEF NextStage, HostTyped, Calling, cap_vars
<1>6. ASSUME UNCHANGED vars PROVE HostTyped'
  BY <1>6 DEF HostTyped, Calling, vars, cap_vars, host_vars
<1> QED
  BY <1>1, <1>2, <1>3, <1>4, <1>5, <1>6 DEF HostNext, ThreadStep, Ended

(***************************************************************************)
(* A driver under the contract.                                            *)
(***************************************************************************)
(* A step of such a driver is a step of a host of the suite cap.           *)
LEMMA DriverStep ==
  ASSUME HostTyped, [HostNext]_vars, [ContractKept]_vars
  PROVE  [Next]_cap_vars
<1>1. ASSUME NEW t \in Threads, MakeCall(t) PROVE [Next]_cap_vars
  <2> DEFINE c == Head(rest[t])
  <2>1. c \in Calls
    BY <1>1, TaskSteps DEF MakeCall, HostTyped
  <2>2. CASE Miss(t, c)
    BY <2>1, <2>2 DEF Next
  <2>3. CASE Dispatch(t, c)
    <3> HIDE DEF c
    <3>1. pc[t] = "idle" /\ pc' = [pc EXCEPT ![t] = "alloc"]
          /\ call' = [call EXCEPT ![t] = c]
      BY <2>3 DEF Dispatch
    <3>2. pc'[t] = "alloc" /\ ~UNCHANGED vars
      BY <3>1 DEF HostTyped, vars, cap_vars
    <3>3. Contract(t, call'[t])
      BY <3>1, <3>2 DEF ContractKept
    <3>4. call'[t] = c
      BY <3>1 DEF HostTyped
    <3> QED
      BY <2>1, <2>3, <3>3, <3>4 DEF Next
  <2> QED
    BY <1>1, <2>2, <2>3 DEF MakeCall
<1>2. ASSUME NEW t \in Threads, Proceed(t) \/ CallReturns(t) PROVE [Next]_cap_vars
  BY <1>2 DEF Proceed, CallReturns, Next
<1>3. ASSUME NEW t \in Threads, TakeTask(t) PROVE UNCHANGED cap_vars
  BY <1>3 DEF TakeTask
<1>4. ASSUME NextStage \/ UNCHANGED vars PROVE UNCHANGED cap_vars
  BY <1>4 DEF NextStage, vars
<1> QED
  BY <1>1, <1>2, <1>3, <1>4 DEF HostNext, ThreadStep, Ended

(* The types hold in every behaviour of the driver.                        *)
LEMMA TypedAlways == HostInit /\ [][HostNext]_vars => []HostTyped
<1>1. HostInit => HostTyped
  BY HostTypedInit
<1>2. HostTyped /\ [HostNext]_vars => HostTyped'
  BY HostTypedNext
<1> QED
  BY <1>1, <1>2, PTL

(* A driver whose overlapping calls keep to the contract is a host of       *)
(* SuiteCap: every theorem of Spec holds of it, for any plans.              *)
THEOREM ContractSuffices == HostSpec /\ ObeysContract => Spec
<1>1. HostInit => Init
  BY DEF HostInit
<1>2. HostTyped /\ [HostNext]_vars /\ [ContractKept]_vars => [Next]_cap_vars
  BY DriverStep
<1>3. ObeysContract <=> [][ContractKept]_vars
  BY PTL DEF ObeysContract, ContractKept
<1> QED
  BY <1>1, <1>2, <1>3, TypedAlways, PTL DEF HostSpec, Spec

(* Such a driver meets no allocation fault, and its checked states hold.    *)
THEOREM DriverInvariance == HostSpec /\ ObeysContract => []IInv
BY ContractSuffices, Invariance, PTL

(***************************************************************************)
(* A serial driver.                                                        *)
(***************************************************************************)
OneTaskStages ==
  \A p \in Plans : \A s \in DOMAIN p : \A a, b \in p[s] : a = b

(* One task at a time stays one task at a time.                             *)
LEMMA SerialNext ==
  ASSUME OneTaskStages, HostTyped, OneAtATime, [HostNext]_vars
  PROVE  OneAtATime'
<1> USE DEF OneAtATime, Calling
<1>1. ASSUME NEW t \in Threads, TakeTask(t) PROVE OneAtATime'
  BY <1>1 DEF TakeTask, HostTyped
<1>2. ASSUME NEW t \in Threads, MakeCall(t) \/ Proceed(t) PROVE OneAtATime'
  BY <1>2 DEF MakeCall, Proceed, host_vars
<1>3. ASSUME NEW t \in Threads, CallReturns(t) PROVE OneAtATime'
  <2>1. Calling(t)
    BY <1>3 DEF CallReturns, Return, HostTyped
  <2>2. \A u \in Threads : Calling(u)' => Calling(u)
    BY <1>3, <2>1 DEF CallReturns, HostTyped
  <2> QED
    BY <1>3, <2>2 DEF CallReturns
<1>4. ASSUME NextStage PROVE OneAtATime'
  <2>1. stage + 1 \in DOMAIN plan
    BY <1>4, StageType DEF NextStage, HostTyped
  <2> QED
    BY <1>4, <2>1 DEF NextStage, StageDone, OneTaskStages, HostTyped
<1>5. ASSUME UNCHANGED vars PROVE OneAtATime'
  BY <1>5 DEF vars, host_vars
<1> QED
  BY <1>1, <1>2, <1>3, <1>4, <1>5 DEF HostNext, ThreadStep, Ended

(* Nobody else is inside when a serial driver calls.                        *)
LEMMA SerialKeeps ==
  ASSUME HostTyped, OneAtATime, [HostNext]_vars
  PROVE  ContractKept
<1> SUFFICES ASSUME NEW t \in Threads, pc[t] = "idle", pc'[t] = "alloc",
                    NEW u \in Threads, u # t, Inside(u)
             PROVE  FALSE
  BY DEF ContractKept, Contract
<1>1. Calling(u)
  BY DEF Inside, HostTyped
<1>2. ~Calling(t)
  BY <1>1 DEF OneAtATime
<1>3. ASSUME NEW v \in Threads, MakeCall(v) PROVE FALSE
  <2>1. Head(rest[v]) \in Calls /\ Calling(v)
    BY <1>3, TaskSteps DEF MakeCall, HostTyped, Calling
  <2>2. pc'[t] = pc[t]
    BY <1>2, <1>3, <2>1, PlaceType DEF MakeCall, HostTyped
  <2> QED
    BY <2>2
<1>4. ASSUME NEW v \in Threads, Proceed(v) \/ CallReturns(v) PROVE FALSE
  <2>1. /\ Inner(v) \/ Return(v)
        /\ pc[v] # "idle"
    BY <1>4, PlaceType DEF Proceed, CallReturns, HostTyped, Return
  <2>2. pc'[t] = pc[t]
    BY <2>1, PlaceType DEF HostTyped
  <2> QED
    BY <2>2
<1>5. ASSUME NEW v \in Threads, TakeTask(v) PROVE FALSE
  BY <1>5 DEF TakeTask, cap_vars
<1>6. ASSUME NextStage \/ UNCHANGED vars PROVE FALSE
  BY <1>6 DEF NextStage, vars, cap_vars
<1> QED
  BY <1>3, <1>4, <1>5, <1>6 DEF HostNext, ThreadStep, Ended

(* A driver whose stages are serial loops, like the examples' without       *)
(* threads, keeps to the contract, whatever it calls and in what order.     *)
THEOREM SerialObeys == OneTaskStages => (HostSpec => ObeysContract)
<1> SUFFICES ASSUME OneTaskStages PROVE HostSpec => ObeysContract
  OBVIOUS
<1>1. HostInit => OneAtATime
  <2> SUFFICES ASSUME HostInit PROVE OneAtATime
    OBVIOUS
  <2>1. 1 \in DOMAIN plan /\ pending = plan[1] /\ plan \in Plans
        /\ \A t \in Threads : rest[t] = <<>>
    BY StageType DEF HostInit
  <2> QED
    BY <2>1 DEF OneAtATime, Calling, OneTaskStages
<1>2. HostTyped /\ OneAtATime /\ [HostNext]_vars => OneAtATime'
  BY SerialNext
<1>3. HostTyped /\ OneAtATime /\ [HostNext]_vars => ContractKept
  BY SerialKeeps
<1>4. ObeysContract <=> [][ContractKept]_vars
  BY PTL DEF ObeysContract, ContractKept
<1> QED
  BY <1>1, <1>2, <1>3, <1>4, TypedAlways, PTL DEF HostSpec

(* So the state a serial driver's calls have checked holds until their last *)
(* scheme call.                                                            *)
THEOREM SerialInvariance == OneTaskStages => (HostSpec => []CheckedStateHolds)
BY SerialObeys, ContractSuffices, CheckIsEnough, PTL

(***************************************************************************)
(* A driver with orderly plans.                                            *)
(***************************************************************************)
(* The place of a call in what is left of a task, and in what is left      *)
(* after its first call.                                                   *)
LEMMA TailPlaces ==
  ASSUME NEW q \in Seq(Calls), q # <<>>
  PROVE  /\ Len(q) \in Nat /\ DOMAIN q = 1..Len(q) /\ 1 \in DOMAIN q /\ Head(q) = q[1]
         /\ Tail(q) \in Seq(Calls) /\ Len(q) = Len(Tail(q)) + 1
         /\ Len(Tail(q)) \in Nat /\ DOMAIN Tail(q) = 1..Len(Tail(q))
         /\ \A m \in DOMAIN Tail(q) : m + 1 \in DOMAIN q /\ Tail(q)[m] = q[m + 1]
         /\ \A m \in DOMAIN q : m = 1 \/ (m - 1 \in DOMAIN Tail(q) /\ q[m] = Tail(q)[m - 1])
OBVIOUS

(* The calls of a task are its first and those left after it.               *)
LEMMA TailCalls ==
  ASSUME NEW q \in Seq(Calls), q # <<>>
  PROVE  /\ ToSet(Tail(q)) \subseteq ToSet(q) /\ Head(q) \in ToSet(q)
         /\ \A c \in ToSet(q) : c = Head(q) \/ c \in ToSet(Tail(q))
<1> DEFINE r == Tail(q)
           h == Head(q)
<1>1. /\ 1 \in DOMAIN q /\ h = q[1]
      /\ \A m \in DOMAIN r : m + 1 \in DOMAIN q /\ r[m] = q[m + 1]
      /\ \A m \in DOMAIN q : m = 1 \/ (m - 1 \in DOMAIN r /\ q[m] = r[m - 1])
  BY TailPlaces
<1> HIDE DEF r, h
<1>2. ToSet(r) \subseteq ToSet(q) /\ h \in ToSet(q)
  BY <1>1 DEF ToSet
<1>3. \A c \in ToSet(q) : c = h \/ c \in ToSet(r)
  BY <1>1 DEF ToSet
<1> QED
  BY <1>2, <1>3 DEF r, h

(* What the calls ahead of the j-th did to a key, seen after the first.     *)
LEMMA TailLeaves ==
  ASSUME NEW q \in Seq(Calls), q # <<>>, NEW j \in Nat, j >= 1, NEW x, NEW v
  PROVE  /\ Untouched(q, j + 1, x) <=> x \notin Changed(Head(q)) /\ Untouched(Tail(q), j, x)
         /\ LeftAt(q, j + 1, x, v) =>
              \/ LeftAt(Tail(q), j, x, v)
              \/ <<x, v>> \in Leaves(Head(q)) /\ Untouched(Tail(q), j, x)
<1> DEFINE r == Tail(q)
<1>0. /\ 1 \in DOMAIN q /\ Head(q) = q[1]
      /\ DOMAIN q = 1..Len(q) /\ Len(q) \in Nat
      /\ DOMAIN r = 1..Len(r) /\ Len(r) \in Nat
      /\ \A m \in DOMAIN r : m + 1 \in DOMAIN q /\ r[m] = q[m + 1]
      /\ \A m \in DOMAIN q : m = 1 \/ (m - 1 \in DOMAIN r /\ q[m] = r[m - 1])
  BY TailPlaces
<1> HIDE DEF r
<1>1. Untouched(q, j + 1, x) => x \notin Changed(q[1]) /\ Untouched(r, j, x)
  BY <1>0 DEF Untouched
<1>2. x \notin Changed(q[1]) /\ Untouched(r, j, x) => Untouched(q, j + 1, x)
  BY <1>0 DEF Untouched
<1>3. ASSUME LeftAt(q, j + 1, x, v)
      PROVE  LeftAt(r, j, x, v) \/ (<<x, v>> \in Leaves(q[1]) /\ Untouched(r, j, x))
  <2>1. PICK m \in DOMAIN q :
          /\ m < j + 1 /\ <<x, v>> \in Leaves(q[m])
          /\ \A n \in DOMAIN q : m < n /\ n < j + 1 => x \notin Changed(q[n])
    BY <1>3 DEF LeftAt
  <2>2. CASE m = 1
    BY <1>0, <2>1, <2>2 DEF Untouched
  <2>3. CASE m # 1
    <3>1. m - 1 \in DOMAIN r /\ <<x, v>> \in Leaves(r[m - 1]) /\ m - 1 < j
      BY <1>0, <2>1, <2>3
    <3>2. \A n \in DOMAIN r : m - 1 < n /\ n < j => x \notin Changed(r[n])
      BY <1>0, <2>1, <2>3
    <3> QED
      BY <3>1, <3>2 DEF LeftAt
  <2> QED
    BY <2>2, <2>3
<1> QED
  BY <1>0, <1>1, <1>2, <1>3 DEF r

(* The first of the remaining calls finds what it demands.                  *)
LEMMA HeadReady ==
  ASSUME NEW q \in Seq(Calls), q # <<>>, Ready(q, 1)
  PROVE  \E way \in Demands(Head(q)) : \A e \in way : ValueOf(e[1]) = e[2]
<1>1. q[1] = Head(q) /\ DOMAIN q = 1..Len(q) /\ Len(q) \in Nat
  BY TailPlaces
<1>2. \A x, v : ~LeftAt(q, 1, x, v)
  BY <1>1 DEF LeftAt
<1>3. PICK way \in Demands(q[1]) : \A e \in way :
        LeftAt(q, 1, e[1], e[2]) \/ (Untouched(q, 1, e[1]) /\ ValueOf(e[1]) = e[2])
  BY DEF Ready
<1> QED
  BY <1>1, <1>2, <1>3

(* What the calls of a known call concern are keys of the driver.           *)
LEMMA KeyTypes ==
  ASSUME NEW c \in Calls
  PROVE  /\ \A e \in Leaves(c) : e = <<e[1], e[2]>> /\ e[1] \in Keys /\ e[2] \in KeyValues
         /\ \A way \in Demands(c) : \A e \in way :
              e[1] \in Keys /\ e[2] \in KeyValues /\ e[1] \in Involved(c)
         /\ Changed(c) \subseteq Involved(c)
<1>1. /\ Slot(c) \in Slots /\ c.inst \in Instances /\ c.fn \in Phases /\ c.blks \subseteq Blocks
      /\ SetState[c.fn] \in States \cup {NoState} /\ CheckState[c.fn] \in States \cup {NoState}
  BY SlotType, StateTables DEF Calls
<1>2. Known(c) /\ c.fn \in GroupPhases => c.part \in Groups
  BY DEF Known, PartFound, Entries, Entry, FlatPhases, GroupPhases
<1>3. /\ AllPieces(c) \subseteq Keys
      /\ Known(c) /\ c.fn \in GroupPhases => Pieces(c) \subseteq Keys
      /\ LifeKey(c) \in Keys
  <2>1. AllPieces(c) \subseteq Keys
    BY <1>1 DEF AllPieces, Keys
  <2>2. ASSUME c.part \in Groups PROVE Pieces(c) \subseteq Keys
    <3>1. \A b \in c.blks : <<c.part, b>> \in Groups \X Blocks
      BY <1>1, <2>2
    <3>2. \A w \in Groups \X Blocks : <<c.inst, {w}>> \in Keys
      BY <1>1 DEF Keys
    <3> QED
      BY <3>1, <3>2 DEF Pieces
  <2>3. LifeKey(c) \in Keys
    BY <1>1 DEF LifeKey, Keys
  <2> QED
    BY <1>2, <2>1, <2>2, <2>3
<1>4. {"todo", "done"} \cup States \subseteq KeyValues
  BY DEF KeyValues
<1>5. Sets(c) => SetState[c.fn] \in States
  BY <1>1 DEF Sets
<1>6. {"initialized", "in_time_step", "uninitialized"} \subseteq States
  BY DEF States
<1>7. "run" \in GroupPhases
  BY DEF GroupPhases
<1>8. \A e \in Leaves(c) : e = <<e[1], e[2]>> /\ e[1] \in Keys /\ e[2] \in KeyValues
  BY <1>3, <1>4, <1>5, <1>7 DEF Leaves
<1>9. \A way \in Demands(c) : \A e \in way : e[1] \in Keys /\ e[2] \in KeyValues
  <2>1. Known(c) /\ c.fn \notin {"timestep_init", "run", "timestep_final", "suite_register"}
          => CheckState[c.fn] \in States
    BY <1>1 DEF Phases, FlatPhases, GroupPhases, CheckState, States
  <2> QED
    BY <1>3, <1>4, <1>6, <1>7, <2>1 DEF Demands
<1> QED
  BY <1>8, <1>9 DEF Involved

(* The state check of a call that finds what it demands does not reject it. *)
LEMMA DemandsCheck ==
  ASSUME NEW c \in Calls, Known(c), CheckState[c.fn] # NoState,
         NEW way \in Demands(c)
  PROVE  <<LifeKey(c), CheckState[c.fn]>> \in way
<1>1. c.fn \in {"suite_initialize", "suite_finalize", "group_init", "group_final", "run"}
  BY DEF CheckState, Calls, Phases
<1>2. c.fn = "run" => CheckState[c.fn] = "in_time_step"
  BY DEF CheckState, Phases, GroupPhases
<1> QED
  BY <1>1, <1>2 DEF Demands
(***************************************************************************)
(* Inside the cap.                                                         *)
(***************************************************************************)
(* While the state array is being initialized nobody else uses the state.   *)
LEMMA InitAlone ==
  ASSUME IInv, NEW t \in Threads, NEW u \in Threads, t # u, pc[t] = "init",
         Inside(u), UsesState(call[u].fn)
  PROVE  FALSE
<1>1. Inside(t)
  BY DEF Inside
<1>2. Compatible(t, u) /\ ~StateReady /\ UsesState(call[t].fn)
  BY <1>1 DEF IInv, PairwiseCompatible, Initializing
<1> QED
  BY <1>2 DEF Compatible

(* Allocating and initializing the state array is nothing an instance       *)
(* notices: its life goes on where it was.                                 *)
LEMMA InnerKeeps ==
  ASSUME IInv, Undefinedness, NEW t \in Threads, Inner(t)
  PROVE  /\ \A s \in Slots : StateIn(s)' = StateIn(s)
         /\ allocated \subseteq allocated'
         /\ StateReady => StateReady'
         /\ Undefinedness'
<1>0. TypeOK
  BY DEF IInv
<1>1. CASE Allocate(t)
  <2>1. pc[t] = "allocate" /\ cur[t] \notin allocated /\ allocated' = allocated \cup {cur[t]}
    BY <1>1 DEF Allocate, IInv, AboutToAllocate
  <2>2. CASE cur[t] = StateArray
    <3>1. suite_state' = [s \in Slots |-> "undefined"] /\ pc'[t] = "init"
      BY <1>0, <1>1, <2>2 DEF Allocate, TypeOK
    <3>2. \A s \in Slots : suite_state[s] = "undefined"
      BY <2>1, <2>2 DEF Undefinedness
    <3> QED
      BY <2>1, <2>2, <3>1, <3>2 DEF StateIn, StateReady, Undefinedness
  <2>3. CASE cur[t] # StateArray
    <3>1. /\ suite_state' = suite_state
          /\ \A u \in Threads : pc'[u] = "init" <=> pc[u] = "init"
      BY <1>0, <1>1, <2>1, <2>3 DEF Allocate, TypeOK, Resume
    <3> QED
      BY <2>1, <2>3, <3>1 DEF StateIn, StateReady, Undefinedness
  <2> QED
    BY <2>2, <2>3
<1>2. CASE InitState(t)
  <2>1. /\ pc[t] = "init" /\ allocated' = allocated /\ StateArray \in allocated
        /\ suite_state' = [s \in Slots |-> "uninitialized"]
        /\ \A u \in Threads : u # t => pc'[u] = pc[u]
        /\ pc'[t] # "init"
    BY <1>0, <1>2 DEF InitState, TypeOK, Resume, IInv, Initializing
  <2>2. \A s \in Slots : suite_state[s] = "undefined"
    BY <2>1 DEF Undefinedness
  <2>3. \A u \in Threads : pc'[u] # "init"
    <3> SUFFICES ASSUME NEW u \in Threads, u # t, pc[u] = "init" PROVE FALSE
      BY <2>1
    <3>1. Inside(u) /\ UsesState(call[u].fn)
      BY DEF Inside, IInv, Initializing
    <3> QED
      BY <2>1, <3>1, InitAlone
  <2> QED
    BY <2>1, <2>2, <2>3 DEF StateIn, StateReady, Undefinedness
<1>3. CASE TestAllocated(t) \/ Check(t) \/ Scheme(t) \/ SchemeFails(t) \/ SkipScheme(t)
           \/ CallsDone(t)
  <2>1. /\ suite_state' = suite_state /\ allocated' = allocated
        /\ \A u \in Threads : pc'[u] = "init" <=> pc[u] = "init"
    BY <1>0, <1>3 DEF TypeOK, TestAllocated, Check, Scheme, SchemeFails, SkipScheme,
       CallsDone, Advance, AtScheme, module_vars
  <2> QED
    BY <2>1 DEF StateIn, StateReady, Undefinedness
<1> QED
  BY <1>1, <1>2, <1>3 DEF Inner

(* The frame stays the one of the call the thread has come to.              *)
LEMMA InnerFrame ==
  ASSUME IInv, HostTyped, FrameOfTask, NEW t \in Threads, Inner(t), rest' = rest
  PROVE  FrameOfTask'
<1>0. TypeOK
  BY DEF IInv
<1>1. call' = call /\ pc[t] # "idle" /\ pc'[t] \notin {"miss", "idle"}
  BY <1>0, PlaceType
     DEF TypeOK, Inner, TestAllocated, Allocate, InitState, Check, Scheme, SchemeFails,
     SkipScheme, CallsDone, Advance, AtScheme, Resume, module_vars
<1>2. Inside(t)
  BY <1>1
     DEF Inner, TestAllocated, Allocate, InitState, Check, Scheme, SchemeFails,
     SkipScheme, CallsDone, AtScheme, Inside
<1>3. \A u \in Threads : u # t => pc'[u] = pc[u]
  BY PlaceType DEF HostTyped
<1>4. \A u \in Threads : u # t => errflg'[u] = errflg[u] /\ cause'[u] = cause[u]
  BY <1>0 DEF TypeOK, Inner, TestAllocated, Allocate, InitState, Check, Scheme, SchemeFails,
     SkipScheme, CallsDone, module_vars
<1>5. errflg'[t] # 0 <=> cause'[t] # "none"
  BY <1>0 DEF TypeOK, FrameOfTask, Inner, TestAllocated, Allocate, InitState, Check, Scheme,
     SchemeFails, SkipScheme, CallsDone, module_vars
<1> QED
  BY <1>1, <1>2, <1>3, <1>4, <1>5 DEF FrameOfTask, Inside

(* The calls of a body are places in it.                                    *)
LEMMA BodyPlaces ==
  ASSUME IInv, NEW t \in Threads, Inside(t)
  PROVE  DOMAIN Body(t) = 1..Len(Body(t)) /\ Len(Body(t)) \in Nat
<1>1. Entry(call[t]) \in Entries
  BY DEF IInv, InsideKnown, PartFound
<1>2. Body(t) \in Seq(SchemeCall)
  BY <1>1, ConstantsAssumption DEF Body
<1> QED
  BY <1>2

(* What a call has come past is allocated.                                  *)
LEMMA InnerAllocates ==
  ASSUME IInv, HostTyped, AllocatesInTurn, NEW t \in Threads, Inner(t),
         allocated \subseteq allocated'
  PROVE  AllocatesInTurn'
<1>0. TypeOK
  BY DEF IInv
<1>1. /\ call' = call /\ Inside(t)
      /\ \A u \in Threads : u # t => /\ pc'[u] = pc[u] /\ k'[u] = k[u]
                                     /\ todo'[u] = todo[u]
  BY <1>0 DEF TypeOK, Inner, TestAllocated, Allocate, InitState, Check, Scheme, SchemeFails,
     SkipScheme, CallsDone, Advance, AtScheme, Inside, module_vars
<1>2. \A u \in Threads : Body(u)' = Body(u)
  BY <1>1 DEF Body
<1> DEFINE Done(K, T, A) ==
             /\ Preamble(call[t]) \subseteq A \cup (IF K = 0 THEN T ELSE {})
             /\ \A j \in DOMAIN Body(t) : j < K => Body(t)[j].allocs \subseteq A \cup T
<1>3. Done(k[t], todo[t], allocated) /\ k[t] \in Nat
  BY <1>0, <1>1 DEF AllocatesInTurn, TypeOK
<1>4. /\ Done(k'[t], todo'[t], allocated')
      /\ pc'[t] = "set" => Allocs(call[t]) \subseteq allocated'
  <2>1. CASE TestAllocated(t)
    <3>1. /\ k' = k /\ allocated' = allocated /\ pc'[t] # "set"
          /\ \A v \in todo[t] : v \in todo'[t] \cup allocated
      BY <1>0, <2>1 DEF TestAllocated, TypeOK, module_vars
    <3> QED
      BY <1>3, <3>1
  <2>2. CASE Allocate(t)
    <3>1. /\ k' = k /\ pc'[t] # "set"
          /\ \A v \in todo[t] : v \in todo'[t] \cup allocated'
      BY <1>0, <2>2 DEF Allocate, TypeOK, Resume
    <3> QED
      BY <1>3, <3>1
  <2>3. CASE InitState(t)
    <3>1. /\ k' = k /\ pc'[t] # "set" /\ allocated' = allocated
          /\ \A v \in todo[t] : v \in todo'[t] \cup allocated
      BY <1>0, <2>3 DEF InitState, TypeOK, Resume, IInv, Initializing
    <3> QED
      BY <1>3, <3>1
  <2>4. CASE Check(t)
    <3>1. k'[t] = 1 /\ todo[t] = {} /\ todo' = todo /\ allocated' = allocated
          /\ pc'[t] # "set"
      BY <1>0, <2>4 DEF Check, TypeOK
    <3>2. \A j \in DOMAIN Body(t) : ~(j < 1)
      BY <1>1, BodyPlaces
    <3> QED
      BY <1>3, <3>1, <3>2
  <2>5. CASE Scheme(t) \/ SchemeFails(t) \/ SkipScheme(t)
    <3>1. /\ AtScheme(t) /\ k'[t] = k[t] + 1 /\ todo'[t] = Body(t)[k[t]].allocs
          /\ allocated' = allocated /\ pc' = pc
      BY <1>0, <2>5 DEF Scheme, SchemeFails, SkipScheme, Advance, TypeOK
    <3>2. todo[t] = {} /\ pc[t] = "call" /\ k[t] # 0
      BY <1>1, <3>1 DEF AtScheme, IInv, InsideKnown
    <3>3. \A j \in DOMAIN Body(t) : j < k[t] + 1 => j < k[t] \/ j = k[t]
      BY <1>1, <1>3, BodyPlaces
    <3> QED
      BY <1>3, <3>1, <3>2, <3>3
  <2>6. CASE CallsDone(t)
    <3>1. /\ todo[t] = {} /\ todo' = todo /\ k' = k /\ allocated' = allocated
          /\ pc[t] = "call" /\ k[t] \notin DOMAIN Body(t)
      BY <2>6 DEF CallsDone, module_vars
    <3>2. k[t] # 0
      BY <1>1, <3>1 DEF IInv, InsideKnown
    <3>3. \A j \in DOMAIN Body(t) : j < k[t]
      BY <1>1, <1>3, <3>1, <3>2, BodyPlaces
    <3> QED
      BY <1>3, <3>1, <3>2, <3>3 DEF Allocs, Body
  <2> QED
    BY <2>1, <2>2, <2>3, <2>4, <2>5, <2>6 DEF Inner
<1>5. ASSUME NEW u \in Threads, u # t, Inside(u)'
      PROVE  /\ Preamble(call[u]) \subseteq allocated' \cup (IF k'[u] = 0 THEN todo'[u] ELSE {})
             /\ \A j \in DOMAIN Body(u) :
                  j < k'[u] => Body(u)[j].allocs \subseteq allocated' \cup todo'[u]
             /\ pc'[u] = "set" => Allocs(call[u]) \subseteq allocated'
  <2>1. Inside(u) /\ pc'[u] = pc[u] /\ k'[u] = k[u] /\ todo'[u] = todo[u]
    BY <1>1, <1>5 DEF Inside
  <2> QED
    BY <2>1 DEF AllocatesInTurn
<1> QED
  BY <1>1, <1>2, <1>4, <1>5 DEF AllocatesInTurn

(* The state check rejects no call of an orderly driver.                    *)
LEMMA CheckPasses ==
  ASSUME IInv, HostTyped, Undefinedness, FrameOfTask, RemainingReady,
         NEW t \in Threads, Check(t)
  PROVE  ~Mismatch(t)
<1> SUFFICES ASSUME Mismatch(t) PROVE FALSE
  OBVIOUS
<1> DEFINE c == call[t]
<1>1. /\ Inside(t) /\ pc[t] = "alloc" /\ todo[t] = {}
      /\ c \in Calls /\ Known(c) /\ c = Head(rest[t]) /\ rest[t] # <<>> /\ rest[t] \in Seq(Calls)
      /\ CheckState[c.fn] # NoState /\ suite_state[Slot(c)] # CheckState[c.fn]
  BY DEF Check, Inside, HostTyped, FrameOfTask, IInv, InsideKnown, Known, Calling, Mismatch
<1>2. rest[t] \in Remaining
  BY <1>1 DEF Remaining, Calling
<1>3. Ready(rest[t], 1)
  BY <1>1, <1>2, TailPlaces DEF RemainingReady
<1>4. PICK way \in Demands(c) : \A e \in way : ValueOf(e[1]) = e[2]
  BY <1>1, <1>3, HeadReady
<1>5. <<LifeKey(c), CheckState[c.fn]>> \in way
  BY <1>1, <1>4, DemandsCheck
<1>6. StateIn(Slot(c)) = CheckState[c.fn]
  <2>1. ValueOf(LifeKey(c)) = CheckState[c.fn]
    BY <1>4, <1>5
  <2> QED
    BY <2>1 DEF ValueOf, LifeKey
<1>7. UsesState(c.fn)
  BY <1>1 DEF UsesState
<1>8. StateArray \in allocated
  BY <1>1, <1>7 DEF IInv, StateProvided
<1>9. StateReady
  BY <1>1, <1>7, <1>8, InitAlone DEF Undefinedness
<1> QED
  BY <1>1, <1>6, <1>9, SlotType DEF StateReady, StateIn
(***************************************************************************)
(* The end of a call.                                                      *)
(***************************************************************************)
(* A call that ends without error leaves the keys as Leaves says.           *)
LEMMA ReturnEffect ==
  ASSUME IInv, HostTyped, NEW t \in Threads, CallReturns(t), Inside(t), errflg[t] = 0
  PROVE  \A x \in Keys :
           /\ \A v : <<x, v>> \in Leaves(call[t]) => ValueOf(x)' = v
           /\ x \notin Changed(call[t]) => ValueOf(x)' = ValueOf(x)
<1> DEFINE c == call[t]
<1>1. /\ pc[t] = "set" /\ c \in Calls /\ Known(c) /\ Slot(c) \in Slots /\ c.fn \in Phases
      /\ suite_state' = (IF ~Sets(c) THEN suite_state
                         ELSE [suite_state EXCEPT ![Slot(c)] = SetState[c.fn]])
  BY SlotType DEF CallReturns, Return, AssignedState, Inside, Sets, IInv, TypeOK, InsideKnown,
     Known, Calls
<1>2. SetState[c.fn] = "in_time_step" <=> c.fn = "timestep_init"
  BY <1>1 DEF SetState, NoState
<1>3. ran' = (IF SetState[c.fn] = "in_time_step" THEN [ran EXCEPT ![c.inst] = {}]
              ELSE IF c.fn = "run" THEN [ran EXCEPT ![c.inst] = @ \cup ({c.part} \X c.blks)]
              ELSE ran)
  <2>1. ran' = Ran(t) /\ AssignedState(t) = SetState[c.fn]
    BY <1>1 DEF CallReturns, AssignedState
  <2>2. ~(SetState[c.fn] = "in_time_step" /\ c.fn = "run")
    BY <1>2
  <2> QED
    BY <1>1, <2>1, <2>2 DEF Ran
<1>4. Sets(c) => SetState[c.fn] # "undefined"
  BY <1>1, StateTables DEF Sets, States
<1>5. suite_state \in [Slots -> States \cup {"undefined"}]
  BY DEF IInv, TypeOK
<1>6. ran \in [Instances -> SUBSET ((Groups \cup {SuitePart, OtherName}) \X Blocks)]
      /\ c.inst \in Instances
  BY <1>1 DEF HostTyped, Calls
<1> HIDE DEF c
<1>7. ASSUME NEW s \in Slots
      PROVE  LET x == <<s, {}>> IN
             /\ \A v : <<x, v>> \in Leaves(c) => ValueOf(x)' = v
             /\ x \notin Changed(c) => ValueOf(x)' = ValueOf(x)
  <2> DEFINE x == <<s, {}>>
  <2>1. x \notin AllPieces(c) /\ x \notin Pieces(c)
    BY DEF AllPieces, Pieces
  <2>2. \A v : <<x, v>> \in Leaves(c) <=> Sets(c) /\ s = Slot(c) /\ v = SetState[c.fn]
    BY <1>1, <2>1 DEF Leaves, LifeKey
  <2>3. ValueOf(x) = StateIn(s) /\ ValueOf(x)' = StateIn(s)'
    BY DEF ValueOf
  <2>4. Sets(c) /\ s = Slot(c) => StateIn(s)' = SetState[c.fn]
    BY <1>1, <1>4, <1>5 DEF StateIn
  <2>5. ~(Sets(c) /\ s = Slot(c)) => StateIn(s)' = StateIn(s)
    BY <1>1, <1>5 DEF StateIn
  <2>6. Sets(c) /\ s = Slot(c) => x \in Changed(c)
    <3> SUFFICES ASSUME Sets(c), s = Slot(c) PROVE x \in Changed(c)
      OBVIOUS
    <3>1. <<x, SetState[c.fn]>> \in Leaves(c)
      BY <2>2
    <3> QED
      BY <3>1 DEF Changed
  <2> QED
    BY <2>2, <2>3, <2>4, <2>5, <2>6
<1>8. ASSUME NEW i \in Instances, NEW w \in Groups \X Blocks
      PROVE  LET x == <<i, {w}>> IN
             /\ \A v : <<x, v>> \in Leaves(c) => ValueOf(x)' = v
             /\ x \notin Changed(c) => ValueOf(x)' = ValueOf(x)
  <2> DEFINE x == <<i, {w}>>
  <2>1. /\ x \in AllPieces(c) <=> i = c.inst
        /\ x \in Pieces(c) <=> i = c.inst /\ w \in {c.part} \X c.blks
        /\ x # LifeKey(c)
    BY DEF AllPieces, Pieces, LifeKey
  <2>2. \A v : <<x, v>> \in Leaves(c) <=>
               \/ c.fn = "timestep_init" /\ i = c.inst /\ v = "todo"
               \/ c.fn = "run" /\ i = c.inst /\ w \in {c.part} \X c.blks /\ v = "done"
    BY <1>1, <2>1 DEF Leaves
  <2>3. /\ ValueOf(x) = (IF w \in ran[i] THEN "done" ELSE "todo")
        /\ ValueOf(x)' = (IF w \in ran'[i] THEN "done" ELSE "todo")
    BY DEF ValueOf
  <2>4. c.fn = "timestep_init" /\ i = c.inst => w \notin ran'[i]
    BY <1>2, <1>3, <1>6
  <2>5. c.fn = "run" /\ i = c.inst /\ w \in {c.part} \X c.blks => w \in ran'[i]
    BY <1>2, <1>3, <1>6
  <2>6. \/ c.fn = "timestep_init" /\ i = c.inst
        \/ c.fn = "run" /\ i = c.inst /\ w \in {c.part} \X c.blks
        \/ w \in ran'[i] <=> w \in ran[i]
    BY <1>2, <1>3, <1>6
  <2>7. \A v : <<x, v>> \in Leaves(c) => x \in Changed(c)
    <3> TAKE v
    <3> HAVE <<x, v>> \in Leaves(c)
    <3>1. <<x, v>>[1] = x
      OBVIOUS
    <3> QED
      BY <3>1 DEF Changed
  <2> QED
    BY <2>2, <2>3, <2>4, <2>5, <2>6, <2>7
<1> QED
  BY <1>7, <1>8 DEF Keys, c

(* A call that changes none of the keys that the rest of a task has to do   *)
(* with leaves that rest ready.                                            *)
LEMMA OthersReady ==
  ASSUME NEW r \in Seq(Calls), NEW j \in DOMAIN r, Ready(r, j),
         \A x \in Keys : x \in AllInvolved(r) => ValueOf(x)' = ValueOf(x)
  PROVE  Ready(r, j)'
<1>1. r[j] \in Calls /\ r[j] \in ToSet(r)
  BY DEF ToSet
<1>2. PICK way \in Demands(r[j]) : \A e \in way :
        LeftAt(r, j, e[1], e[2]) \/ (Untouched(r, j, e[1]) /\ ValueOf(e[1]) = e[2])
  BY DEF Ready
<1>3. \A e \in way : e[1] \in Keys /\ e[1] \in AllInvolved(r)
  BY <1>1, <1>2, KeyTypes DEF AllInvolved
<1>4. \A e \in way : ValueOf(e[1])' = ValueOf(e[1])
  BY <1>3
<1>5. \A e \in way : LeftAt(r, j, e[1], e[2]) \/ (Untouched(r, j, e[1]) /\ ValueOf(e[1])' = e[2])
  BY <1>2, <1>4
<1> QED
  BY <1>2, <1>5 DEF Ready

(* After its first call the rest of a task is ready for what it does next.  *)
LEMMA TailReady ==
  ASSUME NEW r \in Seq(Calls), r # <<>>, NEW j \in DOMAIN Tail(r), Ready(r, j + 1),
         \A x \in Keys :
           /\ \A v : <<x, v>> \in Leaves(Head(r)) => ValueOf(x)' = v
           /\ x \notin Changed(Head(r)) => ValueOf(x)' = ValueOf(x)
  PROVE  Ready(Tail(r), j)'
<1> DEFINE q == Tail(r)
<1>1. j \in Nat /\ j >= 1 /\ r[j + 1] = q[j] /\ r[j + 1] \in Calls
  BY TailPlaces
<1>2. PICK way \in Demands(q[j]) : \A e \in way :
        LeftAt(r, j + 1, e[1], e[2]) \/ (Untouched(r, j + 1, e[1]) /\ ValueOf(e[1]) = e[2])
  BY <1>1 DEF Ready
<1>3. ASSUME NEW e \in way
      PROVE  LeftAt(q, j, e[1], e[2]) \/ (Untouched(q, j, e[1]) /\ ValueOf(e[1])' = e[2])
  <2>1. e[1] \in Keys
    BY <1>1, <1>2, <1>3, KeyTypes
  <2> HIDE DEF q
  <2>2. CASE LeftAt(r, j + 1, e[1], e[2])
    <3>1. LeftAt(q, j, e[1], e[2])
          \/ (<<e[1], e[2]>> \in Leaves(Head(r)) /\ Untouched(q, j, e[1]))
      BY <1>1, <2>2, TailLeaves DEF q
    <3> QED
      BY <2>1, <3>1
  <2>3. CASE Untouched(r, j + 1, e[1]) /\ ValueOf(e[1]) = e[2]
    <3>1. e[1] \notin Changed(Head(r)) /\ Untouched(q, j, e[1])
      BY <1>1, <2>3, TailLeaves DEF q
    <3> QED
      BY <2>1, <2>3, <3>1
  <2> QED
    BY <1>2, <1>3, <2>2, <2>3
<1> QED
  BY <1>2, <1>3 DEF Ready
(***************************************************************************)
(* From stage to stage.                                                    *)
(***************************************************************************)
(* What a stage enters with is what the one before it left, or kept.        *)
LEMMA NextEntry ==
  ASSUME NEW p, NEW s \in Nat, s >= 1, NEW x, NEW v, EntersWith(p, s + 1, x, v)
  PROVE  StageLeaves(p[s], x, v) \/ (StageKeeps(p[s], x) /\ EntersWith(p, s, x, v))
<1>1. CASE v = AtStart(x) /\ \A r \in 1..s : StageKeeps(p[r], x)
  BY <1>1 DEF EntersWith
<1>2. CASE \E r \in 1..s : /\ StageLeaves(p[r], x, v)
                           /\ \A n \in (r + 1)..s : StageKeeps(p[n], x)
  <2>1. PICK r \in 1..s : /\ StageLeaves(p[r], x, v)
                          /\ \A n \in (r + 1)..s : StageKeeps(p[n], x)
    BY <1>2
  <2>2. CASE r = s
    BY <2>1, <2>2
  <2>3. CASE r # s
    <3>1. r \in 1..(s - 1) /\ s \in (r + 1)..s
      BY <2>3
    <3> QED
      BY <2>1, <3>1 DEF EntersWith
  <2> QED
    BY <2>2, <2>3
<1>3. (s + 1) - 1 = s
  OBVIOUS
<1> QED
  BY <1>1, <1>2, <1>3 DEF EntersWith

(* A key that a task leaves is one it does not leave untouched, and one      *)
(* that tasks apart from it do.                                            *)
LEMMA LeavingTouches ==
  ASSUME NEW q \in Seq(Calls), NEW x, NEW v, NEW j, LeftAt(q, j, x, v)
  PROVE  /\ x \in AllChanged(q)
         /\ ~Untouched(q, j, x)
         /\ \A r \in Seq(Calls) : Apart(q, r) \/ Apart(r, q) => Untouched(r, Len(r) + 1, x)
<1>1. PICK m \in DOMAIN q : m < j /\ <<x, v>> \in Leaves(q[m])
  BY DEF LeftAt
<1>2. x \in Changed(q[m])
  <2>1. <<x, v>>[1] = x
    OBVIOUS
  <2> QED
    BY <1>1, <2>1 DEF Changed
<1>3. x \in AllChanged(q)
  BY <1>2 DEF AllChanged, ToSet
<1>4. ASSUME NEW r \in Seq(Calls), Apart(q, r) \/ Apart(r, q), NEW n \in DOMAIN r,
             x \in Changed(r[n])
      PROVE  FALSE
  <2>1. x \in Involved(r[n])
    BY <1>4 DEF Involved
  <2>2. x \in AllInvolved(r)
    BY <2>1 DEF AllInvolved, ToSet
  <2> QED
    BY <1>3, <1>4, <2>2 DEF Apart
<1> QED
  BY <1>1, <1>2, <1>3, <1>4 DEF Untouched

(* A stage that is entered with what the plan says, by nobody yet.          *)
Entered ==
  /\ HostTyped
  /\ pending = plan[stage] /\ \A t \in Threads : ~Calling(t)
  /\ \A x \in Keys : \A v \in KeyValues : EntersWith(plan, stage, x, v) => ValueOf(x) = v
  /\ AllocatedBy(plan, stage) \subseteq allocated
  /\ ~MultiInstance \/ StateArray \in AllocatedBy(plan, stage) => StateReady

StageInv == StageInOrder /\ StagesAllocate /\ RemainingReady

(* Then all its calls find what they demand.                                *)
LEMMA EnteredInv == OrderlyPlans /\ Entered => StageInv
<1> SUFFICES ASSUME OrderlyPlans, Entered PROVE StageInv
  OBVIOUS
<1>1. /\ plan \in Plans /\ stage \in DOMAIN plan /\ stage \in Nat /\ stage >= 1
      /\ Orderly(plan) /\ plan[stage] \subseteq Seq(Calls)
  BY StageType DEF Entered, HostTyped, OrderlyPlans
<1>2. Remaining = plan[stage]
  BY DEF Remaining, Entered
<1>3. StageInOrder
  BY DEF StageInOrder, Entered
<1>4. StagesAllocate
  BY <1>2 DEF StagesAllocate, Entered, CallsIn
<1>5. ASSUME NEW q \in Remaining, NEW j \in DOMAIN q PROVE Ready(q, j)
  <2>1. q \in Seq(Calls) /\ q[j] \in Calls /\ Met(plan, stage, q, j)
    BY <1>1, <1>2, <1>5 DEF Orderly
  <2>2. PICK way \in Demands(q[j]) : \A e \in way :
          \/ LeftAt(q, j, e[1], e[2])
          \/ Untouched(q, j, e[1]) /\ EntersWith(plan, stage, e[1], e[2])
    BY <2>1 DEF Met
  <2>3. \A e \in way : e[1] \in Keys /\ e[2] \in KeyValues
    BY <2>1, <2>2, KeyTypes
  <2>4. \A e \in way : EntersWith(plan, stage, e[1], e[2]) => ValueOf(e[1]) = e[2]
    BY <2>3 DEF Entered
  <2> QED
    BY <2>2, <2>4 DEF Ready
<1>6. ASSUME NEW x \in Keys, NEW v \in KeyValues, EntersWith(plan, stage + 1, x, v)
      PROVE  /\ (\A q \in Remaining : Untouched(q, Len(q) + 1, x)) => ValueOf(x) = v
             /\ \A q \in Remaining :
                  Untouched(q, Len(q) + 1, x) \/ LeftAt(q, Len(q) + 1, x, v)
  <2>1. CASE StageKeeps(plan[stage], x) /\ EntersWith(plan, stage, x, v)
    BY <1>2, <1>6, <2>1 DEF StageKeeps, Entered
  <2>2. CASE StageLeaves(plan[stage], x, v)
    <3>1. PICK r \in plan[stage] : LeftAt(r, Len(r) + 1, x, v)
      BY <2>2 DEF StageLeaves
    <3>2. r \in Seq(Calls) /\ \A q \in plan[stage] : q \in Seq(Calls)
      BY <1>1
    <3>3. ~Untouched(r, Len(r) + 1, x)
      BY <3>1, <3>2, LeavingTouches
    <3>4. \A q \in plan[stage] : q # r => Apart(q, r)
      BY <1>1 DEF Orderly
    <3>5. \A q \in plan[stage] : q # r => Untouched(q, Len(q) + 1, x)
      BY <3>1, <3>2, <3>4, LeavingTouches
    <3> QED
      BY <1>2, <3>1, <3>3, <3>5
  <2> QED
    BY <1>1, <1>6, <2>1, <2>2, NextEntry
<1>7. RemainingReady
  BY <1>5, <1>6 DEF RemainingReady
<1> QED
  BY <1>3, <1>4, <1>7 DEF StageInv

(* A driver begins with entering its first stage.                           *)
LEMMA HostInitOrderly ==
  ASSUME OrderlyPlans, HostInit
  PROVE  OrderlyInv
<1>1. HostTyped /\ IInv
  BY HostTypedInit, InitInv DEF HostInit
<1>2. \A t \in Threads : pc[t] = "idle" /\ errflg[t] = 0 /\ cause[t] = "none"
  BY DEF HostInit, Init
<1>3. FrameOfTask /\ AllocatesInTurn
  BY <1>2 DEF FrameOfTask, AllocatesInTurn, Inside
<1>4. Undefinedness /\ (~MultiInstance => StateReady)
  BY <1>2 DEF Undefinedness, StateReady, HostInit, Init, StateArray
<1>5. Entered
  <2>1. stage = 1 /\ pending = plan[1] /\ \A t \in Threads : ~Calling(t)
    BY DEF HostInit, Calling
  <2>2. 1..(1 - 1) = {}
    OBVIOUS
  <2>3. AllocatedBy(plan, 1) = {}
    BY <2>2 DEF AllocatedBy
  <2>4. ASSUME NEW x \in Keys, NEW v, EntersWith(plan, 1, x, v) PROVE ValueOf(x) = v
    <3>1. v = AtStart(x)
      BY <2>2, <2>4 DEF EntersWith
    <3>2. CASE x \in Slots \X {{}}
      <4>1. x[2] = {} /\ x[1] \in Slots
        BY <3>2
      <4>2. StateIn(x[1]) = "uninitialized"
        BY <4>1 DEF HostInit, Init, StateIn
      <4> QED
        BY <3>1, <4>1, <4>2 DEF ValueOf, AtStart
    <3>3. CASE x \in Instances \X {{w} : w \in Groups \X Blocks}
      <4>1. PICK w \in Groups \X Blocks : x[2] = {w}
        BY <3>3
      <4>2. x[1] \in Instances /\ ran[x[1]] = {}
        BY <3>3 DEF HostInit
      <4> QED
        BY <3>1, <4>1, <4>2 DEF ValueOf, AtStart
    <3> QED
      BY <3>2, <3>3 DEF Keys
  <2> QED
    BY <1>1, <1>4, <2>1, <2>3, <2>4 DEF Entered
<1> QED
  BY <1>3, <1>4, <1>5, EnteredInv DEF OrderlyInv, StageInv

(* The next stage is entered with what the plan says.                       *)
LEMMA NextStageEnters ==
  ASSUME HostTyped, HostTyped', OrderlyInv, NextStage
  PROVE  Entered'
<1>1. /\ pending' = plan'[stage'] /\ plan' = plan /\ stage' = stage + 1 /\ stage \in Nat
      /\ stage >= 1
      /\ \A t \in Threads : ~Calling(t) /\ ~Calling(t)'
      /\ UNCHANGED cap_vars /\ ran' = ran
  BY StageType DEF NextStage, StageDone, Calling, HostTyped
<1>2. Remaining = {}
  BY <1>1 DEF Remaining, NextStage, StageDone
<1>3. \A x \in Keys : \A v \in KeyValues : EntersWith(plan, stage + 1, x, v) => ValueOf(x) = v
  BY <1>2 DEF OrderlyInv, RemainingReady
<1>4. \A x \in Keys : ValueOf(x)' = ValueOf(x)
  BY <1>1 DEF ValueOf, StateIn, cap_vars
<1>5. AllocatedBy(plan, stage + 1) \subseteq allocated
  <2>1. \A r \in 1..((stage + 1) - 1) : r = stage \/ r \in 1..(stage - 1)
    BY <1>1
  <2>2. \A c \in CallsIn(plan[stage]) : Allocs(c) \subseteq allocated
    BY <1>2 DEF OrderlyInv, StagesAllocate
  <2>3. \A r \in 1..(stage - 1) : \A c \in CallsIn(plan[r]) : Allocs(c) \subseteq allocated
    BY DEF OrderlyInv, StagesAllocate, AllocatedBy
  <2> QED
    BY <2>1, <2>2, <2>3 DEF AllocatedBy
<1>6. ~MultiInstance \/ StateArray \in AllocatedBy(plan, stage + 1) => StateReady
  <2>1. \A t \in Threads : pc[t] # "init"
    BY <1>1 DEF HostTyped
  <2> QED
    BY <1>5, <2>1 DEF OrderlyInv, Undefinedness, StagesAllocate
<1> QED
  BY <1>1, <1>3, <1>4, <1>5, <1>6 DEF Entered, cap_vars, StateReady
(***************************************************************************)
(* The driver's steps.                                                     *)
(***************************************************************************)
(* A thread takes a task: the same calls remain.                            *)
LEMMA TakeTaskOrderly ==
  ASSUME OrderlyPlans, IInv, HostTyped, OrderlyInv, NEW t \in Threads, TakeTask(t)
  PROVE  OrderlyInv'
<1>1. PICK task \in pending : rest' = [rest EXCEPT ![t] = task] /\ pending' = pending \ {task}
  BY DEF TakeTask
<1>2. /\ UNCHANGED cap_vars /\ UNCHANGED <<plan, stage, stopped, ran>> /\ ~Calling(t)
      /\ pc[t] = "idle" /\ ~Inside(t)
  BY DEF TakeTask, Calling, HostTyped, Inside
<1>3. rest'[t] = task /\ \A u \in Threads : u # t => rest'[u] = rest[u]
  BY <1>1 DEF HostTyped
<1>4. FrameOfTask'
  BY <1>2, <1>3 DEF OrderlyInv, FrameOfTask, Inside, cap_vars
<1>5. AllocatesInTurn'
  BY <1>2 DEF OrderlyInv, AllocatesInTurn, Inside, Body, cap_vars
<1>6. Undefinedness'
  BY <1>2 DEF OrderlyInv, Undefinedness, StateReady, cap_vars
<1>7. /\ pending \subseteq plan[stage]
      /\ \A q \in pending : q # task => Parallel(plan[stage]) /\ Apart(task, q)
      /\ \A c \in ToSet(task) : Known(c) => c \in CallsIn(plan[stage])
  <2>1. pending \subseteq plan[stage] /\ Orderly(plan) /\ stage \in DOMAIN plan
    BY DEF OrderlyInv, StageInOrder, HostTyped, OrderlyPlans
  <2> QED
    BY <2>1 DEF Orderly, Parallel, CallsIn
<1>8. StageInOrder'
  <2>1. \A u \in Threads : Calling(u) => Parallel(plan[stage]) /\ Apart(rest[u], task)
    BY DEF OrderlyInv, StageInOrder
  <2>2. \A u \in Threads : u # t /\ Calling(u) => Apart(task, rest[u])
    BY <2>1 DEF Apart
  <2>3. \A u \in Threads : u # t => (Calling(u)' <=> Calling(u))
    BY <1>3 DEF Calling
  <2>4. plan' = plan /\ stage' = stage
    BY <1>2
  <2>5. \A u, v \in Threads : Calling(u)' /\ Calling(v)' /\ u # v =>
          Parallel(plan[stage]) /\ Apart(rest'[u], rest'[v])
    BY <1>3, <2>1, <2>2, <2>3 DEF OrderlyInv, StageInOrder
  <2>6. \A u \in Threads : Calling(u)' =>
          /\ \A c \in ToSet(rest'[u]) : Known(c) => c \in CallsIn(plan[stage])
          /\ \A q \in pending' : Parallel(plan[stage]) /\ Apart(rest'[u], q)
    BY <1>1, <1>3, <1>7, <2>3 DEF OrderlyInv, StageInOrder
  <2> QED
    BY <1>1, <1>7, <2>4, <2>5, <2>6 DEF StageInOrder
<1>9. Remaining' \subseteq Remaining /\ Remaining \subseteq Remaining' \cup {<<>>}
  BY <1>1, <1>2, <1>3 DEF Remaining, Calling
<1>10. StagesAllocate'
  <2>1. ToSet(<<>>) = {}
    BY DEF ToSet
  <2> QED
    BY <1>2, <1>9, <2>1 DEF OrderlyInv, StagesAllocate, StateReady, cap_vars
<1>11. RemainingReady'
  <2>1. \A x : ValueOf(x)' = ValueOf(x)
    BY <1>2 DEF ValueOf, StateIn, cap_vars
  <2>2. \A q \in Remaining' : \A j \in DOMAIN q : Ready(q, j)'
    <3> TAKE q \in Remaining'
    <3> TAKE j \in DOMAIN q
    <3>1. Ready(q, j)
      BY <1>9 DEF OrderlyInv, RemainingReady
    <3> QED
      BY <2>1, <3>1 DEF Ready
  <2>3. \A x, y : Untouched(<<>>, y, x)
    BY DEF Untouched
  <2>4. ASSUME NEW x \in Keys, NEW v \in KeyValues, EntersWith(plan, stage + 1, x, v)
        PROVE  /\ (\A q \in Remaining' : Untouched(q, Len(q) + 1, x)) => ValueOf(x)' = v
               /\ \A q \in Remaining' :
                    Untouched(q, Len(q) + 1, x) \/ LeftAt(q, Len(q) + 1, x, v)
    BY <1>9, <2>1, <2>3, <2>4 DEF OrderlyInv, RemainingReady
  <2> QED
    BY <1>2, <2>2, <2>4 DEF RemainingReady
<1> QED
  BY <1>4, <1>5, <1>6, <1>8, <1>10, <1>11 DEF OrderlyInv

(* A call that an orderly driver makes may overlap with those inside.       *)
LEMMA OrderlyKeeps ==
  ASSUME OrderlyPlans, IInv, HostTyped, OrderlyInv, NEW t \in Threads,
         Calling(t), pc[t] = "idle", Known(Head(rest[t]))
  PROVE  Contract(t, Head(rest[t]))
<1> DEFINE c == Head(rest[t])
<1> SUFFICES ASSUME NEW u \in Threads, u # t, Inside(u)
             PROVE  Warm(c) /\ MayOverlap(c, call[u])
  BY DEF Contract
<1>1. /\ rest[t] \in Seq(Calls) /\ rest[t] # <<>> /\ rest[u] \in Seq(Calls) /\ rest[u] # <<>>
      /\ Calling(u) /\ call[u] = Head(rest[u]) /\ Known(call[u])
  BY DEF Inside, HostTyped, Calling, OrderlyInv, FrameOfTask, IInv, InsideKnown, Known
<1>2. c \in ToSet(rest[t]) /\ call[u] \in ToSet(rest[u]) /\ c \in Calls
  BY <1>1, TailPlaces DEF ToSet
<1>3. Parallel(plan[stage]) /\ Apart(rest[t], rest[u]) /\ c \in CallsIn(plan[stage])
  BY <1>1, <1>2 DEF OrderlyInv, StageInOrder
<1>4. Allocs(c) \subseteq AllocatedBy(plan, stage)
  BY <1>3 DEF OrderlyPlans, Orderly, HostTyped
<1> HIDE DEF c
<1>5. Warm(c)
  <2>1. UsesState(c.fn) => ~MultiInstance \/ StateArray \in Allocs(c)
    BY <1>2, AllocsType DEF Known, c
  <2> QED
    BY <1>4, <2>1 DEF Warm, OrderlyInv, StagesAllocate
<1>6. MayOverlap(c, call[u])
  <2>1. ASSUME NEW d, Known(d), Sets(d) PROVE LifeKey(d) \in Changed(d)
    <3>1. <<LifeKey(d), SetState[d.fn]>> \in Leaves(d)
      BY <2>1 DEF Leaves
    <3>2. <<LifeKey(d), SetState[d.fn]>>[1] = LifeKey(d)
      OBVIOUS
    <3> QED
      BY <3>1, <3>2 DEF Changed
  <2>2. ASSUME NEW d, Known(d) PROVE LifeKey(d) \in Involved(d)
    BY <2>2 DEF Involved
  <2>3. ASSUME Slot(c) = Slot(call[u]), Sets(c) PROVE FALSE
    <3>1. LifeKey(c) \in AllChanged(rest[t]) /\ LifeKey(c) \in AllInvolved(rest[u])
      BY <1>1, <1>2, <2>1, <2>2, <2>3 DEF AllChanged, AllInvolved, LifeKey, c
    <3> QED
      BY <1>3, <3>1 DEF Apart
  <2>4. ASSUME Slot(c) = Slot(call[u]), Sets(call[u]) PROVE FALSE
    <3>1. LifeKey(c) \in AllChanged(rest[u]) /\ LifeKey(c) \in AllInvolved(rest[t])
      BY <1>1, <1>2, <2>1, <2>2, <2>4 DEF AllChanged, AllInvolved, LifeKey, c
    <3> QED
      BY <1>3, <3>1 DEF Apart
  <2> QED
    BY <2>3, <2>4 DEF MayOverlap
<1> QED
  BY <1>5, <1>6

(* The calls that remain, and what they find, when the driver's part and     *)
(* what the keys stand for are as before.                                  *)
LEMMA StageStands ==
  ASSUME HostTyped, OrderlyInv, UNCHANGED <<plan, stage, pending, rest, ran>>,
         \A s \in Slots : StateIn(s)' = StateIn(s),
         allocated \subseteq allocated', StateReady => StateReady'
  PROVE  StageInOrder' /\ StagesAllocate' /\ RemainingReady'
<1>1. Remaining' = Remaining
  BY DEF Remaining, Calling
<1>2. StageInOrder'
  BY DEF OrderlyInv, StageInOrder, Calling
<1>3. StagesAllocate'
  BY <1>1 DEF OrderlyInv, StagesAllocate
<1>4. \A x \in Keys : ValueOf(x)' = ValueOf(x)
  <2>1. \A x \in Keys : x[2] = {} => x[1] \in Slots
    BY DEF Keys
  <2> QED
    BY <2>1 DEF ValueOf
<1>5. \A q \in Remaining : q \in Seq(Calls)
  BY DEF Remaining, HostTyped
<1>6. \A q \in Remaining : \A j \in DOMAIN q : Ready(q, j)'
  <2> TAKE q \in Remaining
  <2> TAKE j \in DOMAIN q
  <2>1. PICK r : r = q
    OBVIOUS
  <2>2. r \in Seq(Calls) /\ Ready(r, j) /\ j \in DOMAIN r
    BY <1>5, <2>1 DEF OrderlyInv, RemainingReady
  <2>3. Ready(r, j)'
    BY <1>4, <2>2, OthersReady
  <2> QED
    BY <2>1, <2>3
<1>7. RemainingReady'
  BY <1>1, <1>4, <1>6 DEF OrderlyInv, RemainingReady
<1> QED
  BY <1>2, <1>3, <1>7
(* A thread enters the cap, or is turned away.                              *)
LEMMA MakeCallOrderly ==
  ASSUME IInv, HostTyped, OrderlyInv, NEW t \in Threads, MakeCall(t)
  PROVE  OrderlyInv'
<1> DEFINE c == Head(rest[t])
<1>0. TypeOK
  BY DEF IInv
<1>1. /\ UNCHANGED <<plan, stage, pending, rest, stopped, ran>>
      /\ UNCHANGED <<suite_state, allocated>> /\ pc[t] = "idle"
      /\ \A u \in Threads : u # t => /\ pc'[u] = pc[u] /\ call'[u] = call[u] /\ k'[u] = k[u]
                                     /\ todo'[u] = todo[u] /\ errflg'[u] = errflg[u]
                                     /\ cause'[u] = cause[u]
  BY <1>0 DEF MakeCall, host_vars, Dispatch, Miss, module_vars, TypeOK
<1>2. k[t] = 0 /\ errflg[t] = 0 /\ cause[t] = "none"
  BY <1>1 DEF IInv, OutsideUnchecked, Inside, OrderlyInv, FrameOfTask
<1>3. \/ /\ pc'[t] = "alloc" /\ call'[t] = c /\ todo'[t] = Preamble(c) /\ k'[t] = 0
         /\ errflg'[t] = 0 /\ cause'[t] = "none"
      \/ pc'[t] = "miss" /\ errflg'[t] # 0 /\ cause'[t] # "none"
  BY <1>0, <1>2 DEF MakeCall, Dispatch, Miss, TypeOK, module_vars
<1>4. FrameOfTask'
  BY <1>1, <1>3 DEF OrderlyInv, FrameOfTask, Inside
<1>5. AllocatesInTurn'
  <2>1. ASSUME NEW u \in Threads, u # t, Inside(u)'
        PROVE  /\ Preamble(call'[u]) \subseteq allocated' \cup (IF k'[u] = 0 THEN todo'[u] ELSE {})
               /\ \A j \in DOMAIN Body(u)' :
                    j < k'[u] => Body(u)'[j].allocs \subseteq allocated' \cup todo'[u]
               /\ pc'[u] = "set" => Allocs(call'[u]) \subseteq allocated'
    <3>1. Inside(u) /\ Body(u)' = Body(u)
      BY <1>1, <2>1 DEF Inside, Body
    <3> QED
      BY <1>1, <2>1, <3>1 DEF OrderlyInv, AllocatesInTurn
  <2>2. ASSUME Inside(t)'
        PROVE  /\ Preamble(call'[t]) \subseteq allocated' \cup (IF k'[t] = 0 THEN todo'[t] ELSE {})
               /\ \A j \in DOMAIN Body(t)' : ~(j < k'[t])
               /\ pc'[t] # "set"
    <3>1. pc'[t] = "alloc" /\ call'[t] = c /\ todo'[t] = Preamble(c) /\ k'[t] = 0
      BY <1>3, <2>2 DEF Inside
    <3>2. Known(c) /\ c \in Calls
      <4>1. c \in Calls
        BY TaskSteps DEF MakeCall, HostTyped
      <4> QED
        BY <1>0, <3>1, <4>1 DEF MakeCall, Dispatch, Miss, TypeOK, Known
    <3>3. \A j \in DOMAIN Body(t)' : j \in Nat /\ ~(j < 0)
      <4>1. Schemes[Entry(c)] \in Seq(SchemeCall)
        BY <3>2, ConstantsAssumption DEF Known, PartFound
      <4> QED
        BY <3>1, <4>1 DEF Body
    <3> QED
      BY <3>1, <3>3
  <2> QED
    BY <2>1, <2>2 DEF AllocatesInTurn
<1>6. \A u \in Threads : pc'[u] = "init" <=> pc[u] = "init"
  BY <1>1, <1>3
<1>7. Undefinedness'
  BY <1>1, <1>6 DEF OrderlyInv, Undefinedness, StateReady
<1>8. StageInOrder' /\ StagesAllocate' /\ RemainingReady'
  BY <1>1, StageStands DEF StateIn, StateReady
<1> QED
  BY <1>4, <1>5, <1>7, <1>8 DEF OrderlyInv

(* A thread goes on inside the cap.                                         *)
LEMMA ProceedOrderly ==
  ASSUME IInv, HostTyped, OrderlyInv, NEW t \in Threads, Proceed(t)
  PROVE  OrderlyInv'
<1>1. Inner(t) /\ UNCHANGED <<plan, stage, pending, rest, stopped, ran>>
  BY DEF Proceed, host_vars
<1>2. /\ \A s \in Slots : StateIn(s)' = StateIn(s)
      /\ allocated \subseteq allocated' /\ (StateReady => StateReady') /\ Undefinedness'
  BY <1>1, InnerKeeps DEF OrderlyInv
<1>3. FrameOfTask' /\ AllocatesInTurn'
  BY <1>1, <1>2, InnerFrame, InnerAllocates DEF OrderlyInv
<1>4. StageInOrder' /\ StagesAllocate' /\ RemainingReady'
  BY <1>1, <1>2, StageStands
<1> QED
  BY <1>2, <1>3, <1>4 DEF OrderlyInv

(* A thread that is inside and has seen an error, or none.                  *)
LEMMA ReturnKind ==
  ASSUME IInv, HostTyped, OrderlyInv, NEW t \in Threads, CallReturns(t), stopped' = "none"
  PROVE  Inside(t) /\ pc[t] = "set" /\ errflg[t] = 0 /\ Calling(t)
<1>1. pc[t] \in {"set", "miss"} /\ errflg[t] = 0
  BY DEF CallReturns, Return, OrderlyInv, FrameOfTask
<1> QED
  BY <1>1 DEF Inside, OrderlyInv, FrameOfTask, HostTyped

(* A call ends without error.                                               *)
LEMMA CallReturnsOrderly ==
  ASSUME IInv, HostTyped, OrderlyInv, NEW t \in Threads, CallReturns(t), stopped' = "none"
  PROVE  OrderlyInv'
<1>0. TypeOK
  BY DEF IInv
<1>1. Inside(t) /\ pc[t] = "set" /\ errflg[t] = 0 /\ Calling(t)
  BY ReturnKind
<1>2. /\ UNCHANGED <<plan, stage, pending, allocated, todo>>
      /\ pc'[t] = "idle" /\ errflg'[t] = 0 /\ cause'[t] = "none"
      /\ \A u \in Threads : u # t => /\ pc'[u] = pc[u] /\ call'[u] = call[u] /\ k'[u] = k[u]
                                     /\ errflg'[u] = errflg[u]
                                     /\ cause'[u] = cause[u]
  BY <1>0 DEF CallReturns, Return, TypeOK
<1>3. PICK r : r = rest[t]
  OBVIOUS
<1>4. /\ r \in Seq(Calls) /\ r # <<>> /\ rest'[t] = Tail(r) /\ Tail(r) \in Seq(Calls)
      /\ \A u \in Threads : u # t => rest'[u] = rest[u]
  BY <1>1, <1>3, TailPlaces DEF HostTyped, CallReturns, Calling
<1>5. call[t] = Head(r) /\ Known(Head(r)) /\ Head(r) \in Calls
  BY <1>1, <1>3 DEF OrderlyInv, FrameOfTask, IInv, InsideKnown, Known, TypeOK
<1>6. /\ ToSet(Tail(r)) \subseteq ToSet(r) /\ Head(r) \in ToSet(r)
      /\ \A c \in ToSet(r) : c = Head(r) \/ c \in ToSet(Tail(r))
  BY <1>4, TailCalls
<1>7. FrameOfTask'
  BY <1>2, <1>4 DEF OrderlyInv, FrameOfTask, Inside
<1>8. AllocatesInTurn'
  <2>1. ~Inside(t)'
    BY <1>2 DEF Inside
  <2>2. \A u \in Threads : u # t => Body(u)' = Body(u) /\ (Inside(u)' => Inside(u))
    BY <1>2 DEF Body, Inside
  <2> QED
    BY <1>2, <2>1, <2>2 DEF OrderlyInv, AllocatesInTurn
<1>9. Allocs(call[t]) \subseteq allocated
  BY <1>1 DEF OrderlyInv, AllocatesInTurn
<1>10. suite_state' = (IF ~Sets(call[t]) THEN suite_state
                       ELSE [suite_state EXCEPT ![Slot(call[t])] = SetState[call[t].fn]])
  BY <1>1 DEF CallReturns, Return, AssignedState, Sets
<1>11. StateReady => StateReady'
  <2>1. Sets(call[t]) => SetState[call[t].fn] # "undefined"
    BY <1>5, StateTables DEF Sets, Calls, States, NoState
  <2> QED
    BY <1>0, <1>2, <1>10, <2>1 DEF StateReady, TypeOK
<1>12. Undefinedness'
  <2>1. \A u \in Threads : pc'[u] = "init" <=> pc[u] = "init"
    BY <1>1, <1>2
  <2>2. ASSUME Sets(call[t])
        PROVE  StateArray \in allocated /\ \A u \in Threads : pc[u] # "init"
    <3>1. UsesState(call[t].fn)
      BY <2>2 DEF UsesState, Sets
    <3>2. StateArray \in allocated
      BY <1>5, <1>9, <3>1, AllocsType DEF Known, IInv, StateProvided
    <3>3. \A u \in Threads : pc[u] # "init"
      BY <1>1, <3>1, InitAlone
    <3> QED
      BY <3>2, <3>3
  <2>3. CASE Sets(call[t])
    BY <1>2, <1>11, <2>1, <2>2, <2>3 DEF OrderlyInv, Undefinedness
  <2>4. CASE ~Sets(call[t])
    BY <1>2, <1>10, <1>11, <2>1, <2>4 DEF OrderlyInv, Undefinedness
  <2> QED
    BY <2>3, <2>4
<1>13. \A q : Apart(r, q) => Apart(Tail(r), q)
  BY <1>6 DEF Apart, AllChanged, AllInvolved
<1>14. \A u \in Threads : (Calling(u)' => Calling(u)) /\ (u # t /\ Calling(u) => Calling(u)')
  BY <1>1, <1>4 DEF Calling
<1>15. StageInOrder'
  <2>1. \A u \in Threads : u # t /\ Calling(u) => Apart(r, rest[u]) /\ Apart(rest[u], r)
    BY <1>1, <1>3 DEF OrderlyInv, StageInOrder
  <2>2. \A u \in Threads : u # t /\ Calling(u) => Apart(Tail(r), rest[u]) /\ Apart(rest[u], Tail(r))
    BY <1>13, <2>1 DEF Apart
  <2>3. \A u, v \in Threads : Calling(u)' /\ Calling(v)' /\ u # v =>
          Parallel(plan[stage]) /\ Apart(rest'[u], rest'[v])
    BY <1>4, <1>14, <2>2 DEF OrderlyInv, StageInOrder
  <2>4. \A u \in Threads : Calling(u)' =>
          /\ \A c \in ToSet(rest'[u]) : Known(c) => c \in CallsIn(plan[stage])
          /\ \A q \in pending : Parallel(plan[stage]) /\ Apart(rest'[u], q)
    BY <1>3, <1>4, <1>6, <1>13, <1>14 DEF OrderlyInv, StageInOrder
  <2> QED
    BY <1>2, <2>3, <2>4 DEF OrderlyInv, StageInOrder
<1>16. /\ \A q \in Remaining : q = r \/ (q \in Remaining' /\ Apart(r, q))
       /\ \A q \in Remaining' : q = Tail(r) \/ (q \in Remaining /\ Apart(r, q))
       /\ r \in Remaining /\ (Tail(r) # <<>> => Tail(r) \in Remaining')
       /\ \A q \in Remaining : q \in Seq(Calls)
  <2>1. \A u \in Threads : u # t /\ Calling(u) => Apart(r, rest[u])
    BY <1>1, <1>3 DEF OrderlyInv, StageInOrder
  <2>2. \A q \in pending : Apart(r, q)
    BY <1>1, <1>3 DEF OrderlyInv, StageInOrder
  <2>3. \A u \in Threads : Calling(u)' <=> rest'[u] # <<>>
    BY DEF Calling
  <2>4. \A q \in Remaining : q \in pending \/ \E u \in Threads : Calling(u) /\ q = rest[u]
    BY DEF Remaining
  <2>5. \A q \in Remaining' : q \in pending \/ \E u \in Threads : Calling(u)' /\ q = rest'[u]
    BY <1>2 DEF Remaining
  <2>6. \A u \in Threads : /\ Calling(u) => rest[u] \in Remaining
                           /\ Calling(u)' => rest'[u] \in Remaining'
    BY DEF Remaining
  <2>7. pending \subseteq Remaining /\ pending \subseteq Remaining'
    BY <1>2 DEF Remaining
  <2>8. \A q \in Remaining : q \in Seq(Calls)
    BY <2>4 DEF HostTyped
  <2>9. \A q \in Remaining : q = r \/ (q \in Remaining' /\ Apart(r, q))
    BY <1>3, <1>4, <1>14, <2>1, <2>2, <2>4, <2>6, <2>7
  <2>10. ASSUME NEW q \in Remaining', q # Tail(r) PROVE q \in Remaining /\ Apart(r, q)
    <3>1. CASE q \in pending
      BY <2>2, <2>7, <3>1
    <3>2. ASSUME NEW u \in Threads, Calling(u)', q = rest'[u]
          PROVE  q \in Remaining /\ Apart(r, q)
      <4>1. u # t
        BY <1>4, <2>10, <3>2
      <4>2. q = rest[u] /\ Calling(u)
        BY <1>4, <1>14, <3>2, <4>1
      <4>3. Apart(r, q)
        BY <2>1, <4>1, <4>2
      <4>4. q \in Remaining
        BY <4>2 DEF Remaining
      <4> QED
        BY <4>3, <4>4
    <3> QED
      BY <2>5, <3>1, <3>2
  <2>11. r \in Remaining
    BY <1>1, <1>3 DEF Remaining
  <2>12. ASSUME Tail(r) # <<>> PROVE Tail(r) \in Remaining'
    <3>1. Calling(t)'
      BY <1>4, <2>12, <2>3
    <3>2. rest'[t] \in Remaining'
      BY <3>1 DEF Remaining
    <3> QED
      BY <1>4, <3>2
  <2> QED
    BY <2>8, <2>9, <2>10, <2>11, <2>12
<1>17. StagesAllocate'
  <2>1. ASSUME NEW c \in CallsIn(plan[stage])
        PROVE  Allocs(c) \subseteq allocated \/ \E q \in Remaining' : c \in ToSet(q)
    <3>1. CASE \E q \in Remaining : c \in ToSet(q)
      <4>1. PICK q \in Remaining : c \in ToSet(q)
        BY <3>1
      <4>2. CASE q # r
        BY <1>16, <4>1, <4>2
      <4>3. CASE q = r /\ c = Head(r)
        BY <1>5, <1>9, <4>3
      <4>4. CASE q = r /\ c # Head(r)
        <5>1. c \in ToSet(Tail(r))
          BY <1>6, <4>1, <4>4
        <5>2. Tail(r) # <<>>
          BY <5>1 DEF ToSet
        <5> QED
          BY <1>16, <5>1, <5>2
      <4> QED
        BY <4>2, <4>3, <4>4
    <3> QED
      BY <3>1 DEF OrderlyInv, StagesAllocate
  <2> QED
    BY <1>2, <1>11, <2>1 DEF OrderlyInv, StagesAllocate
<1>18. \A x \in Keys :
         /\ \A v : <<x, v>> \in Leaves(Head(r)) => ValueOf(x)' = v
         /\ x \notin Changed(Head(r)) => ValueOf(x)' = ValueOf(x)
  BY <1>1, <1>5, ReturnEffect
<1>19. ASSUME NEW q \in Remaining', NEW j \in DOMAIN q PROVE Ready(q, j)'
  <2>1. CASE q = Tail(r)
    <3>1. PICK i : i = j
      OBVIOUS
    <3>2. i \in DOMAIN Tail(r) /\ i + 1 \in DOMAIN r
      BY <1>4, <1>19, <2>1, <3>1, TailPlaces
    <3>3. Ready(r, i + 1)
      BY <1>16, <3>2 DEF OrderlyInv, RemainingReady
    <3>4. Ready(Tail(r), i)'
      BY <1>4, <1>18, <3>2, <3>3, TailReady
    <3> QED
      BY <2>1, <3>1, <3>4
  <2>2. CASE q # Tail(r)
    <3>1. PICK s, i : s = q /\ i = j
      OBVIOUS
    <3>2. s \in Seq(Calls) /\ i \in DOMAIN s /\ Ready(s, i) /\ Apart(r, s)
      BY <1>16, <1>19, <2>2, <3>1 DEF OrderlyInv, RemainingReady
    <3>3. ASSUME NEW x \in Keys, x \in AllInvolved(s) PROVE ValueOf(x)' = ValueOf(x)
      <4>1. x \notin Changed(Head(r))
        BY <1>6, <3>2, <3>3 DEF Apart, AllChanged
      <4> QED
        BY <1>18, <4>1
    <3>4. Ready(s, i)'
      BY <3>2, <3>3, OthersReady
    <3> QED
      BY <3>1, <3>4
  <2> QED
    BY <2>1, <2>2
<1>20. ASSUME NEW x \in Keys, NEW v \in KeyValues, EntersWith(plan, stage + 1, x, v)
       PROVE  /\ (\A q \in Remaining' : Untouched(q, Len(q) + 1, x)) => ValueOf(x)' = v
              /\ \A q \in Remaining' :
                   Untouched(q, Len(q) + 1, x) \/ LeftAt(q, Len(q) + 1, x, v)
  <2>1. /\ (\A q \in Remaining : Untouched(q, Len(q) + 1, x)) => ValueOf(x) = v
        /\ \A q \in Remaining :
             Untouched(q, Len(q) + 1, x) \/ LeftAt(q, Len(q) + 1, x, v)
    BY <1>20 DEF OrderlyInv, RemainingReady
  <2> DEFINE s == Tail(r)
             n == Len(s) + 1
  <2>2. n \in Nat /\ n >= 1 /\ Len(r) + 1 = n + 1 /\ s \in Seq(Calls)
    BY <1>4, TailPlaces
  <2>3. /\ Untouched(r, n + 1, x) <=> x \notin Changed(Head(r)) /\ Untouched(s, n, x)
        /\ LeftAt(r, n + 1, x, v) =>
             LeftAt(s, n, x, v) \/ (<<x, v>> \in Leaves(Head(r)) /\ Untouched(s, n, x))
    BY <1>4, <2>2, TailLeaves
  <2>4. Untouched(r, n + 1, x) \/ LeftAt(r, n + 1, x, v)
    BY <1>16, <2>1, <2>2
  <2>5. s = <<>> => Untouched(s, n, x)
    BY DEF Untouched
  <2> HIDE DEF s, n
  <2>6. LeftAt(s, n, x, v) => ~Untouched(s, n, x)
    <3> SUFFICES ASSUME LeftAt(s, n, x, v) PROVE ~Untouched(s, n, x)
      OBVIOUS
    <3>1. s \in Seq(Calls)
      BY <2>2
    <3> QED
      BY <3>1, LeavingTouches
  <2>7. ASSUME \A q \in Remaining' : Untouched(q, Len(q) + 1, x)
        PROVE  ValueOf(x)' = v
    <3>1. Untouched(s, n, x)
      BY <1>16, <2>5, <2>7 DEF s, n
    <3>2. CASE LeftAt(r, n + 1, x, v)
      BY <1>18, <2>3, <2>6, <3>1, <3>2
    <3>3. CASE Untouched(r, n + 1, x)
      <4>1. \A q \in Remaining : Untouched(q, Len(q) + 1, x)
        BY <1>16, <2>2, <2>7, <3>3
      <4>2. x \notin Changed(Head(r))
        BY <2>3, <3>3
      <4> QED
        BY <1>18, <2>1, <4>1, <4>2
    <3> QED
      BY <2>4, <3>2, <3>3
  <2>8. ASSUME NEW q \in Remaining'
        PROVE  Untouched(q, Len(q) + 1, x) \/ LeftAt(q, Len(q) + 1, x, v)
    <3>1. CASE q = s
      <4>1. Untouched(s, n, x) \/ LeftAt(s, n, x, v)
        BY <2>3, <2>4
      <4> QED
        BY <3>1, <4>1 DEF n
    <3>2. CASE q # s
      BY <1>16, <2>1, <2>8, <3>2 DEF s
    <3> QED
      BY <3>1, <3>2
  <2> QED
    BY <2>7, <2>8
<1>21. RemainingReady'
  BY <1>2, <1>19, <1>20 DEF RemainingReady
<1> QED
  BY <1>7, <1>8, <1>12, <1>15, <1>17, <1>21 DEF OrderlyInv

(***************************************************************************)
(* All steps together.                                                     *)
(***************************************************************************)
(* Only the suite's groups run: other calls do not get into the cap.        *)
LEMMA RunsItsGroups ==
  ASSUME IInv, HostTyped, RanInWork, [HostNext]_vars
  PROVE  RanInWork'
<1>1. ASSUME NEW t \in Threads, CallReturns(t) PROVE RanInWork'
  <2> DEFINE c == call[t]
  <2>1. c \in Calls /\ ran' = Ran(t)
    BY <1>1 DEF CallReturns, HostTyped
  <2>2. ASSUME pc[t] = "set", c.fn = "run" PROVE {c.part} \X c.blks \subseteq Groups \X Blocks
    <3>1. Known(c)
      BY <2>2 DEF IInv, InsideKnown, Inside, Known
    <3>2. c.part \in Groups /\ c.blks \subseteq Blocks
      BY <2>1, <2>2, <3>1 DEF Known, PartFound, Entries, Entry, FlatPhases, Calls
    <3> QED
      BY <3>2
  <2>3. c.inst \in Instances
    BY <2>1 DEF Calls
  <2> HIDE DEF c
  <2>4. \/ ran' = ran \/ ran' = [ran EXCEPT ![c.inst] = {}]
        \/ /\ ran' = [ran EXCEPT ![c.inst] = @ \cup ({c.part} \X c.blks)]
           /\ pc[t] = "set" /\ c.fn = "run"
    BY <2>1 DEF Ran, c
  <2> QED
    BY <2>2, <2>3, <2>4 DEF RanInWork, HostTyped
<1>2. ASSUME UNCHANGED ran PROVE RanInWork'
  BY <1>2 DEF RanInWork
<1> QED
  BY <1>1, <1>2 DEF HostNext, ThreadStep, TakeTask, MakeCall, Proceed, NextStage, Ended, vars,
     host_vars

(* An orderly driver keeps to the contract of the suite cap.                *)
LEMMA OrderlyContract ==
  ASSUME OrderlyPlans, DriverInv, [HostNext]_vars
  PROVE  ContractKept
<1> SUFFICES ASSUME NEW t \in Threads, pc[t] = "idle", pc'[t] = "alloc"
             PROVE  Contract(t, call'[t])
  BY DEF ContractKept
<1>0. HostTyped /\ IInv
  BY DEF DriverInv
<1>1. ASSUME NEW v \in Threads, MakeCall(v) PROVE Contract(t, call'[t])
  <2>1. Head(rest[v]) \in Calls /\ Calling(v) /\ OrderlyInv
    BY <1>0, <1>1, TaskSteps DEF MakeCall, HostTyped, Calling, Going, DriverInv
  <2>2. v = t
    BY <1>0, <1>1, <2>1, PlaceType DEF MakeCall, HostTyped
  <2>3. Dispatch(t, Head(rest[t]))
    BY <1>0, <1>1, <2>2 DEF MakeCall, Miss, HostTyped
  <2>4. Known(Head(rest[t])) /\ call'[t] = Head(rest[t])
    BY <1>0, <2>3 DEF Dispatch, Known, HostTyped
  <2> QED
    BY <1>0, <2>1, <2>2, <2>4, OrderlyKeeps
<1>2. ASSUME NEW v \in Threads, Proceed(v) \/ CallReturns(v) PROVE FALSE
  <2>1. /\ Inner(v) \/ Return(v)
        /\ pc[v] # "idle"
    BY <1>0, <1>2, PlaceType DEF Proceed, CallReturns, HostTyped, Return
  <2>2. v # t
    BY <2>1
  <2>3. pc'[t] = pc[t]
    BY <1>0, <2>1, <2>2, PlaceType DEF HostTyped
  <2> QED
    BY <2>3
<1>3. ASSUME NEW v \in Threads, TakeTask(v) PROVE FALSE
  BY <1>3 DEF TakeTask, cap_vars
<1>4. ASSUME NextStage \/ UNCHANGED vars PROVE FALSE
  BY <1>4 DEF NextStage, vars, cap_vars
<1> QED
  BY <1>1, <1>2, <1>3, <1>4 DEF HostNext, ThreadStep, Ended

(* A state the driver comes to keeps everything; a stage is entered as      *)
(* EnteredInv says.                                                        *)
LEMMA DriverNext ==
  ASSUME OrderlyPlans, DriverInv, [HostNext]_vars, Entered' => StageInv'
  PROVE  DriverInv'
<1>1. HostTyped /\ IInv /\ HostTyped' /\ RanInWork'
  BY HostTypedNext, RunsItsGroups DEF DriverInv
<1>2. IInv'
  <2>1. [Next]_cap_vars
    BY <1>1, OrderlyContract, DriverStep
  <2> QED
    BY <1>1, <2>1, NextInv, StutterInv
<1>3. NoSpuriousRejection'
  <2> SUFFICES ASSUME NEW u \in Threads PROVE cause'[u] # "state"
    BY DEF NoSpuriousRejection
  <2>0. cause[u] # "state" /\ TypeOK
    BY <1>1 DEF DriverInv, NoSpuriousRejection, IInv
  <2>1. ASSUME NEW t \in Threads, Proceed(t), Check(t) PROVE cause'[u] # "state"
    <3>1. ~Mismatch(t)
      BY <1>1, <2>1, CheckPasses DEF DriverInv, OrderlyInv, Proceed, Going
    <3> QED
      BY <2>0, <2>1, <3>1 DEF Check, TypeOK
  <2>2. ASSUME NEW t \in Threads, Inner(t), ~Check(t) PROVE cause'[u] # "state"
    BY <2>0, <2>2 DEF Inner, TestAllocated, Allocate, InitState, Scheme, SchemeFails,
       SkipScheme, CallsDone, TypeOK
  <2>3. ASSUME NEW t \in Threads, MakeCall(t) PROVE cause'[u] # "state"
    BY <2>0, <2>3 DEF MakeCall, Dispatch, Miss, TypeOK
  <2>4. ASSUME NEW t \in Threads, CallReturns(t) PROVE cause'[u] # "state"
    BY <2>0, <2>4 DEF CallReturns, Return, TypeOK
  <2>5. ASSUME UNCHANGED cap_vars PROVE cause'[u] # "state"
    BY <2>0, <2>5 DEF cap_vars
  <2> QED
    BY <2>1, <2>2, <2>3, <2>4, <2>5
       DEF HostNext, ThreadStep, TakeTask, Proceed, NextStage, Ended, vars
<1>4. ASSUME stopped' = "none" PROVE OrderlyInv'
  <2>1. ASSUME NEW t \in Threads, TakeTask(t) PROVE OrderlyInv'
    BY <1>1, <2>1, TakeTaskOrderly DEF DriverInv, TakeTask, Going
  <2>2. ASSUME NEW t \in Threads, MakeCall(t) PROVE OrderlyInv'
    BY <1>1, <2>2, MakeCallOrderly DEF DriverInv, MakeCall, Going
  <2>3. ASSUME NEW t \in Threads, Proceed(t) PROVE OrderlyInv'
    BY <1>1, <2>3, ProceedOrderly DEF DriverInv, Proceed, Going
  <2>4. ASSUME NEW t \in Threads, CallReturns(t) PROVE OrderlyInv'
    BY <1>1, <1>4, <2>4, CallReturnsOrderly DEF DriverInv, CallReturns, Going
  <2>5. ASSUME NextStage PROVE OrderlyInv'
    <3>0. OrderlyInv
      BY <2>5 DEF DriverInv, NextStage, Going
    <3>1. StageInv'
      BY <1>1, <2>5, <3>0, NextStageEnters
    <3>2. (FrameOfTask /\ AllocatesInTurn /\ Undefinedness)'
      BY <2>5, <3>0 DEF NextStage, OrderlyInv, cap_vars, FrameOfTask, AllocatesInTurn,
         Undefinedness, Inside, Body, StateReady
    <3> QED
      BY <3>1, <3>2 DEF OrderlyInv, StageInv
  <2>6. ASSUME UNCHANGED vars PROVE OrderlyInv'
    <3>1. OrderlyInv /\ UNCHANGED <<plan, stage, pending, rest, ran>> /\ UNCHANGED cap_vars
      BY <1>4, <2>6 DEF DriverInv, vars, host_vars
    <3>2. (FrameOfTask /\ AllocatesInTurn /\ Undefinedness)'
      BY <3>1 DEF OrderlyInv, cap_vars, FrameOfTask, AllocatesInTurn,
         Undefinedness, Inside, Body, StateReady
    <3>3. StageInOrder' /\ StagesAllocate' /\ RemainingReady'
      <4>1. (\A s \in Slots : StateIn(s)' = StateIn(s)) /\ allocated \subseteq allocated'
            /\ (StateReady => StateReady')
        BY <3>1 DEF cap_vars, StateIn, StateReady
      <4> QED
        BY <1>1, <3>1, <4>1, StageStands
    <3> QED
      BY <3>2, <3>3 DEF OrderlyInv
  <2> QED
    BY <2>1, <2>2, <2>3, <2>4, <2>5, <2>6 DEF HostNext, ThreadStep, Ended
<1> QED
  BY <1>1, <1>2, <1>3, <1>4 DEF DriverInv

(* A driver whose plans are orderly keeps DriverInv, however its threads    *)
(* interleave: every remaining call will find what it demands.              *)
THEOREM OrderlyInvariance == OrderlyPlans => (HostSpec => []DriverInv)
<1> SUFFICES ASSUME OrderlyPlans PROVE HostSpec => []DriverInv
  OBVIOUS
<1>1. HostInit => DriverInv
  <2> SUFFICES ASSUME HostInit PROVE DriverInv
    OBVIOUS
  <2>1. HostTyped /\ IInv /\ OrderlyInv
    BY HostTypedInit, InitInv, HostInitOrderly DEF HostInit
  <2>2. NoSpuriousRejection /\ RanInWork
    BY DEF HostInit, Init, NoSpuriousRejection, RanInWork
  <2> QED
    BY <2>1, <2>2 DEF DriverInv
<1>2. Entered => StageInv
  BY EnteredInv
<1>3. DriverInv /\ [HostNext]_vars /\ (Entered' => StageInv') => DriverInv'
  BY DriverNext
<1> QED
  BY <1>1, <1>2, <1>3, PTL DEF HostSpec

(* No call of such a driver is told "Invalid initial CCPP state".           *)
THEOREM OrderlyAccepted == OrderlyPlans => (HostSpec => []NoSpuriousRejection)
<1>1. DriverInv => NoSpuriousRejection
  BY DEF DriverInv
<1> QED
  BY <1>1, OrderlyInvariance, PTL

(* Such a driver keeps to what the cap needs of overlapping calls.          *)
THEOREM OrderlyObeys == OrderlyPlans => (HostSpec => ObeysContract)
<1> SUFFICES ASSUME OrderlyPlans PROVE HostSpec => ObeysContract
  OBVIOUS
<1>1. DriverInv /\ [HostNext]_vars => ContractKept
  BY OrderlyContract
<1>2. ObeysContract <=> [][ContractKept]_vars
  BY PTL DEF ObeysContract, ContractKept
<1> QED
  BY <1>1, <1>2, OrderlyInvariance, PTL DEF HostSpec

(***************************************************************************)
(* The lives of the instances.                                             *)
(***************************************************************************)
OneLifeEach == MultiInstance \/ NumInstances = 1

(* While the driver goes on, the life of an instance is the state in its    *)
(* slot.                                                                   *)
LEMMA LifeIsState ==
  ASSUME OneLifeEach, ~MultiInstance => StateReady
  PROVE  /\ Slots = Instances /\ \A c \in Calls : Slot(c) = c.inst
         /\ \A i \in Instances : LifeOf(i) = StateIn(i)
<1>1. ~MultiInstance => Instances = {1}
  BY ConstantsAssumption DEF OneLifeEach, Instances
<1>2. Slots = Instances
  BY <1>1 DEF Slots
<1>3. \A c \in Calls : Slot(c) = c.inst
  BY <1>1 DEF Slot, Calls
<1>4. \A i \in Instances : LifeOf(i) = StateIn(i)
  BY <1>1, <1>2 DEF LifeOf, StateIn, StateReady
<1> QED
  BY <1>2, <1>3, <1>4

(* The return of a call, with or without an error of a scheme, is a step of *)
(* its instance's life, or none.                                           *)
LEMMA ReturnIsLife ==
  ASSUME OneLifeEach, DriverInv, OrderlyInv, NEW t \in Threads, CallReturns(t), pc[t] = "set"
  PROVE  [L!Next]_(L!vars)
<1> DEFINE c == call[t]
           i == call[t].inst
           life == [j \in Instances |-> LifeOf(j)]
<1>1. /\ c \in Calls /\ Known(c) /\ i \in Instances /\ c = Head(rest[t]) /\ Calling(t)
      /\ rest[t] \in Seq(Calls) /\ c.fn \in Phases /\ c.blks \subseteq Blocks
  BY DEF DriverInv, HostTyped, IInv, InsideKnown, Inside, Known, OrderlyInv, FrameOfTask, Calls
<1>2. ~MultiInstance => StateReady
  BY DEF OrderlyInv, StagesAllocate
<1>3. /\ Slots = Instances /\ Slot(c) = i
      /\ \A j \in Instances : life[j] = StateIn(j)
  BY <1>1, <1>2, LifeIsState
<1>4. suite_state' = IF Sets(c) THEN [suite_state EXCEPT ![i] = SetState[c.fn]]
                     ELSE suite_state
  BY <1>3 DEF CallReturns, Return, AssignedState, Sets
<1>5. Sets(c) => SetState[c.fn] # "undefined"
  BY <1>1, StateTables DEF Sets, States, NoState
<1>6. suite_state \in [Instances -> States \cup {"undefined"}]
  BY <1>3 DEF DriverInv, IInv, TypeOK
<1>7. ~MultiInstance => StateReady'
  BY <1>2, <1>3, <1>4, <1>5, <1>6 DEF StateReady, CallReturns, Return
<1>8. \A j \in Instances : life'[j] = StateIn(j)'
  <2>1. ~MultiInstance => Instances = {1}
    BY ConstantsAssumption DEF OneLifeEach, Instances
  <2> QED
    BY <1>3, <1>7, <2>1 DEF LifeOf, StateIn, StateReady
<1>9. life' = IF Sets(c) THEN [life EXCEPT ![i] = SetState[c.fn]] ELSE life
  BY <1>1, <1>3, <1>4, <1>5, <1>6, <1>8 DEF StateIn
<1>10. PICK way \in Demands(c) : \A e \in way : ValueOf(e[1]) = e[2]
  <2>1. rest[t] \in Remaining /\ rest[t] # <<>> /\ 1 \in DOMAIN rest[t]
    BY <1>1, TailPlaces DEF Remaining, Calling
  <2>2. Ready(rest[t], 1)
    BY <2>1 DEF OrderlyInv, RemainingReady
  <2> QED
    BY <1>1, <2>1, <2>2, HeadReady
<1>11. \A st : <<LifeKey(c), st>> \in way => life[i] = st
  <2> SUFFICES ASSUME NEW st, <<LifeKey(c), st>> \in way PROVE life[i] = st
    OBVIOUS
  <2>1. ValueOf(LifeKey(c)) = st
    BY <1>10
  <2> QED
    BY <1>1, <1>3, <2>1 DEF LifeKey, ValueOf
<1>12. /\ SetState[c.fn] = "in_time_step" <=> c.fn = "timestep_init"
       /\ Sets(c) <=> c.fn \in {"suite_initialize", "suite_finalize", "timestep_init",
                                "timestep_final"}
  BY <1>1 DEF SetState, NoState, Sets, Phases, FlatPhases, GroupPhases
<1>13. ran' = IF c.fn = "timestep_init" THEN [ran EXCEPT ![i] = {}]
              ELSE IF c.fn = "run" /\ errflg[t] = 0
                   THEN [ran EXCEPT ![i] = @ \cup ({c.part} \X c.blks)]
                   ELSE ran
  BY <1>12 DEF CallReturns, Ran, AssignedState
<1>14. ran \in [Instances -> SUBSET (Groups \X Blocks)]
  BY DEF DriverInv, HostTyped, RanInWork
<1> HIDE DEF c, i, life
<1>15. CASE c.fn \in {"suite_register", "group_init", "group_final"}
  BY <1>9, <1>12, <1>13, <1>15 DEF L!vars, life
<1>16. CASE c.fn = "suite_initialize"
  <2>1. SetState[c.fn] = "initialized" /\ life[i] = "uninitialized"
    BY <1>1, <1>11, <1>16 DEF SetState, Demands, CheckState, Phases, FlatPhases
  <2> QED
    BY <1>1, <1>9, <1>12, <1>13, <1>16, <2>1 DEF L!Next, L!Initialize, life
<1>17. CASE c.fn = "suite_finalize"
  <2>1. SetState[c.fn] = "uninitialized" /\ life[i] = "initialized"
    BY <1>1, <1>11, <1>17 DEF SetState, Demands, CheckState, Phases, FlatPhases
  <2> QED
    BY <1>1, <1>9, <1>12, <1>13, <1>17, <2>1 DEF L!Next, L!Finalize, life
<1>18. CASE c.fn = "timestep_init"
  <2>1. SetState[c.fn] = "in_time_step"
    BY <1>12, <1>18
  <2>2. \/ life[i] = "initialized"
        \/ life[i] = "in_time_step" /\ AllPieces(c) \X {"todo"} \subseteq way
    BY <1>1, <1>11, <1>18 DEF Demands
  <2>3. CASE life[i] = "initialized"
    BY <1>1, <1>9, <1>12, <1>13, <1>18, <2>1, <2>3 DEF L!Next, L!BeginStep, life
  <2>4. CASE life[i] = "in_time_step" /\ AllPieces(c) \X {"todo"} \subseteq way
    <3>1. ASSUME NEW w \in Groups \X Blocks PROVE w \notin ran[i]
      <4>1. <<<<i, {w}>>, "todo">> \in way
        BY <2>4 DEF AllPieces, i, c
      <4>2. ValueOf(<<i, {w}>>) = "todo"
        BY <1>10, <4>1
      <4> QED
        BY <4>2 DEF ValueOf
    <3>2. ran[i] = {}
      BY <1>1, <1>14, <3>1
    <3>3. ran' = ran
      BY <1>1, <1>13, <1>14, <1>18, <3>2
    <3>4. life' = life
      BY <1>1, <1>9, <2>1, <2>4 DEF life
    <3> QED
      BY <3>3, <3>4 DEF L!vars, life
  <2> QED
    BY <2>2, <2>3, <2>4
<1>19. CASE c.fn = "run"
  <2> DEFINE new == {c.part} \X c.blks
  <2>1. life[i] = "in_time_step" /\ Pieces(c) \X {"todo"} \subseteq way
    BY <1>1, <1>11, <1>19 DEF Demands
  <2>2. life' = life
    BY <1>9, <1>12, <1>19
  <2>3. CASE errflg[t] = 0 /\ new # {}
    <3>1. c.part \in Groups
      BY <1>1, <1>19 DEF Known, PartFound, Entries, Entry, FlatPhases
    <3>2. new \in SUBSET (Groups \X Blocks)
      BY <1>1, <3>1
    <3>3. ASSUME NEW b \in c.blks PROVE <<c.part, b>> \notin ran[i]
      <4>1. <<<<i, {<<c.part, b>>}>>, "todo">> \in way
        BY <2>1 DEF Pieces, i, c
      <4>2. ValueOf(<<i, {<<c.part, b>>}>>) = "todo"
        BY <1>10, <4>1
      <4> QED
        BY <4>2 DEF ValueOf
    <3>4. new \cap ran[i] = {}
      BY <3>3
    <3>5. ran' = [ran EXCEPT ![i] = @ \cup new]
      BY <1>13, <1>19, <2>3
    <3> HIDE DEF new
    <3>6. L!RunPart(i, new)
      BY <2>1, <2>2, <2>3, <3>4, <3>5 DEF L!RunPart, life
    <3> QED
      BY <1>1, <3>2, <3>6 DEF L!Next
  <2>4. CASE errflg[t] # 0 \/ new = {}
    <3>1. ran' = ran
      BY <1>1, <1>13, <1>14, <1>19, <2>4
    <3> QED
      BY <2>2, <3>1 DEF L!vars, life
  <2> QED
    BY <2>3, <2>4
<1>20. CASE c.fn = "timestep_final"
  <2>1. SetState[c.fn] = "initialized"
    BY <1>1, <1>20 DEF SetState
  <2>2. \/ life[i] = "initialized"
        \/ life[i] = "in_time_step" /\ AllPieces(c) \X {"done"} \subseteq way
    BY <1>1, <1>11, <1>20 DEF Demands
  <2>3. CASE life[i] = "initialized"
    <3>1. life' = life /\ ran' = ran
      BY <1>1, <1>9, <1>13, <1>20, <2>1, <2>3 DEF life
    <3> QED
      BY <3>1 DEF L!vars, life
  <2>4. CASE life[i] = "in_time_step" /\ AllPieces(c) \X {"done"} \subseteq way
    <3>1. ASSUME NEW w \in Groups \X Blocks PROVE w \in ran[i]
      <4>1. <<<<i, {w}>>, "done">> \in way
        BY <2>4 DEF AllPieces, i, c
      <4>2. ValueOf(<<i, {w}>>) = "done"
        BY <1>10, <4>1
      <4> QED
        BY <4>2 DEF ValueOf
    <3>2. ran[i] = Groups \X Blocks
      BY <1>1, <1>14, <3>1
    <3> QED
      BY <1>1, <1>9, <1>12, <1>13, <1>20, <2>1, <2>4, <3>2 DEF L!Next, L!EndStep, life
  <2> QED
    BY <2>2, <2>3, <2>4
<1> QED
  BY <1>1, <1>15, <1>16, <1>17, <1>18, <1>19, <1>20 DEF Phases, FlatPhases, GroupPhases

(* Nothing else the driver does is noticed by the instances.                *)
LEMMA LifeStep ==
  ASSUME OneLifeEach, DriverInv, [HostNext]_vars
  PROVE  [L!Next]_(L!vars)
<1>1. ASSUME UNCHANGED suite_state, UNCHANGED ran PROVE UNCHANGED L!vars
  BY <1>1 DEF L!vars, LifeOf
<1>2. ASSUME NEW t \in Threads, TakeTask(t) \/ MakeCall(t) PROVE UNCHANGED L!vars
  BY <1>1, <1>2 DEF TakeTask, MakeCall, Dispatch, Miss, cap_vars, module_vars, host_vars
<1>3. ASSUME NEW t \in Threads, Proceed(t) PROVE UNCHANGED L!vars
  <2>1. OrderlyInv /\ IInv /\ Inner(t) /\ UNCHANGED ran
    BY <1>3 DEF Proceed, Going, DriverInv, host_vars
  <2>2. (\A s \in Slots : StateIn(s)' = StateIn(s)) /\ (StateReady => StateReady')
    BY <2>1, InnerKeeps DEF OrderlyInv
  <2>3. ~MultiInstance => StateReady /\ StateReady'
    BY <2>1, <2>2 DEF OrderlyInv, StagesAllocate
  <2>4. ~MultiInstance => Instances = {1}
    BY ConstantsAssumption DEF OneLifeEach, Instances
  <2>5. \A i \in Instances : LifeOf(i)' = LifeOf(i)
    BY <2>2, <2>3, <2>4 DEF LifeOf, StateIn, StateReady, Slots
  <2> QED
    BY <2>1, <2>5 DEF L!vars
<1>4. ASSUME NEW t \in Threads, CallReturns(t) PROVE [L!Next]_(L!vars)
  <2>1. pc[t] \in {"set", "miss"} /\ OrderlyInv
    BY <1>4 DEF CallReturns, Return, Going, DriverInv
  <2>2. CASE pc[t] = "set"
    BY <1>4, <2>1, <2>2, ReturnIsLife
  <2>3. CASE pc[t] = "miss"
    <3>1. AssignedState(t) = NoState /\ NoState # "in_time_step"
      BY <2>3 DEF AssignedState, NoState
    <3>2. UNCHANGED suite_state /\ UNCHANGED ran
      BY <1>4, <2>3, <3>1 DEF CallReturns, Return, Ran
    <3> QED
      BY <1>1, <3>2
  <2> QED
    BY <2>1, <2>2, <2>3
<1>5. ASSUME NextStage \/ UNCHANGED vars PROVE UNCHANGED L!vars
  BY <1>1, <1>5 DEF NextStage, vars, cap_vars, host_vars
<1> QED
  BY <1>2, <1>3, <1>4, <1>5 DEF HostNext, ThreadStep, Ended

(* An orderly driver gives every instance the life Lifecycle promises, with *)
(* any number of threads, instances, groups and blocks of columns: no time  *)
(* step ends before all its work has run, and no piece of it runs twice.    *)
THEOREM OrderlyImplements ==
  OrderlyPlans /\ OneLifeEach => (HostSpec => ImplementsLifecycle)
<1> SUFFICES ASSUME OrderlyPlans, OneLifeEach PROVE HostSpec => ImplementsLifecycle
  OBVIOUS
<1>1. HostInit => L!Init
  <2> SUFFICES ASSUME HostInit PROVE L!Init
    OBVIOUS
  <2>1. ~MultiInstance => 1 \in Slots
    BY DEF Slots
  <2>2. \A i \in Instances : LifeOf(i) = "uninitialized"
    BY <2>1 DEF HostInit, Init, LifeOf, Slots
  <2> QED
    BY <2>2 DEF HostInit, L!Init
<1>2. DriverInv /\ [HostNext]_vars => [L!Next]_(L!vars)
  BY LifeStep
<1> QED
  BY <1>1, <1>2, OrderlyInvariance, PTL DEF HostSpec, ImplementsLifecycle, L!Spec

(***************************************************************************)
(* The values of one instance.                                             *)
(***************************************************************************)
OneInstance == NumInstances = 1
PlansWriteBeforeReading == \A p \in Plans : WritesFirst(p)

(***************************************************************************)
(* What a call is supplied with.                                           *)
(***************************************************************************)
(* The schemes of a known call.                                             *)
LEMMA BodyType ==
  ASSUME NEW c \in Calls, Known(c)
  PROVE  /\ BodyOf(c) \in Seq(SchemeCall)
         /\ DOMAIN BodyOf(c) = 1..Len(BodyOf(c)) /\ Len(BodyOf(c)) \in Nat
         /\ \A n \in DOMAIN BodyOf(c) : /\ BodyOf(c)[n].reads \subseteq Owned
                                        /\ BodyOf(c)[n].writes \subseteq Owned
<1>1. Entry(c) \in Entries
  BY DEF Known, PartFound
<1>2. BodyOf(c) \in Seq(SchemeCall)
  BY <1>1, ConstantsAssumption DEF BodyOf
<1>3. \A n \in DOMAIN BodyOf(c) : BodyOf(c)[n] \in SchemeCall
  BY <1>2
<1> QED
  BY <1>2, <1>3 DEF SchemeCall

(* More arrays and more cells supply no less.                               *)
LEMMA SuppliedMore ==
  ASSUME NEW q, NEW j, NEW A, NEW B, NEW W, NEW V, A \subseteq B, W \subseteq V,
         SuppliedIn(q, j, A, W)
  PROVE  SuppliedIn(q, j, B, V)
<1> DEFINE allocs == UNION {Allocs(c) : c \in KnownAhead(q, j)}
           writes == UNION {Writes(c) : c \in KnownAhead(q, j)}
<1> SUFFICES ASSUME Known(q[j]), NEW n \in DOMAIN BodyOf(q[j])
             PROVE  Supplied(q[j], n, B \cup allocs, V \cup writes)
  BY DEF SuppliedIn
<1>1. Supplied(q[j], n, A \cup allocs, W \cup writes)
  BY DEF SuppliedIn
<1> HIDE DEF allocs, writes
<1> QED
  BY <1>1 DEF Supplied

(* Once the first call of a task has allocated and written what it does,    *)
(* the others are supplied as they were with it ahead of them.              *)
LEMMA SuppliedTail ==
  ASSUME NEW q \in Seq(Calls), q # <<>>, NEW i \in DOMAIN Tail(q), NEW A, NEW W,
         SuppliedIn(q, i + 1, A, W),
         Allocs(Head(q)) \subseteq A, Writes(Head(q)) \subseteq W
  PROVE  SuppliedIn(Tail(q), i, A, W)
<1> DEFINE r == Tail(q)
<1>0. /\ Head(q) = q[1] /\ DOMAIN r = 1..Len(r) /\ Len(r) \in Nat
      /\ \A m \in DOMAIN r : m + 1 \in DOMAIN q /\ r[m] = q[m + 1]
      /\ \A m \in DOMAIN q : m = 1 \/ (m - 1 \in DOMAIN r /\ q[m] = r[m - 1])
      /\ DOMAIN q = 1..Len(q) /\ Len(q) \in Nat
  BY TailPlaces
<1>1. r[i] = q[i + 1] /\ i \in Nat
  BY <1>0
<1> HIDE DEF r
<1>2. \A c \in KnownAhead(q, i + 1) : c = Head(q) \/ c \in KnownAhead(r, i)
  <2> SUFFICES ASSUME NEW m \in DOMAIN q, m < i + 1, Known(q[m]), m # 1
               PROVE  q[m] \in KnownAhead(r, i)
    BY <1>0 DEF KnownAhead
  <2>1. m - 1 \in DOMAIN r /\ q[m] = r[m - 1] /\ m - 1 < i
    BY <1>0, <1>1
  <2> QED
    BY <2>1 DEF KnownAhead
<1> DEFINE allocs(s, j) == UNION {Allocs(c) : c \in KnownAhead(s, j)}
           writes(s, j) == UNION {Writes(c) : c \in KnownAhead(s, j)}
<1>3. A \cup allocs(q, i + 1) \subseteq A \cup allocs(r, i)
  BY <1>2
<1>4. W \cup writes(q, i + 1) \subseteq W \cup writes(r, i)
  BY <1>2
<1>5. ASSUME Known(r[i]), NEW n \in DOMAIN BodyOf(r[i])
      PROVE  Supplied(r[i], n, A \cup allocs(r, i), W \cup writes(r, i))
  <2>1. Supplied(r[i], n, A \cup allocs(q, i + 1), W \cup writes(q, i + 1))
    BY <1>1, <1>5 DEF SuppliedIn
  <2> HIDE DEF allocs, writes
  <2> QED
    BY <1>3, <1>4, <2>1 DEF Supplied
<1>6. SuppliedIn(r, i, A, W)
  BY <1>5 DEF SuppliedIn
<1> QED
  BY <1>6 DEF r

(* A call that is the first of what is left of its task has to be supplied   *)
(* by what has been done already.                                           *)
LEMMA HeadSupplied ==
  ASSUME NEW q \in Seq(Calls), q # <<>>, NEW A, NEW W, SuppliedIn(q, 1, A, W),
         Known(Head(q)), NEW n \in DOMAIN BodyOf(Head(q))
  PROVE  Supplied(Head(q), n, A, W)
<1>1. q[1] = Head(q) /\ DOMAIN q = 1..Len(q) /\ Len(q) \in Nat
  BY TailPlaces
<1>2. KnownAhead(q, 1) = {}
  BY <1>1 DEF KnownAhead
<1>3. Supplied(Head(q), n, A \cup UNION {Allocs(c) : c \in {}}, W \cup UNION {Writes(c) : c \in {}})
  BY <1>1, <1>2 DEF SuppliedIn
<1>4. UNION {Allocs(c) : c \in {}} = {} /\ UNION {Writes(c) : c \in {}} = {}
  OBVIOUS
<1>5. A \cup {} = A /\ W \cup {} = W
  OBVIOUS
<1> QED
  BY <1>3, <1>4, <1>5

(* What the schemes ahead of the next one, or of the end, have written.     *)
LEMMA WrittenInTurn ==
  ASSUME NEW c \in Calls, Known(c), NEW n \in Nat
  PROVE  /\ n \in {0, 1} => WrittenAhead(c, n) = {}
         /\ n \in DOMAIN BodyOf(c) =>
              WrittenAhead(c, n + 1) \subseteq
                WrittenAhead(c, n) \cup (BodyOf(c)[n].writes \X c.blks)
         /\ n \notin DOMAIN BodyOf(c) /\ n # 0 => Writes(c) \subseteq WrittenAhead(c, n)
<1> DEFINE body == BodyOf(c)
<1>1. DOMAIN body = 1..Len(body) /\ Len(body) \in Nat
  BY BodyType
<1> HIDE DEF body
<1>2. n \in {0, 1} => WrittenAhead(c, n) = {}
  <2> SUFFICES ASSUME n \in {0, 1} PROVE WrittenAhead(c, n) = {}
    OBVIOUS
  <2>1. SchemesAhead(c, n) = {}
    BY <1>1 DEF SchemesAhead, body
  <2> QED
    BY <2>1 DEF WrittenAhead
<1>3. ASSUME n \in DOMAIN body
      PROVE  WrittenAhead(c, n + 1) \subseteq WrittenAhead(c, n) \cup (body[n].writes \X c.blks)
  <2>1. \A m \in DOMAIN body : m < n + 1 => m < n \/ m = n
    BY <1>1
  <2>2. \A e \in SchemesAhead(c, n + 1) : e \in SchemesAhead(c, n) \/ e = body[n]
    BY <2>1 DEF SchemesAhead, body
  <2> QED
    BY <2>2 DEF WrittenAhead
<1>4. ASSUME n \notin DOMAIN body, n # 0 PROVE Writes(c) \subseteq WrittenAhead(c, n)
  <2>1. \A m \in DOMAIN body : m < n
    BY <1>1, <1>4
  <2>2. \A m \in DOMAIN body : body[m] \in SchemesAhead(c, n)
    BY <2>1 DEF SchemesAhead, body
  <2> QED
    BY <2>2 DEF Writes, WrittenAhead, body
<1> QED
  BY <1>2, <1>3, <1>4 DEF body

(***************************************************************************)
(* Inside the cap.                                                         *)
(***************************************************************************)
(* The call a thread is in, where the task it belongs to has come to.       *)
LEMMA CallInside ==
  ASSUME IInv, HostTyped, FrameOfTask, NEW t \in Threads, Inside(t)
  PROVE  /\ call[t] \in Calls /\ Known(call[t]) /\ call[t] = Head(rest[t])
         /\ rest[t] \in Seq(Calls) /\ rest[t] # <<>> /\ rest[t] \in Remaining
         /\ 1 \in DOMAIN rest[t] /\ k[t] \in Nat
         /\ Body(t) = BodyOf(call[t])
<1>1. pc[t] # "idle"
  BY DEF Inside
<1>2. Calling(t) /\ rest[t] \in Seq(Calls)
  BY <1>1 DEF HostTyped
<1>3. rest[t] # <<>> /\ rest[t] \in Remaining
  BY <1>2 DEF Calling, Remaining
<1>4. 1 \in DOMAIN rest[t]
  BY <1>2, <1>3, TailPlaces
<1>5. call[t] \in Calls /\ Known(call[t]) /\ call[t] = Head(rest[t]) /\ k[t] \in Nat
  BY DEF HostTyped, FrameOfTask, IInv, TypeOK, InsideKnown, Known
<1> QED
  BY <1>2, <1>3, <1>4, <1>5 DEF Body, BodyOf

(* A scheme that is about to be called has what it touches.                 *)
LEMMA SchemeSupplied ==
  ASSUME IInv, HostTyped, FrameOfTask, AllocatesInTurn, WritesInTurn, RemainingSupplied,
         NEW t \in Threads, AtScheme(t), errflg[t] = 0
  PROVE  /\ Touched(t) \subseteq allocated \cup OwnedScalars
         /\ Body(t)[k[t]].reads \X call[t].blks \subseteq Holding
         /\ Body(t)[k[t]].writes \cap OwnedScalars # {} => call[t].blks = Blocks
<1> DEFINE c == call[t]
<1>1. Inside(t) /\ todo[t] = {} /\ k[t] \in DOMAIN Body(t) /\ k[t] # 0
  BY DEF AtScheme, Inside, IInv, InsideKnown
<1>2. /\ c \in Calls /\ Known(c) /\ c = Head(rest[t]) /\ rest[t] \in Seq(Calls)
      /\ rest[t] # <<>> /\ rest[t] \in Remaining /\ 1 \in DOMAIN rest[t]
      /\ k[t] \in Nat /\ Body(t) = BodyOf(c)
  BY <1>1, CallInside
<1>3. SuppliedIn(rest[t], 1, allocated, Holding)
  BY <1>2 DEF RemainingSupplied
<1>4. Supplied(c, k[t], allocated, Holding)
  BY <1>1, <1>2, <1>3, HeadSupplied
<1>5. AllocatedAhead(c, k[t]) \subseteq allocated
  <2>1. \A e \in SchemesAhead(c, k[t]) : e.allocs \subseteq allocated
    BY <1>1, <1>2 DEF SchemesAhead, AllocatesInTurn
  <2>2. Preamble(c) \subseteq allocated
    BY <1>1 DEF AllocatesInTurn
  <2> QED
    BY <2>1, <2>2 DEF AllocatedAhead
<1>6. WrittenAhead(c, k[t]) \subseteq Holding
  BY <1>1 DEF WritesInTurn
<1> QED
  BY <1>2, <1>4, <1>5, <1>6 DEF Supplied, Touched

(* A scheme leaves the values of the one instance in the cells it writes,   *)
(* and takes none away: those of a scalar are for all columns.              *)
LEMMA SchemeHolds ==
  ASSUME OneInstance, IInv, HostTyped, OrderlyInv, SuppliesInv, NEW t \in Threads, Scheme(t)
  PROVE  /\ Holding \subseteq Holding'
         /\ Body(t)[k[t]].writes \X call[t].blks \subseteq Holding'
         /\ HeldIsAllocated'
         /\ fault' = fault
<1> DEFINE c == call[t]
           w == Body(t)[k[t]].writes
<1>1. AtScheme(t) /\ errflg[t] = 0 /\ Inside(t) /\ k[t] \in DOMAIN Body(t)
  BY DEF Scheme, AtScheme, Inside
<1>2. c \in Calls /\ Known(c) /\ Body(t) = BodyOf(c)
  BY <1>1, CallInside DEF OrderlyInv
<1>3. /\ Touched(t) \subseteq allocated \cup OwnedScalars
      /\ w \cap OwnedScalars # {} => c.blks = Blocks
  BY <1>1, SchemeSupplied DEF OrderlyInv, SuppliesInv
<1>4. w \subseteq Owned /\ w \subseteq allocated \cup OwnedScalars
  BY <1>1, <1>2, <1>3, BodyType DEF Touched
<1>5. c.inst = 1 /\ c.blks \subseteq Blocks
  BY <1>2 DEF OneInstance, Calls, Instances
<1>6. /\ fault' = fault /\ allocated' = allocated
      /\ \A v \in Owned : \A b \in Blocks :
           data'[v][b] = IF v \in w /\ b \in Written(v, c) THEN Tag(c) ELSE data[v][b]
  BY <1>3 DEF Scheme, Advance
<1> HIDE DEF w, c
<1>7. \A v \in w : Written(v, c) = c.blks
  BY <1>3, <1>4 DEF Written
<1>8. Tag(c).inst = 1 /\ Tag(c).blks = c.blks
  BY <1>5 DEF Tag
<1>9. ASSUME NEW v \in Owned, NEW b \in Blocks
      PROVE  /\ v \in w /\ b \in c.blks => data'[v][b].inst = 1 /\ b \in data'[v][b].blks
             /\ ~(v \in w /\ b \in c.blks) => data'[v][b] = data[v][b]
  BY <1>6, <1>7, <1>8
<1>10. \A x \in Owned \X Blocks :
         x \in Holding' <=> x \in Holding \/ (x[1] \in w /\ x[2] \in c.blks)
  BY <1>9 DEF Holding
<1>11. Holding \subseteq Holding' /\ w \X c.blks \subseteq Holding'
  BY <1>4, <1>5, <1>10 DEF Holding
<1>12. HeldIsAllocated'
  <2>1. Holding' \subseteq Owned \X Blocks
    BY DEF Holding
  <2>2. \A x \in Holding' : x \in Holding \/ x[1] \in w
    BY <1>10, <2>1
  <2> QED
    BY <1>4, <1>6, <2>2 DEF HeldIsAllocated, SuppliesInv
<1> QED
  BY <1>6, <1>11, <1>12 DEF w, c

(* Nothing a thread does inside the cap takes a value away: what is         *)
(* allocated held none, and no scheme finds an array unallocated.           *)
LEMMA InnerHolds ==
  ASSUME OneInstance, IInv, HostTyped, OrderlyInv, SuppliesInv, NEW t \in Threads, Inner(t)
  PROVE  /\ Holding \subseteq Holding'
         /\ HeldIsAllocated'
         /\ fault # "unallocated_owned" => fault' # "unallocated_owned"
<1>0. TypeOK
  BY DEF IInv
<1>1. CASE Allocate(t)
  <2>1. cur[t] \notin allocated /\ cur[t] \in (Owned \ OwnedScalars) \cup {StateArray, NoArray}
    BY <1>0, <1>1 DEF Allocate, IInv, AboutToAllocate, TypeOK
  <2>2. /\ allocated' = allocated \cup {cur[t]} /\ fault' = fault
        /\ data' = data \/ data' = [data EXCEPT ![cur[t]] = [b \in Blocks |-> Undefined]]
    BY <1>1, <2>1 DEF Allocate
  <2>3. \A x \in Holding : x[1] # cur[t]
    <3>1. StateArray \notin Owned /\ NoArray \notin Owned
      BY ConstantsAssumption
    <3>2. \A x \in Holding : x[1] \in Owned /\ x[1] \in allocated \cup OwnedScalars
      BY DEF Holding, SuppliesInv, HeldIsAllocated
    <3> QED
      BY <2>1, <3>1, <3>2
  <2>4. data \in [Owned -> [Blocks -> Tags]]
    BY <1>0 DEF TypeOK
  <2>5. \A v \in Owned : \A b \in Blocks :
          data'[v][b] = data[v][b] \/ (v = cur[t] /\ data'[v][b] = Undefined)
    BY <2>2, <2>4
  <2>6. \A v \in Owned : v # cur[t] => data'[v] = data[v]
    BY <2>2, <2>4
  <2>7. Holding \subseteq Holding'
    BY <2>3, <2>6 DEF Holding
  <2>8. Holding' \subseteq Holding
    <3>1. Undefined.inst # 1
      BY DEF Undefined
    <3> QED
      BY <2>5, <3>1 DEF Holding
  <2> QED
    BY <2>2, <2>7, <2>8 DEF HeldIsAllocated, SuppliesInv
<1>2. CASE Scheme(t)
  BY <1>2, SchemeHolds
<1>3. CASE TestAllocated(t) \/ InitState(t) \/ Check(t) \/ SchemeFails(t) \/ SkipScheme(t)
           \/ CallsDone(t)
  <2>1. /\ data' = data /\ allocated' = allocated
        /\ fault' = fault \/ fault' = "unallocated_state"
    BY <1>3 DEF TestAllocated, InitState, Check, SchemeFails, SkipScheme, CallsDone,
       Advance, module_vars
  <2> QED
    BY <2>1 DEF Holding, HeldIsAllocated, SuppliesInv
<1> QED
  BY <1>1, <1>2, <1>3 DEF Inner

(* A call that has come past a scheme without an error has what it writes.   *)
LEMMA InnerWrites ==
  ASSUME OneInstance, IInv, HostTyped, OrderlyInv, SuppliesInv, NEW t \in Threads, Inner(t)
  PROVE  WritesInTurn'
<1> DEFINE c == call[t]
<1>0. TypeOK /\ FrameOfTask
  BY DEF IInv, OrderlyInv
<1>1. /\ call' = call /\ Inside(t)
      /\ \A u \in Threads : u # t => pc'[u] = pc[u] /\ k'[u] = k[u] /\ errflg'[u] = errflg[u]
  BY <1>0 DEF TypeOK, Inner, TestAllocated, Allocate, InitState, Check, Scheme, SchemeFails,
     SkipScheme, CallsDone, Advance, AtScheme, Inside, module_vars
<1>2. c \in Calls /\ Known(c) /\ Body(t) = BodyOf(c) /\ k[t] \in Nat
  BY <1>0, <1>1, CallInside
<1>3. Holding \subseteq Holding'
  BY InnerHolds
<1>4. errflg[t] = 0 => WrittenAhead(c, k[t]) \subseteq Holding
  BY <1>1 DEF SuppliesInv, WritesInTurn
<1>5. ASSUME errflg'[t] = 0
      PROVE  /\ WrittenAhead(c, k'[t]) \subseteq Holding'
             /\ pc'[t] = "set" => Writes(c) \subseteq Holding'
  <2>1. CASE TestAllocated(t) \/ Allocate(t) \/ InitState(t)
    <3>1. k' = k /\ errflg' = errflg /\ pc'[t] # "set"
      BY <1>0, <2>1 DEF TestAllocated, Allocate, InitState, TypeOK, Resume
    <3> QED
      BY <1>3, <1>4, <1>5, <3>1
  <2>2. CASE Check(t)
    <3>1. k'[t] = 1 /\ pc'[t] = "call"
      BY <1>0, <2>2 DEF Check, TypeOK
    <3>2. WrittenAhead(c, 1) = {}
      BY <1>2, WrittenInTurn
    <3> QED
      BY <3>1, <3>2
  <2>3. CASE Scheme(t)
    <3>1. k'[t] = k[t] + 1 /\ errflg[t] = 0 /\ pc'[t] = "call" /\ k[t] \in DOMAIN BodyOf(c)
      BY <1>0, <1>2, <2>3 DEF Scheme, Advance, AtScheme, TypeOK
    <3>2. BodyOf(c)[k[t]].writes \X c.blks \subseteq Holding'
      BY <1>2, <2>3, SchemeHolds
    <3>3. WrittenAhead(c, k[t] + 1) \subseteq
            WrittenAhead(c, k[t]) \cup (BodyOf(c)[k[t]].writes \X c.blks)
      BY <1>2, <3>1, WrittenInTurn
    <3> QED
      BY <1>3, <1>4, <3>1, <3>2, <3>3
  <2>4. CASE SchemeFails(t) \/ SkipScheme(t)
    BY <1>0, <1>5, <2>4 DEF SchemeFails, SkipScheme, TypeOK
  <2>5. CASE CallsDone(t)
    <3>1. k' = k /\ errflg' = errflg /\ k[t] \notin DOMAIN BodyOf(c) /\ pc[t] = "call"
      BY <1>2, <2>5 DEF CallsDone
    <3>2. k[t] # 0
      BY <1>1, <3>1 DEF IInv, InsideKnown
    <3>3. Writes(c) \subseteq WrittenAhead(c, k[t])
      BY <1>2, <3>1, <3>2, WrittenInTurn
    <3> QED
      BY <1>3, <1>4, <1>5, <3>1, <3>3
  <2> QED
    BY <2>1, <2>2, <2>3, <2>4, <2>5 DEF Inner
<1>6. ASSUME NEW u \in Threads, u # t, Inside(u)', errflg'[u] = 0
      PROVE  /\ WrittenAhead(call[u], k'[u]) \subseteq Holding'
             /\ pc'[u] = "set" => Writes(call[u]) \subseteq Holding'
  <2>1. Inside(u) /\ pc'[u] = pc[u] /\ k'[u] = k[u] /\ errflg[u] = 0
    BY <1>1, <1>6 DEF Inside
  <2> QED
    BY <1>3, <2>1 DEF SuppliesInv, WritesInTurn
<1>7. \A u \in Threads : WrittenAhead(call'[u], k'[u]) = WrittenAhead(call[u], k'[u])
  BY <1>1
<1> QED
  BY <1>1, <1>5, <1>6, <1>7 DEF WritesInTurn

(***************************************************************************)
(* The driver's steps.                                                     *)
(***************************************************************************)
(* A stage that is entered with what the plan has allocated and written     *)
(* supplies all its calls.                                                  *)
LEMMA StageSupplied ==
  ASSUME PlansWriteBeforeReading, NEW p \in Plans, NEW s \in DOMAIN p,
         NEW A, NEW W, AllocatedBy(p, s) \subseteq A, WrittenBy(p, s) \subseteq W
  PROVE  \A q \in p[s] : \A j \in DOMAIN q : SuppliedIn(q, j, A, W)
<1> SUFFICES ASSUME NEW q \in p[s], NEW j \in DOMAIN q PROVE SuppliedIn(q, j, A, W)
  OBVIOUS
<1>1. SuppliedIn(q, j, AllocatedBy(p, s), WrittenBy(p, s))
  BY DEF PlansWriteBeforeReading, WritesFirst
<1> QED
  BY <1>1, SuppliedMore

(* A driver begins with nothing written and nothing supplied but what the   *)
(* plan says.                                                               *)
LEMMA HostInitSupplies ==
  ASSUME PlansWriteBeforeReading, HostInit
  PROVE  SuppliesInv /\ fault # "unallocated_owned"
<1>1. /\ plan \in Plans /\ stage = 1 /\ stage \in DOMAIN plan /\ pending = plan[1]
      /\ Remaining = plan[1]
  BY StageType DEF HostInit, Remaining, Calling
<1>2. Holding = {}
  BY DEF Holding, HostInit, Init, Undefined
<1>3. \A t \in Threads : ~Inside(t)
  BY DEF HostInit, Init, Inside
<1>4. AllocatedBy(plan, 1) = {} /\ WrittenBy(plan, 1) = {}
  <2>1. 1..(1 - 1) = {}
    OBVIOUS
  <2> QED
    BY <2>1 DEF AllocatedBy, WrittenBy
<1>5. RemainingSupplied
  <2>1. \A q \in plan[1] : \A j \in DOMAIN q : SuppliedIn(q, j, allocated, Holding)
    BY <1>1, <1>4, StageSupplied
  <2> QED
    BY <1>1, <2>1 DEF RemainingSupplied
<1>6. StagesWrite
  BY <1>1, <1>4 DEF StagesWrite, CallsIn
<1> QED
  BY <1>2, <1>3, <1>5, <1>6 DEF SuppliesInv, HeldIsAllocated, WritesInTurn, HostInit, Init

(* Where no value is taken away and the calls that remain are the same, what *)
(* is written stays written and what was supplied stays so.                 *)
LEMMA SuppliesStand ==
  ASSUME SuppliesInv, UNCHANGED <<plan, stage>>, Holding \subseteq Holding',
         allocated \subseteq allocated', Remaining' \subseteq Remaining,
         Remaining \subseteq Remaining' \cup {<<>>}
  PROVE  StagesWrite' /\ RemainingSupplied'
<1>1. StagesWrite'
  <2>1. ToSet(<<>>) = {}
    BY DEF ToSet
  <2> QED
    BY <2>1 DEF SuppliesInv, StagesWrite
<1>2. ASSUME NEW q \in Remaining', NEW j \in DOMAIN q
      PROVE  SuppliedIn(q, j, allocated', Holding')
  <2>1. SuppliedIn(q, j, allocated, Holding)
    BY <1>2 DEF SuppliesInv, RemainingSupplied
  <2> QED
    BY <2>1, SuppliedMore
<1>3. RemainingSupplied'
  BY <1>2 DEF RemainingSupplied
<1> QED
  BY <1>1, <1>3

(* A step that leaves the cap's frames and the values as they are.          *)
LEMMA FramesStand ==
  ASSUME SuppliesInv, UNCHANGED cap_vars
  PROVE  HeldIsAllocated' /\ WritesInTurn' /\ Holding' = Holding
<1>1. Holding' = Holding
  BY DEF cap_vars, Holding
<1> QED
  BY <1>1 DEF cap_vars, SuppliesInv, HeldIsAllocated, WritesInTurn, Inside

(* A thread takes a task: the same calls remain.                            *)
LEMMA TakeTaskSupplies ==
  ASSUME HostTyped, SuppliesInv, NEW t \in Threads, TakeTask(t)
  PROVE  SuppliesInv'
<1>1. PICK task \in pending : rest' = [rest EXCEPT ![t] = task] /\ pending' = pending \ {task}
  BY DEF TakeTask
<1>2. UNCHANGED cap_vars /\ UNCHANGED <<plan, stage>> /\ ~Calling(t)
  BY DEF TakeTask, Calling
<1>3. rest'[t] = task /\ \A u \in Threads : u # t => rest'[u] = rest[u]
  BY <1>1 DEF HostTyped
<1>4. Remaining' \subseteq Remaining /\ Remaining \subseteq Remaining' \cup {<<>>}
  BY <1>1, <1>2, <1>3 DEF Remaining, Calling
<1>5. HeldIsAllocated' /\ WritesInTurn' /\ Holding' = Holding
  BY <1>2, FramesStand
<1>6. StagesWrite' /\ RemainingSupplied'
  BY <1>2, <1>4, <1>5, SuppliesStand DEF cap_vars
<1> QED
  BY <1>5, <1>6 DEF SuppliesInv

(* A thread enters the cap, or is turned away: it has written nothing yet.  *)
LEMMA MakeCallSupplies ==
  ASSUME IInv, HostTyped, SuppliesInv, NEW t \in Threads, MakeCall(t)
  PROVE  SuppliesInv'
<1> DEFINE c == Head(rest[t])
<1>0. TypeOK
  BY DEF IInv
<1>1. /\ UNCHANGED <<plan, stage, pending, rest, allocated, data>> /\ pc[t] = "idle"
      /\ \A u \in Threads : u # t => /\ pc'[u] = pc[u] /\ call'[u] = call[u] /\ k'[u] = k[u]
                                     /\ errflg'[u] = errflg[u]
  BY <1>0 DEF MakeCall, host_vars, Dispatch, Miss, module_vars, TypeOK
<1>2. c \in Calls
  BY TaskSteps DEF MakeCall, HostTyped
<1>3. \/ pc'[t] = "miss"
      \/ pc'[t] = "alloc" /\ call'[t] = c /\ Known(c) /\ k'[t] = k[t]
  BY <1>0, <1>2 DEF MakeCall, Dispatch, Miss, TypeOK, Known
<1>4. k[t] = 0
  BY <1>1 DEF IInv, OutsideUnchecked, Inside
<1>5. Holding' = Holding /\ Remaining' = Remaining
  BY <1>1 DEF Holding, Remaining, Calling
<1>6. WritesInTurn'
  <2>1. ASSUME NEW u \in Threads, u # t, Inside(u)', errflg'[u] = 0
        PROVE  /\ WrittenAhead(call'[u], k'[u]) \subseteq Holding
               /\ pc'[u] = "set" => Writes(call'[u]) \subseteq Holding
    <3>1. Inside(u) /\ call'[u] = call[u] /\ k'[u] = k[u] /\ pc'[u] = pc[u] /\ errflg[u] = 0
      BY <1>1, <2>1 DEF Inside
    <3> QED
      BY <3>1 DEF SuppliesInv, WritesInTurn
  <2>2. ASSUME Inside(t)'
        PROVE  WrittenAhead(call'[t], k'[t]) = {} /\ pc'[t] # "set"
    <3>1. call'[t] = c /\ Known(c) /\ k'[t] = 0 /\ pc'[t] = "alloc"
      BY <1>3, <1>4, <2>2 DEF Inside
    <3>2. WrittenAhead(c, 0) = {}
      BY <1>2, <3>1, WrittenInTurn
    <3> QED
      BY <3>1, <3>2
  <2> QED
    BY <1>5, <2>1, <2>2 DEF WritesInTurn
<1>7. HeldIsAllocated'
  BY <1>1, <1>5 DEF SuppliesInv, HeldIsAllocated
<1>8. StagesWrite' /\ RemainingSupplied'
  BY <1>1, <1>5, SuppliesStand
<1> QED
  BY <1>6, <1>7, <1>8 DEF SuppliesInv

(* A thread goes on inside the cap.                                         *)
LEMMA ProceedSupplies ==
  ASSUME OneInstance, IInv, HostTyped, OrderlyInv, SuppliesInv, NEW t \in Threads, Proceed(t)
  PROVE  SuppliesInv'
<1>1. Inner(t) /\ UNCHANGED <<plan, stage, pending, rest>>
  BY DEF Proceed, host_vars
<1>2. Holding \subseteq Holding' /\ HeldIsAllocated' /\ WritesInTurn'
  BY <1>1, InnerHolds, InnerWrites
<1>3. allocated \subseteq allocated' /\ Remaining' = Remaining
  BY <1>1, InnerKeeps DEF OrderlyInv, Remaining, Calling
<1>4. StagesWrite' /\ RemainingSupplied'
  BY <1>1, <1>2, <1>3, SuppliesStand
<1> QED
  BY <1>2, <1>4 DEF SuppliesInv

(* A call ends without error: it has allocated and written what it does, and *)
(* the rest of its task remains.                                            *)
LEMMA CallReturnsSupplies ==
  ASSUME IInv, HostTyped, OrderlyInv, SuppliesInv, NEW t \in Threads, CallReturns(t),
         stopped' = "none"
  PROVE  SuppliesInv'
<1>0. TypeOK
  BY DEF IInv
<1>1. Inside(t) /\ pc[t] = "set" /\ errflg[t] = 0 /\ Calling(t)
  BY ReturnKind
<1>2. /\ UNCHANGED <<plan, stage, pending, allocated, data>> /\ pc'[t] = "idle"
      /\ \A u \in Threads : u # t => /\ pc'[u] = pc[u] /\ call'[u] = call[u] /\ k'[u] = k[u]
                                     /\ errflg'[u] = errflg[u]
  BY <1>0 DEF CallReturns, Return, TypeOK
<1>3. PICK r : r = rest[t]
  OBVIOUS
<1>4. /\ r \in Seq(Calls) /\ r # <<>> /\ rest'[t] = Tail(r)
      /\ \A u \in Threads : u # t => rest'[u] = rest[u]
  BY <1>1, <1>3 DEF HostTyped, CallReturns, Calling
<1>5. call[t] = Head(r) /\ Allocs(Head(r)) \subseteq allocated /\ Writes(Head(r)) \subseteq Holding
  BY <1>1, <1>3 DEF OrderlyInv, FrameOfTask, AllocatesInTurn, SuppliesInv, WritesInTurn
<1>6. \A c \in ToSet(r) : c = Head(r) \/ c \in ToSet(Tail(r))
  BY <1>4, TailCalls
<1>7. Holding' = Holding
  BY <1>2 DEF Holding
<1>8. HeldIsAllocated'
  BY <1>2, <1>7 DEF SuppliesInv, HeldIsAllocated
<1>9. WritesInTurn'
  BY <1>2, <1>7 DEF SuppliesInv, WritesInTurn, Inside
<1>10. /\ \A q \in Remaining : q = r \/ q \in Remaining'
       /\ \A q \in Remaining' : q = Tail(r) \/ q \in Remaining
       /\ r \in Remaining /\ (Tail(r) # <<>> => Tail(r) \in Remaining')
  <2>1. \A u \in Threads : u # t => (Calling(u)' <=> Calling(u)) /\ rest'[u] = rest[u]
    BY <1>4 DEF Calling
  <2>2. Calling(t)' <=> Tail(r) # <<>>
    BY <1>4 DEF Calling
  <2>3. Calling(t) /\ rest[t] = r /\ rest'[t] = Tail(r) /\ pending' = pending
    BY <1>1, <1>2, <1>3, <1>4
  <2> QED
    BY <2>1, <2>2, <2>3 DEF Remaining
<1>11. StagesWrite'
  <2>1. ASSUME NEW c \in CallsIn(plan[stage]), NEW q \in Remaining, c \in ToSet(q)
        PROVE  Writes(c) \subseteq Holding \/ \E s \in Remaining' : c \in ToSet(s)
    <3>1. CASE q \in Remaining'
      BY <2>1, <3>1
    <3>2. CASE q = r /\ c = Head(r)
      BY <1>5, <3>2
    <3>3. CASE q = r /\ c \in ToSet(Tail(r))
      <4>1. Tail(r) # <<>>
        BY <3>3 DEF ToSet
      <4> QED
        BY <1>10, <3>3, <4>1
    <3> QED
      BY <1>6, <1>10, <2>1, <3>1, <3>2, <3>3
  <2>2. WrittenBy(plan, stage) \subseteq Holding
    BY DEF SuppliesInv, StagesWrite
  <2>3. ASSUME NEW c \in CallsIn(plan[stage])
        PROVE  Writes(c) \subseteq Holding \/ \E s \in Remaining' : c \in ToSet(s)
    BY <2>1 DEF SuppliesInv, StagesWrite
  <2> QED
    BY <1>2, <1>7, <2>2, <2>3 DEF StagesWrite
<1>12. ASSUME NEW q \in Remaining', NEW j \in DOMAIN q
       PROVE  SuppliedIn(q, j, allocated, Holding)
  <2>1. CASE q = Tail(r)
    <3>1. PICK i : i = j
      OBVIOUS
    <3>2. i \in DOMAIN Tail(r) /\ i + 1 \in DOMAIN r
      BY <1>4, <1>12, <2>1, <3>1, TailPlaces
    <3>3. SuppliedIn(r, i + 1, allocated, Holding)
      BY <1>10, <3>2 DEF SuppliesInv, RemainingSupplied
    <3>4. SuppliedIn(Tail(r), i, allocated, Holding)
      BY <1>4, <1>5, <3>2, <3>3, SuppliedTail
    <3> QED
      BY <2>1, <3>1, <3>4
  <2>2. CASE q # Tail(r)
    BY <1>10, <1>12, <2>2 DEF SuppliesInv, RemainingSupplied
  <2> QED
    BY <2>1, <2>2
<1>13. RemainingSupplied'
  BY <1>2, <1>7, <1>12 DEF RemainingSupplied
<1> QED
  BY <1>8, <1>9, <1>11, <1>13 DEF SuppliesInv

(* The next stage is entered when all calls of this one have written.       *)
LEMMA NextStageSupplies ==
  ASSUME PlansWriteBeforeReading, HostTyped, HostTyped', OrderlyInv, SuppliesInv, NextStage
  PROVE  SuppliesInv'
<1>1. /\ pending' = plan[stage + 1] /\ plan' = plan /\ stage' = stage + 1 /\ stage \in Nat
      /\ stage >= 1 /\ plan \in Plans /\ stage + 1 \in DOMAIN plan
      /\ \A t \in Threads : ~Calling(t) /\ ~Calling(t)'
      /\ UNCHANGED cap_vars
  BY StageType DEF NextStage, StageDone, Calling, HostTyped
<1>2. Remaining = {} /\ Remaining' = plan[stage + 1]
  BY <1>1 DEF Remaining, NextStage, StageDone
<1>3. HeldIsAllocated' /\ WritesInTurn' /\ Holding' = Holding
  BY <1>1, FramesStand
<1>4. \A r \in 1..((stage + 1) - 1) : r = stage \/ r \in 1..(stage - 1)
  BY <1>1
<1>5. AllocatedBy(plan, stage + 1) \subseteq allocated
  <2>1. \A c \in CallsIn(plan[stage]) : Allocs(c) \subseteq allocated
    BY <1>2 DEF OrderlyInv, StagesAllocate
  <2>2. \A r \in 1..(stage - 1) : \A c \in CallsIn(plan[r]) : Allocs(c) \subseteq allocated
    BY DEF OrderlyInv, StagesAllocate, AllocatedBy
  <2> QED
    BY <1>4, <2>1, <2>2 DEF AllocatedBy
<1>6. WrittenBy(plan, stage + 1) \subseteq Holding
  <2>1. \A c \in CallsIn(plan[stage]) : Writes(c) \subseteq Holding
    BY <1>2 DEF SuppliesInv, StagesWrite
  <2>2. \A r \in 1..(stage - 1) : \A c \in CallsIn(plan[r]) : Writes(c) \subseteq Holding
    BY DEF SuppliesInv, StagesWrite, WrittenBy
  <2> QED
    BY <1>4, <2>1, <2>2 DEF WrittenBy
<1>7. \A q \in plan[stage + 1] : \A j \in DOMAIN q : SuppliedIn(q, j, allocated, Holding)
  BY <1>1, <1>5, <1>6, StageSupplied
<1>8. RemainingSupplied'
  BY <1>1, <1>2, <1>3, <1>7 DEF RemainingSupplied, cap_vars
<1>9. StagesWrite'
  BY <1>1, <1>2, <1>3, <1>6 DEF StagesWrite, CallsIn
<1> QED
  BY <1>3, <1>8, <1>9 DEF SuppliesInv

(***************************************************************************)
(* All steps together.                                                     *)
(***************************************************************************)
(* The second half of ReadsOwnValues: the first is about faults.            *)
ReadsHeld ==
  \A t \in Threads :
    Running /\ AtScheme(t) /\ errflg[t] = 0
    => \A v \in Body(t)[k[t]].reads : OwnValue(t, v)

Supplying == DriverInv /\ stopped = "none" /\ SuppliesInv

(* While the driver goes on, what a scheme is about to read is its own.     *)
LEMMA SuppliedReads == OneInstance /\ Supplying => ReadsHeld
<1> SUFFICES ASSUME OneInstance, DriverInv, OrderlyInv, SuppliesInv,
                    NEW t \in Threads, AtScheme(t), errflg[t] = 0,
                    NEW v \in Body(t)[k[t]].reads, NEW b \in call[t].blks
             PROVE  data[v][b].inst = call[t].inst /\ b \in data[v][b].blks
  BY DEF DriverInv, Supplying, ReadsHeld, OwnValue
<1>1. <<v, b>> \in Holding
  <2>1. Body(t)[k[t]].reads \X call[t].blks \subseteq Holding
    BY SchemeSupplied DEF DriverInv, OrderlyInv, SuppliesInv
  <2> QED
    BY <2>1
<1>2. data[v][b].inst = 1 /\ b \in data[v][b].blks
  BY <1>1 DEF Holding
<1>3. call[t].inst = 1
  BY DEF OneInstance, DriverInv, HostTyped, Calls, Instances
<1> QED
  BY <1>2, <1>3

(* Every step of the driver keeps what remains supplied, until it stops.    *)
LEMMA SuppliesNext ==
  ASSUME OneInstance, PlansWriteBeforeReading, DriverInv, DriverInv', [HostNext]_vars,
         stopped = "none", SuppliesInv, stopped' = "none"
  PROVE  SuppliesInv'
<1>0. IInv /\ HostTyped /\ HostTyped' /\ OrderlyInv
  BY DEF DriverInv
<1>1. ASSUME NEW t \in Threads, TakeTask(t) PROVE SuppliesInv'
  BY <1>0, <1>1, TakeTaskSupplies
<1>2. ASSUME NEW t \in Threads, MakeCall(t) PROVE SuppliesInv'
  BY <1>0, <1>2, MakeCallSupplies
<1>3. ASSUME NEW t \in Threads, Proceed(t) PROVE SuppliesInv'
  BY <1>0, <1>3, ProceedSupplies
<1>4. ASSUME NEW t \in Threads, CallReturns(t) PROVE SuppliesInv'
  BY <1>0, <1>4, CallReturnsSupplies
<1>5. ASSUME NextStage PROVE SuppliesInv'
  BY <1>0, <1>5, NextStageSupplies
<1>6. ASSUME UNCHANGED vars PROVE SuppliesInv'
  <2>1. UNCHANGED cap_vars /\ UNCHANGED <<plan, stage, pending, rest>>
    BY <1>6 DEF vars, host_vars
  <2>2. HeldIsAllocated' /\ WritesInTurn' /\ Holding' = Holding
    BY <2>1, FramesStand
  <2>3. Remaining' = Remaining /\ allocated' = allocated
    BY <2>1 DEF Remaining, Calling, cap_vars
  <2>4. StagesWrite' /\ RemainingSupplied'
    BY <2>1, <2>2, <2>3, SuppliesStand
  <2> QED
    BY <2>2, <2>4 DEF SuppliesInv
<1> QED
  BY <1>1, <1>2, <1>3, <1>4, <1>5, <1>6 DEF HostNext, ThreadStep, Ended

(* The values invariant: the step in which the driver stops is the return   *)
(* of a call, which no other thread notices.                                *)
LEMMA ValuesNext ==
  ASSUME OneInstance, PlansWriteBeforeReading, DriverInv, DriverInv', [HostNext]_vars,
         ValuesInv, Supplying' => ReadsHeld'
  PROVE  ValuesInv'
<1>1. CASE stopped # "none"
  <2>1. UNCHANGED vars
    BY <1>1 DEF HostNext, ThreadStep, TakeTask, MakeCall, Proceed, CallReturns, NextStage,
       Going, Ended
  <2>2. UNCHANGED cap_vars /\ stopped' = stopped
    BY <2>1 DEF vars, host_vars
  <2> QED
    BY <1>1, <2>2
       DEF cap_vars, ValuesInv, ReadsOwnValues, Running, AtScheme, Body, OwnValue
<1>2. CASE stopped = "none" /\ stopped' = "none"
  <2>1. SuppliesInv /\ SuppliesInv'
    BY <1>2, SuppliesNext DEF ValuesInv
  <2>2. fault' # "unallocated_owned"
    <3>1. fault # "unallocated_owned"
      BY DEF ValuesInv, ReadsOwnValues
    <3>2. ASSUME NEW t \in Threads, Proceed(t) PROVE fault' # "unallocated_owned"
      BY <1>2, <2>1, <3>1, <3>2, InnerHolds DEF Proceed, DriverInv
    <3>3. ASSUME NEW t \in Threads, TakeTask(t) \/ MakeCall(t) \/ CallReturns(t)
          PROVE  fault' = fault
      BY <3>3 DEF TakeTask, MakeCall, CallReturns, Dispatch, Miss, Return, cap_vars, module_vars
    <3>4. ASSUME NextStage \/ UNCHANGED vars PROVE fault' = fault
      BY <3>4 DEF NextStage, vars, cap_vars
    <3> QED
      BY <3>1, <3>2, <3>3, <3>4 DEF HostNext, ThreadStep, Ended
  <2> QED
    BY <1>2, <2>1, <2>2 DEF Supplying, ValuesInv, ReadsOwnValues, ReadsHeld
<1>3. CASE stopped = "none" /\ stopped' # "none"
  <2>1. PICK t \in Threads : CallReturns(t)
    BY <1>3 DEF HostNext, ThreadStep, TakeTask, MakeCall, Proceed, NextStage, Ended, vars,
       host_vars
  <2>2. /\ UNCHANGED <<data, fault, todo>> /\ pc'[t] = "idle"
        /\ \A u \in Threads : u # t => /\ pc'[u] = pc[u] /\ call'[u] = call[u]
                                       /\ k'[u] = k[u] /\ errflg'[u] = errflg[u]
    BY <2>1 DEF CallReturns, Return, DriverInv, IInv, TypeOK
  <2>3. ASSUME NEW u \in Threads, Running', AtScheme(u)', errflg'[u] = 0
        PROVE  \A v \in Body(u)'[k'[u]].reads : OwnValue(u, v)'
    <3>1. u # t
      BY <2>2, <2>3 DEF AtScheme
    <3>2. Body(u)' = Body(u) /\ k'[u] = k[u] /\ AtScheme(u) /\ errflg[u] = 0 /\ Running
      BY <2>2, <2>3, <3>1 DEF AtScheme, Body, Running
    <3> QED
      BY <2>2, <3>1, <3>2 DEF ValuesInv, ReadsOwnValues, OwnValue
  <2>4. fault' # "unallocated_owned"
    BY <2>2 DEF ValuesInv, ReadsOwnValues
  <2> QED
    BY <1>3, <2>3, <2>4 DEF ValuesInv, ReadsOwnValues
<1> QED
  BY <1>1, <1>2, <1>3

(* A driver with one instance whose plans are orderly and write before they  *)
(* read keeps the values invariant.                                         *)
THEOREM ValuesInvariance ==
  OneInstance /\ OrderlyPlans /\ PlansWriteBeforeReading => (HostSpec => []ValuesInv)
<1> SUFFICES ASSUME OneInstance, OrderlyPlans, PlansWriteBeforeReading
             PROVE  HostSpec => []ValuesInv
  OBVIOUS
<1>1. HostInit => ValuesInv
  <2> SUFFICES ASSUME HostInit PROVE ValuesInv
    OBVIOUS
  <2>1. SuppliesInv /\ fault # "unallocated_owned"
    BY HostInitSupplies
  <2>2. \A t \in Threads : ~AtScheme(t)
    BY DEF HostInit, Init, AtScheme
  <2> QED
    BY <2>1, <2>2 DEF ValuesInv, ReadsOwnValues
<1>2. Supplying => ReadsHeld
  BY SuppliedReads
<1>3. DriverInv /\ DriverInv' /\ [HostNext]_vars /\ ValuesInv /\ (Supplying' => ReadsHeld')
      => ValuesInv'
  BY ValuesNext
<1> QED
  BY <1>1, <1>2, <1>3, OrderlyInvariance, PTL DEF HostSpec

(* Whatever the threads do, no scheme of such a driver finds a suite-owned  *)
(* array unallocated, and each reads what was written for its own columns.  *)
THEOREM SchemesReadOwnValues ==
  OneInstance /\ OrderlyPlans /\ PlansWriteBeforeReading => (HostSpec => []ReadsOwnValues)
<1>1. ValuesInv => ReadsOwnValues
  BY DEF ValuesInv
<1> QED
  BY <1>1, ValuesInvariance, PTL
=============================================================================

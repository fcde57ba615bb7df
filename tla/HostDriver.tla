----------------------------- MODULE HostDriver -----------------------------
(***************************************************************************)
(* The host drivers of examples/ around the suite cap: they take every     *)
(* instance through register, init, time steps and final, check errflg     *)
(* after every call, and stop the program when it is not zero.             *)
(*                                                                         *)
(* A plan is a sequence of stages with a barrier between them; a stage is  *)
(* a set of tasks the threads share out; a task is a sequence of calls one *)
(* thread makes in order.  A serial loop is a stage of one task.           *)
(***************************************************************************)
EXTENDS SuiteCap, SequencesExt

CONSTANTS GroupOrder,  \* the order the host goes through the groups in
          Steps,       \* time steps per life (bound)
          Cycles,      \* how often the host brings the suite up (bound)
          Plans        \* the plans a driver may follow

ASSUME PlansAssumption == /\ Plans \subseteq Seq(SUBSET Seq(Calls))
                          /\ <<>> \notin Plans

VARIABLES plan,     \* the plan being followed
          stage,    \* the stage it is in
          pending,  \* tasks of the stage nobody has begun
          rest,     \* what each thread still has to call of its task
          stopped,  \* why the driver stopped: what raised the errflg it saw
          ran       \* what has run in each instance's current time step

host_vars == <<plan, stage, pending, rest, stopped, ran>>
vars == <<cap_vars, host_vars>>

(***************************************************************************)
(* Plans.                                                                  *)
(***************************************************************************)
FlatCall(p, i) == [suite |-> ThisSuite, fn |-> p, part |-> SuitePart,
                   inst |-> i, blks |-> Blocks]
GroupCall(p, g, i, bs) == [suite |-> ThisSuite, fn |-> p, part |-> g,
                           inst |-> i, blks |-> bs]

(* do ins = 1, ninstances                                                  *)
EachInstance(p) == [i \in Instances |-> FlatCall(p, i)]
EachGroup(p, bs) ==
  FlattenSeq([j \in DOMAIN GroupOrder |->
                [i \in Instances |-> GroupCall(p, GroupOrder[j], i, bs)]])

Serial(calls) == <<{calls}>>

(* Only the run phase is divided into chunks of columns; the chunks are    *)
(* what threads may share out.                                             *)
RunStage == <<{EachGroup("run", {b}) : b \in Blocks}>>

StepStages == Serial(EachGroup("timestep_init", Blocks)) \o RunStage
              \o Serial(EachGroup("timestep_final", Blocks))

Repeat(n, seq) == FlattenSeq([j \in 1..n |-> seq])

(* Phase by phase, all instances in each phase.                            *)
PhaseMajor ==
  Serial(EachInstance("suite_register")) \o
  Repeat(Cycles, Serial(EachInstance("suite_initialize"))
                 \o Serial(EachGroup("group_init", Blocks))
                 \o Repeat(Steps, StepStages)
                 \o Serial(EachGroup("group_final", Blocks))
                 \o Serial(EachInstance("suite_finalize")))

(* One thread per instance, as multilanguage_limitations.md proposes for   *)
(* threaded hosts: each takes its own instance through its steps, with the *)
(* suite-level phases either ahead of the threads or inside them.          *)
Own(i, p) == [j \in DOMAIN GroupOrder |-> GroupCall(p, GroupOrder[j], i, Blocks)]
OwnSteps(i) ==
  Own(i, "group_init")
  \o Repeat(Steps, Own(i, "timestep_init") \o Own(i, "run")
                   \o Own(i, "timestep_final"))
  \o Own(i, "group_final")

ThreadPerInstance ==
  Serial(EachInstance("suite_register"))
  \o Serial(EachInstance("suite_initialize"))
  \o <<{OwnSteps(i) : i \in Instances}>>
  \o Serial(EachInstance("suite_finalize"))

ThreadPerLife ==
  <<{<<FlatCall("suite_register", i), FlatCall("suite_initialize", i)>>
     \o OwnSteps(i) \o <<FlatCall("suite_finalize", i)>> : i \in Instances}>>

(* A host that misspells the suite, or a suite part.                       *)
WrongSuite ==
  Serial(<<[FlatCall("suite_register", 1) EXCEPT !.suite = OtherName]>>)
WrongPart ==
  Serial(EachInstance("suite_initialize"))
  \o Serial(<<GroupCall("run", OtherName, 1, Blocks)>>)

(***************************************************************************)
(* Orderly plans: what the order of a driver's calls must be for an        *)
(* instance to get its life.  A key <<i, w>> is the state in slot i where  *)
(* w is empty, else whether the piece of work in w is done in instance i.  *)
(* Each call demands that some keys have some values (one of several ways  *)
(* is enough), and leaves some with new values.  The cap checks only part  *)
(* of it: the timestep phases look at no state (CheckState).               *)
(***************************************************************************)
Known(c) == SuiteFound(c) /\ PartFound(c)
LifeKey(c) == <<Slot(c), {}>>
Pieces(c) == {<<c.inst, {<<c.part, b>>}>> : b \in c.blks}
AllPieces(c) == {<<c.inst, {w}>> : w \in Groups \X Blocks}

Leaves(c) ==
  IF ~Known(c) THEN {}
  ELSE (IF Sets(c) THEN {<<LifeKey(c), SetState[c.fn]>>} ELSE {})
       \cup (IF c.fn = "timestep_init" THEN AllPieces(c) \X {"todo"} ELSE {})
       \cup (IF c.fn = "run" THEN Pieces(c) \X {"done"} ELSE {})

(* Each way is a set of keys with the values they must have.  The second   *)
(* and later groups find a time step begun, or ended, by the first.        *)
Demands(c) ==
  LET state(st) == {<<LifeKey(c), st>>} IN
  CASE ~Known(c) -> {{}}
    [] Known(c) /\ c.fn = "timestep_init" ->
         {state("initialized"), state("in_time_step") \cup (AllPieces(c) \X {"todo"})}
    [] Known(c) /\ c.fn = "run" -> {state("in_time_step") \cup (Pieces(c) \X {"todo"})}
    [] Known(c) /\ c.fn = "timestep_final" ->
         {state("initialized"), state("in_time_step") \cup (AllPieces(c) \X {"done"})}
    [] Known(c) /\ c.fn = "suite_register" -> {{}}
    [] OTHER -> {state(CheckState[c.fn])}

Changed(c) == {e[1] : e \in Leaves(c)}
Involved(c) == (IF Known(c) THEN {LifeKey(c)} ELSE {}) \cup Changed(c)
               \cup UNION {{e[1] : e \in way} : way \in Demands(c)}

(* The last of the calls ahead of the j-th of q to change x leaves it at v.  *)
LeftAt(q, j, x, v) ==
  \E m \in DOMAIN q : /\ m < j /\ <<x, v>> \in Leaves(q[m])
                      /\ \A n \in DOMAIN q : m < n /\ n < j => x \notin Changed(q[n])
Untouched(q, j, x) == \A m \in DOMAIN q : m < j => x \notin Changed(q[m])

(* The tasks of a stage, S, do; and the stages of p ahead of the s-th.     *)
StageLeaves(S, x, v) == \E q \in S : LeftAt(q, Len(q) + 1, x, v)
StageKeeps(S, x) == \A q \in S : Untouched(q, Len(q) + 1, x)
AtStart(x) == IF x[2] = {} THEN "uninitialized" ELSE "todo"
EntersWith(p, s, x, v) ==
  \/ v = AtStart(x) /\ \A r \in 1..(s - 1) : StageKeeps(p[r], x)
  \/ \E r \in 1..(s - 1) : /\ StageLeaves(p[r], x, v)
                           /\ \A n \in (r + 1)..(s - 1) : StageKeeps(p[n], x)

Met(p, s, q, j) ==
  \E way \in Demands(q[j]) : \A e \in way :
    \/ LeftAt(q, j, e[1], e[2])
    \/ Untouched(q, j, e[1]) /\ EntersWith(p, s, e[1], e[2])

Keys == (Slots \X {{}}) \cup (Instances \X {{w} : w \in Groups \X Blocks})
KeyValues == States \cup {"todo", "done"}

(* Tasks that may overlap change nothing the other one has to do with.     *)
AllChanged(q) == UNION {Changed(c) : c \in ToSet(q)}
AllInvolved(q) == UNION {Involved(c) : c \in ToSet(q)}
Apart(q, r) == /\ AllChanged(q) \cap AllInvolved(r) = {}
               /\ AllChanged(r) \cap AllInvolved(q) = {}

CallsIn(S) == {c \in UNION {ToSet(q) : q \in S} : Known(c)}
Parallel(S) == \E q, r \in S : q # r
AllocatedBy(p, s) == UNION {UNION {Allocs(c) : c \in CallsIn(p[r])} : r \in 1..(s - 1)}

(* An overlapping call finds what it may allocate allocated by an earlier  *)
(* stage, and every call finds the keys it demands.                        *)
Orderly(p) ==
  \A s \in DOMAIN p :
    /\ \A q, r \in p[s] : q # r => Apart(q, r)
    /\ Parallel(p[s]) => \A c \in CallsIn(p[s]) : Allocs(c) \subseteq AllocatedBy(p, s)
    /\ \A q \in p[s] : \A j \in DOMAIN q : Met(p, s, q, j)

OrderlyPlans == \A p \in Plans : Orderly(p)

(***************************************************************************)
(* Plans that write before they read, for a host with one instance: what a *)
(* scheme call touches is allocated, and the cells it reads are written,   *)
(* by an earlier stage, an earlier call of its task or an earlier scheme   *)
(* of its call.  Which call comes first is up to the host; which scheme    *)
(* sets a variable, and where it is allocated, is up to the suite.         *)
(***************************************************************************)
BodyOf(c) == Schemes[Entry(c)]
SchemesAhead(c, n) == {BodyOf(c)[m] : m \in {l \in DOMAIN BodyOf(c) : l < n}}
WrittenAhead(c, n) == (UNION {e.writes : e \in SchemesAhead(c, n)}) \X c.blks
AllocatedAhead(c, n) == Preamble(c) \cup UNION {e.allocs : e \in SchemesAhead(c, n)}

(* The cells all the schemes of a call write.                              *)
Writes(c) == (UNION {BodyOf(c)[m].writes : m \in DOMAIN BodyOf(c)}) \X c.blks
WrittenBy(p, s) == UNION {UNION {Writes(c) : c \in CallsIn(p[r])} : r \in 1..(s - 1)}

(* The n-th scheme of c has what it touches, when the arrays in A are      *)
(* allocated and the cells in W written ahead of the call.  A scalar is    *)
(* set for all columns or not at all.                                      *)
Supplied(c, n, A, W) ==
  LET e == BodyOf(c)[n] IN
  /\ e.reads \cup e.writes \subseteq A \cup AllocatedAhead(c, n) \cup OwnedScalars
  /\ e.reads \X c.blks \subseteq W \cup WrittenAhead(c, n)
  /\ e.writes \cap OwnedScalars # {} => c.blks = Blocks

KnownAhead(q, j) == {q[m] : m \in {l \in DOMAIN q : l < j /\ Known(q[l])}}
SuppliedIn(q, j, A, W) ==
  Known(q[j]) =>
    \A n \in DOMAIN BodyOf(q[j]) :
      Supplied(q[j], n, A \cup UNION {Allocs(c) : c \in KnownAhead(q, j)},
                        W \cup UNION {Writes(c) : c \in KnownAhead(q, j)})

WritesFirst(p) ==
  \A s \in DOMAIN p : \A q \in p[s] : \A j \in DOMAIN q :
    SuppliedIn(q, j, AllocatedBy(p, s), WrittenBy(p, s))

(***************************************************************************)
(* The driver.                                                             *)
(***************************************************************************)
HostInit == /\ Init
            /\ plan \in Plans
            /\ stage = 1
            /\ pending = plan[1]
            /\ rest = [t \in Threads |-> <<>>]
            /\ stopped = "none"
            /\ ran = [i \in Instances |-> {}]

Going == Running /\ stopped = "none"

TakeTask(t) ==
  /\ Going /\ rest[t] = <<>>
  /\ \E task \in pending : /\ rest' = [rest EXCEPT ![t] = task]
                           /\ pending' = pending \ {task}
  /\ UNCHANGED <<cap_vars, plan, stage, stopped, ran>>

MakeCall(t) ==
  /\ Going /\ rest[t] # <<>>
  /\ Dispatch(t, Head(rest[t])) \/ Miss(t, Head(rest[t]))
  /\ UNCHANGED host_vars

Proceed(t) == Going /\ Inner(t) /\ UNCHANGED host_vars

(* The call returns.  ran records, for the properties, what has run.       *)
Ran(t) ==
  LET c == call[t] IN
  CASE AssignedState(t) = "in_time_step" -> [ran EXCEPT ![c.inst] = {}]
    [] pc[t] = "set" /\ c.fn = "run" /\ errflg[t] = 0 ->
         [ran EXCEPT ![c.inst] = @ \cup ({c.part} \X c.blks)]
    [] OTHER -> ran

(* Faulty variant: errflg is not looked at.                                *)
CallReturnsUnchecked(t) ==
  /\ Going /\ Return(t)
  /\ rest' = [rest EXCEPT ![t] = Tail(@)]
  /\ UNCHANGED stopped
  /\ ran' = Ran(t)
  /\ UNCHANGED <<plan, stage, pending>>

CallReturns(t) ==
  /\ Going /\ Return(t)
  /\ rest' = [rest EXCEPT ![t] = Tail(@)]
  /\ stopped' = IF errflg[t] # 0 THEN cause[t] ELSE "none"
  /\ ran' = Ran(t)
  /\ UNCHANGED <<plan, stage, pending>>

StageDone == pending = {} /\ \A t \in Threads : rest[t] = <<>>

(* Faulty variant: no barrier, the next stage begins when all tasks of     *)
(* this one have been taken.                                               *)
NextStageNoBarrier ==
  /\ Going /\ pending = {} /\ stage < Len(plan)
  /\ stage' = stage + 1
  /\ pending' = plan[stage + 1]
  /\ UNCHANGED <<cap_vars, plan, rest, stopped, ran>>

NextStage ==
  /\ Going /\ StageDone /\ stage < Len(plan)
  /\ stage' = stage + 1
  /\ pending' = plan[stage + 1]
  /\ UNCHANGED <<cap_vars, plan, rest, stopped, ran>>

Finished == StageDone /\ stage = Len(plan)

(* The program has ended.                                                  *)
Ended == /\ Finished \/ ~Going
         /\ UNCHANGED vars

ThreadStep(t) == TakeTask(t) \/ MakeCall(t) \/ Proceed(t) \/ CallReturns(t)

HostNext == (\E t \in Threads : ThreadStep(t)) \/ NextStage \/ Ended

(* A thread that can move does: the operating system runs every thread,    *)
(* and scheme calls return.                                                *)
Fairness == (\A t \in Threads : WF_vars(ThreadStep(t))) /\ WF_vars(NextStage)

HostSpec == HostInit /\ [][HostNext]_vars /\ Fairness

(***************************************************************************)
(* Properties.                                                             *)
(***************************************************************************)
LifeOf(i) == IF MultiInstance
             THEN IF suite_state[i] = "undefined" THEN "uninitialized"
                                                  ELSE suite_state[i]
             ELSE suite_state[1]

L == INSTANCE Lifecycle WITH life <- [i \in Instances |-> LifeOf(i)],
                             Work <- Groups \X Blocks

(* Every instance gets a life of its own from the suite cap, and no time   *)
(* step of an instance ends before all of its groups and columns have run, *)
(* however calls of different instances and chunks interleave.             *)
ImplementsLifecycle == L!Spec

(* A host that makes its calls in the order of the drivers is never told   *)
(* "Invalid initial CCPP state".                                           *)
NoSpuriousRejection == \A t \in Threads : cause[t] # "state"

(* The drivers keep to what the cap needs of hosts that overlap calls.     *)
ObeysContract ==
  [][\A t \in Threads :
       pc[t] = "idle" /\ pc'[t] = "alloc" => Contract(t, call'[t])]_vars

(* Why a serial driver does: there is one task at a time, so one thread at  *)
(* most has calls to make (the invariant behind it, see HostDriverProofs). *)
Calling(t) == rest[t] # <<>>
HostTyped ==
  /\ plan \in Plans /\ stage \in DOMAIN plan
  /\ pending \subseteq Seq(Calls)
  /\ rest \in [Threads -> Seq(Calls)]
  /\ pc \in [Threads -> PCs] /\ call \in [Threads -> Calls]
  /\ ran \in [Instances -> SUBSET ((Groups \cup {SuitePart, OtherName}) \X Blocks)]
  /\ \A t \in Threads : pc[t] # "idle" => Calling(t)
OneAtATime ==
  /\ \A t, u \in Threads : Calling(t) /\ Calling(u) => t = u
  /\ \A t \in Threads : Calling(t) => pending = {}
  /\ \A a, b \in pending : a = b

(***************************************************************************)
(* The invariant of a driver with orderly plans (see HostDriverProofs).    *)
(***************************************************************************)
(* The frame of a thread belongs to the call it has come to, and errflg    *)
(* has a cause.                                                            *)
FrameOfTask ==
  \A t \in Threads :
    /\ Inside(t) => call[t] = Head(rest[t])
    /\ pc[t] = "miss" => errflg[t] # 0
    /\ pc[t] = "idle" => errflg[t] = 0
    /\ errflg[t] # 0 <=> cause[t] # "none"

(* What a call has allocated by the time it has come to a scheme call.     *)
AllocatesInTurn ==
  \A t \in Threads : Inside(t) =>
    /\ Preamble(call[t]) \subseteq allocated \cup (IF k[t] = 0 THEN todo[t] ELSE {})
    /\ \A j \in DOMAIN Body(t) :
         j < k[t] => Body(t)[j].allocs \subseteq allocated \cup todo[t]
    /\ pc[t] = "set" => Allocs(call[t]) \subseteq allocated

(* All states are undefined until the array is there, and while it is      *)
(* being initialized; at no other time is one.                             *)
Undefinedness ==
  /\ StateArray \notin allocated \/ (\E t \in Threads : pc[t] = "init") =>
       \A s \in Slots : suite_state[s] = "undefined"
  /\ StateArray \in allocated /\ (\A t \in Threads : pc[t] # "init") => StateReady

(* The calls still to be made of this stage: pending tasks, and what is    *)
(* left of those begun.                                                    *)
Remaining == pending \cup {rest[t] : t \in {u \in Threads : Calling(u)}}

StageInOrder ==
  /\ pending \subseteq plan[stage]
  /\ \A t, u \in Threads : Calling(t) /\ Calling(u) /\ t # u =>
       Parallel(plan[stage]) /\ Apart(rest[t], rest[u])
  /\ \A t \in Threads : Calling(t) =>
       /\ \A c \in ToSet(rest[t]) : Known(c) => c \in CallsIn(plan[stage])
       /\ \A q \in pending : Parallel(plan[stage]) /\ Apart(rest[t], q)

(* What the stages so far allocate is allocated, or still to come.         *)
StagesAllocate ==
  /\ AllocatedBy(plan, stage) \subseteq allocated
  /\ ~MultiInstance \/ StateArray \in AllocatedBy(plan, stage) => StateReady
  /\ \A c \in CallsIn(plan[stage]) :
       Allocs(c) \subseteq allocated \/ \E q \in Remaining : c \in ToSet(q)

(* The value of a key.                                                     *)
StateIn(s) == IF suite_state[s] = "undefined" THEN "uninitialized" ELSE suite_state[s]
ValueOf(x) ==
  IF x[2] = {} THEN StateIn(x[1])
  ELSE IF x[2] \subseteq ran[x[1]] THEN "done" ELSE "todo"

Ready(q, j) ==
  \E way \in Demands(q[j]) : \A e \in way :
    \/ LeftAt(q, j, e[1], e[2])
    \/ Untouched(q, j, e[1]) /\ ValueOf(e[1]) = e[2]

(* Every remaining call will find what it demands, and the stage will end   *)
(* with the values the next one enters with.                               *)
RemainingReady ==
  /\ \A q \in Remaining : \A j \in DOMAIN q : Ready(q, j)
  /\ \A x \in Keys : \A v \in KeyValues : EntersWith(plan, stage + 1, x, v) =>
       /\ (\A q \in Remaining : Untouched(q, Len(q) + 1, x)) => ValueOf(x) = v
       /\ \A q \in Remaining :
            Untouched(q, Len(q) + 1, x) \/ LeftAt(q, Len(q) + 1, x, v)

OrderlyInv == /\ FrameOfTask /\ AllocatesInTurn /\ Undefinedness
              /\ StageInOrder /\ StagesAllocate /\ RemainingReady

(* Only the suite's own groups have run.                                   *)
RanInWork == \A i \in Instances : ran[i] \subseteq Groups \X Blocks

(* After an error nothing moves any more.                                  *)
DriverInv == /\ HostTyped /\ IInv /\ RanInWork /\ NoSpuriousRejection
             /\ stopped = "none" => OrderlyInv

(***************************************************************************)
(* The invariant of a driver with one instance whose plans write before    *)
(* they read (see HostDriverProofs).                                       *)
(***************************************************************************)
(* The cells that hold a value of the instance, written for their columns. *)
Holding == {x \in Owned \X Blocks : /\ data[x[1]][x[2]].inst = 1
                                    /\ x[2] \in data[x[1]][x[2]].blks}

(* So no allocation can take the value away.                               *)
HeldIsAllocated == \A x \in Holding : x[1] \in allocated \cup OwnedScalars

(* What a call without an error has written by the time it has come to a   *)
(* scheme call, and by its end.                                            *)
WritesInTurn ==
  \A t \in Threads : Inside(t) /\ errflg[t] = 0 =>
    /\ WrittenAhead(call[t], k[t]) \subseteq Holding
    /\ pc[t] = "set" => Writes(call[t]) \subseteq Holding

(* What the stages so far write is written, or still to come.              *)
StagesWrite ==
  /\ WrittenBy(plan, stage) \subseteq Holding
  /\ \A c \in CallsIn(plan[stage]) :
       Writes(c) \subseteq Holding \/ \E q \in Remaining : c \in ToSet(q)

(* Every remaining call will be supplied with what its schemes touch.      *)
RemainingSupplied ==
  \A q \in Remaining : \A j \in DOMAIN q : SuppliedIn(q, j, allocated, Holding)

SuppliesInv == HeldIsAllocated /\ WritesInTurn /\ StagesWrite /\ RemainingSupplied
ValuesInv == ReadsOwnValues /\ (stopped = "none" => SuppliesInv)

(* Every driver comes to an end: it stops at an error it was shown, or it  *)
(* gets through its plan with every instance back where it started.        *)
CompletesCleanly ==
  <>(\/ stopped \in {"scheme", "no_suite", "no_part"}
     \/ Finished /\ \A i \in Instances : LifeOf(i) = "uninitialized")
=============================================================================

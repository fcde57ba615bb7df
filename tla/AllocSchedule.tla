--------------------------- MODULE AllocSchedule ---------------------------
(***************************************************************************)
(* Where the generator of the suite cap puts the allocations of the        *)
(* suite-owned arrays, and what happens when the generated functions run.  *)
(*                                                                         *)
(* The phase functions are generated one after the other in the order of   *)
(* _generate_lifecycle_fns, each leaving behind the set of arrays already  *)
(* scheduled.  Then the host makes its calls, in the order of the drivers. *)
(* The two orders differ: within a group, run is generated ahead of        *)
(* timestep_init, and a group is generated whole before the next one.      *)
(*                                                                         *)
(* A suite is read first: the scheme calls of each phase function, a call  *)
(* by the intent it declares for each variable ("none" if it does not).    *)
(***************************************************************************)
EXTENDS Naturals, Sequences, FiniteSets, SequencesExt, FiniteSetsExt

CONSTANTS
  GroupOrder,   \* the groups, in the order of the suite definition
  Arrays,       \* suite-owned arrays
  OwnedDims,    \* suite-owned scalars arrays are dimensioned by
  HostDims,     \* dimensions the host passes as arguments (HOST tables)
  ModuleDims,   \* dimensions in host modules (MODULE tables)
  DimChoices,   \* the dimensions an array may have: sequences of the above
  MaxCalls      \* scheme calls of a suite (bound)

Vars == Arrays \cup OwnedDims \cup HostDims
Intents == {"none", "in", "out"}

SuitePart == "whole_suite"

(* Groups have names of their own, and a variable is of one kind.          *)
ASSUME GroupAssumption ==
  /\ GroupOrder \in Seq(STRING \ {SuitePart})
  /\ \A m, n \in DOMAIN GroupOrder : GroupOrder[m] = GroupOrder[n] => m = n
ASSUME VariableAssumption ==
  /\ OwnedDims \cap (Arrays \cup HostDims \cup ModuleDims) = {}
  /\ DimChoices \subseteq Seq(OwnedDims \cup HostDims \cup ModuleDims)

(* The phases ps of the first group, of the second, and so on.             *)
OverGroups(ps) ==
  [x \in 1 .. Len(ps) * Len(GroupOrder) |->
     <<ps[1 + ((x - 1) % Len(ps))], GroupOrder[1 + ((x - 1) \div Len(ps))]>>]

(* _SUITE_PHASES, then _group_phases of each group.                        *)
GenerationOrder ==
  <<<<"suite_register", SuitePart>>, <<"suite_initialize", SuitePart>>,
    <<"suite_finalize", SuitePart>>>>
  \o OverGroups(<<"group_init", "run", "timestep_init", "timestep_final",
                  "group_final">>)

(* The order in which the drivers call them.                               *)
RunOrder ==
  <<<<"suite_register", SuitePart>>, <<"suite_initialize", SuitePart>>>>
  \o OverGroups(<<"group_init">>)
  \o OverGroups(<<"timestep_init">>) \o OverGroups(<<"run">>)
  \o OverGroups(<<"timestep_final">>) \o OverGroups(<<"group_final">>)
  \o <<<<"suite_finalize", SuitePart>>>>

Entries == Range(RunOrder)
RunPos == [e \in Entries |-> CHOOSE j \in DOMAIN RunOrder : RunOrder[j] = e]
GenPos == [e \in Entries |->
             CHOOSE j \in DOMAIN GenerationOrder : GenerationOrder[j] = e]

(* The phases a function looks up scheme tables for: <x>_init is looked up *)
(* both by suite_initialize, which makes no scheme calls, and group_init.  *)
InitPhases == {"suite_initialize", "group_init"}
ColumnRange(e) == e[2] # SuitePart

VARIABLES
  dims,       \* dims[a]: the dimensions of array a, in order
  calls,      \* calls[e]: the scheme calls of phase function e, in order
  generated,  \* how many phase functions have been generated
  lazy,       \* lazy[e]: arrays with a LazyAllocOp ahead of the calls of e
  after,      \* after[e][j]: arrays with one right after call j of e
  scheduled,  \* already_scheduled_allocs
  deferred,   \* deferred warnings of the sweep
  warned,     \* arrays the user has been warned about
  ran,        \* how many phase functions the host has called
  k,          \* scheme calls made in the current one
  allocated,  \* arrays allocated so far
  unsized,    \* arrays allocated before a dimension of theirs was produced
  produced    \* suite-owned dimensions whose value has been produced

gen_vars == <<generated, lazy, after, scheduled, deferred, warned>>
run_vars == <<ran, k, allocated, unsized, produced>>
vars == <<dims, calls, generated, lazy, after, scheduled, deferred, warned,
          ran, k, allocated, unsized, produced>>

Dims(a) == Range(dims[a])

(* all_args: the arguments of all scheme calls of the function.            *)
Declares(e, j, v) == calls[e][j][v] # "none"
Declared(e, v) == \E j \in DOMAIN calls[e] : Declares(e, j, v)

(* Any two different intents combine to inout.                             *)
MergedIntent(e, v) ==
  LET intents == {calls[e][j][v] : j \in DOMAIN calls[e]} \ {"none"}
  IN  IF Cardinality(intents) = 1 THEN CHOOSE i \in intents : TRUE
                                  ELSE "inout"

(* A dimension a scheme of this very function produces: the allocation     *)
(* waits for the call of the first scheme that declares it.                *)
NoWait(e, d) == FALSE       \* faulty variant
Awaited(e, d) == /\ d \in OwnedDims /\ Declared(e, d)
                 /\ MergedIntent(e, d) = "out"
Producer(e, d) == Min({j \in DOMAIN calls[e] : Declares(e, j, d)})

(* A dimension the function can name where it starts: an argument, a host  *)
(* module variable, or -- but not in the register and init functions -- a  *)
(* suite-owned scalar, which is a module variable of the cap.              *)
InScope(e, d) == \/ d \in ModuleDims
                 \/ Declared(e, d)
                 \/ /\ d \in OwnedDims
                    /\ e[1] \notin InitPhases \cup {"suite_register"}

Resolvable(e, a) == \A d \in Dims(a) : Awaited(e, d) \/ InScope(e, d)
WaitsFor(e, a) == {Producer(e, d) : d \in {x \in Dims(a) : Awaited(e, x)}}

(***************************************************************************)
(* _build_framework_refs for one phase function: the arrays its schemes    *)
(* use, then, in the init functions, a sweep over all suite-owned arrays.  *)
(***************************************************************************)
Uses(e, a) == Declared(e, a)
Considered(e) ==
  {a \in Arrays : /\ Uses(e, a)
                  /\ \/ e[1] \in InitPhases \cup {"suite_register"}
                     \/ ColumnRange(e) /\ a \notin scheduled}
Swept(e) == IF e[1] \in InitPhases THEN Arrays ELSE {}

(* The register function only allocates what waits for a producer.         *)
InPreamble(e) ==
  {a \in Considered(e) \cup Swept(e) : /\ Resolvable(e, a)
                                       /\ WaitsFor(e, a) = {}
                                       /\ e[1] # "suite_register"}
AfterCall(e, j) ==
  {a \in Considered(e) \cup Swept(e) : /\ Resolvable(e, a)
                                       /\ WaitsFor(e, a) # {}
                                       /\ Max(WaitsFor(e, a)) = j}
PlacedAll(e) == Considered(e) \cup Swept(e)  \* faulty variant: resolved or not
Placed(e) == InPreamble(e) \cup UNION {AfterCall(e, j) : j \in DOMAIN calls[e]}

(* A pending allocation is met at its first dimension that is not there    *)
(* yet; one that turns out unresolvable after its producer's call is       *)
(* warned about on the spot (_resolve_and_splice_pending_allocs).          *)
Unmet(e, a) == {j \in DOMAIN dims[a] : \/ Awaited(e, dims[a][j])
                                       \/ ~InScope(e, dims[a][j])}
Postponed(e, a) == Unmet(e, a) # {} /\ Awaited(e, dims[a][Min(Unmet(e, a))])
WarnedAtOnce(e) ==
  {a \in Considered(e) : a \notin Placed(e)} \cup
  {a \in Swept(e) : Postponed(e, a) /\ a \notin Placed(e)}

Init ==
  /\ dims \in [Arrays -> DimChoices]
  /\ calls = [e \in Entries |-> <<>>]
  /\ generated = 0
  /\ lazy = [e \in Entries |-> {}]
  /\ after = [e \in Entries |-> <<>>]
  /\ scheduled = {} /\ deferred = {} /\ warned = {}
  /\ ran = 0 /\ k = 0
  /\ allocated = {} /\ unsized = {} /\ produced = {}

(***************************************************************************)
(* The suite is read, in the order in which SuiteVariableModel looks at    *)
(* it: phase by phase, and group by group within a phase.  A variable is   *)
(* suite-owned because its first occurrence is intent(out).  Dimensions    *)
(* produced anew in every step make their arrays local to the functions    *)
(* (_is_run_local_var); those are not modelled, so a dimension here is     *)
(* produced at register or init, once.  A scheme uses an array after the   *)
(* schemes that produce its size (one that did both would have to declare  *)
(* the array allocatable and allocate it itself: not modelled either).     *)
(***************************************************************************)
Seen(v) == \E e \in Entries : Declared(e, v)
SchemePhases == {"suite_register"} \cup
                {"group_init", "timestep_init", "run", "timestep_final",
                 "group_final"}

Declarations == {c \in [Vars -> Intents] : \E v \in Vars : c[v] # "none"}
Relevant == Arrays \cup UNION {Dims(a) : a \in Arrays}
MayFollow(e, c) ==
  /\ \A f \in Entries : calls[f] # <<>> => RunPos[f] <= RunPos[e]
  /\ \A v \in Vars : c[v] # "none" =>
       /\ v \in Relevant
       /\ v \in HostDims => c[v] = "in"
       /\ v \notin HostDims /\ ~Seen(v) => c[v] = "out"
       /\ v \in Arrays => \A d \in Dims(v) \cap OwnedDims :
                             Seen(d) /\ c[d] # "out"
       /\ v \in OwnedDims /\ c[v] = "out" =>
            ~Seen(v) /\ e[1] \in {"suite_register", "group_init"}

ReadSchemeCall ==
  /\ generated = 0
  /\ MapThenSumSet(LAMBDA e : Len(calls[e]), Entries) < MaxCalls
  /\ \E e \in Entries, c \in Declarations :
       /\ e[1] \in SchemePhases
       /\ MayFollow(e, c)
       /\ calls' = [calls EXCEPT ![e] = Append(@, c)]
  /\ UNCHANGED <<dims, gen_vars, run_vars>>

Generate ==
  /\ generated < Len(GenerationOrder)
  /\ LET e == GenerationOrder[generated + 1] IN
     /\ lazy' = [lazy EXCEPT ![e] = InPreamble(e)]
     /\ after' = [after EXCEPT ![e] =
                    [j \in DOMAIN calls[e] |-> AfterCall(e, j)]]
     /\ scheduled' = scheduled \cup Placed(e)
     /\ warned' = warned \cup WarnedAtOnce(e)
     /\ deferred' = deferred \cup (Swept(e) \ (Considered(e) \cup Placed(e)))
  /\ generated' = generated + 1
  /\ UNCHANGED <<dims, calls, run_vars>>

(* warn_unallocated, when all functions have been generated.               *)
Warn == warned' = warned \cup (deferred \ scheduled)

FinishGeneration ==
  /\ generated = Len(GenerationOrder)
  /\ generated' = generated + 1
  /\ Warn
  /\ UNCHANGED <<dims, calls, lazy, after, scheduled, deferred, run_vars>>

(***************************************************************************)
(* The host runs the generated functions.                                  *)
(***************************************************************************)
Ready == generated = Len(GenerationOrder) + 1
Current == RunOrder[ran]
Calling == Ready /\ ran > 0 /\ k < Len(calls[Current])

(* if (.not. allocated(a)) allocate(a(dims)) for each a in as.             *)
AllocateAll(as) ==
  /\ allocated' = allocated \cup as
  /\ unsized' = unsized \cup
       {a \in as \ allocated : ~(Dims(a) \cap OwnedDims \subseteq produced')}

EnterFunctionKeepsCount ==   \* faulty variant
  /\ Ready /\ ~Calling /\ ran < Len(RunOrder)
  /\ ran' = ran + 1
  /\ UNCHANGED <<k, produced>>
  /\ AllocateAll(lazy[RunOrder[ran + 1]])
  /\ UNCHANGED <<dims, calls, gen_vars>>

EnterFunction ==
  /\ Ready /\ ~Calling /\ ran < Len(RunOrder)
  /\ ran' = ran + 1
  /\ k' = 0
  /\ UNCHANGED produced
  /\ AllocateAll(lazy[RunOrder[ran + 1]])
  /\ UNCHANGED <<dims, calls, gen_vars>>

(* A scheme call, and the allocations spliced in after it.                 *)
CallScheme ==
  /\ Calling
  /\ k' = k + 1
  /\ produced' = produced \cup
       {d \in OwnedDims : calls[Current][k + 1][d] = "out"}
  /\ AllocateAll(after[Current][k + 1])
  /\ UNCHANGED <<dims, calls, gen_vars, ran>>

AllCalled == /\ Ready /\ ran = Len(RunOrder) /\ ~Calling
             /\ UNCHANGED vars

Next == \/ ReadSchemeCall \/ Generate \/ FinishGeneration
        \/ EnterFunction \/ CallScheme \/ AllCalled

Spec == Init /\ [][Next]_vars

(***************************************************************************)
(* Properties.                                                             *)
(***************************************************************************)
TypeOK ==
  /\ dims \in [Arrays -> DimChoices]
  /\ generated \in 0..(Len(GenerationOrder) + 1)
  /\ scheduled \subseteq Arrays /\ deferred \subseteq Arrays
  /\ warned \subseteq Arrays /\ allocated \subseteq Arrays
  /\ unsized \subseteq allocated /\ produced \subseteq OwnedDims
  /\ ran \in 0..Len(RunOrder)
  /\ k \in 0..(IF ran = 0 THEN 0 ELSE Len(calls[Current]))
  /\ \A e \in Entries : lazy[e] \subseteq Arrays

(* The scheme about to be called finds its arrays allocated, if the user   *)
(* was not warned that it would not (SuiteVarEntry: suite-owned arrays are *)
(* "allocated in the suite's initialize function") and if the function     *)
(* that uses an array first at run time is also the first of its users to  *)
(* be generated: the guarded allocation is then in it. Where the two       *)
(* orders differ the scheme may get it unallocated, without a warning.     *)
NextUses == {a \in Arrays : Calling /\ Declares(Current, k + 1, a)}
Missing == NextUses \ (allocated \cup warned)
Users(a) == {e \in Entries : Uses(e, a)}
OrdersAgree(a) ==
  \E e \in Users(a) : \A f \in Users(a) :
    /\ RunPos[e] <= RunPos[f]
    /\ GenPos[e] <= GenPos[f]

AllocatedWhenOrdersAgree ==
  \A a \in Missing : ~OrdersAgree(a)

(* No array some scheme uses is left without both an allocation and a      *)
(* warning (warn_unallocated).                                             *)
EverywhereAllocates(a) ==
  \E e \in Entries : a \in lazy[e] \cup UNION Range(after[e])
NothingForgotten ==
  Ready => \A a \in Arrays : Users(a) # {} =>
             EverywhereAllocates(a) \/ a \in warned

(* An array is sized by scalars that have been produced: the allocation    *)
(* comes after the producer's call (_resolve_alloc_dim_var_refs), as long  *)
(* as no function has one scheme produce the scalar and another read it.   *)
Merged(a) == \E e \in Entries, d \in Dims(a) \cap OwnedDims :
               Declared(e, d) /\ MergedIntent(e, d) = "inout"
SizedUnlessMerged == \A a \in unsized : Merged(a)
=============================================================================

# A TLA+ model of xdsl-ccpp

xdsl-ccpp generates the Fortran "caps" through which a host model calls suites
of physics schemes (CCPP). A compiler pipeline of passes over an IR turns scheme
metadata and suite definitions into one *suite cap* per suite and one *host cap*;
the caps then run inside the host, with model instances, threads, column chunks
and devices. Two things can go wrong and are hard to test: what the generator
puts where (order of passes, phases and groups, names, intents, conversions), and
what the generated code does when the host's calls interleave, fail or come in
another order. The modules here model both, the generator as operators over small
metadata and the generated code as state machines.

## Inventory

| component | code (under `src/xdsl_ccpp/`) | state | operations | interacts with |
|---|---|---|---|---|
| suite cap phase functions | `transforms/suite_cap.py`, `transforms/suitecap/*` | `ccpp_suite_state` (scalar or one entry per instance), suite-owned variables at module scope | register, initialize, finalize; per group init, timestep_init, run, timestep_final, final | called by the host cap, calls schemes |
| host cap dispatch | `transforms/run_dispatch.py`, `lifecycle_cap.py`, `ccpp_cap.py` | none of its own but constituent objects | `ccpp_register` ... `ccpp_final` selected by suite and part | host, suite caps |
| host cap assembly | `transforms/ccpp_cap.py`, `transforms/util/cap_shared.py` | none | maps of constituents and results, `ccpp_physics_suite_variables` | host cap dispatch, host |
| original capgen's API | `transforms/capgen_api.py` | the host's `errcode` | `<host>_ccpp_physics_register` ... `_finalize`, each a chain of host cap calls | host, host cap |
| host drivers | `src/examples/*/main.F90`, `test_host.F90` | chunk, instance and step counters, `errflg` | the call sequence of a run | host cap |
| allocation scheduling | `suitecap/suite_owned.py`, `promotion.py`, `phase_functions.py` | `already_scheduled_allocs`, pending allocations, deferred warnings | one pass per phase function | suite variable model; output is executed by the suite cap |
| suite variable model | `transforms/util/suite_variable_model.py` | classification of standard names | first-writer scan, collision renaming | allocation scheduling, GPU passes |
| package caps | `package_scope.py`, `package_segments.py`, `lower_packages.py`, `suitecap/package_cap.py` | segments and their interfaces | scoping, splitting a group into segments | suite cap |
| constituents | `constituent_cap.py`, `framework_src/ccpp_constituent_prop_mod.F90`, `ccpp_hash_table.F90`, `ccpp_scheme_utils.F90` | constituent table, locks, index maps, per-instance objects | register, lock, initialize, lookup, deallocate | host cap, schemes |
| device residency | `gpu_data_pass.py`, `gpu_ccpp_cap_pass.py`, `suitecap/gpu.py`, `constituent_residency_pass.py` | device copies (at run time) | enter/exit data, update self/device | suite and host cap |
| marshaling | `suitecap/block_args.py`, `call_sequence.py`, `active.py`, `backend/print_ftn.py` | temporaries of a call | kind, unit and orientation conversion, active gates, level loops | scheme calls |
| host matching, ownership, kinds | `host_var_match_pass.py`, `arg_ownership_pass.py`, `generate_kinds.py` | none | annotations of the metadata | all cap passes |
| capture and replay | `framework_src/ccpp_capture_mod.F90`, `scheme_io_capture_pass.py`, `capture_driver_ir.py` | counter per table, one open file, the capture directory | begin, write, end, replay | scheme calls |
| C++ interoperability | `cpp_interop.py`, `backend/print_cpp_header.py` | the host's `State` | wrappers, prototypes and State | host cap, C++ host |
| dependency resolution, validation | `module_dependency_resolver.py`, `validate_source.py`, `fortran_preprocess.py` | none | scan of sources, graph traversal, preprocessing, comparison | capture, tools |
| printers, dialects, frontends, tools | `backend/`, `dialects/`, `frontend/`, `tools/` | none | text and IR in and out | everything |

Hard behaviours: calls of several instances and threads interleave over shared
module variables; allocation is "if not allocated" at first use; the state is
checked once and set unconditionally; scheme failures turn the rest of a function
into no-ops but not its tail; functions are *generated* in one order and *called*
in another; an argument is described in several places (declared intent, merged
intent, dummy, result, list) that are derived apart from each other; pointers and
index lists outlive what they were taken from; files outlive the run that wrote
them. `PROJECT.json` lists these as hazards, each at its line, with the properties
that would catch it and a note where a property excludes a case that really
occurs.

What makes each component correct, in a sentence: a call that passes its checks
runs with the state it checked and values that are its own (suite cap, drivers);
an array is allocated before it is used, with a size already known (allocation);
every way to a constituent's index gives the same one (constituents); a reader
sees the last value written under its standard name, in its own units, kind and
order, in its own memory space and of its own columns (routing, marshaling,
residency, column chunks, C++); schemes are called in the suite's order
(packages); a recorded file is one call and a replay passes on the captured scheme
(capture); a zero error code means the work is done (the original API).

## Modules

### The suite cap and its hosts

`Lifecycle` -- the abstract specification: each model instance has a life of its
own (initialize, time steps, finalize), and a step ends only when every group has
run over every block of columns, none of it twice.

`SuiteCap` -- the generated suite cap. Every thread runs the body laid out by
`_assemble_func`, one action per step that can interleave:

| action | code |
|---|---|
| `Dispatch`, `Miss` | the if-chain over suite and part in the host cap; `errflg` cleared, or set to 1 when nothing matches |
| `TestAllocated`, `Allocate`, `InitState` | `LazyAllocOp` as printed: test, allocate, initialize; the suite state last; the same steps for the allocations spliced in after a producer's call |
| `Check` | `generateStateCheckOps`: a mismatch raises `errflg` and the function goes on |
| `Scheme`, `SchemeFails`, `SkipScheme` | one scheme call under `errflg == 0`, its failure, and its omission |
| `CallsDone`, `Return` | the end of the calls; the state assignment, made whatever `errflg` is, and the return |

`CheckState` and `SetState` are the `PhaseSpec` tables. Suite-level init/final
hooks are scheme calls of `suite_initialize`/`suite_finalize`. Values are
abstracted to *tags*: whose data (instance, blocks of the writing call) a cell of
a suite-owned variable holds. `Contract` is what the cap needs of a host that
overlaps calls: a call may enter while others are inside only if all it may
allocate is there and neither it nor they set the state of its slot. The code
nowhere enforces it; it is an assumption of `Spec`, and the two modules below show
which hosts meet it.

`HostDriver` -- the drivers of `src/examples` around `SuiteCap`. A plan is a sequence
of stages (barriers in between) of tasks (call sequences) that threads take
(`TakeTask`, `MakeCall`, `Proceed` for a step in the cap, `CallReturns`,
`NextStage`); after every call a driver looks at `errflg` and stops if it is set. The module does *not* assume
`Contract`. Plans: `PhaseMajor` (`instances`, `chunked_data`, `ddthost`),
`ThreadPerInstance` and `ThreadPerLife` (the host that
`multilanguage_limitations.md` proposes, with the suite-level phases ahead of the
threads or inside them), `WrongSuite`, `WrongPart`. What makes a plan a good one is
written down apart from how it is built: `Orderly` says which state, and which work
done, each call demands and leaves (`Demands`, `Leaves`), that no two tasks of a stage
change what the other has to do with (`Apart`), that a stage with several tasks finds
allocated what it needs, and that every demand is met by the calls ahead of it.
`WritesFirst` says of a plan and the suite that whatever a scheme touches is allocated,
and what it reads is written, by an earlier stage, call or scheme (`Supplied`).

`CapgenHost` -- a host behind original capgen's wrappers, on top of `SuiteCap`. A
wrapper is a *script* of host cap calls, each with or without an early return
behind it; `EnterWrapper`, `BeginCall`, `Proceed`, `EndCall`, `UnknownSuite` and
`LeaveWrapper` run it. The host may call the wrappers in any order, without bound,
and go on after a failure.

### The generator's schedule of allocations

`AllocSchedule` -- a suite is read (`ReadSchemeCall`), the phase functions are
generated in the order of `_generate_lifecycle_fns` with the shared
`already_scheduled_allocs` (`Generate`, `FinishGeneration` for the deferred
warnings), then the host calls them in the order of the drivers (`EnterFunction`,
`CallScheme`, `AllCalled`). It tells which array is allocated where, in which
order, and which warnings are issued.

### Constituents

`HashTable` -- `ccpp_hash_table.F90` as operators: buckets with chains, lookup,
add, update, and the iterator `next`.

`Constituents` -- the generated routines over `ccpp_model_constituents_t` for
several instances, called by a serial host in any order. `RegisterConstituents`
starts a registration that goes on step by step (`AddOne`, `AddFails`, `LockTable`,
`Count`, `Counted`, `Assign`, `Assigned`, `Publish`, together `Registering`); `CcppRegister`, `InitializeConstituents` and
`DeallocateDynamicConstituents` are one action each. State: the objects with their
tables and locks (`obj`), what the cap keeps of them (`cap`), the list in
`ccpp_scheme_utils` (`utils`), the call under way (`call`).

`ConstituentMap` -- the abstract promise: a registered instance has a map from
names to the indices 1..n, advected constituents first, that stays while its data
is in use.

### Values on their way through the caps

`Matching`, `SuiteSignature`, `HostCap`, `FlatDispatch`, `VariableLists` -- the
passes as operators: where an argument lives (`host_var_match_pass`,
`arg_ownership_pass`), the names and signatures of the suite cap's functions, the
wrappers of the grouped phases and of the flat ones, and the lists of
`ccpp_physics_suite_variables`. `Routing` runs them in order (`MatchHost`,
`ModelSuite`, `GenerateFunction` -- which may merge intents for the next function
--, `Connect`, `Compile`) and then runs the host (`CallScheme`, `Return`). Values are
the standard name they were written under and a counter.

`PackageSegments` and `Marshaling` -- segments, the lowering of packages and their
state calls; then the functions generated for one variable and their execution:
`EnterPhase`, `Convert`, `ConvertBack`, `StateCheck`, `Branch` (gates, loops),
`StateCall`, `SchemeReturns`, `SchemeFails`, `Return`.

`Directives`, `ResidencyPlan`, `Residency` -- the rules of OpenACC's reference
counts that the source relies on (external); the lifetimes, anchors and syncs the
GPU passes place; and a simulation in which every directive and every scheme call
is a step (`Dispatch`, `Directive`, `SchemeCall`, `SchemeFails`, `GuardedCall`,
`HostComputes`). A copy is the set of column parts of which it holds the newest
value.

`ColumnChunks` -- which part of an array a scheme gets: the section the host cap
passes, the extents the suite cap finds by standard name, the promotion loop over
levels and the size of a suite's own array, over phases run whole or in chunks
(`EnterPhase`, `EnterFunction`, `SkipPhase`, `CallScheme`).

`InteropWrappers` and `Interop` -- the BIND(C) wrappers, the prototypes and the
State's fields, and a C++ host that compiles and calls them (`Generate`, `Compile`,
`EnterWrapper`, `EnterSuite`, `CallScheme`, `SkipScheme`, `LeaveWrapper`).

### Capture and replay

`SourceScan` and `SourceFacts` -- what the resolver reads from Fortran sources: the scan of
a file statement by statement (`_scan_cached`), the files a scheme is built from
(`source_closure`), the procedures that reach MPI (`mpi_reach`) and the module variables a
procedure reads, assigns and sets (`module_state_access`). Next to them stands what the
language makes of the same sources (`Meanings`, `Performs`), which the code is compared
with.

`CapturePlan` -- from these facts the phases to capture, the setters of module state to
replay ahead of them, and whether a driver can be built (`_drop_mpi_capture_phases`,
`_module_state_setters`, `_plan_state_setup`, `_write_capture_cmake`).

`CaptureFiles` and `Capture` -- the runtime library with its counters and one open
file, operations on files that may fail; then runs of the model in one directory
(`StartRun`, `StartBatch` of calls side by side, `Before`, `After`, `Record`,
`EndCapture`, `CallOf`, `Crash`) and the generated driver (`StartDriver`,
`ReplayCall`, `NoCalls`).

### Checking and proving

`MC*` modules give the constants their values. `SuiteCapProofs`,
`HostDriverProofs`, `CapgenHostProofs`, `AllocScheduleProofs`, `HashTableProofs`,
`ConstituentsProofs`, `ResidencyProofs` and `CaptureProofs` hold the theorems. Definitions marked
"faulty variant" are plausible bugs of the definition after them; nothing uses
them but the test that each property notices its bug.

## Runs

| run | what it asks | bounds |
|---|---|---|
| `instances` | lives of instances: `ImplementsLifecycle`, `NoSpuriousRejection`, the drivers keep to the contract (`ObeysContract`), all come to an end (`CompletesCleanly`), the inductive invariant `IInv` | 3 instances, 2 threads, 2 groups, 2 steps, 2 lives |
| `chunks` | threads sharing the chunks of one instance: the inductive invariant of orderly plans (`DriverInv`), `ReadsOwnValues` | 1 instance, 2 threads, 2 groups, 3 blocks, 2 steps |
| `capgen_host` | the original API called in any order with any scheme failing: `InitializedOnce`, `SuccessMeansDone` | 1 thread, 1 instance, 2 groups, one scheme per group phase and one hook per suite phase; the number of calls is not bounded |
| `alloc_schedule` | allocation over generation and run order: `AllocatedWhenOrdersAgree`, `NothingForgotten`, `SizedUnlessMerged` | all suites of up to 3 scheme calls in 2 groups, 1 array over 4 choices of dimensions |
| `constituents` | `IndicesAgree`, `PublishedLive`, `SchemesFindOwn`, `RegistrationVerdict`, `RegistrationReturns`, refinement of `ConstituentMap` | 2 instances, 4 names with a collision of buckets, lists in conflict and off the layers; calls in any order, unbounded |
| `routing` | `CallsFit`, `ReadsLastValue`, `HostGetsResults`, `ListsTell` | 2 standard names, a host that declares each in a module, a table, a derived type, a control table or not at all, 2-3 entry points, 1-2 groups, 1-2 suites with schemes of their own |
| `marshaling` | `CallsInSuiteOrder`, `StateBrackets`, `ReadsInOwnTerms`, `HostKeepsValid`, `NoFault` | 1 variable, up to 3 schemes, 12 shapes of suite with 5 sets of phases, 2 levels, loops of 2, the host calls init, run, run, final |
| `residency` | `ReadsNewest`, `NeverFaults`, `HostSeesResults`, `ReferencesBalanced` | 1 variable with 5 owners, 2 schemes in 1-2 groups, up to 3 uses of 5 kinds, 1-2 chunks, 2 time steps |
| `column_chunks` | `ReadsOwnColumns`, `KeepsEveryColumn` | 3 columns whole or in chunks of 2 and 1 in any order, 2 layers (3 interfaces), 1 array, 2 schemes, timestep_init, run, run |
| `interop` | `WrappersFit`, `SchemesGetValues`, `ResultsReturned` | 1,563 sets of metadata in 11 families; the host calls init, timestep_init, run, run |
| `capture` | `FilesHoldOneCall`, `ReplayFollowsRun`, `ReplayReproduces`, `PassMeansAgreed` | 26 cases, whose plans come from 247 sets of sources that see, name, pass on or set a module variable in different ways; 2 runs, 2 workers, up to 3 calls per table, 3 counters, 1 fault |
| `threads_cold` (violated) | `NoStateFault` without a serial first call | 2 instances, 2 threads |

Why the bounds are enough: two threads and two instances give every pairwise
interleaving, and all conditions in the code relate two calls at most; the third
instance has one wait while two overlap. Two steps and two lives pass every state
transition a second time. Two groups are the least that separate "first group"
from "last group". Three blocks let two threads meet in the middle. An allocation
fault needs at most a producer, a reader and a user: three scheme calls. Four
constituents with one collision give a chain and a bucket on each side of it, and
an advected constituent behind one that is not. A value is lost between a writer
and a reader that disagree, with at most one scheme between them that merges an
intent, splits a segment or shares a name: three schemes. Two timesteps are what
a lifetime held across steps needs; chunks of 2 and 1 tell the first chunk's width
from the next one's and from the total. Two runs are what a stale file needs, and
one fault is enough to mix it with new results. Where a number is small because of
the state space only (one array, one variable), the code treats arrays and
variables independently of each other but for their names, which `routing` covers
with two; for the allocations a theorem covers any number.

`CHECK_DEADLOCK FALSE` stands in `routing`, `interop` and `column_chunks`: the
generator, or the compiler behind it, refuses metadata, and the host stops when
its phases are done. Elsewhere the end is a stuttering action of its own.

Fairness: in `HostDriver` weak fairness of every thread's steps and of the
barrier. Threads are scheduled by the operating system and a scheme call returns;
nothing in the caps waits, so nothing stronger is needed. In `Constituents` weak
fairness of `Registering`: a routine that was called goes on. The host's calls
themselves are not fair.

### What the violated run shows

`threads_cold`: the proposal to give every thread a slot of its own
(`multilanguage_limitations.md`, section 6, lines 229-234) is sound only once some
call that uses the state has returned: the first two calls race in
`if (.not. allocated(ccpp_suite_state)) allocate(...)`
(`suitecap/host_scalars.py:227`). `instances` includes the same threads behind a
serial `ccpp_init` (`ThreadPerInstance`) and passes.

### What the passing runs leave out

Some properties hold only but for metadata, or hosts, that the generator accepts
and gets wrong. Each such case is a named predicate next to the property that
excludes it; it is as narrow as TLC would let it be.

* *Allocations.* A group's `run` is generated before its `timestep_init`, and the
  first one generated takes the only allocation: an array whose only allocation
  is in `run` is not there in the `timestep_init` that uses it, and nothing warns
  (`OrdersAgree` is the exact condition). A reader of the sizing scalar in the
  producer's own phase makes the merged intent `inout` and defeats the deferral
  (`phase_functions.py:400`, `promotion.py:226`; `Merged`).
* *Instances.* Only the suite state is per instance. Suite-owned arrays are shared
  (`module_assembly.py:70`; `src/examples/threads/main.F90:8-11` says so), so one
  written in `timestep_init` and read in `run` holds the last instance's values;
  `chunks` therefore has one instance. They are never deallocated
  (`module_assembly.py:171`), and `ccpp_suite_state` keeps the size of the first
  call (`host_scalars.py:227`).
* *Original API.* Group finals may run on groups never initialized. The timestep
  phases check no state: `timestep_initial` on an uninitialized suite returns 0. A
  rejected `ccpp_init` or `ccpp_final` still sets the state. A retry of `initialize`
  after a failure is rejected; a retry of `finalize` finalizes the first groups a
  second time.
* *Routing.* `ResultNameShared` (`block_args.py:208-286`), `SchemeReusesName`
  (`suite_variable_model.py:275-330`), `SuiteVariableHidden` (366-372, against the
  docstring at 304-308), `WrapperDummyHides` (`run_dispatch.py:499-511`, 1448, 1520;
  in flat phases `lifecycle_cap.py:165-172`, where a second suite gets the first
  one's host variable under the same local name), `ResultsMiscounted`
  (`run_dispatch.py:1382`, `cap_shared.py:1646-1769`), `MemberRenamed` (1471),
  `Unechoed` (1523-1526), `Narrowed` (504; the first suite's intent in flat phases),
  `ResultLost` (1508-1550; `lifecycle_cap.py:488-525`), `NeverProduced` (the docstring
  at `suite_variable_model.py:147-150`, `host_var_match_pass.py:510-529`),
  `TwoCategories`, `RegisteredAlike` (`lc_<arg_name>` shared by suites,
  `lifecycle_cap.py:387-443`), `RegisterTakesArguments` (`capgen_api.py:246-254`).
  `_render_suite_variables_subroutine` returns the required list when both flags
  are false.
* *Marshaling.* `SeesEntries` (`lower_packages.py:279-296`, against its docstring
  21-24), `NamesPhasesAlike` (`PHASES`, `package_segments.py:39`), `OrderSettled`
  (`phase_functions.py:416-434`), `LevelsAgree` (`promotion.py:419-428`),
  `OwnUnitsAgree`, `KeptOnFailure` (`phase_functions.py:511`: a failed phase writes
  back an output that no one wrote), `OneConversion` (`print_ftn.py:1617`).
* *Residency.* A pair of directives with one end at the run phase does not balance
  in a host that calls run once per chunk (`Paired`;
  `gpu_ccpp_cap_pass.py:45-46`, `CHANGELOG.md:641-643`). A variable kept on the
  device across time steps does not see what the host writes between them
  (`disturbed`). A suite-owned array that only the time steps use would be deleted
  without having been created in a simulation that takes none
  (`suitecap/gpu.py:63-71` calls an unmatched exit invalid; `Timesteps`).
* *Column chunks.* `NotCut`, `TotalPassed`, `LevelsCutToTotal`, `OwnNotCut`,
  `SizedByChunk` (the comment at `promotion.py:201-205` says "All columns, in
  whichever routine allocates it"; `run_dispatch.py:876-902` passes the chunk's),
  `SizedByOther`, `NeverAllocated`, `AllocatedLate`, `LevelsMiscounted`,
  `LevelsTakenForOthers`. Each is told from the names alone -- which extents the
  schemes of a function take and the modules have -- and none from an extent or a
  section the model computes, so an array sized wrongly in any other way violates
  `ReadsOwnColumns`: with `AllocExtentAnyName`, which leaves out the search for the
  total, the run finds an array sized by the first chunk.
* *C++.* `GroupsDiffer` (`cpp_interop.py:995`), `FieldsClash`, `FailureMasked`
  (1471-1491: each group's call clears the flag of the one before), `Misshapen`,
  `InterfacesTwice` (690-726), `ScalarsWritten` (against
  `multilanguage_limitations.md`, section 9, lines 287-299), `ThirdNotPassed`,
  `ColumnsInMember`, `LogicalWritten` (section 4a, lines 115-116, says "value"),
  `ResultUnfound`, `ResultAfterErrors`, `IntentsMixed`.
* *Capture.* A file whose creation was refused is completed with another run's
  results (`refused`); calls side by side mix (`Together`); files of a longer
  earlier run are replayed and a gap ends the replay (`Complete`); state set by
  others is replayed only if no phase of the scheme sets it
  (`ccpp_dsl.py:1748`, `SettersLeftOut`), if it is found by the name it has there --
  which it is not where a module hands on what it uses, or a USE without an ONLY list
  renames it, or renames a procedure on the way (`MissedByName`;
  `module_dependency_resolver.py:761-786`) -- and in lifecycle order (`InOneLife`). The
  constituent table is restored from the first registration only, an array that is
  not on file compares as an empty one and passes, and a call that failed when it
  was captured is replayed as a failure.
* *Constituents.* `SchemesFindOwn` speaks of instances that registered the same
  list in the same order: `ccpp_scheme_utils` keeps one list for all.

## Proofs

The theorems hold for every value of the constants, under the assumptions named in
the modules (`ConstantsAssumption`, `OrderAssumption`, `PlansAssumption`,
`GroupAssumption`, `VariableAssumption`, `HashAssumption`, `ConstituentAssumption`,
`SizeAssumption`, `SuitesAssumption`, `CaptureAssumption`, `CasesAssumption`). Most say only of what kind
the constants are. The others: a group occurs once in the order of the groups, as the
suite definition gives it; a host of the original API has one thread and one instance
(`OrderAssumption`; `capgen_api.py:48` refuses several instances); the metadata of
the schemes has an advected constituent (`Fixed # <<>>`), since the iterator has
nothing to start from in an empty table; `SuitesAssumption` has the host take at least
one time step, its column chunks cover parts of the array, and every scheme that uses the
variable stand in a group, with no use of constituents before there are any; and
`SizeAssumption` lets the default integers count what is
registered (`ccpp_constituent_prop_mod.F90:1289-1298`, `ccpp_hash_table.F90:169`). TLC
evaluates them all in the runs.

### The suite cap (`SuiteCapProofs`)

* `TypeCorrectness`: `Spec => []TypeOK`
* `StateIsThere`: `Spec => []NoStateFault`
* `CheckIsEnough`: `Spec => []CheckedStateHolds`
* `Invariance`: `Spec => []IInv`, from which the three follow; `instances` checks it.

None of the three is inductive. That a thread about to allocate is alone needs
that any two threads inside are `Compatible` (`PairwiseCompatible`): at most one of
them has anything left to allocate, neither sets the other's slot, and the state
is ready if both use it. That a pair stays compatible needs that what a thread has
still to allocate belongs to its function (`InsideKnown`), that the state array is
allocated before the check or not at all (`StateProvided`), and that only its
allocator sees it uninitialized (`Initializing`). `HoldsSinceCheck` extends
`CheckedStateHolds` over the allocations between the calls. There is one lemma
per action and one step per part of `IInv`. The hypothesis that carries the
argument is `Contract`, which `Spec` assumes of the host. The next two modules
discharge it.

### The hosts (`HostDriverProofs`, `CapgenHostProofs`)

* `ContractSuffices`: `HostSpec /\ ObeysContract => Spec`. The drivers' steps are steps
  of the suite cap or stutter, so all that is proved of the cap holds of a driver
  that keeps to the contract; `DriverInvariance` draws the conclusion for `IInv`.
* `SerialObeys`: a driver whose stages have one task each keeps to the contract,
  for any plan, instances, groups and schemes. The invariant is `OneAtATime`: at
  most one thread has something to do. `SerialInvariance` then has
  `[]CheckedStateHolds` of such a driver without any hypothesis on its calls.
* `OrderlyObeys`: a driver with orderly plans keeps to the contract, however many
  tasks share a stage and whichever threads take them; so all of the above holds of it.
* `OrderlyAccepted`: such a driver is never told "Invalid initial CCPP state"
  (`NoSpuriousRejection`).
* `OrderlyImplements`: its steps implement `Lifecycle` (`ImplementsLifecycle`), whatever
  fails, where every life has a state of its own: a cap built for several instances,
  or one instance (`OneLifeEach`; a cap built for one keeps a single state for all).
* `OrderlyInvariance`: `[]DriverInv`, from which the three follow; `chunks` checks it.
* `SchemesReadOwnValues`: if there is one instance, and the plans write before they
  read as well, no scheme reads a suite-owned value that no scheme of its instance has
  written for its columns, or an array not allocated (`ReadsOwnValues`), whatever
  fails. `ValuesInvariance` has the invariant behind it, `[]ValuesInv`.
* `KeepsContract`: `CapgenSpec => Spec`. In whatever order the host calls the
  original API and whatever fails, the wrappers never overlap two calls.
* `OnlyOnce`: `CapgenSpec => []InitializedOnce`; `TellsTheTruth`: `CapgenSpec =>
  []SuccessMeansDone`. Both follow from `HostInvariance`: `IInv` together with
  `HostInv`.

An orderly plan is one whose calls would succeed one task after the other; the theorems
say that overlapping them, as `Apart` allows, changes nothing. `DriverInv` carries this
through the interleavings. A *key* is the state of a slot or a piece of work (a group
over a block of columns). For every call still to make, `RemainingReady` promises each
key it demands: by a call ahead of it in its own task, or already now, where no call
ahead touches the key. It also promises the next stage the values it enters with. A
step of one task keeps the promises to the others since their keys are apart
(`StageInOrder`). That a stage starts with its promises kept is where `EntersWith` meets
what the last stage left (`EnteredInv`). The contract asks besides that overlapping
calls have nothing to allocate (`StagesAllocate`), for which the cap must have
allocated all it was to by the end of a call (`AllocatesInTurn`), and that a state is
undefined only while the state array is being made (`Undefinedness`): that is what
a check would reject. For the refinement the life of an instance is the state in its
slot as long as the driver goes on, `ran` is the work done, and a step in the abstract
ends only if all work is done because the call demands it.

The theorems take `OrderlyPlans` as a hypothesis. The plans of `instances` and of
`chunks` are built with `FlattenSeq`, a fold, so that they are orderly is not proved
for every number of instances, groups and steps; `MCInstances` and `MCChunks` assume
it and TLC evaluates the assumption (`PlansAreOrderly`). The two plans in which a driver
asks for a suite or a part that is not there are orderly as well, since such a call
demands and leaves nothing. `ThreadPerLife`, the cold start of `threads_cold`, is not.

`ReadsOwnValues` needs to know of every cell (a variable over a block of columns) who
wrote it last. `Holding` is the set of cells written. With one instance it never
shrinks: an allocation resets only an array that is not allocated, and all that is held
is (`HeldIsAllocated`), so that a scheme of an overlapping chunk may write, but not take
away, what another reads. `WritesInTurn` says that a call has written what its schemes so
far write, `StagesWrite` that what earlier stages, and the calls a task has made, write
is held, and `RemainingSupplied` that every call still to make is supplied from that. A
driver stops at the first error, so a call that was cut short is nobody's supplier. The
hypothesis is `PlansWriteBeforeReading`, `WritesFirst` of every plan, which `MCChunks`
assumes of its plans and TLC evaluates (`PlansWriteFirst`). The
restriction to one instance is real: the suite-owned arrays have no dimension for
instances, so what one instance writes replaces what another wrote.

`HostInv` says that the script is the rest of the wrapper's (`ScriptLeft`), that a
failure ends it at once (`FailureEnds`) and so far all went well otherwise
(`SuccessSoFar`), that the call the cap is in is the next of the script (`InCall`), that
groups are up only while the suite is initialized or in a step (`UpNeedsState`), and
how far initialize and finalize have come with the groups (`BringsUp`, `TakesDown`).
`BringsUp` is what makes `OnlyOnce` true: the state check of `ccpp_init` lets
initialize in only where no group is up, and then the groups that are up are those
the script has passed.

### The schedule of allocations (`AllocScheduleProofs`)

* `SizesAreThere`: `Spec => []SizedUnlessMerged`
* `NoArrayForgotten`: `Spec => []NothingForgotten`
* `AllocatedForFirstUser`: `Spec => []AllocatedWhenOrdersAgree`

for suites of any length over any groups, arrays and dimensions. `AllocInv`
(`ScheduleInvariance`) joins what the generator and the host know: the suite was
read in order, so a dimension's first occurrence is its producer's and an array
comes after its dimensions (`SuiteRead`); an allocation stands only where it can be
done, ahead of the calls if nothing is waited for, otherwise behind the last call it
waits for (`Placement`); every user generated so far allocates the array, or a
function generated before does, or there was a warning (`AllFollowed`); and what the
calls executed so far produced and allocated is there (`Running`). The two orders
are compared by explicit slots (`RunSlot`, `GenSlot`), shown one to one and to be
what `RunPos` and `GenPos` compute.

### Constituents (`HashTableProofs`, `ConstituentsProofs`)

`HashTableProofs` has the lemmas about the operators: what a lookup finds, that
adding and updating change one entry and keep the others, that keys stay unique, and
that the iterator goes past every place once and ends. On them rest, for any
instances, names, hash function, lists and order of the calls:

* `RegistrationInvariance`: `Spec => []RegInv`
* `PublishedStaysLive`: `Spec => []PublishedLive`
* `FailsForThreeReasons`: `Spec => []RegistrationVerdict`
* `OneIndexMap`: `Spec => [](MapsAgree /\ AdvectedFirst)`
* `OneWayToConstituents`: `Spec => []IndicesAgree`
* `SchemesFindTheirOwn`: `Spec => []SchemesFindOwn`
* `KeepsIndexMaps`: `Spec => ImplementsConstituentMap`

`RegInv` follows a registration through its loops: the table holds exactly what was
given so far, of each name the first, and the others match it (`Faithful`); the
advected entries gone past are counted (`Counting`); the indices given so far have no
gap in either of their two ranges and `const_metadata` is their inverse (`Assigning`),
hence a locked table is indexed from end to end (`LockedIndexed`); what the cap keeps
belongs to the object (`CapsAgree`). `FailsForThreeReasons` needs `Faithful`: a lookup
sees the first constituent of a name, so a mismatch is one in the list.

`OneIndexMap` states the part of `IndicesAgree` about the maps, and that the advected
constituents are those with the indices up to `num_advected`. From it follows
`OneWayToConstituents`: copying field by field, the loop of `copy_in_3d` (`CopyIn`), takes
just the fields of the slice and is never refused one. The loop is a recursive function;
that it takes the first of its fields (`TakesTheFirst`) is argued by the least index at
which it would not.

`SchemesFindTheirOwn` needs more than that each map is consistent: two instances
have to get the *same* map. `OrderInv` says that the chains keep the order of the
list (`Ordered`), that an index is a rank in the list alone, namely the number of
constituents first named there, advected alike, in an earlier bucket or earlier in
this one (`IndexIn`, `ListedNumbered`), and whose list the schemes have
(`HandedOver`). That the running counters of the loop are these ranks is a bijection
between the places the iterator has passed and those first named entries.

`KeepsIndexMaps` maps each step: the last one of `lock_table` (`Assigned`) is
`Register` of `ConstituentMap`; `RegisterConstituents` and
`DeallocateDynamicConstituents` are `Drop`, whether there is a map to drop or not;
`InitializeConstituents` is `MakeReady`; all other steps stutter.

### Device residency (`ResidencyProofs`)

* `DataIsPresent`: `Spec => []NeverFaults`
* `EnteredIsExited`: `Spec => []ReferencesBalanced`
* `ResidencyTypes`: `Spec => []TypeOK`, which bounds the references at two
* `ResidencyInvariance`: `Spec => []ResidencyInv`, from which the three follow

for any suites with any groups, schemes, uses, owners, column chunks and time steps,
with schemes failing wherever they may. A *path* of a sequence is a number before and
after each item such that every step between is allowed (`PathsOf`). It is used twice.
An instruction of a program moves from one count of references to the next (`Does`),
and a program *runs* from `h` to `e` if a path of its instructions does (`Runs`); a call
of the host moves from `h` to `e` if its program runs so (`CallMoves`). The static part
shows that the calls of a whole simulation have a path that begins and ends at the
host's own references (`HostPath`): what a call does is decided by its role in the one
lifetime that takes references (`Holding`, `RoleRuns`, `CallRuns`), and a lifetime is
one of three: ended with each call (`LegacyPath`), from the first use to `ccpp_final`
(`OncePath`), or from its first to its last phase of a time step (`StepwisePath`), where
only the first group that uses the variable enters it and only the last leaves it
(`RoleAtEntry`, `RoleAtExit`). The body of a call, with the syncs between schemes that
disagree, keeps any count above zero (`BodyRuns`). The dynamic part, `HeldInv`, says
that some such path passes, at the call under way, through the count that the rest of
its program leads to; each step then takes the first move off the program, so it finds
its data. Since directives are not guarded by the error flag and calls do not change
the counts, failures change nothing. A suite-owned array has no path of its own, since
it is entered by whichever call allocates it: `OwnedInv` says that it holds one
reference from there to `ccpp_final`, before which some call must have reached it
(`SomeCallTouches`) -- with no time step at all it would be deleted without having been
created, hence the assumption.

For this the plans are written with `Joined`, a recursive function, in place of the
library's folds.

### Capture (`CaptureProofs`)

* `OneCallPerFile`: `Spec => []FilesHoldOneCall`, for any tables, cases, workers, runs
  and failures, from `CaptureInvariance`: `Spec => []CaptureInv`.

Busy workers do calls of one batch (`OneBatch`); a file the run wrote is one it
counts (`Counted`); the open file is of this batch and a worker is going to close it
(`OpenFile`); a call that was begun finds its table's current file begun by its batch
(`CurrentFile`); inputs of an earlier run remain in a counted file only if its
creation was refused (`Renewed`). Without `OpenFile` a write after a crash could
reach a file of the run before; without `Renewed` results could be added to it.

### Only model-checked

* Liveness and whatever needs fairness or ENABLED: `CompletesCleanly`,
  `RegistrationReturns`.
* Modules that use RECURSIVE operators (`PackageSegments`, `Marshaling`), whose
  theorems the provers do not take.
* What a fold or `SelectSeq` computes for every input, which the provers
  cannot unfold: the matching and naming passes of `Routing` and `Interop`, `CallCount` and the replayed sequences
  of `Capture` (`ReplayFollowsRun`, `ReplayReproduces`, `PassMeansAgreed`), the scan and
  the closures of `SourceScan` and `SourceFacts`. They would need induction over data.
* Where the newest values are in `Residency` (`ReadsNewest`, `HostSeesResults`): the
  proofs follow the references, not the two copies.
* `ColumnChunks`: the extents come from lists of arguments (`FlattenSeq`, `SelectSeq`)
  and the calls from a fold.

## Not modelled

* Whole components: the command-line tools, most of the frontends (what a recording leaves of composites,
  hooks and loops is in `PackageSegments`), layout and printing.
* Suite cap (`SuiteCap`): sizes of arrays, run-local arrays (dimensioned by a scalar a
  repeating phase produces), `allocatable` arguments that schemes allocate
  themselves, fall-backs that size an array by `size()` of another or by the loop
  extent. In `AllocSchedule` a sizing scalar is produced once, at register or group
  init, and an array is used only after its size has been produced.
* Packages: allocation of private arrays, device updates in package caps, the
  placement of inits (`_place_package_inits`).
* Marshaling: several gated arguments of one call, character lengths, array bounds.
* Residency: OpenMP's map clauses, debug syncs and prints, subcycled calls.
* Host cap: array sections but for `ColumnChunks`, optional arguments by keyword,
  `ccpp_info_t`, framework arrays and instances in flat dispatch; the rest of the host
  cap's assembly. The lists of suite variables leave out protected and optional
  variables, names that are only dimensions, defaults and active conditions. `Routing`
  takes types, kinds and dimensions to agree, control variables to be read only
  (`ControlIsRead`), a module-level instance of each derived type, and leaves out the
  error arguments.
* Original API: the constituent routines.
* Column chunks: interstitials of a higher rank (`promotion.py:289-297`, 318-330),
  dimensions whose first is not horizontal, row-major conversion, arrays of host
  tables, optional promoted arguments. Schemes take assumed-shape dummies and loop to
  the count they are told.
* C++: column windows, constituent arrays of the register phase and the queries, real
  widths, arrays of integers, the order of the State constructor's parameters and of
  canonical arguments.
* Dependency resolution: how a statement is recognised (`SourceScan` starts from
  statements), preprocessing, the resolution of kinds, the layouts of derived types, the
  dependencies of schemes, the validation of sources against metadata. That the phases
  that reach MPI are found is modelled, but a replay has no MPI to tell it from a
  phase that does not, so no property is about it.
* Capture: the selection of arguments by type, dimensions, device copies, the CMake
  build, tolerances. Library routines are atomic and there is one root task.
* Constituents: the data in the arrays and the setters of properties.

## Plan

1. (done) The suite cap and its hosts: `Lifecycle`, `SuiteCap`, `HostDriver`,
   `CapgenHost`, with their proofs.
2. (done) The schedule of allocations and the constituents, with their proofs and the
   refinement of `ConstituentMap`.
3. (done) Values on their way: routing, marshaling and packages, residency, column
   chunks, C++; capture and replay, with the proof of its file invariant.
4. (done) The drivers for plans characterised by their order: `NoSpuriousRejection`, the
   contract and the step simulation of `Lifecycle`; the values of suite-owned arrays for
   one instance (`ReadsOwnValues`); the copies of constituents. The scan of sources, and
   the plan of a capture from it.
5. (done) The references of `Residency`, for any suite.
6. Proofs still wanted: `KeepsEveryColumn`; the part of `ReplayFollowsRun` that compares
   single calls; the values in the two copies of `Residency`.
7. Not begun: preprocessing, kinds and layouts of derived types; validation of sources.

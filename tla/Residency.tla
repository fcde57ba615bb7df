------------------------------ MODULE Residency -----------------------------
(***************************************************************************)
(* A host drives one suite whose caps carry the generated GPU directives,  *)
(* through a whole simulation, for one variable: every directive and every *)
(* scheme call is a step. Schemes compute where their metadata says, the   *)
(* host computes between its calls.                                        *)
(***************************************************************************)
EXTENDS ResidencyPlan

CONSTANTS Suites,       \* the suites considered (records of ResidencyPlan)
          Timesteps     \* bound: time steps of a simulation

\* The variable is used by schemes of the suite, in the phases that have a
\* table; there are no constituents yet when schemes register theirs. A
\* host's column chunks are the parts of the array, and it takes time steps.
ASSUME SuitesAssumption ==
  /\ Timesteps \in Nat \ {0}
  /\ Schemes \cap Directives = {}
  /\ \A s \in Suites :
       /\ s = [owner |-> s.owner, groups |-> s.groups, uses |-> s.uses, chunks |-> s.chunks]
       /\ s.owner \in Owners /\ s.chunks \in Nat \ {0}
       /\ s.chunks = 1 \/ 1..s.chunks \subseteq Parts
       /\ s.groups \in Seq(Seq(Schemes)) /\ s.groups # <<>>
       /\ DOMAIN s.uses \subseteq Schemes \X TablePhases
       /\ s.uses \in [DOMAIN s.uses -> Uses]
       /\ \A e \in Used(s) :
            /\ \E g \in DOMAIN s.groups : \E i \in DOMAIN s.groups[g] : s.groups[g][i] = e[1]
            /\ Constituents(s) => e[2] # "register"

VARIABLES suite,        \* the suite, its uses' memory spaces derived
          call,         \* how many of the host's calls were dispatched
          todo,         \* what the current call still has to do
          mem,          \* the variable's host and device copies
          errflg,       \* a scheme of the current call failed
          allocated,    \* a suite-owned array: its allocation was reached
          disturbed     \* the host wrote a variable while CCPP kept it resident

vars == <<suite, call, todo, mem, errflg, allocated, disturbed>>

-----------------------------------------------------------------------------
(* The host's calls, in the order of its driver.                           *)

Call(phase, g, chunk) == [phase |-> phase, group |-> g, chunk |-> chunk]

PerGroup(s, phase) == [g \in 1..Len(s.groups) |-> Call(phase, g, 0)]

\* Each group runs over the chunks, one run call per chunk.
RunCalls(s) == Joined([g \in 1..Len(s.groups) |-> [c \in 1..s.chunks |-> Call("run", g, c)]])

StepCalls(s) == PerGroup(s, "timestep_initial") \o RunCalls(s) \o PerGroup(s, "timestep_final")

HostCalls(s) ==
  <<Call("register", 1, 0), Call("initialize_constituents", 1, 0), Call("initialize", 1, 0)>> \o PerGroup(s, "physics_initial")
  \o Joined([t \in 1..Timesteps |-> StepCalls(s)])
  \o PerGroup(s, "physics_final") \o <<Call("finalize", 1, 0)>>

\* The columns a call is passed: those of its chunk, else all of them.
Columns(s, c) == IF s.chunks = 1 \/ c.chunk = 0 THEN Parts ELSE {c.chunk}

TheCall == IF call = 0 THEN Call("none", 0, 0) ELSE HostCalls(suite)[call]
Finished == todo = <<>> /\ call = Len(HostCalls(suite))
Idle == todo = <<>> /\ ~errflg

\* The host is between two time steps, or before the first or after the last.
BetweenSteps ==
  /\ Idle
  /\ \/ TheCall.phase \in {"none", "register", "initialize_constituents", "initialize",
                          "physics_initial", "physics_final", "finalize"}
     \/ TheCall.phase = "timestep_final" /\ TheCall.group = Len(suite.groups)

\* The suites, each use's memory space derived.
Derived == {ResolveConstituentResidency(ApplyDerivedMemorySpace(s)) : s \in Suites}

Initially(s) ==
  [newest |-> CASE s.owner = "managed" -> [sp \in Spaces |-> IF sp = "device" THEN Parts ELSE {}]
                [] s.owner = "suite"   -> [sp \in Spaces |-> {}]
                [] OTHER               -> [sp \in Spaces |-> IF sp = "host" THEN Parts ELSE {}],
   held   |-> IF s.owner = "managed" THEN 1 ELSE 0,
   fault  |-> FALSE]

Init ==
  /\ suite \in Derived
  /\ call = 0
  /\ todo = <<>>
  /\ mem = Initially(suite)
  /\ errflg = FALSE
  /\ allocated = FALSE
  /\ disturbed = FALSE

-----------------------------------------------------------------------------
Dispatch ==
  /\ Idle
  /\ call < Len(HostCalls(suite))
  /\ LET c == HostCalls(suite)[call + 1]
         first == suite.owner = "suite" /\ ~allocated /\ Touches(suite, c.phase, c.group)
     IN /\ todo' = (IF first /\ SuiteOwnedResident(suite) THEN One("enter create", Parts) ELSE <<>>)
                   \o CallProgram(suite, c.phase, c.group, Columns(suite, c))
        /\ allocated' = (allocated \/ first)
  /\ call' = call + 1
  /\ UNCHANGED <<suite, mem, errflg, disturbed>>

IsCall(i) == i.op \in Schemes
TheUse == UseAt(suite, TheCall.phase, Head(todo).op)

Directive ==
  /\ todo # <<>> /\ ~IsCall(Head(todo))
  /\ mem' = Effect(mem, Head(todo))
  /\ todo' = Tail(todo)
  /\ UNCHANGED <<suite, call, errflg, allocated, disturbed>>

SchemeCall ==
  /\ todo # <<>> /\ IsCall(Head(todo))
  /\ ~errflg
  /\ mem' = Computed(mem, TheUse.space, Writes(TheUse), Head(todo).parts)
  /\ todo' = Tail(todo)
  /\ UNCHANGED <<suite, call, errflg, allocated, disturbed>>

\* A scheme reports an error before it changes its arguments.
SchemeFails ==
  /\ todo # <<>> /\ IsCall(Head(todo))
  /\ ~errflg
  /\ errflg' = TRUE
  /\ todo' = Tail(todo)
  /\ UNCHANGED <<suite, call, mem, allocated, disturbed>>

\* The calls after an error are guarded; the directives between them are not.
GuardedCall ==
  /\ todo # <<>> /\ IsCall(Head(todo))
  /\ errflg
  /\ todo' = Tail(todo)
  /\ UNCHANGED <<suite, call, mem, errflg, allocated, disturbed>>

\* CCPP keeps its own copy of the variable from one time step to the next.
KeptAcrossSteps ==
  \E lt \in {VarLifetime(suite), ResidencyLifetime(suite)} :
    lt.hoisted /\ lt.entry \in OneTimePhases /\ (lt.kind = "update" \/ suite.owner # "managed")

\* The host computes the variable where it keeps it, between time steps.
HostComputes ==
  /\ BetweenSteps /\ ~Finished
  /\ suite.owner # "suite"
  /\ LET space == IF suite.owner = "managed" THEN "device" ELSE "host"
     IN mem' = Computed(mem, space, TRUE, Parts)
  /\ mem' # mem
  /\ disturbed' = (disturbed \/ (KeptAcrossSteps /\ mem.held > 0 /\ call > 1))
  /\ UNCHANGED <<suite, call, todo, errflg, allocated>>

\* The simulation is over, or the host stops on an error.
Done ==
  /\ todo = <<>> /\ (Finished \/ errflg)
  /\ UNCHANGED vars

Next == Dispatch \/ Directive \/ SchemeCall \/ SchemeFails \/ GuardedCall \/ HostComputes \/ Done

Spec == Init /\ [][Next]_vars
-----------------------------------------------------------------------------
Lifetimes == {VarLifetime(suite), ResidencyLifetime(suite)}

\* A run call is made once per chunk, the calls of the other phases once: a
\* directive pair with one end at the run calls needs a host with one chunk.
Paired == suite.chunks = 1 \/ \A lt \in Lifetimes : ~lt.hoisted \/ "run" \notin {lt.entry, lt.exit}

TypeOK ==
  /\ suite \in Derived
  /\ call \in 0..Len(HostCalls(suite))
  /\ todo \in Seq([op : Schemes \cup Directives, parts : SUBSET Parts])
  /\ mem \in Memory
  /\ Paired => mem.held <= 2      \* the host's own reference and the suite's
  /\ {errflg, allocated, disturbed} \subseteq BOOLEAN

AtCall == todo # <<>> /\ IsCall(Head(todo)) /\ ~errflg

\* The newest value of every column is in some copy: no copy in either
\* direction replaces it, and none is deleted while it is the only one.
NothingLost ==
  suite.owner # "suite" /\ Paired /\ ~disturbed /\ ~errflg =>
    Parts = mem.newest["host"] \cup mem.newest["device"]

\* A scheme that reads the variable gets, in the memory space it computes
\* in, the newest value of every column it is passed, and a scheme that
\* computes on the device finds the variable there: whatever memory spaces
\* the schemes before it computed in.  Until then the value is in some copy.
ReadsNewest ==
  /\ NothingLost
  /\ AtCall /\ Paired /\ ~disturbed =>
     /\ Reads(TheUse) => Head(todo).parts \subseteq mem.newest[TheUse.space]
     /\ TheUse.space = "device" => OnDevice(mem)

\* No directive and no kernel ever fails for want of device data: present,
\* update and exit directives only run while the variable is resident, even
\* when a scheme fails or a group does not use the variable.
NeverFaults == Paired => ~mem.fault

\* Between time steps the host finds the schemes' results where it keeps the
\* variable, unless the suite keeps it on the device; after the simulation it
\* always does.
HostSeesResults ==
  suite.owner # "suite" /\ Paired /\ ~disturbed /\ BetweenSteps /\ (Finished \/ ~KeptAcrossSteps) =>
    mem.newest[IF suite.owner = "managed" THEN "device" ELSE "host"] = Parts

\* Every enter has had its exit: between time steps only a variable kept for
\* the whole simulation holds its reference, at the end none does.
EntersAndExitsPair ==
  BetweenSteps /\ HostMatched(suite) /\ (Finished \/ ~\E lt \in Lifetimes : lt.entry \in OneTimePhases) =>
    mem.held = (IF suite.owner = "managed" THEN 1 ELSE 0)

\* The same, for the hosts that keep a pair's two ends in number.
ReferencesBalanced == Paired => EntersAndExitsPair
=============================================================================

---------------------------- MODULE ResidencyPlan ---------------------------
(***************************************************************************)
(* The directives the generator places around and inside the calls of one  *)
(* suite for one variable: lifetimes of the host cap (gpu_ccpp_cap_pass),  *)
(* syncs between scheme calls of the suite cap (gpu_data_pass, suitecap    *)
(* gpu) and the memory space of each use (derive_memory_space).            *)
(*                                                                         *)
(* A suite is a record:                                                    *)
(*   owner   "host" or "device": a host variable the host declares in that *)
(*           memory space; "managed": declared on the device, and the host *)
(*           keeps its own device copy; "suite": a suite-owned array;      *)
(*           "constituents": the cap's array of constituents               *)
(*   groups  the suite's groups, each a sequence of schemes                *)
(*   uses    [scheme, table phase] -> NoUse or [space, intent], where the  *)
(*           space is "device", "host", or "either" (a scheme that copies  *)
(*           the data itself)                                              *)
(*   chunks  into how many column chunks the host divides a run call       *)
(***************************************************************************)
EXTENDS Directives, FiniteSets

CONSTANTS Schemes,
          Keyworded,   \* the schemes whose calls pass arguments by keyword
          Viewing      \* the schemes that take constituents by name, as views of
                       \* the array, not as the whole array

PhaseOrder == <<"register", "initialize", "physics_initial", "timestep_initial",
                "run", "timestep_final", "physics_final", "finalize">>
Phases == {PhaseOrder[i] : i \in 1..8}
PhaseRank == [p \in Phases |-> CHOOSE i \in 1..8 : PhaseOrder[i] = p]
OneTimePhases == {"register", "initialize", "physics_initial", "physics_final", "finalize"}
PerTimestepPhases == {"timestep_initial", "run", "timestep_final"}
\* The phases with one function for the whole suite: their dispatch has one
\* level, the suite's name.
OneLevelPhases == {"register", "initialize_constituents", "initialize", "finalize"}
TablePhases == {"register", "initialize", "timestep_initial", "run", "timestep_final", "finalize"}

Earliest(ps) == CHOOSE p \in ps : \A q \in ps : PhaseRank[p] <= PhaseRank[q]
Latest(ps) == CHOOSE p \in ps : \A q \in ps : PhaseRank[q] <= PhaseRank[p]

\* The sequences of a sequence one after the other.
Joined(pieces) ==
  LET upto[n \in 0..Len(pieces)] == IF n = 0 THEN <<>> ELSE upto[n - 1] \o pieces[n]
  IN upto[Len(pieces)]

NoUse == [space |-> "none", intent |-> "none"]
Uses == {NoUse} \cup [space : {"host", "device", "either"}, intent : {"in", "inout", "out"}]

Reads(u) == u.intent \in {"in", "inout"}
Writes(u) == u.intent \in {"out", "inout"}
Overwrites(u) == u.intent = "out"

Owners == {"host", "device", "managed", "suite", "constituents"}

Used(s) == {e \in DOMAIN s.uses : s.uses[e] # NoUse}
HostMatched(s) == s.owner \in {"host", "device", "managed"}
Constituents(s) == s.owner = "constituents"
ModelSpace(s) == IF s.owner = "host" THEN "host" ELSE "device"

-----------------------------------------------------------------------------
(* Memory spaces.                                                          *)

\* A view of a constituent and the whole array differ in standard name.
SameName(s, d, e) == Constituents(s) => (d[1] \in Viewing <=> e[1] \in Viewing)

\* An "either" use is on the device when another use, or the host's own
\* declaration, has the variable there.
DeviceElsewhere(s, e) ==
  \/ HostMatched(s) /\ ModelSpace(s) = "device"
  \/ \E d \in Used(s) : s.uses[d].space = "device" /\ SameName(s, d, e)

WithSpaces(s, space(_)) ==
  [s EXCEPT !.uses = [e \in DOMAIN s.uses |-> [space |-> space(e), intent |-> s.uses[e].intent]]]

\* What stays "either" is host data that the scheme may also find on the
\* device (device_capable).
ApplyDerivedMemorySpace(s) ==
  WithSpaces(s, LAMBDA e : IF s.uses[e].space = "either" /\ DeviceElsewhere(s, e)
                           THEN "device" ELSE s.uses[e].space)

\* The constituents go to the device unless a CPU scheme writes them.
ResolveConstituentResidency(s) ==
  LET cpuWriters == {e \in Used(s) : Writes(s.uses[e]) /\ s.uses[e].space = "host"}
  IN WithSpaces(s, LAMBDA e : IF s.uses[e].space # "either" THEN s.uses[e].space
                              ELSE IF Constituents(s) /\ cpuWriters = {} THEN "device" ELSE "host")

UsesIn(s, space) == {e \in Used(s) : s.uses[e].space = space}

\* The constituent array is entered on the device for a scheme that takes
\* the whole of it there.
ConstituentsResident(s) == Constituents(s) /\ \E e \in UsesIn(s, "device") : e[1] \notin Viewing

\* A suite-owned array that any scheme uses on the device is created there
\* where it is allocated and deleted when the suite is finalized.
SuiteOwnedResident(s) == s.owner = "suite" /\ UsesIn(s, "device") # {}

\* What a scheme expects of the host's data: that it is present on the device,
\* or that the host's copy is up to date.
Category(u) == IF u.space = "device" THEN "present" ELSE "update"
Categories(s) == {Category(s.uses[e]) : e \in Used(s)}

\* Schemes disagree on a host variable, on the constituents, while the array
\* is on the device, or on a suite-owned array that is.
DivergedHost(s) == HostMatched(s) /\ Cardinality(Categories(s)) > 1
DivergedConstituents(s) == ConstituentsResident(s) /\ Cardinality(Categories(s)) > 1
DivergedOwned(s) == SuiteOwnedResident(s) /\ Cardinality(Categories(s)) > 1
Diverged(s) == DivergedHost(s) \/ DivergedConstituents(s) \/ DivergedOwned(s)

-----------------------------------------------------------------------------
(* Lifetimes at the host cap.                                              *)

Lifetime(kind, entry, exit, hoisted) ==
  [kind |-> kind, entry |-> entry, exit |-> exit, hoisted |-> hoisted]
NoLifetime == Lifetime("none", "none", "none", FALSE)

\* Mutant: a per-timestep entry paired with the one-time exit.
ExitAlwaysFinalize(kind, used) ==
  LET once == used \ {"finalize"}
  IN IF once = {} THEN Lifetime(kind, "none", "none", FALSE)
     ELSE Lifetime(kind, Earliest(once), "finalize", TRUE)

ResolveLifetime(kind, used) ==
  LET once == (used \cap OneTimePhases) \ {"finalize"}
      step == used \cap PerTimestepPhases
  IN IF once # {} THEN Lifetime(kind, Earliest(once), "finalize", TRUE)
     ELSE IF Cardinality(step) <= 1 THEN Lifetime(kind, "none", "none", FALSE)
     ELSE Lifetime(kind, Earliest(step), Latest(step), TRUE)

PhasesUsed(s) == {e[2] : e \in Used(s)}

CopyKind(s) ==
  LET reads == \E e \in Used(s) : Reads(s.uses[e])
      writes == \E e \in Used(s) : Writes(s.uses[e])
  IN IF reads /\ writes THEN "copy" ELSE IF reads THEN "copyin" ELSE "copyout"

\* What the host cap does about the variable where the schemes agree.
VarLifetime(s) ==
  IF ~HostMatched(s) \/ Diverged(s) \/ Used(s) = {} THEN NoLifetime
  ELSE CASE UsesIn(s, "device") # {} /\ ModelSpace(s) = "device" -> Lifetime("present", "none", "none", FALSE)
         [] UsesIn(s, "device") # {} /\ ModelSpace(s) = "host" -> ResolveLifetime(CopyKind(s), PhasesUsed(s))
         [] UsesIn(s, "host") # {} /\ ModelSpace(s) = "device" -> ResolveLifetime("update", PhasesUsed(s))
         [] OTHER -> NoLifetime

\* Residency of a variable the host or a disagreement puts on the device.
ResidencyLifetime(s) ==
  IF HostMatched(s) /\ Used(s) # {} /\ (ModelSpace(s) = "device" \/ Diverged(s))
  THEN ResolveLifetime("residency", PhasesUsed(s)) ELSE NoLifetime

RoleAt(lt, phase) ==
  CASE lt.kind = "none" -> "exclude"
    [] lt.kind # "none" /\ ~lt.hoisted -> "legacy"
    [] lt.hoisted /\ phase = lt.entry -> "enter"
    [] lt.hoisted /\ phase = lt.exit -> "exit"
    [] lt.hoisted /\ PhaseRank[lt.entry] < PhaseRank[phase] /\ PhaseRank[phase] < PhaseRank[lt.exit] -> "passthrough"
    [] OTHER -> "legacy"     \* the source's "unused", treated like "legacy"

-----------------------------------------------------------------------------
(* Inside a suite cap function: the scheme calls that take the variable,   *)
(* and the syncs between them when the schemes disagree.                   *)

SchemesOf(s, phase, g) ==
  IF phase = "register" THEN Joined(s.groups) ELSE s.groups[g]

TableOf(phase) == CASE phase \in {"initialize_constituents", "initialize", "finalize"} -> "none"
                    [] phase = "physics_initial" -> "initialize"
                    [] phase = "physics_final" -> "finalize"
                    [] OTHER -> phase

UseAt(s, phase, scheme) ==
  IF <<scheme, TableOf(phase)>> \in DOMAIN s.uses THEN s.uses[<<scheme, TableOf(phase)>>] ELSE NoUse

Calls(s, phase, g) ==
  LET schemes == SchemesOf(s, phase, g)
  IN Joined([i \in 1..Len(schemes) |->
              IF UseAt(s, phase, schemes[i]) # NoUse THEN <<schemes[i]>> ELSE <<>>])

Touches(s, phase, g) == Calls(s, phase, g) # <<>>

OnHost(s, phase, c) == UseAt(s, phase, c).space = "host"

Around(before, body, after) == before \o body \o after
One(op, ps) == <<Instruction(op, ps)>>

\* A device call on a view of the constituents has a copy region of its own.
DeviceView(s, phase, c) ==
  Constituents(s) /\ c \in Viewing /\ UseAt(s, phase, c).space = "device"

SchemeCallOf(s, phase, c, cols) ==
  IF DeviceView(s, phase, c)
  THEN Around(One("enter copyin", cols), One(c, cols), One("exit copyout", cols))
  ELSE One(c, cols)

\* Maximal runs of consecutive host calls: <<first, last>> in the call list.
HostRuns(s, phase, calls) ==
  LET n == Len(calls)
      host(i) == OnHost(s, phase, calls[i])
  IN {r \in (1..n) \X (1..n) :
        /\ r[1] <= r[2] /\ \A i \in r[1]..r[2] : host(i)
        /\ r[1] = 1 \/ ~host(r[1] - 1)
        /\ r[2] = n \/ ~host(r[2] + 1)}

\* A run that starts by overwriting the section it is passed needs no pull,
\* and pushes that section only; the section is known for keyword calls.
OverwrittenSection(s, phase, calls, r) ==
  /\ Overwrites(UseAt(s, phase, calls[r[1]]))
  /\ \A i \in r[1]..r[2] : calls[i] \in Keyworded

\* Mutant: only the last call of a run is asked whether it writes.
WrittenByLast(s, phase, calls, r) == Writes(UseAt(s, phase, calls[r[2]]))

WrittenIn(s, phase, calls, r) == \E i \in r[1]..r[2] : Writes(UseAt(s, phase, calls[i]))

\* A device call asserts that the data is there; a suite-owned array always is.
Presence(s, phase, c, ref) ==
  IF s.owner # "suite" /\ ~OnHost(s, phase, c) /\ ~DeviceView(s, phase, c)
  THEN One("present", ref) ELSE <<>>

\* What the suite cap function of a call site does with the variable. `ref`
\* is what the function can name (its dummy argument, a slice of the host's
\* array; or the whole suite-owned array), `cols` what a scheme is passed.
CoalescedUpdates(s, phase, calls, ref, cols) ==
  LET runs == HostRuns(s, phase, calls)
      whole(r) == ~OverwrittenSection(s, phase, calls, r)
      pulls(i) == IF \E r \in runs : r[1] = i /\ whole(r) THEN One("update self", ref) ELSE <<>>
      pushes(i) == IF \E r \in runs : r[2] = i /\ WrittenIn(s, phase, calls, r)
                   THEN One("update device", IF \E r \in runs : r[2] = i /\ whole(r) THEN ref ELSE cols)
                   ELSE <<>>
  IN Joined([i \in 1..Len(calls) |->
       pulls(i) \o Presence(s, phase, calls[i], ref) \o SchemeCallOf(s, phase, calls[i], cols) \o pushes(i)])

PlainCalls(s, phase, calls, cols) ==
  Joined([i \in 1..Len(calls) |-> SchemeCallOf(s, phase, calls[i], cols)])

SuiteOwnedBody(s, phase, g, cols) ==
  LET calls == Calls(s, phase, g)
  IN CASE phase = "finalize" /\ SuiteOwnedResident(s) -> One("exit delete", Parts)
       [] Diverged(s) /\ phase \notin OneLevelPhases -> CoalescedUpdates(s, phase, calls, Parts, cols)
       [] OTHER -> PlainCalls(s, phase, calls, cols)

SuiteCapBody(s, phase, g, cols) ==
  LET calls == Calls(s, phase, g)
  IN CASE s.owner = "suite" -> SuiteOwnedBody(s, phase, g, cols)
       [] s.owner # "suite" /\ Diverged(s) -> CoalescedUpdates(s, phase, calls, cols, cols)
       [] OTHER -> PlainCalls(s, phase, calls, cols)

-----------------------------------------------------------------------------
(* Around the suite cap call: the host cap's directives. Two groups called *)
(* in the same phase share the phase's references to host variables.       *)

GroupsOf(s, phase) == IF phase \in OneLevelPhases THEN {1} ELSE DOMAIN s.groups

Touching(s, phase) == {g \in GroupsOf(s, phase) : Touches(s, phase, g)}

\* Mutant: every group of the entry phase that uses the variable enters it.
EnterPerGroup(s, lt, phase, g) ==
  CASE Cardinality(GroupsOf(s, phase)) > 1 /\ g \notin Touching(s, phase) -> "exclude"
    [] lt.hoisted /\ phase = lt.exit /\ (\E h \in Touching(s, phase) : h > g) -> "passthrough"
    [] OTHER -> RoleAt(lt, phase)

\* Only the first group that uses a hoisted variable enters it and only the
\* last leaves it; the others pass through, and a group that does not use
\* the variable is excluded.
Override(s, lt, phase, g) ==
  LET touching == Touching(s, phase)
  IN CASE Cardinality(GroupsOf(s, phase)) <= 1 -> RoleAt(lt, phase)
       [] Cardinality(GroupsOf(s, phase)) > 1 /\ g \notin touching -> "exclude"
       [] g \in touching /\ lt.hoisted /\ phase = lt.entry /\ (\E h \in touching : h < g) -> "passthrough"
       [] g \in touching /\ lt.hoisted /\ phase = lt.exit /\ (\E h \in touching : h > g) -> "passthrough"
       [] OTHER -> RoleAt(lt, phase)

\* Mutant: no reference is synthesized at an anchor phase.
NeverForced(lt, phase, g) == "exclude"

\* An anchor phase none of whose schemes use the variable still gets the
\* directive, with a synthesized reference, at the phase's first call.
Forced(lt, phase, g) ==
  CASE g # 1 \/ ~lt.hoisted -> "exclude"
    [] g = 1 /\ lt.hoisted /\ phase = lt.entry -> "enter"
    [] g = 1 /\ lt.hoisted /\ phase = lt.exit -> "exit"
    [] OTHER -> "exclude"

RoleOf(s, lt, phase, g) ==
  IF lt.kind = "none" THEN "exclude"
  ELSE IF Touching(s, phase) = {} THEN Forced(lt, phase, g)
  ELSE Override(s, lt, phase, g)

\* A directive that goes with one call names the section the call is passed,
\* one that spans several names the whole array.
RefOf(role, cols) == IF role = "legacy" THEN cols ELSE Parts

WrapSchemeCall(s, lt, phase, g, cols, body) ==
  LET role == RoleOf(s, lt, phase, g)
      ref == RefOf(role, cols)
      entered == CASE lt.kind = "update"             -> "update self"
                   [] lt.kind \in {"copyin", "copy"} -> "enter copyin"
                   [] OTHER                          -> "enter create"
      left == CASE lt.kind = "update"              -> "update device"
                [] lt.kind \in {"copyout", "copy"} -> "exit copyout"
                [] OTHER                           -> "exit delete"
  IN CASE role = "legacy" /\ lt.kind = "present" -> Around(One("present", Parts), body, <<>>)
       [] role = "legacy" /\ lt.kind # "present" -> Around(One(entered, ref), body, One(left, ref))
       [] role = "enter" -> Around(One(entered, ref), body, <<>>)
       [] role = "exit" -> Around(<<>>, body, One(left, ref))
       [] role = "passthrough" /\ lt.kind # "update" -> Around(One("present", Parts), body, <<>>)
       [] OTHER -> body

WrapResidency(s, lt, phase, g, cols, body) ==
  LET role == RoleOf(s, lt, phase, g)
      enter == One("enter copyin", RefOf(role, cols))
      leave == One("exit copyout", RefOf(role, cols))
  IN CASE role = "legacy" -> Around(enter, body, leave)
       [] role = "enter" -> Around(enter, body, <<>>)
       [] role = "exit" -> Around(<<>>, body, leave)
       [] OTHER -> body

\* A resident constituent array is entered when it is allocated, deleted in
\* ccpp_final, and kept in step with the host's around each physics call.
WrapConstituents(s, phase, g, body) ==
  IF ~ConstituentsResident(s) THEN body
  ELSE CASE phase = "initialize_constituents" -> One("enter copyin", Parts)
         [] phase = "finalize" -> Around(body, One("exit delete", Parts), <<>>)
         [] phase \notin {"register", "initialize_constituents", "finalize"} /\ Touches(s, phase, g) ->
              Around(One("update device", Parts), body, One("update self", Parts))
         [] OTHER -> body

\* Everything one dispatched call does with the variable.
CallProgram(s, phase, g, cols) ==
  WrapConstituents(s, phase, g,
    WrapResidency(s, ResidencyLifetime(s), phase, g, cols,
      WrapSchemeCall(s, VarLifetime(s), phase, g, cols, SuiteCapBody(s, phase, g, cols))))
=============================================================================

------------------------------ MODULE Routing -------------------------------
(***************************************************************************)
(* The generator's front from the metadata to the calls, and the calls      *)
(* themselves.  The passes run in order: the arguments are matched with the *)
(* host, the variables of each suite named, a function generated for each   *)
(* group and phase, each of which may change the intents the next one       *)
(* reads, and the host cap connects the functions to the host.  Then a host *)
(* runs the suites, phase by phase: each registers, every group is          *)
(* initialized, every group runs, each scheme reading and writing wherever  *)
(* its call leads.                                                         *)
(*                                                                         *)
(* A value is the standard name it was written under and a counter.         *)
(***************************************************************************)
EXTENDS FlatDispatch, VariableLists

CONSTANTS Families,    \* sets of metadata to try
          FlatPhases,  \* the phases that have one function for a whole suite
          Undefined    \* what no one has written

VARIABLES case, stage,
          meta,       \* the annotated argument tables, as the passes leave them
          suiteVars,  \* the variables of each suite cap's module
          todo,       \* the functions still to generate, or the calls to make
          functions,  \* the generated functions
          caps,       \* the wrapper of each phase
          lists,      \* what ccpp_physics_suite_variables tells of each suite
          memory, truth, reads,
          touched     \* the places each suite has read from and written to

vars == <<case, stage, meta, suiteVars, todo, functions, caps, lists, memory, truth, reads, touched>>

(* The metadata as the passes over one suite see it, and as its flat phases *)
(* do, to which its groups are one.                                        *)
Suite(c, s) ==
  [args |-> c.args, groups |-> c.suites[s], array |-> c.array, dynamic |-> c.dynamic,
   host |-> c.host, called |-> c.called]
FlatSuite(c, s) == [Suite(c, s) EXCEPT !.groups = <<FlattenSeq(c.suites[s])>>]

SuiteOf(c, scheme) == CHOOSE s \in DOMAIN c.suites : scheme \in SchemesOf(Suite(c, s))
MatchedSuites(c) == [e \in EntryPoints(c) |-> Matched(Suite(c, SuiteOf(c, e[1])))[e]]

(* The functions of every suite: the flat ones, then those of its groups.   *)
FunctionsToMake(c) ==
  LET of(s, groups, phases) == [j \in 1..(Len(groups) * Len(phases)) |->
        <<s, ((j - 1) \div Len(phases)) + 1, phases[((j - 1) % Len(phases)) + 1]>>]
      flat == SelectSeq(Phases, LAMBDA p : p \in FlatPhases)
      grouped == SelectSeq(Phases, LAMBDA p : p \notin FlatPhases)
  IN  FlattenSeq([s \in DOMAIN c.suites |->
        of(s, <<c.suites[s]>>, flat) \o of(s, c.suites[s], grouped)])

Generated(c, m, variables, function) ==
  LET s == function[1]
      phase == function[3]
      seen == IF phase \in FlatPhases THEN FlatSuite(c, s) ELSE Suite(c, s)
  IN  [suite |-> s] @@ SuiteFunction(seen, m, variables[s], function[2], phase)

-----------------------------------------------------------------------------
SchemeCallsFit(c, f) ==
  \A i \in DOMAIN f.occ : Writes(c.args[f.occ[i].entry][f.occ[i].at]) =>
    \A k \in DOMAIN f.inputs : f.inputs[k].name = f.actuals[i] => Modifies(f, k)

Declares(f) ==
  \A text \in Range(f.actuals) :
    \/ text \in Range(DummyTexts(f))
    \/ \E v \in Range(suiteVars[f.suite]) : v.name = text

SuiteNamesDiffer ==
  \A s \in DOMAIN suiteVars : IsInjective([k \in DOMAIN suiteVars[s] |-> suiteVars[s][k].name])

(* Storage behind a text of a function: a dummy hides a module variable.   *)
PlaceOf(f, call, text) ==
  LET dummies == DummyTexts(f)
      mine == {k \in DOMAIN dummies : dummies[k] = text}
  IN  IF mine = {} THEN <<"suite", f.suite, text>> ELSE call[CHOOSE k \in mine : TRUE].place

ValueAt(p) == IF p \in DOMAIN memory THEN memory[p] ELSE Undefined

-----------------------------------------------------------------------------
(* The storage a standard name stands for in a suite.                      *)
HomeOf(s, std) ==
  CASE std \in Constituents(case) -> <<"constituent", std>>
    [] case.host[std] # NoVariable -> <<"host", std>>
    [] OTHER -> <<"suite", s, std>>
Homes == {HomeOf(s, std) : s \in DOMAIN case.suites, std \in DOMAIN case.host}
InHost(home) == home[1] # "suite"

Init ==
  /\ \E family \in Families : case \in family
  /\ stage = "match"
  /\ meta = case.args
  /\ suiteVars = <<>>
  /\ todo = FunctionsToMake(case)
  /\ functions = <<>>
  /\ caps = <<>>
  /\ lists = <<>>
  /\ memory = <<>>
  /\ truth = <<>>
  /\ reads = {}
  /\ touched = {}

(* host_var_match_pass and arg_ownership_pass.                             *)
MatchHost ==
  /\ stage = "match"
  /\ IF \E s \in DOMAIN case.suites : Unmatched(Suite(case, s))
       THEN /\ stage' = "rejected"
            /\ UNCHANGED meta
       ELSE /\ stage' = "suite"
            /\ meta' = MatchedSuites(case)
  /\ UNCHANGED <<case, suiteVars, todo, functions, caps, lists, memory, truth, reads, touched>>

ModelSuite ==
  /\ stage = "suite"
  /\ stage' = "functions"
  /\ suiteVars' = [s \in DOMAIN case.suites |-> SuiteVariables(Suite(case, s), meta)]
  /\ UNCHANGED <<case, meta, todo, functions, caps, lists, memory, truth, reads, touched>>

GenerateFunction ==
  /\ stage = "functions"
  /\ todo # <<>>
  /\ LET f == Generated(case, meta, suiteVars, todo[1])
     IN  /\ stage' = IF f.rejected THEN "rejected" ELSE stage
         /\ functions' = Append(functions, f)
         /\ meta' = f.merged
         /\ todo' = Tail(todo)
  /\ UNCHANGED <<case, suiteVars, caps, lists, memory, truth, reads, touched>>

(* The host cap reads the annotations of the passes anew: none of the       *)
(* merged intents.                                                         *)
InPhase(phase) == SelectSeq(functions, LAMBDA f : f.phase = phase)

Connect ==
  /\ stage = "functions"
  /\ todo = <<>>
  /\ LET m == MatchedSuites(case)
         capVars == CapVarStdNames({f \in Range(functions) : f.phase \notin FlatPhases})
         wrapper(phase) == IF phase \in FlatPhases
                             THEN FlatWrapper(case, m, InPhase(phase))
                             ELSE Wrapper(case, m, InPhase(phase), capVars)
         w == [phase \in Range(Phases) |-> wrapper(phase)]
     IN  IF \/ \E phase \in FlatPhases : FlatRejects(case, InPhase(phase))
            \/ case.capgen /\ \E phase \in Range(Phases) \ FlatPhases : CapgenRejects(case, w[phase])
           THEN /\ stage' = "rejected"
                /\ UNCHANGED <<caps, lists>>
           ELSE /\ stage' = "compile"
                /\ caps' = w
                /\ lists' = [s \in DOMAIN case.suites |->
                               VariableList(m, SchemesOf(Suite(case, s)))]
  /\ UNCHANGED <<case, meta, suiteVars, todo, functions, memory, truth, reads, touched>>

Compiles ==
  /\ SuiteNamesDiffer
  /\ \A f \in Range(functions) : Declares(f) /\ SchemeCallsFit(case, f)
  /\ \A phase \in Range(Phases) : \A k \in DOMAIN InPhase(phase) :
       CallFits(InPhase(phase)[k], caps[phase], caps[phase].calls[k])
  /\ case.capgen => \A phase \in FlatPhases : CapgenCallFits(caps[phase])

(* The host calls the functions phase by phase, and each its schemes.       *)
SchemeCalls ==
  FlattenSeq([p \in DOMAIN Phases |->
    LET fns == InPhase(Phases[p])
        entries(k) == FirstsBy(fns[k].occ, [i \in DOMAIN fns[k].occ |-> fns[k].occ[i].entry])
    IN  FlattenSeq([k \in DOMAIN fns |->
          [i \in DOMAIN entries(k) |-> <<k, entries(k)[i].entry>>]])])

Compile ==
  /\ stage = "compile"
  /\ IF Compiles
       THEN /\ stage' = "execute"
            /\ todo' = SchemeCalls
            /\ memory' = [home \in {h \in Homes : InHost(h)} |-> <<home[2], 0>>]
            /\ truth' = [home \in Homes |-> IF InHost(home) THEN <<home[2], 0>> ELSE Undefined]
       ELSE /\ stage' = "refused"
            /\ UNCHANGED <<todo, memory, truth>>
  /\ UNCHANGED <<case, meta, suiteVars, functions, caps, lists, reads, touched>>

(* One scheme call: it reads its inputs, then writes its outputs.          *)
CallScheme ==
  /\ stage = "execute"
  /\ todo # <<>>
  /\ LET entry == todo[1][2]
         f == InPhase(entry[2])[todo[1][1]]
         call == caps[entry[2]].calls[todo[1][1]]
         mine == {i \in DOMAIN f.occ : f.occ[i].entry = entry}
         place(i) == PlaceOf(f, call, f.actuals[i])
         declared(i) == case.args[entry][f.occ[i].at]
         home(i) == HomeOf(f.suite, declared(i).std)
         read == {i \in mine : Reads(declared(i))}
         written == {i \in mine : Writes(declared(i))}
         stamp(i) == <<declared(i).std, Len(todo)>>
     IN  /\ reads' = {[got |-> ValueAt(place(i)), expected |-> truth[home(i)]] : i \in read}
         /\ truth' = [h \in DOMAIN truth |->
                        LET here == {i \in written : home(i) = h}
                        IN  IF here = {} THEN truth[h] ELSE stamp(CHOOSE i \in here : TRUE)]
         /\ touched' = touched \cup {<<"input", f.suite, place(i)>> : i \in read}
                                \cup {<<"output", f.suite, place(i)>> : i \in written}
         /\ \E order \in [written -> 1..Cardinality(written)] :
              /\ IsInjective(order)
              /\ memory' = [p \in DOMAIN memory \cup {place(i) : i \in written} |->
                   LET here == {i \in written : place(i) = p}
                   IN  IF here = {} THEN memory[p]
                       ELSE stamp(CHOOSE i \in here : \A j \in here : order[j] <= order[i])]
         /\ todo' = Tail(todo)
  /\ UNCHANGED <<case, stage, meta, suiteVars, functions, caps, lists>>

Return ==
  /\ stage = "execute"
  /\ todo = <<>>
  /\ stage' = "done"
  /\ reads' = {}
  /\ UNCHANGED <<case, meta, suiteVars, todo, functions, caps, lists, memory, truth, touched>>

Next == MatchHost \/ ModelSuite \/ GenerateFunction \/ Connect \/ Compile \/ CallScheme \/ Return

Spec == Init /\ [][Next]_vars
-----------------------------------------------------------------------------
(* Metadata the generator accepts and gets wrong.  First, two things under  *)
(* one name.                                                               *)
Declared(f, std) == {o.arg.intent : o \in {p \in Range(f.occ) : p.arg.std = std}}
HostScalars == {std \in DOMAIN case.host \ case.array : case.host[std] # NoVariable}

(* A host scalar the schemes of a function only declare out is a local of   *)
(* the function, returned to the wrapper.                                  *)
LocalResult(f, std) == std \in HostScalars /\ Declared(f, std) = {"out"}

(* Locals are looked up by their local name alone: one that shares its name *)
(* with another argument of the function takes the other's place.          *)
ResultNameShared ==
  \E f \in Range(functions) : \E o, p \in Range(f.occ) :
    /\ o.arg.std # p.arg.std
    /\ o.arg.name = p.arg.name
    /\ LocalResult(f, o.arg.std)

(* Two suite variables of one local name are renamed after their first      *)
(* writer, to the same name when that is the same scheme.                  *)
SchemeReusesName ==
  \E s \in DOMAIN case.suites :
    LET owned == Range(OwnedFirst(Suite(case, s), MatchedSuites(case)))
    IN  \E o, p \in owned :
          o.arg.std # p.arg.std /\ o.entry[1] = p.entry[1] /\ o.arg.name = p.arg.name

(* The dummies considered when a suite variable is named are the first      *)
(* local names of arguments passed in: not those of module variables, of    *)
(* control variables or registered constituents, or a second scheme's name. *)
SuiteVariableHidden ==
  \E f \in Range(functions) : \E v \in Range(suiteVars[f.suite]), i \in DOMAIN f.occ :
    LET arg == f.occ[i].arg
    IN  /\ v.name = arg.name
        /\ v.std # arg.std
        /\ \/ case.host[arg.std] \in {"module", "control"} \/ arg.dynamic
           \/ case.host[arg.std] # NoVariable /\ \E j \in 1..(i - 1) : f.occ[j].arg.std = arg.std

(* A dummy of the wrapper bears the name of a host variable the wrapper     *)
(* uses, or the local name of another argument of the phase.               *)
WrapperDummyHides ==
  \E phase \in DOMAIN caps : \E a \in Range(caps[phase].args) :
    \E f \in Range(functions) : \E o \in Range(f.occ) :
      /\ f.phase = phase
      /\ o.arg.std # a.std
      /\ \/ o.arg.name = a.name
         \/ InModuleOrState(case, o.arg.std) /\ case.called[o.arg.std] = a.name

NamesClash ==
  ResultNameShared \/ SchemeReusesName \/ SuiteVariableHidden \/ WrapperDummyHides

(* Second, intents that differ.  The host cap counts the results from the   *)
(* declared intents, the functions return them by the merged ones.         *)
OutAndMore(f, std) == "out" \in Declared(f, std) /\ Declared(f, std) # {"out"}

ResultsMiscounted ==
  \E f \in Range(functions) :
    /\ \E std \in HostScalars : OutAndMore(f, std)
    /\ \E std \in HostScalars :
         /\ case.host[std] \in {"table", "ddt"}
         /\ OutAndMore(f, std) \/ "inout" \in Declared(f, std)

(* The echo of a structure's member is found by the local name of the first *)
(* scheme that declares it inout, which the dummy need not bear.           *)
MemberRenamed ==
  \E f \in Range(functions) : \E d \in Range(f.inputs), o \in Range(f.occ) :
    /\ case.host[d.std] = "ddt" /\ ~d.array
    /\ o.arg.std = d.std
    /\ case.args[o.entry][o.at].intent = "inout"
    /\ o.arg.name # d.name

(* Copying a result into a dummy of the wrapper does not make it inout ...  *)
Unechoed ==
  \E std \in HostScalars : \E f, g \in Range(functions) :
    /\ f.phase = g.phase
    /\ case.host[std] = "table"
    /\ LocalResult(f, std)
    /\ Declared(g, std) = {"in"}

(* ... and an array has the intent it has for the first group that takes    *)
(* it, as a scalar of a flat phase has that of the first suite.            *)
Narrowed ==
  \E phase \in Range(Phases) : \E std \in DOMAIN case.host :
    LET fns == InPhase(phase) IN
    /\ case.host[std] = "table"
    /\ (std \in case.array) = (phase \notin FlatPhases)
    /\ \E g, h \in DOMAIN fns :
         /\ g < h
         /\ Declared(fns[g], std) = {"in"}
         /\ Declared(fns[h], std) \cap {"out", "inout"} # {}

(* What a register function takes from the host, original capgen's wrapper  *)
(* of it has no place for.                                                 *)
RegisterTakesArguments ==
  case.capgen /\ \E f \in Range(functions) : \E d \in Range(f.inputs) :
    f.phase \in FlatPhases /\ InCallerTable(case, d)

IntentsClash ==
  ResultsMiscounted \/ MemberRenamed \/ Unechoed \/ Narrowed \/ RegisterTakesArguments

(* Third, values without one home: a name declared inout counts as          *)
(* produced but only one declared out is given a variable, and a name may   *)
(* be both a constituent and produced as something else.                   *)
NeverProduced ==
  \E s \in DOMAIN case.suites : \E std \in DOMAIN case.host \ case.dynamic :
    /\ case.host[std] = NoVariable
    /\ std \notin Constituents(case)
    /\ SuiteArguments(Suite(case, s), std) # {}
    /\ \A p \in SuiteArguments(Suite(case, s), std) : p[2].intent # "out"

TwoCategories ==
  \E s \in DOMAIN case.suites : \E std \in DOMAIN case.host :
    /\ AdvectedDeclaring(Suite(case, s), std) # {}
    /\ NonAdvectedProducing(Suite(case, s), std) # {}

NoOneHome == NeverProduced \/ TwoCategories

(* The result of a structure's member is copied nowhere, nor, in a flat     *)
(* phase, that of a host variable no module has.                           *)
ResultLost ==
  \E f \in Range(functions) : \E std \in HostScalars :
    /\ LocalResult(f, std)
    /\ \/ case.host[std] = "ddt"
       \/ f.phase \in FlatPhases /\ case.host[std] = "table"

(* Suites that register constituents under one local name share the array.  *)
RegisteredAlike ==
  \E f, g \in Range(functions) : \E d \in Range(f.inputs), e \in Range(g.inputs) :
    f.suite # g.suite /\ d.name = e.name /\ {d.std, e.std} \subseteq case.dynamic

-----------------------------------------------------------------------------
(* What the generator accepts compiles, unless the metadata clashes: every  *)
(* call passes as many actual arguments as its callee has dummies, none of  *)
(* them an intent(in) dummy where the callee writes, and every name used is *)
(* declared, once.  Three passes and the printer must agree on it, each     *)
(* deriving the results of a function anew.                                *)
CallsFit == stage = "refused" => NamesClash \/ IntentsClash \/ NoOneHome

(* A scheme reads the last value written under the standard name, by        *)
(* whichever scheme, group or phase, or else the host's: it is the standard *)
(* name that routes a value, whatever the schemes call it.                 *)
ReadsLastValue ==
  \/ NamesClash \/ NoOneHome \/ ResultLost
  \/ \A r \in reads : r.expected # Undefined => r.got = r.expected

(* When the host has run the suites, each of its variables, each            *)
(* constituent and each array of registered constituents holds the last     *)
(* value written under its standard name.                                  *)
HostGetsResults ==
  stage = "done" =>
    \/ NamesClash \/ NoOneHome \/ ResultLost \/ RegisteredAlike
    \/ /\ \A home \in Homes : InHost(home) => memory[home] = truth[home]
       /\ \A f \in Range(functions) : \A d \in Range(f.inputs) :
            d.std \in case.dynamic =>
              ValueAt(<<"registered", d.name>>) = truth[HomeOf(f.suite, d.std)]

(* ccpp_physics_suite_variables names every variable of the host that the   *)
(* schemes of a suite read, and every one they write, through whatever      *)
(* calls they reach it, for each way a host may ask.                       *)
ListsTell ==
  stage = "done" =>
    \/ NamesClash \/ NoOneHome
    \/ \A t \in touched : t[3][1] \in {"host", "constituent"} =>
         LET list == lists[t[2]]
             asked(wanted) == IF t[1] = wanted THEN {"true", "absent"} ELSE {"true", "false", "absent"}
         IN  \A input \in asked("input"), output \in asked("output") :
               t[3][2] \in Answer(list, input, output)
=============================================================================

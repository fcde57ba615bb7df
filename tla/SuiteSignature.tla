--------------------------- MODULE SuiteSignature ---------------------------
(***************************************************************************)
(* The variables the suite cap declares in its module and the signature of  *)
(* each of its functions, one per group and phase: which arguments become   *)
(* dummies, under which names, and the text each scheme call passes.        *)
(*                                                                         *)
(* Below, m is the matched metadata (entry point -> arguments) and order a  *)
(* sequence of entry points; an occurrence is an argument with the scheme   *)
(* it belongs to.                                                          *)
(***************************************************************************)
EXTENDS Matching

CONSTANT Phases   \* the phases schemes take part in, in the order of a run

Pairs(c) ==
  FlattenSeq([g \in DOMAIN c.groups |-> [p \in DOMAIN Phases |-> <<g, Phases[p]>>]])

TablesOf(c, g, phase) ==
  LET entries == [i \in DOMAIN c.groups[g] |-> <<c.groups[g][i], phase>>]
  IN  SelectSeq(entries, LAMBDA e : e \in EntryPoints(c))

Occurrences(m, order) ==
  FlattenSeq([k \in DOMAIN order |->
    [i \in DOMAIN m[order[k]] |-> [entry |-> order[k], at |-> i, arg |-> m[order[k]][i]]]])

(* The first element of each key, in order.                                *)
FirstsBy(seq, key) ==
  LET at == SelectSeq([i \in DOMAIN seq |-> i],
                      LAMBDA i : \A j \in 1..(i - 1) : key[j] # key[i])
  IN  [k \in DOMAIN at |-> seq[at[k]]]
FirstOccurrences(occ) == FirstsBy(occ, [i \in DOMAIN occ |-> occ[i].arg.std])
SameStd(o, p) == o.arg.std = p.arg.std

-----------------------------------------------------------------------------
(* suite_variable_model: the first writer of a standard name that is        *)
(* neither the host's nor a constituent owns it.                           *)
ModelOrder(c) ==
  FlattenSeq([p \in DOMAIN Phases |->
    FlattenSeq([g \in DOMAIN c.groups |-> TablesOf(c, g, Phases[p])])])

OwnedFirst(c, m) ==
  FirstOccurrences(
    SelectSeq(Occurrences(m, ModelOrder(c)),
              LAMBDA o : /\ o.arg.model = NoVariable
                         /\ o.arg.owner # "CapScratch"
                         /\ o.arg.intent = "out"))

ModuleMatchedNames(c, m) ==
  {c.called[o.arg.std] : o \in {p \in Range(Occurrences(m, ModelOrder(c))) : p.arg.model = "module"}}

(* The names of the dummies of each function: its first argument of a       *)
(* standard name that the host passes in.                                  *)
DummyNames(c, m) ==
  UNION {LET firsts == FirstOccurrences(
                SelectSeq(Occurrences(m, TablesOf(c, g, phase)),
                          LAMBDA o : \/ o.arg.model \in {"table", "ddt"}
                                     \/ o.arg.owner = "CapScratch" /\ ~o.arg.dynamic))
         IN  {<<o.arg.name, o.arg.std>> : o \in Range(firsts)} :
         g \in DOMAIN c.groups, phase \in Range(Phases)}

Collides(c, m, owned, o) ==
  \/ \E p \in Range(owned) : p.arg.name = o.arg.name /\ p.arg.std # o.arg.std
  \/ o.arg.name \in ModuleMatchedNames(c, m)
  \/ \E d \in DummyNames(c, m) :
       /\ d[1] = o.arg.name
       /\ d[2] \notin {p.arg.std : p \in {q \in Range(owned) : q.arg.name = o.arg.name}}

SuiteVariables(c, m) ==
  LET owned == OwnedFirst(c, m)
  IN  [k \in DOMAIN owned |->
         [std |-> owned[k].arg.std, array |-> owned[k].arg.array,
          name |-> IF Collides(c, m, owned, owned[k])
                     THEN owned[k].entry[1] \o "_" \o owned[k].arg.name
                     ELSE owned[k].arg.name]]

(* The variable of a standard name; an argument without one is named bare. *)
VariableName(suiteVars, arg) ==
  LET mine == {v \in Range(suiteVars) : v.std = arg.std}
  IN  IF mine = {} THEN arg.name ELSE (CHOOSE v \in mine : TRUE).name

-----------------------------------------------------------------------------
(* _build_arg_tables: one argument per standard name, the first one met;    *)
(* disagreement on the intent makes that very argument inout, here and in   *)
(* every function generated later.                                         *)
MergedIntent(occ, o) ==
  IF \E p \in Range(occ) : SameStd(o, p) /\ p.arg.intent # o.arg.intent
    THEN "inout" ELSE o.arg.intent

AllArgs(occ) ==
  LET firsts == FirstOccurrences(occ)
  IN  [k \in DOMAIN firsts |->
         [firsts[k] EXCEPT !.arg.intent = MergedIntent(occ, firsts[k])]]

MergedTables(m, allArgs) ==
  [e \in DOMAIN m |-> [i \in DOMAIN m[e] |->
     LET mine == {o \in Range(allArgs) : o.entry = e /\ o.at = i}
     IN  IF mine = {} THEN m[e][i] ELSE (CHOOSE o \in mine : TRUE).arg]]

ArgsOf(occ) == [k \in DOMAIN occ |-> occ[k].arg]
FrameworkVars(allArgs) ==
  SelectSeq(ArgsOf(allArgs), LAMBDA a : a.owner = "SuiteOwned")
InputArgs(allArgs) ==
  SelectSeq(ArgsOf(allArgs),
    LAMBDA a : a.owner # "SuiteOwned" /\ (a.intent # "out" \/ a.array))
OutputArgs(allArgs) ==
  SelectSeq(ArgsOf(allArgs),
    LAMBDA a : a.owner # "SuiteOwned" /\ a.intent = "out" /\ ~a.array)

(* _build_block_and_name_hints: inputs that share a local name take the     *)
(* name of their host variables.                                           *)
SharesName(inputs, k) == \E j \in DOMAIN inputs \ {k} : inputs[j].name = inputs[k].name
DummyName(c, inputs, k) ==
  IF SharesName(inputs, k) THEN c.called[inputs[k].std] ELSE inputs[k].name

NameCollision(c, inputs) ==
  \E k \in DOMAIN inputs :
    /\ SharesName(inputs, k)
    /\ \/ inputs[k].model = NoVariable
       \/ \E j \in 1..(k - 1) : DummyName(c, inputs, j) = DummyName(c, inputs, k)

(* The names in scope at a scheme call, latest first: suite variables, the  *)
(* suite's scalars of other phases, local results, dummies, and the names   *)
(* other schemes give to one of these.                                     *)
Exposed(phase, suiteVars, allArgs) ==
  IF phase \in {"register", "init"} THEN {}
  ELSE {v.name : v \in {w \in Range(suiteVars) :
          ~w.array /\ \A o \in Range(allArgs) : o.arg.std # w.std}}

TextIn(c, phase, suiteVars, allArgs, occ, wanted) ==
  LET framework == FrameworkVars(allArgs)
      inputs == InputArgs(allArgs)
      outputs == OutputArgs(allArgs)
      canonical(o) == (CHOOSE p \in Range(allArgs) : SameStd(o, p)).arg
      named(args, name) == {k \in DOMAIN args : args[k].name = name}
      last(S) == CHOOSE k \in S : \A j \in S : j <= k
      known(name) ==
        LET fw == {k \in DOMAIN framework :
                     name \in {framework[k].name, VariableName(suiteVars, framework[k])}}
        IN  CASE fw # {} -> <<VariableName(suiteVars, framework[last(fw)])>>
              [] named(outputs, name) # {} -> <<name>>
              [] named(inputs, name) # {} -> <<DummyName(c, inputs, last(named(inputs, name)))>>
              [] name \in Exposed(phase, suiteVars, allArgs) -> <<name>>
              [] OTHER -> <<>>
      aliases == SelectSeq(occ, LAMBDA o : o.arg.name = wanted /\ canonical(o).name # wanted)
  IN  IF known(wanted) # <<>> THEN known(wanted)[1]
      ELSE known(canonical(aliases[1]).name)[1]

(* Mutant: the actual argument is looked up by its local name alone.       *)
ActualByLocalName(c, phase, suiteVars, allArgs, occ, o) ==
  TextIn(c, phase, suiteVars, allArgs, occ, o.arg.name)

(* What the call of a scheme passes for an argument: by standard name for   *)
(* dummies and suite variables, by local name for local results.           *)
ActualText(c, phase, suiteVars, allArgs, occ, o) ==
  LET inputs == InputArgs(allArgs)
      dummy == {k \in DOMAIN inputs : inputs[k].std = o.arg.std}
      mine == {a \in Range(FrameworkVars(allArgs)) : a.std = o.arg.std}
  IN  CASE dummy # {} -> DummyName(c, inputs, CHOOSE k \in dummy : TRUE)
        [] mine # {} -> VariableName(suiteVars, CHOOSE a \in mine : TRUE)
        [] OTHER -> TextIn(c, phase, suiteVars, allArgs, occ, o.arg.name)

SuiteFunction(c, m, suiteVars, g, phase) ==
  LET occ == Occurrences(m, TablesOf(c, g, phase))
      allArgs == AllArgs(occ)
      inputs == InputArgs(allArgs)
      outputs == OutputArgs(allArgs)
      names == FirstsBy(outputs, [k \in DOMAIN outputs |-> outputs[k].name])
  IN  [group |-> g, phase |-> phase,
       inputs |-> [k \in DOMAIN inputs |->
                     [std |-> inputs[k].std, name |-> DummyName(c, inputs, k),
                      intent |-> inputs[k].intent, array |-> inputs[k].array]],
       outputs |-> [k \in DOMAIN names |-> names[k].name],
       rejected |-> NameCollision(c, inputs),
       occ |-> occ,
       actuals |-> IF NameCollision(c, inputs) THEN <<>>
                   ELSE [i \in DOMAIN occ |->
                           ActualText(c, phase, suiteVars, allArgs, occ, occ[i])],
       merged |-> MergedTables(m, allArgs)]
=============================================================================

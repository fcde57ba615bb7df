-------------------------- MODULE InteropWrappers ---------------------------
(***************************************************************************)
(* The interface generate-cpp-cap gives a C++ host: for each phase a        *)
(* BIND(C) wrapper that takes every argument of the suite's functions as a  *)
(* scalar or an array and calls them, and a C++ State with one field per    *)
(* argument.                                                               *)
(*                                                                         *)
(* A derived type is passed member by member.  A datum is a variable,       *)
(* <<std>>, or a member of one, <<std>> \o path.                            *)
(*                                                                         *)
(* To the metadata of Matching a case adds c.type and c.dims of the         *)
(* standard names ("H", "V" and "VI" are the horizontal, layer and          *)
(* interface dimensions), c.members of the derived type and c.files, all    *)
(* entry points in the order of the metadata.                              *)
(***************************************************************************)
EXTENDS SuiteSignature, FiniteSets

CONSTANT NoName   \* no such name

Vertical == {"V", "VI"}
IsHorizontal(dim) == dim = "H"
HasHost(c, std) == std \in DOMAIN c.host /\ c.host[std] # NoVariable
HostOf(c, std, otherwise) == IF HasHost(c, std) THEN c.called[std] ELSE otherwise
NcolVar(c) == HostOf(c, "H", "ncol")
NzVar(c) == HostOf(c, "V", "nz")

FirstOr(seq, otherwise) == IF seq = <<>> THEN otherwise ELSE seq[1]
FlatName(prefix, path) == FoldLeft(LAMBDA name, part : name \o "_" \o part, prefix, path)

-----------------------------------------------------------------------------
(* The functions of the suite cap, each generated from the intents the      *)
(* earlier ones have left.                                                 *)
Generated(c) ==
  LET suiteVars == SuiteVariables(c, Matched(c))
      add(acc, p) == LET f == SuiteFunction(c, acc.m, suiteVars, p[1], p[2])
                     IN  [m |-> f.merged, fns |-> Append(acc.fns, f)]
  IN  FoldLeft(add, [m |-> Matched(c), fns |-> <<>>], Pairs(c)).fns

Errors == <<[std |-> "ccpp_error_message", name |-> "errmsg", type |-> "message"],
            [std |-> "ccpp_error_code", name |-> "errflg", type |-> "int"]>>

(* The outputs of a function: those of its first table, which ends with the *)
(* error arguments, then what later tables add.                            *)
Outputs(c, f) ==
  LET tables == TablesOf(c, f.group, f.phase)
      outs == SelectSeq(AllArgs(f.occ),
                LAMBDA o : o.arg.owner # "SuiteOwned" /\ o.arg.intent = "out" /\ ~o.arg.array)
      args(mine) == [k \in DOMAIN mine |->
                       [std |-> mine[k].arg.std, name |-> mine[k].arg.name,
                        type |-> c.type[mine[k].arg.std]]]
  IN  args(SelectSeq(outs, LAMBDA o : o.entry = tables[1])) \o Errors
      \o args(SelectSeq(outs, LAMBDA o : o.entry # tables[1]))

(* What the IR function returns: scalars read and written come first.      *)
ReturnTypes(c, f) ==
  LET echoed == SelectSeq(f.inputs, LAMBDA d : d.intent = "inout" /\ ~d.array)
  IN  [k \in DOMAIN echoed |-> c.type[echoed[k].std]]
      \o [k \in DOMAIN Outputs(c, f) |-> Outputs(c, f)[k].type]

-----------------------------------------------------------------------------
(* Descriptors (ChostArgInfo).                                             *)
Info(host, datum, kind, rank, intent) ==
  [host |-> host, bare |-> host, datum |-> datum, kind |-> kind, rank |-> rank,
   intent |-> intent, nz |-> NoName, n3 |-> NoName, dim |-> FALSE, local |-> <<>>]

TablesIn(c, entries) == SelectSeq(c.files, LAMBDA e : e \in EntryPoints(c) /\ e[2] \in entries)

(* Entry points are told by the ends of their names: those of a timestep's  *)
(* initialization end like those of the initialization, and no name ends as *)
(* the timestep's is spelled here.                                         *)
EntriesOf(phase) ==
  CASE phase = "init" -> {"init", "timestep_init"}
    [] phase = "run"  -> {"run"}
    [] OTHER          -> {}

ArgumentsIn(c, phase) ==
  LET tables == TablesIn(c, EntriesOf(phase))
  IN  FlattenSeq([k \in DOMAIN tables |-> c.args[tables[k]]])

(* The intent of an argument over the schemes of a phase: the first met     *)
(* unless one says inout.                                                  *)
ArgIntent(c, std, phase) ==
  LET mine == SelectSeq(ArgumentsIn(c, phase), LAMBDA a : a.std = std)
  IN  IF \E a \in Range(mine) : a.intent = "inout" THEN "inout"
      ELSE FirstOr([k \in DOMAIN mine |-> mine[k].intent], "inout")

(* The name of a result of the derived type.                               *)
DdtOutName(c, phase) ==
  LET mine == SelectSeq(ArgumentsIn(c, phase), LAMBDA a : c.type[a.std] = "ddt" /\ a.intent = "out")
  IN  FirstOr([k \in DOMAIN mine |-> mine[k].name], NoName)

PlainInfo(c, phase, d) ==
  LET dims == c.dims[d.std]
      type == c.type[d.std]
      kind == CASE d.std = "H" -> "ncol" [] d.std = "V" -> "nz" [] OTHER -> type
      intent == CASE type = "int" \/ (type = "real" /\ ~d.array) -> "in"
                  [] d.array /\ d.intent = "in" -> "in"
                  [] type = "char" /\ ArgIntent(c, d.std, phase) = "in" -> "in"
                  [] OTHER -> "inout"
      vert == SelectSeq(dims, LAMBDA dim : dim \in Vertical)
      other == SelectSeq(dims, LAMBDA dim : ~IsHorizontal(dim) /\ dim \notin Vertical /\ HasHost(c, dim))
  IN  [Info(HostOf(c, d.std, d.name), <<d.std>>, kind, Len(dims), intent) EXCEPT
         !.bare = d.name,
         !.nz = IF Len(dims) < 2 \/ vert = <<>> THEN NoName ELSE HostOf(c, vert[1], NoName),
         !.n3 = IF Len(dims) < 3 \/ other = <<>> THEN NoName ELSE c.called[other[1]]]

(* The members of a derived type, nested ones under their path; characters  *)
(* are not passed.  An array's second extent is a member of the same        *)
(* structure: the (last) vertical dimension in it, else the one with the    *)
(* standard name of the dimension.                                         *)
Passed(c) == SelectSeq(c.members, LAMBDA m : m.type # "char")
Beside(c, m) == SelectSeq(c.members, LAMBDA n : Front(n.path) = Front(m.path))
SecondExtent(c, m) ==
  LET vert == SelectSeq(Beside(c, m), LAMBDA n : n.std \in Vertical)
      sizes == SelectSeq(Beside(c, m), LAMBDA n : n.type = "int" /\ n.std = Last(m.dims))
  IN  IF Range(m.dims) \cap Vertical # {}
        THEN IF vert = <<>> THEN <<>> ELSE Last(vert).path
        ELSE IF Len(m.dims) < 2 \/ sizes = <<>> THEN <<>> ELSE Last(sizes).path

MemberInfos(c, std, prefix, intent) ==
  LET members == Passed(c)
      flat(path) == FlatName(prefix, path)
      sizing == {SecondExtent(c, m) : m \in {n \in Range(members) : Range(n.dims) \cap Vertical = {}}}
      info(m) ==
        [Info(flat(m.path), <<std>> \o m.path,
              CASE m.std = "H" -> "ncol" [] m.std \in Vertical -> "nz" [] OTHER -> m.type,
              Len(m.dims),
              IF m.type \in {"int", "real"} /\ m.dims = <<>> THEN "in" ELSE intent) EXCEPT
           !.nz = IF SecondExtent(c, m) = <<>> THEN NoName ELSE flat(SecondExtent(c, m)),
           !.dim = m.path \in sizing,
           !.local = <<"local", prefix>> \o m.path]
  IN  [k \in DOMAIN members |-> info(members[k])]

(* The results of a function, told by their types alone.                   *)
OutInfos(c, f) ==
  LET info(type) ==
        CASE type = "message" -> <<Info("errmsg", <<"errmsg">>, "errmsg", 0, "out")>>
          [] type = "char"    -> <<Info("scheme_name", <<"scheme_name">>, "scheme_name", 0, "out")>>
          [] type = "int"     -> <<Info("errflg", <<"errflg">>, "errflg", 0, "out")>>
          [] OTHER            -> <<>>
  IN  FlattenSeq([k \in DOMAIN ReturnTypes(c, f) |-> info(ReturnTypes(c, f)[k])])

-----------------------------------------------------------------------------
IsSize(d) == d.kind \in {"ncol", "nz"} \/ d.dim

(* A third extent no host variable gives is that of a scalar of the same    *)
(* call.                                                                   *)
WithSiblings(c, infos) ==
  LET sibling(d) ==
        SelectSeq(FlattenSeq([k \in DOMAIN c.dims[d.datum[1]] |->
                    SelectSeq(infos, LAMBDA s : /\ s.kind = "int"
                                                /\ s.rank = 0
                                                /\ s.datum = <<c.dims[d.datum[1]][k]>>)]),
                  LAMBDA s : ~IsHorizontal(s.datum[1]) /\ s.datum[1] \notin Vertical)
      resolved == [k \in DOMAIN infos |->
        IF infos[k].rank >= 3 /\ infos[k].n3 = NoName /\ sibling(infos[k]) # <<>>
          THEN [infos[k] EXCEPT !.n3 = sibling(infos[k])[1].host] ELSE infos[k]]
      third == {resolved[k].n3 : k \in DOMAIN resolved} \ {NoName}
  IN  [k \in DOMAIN resolved |->
         IF resolved[k].host \in third /\ resolved[k].kind \in {"int", "nz", "ncol"} /\ resolved[k].rank = 0
           THEN [resolved[k] EXCEPT !.dim = TRUE] ELSE resolved[k]]

IsArray(d) == d.kind = "real" /\ d.rank >= 1
(* Mutant: the column count is added though it is there.                   *)
NcolAlways(c, visible, infos) ==
  IF \E d \in Range(infos) : IsArray(d)
    THEN <<Info(NcolVar(c), <<"H">>, "ncol", 0, "in")>> \o visible ELSE visible
NcolInjected(c, visible, infos) ==
  IF (\E d \in Range(infos) : IsArray(d)) /\ \A d \in Range(visible) : d.kind # "ncol"
    THEN <<Info(NcolVar(c), <<"H">>, "ncol", 0, "in")>> \o visible ELSE visible

NzInjected(c, visible, infos) ==
  LET present == {d.host : d \in {e \in Range(visible) : IsSize(e)}}
      wanted == SelectSeq(infos, LAMBDA d : IsArray(d) /\ d.rank >= 2 /\ d.nz \notin present \cup {NoName})
      std(name) == {v \in Vertical : HostOf(c, v, NoName) = name}
      names == [k \in DOMAIN wanted |-> wanted[k].nz]
      found == SelectSeq(FirstsBy(names, names), LAMBDA name : std(name) # {})
  IN  [k \in DOMAIN found |->
         Info(found[k], <<CHOOSE v \in std(found[k]) : TRUE>>, "nz", 0, "in")] \o visible

(* One argument per host variable.                                         *)
OnePerHost(infos) == FirstsBy(infos, [k \in DOMAIN infos |-> infos[k].host])

(* The arguments of a wrapper: those of its function and its results, once  *)
(* each, and the sizes of its arrays.  Caller and callee take their order   *)
(* from one list, so it is left out.                                       *)
Visible(c, infos, results) ==
  NzInjected(c, NcolInjected(c, OnePerHost(infos \o results), infos), infos)

(* A wrapper's context comes from the function of the first group; the      *)
(* functions of the others get the same actual arguments.                  *)
Context(c, f) ==
  LET ddt(k) == c.type[f.inputs[k].std] = "ddt"
      infos(k) == IF ddt(k)
                    THEN MemberInfos(c, f.inputs[k].std, f.inputs[k].name,
                                     ArgIntent(c, f.inputs[k].std, f.phase))
                    ELSE <<PlainInfo(c, f.phase, f.inputs[k])>>
      inNames == {f.inputs[k].name : k \in {j \in DOMAIN f.inputs : ddt(j)}}
      outName == DdtOutName(c, f.phase)
      outStd == CHOOSE std \in DOMAIN c.type : c.type[std] = "ddt"
      ddtOut == "ddt" \in Range(ReturnTypes(c, f)) /\ outName \notin inNames \cup {NoName}
      all == WithSiblings(c,
               FlattenSeq([k \in DOMAIN f.inputs |-> infos(k)])
               \o (IF ddtOut THEN MemberInfos(c, outStd, outName, "out") ELSE <<>>))
      results == OutInfos(c, f)
  IN  [phase |-> f.phase, infos |-> all, results |-> results,
       pieces |-> [k \in DOMAIN f.inputs |->
                     IF ddt(k) THEN Info(f.inputs[k].name, <<>>, "ddt", 0, "inout")
                     ELSE (CHOOSE d \in Range(all) : d.datum = <<f.inputs[k].std>> /\ d.local = <<>>)],
       ddtOuts |-> IF ddtOut THEN <<Info(outName, <<>>, "ddt", 0, "out")>> ELSE <<>>,
       visible |-> Visible(c, all, results)]

(* One wrapper for each phase, whose context all that is generated shares.  *)
Contexts(c, fns) ==
  [p \in DOMAIN Phases |->
     Context(c, SelectSeq(fns, LAMBDA f : f.phase = Phases[p])[1])]

-----------------------------------------------------------------------------
(* What the compilers make of the wrappers.  An actual argument is a        *)
(* variable a function may set or, for scalars, a value.                   *)
Actual(d) ==
  CASE d.kind = "ddt" -> [type |-> <<"ddt">>, place |-> <<"local", d.host>>, variable |-> TRUE]
    [] IsArray(d) -> [type |-> <<"real", d.rank>>, place |-> <<"state", d.host>>,
                      variable |-> d.intent # "in"]
    [] d.kind \in {"char", "errmsg", "scheme_name"} ->
         [type |-> <<"char">>, place |-> <<"local", d.host>>, variable |-> TRUE]
    [] d.kind = "errflg" -> [type |-> <<"int">>, place |-> <<"local", d.host>>, variable |-> TRUE]
    [] d.kind = "real" -> [type |-> <<"real", 0>>, place |-> <<"state", d.host>>, variable |-> FALSE]
    [] OTHER -> [type |-> <<"int">>, place |-> <<"state", d.host>>, variable |-> FALSE]

Actuals(ctx) ==
  LET passed == ctx.pieces \o ctx.ddtOuts \o ctx.results
  IN  [k \in DOMAIN passed |-> Actual(passed[k])]

DummyType(c, std, type) ==
  CASE type = "ddt" -> <<"ddt">>
    [] type = "real" -> <<"real", Len(c.dims[std])>>
    [] type \in {"char", "message"} -> <<"char">>
    [] OTHER -> <<"int">>

Dummies(c, f) ==
  LET outs == Outputs(c, f)
  IN  [k \in DOMAIN f.inputs |->
         [std |-> f.inputs[k].std, type |-> DummyType(c, f.inputs[k].std, c.type[f.inputs[k].std]),
          set |-> f.inputs[k].intent # "in"]]
      \o [k \in DOMAIN outs |->
            [std |-> outs[k].std, type |-> DummyType(c, outs[k].std, outs[k].type), set |-> TRUE]]

CallFits(c, ctx, f) ==
  LET actuals == Actuals(ctx)
      dummies == Dummies(c, f)
  IN  /\ Len(actuals) = Len(dummies)
      /\ \A k \in DOMAIN actuals :
           /\ actuals[k].type = dummies[k].type
           /\ dummies[k].set => actuals[k].variable

(* Mutant: every array has the layers' extent.                             *)
LayerExtents(c, d) == SubSeq(<<NcolVar(c), NzVar(c), d.n3>>, 1, d.rank)
Extents(c, d) ==
  SubSeq(<<NcolVar(c), IF d.nz = NoName THEN NzVar(c) ELSE d.nz, d.n3>>, 1, d.rank)

IsScalarInt(d) == d.kind \in {"ncol", "nz", "int"} /\ d.rank = 0
ScalarInts(infos) == {d.host : d \in {e \in Range(infos) : IsScalarInt(e)}}

(* The wrapper declares each dummy once and knows the extents of its        *)
(* arrays.                                                                 *)
WrapperDeclares(c, ctx) ==
  /\ IsInjective([k \in DOMAIN ctx.visible |-> ctx.visible[k].host])
  /\ \A d \in Range(ctx.visible) : IsArray(d) => Range(Extents(c, d)) \subseteq ScalarInts(ctx.visible)

(* How an argument crosses to C: a value or the address of some, which the  *)
(* callee may only read.                                                   *)
NumericType(elem, rank, intent) ==
  [elem |-> elem, pointer |-> rank > 0 \/ intent # "in", readOnly |-> rank > 0 /\ intent = "in"]

ArgType(d) ==
  CASE d.kind \in {"ncol", "nz", "int"} -> NumericType("int", 0, "in")
    [] d.kind = "real" -> NumericType("double", d.rank, IF d.rank = 0 THEN "in" ELSE d.intent)
    [] d.kind = "logical" -> [elem |-> "bool", pointer |-> FALSE, readOnly |-> FALSE]
    [] d.kind = "char" -> [elem |-> "char", pointer |-> TRUE, readOnly |-> d.intent = "in"]
    [] d.kind \in {"errmsg", "scheme_name"} -> [elem |-> "char", pointer |-> TRUE, readOnly |-> FALSE]
    [] d.kind = "errflg" -> [elem |-> "int", pointer |-> TRUE, readOnly |-> FALSE]

(* The host may write what it passes.                                      *)
Writable(type) == [type EXCEPT !.readOnly = FALSE]

(* The C prototype and the Fortran declaration of an argument must agree on *)
(* passing its value or its address (no compiler sees both).               *)
GivenByValue(d) == ~ArgType(d).pointer
TakenByValue(d) ==
  ~IsArray(d) /\ d.kind \notin {"char", "errmsg", "scheme_name"} /\ d.intent = "in"
PassedAlike(ctx) == \A d \in Range(ctx.visible) : GivenByValue(d) <=> TakenByValue(d)

StructArgs(ctx) == SelectSeq(ctx.visible, LAMBDA d : d.kind \notin {"errmsg", "errflg", "scheme_name"})

StateFields(ctxs) ==
  OnePerHost(FlattenSeq([k \in DOMAIN ctxs |-> StructArgs(ctxs[k])]))

StateFits(c, ctxs) ==
  LET fields == Range(StateFields(ctxs))
  IN  /\ \A k \in DOMAIN ctxs : \A d \in Range(StructArgs(ctxs[k])) :
           \E field \in fields : field.host = d.host /\ Writable(ArgType(field)) = Writable(ArgType(d))
      /\ \A field \in fields : IsArray(field) => Range(Extents(c, field)) \subseteq ScalarInts(StateFields(ctxs))

Compiles(c, ctxs, fns) ==
  /\ StateFits(c, ctxs)
  /\ \A ctx \in Range(ctxs) :
       /\ WrapperDeclares(c, ctx)
       /\ PassedAlike(ctx)
       /\ \A f \in {g \in Range(fns) : g.phase = ctx.phase} : CallFits(c, ctx, f)
=============================================================================

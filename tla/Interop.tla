------------------------------ MODULE Interop -------------------------------
(***************************************************************************)
(* A C++ host at work.  It owns the State, sizes its arrays by allocate()   *)
(* and passes it to one phase after the other; each wrapper fills locals    *)
(* for derived types and strings, calls the suite's functions and writes    *)
(* the locals back.  A value is who wrote it and as which datum.           *)
(***************************************************************************)
EXTENDS InteropWrappers

CONSTANTS Families,   \* sets of metadata to try
          Undefined   \* what no one has written

VARIABLES case, stage,
          functions,  \* the suite cap's functions
          contexts,   \* what the generator knows of each phase's wrapper
          todo,       \* the steps of the host's calls still to take
          memory, truth, errflg,
          failed      \* schemes that failed in the current call of a wrapper

vars == <<case, stage, functions, contexts, todo, memory, truth, errflg, failed>>

-----------------------------------------------------------------------------
(* A run of the host: where an argument's data are, and what its scheme     *)
(* sets: the arrays of a derived type, whose scalars are inputs.           *)
ValueAt(p) == IF p \in DOMAIN memory THEN memory[p] ELSE Undefined
TruthOf(datum) == IF datum \in DOMAIN truth THEN truth[datum] ELSE Undefined

MembersOf(c, datum) ==
  {m \in Range(c.members) : Len(datum) > 1 /\ <<datum[1]>> \o m.path = datum}
ShapeOf(c, datum) ==
  IF Len(datum) = 1 THEN c.dims[datum[1]] ELSE (CHOOSE m \in MembersOf(c, datum) : TRUE).dims
StandardName(c, datum) ==
  IF Len(datum) = 1 THEN datum[1] ELSE (CHOOSE m \in MembersOf(c, datum) : TRUE).std

DataOf(c, std) ==
  IF c.type[std] = "ddt" THEN {<<std>> \o m.path : m \in Range(Passed(c))} ELSE {<<std>>}
SetBy(c, std) ==
  IF c.type[std] = "ddt" THEN {d \in DataOf(c, std) : ShapeOf(c, d) # <<>>} ELSE {<<std>>}

PlaceOf(ctx, f, datum) ==
  LET dummies == Dummies(case, f)
      mine == {k \in DOMAIN dummies : dummies[k].std = datum[1]}
  IN  IF mine = {} THEN <<"suite">> \o datum
      ELSE Actuals(ctx)[CHOOSE k \in mine : TRUE].place \o Tail(datum)

ArgumentsAt(f, entry) ==
  {o.arg : o \in {p \in Range(f.occ) : p.entry = entry}}

(* The host's calls: each phase, and the last once more.                   *)
Step(op, k, f, entry) == [op |-> op, ctx |-> k, function |-> f, entry |-> entry]
StepsOf(ctxs, fns, k) ==
  LET mine == {j \in DOMAIN fns : fns[j].phase = ctxs[k].phase}
      calls(j) == [i \in DOMAIN TablesOf(case, fns[j].group, fns[j].phase) |->
                     Step("call", k, j, TablesOf(case, fns[j].group, fns[j].phase)[i])]
      function(j) == IF j \in mine THEN <<Step("suite", k, j, <<>>)>> \o calls(j) ELSE <<>>
  IN  <<Step("enter", k, 0, <<>>)>> \o FlattenSeq([j \in DOMAIN fns |-> function(j)])
      \o <<Step("leave", k, 0, <<>>)>>
HostCalls(ctxs, fns) ==
  LET once == [k \in DOMAIN ctxs |-> StepsOf(ctxs, fns, k)]
  IN  FlattenSeq(once) \o Last(once)

-----------------------------------------------------------------------------
Init ==
  /\ \E family \in Families : case \in family
  /\ ~Unmatched(case)
  /\ stage = "metadata"
  /\ functions = <<>> /\ contexts = <<>> /\ todo = <<>>
  /\ memory = <<>> /\ truth = <<>>
  /\ errflg = 0 /\ failed = {}

Generate ==
  /\ stage = "metadata"
  /\ LET fns == Generated(case)
         rejected == \E f \in Range(fns) : f.rejected
     IN  /\ stage' = IF rejected THEN "rejected" ELSE "generated"
         /\ functions' = IF rejected THEN <<>> ELSE fns
         /\ contexts' = IF rejected THEN <<>> ELSE Contexts(case, fns)
  /\ UNCHANGED <<case, todo, memory, truth, errflg, failed>>

(* Built, the host sets the fields of its State.                           *)
Compile ==
  /\ stage = "generated"
  /\ stage' = IF Compiles(case, contexts, functions) THEN "running" ELSE "refused"
  /\ LET fields == Range(StateFields(contexts))
     IN  /\ todo' = IF Compiles(case, contexts, functions) THEN HostCalls(contexts, functions) ELSE <<>>
         /\ memory' = [p \in {<<"state", d.host>> : d \in fields} |->
                         <<<<"host">>, (CHOOSE d \in fields : d.host = p[2]).datum>>]
         /\ truth' = [datum \in {d.datum : d \in fields} |-> <<<<"host">>, datum>>]
  /\ UNCHANGED <<case, functions, contexts, errflg, failed>>

Now(op) == stage = "running" /\ todo # <<>> /\ todo[1].op = op
Here == contexts[todo[1].ctx]
Advance ==
  /\ todo' = Tail(todo)
  /\ UNCHANGED <<case, functions, contexts>>

(* The locals of the wrapper: derived types are filled and characters       *)
(* converted, results of a derived type start without their arrays.        *)
Members(ctx) == {d \in Range(ctx.infos) : d.local # <<>>}
Strings(ctx) == {d \in Range(ctx.visible) : d.kind = "char"}
EnterWrapper ==
  /\ Now("enter")
  /\ memory' = [p \in {d.local : d \in {e \in Members(Here) : e.rank = 0 \/ e.intent # "out"}} |->
                  LET d == CHOOSE e \in Members(Here) : e.local = p
                  IN  ValueAt(<<"state", d.host>>)]
               @@ [p \in {<<"local", d.host>> : d \in Strings(Here)} |-> ValueAt(<<"state", p[2]>>)]
               @@ [p \in {q \in DOMAIN memory : q[1] # "local"} |-> memory[p]]
  /\ errflg' = 0 /\ failed' = {}
  /\ Advance
  /\ UNCHANGED <<stage, truth>>

(* A function of the suite cap clears the error flag it is given.          *)
EnterSuite ==
  /\ Now("suite")
  /\ errflg' = 0
  /\ Advance
  /\ UNCHANGED <<stage, memory, truth, failed>>

SetData(entry) ==
  UNION {SetBy(case, a.std) : a \in {b \in ArgumentsAt(functions[todo[1].function], entry) : Writes(b)}}

(* A scheme sets its results, or reports an error.                         *)
CallScheme ==
  /\ Now("call")
  /\ errflg = 0
  /\ LET f == functions[todo[1].function]
         e == todo[1].entry
         data == SetData(e)
     IN  \/ /\ memory' = [p \in {PlaceOf(Here, f, d) : d \in data} |->
                            <<e, CHOOSE d \in data : PlaceOf(Here, f, d) = p>>] @@ memory
            /\ truth' = [d \in data |-> <<e, d>>] @@ truth
            /\ UNCHANGED <<errflg, failed>>
         \/ /\ errflg' = 1
            /\ failed' = failed \cup {e}
            /\ UNCHANGED <<memory, truth>>
  /\ Advance
  /\ UNCHANGED stage

SkipScheme ==
  /\ Now("call")
  /\ errflg # 0
  /\ Advance
  /\ UNCHANGED <<stage, memory, truth, errflg, failed>>

(* Mutant: arrays are written back only if they were filled.               *)
WritesBackFilled(d) == d.rank > 0 /\ d.intent = "inout"
(* The arrays of a derived type the wrapper writes back.                   *)
WritesBack(d) == d.rank > 0 /\ d.intent # "in"

(* Status::ok                                                              *)
Ok(code) == code = 0

(* The wrapper writes back what it converted and the host looks at the      *)
(* status: it goes on if all is well.                                      *)
LeaveWrapper ==
  /\ Now("leave")
  /\ LET back == {d \in Members(Here) : WritesBack(d)}
         strings == {d \in Strings(Here) : d.intent # "in"}
     IN  memory' = [p \in {<<"state", d.host>> : d \in back} |->
                      ValueAt((CHOOSE d \in back : d.host = p[2]).local)]
                   @@ [p \in {<<"state", d.host>> : d \in strings} |-> ValueAt(<<"local", p[2]>>)]
                   @@ memory
  /\ stage' = IF ~Ok(errflg) THEN "stopped" ELSE IF Tail(todo) = <<>> THEN "done" ELSE "running"
  /\ Advance
  /\ UNCHANGED <<truth, errflg, failed>>

Stopped ==
  /\ stage \in {"rejected", "refused", "stopped", "done"}
  /\ UNCHANGED vars

Next ==
  \/ Generate \/ Compile \/ EnterWrapper \/ EnterSuite
  \/ CallScheme \/ SkipScheme \/ LeaveWrapper \/ Stopped

Spec == Init /\ [][Next]_vars

-----------------------------------------------------------------------------
Used(c) == {a.std : a \in UNION {Range(c.args[e]) : e \in EntryPoints(c)}}

(* Functions of one phase that do not take the same.                       *)
GroupsDiffer ==
  \E f, g \in Range(functions) : f.phase = g.phase /\ Dummies(case, f) # Dummies(case, g)

(* Fields of the State are told by name: one datum passed under two, or two  *)
(* under one.                                                              *)
FieldsClash ==
  LET all == UNION {Range(ctx.infos) : ctx \in Range(contexts)}
  IN  \E d, e \in all : (d.host = e.host) # (d.datum = e.datum)

(* The next group is called although a scheme of this one failed.          *)
FailureMasked == \E e \in failed : e[1] \notin Range(Last(case.groups))

(* The extents of an array come by position: columns, then levels or, in a  *)
(* derived type, what was found next to it.                                *)
MemberMisshapen(c, m) ==
  \/ m.dims[1] # "H"
  \/ Len(m.dims) > 1 /\ \A n \in Range(c.members) : n.path = SecondExtent(c, m) => n.std # m.dims[2]
Misshapen(c) ==
  \E std \in Used(c) :
    IF c.type[std] = "ddt"
      THEN \E m \in Range(c.members) : m.dims # <<>> /\ MemberMisshapen(c, m)
      ELSE /\ c.dims[std] # <<>>
           /\ \/ c.dims[std][1] # "H"
              \/ Len(c.dims[std]) > 1 /\ ~(c.dims[std][2] \in Vertical /\ HasHost(c, c.dims[std][2]))

(* The interface dimension is taken for a plain integer when it is passed,  *)
(* and passed again for an array that has it.                              *)
InterfacesTwice ==
  \E ctx \in Range(contexts) : \E size \in Range(ctx.infos) :
    /\ size.datum = <<"VI">>
    /\ \E d \in Range(ctx.infos) : d.rank > 1 /\ d.nz = size.host

(* A third extent comes from another argument of the same function only.   *)
ThirdNotPassed ==
  \E ctx \in Range(contexts) : \E d \in Range(ctx.infos) :
    /\ IsArray(d) /\ d.rank > 2
    /\ \A other \in Range(ctx.infos) : other.datum # <<ShapeOf(case, d.datum)[3]>>

(* A column count in a derived type is taken for that of the host's arrays. *)
ColumnsInMember ==
  \E ctx \in Range(contexts) :
    /\ \E d \in Range(ctx.infos) : d.local # <<>> /\ d.kind = "ncol"
    /\ \A d \in Range(ctx.infos) : d.datum # <<"H">>

(* A derived type that is a result of a timestep's initialization.         *)
ResultUnfound ==
  \E f \in Range(functions) :
    f.phase = "timestep_init" /\ "ddt" \in {o.type : o \in Range(Outputs(case, f))}

(* A derived type that is a result of a later scheme: the error arguments,  *)
(* which end the first scheme's, precede it.                               *)
ResultAfterErrors ==
  \E f \in Range(functions) : \E j, k \in DOMAIN Outputs(case, f) :
    j < k /\ Outputs(case, f)[j].type = "message" /\ Outputs(case, f)[k].type = "ddt"

(* One scheme only reads a derived type, another only sets it.             *)
IntentsMixed(c) ==
  \E phase \in Range(Phases) : \E a, b \in Range(ArgumentsIn(c, phase)) :
    a.std = b.std /\ c.type[a.std] = "ddt" /\ a.intent = "in" /\ b.intent = "out"

(* Logical members a scheme may write.                                     *)
LogicalWritten ==
  \E ctx \in Range(contexts) : \E d \in Range(ctx.infos) : d.kind = "logical" /\ d.intent # "in"

(* Scalars go by value, except strings, whose results are taken for the     *)
(* name of a scheme.                                                       *)
ScalarsWritten(c) ==
  \E e \in EntryPoints(c) : \E a \in Range(c.args[e]) :
    /\ Writes(a) /\ HasHost(c, a.std)
    /\ c.dims[a.std] = <<>> /\ c.type[a.std] # "ddt"

(* What is known not to fit.                                               *)
Unfit ==
  \/ GroupsDiffer \/ Misshapen(case) \/ InterfacesTwice \/ ScalarsWritten(case)
  \/ ThirdNotPassed \/ ColumnsInMember \/ LogicalWritten
  \/ ResultUnfound \/ ResultAfterErrors

(* The wrappers and the State that are generated fit the functions of the   *)
(* suite cap: every actual argument its dummy, every extent a size that is  *)
(* passed, every field of an argument structure one of the State           *)
(* (_chost_fn_contexts, _build_chost_ftn_text, _build_chost_wrapper_body).  *)
WrappersFit == stage = "refused" => Unfit

Names(infos, extents) ==
  LET datum(name) == (CHOOSE d \in Range(infos) : d.host = name).datum
  IN  [k \in DOMAIN extents |-> StandardName(case, datum(extents[k]))]

(* An array has its declared shape in the wrapper and was so allocated.     *)
Sized(ctx, datum) ==
  LET fields == StateFields(contexts)
      field(host) == CHOOSE d \in Range(fields) : d.host = host
  IN  \A d \in {e \in Range(ctx.infos) : e.datum = datum /\ IsArray(e)} :
        /\ Names(ctx.visible, Extents(case, d)) = ShapeOf(case, datum)
        /\ Names(fields, Extents(case, field(d.host))) = ShapeOf(case, datum)

(* What is known to lose values.                                           *)
Lossy ==
  \/ FailureMasked \/ GroupsDiffer \/ FieldsClash \/ ScalarsWritten(case)
  \/ IntentsMixed(case)

(* Wherever the host's State, the wrapper's locals and the suite keep it,   *)
(* what a scheme reads is the value last set, by a scheme of this or an     *)
(* earlier phase or by the host, and arrays have the shape the scheme       *)
(* declares.                                                               *)
SchemesGetValues ==
  Now("call") /\ errflg = 0 /\ ~Lossy /\ ~Misshapen(case) =>
    LET f == functions[todo[1].function]
    IN  \A a \in ArgumentsAt(f, todo[1].entry) : \A datum \in DataOf(case, a.std) :
          /\ Reads(a) => ValueAt(PlaceOf(Here, f, datum)) = TruthOf(datum)
          /\ Sized(Here, datum)

Returned == stage \in {"running", "stopped", "done"} /\ (todo = <<>> \/ todo[1].op = "enter")
(* The status the host gets is that of the schemes; if it is good, the      *)
(* State holds all they have set (copy-out of the wrappers, Status).       *)
ResultsReturned ==
  Returned /\ ~Lossy =>
    /\ Ok(errflg) <=> failed = {}
    /\ Ok(errflg) => \A k \in DOMAIN contexts : \A d \in Range(StructArgs(contexts[k])) :
                       ValueAt(<<"state", d.host>>) = TruthOf(d.datum)
=============================================================================

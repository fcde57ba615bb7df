----------------------------- MODULE Marshaling -----------------------------
(***************************************************************************)
(* The functions of the suite cap and of the package cap, as they are       *)
(* generated for one variable, and their execution: conversions of kind,    *)
(* units and vertical order around the calls, loops, segments and errors.   *)
(*                                                                         *)
(* A case is a suite and what its schemes declare of the variable:          *)
(*   tree      the suite (see PackageSegments)                             *)
(*   has       the phases of each scheme, by the names of its tables        *)
(*   args      the argument of each scheme, alike in all its phases        *)
(*   supplied  the variable is the host's; otherwise it is the suite's own *)
(*   absent    the host's variable is inactive: it has no storage          *)
(***************************************************************************)
EXTENDS PackageSegments, Integers

CONSTANTS Cases, Levels

NoArg == [intent |-> "none", narrow |-> FALSE, other |-> FALSE, top |-> FALSE,
          optional |-> FALSE, promoted |-> FALSE]
Reads(arg) == arg.intent \in {"in", "inout"}
Writes(arg) == arg.intent \in {"out", "inout"}
Uses(arg) == arg # NoArg /\ arg.intent # "none"

Life == <<"init", "run", "run", "final">>

-----------------------------------------------------------------------------
(* Arguments.                                                              *)

Users(c) == {s \in DOMAIN c.args : Uses(c.args[s])}

\* A name is private to the package when the host does not supply it, nobody
\* else touches it and the package writes it.
Private(c) ==
  LET sites == {site \in CallSites(c.tree, TRUE) : site.scheme \in Users(c)}
  IN /\ ~c.supplied
     /\ \A site \in sites : ~site.byHost
     /\ \E site \in sites : Writes(c.args[site.scheme])

\* A scheme may have its last phase under either of two names.
TablesOf(phase) == IF phase = "final" THEN {"final", "finalize"} ELSE {phase}

Called(c, n, phase) ==
  \/ n.t = "scheme" /\ TablesOf(phase) \cap c.has[n.name] # {}
  \/ n.t = "segment" /\ n.name = phase
  \/ n = StateCreate /\ phase = "init"
  \/ n = StateDelete /\ phase = "final"

\* The calls of a list of nodes, looking into loops.
RECURSIVE Leaves(_)
Leaves(nodes) ==
  FlattenSeq([i \in DOMAIN nodes |->
    IF nodes[i].t = "loop" THEN Leaves(nodes[i].body) ELSE <<nodes[i]>>])

\* The uses in a segment, in call order.
UsesIn(c, leaves, phase) ==
  SelectSeq([i \in DOMAIN leaves |->
               IF Called(c, leaves[i], phase) THEN c.args[leaves[i].name] ELSE NoArg],
            Uses)
SegmentUses(c, n) == UsesIn(c, Leaves(n.body), n.name)

Agree(uses) ==
  \A i, j \in DOMAIN uses : uses[i].narrow = uses[j].narrow /\ uses[i].other = uses[j].other
InterfaceAgrees(c, n) == Private(c) \/ Agree(SegmentUses(c, n))

\* `in' if never written, `out' if first touched by a pure write, else `inout'.
SegmentIntent(uses) ==
  CASE \A i \in DOMAIN uses : ~Writes(uses[i]) -> "in"
    [] uses[1].intent = "out" -> "out"
    [] OTHER -> "inout"

Summary(uses) ==
  IF uses = <<>> THEN NoArg ELSE [uses[1] EXCEPT !.intent = SegmentIntent(uses)]
InterfaceArg(c, n) == IF Private(c) THEN NoArg ELSE Summary(SegmentUses(c, n))

DeclaredArg(c, n) ==
  CASE n.t = "scheme" -> c.args[n.name]
    [] n.t = "segment" -> InterfaceArg(c, n)
    [] OTHER -> NoArg

\* The declarations of one function's calls; the first one stands for the
\* function's argument, and its intent becomes inout where others differ.
Declaration(c, n) == [node |-> n, arg |-> DeclaredArg(c, n)]
ArgTables(c, nodes) ==
  SelectSeq([i \in DOMAIN nodes |-> Declaration(c, nodes[i])], LAMBDA d : Uses(d.arg))

\* Mutant: the first declaration's intent stands.
FirstIntent(users) == users[1].arg.intent

MergedIntent(users) ==
  IF \A i \in DOMAIN users : users[i].arg.intent = users[1].arg.intent
  THEN users[1].arg.intent ELSE "inout"

Arg(c, n, users) ==
  IF users # <<>> /\ n = users[1].node
  THEN [users[1].arg EXCEPT !.intent = MergedIntent(users)]
  ELSE DeclaredArg(c, n)

Signature(arg) == <<arg.narrow, arg.other, arg.top>>

\* Mutant: the vertical order is not part of it.
DivergentUnlessOrder(users) ==
  Cardinality({<<users[i].arg.narrow, users[i].arg.other>> : i \in DOMAIN users}) > 1

Divergent(users) == Cardinality({Signature(users[i].arg) : i \in DOMAIN users}) > 1

-----------------------------------------------------------------------------
(* Statements.                                                             *)

Statement(op, name, from, to, body) ==
  [op |-> op, name |-> name, from |-> from, to |-> to, body |-> body,
   count |-> 1, copies |-> TRUE, gated |-> FALSE, otherwise |-> <<>>]

\* The annotations of a host match, and the vertical order.  A package's own
\* schemes are not matched with the host.
Mismatched(c, arg, cap, divergent, how) ==
  CASE how = "kind" -> arg.narrow /\ c.supplied /\ cap = "suite"
    [] how = "unit" -> arg.other /\ c.supplied /\ cap = "suite"
    [] how = "flip" -> arg.top /\ divergent

Steps(c, arg, cap, divergent) ==
  SelectSeq(<<"kind", "unit", "flip">>,
            LAMBDA how : Uses(arg) /\ Mismatched(c, arg, cap, divergent, how))

Temporary(cap, how) == <<cap, how>>
Temporaries == {"suite", "package"} \X {"kind", "unit", "flip"}
Places == {<<"x">>, <<"own">>} \cup Temporaries
NoPlace == <<"none">>

\* The temporary a chain of conversions ends in, or the variable itself.
Converted(steps, cap, src) == IF steps = <<>> THEN src ELSE Temporary(cap, Last(steps))
Source(steps, cap, src, i) == IF i = 1 THEN src ELSE Temporary(cap, steps[i - 1])

\* Mutant: no conversion is gated.
ConvertAlways(steps, cap, src, arg) ==
  [i \in DOMAIN steps |->
    [Statement("convert", steps[i], Source(steps, cap, src, i), Temporary(cap, steps[i]), <<>>)
       EXCEPT !.copies = ~(steps[i] = "unit" /\ arg.intent = "out")]]

\* Conversions of an optional argument are made if it is present: the
\* printer knows that of the dummy argument, not of a temporary.
ConvertIn(steps, cap, src, arg) ==
  [i \in DOMAIN steps |->
    [Statement("convert", steps[i], Source(steps, cap, src, i), Temporary(cap, steps[i]), <<>>)
       EXCEPT !.copies = ~(steps[i] = "unit" /\ arg.intent = "out"),
              !.gated = arg.optional /\ i = 1]]

WriteBack(steps, cap, src, arg) ==
  IF ~Writes(arg) THEN <<>>
  ELSE Reverse([i \in DOMAIN steps |->
         [Statement("write back", steps[i], Temporary(cap, steps[i]), Source(steps, cap, src, i), <<>>)
            EXCEPT !.gated = arg.optional /\ i = 1]])

Guarded(body) == Statement("guarded", "", <<>>, <<>>, body)
Repeat(n, body) == [Statement("loop", "", <<>>, <<>>, body) EXCEPT !.count = n]

ActiveCheck(with, without) ==
  [Statement("active", "", <<>>, <<>>, <<with>>) EXCEPT !.otherwise = <<without>>]

Within(steps, cap, src, arg, call) ==
  Guarded(ConvertIn(steps, cap, src, arg) \o <<call>> \o WriteBack(steps, cap, src, arg))

\* Neighbours in a loop that are promoted share a loop over the levels; on
\* the top level each call has its own.
Promoted(c, n) == n.t = "scheme" /\ c.args[n.name].promoted

LevelsOf(c, n) == IF Promoted(c, n) THEN [level \in 1..Levels |-> level] ELSE <<0>>

Groups(c, nodes) ==
  LET AddToGroup(out, n) ==
        IF out # <<>> /\ Promoted(c, n) /\ Promoted(c, Last(Last(out)))
        THEN [out EXCEPT ![Len(out)] = Append(@, n)]
        ELSE Append(out, <<n>>)
  IN FoldLeft(AddToGroup, <<>>, nodes)

(***************************************************************************)
(* A function f: its suite c, its phase, the cap it is in, the users of    *)
(* the variable, whether they diverge, and the place they have it from.    *)
(***************************************************************************)
RECURSIVE FunctionBody(_, _, _, _, _)

CallTo(f, n, value, level) ==
  CASE n.t = "scheme" -> Statement("call", n.name, value, <<level>>, <<>>)
    [] n.t = "segment" -> Statement("segment", "", value, <<level>>,
                                    FunctionBody(f.c, n.body, f.phase, "package", value))
    [] OTHER -> Statement("state", n.name, <<>>, <<>>, <<>>)

\* An optional argument of the host's may be inactive: it is left out then.
IfActive(f, arg, level, with, without) ==
  IF arg.optional /\ f.c.supplied /\ f.cap = "suite" /\ level = 0
  THEN ActiveCheck(with, Guarded(<<without>>)) ELSE with

ConvertedCall(f, n, level, arg, steps, place) ==
  IfActive(f, arg, level,
           Within(steps, f.cap, place, arg, CallTo(f, n, Converted(steps, f.cap, place), level)),
           CallTo(f, n, NoPlace, level))

\* A divergent name is converted around each call on its own, except in a
\* loop over the levels.
SchemeCall(f, n, level, arg) ==
  ConvertedCall(f, n, level, arg,
    IF f.divergent /\ level = 0 THEN Steps(f.c, arg, f.cap, TRUE) ELSE <<>>,
    IF n.t = "scheme" /\ Private(f.c) THEN <<"own">> ELSE f.place)

GroupCalls(f, group, levels) ==
  FlattenSeq([l \in DOMAIN levels |->
    [i \in DOMAIN group |-> SchemeCall(f, group[i], levels[l], Arg(f.c, group[i], f.users))]])

RECURSIVE LoopItems(_, _)
LoopItems(f, nodes) ==
  LET Emitted(group) ==
        IF group[1].t = "loop"
        THEN <<Repeat(IF f.phase = "run" THEN group[1].count ELSE 1,
                      LoopItems(f, group[1].body))>>
        ELSE GroupCalls(f, group, LevelsOf(f.c, group[1]))
      groups == Groups(f.c, SelectSeq(nodes, LAMBDA n : n.t = "loop" \/ Called(f.c, n, f.phase)))
  IN FlattenSeq([i \in DOMAIN groups |-> Emitted(groups[i])])

Check(cap) == IF cap = "suite" THEN <<Statement("check", "", <<>>, <<>>, <<>>)>> ELSE <<>>

\* What the users agree on is converted once, around all calls.
Boundary(c, users) ==
  IF users = <<>> \/ Divergent(users) THEN NoArg ELSE Arg(c, users[1].node, users)

BodyAround(c, nodes, phase, cap, src, users, boundary, steps) ==
  LET f == [c |-> c, phase |-> phase, cap |-> cap, users |-> users,
            divergent |-> Divergent(users), place |-> Converted(steps, cap, src)]
  IN ConvertIn(steps, cap, src, boundary)
     \o Check(cap)
     \o FlattenSeq([i \in DOMAIN nodes |-> LoopItems(f, <<nodes[i]>>)])
     \o WriteBack(steps, cap, src, boundary)

BodyFor(c, nodes, phase, cap, src, users, boundary) ==
  BodyAround(c, nodes, phase, cap, src, users, boundary, Steps(c, boundary, cap, FALSE))

BodyWith(c, nodes, phase, cap, src, users) ==
  BodyFor(c, nodes, phase, cap, src, users, Boundary(c, users))

FunctionBody(c, nodes, phase, cap, src) ==
  BodyWith(c, nodes, phase, cap, src,
           ArgTables(c, SelectSeq(Leaves(nodes), LAMBDA n : Called(c, n, phase))))

Lowered(c) == FlattenComposites(LowerPackages(c.tree, c.has))

Program(c, phase) ==
  FunctionBody(c, Lowered(c), phase, "suite", <<"x">>)
  \o <<Statement("return", "", <<>>, <<>>, <<>>)>>

\* The suites the generator takes.
Generated(c) ==
  /\ Generates(c.tree, c.has)
  /\ \A n \in ToSet(Leaves(Lowered(c))) : n.t = "segment" => InterfaceAgrees(c, n)

\* What the generator makes of a suite: the function of each call to come.
Compiled(c) == [suite |-> c, functions |-> [i \in DOMAIN Life |-> Program(c, Life[i])]]
-----------------------------------------------------------------------------
(* Execution.                                                              *)

VARIABLES case,     \* the suite
          functions,\* the functions of the calls to come
          k,        \* the call of the host: an index of Life
          code,     \* the statements to come
          place,    \* what each place of the variable holds
          newest,   \* the number of the newest value a scheme has written
          flag,     \* errflg
          calls,    \* the schemes called in this phase: <<scheme, level>>
          fault     \* a place without storage has been used

vars == <<case, functions, k, code, place, newest, flag, calls, fault>>

Value(v, other, up) == [version |-> v, other |-> other, up |-> up, exact |-> TRUE]
Undefined == Value(-1, FALSE, TRUE)
Missing == Value(-2, FALSE, TRUE)

\* The schemes that do not declare an order define the one the variable is
\* kept in.
KeptUp(c) == \E s \in Users(c) : ~c.args[s].top

Start(c) ==
  [p \in Places |->
     CASE p \in Temporaries -> Missing
       [] c.supplied /\ p = <<"x">> -> IF c.absent THEN Missing ELSE Value(0, FALSE, KeptUp(c))
       [] OTHER -> Undefined]

Init ==
  /\ \E c \in Cases : case = c.suite /\ functions = c.functions
  /\ k = 0
  /\ code = <<>>
  /\ place = Start(case)
  /\ newest = 0
  /\ flag = 0
  /\ calls = <<>>
  /\ fault = FALSE

Over == k > Len(Life) \/ fault
Now == Head(code)
Doing(op) == ~Over /\ code # <<>> /\ Now.op = op
Then(body) == code' = body \o Tail(code)

\* The host calls the next phase; it stops after one that failed.
EnterPhase ==
  /\ ~Over
  /\ code = <<>>
  /\ IF flag = 0 /\ k < Len(Life)
     THEN code' = Head(functions) /\ functions' = Tail(functions) /\ k' = k + 1
     ELSE code' = <<>> /\ functions' = <<>> /\ k' = Len(Life) + 1
  /\ flag' = IF k' > Len(Life) THEN flag ELSE 0
  /\ calls' = IF k' > Len(Life) THEN calls ELSE <<>>
  /\ UNCHANGED <<case, place, newest, fault>>

Turned(v, how) ==
  CASE how = "kind" -> [v EXCEPT !.exact = FALSE]
    [] how = "unit" -> [v EXCEPT !.other = ~@]
    [] how = "flip" -> [v EXCEPT !.up = ~@]
TurnedBack(v, how) == IF how = "kind" THEN v ELSE Turned(v, how)

\* Allocate the temporary and convert into it.
Convert ==
  /\ Doing("convert")
  /\ Then(<<>>)
  /\ CASE place[Now.from] = Missing /\ Now.gated -> UNCHANGED <<place, fault>>
       [] place[Now.from] = Missing /\ ~Now.gated -> fault' = TRUE /\ UNCHANGED place
       [] OTHER ->
            /\ place' = [place EXCEPT ![Now.to] =
                           IF Now.copies THEN Turned(place[Now.from], Now.name) ELSE Undefined]
            /\ UNCHANGED fault
  /\ UNCHANGED <<case, functions, k, newest, flag, calls>>

\* Assign the temporary back and deallocate it.
ConvertBack ==
  /\ Doing("write back")
  /\ Then(<<>>)
  /\ CASE place[Now.to] = Missing /\ Now.gated -> UNCHANGED <<place, fault>>
       [] Missing \in {place[Now.from], place[Now.to]} /\ ~Now.gated ->
            fault' = TRUE /\ UNCHANGED place
       [] OTHER ->
            /\ place' = [place EXCEPT ![Now.to] = TurnedBack(place[Now.from], Now.name),
                                      ![Now.from] = Missing]
            /\ UNCHANGED fault
  /\ UNCHANGED <<case, functions, k, newest, flag, calls>>

\* The suite is in another state than the function expects.
StateCheck ==
  /\ Doing("check")
  /\ Then(<<>>)
  /\ flag' \in {0, 1}
  /\ UNCHANGED <<case, functions, k, place, newest, calls, fault>>

Branch ==
  /\ \/ Doing("guarded") /\ Then(IF flag = 0 THEN Now.body ELSE <<>>)
     \/ Doing("active") /\ Then(IF case.absent THEN Now.otherwise ELSE Now.body)
     \/ Doing("segment") /\ Then(Now.body)
     \/ Doing("loop") /\ Then(FlattenSeq([i \in 1..Now.count |-> Now.body]))
  /\ UNCHANGED <<case, functions, k, place, newest, flag, calls, fault>>

StateCall ==
  /\ Doing("state")
  /\ Then(<<>>)
  /\ calls' = Append(calls, <<Now.name, 0>>)
  /\ UNCHANGED <<case, functions, k, place, newest, flag, fault>>

Touches(s, p) == Uses(case.args[s]) /\ p # NoPlace /\ place[p] # Missing

\* Mutant: a write is not counted.
SchemeReturnsUncounted ==
  /\ Doing("call")
  /\ Then(<<>>)
  /\ calls' = Append(calls, <<Now.name, Now.to[1]>>)
  /\ place' = IF Touches(Now.name, Now.from) /\ Writes(case.args[Now.name])
              THEN [place EXCEPT ![Now.from].version = newest + 1] ELSE place
  /\ UNCHANGED <<case, functions, k, newest, flag, fault>>

\* A scheme leaves a new value of its own, or fails ahead of writing.
SchemeReturns ==
  /\ Doing("call")
  /\ Then(<<>>)
  /\ calls' = Append(calls, <<Now.name, Now.to[1]>>)
  /\ IF Touches(Now.name, Now.from) /\ Writes(case.args[Now.name])
     THEN LET arg == case.args[Now.name]
          IN /\ newest' = newest + 1
             /\ place' = [place EXCEPT ![Now.from] = Value(newest + 1, arg.other, ~arg.top)]
     ELSE UNCHANGED <<newest, place>>
  /\ UNCHANGED <<case, functions, k, flag, fault>>

SchemeFails ==
  /\ Doing("call")
  /\ Then(<<>>)
  /\ calls' = Append(calls, <<Now.name, Now.to[1]>>)
  /\ flag' = 1
  /\ UNCHANGED <<case, functions, k, place, newest, fault>>

\* The temporaries still allocated are freed when the function returns.
Return ==
  /\ Doing("return")
  /\ Then(<<>>)
  /\ place' = [p \in Places |-> IF p \in Temporaries THEN Missing ELSE place[p]]
  /\ UNCHANGED <<case, functions, k, newest, flag, calls, fault>>

Done == Over /\ UNCHANGED vars

Next ==
  \/ EnterPhase
  \/ Convert
  \/ ConvertBack
  \/ StateCheck
  \/ Branch
  \/ StateCall
  \/ SchemeReturns
  \/ SchemeFails
  \/ Return
  \/ Done

Spec == Init /\ [][Next]_vars

-----------------------------------------------------------------------------
\* Types; a value is never newer than the last one written.
TypeOK ==
  /\ DOMAIN case = {"tree", "has", "args", "supplied", "absent"}
  /\ k \in 0..Len(Life) + 1
  /\ place \in [Places -> [version : -2..newest, other : BOOLEAN, up : BOOLEAN, exact : BOOLEAN]]
  /\ newest \in Nat
  /\ flag \in {0, 1}
  /\ fault \in BOOLEAN

PhaseEnded == code = <<>> /\ k \in DOMAIN Life

\* The calls the suite asks for, as if nothing were ever moved.
RECURSIVE Asked(_, _, _)
Asked(c, nodes, phase) ==
  FlattenSeq([i \in DOMAIN nodes |->
    LET n == nodes[i]
        inside == Asked(c, n.body, phase)
    IN CASE n.t = "scheme" -> IF TablesOf(phase) \cap c.has[n.name] # {} THEN <<n.name>> ELSE <<>>
         [] n.t = "loop" /\ phase = "run" ->
              FlattenSeq([j \in 1..n.count |-> inside])
         [] OTHER -> inside])

SchemesCalled(level) ==
  LET made == SelectSeq(calls, LAMBDA x : x[1] \in DOMAIN case.args /\ x[2] \in {0, level})
  IN [i \in DOMAIN made |-> made[i][1]]

\* Segments are looked for under one name of each phase only: what runs under
\* the other name inside an entry-point call is neither moved nor a barrier.
NamesPhasesAlike(c) ==
  \A p \in ToSet(EntryPaths(c.tree, <<>>, {})) :
    \A s \in SchemesIn(At(c.tree, p)) : "finalize" \notin c.has[s]

\* Cutting packages out, one routine per segment, and looping over levels
\* leave the order of the calls as it is: on every level, each phase calls
\* the schemes of the suite in its order, all of them unless one fails.
CallsInSuiteOrder ==
  k \in DOMAIN Life /\ NamesPhasesAlike(case) =>
    \A level \in 1..Levels :
      LET asked == Asked(case, case.tree, Life[k])
      IN /\ IsPrefix(SchemesCalled(level), asked)
         /\ PhaseEnded /\ flag = 0 => SchemesCalled(level) = asked

Position(name) == {i \in DOMAIN calls : calls[i][1] = name}
PackageCalls ==
  {i \in DOMAIN calls :
     \E site \in CallSites(case.tree, TRUE) : ~site.byHost /\ site.scheme = calls[i][1]}

\* The composites are looked up once the loops that moved are erased: an
\* entry-point call inside one is not seen.
SeesEntries(c) ==
  Len(EntriesLeft(c.tree, c.has)) = Len(EntryPaths(c.tree, <<>>, {}))

\* A package's state is created ahead of all its schemes, and deleted behind
\* them, wherever hooks and loops put its calls.
StateBrackets ==
  PhaseEnded /\ flag = 0 /\ SegmentsOf(case.tree, case.has) # <<>> /\ SeesEntries(case) =>
    /\ Life[k] = "init" => \E i \in Position("create") : \A j \in PackageCalls : i < j
    /\ Life[k] = "final" => \E i \in Position("delete") : \A j \in PackageCalls : i > j

\* Schemes disagree on the variable's vertical order and every function that
\* calls one of them calls one of each; no segment mixes them if the variable
\* is used outside too.
OrderSettled(c) ==
  /\ KeptUp(c)
  /\ \A phase \in ToSet(Phases) :
       LET users == {s \in Users(c) : phase \in c.has[s]}
       IN (\E s \in users : c.args[s].top) => \E s \in users : ~c.args[s].top
  /\ \A n \in ToSet(Leaves(Lowered(c))) :
       n.t = "segment" /\ {u.top : u \in ToSet(SegmentUses(c, n))} = BOOLEAN =>
         Users(c) = SchemesIn(n)

\* A call inside a loop over the levels is not converted on its own.
LevelsAgree(c) ==
  (\E s \in Users(c) : c.args[s].promoted) =>
    \A s, t \in Users(c) : Signature(c.args[s]) = Signature(c.args[t])

\* A variable of the suite's own is never converted.
OwnUnitsAgree(c) ==
  c.supplied \/ \A s, t \in Users(c) : c.args[s].other = c.args[t].other

\* Each scheme that reads the variable gets the newest value, in its own
\* units and order, through whatever chain of temporaries of the suite's and
\* of the package's function it comes.
ReadsInOwnTerms ==
  Doing("call") /\ Touches(Now.name, Now.from) /\ LevelsAgree(case) /\ OwnUnitsAgree(case) =>
    LET arg == case.args[Now.name]
        got == place[Now.from]
    IN Reads(arg) => /\ got.version = newest
                     /\ got.other = arg.other
                     /\ OrderSettled(case) => got.up = ~arg.top

\* An all-output argument in other units starts from nothing, and is written
\* back whether the scheme has been called or not.
KeptOnFailure(c) == \A s \in Users(c) : ~(c.args[s].intent = "out" /\ c.args[s].other)

\* When a function returns, the host finds the newest value in its variable,
\* in its own units, order and kind; after an error it finds some value of
\* before.
HostKeepsValid ==
  PhaseEnded /\ case.supplied /\ ~case.absent /\ LevelsAgree(case) =>
    LET x == place[<<"x">>]
    IN /\ flag = 0 => x.version = newest /\ ~x.other /\ x.exact
       /\ flag = 1 /\ KeptOnFailure(case) => x.version >= 0 /\ ~x.other
       /\ OrderSettled(case) /\ (flag = 0 \/ KeptOnFailure(case)) => x.up

\* The second conversion of a chain does not know that its source is optional.
OneConversion(c) ==
  c.absent => \A s \in Users(c) : ~(c.args[s].narrow /\ c.args[s].other)

\* No temporary is used that has not been allocated, and no absent argument
\* is read: every chain of conversions is gated as a whole.
NoFault == OneConversion(case) => ~fault

=============================================================================

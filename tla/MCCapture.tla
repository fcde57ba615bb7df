----------------------------- MODULE MCCapture ------------------------------
(***************************************************************************)
(* Runs of a scheme S of three phases beside a scheme O that sets v.        *)
(***************************************************************************)
EXTENDS Capture

MCSuiteOrder ==
  <<<<"O", "initialize">>, <<"S", "run">>, <<"O", "timestep_initial">>,
    <<"S", "initialize">>, <<"S", "finalize">>>>

MCTables == ToSet(MCSuiteOrder) \cup {Registration}

SInit == <<"S", "initialize">>
SRun == <<"S", "run">>
SFinal == <<"S", "finalize">>
OInit == <<"O", "initialize">>
OStep == <<"O", "timestep_initial">>

One(t, x) == << <<t, x>> >>

Plain == <<One(Registration, "c1"), One(OInit, "1"), One(SInit, "1"), One(SRun, "1"),
           One(SRun, "2"), One(SFinal, "1")>>
Short == Tail(Plain)
Unfinished == Front(Short)
TwoLives == <<One(OInit, "1"), One(SInit, "1"), One(SRun, "1"), One(SFinal, "1"),
              One(OInit, "2"), One(SInit, "2"), One(SRun, "1")>>
SideBySide == <<One(SInit, "1"), << <<SRun, "1">>, <<SRun, "2">> >> >>
Failing == <<One(SInit, "1"), One(SRun, "2"), One(SFinal, "bad")>>
FailingEarly == <<One(SInit, "1"), One(SRun, "bad"), One(SRun, "2"), One(SFinal, "1")>>
Stepping == <<One(SInit, "1"), One(OStep, "1"), One(SRun, "1"), One(OStep, "2"), One(SRun, "2"),
              One(SFinal, "1")>>
Again == <<One(Registration, "c1"), One(Registration, "c2"), One(SInit, "1"), One(SRun, "1"),
           One(SFinal, "1")>>
CalledOnce == <<One(SInit, "1"), One(SRun, "1"), One(SFinal, "1")>>

-----------------------------------------------------------------------------
(* Sources.                                                                *)

Use(m, names) == [module |-> m, all |-> FALSE, names |-> names]
UseWhole(m, renames) == [module |-> m, all |-> TRUE, names |-> renames]

Scope(name, module, uses) ==
  [name |-> name, module |-> module, uses |-> uses, includes |-> {}, calls |-> {}, declared |-> {},
   variables |-> {}, passes |-> {}, assigns |-> {}, takes |-> {}, fills |-> {}, generics |-> {},
   components |-> {}, bodies |-> {}]
HeadOf(module, uses) == Scope("", module, uses)
SourceFile(scopes) == [root |-> 1, scopes |-> scopes]

StateFile == SourceFile({[HeadOf("state", {}) EXCEPT !.variables = {"v"}]})

\* Procedures that take and set what they call v.
Acts(scope, local, takes, sets) ==
  [scope EXCEPT !.takes = IF takes THEN {local} ELSE {}, !.assigns = IF sets THEN {local} ELSE {}]

Tables_ == ToSet(MCSuiteOrder)
Seeing == {Use("state", {<<"v", "v">>})}
SchemeFile(s, headUses, procedures) == SourceFile({HeadOf(s, headUses)} \cup procedures)
Plain_(t, reads, sets) ==
  Acts(Scope(EntryPoint(t), t[1], IF t \in reads \cup sets THEN Seeing ELSE {}), "v", t \in reads, t \in sets)
Plainly(s, but, reads, sets) ==
  {Plain_(t, reads, sets) : t \in {u \in Tables_ : u[1] = s} \ but}

PathOf == ("S" :> "s") @@ ("O" :> "o")
PlainFiles(reads, sets) ==
  [p \in {"s"} |-> SchemeFile("S", {}, Plainly("S", {}, reads, sets))] @@
  [p \in {"o"} |-> SchemeFile("O", {}, Plainly("O", {}, reads, sets))] @@
  ("state" :> StateFile)

\* A file's text: of a module its head, with types, generic interfaces and
\* interface bodies, and its procedures.
Line(kind, name, mentions) == [kind |-> kind, name |-> name, mentions |-> mentions]
InTurn(items, line(_)) == [i \in DOMAIN items |-> line(items[i])]
Lines(items, line(_)) == InTurn(SetToSeq(items), line)
Named(kind, name, names) == Line(kind, name, {name} \cup names) @@ [names |-> names]
UseLine(u) ==
  Line("use", u.module, {p[1] : p \in u.names} \cup {p[2] : p \in u.names}) @@ [use |-> u]
Opening(s) ==
  Lines(s.uses, UseLine) \o Lines(s.includes, LAMBDA i : Line("include", i, {}))
    \o <<Named("declare", "", s.declared \cup s.variables)>>

GenericText(g) ==
  <<Line("interface", g.name, {}), Named("module procedure", "", g.procedures), Line("end interface", "", {})>>
BodyText(module) ==
  <<Line("interface", "", {}), Line("procedure", "outside", {}), UseLine(UseWhole(module, {})),
    Line("end procedure", "", {}), Line("end interface", "", {})>>
HeadText(s) ==
  <<Line("module", s.module, {})>> \o Opening(s)
    \o <<Line("type", "t", {}), Named("declare", "", s.components), Line("end type", "", {})>>
    \o FlattenSeq(Lines(s.generics, GenericText)) \o FlattenSeq(Lines(s.bodies, BodyText))
ProcedureText(s) ==
  <<Line("procedure", s.name, {s.name})>> \o Opening(s)
    \o <<Line("other", "", s.takes)>> \o Lines(s.assigns, LAMBDA a : Line("assign", a, {a}))
    \o Lines(s.calls, LAMBDA f : Named("call", f, s.passes)) \o <<Line("end procedure", s.name, {s.name})>>

ModuleText(scopes, h) ==
  HeadText(h) \o FlattenSeq(Lines({s \in scopes : s.module = h.module /\ s.name # ""}, ProcedureText))
    \o <<Line("end module", h.module, {})>>
Written(file) ==
  file @@ [text |-> FlattenSeq(Lines({s \in file.scopes : s.name = ""}, LAMBDA h : ModuleText(file.scopes, h)))]

Suite(files) ==
  [files |-> Evaluated([p \in DOMAIN files |-> Written(files[p])]), roots |-> 1, listed |-> {}, variants |-> {},
   built |-> DOMAIN files, own |-> PathOf, needs |-> ("S" :> {}) @@ ("O" :> {})]
PlainSuite(reads, sets) == Suite(PlainFiles(reads, sets))
Settings == <<{OInit}, {SInit}, {OInit, SFinal}, {OStep}>>
PlainSuites == [n \in {"plain"} \X (DOMAIN Settings) \X {""} |-> PlainSuite({SRun}, Settings[n[2]])]

\* Ways a procedure comes to see v: [head, body, local].
Api == ("api" :> SourceFile({HeadOf("api", Seeing)}))
Sights ==
  <<[head |-> Seeing, body |-> {}, local |-> "v"],
    [head |-> {}, body |-> Seeing, local |-> "v"],
    [head |-> {UseWhole("state", {})}, body |-> {}, local |-> "v"],
    [head |-> {Use("state", {<<"w", "v">>})}, body |-> {}, local |-> "w"],
    [head |-> {}, body |-> {UseWhole("state", {<<"w", "v">>})}, local |-> "w"],
    [head |-> {UseWhole("state", {<<"w", "v">>})}, body |-> {}, local |-> "w"],
    [head |-> {Use("api", {<<"v", "v">>})}, body |-> {}, local |-> "v"],
    [head |-> {UseWhole("api", {})}, body |-> {}, local |-> "v"]>>

\* Ways a table t of scheme s takes or sets it: itself, by passing it, or
\* through a helper of another module, called by its name, by another, or as
\* a function.
Ways == {"itself", "passes", "calls", "renames", "renames whole", "refers", "generic"}
Deed(scope, sight, deed) ==
  Acts([scope EXCEPT !.uses = sight.body], sight.local, deed = "take", deed = "set")
Passing(scope, sight, deed) ==
  [scope EXCEPT !.uses = sight.body, !.calls = {"fill"}, !.passes = {sight.local},
                !.takes = IF deed = "take" THEN {sight.local} ELSE {},
                !.fills = IF deed = "set" THEN {sight.local} ELSE {}]
Helper(sight, deed) ==
  SourceFile({[HeadOf("help", sight.head) EXCEPT !.generics = {[name |-> "fill_it", procedures |-> {"helper"}]}],
              Deed(Scope("helper", "help", {}), sight, deed)})

By(t, sight, way, deed, reads, sets) ==
  LET entry == Scope(EntryPoint(t), t[1], {})
      file(head, procedure) ==
        PathOf[t[1]] :> SchemeFile(t[1], head, {procedure} \cup Plainly(t[1], {t}, reads, sets))
      helped(use, name) ==
        file({use}, [entry EXCEPT !.calls = {name}]) @@ ("help" :> Helper(sight, deed))
  IN  CASE way = "itself" -> file(sight.head, Deed(entry, sight, deed))
        [] way = "passes" -> file(sight.head, Passing(entry, sight, deed))
        [] way = "calls" -> helped(Use("help", {<<"helper", "helper">>}), "helper")
        [] way = "renames" -> helped(Use("help", {<<"h", "helper">>}), "h")
        [] way = "renames whole" -> helped(UseWhole("help", {<<"h", "helper">>}), "h")
        [] way = "generic" -> helped(Use("help", {<<"fill_it", "fill_it">>}), "fill_it")
        [] way = "refers" ->
             file({UseWhole("help", {})}, [entry EXCEPT !.takes = {"helper"}]) @@ ("help" :> Helper(sight, deed))

\* A setter of another scheme; a reader; a phase of the scheme that sets v
\* beside another that does, and alone.
Seen(role, sight, way) ==
  CASE role = "setter" -> By(OInit, sight, way, "set", {SRun}, {}) @@ PlainFiles({SRun}, {})
    [] role = "reader" -> By(SRun, sight, way, "take", {}, {}) @@ PlainFiles({}, {OInit})
    [] role = "own, too" -> By(SInit, sight, way, "set", {SRun}, {}) @@ PlainFiles({SRun}, {OInit})
    [] role = "own" -> By(SInit, sight, way, "set", {SRun}, {}) @@ PlainFiles({SRun}, {})

SeeingSuites ==
  [n \in {"setter", "reader", "own, too", "own"} \X (DOMAIN Sights) \X Ways |->
     Suite(Seen(n[1], Sights[n[2]], n[3]) @@ Api)]

\* Sources beside those of the build: copies of the helper that sets v, in the
\* scheme's tree or another, listed or a pair of versions; none; and MPI.
Sight == [head |-> Seeing, body |-> {}, local |-> "v"]
Helped == By(OInit, Sight, "calls", "set", {SRun}, {}) @@ PlainFiles({SRun}, {})
Copy(root) == ("copy" :> [SourceFile({HeadOf("help", {}), Scope("helper", "help", {})}) EXCEPT !.root = root])
Copied(root, listed, variants, unbuilt) ==
  [Suite(Helped @@ Copy(root)) EXCEPT !.roots = root, !.listed = listed, !.variants = variants,
                                      !.built = @ \ unbuilt]
Elsewhere ==
  [Suite([Helped EXCEPT !["help"].root = 2]) EXCEPT !.roots = 2]
Without(files, p) == [q \in DOMAIN files \ {p} |-> files[q]]
Missing == Suite(Without(Helped, "help"))
MissingOwn == Suite(Without(By(SRun, Sight, "calls", "take", {}, {}) @@ PlainFiles({}, {OInit}), "help"))
Changed(files, p, change(_)) == [files EXCEPT ![p].scopes = {change(s) : s \in @}]
WithMpi(files, p) ==
  Changed(files, p, LAMBDA s : IF s.name = "" THEN s ELSE [s EXCEPT !.uses = @ \cup {UseWhole("mpi", {})}])
Busy == PlainFiles({SRun}, {OInit, SInit})
Reduces(t) ==
  Suite(Changed(Busy, PathOf[t[1]],
          LAMBDA s : IF s.name = EntryPoint(t) THEN [s EXCEPT !.uses = @ \cup {UseWhole("mpi", {})}] ELSE s))
Includes(t) ==
  Suite(Changed(Busy, PathOf[t[1]],
          LAMBDA s : IF s.name = EntryPoint(t) THEN [s EXCEPT !.includes = {"mpif.h"}] ELSE s))

\* A type with a component v, an interface body that uses a module.
Typed == Suite(Changed(Helped, "help", LAMBDA s : IF s.name = "" THEN [s EXCEPT !.components = {"v"}] ELSE s))
WithBody(module) ==
  Suite(Changed(Helped, "o", LAMBDA s : IF s.name = "" THEN [s EXCEPT !.bodies = {module}] ELSE s))

Beside ==
  <<Copied(1, {}, {}, {"copy"}), Copied(1, {"help"}, {}, {"copy"}), Copied(1, {"copy"}, {}, {"help"}),
    Copied(1, {}, {{"help", "copy"}}, {"copy"}), Copied(2, {}, {}, {"copy"}),
    Elsewhere, Missing, MissingOwn, Suite(WithMpi(Helped, "help")), Suite(WithMpi(Helped, "s")),
    Reduces(OInit), Reduces(SInit), Reduces(SRun), Includes(OInit), Includes(SRun),
    Typed, WithBody("state"), WithBody("nowhere"), WithBody("mpi")>>
SourceSuites == [n \in {"source"} \X (DOMAIN Beside) \X {""} |-> Beside[n[2]]]


-----------------------------------------------------------------------------
(* Cases.                                                                  *)

Case(plans, sets, args, arrays, scripts) ==
  [plan |-> plans[<<"plain", CHOOSE i \in DOMAIN Settings : Settings[i] = sets, "">>],
   args |-> args, arrays |-> arrays, scripts |-> scripts]

All == ToSet(MCSuiteOrder)

PlainCases(plans) ==
  UNION {{Case(plans, {OInit}, {OInit, SRun, SFinal}, a, {Plain, Short, TwoLives}),
          Case(plans, {OInit}, {SRun, SFinal}, a, {Short, Unfinished}),
          Case(plans, {SInit}, {SInit, SRun}, a, {SideBySide, Again}),
          Case(plans, {SInit}, {SRun, SFinal}, a, {Failing, FailingEarly}),
          Case(plans, {OInit, SFinal}, All, a, {Short}),
          Case(plans, {OStep}, {SRun}, a, {Stepping, Again}),
          Case(plans, {SInit}, {SRun, SFinal}, a, {CalledOnce})} : a \in BOOLEAN}

OneEach == <<One(OInit, "1"), One(SInit, "1"), One(SRun, "1"), One(SFinal, "1")>>
CasesOf(plans) ==
  PlainCases(plans)
    \cup {[plan |-> p, args |-> {SRun}, arrays |-> FALSE, scripts |-> {OneEach}] :
         p \in {plans[n] : n \in DOMAIN plans}}

MCCases == CasesOf(PlansOf(PlainSuites @@ SeeingSuites @@ SourceSuites))
=============================================================================

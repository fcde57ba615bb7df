----------------------------- MODULE MCRouting ------------------------------
(***************************************************************************)
(* Two standard names, a and b, which the host may declare as x and y, two  *)
(* or three schemes, one or two groups, one or two suites.                 *)
(***************************************************************************)
EXTENDS Routing

PhasesDef == <<"register", "init", "run">>
FlatPhasesDef == {"register"}
Intents == {"in", "out", "inout"}
Arg(std, name, intent, adv) == [std |-> std, name |-> name, intent |-> intent, adv |-> adv]
Singles(std, adv) == {<<Arg(std, name, i, adv)>> : name \in {"x", "y"}, i \in Intents}
Doubles == {<<Arg("a", "x", i, FALSE), Arg("b", "y", j, FALSE)>> : i \in Intents, j \in Intents}
Ones == Singles("a", FALSE) \cup Singles("b", FALSE)
Tables == Ones \cup Doubles
Advected == Singles("a", TRUE)

AnyHost == [{"a", "b"} -> {NoVariable, "module", "table", "ddt", "control"}]
SomeHost == [{"a", "b"} -> {NoVariable, "module", "table"}]
FewHosts == [{"a", "b"} -> {NoVariable, "table"}]
NoHost == [{"a", "b"} -> {NoVariable}]

Case(args, suites, array, host) ==
  [args |-> args, suites |-> suites, array |-> array, dynamic |-> {}, host |-> host,
   called |-> [a |-> "x", b |-> "y"], capgen |-> FALSE]

OneGroup == <<<<<<"s", "t">>>>>>
TwoGroups == <<<<<<"s">>, <<"t">>>>>>
TwoSuites == <<<<<<"s">>>>, <<<<"t">>>>>>

Calling(p, s, q, t, suites, array, host) ==
  Case((<<"s", p>> :> s) @@ (<<"t", q>> :> t), suites, array, host)
Running(s, t, suites, array, host) == Calling("run", s, "run", t, suites, array, host)

(* Two scalars: both schemes in one group, in two, or one in each phase.   *)
InOneGroup == {Running(s, t, OneGroup, {}, h) : s \in Tables, t \in Tables, h \in AnyHost}
InTwoGroups == {Running(s, t, TwoGroups, {}, h) : s \in Tables, t \in Tables, h \in AnyHost}
InTwoPhases ==
  {Calling("init", s, "run", t, OneGroup, {}, h) : s \in Tables, t \in Tables, h \in AnyHost}
(* a is an array.                                                          *)
Arrays == {Running(s, t, TwoGroups, {"a"}, h) : s \in Tables, t \in Tables, h \in SomeHost}
(* a is a constituent for one scheme at least.                             *)
Constituent ==
  {Running(s, t, <<<<<<"t", "s">>>>>>, {"a"}, h) :
     s \in Advected, t \in Tables \cup Advected, h \in SomeHost}
ConstituentFirst ==
  {Running(s, t, TwoGroups, {"a"}, h) :
     s \in Advected, t \in Tables \cup Advected, h \in SomeHost}
(* Three entry points: one group of two schemes and one of a third, and two *)
(* groups the first of which has an initialization.                        *)
Three ==
  {Case((<<"s", "run">> :> s) @@ (<<"t", "run">> :> t) @@ (<<"u", "run">> :> u),
        <<<<<<"s", "t">>, <<"u">>>>>>, {}, h) : s \in Ones, t \in Ones, u \in Ones, h \in FewHosts}
ThreeWithInit ==
  {Case((<<"s", "init">> :> s) @@ (<<"s", "run">> :> t) @@ (<<"t", "run">> :> u),
        TwoGroups, {}, h) : s \in Ones, t \in Ones, u \in Ones, h \in FewHosts}

(* Registration: by two suites, by two groups of one, and before a run.    *)
Registering(s, t, suites, array, host) ==
  Calling("register", s, "register", t, suites, array, host)
TwoRegister == {Registering(s, t, TwoSuites, {}, h) : s \in Tables, t \in Tables, h \in AnyHost}
GroupsRegister ==
  {Registering(s, t, TwoGroups, arrays, h) :
     s \in Ones, t \in Tables, arrays \in {{}, {"a"}}, h \in SomeHost}
ArraysRegister ==
  {Registering(s, t, TwoSuites, {"a"}, h) : s \in Ones, t \in Tables, h \in SomeHost}
RegisterThenRun ==
  {Calling("register", s, "run", t, OneGroup, arrays, h) :
     s \in Ones, t \in Tables, arrays \in {{}, {"a"}}, h \in SomeHost}
(* Schemes that register constituents themselves.                          *)
Registered ==
  {[Registering(s, t, suites, {}, h) EXCEPT !.dynamic = d] :
     s \in Ones, t \in Tables, suites \in {OneGroup, TwoSuites}, h \in NoHost,
     d \in {{"a"}, {"a", "b"}}}
(* Two suites run over the same host variables.                            *)
TwoRun == {Running(s, t, TwoSuites, {}, h) : s \in Tables, t \in Ones, h \in SomeHost}
(* Under original capgen's API.                                            *)
Capgen ==
  {[Calling(p, s, "run", t, OneGroup, {}, h) EXCEPT !.capgen = TRUE] :
     p \in {"register", "run"}, s \in Ones, t \in Ones, h \in SomeHost}

(* Schemes only read the variables of the host's control tables.           *)
ControlIsRead(c) ==
  \A e \in DOMAIN c.args : \A a \in Range(c.args[e]) :
    c.host[a.std] = "control" => a.intent = "in"

FamiliesDef ==
  {{c \in family : ControlIsRead(c)} :
     family \in {InOneGroup, InTwoGroups, InTwoPhases, Arrays, Constituent, ConstituentFirst,
                 Three, ThreeWithInit, TwoRegister, GroupsRegister, ArraysRegister,
                 RegisterThenRun, Registered, TwoRun, Capgen}}
=============================================================================

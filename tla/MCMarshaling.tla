---------------------------- MODULE MCMarshaling ----------------------------
(***************************************************************************)
(* Suites of one to three schemes: the shapes of a suite with a package,    *)
(* without a variable; then schemes that use the variable, in a flat suite, *)
(* in a loop over the levels, with a package around one or both, in two     *)
(* phases.                                                                 *)
(***************************************************************************)
EXTENDS Marshaling

Suite(tree, has, args, supplied, absent) ==
  [tree |-> tree, has |-> has, args |-> args, supplied |-> supplied, absent |-> absent]

a == Scheme("a")
b == Scheme("b")
d == Scheme("d")

-----------------------------------------------------------------------------
Shapes ==
  {<<a, b, d>>,
   <<Entry("e", <<a, b>>), d>>,
   <<Entry("e", <<a>>), Entry("f", <<b>>), d>>,
   <<Entry("e", <<a>>), b, Entry("e", <<d>>)>>,
   <<Entry("e", <<a, Hook(<<b>>), d>>)>>,
   <<Loop(2, <<a, Entry("e", <<b>>)>>), d>>,
   <<a, Loop(2, <<Entry("e", <<b, d>>)>>)>>,
   <<Entry("e", <<a>>), Loop(2, <<Entry("f", <<b>>)>>), d>>,
   <<Entry("e", <<Loop(2, <<a, b>>), d>>)>>,
   <<Entry("e", <<a, Loop(2, <<b, Hook(<<d>>)>>)>>)>>,
   <<Loop(2, <<Entry("e", <<a>>), Entry("f", <<b>>)>>), Entry("e", <<d>>)>>,
   <<Loop(2, <<Loop(2, <<Entry("e", <<a>>), b>>)>>), d>>}

PhaseSets == {{"run"}, {"init", "run"}, {"init"}, {"run", "final"}, {"run", "finalize"}}

Structures ==
  {Suite(tree, has, [s \in {"a", "b", "d"} |-> NoArg], FALSE, FALSE) :
     tree \in Shapes, has \in [{"a", "b", "d"} -> PhaseSets]}

-----------------------------------------------------------------------------
Args(intents, narrow, optional, promoted) ==
  [intent : intents, narrow : narrow, other : BOOLEAN, top : BOOLEAN,
   optional : optional, promoted : promoted]
AllIntents == {"in", "out", "inout"}
Plain == Args(AllIntents, BOOLEAN, {FALSE}, {FALSE})
Wide == Args(AllIntents, {FALSE}, {FALSE}, {FALSE})

Pair(tree, x, y, supplied, absent) ==
  Suite(tree, [s \in {"a", "b"} |-> {"run"}], ("a" :> x) @@ ("b" :> y), supplied, absent)

Flat == <<a, b>>
Packaged ==
  {<<Entry("e", <<a>>), b>>,
   <<a, Entry("e", <<b>>)>>,
   <<Entry("e", <<a, b>>)>>,
   <<Entry("e", <<a, Hook(<<b>>)>>)>>}

Conversions == {Pair(Flat, x, y, TRUE, FALSE) : x \in Plain, y \in Plain}

Owned == {Pair(Flat, x, y, FALSE, FALSE) : x \in {w \in Wide : w.intent = "out"}, y \in Wide}

Optionals ==
  {Pair(Flat, x, y, TRUE, absent) :
     x \in Args(AllIntents, BOOLEAN, {TRUE}, {FALSE}),
     y \in Args({"inout"}, BOOLEAN, {TRUE}, {FALSE}), absent \in BOOLEAN}

LevelLoops ==
  {Pair(<<Loop(1, <<a, b>>)>>, x, y, TRUE, FALSE) :
     x \in Args(AllIntents, {FALSE}, {FALSE}, {TRUE}),
     y \in Args({"in", "inout"}, {FALSE}, {FALSE}, BOOLEAN)}

Packages ==
  {Pair(tree, x, y, TRUE, FALSE) : tree \in Packaged, x \in Wide, y \in Wide}
  \cup
  {Pair(tree, x, y, FALSE, FALSE) :
     tree \in Packaged, x \in {w \in Wide : w.intent = "out"}, y \in Wide}

Phased ==
  {Suite(Flat, ("a" :> {"init"}) @@ ("b" :> {"run"}), ("a" :> x) @@ ("b" :> y), TRUE, FALSE) :
     x \in Args({"inout"}, BOOLEAN, {FALSE}, {FALSE}), y \in Args({"inout"}, BOOLEAN, {FALSE}, {FALSE})}

Around ==
  {Suite(<<Entry("e", <<a, b>>), d>>, [s \in {"a", "b", "d"} |-> {"run"}],
         args, TRUE, FALSE) :
     args \in [{"a", "b", "d"} -> Args({"inout"}, {FALSE}, {FALSE}, {FALSE})]}

MCCases ==
  {Compiled(c) : c \in {x \in UNION {Structures, Conversions, Owned, Optionals, LevelLoops, Packages, Phased, Around} :
                          Generated(x)}}
=============================================================================

----------------------------- MODULE MCInterop ------------------------------
(***************************************************************************)
(* A scheme s with an initialization and a scheme t that runs, on arrays,   *)
(* a derived type or a string.                                             *)
(***************************************************************************)
EXTENDS Interop

PhasesDef == <<"init", "timestep_init", "run">>

Names_ == {"H", "V", "VI", "N", "a", "b", "d", "t"}
Local == [H |-> "ncol", V |-> "nz", VI |-> "nzi", N |-> "nsp", a |-> "x", b |-> "y", d |-> "st", t |-> "str"]
HostNames == [H |-> "cols", V |-> "lev", VI |-> "ilev", N |-> "species", a |-> "xh", b |-> "yh",
              d |-> "state", t |-> "label"]
Arg(std, intent) == [std |-> std, name |-> Local[std], intent |-> intent, adv |-> FALSE]
In(stds) == SetToSeq({Arg(std, "in") : std \in stds})

Member(path, std, type, dims) == [path |-> path, std |-> std, type |-> type, dims |-> dims]
Members_ == <<Member(<<"n">>, "V", "int", <<>>), Member(<<"t">>, "m1", "real", <<"H", "V">>)>>

Case(files, args, groups, dims, members, hosted) ==
  [args |-> args, groups |-> groups, files |-> files,
   array |-> {std \in Names_ : dims[std] # <<>>},
   type |-> [std \in Names_ |-> CASE std \in {"a", "b"} -> "real"
                                  [] std = "d" -> "ddt"
                                  [] std = "t" -> "char"
                                  [] OTHER -> "int"],
   dims |-> dims, members |-> members,
   host |-> [std \in Names_ |-> IF std \in hosted THEN "module" ELSE NoVariable],
   called |-> HostNames, dynamic |-> {}]

Entry == [init |-> <<"s", "init">>, step |-> <<"s", "timestep_init">>, run |-> <<"t", "run">>]
Scalars == [std \in Names_ |-> <<>>]
Intents == {"in", "out", "inout"}
OneGroup == <<<<"s", "t">>>>

ArraysIn(i, j, k, sizes, da, db, hosted) ==
  Case(<<Entry.init, Entry.run>>,
       (Entry.init :> (In(sizes) \o <<Arg("a", i)>>)) @@
       (Entry.run :> <<Arg("a", j), Arg("b", k)>>),
       OneGroup, [Scalars EXCEPT !["a"] = da, !["b"] = db], <<>>, hosted)

Arrays ==
  {ArraysIn("inout", j, "in", sizes, da, db, hosted) :
     sizes \in SUBSET {"H", "V", "VI"}, j \in Intents,
     da \in {<<"H">>, <<"H", "V">>, <<"H", "VI">>, <<"V">>}, db \in {<<>>, <<"H", "V">>},
     hosted \in {{"H", "V", "VI", "a", "b"}}}

(* Scalars written, by one scheme or two.                                  *)
Written ==
  {Case(<<Entry.init, Entry.run>>,
        (Entry.init :> <<Arg(std, i), Arg("a", "inout")>>) @@ (Entry.run :> <<Arg("a", "in"), Arg(std, j)>>),
        groups, [Scalars EXCEPT !["a"] = <<"H">>], <<>>, {"H", "V", "VI", "a"} \cup hosted) :
     hosted \in {{}, {"b", "N", "t"}}, i \in Intents, j \in Intents, std \in {"b", "N", "V", "t"}, groups \in {OneGroup}}


(* A derived type with its arrays and sizes, in the three phases.          *)
Compositions ==
  LET n == Member(<<"n">>, "V", "int", <<>>)
      t == Member(<<"t">>, "m1", "real", <<"H", "V">>)
      in(m) == [m EXCEPT !.path = <<"sub">> \o m.path]
  IN  {<<n, t>>,
       <<Member(<<"c">>, "H", "int", <<>>), Member(<<"msg">>, "m2", "char", <<>>), Member(<<"r">>, "m3", "real", <<>>),
         Member(<<"s">>, "m4", "real", <<"H">>)>>,
       <<n, in(t)>>, <<in(n), in(t)>>,
       <<n, Member(<<"i">>, "VI", "int", <<>>), t>>,
       <<n, t, Member(<<"i">>, "VI", "int", <<>>)>>,
       <<Member(<<"k">>, "N", "int", <<>>), Member(<<"q">>, "m5", "real", <<"H", "N">>)>>,
       <<Member(<<"q">>, "m5", "real", <<"H", "N">>)>>,
       <<n, Member(<<"p">>, "m6", "real", <<"V">>)>>,
       <<n, t, Member(<<"ok">>, "m7", "logical", <<>>)>>}

DdtCase(i, k, j, members, names) ==
  LET arg(name, intent) == [Arg("d", intent) EXCEPT !.name = name]
      only(name, intent) == IF intent = "none" THEN <<>> ELSE <<arg(name, intent)>>
  IN  Case(<<Entry.init, Entry.step, Entry.run>>,
           (Entry.init :> only("st", i)) @@ (Entry.step :> only("st", k)) @@ (Entry.run :> only(names, j)),
           OneGroup, Scalars, members, {"H", "V", "VI", "d"})
Ddt ==
  {DdtCase(i, k, j, members, name) :
     i \in Intents, j \in Intents, k \in {"none", "in", "out", "inout"}, members \in Compositions, name \in {"st"}}

Two(order, groups) ==
  {Case(order,
      (<<"s", "run">> :> <<Arg("d", i)>>) @@ (<<"t", "run">> :> <<Arg("d", j)>>),
      groups, Scalars, Members_, {"H", "V", "VI", "d"}) : i \in Intents, j \in Intents}

(* Schemes of one group or two that differ in what they take.              *)
Apart ==
  {Case(<<<<"s", "run">>, <<"t", "run">>>>,
        (<<"s", "run">> :> <<Arg(x, i)>>) @@ (<<"t", "run">> :> <<Arg(y, j)>>),
        groups, [Scalars EXCEPT !["a"] = <<"H">>, !["b"] = db], Members_, {"H", "V", "VI", "a", "b", "d"}) :
     x \in {"a", "b", "d"}, y \in {"a", "b", "d"}, i \in Intents, j \in Intents,
     groups \in {OneGroup, <<<<"s">>, <<"t">>>>}, db \in {<<>>, <<"H">>}}

(* Arrays under the names of the schemes' arguments.                       *)
Named(std, adv, hosted) ==
  LET arg(name, intent) == [std |-> std, name |-> name, intent |-> intent, adv |-> adv]
  IN {Case(<<Entry.init, Entry.run>>,
           (Entry.init :> <<arg("x", i)>>) @@ (Entry.run :> <<arg(name, j), [Arg("b", "in") EXCEPT !.name = other]>>),
           OneGroup, [Scalars EXCEPT !["a"] = <<"H">>, !["b"] = db], Members_, {"H", "V", "VI", "b"} \cup hosted) :
        i \in Intents, j \in Intents, name \in {"x", "yh", "y"}, other \in {"x", "y"}, db \in {<<>>, <<"H">>}}

Third ==
  {Case(<<Entry.init, Entry.run>>,
        (Entry.init :> In(sizes) \o <<Arg("a", i)>>) @@ (Entry.run :> <<Arg("a", j)>> \o In(others)),
        OneGroup, [Scalars EXCEPT !["a"] = <<"H", "V", "N">>], <<>>, {"H", "V", "a"} \cup hosted) :
     sizes \in SUBSET {"N", "V"}, others \in SUBSET {"N", "V"}, i \in Intents, j \in Intents,
     hosted \in SUBSET {"N"}}

Orders == {<<<<"s", "run">>, <<"t", "run">>>>, <<<<"t", "run">>, <<"s", "run">>>>}
FamiliesDef ==
  {Arrays, Written, Ddt, Third, Apart,
   Named("a", TRUE, {}), Named("a", FALSE, {}), Named("a", FALSE, {"a"}), Named("d", FALSE, {"d"})}
  \cup {Two(order, OneGroup) : order \in Orders}
=============================================================================

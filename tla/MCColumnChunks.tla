--------------------------- MODULE MCColumnChunks ---------------------------
(* Arrays of one or two dimensions, wherever they live, and two schemes     *)
(* that use them: each takes its extents as scalars or from the array, and  *)
(* the host has the extents in modules or passes them.                      *)
EXTENDS ColumnChunks

MCChunkings == {{<<1, 3>>}, {<<1, 2>>, <<3, 3>>}}

Horizontals == {<<>>, <<"hd">>, <<"le">>}
Verticals == {<<>>, <<"lay">>, <<"int">>, <<"int", "lay">>}

SchemesIn(phase, dims, scalars, intent) ==
  {[phase |-> phase, dims |-> d, scalars |-> n, intent |-> i] :
     d \in dims, n \in scalars, i \in intent}

Scalars(dims) == {h \o v : h \in Horizontals, v \in IF Len(dims) = 1 THEN {<<>>} ELSE Verticals}

Shapes == {<<"hd">>, <<"hd", "lay">>, <<"hd", "int">>}
ModuleSets == {{}, {"hd"}, {"lay"}, {"hd", "lay"}, {"hd", "int"}, {"hd", "lay", "int"}}

CasesOf(home, dims, modules, passes, first, second) ==
  {[home |-> home, dims |-> dims, modules |-> modules, passes |-> passes, schemes |-> <<a, b>>] :
     a \in first, b \in second}

(* The schemes of a host's array may know no levels, or others.             *)
SchemeDims(home, dims) ==
  IF home # "host" THEN {dims}
  ELSE {dims, <<dims[1]>>} \cup IF Len(dims) = 1 THEN {} ELSE {<<dims[1], v>> : v \in {"lay", "int"}}

MCCases ==
  {c \in UNION {CasesOf(home, dims, modules, passes,
               SchemesIn(phase, SchemeDims(home, dims), Scalars(dims), {"out"}),
               SchemesIn("run", SchemeDims(home, dims), {<<>>, <<"hd">>, <<"le">>, <<"le", "lay">>}, {"inout"})) :
           home \in {"host", "cap", "suite"}, dims \in Shapes, modules \in ModuleSets,
           passes \in BOOLEAN, phase \in {"timestep_init", "run"}} :
     /\ c.home = "cap" => c.dims = <<"hd", "lay">>
     /\ \A i \in DOMAIN c.schemes : DimsMatch(c, c.schemes[i])}
=============================================================================

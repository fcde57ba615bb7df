--------------------------- MODULE MCConstituents ---------------------------
(***************************************************************************)
(* Four names in two instances.  a and b share a bucket, q has the last    *)
(* one of the larger tables; b is not advected, and c may be given in two  *)
(* versions that do not match, or off the layers.                          *)
(***************************************************************************)
EXTENDS Constituents

MCNames == {"a", "b", "c", "q"}
MCHash == [n \in MCNames |->
             CASE n = "a" -> 5 [] n = "b" -> 69 [] n = "c" -> 8 [] n = "q" -> 31]

C(n, adv, units, layer) == [name |-> n, adv |-> adv, units |-> units, layer |-> layer]
a == C("a", TRUE, "kg", TRUE)
b == C("b", FALSE, "kg", TRUE)
c == C("c", TRUE, "kg", TRUE)
c1 == C("c", TRUE, "1", TRUE)
cIface == C("c", TRUE, "kg", FALSE)
q == C("q", TRUE, "kg", TRUE)

MCConstituent == {a, b, c, c1, cIface, q}
MCHost == {<<b, a>>, <<c1>>}
MCDyn == {<<c, b>>, <<cIface>>}
MCFixed == <<q>>
MCViews == <<"q", "c">>
=============================================================================

--------------------------- MODULE ConstituentMap ---------------------------
(***************************************************************************)
(* What the constituents of an instance promise to host and schemes: a     *)
(* registered instance has a map from names to the indices 1..n, advected  *)
(* constituents first, and while its data is in use the map stays as it    *)
(* is.  Tearing down, or a new registration, takes map and data away.      *)
(***************************************************************************)
EXTENDS Naturals, FiniteSets

CONSTANTS Instances, Names

VARIABLES reg,    \* reg[i]: name -> [ind, adv], NoMap when there is none
          ready   \* ready[i]: constituent data may be used
vars == <<reg, ready>>

NoMap == [n \in {} |-> [ind |-> 0, adv |-> FALSE]]

Advected(f) == {n \in DOMAIN f : f[n].adv}

IsPacked(f) ==
  /\ f # NoMap /\ DOMAIN f \subseteq Names
  /\ {f[n].ind : n \in DOMAIN f} = 1 .. Cardinality(DOMAIN f)
  /\ {f[n].ind : n \in Advected(f)} = 1 .. Cardinality(Advected(f))

Others(i) == \A j \in Instances \ {i} : reg'[j] = reg[j] /\ ready'[j] = ready[j]

Init == /\ reg = [i \in Instances |-> NoMap]
        /\ ready = [i \in Instances |-> FALSE]

Register(i) ==
  /\ reg[i] = NoMap
  /\ IsPacked(reg'[i]) /\ ~ready'[i]
  /\ Others(i)

MakeReady(i) ==
  /\ reg[i] # NoMap /\ ~ready[i]
  /\ reg'[i] = reg[i] /\ ready'[i]
  /\ Others(i)

Drop(i) ==
  /\ reg'[i] = NoMap /\ ~ready'[i]
  /\ Others(i)

Next == \E i \in Instances : Register(i) \/ MakeReady(i) \/ Drop(i)
Spec == Init /\ [][Next]_vars
=============================================================================

---------------------------- MODULE MCCapgenHost ----------------------------
(* One thread, one instance, two groups; a scheme in every phase of a group *)
(* and a hook in each of the suite's own, any of which may fail.           *)
EXTENDS CapgenHost

CONSTANT t1

MCGroupOrder == <<"physics1", "physics2">>
MCLazy == [e \in Entries |-> {}]
MCSchemes ==
  [e \in Entries |-> IF e[1] = "suite_register" THEN <<>>
                     ELSE <<[reads |-> {}, writes |-> {}, allocs |-> {}]>>]
=============================================================================

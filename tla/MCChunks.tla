------------------------------ MODULE MCChunks ------------------------------
(* One instance, two groups, and a run phase divided into chunks that two  *)
(* threads share out.  One suite-owned array is allocated as the first     *)
(* group starts and another once the group has produced its size; what     *)
(* timestep_init writes, run reads, and what the run of one group writes,  *)
(* the run of the next reads.                                              *)
EXTENDS HostDriver

CONSTANTS t1, t2

MCGroupOrder == <<"physics1", "physics2">>

Call(r, w, a) == [reads |-> r, writes |-> w, allocs |-> a]

MCLazy == [e \in Entries |->
            IF e = <<"group_init", "physics1">> THEN {"tendency"} ELSE {}]
MCSchemes ==
  [e \in Entries |->
    CASE e = <<"group_init", "physics1">> -> <<Call({}, {}, {"profile"})>>
      [] e = <<"timestep_init", "physics1">> -> <<Call({}, {"profile"}, {})>>
      [] e = <<"run", "physics1">> -> <<Call({"profile"}, {"tendency"}, {})>>
      [] e = <<"run", "physics2">> -> <<Call({"tendency"}, {}, {})>>
      [] OTHER -> <<>>]

MCPlans == {PhaseMajor}

(* So HostDriverProofs applies to these plans.                             *)
ASSUME PlansAreOrderly == \A p \in MCPlans : Orderly(p)
ASSUME PlansWriteFirst == NumInstances = 1 /\ \A p \in MCPlans : WritesFirst(p)
=============================================================================

---------------------------- MODULE MCInstances ----------------------------
(* Model instances in a host that declares them: phase by phase, as in     *)
(* examples/instances, or with a thread for each instance.                 *)
EXTENDS HostDriver

CONSTANTS t1, t2

MCGroupOrder == <<"physics1", "physics2">>

Call(r, w) == [reads |-> r, writes |-> w, allocs |-> {}]

(* The suite-owned arrays are sized in the suite's initialize function.    *)
MCLazy == [e \in Entries |-> IF e[1] = "suite_initialize" THEN Owned ELSE {}]

(* What timestep_init writes, run reads.                                   *)
MCSchemes ==
  [e \in Entries |->
    CASE e[1] = "timestep_init" -> <<Call({}, Owned)>>
      [] e[1] = "run" -> <<Call(Owned, {})>>
      [] OTHER -> <<>>]

WarmPlans == {PhaseMajor, ThreadPerInstance, WrongSuite, WrongPart}
ColdPlans == {ThreadPerLife}
SerialPlans == {PhaseMajor}

(* So HostDriverProofs applies to these plans.                             *)
ASSUME PlansAreOrderly == \A p \in WarmPlans : Orderly(p)
=============================================================================

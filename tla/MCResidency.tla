----------------------------- MODULE MCResidency ----------------------------
(* Suites of two schemes, in one group or in two, that use one variable in  *)
(* at most three of their entry points.                                    *)
EXTENDS Residency

MCSchemes == {"A", "B"}
MCViewing == {"B"}
MCKeyworded == {"A"}
MCParts == {1, 2}

Entries == {<<"A", "initialize">>, <<"A", "timestep_initial">>, <<"A", "run">>, <<"A", "timestep_final">>,
            <<"B", "run">>, <<"B", "timestep_final">>, <<"B", "finalize">>}

Kinds == {[space |-> "host", intent |-> "in"], [space |-> "host", intent |-> "out"],
          [space |-> "device", intent |-> "out"], [space |-> "device", intent |-> "inout"],
          [space |-> "either", intent |-> "in"]}

UsesAt(es) == {[e \in Entries |-> IF e \in es THEN f[e] ELSE NoUse] : f \in [es -> Kinds]}

\* One or two entry points, or both run entry points and one more.
AllUses ==
  UNION {UsesAt({d, e}) : d, e \in Entries}
  \cup UNION {UsesAt({<<"A", "run">>, <<"B", "run">>, e}) : e \in Entries}

Order == <<<<"A", "initialize">>, <<"A", "timestep_initial">>, <<"A", "run">>, <<"B", "run">>,
           <<"A", "timestep_final">>, <<"B", "timestep_final">>, <<"B", "finalize">>>>

\* A suite-owned variable is written by the first scheme that uses it.
WrittenFirst(uses) ==
  LET i == CHOOSE i \in 1..7 : uses[Order[i]] # NoUse /\ \A j \in 1..(i - 1) : uses[Order[j]] = NoUse
  IN uses[Order[i]].intent = "out"

MCSuites ==
  {s \in [owner : {"host", "device", "managed", "suite", "constituents"},
          groups : {<<<<"A", "B">>>>, <<<<"A">>, <<"B">>>>},
          uses : AllUses, chunks : {1, 2}] :
     s.owner = "suite" => WrittenFirst(s.uses)}
=============================================================================

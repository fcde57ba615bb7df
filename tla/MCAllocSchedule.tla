-------------------------- MODULE MCAllocSchedule --------------------------
(* All suites of a few scheme calls around one array, whose dimension is a *)
(* suite-owned scalar, a host argument, a host module variable, or two     *)
(* suite-owned scalars.                                                    *)
EXTENDS AllocSchedule

MCGroupOrder == <<"g1", "g2">>
MCDims == {<<"d">>, <<"h">>, <<"m">>, <<"d", "d2">>}
=============================================================================

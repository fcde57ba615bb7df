----------------------------- MODULE Lifecycle -----------------------------
(***************************************************************************)
(* What a generated CCPP suite promises its host, seen from the model      *)
(* instances: each instance has a life of its own.  It is initialized,     *)
(* goes through whole time steps, and is finalized, whatever the other     *)
(* instances do meanwhile.  A time step ends only when every group of the  *)
(* suite has run over every block of columns.                              *)
(*                                                                         *)
(* HostDriver is shown to implement this specification.                    *)
(***************************************************************************)
CONSTANTS Instances, \* the model instances of the host
          Work       \* what one time step has to run: pairs <<group, block>>

VARIABLES life,      \* the state of each instance
          ran        \* the part of Work done in the current time step

vars == <<life, ran>>

Init == /\ life = [i \in Instances |-> "uninitialized"]
        /\ ran = [i \in Instances |-> {}]

Initialize(i) == /\ life[i] = "uninitialized"
                 /\ life' = [life EXCEPT ![i] = "initialized"]
                 /\ UNCHANGED ran

BeginStep(i) == /\ life[i] = "initialized"
                /\ life' = [life EXCEPT ![i] = "in_time_step"]
                /\ ran' = [ran EXCEPT ![i] = {}]

(* Work is done inside a time step, and no piece of it twice.              *)
RunPart(i, w) == /\ life[i] = "in_time_step"
                 /\ w # {} /\ w \cap ran[i] = {}
                 /\ ran' = [ran EXCEPT ![i] = @ \cup w]
                 /\ UNCHANGED life

EndStep(i) == /\ life[i] = "in_time_step"
              /\ ran[i] = Work
              /\ life' = [life EXCEPT ![i] = "initialized"]
              /\ UNCHANGED ran

Finalize(i) == /\ life[i] = "initialized"
               /\ life' = [life EXCEPT ![i] = "uninitialized"]
               /\ UNCHANGED ran

Next == \E i \in Instances : \/ Initialize(i) \/ BeginStep(i)
                             \/ \E w \in SUBSET Work : RunPart(i, w)
                             \/ EndStep(i) \/ Finalize(i)

Spec == Init /\ [][Next]_vars
=============================================================================

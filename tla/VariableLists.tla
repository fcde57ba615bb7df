--------------------------- MODULE VariableLists ---------------------------
(***************************************************************************)
(* ccpp_physics_suite_variables: the standard names a suite takes from its  *)
(* host and those it returns.  The lists are made from the annotated        *)
(* arguments of the suite's schemes; those of no phase come before those of *)
(* another.                                                                *)
(***************************************************************************)
EXTENDS Matching

SuiteTables(m, schemes) == UNION {Range(m[e]) : e \in {d \in DOMAIN m : d[1] \in schemes}}

(* A name is the suite's own if any of its arguments was matched so.        *)
InterstitialStdNames(args) == {a.std : a \in {b \in args : b.owner = "SuiteOwned"}}
AdvectedArg(a) == a.owner = "CapScratch" /\ ~a.dynamic

(* Mutant: a name that some scheme writes is an output only.                *)
InputVarsNotWritten(args) ==
  {a.std : a \in {b \in args : Reads(b)}} \ {a.std : a \in {b \in args : Writes(b)}}

InputVars(args) ==
  {a.std : a \in {b \in args : AdvectedArg(b) \/ Reads(b)}} \ InterstitialStdNames(args)
OutputVars(args) ==
  {a.std : a \in {b \in args : AdvectedArg(b) \/ Writes(b)}} \ InterstitialStdNames(args)

VariableList(m, schemes) ==
  LET args == SuiteTables(m, schemes)
  IN  [input |-> InputVars(args), output |-> OutputVars(args),
       required |-> InputVars(args) \cup OutputVars(args)]

(* input_vars and output_vars may each be absent, which is as good as true. *)
Answer(list, input, output) ==
  LET do_input == input # "false"
      do_output == output # "false"
  IN  CASE do_input /\ ~do_output -> list.input
        [] ~do_input /\ do_output -> list.output
        [] OTHER -> list.required
=============================================================================

------------------------------ MODULE HostCap -------------------------------
(***************************************************************************)
(* The wrapper the host cap has for a phase of the groups: the arguments it *)
(* takes from the host, and the text it passes to the function of each      *)
(* group for every input and result.  fns are the phase's functions, in the *)
(* order of the suites and of their groups.                                *)
(***************************************************************************)
EXTENDS SuiteSignature, FiniteSets

Constituents(c) == {std \in DOMAIN c.host : \E p \in ArgumentsOf(c, std) : p[2].adv}

-----------------------------------------------------------------------------
(* _build_cap_var_map: the constituents a function takes, recognised by the *)
(* local name of the dummy; ahead of the run phase, only the advected ones. *)
UnderName(f, name) == SelectSeq(f.occ, LAMBDA o : o.arg.name = name)

CapVarDummy(f, d) ==
  LET info == UnderName(f, d.name)
  IN  /\ info # <<>>
      /\ info[1].arg.owner = "CapScratch"
      /\ f.phase = "run" \/ \E o \in Range(info) : o.arg.adv

CapVarStdNames(fns) ==
  UNION {{UnderName(f, d.name)[1].arg.std : d \in {e \in Range(f.inputs) : CapVarDummy(f, e)}} :
         f \in fns}

(* SchemeArgsByStd: some scheme's argument of the name was matched.         *)
Hosted(f, d) == \E o \in Range(f.occ) : o.arg.std = d.std /\ o.arg.model # NoVariable

(* _build_per_suite_run_info: where the host cap takes an input from.      *)
SourceKind(c, f, capVars, d) ==
  CASE Hosted(f, d) /\ c.host[d.std] = "module" -> "Host"
    [] Hosted(f, d) /\ c.host[d.std] = "ddt"    -> "DdtMember"
    [] ~(Hosted(f, d) /\ c.host[d.std] \in {"module", "ddt"}) /\ d.std \in capVars -> "CapVar"
    [] OTHER -> "Block"

BlockInputs(c, f, capVars) ==
  SelectSeq(f.inputs, LAMBDA d : SourceKind(c, f, capVars, d) = "Block")

(* _build_run_block_signature: the arguments the host must supply, one per  *)
(* standard name and one per local name.                                   *)
BlockArgs(c, fns, capVars) ==
  LET all == FlattenSeq([k \in DOMAIN fns |-> BlockInputs(c, fns[k], capVars)])
      add(args, d) == IF \E a \in Range(args) : a.std = d.std \/ a.name = d.name
                        THEN args ELSE Append(args, d)
  IN  FoldLeft(add, <<>>, all)

Canonical(args, std, name) ==
  LET mine == {a \in Range(args) : a.std = std}
  IN  IF mine = {} THEN name ELSE (CHOOSE a \in mine : TRUE).name

(* A text of the wrapper and the storage it stands for: a dummy of the      *)
(* wrapper hides a variable of a module with its name.                     *)
Text(name, place) == [text |-> name, place |-> place]
BlockText(args, name) ==
  Text(name, <<"host", (CHOOSE a \in Range(args) : a.name = name).std>>)
ModuleText(c, args, std) ==
  IF \E a \in Range(args) : a.name = c.called[std] THEN BlockText(args, c.called[std])
  ELSE Text(c.called[std], <<"host", std>>)
MemberText(c, std) == Text("ddt%" \o c.called[std], <<"host", std>>)
CapText(std) == Text("lc_" \o std, <<"constituent", std>>)
Anonymous(f, k) ==
  Text("ccpp_tmp_" \o ToString(k), <<"temporary", <<f.suite, f.group, f.phase, k>>>>)

(* _build_call_args                                                        *)
InputText(c, f, capVars, args, d) ==
  LET kind == SourceKind(c, f, capVars, d)
  IN  CASE kind = "Host"      -> ModuleText(c, args, d.std)
        [] kind = "DdtMember" -> MemberText(c, d.std)
        [] kind = "CapVar"    -> CapText(d.std)
        [] OTHER              -> BlockText(args, Canonical(args, d.std, d.name))

-----------------------------------------------------------------------------
(* The results of a function: its merged-inout scalars and its local        *)
(* results.  The wrapper counts the scalars declared out and takes the      *)
(* results before the last so many for those declared inout.               *)
ReturnInfo(m, f, intent) ==
  FirstOccurrences(
    SelectSeq(f.occ, LAMBDA o : LET a == m[o.entry][o.at]
                                IN  a.intent = intent /\ ~a.array /\ a.owner # "SuiteOwned"))

ResultCount(f) ==
  Cardinality({k \in DOMAIN f.inputs : f.inputs[k].intent = "inout" /\ ~f.inputs[k].array})
  + Len(f.outputs)

InModuleOrState(c, std) == c.host[std] \in {"module", "table"}

(* Mutant: a result returns to the host only through a dummy.              *)
CopyToDummyOnly(c, f, args, o, k) ==
  LET name == Canonical(args, o.arg.std, o.arg.name)
  IN  IF \E a \in Range(args) : a.name = name THEN BlockText(args, name) ELSE Anonymous(f, k)

(* Where a declared-inout result is echoed, and where a declared-out one    *)
(* is copied.                                                              *)
EchoText(c, f, capVars, args, o, k) ==
  LET name == Canonical(args, o.arg.std, o.arg.name)
      member == {d \in Range(f.inputs) : d.name = name /\ SourceKind(c, f, capVars, d) = "DdtMember"}
  IN  IF \E a \in Range(args) : a.name = name THEN BlockText(args, name)
      ELSE IF InModuleOrState(c, o.arg.std) THEN ModuleText(c, args, o.arg.std)
      ELSE IF member # {} THEN MemberText(c, (CHOOSE d \in member : TRUE).std)
      ELSE Anonymous(f, k)

CopyText(c, f, args, o, k) ==
  LET name == Canonical(args, o.arg.std, o.arg.name)
  IN  IF \E a \in Range(args) : a.name = name THEN BlockText(args, name)
      ELSE IF InModuleOrState(c, o.arg.std) THEN ModuleText(c, args, o.arg.std)
      ELSE Anonymous(f, k)

ResultTexts(c, m, f, capVars, args) ==
  LET echoed == ReturnInfo(m, f, "inout")
      copied == ReturnInfo(m, f, "out")
      leading == ResultCount(f) - Len(copied)
  IN  [k \in 1..ResultCount(f) |->
         IF k > leading THEN CopyText(c, f, args, copied[k - leading], k)
         ELSE IF k <= Len(echoed) THEN EchoText(c, f, capVars, args, echoed[k], k)
         ELSE Anonymous(f, k)]

(* _print_call: a result whose text is already among the inputs is not      *)
(* printed again.                                                          *)
CallText(c, m, f, capVars, args) ==
  LET inputs == [k \in DOMAIN f.inputs |-> InputText(c, f, capVars, args, f.inputs[k])]
      texts == {t.text : t \in Range(inputs)}
  IN  inputs \o SelectSeq(ResultTexts(c, m, f, capVars, args), LAMBDA t : t.text \notin texts)

(* Mutant: echoes are not recorded, and the wrapper's dummy stays intent(in).*)
NoEchoes(c, m, fns, capVars, args) == {}

(* The wrapper declares a scalar inout only when an echo names it, an array *)
(* in when the function it was first met in only reads it.                 *)
EchoedNames(c, m, fns, capVars, args) ==
  UNION {LET echoed == ReturnInfo(m, fns[k], "inout")
             leading == ResultCount(fns[k]) - Len(ReturnInfo(m, fns[k], "out"))
         IN  {Canonical(args, o.arg.std, o.arg.name) :
                o \in {echoed[j] : j \in {i \in DOMAIN echoed : i <= leading}}} :
         k \in DOMAIN fns}

ReadOnlyNames(c, m, fns, capVars, args) ==
  {a.name : a \in {b \in Range(args) :
     IF b.array THEN b.intent = "in"
     ELSE b.name \notin EchoedNames(c, m, fns, capVars, args)}}

Wrapper(c, m, fns, capVars) ==
  LET args == BlockArgs(c, fns, capVars)
  IN  [args |-> args,
       readOnly |-> ReadOnlyNames(c, m, fns, capVars, args),
       calls |-> [k \in DOMAIN fns |-> CallText(c, m, fns[k], capVars, args)]]

-----------------------------------------------------------------------------
(* What the Fortran compiler makes of the generated code.                  *)
DummyTexts(f) == [k \in DOMAIN f.inputs |-> f.inputs[k].name] \o f.outputs

Modifies(f, k) ==
  IF k > Len(f.inputs) THEN TRUE
  ELSE f.inputs[k].intent # "in"

CallFits(f, w, call) ==
  /\ IsInjective(DummyTexts(f))
  /\ Len(call) = Len(DummyTexts(f))
  /\ \A k \in DOMAIN call : Modifies(f, k) => call[k].text \notin w.readOnly
=============================================================================

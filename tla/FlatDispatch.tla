---------------------------- MODULE FlatDispatch ----------------------------
(***************************************************************************)
(* The flat entry points of the host cap, one call per suite: ccpp_register *)
(* takes the host variables any suite's schemes need as dummies of its own  *)
(* and hands each suite's function its arguments.  fns are the functions of *)
(* the suites, in their order; in no other respect do suites differ here    *)
(* from the groups of HostCap.                                             *)
(***************************************************************************)
EXTENDS HostCap

(* Variables of host or control tables become dummies, the first one of a   *)
(* local name for all.                                                     *)
InCallerTable(c, d) == c.host[d.std] \in {"table", "control"}

ExtraHostArgs(c, fns) ==
  LET all == FlattenSeq([k \in DOMAIN fns |-> fns[k].inputs])
      hosted == SelectSeq(all, LAMBDA d : InCallerTable(c, d))
  IN  FirstsBy(hosted, [k \in DOMAIN hosted |-> hosted[k].name])

(* Where the argument of a suite's function comes from: a module the host   *)
(* has, a member of a structure, a dummy of that name, the module variable  *)
(* that keeps the suite's constituents, or a local.                        *)
FlatSource(c, f, args, d) ==
  CASE c.host[d.std] = "module" -> "Host"
    [] \E o \in Range(f.occ) : o.arg.std = d.std /\ o.arg.model = "ddt" -> "DdtMember"
    [] \E a \in Range(args) : a.name = d.name -> "Dummy"
    [] \E o \in Range(f.occ) : o.arg.std = d.std /\ o.arg.dynamic -> "Registered"
    [] OTHER -> "Local"

RegisteredText(name) == Text("lc_" \o name, <<"registered", name>>)
LocalText(f, d) == Text("lc_" \o d.name, <<"temporary", <<f.suite, d.name>>>>)

FlatInputText(c, f, args, d) ==
  LET source == FlatSource(c, f, args, d)
  IN  CASE source = "Host"       -> ModuleText(c, args, d.std)
        [] source = "DdtMember"  -> MemberText(c, d.std)
        [] source = "Dummy"      -> BlockText(args, d.name)
        [] source = "Registered" -> RegisteredText(d.name)
        [] OTHER                 -> LocalText(f, d)

(* A local nobody has written would be read.                               *)
FlatRejects(c, fns) ==
  \E f \in Range(fns) : \E d \in Range(f.inputs) :
    d.intent # "out" /\ FlatSource(c, f, ExtraHostArgs(c, fns), d) = "Local"

(* The results are the scalars declared out: one that a module of the host  *)
(* has returns there, any other is dropped.                                *)
FlatResultTexts(c, m, f, args) ==
  LET results == ReturnInfo(m, f, "out")
  IN  [k \in DOMAIN results |->
         IF c.host[results[k].arg.std] = "module"
           THEN ModuleText(c, args, results[k].arg.std)
           ELSE Anonymous(f, k)]

FlatCallText(c, m, f, args) ==
  LET inputs == [k \in DOMAIN f.inputs |-> FlatInputText(c, f, args, f.inputs[k])]
      texts == {t.text : t \in Range(inputs)}
  IN  inputs \o SelectSeq(FlatResultTexts(c, m, f, args), LAMBDA t : t.text \notin texts)

(* A dummy scalar is inout if the argument it was met as is not only read.  *)
FlatWrapper(c, m, fns) ==
  LET args == ExtraHostArgs(c, fns)
  IN  [args |-> args,
       readOnly |-> {a.name : a \in {b \in Range(args) : b.intent = "in" /\ ~b.array}},
       calls |-> [k \in DOMAIN fns |-> FlatCallText(c, m, fns[k], args)]]

-----------------------------------------------------------------------------
(* Original capgen's API: the wrapper of a group phase has a value for      *)
(* every argument only if the host has them all in modules, and that of a   *)
(* flat phase passes the name of the suite and the error arguments.        *)
CapgenRejects(c, w) == \E a \in Range(w.args) : c.host[a.std] # "module"
CapgenCallFits(w) == w.args = <<>>
=============================================================================

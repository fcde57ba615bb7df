----------------------------- MODULE SourceScan -----------------------------
(***************************************************************************)
(* What is read from the text of a Fortran source, statement by statement:  *)
(* the scopes of the file, a procedure, a generic interface or, without a   *)
(* name, the head of a module, each with                                   *)
(*   uses       its USE statements: [module, all, names], where names are   *)
(*              the <<local, remote>> of an ONLY list or, of a whole        *)
(*              module, its renames                                        *)
(*   includes, calls, declared                                             *)
(*   variables  those a module declares                                    *)
(*   refs       the identifiers its statements mention                     *)
(*   assigns    what it assigns, and passes, what its calls are given       *)
(* A statement has a kind, a name, what it mentions and, by its kind, a use *)
(* or names.                                                               *)
(***************************************************************************)
EXTENDS Naturals, FiniteSets, SequencesExt

ModuleHead == ""   \* the name of a module's head
NoModule == ""

ScopeOf(name, module) ==
  [name |-> name, module |-> module, uses |-> {}, includes |-> {}, calls |-> {}, declared |-> {},
   variables |-> {}, refs |-> {}, assigns |-> {}, passes |-> {}]

Unread ==
  [module |-> NoModule, head |-> ScopeOf(ModuleHead, NoModule), open |-> <<>>, interfaces |-> 0,
   generic |-> <<>>, types |-> 0, scopes |-> {}, uses |-> {}]

\* The innermost procedure, or the head.
Current(file) == IF file.open = <<>> THEN file.head ELSE Last(file.open)
With(file, scope) ==
  IF file.open = <<>> THEN [file EXCEPT !.head = scope] ELSE [file EXCEPT !.open = Append(Front(@), scope)]

Mentioned(file, s) ==
  IF file.open = <<>> \/ file.interfaces > 0 THEN file
  ELSE With(file, [Current(file) EXCEPT !.refs = @ \cup s.mentions,
                                        !.assigns = @ \cup (IF s.kind = "assign" THEN {s.name} ELSE {})])

Used(file, s) ==
  LET used == [file EXCEPT !.uses = @ \cup {s.use.module}]
  IN  IF file.interfaces > 0 THEN used ELSE With(used, [Current(file) EXCEPT !.uses = @ \cup {s.use}])

Declared(file, s) ==
  LET with == With(file, [Current(file) EXCEPT !.declared = @ \cup s.names])
  IN  IF s.kind = "parameter" \/ file.open # <<>> THEN with
      ELSE [with EXCEPT !.head.variables = @ \cup s.names]

InterfaceOpened(file, s) ==
  [file EXCEPT !.interfaces = @ + 1,
               !.generic = IF file.interfaces = 0 /\ s.name # "" THEN <<ScopeOf(s.name, file.module)>> ELSE @]

InterfaceClosed(file) ==
  LET outermost == file.interfaces <= 1
  IN  [file EXCEPT !.interfaces = IF outermost THEN 0 ELSE @ - 1,
                   !.scopes = @ \cup (IF outermost THEN ToSet(file.generic) ELSE {}),
                   !.generic = IF outermost THEN <<>> ELSE @]

ProcedureClosed(file) ==
  IF file.open = <<>> THEN file
  ELSE [file EXCEPT !.scopes = @ \cup {Last(file.open)}, !.open = Front(@)]

ModuleClosed(file) ==
  [file EXCEPT !.scopes = @ \cup ToSet(file.open) \cup {file.head}, !.open = <<>>,
               !.module = NoModule, !.head = ScopeOf(ModuleHead, NoModule)]

\* Within an interface only USEs, the procedures of a generic and its end
\* count.
Stated(file, s) ==
  CASE s.kind = "use" -> Used(file, s)
    [] s.kind = "include" ->
         IF file.interfaces > 0 THEN file
         ELSE With(file, [Current(file) EXCEPT !.includes = @ \cup {s.name}])
    [] s.kind = "call" ->
         With(file, [Current(file) EXCEPT !.calls = @ \cup {s.name}, !.passes = @ \cup s.names])
    [] s.kind = "interface" -> InterfaceOpened(file, s)
    [] s.kind = "module procedure" ->
         [file EXCEPT !.generic = [i \in DOMAIN @ |-> [@[i] EXCEPT !.calls = @ \cup s.names]]]
    [] s.kind = "end interface" -> InterfaceClosed(file)
    [] s.kind = "module" ->
         [file EXCEPT !.module = s.name, !.head = ScopeOf(ModuleHead, s.name)]
    [] s.kind \in {"declare", "parameter"} /\ file.interfaces = 0 -> Declared(file, s)
    [] s.kind = "procedure" /\ file.interfaces = 0 ->
         [file EXCEPT !.open = Append(@, ScopeOf(s.name, file.module))]
    [] s.kind = "end procedure" /\ file.interfaces = 0 -> ProcedureClosed(file)
    [] s.kind = "end module" /\ file.interfaces = 0 -> ModuleClosed(file)
    [] OTHER -> file

\* What stands in the definition of a type is not the scope's.
ReadLine(file, s) ==
  CASE s.kind = "type" -> [file EXCEPT !.types = @ + 1]
    [] s.kind = "end type" -> [file EXCEPT !.types = @ - 1]
    [] s.kind \notin {"type", "end type"} /\ file.types > 0 -> file
    [] OTHER -> Stated(Mentioned(file, s), s)

FactsFound(file) ==
  [uses |-> file.uses,
   scopes |-> file.scopes \cup ToSet(file.open)
                \cup {h \in {file.head} : h.module # NoModule \/ h.uses # {} \/ h.includes # {}}]

Scan(text) == FactsFound(FoldLeft(ReadLine, Unread, text))
=============================================================================

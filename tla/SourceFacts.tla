---------------------------- MODULE SourceFacts -----------------------------
(***************************************************************************)
(* What the generator learns from Fortran sources: the files a scheme needs *)
(* (source_closure), the procedures that reach MPI (mpi_reach) and the      *)
(* module variables a procedure reads, assigns or sets                      *)
(* (module_state_access); and what Fortran's own rules say of the same.     *)
(*                                                                         *)
(* A case has                                                              *)
(*   c.files      the sources, by path: [root, text, scopes]               *)
(*   c.roots      the number of source trees, the scheme's own first       *)
(*   c.listed     paths some metadata table lists                          *)
(*   c.variants   the pairs of a CPU and an OpenACC version                *)
(*   c.built      the paths the host compiles                              *)
(* and the scopes that are written in a text have, of what SourceScan reads *)
(* in it, uses, includes, calls, declared, variables and assigns, and       *)
(*   takes, fills names whose values a procedure takes, and its calls set  *)
(*   generics     [name, procedures] of a module                           *)
(***************************************************************************)
EXTENDS SourceScan

CONSTANTS Provided,   \* modules of the compiler and of the framework
          MpiModules

\* TLC evaluates a function once that is joined with another.
Evaluated(f) == f @@ <<>>

ReadIn(c) ==
  [c EXCEPT !.files =
     Evaluated([p \in DOMAIN c.files |-> [root |-> c.files[p].root] @@ Scan(c.files[p].text)])]

ModulesOf(file) == {s.module : s \in {t \in file.scopes : t.name = ModuleHead}} \ {NoModule}

-----------------------------------------------------------------------------
(* The sources a set of files needs.                                       *)

ModuleDefinitions(c, root, name) ==
  {p \in DOMAIN c.files : c.files[p].root = root /\ name \in ModulesOf(c.files[p])}

\* The first tree that has any counts; of several files, those listed.
Candidates(c, name) ==
  LET having == {r \in 1..c.roots : ModuleDefinitions(c, r, name) # {}}
      found == IF having = {} THEN {} ELSE ModuleDefinitions(c, Min(having), name)
  IN  IF Cardinality(found) > 1 /\ found \cap c.listed # {} THEN found \cap c.listed ELSE found

Resolves(c, paths) == Cardinality(paths) = 1 \/ paths \in c.variants

\* A round scans the files found last: a module they define wins over the
\* trees.
Follow(c, acc) ==
  LET files == acc.files \cup acc.new
      defined == acc.defined \cup UNION {ModulesOf(c.files[p]) : p \in acc.new}
      wanted == UNION {c.files[p].uses : p \in acc.new}
                  \ (MpiModules \cup Provided \cup defined \cup acc.unresolved)
      resolved == {name \in wanted : Resolves(c, Candidates(c, name))}
  IN  [files |-> files, defined |-> defined \cup resolved,
       new |-> UNION {Candidates(c, name) : name \in resolved} \ files,
       unresolved |-> acc.unresolved \cup (wanted \ resolved)]

ClosureOf(c, last) ==
  LET definers(name) == {p \in last.files : name \in ModulesOf(c.files[p])}
      clashing == {name \in UNION {ModulesOf(c.files[p]) : p \in last.files} :
                     ~Resolves(c, definers(name))}
  IN  [files |-> last.files, unresolved |-> last.unresolved \cup clashing]

SourceClosure(c, start) ==
  LET rounds[n \in 0..Cardinality(DOMAIN c.files) + 1] ==
        IF n = 0 THEN [files |-> {}, defined |-> {}, new |-> start, unresolved |-> {}]
        ELSE Follow(c, rounds[n - 1])
  IN  ClosureOf(c, rounds[Cardinality(DOMAIN c.files) + 1])

Scopes(c, paths) == UNION {c.files[p].scopes : p \in paths}

-----------------------------------------------------------------------------
(* By name alone, through calls.                                           *)

Heads(scopes, s) == {h \in scopes : h.name = ModuleHead /\ h.module = s.module}
Procedures(scopes) == {s \in scopes : s.name # ModuleHead}

\* What a relation leads to from a set of names, among those there are.
Reached(start, next(_), names) ==
  LET hops[n \in 0..Cardinality(names)] ==
        IF n = 0 THEN start \cap names
        ELSE hops[n - 1] \cup (names \cap UNION {next(name) : name \in hops[n - 1]})
  IN  hops[Cardinality(names)]

MpiIncludes == {"mpif.h"}
UsesMpi(s) == (\E u \in s.uses : u.module \in MpiModules) \/ s.includes \cap MpiIncludes # {}
MpiProcedures(scopes) ==
  LET direct == {s.name : s \in {t \in Procedures(scopes) : \E h \in {t} \cup Heads(scopes, t) : UsesMpi(h)}}
      callers(name) == {s.name : s \in {t \in Procedures(scopes) : name \in t.calls}}
  IN  Reached(direct, callers, {s.name : s \in Procedures(scopes)})

VariablesOf(scopes, module) ==
  UNION {h.variables : h \in {s \in scopes : s.name = ModuleHead /\ s.module = module}}

ImportsOf(scopes, s) == s.uses \cup UNION {h.uses : h \in Heads(scopes, s)}

\* The <<local name, variable>> a procedure sees: its module's own hide
\* those it imports; of a module used whole, each under its own name.
Visible(scopes, s) ==
  LET own == VariablesOf(scopes, s.module)
      through(u) ==
        IF u.all THEN {<<v, <<u.module, v>>>> : v \in VariablesOf(scopes, u.module)}
        ELSE {<<p[1], <<u.module, p[2]>>>> : p \in {q \in u.names : q[2] \in VariablesOf(scopes, u.module)}}
  IN  {<<v, <<s.module, v>>>> : v \in own}
        \cup {e \in UNION {through(u) : u \in ImportsOf(scopes, s)} : e[1] \notin own}

\* A procedure imported under another name is followed under its own.
Callees(scopes, s) ==
  LET renames == UNION {u.names : u \in {w \in ImportsOf(scopes, s) : ~w.all}}
      own(name) == {p[2] : p \in {q \in renames : q[1] = name}}
      names == s.calls \cup s.refs
  IN  {name \in names : own(name) = {}} \cup UNION {own(name) : name \in names}

\* Mutant: what is passed to a call is not taken to be set.
NamesAssigned(s, kind) == IF kind = "reads" THEN s.refs ELSE s.assigns
NamesIn(s, kind) ==
  CASE kind = "reads"   -> s.refs
    [] kind = "assigns" -> s.assigns
    [] kind = "sets"    -> s.assigns \cup s.passes

AccessIn(scopes, reached) ==
  [kind \in {"reads", "assigns", "sets"} |->
     UNION {{e[2] : e \in {v \in Visible(scopes, s) : v[1] \in NamesIn(s, kind) \ s.declared}} :
            s \in {t \in Procedures(scopes) : t.name \in reached}}]

ModuleStateAccess(scopes, entry) ==
  LET callees(name) == UNION {Callees(scopes, s) : s \in {t \in Procedures(scopes) : t.name = name}}
  IN  AccessIn(scopes, Reached({entry}, callees, {s.name : s \in Procedures(scopes)}))

-----------------------------------------------------------------------------
(* By Fortran's rules: a module hands on what it imports, a name means what *)
(* the innermost scope says, a call runs the procedure its name means, or,  *)
(* of a generic name, one of its procedures.  Variables and procedures      *)
(* alike are <<module, name>>.                                             *)

Import(u, given) ==
  {<<x[1][1], x[2][2]>> : x \in {y \in u.names \X given : y[1][2] = y[2][1]}}
    \cup {e \in given : u.all /\ \A p \in u.names : p[2] # e[1]}

Exports(scopes) ==
  LET modules == {s.module : s \in scopes}
      own(m) ==
        {<<name, <<m, name>>>> :
           name \in VariablesOf(scopes, m) \cup {s.name : s \in {t \in Procedures(scopes) : t.module = m}}}
          \cup UNION {{<<g.name, <<m, p>>>> : p \in g.procedures} :
                     g \in UNION {h.generics : h \in {s \in scopes : s.module = m}}}
      uses(m) == {u \in UNION {h.uses : h \in {s \in scopes : s.name = ModuleHead /\ s.module = m}} :
                    u.module \in modules}
      levels[n \in 0..Cardinality(modules)] ==
        [m \in modules |-> own(m) \cup
           (IF n = 0 THEN {} ELSE UNION {Import(u, levels[n - 1][u.module]) : u \in uses(m)})]
  IN  levels[Cardinality(modules)]

MeaningIn(given, s) ==
  LET imported == UNION {Import(u, given[u.module]) : u \in {w \in s.uses : w.module \in DOMAIN given}}
      hosted == {e \in given[s.module] : \A l \in imported : l[1] # e[1]}
  IN  {e \in imported \cup hosted : e[1] \notin s.declared}

Meanings(scopes) == Evaluated([s \in Procedures(scopes) |-> MeaningIn(Exports(scopes), s)])

Meant(meanings, s, texts) == {e[2] : e \in {m \in meanings[s] : m[1] \in texts}}
NameOf(s) == <<s.module, s.name>>
Bodies(meanings, names) == {s \in DOMAIN meanings : NameOf(s) \in names}

PerformedIn(meanings, reached) ==
  [takes |-> UNION {Meant(meanings, s, s.takes) : s \in Bodies(meanings, reached)},
   sets  |-> UNION {Meant(meanings, s, s.assigns \cup s.fills) : s \in Bodies(meanings, reached)}]

Performs(meanings, entry) ==
  LET runs(name) == UNION {Meant(meanings, s, s.calls \cup s.takes) : s \in Bodies(meanings, {name})}
      names == {NameOf(s) : s \in DOMAIN meanings}
  IN  PerformedIn(meanings, Reached({name \in names : name[2] = entry}, runs, names))
=============================================================================

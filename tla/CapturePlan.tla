---------------------------- MODULE CapturePlan -----------------------------
(***************************************************************************)
(* What is captured and what the test driver of the captured scheme "S"     *)
(* replays, from what the sources of the suite's schemes say.  A table is a *)
(* phase of a scheme, <<scheme, phase>>, and the procedure of its name.     *)
(* Of all module variables only one, V, is looked at.                      *)
(*                                                                         *)
(* To the sources of SourceFacts a case adds                               *)
(*   c.own        each scheme's own file                                   *)
(*   c.needs      the files its metadata names as dependencies             *)
(***************************************************************************)
EXTENDS SourceFacts

CONSTANT SuiteOrder

V == <<"state", "v">>

Own == {t \in ToSet(SuiteOrder) : t[1] = "S"}
Others == ToSet(SuiteOrder) \ Own

EntryPoint(table) == table[1] \o "_" \o table[2]
SchemeFiles(c, scheme) == {c.own[scheme]} \cup c.needs[scheme]
SchemeClosure(c, scheme) == SourceClosure(c, SchemeFiles(c, scheme))

\* What a table's procedure does, as far as the sources say.
TableFacts(scopes, entry, access) ==
  [mpi |-> entry \in MpiProcedures(scopes),
   reads |-> V \in access.reads, assigns |-> V \in access.assigns, sets |-> V \in access.sets]

FactsOf(c, closure, table) ==
  TableFacts(Scopes(c, closure.files), EntryPoint(table),
             ModuleStateAccess(Scopes(c, closure.files), EntryPoint(table)))
    @@ [alone |-> closure.unresolved = {}]

Facts(c) == Evaluated([t \in ToSet(SuiteOrder) |-> FactsOf(c, SchemeClosure(c, t[1]), t)])

-----------------------------------------------------------------------------
\* A phase that reaches MPI is not captured.
RequestedIn(facts) == {t \in Own : ~facts[t].mpi}

\* State the scheme reads and does not assign itself must come from elsewhere.
Needed(facts, requested) ==
  /\ \E t \in requested : facts[t].reads
  /\ \A t \in requested : ~facts[t].assigns

Setters(facts, requested) ==
  {t \in Others : /\ Needed(facts, requested)
                  /\ t[2] \in {"register", "initialize", "timestep_initial"}
                  /\ facts[t].sets}

\* A setter that runs every time step, or does not build alone, is not
\* replayed.
Replayable(facts, t) == t[2] # "timestep_initial" /\ facts[t].alone /\ ~facts[t].mpi

SetupsIn(facts, requested) == {t \in Setters(facts, requested) : Replayable(facts, t)}

\* The driver is built from the files of the scheme and of its setups.
Built(c, tables) ==
  SourceClosure(c, UNION {SchemeFiles(c, t[1]) : t \in tables}).unresolved = {}

-----------------------------------------------------------------------------
\* What the program does.
DeedsOf(meanings) == Evaluated([t \in ToSet(SuiteOrder) |-> Performs(meanings, EntryPoint(t))])
Takers(deeds) == {t \in DOMAIN deeds : V \in deeds[t].takes}
Setting(deeds) == {t \in DOMAIN deeds : V \in deeds[t].sets}

\* Setters the replay is known to leave out: phases of others that run every
\* step or too late, that reach MPI or do not build; all of them if any phase
\* of the scheme assigns the state, even one that comes later or only by a
\* name it shares; the scheme's own phases that are not captured.
SettersLeftOut(facts, requested, setting) ==
  \/ \E t \in setting \ Own : t[2] \notin {"register", "initialize"} \/ ~Replayable(facts, t)
  \/ setting \ Own # {} /\ \E t \in requested : facts[t].assigns
  \/ setting \cap (Own \ requested) # {}

\* What the generator does not know by the name it has: what a module hands
\* on, and what is renamed as a module is used whole.
Unknown(scopes, s, e) ==
  \/ e[2][1] \notin {s.module} \cup {u.module : u \in ImportsOf(scopes, s)}
  \/ \E u \in ImportsOf(scopes, s) : u.all /\ \E p \in u.names : p[1] = e[1]

\* A reader or a setter missed for such a name.
MissedByName(scopes, meanings, facts, readers, setting) ==
  /\ (\E t \in readers : ~facts[t].reads) \/ (\E t \in setting \ Own : ~facts[t].sets)
  /\ \E s \in DOMAIN meanings : \E e \in meanings[s] :
       /\ e[2] = V \/ e[1] \in s.calls \cup s.takes
       /\ Unknown(scopes, s, e)

\* The plan of a suite from what is read of it, c, what is written in the
\* files that are built, and what that means.
PlanFor(c, facts, requested, setups, scopes, meanings, takers, setting) ==
  [requested |-> requested, setups |-> setups,
   built |-> requested # {} /\ Built(c, requested \cup setups),
   reads |-> takers, sets |-> setting,
   settersReplayed |->
     takers \cap requested # {} =>
       /\ ~SettersLeftOut(facts, requested, setting)
       /\ ~MissedByName(scopes, meanings, facts, takers \cap requested, setting)]

PlanFrom(c, facts, scopes, meanings, deeds) ==
  PlanFor(c, facts, RequestedIn(facts), SetupsIn(facts, RequestedIn(facts)), scopes, meanings,
          Takers(deeds), Setting(deeds))
PlanRead(c, scopes, meanings) == PlanFrom(c, Facts(c), scopes, meanings, DeedsOf(meanings))
PlanIn(c, scopes) == PlanRead(ReadIn(c), scopes, Meanings(scopes))

PlansOf(suites) == Evaluated([n \in DOMAIN suites |-> PlanIn(suites[n], Scopes(suites[n], suites[n].built))])
=============================================================================

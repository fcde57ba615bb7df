------------------------------ MODULE Capture -------------------------------
(***************************************************************************)
(* Capture of a scheme's calls in runs of the model, and the replay of the  *)
(* captured calls by the generated test driver.  The module variable V may  *)
(* be set and read by the tables of the captured scheme and of others.      *)
(* Each table has one argument in and one out.  A case has                 *)
(*   plan          what CapturePlan makes of its sources                   *)
(*   args          the tables with arguments to capture                    *)
(*   arrays        the arguments are arrays, otherwise scalars             *)
(*   scripts       what a run of the model calls: a sequence of batches,   *)
(*                 the calls of a batch side by side, each <<table, x>>    *)
(***************************************************************************)
EXTENDS CaptureFiles, CapturePlan

CONSTANTS Cases, Workers, MaxRuns, MaxFaults

ASSUME CasesAssumption ==
  \A c \in Cases : c.scripts \subseteq Seq(Seq(Tables \X STRING))

-----------------------------------------------------------------------------
Registration == <<"ccpp", "constituents">>
Phases == <<"register", "initialize", "timestep_initial", "run", "timestep_final", "finalize">>

Requested(c) == c.plan.requested
Setups(c) == c.plan.setups

Captured(c) ==
  IF Requested(c) = {} THEN {}
  ELSE (c.args \cap (Requested(c) \cup Setups(c))) \cup {Registration}

InLifecycleOrder(tables) ==
  FlattenSeq([p \in DOMAIN Phases |->
    SelectSeq(SuiteOrder, LAMBDA t : t \in tables /\ t[2] = Phases[p])])

DriverTables(c) ==
  SelectSeq(SuiteOrder, LAMBDA t : t \in Setups(c)) \o InLifecycleOrder(Requested(c))

\* A table's calls in the driver: those on file, or one call without
\* arguments, or none, which is a failure.
Item(table, n, how) == [table |-> table, n |-> n, how |-> how]
CallOnly(c, table) == table \notin c.args
ReplaysOf(c, disk, table) ==
  CASE CallOnly(c, table) -> <<Item(table, 1, "call")>>
    [] ~CallOnly(c, table) /\ CallCount(disk, table) = 0 -> <<Item(table, 0, "none")>>
    [] OTHER -> [n \in 1..CallCount(disk, table) |-> Item(table, n, "replay")]

ReplaysFor(c, disk) ==
  FlattenSeq([i \in DOMAIN DriverTables(c) |-> ReplaysOf(c, disk, DriverTables(c)[i])])

-----------------------------------------------------------------------------
(* Schemes.                                                                *)

Undefined == <<"undefined">>
Empty == <<>>
Once == <<"once">>

Fails(x) == x = <<"bad">>

\* A scheme's result depends on its input, on v and on the table of
\* constituents; a changed scheme goes wrong on one input.
Output(c, impl, table, x, v, k) ==
  IF Undefined = x \/ Fails(x) THEN Undefined
  ELSE <<x, IF table \in c.plan.reads THEN v ELSE "", k,
         IF impl = "changed" /\ table = <<"S", "run">> /\ x = <<"2">> THEN "wrong" ELSE "right">>

ValueSet(c, table, x, v) ==
  IF table \in c.plan.sets /\ ~Fails(x) THEN (IF x = Empty THEN "" ELSE x[1]) ELSE v

-----------------------------------------------------------------------------
VARIABLES case,     \* the case
          run,      \* the number of the run of the model
          script,   \* the batches to come in the run
          working,  \* each worker's call: its statements to come
          lib,      \* the capture library of the run's process
          disk,     \* the capture directory
          state,    \* the model's v and table of constituents
          log,      \* the calls of the run
          faults,   \* failures of NetCDF so far, and whether in this run
          refused,  \* the files that could not be created: <<run, path>>
          driver    \* the test driver

vars == <<case, run, script, working, lib, disk, state, log, faults, refused, driver>>

Idle == [id |-> <<>>, table |-> Registration, x |-> Empty, y |-> Empty, code |-> <<>>]
NoDriver == [impl |-> "none", todo |-> <<>>, v |-> "unset", k |-> "none",
             x |-> [s \in {"S", "O"} |-> Undefined], expected |-> Undefined,
             failed |-> 0, replayed |-> <<>>]
Fresh == [v |-> "unset", k |-> "none"]

Init ==
  /\ case \in Cases
  /\ run = 0
  /\ script = <<>>
  /\ working = [w \in Workers |-> Idle]
  /\ lib = Library
  /\ disk = [p \in Paths |-> Absent]
  /\ state = Fresh
  /\ log = <<>>
  /\ faults = [count |-> 0, here |-> FALSE]
  /\ refused = {}
  /\ driver = NoDriver

AllIdle == \A w \in Workers : working[w].code = <<>>
Replaying == driver.impl # "none"
Replayed == Replaying /\ driver.todo = <<>>

\* The model is started again: a new process, in the same directory.
StartRun ==
  /\ AllIdle /\ script = <<>> /\ run < MaxRuns /\ ~Replaying
  /\ run' = run + 1
  /\ script' \in case.scripts
  /\ lib' = Library
  /\ state' = Fresh
  /\ log' = <<>>
  /\ faults' = [faults EXCEPT !.here = FALSE]
  /\ UNCHANGED <<case, working, disk, refused, driver>>

\* Registration is captured behind the assignment, a scheme around its call.
CodeOf(c, table) ==
  CASE table = Registration -> <<"call", "before", "in", "end">>
    [] table \in Captured(c) \ {Registration} ->
         <<"before", "in", "end", "call", "after", "out", "end">>
    [] OTHER -> <<"call">>

\* A table without arguments is called alike every time.
Work(call, w) ==
  [id |-> <<run, Len(script), w>>, table |-> call[1], y |-> Empty,
   x |-> IF call[1] \in case.args \cup {Registration} THEN <<call[2]>> ELSE Once,
   code |-> CodeOf(case, call[1])]

StartBatch ==
  /\ AllIdle /\ script # <<>>
  /\ working' = [w \in Workers |->
                   IF w \in DOMAIN Head(script) THEN Work(Head(script)[w], w) ELSE Idle]
  /\ script' = Tail(script)
  /\ UNCHANGED <<case, run, lib, disk, state, log, faults, refused, driver>>

Doing(w, statement) == working[w].code # <<>> /\ Head(working[w].code) = statement
Done(w) == working' = [working EXCEPT ![w].code = Tail(@)]

\* An operation on the files goes well, or fails while failures are left.
Happens(outcome) ==
  IF outcome = "made" THEN UNCHANGED faults
  ELSE faults.count < MaxFaults /\ faults' = [count |-> faults.count + 1, here |-> TRUE]

Takes(new) == lib' = new.lib /\ disk' = new.disk

Before(w) ==
  /\ Doing(w, "before")
  /\ Done(w)
  /\ \E outcome \in Creations :
       /\ Happens(outcome)
       /\ Takes(BeginBefore(lib, disk, working[w].table, outcome))
       /\ refused' = IF outcome = "refused" /\ ~Full(lib, working[w].table)
                     THEN refused \cup {<<run, <<working[w].table,
                                                 NextCall(lib, working[w].table)>> >>}
                     ELSE refused
  /\ UNCHANGED <<case, run, script, state, log, driver>>

After(w) ==
  /\ Doing(w, "after")
  /\ Done(w)
  /\ \E outcome \in {"made", "refused"} :
       /\ Happens(outcome)
       /\ Takes(BeginAfter(lib, disk, working[w].table, outcome))
  /\ UNCHANGED <<case, run, script, state, log, refused, driver>>

Argument(w) == IF Doing(w, "in") THEN working[w].x ELSE working[w].y
Record(w) ==
  /\ Doing(w, "in") \/ Doing(w, "out")
  /\ Done(w)
  /\ \E outcome \in Writings :
       /\ Happens(outcome)
       /\ disk' = Write(lib, disk, Content(working[w].id, Argument(w)), outcome)
  /\ UNCHANGED <<case, run, script, lib, state, log, refused, driver>>

EndCapture(w) ==
  /\ Doing(w, "end")
  /\ Done(w)
  /\ lib' = End(lib)
  /\ UNCHANGED <<case, run, script, disk, state, log, faults, refused, driver>>

\* Constituents are registered, or the scheme is called; after one that
\* fails the model stops.
CallOf(w) ==
  LET call == working[w]
      y == Output(case, "same", call.table, call.x, state.v, state.k)
  IN /\ Doing(w, "call")
     /\ working' = [working EXCEPT ![w].code = Tail(@), ![w].y = y]
     /\ log' = Append(log, [id |-> call.id, table |-> call.table, x |-> call.x,
                            v |-> state.v, k |-> state.k, y |-> y])
     /\ state' = IF call.table = Registration THEN [state EXCEPT !.k = call.x[1]]
                 ELSE [state EXCEPT !.v = ValueSet(case, call.table, call.x, @)]
     /\ script' = IF Fails(call.x) THEN <<>> ELSE script
     /\ UNCHANGED <<case, run, lib, disk, faults, refused, driver>>

\* The process dies.
Crash ==
  /\ ~AllIdle
  /\ Happens("crash")
  /\ \E torn \in BOOLEAN : disk' = Abandoned(lib, disk, torn)
  /\ working' = [w \in Workers |-> Idle]
  /\ script' = <<>>
  /\ lib' = Library
  /\ UNCHANGED <<case, run, state, log, refused, driver>>

-----------------------------------------------------------------------------
(* The driver.                                                             *)

\* The table of constituents is that of the first registration on file.
Rebuilt(content) == IF content.value = Empty THEN "none" ELSE content.value[1]
Restored == Rebuilt(Recorded(disk, <<Registration, 1>>, "in"))

StartDriver ==
  /\ case.plan.built
  /\ run > 0 /\ AllIdle /\ script = <<>> /\ ~Replaying
  /\ \E impl \in {"same", "changed"} :
       driver' = [NoDriver EXCEPT !.impl = impl, !.todo = ReplaysFor(case, disk), !.k = Restored]
  /\ UNCHANGED <<case, run, script, working, lib, disk, state, log, faults, refused>>

\* A missing array is read as an empty one; a missing scalar leaves its
\* variable as it was.
ReadAs(content, old) ==
  CASE content # Nothing -> content.value
    [] content = Nothing /\ case.arrays -> Empty
    [] OTHER -> old

Agree(actual, expected) == actual = expected

\* An array is compared with the captured one in the captured shape.
Verdicts(actual, expected) ==
  CASE case.arrays /\ expected = Empty -> {TRUE}
    [] Undefined \in {actual, expected} -> BOOLEAN
    [] OTHER -> {Agree(actual, expected)}

\* Mutant: only what the scheme reports counts.
FailuresReported(item, x, ok) == IF Fails(x) THEN 1 ELSE 0

Failures(item, x, ok) ==
  (IF Fails(x) THEN 1 ELSE 0) + (IF ok THEN 0 ELSE 1)

Compared(item) == item.how = "replay" /\ item.table \in Own

\* One call: read, call the scheme, compare.
ReplayCall ==
  LET item == Head(driver.todo)
      path == <<item.table, item.n>>
      s == item.table[1]
      x == IF item.how = "call" THEN Once
           ELSE ReadAs(Recorded(disk, path, "in"), driver.x[s])
      actual == Output(case, driver.impl, item.table, x, driver.v, driver.k)
      expected == IF Compared(item) THEN ReadAs(Recorded(disk, path, "out"), driver.expected)
                  ELSE driver.expected
  IN /\ Replaying /\ driver.todo # <<>> /\ item.how # "none"
     /\ \E ok \in IF Compared(item) THEN Verdicts(actual, expected) ELSE {TRUE} :
          driver' = [driver EXCEPT
            !.todo = Tail(@),
            !.x = IF item.how = "call" THEN @ ELSE [@ EXCEPT ![s] = x],
            !.v = ValueSet(case, item.table, x, @),
            !.expected = expected,
            !.failed = @ + Failures(item, x, ok),
            !.replayed = Append(@, [table |-> item.table, x |-> x])]
     /\ UNCHANGED <<case, run, script, working, lib, disk, state, log, faults, refused>>

NoCalls ==
  /\ Replaying /\ driver.todo # <<>> /\ Head(driver.todo).how = "none"
  /\ driver' = [driver EXCEPT !.todo = Tail(@), !.failed = @ + 1]
  /\ UNCHANGED <<case, run, script, working, lib, disk, state, log, faults, refused>>

\* All is replayed, or there is no driver.
Over ==
  /\ Replayed \/ (run = MaxRuns /\ AllIdle /\ script = <<>> /\ ~case.plan.built)
  /\ UNCHANGED vars

Next ==
  \/ StartRun \/ StartBatch \/ Crash
  \/ \E w \in Workers : Before(w) \/ After(w) \/ Record(w) \/ EndCapture(w) \/ CallOf(w)
  \/ StartDriver \/ ReplayCall \/ NoCalls
  \/ Over

Spec == Init /\ [][Next]_vars

-----------------------------------------------------------------------------
\* Types; the group of a file is current only while the file is open, and no
\* table counts more calls than were begun.
TypeOK ==
  /\ run \in 0..MaxRuns
  /\ DOMAIN lib.counts \subseteq Tables /\ Cardinality(DOMAIN lib.counts) <= MaxTables
  /\ lib.path \in Paths \cup {NoPath}
  /\ lib.group \in Groups \cup {"none"}
  /\ lib.path = NoPath <=> lib.group = "none"
  /\ \A t \in DOMAIN lib.counts : lib.counts[t] \in 1..MaxCalls
  /\ faults.count \in 0..MaxFaults
  /\ driver.failed \in Nat

\* Calls of one batch overlap: the library keeps one open file, and one
\* current call of a table.
Together(a, b) == a # b /\ a[1] = b[1] /\ a[2] = b[2]

\* The inputs and the results in a file are those of one call of one run,
\* whatever files earlier runs have left and whatever fails: unless its
\* creation was refused while an unfinished file of that name was left, or
\* calls overlapped.
FilesHoldOneCall ==
  \A p \in Paths :
    LET a == disk[p].contents["in"].by
        b == disk[p].contents["out"].by
    IN <<>> \notin {a, b} =>
         \/ a = b
         \/ Together(a, b)
         \/ a[1] < b[1] /\ <<b[1], p>> \in refused

CallsOf(table) == SelectSeq(log, LAMBDA e : e.table = table)
CapturedCalls == {t \in Captured(case) : CallsOf(t) # <<>>}

\* The last run was captured without failures, with calls one at a time, and
\* with no more tables than the library can count.
CapturedWell ==
  /\ ~faults.here
  /\ \A i, j \in DOMAIN log : ~Together(log[i].id, log[j].id)
  /\ Cardinality(CapturedCalls) <= MaxTables

Inputs(entries) == [i \in DOMAIN entries |-> entries[i].x]
ReplayedOf(table) == SelectSeq(driver.replayed, LAMBDA e : e.table = table)

\* The driver replays the calls of the last run, each table's in their order;
\* what it replays beyond them an earlier run has left in the directory.
ReplayFollowsRun ==
  Replayed /\ CapturedWell =>
    \A t \in Captured(case) \ {Registration} :
      /\ IsPrefix(Inputs(CallsOf(t)), Inputs(ReplayedOf(t)))
      /\ \A n \in Len(CallsOf(t)) + 1..Len(ReplayedOf(t)) :
           disk[<<t, n>>].contents["in"].by # <<>> => disk[<<t, n>>].contents["in"].by[1] < run

\* Every table of the driver was called, no call failed, no table has files
\* left by an earlier run, and constituents were registered once at most.
Complete ==
  /\ \A t \in ToSet(DriverTables(case)) : CallsOf(t) # <<>>
  /\ \A i \in DOMAIN log : ~Fails(log[i].x)
  /\ \A t \in Captured(case) : CallCount(disk, t) = Len(CallsOf(t))
  /\ Len(CallsOf(Registration)) <= 1

\* The run called the setups, and then the scheme's phases in lifecycle order.
Rank(table) ==
  IF table \in Setups(case) THEN 0 ELSE CHOOSE p \in DOMAIN Phases : Phases[p] = table[2]
InOneLife ==
  \A i, j \in DOMAIN log :
    i < j /\ {log[i].table, log[j].table} \subseteq Requested(case) \cup Setups(case) =>
      Rank(log[i].table) <= Rank(log[j].table)

\* Replaying the phases together, in lifecycle order, is what makes the
\* comparison meaningful: the scheme that was captured passes.
ReplayReproduces ==
  /\ Replayed /\ driver.impl = "same"
  /\ CapturedWell /\ Complete /\ InOneLife /\ case.plan.settersReplayed
  => driver.failed = 0

\* If all tests pass, the scheme under test does what the captured one did on
\* every call of the last run that is on file whole and is replayed, however
\* the other captures failed.
PassMeansAgreed ==
  Replayed /\ driver.failed = 0 =>
    \A i \in DOMAIN log :
      LET e == log[i]
          Holds(p, g, value) == Recorded(disk, p, g) = Content(e.id, value)
      IN (/\ e.table \in Own \cap Captured(case)
          /\ \E n \in 1..CallCount(disk, e.table) :
               Holds(<<e.table, n>>, "in", e.x) /\ Holds(<<e.table, n>>, "out", e.y))
         => e.y = Output(case, driver.impl, e.table, e.x, e.v, e.k)
=============================================================================

---------------------------- MODULE CaptureFiles ----------------------------
(***************************************************************************)
(* The runtime library of the capture (ccpp_capture_mod): one file for each *)
(* call of a table, with the arguments before the call in group `in' and    *)
(* after it in group `out'.  The library keeps a counter per table and one  *)
(* open file.  Each operation gives the library and the files it leaves; an *)
(* operation of NetCDF may fail, which is reported and otherwise ignored.   *)
(***************************************************************************)
EXTENDS Naturals, Sequences, FiniteSets

CONSTANTS Tables,     \* the tables that may be captured
          MaxTables,  \* the capacity of the table of counters
          MaxCalls    \* the calls of a table in one run of the model

ASSUME CaptureAssumption == MaxTables \in Nat \ {0} /\ MaxCalls \in Nat \ {0}

\* What a group holds of its one argument: the call that wrote it, and its
\* value.  A variable that is defined but not written has the fill value.
Content(call, value) == [by |-> call, value |-> value]
Nothing == Content(<<>>, <<>>)
Fill == <<"fill">>

Paths == Tables \X (1..MaxCalls)
NoPath == <<>>

Groups == {"in", "out"}
File(state, groups) ==
  [state |-> state, groups |-> groups, contents |-> [g \in Groups |-> Nothing]]
Absent == File("absent", {})

Library == [counts |-> <<>>, path |-> NoPath, group |-> "none"]

\* Mutant: the group being written is not forgotten.
EndKeepingGroup(lib) == [lib EXCEPT !.path = NoPath]

\* ccpp_capture_end: close the open file, if any.
End(lib) == [lib EXCEPT !.path = NoPath, !.group = "none"]

Full(lib, table) ==
  table \notin DOMAIN lib.counts /\ Cardinality(DOMAIN lib.counts) >= MaxTables

CurrentCall(lib, table) ==
  IF table \in DOMAIN lib.counts THEN lib.counts[table] ELSE 0
NextCall(lib, table) == CurrentCall(lib, table) + 1

\* The table's counter is raised, or added with 1.
Counting(lib, table) ==
  [t \in DOMAIN lib.counts \cup {table} |->
     IF t = table THEN NextCall(lib, table) ELSE lib.counts[t]]

State(lib, disk) == [lib |-> lib, disk |-> disk]
Opened(lib, path, group) == [lib EXCEPT !.path = path, !.group = group]

\* The outcomes of creating a file: refused, or left without groups, or with
\* `out' alone, which is made first.
Creations == {"made", "refused", "bare", "half"}

CreateAt(lib, disk, path, outcome) ==
  CASE outcome = "refused" -> State(lib, disk)
    [] outcome = "bare" -> State(lib, [disk EXCEPT ![path] = File("closed", {})])
    [] outcome = "half" -> State(lib, [disk EXCEPT ![path] = File("closed", {"out"})])
    [] outcome = "made" -> State(Opened(lib, path, "in"),
                                 [disk EXCEPT ![path] = File("closed", Groups)])

\* Begin `before': count the call and create its file, over any old one.
BeginBefore(lib, disk, table, outcome) ==
  IF Full(lib, table) THEN State(End(lib), disk)
  ELSE CreateAt([End(lib) EXCEPT !.counts = Counting(lib, table)],
                disk, <<table, NextCall(lib, table)>>, outcome)

\* Mutant: `after' opens the file of the next call.
ReopenNext(lib, disk, table, outcome) ==
  LET path == <<table, NextCall(lib, table)>>
  IN State(IF path \in Paths /\ disk[path].state = "closed" /\ "out" \in disk[path].groups
           THEN Opened(End(lib), path, "out") ELSE End(lib), disk)

\* Begin `after': reopen the file of the table's current call.
BeginAfter(lib, disk, table, outcome) ==
  LET path == <<table, CurrentCall(lib, table)>>
  IN State(IF /\ CurrentCall(lib, table) > 0
              /\ outcome = "made"
              /\ disk[path].state = "closed"
              /\ "out" \in disk[path].groups
           THEN Opened(End(lib), path, "out") ELSE End(lib), disk)

\* The outcomes of writing a variable: refused, or defined and not filled.
Writings == {"made", "refused", "unfilled"}

\* A variable is defined in the current group, where its name must be new.
CanDefine(lib, disk, outcome) ==
  /\ lib.path # NoPath /\ lib.group # "none" /\ outcome # "refused"
  /\ disk[lib.path].contents[lib.group] = Nothing

\* ccpp_capture: define and write a variable.
Write(lib, disk, content, outcome) ==
  IF ~CanDefine(lib, disk, outcome) THEN disk
  ELSE [disk EXCEPT ![lib.path].contents[lib.group] =
          IF outcome = "unfilled" THEN [content EXCEPT !.value = Fill] ELSE content]

\* The process dies: an open file is left unreadable or as it is.
Abandoned(lib, disk, torn) ==
  IF lib.path # NoPath /\ torn THEN [disk EXCEPT ![lib.path].state = "torn"] ELSE disk

-----------------------------------------------------------------------------
(* Reading.                                                                *)

\* What a driver finds in a group of a call's file; nothing if the file
\* cannot be opened or has no such variable.
Recorded(disk, path, group) ==
  IF disk[path].state = "closed" THEN disk[path].contents[group] ELSE Nothing

Exists(disk, table, n) == disk[<<table, n>>].state # "absent"

\* Mutant: the last call is not replayed.
CountBeforeLast(disk, table) ==
  CHOOSE n \in 0..MaxCalls :
    /\ \A i \in 1..n : i < MaxCalls /\ Exists(disk, table, i + 1)
    /\ n + 1 < MaxCalls => ~Exists(disk, table, n + 2)

\* ccpp_capture_call_count: the files of a table up to the first gap.
CallCount(disk, table) ==
  CHOOSE n \in 0..MaxCalls :
    /\ \A i \in 1..n : Exists(disk, table, i)
    /\ n < MaxCalls => ~Exists(disk, table, n + 1)
=============================================================================

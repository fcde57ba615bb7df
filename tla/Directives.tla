----------------------------- MODULE Directives -----------------------------
(***************************************************************************)
(* What the OpenACC data directives and clauses the generator emits do to  *)
(* one array that may have a copy in host memory and one on the device.    *)
(* The runtime is external: it is modelled by the rules the source's       *)
(* comments rely on (reference counts, present as an assertion).           *)
(* A value is either the newest one or not, so a copy is the set of the    *)
(* parts of the array of which it holds the newest value.                  *)
(***************************************************************************)
EXTENDS Integers, Sequences

CONSTANT Parts          \* the column chunks an array is divided into

Spaces == {"host", "device"}

Memory == [newest : [Spaces -> SUBSET Parts],  \* per copy, the parts up to date
           held   : Nat,                       \* the device copy's reference count
           fault  : BOOLEAN]                   \* a directive or kernel found no data

OnDevice(m) == m.held > 0

Faulted(m) == [m EXCEPT !.fault = TRUE]

\* The copy in `to` takes the parts `ps` from the copy in `from`.
Moved(m, from, to, ps) ==
  [m EXCEPT !.newest[to] = (@ \ ps) \cup (m.newest[from] \cap ps)]

Allocated(m) == [m EXCEPT !.held = 1, !.newest["device"] = {}]

Released(m) == [m EXCEPT !.held = 0, !.newest["device"] = {}]

Retained(m) == [m EXCEPT !.held = @ + 1]

\* enter data copyin / create, and the start of a structured data region
Entered(m, copyin, ps) ==
  IF OnDevice(m) THEN Retained(m)
  ELSE IF copyin THEN Moved(Allocated(m), "host", "device", ps) ELSE Allocated(m)

\* exit data copyout / delete, and the end of a structured data region: only
\* the last release moves data
Exited(m, copyout, ps) ==
  IF m.held > 1 THEN [m EXCEPT !.held = @ - 1]
  ELSE IF m.held = 0 THEN Faulted(m)
  ELSE IF copyout THEN Released(Moved(m, "device", "host", ps)) ELSE Released(m)

UpdatedSelf(m, ps) == IF OnDevice(m) THEN Moved(m, "device", "host", ps) ELSE Faulted(m)

UpdatedDevice(m, ps) == IF OnDevice(m) THEN Moved(m, "host", "device", ps) ELSE Faulted(m)

AssertedPresent(m) == IF OnDevice(m) THEN m ELSE Faulted(m)

\* A computation in one memory space that may write the parts `ps`.
Computed(m, space, writes, ps) ==
  IF space = "device" /\ ~OnDevice(m) THEN Faulted(m)
  ELSE IF ~writes THEN m
  ELSE [m EXCEPT !.newest = [s \in Spaces |-> IF s = space THEN @[s] \cup ps ELSE @[s] \ ps]]

-----------------------------------------------------------------------------
(* A generated program is a sequence of these instructions.                *)

Directives == {"enter copyin", "enter create", "exit copyout", "exit delete",
               "update self", "update device", "present"}

Instruction(op, ps) == [op |-> op, parts |-> ps]

Effect(m, i) ==
  CASE i.op = "enter copyin"  -> Entered(m, TRUE, i.parts)
    [] i.op = "enter create"  -> Entered(m, FALSE, i.parts)
    [] i.op = "exit copyout"  -> Exited(m, TRUE, i.parts)
    [] i.op = "exit delete"   -> Exited(m, FALSE, i.parts)
    [] i.op = "update self"   -> UpdatedSelf(m, i.parts)
    [] i.op = "update device" -> UpdatedDevice(m, i.parts)
    [] i.op = "present"       -> AssertedPresent(m)
=============================================================================

---------------------------- MODULE ColumnChunks ----------------------------
(***************************************************************************)
(* Which part of an array a scheme gets.  A host runs its columns in        *)
(* chunks; the host cap hands each function of the suite the columns of the *)
(* chunk at hand, the suite cap takes the same of its own arrays, calls a   *)
(* scheme that knows no levels once for each, and tells the schemes how     *)
(* many columns and levels there are.  Each extent is looked for by its     *)
(* standard name, in several places, under names taken to be equivalent.    *)
(*                                                                         *)
(* A case is one array x of the run and timestep_init phases and the        *)
(* metadata about it:                                                      *)
(*   home     the host (a module or a member of a structure), the cap       *)
(*            (constituents), or the suite itself                          *)
(*   dims     its dimensions: the columns and, if any, the levels           *)
(*   modules  the extents the host has in modules; others it passes itself  *)
(*   passes   the host declares the bounds of the chunk                    *)
(*   schemes  in order: phase, dimensions of x, extents taken as scalar     *)
(*            arguments, intent                                            *)
(***************************************************************************)
EXTENDS Naturals, Sequences, FiniteSets, SequencesExt

CONSTANTS Cases, Columns, Layers,
          Chunkings  \* ways to divide the columns: sets of <<first, last>>

ASSUME SizesAssumption == Columns \in Nat \ {0} /\ Layers \in Nat \ {0}
ASSUME ChunkingsAssumption ==
  \A chunking \in Chunkings : \A col \in 1..Columns :
    Cardinality({chunk \in chunking : col \in chunk[1]..chunk[2]}) = 1

(* The extents by their standard names: horizontal_dimension,               *)
(* horizontal_loop_extent, vertical_layer_ and vertical_interface_dimension.*)
Full == [hd |-> Columns, le |-> Columns, lay |-> Layers, int |-> Layers + 1]

Compatible(d, e) == d = e \/ {d, e} \subseteq {"hd", "le"} \/ {d, e} \subseteq {"lay", "int"}

Near(dim) == {n \in DOMAIN Full : Compatible(n, dim)}

WidthExclusive(chunk) == chunk[2] - chunk[1]
Width(chunk) == chunk[2] - chunk[1] + 1
Whole == <<1, Columns>>

InPhase(c, phase) == SelectSeq(c.schemes, LAMBDA s : s.phase = phase)

(* The match with the host accepts equivalent names, and fewer dimensions:  *)
(* the scheme is then called level by level.                               *)
DimsMatch(c, s) ==
  /\ Len(s.dims) <= Len(c.dims)
  /\ \A d \in DOMAIN s.dims : Compatible(s.dims[d], c.dims[d])
Promoted(c, s) == Len(s.dims) < Len(c.dims)

-----------------------------------------------------------------------------
(* The suite's function of a phase.  An extent is found or is 0.            *)
Extents(c, phase) ==
  FlattenSeq([i \in DOMAIN InPhase(c, phase) |-> InPhase(c, phase)[i].scalars])

(* The loop extent is replaced by the bounds of the chunk.                  *)
TakesBounds(c, phase) == "le" \in ToSet(Extents(c, phase))
Bounds(c, phase) == c.passes \/ TakesBounds(c, phase)

ScalarTotal(c, phase, name, chunk) == IF name = "le" THEN Width(chunk) ELSE Full[name]

(* A total that is the host module's is replaced by the chunk's width on    *)
(* the way; one the host passes arrives as it is.                          *)
ScalarValue(c, phase, name, chunk) ==
  IF \/ name = "le"
     \/ name = "hd" /\ "hd" \in c.modules /\ Bounds(c, phase)
  THEN Width(chunk) ELSE Full[name]

FirstFound(extents) ==
  LET found == SelectSeq(extents, LAMBDA e : e # 0) IN IF found = <<>> THEN 0 ELSE found[1]

Argument(c, phase, chunk, names) ==
  LET taken == SelectSeq(Extents(c, phase), LAMBDA n : n \in names)
  IN  IF taken = <<>> THEN 0 ELSE ScalarValue(c, phase, taken[1], chunk)
Module(c, names) ==
  IF c.modules \cap names = {} THEN 0 ELSE Full[CHOOSE n \in c.modules \cap names : TRUE]

(* _find_loop_upper_bound: an argument of the very name, then of a          *)
(* compatible one, a module variable likewise, the size of an array at hand.*)
FindExact(c, phase, chunk, dim) ==
  FirstFound(<<Argument(c, phase, chunk, {dim}), Module(c, {dim})>>)
FindBound(c, phase, chunk, dim, size) ==
  FirstFound(<<Argument(c, phase, chunk, {dim}), Argument(c, phase, chunk, Near(dim)),
               Module(c, {dim}), Module(c, Near(dim)), size>>)

(* Mutant: the total is not looked for ahead of equivalents.               *)
AllocExtentAnyName(c, phase, chunk, dim) ==
  FirstFound(<<Argument(c, phase, chunk, Near(dim)), FindBound(c, phase, chunk, dim, 0)>>)

(* The extents a suite's own array is allocated with: all columns, if their *)
(* number is known.                                                        *)
AllocExtent(c, phase, chunk, dim) ==
  IF dim \in Near("hd")
  THEN FirstFound(<<FindExact(c, phase, chunk, "hd"), FindBound(c, phase, chunk, "hd", 0)>>)
  ELSE FirstFound(<<Argument(c, phase, chunk, Near(dim)), FindBound(c, phase, chunk, dim, 0)>>)

AllocExtents(c, phase, chunk) ==
  [d \in DOMAIN c.dims |-> AllocExtent(c, phase, chunk, c.dims[d])]
Allocates(c, phase, chunk) == 0 \notin ToSet(AllocExtents(c, phase, chunk))

(* The generator makes the allocation in the initialize function if it can, *)
(* else in the first function it generates that uses the array.             *)
AllocatedIn(c) ==
  CASE Allocates(c, "initialize", Whole) -> "initialize"
    [] ~Allocates(c, "initialize", Whole) /\ InPhase(c, "run") # <<>> /\ Allocates(c, "run", Whole) -> "run"
    [] OTHER -> "timestep_init"

-----------------------------------------------------------------------------
(* Parts of an array: a first column, and how many columns and levels.      *)
Part(first, rows, levels) == [first |-> first, rows |-> rows, levels |-> levels]

(* The host cap cuts the columns out if all other extents are variables of  *)
(* host modules.  The constituents have the dimensions the first scheme     *)
(* gives them.                                                             *)
SectionDims(c, phase) == IF c.home = "cap" THEN InPhase(c, phase)[1].dims ELSE c.dims
Sectioned(c, phase) ==
  /\ Bounds(c, phase)
  /\ \A d \in 2..Len(SectionDims(c, phase)) : SectionDims(c, phase)[d] \in c.modules
HostPartFromFirst(c, phase, chunk, size) == Part(1, IF Bounds(c, phase) THEN Width(chunk) ELSE size[1], size[2])
HostPart(c, phase, chunk, size) ==
  IF Sectioned(c, phase)
  THEN Part(chunk[1], Width(chunk),
            IF Len(SectionDims(c, phase)) = 1 THEN 1 ELSE Full[SectionDims(c, phase)[2]])
  ELSE Part(1, size[1], size[2])

(* The suite cap cuts its own arrays if the function takes the bounds.      *)
OwnPart(c, phase, chunk, size) ==
  IF TakesBounds(c, phase)
  THEN Part(chunk[1], Width(chunk),
            IF Len(c.dims) = 2 /\ c.dims[2] \in ToSet(Extents(c, phase)) THEN Full[c.dims[2]] ELSE size[2])
  ELSE Part(1, size[1], size[2])

PartOf(c, phase, chunk, size) ==
  IF c.home = "suite" THEN OwnPart(c, phase, chunk, size) ELSE HostPart(c, phase, chunk, size)

(* What a scheme is told, or takes from the array it gets.                  *)
Told(c, s, chunk, names, size) ==
  LET taken == SelectSeq(s.scalars, LAMBDA n : n \in names)
  IN  IF taken = <<>> THEN size ELSE ScalarValue(c, s.phase, taken[1], chunk)

(* A promoted scheme gets the leading columns of one level.                *)
ColumnsAtLevel(c, s, chunk, part) ==
  FindBound(c, s.phase, chunk, "hd", part.rows)

RowsGiven(c, s, chunk, part) ==
  IF Promoted(c, s) THEN ColumnsAtLevel(c, s, chunk, part) ELSE part.rows

(* The rows a scheme uses, and the levels.                                 *)
RowsUsed(c, s, chunk, part) == 1..Told(c, s, chunk, Near("hd"), RowsGiven(c, s, chunk, part))
LevelsUsed(c, s, chunk, part, level) ==
  CASE level # 0 -> {level}
    [] level = 0 /\ Len(s.dims) = 1 -> {1}
    [] OTHER -> 1..Told(c, s, chunk, {s.dims[2]}, part.levels)

(* The calls of a function: neighbours that are promoted share a loop over  *)
(* the levels.  If their number is not found there is none.                 *)
LevelCount(c, phase, chunk, part) ==
  FindBound(c, phase, chunk, c.dims[2],
            IF Promoted(c, InPhase(c, phase)[1]) THEN 0 ELSE part.levels)

Grouped(c, phase) ==
  LET Join(out, s) ==
        IF out # <<>> /\ Promoted(c, s) /\ Promoted(c, Last(Last(out)))
        THEN [out EXCEPT ![Len(out)] = Append(@, s)] ELSE Append(out, <<s>>)
  IN  FoldLeft(Join, <<>>, InPhase(c, phase))

CallsOf(c, phase, chunk, part) ==
  LET call(scheme, level) == [scheme |-> scheme, level |-> level, chunk |-> chunk, part |-> part]
      each(group, level) == [i \in DOMAIN group |-> call(group[i], level)]
      levels == LevelCount(c, phase, chunk, part)
      calls(group) ==
        IF Promoted(c, group[1]) /\ levels # 0
        THEN FlattenSeq([k \in 1..levels |-> each(group, k)]) ELSE each(group, 0)
  IN  FlattenSeq([g \in DOMAIN Grouped(c, phase) |-> calls(Grouped(c, phase)[g])])

-----------------------------------------------------------------------------
VARIABLES case, chunking,
          k,      \* the phase: an index of Life
          todo,   \* the chunks of the phase still to run
          calls,  \* the scheme calls of this chunk still to make
          x,      \* the array
          truth,  \* the last value written for each column and level
          read,   \* what the last call found where another value belongs
          fault   \* an element has been used that is not there

vars == <<case, chunking, k, todo, calls, x, truth, read, fault>>

Life == <<"timestep_init", "run", "run">>

Grid(rows, levels) == (1..rows) \X (1..levels)
Depth(c) == IF Len(c.dims) = 1 THEN 1 ELSE Full[c.dims[2]]
Cells(c) == Grid(Columns, Depth(c))
Unwritten == <<0, 0, 0>>
Allocated == x # <<>>
Size == LET last == CHOOSE cell \in DOMAIN x : \A e \in DOMAIN x : e[1] <= cell[1] /\ e[2] <= cell[2]
        IN  last

(* A value is the column and level it belongs to, and a counter.            *)
HostValues(c) == [cell \in Cells(c) |-> <<cell[1], cell[2], 0>>]

Init ==
  /\ case \in Cases
  /\ chunking \in (IF Bounds(case, "run") THEN Chunkings ELSE {{Whole}})
  /\ k = 0
  /\ todo = {}
  /\ calls = <<>>
  /\ x = IF case.home # "suite" THEN HostValues(case)
         ELSE IF AllocatedIn(case) = "initialize"
              THEN LET e == AllocExtents(case, "initialize", Whole)
                   IN  [cell \in Grid(e[1], IF Len(e) = 1 THEN 1 ELSE e[2]) |-> Unwritten]
              ELSE <<>>
  /\ truth = IF case.home # "suite" THEN HostValues(case) ELSE [cell \in Cells(case) |-> Unwritten]
  /\ read = {}
  /\ fault = FALSE

(* The host calls timestep_init once, and run for each chunk in any order.  *)
EnterPhase ==
  /\ todo = {} /\ calls = <<>> /\ ~fault
  /\ k < Len(Life)
  /\ k' = k + 1
  /\ todo' = IF Life[k'] = "run" THEN chunking ELSE {Whole}
  /\ read' = {}
  /\ UNCHANGED <<case, chunking, calls, x, truth, fault>>

(* A suite's array is allocated by the first call of the function that has  *)
(* its allocation.                                                         *)
EnterFunction ==
  /\ todo # {} /\ calls = <<>> /\ ~fault
  /\ InPhase(case, Life[k]) # <<>>
  /\ \E chunk \in todo :
       LET e == AllocExtents(case, Life[k], chunk)
       IN  /\ todo' = todo \ {chunk}
           /\ x' = IF ~Allocated /\ AllocatedIn(case) = Life[k]
                   THEN [cell \in Grid(e[1], IF Len(e) = 1 THEN 1 ELSE e[2]) |-> Unwritten] ELSE x
           /\ IF x' = <<>> THEN fault' = TRUE /\ calls' = <<>>
              ELSE /\ calls' = CallsOf(case, Life[k], chunk, PartOf(case, Life[k], chunk, Size'))
                   /\ UNCHANGED fault
  /\ UNCHANGED <<case, chunking, k, truth, read>>

SkipPhase ==
  /\ todo # {}
  /\ InPhase(case, Life[k]) = <<>>
  /\ todo' = {}
  /\ UNCHANGED <<case, chunking, k, calls, x, truth, read, fault>>

(* One scheme call: it uses rows and levels of what it got, and takes the   *)
(* first row for the first column of the chunk.                            *)
CallScheme ==
  /\ calls # <<>> /\ ~fault
  /\ LET call == calls[1]
         s == call.scheme
         used == RowsUsed(case, s, call.chunk, call.part)
                   \X LevelsUsed(case, s, call.chunk, call.part, call.level)
         at(e) == <<call.part.first + e[1] - 1, e[2]>>
         meant(e) == <<call.chunk[1] + e[1] - 1, e[2]>>
         there(e) == e[1] <= call.part.rows /\ e[2] <= call.part.levels /\ at(e) \in DOMAIN x
         own == {cell \in Cells(case) :
                   /\ cell[1] \in call.chunk[1]..call.chunk[2]
                   /\ call.level # 0 => cell[2] = call.level}
         stamp == Len(calls) + 100 * k
     IN  IF (Promoted(case, s) /\ call.level = 0) \/ \E e \in used : ~there(e)
           THEN fault' = TRUE /\ UNCHANGED <<x, truth, read>>
           ELSE /\ UNCHANGED fault
                /\ read' = IF s.intent = "out" THEN {}
                           ELSE {e \in used : meant(e) \in DOMAIN truth => /\ truth[meant(e)] # Unwritten
                                                                        /\ x[at(e)] # truth[meant(e)]}
                /\ IF s.intent = "in" THEN UNCHANGED <<x, truth>>
                   ELSE /\ x' = [cell \in DOMAIN x |->
                                  LET here == {e \in used : at(e) = cell}
                                  IN  IF here = {} THEN x[cell]
                                      ELSE LET m == meant(CHOOSE e \in here : TRUE) IN <<m[1], m[2], stamp>>]
                        /\ truth' = [cell \in DOMAIN truth |->
                                      IF cell \in own THEN <<cell[1], cell[2], stamp>> ELSE truth[cell]]
  /\ calls' = Tail(calls)
  /\ UNCHANGED <<case, chunking, k, todo>>

Next == EnterPhase \/ EnterFunction \/ SkipPhase \/ CallScheme

Spec == Init /\ [][Next]_vars
-----------------------------------------------------------------------------
(* Metadata the generator accepts and gets wrong, told from the names alone  *)
(* and not from the extents computed above.                                 *)
UsedIn(c) == {phase \in ToSet(Life) : InPhase(c, phase) # <<>>}
Deep(c) == Len(c.dims) = 2
Taken(c, phase) == ToSet(Extents(c, phase))

(* The host has an extent of the array in no module, and passes it: the     *)
(* array is not cut.                                                       *)
NotCut(c) ==
  /\ c.home # "suite" /\ "run" \in UsedIn(c) /\ Bounds(c, "run")
  /\ \E d \in 2..Len(SectionDims(c, "run")) : SectionDims(c, "run")[d] \notin c.modules

(* It passes the total number of columns, for the width of the chunk.       *)
TotalPassed(c) == "hd" \in Taken(c, "run") \ c.modules

(* No scheme of the function takes a number of columns: a level is cut to   *)
(* the total.                                                              *)
LevelsCutToTotal(c) ==
  /\ \E s \in ToSet(InPhase(c, "run")) : Promoted(c, s)
  /\ Taken(c, "run") \cap Near("hd") = {}
  /\ "hd" \in c.modules

(* None takes the loop extent: a suite's own array is not cut.              *)
OwnNotCut(c) == c.home = "suite" /\ c.passes /\ ~TakesBounds(c, "run")

(* A function can allocate the array if a module has, or a scheme of it     *)
(* takes, an equivalent of each extent; the initialize function has modules *)
(* only.                                                                   *)
WithinReach(c, phase) ==
  \A d \in DOMAIN c.dims : Near(c.dims[d]) \cap (Taken(c, phase) \cup c.modules) # {}
LeftToRun(c) ==
  /\ c.home = "suite" /\ "run" \in UsedIn(c)
  /\ ~WithinReach(c, "initialize") /\ WithinReach(c, "run")
LeftToTimestepInit(c) ==
  c.home = "suite" /\ ~WithinReach(c, "initialize") /\ ~LeftToRun(c)

(* The suite's own array is sized by the first chunk: the total is at hand  *)
(* neither in a module nor as an argument, or on the way to the argument it *)
(* has been replaced.                                                      *)
SizedByChunk(c) ==
  /\ LeftToRun(c)
  /\ IF "hd" \in Taken(c, "run") THEN "hd" \in c.modules /\ Bounds(c, "run") ELSE "hd" \notin c.modules

(* The first equivalent of its levels that the function takes is another    *)
(* dimension, or it takes none and the modules have another only.           *)
LevelsNamedByOther(c, phase) ==
  LET taken == SelectSeq(Extents(c, phase), LAMBDA n : n \in Near(c.dims[2]))
  IN  IF taken = <<>> THEN c.dims[2] \notin c.modules ELSE taken[1] # c.dims[2]
SizedByOther(c) ==
  /\ c.home = "suite" /\ Deep(c)
  /\ LevelsNamedByOther(c, CASE LeftToRun(c) -> "run" [] LeftToTimestepInit(c) -> "timestep_init"
                            [] OTHER -> "initialize")

(* It is not allocated at all (the generator warns), or only once used.     *)
NeverAllocated(c) ==
  c.home = "suite" /\ \A phase \in {"initialize"} \cup UsedIn(c) : ~WithinReach(c, phase)
AllocatedLate(c) ==
  (LeftToRun(c) \/ LeftToTimestepInit(c)) /\ "timestep_init" \in UsedIn(c)

(* The levels to loop over are not taken by their name, and found under     *)
(* another, or not at all.                                                 *)
LevelsMiscounted(c) ==
  \E phase \in UsedIn(c) : \E s \in ToSet(InPhase(c, phase)) :
    LET others == Near(c.dims[2]) \ {c.dims[2]}
    IN  /\ Promoted(c, s)
        /\ c.dims[2] \notin Taken(c, phase)
        /\ \/ others \cap Taken(c, phase) # {}
           \/ /\ c.dims[2] \notin c.modules
              /\ others \cap c.modules # {} \/ Promoted(c, InPhase(c, phase)[1])
LevelsTakenForOthers(c) ==
  \E s \in ToSet(c.schemes) : Len(s.dims) = 2 /\ s.dims[2] # c.dims[2]

WindowLost(c) ==
  \/ NotCut(c) \/ TotalPassed(c) \/ LevelsCutToTotal(c) \/ OwnNotCut(c)
  \/ SizedByChunk(c) \/ SizedByOther(c) \/ NeverAllocated(c) \/ AllocatedLate(c)
  \/ LevelsMiscounted(c) \/ LevelsTakenForOthers(c)

(* In whatever order the chunks are run, a scheme uses only columns and     *)
(* levels that are in the part of the array it is given, and what it reads  *)
(* there as its n-th column was written for the n-th column of its chunk:   *)
(* the section, the count of columns, the size of the allocation and the    *)
(* loop over levels, each found in a way of its own, go together.           *)
ReadsOwnColumns == fault \/ read # {} => WindowLost(case)

(* When all chunks have been run, every column and level of an array of the *)
(* host or the cap has what its own chunk's schemes wrote last: none is     *)
(* left out between chunks or levels, none is written for another.         *)
KeepsEveryColumn ==
  case.home # "suite" /\ todo = {} /\ calls = <<>> /\ ~fault => x = truth \/ WindowLost(case)
=============================================================================

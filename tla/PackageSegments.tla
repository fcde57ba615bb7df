--------------------------- MODULE PackageSegments --------------------------
(***************************************************************************)
(* How a package's code is cut out of a suite (package_segments and        *)
(* lower_packages): the calls one entry-point call makes in a row become a *)
(* segment, a routine of the package cap, and the suite calls the segment. *)
(* Code the package runs through a hook belongs to the host and stays.     *)
(*                                                                         *)
(* A suite is a sequence of nodes: a scheme, a loop, an entry-point call of *)
(* the package, or a hook called inside one.  A node's path is the sequence *)
(* of positions that leads to it.  `has' gives the phases of each scheme.  *)
(***************************************************************************)
EXTENDS Naturals, SequencesExt, FiniteSets

Phases == <<"init", "run", "final">>

Node(t, name, count, body) == [t |-> t, name |-> name, count |-> count, body |-> body]
Scheme(s) == Node("scheme", s, 1, <<>>)
Loop(n, body) == Node("loop", "", n, body)
Entry(e, body) == Node("entry", e, 1, body)
Hook(body) == Node("hook", "", 1, body)
SegmentCall(phase, body) == Node("segment", phase, 1, body)
StateCreate == Node("state", "create", 1, <<>>)
StateDelete == Node("state", "delete", 1, <<>>)

-----------------------------------------------------------------------------
(* Segments.                                                               *)

\* The owner of a call is the entry-point call it belongs to, by its path, or
\* the host.
Host == <<>>

\* One group's calls in a phase, with their owners.  Loops are kept in the
\* run phase only.
RECURSIVE Items(_, _, _, _, _)
Items(nodes, at, has, phase, owner) ==
  LET ItemsOf(i) ==
        LET n == nodes[i]
            path == Append(at, i)
            inside == Items(n.body, path, has, phase,
                            CASE n.t = "entry" -> path [] n.t = "hook" -> Host [] OTHER -> owner)
        IN CASE n.t = "scheme" /\ phase \in has[n.name] ->
                  <<[t |-> "call", owner |-> owner, path |-> path, body |-> <<>>]>>
             [] n.t = "loop" /\ phase = "run" /\ inside # <<>> ->
                  <<[t |-> "loop", owner |-> owner, path |-> path, body |-> inside]>>
             [] OTHER -> inside
  IN FlattenSeq([i \in DOMAIN nodes |-> ItemsOf(i)])

RECURSIVE Owners(_)
Owners(item) ==
  IF item.t = "call" THEN {item.owner}
  ELSE UNION {Owners(item.body[i]) : i \in DOMAIN item.body}

RECURSIVE Segmented(_)

\* Mutant: a call of the host's does not end the segment before it.
SegmentedAcrossHost(items) ==
  LET Add(out, item) ==
        LET e == CHOOSE o \in Owners(item) : TRUE
        IN CASE e = Host -> out
             [] e # Host /\ out # <<>> /\ Last(out).owner = e ->
                  [out EXCEPT ![Len(out)].paths = Append(@, item.path)]
             [] OTHER -> Append(out, [owner |-> e, paths |-> <<item.path>>])
  IN FoldLeft(Add, <<>>, items)

\* The segments of a list of items.  A segment is the paths of its calls and
\* package-only loops; host code and a loop that is not one entry-point
\* call's alone end the segment before them (they are kept as <<>>).
Segmented(items) ==
  LET Extends(out, e) == out # <<>> /\ Last(out).owner = e
      Add(out, item) ==
        LET owners == Owners(item)
            e == CHOOSE o \in owners : TRUE
        IN CASE Cardinality(owners) = 1 /\ e # Host ->
                  IF Extends(out, e)
                  THEN [out EXCEPT ![Len(out)].paths = Append(@, item.path)]
                  ELSE Append(out, [owner |-> e, paths |-> <<item.path>>])
             [] item.t = "loop" /\ (Cardinality(owners) # 1 \/ e = Host) ->
                  Append(out \o Segmented(item.body), [owner |-> Host, paths |-> <<>>])
             [] OTHER -> Append(out, [owner |-> Host, paths |-> <<>>])
      Barrier == <<[owner |-> Host, paths |-> <<>>]>>
  IN FoldLeft(Add, Barrier, items)

InPhase(phase, found) ==
  [i \in DOMAIN found |-> [phase |-> phase, paths |-> found[i].paths]]

\* All segments of a suite, phase by phase.
SegmentsOf(tree, has) ==
  FlattenSeq([p \in DOMAIN Phases |->
    InPhase(Phases[p], SelectSeq(Segmented(Items(tree, <<>>, has, Phases[p], Host)),
                                 LAMBDA seg : seg.owner # Host))])

-----------------------------------------------------------------------------
(* Lowering: the suite with the segments' calls moved out.                 *)

RECURSIVE At(_, _)
At(nodes, path) ==
  IF Len(path) = 1 THEN nodes[path[1]] ELSE At(nodes[path[1]].body, Tail(path))

Moved(segments) == UNION {ToSet(segments[i].paths) : i \in DOMAIN segments}

Above(path) == {SubSeq(path, 1, i) : i \in 1..Len(path)}
Shortest(paths) == CHOOSE p \in paths : \A q \in paths : Len(p) <= Len(q)
OutermostMoved(path, moved) == Shortest(Above(path) \cap moved)

\* The package's entry-point calls still in the suite once what moved is
\* erased, in the order of the walk.
RECURSIVE EntryPaths(_, _, _)
EntryPaths(nodes, at, moved) ==
  FlattenSeq([i \in DOMAIN nodes |->
    LET path == Append(at, i)
    IN IF path \in moved THEN <<>>
       ELSE (IF nodes[i].t = "entry" THEN <<path>> ELSE <<>>)
            \o EntryPaths(nodes[i].body, path, moved)])

\* The loop directly around a call, if there is one, and so on outwards.
RECURSIVE OutsideLoops(_, _)
OutsideLoops(tree, path) ==
  IF Len(path) > 1 /\ At(tree, Front(path)).t = "loop"
  THEN OutsideLoops(tree, Front(path)) ELSE path

EntriesLeft(tree, has) == EntryPaths(tree, <<>>, Moved(SegmentsOf(tree, has)))

RECURSIVE SchemesIn(_)
SchemesIn(n) ==
  IF n.t = "scheme" THEN {n.name} ELSE UNION {SchemesIn(n.body[i]) : i \in DOMAIN n.body}

\* All schemes of what a segment takes over must have its phase; and with no
\* entry-point call left there is nowhere to put the state schemes.
GeneratesFor(tree, has, segments) ==
  /\ \A seg \in ToSet(segments) : \A p \in ToSet(seg.paths) :
       \A s \in SchemesIn(At(tree, p)) : seg.phase \in has[s]
  /\ segments # <<>> => EntryPaths(tree, <<>>, Moved(segments)) # <<>>
Generates(tree, has) == GeneratesFor(tree, has, SegmentsOf(tree, has))

\* The calls to the segments that begin at a node.
CallsAt(tree, segments, path) ==
  LET here == SelectSeq(segments,
                LAMBDA seg : OutermostMoved(seg.paths[1], Moved(segments)) = path)
  IN [k \in DOMAIN here |->
        SegmentCall(here[k].phase, [j \in DOMAIN here[k].paths |-> At(tree, here[k].paths[j])])]

RECURSIVE Rewritten(_, _, _, _, _, _)
Rewritten(nodes, at, tree, segments, first, last) ==
  LET Kept(i, path) ==
        IF path \in Moved(segments) THEN <<>>
        ELSE <<[nodes[i] EXCEPT !.body = Rewritten(@, path, tree, segments, first, last)]>>
      Place(i, path) ==
        (IF path = first THEN <<StateCreate>> ELSE <<>>)
        \o CallsAt(tree, segments, path) \o Kept(i, path)
        \o (IF path = last THEN <<StateDelete>> ELSE <<>>)
  IN FlattenSeq([i \in DOMAIN nodes |-> Place(i, Append(at, i))])

Brackets(tree, segments, first, last) ==
  IF segments = <<>> THEN tree
  ELSE Rewritten(tree, <<>>, tree, segments, OutsideLoops(tree, first), OutsideLoops(tree, last))

\* Mutant: the state is deleted behind the first entry-point call.
DeleteAfterFirst(tree, segments, entries) ==
  Brackets(tree, segments, Head(entries), Head(entries))

\* The package's state is created ahead of its first entry-point call and
\* deleted after its last one, outside loops.
WithState(tree, segments, entries) ==
  Brackets(tree, segments, Head(entries), Last(entries))

LowerFor(tree, segments) == WithState(tree, segments, EntryPaths(tree, <<>>, Moved(segments)))
LowerPackages(tree, has) == LowerFor(tree, SegmentsOf(tree, has))

\* A suite without its composites, in place.
RECURSIVE FlattenComposites(_)
FlattenComposites(nodes) ==
  FlattenSeq([i \in DOMAIN nodes |->
    LET inside == FlattenComposites(nodes[i].body)
    IN IF nodes[i].t \in {"entry", "hook"} THEN inside
       ELSE <<[nodes[i] EXCEPT !.body = inside]>>])

-----------------------------------------------------------------------------
(* Who calls a scheme (package_scope): the innermost entry-point call or    *)
(* hook around the call decides.                                           *)

RECURSIVE CallSites(_, _)
CallSites(nodes, byHost) ==
  UNION {LET n == nodes[i]
         IN CASE n.t = "scheme" -> {[scheme |-> n.name, byHost |-> byHost]}
              [] n.t = "entry" -> CallSites(n.body, FALSE)
              [] n.t = "hook" -> CallSites(n.body, TRUE)
              [] OTHER -> CallSites(n.body, byHost) : i \in DOMAIN nodes}
=============================================================================

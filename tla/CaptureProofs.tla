---------------------------- MODULE CaptureProofs ----------------------------
(***************************************************************************)
(* Theorems about Capture, for any tables, cases, workers, runs and         *)
(* failures: a file on disk holds the inputs and the results of one call.   *)
(***************************************************************************)
EXTENDS Capture, TLAPS

(***************************************************************************)
(* The inductive invariant, part by part.                                  *)
(***************************************************************************)
Calls == Nat \X Nat \X Workers
By(p, g) == disk[p].contents[g].by
Busy(w) == working[w].code # <<>>
Ended == AllIdle /\ script = <<>>

CallOnlyCodes == {<<>>, <<"call">>}
\* Statements that end in closing the file, with the capture of the inputs
\* to come, behind it, and behind the results.
Opening == {<<"call", "before", "in", "end">>, <<"before", "in", "end">>, <<"in", "end">>,
            <<"before", "in", "end", "call", "after", "out", "end">>}
Begun == {<<"in", "end", "call", "after", "out", "end">>, <<"end", "call", "after", "out", "end">>,
          <<"call", "after", "out", "end">>, <<"after", "out", "end">>}
Closing == {<<"out", "end">>, <<"end">>}
Ending == Opening \cup Begun \cup Closing

Shaped(d) ==
  /\ DOMAIN d = Paths
  /\ \A p \in Paths :
       /\ DOMAIN d[p] = {"state", "groups", "contents"}
       /\ DOMAIN d[p].contents = Groups
       /\ \A g \in Groups : DOMAIN d[p].contents[g] = {"by", "value"}

Shape ==
  /\ case \in Cases /\ run \in Nat /\ script \in Seq(Seq(Tables \X STRING))
  /\ DOMAIN working = Workers
  /\ \A w \in Workers : DOMAIN working[w] = {"id", "table", "x", "y", "code"}
  /\ DOMAIN lib = {"counts", "path", "group"}
  /\ \A t \in DOMAIN lib.counts : lib.counts[t] \in Nat \ {0}
  /\ Shaped(disk)
  /\ \A p \in Paths, g \in Groups : By(p, g) \in Calls \cup {<<>>}

(* Workers that are busy do the calls of one batch of the run.              *)
OneBatch ==
  /\ \A w \in Workers : working[w].code \in Ending \cup CallOnlyCodes
  /\ \A w \in Workers : Busy(w) => working[w].id \in Calls /\ working[w].id[1] = run
  /\ \A v, w \in Workers : Busy(v) /\ Busy(w) => working[v].id[2] = working[w].id[2]

Written(p, g) == By(p, g) # <<>>
InRun(p, g) == Written(p, g) /\ By(p, g)[1] = run
CountedFile(p) == p[1] \in DOMAIN lib.counts /\ p[2] <= lib.counts[p[1]]
\* What the run wrote to a file was written by calls of w's batch.
OfBatch(w, p) == \A g \in Groups : InRun(p, g) => By(p, g)[2] = working[w].id[2]

(* While a run goes on, the files it wrote are those it counts.             *)
Counted ==
  \A p \in Paths, g \in Groups :
    /\ Written(p, g) => By(p, g)[1] <= run
    /\ InRun(p, g) /\ ~Ended => CountedFile(p)

(* The open file is a file of this batch, and will be closed.               *)
OpenFile ==
  lib.path # NoPath =>
    /\ \E w \in Workers : working[w].code \in Ending
    /\ lib.path \in Paths =>
         /\ CountedFile(lib.path)
         /\ \A w \in Workers : Busy(w) => OfBatch(w, lib.path)
         /\ lib.group = "in" => \A g \in Groups : Written(lib.path, g) => InRun(lib.path, g)

(* A call that was begun finds its table's current file begun in its batch. *)
CurrentFile ==
  \A w \in Workers : \A p \in Paths :
    /\ working[w].code \in Begun /\ p[1] = working[w].table
    /\ p[1] \in DOMAIN lib.counts /\ p[2] = lib.counts[p[1]]
    => OfBatch(w, p)

(* The inputs in a file the run counts are the run's, if it could create it. *)
Renewed ==
  \A p \in Paths :
    CountedFile(p) /\ Written(p, "in") => InRun(p, "in") \/ <<run, p>> \in refused

CaptureInv ==
  Shape /\ OneBatch /\ Counted /\ OpenFile /\ CurrentFile /\ Renewed /\ FilesHoldOneCall

-----------------------------------------------------------------------------
(***************************************************************************)
(* Lemmas about the statements of a call and the operations on the files.   *)
(***************************************************************************)

(* A statement leaves the statements behind it.  A file is opened by calls   *)
(* that go on to close it.                                                  *)
LEMMA Statements ==
  ASSUME NEW c \in Ending \cup CallOnlyCodes, c # <<>>
  PROVE  /\ Tail(c) \in Ending \cup CallOnlyCodes
         /\ Head(c) \in {"before", "after"} => Tail(c) \in Ending
         /\ c \in Ending /\ Head(c) # "end" => Tail(c) \in Ending
         /\ Tail(c) \in Begun => Head(c) = "before" \/ c \in Begun
         /\ Head(c) = "after" => c \in Begun /\ Tail(c) \notin Begun
<1> DEFINE Good(s) == /\ Tail(s) \in Ending \cup CallOnlyCodes
                      /\ Head(s) \in {"before", "after"} => Tail(s) \in Ending
                      /\ s \in Ending /\ Head(s) # "end" => Tail(s) \in Ending
                      /\ Tail(s) \in Begun => Head(s) = "before" \/ s \in Begun
                      /\ Head(s) = "after" => s \in Begun /\ Tail(s) \notin Begun
<1>1. /\ Tail(<<"call">>) = <<>>
      /\ Tail(<<"end">>) = <<>>
      /\ Tail(<<"out", "end">>) = <<"end">>
      /\ Tail(<<"in", "end">>) = <<"end">>
      /\ Tail(<<"before", "in", "end">>) = <<"in", "end">>
      /\ Tail(<<"after", "out", "end">>) = <<"out", "end">>
      /\ Tail(<<"call", "after", "out", "end">>) = <<"after", "out", "end">>
      /\ Tail(<<"call", "before", "in", "end">>) = <<"before", "in", "end">>
      /\ Tail(<<"end", "call", "after", "out", "end">>) = <<"call", "after", "out", "end">>
      /\ Tail(<<"in", "end", "call", "after", "out", "end">>)
           = <<"end", "call", "after", "out", "end">>
      /\ Tail(<<"before", "in", "end", "call", "after", "out", "end">>)
           = <<"in", "end", "call", "after", "out", "end">>
  OBVIOUS
<1>2. Good(<<"call">>) /\ Good(<<"end">>) /\ Good(<<"out", "end">>) /\ Good(<<"in", "end">>)
  BY <1>1 DEF Ending, Opening, Begun, Closing, CallOnlyCodes
<1>3. Good(<<"before", "in", "end">>) /\ Good(<<"after", "out", "end">>)
  BY <1>1 DEF Ending, Opening, Begun, Closing, CallOnlyCodes
<1>4. Good(<<"call", "after", "out", "end">>) /\ Good(<<"call", "before", "in", "end">>)
  BY <1>1 DEF Ending, Opening, Begun, Closing, CallOnlyCodes
<1>5. Good(<<"end", "call", "after", "out", "end">>)
  BY <1>1 DEF Ending, Opening, Begun, Closing, CallOnlyCodes
<1>6. Good(<<"in", "end", "call", "after", "out", "end">>)
  BY <1>1 DEF Ending, Opening, Begun, Closing, CallOnlyCodes
<1>7. Good(<<"before", "in", "end", "call", "after", "out", "end">>)
  BY <1>1 DEF Ending, Opening, Begun, Closing, CallOnlyCodes
<1> HIDE DEF Good
<1>8. \A s \in Ending \cup CallOnlyCodes : s # <<>> => Good(s)
  BY <1>2, <1>3, <1>4, <1>5, <1>6, <1>7 DEF Ending, Opening, Begun, Closing, CallOnlyCodes
<1> QED
  BY <1>8 DEF Good

(* The code of a call ends in closing the file, or is the call alone; none  *)
(* is begun.                                                                *)
LEMMA FullCodes ==
  ASSUME NEW c, NEW t
  PROVE  CodeOf(c, t) \in (Ending \cup CallOnlyCodes) \ Begun
BY DEF CodeOf, Ending, Opening, Begun, Closing, CallOnlyCodes

(* Writing reaches one group of the open file, and only if it is empty.      *)
LEMMA WriteEffect ==
  ASSUME NEW l, NEW d, Shaped(d), NEW id, NEW v, NEW o,
         NEW e, e = Write(l, d, Content(id, v), o)
  PROVE  /\ Shaped(e)
         /\ e # d => l.path # NoPath
         /\ \A p \in Paths, g \in Groups :
              \/ e[p].contents[g].by = d[p].contents[g].by
              \/ /\ p = l.path /\ g = l.group /\ l.path # NoPath
                 /\ d[p].contents[g].by = <<>>
                 /\ e[p].contents[g].by = id
<1> DEFINE text == IF o = "unfilled" THEN [Content(id, v) EXCEPT !.value = Fill]
                   ELSE Content(id, v)
<1>1. DOMAIN text = {"by", "value"} /\ text.by = id
  BY DEF Content
<1>2. Nothing.by = <<>>
  BY DEF Nothing, Content
<1> HIDE DEF text
<1>3. CASE ~CanDefine(l, d, o)
  <2>1. e = d
    BY <1>3 DEF Write
  <2> QED
    BY <2>1
<1>4. CASE CanDefine(l, d, o)
  <2>1. e = [d EXCEPT ![l.path].contents[l.group] = text]
    BY <1>4 DEF Write, text
  <2>2. l.path # NoPath /\ d[l.path].contents[l.group] = Nothing
    BY <1>4 DEF CanDefine
  <2>3. DOMAIN e = Paths
    BY <2>1 DEF Shaped
  <2>4. ASSUME NEW p \in Paths
        PROVE  /\ DOMAIN e[p] = {"state", "groups", "contents"}
               /\ DOMAIN e[p].contents = Groups
               /\ \A g \in Groups :
                    \/ e[p].contents[g] = d[p].contents[g]
                    \/ p = l.path /\ g = l.group /\ e[p].contents[g] = text
    <3>1. CASE p # l.path
      <4>1. e[p] = d[p]
        BY <2>1, <3>1 DEF Shaped
      <4> QED
        BY <4>1 DEF Shaped
    <3>2. CASE p = l.path
      <4> DEFINE file == [d[p] EXCEPT !.contents[l.group] = text]
                 held == [d[p].contents EXCEPT ![l.group] = text]
      <4>1. e[p] = file
        BY <2>1, <3>2 DEF Shaped
      <4>2. DOMAIN file = {"state", "groups", "contents"} /\ file.contents = held
        BY DEF Shaped
      <4>3. DOMAIN held = Groups
        BY DEF Shaped
      <4>4. \A g \in Groups : held[g] = d[p].contents[g] \/ (g = l.group /\ held[g] = text)
        BY DEF Shaped
      <4> HIDE DEF file, held
      <4> QED
        BY <4>1, <4>2, <4>3, <4>4, <3>2
    <3> QED
      BY <3>1, <3>2
  <2>5. Shaped(e)
    BY <2>3, <2>4, <1>1 DEF Shaped
  <2> QED
    BY <2>5, <2>4, <2>2, <1>1, <1>2
<1> QED
  BY <1>3, <1>4

(* Beginning a call leaves other files alone.  The call is counted and its  *)
(* file empty, unless it could not be created or the library is full.       *)
LEMMA BeginEffect ==
  ASSUME NEW l, NEW d, Shaped(d), NEW t, NEW o \in Creations, NEW b,
         DOMAIN l = {"counts", "path", "group"},
         \A s \in DOMAIN l.counts : l.counts[s] \in Nat \ {0},
         b = BeginBefore(l, d, t, o)
  PROVE  /\ DOMAIN b.lib = {"counts", "path", "group"}
         /\ Shaped(b.disk)
         /\ Full(l, t) => b.disk = d /\ b.lib.counts = l.counts /\ b.lib.path = NoPath
                          /\ t \notin DOMAIN l.counts
         /\ ~Full(l, t) =>
              /\ b.lib.counts = Counting(l, t)
              /\ \A p \in Paths : p # <<t, NextCall(l, t)>> => b.disk[p] = d[p]
              /\ \A p \in Paths :
                   b.disk[p] = d[p] \/ \A g \in Groups : b.disk[p].contents[g].by = <<>>
              /\ \/ b.lib.path = NoPath
                 \/ /\ b.lib.path = <<t, NextCall(l, t)>>
              /\ o = "refused" => b.lib.path = NoPath
              /\ o # "refused" => \A p \in Paths : p = <<t, NextCall(l, t)>> =>
                   \A g \in Groups : b.disk[p].contents[g].by = <<>>
<1> DEFINE path == <<t, NextCall(l, t)>>
           closed == [End(l) EXCEPT !.counts = Counting(l, t)]
           Renews(e) ==
             /\ Shaped(e)
             /\ \A p \in Paths : p # path => e[p] = d[p]
             /\ \A p \in Paths : p = path => \A g \in Groups : e[p].contents[g].by = <<>>
<1>1. DOMAIN End(l) = {"counts", "path", "group"} /\ End(l).counts = l.counts
      /\ End(l).path = NoPath
  BY DEF End
<1>2. DOMAIN closed = {"counts", "path", "group"} /\ closed.path = NoPath
      /\ closed.counts = Counting(l, t)
  BY <1>1
<1> HIDE DEF path, closed
<1>3. CASE Full(l, t)
  <2>1. b.lib = End(l) /\ b.disk = d
    BY <1>3 DEF BeginBefore, State
  <2> QED
    BY <1>1, <1>3, <2>1 DEF Full
<1>4. CASE ~Full(l, t)
  <2>1. b = CreateAt(closed, d, path, o)
    BY <1>4 DEF BeginBefore, closed, path
  <2>2. ASSUME NEW gs
        PROVE  LET f == File("closed", gs)
               IN /\ DOMAIN f = {"state", "groups", "contents"}
                  /\ DOMAIN f.contents = Groups
                  /\ \A g \in Groups : DOMAIN f.contents[g] = {"by", "value"}
                                       /\ f.contents[g].by = <<>>
    BY DEF File, Nothing, Content
  <2>3. ASSUME NEW gs, NEW e, e = [d EXCEPT ![path] = File("closed", gs)]
        PROVE  Renews(e)
    <3>1. DOMAIN e = Paths
      BY <2>3 DEF Shaped
    <3>2. \A p \in Paths : e[p] = IF p = path THEN File("closed", gs) ELSE d[p]
      BY <2>3 DEF Shaped
    <3> QED
      BY <3>1, <3>2, <2>2 DEF Shaped
  <2>4. CASE o = "refused"
    <3>1. b.lib = closed /\ b.disk = d
      BY <2>1, <2>4 DEF CreateAt, State
    <3> QED
      BY <3>1, <1>2, <1>4, <2>4 DEF path
  <2>5. CASE o # "refused"
    <3>1. /\ DOMAIN b.lib = {"counts", "path", "group"}
          /\ b.lib.counts = closed.counts
          /\ b.lib.path \in {NoPath, path}
      <4>1. b.lib = closed \/ b.lib = Opened(closed, path, "in")
        BY <2>1, <2>5 DEF CreateAt, State, Creations
      <4>2. LET opened == Opened(closed, path, "in")
            IN DOMAIN opened = DOMAIN closed /\ opened.counts = closed.counts
               /\ opened.path = path
        BY <1>2 DEF Opened
      <4> QED
        BY <4>1, <4>2, <1>2
    <3>2. \E gs : b.disk = [d EXCEPT ![path] = File("closed", gs)]
      <4>1. CASE o = "bare"
        <5> DEFINE new == [d EXCEPT ![path] = File("closed", {})]
        <5>1. b = State(closed, new)
          BY <2>1, <4>1 DEF CreateAt
        <5> HIDE DEF new
        <5>2. b.disk = new
          BY <5>1 DEF State
        <5> QED
          BY <5>2 DEF new
      <4>2. CASE o = "half"
        <5> DEFINE new == [d EXCEPT ![path] = File("closed", {"out"})]
        <5>1. b = State(closed, new)
          BY <2>1, <4>2 DEF CreateAt
        <5> HIDE DEF new
        <5>2. b.disk = new
          BY <5>1 DEF State
        <5> QED
          BY <5>2 DEF new
      <4>3. CASE o = "made"
        <5> DEFINE new == [d EXCEPT ![path] = File("closed", Groups)]
        <5>1. b = State(Opened(closed, path, "in"), new)
          BY <2>1, <4>3 DEF CreateAt
        <5> HIDE DEF new
        <5>2. b.disk = new
          BY <5>1 DEF State
        <5> QED
          BY <5>2 DEF new
      <4> QED
        BY <4>1, <4>2, <4>3, <2>5 DEF Creations
    <3>3. PICK gs : b.disk = [d EXCEPT ![path] = File("closed", gs)]
      BY <3>2
    <3>4. /\ Shaped(b.disk)
          /\ \A p \in Paths : p # path => b.disk[p] = d[p]
          /\ \A p \in Paths : p = path => \A g \in Groups : b.disk[p].contents[g].by = <<>>
      <4> HIDE DEF Renews
      <4>1. Renews(b.disk)
        BY <3>3, <2>3
      <4> QED
        BY <4>1 DEF Renews
    <3> QED
      BY <3>1, <3>4, <1>2, <1>4, <2>5 DEF path
  <2> QED
    BY <2>4, <2>5
<1> QED
  BY <1>3, <1>4

(* Going on with a call opens its table's current file, or none.             *)
LEMMA ReopenEffect ==
  ASSUME NEW l, NEW d, NEW t, NEW o, NEW b, DOMAIN l = {"counts", "path", "group"},
         \A s \in DOMAIN l.counts : l.counts[s] \in Nat \ {0},
         b = BeginAfter(l, d, t, o)
  PROVE  /\ DOMAIN b.lib = {"counts", "path", "group"}
         /\ b.lib.counts = l.counts
         /\ b.disk = d
         /\ \/ b.lib.path = NoPath
            \/ /\ t \in DOMAIN l.counts
               /\ b.lib.path = <<t, l.counts[t]>> /\ b.lib.group = "out"
<1>1. DOMAIN End(l) = {"counts", "path", "group"} /\ End(l).counts = l.counts
      /\ End(l).path = NoPath
  BY DEF End
<1>2. CASE b.lib = End(l)
  BY <1>1, <1>2 DEF BeginAfter, State
<1>3. CASE CurrentCall(l, t) > 0 /\ b.lib = Opened(End(l), <<t, CurrentCall(l, t)>>, "out")
  <2>1. /\ DOMAIN b.lib = {"counts", "path", "group"} /\ b.lib.counts = l.counts
        /\ b.lib.path = <<t, CurrentCall(l, t)>> /\ b.lib.group = "out"
    BY <1>1, <1>3 DEF Opened
  <2>2. t \in DOMAIN l.counts /\ CurrentCall(l, t) = l.counts[t]
    BY <1>3 DEF CurrentCall
  <2> QED
    BY <2>1, <2>2 DEF BeginAfter, State
<1> QED
  BY <1>2, <1>3 DEF BeginAfter, State

-----------------------------------------------------------------------------
(***************************************************************************)
(* A worker goes on by one statement.                                      *)
(***************************************************************************)
Advances(w) ==
  /\ DOMAIN working' = Workers
  /\ \A v \in Workers :
       /\ DOMAIN working'[v] = {"id", "table", "x", "y", "code"}
       /\ working'[v].id = working[v].id
       /\ working'[v].table = working[v].table
       /\ working'[v].code = IF v = w THEN Tail(working[v].code) ELSE working[v].code

(* All statements take their worker one statement on.                       *)
LEMMA OneOn ==
  ASSUME Shape, NEW w \in Workers
  PROVE  /\ Done(w) => Advances(w)
         /\ \A y : working' = [working EXCEPT ![w].code = Tail(@), ![w].y = y] => Advances(w)
<1>1. ASSUME NEW r, NEW s, NEW y, DOMAIN r = {"id", "table", "x", "y", "code"},
             s = [r EXCEPT !.code = Tail(r.code)]
      PROVE  /\ DOMAIN s = {"id", "table", "x", "y", "code"}
             /\ s.id = r.id /\ s.table = r.table /\ s.code = Tail(r.code)
  BY <1>1
<1>2. ASSUME NEW r, NEW s, NEW y, DOMAIN r = {"id", "table", "x", "y", "code"},
             s = [r EXCEPT !.y = y]
      PROVE  /\ DOMAIN s = {"id", "table", "x", "y", "code"}
             /\ s.id = r.id /\ s.table = r.table /\ s.code = r.code
  BY <1>2
<1> DEFINE on == [working[w] EXCEPT !.code = Tail(working[w].code)]
<1>3. /\ DOMAIN on = {"id", "table", "x", "y", "code"}
      /\ on.id = working[w].id /\ on.table = working[w].table
      /\ on.code = Tail(working[w].code)
  BY DEF Shape
<1>4. ASSUME Done(w)
      PROVE  Advances(w)
  <2>1. working' = [working EXCEPT ![w] = on]
    BY <1>4 DEF Done
  <2> HIDE DEF on
  <2>2. DOMAIN working' = Workers /\ \A v \in Workers : working'[v] = IF v = w THEN on ELSE working[v]
    BY <2>1 DEF Shape
  <2> QED
    BY <2>2, <1>3 DEF Advances, Shape
<1>5. ASSUME NEW y, working' = [working EXCEPT ![w].code = Tail(@), ![w].y = y]
      PROVE  Advances(w)
  <2> DEFINE more == [on EXCEPT !.y = y]
  <2>1. working' = [working EXCEPT ![w] = more]
    BY <1>5 DEF Shape
  <2>2. /\ DOMAIN more = {"id", "table", "x", "y", "code"}
        /\ more.id = on.id /\ more.table = on.table /\ more.code = on.code
    <3> HIDE DEF on
    <3> QED
      BY <1>3
  <2> HIDE DEF on, more
  <2>3. DOMAIN working' = Workers
        /\ \A v \in Workers : working'[v] = IF v = w THEN more ELSE working[v]
    BY <2>1 DEF Shape
  <2> QED
    BY <2>2, <2>3, <1>3 DEF Advances, Shape
<1> QED
  BY <1>4, <1>5

(* The batch stays what it was.                                             *)
LEMMA StillOneBatch ==
  ASSUME OneBatch, NEW w \in Workers, Busy(w), Advances(w), run' = run
  PROVE  /\ OneBatch'
         /\ ~Ended
         /\ working[w].id \in Calls /\ working[w].id[1] = run
         /\ \A v \in Workers :
              /\ Busy(v)' => Busy(v)
              /\ Busy(v) => working[v].id[2] = working[w].id[2]
              /\ working'[v].code \in Begun =>
                   Busy(v) /\ (working[v].code \in Begun
                               \/ (v = w /\ Head(working[w].code) = "before"))
              /\ working[v].code \in Ending /\ (v = w => Head(working[w].code) # "end") =>
                   working'[v].code \in Ending
<1>1. ~Ended
  BY DEF Ended, AllIdle, Busy
<1>2. /\ Tail(working[w].code) \in Ending \cup CallOnlyCodes
      /\ working[w].code \in Ending /\ Head(working[w].code) # "end" =>
           Tail(working[w].code) \in Ending
      /\ Tail(working[w].code) \in Begun =>
           Head(working[w].code) = "before" \/ working[w].code \in Begun
  BY Statements DEF OneBatch, Busy
<1>3. \A v \in Workers : Busy(v)' => Busy(v)
  BY DEF Busy, Advances
<1>4. <<>> \notin Begun
  BY DEF Begun
<1>5. ASSUME NEW v \in Workers, working'[v].code \in Begun
      PROVE  Busy(v) /\ (working[v].code \in Begun
                         \/ (v = w /\ Head(working[w].code) = "before"))
  <2>1. CASE v = w
    BY <1>2, <1>5, <2>1 DEF Advances
  <2>2. CASE v # w
    BY <1>4, <1>5, <2>2 DEF Advances, Busy
  <2> QED
    BY <2>1, <2>2
<1>6. ASSUME NEW v \in Workers, working[v].code \in Ending,
             v = w => Head(working[w].code) # "end"
      PROVE  working'[v].code \in Ending
  BY <1>2, <1>6 DEF Advances
<1>7. OneBatch'
  <2>1. \A v \in Workers : working'[v].code \in Ending \cup CallOnlyCodes
    BY <1>2 DEF OneBatch, Advances
  <2>2. \A v \in Workers : Busy(v)' => working'[v].id \in Calls /\ working'[v].id[1] = run'
    BY <1>3 DEF OneBatch, Advances
  <2>3. \A u, v \in Workers : Busy(u)' /\ Busy(v)' => working'[u].id[2] = working'[v].id[2]
    BY <1>3 DEF OneBatch, Advances
  <2> QED
    BY <2>1, <2>2, <2>3 DEF OneBatch
<1> QED
  BY <1>1, <1>3, <1>5, <1>6, <1>7 DEF OneBatch

(* The invariant is about files, the run and what is going on in it.        *)
LEMMA Untouched ==
  ASSUME CaptureInv, UNCHANGED <<case, run, script, working, lib, disk, refused>>
  PROVE  CaptureInv'
BY DEF CaptureInv, Shape, OneBatch, Counted, OpenFile, CurrentFile, Renewed, FilesHoldOneCall,
       By, Busy, Ended, AllIdle, Written, InRun, CountedFile, OfBatch, Together

(* Initially nothing is on disk.                                            *)
LEMMA InitCapture == Init => CaptureInv
<1> SUFFICES ASSUME Init PROVE CaptureInv
  OBVIOUS
<1>0. NoPath = <<>> /\ DOMAIN <<>> = {} /\ <<>> \in Seq(Seq(Tables \X STRING))
  BY DEF NoPath
<1>1. \A p \in Paths : disk[p] = Absent
  BY DEF Init
<1>2. /\ DOMAIN Absent = {"state", "groups", "contents"} /\ DOMAIN Absent.contents = Groups
      /\ \A g \in Groups : Absent.contents[g] = Nothing
  BY DEF Absent, File
<1>3. DOMAIN Nothing = {"by", "value"} /\ Nothing.by = <<>>
  BY DEF Nothing, Content
<1>4. \A p \in Paths, g \in Groups : By(p, g) = <<>>
  BY <1>1, <1>2, <1>3 DEF By
<1>5. \A w \in Workers : working[w] = Idle
  BY DEF Init
<1>6. DOMAIN Idle = {"id", "table", "x", "y", "code"} /\ Idle.code = <<>>
  BY DEF Idle
<1>7. DOMAIN lib = {"counts", "path", "group"} /\ lib.counts = <<>> /\ lib.path = NoPath
  BY DEF Init, Library
<1>8. Shape
  <2>1. Shaped(disk)
    BY <1>1, <1>2, <1>3 DEF Shaped, Init
  <2>2. case \in Cases /\ run \in Nat /\ script \in Seq(Seq(Tables \X STRING))
        /\ DOMAIN working = Workers
    BY <1>0 DEF Init
  <2> QED
    BY <2>1, <2>2, <1>0, <1>4, <1>5, <1>6, <1>7 DEF Shape
<1>9. OneBatch
  BY <1>5, <1>6 DEF OneBatch, Busy, CallOnlyCodes
<1>10. Counted /\ Renewed /\ CurrentFile
  BY <1>0, <1>4, <1>7 DEF Counted, Renewed, CurrentFile, Written, InRun, CountedFile, Groups
<1>11. FilesHoldOneCall
  BY <1>4 DEF FilesHoldOneCall, By, Groups
<1> QED
  BY <1>7, <1>8, <1>9, <1>10, <1>11 DEF CaptureInv, OpenFile


-----------------------------------------------------------------------------
(***************************************************************************)
(* The steps of a run.                                                     *)
(***************************************************************************)

(* While nobody works no file is open.                                      *)
LEMMA NoneOpen ==
  ASSUME OpenFile, AllIdle
  PROVE  lib.path = NoPath
<1>1. <<>> \notin Ending
  BY DEF Ending, Opening, Begun, Closing
<1> QED
  BY <1>1 DEF OpenFile, AllIdle

(* A new run counts nothing yet, and wrote nothing.                          *)
LEMMA StartRunKeeps ==
  ASSUME CaptureInv, StartRun
  PROVE  CaptureInv'
<1>1. /\ run' = run + 1 /\ run \in Nat /\ script' \in case.scripts
      /\ case' = case /\ working' = working /\ disk' = disk /\ refused' = refused
      /\ lib' = Library /\ AllIdle
  BY DEF StartRun, CaptureInv, Shape
<1>2. DOMAIN Library = {"counts", "path", "group"} /\ Library.counts = <<>>
      /\ Library.path = NoPath /\ DOMAIN <<>> = {}
  BY DEF Library
<1>3. \A p \in Paths, g \in Groups : By(p, g)' = By(p, g)
  BY <1>1 DEF By
<1>4. \A p \in Paths, g \in Groups : Written(p, g)' => Written(p, g) /\ By(p, g)[1] <= run
  BY <1>3 DEF CaptureInv, Counted, Written
<1>5. \A p \in Paths, g \in Groups : By(p, g) \in Calls \cup {<<>>}
  BY DEF CaptureInv, Shape
<1>6. \A p \in Paths, g \in Groups : Written(p, g)' => By(p, g)'[1] < run'
  <2> SUFFICES ASSUME NEW p \in Paths, NEW g \in Groups, Written(p, g)'
               PROVE  By(p, g)'[1] < run'
    OBVIOUS
  <2>1. By(p, g) \in Calls /\ By(p, g)[1] <= run
    BY <1>4, <1>5 DEF Written
  <2>2. By(p, g)[1] \in Nat
    BY <2>1 DEF Calls
  <2> QED
    BY <2>1, <2>2, <1>1, <1>3
<1>7. \A p \in Paths, g \in Groups : ~InRun(p, g)'
  <2> SUFFICES ASSUME NEW p \in Paths, NEW g \in Groups, InRun(p, g)'
               PROVE  FALSE
    OBVIOUS
  <2>1. Written(p, g)' /\ By(p, g)'[1] = run'
    BY DEF InRun
  <2>2. By(p, g)'[1] < run'
    BY <1>6, <2>1
  <2> QED
    BY <2>1, <2>2, <1>1
<1>8. Shape'
  <2>1. script' \in Seq(Seq(Tables \X STRING))
    BY <1>1, CasesAssumption DEF CaptureInv, Shape
  <2> QED
    BY <2>1, <1>1, <1>2, <1>3 DEF CaptureInv, Shape
<1>9. OneBatch'
  BY <1>1 DEF CaptureInv, OneBatch, AllIdle, Busy
<1>10. Counted'
  <2>1. \A p \in Paths, g \in Groups : Written(p, g)' => By(p, g)'[1] <= run'
    <3> SUFFICES ASSUME NEW p \in Paths, NEW g \in Groups, Written(p, g)'
                 PROVE  By(p, g)'[1] <= run'
      OBVIOUS
    <3>1. By(p, g)'[1] <= run
      BY <1>3, <1>4
    <3>2. By(p, g)' \in Calls
      BY <1>3, <1>5 DEF Written
    <3>3. By(p, g)'[1] \in Nat
      BY <3>2 DEF Calls
    <3> QED
      BY <3>1, <3>3, <1>1
  <2> QED
    BY <2>1, <1>7 DEF Counted
<1>11. OpenFile' /\ CurrentFile' /\ Renewed'
  BY <1>1, <1>2 DEF OpenFile, CurrentFile, Renewed, CountedFile
<1>12. FilesHoldOneCall'
  BY <1>1 DEF CaptureInv, FilesHoldOneCall
<1> QED
  BY <1>8, <1>9, <1>10, <1>11, <1>12 DEF CaptureInv

(* A batch starts with all files closed and all calls ahead.                *)
LEMMA StartBatchKeeps ==
  ASSUME CaptureInv, StartBatch
  PROVE  CaptureInv'
<1>1. /\ run' = run /\ case' = case /\ disk' = disk /\ refused' = refused /\ lib' = lib
      /\ script # <<>> /\ script' = Tail(script) /\ AllIdle
      /\ script \in Seq(Seq(Tables \X STRING)) /\ run \in Nat
  BY DEF StartBatch, CaptureInv, Shape
<1>2. lib.path = NoPath
  BY <1>1, NoneOpen DEF CaptureInv
<1>3. DOMAIN working' = Workers
      /\ \A w \in Workers : \/ working'[w] = Idle
                            \/ working'[w] = Work(Head(script)[w], w)
  BY DEF StartBatch
<1>4. DOMAIN Idle = {"id", "table", "x", "y", "code"} /\ Idle.code = <<>>
  BY DEF Idle
<1>5. ASSUME NEW call, NEW w \in Workers
      PROVE  /\ DOMAIN Work(call, w) = {"id", "table", "x", "y", "code"}
             /\ Work(call, w).id = <<run, Len(script), w>>
             /\ Work(call, w).code = CodeOf(case, call[1])
  BY DEF Work
<1>6. ASSUME NEW w \in Workers
      PROVE  /\ DOMAIN working'[w] = {"id", "table", "x", "y", "code"}
             /\ working'[w].code \in (Ending \cup CallOnlyCodes) \ Begun
             /\ working'[w].code # <<>> => working'[w].id = <<run, Len(script), w>>
  <2>1. CASE working'[w] = Idle
    BY <2>1, <1>4 DEF CallOnlyCodes, Begun
  <2>2. CASE working'[w] = Work(Head(script)[w], w)
    BY <2>2, <1>5, FullCodes
  <2> QED
    BY <1>3, <2>1, <2>2
<1>7. Len(script) \in Nat /\ Tail(script) \in Seq(Seq(Tables \X STRING))
  BY <1>1
<1>8. Shape'
  <2>1. /\ case' \in Cases /\ run' \in Nat /\ script' \in Seq(Seq(Tables \X STRING))
        /\ DOMAIN lib' = {"counts", "path", "group"}
        /\ \A t \in DOMAIN lib'.counts : lib'.counts[t] \in Nat \ {0}
        /\ Shaped(disk')
    BY <1>1, <1>7 DEF CaptureInv, Shape
  <2>2. \A p \in Paths, g \in Groups : By(p, g)' \in Calls \cup {<<>>}
    BY <1>1 DEF CaptureInv, Shape, By
  <2> QED
    BY <2>1, <2>2, <1>3, <1>6 DEF Shape
<1>9. OneBatch'
  <2>1. \A w \in Workers : Busy(w)' => working'[w].id = <<run, Len(script), w>>
    BY <1>6 DEF Busy
  <2>2. \A w \in Workers : <<run, Len(script), w>> \in Calls
    BY <1>1, <1>7 DEF Calls
  <2>3. \A w \in Workers : Busy(w)' => working'[w].id \in Calls /\ working'[w].id[1] = run'
                                       /\ working'[w].id[2] = Len(script)
    <3> SUFFICES ASSUME NEW w \in Workers, Busy(w)'
                 PROVE  working'[w].id \in Calls /\ working'[w].id[1] = run'
                        /\ working'[w].id[2] = Len(script)
      OBVIOUS
    <3>1. working'[w].id = <<run, Len(script), w>>
      BY <2>1
    <3> QED
      BY <3>1, <2>2, <1>1
  <2> QED
    BY <2>3, <1>6 DEF OneBatch
<1>10. Counted'
  BY <1>1 DEF CaptureInv, Counted, By, Written, InRun, CountedFile, Ended
<1>11. OpenFile'
  BY <1>1, <1>2 DEF OpenFile
<1>12. CurrentFile'
  BY <1>6 DEF CurrentFile
<1>13. Renewed'
  BY <1>1 DEF CaptureInv, Renewed, By, Written, InRun, CountedFile
<1>14. FilesHoldOneCall'
  BY <1>1 DEF CaptureInv, FilesHoldOneCall
<1> QED
  BY <1>8, <1>9, <1>10, <1>11, <1>12, <1>13, <1>14 DEF CaptureInv

(* A crash ends the run and leaves what was written.                        *)
LEMMA CrashKeeps ==
  ASSUME CaptureInv, Crash
  PROVE  CaptureInv'
<1>1. PICK torn \in BOOLEAN : disk' = Abandoned(lib, disk, torn)
  BY DEF Crash
<1>2. /\ run' = run /\ case' = case /\ refused' = refused /\ lib' = Library
      /\ script' = <<>> /\ working' = [w \in Workers |-> Idle]
      /\ run \in Nat /\ case \in Cases
  BY DEF Crash, CaptureInv, Shape
<1>3. DOMAIN Idle = {"id", "table", "x", "y", "code"} /\ Idle.code = <<>>
  BY DEF Idle
<1>4. DOMAIN Library = {"counts", "path", "group"} /\ Library.counts = <<>>
      /\ Library.path = NoPath /\ DOMAIN <<>> = {}
  BY DEF Library
<1>5. Shaped(disk') /\ \A p \in Paths : disk'[p].contents = disk[p].contents
  <2>1. CASE disk' = disk
    BY <2>1 DEF CaptureInv, Shape
  <2>2. CASE disk' = [disk EXCEPT ![lib.path].state = "torn"]
    <3>1. DOMAIN disk' = Paths
      BY <2>2 DEF CaptureInv, Shape, Shaped
    <3>2. \A p \in Paths : disk'[p] = IF p = lib.path THEN [disk[p] EXCEPT !.state = "torn"]
                                      ELSE disk[p]
      BY <2>2 DEF CaptureInv, Shape, Shaped
    <3>3. \A p \in Paths : /\ DOMAIN disk'[p] = {"state", "groups", "contents"}
                           /\ disk'[p].contents = disk[p].contents
      BY <3>2 DEF CaptureInv, Shape, Shaped
    <3> QED
      BY <3>1, <3>3 DEF CaptureInv, Shape, Shaped
  <2> QED
    BY <1>1, <2>1, <2>2 DEF Abandoned
<1>6. \A p \in Paths, g \in Groups : By(p, g)' = By(p, g)
  BY <1>5 DEF By
<1>7. Shape'
  <2>1. script' \in Seq(Seq(Tables \X STRING))
    BY <1>2
  <2>2. \A p \in Paths, g \in Groups : By(p, g)' \in Calls \cup {<<>>}
    BY <1>6 DEF CaptureInv, Shape
  <2> QED
    BY <2>1, <2>2, <1>2, <1>3, <1>4, <1>5 DEF Shape
<1>8. OneBatch' /\ Ended'
  BY <1>2, <1>3 DEF OneBatch, Busy, CallOnlyCodes, Ended, AllIdle
<1>9. Counted'
  BY <1>2, <1>6, <1>8 DEF CaptureInv, Counted, Written
<1>10. OpenFile' /\ CurrentFile' /\ Renewed'
  BY <1>2, <1>4 DEF OpenFile, CurrentFile, Renewed, CountedFile
<1>11. FilesHoldOneCall'
  <2>1. \A p \in Paths : disk'[p].contents["in"].by = disk[p].contents["in"].by
                         /\ disk'[p].contents["out"].by = disk[p].contents["out"].by
    BY <1>5
  <2> QED
    BY <2>1, <1>2 DEF CaptureInv, FilesHoldOneCall
<1> QED
  BY <1>7, <1>8, <1>9, <1>10, <1>11 DEF CaptureInv

(* Closing the file writes nothing.                                         *)
LEMMA EndKeeps ==
  ASSUME CaptureInv, NEW w \in Workers, EndCapture(w)
  PROVE  CaptureInv'
<1>1. /\ run' = run /\ case' = case /\ refused' = refused /\ script' = script /\ disk' = disk
      /\ lib' = End(lib) /\ Busy(w) /\ Done(w)
  BY DEF EndCapture, Doing, Busy
<1>2. Advances(w)
  BY <1>1, OneOn DEF CaptureInv
<1>3. /\ OneBatch' /\ ~Ended
      /\ \A v \in Workers : /\ Busy(v)' => Busy(v)
                            /\ working'[v].code \in Begun =>
                                 working[v].code \in Begun
                                 \/ (v = w /\ Head(working[w].code) = "before")
  BY <1>1, <1>2, StillOneBatch DEF CaptureInv
<1>4. Head(working[w].code) = "end"
  BY DEF EndCapture, Doing
<1>5. DOMAIN lib' = {"counts", "path", "group"} /\ lib'.counts = lib.counts /\ lib'.path = NoPath
  BY <1>1 DEF End, CaptureInv, Shape
<1>6. \A p \in Paths, g \in Groups : By(p, g)' = By(p, g)
  BY <1>1 DEF By
<1>7. Shape'
  BY <1>1, <1>2, <1>5, <1>6 DEF CaptureInv, Shape, Advances
<1>8. Counted'
  BY <1>1, <1>3, <1>5, <1>6 DEF CaptureInv, Counted, Written, InRun, CountedFile
<1>9. OpenFile'
  BY <1>5 DEF OpenFile
<1>10. CurrentFile'
  <2>1. \A v \in Workers : working'[v].code \in Begun => working[v].code \in Begun
    BY <1>3, <1>4
  <2> QED
    BY <2>1, <1>1, <1>2, <1>5, <1>6
    DEF CaptureInv, CurrentFile, Advances, OfBatch, InRun, Written
<1>11. Renewed'
  BY <1>1, <1>5, <1>6 DEF CaptureInv, Renewed, Written, InRun, CountedFile, Groups
<1>12. FilesHoldOneCall'
  BY <1>1 DEF CaptureInv, FilesHoldOneCall
<1> QED
  BY <1>3, <1>7, <1>8, <1>9, <1>10, <1>11, <1>12 DEF CaptureInv

(* So does calling a scheme, or registering constituents.                    *)
LEMMA CallKeeps ==
  ASSUME CaptureInv, NEW w \in Workers, CallOf(w)
  PROVE  CaptureInv'
<1>1. /\ run' = run /\ case' = case /\ refused' = refused /\ disk' = disk /\ lib' = lib
      /\ script' \in {<<>>, script} /\ Busy(w)
      /\ \E y : working' = [working EXCEPT ![w].code = Tail(@), ![w].y = y]
  BY DEF CallOf, Doing, Busy
<1>2. Advances(w)
  BY <1>1, OneOn DEF CaptureInv
<1>3. Head(working[w].code) = "call"
  BY DEF CallOf, Doing
<1>4. /\ OneBatch' /\ ~Ended
      /\ \A v \in Workers : /\ Busy(v)' => Busy(v)
                            /\ working'[v].code \in Begun =>
                                 working[v].code \in Begun
                                 \/ (v = w /\ Head(working[w].code) = "before")
                            /\ working[v].code \in Ending /\ (v = w => Head(working[w].code) # "end")
                                 => working'[v].code \in Ending
  BY <1>1, <1>2, StillOneBatch DEF CaptureInv
<1>5. \A p \in Paths, g \in Groups : By(p, g)' = By(p, g)
  BY <1>1 DEF By
<1>6. \A v \in Workers : working'[v].id = working[v].id /\ working'[v].table = working[v].table
  BY <1>2 DEF Advances
<1>7. Shape'
  <2>1. script' \in Seq(Seq(Tables \X STRING))
    <3>1. <<>> \in Seq(Seq(Tables \X STRING))
      OBVIOUS
    <3>2. script \in Seq(Seq(Tables \X STRING))
      BY DEF CaptureInv, Shape
    <3> QED
      BY <3>1, <3>2, <1>1
  <2> QED
    BY <2>1, <1>1, <1>2, <1>5 DEF CaptureInv, Shape, Advances
<1>8. Counted'
  BY <1>1, <1>4, <1>5 DEF CaptureInv, Counted, Written, InRun, CountedFile
<1>9. \A p \in Paths, g \in Groups :
         /\ InRun(p, g)' <=> InRun(p, g)
         /\ Written(p, g)' <=> Written(p, g)
  BY <1>1, <1>5 DEF InRun, Written
<1>10. \A v \in Workers : \A p \in Paths : OfBatch(v, p) => OfBatch(v, p)'
  <2> SUFFICES ASSUME NEW v \in Workers, NEW p \in Paths, OfBatch(v, p), NEW g \in Groups,
                      InRun(p, g)'
               PROVE  By(p, g)'[2] = working'[v].id[2]
    BY DEF OfBatch
  <2> QED
    BY <1>5, <1>6, <1>9 DEF OfBatch
<1>11. OpenFile'
  <2> SUFFICES ASSUME lib.path # NoPath
               PROVE  OpenFile!2'
    BY <1>1 DEF OpenFile
  <2>1. \A v \in Workers : working[v].code \in Ending => working'[v].code \in Ending
    BY <1>3, <1>4
  <2>2. \A p \in Paths : CountedFile(p)' <=> CountedFile(p)
    BY <1>1 DEF CountedFile
  <2>3. \E v \in Workers : working'[v].code \in Ending
    BY <2>1 DEF CaptureInv, OpenFile
  <2>4. ASSUME lib.path \in Paths
        PROVE  /\ CountedFile(lib.path)'
               /\ \A v \in Workers : Busy(v)' => OfBatch(v, lib.path)'
               /\ lib.group = "in" => \A g \in Groups : Written(lib.path, g)' => InRun(lib.path, g)'
    BY <2>2, <2>4, <1>1, <1>4, <1>10, <1>9 DEF CaptureInv, OpenFile
  <2> QED
    BY <2>3, <2>4, <1>1
<1>12. CurrentFile'
  <2>1. \A v \in Workers : working'[v].code \in Begun => working[v].code \in Begun
    BY <1>3, <1>4
  <2> QED
    BY <2>1, <1>1, <1>6, <1>10 DEF CaptureInv, CurrentFile
<1>13. Renewed'
  BY <1>1, <1>5 DEF CaptureInv, Renewed, Written, InRun, CountedFile, Groups
<1>14. FilesHoldOneCall'
  BY <1>1 DEF CaptureInv, FilesHoldOneCall
<1> QED
  BY <1>4, <1>7, <1>8, <1>11, <1>12, <1>13, <1>14 DEF CaptureInv

(* Going on with a call opens the file begun in its batch, or none.          *)
LEMMA AfterKeeps ==
  ASSUME CaptureInv, NEW w \in Workers, After(w)
  PROVE  CaptureInv'
<1> DEFINE t == working[w].table
<1>1. /\ run' = run /\ case' = case /\ refused' = refused /\ script' = script
      /\ Busy(w) /\ Done(w) /\ Head(working[w].code) = "after"
  BY DEF After, Doing, Busy
<1>2. Advances(w)
  BY <1>1, OneOn DEF CaptureInv
<1>3. /\ OneBatch' /\ ~Ended
      /\ \A v \in Workers : /\ Busy(v)' => Busy(v)
                            /\ Busy(v) => working[v].id[2] = working[w].id[2]
                            /\ working'[v].code \in Begun =>
                                 working[v].code \in Begun
                                 \/ (v = w /\ Head(working[w].code) = "before")
  BY <1>1, <1>2, StillOneBatch DEF CaptureInv
<1>4. working[w].code \in Begun /\ working'[w].code \in Ending
  BY <1>1, <1>2, Statements DEF CaptureInv, OneBatch, Busy, Advances
<1>5. /\ DOMAIN lib' = {"counts", "path", "group"}
      /\ lib'.counts = lib.counts
      /\ disk' = disk
      /\ \/ lib'.path = NoPath
         \/ t \in DOMAIN lib.counts /\ lib'.path = <<t, lib.counts[t]>> /\ lib'.group = "out"
  <2>1. PICK o : lib' = BeginAfter(lib, disk, t, o).lib /\ disk' = BeginAfter(lib, disk, t, o).disk
    BY DEF After, Takes
  <2>2. DOMAIN lib = {"counts", "path", "group"}
        /\ \A s \in DOMAIN lib.counts : lib.counts[s] \in Nat \ {0}
    BY DEF CaptureInv, Shape
  <2> HIDE DEF t
  <2> QED
    BY <2>1, <2>2, ReopenEffect
<1> HIDE DEF t
<1>6. \A p \in Paths, g \in Groups : By(p, g)' = By(p, g)
  BY <1>5 DEF By
<1>7. \A v \in Workers : working'[v].id = working[v].id /\ working'[v].table = working[v].table
  BY <1>2 DEF Advances
<1>8. \A p \in Paths, g \in Groups : /\ InRun(p, g)' <=> InRun(p, g)
                                     /\ Written(p, g)' <=> Written(p, g)
  BY <1>1, <1>6 DEF InRun, Written
<1>9. \A p \in Paths : CountedFile(p)' <=> CountedFile(p)
  BY <1>5 DEF CountedFile
<1>10. \A v \in Workers : \A p \in Paths : OfBatch(v, p) => OfBatch(v, p)'
  <2> SUFFICES ASSUME NEW v \in Workers, NEW p \in Paths, OfBatch(v, p), NEW g \in Groups,
                      InRun(p, g)'
               PROVE  By(p, g)'[2] = working'[v].id[2]
    BY DEF OfBatch
  <2> QED
    BY <1>6, <1>7, <1>8 DEF OfBatch
<1>11. Shape'
  BY <1>1, <1>2, <1>5, <1>6 DEF CaptureInv, Shape, Advances
<1>12. Counted'
  BY <1>1, <1>3, <1>6, <1>8, <1>9 DEF CaptureInv, Counted
<1>13. OpenFile'
  <2> SUFFICES ASSUME lib'.path # NoPath
               PROVE  OpenFile!2'
    BY DEF OpenFile
  <2>1. t \in DOMAIN lib.counts /\ lib'.path = <<t, lib.counts[t]>> /\ lib'.group = "out"
    BY <1>5
  <2>2. ASSUME lib'.path \in Paths
        PROVE  CountedFile(lib.path)' /\ \A v \in Workers : Busy(v)' => OfBatch(v, lib.path)'
    <3>1. PICK p \in Paths : p = lib'.path
      BY <2>2
    <3>2. p[1] = t /\ p[2] = lib.counts[t] /\ lib.counts[t] \in Nat
      BY <2>1, <3>1 DEF CaptureInv, Shape
    <3>3. CountedFile(p)
      BY <3>2, <2>1 DEF CountedFile
    <3>4. OfBatch(w, p)
      BY <3>2, <2>1, <1>4 DEF CaptureInv, CurrentFile, t
    <3>5. \A v \in Workers : Busy(v)' => OfBatch(v, p)
      BY <3>4, <1>3 DEF OfBatch
    <3>6. CountedFile(p)' /\ \A v \in Workers : Busy(v)' => OfBatch(v, p)'
      BY <3>3, <3>5, <1>9, <1>10
    <3>7. CountedFile(lib.path)' <=> CountedFile(p)'
      BY <3>1, <1>5 DEF CountedFile
    <3>8. \A v \in Workers : OfBatch(v, p)' => OfBatch(v, lib.path)'
      BY <3>1 DEF OfBatch, InRun, Written, By
    <3> QED
      BY <3>6, <3>7, <3>8
  <2> QED
    BY <2>1, <2>2, <1>4
<1>14. CurrentFile'
  <2>1. \A v \in Workers : working'[v].code \in Begun => working[v].code \in Begun
    BY <1>1, <1>3
  <2> QED
    BY <2>1, <1>5, <1>7, <1>10 DEF CaptureInv, CurrentFile
<1>15. Renewed'
  BY <1>1, <1>8, <1>9 DEF CaptureInv, Renewed, Groups
<1>16. FilesHoldOneCall'
  BY <1>1, <1>5 DEF CaptureInv, FilesHoldOneCall
<1> QED
  BY <1>3, <1>11, <1>12, <1>13, <1>14, <1>15, <1>16 DEF CaptureInv

(* An argument is written to a file of the worker's batch.                   *)
LEMMA RecordKeeps ==
  ASSUME CaptureInv, NEW w \in Workers, Record(w)
  PROVE  CaptureInv'
<1> DEFINE id == working[w].id
<1>1. /\ run' = run /\ case' = case /\ refused' = refused /\ script' = script /\ lib' = lib
      /\ Busy(w) /\ Done(w) /\ Head(working[w].code) \in {"in", "out"} /\ run \in Nat
  BY DEF Record, Doing, Busy, CaptureInv, Shape
<1>2. Advances(w)
  BY <1>1, OneOn DEF CaptureInv
<1>3. /\ OneBatch' /\ ~Ended
      /\ id \in Calls /\ id[1] = run
      /\ \A v \in Workers : /\ Busy(v)' => Busy(v)
                            /\ Busy(v) => working[v].id[2] = id[2]
                            /\ working'[v].code \in Begun =>
                                 Busy(v) /\ (working[v].code \in Begun
                                             \/ (v = w /\ Head(working[w].code) = "before"))
                            /\ working[v].code \in Ending /\ (v = w => Head(working[w].code) # "end")
                                 => working'[v].code \in Ending
  BY <1>1, <1>2, StillOneBatch DEF CaptureInv
<1>4. /\ Shaped(disk')
      /\ \A p \in Paths, g \in Groups :
           \/ By(p, g)' = By(p, g)
           \/ /\ p = lib.path /\ g = lib.group /\ lib.path # NoPath
              /\ By(p, g) = <<>> /\ By(p, g)' = id
  <2>1. PICK v, o : disk' = Write(lib, disk, Content(id, v), o)
    BY DEF Record
  <2> HIDE DEF id
  <2> QED
    BY <2>1, WriteEffect DEF CaptureInv, Shape, By
<1> HIDE DEF id
<1>5. \A v \in Workers : working'[v].id = working[v].id /\ working'[v].table = working[v].table
  BY <1>2 DEF Advances
<1>6. \A p \in Paths : CountedFile(p)' <=> CountedFile(p)
  BY <1>1 DEF CountedFile
<1>7. id # <<>>
  BY <1>3 DEF Calls
<1>8. ASSUME NEW p \in Paths, NEW g \in Groups, By(p, g)' # By(p, g)
      PROVE  /\ p = lib.path /\ g = lib.group /\ By(p, g)' = id /\ By(p, g) = <<>>
             /\ CountedFile(p) /\ \A v \in Workers : Busy(v) => OfBatch(v, p)
             /\ lib.group = "in" => \A h \in Groups : Written(p, h) => InRun(p, h)
             /\ InRun(p, g)'
  <2>1. p = lib.path /\ g = lib.group /\ lib.path # NoPath /\ By(p, g)' = id /\ By(p, g) = <<>>
    BY <1>4, <1>8
  <2>2. InRun(p, g)'
    BY <2>1, <1>1, <1>3, <1>7 DEF InRun, Written
  <2> QED
    BY <2>1, <2>2 DEF CaptureInv, OpenFile
<1>9. ASSUME NEW p \in Paths, NEW g \in Groups, By(p, g)' = By(p, g)
      PROVE  InRun(p, g)' <=> InRun(p, g)
  BY <1>9, <1>1 DEF InRun, Written
<1>10. ASSUME NEW v \in Workers, NEW p \in Paths, OfBatch(v, p), Busy(v)
       PROVE  OfBatch(v, p)'
  <2> SUFFICES ASSUME NEW g \in Groups, InRun(p, g)'
               PROVE  By(p, g)'[2] = working'[v].id[2]
    BY DEF OfBatch
  <2>1. CASE By(p, g)' = By(p, g)
    BY <2>1, <1>5, <1>9, <1>10 DEF OfBatch
  <2>2. CASE By(p, g)' # By(p, g)
    BY <2>2, <1>3, <1>5, <1>8, <1>10
  <2> QED
    BY <2>1, <2>2
<1>11. Shape'
  <2>1. \A p \in Paths, g \in Groups : By(p, g)' \in Calls \cup {<<>>}
    BY <1>3, <1>4 DEF CaptureInv, Shape
  <2> QED
    BY <2>1, <1>1, <1>2, <1>4 DEF CaptureInv, Shape, Advances
<1>12. Counted'
  <2> SUFFICES ASSUME NEW p \in Paths, NEW g \in Groups
               PROVE  /\ Written(p, g)' => By(p, g)'[1] <= run
                      /\ InRun(p, g)' => CountedFile(p)
    BY <1>1, <1>6 DEF Counted
  <2>1. CASE By(p, g)' = By(p, g)
    BY <2>1, <1>3, <1>9 DEF CaptureInv, Counted, Written
  <2>2. CASE By(p, g)' # By(p, g)
    BY <2>2, <1>1, <1>3, <1>8
  <2> QED
    BY <2>1, <2>2
<1>13. OpenFile'
  <2> SUFFICES ASSUME lib.path # NoPath
               PROVE  OpenFile!2'
    BY <1>1 DEF OpenFile
  <2>1. \E v \in Workers : working'[v].code \in Ending
    BY <1>1, <1>3 DEF CaptureInv, OpenFile
  <2>2. ASSUME lib.path \in Paths
        PROVE  /\ CountedFile(lib.path)'
               /\ \A v \in Workers : Busy(v)' => OfBatch(v, lib.path)'
               /\ lib.group = "in" => \A g \in Groups : Written(lib.path, g)' => InRun(lib.path, g)'
    <3>1. CountedFile(lib.path)' /\ \A v \in Workers : Busy(v)' => OfBatch(v, lib.path)'
      BY <2>2, <1>1, <1>3, <1>6, <1>10 DEF CaptureInv, OpenFile
    <3>2. ASSUME lib.group = "in", NEW g \in Groups, Written(lib.path, g)'
          PROVE  InRun(lib.path, g)'
      <4>1. CASE By(lib.path, g)' = By(lib.path, g)
        <5>1. Written(lib.path, g)
          BY <4>1, <3>2 DEF Written
        <5>2. InRun(lib.path, g)
          BY <5>1, <3>2, <2>2 DEF CaptureInv, OpenFile
        <5> QED
          BY <5>2, <4>1, <1>1, <3>2 DEF InRun
      <4>2. CASE By(lib.path, g)' # By(lib.path, g)
        <5>1. By(lib.path, g)' = id
          BY <4>2, <2>2, <1>1, <1>4
        <5> QED
          BY <5>1, <1>1, <1>3, <3>2 DEF InRun
      <4> QED
        BY <4>1, <4>2
    <3> QED
      BY <3>1, <3>2
  <2> QED
    BY <2>1, <2>2, <1>1
<1>14. CurrentFile'
  <2>1. \A v \in Workers : working'[v].code \in Begun => working[v].code \in Begun /\ Busy(v)
    BY <1>1, <1>3
  <2> QED
    BY <2>1, <1>1, <1>5, <1>10 DEF CaptureInv, CurrentFile
<1>15. Renewed'
  <2> SUFFICES ASSUME NEW p \in Paths, CountedFile(p), Written(p, "in")'
               PROVE  InRun(p, "in")' \/ <<run, p>> \in refused
    BY <1>1, <1>6 DEF Renewed
  <2>0. "in" \in Groups
    BY DEF Groups
  <2>1. CASE By(p, "in")' = By(p, "in")
    BY <2>0, <2>1, <1>9 DEF CaptureInv, Renewed, Written
  <2>2. CASE By(p, "in")' # By(p, "in")
    BY <2>0, <2>2, <1>8
  <2> QED
    BY <2>1, <2>2
<1>16. FilesHoldOneCall'
  <2> SUFFICES ASSUME NEW p \in Paths, By(p, "in")' # <<>>, By(p, "out")' # <<>>
               PROVE  \/ By(p, "in")' = By(p, "out")'
                      \/ Together(By(p, "in")', By(p, "out")')
                      \/ By(p, "in")'[1] < By(p, "out")'[1]
                         /\ <<By(p, "out")'[1], p>> \in refused
    BY <1>1 DEF FilesHoldOneCall, By, Together
  <2>0. "in" \in Groups /\ "out" \in Groups /\ "in" # "out"
    BY DEF Groups
  <2>1. CASE By(p, "in")' = By(p, "in") /\ By(p, "out")' = By(p, "out")
    BY <2>1 DEF CaptureInv, FilesHoldOneCall, By
  <2>2. CASE By(p, "in")' # By(p, "in")
    <3>1. /\ lib.group = "in" /\ By(p, "in")' = id
          /\ \A v \in Workers : Busy(v) => OfBatch(v, p)
          /\ \A h \in Groups : Written(p, h) => InRun(p, h)
      BY <2>0, <2>2, <1>8
    <3>2. By(p, "out")' = By(p, "out")
      BY <2>0, <3>1, <1>8
    <3>3. InRun(p, "out") /\ OfBatch(w, p)
      BY <2>0, <3>1, <3>2, <1>1 DEF Written
    <3>4. By(p, "out")[1] = run /\ By(p, "out")[2] = id[2]
      BY <2>0, <3>3 DEF InRun, OfBatch, id
    <3> QED
      BY <3>1, <3>2, <3>4, <1>3 DEF Together
  <2>3. CASE By(p, "out")' # By(p, "out")
    <3>1. /\ lib.group = "out" /\ By(p, "out")' = id
          /\ CountedFile(p) /\ \A v \in Workers : Busy(v) => OfBatch(v, p)
      BY <2>0, <2>3, <1>8
    <3>2. By(p, "in")' = By(p, "in")
      BY <2>0, <3>1, <1>8
    <3>3. Written(p, "in")
      BY <3>2 DEF Written
    <3>4. CASE InRun(p, "in")
      <4>1. By(p, "in")[1] = run /\ By(p, "in")[2] = id[2]
        BY <2>0, <3>1, <3>4, <1>1 DEF InRun, OfBatch, id
      <4> QED
        BY <3>1, <3>2, <4>1, <1>3 DEF Together
    <3>5. CASE ~InRun(p, "in")
      <4>1. <<run, p>> \in refused
        BY <3>1, <3>3, <3>5 DEF CaptureInv, Renewed
      <4>2. By(p, "in")[1] <= run /\ By(p, "in")[1] # run
        BY <2>0, <3>3, <3>5 DEF CaptureInv, Counted, InRun
      <4>3. By(p, "in") \in Calls
        BY <2>0, <3>3 DEF CaptureInv, Shape, Written
      <4>4. By(p, "in")[1] \in Nat
        BY <4>3 DEF Calls
      <4>5. By(p, "in")[1] < run
        BY <4>2, <4>4, <1>1
      <4> QED
        BY <4>1, <4>5, <3>1, <3>2, <1>3
    <3> QED
      BY <3>4, <3>5
  <2> QED
    BY <2>1, <2>2, <2>3
<1> QED
  BY <1>3, <1>11, <1>12, <1>13, <1>14, <1>15, <1>16 DEF CaptureInv

(* Beginning a call finds a file the run has not written to, and empties it *)
(* unless that is refused.                                                  *)
LEMMA BeforeKeeps ==
  ASSUME CaptureInv, NEW w \in Workers, Before(w)
  PROVE  CaptureInv'
<1> DEFINE t == working[w].table
           n == NextCall(lib, t)
<1>1. /\ run' = run /\ case' = case /\ script' = script
      /\ Busy(w) /\ Done(w) /\ Head(working[w].code) = "before" /\ run \in Nat
      /\ refused \subseteq refused'
  BY DEF Before, Doing, Busy, CaptureInv, Shape
<1>2. Advances(w)
  BY <1>1, OneOn DEF CaptureInv
<1>3. /\ OneBatch' /\ ~Ended
      /\ \A v \in Workers : /\ Busy(v)' => Busy(v)
                            /\ working'[v].code \in Begun =>
                                 working[v].code \in Begun
                                 \/ (v = w /\ Head(working[w].code) = "before")
  BY <1>1, <1>2, StillOneBatch DEF CaptureInv
<1>4. working'[w].code \in Ending
  BY <1>1, <1>2, Statements DEF CaptureInv, OneBatch, Busy, Advances
<1>5. PICK o \in Creations :
        /\ lib' = BeginBefore(lib, disk, t, o).lib
        /\ disk' = BeginBefore(lib, disk, t, o).disk
        /\ o = "refused" /\ ~Full(lib, t) => <<run, <<t, n>> >> \in refused'
  BY DEF Before, Takes
<1> HIDE DEF t
<1>6. /\ DOMAIN lib = {"counts", "path", "group"} /\ Shaped(disk)
      /\ \A s \in DOMAIN lib.counts : lib.counts[s] \in Nat \ {0}
  BY DEF CaptureInv, Shape
<1>7. /\ DOMAIN lib' = {"counts", "path", "group"}
      /\ Shaped(disk')
      /\ Full(lib, t) => /\ disk' = disk /\ lib'.counts = lib.counts /\ lib'.path = NoPath
                         /\ t \notin DOMAIN lib.counts
      /\ ~Full(lib, t) =>
           /\ lib'.counts = Counting(lib, t)
           /\ \A p \in Paths : p # <<t, n>> => disk'[p] = disk[p]
           /\ \A p \in Paths :
                disk'[p] = disk[p] \/ \A g \in Groups : disk'[p].contents[g].by = <<>>
           /\ lib'.path = NoPath \/ lib'.path = <<t, n>>
           /\ o = "refused" => lib'.path = NoPath
           /\ o # "refused" => \A p \in Paths : p = <<t, n>> =>
                \A g \in Groups : disk'[p].contents[g].by = <<>>
  <2> DEFINE b == BeginBefore(lib, disk, t, o)
  <2>1. b = BeginBefore(lib, disk, t, o)
    OBVIOUS
  <2> HIDE DEF b
  <2>2. lib' = b.lib /\ disk' = b.disk
    BY <2>1, <1>5
  <2> QED
    BY <2>1, <2>2, <1>6, BeginEffect
<1>8. \A p \in Paths, g \in Groups : By(p, g)' = By(p, g) \/ By(p, g)' = <<>>
  BY <1>7 DEF By
<1>9. \A p \in Paths, g \in Groups : /\ Written(p, g)' => By(p, g)' = By(p, g) /\ Written(p, g)
                                     /\ InRun(p, g)' => InRun(p, g)
  BY <1>1, <1>8 DEF InRun, Written
<1>10. \A v \in Workers : working'[v].id = working[v].id /\ working'[v].table = working[v].table
  BY <1>2 DEF Advances
<1>11. \A v \in Workers : \A p \in Paths : OfBatch(v, p) => OfBatch(v, p)'
  <2> SUFFICES ASSUME NEW v \in Workers, NEW p \in Paths, OfBatch(v, p), NEW g \in Groups,
                      InRun(p, g)'
               PROVE  By(p, g)'[2] = working'[v].id[2]
    BY DEF OfBatch
  <2>1. InRun(p, g) /\ By(p, g)' = By(p, g)
    BY <1>9 DEF InRun
  <2> QED
    BY <2>1, <1>10 DEF OfBatch
<1>12. n \in Nat \ {0} /\ (t \in DOMAIN lib.counts => n = lib.counts[t] + 1)
       /\ (t \notin DOMAIN lib.counts => n = 1)
  BY <1>6 DEF NextCall, CurrentCall
<1> HIDE DEF n
<1>13. ASSUME ~Full(lib, t)
       PROVE  /\ DOMAIN lib'.counts = DOMAIN lib.counts \cup {t}
              /\ lib'.counts[t] = n
              /\ \A s \in DOMAIN lib.counts : s # t => lib'.counts[s] = lib.counts[s]
  BY <1>7, <1>13 DEF Counting, n
<1>14. ASSUME NEW p \in Paths
       PROVE  /\ p = <<p[1], p[2]>> /\ p[2] \in Nat \ {0}
  BY DEF Paths
<1>15. ASSUME NEW p \in Paths, CountedFile(p)', p # <<t, n>>
       PROVE  CountedFile(p)
  <2>1. CASE Full(lib, t)
    BY <2>1, <1>7, <1>15 DEF CountedFile
  <2>2. CASE ~Full(lib, t)
    <3>1. CASE p[1] = t
      <4>1. p[2] # n /\ p[2] <= n /\ p[2] \in Nat \ {0}
        BY <3>1, <2>2, <1>13, <1>14, <1>15 DEF CountedFile
      <4>2. t \in DOMAIN lib.counts
        BY <4>1, <1>12
      <4>3. lib.counts[t] \in Nat
        BY <4>2, <1>6
      <4>4. p[2] <= lib.counts[t]
        BY <4>1, <4>2, <4>3, <1>12
      <4> QED
        BY <4>2, <4>4, <3>1 DEF CountedFile
    <3>2. CASE p[1] # t
      BY <3>2, <2>2, <1>13, <1>15 DEF CountedFile
    <3> QED
      BY <3>1, <3>2
  <2> QED
    BY <2>1, <2>2
<1>16. ASSUME NEW p \in Paths, CountedFile(p)
       PROVE  CountedFile(p)'
  <2>1. CASE Full(lib, t)
    BY <2>1, <1>7, <1>16 DEF CountedFile
  <2>2. CASE ~Full(lib, t)
    <3>1. CASE p[1] = t
      <4>1. t \in DOMAIN lib.counts /\ p[2] <= lib.counts[t] /\ lib.counts[t] \in Nat
        BY <3>1, <1>6, <1>16 DEF CountedFile
      <4>2. p[2] <= n
        BY <4>1, <1>12, <1>14
      <4> QED
        BY <4>2, <3>1, <2>2, <1>13 DEF CountedFile
    <3>2. CASE p[1] # t
      BY <3>2, <2>2, <1>13, <1>16 DEF CountedFile
    <3> QED
      BY <3>1, <3>2
  <2> QED
    BY <2>1, <2>2
\* The new file is one the run has not counted, nor written.
<1>17. ASSUME NEW p \in Paths, p = <<t, n>>
       PROVE  /\ \A g \in Groups : ~InRun(p, g)'
              /\ ~Full(lib, t) => CountedFile(p)'
  <2>1. p[1] = t /\ p[2] = n
    BY <1>17
  <2>2. ~CountedFile(p)
    BY <2>1, <1>6, <1>12 DEF CountedFile
  <2>3. \A g \in Groups : ~InRun(p, g)
    BY <2>2, <1>3 DEF CaptureInv, Counted
  <2>4. ~Full(lib, t) => CountedFile(p)'
    BY <2>1, <1>12, <1>13 DEF CountedFile
  <2> QED
    BY <2>3, <2>4, <1>9
<1>18. Shape'
  <2>1. \A p \in Paths, g \in Groups : By(p, g)' \in Calls \cup {<<>>}
    BY <1>8 DEF CaptureInv, Shape
  <2>2. \A s \in DOMAIN lib'.counts : lib'.counts[s] \in Nat \ {0}
    <3>1. CASE Full(lib, t)
      BY <3>1, <1>6, <1>7
    <3>2. CASE ~Full(lib, t)
      BY <3>2, <1>6, <1>12, <1>13
    <3> QED
      BY <3>1, <3>2
  <2> QED
    BY <2>1, <2>2, <1>1, <1>2, <1>7 DEF CaptureInv, Shape, Advances
<1>19. Counted'
  BY <1>1, <1>3, <1>9, <1>16 DEF CaptureInv, Counted
<1>20. OpenFile'
  <2> SUFFICES ASSUME lib'.path # NoPath
               PROVE  OpenFile!2'
    BY DEF OpenFile
  <2>1. lib'.path = <<t, n>> /\ ~Full(lib, t) /\ o # "refused"
    BY <1>7
  <2>2. ASSUME lib'.path \in Paths
        PROVE  /\ CountedFile(lib.path)'
               /\ \A v \in Workers : Busy(v)' => OfBatch(v, lib.path)'
               /\ \A g \in Groups : ~Written(lib.path, g)'
    <3>1. PICK p \in Paths : p = lib'.path
      BY <2>2
    <3>2. CountedFile(p)' /\ \A g \in Groups : ~InRun(p, g)'
      BY <3>1, <2>1, <1>17
    <3>3. \A g \in Groups : ~Written(p, g)'
      BY <3>1, <2>1, <1>7 DEF Written, By
    <3>4. \A v \in Workers : OfBatch(v, p)'
      BY <3>2 DEF OfBatch
    <3>5. CountedFile(lib.path)' <=> CountedFile(p)'
      BY <3>1 DEF CountedFile
    <3>6. \A g \in Groups : Written(lib.path, g)' => Written(p, g)'
      BY <3>1 DEF Written, By
    <3>7. \A v \in Workers : OfBatch(v, lib.path)'
      BY <3>3, <3>6 DEF OfBatch, InRun
    <3> QED
      BY <3>2, <3>3, <3>5, <3>6, <3>7
  <2> QED
    BY <2>2, <1>4
<1>21. CurrentFile'
  <2> SUFFICES ASSUME NEW v \in Workers, NEW p \in Paths,
                      working'[v].code \in Begun, p[1] = working'[v].table,
                      p[1] \in DOMAIN lib'.counts, p[2] = lib'.counts[p[1]]
               PROVE  OfBatch(v, p)'
    BY DEF CurrentFile
  <2>1. CASE p = <<t, n>>
    BY <2>1, <1>17 DEF OfBatch
  <2>2. CASE p # <<t, n>>
    <3>1. p[1] # t \/ Full(lib, t)
      BY <2>2, <1>13, <1>14
    <3>2. p[1] \in DOMAIN lib.counts /\ p[2] = lib.counts[p[1]]
      <4>1. CASE Full(lib, t)
        BY <4>1, <1>7
      <4>2. CASE ~Full(lib, t)
        BY <4>2, <3>1, <1>13
      <4> QED
        BY <4>1, <4>2
    <3>3. v # w
      BY <3>1, <3>2, <1>7, <1>10 DEF t
    <3>4. working[v].code \in Begun /\ p[1] = working[v].table
      BY <3>3, <1>3, <1>10
    <3>5. OfBatch(v, p)
      BY <3>2, <3>4 DEF CaptureInv, CurrentFile
    <3> QED
      BY <3>5, <1>11
  <2> QED
    BY <2>1, <2>2
<1>22. Renewed'
  <2> SUFFICES ASSUME NEW p \in Paths, CountedFile(p)', Written(p, "in")'
               PROVE  InRun(p, "in")' \/ <<run, p>> \in refused'
    BY <1>1 DEF Renewed
  <2>0. "in" \in Groups
    BY DEF Groups
  <2>1. CASE p = <<t, n>>
    <3>1. CASE Full(lib, t)
      <4>1. p[1] = t /\ t \notin DOMAIN lib'.counts
        BY <2>1, <3>1, <1>7
      <4> QED
        BY <4>1 DEF CountedFile
    <3>2. CASE ~Full(lib, t)
      <4>1. o = "refused"
        BY <2>0, <2>1, <3>2, <1>7 DEF Written, By
      <4> QED
        BY <4>1, <2>1, <3>2, <1>5
    <3> QED
      BY <3>1, <3>2
  <2>2. CASE p # <<t, n>>
    <3>1. CountedFile(p) /\ Written(p, "in") /\ By(p, "in")' = By(p, "in")
      BY <2>0, <2>2, <1>9, <1>15
    <3>2. InRun(p, "in") \/ <<run, p>> \in refused
      BY <3>1 DEF CaptureInv, Renewed
    <3> QED
      BY <3>1, <3>2, <1>1 DEF InRun, Written
  <2> QED
    BY <2>1, <2>2
<1>23. FilesHoldOneCall'
  <2> SUFFICES ASSUME NEW p \in Paths, By(p, "in")' # <<>>, By(p, "out")' # <<>>
               PROVE  \/ By(p, "in")' = By(p, "out")'
                      \/ Together(By(p, "in")', By(p, "out")')
                      \/ By(p, "in")'[1] < By(p, "out")'[1]
                         /\ <<By(p, "out")'[1], p>> \in refused'
    BY DEF FilesHoldOneCall, By, Together
  <2>1. By(p, "in")' = By(p, "in") /\ By(p, "out")' = By(p, "out")
    BY <1>8 DEF Groups
  <2>2. \/ By(p, "in") = By(p, "out")
        \/ Together(By(p, "in"), By(p, "out"))
        \/ By(p, "in")[1] < By(p, "out")[1] /\ <<By(p, "out")[1], p>> \in refused
    BY <2>1 DEF CaptureInv, FilesHoldOneCall, By
  <2> QED
    BY <2>1, <2>2, <1>1 DEF Together
<1> QED
  BY <1>3, <1>18, <1>19, <1>20, <1>21, <1>22, <1>23 DEF CaptureInv

-----------------------------------------------------------------------------
(* Every step keeps the invariant; the driver only reads.                   *)
LEMMA NextCapture ==
  ASSUME CaptureInv, [Next]_vars
  PROVE  CaptureInv'
<1>1. CASE UNCHANGED vars
  BY <1>1, Untouched DEF vars
<1>2. CASE StartDriver \/ ReplayCall \/ NoCalls \/ Over
  <2>1. UNCHANGED <<case, run, script, working, lib, disk, refused>>
    BY <1>2 DEF StartDriver, ReplayCall, NoCalls, Over, vars
  <2> QED
    BY <2>1, Untouched
<1>3. ASSUME NEW w \in Workers,
             Before(w) \/ After(w) \/ Record(w) \/ EndCapture(w) \/ CallOf(w)
      PROVE  CaptureInv'
  BY <1>3, BeforeKeeps, AfterKeeps, RecordKeeps, EndKeeps, CallKeeps
<1> QED
  BY <1>1, <1>2, <1>3, StartRunKeeps, StartBatchKeeps, CrashKeeps DEF Next

(* While a run goes on it writes to the files it has counted, the open one   *)
(* is written by calls of one batch, and inputs of earlier runs stay only    *)
(* in files whose creation was refused -- for any number of runs, workers    *)
(* and failures of the files.                                                *)
THEOREM CaptureInvariance == Spec => []CaptureInv
<1>1. CaptureInv /\ [Next]_vars => CaptureInv'
  BY NextCapture
<1> QED
  BY <1>1, InitCapture, PTL DEF Spec

(* The two groups of a file on disk are of one call (ccpp_capture_begin and  *)
(* ccpp_capture_end around it), whatever was left there by earlier runs and  *)
(* whatever fails in between.                                                *)
THEOREM OneCallPerFile == Spec => []FilesHoldOneCall
<1>1. CaptureInv => FilesHoldOneCall
  BY DEF CaptureInv
<1> QED
  BY <1>1, CaptureInvariance, PTL
=============================================================================

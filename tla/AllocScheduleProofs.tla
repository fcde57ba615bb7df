------------------------- MODULE AllocScheduleProofs -------------------------
(***************************************************************************)
(* Theorems about AllocSchedule, for any groups, arrays, dimensions and    *)
(* scheme calls: no array in use is forgotten, one that its first user     *)
(* allocates is there when it is used, and it is allocated after its       *)
(* dimensions were produced.                                               *)
(***************************************************************************)
EXTENDS AllocSchedule, FiniteSetTheorems, WellFoundedInduction, TLAPS

(***************************************************************************)
(* The inductive invariant, part by part.                                  *)
(***************************************************************************)
SuiteWide == {"suite_register", "suite_initialize", "suite_finalize"}
GroupWide == {"group_init", "timestep_init", "run", "timestep_final", "group_final"}

Out(e, j, d) == calls[e][j][d] = "out"
Before(f, i, e, j) == RunPos[f] < RunPos[e] \/ (f = e /\ i < j)
UpTo(f, i, e, j) == RunPos[f] < RunPos[e] \/ (f = e /\ i <= j)

Typed ==
  /\ dims \in [Arrays -> DimChoices]
  /\ calls \in [Entries -> Seq(Declarations)]
  /\ \A e \in Entries : calls[e] # <<>> => e[1] \in SchemePhases
  /\ generated \in 0 .. Len(GenerationOrder) + 1
  /\ ran \in 0 .. Len(RunOrder) /\ k \in Nat

(* What is known of a suite that was read in order: a dimension is produced *)
(* once, and its first occurrence is the producer's; an array occurs after  *)
(* its dimensions.                                                          *)
ProducedFirst(e, j, d) ==
  /\ Declares(e, j, d) =>
       \E f \in Entries : \E i \in DOMAIN calls[f] : Out(f, i, d) /\ UpTo(f, i, e, j)
  /\ Out(e, j, d) =>
       \A f \in Entries : \A i \in DOMAIN calls[f] : Declares(f, i, d) => UpTo(e, j, f, i)
SizesFirst(e, j, a) ==
  Declares(e, j, a) =>
    \A d \in Dims(a) \cap OwnedDims :
      \E f \in Entries : \E i \in DOMAIN calls[f] : Declares(f, i, d) /\ Before(f, i, e, j)
SuiteRead ==
  \A e \in Entries : \A j \in DOMAIN calls[e] :
    /\ \A d \in OwnedDims : ProducedFirst(e, j, d)
    /\ \A a \in Arrays : SizesFirst(e, j, a)

(* Where an allocation is, it can be done: ahead of the calls if it need    *)
(* not wait, else after the last call it waits for.                         *)
AllocatedIn(e, a) == a \in lazy[e] \/ \E j \in DOMAIN after[e] : a \in after[e][j]
WellPlaced(e) ==
  /\ lazy[e] \subseteq Arrays
  /\ \A a \in lazy[e] : Resolvable(e, a) /\ WaitsFor(e, a) = {}
  /\ DOMAIN after[e] = IF GenPos[e] <= generated THEN DOMAIN calls[e] ELSE {}
  /\ \A j \in DOMAIN after[e] :
       /\ after[e][j] \subseteq Arrays
       /\ \A a \in after[e][j] :
            Resolvable(e, a) /\ WaitsFor(e, a) # {} /\ Max(WaitsFor(e, a)) = j
  /\ \A a \in Arrays : AllocatedIn(e, a) =>
       GenPos[e] <= generated /\ (Uses(e, a) \/ e[1] \in InitPhases)
Placement ==
  /\ DOMAIN lazy = Entries /\ DOMAIN after = Entries
  /\ \A e \in Entries : WellPlaced(e)

(* A user of an array that was generated allocates it, or a function that   *)
(* was generated before it does, or there was a warning.                    *)
Followed(e, a) ==
  \/ AllocatedIn(e, a) \/ a \in warned
  \/ /\ e[1] \in GroupWide \ InitPhases
     /\ \E f \in Entries : GenPos[f] < GenPos[e] /\ AllocatedIn(f, a)
AllFollowed ==
  /\ \A a \in scheduled : \E e \in Entries : AllocatedIn(e, a)
  /\ \A e \in Entries, a \in Arrays :
       GenPos[e] <= generated /\ Uses(e, a) => Followed(e, a)

(* What the calls so far have produced and allocated.                       *)
Executed(f, i) == RunPos[f] < ran \/ (RunPos[f] = ran /\ i <= k)
Running ==
  /\ ~Ready => ran = 0 /\ unsized = {}
  /\ \A f \in Entries : \A i \in DOMAIN calls[f], d \in OwnedDims :
       Executed(f, i) /\ Out(f, i, d) => d \in produced
  /\ \A f \in Entries : RunPos[f] <= ran => lazy[f] \subseteq allocated
  /\ \A f \in Entries : \A i \in DOMAIN after[f] :
       Executed(f, i) => after[f][i] \subseteq allocated

AllocInv == /\ Typed /\ SuiteRead /\ Placement /\ AllFollowed /\ Running
            /\ SizedUnlessMerged

-----------------------------------------------------------------------------
(***************************************************************************)
(* The two orders.  A phase function is a phase and the number of its      *)
(* group, 0 for the whole suite.                                           *)
(***************************************************************************)
N == Len(GroupOrder)
PartName(g) == IF g = 0 THEN SuitePart ELSE GroupOrder[g]
PhaseFunction(ph, g) == \/ ph \in SuiteWide /\ g = 0
                        \/ ph \in GroupWide /\ g \in 1 .. N
Named(ph, g) == <<ph, PartName(g)>>

(* Where a function is called by the drivers, and where it is generated.   *)
RunSlot(ph, g) ==
  IF ph = "suite_register" THEN 1
  ELSE IF ph = "suite_initialize" THEN 2
  ELSE IF ph = "group_init" THEN 2 + g
  ELSE IF ph = "timestep_init" THEN 2 + N + g
  ELSE IF ph = "run" THEN 2 + 2 * N + g
  ELSE IF ph = "timestep_final" THEN 2 + 3 * N + g
  ELSE IF ph = "group_final" THEN 2 + 4 * N + g
  ELSE 3 + 5 * N
GenSlot(ph, g) ==
  IF ph = "suite_register" THEN 1
  ELSE IF ph = "suite_initialize" THEN 2
  ELSE IF ph = "suite_finalize" THEN 3
  ELSE IF ph = "group_init" THEN 5 * g - 1
  ELSE IF ph = "run" THEN 5 * g
  ELSE IF ph = "timestep_init" THEN 5 * g + 1
  ELSE IF ph = "timestep_final" THEN 5 * g + 2
  ELSE 5 * g + 3

Pairs == (SuiteWide \cup GroupWide) \X (STRING \cup {SuitePart})

(* The groups are numbered from 1.                                         *)
LEMMA Groups ==
  /\ N \in Nat /\ DOMAIN GroupOrder = 1 .. N
  /\ \A g \in 1 .. N : GroupOrder[g] \in STRING /\ GroupOrder[g] # SuitePart
BY GroupAssumption DEF N

(* One phase over all groups.                                              *)
LEMMA OnePhase ==
  ASSUME NEW ph \in GroupWide
  PROVE  /\ OverGroups(<<ph>>) \in Seq(Pairs) /\ Len(OverGroups(<<ph>>)) = N
         /\ \A g \in 1 .. N : OverGroups(<<ph>>)[g] = <<ph, GroupOrder[g]>>
<1> DEFINE s == [x \in 1 .. N |-> <<ph, GroupOrder[x]>>]
<1>1. OverGroups(<<ph>>) = s
  <2>1. Len(<<ph>>) = 1 /\ <<ph>>[1] = ph /\ 1 * N = N
    BY Groups
  <2>2. \A x \in 1 .. N : 1 + ((x - 1) % 1) = 1 /\ 1 + ((x - 1) \div 1) = x
    BY Groups
  <2>3. \A x \in 1 .. N :
          <<<<ph>>[1 + ((x - 1) % 1)], GroupOrder[1 + ((x - 1) \div 1)]>> = <<ph, GroupOrder[x]>>
    BY <2>1, <2>2
  <2>4. OverGroups(<<ph>>) =
          [x \in 1 .. 1 * N |->
             <<<<ph>>[1 + ((x - 1) % 1)], GroupOrder[1 + ((x - 1) \div 1)]>>]
    BY <2>1, Zenon DEF OverGroups, N
  <2> QED
    BY <2>1, <2>3, <2>4
<1>2. \A x \in 1 .. N : <<ph, GroupOrder[x]>> \in Pairs
  BY Groups DEF Pairs
<1>3. s \in [1 .. N -> Pairs]
  BY <1>2
<1>4. s \in Seq(Pairs) /\ Len(s) = N
  <2> HIDE DEF s
  <2> QED
    BY <1>3, Groups
<1> QED
  BY <1>1, <1>4

(* All phases of each group.                                               *)
LEMMA AllPhases ==
  LET ps == <<"group_init", "run", "timestep_init", "timestep_final", "group_final">>
      s == OverGroups(ps) IN
  /\ s \in Seq(Pairs) /\ Len(s) = 5 * N
  /\ \A g \in 1 .. N, j \in 1 .. 5 : s[5 * g - 5 + j] = <<ps[j], GroupOrder[g]>>
  /\ \A x \in 1 .. 5 * N : \E g \in 1 .. N, j \in 1 .. 5 : x = 5 * g - 5 + j
<1> DEFINE ps == <<"group_init", "run", "timestep_init", "timestep_final", "group_final">>
           s == OverGroups(ps)
<1>1. s = [x \in 1 .. 5 * N |->
             <<ps[1 + ((x - 1) % 5)], GroupOrder[1 + ((x - 1) \div 5)]>>]
  <2>1. Len(ps) = 5
    OBVIOUS
  <2> QED
    BY <2>1 DEF OverGroups, N
<1>2. \A j \in 1 .. 5 : ps[j] \in GroupWide
  <2>2. \A j \in 1 .. 5 : j = 1 \/ j = 2 \/ j = 3 \/ j = 4 \/ j = 5
    OBVIOUS
  <2>3. /\ ps[1] = "group_init" /\ ps[2] = "run" /\ ps[3] = "timestep_init"
        /\ ps[4] = "timestep_final" /\ ps[5] = "group_final"
    OBVIOUS
  <2> HIDE DEF ps
  <2> QED
    BY <2>2, <2>3 DEF GroupWide
<1> HIDE DEF s, ps
<1>3. \A x \in 1 .. 5 * N : 1 + ((x - 1) % 5) \in 1 .. 5 /\ 1 + ((x - 1) \div 5) \in 1 .. N
  BY Groups
<1>4. \A g \in 1 .. N, j \in 1 .. 5 :
        /\ 5 * g - 5 + j \in 1 .. 5 * N
        /\ (5 * g - 5 + j - 1) % 5 = j - 1 /\ (5 * g - 5 + j - 1) \div 5 = g - 1
  BY Groups
<1>5. s \in [1 .. 5 * N -> Pairs]
  BY <1>1, <1>2, <1>3, Groups DEF Pairs
<1>6. s \in Seq(Pairs) /\ Len(s) = 5 * N
  BY <1>5, Groups
<1>7. \A g \in 1 .. N, j \in 1 .. 5 : s[5 * g - 5 + j] = <<ps[j], GroupOrder[g]>>
  <2> TAKE g \in 1 .. N, j \in 1 .. 5
  <2> DEFINE x == 5 * g - 5 + j
  <2>1. x \in 1 .. 5 * N /\ (x - 1) % 5 = j - 1 /\ (x - 1) \div 5 = g - 1
    BY <1>4
  <2> HIDE DEF x
  <2>2. s[x] = <<ps[1 + ((x - 1) % 5)], GroupOrder[1 + ((x - 1) \div 5)]>>
    BY <1>1, <2>1
  <2>3. 1 + (j - 1) = j /\ 1 + (g - 1) = g
    BY Groups
  <2> QED
    BY <2>1, <2>2, <2>3 DEF x
<1>8. \A x \in 1 .. 5 * N : \E g \in 1 .. N, j \in 1 .. 5 : x = 5 * g - 5 + j
  <2> TAKE x \in 1 .. 5 * N
  <2>1. 1 + ((x - 1) \div 5) \in 1 .. N /\ 1 + ((x - 1) % 5) \in 1 .. 5
    BY <1>3
  <2>2. x = 5 * (1 + ((x - 1) \div 5)) - 5 + (1 + ((x - 1) % 5))
    BY Groups
  <2> QED
    BY <2>1, <2>2, Zenon
<1> QED
  BY <1>6, <1>7, <1>8 DEF s, ps

(* One sequence after another.                                             *)
LEMMA Joined ==
  ASSUME NEW s \in Seq(Pairs), NEW t \in Seq(Pairs)
  PROVE  /\ s \o t \in Seq(Pairs) /\ Len(s \o t) = Len(s) + Len(t)
         /\ \A x \in 1 .. Len(s) : (s \o t)[x] = s[x]
         /\ \A x \in 1 .. Len(t) : (s \o t)[Len(s) + x] = t[x]
OBVIOUS

(* One more phase over all groups.                                         *)
LEMMA OneMorePhase ==
  ASSUME NEW s \in Seq(Pairs), NEW ph \in GroupWide
  PROVE  LET u == s \o OverGroups(<<ph>>) IN
         /\ u \in Seq(Pairs) /\ Len(u) = Len(s) + N
         /\ \A x \in 1 .. Len(s) : u[x] = s[x]
         /\ \A g \in 1 .. N : u[Len(s) + g] = <<ph, GroupOrder[g]>>
<1> DEFINE t == OverGroups(<<ph>>)
<1>1. /\ t \in Seq(Pairs) /\ Len(t) = N
      /\ \A g \in 1 .. N : t[g] = <<ph, GroupOrder[g]>>
  BY OnePhase
<1> HIDE DEF t
<1>2. /\ s \o t \in Seq(Pairs) /\ Len(s \o t) = Len(s) + Len(t)
      /\ \A x \in 1 .. Len(s) : (s \o t)[x] = s[x]
      /\ \A x \in 1 .. Len(t) : (s \o t)[Len(s) + x] = t[x]
  BY <1>1, Joined, Zenon
<1>3. /\ s \o t \in Seq(Pairs) /\ Len(s \o t) = Len(s) + N
      /\ \A x \in 1 .. Len(s) : (s \o t)[x] = s[x]
      /\ \A g \in 1 .. N : (s \o t)[Len(s) + g] = <<ph, GroupOrder[g]>>
  BY <1>1, <1>2, Zenon
<1> QED
  BY <1>3, Zenon DEF t

(* What the drivers call where.                                            *)
LEMMA RunOrderIs ==
  /\ RunOrder \in Seq(Pairs) /\ Len(RunOrder) = 3 + 5 * N
  /\ RunOrder[1] = <<"suite_register", SuitePart>>
  /\ RunOrder[2] = <<"suite_initialize", SuitePart>>
  /\ \A g \in 1 .. N : RunOrder[2 + g] = <<"group_init", GroupOrder[g]>>
  /\ \A g \in 1 .. N : RunOrder[2 + N + g] = <<"timestep_init", GroupOrder[g]>>
  /\ \A g \in 1 .. N : RunOrder[2 + 2 * N + g] = <<"run", GroupOrder[g]>>
  /\ \A g \in 1 .. N : RunOrder[2 + 3 * N + g] = <<"timestep_final", GroupOrder[g]>>
  /\ \A g \in 1 .. N : RunOrder[2 + 4 * N + g] = <<"group_final", GroupOrder[g]>>
  /\ RunOrder[3 + 5 * N] = <<"suite_finalize", SuitePart>>
<1> DEFINE s0 == <<<<"suite_register", SuitePart>>, <<"suite_initialize", SuitePart>>>>
           s1 == s0 \o OverGroups(<<"group_init">>)
           s2 == s1 \o OverGroups(<<"timestep_init">>)
           s3 == s2 \o OverGroups(<<"run">>)
           s4 == s3 \o OverGroups(<<"timestep_final">>)
           s5 == s4 \o OverGroups(<<"group_final">>)
           last == <<<<"suite_finalize", SuitePart>>>>
<1>1. /\ s0 \in Seq(Pairs) /\ Len(s0) = 2
      /\ s0[1] = <<"suite_register", SuitePart>> /\ s0[2] = <<"suite_initialize", SuitePart>>
  BY DEF Pairs, SuiteWide
<1>2. last \in Seq(Pairs) /\ Len(last) = 1 /\ last[1] = <<"suite_finalize", SuitePart>>
  BY DEF Pairs, SuiteWide
<1>3. RunOrder = s5 \o last
  BY DEF RunOrder
<1> HIDE DEF s0, s1, s2, s3, s4, s5, last
<1>4. /\ s1 \in Seq(Pairs) /\ Len(s1) = 2 + N
      /\ \A x \in 1 .. 2 : s1[x] = s0[x]
      /\ \A g \in 1 .. N : s1[2 + g] = <<"group_init", GroupOrder[g]>>
  <2>1. 2 + N = 2 + N /\ "group_init" \in GroupWide
    BY Groups DEF GroupWide
  <2>2. s1 = s0 \o OverGroups(<<"group_init">>)
    BY DEF s1
  <2>3. /\ s1 \in Seq(Pairs) /\ Len(s1) = Len(s0) + N
        /\ \A x \in 1 .. Len(s0) : s1[x] = s0[x]
        /\ \A g \in 1 .. N : s1[Len(s0) + g] = <<"group_init", GroupOrder[g]>>
    BY <1>1, <2>1, <2>2, OneMorePhase, Zenon
  <2>4. /\ s1 \in Seq(Pairs) /\ Len(s1) = 2 + N
        /\ \A x \in 1 .. 2 : s1[x] = s0[x]
        /\ \A g \in 1 .. N : s1[2 + g] = <<"group_init", GroupOrder[g]>>
    BY <1>1, <2>3, Zenon
  <2> QED
    BY <2>1, <2>4, Zenon
<1>5. /\ s2 \in Seq(Pairs) /\ Len(s2) = 2 + 2 * N
      /\ \A x \in 1 .. 2 + N : s2[x] = s1[x]
      /\ \A g \in 1 .. N : s2[2 + N + g] = <<"timestep_init", GroupOrder[g]>>
  <2>1. 2 + N + N = 2 + 2 * N /\ "timestep_init" \in GroupWide
    BY Groups DEF GroupWide
  <2>2. s2 = s1 \o OverGroups(<<"timestep_init">>)
    BY DEF s2
  <2>3. /\ s2 \in Seq(Pairs) /\ Len(s2) = Len(s1) + N
        /\ \A x \in 1 .. Len(s1) : s2[x] = s1[x]
        /\ \A g \in 1 .. N : s2[Len(s1) + g] = <<"timestep_init", GroupOrder[g]>>
    BY <1>4, <2>1, <2>2, OneMorePhase, Zenon
  <2>4. /\ s2 \in Seq(Pairs) /\ Len(s2) = 2 + N + N
        /\ \A x \in 1 .. 2 + N : s2[x] = s1[x]
        /\ \A g \in 1 .. N : s2[2 + N + g] = <<"timestep_init", GroupOrder[g]>>
    BY <1>4, <2>3, Zenon
  <2> QED
    BY <2>1, <2>4, Zenon
<1>6. /\ s3 \in Seq(Pairs) /\ Len(s3) = 2 + 3 * N
      /\ \A x \in 1 .. 2 + 2 * N : s3[x] = s2[x]
      /\ \A g \in 1 .. N : s3[2 + 2 * N + g] = <<"run", GroupOrder[g]>>
  <2>1. 2 + 2 * N + N = 2 + 3 * N /\ "run" \in GroupWide
    BY Groups DEF GroupWide
  <2>2. s3 = s2 \o OverGroups(<<"run">>)
    BY DEF s3
  <2>3. /\ s3 \in Seq(Pairs) /\ Len(s3) = Len(s2) + N
        /\ \A x \in 1 .. Len(s2) : s3[x] = s2[x]
        /\ \A g \in 1 .. N : s3[Len(s2) + g] = <<"run", GroupOrder[g]>>
    BY <1>5, <2>1, <2>2, OneMorePhase, Zenon
  <2>4. /\ s3 \in Seq(Pairs) /\ Len(s3) = 2 + 2 * N + N
        /\ \A x \in 1 .. 2 + 2 * N : s3[x] = s2[x]
        /\ \A g \in 1 .. N : s3[2 + 2 * N + g] = <<"run", GroupOrder[g]>>
    BY <1>5, <2>3, Zenon
  <2> QED
    BY <2>1, <2>4, Zenon
<1>7. /\ s4 \in Seq(Pairs) /\ Len(s4) = 2 + 4 * N
      /\ \A x \in 1 .. 2 + 3 * N : s4[x] = s3[x]
      /\ \A g \in 1 .. N : s4[2 + 3 * N + g] = <<"timestep_final", GroupOrder[g]>>
  <2>1. 2 + 3 * N + N = 2 + 4 * N /\ "timestep_final" \in GroupWide
    BY Groups DEF GroupWide
  <2>2. s4 = s3 \o OverGroups(<<"timestep_final">>)
    BY DEF s4
  <2>3. /\ s4 \in Seq(Pairs) /\ Len(s4) = Len(s3) + N
        /\ \A x \in 1 .. Len(s3) : s4[x] = s3[x]
        /\ \A g \in 1 .. N : s4[Len(s3) + g] = <<"timestep_final", GroupOrder[g]>>
    BY <1>6, <2>1, <2>2, OneMorePhase, Zenon
  <2>4. /\ s4 \in Seq(Pairs) /\ Len(s4) = 2 + 3 * N + N
        /\ \A x \in 1 .. 2 + 3 * N : s4[x] = s3[x]
        /\ \A g \in 1 .. N : s4[2 + 3 * N + g] = <<"timestep_final", GroupOrder[g]>>
    BY <1>6, <2>3, Zenon
  <2> QED
    BY <2>1, <2>4, Zenon
<1>8. /\ s5 \in Seq(Pairs) /\ Len(s5) = 2 + 5 * N
      /\ \A x \in 1 .. 2 + 4 * N : s5[x] = s4[x]
      /\ \A g \in 1 .. N : s5[2 + 4 * N + g] = <<"group_final", GroupOrder[g]>>
  <2>1. 2 + 4 * N + N = 2 + 5 * N /\ "group_final" \in GroupWide
    BY Groups DEF GroupWide
  <2>2. s5 = s4 \o OverGroups(<<"group_final">>)
    BY DEF s5
  <2>3. /\ s5 \in Seq(Pairs) /\ Len(s5) = Len(s4) + N
        /\ \A x \in 1 .. Len(s4) : s5[x] = s4[x]
        /\ \A g \in 1 .. N : s5[Len(s4) + g] = <<"group_final", GroupOrder[g]>>
    BY <1>7, <2>1, <2>2, OneMorePhase, Zenon
  <2>4. /\ s5 \in Seq(Pairs) /\ Len(s5) = 2 + 4 * N + N
        /\ \A x \in 1 .. 2 + 4 * N : s5[x] = s4[x]
        /\ \A g \in 1 .. N : s5[2 + 4 * N + g] = <<"group_final", GroupOrder[g]>>
    BY <1>7, <2>3, Zenon
  <2> QED
    BY <2>1, <2>4, Zenon
<1>9. /\ RunOrder \in Seq(Pairs) /\ Len(RunOrder) = 3 + 5 * N
      /\ \A x \in 1 .. 2 + 5 * N : RunOrder[x] = s5[x]
      /\ RunOrder[3 + 5 * N] = <<"suite_finalize", SuitePart>>
  <2>1. (2 + 5 * N) + 1 = 3 + 5 * N
    BY Groups
  <2>2. /\ RunOrder \in Seq(Pairs) /\ Len(RunOrder) = Len(s5) + Len(last)
        /\ \A x \in 1 .. Len(s5) : RunOrder[x] = s5[x]
        /\ \A x \in 1 .. Len(last) : RunOrder[Len(s5) + x] = last[x]
    BY <1>2, <1>3, <1>8, Joined, Zenon
  <2>3. 1 \in 1 .. 1
    OBVIOUS
  <2>4. RunOrder[(2 + 5 * N) + 1] = last[1]
    BY <1>2, <1>8, <2>2, <2>3, Zenon
  <2> QED
    BY <1>2, <1>8, <2>1, <2>2, <2>4, Zenon
<1>10. \A x \in 1 .. 2 : RunOrder[x] = s0[x]
  <2> TAKE x \in 1 .. 2
  <2>1. /\ x \in 1 .. 2 + N /\ x \in 1 .. 2 + 2 * N /\ x \in 1 .. 2 + 3 * N
        /\ x \in 1 .. 2 + 4 * N /\ x \in 1 .. 2 + 5 * N
    BY Groups
  <2> QED
    BY <2>1, <1>4, <1>5, <1>6, <1>7, <1>8, <1>9, Zenon
<1>11. \A g \in 1 .. N : RunOrder[2 + g] = s1[2 + g]
  <2> TAKE g \in 1 .. N
  <2>1. /\ 2 + g \in 1 .. 2 + N
        /\ 2 + g \in 1 .. 2 + 2 * N
        /\ 2 + g \in 1 .. 2 + 3 * N
        /\ 2 + g \in 1 .. 2 + 4 * N
        /\ 2 + g \in 1 .. 2 + 5 * N
    BY Groups
  <2> QED
    BY <2>1, <1>5, <1>6, <1>7, <1>8, <1>9, Zenon
<1>12. \A g \in 1 .. N : RunOrder[2 + N + g] = s2[2 + N + g]
  <2> TAKE g \in 1 .. N
  <2>1. /\ 2 + N + g \in 1 .. 2 + 2 * N
        /\ 2 + N + g \in 1 .. 2 + 3 * N
        /\ 2 + N + g \in 1 .. 2 + 4 * N
        /\ 2 + N + g \in 1 .. 2 + 5 * N
    BY Groups
  <2> QED
    BY <2>1, <1>6, <1>7, <1>8, <1>9, Zenon
<1>13. \A g \in 1 .. N : RunOrder[2 + 2 * N + g] = s3[2 + 2 * N + g]
  <2> TAKE g \in 1 .. N
  <2>1. /\ 2 + 2 * N + g \in 1 .. 2 + 3 * N
        /\ 2 + 2 * N + g \in 1 .. 2 + 4 * N
        /\ 2 + 2 * N + g \in 1 .. 2 + 5 * N
    BY Groups
  <2> QED
    BY <2>1, <1>7, <1>8, <1>9, Zenon
<1>14. \A g \in 1 .. N : RunOrder[2 + 3 * N + g] = s4[2 + 3 * N + g]
  <2> TAKE g \in 1 .. N
  <2>1. /\ 2 + 3 * N + g \in 1 .. 2 + 4 * N
        /\ 2 + 3 * N + g \in 1 .. 2 + 5 * N
    BY Groups
  <2> QED
    BY <2>1, <1>8, <1>9, Zenon
<1>15. \A g \in 1 .. N : RunOrder[2 + 4 * N + g] = s5[2 + 4 * N + g]
  <2> TAKE g \in 1 .. N
  <2>1. /\ 2 + 4 * N + g \in 1 .. 2 + 5 * N
    BY Groups
  <2> QED
    BY <2>1, <1>9, Zenon
<1>16. 1 \in 1 .. 2 /\ 2 \in 1 .. 2
  OBVIOUS
<1> QED
  BY <1>1, <1>4, <1>5, <1>6, <1>7, <1>8, <1>9, <1>10, <1>11, <1>12, <1>13, <1>14, <1>15,
     <1>16, Zenon

(* What is generated where.                                                *)
LEMMA GenerationOrderIs ==
  /\ GenerationOrder \in Seq(Pairs) /\ Len(GenerationOrder) = 3 + 5 * N
  /\ GenerationOrder[1] = <<"suite_register", SuitePart>>
  /\ GenerationOrder[2] = <<"suite_initialize", SuitePart>>
  /\ GenerationOrder[3] = <<"suite_finalize", SuitePart>>
  /\ \A g \in 1 .. N :
       /\ GenerationOrder[5 * g - 1] = <<"group_init", GroupOrder[g]>>
       /\ GenerationOrder[5 * g] = <<"run", GroupOrder[g]>>
       /\ GenerationOrder[5 * g + 1] = <<"timestep_init", GroupOrder[g]>>
       /\ GenerationOrder[5 * g + 2] = <<"timestep_final", GroupOrder[g]>>
       /\ GenerationOrder[5 * g + 3] = <<"group_final", GroupOrder[g]>>
  /\ \A x \in 4 .. 3 + 5 * N : \E g \in 1 .. N, j \in 1 .. 5 : x = 5 * g - 2 + j
<1> DEFINE ps == <<"group_init", "run", "timestep_init", "timestep_final", "group_final">>
           s0 == <<<<"suite_register", SuitePart>>, <<"suite_initialize", SuitePart>>,
                   <<"suite_finalize", SuitePart>>>>
           t == OverGroups(ps)
<1>1. /\ s0 \in Seq(Pairs) /\ Len(s0) = 3
      /\ s0[1] = <<"suite_register", SuitePart>> /\ s0[2] = <<"suite_initialize", SuitePart>>
      /\ s0[3] = <<"suite_finalize", SuitePart>>
  BY DEF Pairs, SuiteWide
<1>2. /\ ps[1] = "group_init" /\ ps[2] = "run" /\ ps[3] = "timestep_init"
      /\ ps[4] = "timestep_final" /\ ps[5] = "group_final"
  OBVIOUS
<1>3. GenerationOrder = s0 \o t
  BY DEF GenerationOrder
<1>4. /\ t \in Seq(Pairs) /\ Len(t) = 5 * N
      /\ \A g \in 1 .. N, j \in 1 .. 5 : t[5 * g - 5 + j] = <<ps[j], GroupOrder[g]>>
      /\ \A x \in 1 .. 5 * N : \E g \in 1 .. N, j \in 1 .. 5 : x = 5 * g - 5 + j
  BY AllPhases
<1> HIDE DEF s0, t, ps
<1>5. /\ GenerationOrder \in Seq(Pairs) /\ Len(GenerationOrder) = 3 + 5 * N
      /\ \A x \in 1 .. 3 : GenerationOrder[x] = s0[x]
      /\ \A x \in 1 .. 5 * N : GenerationOrder[3 + x] = t[x]
  <2>1. /\ GenerationOrder \in Seq(Pairs) /\ Len(GenerationOrder) = Len(s0) + Len(t)
        /\ \A x \in 1 .. Len(s0) : GenerationOrder[x] = s0[x]
        /\ \A x \in 1 .. Len(t) : GenerationOrder[Len(s0) + x] = t[x]
    BY <1>1, <1>3, <1>4, Joined, Zenon
  <2> QED
    BY <1>1, <1>4, <2>1, Zenon
<1>6. ASSUME NEW g \in 1 .. N, NEW j \in 1 .. 5
      PROVE  GenerationOrder[5 * g - 2 + j] = <<ps[j], GroupOrder[g]>>
  <2>1. 5 * g - 5 + j \in 1 .. 5 * N /\ 3 + (5 * g - 5 + j) = 5 * g - 2 + j
    BY Groups
  <2> QED
    BY <1>4, <1>5, <2>1
<1>7. ASSUME NEW g \in 1 .. N
      PROVE  /\ GenerationOrder[5 * g - 1] = <<"group_init", GroupOrder[g]>>
             /\ GenerationOrder[5 * g] = <<"run", GroupOrder[g]>>
             /\ GenerationOrder[5 * g + 1] = <<"timestep_init", GroupOrder[g]>>
             /\ GenerationOrder[5 * g + 2] = <<"timestep_final", GroupOrder[g]>>
             /\ GenerationOrder[5 * g + 3] = <<"group_final", GroupOrder[g]>>
  <2>1. /\ 5 * g - 2 + 1 = 5 * g - 1 /\ 5 * g - 2 + 2 = 5 * g /\ 5 * g - 2 + 3 = 5 * g + 1
        /\ 5 * g - 2 + 4 = 5 * g + 2 /\ 5 * g - 2 + 5 = 5 * g + 3
    BY Groups
  <2>2. 1 \in 1 .. 5 /\ 2 \in 1 .. 5 /\ 3 \in 1 .. 5 /\ 4 \in 1 .. 5 /\ 5 \in 1 .. 5
    OBVIOUS
  <2>3. /\ GenerationOrder[5 * g - 2 + 1] = <<ps[1], GroupOrder[g]>>
        /\ GenerationOrder[5 * g - 2 + 2] = <<ps[2], GroupOrder[g]>>
        /\ GenerationOrder[5 * g - 2 + 3] = <<ps[3], GroupOrder[g]>>
        /\ GenerationOrder[5 * g - 2 + 4] = <<ps[4], GroupOrder[g]>>
        /\ GenerationOrder[5 * g - 2 + 5] = <<ps[5], GroupOrder[g]>>
    BY <1>6, <2>2, Zenon
  <2> QED
    BY <1>2, <2>1, <2>3, Zenon
<1>8. ASSUME NEW x \in 4 .. 3 + 5 * N
      PROVE  \E g \in 1 .. N, j \in 1 .. 5 : x = 5 * g - 2 + j
  <2>1. x - 3 \in 1 .. 5 * N
    BY Groups
  <2>2. PICK g \in 1 .. N, j \in 1 .. 5 : x - 3 = 5 * g - 5 + j
    BY <1>4, <2>1
  <2>3. x = 5 * g - 2 + j
    BY <2>2, Groups
  <2> QED
    BY <2>3
<1> QED
  BY <1>1, <1>5, <1>7, <1>8

(* The phases are those of the suite and those of the groups.              *)
LEMMA PhaseCases ==
  ASSUME NEW ph, NEW g, PhaseFunction(ph, g)
  PROVE  \/ (ph = "suite_register" /\ g = 0) \/ (ph = "suite_initialize" /\ g = 0)
         \/ (ph = "suite_finalize" /\ g = 0)
         \/ (ph = "group_init" /\ g \in 1 .. N) \/ (ph = "timestep_init" /\ g \in 1 .. N)
         \/ (ph = "run" /\ g \in 1 .. N) \/ (ph = "timestep_final" /\ g \in 1 .. N)
         \/ (ph = "group_final" /\ g \in 1 .. N)
BY DEF PhaseFunction, SuiteWide, GroupWide

(* Every function is called where RunSlot says, and nothing else is.       *)
LEMMA RunSlots ==
  /\ \A ph, g : PhaseFunction(ph, g) =>
       RunSlot(ph, g) \in 1 .. 3 + 5 * N /\ RunOrder[RunSlot(ph, g)] = Named(ph, g)
  /\ \A p \in 1 .. 3 + 5 * N : \E ph, g : PhaseFunction(ph, g) /\ p = RunSlot(ph, g)
<1>1. ASSUME NEW ph, NEW g, PhaseFunction(ph, g)
      PROVE  RunSlot(ph, g) \in 1 .. 3 + 5 * N /\ RunOrder[RunSlot(ph, g)] = Named(ph, g)
  <2>1. CASE ph \in SuiteWide /\ g = 0
    BY <2>1, RunOrderIs, Groups DEF SuiteWide, RunSlot, Named, PartName
  <2>2. CASE ph \in GroupWide /\ g \in 1 .. N
    <3>1. g \in Nat /\ g # 0 /\ g <= N /\ g > 0
      BY <2>2, Groups
    <3>2. PartName(g) = GroupOrder[g]
      BY <3>1 DEF PartName
    <3>3. CASE ph = "group_init"
      BY <2>2, <3>1, <3>2, <3>3, RunOrderIs, Groups DEF RunSlot, Named
    <3>4. CASE ph = "timestep_init"
      BY <2>2, <3>1, <3>2, <3>4, RunOrderIs, Groups DEF RunSlot, Named
    <3>5. CASE ph = "run"
      BY <2>2, <3>1, <3>2, <3>5, RunOrderIs, Groups DEF RunSlot, Named
    <3>6. CASE ph = "timestep_final"
      BY <2>2, <3>1, <3>2, <3>6, RunOrderIs, Groups DEF RunSlot, Named
    <3>7. CASE ph = "group_final"
      BY <2>2, <3>1, <3>2, <3>7, RunOrderIs, Groups DEF RunSlot, Named
    <3> QED
      BY <2>2, <3>3, <3>4, <3>5, <3>6, <3>7 DEF GroupWide
  <2> QED
    BY <1>1, <2>1, <2>2 DEF PhaseFunction
<1>2. ASSUME NEW p \in 1 .. 3 + 5 * N
      PROVE  \E ph, g : PhaseFunction(ph, g) /\ p = RunSlot(ph, g)
  <2>1. \/ p = 1 \/ p = 2 \/ p = 3 + 5 * N
        \/ p - 2 \in 1 .. N \/ p - 2 - N \in 1 .. N \/ p - 2 - 2 * N \in 1 .. N
        \/ p - 2 - 3 * N \in 1 .. N \/ p - 2 - 4 * N \in 1 .. N
    BY Groups
  <2>2. CASE p = 1
    <3>1. PhaseFunction("suite_register", 0) /\ p = RunSlot("suite_register", 0)
      BY <2>2 DEF PhaseFunction, SuiteWide, RunSlot
    <3> QED
      BY <3>1
  <2>3. CASE p = 2
    <3>1. PhaseFunction("suite_initialize", 0) /\ p = RunSlot("suite_initialize", 0)
      BY <2>3 DEF PhaseFunction, SuiteWide, RunSlot
    <3> QED
      BY <3>1
  <2>4. CASE p = 3 + 5 * N
    <3>1. PhaseFunction("suite_finalize", 0) /\ p = RunSlot("suite_finalize", 0)
      BY <2>4 DEF PhaseFunction, SuiteWide, RunSlot
    <3> QED
      BY <3>1
  <2>5. CASE p - 2 \in 1 .. N
    <3> DEFINE g == p - 2
    <3>1. p = 2 + g
      BY Groups
    <3>2. PhaseFunction("group_init", g) /\ p = RunSlot("group_init", g)
      BY <2>5, <3>1 DEF PhaseFunction, GroupWide, RunSlot
    <3> QED
      BY <3>2
  <2>6. CASE p - 2 - N \in 1 .. N
    <3> DEFINE g == p - 2 - N
    <3>1. p = 2 + N + g
      BY Groups
    <3>2. PhaseFunction("timestep_init", g) /\ p = RunSlot("timestep_init", g)
      BY <2>6, <3>1 DEF PhaseFunction, GroupWide, RunSlot
    <3> QED
      BY <3>2
  <2>7. CASE p - 2 - 2 * N \in 1 .. N
    <3> DEFINE g == p - 2 - 2 * N
    <3>1. p = 2 + 2 * N + g
      BY Groups
    <3>2. PhaseFunction("run", g) /\ p = RunSlot("run", g)
      BY <2>7, <3>1 DEF PhaseFunction, GroupWide, RunSlot
    <3> QED
      BY <3>2
  <2>8. CASE p - 2 - 3 * N \in 1 .. N
    <3> DEFINE g == p - 2 - 3 * N
    <3>1. p = 2 + 3 * N + g
      BY Groups
    <3>2. PhaseFunction("timestep_final", g) /\ p = RunSlot("timestep_final", g)
      BY <2>8, <3>1 DEF PhaseFunction, GroupWide, RunSlot
    <3> QED
      BY <3>2
  <2>9. CASE p - 2 - 4 * N \in 1 .. N
    <3> DEFINE g == p - 2 - 4 * N
    <3>1. p = 2 + 4 * N + g
      BY Groups
    <3>2. PhaseFunction("group_final", g) /\ p = RunSlot("group_final", g)
      BY <2>9, <3>1 DEF PhaseFunction, GroupWide, RunSlot
    <3> QED
      BY <3>2
  <2> QED
    BY <2>1, <2>2, <2>3, <2>4, <2>5, <2>6, <2>7, <2>8, <2>9
<1> QED
  BY <1>1, <1>2

(* Every function is generated where GenSlot says, and nothing else is.    *)
LEMMA GenSlots ==
  /\ \A ph, g : PhaseFunction(ph, g) =>
       /\ GenSlot(ph, g) \in 1 .. 3 + 5 * N
       /\ GenerationOrder[GenSlot(ph, g)] = Named(ph, g)
  /\ \A p \in 1 .. 3 + 5 * N : \E ph, g : PhaseFunction(ph, g) /\ p = GenSlot(ph, g)
<1>1. ASSUME NEW ph, NEW g, PhaseFunction(ph, g)
      PROVE  /\ GenSlot(ph, g) \in 1 .. 3 + 5 * N
             /\ GenerationOrder[GenSlot(ph, g)] = Named(ph, g)
  <2>1. CASE ph \in SuiteWide /\ g = 0
    BY <2>1, GenerationOrderIs, Groups DEF SuiteWide, GenSlot, Named, PartName
  <2>2. CASE ph \in GroupWide /\ g \in 1 .. N
    <3>1. g \in Nat /\ g # 0 /\ g <= N /\ g > 0
      BY <2>2, Groups
    <3>2. PartName(g) = GroupOrder[g]
      BY <3>1 DEF PartName
    <3>3. CASE ph = "group_init"
      BY <2>2, <3>1, <3>2, <3>3, GenerationOrderIs, Groups DEF GenSlot, Named
    <3>4. CASE ph = "timestep_init"
      BY <2>2, <3>1, <3>2, <3>4, GenerationOrderIs, Groups DEF GenSlot, Named
    <3>5. CASE ph = "run"
      BY <2>2, <3>1, <3>2, <3>5, GenerationOrderIs, Groups DEF GenSlot, Named
    <3>6. CASE ph = "timestep_final"
      BY <2>2, <3>1, <3>2, <3>6, GenerationOrderIs, Groups DEF GenSlot, Named
    <3>7. CASE ph = "group_final"
      BY <2>2, <3>1, <3>2, <3>7, GenerationOrderIs, Groups DEF GenSlot, Named
    <3> QED
      BY <2>2, <3>3, <3>4, <3>5, <3>6, <3>7 DEF GroupWide
  <2> QED
    BY <1>1, <2>1, <2>2 DEF PhaseFunction
<1>2. ASSUME NEW p \in 1 .. 3 + 5 * N
      PROVE  \E ph, g : PhaseFunction(ph, g) /\ p = GenSlot(ph, g)
  <2>1. p = 1 \/ p = 2 \/ p = 3 \/ p \in 4 .. 3 + 5 * N
    BY Groups
  <2>2. CASE p = 1
    <3>1. PhaseFunction("suite_register", 0) /\ p = GenSlot("suite_register", 0)
      BY <2>2 DEF PhaseFunction, SuiteWide, GenSlot
    <3> QED
      BY <3>1
  <2>3. CASE p = 2
    <3>1. PhaseFunction("suite_initialize", 0) /\ p = GenSlot("suite_initialize", 0)
      BY <2>3 DEF PhaseFunction, SuiteWide, GenSlot
    <3> QED
      BY <3>1
  <2>4. CASE p = 3
    <3>1. PhaseFunction("suite_finalize", 0) /\ p = GenSlot("suite_finalize", 0)
      BY <2>4 DEF PhaseFunction, SuiteWide, GenSlot
    <3> QED
      BY <3>1
  <2>5. CASE p \in 4 .. 3 + 5 * N
    <3>1. PICK g \in 1 .. N, j \in 1 .. 5 : p = 5 * g - 2 + j
      BY <2>5, GenerationOrderIs
    <3>2. /\ PhaseFunction("group_init", g) /\ PhaseFunction("run", g)
          /\ PhaseFunction("timestep_init", g) /\ PhaseFunction("timestep_final", g)
          /\ PhaseFunction("group_final", g)
      BY DEF PhaseFunction, GroupWide
    <3>3. \/ p = GenSlot("group_init", g) \/ p = GenSlot("run", g)
          \/ p = GenSlot("timestep_init", g) \/ p = GenSlot("timestep_final", g)
          \/ p = GenSlot("group_final", g)
      BY <3>1, Groups DEF GenSlot
    <3> QED
      BY <3>2, <3>3
  <2> QED
    BY <2>1, <2>2, <2>3, <2>4, <2>5
<1> QED
  BY <1>1, <1>2

(* A function is known by its name.                                        *)
LEMMA NamesDiffer ==
  ASSUME NEW ph, NEW g, NEW qh, NEW h, PhaseFunction(ph, g), PhaseFunction(qh, h),
         Named(ph, g) = Named(qh, h)
  PROVE  ph = qh /\ g = h
<1>1. ph = qh /\ PartName(g) = PartName(h)
  BY DEF Named
<1>2. ph \in SuiteWide => g = 0 /\ h = 0
  BY <1>1, PhaseCases DEF SuiteWide
<1>3. ph \in GroupWide => g \in 1 .. N /\ h \in 1 .. N
  BY <1>1, PhaseCases DEF GroupWide
<1>4. ASSUME ph \in GroupWide PROVE g = h
  <2>1. g \in 1 .. N /\ h \in 1 .. N /\ g # 0 /\ h # 0
    BY <1>3, <1>4, Groups
  <2>2. GroupOrder[g] = GroupOrder[h]
    BY <1>1, <2>1 DEF PartName
  <2> QED
    BY <2>1, <2>2, Groups, GroupAssumption
<1>5. ph \in SuiteWide \/ ph \in GroupWide
  BY DEF PhaseFunction
<1> QED
  BY <1>1, <1>2, <1>4, <1>5

(* All that the rest needs to know of the two orders.                      *)
LEMMA Orders ==
  /\ Len(RunOrder) \in Nat /\ Len(GenerationOrder) \in Nat
  /\ DOMAIN RunOrder = 1 .. Len(RunOrder)
  /\ DOMAIN GenerationOrder = 1 .. Len(GenerationOrder)
  /\ \A e \in Entries :
       /\ RunPos[e] \in 1 .. Len(RunOrder) /\ RunOrder[RunPos[e]] = e
       /\ GenPos[e] \in 1 .. Len(GenerationOrder) /\ GenerationOrder[GenPos[e]] = e
       /\ e[1] \in SuiteWide \/ ColumnRange(e)
  /\ \A p \in 1 .. Len(RunOrder) :
       RunOrder[p] \in Entries /\ RunPos[RunOrder[p]] = p
  /\ \A p \in 1 .. Len(GenerationOrder) :
       GenerationOrder[p] \in Entries /\ GenPos[GenerationOrder[p]] = p
  /\ \A e, f \in Entries :
       f[1] \in InitPhases /\ e[1] \in GroupWide \ InitPhases => RunPos[f] < RunPos[e]
<1>1. /\ Len(RunOrder) = 3 + 5 * N /\ Len(GenerationOrder) = 3 + 5 * N
      /\ DOMAIN RunOrder = 1 .. 3 + 5 * N /\ DOMAIN GenerationOrder = 1 .. 3 + 5 * N
      /\ 3 + 5 * N \in Nat
  BY RunOrderIs, GenerationOrderIs, Groups
<1>2. Entries = {RunOrder[p] : p \in 1 .. 3 + 5 * N}
  BY <1>1 DEF Entries, Range
<1>3. ASSUME NEW ph, NEW g, PhaseFunction(ph, g)
      PROVE  /\ Named(ph, g) \in Entries
             /\ RunPos[Named(ph, g)] = RunSlot(ph, g)
             /\ GenPos[Named(ph, g)] = GenSlot(ph, g)
  <2> DEFINE e == Named(ph, g)
  <2>1. /\ RunSlot(ph, g) \in 1 .. 3 + 5 * N /\ RunOrder[RunSlot(ph, g)] = e
        /\ GenSlot(ph, g) \in 1 .. 3 + 5 * N /\ GenerationOrder[GenSlot(ph, g)] = e
    BY <1>3, RunSlots, GenSlots
  <2>2. e \in Entries
    BY <1>2, <2>1
  <2>3. ASSUME NEW p \in 1 .. 3 + 5 * N, RunOrder[p] = e PROVE p = RunSlot(ph, g)
    <3>1. PICK qh, h : PhaseFunction(qh, h) /\ p = RunSlot(qh, h)
      BY RunSlots
    <3>2. Named(qh, h) = Named(ph, g)
      BY <2>3, <3>1, RunSlots
    <3> QED
      BY <1>3, <3>1, <3>2, NamesDiffer
  <2>4. ASSUME NEW p \in 1 .. 3 + 5 * N, GenerationOrder[p] = e PROVE p = GenSlot(ph, g)
    <3>1. PICK qh, h : PhaseFunction(qh, h) /\ p = GenSlot(qh, h)
      BY GenSlots
    <3>2. Named(qh, h) = Named(ph, g)
      BY <2>4, <3>1, GenSlots
    <3> QED
      BY <1>3, <3>1, <3>2, NamesDiffer
  <2> HIDE DEF e
  <2>5. RunPos[e] = CHOOSE j \in 1 .. 3 + 5 * N : RunOrder[j] = e
    BY <1>1, <2>2 DEF RunPos
  <2>6. GenPos[e] = CHOOSE j \in 1 .. 3 + 5 * N : GenerationOrder[j] = e
    BY <1>1, <2>2 DEF GenPos
  <2>7. RunPos[e] = RunSlot(ph, g)
    BY <2>1, <2>3, <2>5
  <2>8. GenPos[e] = GenSlot(ph, g)
    BY <2>1, <2>4, <2>6
  <2> QED
    BY <2>2, <2>7, <2>8 DEF e
<1>4. ASSUME NEW e \in Entries
      PROVE  \E ph, g : PhaseFunction(ph, g) /\ e = Named(ph, g)
  BY <1>2, RunSlots
<1>5. ASSUME NEW e \in Entries
      PROVE  /\ RunPos[e] \in 1 .. 3 + 5 * N /\ RunOrder[RunPos[e]] = e
             /\ GenPos[e] \in 1 .. 3 + 5 * N /\ GenerationOrder[GenPos[e]] = e
             /\ e[1] \in SuiteWide \/ ColumnRange(e)
  <2>1. PICK ph, g : PhaseFunction(ph, g) /\ e = Named(ph, g)
    BY <1>4
  <2>2. ph \in SuiteWide \/ g \in 1 .. N
    BY <2>1 DEF PhaseFunction
  <2>3. g \in 1 .. N => PartName(g) # SuitePart
    BY Groups DEF PartName
  <2>4. e[1] = ph /\ e[2] = PartName(g)
    BY <2>1 DEF Named
  <2>5. e[1] \in SuiteWide \/ ColumnRange(e)
    BY <2>2, <2>3, <2>4 DEF ColumnRange
  <2>6. /\ RunSlot(ph, g) \in 1 .. 3 + 5 * N /\ RunOrder[RunSlot(ph, g)] = e
        /\ GenSlot(ph, g) \in 1 .. 3 + 5 * N /\ GenerationOrder[GenSlot(ph, g)] = e
    BY <2>1, RunSlots, GenSlots
  <2> QED
    BY <1>3, <2>1, <2>5, <2>6
<1>6. ASSUME NEW p \in 1 .. 3 + 5 * N
      PROVE  RunOrder[p] \in Entries /\ RunPos[RunOrder[p]] = p
  <2>1. PICK ph, g : PhaseFunction(ph, g) /\ p = RunSlot(ph, g)
    BY RunSlots
  <2> QED
    BY <1>3, <2>1, RunSlots
<1>7. ASSUME NEW p \in 1 .. 3 + 5 * N
      PROVE  GenerationOrder[p] \in Entries /\ GenPos[GenerationOrder[p]] = p
  <2>1. PICK ph, g : PhaseFunction(ph, g) /\ p = GenSlot(ph, g)
    BY GenSlots
  <2> QED
    BY <1>3, <2>1, GenSlots
<1>8. ASSUME NEW e \in Entries, NEW f \in Entries,
             f[1] \in InitPhases, e[1] \in GroupWide \ InitPhases
      PROVE  RunPos[f] < RunPos[e]
  <2>1. PICK ph, g : PhaseFunction(ph, g) /\ e = Named(ph, g)
    BY <1>4
  <2>2. PICK qh, h : PhaseFunction(qh, h) /\ f = Named(qh, h)
    BY <1>4
  <2>3. /\ ph \in GroupWide \ InitPhases /\ qh \in InitPhases
        /\ RunPos[e] = RunSlot(ph, g) /\ RunPos[f] = RunSlot(qh, h)
    BY <1>3, <1>8, <2>1, <2>2 DEF Named
  <2>4. /\ g \in 1 .. N /\ (qh = "suite_initialize" \/ (qh = "group_init" /\ h \in 1 .. N))
        /\ \/ ph = "timestep_init" \/ ph = "run" \/ ph = "timestep_final"
           \/ ph = "group_final"
    BY <2>1, <2>2, <2>3, PhaseCases DEF InitPhases, GroupWide
  <2>5. RunSlot(qh, h) <= 2 + N /\ RunSlot(qh, h) \in Nat
    BY <2>4, Groups DEF RunSlot
  <2>6. RunSlot(ph, g) > 2 + N
    BY <2>4, Groups DEF RunSlot
  <2>7. RunSlot(ph, g) \in Nat
    BY <2>4, Groups DEF RunSlot
  <2> QED
    BY <2>3, <2>5, <2>6, <2>7, Groups
<1> QED
  BY <1>1, <1>5, <1>6, <1>7, <1>8

-----------------------------------------------------------------------------
(***************************************************************************)
(* The operators of the model.                                             *)
(***************************************************************************)

(* A nonempty set of numbers has a least element.                          *)
LEMMA LeastOf ==
  ASSUME NEW S, S \subseteq Nat, S # {}
  PROVE  Min(S) \in S /\ \A y \in S : Min(S) <= y
<1>1. IsWellFoundedOn(OpToRel(<, Nat), Nat)
  BY NatLessThanWellFounded, Zenon
<1>2. \E x \in S : \A y \in S : ~ (<<y, x>> \in OpToRel(<, Nat))
  BY <1>1, WFMin, Zenon
<1>3. \E x \in S : \A y \in S : ~ (y < x)
  BY <1>2 DEF OpToRel
<1>4. \E x \in S : \A y \in S : x <= y
  BY <1>3
<1> QED
  BY <1>4, Zenon DEF Min

(* A nonempty set of numbers up to n has a greatest element.               *)
LEMMA GreatestOf ==
  ASSUME NEW n \in Nat, NEW S, S \subseteq 1 .. n, S # {}
  PROVE  Max(S) \in S /\ \A y \in S : y <= Max(S)
<1> DEFINE T == {n - x : x \in S}
<1>1. T \subseteq Nat /\ T # {}
  <2>1. \A x \in S : n - x \in Nat
    OBVIOUS
  <2> QED
    BY <2>1
<1>2. Min(T) \in T /\ \A y \in T : Min(T) <= y
  BY <1>1, LeastOf
<1>3. PICK x \in S : Min(T) = n - x
  BY <1>2
<1>4. \A y \in S : n - x <= n - y
  BY <1>2, <1>3
<1>5. \A y \in S : x >= y
  BY <1>4
<1>6. \E z \in S : \A y \in S : z >= y
  BY <1>5
<1>7. Max(S) \in S /\ \A y \in S : Max(S) >= y
  BY <1>6, Zenon DEF Max
<1> QED
  BY <1>7

(* The scheme calls of a function.                                         *)
LEMMA CallsAre ==
  ASSUME Typed, NEW e \in Entries
  PROVE  /\ Len(calls[e]) \in Nat /\ DOMAIN calls[e] = 1 .. Len(calls[e])
         /\ \A j \in DOMAIN calls[e] : \A v \in Vars : calls[e][j][v] \in Intents
         /\ DOMAIN calls[e] # {} => e[1] \in SchemePhases
<1>1. calls[e] \in Seq(Declarations)
  BY DEF Typed
<1>2. /\ Len(calls[e]) \in Nat /\ DOMAIN calls[e] = 1 .. Len(calls[e])
      /\ \A j \in DOMAIN calls[e] : calls[e][j] \in Declarations
  BY <1>1
<1>3. DOMAIN calls[e] # {} => calls[e] # <<>>
  BY <1>1
<1> QED
  BY <1>2, <1>3 DEF Typed, Declarations

(* The arguments of all scheme calls of a function have one intent, or     *)
(* they have not and are inout.                                            *)
LEMMA OneIntent ==
  ASSUME Typed, NEW e \in Entries, NEW v \in Vars, Declared(e, v)
  PROVE  /\ MergedIntent(e, v) \in {"in", "out", "inout"}
         /\ MergedIntent(e, v) # "inout" =>
              \A j \in DOMAIN calls[e] :
                Declares(e, j, v) => calls[e][j][v] = MergedIntent(e, v)
<1> DEFINE S == {calls[e][j][v] : j \in DOMAIN calls[e]} \ {"none"}
<1>1. S \subseteq {"in", "out"}
  BY CallsAre DEF Intents
<1>2. MergedIntent(e, v) = IF Cardinality(S) = 1 THEN CHOOSE i \in S : TRUE ELSE "inout"
  BY DEF MergedIntent
<1>3. \A j \in DOMAIN calls[e] : Declares(e, j, v) => calls[e][j][v] \in S
  BY DEF Declares
<1> HIDE DEF S
<1>4. CASE Cardinality(S) = 1
  <2>1. IsFiniteSet({"in", "out"})
    <3>1. IsFiniteSet({"in"} \cup {"out"})
      BY FS_Singleton, FS_AddElement
    <3>2. {"in"} \cup {"out"} = {"in", "out"}
      OBVIOUS
    <3> QED
      BY <3>1, <3>2
  <2>2. IsFiniteSet(S)
    BY <1>1, <2>1, FS_Subset
  <2>3. PICK x : S = {x}
    BY <1>4, <2>2, FS_Singleton
  <2>4. MergedIntent(e, v) = x
    BY <1>2, <1>4, <2>3
  <2> QED
    BY <1>1, <1>3, <2>3, <2>4
<1>5. CASE Cardinality(S) # 1
  BY <1>2, <1>5
<1> QED
  BY <1>4, <1>5

(* Dimensions an array waits for are produced by all that declare them,    *)
(* the producer first.                                                     *)
LEMMA ProducerIs ==
  ASSUME Typed, NEW e \in Entries, NEW d, Awaited(e, d)
  PROVE  /\ d \in OwnedDims /\ Producer(e, d) \in DOMAIN calls[e]
         /\ Out(e, Producer(e, d), d)
         /\ \A j \in DOMAIN calls[e] :
              Declares(e, j, d) => Producer(e, d) <= j /\ Out(e, j, d)
<1> DEFINE S == {j \in DOMAIN calls[e] : Declares(e, j, d)}
<1>1. d \in OwnedDims /\ Declared(e, d) /\ MergedIntent(e, d) = "out"
  BY DEF Awaited
<1>2. d \in Vars
  BY <1>1 DEF Vars
<1>3. S # {} /\ S \subseteq Nat
  BY <1>1, CallsAre DEF Declared
<1>4. Producer(e, d) \in S /\ \A j \in S : Producer(e, d) <= j
  BY <1>3, LeastOf DEF Producer
<1>5. \A j \in S : calls[e][j][d] = "out"
  <2>1. "out" # "inout"
    OBVIOUS
  <2> QED
    BY <1>1, <1>2, <2>1, OneIntent
<1> QED
  BY <1>1, <1>4, <1>5 DEF Out

(* The calls an array waits for have a last one.                           *)
LEMMA LastAwaited ==
  ASSUME Typed, NEW e \in Entries, NEW a \in Arrays, WaitsFor(e, a) # {}
  PROVE  LET m == Max(WaitsFor(e, a)) IN
         /\ m \in DOMAIN calls[e]
         /\ \E d \in Dims(a) : Awaited(e, d) /\ Producer(e, d) = m
         /\ \A d \in Dims(a) : Awaited(e, d) => Producer(e, d) <= m
<1>1. WaitsFor(e, a) \subseteq 1 .. Len(calls[e]) /\ Len(calls[e]) \in Nat
  BY CallsAre, ProducerIs DEF WaitsFor
<1>2. /\ Max(WaitsFor(e, a)) \in WaitsFor(e, a)
      /\ \A y \in WaitsFor(e, a) : y <= Max(WaitsFor(e, a))
  BY <1>1, GreatestOf
<1>3. Max(WaitsFor(e, a)) \in DOMAIN calls[e]
  BY <1>1, <1>2, CallsAre
<1> QED
  BY <1>2, <1>3 DEF WaitsFor

(* What is said of a suite stays true while the suite stays the same.      *)
LEMMA SameSuite ==
  ASSUME UNCHANGED <<dims, calls>>, NEW e, NEW a
  PROVE  /\ Resolvable(e, a)' <=> Resolvable(e, a)
         /\ WaitsFor(e, a)' = WaitsFor(e, a)
         /\ Uses(e, a)' <=> Uses(e, a)
         /\ Merged(a)' <=> Merged(a)
BY DEF Resolvable, WaitsFor, Uses, Merged, Awaited, InScope, Declared, Declares,
       MergedIntent, Producer, Dims

(* A dimension that need not be waited for was produced before, unless the *)
(* function has one scheme produce it and another read it.                 *)
LEMMA DimensionThere ==
  ASSUME Typed, SuiteRead, NEW e \in Entries, NEW a \in Arrays, Resolvable(e, a),
         Uses(e, a) \/ e[1] \in InitPhases,
         NEW d \in Dims(a) \cap OwnedDims, ~Awaited(e, d)
  PROVE  \/ Merged(a)
         \/ \E f \in Entries : \E i \in DOMAIN calls[f] :
              Out(f, i, d) /\ RunPos[f] < RunPos[e]
<1>1. InScope(e, d) /\ d \in Vars /\ d \notin ModuleDims
  BY VariableAssumption DEF Resolvable, Vars
<1>2. CASE Declared(e, d)
  <2>1. PICK j \in DOMAIN calls[e] : Declares(e, j, d)
    BY <1>2 DEF Declared
  <2>2. PICK f \in Entries : \E i \in DOMAIN calls[f] : Out(f, i, d) /\ UpTo(f, i, e, j)
    BY <2>1 DEF SuiteRead, ProducedFirst
  <2>3. PICK i \in DOMAIN calls[f] : Out(f, i, d) /\ UpTo(f, i, e, j)
    BY <2>2
  <2>4. MergedIntent(e, d) # "out"
    BY <1>2 DEF Awaited
  <2>5. CASE MergedIntent(e, d) = "inout"
    BY <1>2, <2>5 DEF Merged
  <2>6. CASE MergedIntent(e, d) # "inout"
    <3>1. \A l \in DOMAIN calls[e] : Declares(e, l, d) => ~Out(e, l, d)
      BY <1>1, <1>2, <2>4, <2>6, OneIntent DEF Out
    <3>2. f # e
      BY <2>3, <3>1 DEF Out, Declares
    <3> QED
      BY <2>3, <3>2 DEF UpTo
  <2> QED
    BY <2>5, <2>6
<1>3. CASE ~Declared(e, d)
  <2>1. Uses(e, a)
    BY <1>1, <1>3 DEF InScope
  <2>2. PICK j \in DOMAIN calls[e] : Declares(e, j, a)
    BY <2>1 DEF Uses, Declared
  <2>3. PICK f \in Entries : \E i \in DOMAIN calls[f] : Declares(f, i, d) /\ Before(f, i, e, j)
    BY <2>2 DEF SuiteRead, SizesFirst
  <2>4. PICK i \in DOMAIN calls[f] : Declares(f, i, d) /\ Before(f, i, e, j)
    BY <2>3
  <2>5. f # e
    BY <1>3, <2>4 DEF Declared
  <2>6. RunPos[f] < RunPos[e]
    BY <2>4, <2>5 DEF Before
  <2>7. PICK h \in Entries : \E l \in DOMAIN calls[h] : Out(h, l, d) /\ UpTo(h, l, f, i)
    BY <2>4 DEF SuiteRead, ProducedFirst
  <2>8. PICK l \in DOMAIN calls[h] : Out(h, l, d) /\ UpTo(h, l, f, i)
    BY <2>7
  <2>9. RunPos[h] \in Nat /\ RunPos[f] \in Nat /\ RunPos[e] \in Nat
    BY Orders
  <2>10. RunPos[h] < RunPos[e]
    BY <2>6, <2>8, <2>9 DEF UpTo
  <2> QED
    BY <2>8, <2>10
<1> QED
  BY <1>2, <1>3

-----------------------------------------------------------------------------
(***************************************************************************)
(* The invariant, action by action.                                        *)
(***************************************************************************)

(* As long as nothing was called, nothing is produced or allocated.        *)
LEMMA NothingRan ==
  ASSUME Placement', DOMAIN calls' = Entries, ran' = 0, unsized' = {},
         \A e \in Entries : DOMAIN calls'[e] \subseteq Nat \ {0},
         \A e \in Entries : DOMAIN after'[e] \subseteq Nat \ {0}
  PROVE  Running' /\ SizedUnlessMerged'
<1>1. \A f \in Entries : RunPos[f] \in Nat /\ RunPos[f] > 0
  BY Orders
<1>2. \A f \in Entries, i \in Nat : ~Executed(f, i)'
  BY <1>1 DEF Executed
<1>3. Running'
  BY <1>1, <1>2 DEF Running
<1> QED
  BY <1>3 DEF SizedUnlessMerged

(* Before the generation there are no allocations.                         *)
LEMMA NothingPlaced ==
  ASSUME Typed, Placement, generated = 0, NEW e \in Entries
  PROVE  lazy[e] = {} /\ DOMAIN after[e] = {}
<1>1. GenPos[e] \in Nat /\ GenPos[e] > 0
  BY Orders
<1>2. WellPlaced(e)
  BY DEF Placement
<1>3. DOMAIN after[e] = {}
  BY <1>1, <1>2 DEF WellPlaced
<1>4. ASSUME NEW a \in lazy[e] PROVE FALSE
  <2>1. a \in Arrays /\ AllocatedIn(e, a)
    BY <1>2, <1>4 DEF WellPlaced, AllocatedIn
  <2> QED
    BY <1>1, <1>2, <2>1 DEF WellPlaced
<1> QED
  BY <1>3, <1>4

(* At the start no suite has been read.                                    *)
LEMMA InitAlloc == Init => AllocInv
<1> SUFFICES ASSUME Init PROVE AllocInv
  OBVIOUS
<1>1. Typed
  BY Orders DEF Init, Typed
<1>2. \A e \in Entries : calls[e] = <<>> /\ DOMAIN calls[e] = {}
  BY DEF Init
<1>3. SuiteRead
  BY <1>2 DEF SuiteRead
<1>4. \A e \in Entries : GenPos[e] \in Nat /\ GenPos[e] > 0
  BY Orders
<1>5. generated = 0 /\ \A e \in Entries : lazy[e] = {} /\ DOMAIN after[e] = {}
  BY DEF Init
<1>6. \A e \in Entries : ~(GenPos[e] <= generated) /\ \A a : ~AllocatedIn(e, a)
  BY <1>4, <1>5 DEF AllocatedIn
<1>7. Placement
  <2>1. DOMAIN lazy = Entries /\ DOMAIN after = Entries
    BY DEF Init
  <2>2. \A e \in Entries : WellPlaced(e)
    BY <1>5, <1>6 DEF WellPlaced
  <2> QED
    BY <2>1, <2>2 DEF Placement
<1>8. AllFollowed
  BY <1>6 DEF AllFollowed, Init
<1>9. \A f \in Entries : RunPos[f] \in Nat /\ RunPos[f] > 0
  BY Orders
<1>10. Running /\ SizedUnlessMerged
  BY <1>2, <1>5, <1>9 DEF Running, SizedUnlessMerged, Init
<1> QED
  BY <1>1, <1>3, <1>7, <1>8, <1>10 DEF AllocInv

(* The suite is read in order.                                             *)
LEMMA ReadKeeps ==
  ASSUME AllocInv, ReadSchemeCall
  PROVE  AllocInv'
<1>1. PICK e \in Entries, c \in Declarations :
        /\ e[1] \in SchemePhases /\ MayFollow(e, c)
        /\ calls' = [calls EXCEPT ![e] = Append(calls[e], c)]
  BY DEF ReadSchemeCall, AllocInv, Typed
<1>2. /\ generated = 0 /\ UNCHANGED <<dims, gen_vars, run_vars>>
      /\ UNCHANGED <<generated, lazy, after, scheduled, warned, ran, k, unsized>>
  BY DEF ReadSchemeCall, gen_vars, run_vars
<1>3. Typed /\ SuiteRead /\ Placement
  BY DEF AllocInv
<1> DEFINE n == Len(calls[e])
<1>4. /\ n \in Nat /\ DOMAIN calls[e] = 1 .. n
      /\ \A f \in Entries : DOMAIN calls[f] = 1 .. Len(calls[f]) /\ Len(calls[f]) \in Nat
  BY <1>3, CallsAre
<1>5. /\ calls' \in [Entries -> Seq(Declarations)]
      /\ \A f \in Entries : f # e => calls'[f] = calls[f]
      /\ calls'[e] = Append(calls[e], c)
  BY <1>1, <1>3 DEF Typed
<1>6. /\ DOMAIN calls'[e] = 1 .. n + 1 /\ calls'[e][n + 1] = c
      /\ \A i \in 1 .. n : calls'[e][i] = calls[e][i]
  <2>1. calls[e] \in Seq(Declarations)
    BY <1>3 DEF Typed
  <2> QED
    BY <2>1, <1>5
<1>7. /\ \A f \in Entries : \A i \in DOMAIN calls'[f] :
           \/ i \in DOMAIN calls[f] /\ calls'[f][i] = calls[f][i]
           \/ f = e /\ i = n + 1 /\ calls'[f][i] = c
      /\ \A f \in Entries : \A i \in DOMAIN calls[f] :
           i \in DOMAIN calls'[f] /\ calls'[f][i] = calls[f][i]
      /\ n + 1 \in DOMAIN calls'[e]
  <2>1. ASSUME NEW f \in Entries, f # e PROVE calls'[f] = calls[f]
    BY <1>5, <2>1
  <2>2. DOMAIN calls[e] = 1 .. n /\ DOMAIN calls'[e] = 1 .. n + 1
    BY <1>4, <1>6
  <2> HIDE DEF n
  <2>3. /\ \A i \in DOMAIN calls'[e] :
             \/ i \in DOMAIN calls[e] /\ calls'[e][i] = calls[e][i]
             \/ i = n + 1 /\ calls'[e][i] = c
        /\ \A i \in DOMAIN calls[e] : i \in DOMAIN calls'[e] /\ calls'[e][i] = calls[e][i]
        /\ n + 1 \in DOMAIN calls'[e]
    BY <1>4, <1>6, <2>2
  <2> QED
    BY <2>1, <2>3, Zenon
<1> HIDE DEF n
<1>8. Typed'
  <2>1. \A f \in Entries : calls'[f] # <<>> => f[1] \in SchemePhases
    BY <1>1, <1>3, <1>5 DEF Typed
  <2> QED
    BY <2>1, <1>2, <1>3, <1>5 DEF Typed
<1>9. ASSUME NEW f \in Entries, NEW i \in DOMAIN calls[f]
      PROVE  Before(f, i, e, n + 1)
  <2>1. calls[f] # <<>>
    BY <1>4
  <2>2. RunPos[f] <= RunPos[e]
    BY <1>1, <2>1 DEF MayFollow
  <2>3. RunPos[f] \in Nat /\ RunPos[e] \in Nat /\ (RunPos[f] = RunPos[e] => f = e)
    BY Orders
  <2>4. f = e => i < n + 1
    BY <1>4
  <2> QED
    BY <2>2, <2>3, <2>4 DEF Before
<1>10. \A v \in Vars : c[v] # "none" =>
         /\ v \notin HostDims /\ ~Seen(v) => c[v] = "out"
         /\ v \in Arrays => \A d \in Dims(v) \cap OwnedDims : Seen(d)
         /\ v \in OwnedDims /\ c[v] = "out" => ~Seen(v)
  BY <1>1 DEF MayFollow
<1>11. SuiteRead'
  <2> SUFFICES ASSUME NEW g \in Entries, NEW j \in DOMAIN calls'[g]
               PROVE  /\ \A d \in OwnedDims : ProducedFirst(g, j, d)'
                      /\ \A a \in Arrays : SizesFirst(g, j, a)'
    BY DEF SuiteRead
  <2>1. CASE j \in DOMAIN calls[g] /\ calls'[g][j] = calls[g][j]
    <3>1. ASSUME NEW d \in OwnedDims PROVE ProducedFirst(g, j, d)'
      <4>1. ProducedFirst(g, j, d)
        BY <1>3, <2>1 DEF SuiteRead
      <4>2. ASSUME Declares(g, j, d)'
            PROVE  \E f \in Entries : \E i \in DOMAIN calls'[f] :
                     Out(f, i, d)' /\ UpTo(f, i, g, j)
        <5>1. Declares(g, j, d)
          BY <2>1, <4>2 DEF Declares
        <5>2. PICK f \in Entries : \E i \in DOMAIN calls[f] : Out(f, i, d) /\ UpTo(f, i, g, j)
          BY <4>1, <5>1 DEF ProducedFirst
        <5>3. PICK i \in DOMAIN calls[f] : Out(f, i, d) /\ UpTo(f, i, g, j)
          BY <5>2
        <5>4. i \in DOMAIN calls'[f] /\ Out(f, i, d)'
          BY <1>7, <5>3 DEF Out
        <5> QED
          BY <5>3, <5>4
      <4>3. ASSUME Out(g, j, d)', NEW f \in Entries, NEW i \in DOMAIN calls'[f],
                   Declares(f, i, d)'
            PROVE  UpTo(g, j, f, i)
        <5>1. Out(g, j, d)
          BY <2>1, <4>3 DEF Out
        <5>2. CASE i \in DOMAIN calls[f] /\ calls'[f][i] = calls[f][i]
          <6>1. Declares(f, i, d)
            BY <4>3, <5>2 DEF Declares
          <6> QED
            BY <4>1, <5>1, <5>2, <6>1 DEF ProducedFirst
        <5>3. CASE f = e /\ i = n + 1
          <6>1. Before(g, j, e, n + 1) /\ j \in Nat
            BY <1>4, <1>9, <2>1
          <6> QED
            BY <5>3, <6>1, <1>4 DEF Before, UpTo
        <5> QED
          BY <5>2, <5>3, <1>7
      <4> QED
        BY <4>2, <4>3 DEF ProducedFirst, UpTo
    <3>2. ASSUME NEW a \in Arrays PROVE SizesFirst(g, j, a)'
      <4> SUFFICES ASSUME Declares(g, j, a)', NEW d \in Dims(a)' \cap OwnedDims
                   PROVE  \E f \in Entries : \E i \in DOMAIN calls'[f] :
                            Declares(f, i, d)' /\ Before(f, i, g, j)
        BY DEF SizesFirst, Before
      <4>1. Declares(g, j, a) /\ d \in Dims(a) \cap OwnedDims /\ SizesFirst(g, j, a)
        BY <1>2, <1>3, <2>1 DEF Declares, SuiteRead, Dims
      <4>2. PICK f \in Entries : \E i \in DOMAIN calls[f] : Declares(f, i, d) /\ Before(f, i, g, j)
        BY <4>1 DEF SizesFirst
      <4>3. PICK i \in DOMAIN calls[f] : Declares(f, i, d) /\ Before(f, i, g, j)
        BY <4>2
      <4>4. i \in DOMAIN calls'[f] /\ Declares(f, i, d)'
        BY <1>7, <4>3 DEF Declares
      <4> QED
        BY <4>3, <4>4
    <3> QED
      BY <3>1, <3>2
  <2>2. CASE g = e /\ j = n + 1 /\ calls'[g][j] = c
    <3>1. ASSUME NEW d \in OwnedDims PROVE ProducedFirst(g, j, d)'
      <4>1. d \notin HostDims
        BY VariableAssumption
      <4>2. CASE c[d] = "out"
        <5>1. ~Seen(d)
          BY <1>10, <4>2 DEF Vars
        <5>2. Out(g, j, d)' /\ UpTo(g, j, g, j)
          BY <2>2, <4>2, <1>4 DEF Out, UpTo
        <5>3. ASSUME NEW f \in Entries, NEW i \in DOMAIN calls'[f], Declares(f, i, d)'
              PROVE  f = e /\ i = n + 1
          <6>1. CASE i \in DOMAIN calls[f] /\ calls'[f][i] = calls[f][i]
            BY <5>1, <5>3, <6>1 DEF Declares, Declared, Seen
          <6> QED
            BY <6>1, <1>7
        <5> QED
          BY <2>2, <5>2, <5>3, <1>7 DEF ProducedFirst, UpTo
      <4>3. CASE c[d] # "out"
        <5> SUFFICES ASSUME Declares(g, j, d)'
                     PROVE  \E f \in Entries : \E i \in DOMAIN calls'[f] :
                              Out(f, i, d)' /\ UpTo(f, i, g, j)
          BY <2>2, <4>3 DEF ProducedFirst, Out, UpTo
        <5>1. c[d] # "none"
          BY <2>2 DEF Declares
        <5>2. Seen(d)
          BY <1>10, <4>1, <4>3, <5>1 DEF Vars
        <5>3. PICK f \in Entries : \E i \in DOMAIN calls[f] : Declares(f, i, d)
          BY <5>2 DEF Seen, Declared
        <5>4. PICK i \in DOMAIN calls[f] : Declares(f, i, d)
          BY <5>3
        <5>5. ProducedFirst(f, i, d)
          BY <1>3, <5>4 DEF SuiteRead
        <5>6. PICK h \in Entries : \E l \in DOMAIN calls[h] : Out(h, l, d)
          BY <5>4, <5>5 DEF ProducedFirst
        <5>7. PICK l \in DOMAIN calls[h] : Out(h, l, d)
          BY <5>6
        <5>8. l \in DOMAIN calls'[h] /\ Out(h, l, d)'
          BY <1>7, <5>7 DEF Out
        <5>9. UpTo(h, l, e, n + 1)
          <6>1. Before(h, l, e, n + 1) /\ l \in Nat
            BY <1>4, <1>9
          <6> QED
            BY <6>1, <1>4 DEF Before, UpTo
        <5> QED
          BY <2>2, <5>8, <5>9
      <4> QED
        BY <4>2, <4>3
    <3>2. ASSUME NEW a \in Arrays PROVE SizesFirst(g, j, a)'
      <4> SUFFICES ASSUME Declares(g, j, a)', NEW d \in Dims(a)' \cap OwnedDims
                   PROVE  \E f \in Entries : \E i \in DOMAIN calls'[f] :
                            Declares(f, i, d)' /\ Before(f, i, g, j)
        BY DEF SizesFirst, Before
      <4>1. c[a] # "none" /\ d \in Dims(a) \cap OwnedDims
        BY <1>2, <2>2 DEF Declares, Dims
      <4>2. Seen(d)
        BY <1>10, <4>1 DEF Vars
      <4>3. PICK f \in Entries : \E i \in DOMAIN calls[f] : Declares(f, i, d)
        BY <4>2 DEF Seen, Declared
      <4>4. PICK i \in DOMAIN calls[f] : Declares(f, i, d)
        BY <4>3
      <4>5. i \in DOMAIN calls'[f] /\ Declares(f, i, d)' /\ Before(f, i, g, j)
        BY <1>7, <1>9, <2>2, <4>4 DEF Declares
      <4> QED
        BY <4>5
    <3> QED
      BY <3>1, <3>2
  <2> QED
    BY <2>1, <2>2, <1>7
<1>12. \A f \in Entries : lazy'[f] = {} /\ DOMAIN after'[f] = {}
  BY <1>2, <1>3, NothingPlaced
<1>13. \A f \in Entries : ~(GenPos[f] <= generated') /\ \A a : ~AllocatedIn(f, a)'
  <2>1. \A f \in Entries : GenPos[f] \in Nat /\ GenPos[f] > 0
    BY Orders
  <2> QED
    BY <2>1, <1>2, <1>12 DEF AllocatedIn
<1>14. Placement'
  <2>1. \A f \in Entries : WellPlaced(f)'
    BY <1>12, <1>13 DEF WellPlaced
  <2> QED
    BY <2>1, <1>2, <1>3 DEF Placement
<1>15. AllFollowed'
  <2>1. \A a \in scheduled : \E f \in Entries : AllocatedIn(f, a)
    BY DEF AllocInv, AllFollowed
  <2>2. \A f \in Entries : \A a : AllocatedIn(f, a)' <=> AllocatedIn(f, a)
    BY <1>2 DEF AllocatedIn
  <2>3. scheduled' = scheduled
    BY <1>2
  <2> QED
    BY <1>13, <2>1, <2>2, <2>3 DEF AllFollowed
<1>16. Running' /\ SizedUnlessMerged'
  <2>1. ~Ready
    BY <1>2, Orders DEF Ready
  <2>2. ran' = 0 /\ unsized' = {}
    BY <1>2, <2>1 DEF AllocInv, Running
  <2>3. \A f \in Entries : DOMAIN calls'[f] \subseteq Nat \ {0}
    BY <1>5
  <2>4. DOMAIN calls' = Entries
    BY <1>5
  <2> QED
    BY <2>2, <2>3, <2>4, <1>12, <1>14, NothingRan
<1> QED
  BY <1>8, <1>11, <1>14, <1>15, <1>16 DEF AllocInv

(* The generation of a function.                                           *)
LEMMA GenerateKeeps ==
  ASSUME AllocInv, Generate
  PROVE  AllocInv'
<1>1. /\ generated < Len(GenerationOrder) /\ generated' = generated + 1
      /\ UNCHANGED <<dims, calls, ran, k, allocated, unsized, produced>>
  BY DEF Generate, run_vars
<1>2. Typed /\ SuiteRead /\ Placement /\ AllFollowed
  BY DEF AllocInv
<1>3. generated \in Nat /\ Len(GenerationOrder) \in Nat /\ generated + 1 \in 1 .. Len(GenerationOrder)
  BY <1>1, <1>2, Orders DEF Typed
<1>4. PICK e \in Entries : e = GenerationOrder[generated + 1]
  BY <1>3, Orders
<1>5. GenPos[e] = generated + 1
  BY <1>3, <1>4, Orders
<1>6. /\ lazy' = [lazy EXCEPT ![e] = InPreamble(e)]
      /\ after' = [after EXCEPT ![e] = [j \in DOMAIN calls[e] |-> AfterCall(e, j)]]
      /\ scheduled' = scheduled \cup Placed(e)
      /\ warned' = warned \cup WarnedAtOnce(e)
  BY <1>4 DEF Generate
<1>7. /\ \A f \in Entries : f # e => lazy'[f] = lazy[f] /\ after'[f] = after[f]
      /\ lazy'[e] = InPreamble(e)
      /\ after'[e] = [j \in DOMAIN calls[e] |-> AfterCall(e, j)]
      /\ DOMAIN lazy' = Entries /\ DOMAIN after' = Entries
  BY <1>2, <1>6 DEF Placement
<1>8. \A f \in Entries : /\ GenPos[f] \in Nat
                         /\ f # e => GenPos[f] # generated + 1
                         /\ GenPos[f] = generated + 1 => f = e
  BY <1>3, <1>4, <1>5, Orders
<1>9. \A f \in Entries : f # e => (GenPos[f] <= generated' <=> GenPos[f] <= generated)
  BY <1>1, <1>3, <1>8
<1>10. \A f \in Entries : f # e => \A a : AllocatedIn(f, a)' <=> AllocatedIn(f, a)
  BY <1>7 DEF AllocatedIn
<1>11. \A a \in Arrays : ~AllocatedIn(e, a)
  <2>1. WellPlaced(e) /\ ~(GenPos[e] <= generated)
    BY <1>2, <1>3, <1>5 DEF Placement
  <2> QED
    BY <2>1 DEF WellPlaced
<1>12. Typed'
  <2>1. generated' \in 0 .. Len(GenerationOrder) + 1
    BY <1>1, <1>3
  <2> QED
    BY <1>1, <1>2, <2>1 DEF Typed
<1>13. SuiteRead'
  BY <1>1, <1>2 DEF SuiteRead, ProducedFirst, SizesFirst, Declares, Out, Dims, UpTo, Before
<1>14. \A a : /\ a \in Considered(e) => a \in Arrays /\ Uses(e, a)
              /\ a \in Swept(e) => a \in Arrays /\ e[1] \in InitPhases
  BY DEF Considered, Swept
<1>15. \A a : AllocatedIn(e, a)' <=>
         a \in InPreamble(e) \/ \E j \in DOMAIN calls[e] : a \in AfterCall(e, j)
  BY <1>7 DEF AllocatedIn
<1>16. \A a : AllocatedIn(e, a)' => a \in Arrays /\ (Uses(e, a) \/ e[1] \in InitPhases)
  BY <1>14, <1>15 DEF InPreamble, AfterCall
<1>17. WellPlaced(e)'
  <2>1. lazy'[e] \subseteq Arrays /\ \A a \in lazy'[e] : Resolvable(e, a)' /\ WaitsFor(e, a)' = {}
    BY <1>1, <1>7, <1>14, SameSuite DEF InPreamble
  <2>2. DOMAIN after'[e] = DOMAIN calls'[e] /\ GenPos[e] <= generated'
    BY <1>1, <1>3, <1>5, <1>7
  <2>3. ASSUME NEW j \in DOMAIN after'[e], NEW a \in after'[e][j]
        PROVE  /\ a \in Arrays
               /\ Resolvable(e, a)' /\ WaitsFor(e, a)' # {} /\ Max(WaitsFor(e, a)') = j
    <3>1. a \in AfterCall(e, j)
      BY <1>7, <2>3
    <3>2. Resolvable(e, a) /\ WaitsFor(e, a) # {} /\ Max(WaitsFor(e, a)) = j
      BY <3>1 DEF AfterCall
    <3>3. WaitsFor(e, a)' = WaitsFor(e, a) /\ Resolvable(e, a)'
      BY <1>1, <3>2, SameSuite
    <3> QED
      BY <1>14, <3>1, <3>2, <3>3 DEF AfterCall
  <2>4. \A a \in Arrays : AllocatedIn(e, a)' =>
          GenPos[e] <= generated' /\ (Uses(e, a)' \/ e[1] \in InitPhases)
    BY <1>1, <1>16, <2>2, SameSuite
  <2> QED
    BY <2>1, <2>2, <2>3, <2>4 DEF WellPlaced
<1>18. ASSUME NEW f \in Entries, f # e PROVE WellPlaced(f)'
  <2>1. WellPlaced(f) /\ lazy'[f] = lazy[f] /\ after'[f] = after[f]
    BY <1>2, <1>7, <1>18 DEF Placement
  <2>2. GenPos[f] <= generated' <=> GenPos[f] <= generated
    BY <1>9, <1>18
  <2>3. \A a : AllocatedIn(f, a)' <=> AllocatedIn(f, a)
    BY <1>10, <1>18
  <2>4. \A a : /\ Resolvable(f, a)' <=> Resolvable(f, a)
               /\ WaitsFor(f, a)' = WaitsFor(f, a)
               /\ Uses(f, a)' <=> Uses(f, a)
    BY <1>1, SameSuite
  <2>5. \A a \in lazy'[f] : Resolvable(f, a)' /\ WaitsFor(f, a)' = {}
    BY <2>1, <2>4 DEF WellPlaced
  <2>6. \A j \in DOMAIN after'[f] :
          /\ after'[f][j] \subseteq Arrays
          /\ \A a \in after'[f][j] :
               Resolvable(f, a)' /\ WaitsFor(f, a)' # {} /\ Max(WaitsFor(f, a)') = j
    BY <2>1, <2>4 DEF WellPlaced
  <2>7. DOMAIN after'[f] = IF GenPos[f] <= generated' THEN DOMAIN calls'[f] ELSE {}
    BY <1>1, <2>1, <2>2 DEF WellPlaced
  <2>8. \A a \in Arrays : AllocatedIn(f, a)' =>
          GenPos[f] <= generated' /\ (Uses(f, a)' \/ f[1] \in InitPhases)
    BY <2>1, <2>2, <2>3, <2>4 DEF WellPlaced
  <2> QED
    BY <2>1, <2>5, <2>6, <2>7, <2>8 DEF WellPlaced
<1>19. Placement'
  BY <1>7, <1>17, <1>18 DEF Placement
<1>20. \A f \in Entries, a \in Arrays : AllocatedIn(f, a) => AllocatedIn(f, a)'
  BY <1>10, <1>11
<1>21. \A a \in Placed(e) : AllocatedIn(e, a)'
  BY <1>15 DEF Placed
<1>22. \A a \in scheduled' : \E f \in Entries : AllocatedIn(f, a)'
  <2>1. ASSUME NEW a \in scheduled PROVE \E f \in Entries : AllocatedIn(f, a)'
    <3>1. PICK f \in Entries : AllocatedIn(f, a)
      BY <1>2, <2>1 DEF AllFollowed
    <3>2. a \in Arrays
      <4>1. WellPlaced(f)
        BY <1>2 DEF Placement
      <4> QED
        BY <3>1, <4>1 DEF WellPlaced, AllocatedIn
    <3> QED
      BY <1>20, <3>1, <3>2
  <2> QED
    BY <1>6, <1>21, <2>1
<1>23. ASSUME NEW f \in Entries, NEW a \in Arrays, GenPos[f] <= generated', Uses(f, a)'
       PROVE  Followed(f, a)'
  <2>1. Uses(f, a)
    BY <1>1, <1>23, SameSuite
  <2>2. CASE f # e
    <3>1. Followed(f, a)
      BY <1>2, <1>9, <1>23, <2>1, <2>2 DEF AllFollowed
    <3>2. warned \subseteq warned'
      BY <1>6
    <3> QED
      BY <1>20, <3>1, <3>2 DEF Followed
  <2>3. CASE f = e
    <3>1. CASE a \in Considered(e)
      <4>1. a \in Placed(e) \/ a \in warned'
        BY <1>6, <3>1 DEF WarnedAtOnce
      <4> QED
        BY <1>21, <2>3, <4>1 DEF Followed
    <3>2. CASE a \notin Considered(e)
      <4>1. DOMAIN calls[e] # {}
        BY <2>1, <2>3 DEF Uses, Declared
      <4>2. e[1] \in SchemePhases
        BY <1>2, <4>1, CallsAre
      <4>3. e[1] \notin InitPhases \cup {"suite_register"} /\ ~(ColumnRange(e) /\ a \notin scheduled)
        BY <2>1, <2>3, <3>2 DEF Considered
      <4>4. e[1] \in GroupWide \ InitPhases
        BY <4>2, <4>3 DEF SchemePhases, GroupWide
      <4>5. ColumnRange(e)
        BY <4>4, Orders DEF GroupWide, SuiteWide
      <4>6. PICK h \in Entries : AllocatedIn(h, a)
        BY <1>2, <4>3, <4>5 DEF AllFollowed
      <4>7. WellPlaced(h)
        BY <1>2 DEF Placement
      <4>8. GenPos[h] < GenPos[e]
        BY <1>3, <1>5, <1>8, <4>6, <4>7 DEF WellPlaced
      <4> QED
        BY <1>20, <2>3, <4>4, <4>6, <4>8 DEF Followed
    <3> QED
      BY <3>1, <3>2
  <2> QED
    BY <2>2, <2>3
<1>24. AllFollowed'
  BY <1>22, <1>23 DEF AllFollowed
<1>25. Running' /\ SizedUnlessMerged'
  <2>1. ~Ready
    BY <1>1, <1>3 DEF Ready
  <2>2. ran' = 0 /\ unsized' = {}
    BY <1>1, <2>1 DEF AllocInv, Running
  <2>3. DOMAIN calls' = Entries /\ \A f \in Entries : DOMAIN calls'[f] \subseteq Nat \ {0}
    BY <1>12, CallsAre, <1>1, <1>2 DEF Typed
  <2>4. \A f \in Entries : DOMAIN after'[f] \subseteq Nat \ {0}
    BY <1>19, <2>3 DEF Placement, WellPlaced
  <2> QED
    BY <1>19, <2>2, <2>3, <2>4, NothingRan
<1> QED
  BY <1>12, <1>13, <1>19, <1>24, <1>25 DEF AllocInv

(* The end of the generation.                                              *)
LEMMA FinishKeeps ==
  ASSUME AllocInv, FinishGeneration
  PROVE  AllocInv'
<1>1. /\ generated = Len(GenerationOrder) /\ generated' = generated + 1
      /\ UNCHANGED <<dims, calls, lazy, after, scheduled, ran, k, allocated, unsized, produced>>
      /\ warned \subseteq warned'
  BY DEF FinishGeneration, Warn, run_vars
<1>2. Typed /\ SuiteRead /\ Placement /\ AllFollowed
  BY DEF AllocInv
<1>3. generated \in Nat
  BY <1>1, Orders
<1>4. \A f \in Entries : GenPos[f] <= generated /\ GenPos[f] <= generated'
  BY <1>1, <1>3, Orders
<1>5. Typed'
  BY <1>1, <1>2, <1>3 DEF Typed
<1>6. SuiteRead'
  BY <1>1, <1>2 DEF SuiteRead, ProducedFirst, SizesFirst, Declares, Out, Dims, UpTo, Before
<1>7. \A f \in Entries : \A a : /\ AllocatedIn(f, a)' <=> AllocatedIn(f, a)
                                /\ Resolvable(f, a)' <=> Resolvable(f, a)
                                /\ WaitsFor(f, a)' = WaitsFor(f, a)
                                /\ Uses(f, a)' <=> Uses(f, a)
  BY <1>1, SameSuite DEF AllocatedIn
<1>8. Placement'
  <2>1. ASSUME NEW f \in Entries PROVE WellPlaced(f)'
    <3>1. WellPlaced(f)
      BY <1>2 DEF Placement
    <3>2. lazy'[f] = lazy[f] /\ after'[f] = after[f] /\ calls'[f] = calls[f]
      BY <1>1
    <3> QED
      BY <1>4, <1>7, <3>1, <3>2 DEF WellPlaced
  <2> QED
    BY <1>1, <1>2, <2>1 DEF Placement
<1>9. AllFollowed'
  <2>1. \A f \in Entries, a \in Arrays : Uses(f, a)' => Followed(f, a)'
    BY <1>1, <1>2, <1>4, <1>7 DEF AllFollowed, Followed
  <2>2. \A a \in scheduled' : \E f \in Entries : AllocatedIn(f, a)'
    BY <1>1, <1>2, <1>7 DEF AllFollowed
  <2> QED
    BY <2>1, <2>2 DEF AllFollowed
<1>10. Running' /\ SizedUnlessMerged'
  <2>1. ~Ready
    BY <1>1, <1>3 DEF Ready
  <2>2. ran' = 0 /\ unsized' = {}
    BY <1>1, <2>1 DEF AllocInv, Running
  <2>3. DOMAIN calls' = Entries /\ \A f \in Entries : DOMAIN calls'[f] \subseteq Nat \ {0}
    BY CallsAre, <1>1, <1>2 DEF Typed
  <2>4. \A f \in Entries : DOMAIN after'[f] \subseteq Nat \ {0}
    BY <1>8, <2>3 DEF Placement, WellPlaced
  <2> QED
    BY <1>8, <2>2, <2>3, <2>4, NothingRan
<1> QED
  BY <1>5, <1>6, <1>8, <1>9, <1>10 DEF AllocInv

(* When the host calls, suite and allocations stay as they are.            *)
LEMMA SuiteStays ==
  ASSUME AllocInv, Ready, UNCHANGED <<dims, calls>>, UNCHANGED gen_vars,
         ran' \in 0 .. Len(RunOrder), k' \in Nat
  PROVE  Typed' /\ SuiteRead' /\ Placement' /\ AllFollowed'
<1>1. /\ Typed /\ SuiteRead /\ Placement /\ AllFollowed
      /\ UNCHANGED <<generated, lazy, after, scheduled, warned>>
  BY DEF AllocInv, gen_vars
<1>2. Typed' /\ SuiteRead'
  BY <1>1 DEF Typed, SuiteRead, ProducedFirst, SizesFirst, Declares, Out, Dims, UpTo, Before
<1>3. \A f \in Entries : \A a : /\ AllocatedIn(f, a)' <=> AllocatedIn(f, a)
                                /\ Resolvable(f, a)' <=> Resolvable(f, a)
                                /\ WaitsFor(f, a)' = WaitsFor(f, a)
                                /\ Uses(f, a)' <=> Uses(f, a)
  BY <1>1, SameSuite DEF AllocatedIn
<1>4. Placement'
  <2>1. ASSUME NEW f \in Entries PROVE WellPlaced(f)'
    <3>1. WellPlaced(f)
      BY <1>1 DEF Placement
    <3>2. /\ lazy'[f] = lazy[f] /\ after'[f] = after[f] /\ calls'[f] = calls[f]
          /\ generated' = generated
      BY <1>1
    <3> QED
      BY <1>3, <3>1, <3>2 DEF WellPlaced
  <2> QED
    BY <1>1, <2>1 DEF Placement
<1>5. AllFollowed'
  BY <1>1, <1>3 DEF AllFollowed, Followed
<1> QED
  BY <1>2, <1>4, <1>5

(* The host enters the next function, whose arrays are allocated.          *)
LEMMA EnterKeeps ==
  ASSUME AllocInv, EnterFunction
  PROVE  AllocInv'
<1>1. /\ Ready /\ ~Calling /\ ran < Len(RunOrder) /\ ran' = ran + 1 /\ k' = 0
      /\ produced' = produced /\ UNCHANGED <<dims, calls>> /\ UNCHANGED gen_vars
      /\ AllocateAll(lazy[RunOrder[ran + 1]])
  BY DEF EnterFunction
<1>2. /\ Typed /\ SuiteRead /\ Placement /\ Running /\ SizedUnlessMerged
      /\ ran \in Nat /\ k \in Nat /\ ran + 1 \in 1 .. Len(RunOrder)
  BY <1>1, Orders DEF AllocInv, Typed
<1>3. PICK c \in Entries : c = RunOrder[ran + 1] /\ RunPos[c] = ran + 1
  BY <1>2, Orders
<1>4. Typed' /\ SuiteRead' /\ Placement' /\ AllFollowed'
  <2>1. ran' \in 0 .. Len(RunOrder) /\ k' \in Nat
    BY <1>1, <1>2
  <2> QED
    BY <1>1, <2>1, SuiteStays
<1>5. /\ allocated' = allocated \cup lazy[c]
      /\ unsized' = unsized \cup
           {a \in lazy[c] \ allocated : ~(Dims(a) \cap OwnedDims \subseteq produced')}
  BY <1>1, <1>3 DEF AllocateAll
<1>6. ASSUME NEW f \in Entries, NEW i \in DOMAIN calls[f], RunPos[f] <= ran
      PROVE  Executed(f, i)
  <2>1. CASE RunPos[f] = ran
    <3>1. ran > 0 /\ f = Current
      BY <1>2, <2>1, Orders DEF Current
    <3>2. ~(k < Len(calls[f]))
      BY <1>1, <3>1 DEF Calling
    <3>3. i <= Len(calls[f]) /\ Len(calls[f]) \in Nat /\ i \in Nat
      BY <1>2, CallsAre
    <3> QED
      BY <1>2, <2>1, <3>2, <3>3 DEF Executed
  <2>2. CASE RunPos[f] # ran
    BY <1>2, <1>6, <2>2, Orders DEF Executed
  <2> QED
    BY <2>1, <2>2
<1>7. ASSUME NEW f \in Entries, NEW i \in Nat, i > 0, Executed(f, i)'
      PROVE  RunPos[f] <= ran
  BY <1>1, <1>2, <1>7, Orders DEF Executed
<1>8. \A f \in Entries : DOMAIN calls[f] \subseteq Nat \ {0} /\ DOMAIN after[f] \subseteq DOMAIN calls[f]
  BY <1>2, CallsAre DEF Placement, WellPlaced
<1>9. UNCHANGED <<lazy, after, generated>>
  BY <1>1 DEF gen_vars
<1>10. Running'
  <2>1. Ready'
    BY <1>1, <1>9 DEF Ready
  <2>2. ASSUME NEW f \in Entries, NEW i \in DOMAIN calls'[f], NEW d \in OwnedDims,
               Executed(f, i)', Out(f, i, d)'
        PROVE  d \in produced'
    <3>1. i \in DOMAIN calls[f] /\ Out(f, i, d) /\ i \in Nat /\ i > 0
      BY <1>1, <1>8, <2>2 DEF Out
    <3>2. Executed(f, i)
      BY <1>6, <1>7, <2>2, <3>1
    <3> QED
      BY <1>1, <1>2, <3>1, <3>2 DEF Running
  <2>3. ASSUME NEW f \in Entries, RunPos[f] <= ran'
        PROVE  lazy'[f] \subseteq allocated'
    <3>1. CASE f = c
      BY <1>5, <1>9, <3>1
    <3>2. CASE f # c
      <4>1. RunPos[f] # ran + 1 /\ RunPos[f] \in Nat
        BY <1>3, <3>2, Orders
      <4>2. RunPos[f] <= ran
        BY <1>1, <1>2, <2>3, <4>1
      <4> QED
        BY <1>2, <1>5, <1>9, <4>2 DEF Running
    <3> QED
      BY <3>1, <3>2
  <2>4. ASSUME NEW f \in Entries, NEW i \in DOMAIN after'[f], Executed(f, i)'
        PROVE  after'[f][i] \subseteq allocated'
    <3>1. i \in DOMAIN after[f] /\ i \in DOMAIN calls[f] /\ i \in Nat /\ i > 0
      BY <1>8, <1>9, <2>4
    <3>2. Executed(f, i)
      BY <1>6, <1>7, <2>4, <3>1
    <3> QED
      BY <1>2, <1>5, <1>9, <3>1, <3>2 DEF Running
  <2> QED
    BY <2>1, <2>2, <2>3, <2>4 DEF Running
<1>11. ASSUME NEW a \in unsized' PROVE Merged(a)
  <2>1. CASE a \in unsized
    BY <1>2, <2>1 DEF SizedUnlessMerged
  <2>2. CASE a \notin unsized
    <3>1. PICK d \in Dims(a) \cap OwnedDims : a \in lazy[c] /\ d \notin produced
      BY <1>1, <1>5, <1>11, <2>2
    <3>2. WellPlaced(c)
      BY <1>2 DEF Placement
    <3>3. /\ a \in Arrays /\ Resolvable(c, a) /\ WaitsFor(c, a) = {}
          /\ Uses(c, a) \/ c[1] \in InitPhases
      BY <3>1, <3>2 DEF WellPlaced, AllocatedIn
    <3>4. ~Awaited(c, d)
      BY <3>1, <3>3 DEF WaitsFor
    <3>5. ASSUME NEW f \in Entries, NEW i \in DOMAIN calls[f], Out(f, i, d),
                 RunPos[f] < RunPos[c]
          PROVE  FALSE
      <4>1. RunPos[f] <= ran
        BY <1>2, <1>3, <3>5, Orders
      <4>2. Executed(f, i)
        BY <1>6, <4>1
      <4> QED
        BY <1>2, <3>1, <3>5, <4>2 DEF Running
    <3> QED
      BY <1>2, <3>1, <3>3, <3>4, <3>5, DimensionThere
  <2> QED
    BY <2>1, <2>2
<1>12. SizedUnlessMerged'
  BY <1>1, <1>11, SameSuite DEF SizedUnlessMerged
<1> QED
  BY <1>4, <1>10, <1>12 DEF AllocInv

(* A scheme call, and the allocations that waited for it.                  *)
LEMMA CallKeeps ==
  ASSUME AllocInv, CallScheme
  PROVE  AllocInv'
<1>1. /\ Ready /\ Calling /\ k' = k + 1 /\ ran' = ran
      /\ UNCHANGED <<dims, calls>> /\ UNCHANGED gen_vars
      /\ produced' = produced \cup {d \in OwnedDims : calls[Current][k + 1][d] = "out"}
      /\ AllocateAll(after[Current][k + 1])
  BY DEF CallScheme, Calling
<1>2. /\ Typed /\ SuiteRead /\ Placement /\ Running /\ SizedUnlessMerged
      /\ ran \in 1 .. Len(RunOrder) /\ k \in Nat
  BY <1>1, Orders DEF AllocInv, Typed, Calling
<1>3. PICK c \in Entries : c = Current /\ RunPos[c] = ran
  BY <1>2, Orders DEF Current
<1>4. k + 1 \in DOMAIN calls[c]
  BY <1>1, <1>2, <1>3, CallsAre DEF Calling
<1>5. Typed' /\ SuiteRead' /\ Placement' /\ AllFollowed'
  <2>1. ran' \in 0 .. Len(RunOrder) /\ k' \in Nat
    BY <1>1, <1>2
  <2> QED
    BY <1>1, <2>1, SuiteStays
<1>6. UNCHANGED <<lazy, after, generated>>
  BY <1>1 DEF gen_vars
<1>7. /\ allocated' = allocated \cup after[c][k + 1]
      /\ unsized' = unsized \cup
           {a \in after[c][k + 1] \ allocated : ~(Dims(a) \cap OwnedDims \subseteq produced')}
      /\ \A d \in OwnedDims : Out(c, k + 1, d) => d \in produced'
      /\ produced \subseteq produced'
  BY <1>1, <1>3 DEF AllocateAll, Out
<1>8. \A f \in Entries : DOMAIN calls[f] \subseteq Nat \ {0} /\ DOMAIN after[f] \subseteq DOMAIN calls[f]
  BY <1>2, CallsAre DEF Placement, WellPlaced
<1>9. ASSUME NEW f \in Entries, NEW i \in Nat, Executed(f, i)'
      PROVE  Executed(f, i) \/ (f = c /\ i = k + 1)
  <2>1. RunPos[f] = ran => f = c
    BY <1>2, <1>3, Orders
  <2> QED
    BY <1>1, <1>2, <1>9, <2>1, Orders DEF Executed
<1>10. Running'
  <2>1. Ready'
    BY <1>1, <1>6 DEF Ready
  <2>2. ASSUME NEW f \in Entries, NEW i \in DOMAIN calls'[f], NEW d \in OwnedDims,
               Executed(f, i)', Out(f, i, d)'
        PROVE  d \in produced'
    <3>1. i \in DOMAIN calls[f] /\ Out(f, i, d) /\ i \in Nat
      BY <1>1, <1>8, <2>2 DEF Out
    <3>2. Executed(f, i) \/ (f = c /\ i = k + 1)
      BY <1>9, <2>2, <3>1
    <3> QED
      BY <1>2, <1>7, <3>1, <3>2 DEF Running
  <2>3. ASSUME NEW f \in Entries, RunPos[f] <= ran'
        PROVE  lazy'[f] \subseteq allocated'
    BY <1>1, <1>2, <1>6, <1>7, <2>3 DEF Running
  <2>4. ASSUME NEW f \in Entries, NEW i \in DOMAIN after'[f], Executed(f, i)'
        PROVE  after'[f][i] \subseteq allocated'
    <3>1. i \in DOMAIN after[f] /\ i \in Nat /\ after'[f] = after[f]
      BY <1>6, <1>8, <2>4
    <3>2. Executed(f, i) \/ (f = c /\ i = k + 1)
      BY <1>9, <2>4, <3>1
    <3> QED
      BY <1>2, <1>7, <3>1, <3>2 DEF Running
  <2> QED
    BY <2>1, <2>2, <2>3, <2>4 DEF Running
<1>11. ASSUME NEW a \in unsized' PROVE Merged(a)
  <2>1. CASE a \in unsized
    BY <1>2, <2>1 DEF SizedUnlessMerged
  <2>2. CASE a \notin unsized
    <3>1. PICK d \in Dims(a) \cap OwnedDims : a \in after[c][k + 1] /\ d \notin produced'
      BY <1>7, <1>11, <2>2
    <3>2. WellPlaced(c) /\ k + 1 \in DOMAIN after[c]
      <4>1. WellPlaced(c)
        BY <1>2 DEF Placement
      <4>2. GenPos[c] <= generated
        BY <1>1, Orders DEF Ready
      <4> QED
        BY <1>4, <4>1, <4>2 DEF WellPlaced
    <3>3. /\ a \in Arrays /\ Resolvable(c, a) /\ WaitsFor(c, a) # {}
          /\ Max(WaitsFor(c, a)) = k + 1
          /\ Uses(c, a) \/ c[1] \in InitPhases
      BY <3>1, <3>2 DEF WellPlaced, AllocatedIn
    <3>4. ASSUME Awaited(c, d) PROVE FALSE
      <4>1. Producer(c, d) <= k + 1
        BY <1>2, <3>1, <3>3, <3>4, LastAwaited
      <4>2. Producer(c, d) \in DOMAIN calls[c] /\ Out(c, Producer(c, d), d)
        BY <1>2, <3>4, ProducerIs
      <4>3. CASE Producer(c, d) = k + 1
        BY <1>7, <3>1, <4>2, <4>3
      <4>4. CASE Producer(c, d) # k + 1
        <5>1. Producer(c, d) \in Nat
          BY <1>8, <4>2
        <5>2. Producer(c, d) <= k
          BY <1>2, <4>1, <4>4, <5>1
        <5>3. Executed(c, Producer(c, d))
          BY <1>3, <5>2 DEF Executed
        <5> QED
          BY <1>2, <1>7, <3>1, <4>2, <5>3 DEF Running
      <4> QED
        BY <4>3, <4>4
    <3>5. ASSUME NEW f \in Entries, NEW i \in DOMAIN calls[f], Out(f, i, d),
                 RunPos[f] < RunPos[c]
          PROVE  FALSE
      <4>1. Executed(f, i)
        BY <1>3, <3>5 DEF Executed
      <4> QED
        BY <1>2, <1>7, <3>1, <3>5, <4>1 DEF Running
    <3> QED
      BY <1>2, <3>1, <3>3, <3>4, <3>5, DimensionThere
  <2> QED
    BY <2>1, <2>2
<1>12. SizedUnlessMerged'
  BY <1>1, <1>11, SameSuite DEF SizedUnlessMerged
<1> QED
  BY <1>5, <1>10, <1>12 DEF AllocInv

(* Every step keeps the invariant.                                         *)
LEMMA NextAlloc == AllocInv /\ [Next]_vars => AllocInv'
<1> SUFFICES ASSUME AllocInv, [Next]_vars PROVE AllocInv'
  OBVIOUS
<1>1. CASE ReadSchemeCall
  BY <1>1, ReadKeeps
<1>2. CASE Generate
  BY <1>2, GenerateKeeps
<1>3. CASE FinishGeneration
  BY <1>3, FinishKeeps
<1>4. CASE EnterFunction
  BY <1>4, EnterKeeps
<1>5. CASE CallScheme
  BY <1>5, CallKeeps
<1>6. CASE UNCHANGED vars
  <2>1. /\ UNCHANGED <<dims, calls, generated, lazy, after, scheduled, warned>>
        /\ UNCHANGED <<ran, k, allocated, unsized, produced>>
    BY <1>6 DEF vars
  <2>2. \A f \in Entries : \A a : /\ AllocatedIn(f, a)' <=> AllocatedIn(f, a)
                                  /\ Resolvable(f, a)' <=> Resolvable(f, a)
                                  /\ WaitsFor(f, a)' = WaitsFor(f, a)
                                  /\ Uses(f, a)' <=> Uses(f, a)
    BY <2>1, SameSuite DEF AllocatedIn
  <2>3. Typed' /\ SuiteRead'
    BY <2>1 DEF AllocInv, Typed, SuiteRead, ProducedFirst, SizesFirst, Declares, Out,
                Dims, UpTo, Before
  <2>4. Placement' /\ AllFollowed'
    BY <2>1, <2>2 DEF AllocInv, Placement, WellPlaced, AllFollowed, Followed
  <2>5. Running'
    BY <2>1 DEF AllocInv, Running, Ready, Executed, Out
  <2>6. SizedUnlessMerged'
    BY <2>1, SameSuite DEF AllocInv, SizedUnlessMerged
  <2> QED
    BY <2>3, <2>4, <2>5, <2>6 DEF AllocInv
<1>7. CASE AllCalled
  BY <1>6, <1>7 DEF AllCalled
<1> QED
  BY <1>1, <1>2, <1>3, <1>4, <1>5, <1>6, <1>7 DEF Next

-----------------------------------------------------------------------------
(* The invariant holds of every suite that can be read, generated and run. *)
THEOREM ScheduleInvariance == Spec => []AllocInv
BY InitAlloc, NextAlloc, PTL DEF Spec

(* An array is sized by scalars that were produced before: the generator    *)
(* waits for the producer's call, as long as no function has one scheme     *)
(* produce the scalar and another read it (_resolve_alloc_dim_var_refs).    *)
THEOREM SizesAreThere == Spec => []SizedUnlessMerged
<1>1. AllocInv => SizedUnlessMerged
  BY DEF AllocInv
<1> QED
  BY <1>1, ScheduleInvariance, PTL

(* No array some scheme uses is left without both an allocation and a       *)
(* warning (_maybe_schedule_framework_var_alloc, warn_unallocated).         *)
THEOREM NoArrayForgotten == Spec => []NothingForgotten
<1>1. ASSUME AllocInv PROVE NothingForgotten
  <2> SUFFICES ASSUME Ready, NEW a \in Arrays, NEW e \in Entries, Uses(e, a)
               PROVE  EverywhereAllocates(a) \/ a \in warned
    BY DEF NothingForgotten, Users
  <2>1. GenPos[e] <= generated
    BY Orders DEF Ready
  <2>2. Followed(e, a)
    BY <1>1, <2>1 DEF AllocInv, AllFollowed
  <2>3. ASSUME NEW f \in Entries, AllocatedIn(f, a) PROVE EverywhereAllocates(a)
    BY <2>3 DEF AllocatedIn, EverywhereAllocates, Range
  <2> QED
    BY <2>2, <2>3 DEF Followed
<1> QED
  BY <1>1, ScheduleInvariance, PTL

(* A scheme finds its arrays allocated, unless there was a warning, if the  *)
(* first function to use the array is also the first of its users to be     *)
(* generated (_build_framework_refs, already_scheduled_allocs).             *)
THEOREM AllocatedForFirstUser == Spec => []AllocatedWhenOrdersAgree
<1>1. ASSUME AllocInv PROVE AllocatedWhenOrdersAgree
  <2> SUFFICES ASSUME NEW a \in Missing, OrdersAgree(a) PROVE FALSE
    BY DEF AllocatedWhenOrdersAgree
  <2>1. /\ Typed /\ SuiteRead /\ Placement /\ AllFollowed /\ Running
    BY <1>1 DEF AllocInv
  <2>2. /\ a \in Arrays /\ Calling /\ Declares(Current, k + 1, a)
        /\ a \notin allocated /\ a \notin warned
    BY DEF Missing, NextUses
  <2>3. Ready /\ ran \in 1 .. Len(RunOrder) /\ k \in Nat
    BY <2>1, <2>2, Orders DEF Calling, Typed
  <2>4. PICK c \in Entries : c = Current /\ RunPos[c] = ran
    BY <2>3, Orders DEF Current
  <2>5. k + 1 \in DOMAIN calls[c] /\ DOMAIN calls[c] \subseteq Nat
    BY <2>1, <2>2, <2>3, <2>4, CallsAre DEF Calling
  <2>6. c \in Users(a)
    BY <2>2, <2>4, <2>5 DEF Users, Uses, Declared
  <2>7. PICK e \in Users(a) : \A f \in Users(a) : RunPos[e] <= RunPos[f] /\ GenPos[e] <= GenPos[f]
    BY DEF OrdersAgree
  <2>8. e \in Entries /\ Uses(e, a) /\ RunPos[e] <= ran
    BY <2>4, <2>6, <2>7 DEF Users
  <2>9. \A f \in Entries : /\ GenPos[f] <= generated /\ GenPos[f] \in Nat
                           /\ RunPos[f] \in Nat /\ WellPlaced(f)
                           /\ DOMAIN after[f] = DOMAIN calls[f]
    <3>1. \A f \in Entries : GenPos[f] <= generated /\ GenPos[f] \in Nat /\ RunPos[f] \in Nat
      BY <2>3, Orders DEF Ready
    <3> QED
      BY <2>1, <3>1 DEF Placement, WellPlaced
  <2>10. Followed(e, a)
    BY <2>1, <2>2, <2>8, <2>9 DEF AllFollowed
  <2>11. PICK f \in Entries : AllocatedIn(f, a) /\ (f = e \/ RunPos[f] < RunPos[e])
    <3>1. CASE AllocatedIn(e, a)
      BY <2>8, <3>1
    <3>2. CASE ~AllocatedIn(e, a)
      <4>1. PICK f \in Entries : GenPos[f] < GenPos[e] /\ AllocatedIn(f, a)
        BY <2>2, <2>10, <3>2 DEF Followed
      <4>2. e[1] \in GroupWide \ InitPhases
        BY <2>2, <2>10, <3>2 DEF Followed
      <4>3. ~Uses(f, a)
        BY <2>7, <2>8, <2>9, <4>1 DEF Users
      <4>4. f[1] \in InitPhases
        BY <2>2, <2>9, <4>1, <4>3 DEF WellPlaced
      <4> QED
        BY <2>8, <4>1, <4>2, <4>4, Orders
    <3> QED
      BY <3>1, <3>2
  <2>12. RunPos[f] <= ran
    BY <2>3, <2>8, <2>9, <2>11
  <2>13. a \notin lazy[f]
    BY <2>1, <2>2, <2>12 DEF Running
  <2>14. PICK j \in DOMAIN after[f] : a \in after[f][j]
    BY <2>11, <2>13 DEF AllocatedIn
  <2>15. ~Executed(f, j)
    BY <2>1, <2>2, <2>14 DEF Running
  <2>16. RunPos[f] = ran /\ ~(j <= k)
    BY <2>3, <2>9, <2>12, <2>15 DEF Executed
  <2>17. f = c /\ j \in DOMAIN calls[c]
    BY <2>4, <2>9, <2>14, <2>16, Orders
  <2>18. WaitsFor(c, a) # {} /\ Max(WaitsFor(c, a)) = j
    BY <2>9, <2>14, <2>17 DEF WellPlaced
  <2>19. PICK d \in Dims(a) : Awaited(c, d) /\ Producer(c, d) = j
    BY <2>1, <2>2, <2>18, LastAwaited
  <2>20. /\ d \in OwnedDims /\ Out(c, j, d)
         /\ \A i \in DOMAIN calls[c] : Declares(c, i, d) => j <= i
    BY <2>1, <2>19, ProducerIs
  <2>21. PICK h \in Entries : \E i \in DOMAIN calls[h] :
           Declares(h, i, d) /\ Before(h, i, c, k + 1)
    BY <2>1, <2>2, <2>4, <2>5, <2>19, <2>20 DEF SuiteRead, SizesFirst
  <2>22. PICK i \in DOMAIN calls[h] : Declares(h, i, d) /\ Before(h, i, c, k + 1)
    BY <2>21
  <2>23. UpTo(c, j, h, i)
    BY <2>1, <2>17, <2>20, <2>22 DEF SuiteRead, ProducedFirst
  <2>24. h = c /\ i < k + 1
    BY <2>9, <2>22, <2>23 DEF Before, UpTo
  <2>25. j <= i
    BY <2>20, <2>22, <2>24
  <2>26. i \in Nat /\ j \in Nat
    BY <2>5, <2>17, <2>22, <2>24
  <2> QED
    BY <2>3, <2>16, <2>24, <2>25, <2>26
<1> QED
  BY <1>1, ScheduleInvariance, PTL
=============================================================================

-------------------------- MODULE CapgenHostProofs --------------------------
(***************************************************************************)
(* A host that calls original capgen's wrappers in any order, for any       *)
(* groups and scheme calls and whatever fails: it is one of the hosts the    *)
(* suite cap's contract allows, so all that SuiteCapProofs shows of the cap  *)
(* holds; no group is initialized twice; and errcode tells the truth.       *)
(***************************************************************************)
EXTENDS CapgenHost, SuiteCapProofs

USE DEF Instances, ThisSuite, SuitePart, OtherName, StateArray, NoArray,
        NoState, Outside

(***************************************************************************)
(* The scripts.                                                            *)
(***************************************************************************)
(* What a host passes is a call of the suite cap.                           *)
LEMMA HostCallType ==
  ASSUME NEW suite \in {ThisSuite, OtherName}, NEW fn \in Phases,
         NEW part \in Groups \cup {SuitePart, OtherName}
  PROVE  HostCall(suite, fn, part) \in Calls
BY ConstantsAssumption, OrderAssumption DEF HostCall, Calls

(* The thread the host calls from is one of the host's.                    *)
LEMMA ThreadType == Thread \in Threads
BY OrderAssumption DEF Thread

(* The suite definition lists every group.                                 *)
LEMMA OrderType ==
  /\ DOMAIN GroupOrder = 1..Len(GroupOrder)
  /\ Len(GroupOrder) \in Nat
  /\ \A g \in DOMAIN GroupOrder : GroupOrder[g] \in Groups
  /\ \A part \in Groups : \E g \in DOMAIN GroupOrder : GroupOrder[g] = part
BY OrderAssumption DEF Range

(* A function on an initial segment of the naturals is a sequence.         *)
LEMMA TupleIsSeq ==
  ASSUME NEW S, NEW n \in Nat, NEW f \in [1..n -> S]
  PROVE  f \in Seq(S) /\ Len(f) = n
OBVIOUS

(* What a sequence of steps is made of.                                    *)
LEMMA SeqDomain ==
  ASSUME NEW s \in Seq(Steps)
  PROVE  DOMAIN s = 1..Len(s) /\ Len(s) \in Nat /\ \A i \in DOMAIN s : s[i] \in Steps
OBVIOUS

(* A step of a script is one of the suite's own calls.                      *)
IsStep(step, fn, part) ==
  /\ step \in Steps
  /\ step.call = HostCall(ThisSuite, fn, part)
  /\ step.call.suite = ThisSuite /\ step.call.fn = fn /\ step.call.part = part

(* A call of one of the suite's own parts makes such a step.               *)
LEMMA StepOfSuite ==
  ASSUME NEW fn \in Phases, NEW part \in Groups \cup {SuitePart, OtherName},
         NEW guarded \in BOOLEAN
  PROVE  /\ IsStep(Step(HostCall(ThisSuite, fn, part), guarded), fn, part)
         /\ Step(HostCall(ThisSuite, fn, part), guarded).guarded = guarded
<1>1. HostCall(ThisSuite, fn, part) \in Calls
  BY HostCallType
<1>2. Step(HostCall(ThisSuite, fn, part), guarded)
        = [call |-> HostCall(ThisSuite, fn, part), guarded |-> guarded]
  BY DEF Step
<1>3. /\ HostCall(ThisSuite, fn, part).suite = ThisSuite
      /\ HostCall(ThisSuite, fn, part).fn = fn
      /\ HostCall(ThisSuite, fn, part).part = part
  BY DEF HostCall
<1> QED
  BY <1>1, <1>2, <1>3 DEF IsStep, Steps

(* The chain over the groups: one guarded step for each, in order.         *)
LEMMA ChainOfSuite ==
  ASSUME NEW fn \in GroupPhases
  PROVE  /\ Chain(ThisSuite, fn) \in Seq(Steps)
         /\ Len(Chain(ThisSuite, fn)) = Len(GroupOrder)
         /\ DOMAIN Chain(ThisSuite, fn) = DOMAIN GroupOrder
         /\ \A g \in DOMAIN GroupOrder :
              /\ IsStep(Chain(ThisSuite, fn)[g], fn, GroupOrder[g])
              /\ Chain(ThisSuite, fn)[g].guarded = TRUE
         /\ Guarded(Chain(ThisSuite, fn)) = Chain(ThisSuite, fn)
<1>0. fn \in Phases
  BY DEF Phases
<1>1. Chain(ThisSuite, fn) = [g \in 1..Len(GroupOrder) |-> Step(HostCall(ThisSuite, fn, GroupOrder[g]), TRUE)]
  BY OrderType DEF Chain
<1>2. \A g \in DOMAIN GroupOrder :
        /\ IsStep(Chain(ThisSuite, fn)[g], fn, GroupOrder[g])
        /\ Chain(ThisSuite, fn)[g].guarded = TRUE
  <2> TAKE g \in DOMAIN GroupOrder
  <2>1. Chain(ThisSuite, fn)[g] = Step(HostCall(ThisSuite, fn, GroupOrder[g]), TRUE)
    BY <1>1, OrderType
  <2>2. GroupOrder[g] \in Groups \cup {SuitePart, OtherName} /\ TRUE \in BOOLEAN
    BY OrderType
  <2> QED
    BY <1>0, <2>1, <2>2, StepOfSuite
<1>3. Chain(ThisSuite, fn) \in Seq(Steps) /\ Len(Chain(ThisSuite, fn)) = Len(GroupOrder)
  <2>1. Chain(ThisSuite, fn) \in [1..Len(GroupOrder) -> Steps]
    BY <1>1, <1>2, OrderType DEF IsStep
  <2> QED
    BY <2>1, OrderType, TupleIsSeq
<1>4. Guarded(Chain(ThisSuite, fn)) = Chain(ThisSuite, fn)
  BY <1>1, <1>3, OrderType DEF Guarded, Step
<1> QED
  BY <1>1, <1>2, <1>3, <1>4, OrderType

(* Putting an element ahead of a sequence.                                 *)
LEMMA OneThenMore ==
  ASSUME NEW S, NEW e \in S, NEW s \in Seq(S)
  PROVE  /\ <<e>> \o s \in Seq(S)
         /\ Len(<<e>> \o s) = 1 + Len(s)
         /\ (<<e>> \o s)[1] = e
         /\ \A i \in DOMAIN s : (<<e>> \o s)[1 + i] = s[i]
OBVIOUS

(* Putting an element behind a sequence.                                   *)
LEMMA MoreThenOne ==
  ASSUME NEW S, NEW e \in S, NEW s \in Seq(S)
  PROVE  /\ s \o <<e>> \in Seq(S)
         /\ Len(s \o <<e>>) = Len(s) + 1
         /\ (s \o <<e>>)[1 + Len(s)] = e
         /\ \A i \in DOMAIN s : (s \o <<e>>)[i] = s[i]
OBVIOUS

(* initialize: ccpp_init, guarded, and then the groups.                     *)
LEMMA InitializeScript ==
  ASSUME NEW a \in Wrappers, a.suite = ThisSuite, a.name = "initialize"
  PROVE  /\ Script(a) \in Seq(Steps)
         /\ Len(Script(a)) = 1 + Len(GroupOrder)
         /\ IsStep(Script(a)[1], "suite_initialize", SuitePart) /\ Script(a)[1].guarded = TRUE
         /\ \A g \in DOMAIN GroupOrder :
              IsStep(Script(a)[1 + g], "group_init", GroupOrder[g]) /\ Script(a)[1 + g].guarded = TRUE
<1> DEFINE first == Step(HostCall(ThisSuite, "suite_initialize", SuitePart), TRUE)
           chain == Chain(ThisSuite, "group_init")
<1>0. "suite_initialize" \in Phases /\ "group_init" \in GroupPhases
  BY DEF Phases, FlatPhases, GroupPhases
<1>1. Script(a) = <<first>> \o chain
  BY DEF Script, Initialize
<1>2. IsStep(first, "suite_initialize", SuitePart) /\ first.guarded = TRUE
  <2>1. SuitePart \in Groups \cup {SuitePart, OtherName} /\ TRUE \in BOOLEAN
    OBVIOUS
  <2> QED
    BY <1>0, <2>1, StepOfSuite
<1>4. first \in Steps
  BY <1>2 DEF IsStep
<1>3. /\ chain \in Seq(Steps)
      /\ Len(chain) = Len(GroupOrder)
      /\ DOMAIN chain = DOMAIN GroupOrder
      /\ \A g \in DOMAIN GroupOrder :
           IsStep(chain[g], "group_init", GroupOrder[g]) /\ chain[g].guarded = TRUE
  BY <1>0, ChainOfSuite
<1> HIDE DEF first, chain
<1> QED
  BY <1>1, <1>2, <1>3, <1>4, OneThenMore

(* finalize: the groups, each guarded, and then ccpp_final.                *)
LEMMA FinalizeScript ==
  ASSUME NEW a \in Wrappers, a.suite = ThisSuite, a.name = "finalize"
  PROVE  /\ Script(a) \in Seq(Steps)
         /\ Len(Script(a)) = Len(GroupOrder) + 1
         /\ IsStep(Script(a)[1 + Len(GroupOrder)], "suite_finalize", SuitePart)
         /\ \A g \in DOMAIN GroupOrder :
              IsStep(Script(a)[g], "group_final", GroupOrder[g]) /\ Script(a)[g].guarded = TRUE
<1> DEFINE last == Step(HostCall(ThisSuite, "suite_finalize", SuitePart), FALSE)
           chain == Chain(ThisSuite, "group_final")
<1>0. "suite_finalize" \in Phases /\ "group_final" \in GroupPhases
  BY DEF Phases, FlatPhases, GroupPhases
<1>1. Script(a) = chain \o <<last>>
  BY <1>0, ChainOfSuite DEF Script, Finalize
<1>2. IsStep(last, "suite_finalize", SuitePart)
  <2>1. SuitePart \in Groups \cup {SuitePart, OtherName} /\ FALSE \in BOOLEAN
    OBVIOUS
  <2> QED
    BY <1>0, <2>1, StepOfSuite
<1>4. last \in Steps
  BY <1>2 DEF IsStep
<1>3. /\ chain \in Seq(Steps)
      /\ Len(chain) = Len(GroupOrder)
      /\ DOMAIN chain = DOMAIN GroupOrder
      /\ \A g \in DOMAIN GroupOrder :
           IsStep(chain[g], "group_final", GroupOrder[g]) /\ chain[g].guarded = TRUE
  BY <1>0, ChainOfSuite
<1> HIDE DEF last, chain
<1> QED
  BY <1>1, <1>2, <1>3, <1>4, MoreThenOne

(* The timestep wrappers: a guarded call for every group.                  *)
LEMMA TimestepScript ==
  ASSUME NEW a \in Wrappers, a.suite = ThisSuite,
         a.name \in {"timestep_initial", "timestep_final"}
  PROVE  /\ Script(a) \in Seq(Steps)
         /\ \A i \in DOMAIN Script(a) :
              /\ Script(a)[i].guarded = TRUE
              /\ \E part \in Groups :
                   \/ IsStep(Script(a)[i], "timestep_init", part)
                   \/ IsStep(Script(a)[i], "timestep_final", part)
<1>1. PICK fn \in {"timestep_init", "timestep_final"} : Script(a) = Chain(ThisSuite, fn)
  BY DEF Script
<1>2. fn \in GroupPhases
  BY DEF GroupPhases
<1>3. Script(a) \in Seq(Steps) /\ DOMAIN Script(a) = DOMAIN GroupOrder
  BY <1>1, <1>2, ChainOfSuite
<1>4. \A i \in DOMAIN Script(a) :
        IsStep(Script(a)[i], fn, GroupOrder[i]) /\ Script(a)[i].guarded = TRUE
  BY <1>1, <1>2, <1>3, ChainOfSuite
<1>5. \A i \in DOMAIN Script(a) : GroupOrder[i] \in Groups
  BY <1>3, OrderType
<1>6. fn = "timestep_init" \/ fn = "timestep_final"
  OBVIOUS
<1> QED
  BY <1>3, <1>4, <1>5, <1>6

(* register and run make one call.                                         *)
LEMMA SingleScript ==
  ASSUME NEW a \in Wrappers, a.suite = ThisSuite, a.name \in {"register", "run"}
  PROVE  /\ Script(a) \in Seq(Steps)
         /\ Len(Script(a)) = 1
         /\ a.name = "register" => IsStep(Script(a)[1], "suite_register", SuitePart)
         /\ a.name = "run" => IsStep(Script(a)[1], "run", a.part)
<1>1. \A s : Len(<<s>>) = 1 /\ <<s>>[1] = s /\ (s \in Steps => <<s>> \in Seq(Steps))
  OBVIOUS
<1>2. "suite_register" \in Phases /\ "run" \in Phases
      /\ a.part \in Groups \cup {SuitePart, OtherName} /\ FALSE \in BOOLEAN
  BY DEF Phases, FlatPhases, GroupPhases, Wrappers
<1>3. CASE a.name = "register"
  <2>1. Script(a) = <<Step(HostCall(ThisSuite, "suite_register", SuitePart), FALSE)>>
    BY <1>3 DEF Script
  <2>2. IsStep(Step(HostCall(ThisSuite, "suite_register", SuitePart), FALSE), "suite_register", SuitePart)
    BY <1>2, StepOfSuite
  <2> QED
    BY <1>1, <1>3, <2>1, <2>2 DEF IsStep
<1>4. CASE a.name = "run"
  <2>1. Script(a) = <<Step(HostCall(ThisSuite, "run", a.part), FALSE)>>
    BY <1>4 DEF Script
  <2>2. IsStep(Step(HostCall(ThisSuite, "run", a.part), FALSE), "run", a.part)
    BY <1>2, StepOfSuite
  <2> QED
    BY <1>1, <1>4, <2>1, <2>2 DEF IsStep
<1> QED
  BY <1>3, <1>4

(* Guarding a step changes nothing else of it.                             *)
LEMMA GuardedStep ==
  ASSUME NEW c, NEW b, NEW d
  PROVE  [Step(c, b) EXCEPT !.guarded = d] = Step(c, d)
BY DEF Step

(* A suite the host cap does not know is met at the first step.             *)
LEMMA OtherScript ==
  ASSUME NEW a \in Wrappers, a.suite = OtherName
  PROVE  /\ Script(a) \in Seq(Steps)
         /\ Len(Script(a)) \in {1, 2}
         /\ Script(a)[1].call.suite = OtherName
         /\ Len(Script(a)) = 2 => Script(a)[1].guarded = TRUE
<1>0. /\ {"suite_register", "suite_initialize", "suite_finalize", "group_init", "run"} \subseteq Phases
      /\ {SuitePart, OtherName, a.part} \subseteq Groups \cup {SuitePart, OtherName}
  BY DEF Phases, FlatPhases, GroupPhases, Wrappers
<1>1. ASSUME NEW fn \in Phases, NEW part \in Groups \cup {SuitePart, OtherName},
             NEW guarded \in BOOLEAN
      PROVE  /\ Step(HostCall(OtherName, fn, part), guarded) \in Steps
             /\ Step(HostCall(OtherName, fn, part), guarded).call.suite = OtherName
             /\ Step(HostCall(OtherName, fn, part), guarded).guarded = guarded
  <2>1. HostCall(OtherName, fn, part) \in Calls
    BY HostCallType
  <2>2. HostCall(OtherName, fn, part).suite = OtherName
    BY DEF HostCall
  <2> QED
    BY <2>1, <2>2 DEF Step, Steps
<1> DEFINE Fits(z) == /\ z \in Seq(Steps)
                      /\ Len(z) \in {1, 2}
                      /\ z[1].call.suite = OtherName
                      /\ Len(z) = 2 => z[1].guarded = TRUE
<1>2. ASSUME NEW x \in Steps, x.call.suite = OtherName
      PROVE  Fits(<<x>>)
  BY <1>2
<1>3. ASSUME NEW x \in Steps, NEW y \in Steps, x.call.suite = OtherName, x.guarded = TRUE
      PROVE  Fits(<<x>> \o <<y>>)
  BY <1>3
<1>4. /\ Step(NoSuite, FALSE) \in Steps /\ Step(NoSuite, TRUE) \in Steps
      /\ Step(NoSuite, FALSE).call.suite = OtherName
      /\ Step(NoSuite, TRUE).call.suite = OtherName
      /\ Step(NoSuite, TRUE).guarded = TRUE
  BY <1>0, <1>1 DEF NoSuite
<1> DEFINE r == Step(HostCall(OtherName, "suite_register", SuitePart), FALSE)
           s == Step(HostCall(OtherName, "suite_initialize", SuitePart), TRUE)
           f == Step(HostCall(OtherName, "suite_finalize", SuitePart), FALSE)
           u == Step(HostCall(OtherName, "run", a.part), FALSE)
           n == Step(NoSuite, FALSE)
           m == Step(NoSuite, TRUE)
<1>5. r \in Steps /\ r.call.suite = OtherName
  BY <1>0, <1>1
<1>6. s \in Steps /\ s.call.suite = OtherName /\ s.guarded = TRUE
  BY <1>0, <1>1
<1>7. f \in Steps /\ u \in Steps /\ u.call.suite = OtherName
  BY <1>0, <1>1
<1>8. n \in Steps /\ n.call.suite = OtherName
  BY <1>4
<1>9. m \in Steps /\ m.call.suite = OtherName /\ m.guarded = TRUE
  BY <1>4
<1>10. \A fn : Chain(OtherName, fn) = <<n>>
  BY DEF Chain
<1>11. Guarded(<<n>>) = <<m>>
  <2>1. \A x, y : [<<x>> EXCEPT ![1] = y] = <<y>> /\ Len(<<x>>) = 1 /\ <<x>>[1] = x
    OBVIOUS
  <2>4. [n EXCEPT !.guarded = TRUE] = m
    BY GuardedStep
  <2> HIDE DEF n, m
  <2>5. Guarded(<<n>>) = [<<n>> EXCEPT ![1] = [n EXCEPT !.guarded = TRUE]]
    BY <2>1 DEF Guarded
  <2> QED
    BY <2>1, <2>4, <2>5
<1>12. /\ a.name = "register" => Script(a) = <<r>>
       /\ a.name = "run" => Script(a) = <<u>>
       /\ a.name \in {"timestep_initial", "timestep_final"} => Script(a) = <<n>>
       /\ a.name = "initialize" => Script(a) = <<s>> \o <<n>>
       /\ a.name = "finalize" => Script(a) = <<m>> \o <<f>>
  <2>1. a.name = "register" => Script(a) = <<r>>
    BY DEF Script
  <2>2. a.name = "run" => Script(a) = <<u>>
    BY DEF Script
  <2>3. a.name \in {"timestep_initial", "timestep_final"} => Script(a) = <<n>>
    BY <1>10 DEF Script
  <2>4. a.name = "initialize" => Script(a) = <<s>> \o <<n>>
    BY <1>10 DEF Script, Initialize
  <2>5. a.name = "finalize" => Script(a) = <<m>> \o <<f>>
    BY <1>10, <1>11 DEF Script, Finalize
  <2> QED
    BY <2>1, <2>2, <2>3, <2>4, <2>5
<1> HIDE DEF r, s, f, u, n, m
<1>13. Fits(<<r>>) /\ Fits(<<u>>) /\ Fits(<<n>>)
  BY <1>2, <1>5, <1>7, <1>8
<1>14. Fits(<<s>> \o <<n>>)
  BY <1>3, <1>6, <1>8
<1>15. Fits(<<m>> \o <<f>>)
  BY <1>3, <1>7, <1>9
<1> HIDE DEF Fits
<1>16. Fits(Script(a))
  BY <1>12, <1>13, <1>14, <1>15 DEF Wrappers, APIs
<1> USE DEF Fits
<1> QED
  BY ONLY <1>16

(* Of every script: an error at a step that is not the last is looked at.   *)
LEMMA ScriptGuards ==
  ASSUME NEW a \in Wrappers
  PROVE  /\ Script(a) \in Seq(Steps)
         /\ \A i \in DOMAIN Script(a) : i < Len(Script(a)) => Script(a)[i].guarded = TRUE
<1>1. CASE a.suite = OtherName
  <2>1. /\ Script(a) \in Seq(Steps) /\ Len(Script(a)) \in {1, 2}
        /\ Len(Script(a)) = 2 => Script(a)[1].guarded = TRUE
    BY <1>1, OtherScript
  <2>2. \A i \in DOMAIN Script(a) : i < Len(Script(a)) => i = 1 /\ Len(Script(a)) = 2
    <3>1. DOMAIN Script(a) = 1..Len(Script(a)) /\ Len(Script(a)) \in {1, 2}
      BY <2>1, SeqDomain
    <3> QED
      BY <3>1
  <2> QED
    BY <2>1, <2>2
<1>2. CASE a.suite = ThisSuite
  <2>1. CASE a.name = "initialize"
    <3>0. DOMAIN Script(a) = 1..(1 + Len(GroupOrder))
      BY <1>2, <2>1, InitializeScript, SeqDomain
    <3>1. \A i \in DOMAIN Script(a) : i = 1 \/ (i - 1 \in DOMAIN GroupOrder /\ i = 1 + (i - 1))
      BY <3>0, OrderType
    <3> QED
      BY <1>2, <2>1, <3>1, InitializeScript
  <2>2. CASE a.name = "finalize"
    <3>0. DOMAIN Script(a) = 1..(Len(GroupOrder) + 1) /\ Len(Script(a)) = Len(GroupOrder) + 1
      BY <1>2, <2>2, FinalizeScript, SeqDomain
    <3>1. \A i \in DOMAIN Script(a) : i < Len(Script(a)) => i \in DOMAIN GroupOrder
      BY <3>0, OrderType
    <3> QED
      BY <1>2, <2>2, <3>1, FinalizeScript
  <2>3. CASE a.name \in {"timestep_initial", "timestep_final"}
    BY <1>2, <2>3, TimestepScript
  <2>4. CASE a.name \in {"register", "run"}
    <3>1. Script(a) \in Seq(Steps) /\ Len(Script(a)) = 1
      BY <1>2, <2>4, SingleScript
    <3>2. \A i \in DOMAIN Script(a) : ~(i < Len(Script(a)))
      BY <3>1, SeqDomain
    <3> QED
      BY <3>1, <3>2
  <2> QED
    BY <2>1, <2>2, <2>3, <2>4 DEF Wrappers, APIs
<1> QED
  BY <1>1, <1>2 DEF Wrappers

(* The step of a script of this suite, by wrapper and place.               *)
LEMMA ScriptPlaces ==
  ASSUME NEW a \in Wrappers, a.suite = ThisSuite, NEW i \in Nat, i + 1 \in DOMAIN Script(a)
  PROVE  LET c == Script(a)[i + 1].call IN
         \/ a.name = "initialize" /\ i = 0 /\ c.fn = "suite_initialize"
         \/ a.name = "initialize" /\ i \in DOMAIN GroupOrder
            /\ c.fn = "group_init" /\ c.part = GroupOrder[i]
         \/ a.name = "finalize" /\ i + 1 \in DOMAIN GroupOrder
            /\ c.fn = "group_final" /\ c.part = GroupOrder[i + 1]
         \/ a.name = "finalize" /\ i = Len(GroupOrder) /\ c.fn = "suite_finalize"
         \/ a.name \in {"timestep_initial", "timestep_final"}
            /\ c.fn \in {"timestep_init", "timestep_final"}
         \/ a.name = "register" /\ c.fn = "suite_register"
         \/ a.name = "run" /\ i = 0 /\ c.fn = "run"
<1>1. CASE a.name = "initialize"
  <2>0. DOMAIN Script(a) = 1..(1 + Len(GroupOrder))
    BY <1>1, InitializeScript, SeqDomain
  <2>1. i = 0 \/ i \in DOMAIN GroupOrder
    BY <2>0, OrderType
  <2>2. CASE i = 0
    <3>1. i + 1 = 1
      BY <2>2
    <3>2. IsStep(Script(a)[1], "suite_initialize", SuitePart)
      BY <1>1, InitializeScript
    <3> QED
      BY <1>1, <2>2, <3>1, <3>2 DEF IsStep
  <2>3. CASE i \in DOMAIN GroupOrder
    <3>1. i + 1 = 1 + i
      OBVIOUS
    <3>2. IsStep(Script(a)[1 + i], "group_init", GroupOrder[i])
      BY <1>1, <2>3, InitializeScript
    <3> QED
      BY <1>1, <2>3, <3>1, <3>2 DEF IsStep
  <2> QED
    BY <2>1, <2>2, <2>3
<1>2. CASE a.name = "finalize"
  <2>0. DOMAIN Script(a) = 1..(Len(GroupOrder) + 1)
    BY <1>2, FinalizeScript, SeqDomain
  <2>1. i = Len(GroupOrder) \/ i + 1 \in DOMAIN GroupOrder
    <3>1. \A n \in Nat : i + 1 \in 1..(n + 1) => i = n \/ i + 1 \in 1..n
      OBVIOUS
    <3> QED
      BY <2>0, <3>1, OrderType
  <2>2. CASE i = Len(GroupOrder)
    <3>1. i + 1 = 1 + Len(GroupOrder)
      BY <2>2
    <3>2. IsStep(Script(a)[i + 1], "suite_finalize", SuitePart)
      BY <1>2, <3>1, FinalizeScript
    <3> QED
      BY <1>2, <2>2, <3>2 DEF IsStep
  <2>3. CASE i + 1 \in DOMAIN GroupOrder
    BY <1>2, <2>3, FinalizeScript DEF IsStep
  <2> QED
    BY <2>1, <2>2, <2>3
<1>3. CASE a.name \in {"timestep_initial", "timestep_final"}
  BY <1>3, TimestepScript DEF IsStep
<1>4. CASE a.name \in {"register", "run"}
  <2>0. DOMAIN Script(a) = 1..1
    BY <1>4, SingleScript, SeqDomain
  <2>1. i = 0
    BY <2>0
  <2> QED
    BY <1>4, <2>1, SingleScript DEF IsStep
<1> QED
  BY <1>1, <1>2, <1>3, <1>4 DEF Wrappers, APIs

(***************************************************************************)
(* Every step of the host is a step the contract allows: no other thread is *)
(* inside when it calls.                                                   *)
(***************************************************************************)
LEMMA CapgenStep ==
  ASSUME HostTypeOK, Serial, [CapgenNext]_vars
  PROVE  [Next]_cap_vars
<1>1. CASE BeginCall
  <2>1. script[1].call \in Calls
    <3>1. script \in Seq(Steps) /\ script # <<>>
      BY <1>1 DEF BeginCall, HostTypeOK
    <3>2. script[1] \in Steps
      BY <3>1
    <3> QED
      BY <3>2 DEF Steps
  <2>2. Contract(Thread, script[1].call)
    BY DEF Contract, Serial, Inside
  <2> QED
    BY <1>1, <2>1, <2>2, ThreadType DEF BeginCall, Next
<1>2. CASE Proceed
  BY <1>2, ThreadType DEF Proceed, Next
<1>3. CASE EndCall
  BY <1>3, ThreadType DEF EndCall, Next
<1>4. ASSUME CapgenNext, ~BeginCall, ~Proceed, ~EndCall
      PROVE  UNCHANGED cap_vars
  BY <1>4 DEF CapgenNext, EnterWrapper, UnknownSuite, LeaveWrapper
<1> QED
  BY <1>1, <1>2, <1>3, <1>4 DEF vars

(***************************************************************************)
(* What the invariant says of the state the thread is in.                   *)
(***************************************************************************)
(* With one instance there is one slot.                                     *)
LEMMA OneSlot ==
  /\ Slots = {1}
  /\ \A c \in Calls : Slot(c) = 1
BY OrderAssumption DEF Slots, Slot, Calls

(* The groups done grow by one group a step, from none to all.             *)
LEMMA GroupsDoneSteps ==
  /\ GroupsDone(0) = {}
  /\ \A n \in Nat : GroupsDone(n) \subseteq Groups
  /\ \A n \in Nat : GroupsDone(n) \subseteq GroupsDone(n + 1)
  /\ \A n \in DOMAIN GroupOrder : /\ n \in Nat /\ n - 1 \in Nat
                                  /\ GroupsDone(n) = GroupsDone(n - 1) \cup {GroupOrder[n]}
                                  /\ GroupOrder[n] \notin GroupsDone(n - 1)
  /\ \A n \in Nat : n >= Len(GroupOrder) => GroupsDone(n) = Groups
<1>1. GroupsDone(0) = {} /\ \A n \in Nat : GroupsDone(n) \subseteq GroupsDone(n + 1)
  BY OrderType DEF GroupsDone
<1>2. \A n \in Nat : GroupsDone(n) \subseteq Groups
  BY OrderType DEF GroupsDone
<1>3. ASSUME NEW n \in DOMAIN GroupOrder
      PROVE  /\ n \in Nat /\ n - 1 \in Nat
             /\ GroupsDone(n) = GroupsDone(n - 1) \cup {GroupOrder[n]}
             /\ GroupOrder[n] \notin GroupsDone(n - 1)
  <2>1. n \in Nat /\ n - 1 \in Nat
    BY OrderType
  <2>2. \A j \in DOMAIN GroupOrder : j <= n <=> (j <= n - 1 \/ j = n)
    BY OrderType
  <2>3. \A j \in DOMAIN GroupOrder : j <= n - 1 => GroupOrder[j] # GroupOrder[n]
    <3>1. \A j \in DOMAIN GroupOrder : j <= n - 1 => j # n
      BY OrderType
    <3> QED
      BY <3>1, OrderAssumption
  <2> QED
    BY <2>1, <2>2, <2>3 DEF GroupsDone
<1>4. ASSUME NEW n \in Nat, n >= Len(GroupOrder)
      PROVE  GroupsDone(n) = Groups
  <2>1. \A j \in DOMAIN GroupOrder : j <= n
    BY <1>4, OrderType
  <2> QED
    BY <2>1, OrderType DEF GroupsDone
<1> QED
  BY <1>1, <1>2, <1>3, <1>4

(* While the wrapper is under way and nothing has failed, the script is a   *)
(* suffix of the wrapper's.                                                *)
LEMMA Suffix ==
  ASSUME HostInv, Within
  PROVE  /\ api \in Wrappers
         /\ Done \in Nat
         /\ Len(script) \in Nat /\ Len(Script(api)) = Done + Len(script)
         /\ script # <<>> => /\ Done + 1 \in DOMAIN Script(api)
                             /\ script[1] = Script(api)[Done + 1]
                             /\ script[1] \in Steps
<1>1. api \in Wrappers /\ script \in Seq(Steps)
  BY DEF HostInv, HostTypeOK, Within
<1>2. Script(api) \in Seq(Steps)
  BY <1>1, ScriptGuards
<1>3. Len(script) \in Nat /\ Len(Script(api)) \in Nat
  BY <1>1, <1>2
<1>4. Len(script) <= Len(Script(api))
      /\ \A i \in DOMAIN script : script[i] = Script(api)[Done + i]
  BY DEF HostInv, ScriptLeft
<1>5. Done \in Nat /\ Len(Script(api)) = Done + Len(script)
  BY <1>3, <1>4 DEF Done
<1>6. script # <<>> => 1 \in DOMAIN script /\ Len(script) >= 1 /\ script[1] \in Steps
  BY <1>1
<1>7. script # <<>> => Done + 1 \in DOMAIN Script(api)
  BY <1>2, <1>3, <1>5, <1>6, SeqDomain
<1> QED
  BY <1>1, <1>3, <1>4, <1>5, <1>6, <1>7

(* The call the thread is in, by wrapper and place.                         *)
LEMMA CurrentCall ==
  ASSUME IInv, HostInv, Inside(Thread)
  PROVE  /\ Within /\ script # <<>> /\ api.suite = ThisSuite
         /\ Slot(call[Thread]) = 1 /\ call[Thread].fn \in Phases
         /\ \/ api.name = "initialize" /\ Done = 0 /\ call[Thread].fn = "suite_initialize"
            \/ api.name = "initialize" /\ Done \in DOMAIN GroupOrder
               /\ call[Thread].fn = "group_init" /\ call[Thread].part = GroupOrder[Done]
            \/ api.name = "finalize" /\ Done + 1 \in DOMAIN GroupOrder
               /\ call[Thread].fn = "group_final" /\ call[Thread].part = GroupOrder[Done + 1]
            \/ api.name = "finalize" /\ Done = Len(GroupOrder) /\ call[Thread].fn = "suite_finalize"
            \/ api.name \in {"timestep_initial", "timestep_final"}
               /\ call[Thread].fn \in {"timestep_init", "timestep_final"}
            \/ api.name = "register" /\ call[Thread].fn = "suite_register"
            \/ api.name = "run" /\ Done = 0 /\ call[Thread].fn = "run"
<1>1. Within /\ script # <<>> /\ call[Thread] = script[1].call
  BY DEF HostInv, InCall, Inside
<1>2. /\ api \in Wrappers /\ Done \in Nat /\ Done + 1 \in DOMAIN Script(api)
      /\ script[1] = Script(api)[Done + 1]
  BY <1>1, Suffix
<1>3. call[Thread].suite = ThisSuite /\ call[Thread] \in Calls
  BY ThreadType DEF IInv, InsideKnown, SuiteFound, TypeOK
<1>4. api.suite = ThisSuite
  <2>1. CASE Done > 0
    BY <1>1, <2>1 DEF HostInv, SuccessSoFar
  <2>2. CASE Done = 0
    <3>1. script[1] = Script(api)[1]
      BY <1>2, <2>2
    <3>2. api.suite = OtherName => script[1].call.suite = OtherName
      BY <1>2, <3>1, OtherScript
    <3> QED
      BY <1>1, <1>2, <1>3, <3>2 DEF Wrappers
  <2> QED
    BY <1>2, <2>1, <2>2
<1>5. Slot(call[Thread]) = 1 /\ call[Thread].fn \in Phases
  BY <1>3, OneSlot DEF Calls
<1> QED
  BY <1>1, <1>2, <1>4, <1>5, ScriptPlaces

(* The invariant holds before the host has called anything.                 *)
LEMMA CapgenInitInv == CapgenInit => HostInv
<1> SUFFICES ASSUME CapgenInit PROVE HostInv
  OBVIOUS
<1>1. /\ api = Outside /\ script = <<>> /\ errcode = 0 /\ raised = FALSE /\ up = {}
      /\ pc = [t \in Threads |-> "idle"] /\ call = [t \in Threads |-> NoCall]
  BY DEF CapgenInit, Init
<1>2. HostTypeOK
  <2>1. <<>> \in Seq(Steps)
    OBVIOUS
  <2> QED
    BY <1>1, <2>1, Zenon DEF HostTypeOK
<1>3. Serial /\ InCall
  BY <1>1, ThreadType DEF Serial, InCall, Inside
<1>4. Unallocated
  BY OneSlot DEF CapgenInit, Init, Unallocated
<1>5. ~Within /\ UpNeedsState
  BY <1>1 DEF Within, UpNeedsState
<1> QED
  BY <1>1, <1>2, <1>3, <1>4, <1>5 DEF HostInv, ScriptLeft, FailureEnds, SuccessSoFar,
     BringsUp, TakesDown, RanInStep, Within

(* A wrapper starts with the whole of its script and nothing done.          *)
LEMMA EnterWrapperInv ==
  ASSUME HostInv, NEW a \in Wrappers, EnterWrapper(a)
  PROVE  HostInv'
<1>1. /\ api = Outside /\ api' = a /\ script' = Script(a) /\ raised' = FALSE
      /\ UNCHANGED <<suite_state, allocated, pc, call, k, errflg, errcode, up>>
  BY DEF EnterWrapper, cap_vars
<1>2. a # Outside
  BY DEF Wrappers, APIs
<1>3. pc[Thread] = "idle" /\ ~Inside(Thread)
  BY <1>1 DEF HostInv, InCall, Within, Inside
<1>4. Script(a) \in Seq(Steps) /\ Len(Script(a)) \in Nat
  BY ScriptGuards, SeqDomain
<1>5. Done' = 0
  BY <1>1, <1>4 DEF Done
<1>6. HostTypeOK'
  BY <1>1, <1>4 DEF HostInv, HostTypeOK
<1>7. Serial' /\ InCall'
  BY <1>1, <1>3 DEF HostInv, Serial, InCall, Inside
<1>8. ScriptLeft'
  <2>1. \A i \in DOMAIN Script(a) : Script(a)[i] = Script(a)[0 + i]
    BY <1>4
  <2> QED
    BY <1>1, <1>2, <1>4, <1>5, <2>1 DEF ScriptLeft
<1>9. FailureEnds' /\ SuccessSoFar'
  BY <1>1, <1>5 DEF FailureEnds, SuccessSoFar
<1>10. Unallocated' /\ UpNeedsState'
  BY <1>1 DEF HostInv, Unallocated, UpNeedsState
<1>11. BringsUp' /\ RanInStep'
  BY <1>5 DEF BringsUp, RanInStep
<1>12. TakesDown'
  BY <1>1, <1>5, GroupsDoneSteps, OrderType DEF TakesDown
<1> QED
  BY <1>6, <1>7, <1>8, <1>9, <1>10, <1>11, <1>12 DEF HostInv

(* The thread goes into the cap, or is turned away at its door.             *)
LEMMA BeginCallInv ==
  ASSUME IInv, HostInv, BeginCall
  PROVE  HostInv'
<1>0. /\ script # <<>> /\ script[1].call # NoSuite
      /\ UNCHANGED <<api, script, errcode, raised, up>>
      /\ UNCHANGED <<suite_state, allocated, k>>
      /\ pc[Thread] = "idle"
  BY DEF BeginCall, host_vars, Dispatch, Miss, module_vars
<1>1. \/ /\ pc' = [pc EXCEPT ![Thread] = "alloc"]
         /\ call' = [call EXCEPT ![Thread] = script[1].call]
      \/ /\ pc' = [pc EXCEPT ![Thread] = "miss"]
         /\ call' = call
         /\ errflg' = [errflg EXCEPT ![Thread] = 1]
  BY DEF BeginCall, Dispatch, Miss
<1>2. /\ pc \in [Threads -> PCs] /\ call \in [Threads -> Calls] /\ errflg \in [Threads -> {0, 1}]
      /\ ~Inside(Thread) /\ k[Thread] = 0
  BY <1>0, ThreadType DEF IInv, TypeOK, OutsideUnchecked, Inside
<1>3. Within
  BY <1>0 DEF HostInv, Within, ScriptLeft, FailureEnds
<1>4. Done' = Done /\ (Within' <=> Within)
  BY <1>0 DEF Done, Within
<1>5. HostTypeOK' /\ Unallocated' /\ UpNeedsState'
  BY <1>0 DEF HostInv, HostTypeOK, Unallocated, UpNeedsState
<1>6. Serial'
  BY <1>1, <1>2 DEF HostInv, Serial
<1>7. ScriptLeft' /\ FailureEnds' /\ SuccessSoFar' /\ RanInStep' /\ TakesDown'
  BY <1>0, <1>4 DEF HostInv, ScriptLeft, FailureEnds, SuccessSoFar, RanInStep, TakesDown
<1>8. InCall'
  BY <1>0, <1>1, <1>2, <1>3, <1>4, ThreadType DEF HostInv, InCall, Inside
<1>9. BringsUp'
  BY <1>0, <1>2, <1>4 DEF HostInv, BringsUp
<1> QED
  BY <1>5, <1>6, <1>7, <1>8, <1>9 DEF HostInv

(***************************************************************************)
(* Inside the cap.                                                         *)
(***************************************************************************)
(* What a step of the thread inside the cap does to what the host sees.     *)
LEMMA InnerSteps ==
  ASSUME IInv, HostInv, Proceed
  PROVE  /\ Inside(Thread) /\ Inside(Thread)'
         /\ UNCHANGED <<api, script, errcode, raised, call>>
         /\ \A t \in Threads \ {Thread} : pc'[t] = pc[t]
         /\ pc'[Thread] # "miss"
         /\ pc'[Thread] = "set" => k'[Thread] # 0
         /\ pc'[Thread] = "alloc" => k'[Thread] = 0
         /\ StateArray \notin allocated' => /\ StateArray \notin allocated
                                            /\ suite_state' = suite_state
         /\ suite_state' = suite_state \/ suite_state[1] = "undefined"
         /\ k[Thread] \in Nat /\ k'[Thread] \in {k[Thread], k[Thread] + 1, 1}
         /\ \/ up' = up /\ (k'[Thread] > 1 <=> k[Thread] > 1)
            \/ /\ suite_state' = suite_state /\ AtScheme(Thread)
               /\ k[Thread] # 0 /\ k'[Thread] > 1
               /\ up' = IF errflg[Thread] = 0 /\ call[Thread].fn = "group_init"
                          THEN up \cup {call[Thread].part} ELSE up
<1> USE ThreadType
<1>0. TypeOK /\ Inner(Thread) /\ UNCHANGED <<api, script, errcode, raised>>
  BY DEF IInv, Proceed
<1>1. /\ pc \in [Threads -> PCs] /\ k \in [Threads -> Nat]
      /\ up' = IF AtScheme(Thread) /\ errflg[Thread] = 0 /\ call[Thread].fn = "group_init"
                 THEN up \cup {call[Thread].part} ELSE up
  BY <1>0 DEF TypeOK, Proceed
<1>2. /\ pc[Thread] = "call" => k[Thread] # 0
      /\ pc[Thread] = "alloc" => k[Thread] = 0
  BY DEF IInv, InsideKnown, Inside, HostInv, InCall
<1>3. CASE TestAllocated(Thread)
  <2>1. /\ pc[Thread] \in {"alloc", "call"} /\ todo[Thread] # {}
        /\ UNCHANGED <<suite_state, allocated, call, k>>
        /\ \/ pc' = pc
           \/ pc' = [pc EXCEPT ![Thread] = "allocate"]
    BY <1>3 DEF TestAllocated, module_vars
  <2>2. ~AtScheme(Thread) /\ up' = up
    BY <1>1, <2>1 DEF AtScheme
  <2>3. /\ pc'[Thread] \in {pc[Thread], "allocate"}
        /\ \A t \in Threads \ {Thread} : pc'[t] = pc[t]
    BY <1>1, <2>1
  <2>4. Inside(Thread) /\ Inside(Thread)' /\ pc'[Thread] \notin {"set", "miss"}
        /\ (pc'[Thread] = "alloc" => pc[Thread] = "alloc")
    BY <2>1, <2>3 DEF Inside
  <2> QED
    BY <1>0, <1>1, <1>2, <2>1, <2>2, <2>3, <2>4
<1>4. CASE Allocate(Thread)
  <2>1. /\ pc[Thread] = "allocate" /\ cur[Thread] \notin allocated
        /\ allocated' = allocated \cup {cur[Thread]} /\ UNCHANGED <<call, k>>
        /\ \/ pc' = [pc EXCEPT ![Thread] = "init"] /\ cur[Thread] = StateArray
           \/ pc' = [pc EXCEPT ![Thread] = Resume(Thread)] /\ suite_state' = suite_state
    BY <1>4 DEF Allocate, IInv, AboutToAllocate
  <2>2. ~AtScheme(Thread) /\ Resume(Thread) = IF k[Thread] = 0 THEN "alloc" ELSE "call"
    BY <2>1 DEF AtScheme, Resume
  <2>3. suite_state' = suite_state \/ suite_state[1] = "undefined"
    BY <2>1 DEF HostInv, Unallocated
  <2>4. StateArray \notin allocated' => StateArray \notin allocated /\ suite_state' = suite_state
    BY <2>1
  <2> QED
    BY <1>0, <1>1, <2>1, <2>2, <2>3, <2>4 DEF Inside
<1>5. CASE InitState(Thread)
  <2>1. /\ pc[Thread] = "init" /\ pc' = [pc EXCEPT ![Thread] = Resume(Thread)]
        /\ UNCHANGED <<allocated, call, k>>
    BY <1>5 DEF InitState
  <2>2. StateArray \in allocated /\ suite_state[1] = "undefined"
    BY <2>1, OneSlot DEF IInv, Initializing, StateReady
  <2>3. ~AtScheme(Thread) /\ Resume(Thread) = IF k[Thread] = 0 THEN "alloc" ELSE "call"
    BY <2>1 DEF AtScheme, Resume
  <2> QED
    BY <1>0, <1>1, <2>1, <2>2, <2>3 DEF Inside
<1>6. CASE Check(Thread)
  <2>1. /\ pc[Thread] = "alloc" /\ pc' = [pc EXCEPT ![Thread] = "call"]
        /\ k' = [k EXCEPT ![Thread] = 1]
        /\ UNCHANGED <<suite_state, allocated, call>>
    BY <1>6 DEF Check
  <2>2. ~AtScheme(Thread)
    BY <2>1 DEF AtScheme
  <2>3. k[Thread] = 0
    BY <1>2, <2>1
  <2> QED
    BY <1>0, <1>1, <2>1, <2>2, <2>3 DEF Inside
<1>7. CASE Scheme(Thread) \/ SchemeFails(Thread) \/ SkipScheme(Thread)
  <2>1. /\ AtScheme(Thread) /\ k' = [k EXCEPT ![Thread] = @ + 1]
        /\ UNCHANGED <<suite_state, allocated, pc, call>>
    BY <1>7 DEF Scheme, SchemeFails, SkipScheme, Advance
  <2>2. pc[Thread] = "call"
    BY <2>1 DEF AtScheme
  <2> QED
    BY <1>0, <1>1, <1>2, <2>1, <2>2 DEF Inside
<1>8. CASE CallsDone(Thread)
  <2>1. /\ pc[Thread] = "call" /\ pc' = [pc EXCEPT ![Thread] = "set"]
        /\ k[Thread] \notin DOMAIN Body(Thread)
        /\ UNCHANGED <<suite_state, allocated, call, k>>
    BY <1>8 DEF CallsDone, module_vars
  <2>2. ~AtScheme(Thread)
    BY <2>1 DEF AtScheme
  <2> QED
    BY <1>0, <1>1, <1>2, <2>1, <2>2 DEF Inside
<1> QED
  BY <1>0, <1>3, <1>4, <1>5, <1>6, <1>7, <1>8 DEF Inner

(* A step inside the cap takes no initialized state away and brings up the  *)
(* group the wrapper is at.                                                *)
LEMMA ProceedInv ==
  ASSUME IInv, HostInv, Proceed
  PROVE  HostInv'
<1>1. /\ Inside(Thread) /\ Inside(Thread)'
      /\ UNCHANGED <<api, script, errcode, raised, call>>
      /\ \A t \in Threads \ {Thread} : pc'[t] = pc[t]
      /\ pc'[Thread] # "miss"
      /\ pc'[Thread] = "set" => k'[Thread] # 0
      /\ pc'[Thread] = "alloc" => k'[Thread] = 0
      /\ StateArray \notin allocated' => /\ StateArray \notin allocated
                                         /\ suite_state' = suite_state
      /\ suite_state' = suite_state \/ suite_state[1] = "undefined"
      /\ k[Thread] \in Nat /\ k'[Thread] \in {k[Thread], k[Thread] + 1, 1}
      /\ \/ up' = up /\ (k'[Thread] > 1 <=> k[Thread] > 1)
         \/ /\ suite_state' = suite_state /\ AtScheme(Thread)
            /\ k[Thread] # 0 /\ k'[Thread] > 1
            /\ up' = IF errflg[Thread] = 0 /\ call[Thread].fn = "group_init"
                       THEN up \cup {call[Thread].part} ELSE up
  BY InnerSteps
<1>2. Done' = Done /\ (Within' <=> Within) /\ Within /\ script # <<>> /\ Done \in Nat
  BY <1>1, CurrentCall, Suffix DEF Done, Within
<1>3. /\ Slot(call[Thread]) = 1 /\ call[Thread].fn \in Phases
      /\ call[Thread].fn = "group_init" =>
           /\ api.name = "initialize" /\ Done \in DOMAIN GroupOrder
           /\ call[Thread].part = GroupOrder[Done] /\ call[Thread].part \in Groups
  BY <1>1, CurrentCall, OrderType
<1>4. k[Thread] # 0 /\ errflg[Thread] = 0 /\ call[Thread].fn = "group_init"
        => suite_state[1] = "initialized"
  <2>1. CheckState["group_init"] = "initialized"
    BY DEF CheckState, Phases, GroupPhases
  <2> QED
    BY <1>1, <1>3, <2>1, ThreadType DEF IInv, HoldsSinceCheck
<1>5. HostTypeOK'
  BY <1>1, <1>3 DEF HostInv, HostTypeOK
<1>6. Serial' /\ InCall'
  BY <1>1, <1>2 DEF HostInv, Serial, InCall, Inside
<1>7. ScriptLeft' /\ FailureEnds' /\ SuccessSoFar'
  BY <1>1, <1>2 DEF HostInv, ScriptLeft, FailureEnds, SuccessSoFar
<1>8. Unallocated'
  BY <1>1 DEF HostInv, Unallocated
<1>9. CASE suite_state[1] = "undefined"
  <2>1. up = {} /\ up' = up
    BY <1>1, <1>4, <1>9 DEF HostInv, UpNeedsState
  <2> QED
    BY <1>1, <1>2, <1>5, <1>6, <1>7, <1>8, <1>9, <2>1
       DEF HostInv, UpNeedsState, BringsUp, TakesDown, RanInStep
<1>10. CASE suite_state' = suite_state
  <2>1. UpNeedsState'
    BY <1>1, <1>4, <1>10 DEF HostInv, UpNeedsState
  <2>2. RanInStep'
    BY <1>1, <1>2, <1>10 DEF HostInv, RanInStep
  <2>3. TakesDown'
    BY <1>1, <1>2, <1>3, <1>10 DEF HostInv, TakesDown
  <2>4. BringsUp'
    <3> SUFFICES ASSUME api.name = "initialize", Done > 0
                 PROVE  /\ suite_state[1] = "initialized"
                        /\ GroupsDone(Done - 1) \subseteq up'
                        /\ up' \subseteq GroupsDone(IF k'[Thread] > 1 THEN Done ELSE Done - 1)
      BY <1>1, <1>2, <1>10 DEF BringsUp
    <3>1. /\ suite_state[1] = "initialized"
          /\ GroupsDone(Done - 1) \subseteq up
          /\ up \subseteq GroupsDone(IF k[Thread] > 1 THEN Done ELSE Done - 1)
      BY <1>1, <1>2 DEF HostInv, BringsUp
    <3>2. Done \in DOMAIN GroupOrder
      BY <1>1, CurrentCall
    <3>3. GroupsDone(Done) = GroupsDone(Done - 1) \cup {GroupOrder[Done]}
      BY <3>2, GroupsDoneSteps
    <3>4. up \subseteq up' /\ (k'[Thread] > 1 \/ up' = up)
      BY <1>1
    <3> QED
      BY <1>1, <1>3, <3>1, <3>3, <3>4
  <2> QED
    BY <1>5, <1>6, <1>7, <1>8, <2>1, <2>2, <2>3, <2>4 DEF HostInv
<1> QED
  BY <1>1, <1>9, <1>10

(***************************************************************************)
(* The end of a step of the script.                                         *)
(***************************************************************************)
(* What is left of a sequence of one element.                               *)
LEMMA LastTail ==
  ASSUME NEW S, NEW s \in Seq(S), Len(s) = 1
  PROVE  Tail(s) = <<>>
<1>1. Tail(s) \in Seq(S) /\ Len(Tail(s)) = 0
  OBVIOUS
<1>2. \A r \in Seq(S) : Len(r) = 0 => r = <<>>
  OBVIOUS
<1> QED
  BY <1>1, <1>2

(* What is left of a sequence after its first element.                     *)
LEMMA TailSteps ==
  ASSUME NEW S, NEW s \in Seq(S), s # <<>>
  PROVE  /\ Tail(s) \in Seq(S) /\ Len(Tail(s)) = Len(s) - 1
         /\ \A i \in DOMAIN Tail(s) : i \in Nat /\ i + 1 \in DOMAIN s /\ Tail(s)[i] = s[i + 1]
OBVIOUS

(* After an error nothing is left of the script: the step is guarded, or it *)
(* was the last.                                                           *)
LEMMA EarlyEnds ==
  ASSUME HostInv, Within, script # <<>>
  PROVE  Early(1) = <<>>
<1>1. /\ api \in Wrappers /\ Done \in Nat /\ Len(script) \in Nat
      /\ Len(Script(api)) = Done + Len(script)
      /\ Done + 1 \in DOMAIN Script(api) /\ script[1] = Script(api)[Done + 1]
  BY Suffix
<1>2. script \in Seq(Steps)
  BY DEF HostInv, HostTypeOK
<1>3. CASE Done + 1 < Len(Script(api))
  <2>1. script[1].guarded = TRUE
    BY <1>1, <1>3, ScriptGuards
  <2> QED
    BY <2>1 DEF Early
<1>4. CASE ~(Done + 1 < Len(Script(api)))
  <2>0. Len(script) # 0
    BY <1>2
  <2>1. Len(script) = 1
    BY <1>1, <1>4, <2>0
  <2>2. Tail(script) = <<>>
    BY <1>2, <2>1, LastTail
  <2> QED
    BY <2>2 DEF Early
<1> QED
  BY <1>3, <1>4

(* What the state tables say of the phases the wrappers go through.         *)
LEMMA PhaseTables ==
  /\ CheckState["suite_initialize"] = "uninitialized"
  /\ SetState["suite_initialize"] = "initialized"
  /\ CheckState["group_init"] = "initialized" /\ SetState["group_init"] = NoState
  /\ CheckState["group_final"] = "initialized" /\ SetState["group_final"] = NoState
  /\ CheckState["run"] = "in_time_step" /\ SetState["run"] = NoState
  /\ SetState["suite_finalize"] = "uninitialized"
  /\ \A p \in Phases : p # "suite_finalize" =>
       SetState[p] \in {NoState, "initialized", "in_time_step"}
BY DEF CheckState, SetState, Phases, FlatPhases, GroupPhases

(* What a return does to what the host sees.                                *)
LEMMA ReturnSteps ==
  ASSUME IInv, HostInv, EndCall
  PROVE  /\ Within /\ script # <<>> /\ errflg[Thread] \in {0, 1}
         /\ UNCHANGED <<api, allocated>>
         /\ errcode' = errflg[Thread] /\ (raised' <=> errflg[Thread] # 0)
         /\ script' = Early(errflg[Thread])
         /\ \A t \in Threads \ {Thread} : pc'[t] = pc[t]
         /\ pc'[Thread] = "idle" /\ call'[Thread] = NoCall
         /\ \/ /\ pc[Thread] = "miss" /\ errflg[Thread] = 1
               /\ suite_state' = suite_state /\ up' = up
            \/ /\ Inside(Thread) /\ k[Thread] # 0
               /\ SetState[call[Thread].fn] = NoState => suite_state' = suite_state
               /\ SetState[call[Thread].fn] # NoState
                    => suite_state'[1] = SetState[call[Thread].fn]
               /\ UsesState(call[Thread].fn) => StateArray \in allocated
               /\ up' = CASE call[Thread].fn = "group_init" /\ errflg[Thread] = 0
                               -> up \cup {call[Thread].part}
                          [] call[Thread].fn = "group_final" /\ errflg[Thread] = 0
                               -> up \ {call[Thread].part}
                          [] OTHER -> up
<1> USE ThreadType
<1>1. /\ Return(Thread) /\ pc[Thread] \in {"set", "miss"} /\ TypeOK
      /\ UNCHANGED <<api, allocated>>
  BY DEF EndCall, Return, IInv
<1>2. /\ Within /\ script # <<>> /\ errflg[Thread] \in {0, 1}
  BY <1>1 DEF HostInv, InCall, TypeOK
<1>3. errcode' = errflg[Thread] /\ (raised' <=> errflg[Thread] # 0)
      /\ script' = Early(errflg[Thread])
  BY <1>2 DEF EndCall, Within
<1>4. /\ pc' = [pc EXCEPT ![Thread] = "idle"] /\ call' = [call EXCEPT ![Thread] = NoCall]
      /\ pc \in [Threads -> PCs] /\ call \in [Threads -> Calls]
      /\ suite_state' =
           IF AssignedState(Thread) = NoState THEN suite_state
           ELSE [suite_state EXCEPT ![Slot(call[Thread])] = AssignedState(Thread)]
  BY <1>1 DEF Return, TypeOK
<1>5. CASE pc[Thread] = "miss"
  <2>1. errflg[Thread] = 1 /\ AssignedState(Thread) = NoState
    BY <1>5 DEF HostInv, InCall, AssignedState
  <2>2. up' = up
    BY <2>1 DEF EndCall
  <2> QED
    BY <1>1, <1>2, <1>3, <1>4, <1>5, <2>1, <2>2
<1>6. CASE pc[Thread] = "set"
  <2>1. Inside(Thread) /\ k[Thread] # 0 /\ AssignedState(Thread) = SetState[call[Thread].fn]
    BY <1>6 DEF HostInv, InCall, AssignedState, Inside
  <2>2. suite_state \in [{1} -> States \cup {"undefined"}] /\ Slot(call[Thread]) = 1
    BY <1>1, <1>4, OneSlot DEF TypeOK
  <2>3. /\ SetState[call[Thread].fn] = NoState => suite_state' = suite_state
        /\ SetState[call[Thread].fn] # NoState => suite_state'[1] = SetState[call[Thread].fn]
    BY <1>4, <2>1, <2>2
  <2>4. UsesState(call[Thread].fn) => StateArray \in allocated
    BY <2>1 DEF IInv, StateProvided
  <2>5. up' = CASE call[Thread].fn = "group_init" /\ errflg[Thread] = 0
                     -> up \cup {call[Thread].part}
                [] call[Thread].fn = "group_final" /\ errflg[Thread] = 0
                     -> up \ {call[Thread].part}
                [] OTHER -> up
    BY DEF EndCall
  <2> QED
    BY <1>1, <1>2, <1>3, <1>4, <2>1, <2>3, <2>4, <2>5
<1> QED
  BY <1>1, <1>5, <1>6

(* finalize comes to ccpp_final with no group up.                           *)
LEMMA NoneUpAtFinal ==
  ASSUME IInv, HostInv, Inside(Thread), call[Thread].fn = "suite_finalize"
  PROVE  up = {}
<1>1. Within /\ api.name = "finalize" /\ Done = Len(GroupOrder)
  BY CurrentCall
<1>2. up \cap GroupsDone(Done) = {} /\ up \subseteq Groups
  BY <1>1 DEF HostInv, TakesDown, HostTypeOK
<1>3. GroupsDone(Done) = Groups
  BY <1>1, OrderType, GroupsDoneSteps
<1> QED
  BY <1>2, <1>3

(* A call that failed ends the wrapper, and so does a call that was turned  *)
(* away.                                                                   *)
LEMMA EndFailedInv ==
  ASSUME IInv, HostInv, EndCall, errflg[Thread] # 0
  PROVE  HostInv'
<1>1. /\ Within /\ script # <<>> /\ errflg[Thread] = 1
      /\ UNCHANGED <<api, allocated>> /\ errcode' = 1 /\ (raised' <=> TRUE)
      /\ script' = Early(1)
      /\ \A t \in Threads \ {Thread} : pc'[t] = pc[t]
      /\ pc'[Thread] = "idle" /\ call'[Thread] = NoCall
  BY ReturnSteps
<1>2. up' = up
  BY ReturnSteps
<1>3. script' = <<>>
  BY <1>1, EarlyEnds
<1>4. ~Within' /\ api # Outside
  BY <1>1 DEF Within
<1>5. HostTypeOK'
  <2>1. <<>> \in Seq(Steps)
    OBVIOUS
  <2>2. raised' \in BOOLEAN
    BY DEF EndCall, HostInv, HostTypeOK
  <2> QED
    BY <1>1, <1>2, <1>3, <2>1, <2>2 DEF HostInv, HostTypeOK
<1>6. Serial' /\ InCall'
  BY <1>1 DEF HostInv, Serial, InCall, Inside
<1>7. ScriptLeft' /\ FailureEnds' /\ SuccessSoFar' /\ BringsUp' /\ TakesDown' /\ RanInStep'
  BY <1>1, <1>3, <1>4 DEF ScriptLeft, FailureEnds, SuccessSoFar, BringsUp, TakesDown, RanInStep
<1>8. Unallocated' /\ UpNeedsState'
  <2>1. CASE suite_state' = suite_state
    BY <1>1, <1>2, <2>1 DEF HostInv, Unallocated, UpNeedsState
  <2>2. CASE suite_state' # suite_state
    <3>1. /\ Inside(Thread) /\ SetState[call[Thread].fn] # NoState
          /\ suite_state'[1] = SetState[call[Thread].fn]
          /\ StateArray \in allocated
      BY <2>2, ReturnSteps DEF UsesState
    <3>2. \/ suite_state'[1] \in {"initialized", "in_time_step"}
          \/ call[Thread].fn = "suite_finalize"
      BY <3>1, CurrentCall, PhaseTables
    <3>3. up # {} => suite_state'[1] \in {"initialized", "in_time_step"}
      BY <3>1, <3>2, NoneUpAtFinal
    <3> QED
      BY <1>1, <1>2, <3>1, <3>3 DEF Unallocated, UpNeedsState
  <2> QED
    BY <2>1, <2>2
<1> QED
  BY <1>5, <1>6, <1>7, <1>8 DEF HostInv

(* A call that succeeded takes its step of the script, and has done what    *)
(* the wrapper counts on.                                                  *)
LEMMA EndDoneInv ==
  ASSUME IInv, HostInv, EndCall, errflg[Thread] = 0
  PROVE  HostInv'
<1> DEFINE fn == call[Thread].fn
           part == call[Thread].part
<1>1. /\ Within /\ script # <<>>
      /\ UNCHANGED <<api, allocated>> /\ errcode' = 0 /\ (raised' <=> FALSE)
      /\ script' = Early(0)
      /\ \A t \in Threads \ {Thread} : pc'[t] = pc[t]
      /\ pc'[Thread] = "idle" /\ call'[Thread] = NoCall
      /\ Inside(Thread) /\ k[Thread] # 0
  BY ReturnSteps
<1>2. /\ SetState[fn] = NoState => suite_state' = suite_state
      /\ SetState[fn] # NoState => suite_state'[1] = SetState[fn]
      /\ UsesState(fn) => StateArray \in allocated
      /\ up' = CASE fn = "group_init" -> up \cup {part}
                 [] fn = "group_final" -> up \ {part}
                 [] OTHER -> up
  BY ReturnSteps
<1>3. CheckState[fn] # NoState => suite_state[1] = CheckState[fn]
  BY <1>1, CurrentCall, ThreadType DEF IInv, HoldsSinceCheck
<1>4. /\ api \in Wrappers /\ Done \in Nat /\ Len(script) \in Nat
      /\ Len(Script(api)) = Done + Len(script)
  BY <1>1, Suffix
<1>5. script \in Seq(Steps) /\ script' = Tail(script)
  BY <1>1 DEF HostInv, HostTypeOK, Early
<1>6. /\ script' \in Seq(Steps) /\ Len(script') = Len(script) - 1
      /\ \A i \in DOMAIN script' : i + 1 \in DOMAIN script /\ script'[i] = script[i + 1]
  BY <1>1, <1>5, TailSteps
<1>7. Done' = Done + 1 /\ Within' /\ Done' > 0
  <2>1. Done' = Len(Script(api)) - Len(script')
    BY <1>1 DEF Done
  <2>2. Within'
    BY <1>1 DEF Within
  <2>3. Done' = Done + 1
    BY <1>4, <1>6, <2>1
  <2> QED
    BY <1>4, <2>2, <2>3
<1>8. /\ fn \in Phases /\ api.suite = ThisSuite
      /\ \/ api.name = "initialize" /\ Done = 0 /\ fn = "suite_initialize"
         \/ api.name = "initialize" /\ Done \in DOMAIN GroupOrder
            /\ fn = "group_init" /\ part = GroupOrder[Done]
         \/ api.name = "finalize" /\ Done + 1 \in DOMAIN GroupOrder
            /\ fn = "group_final" /\ part = GroupOrder[Done + 1]
         \/ api.name = "finalize" /\ Done = Len(GroupOrder) /\ fn = "suite_finalize"
         \/ api.name \in {"timestep_initial", "timestep_final"}
            /\ fn \in {"timestep_init", "timestep_final"}
         \/ api.name = "register" /\ fn = "suite_register"
         \/ api.name = "run" /\ Done = 0 /\ fn = "run"
  BY <1>1, CurrentCall
<1> HIDE DEF fn, part
<1>9. HostTypeOK'
  <2>1. part \in Groups \/ fn # "group_init"
    BY <1>8, OrderType
  <2>2. up' \subseteq Groups
    BY <1>2, <2>1 DEF HostInv, HostTypeOK
  <2>3. raised' \in BOOLEAN
    BY DEF EndCall, HostInv, HostTypeOK
  <2> QED
    BY <1>1, <1>6, <2>2, <2>3 DEF HostInv, HostTypeOK
<1>10. Serial' /\ InCall'
  BY <1>1 DEF HostInv, Serial, InCall, Inside
<1>11. ScriptLeft'
  <2>1. \A i \in DOMAIN script' : script'[i] = Script(api)[(Done + 1) + i]
    <3> TAKE i \in DOMAIN script'
    <3>1. i \in Nat
      BY <1>6
    <3>2. script'[i] = Script(api)[Done + (i + 1)]
      BY <1>1, <1>6 DEF HostInv, ScriptLeft
    <3>3. Done + (i + 1) = (Done + 1) + i
      BY <1>4, <3>1
    <3> QED
      BY <3>2, <3>3
  <2> QED
    BY <1>1, <1>4, <1>6, <1>7, <2>1 DEF ScriptLeft, Within
<1>12. FailureEnds' /\ SuccessSoFar'
  BY <1>1, <1>8 DEF FailureEnds, SuccessSoFar
<1>13. Unallocated'
  BY <1>1, <1>2 DEF HostInv, Unallocated, UsesState
<1>14. fn = "suite_finalize" => up = {}
  BY <1>1, NoneUpAtFinal DEF fn
<1>15. UpNeedsState'
  <2>1. CASE fn = "group_init"
    BY <1>2, <1>3, <2>1, PhaseTables DEF UpNeedsState
  <2>2. CASE fn = "suite_finalize"
    BY <1>2, <1>14, <2>2 DEF UpNeedsState
  <2>3. CASE fn # "group_init" /\ fn # "suite_finalize"
    <3>1. up' \subseteq up
      BY <1>2, <2>3
    <3>2. suite_state' = suite_state \/ suite_state'[1] \in {"initialized", "in_time_step"}
      BY <1>2, <1>8, <2>3, PhaseTables
    <3> QED
      BY <3>1, <3>2 DEF HostInv, UpNeedsState
  <2> QED
    BY <2>1, <2>2, <2>3
<1>16. BringsUp'
  <2> SUFFICES ASSUME api.name = "initialize"
               PROVE  /\ suite_state'[1] = "initialized"
                      /\ GroupsDone(Done) \subseteq up'
                      /\ up' \subseteq GroupsDone(Done)
    BY <1>1, <1>4, <1>7 DEF BringsUp, Inside
  <2>1. CASE Done = 0
    <3>1. fn = "suite_initialize"
      BY <1>8, <2>1, OrderType
    <3>2. up = {}
      BY <1>3, <3>1, PhaseTables DEF HostInv, UpNeedsState
    <3> QED
      BY <1>2, <2>1, <3>1, <3>2, PhaseTables, GroupsDoneSteps
  <2>2. CASE Done > 0
    <3>1. fn = "group_init" /\ Done \in DOMAIN GroupOrder /\ part = GroupOrder[Done]
      BY <1>8, <2>2
    <3>2. GroupsDone(Done) = GroupsDone(Done - 1) \cup {part}
      BY <3>1, GroupsDoneSteps
    <3>3. GroupsDone(Done - 1) \subseteq up /\ up \subseteq GroupsDone(Done)
      BY <1>1, <2>2, <3>2 DEF HostInv, BringsUp
    <3>4. up' = up \cup {part} /\ suite_state'[1] = "initialized"
      BY <1>2, <1>3, <3>1, PhaseTables
    <3> QED
      BY <3>2, <3>3, <3>4
  <2> QED
    BY <1>4, <2>1, <2>2
<1>17. TakesDown'
  <2> SUFFICES ASSUME api.name = "finalize"
               PROVE  /\ up' \cap GroupsDone(Done + 1) = {}
                      /\ Done + 1 > Len(GroupOrder) => suite_state'[1] = "uninitialized"
    BY <1>1, <1>7 DEF TakesDown
  <2>1. up \cap GroupsDone(Done) = {}
    BY <1>1 DEF HostInv, TakesDown
  <2>2. CASE fn = "group_final"
    <3>1. Done + 1 \in DOMAIN GroupOrder /\ part = GroupOrder[Done + 1]
      BY <1>8, <2>2
    <3>2. GroupsDone(Done + 1) = GroupsDone(Done) \cup {part}
      BY <1>4, <3>1, GroupsDoneSteps
    <3>3. ~(Done + 1 > Len(GroupOrder))
      BY <3>1, OrderType
    <3>4. up' = up \ {part}
      BY <1>2, <2>2
    <3> QED
      BY <2>1, <3>2, <3>3, <3>4
  <2>3. CASE fn = "suite_finalize"
    BY <1>2, <1>14, <2>3, PhaseTables
  <2> QED
    BY <1>8, <2>2, <2>3
<1>18. RanInStep'
  BY <1>1, <1>2, <1>3, <1>8, PhaseTables DEF RanInStep
<1> QED
  BY <1>9, <1>10, <1>11, <1>12, <1>13, <1>15, <1>16, <1>17, <1>18 DEF HostInv

(* A suite the host cap does not know ends the wrapper with an error.       *)
LEMMA UnknownSuiteInv ==
  ASSUME HostInv, UnknownSuite
  PROVE  HostInv'
<1>1. /\ script # <<>> /\ script[1].call = NoSuite /\ errcode' = 1 /\ raised' = TRUE
      /\ script' = Early(1)
      /\ UNCHANGED <<suite_state, allocated, pc, call, k, errflg, api, up>>
  BY DEF UnknownSuite, cap_vars
<1>2. Within
  BY <1>1 DEF HostInv, Within, ScriptLeft, FailureEnds
<1>3. script' = <<>> /\ ~Within'
  BY <1>1, <1>2, EarlyEnds DEF Within
<1>4. pc[Thread] = "idle" /\ ~Inside(Thread)
  BY <1>1 DEF HostInv, InCall, Inside
<1>5. HostTypeOK'
  <2>1. <<>> \in Seq(Steps)
    OBVIOUS
  <2> QED
    BY <1>1, <1>3, <2>1 DEF HostInv, HostTypeOK
<1>6. Serial' /\ InCall'
  BY <1>1, <1>4 DEF HostInv, Serial, InCall, Inside
<1>7. Unallocated' /\ UpNeedsState'
  BY <1>1 DEF HostInv, Unallocated, UpNeedsState
<1>8. ScriptLeft' /\ FailureEnds' /\ SuccessSoFar' /\ BringsUp' /\ TakesDown' /\ RanInStep'
  BY <1>1, <1>3 DEF ScriptLeft, FailureEnds, SuccessSoFar, BringsUp, TakesDown, RanInStep
<1> QED
  BY <1>5, <1>6, <1>7, <1>8 DEF HostInv

(* Outside the wrappers nothing is said of them.                            *)
LEMMA LeaveWrapperInv ==
  ASSUME HostInv, LeaveWrapper
  PROVE  HostInv'
<1>1. /\ script = <<>> /\ api' = Outside
      /\ UNCHANGED <<suite_state, allocated, pc, call, k, errflg, script, errcode, raised, up>>
  BY DEF LeaveWrapper, cap_vars
<1>2. ~Within' /\ pc[Thread] = "idle" /\ ~Inside(Thread)
  BY <1>1 DEF HostInv, InCall, Within, Inside
<1>3. HostTypeOK' /\ Serial' /\ Unallocated' /\ UpNeedsState'
  BY <1>1 DEF HostInv, HostTypeOK, Serial, Unallocated, UpNeedsState
<1>4. InCall'
  BY <1>1, <1>2 DEF HostInv, InCall, Inside
<1>5. ScriptLeft' /\ FailureEnds' /\ SuccessSoFar' /\ BringsUp' /\ TakesDown' /\ RanInStep'
  BY <1>1, <1>2 DEF ScriptLeft, FailureEnds, SuccessSoFar, BringsUp, TakesDown, RanInStep
<1> QED
  BY <1>3, <1>4, <1>5 DEF HostInv

(* A stuttering step keeps the invariant.                                  *)
LEMMA HostStutterInv ==
  ASSUME HostInv, UNCHANGED vars
  PROVE  HostInv'
<1> USE DEF vars, cap_vars, host_vars
<1>1. Done' = Done /\ (Within' <=> Within) /\ (Inside(Thread)' <=> Inside(Thread))
  BY DEF Done, Within, Inside
<1>2. HostTypeOK' /\ Serial' /\ Unallocated' /\ UpNeedsState'
  BY DEF HostInv, HostTypeOK, Serial, Unallocated, UpNeedsState
<1>3. InCall'
  BY <1>1 DEF HostInv, InCall
<1>4. ScriptLeft' /\ FailureEnds' /\ SuccessSoFar'
  BY <1>1 DEF HostInv, ScriptLeft, FailureEnds, SuccessSoFar
<1>5. BringsUp' /\ TakesDown' /\ RanInStep'
  BY <1>1 DEF HostInv, BringsUp, TakesDown, RanInStep
<1> QED
  BY <1>2, <1>3, <1>4, <1>5 DEF HostInv

(***************************************************************************)
(* The theorems.                                                           *)
(***************************************************************************)
(* The two invariants are inductive together, one lemma per action.         *)
LEMMA CapgenNextInv ==
  ASSUME IInv, HostInv, [CapgenNext]_vars
  PROVE  IInv' /\ HostInv'
<1>1. IInv'
  <2>1. [Next]_cap_vars
    BY CapgenStep DEF HostInv
  <2> QED
    BY <2>1, NextInv, StutterInv
<1>2. CASE \E name \in APIs, suite \in {ThisSuite, OtherName}, part \in Groups \cup {OtherName} :
             EnterWrapper([name |-> name, suite |-> suite, part |-> part])
  BY <1>1, <1>2, EnterWrapperInv DEF Wrappers
<1>3. CASE BeginCall
  BY <1>1, <1>3, BeginCallInv
<1>4. CASE Proceed
  BY <1>1, <1>4, ProceedInv
<1>5. CASE EndCall
  BY <1>1, <1>5, EndFailedInv, EndDoneInv
<1>6. CASE UnknownSuite
  BY <1>1, <1>6, UnknownSuiteInv
<1>7. CASE LeaveWrapper
  BY <1>1, <1>7, LeaveWrapperInv
<1>8. CASE UNCHANGED vars
  BY <1>1, <1>8, HostStutterInv
<1> QED
  BY <1>1, <1>2, <1>3, <1>4, <1>5, <1>6, <1>7, <1>8 DEF CapgenNext

(* Both invariants hold whatever the host calls and whatever fails.         *)
THEOREM HostInvariance == CapgenSpec => [](IInv /\ HostInv)
<1>1. CapgenInit => IInv /\ HostInv
  BY InitInv, CapgenInitInv DEF CapgenInit
<1>2. IInv /\ HostInv /\ [CapgenNext]_vars => (IInv /\ HostInv)'
  BY CapgenNextInv
<1> QED
  BY <1>1, <1>2, PTL DEF CapgenSpec

(* A host of original capgen's wrappers keeps to the suite cap's contract,  *)
(* so every theorem about Spec is one about it: refinement of the cap by    *)
(* the host that drives it.                                                *)
THEOREM KeepsContract == CapgenSpec => Spec
<1>1. CapgenInit => Init
  BY DEF CapgenInit
<1>2. HostInv /\ [CapgenNext]_vars => [Next]_cap_vars
  BY CapgenStep DEF HostInv
<1> QED
  BY <1>1, <1>2, HostInvariance, PTL DEF CapgenSpec, Spec

(* The initialization schemes of a group are never run again before its     *)
(* finalization schemes: the state check of ccpp_init, the early return     *)
(* after it and the early return ahead of ccpp_final (capgen_api.py) see to *)
(* it, for any groups and scheme calls.                                    *)
THEOREM OnlyOnce == CapgenSpec => []InitializedOnce
<1>1. ASSUME IInv, HostInv PROVE InitializedOnce
  <2> SUFFICES ASSUME NEW t \in Threads, AtScheme(t), errflg[t] = 0,
                      call[t].fn = "group_init", k[t] = 1
               PROVE  call[t].part \notin up
    BY DEF InitializedOnce
  <2>1. t = Thread /\ Inside(Thread)
    BY <1>1 DEF HostInv, Serial, AtScheme, Inside
  <2>2. /\ Within /\ api.name = "initialize" /\ Done \in DOMAIN GroupOrder
        /\ call[t].part = GroupOrder[Done]
    BY <1>1, <2>1, CurrentCall
  <2>3. Done > 0 /\ GroupOrder[Done] \notin GroupsDone(Done - 1)
    BY <2>2, OrderType, GroupsDoneSteps
  <2>4. up \subseteq GroupsDone(Done - 1)
    BY <1>1, <2>1, <2>2, <2>3 DEF HostInv, BringsUp
  <2> QED
    BY <2>2, <2>3, <2>4
<1> QED
  BY <1>1, HostInvariance, PTL

(* errcode tells the truth: when a wrapper returns zero, no call of it has  *)
(* failed, and initialize, finalize and run have done their work.           *)
THEOREM TellsTheTruth == CapgenSpec => []SuccessMeansDone
<1>1. ASSUME IInv, HostInv PROVE SuccessMeansDone
  <2> SUFFICES ASSUME Returning, errcode = 0
               PROVE  /\ ~raised
                      /\ api.name = "initialize" => suite_state[1] = "initialized" /\ up = Groups
                      /\ api.name = "finalize" => suite_state[1] = "uninitialized" /\ up = {}
                      /\ api.name = "run" => suite_state[1] = "in_time_step"
    BY DEF SuccessMeansDone
  <2>1. script = <<>> /\ Within
    BY <1>1 DEF Returning, HostInv, FailureEnds, Within
  <2>2. api \in Wrappers /\ Done = Len(Script(api))
    <3>1. Len(script) = 0
      BY <2>1
    <3> QED
      BY <1>1, <2>1, <3>1, Suffix
  <2>3. up \subseteq Groups /\ Len(GroupOrder) \in Nat
    BY <1>1, OrderType DEF HostInv, HostTypeOK
  <2>4. api.suite = ThisSuite
    <3>1. api.suite = OtherName => Done > 0
      <4>1. api.suite = OtherName => Len(Script(api)) \in {1, 2}
        BY <2>2, OtherScript
      <4> QED
        BY <2>2, <4>1
    <3> QED
      BY <1>1, <2>1, <2>2, <3>1 DEF HostInv, SuccessSoFar, Wrappers
  <2>5. ASSUME api.name = "initialize"
        PROVE  suite_state[1] = "initialized" /\ up = Groups
    <3>1. Done = 1 + Len(GroupOrder)
      BY <2>2, <2>4, <2>5, InitializeScript
    <3>2. Done > 0 /\ Done - 1 = Len(GroupOrder)
      BY <2>3, <3>1
    <3>3. GroupsDone(Done - 1) = Groups
      BY <2>3, <3>2, GroupsDoneSteps
    <3> QED
      BY <1>1, <2>1, <2>3, <2>5, <3>2, <3>3 DEF HostInv, BringsUp
  <2>6. ASSUME api.name = "finalize"
        PROVE  suite_state[1] = "uninitialized" /\ up = {}
    <3>1. Done = Len(GroupOrder) + 1
      BY <2>2, <2>4, <2>6, FinalizeScript
    <3>2. Done \in Nat /\ Done > Len(GroupOrder) /\ Done >= Len(GroupOrder)
      BY <2>3, <3>1
    <3>3. GroupsDone(Done) = Groups
      BY <3>2, GroupsDoneSteps
    <3> QED
      BY <1>1, <2>1, <2>3, <2>6, <3>2, <3>3 DEF HostInv, TakesDown
  <2>7. ASSUME api.name = "run"
        PROVE  suite_state[1] = "in_time_step"
    <3>1. Done = 1
      BY <2>2, <2>4, <2>7, SingleScript
    <3> QED
      BY <1>1, <2>1, <2>7, <3>1 DEF HostInv, RanInStep
  <2> QED
    BY <2>1, <2>5, <2>6, <2>7 DEF Within
<1> QED
  BY <1>1, HostInvariance, PTL
=============================================================================

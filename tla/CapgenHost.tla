----------------------------- MODULE CapgenHost -----------------------------
(***************************************************************************)
(* Original capgen's API over the suite cap: <host>_ccpp_physics_register,  *)
(* _initialize, _run and so on, each a script of calls of the host cap's    *)
(* entry points for every group of the suite, with an early return after    *)
(* most of them.  The host calls the wrappers one at a time but in any      *)
(* order, and goes on after a failure; it learns of one only from errcode,  *)
(* a variable of its own that every call overwrites.                       *)
(***************************************************************************)
EXTENDS SuiteCap, SequencesExt

CONSTANT GroupOrder   \* the groups in the order of the suite definition

ASSUME OrderAssumption == /\ GroupOrder \in Seq(Groups)
                          /\ Range(GroupOrder) = Groups
                          /\ \A g, h \in DOMAIN GroupOrder :
                               GroupOrder[g] = GroupOrder[h] => g = h
                          /\ Threads # {} /\ Instances = {1}

VARIABLES
  api,      \* the wrapper the host is in, with its arguments
  script,   \* the calls it has still to make, the current one first
  errcode,  \* the host's error code
  raised,   \* a call of this wrapper has failed
  up        \* the groups initialized and not finalized since

host_vars == <<api, script, errcode, raised, up>>
vars == <<cap_vars, host_vars>>

Thread == CHOOSE t \in Threads : TRUE
Outside == [name |-> "outside", suite |-> OtherName, part |-> OtherName]
APIs == {"register", "initialize", "timestep_initial", "run", "timestep_final", "finalize"}

HostCall(suite, fn, part) ==
  [suite |-> suite, fn |-> fn, part |-> part, inst |-> 1, blks |-> Blocks]

(* A step of a script: a call, and whether `if (errcode /= 0) return`       *)
(* follows it.  NoSuite is no call but the branch of a chain for the suites *)
(* it does not know.                                                       *)
NoSuite == HostCall(OtherName, "group_init", OtherName)
Step(c, guarded) == [call |-> c, guarded |-> guarded]

(* Faulty variant: nothing between the calls of two groups.                *)
ChainUnguarded(suite, fn) ==
  IF suite = ThisSuite
    THEN [g \in DOMAIN GroupOrder |-> Step(HostCall(suite, fn, GroupOrder[g]), FALSE)]
    ELSE <<Step(NoSuite, FALSE)>>

Chain(suite, fn) ==
  IF suite = ThisSuite
    THEN [g \in DOMAIN GroupOrder |-> Step(HostCall(suite, fn, GroupOrder[g]), TRUE)]
    ELSE <<Step(NoSuite, FALSE)>>

(* After the chain of finalize errcode is looked at once more.             *)
Guarded(steps) == [steps EXCEPT ![Len(steps)].guarded = TRUE]

(* Faulty variant: initialize goes on although ccpp_init has failed.        *)
InitializeUnguarded(suite) ==
  <<Step(HostCall(suite, "suite_initialize", SuitePart), FALSE)>> \o Chain(suite, "group_init")

Initialize(suite) ==
  <<Step(HostCall(suite, "suite_initialize", SuitePart), TRUE)>> \o Chain(suite, "group_init")
Finalize(suite) ==
  Guarded(Chain(suite, "group_final")) \o <<Step(HostCall(suite, "suite_finalize", SuitePart), FALSE)>>

Script(a) ==
  CASE a.name = "register" -> <<Step(HostCall(a.suite, "suite_register", SuitePart), FALSE)>>
    [] a.name = "initialize" -> Initialize(a.suite)
    [] a.name = "timestep_initial" -> Chain(a.suite, "timestep_init")
    [] a.name = "run" -> <<Step(HostCall(a.suite, "run", a.part), FALSE)>>
    [] a.name = "timestep_final" -> Chain(a.suite, "timestep_final")
    [] a.name = "finalize" -> Finalize(a.suite)
-----------------------------------------------------------------------------
CapgenInit ==
  /\ Init
  /\ api = Outside
  /\ script = <<>>
  /\ errcode = 0
  /\ raised = FALSE
  /\ up = {}

EnterWrapper(a) ==
  /\ api = Outside
  /\ api' = a
  /\ script' = Script(a)
  /\ raised' = FALSE
  /\ UNCHANGED <<cap_vars, errcode, up>>

BeginCall ==
  /\ script # <<>>
  /\ script[1].call # NoSuite
  /\ Dispatch(Thread, script[1].call) \/ Miss(Thread, script[1].call)
  /\ UNCHANGED host_vars

(* The first scheme call of a group's initialization brings the group up,   *)
(* or its return if it has none.                                           *)
Proceed ==
  /\ Inner(Thread)
  /\ up' = IF AtScheme(Thread) /\ errflg[Thread] = 0 /\ call[Thread].fn = "group_init"
             THEN up \cup {call[Thread].part} ELSE up
  /\ UNCHANGED <<api, script, errcode, raised>>

Early(code) == IF script[1].guarded /\ code # 0 THEN <<>> ELSE Tail(script)

(* errcode is the actual argument of errflg.                               *)
EndCall ==
  /\ Return(Thread)
  /\ errcode' = errflg[Thread]
  /\ raised' = (raised \/ errflg[Thread] # 0)
  /\ script' = Early(errflg[Thread])
  /\ up' = CASE call[Thread].fn = "group_init" /\ errflg[Thread] = 0 -> up \cup {call[Thread].part}
             [] call[Thread].fn = "group_final" /\ errflg[Thread] = 0 -> up \ {call[Thread].part}
             [] OTHER -> up
  /\ UNCHANGED api

UnknownSuite ==
  /\ script # <<>>
  /\ script[1].call = NoSuite
  /\ errcode' = 1
  /\ raised' = TRUE
  /\ script' = Early(1)
  /\ UNCHANGED <<cap_vars, api, up>>

LeaveWrapper ==
  /\ api # Outside
  /\ script = <<>>
  /\ api' = Outside
  /\ UNCHANGED <<cap_vars, script, errcode, raised, up>>

CapgenNext ==
  \/ \E name \in APIs, suite \in {ThisSuite, OtherName}, part \in Groups \cup {OtherName} :
       EnterWrapper([name |-> name, suite |-> suite, part |-> part])
  \/ BeginCall \/ Proceed \/ EndCall \/ UnknownSuite \/ LeaveWrapper

CapgenSpec == CapgenInit /\ [][CapgenNext]_vars
-----------------------------------------------------------------------------
Returning == api # Outside /\ script = <<>>

(* In whatever order the host calls the wrappers and whatever fails, the    *)
(* schemes of a group that have been initialized are finalized before they  *)
(* are initialized again: initialize relies on the state check of ccpp_init *)
(* and on the early return after it, finalize keeps the state by returning  *)
(* before ccpp_final.                                                      *)
InitializedOnce ==
  \A t \in Threads :
    /\ AtScheme(t) /\ errflg[t] = 0 /\ call[t].fn = "group_init" /\ k[t] = 1
    => call[t].part \notin up

(* A zero errcode means that no call of the wrapper failed, although every  *)
(* call sets errcode anew, and that the work is done: after initialize that *)
(* the suite and each of its groups are initialized, after finalize that    *)
(* none is, after run that the suite is in a time step.                    *)
SuccessMeansDone ==
  Returning /\ errcode = 0 =>
    /\ ~raised
    /\ CASE api.name = "initialize" -> suite_state[1] = "initialized" /\ up = Groups
         [] api.name = "finalize" -> suite_state[1] = "uninitialized" /\ up = {}
         [] api.name = "run" -> suite_state[1] = "in_time_step"
         [] OTHER -> TRUE

(***************************************************************************)
(* The inductive invariant behind them (see CapgenHostProofs), part by      *)
(* part.  It is used together with IInv of the suite cap.                   *)
(***************************************************************************)
Wrappers == [name : APIs, suite : {ThisSuite, OtherName}, part : Groups \cup {OtherName}]
Steps == [call : Calls, guarded : BOOLEAN]

HostTypeOK ==
  /\ api \in Wrappers \cup {Outside}
  /\ script \in Seq(Steps)
  /\ errcode \in {0, 1}
  /\ raised \in BOOLEAN
  /\ up \subseteq Groups

(* The other threads never enter the cap.                                   *)
Serial == \A t \in Threads \ {Thread} : pc[t] = "idle"

(* The script is what is left of the wrapper's: the last of its steps.      *)
Within == api # Outside /\ ~raised
Done == Len(Script(api)) - Len(script)
ScriptLeft ==
  /\ api = Outside => script = <<>>
  /\ Within => /\ Len(script) <= Len(Script(api))
               /\ \A i \in DOMAIN script : script[i] = Script(api)[Done + i]

(* A failed call ends the wrapper at once, whichever it was.                *)
FailureEnds == api # Outside /\ raised => script = <<>> /\ errcode = 1
SuccessSoFar == Within /\ Done > 0 => errcode = 0 /\ api.suite = ThisSuite

(* The call the thread is in is the next of the script.                     *)
InCall ==
  /\ pc[Thread] # "idle" => Within /\ script # <<>> /\ script[1].call # NoSuite
  /\ Inside(Thread) => call[Thread] = script[1].call
  /\ ~Inside(Thread) => call[Thread] = NoCall
  /\ pc[Thread] = "miss" => errflg[Thread] = 1
  /\ pc[Thread] = "alloc" => k[Thread] = 0
  /\ pc[Thread] = "set" => k[Thread] # 0

(* Groups are up only while the suite is initialized.                       *)
Unallocated == StateArray \notin allocated => suite_state[1] = "undefined"
UpNeedsState == up # {} => suite_state[1] \in {"initialized", "in_time_step"}

(* initialize has brought up the groups it has done, and at most the one it *)
(* is at; finalize has none up of those it has done.                        *)
GroupsDone(n) == {GroupOrder[i] : i \in {j \in DOMAIN GroupOrder : j <= n}}
BringsUp ==
  Within /\ api.name = "initialize" /\ Done > 0 =>
    /\ suite_state[1] = "initialized"
    /\ GroupsDone(Done - 1) \subseteq up
    /\ up \subseteq GroupsDone(IF Inside(Thread) /\ k[Thread] > 1 THEN Done ELSE Done - 1)
TakesDown ==
  Within /\ api.name = "finalize" =>
    /\ up \cap GroupsDone(Done) = {}
    /\ Done > Len(GroupOrder) => suite_state[1] = "uninitialized"
RanInStep == Within /\ api.name = "run" /\ Done > 0 => suite_state[1] = "in_time_step"

HostInv == /\ HostTypeOK /\ Serial /\ ScriptLeft /\ FailureEnds /\ SuccessSoFar
           /\ InCall /\ Unallocated /\ UpNeedsState /\ BringsUp /\ TakesDown /\ RanInStep
=============================================================================

------------------------- MODULE ConstituentsProofs -------------------------
(***************************************************************************)
(* Theorems about Constituents: what was published stays live, a           *)
(* registration fails only for its three reasons and knows all it was      *)
(* given, the ways to an index agree and implement the abstract map, and   *)
(* schemes find their own indices, for any instances, names, hash, lists   *)
(* of constituents and order of the calls.                                 *)
(***************************************************************************)
EXTENDS Constituents, HashTableProofs

(***************************************************************************)
(* The inductive invariant, part by part.                                  *)
(***************************************************************************)
TableEntry ==
  {e \in [name : Names, prop : Constituent, ind : Nat] : e.name = e.prop.name}
Objects == [table : Tables(TableEntry), table_locked : BOOLEAN, data_locked : BOOLEAN,
            const_metadata : Seq(Names \cup {None}), vars_layer : BOOLEAN,
            num_advected : Nat]
Loop == {"add", "count", "assign", "publish"}
CallStates == [pc : {"idle", "ok", "failed"} \cup Loop, inst : Instances \cup {0},
               args : Seq(Constituent), k : Nat, it : Iterators,
               index_advect : Nat, index_const : Nat]
UnderWay == call.pc \in Loop

Typed ==
  /\ obj \in [Instances -> Objects]
  /\ dyn \in [Instances -> DynChoices \cup {<<>>}]
  /\ call \in CallStates
  /\ \A i \in Instances : IsInitialized(obj[i].table) => WellFormed(obj[i].table)

(* A registration under way has a table, nothing of which is locked.        *)
Begun ==
  UnderWay =>
    /\ call.inst \in Instances /\ IsInitialized(Obj.table)
    /\ \A j \in DOMAIN Fixed : \E l \in DOMAIN call.args : call.args[l] = Fixed[j]
    /\ Obj.table_locked = (call.pc = "publish")
    /\ call.pc # "add" => ~Obj.data_locked
    /\ call.pc = "add" => call.k \in 1 .. Len(call.args) + 1 /\ (Obj.data_locked => call.k = 1)

(* What the table holds is what the registration was given so far, of each  *)
(* name the first that was given, and all others of that name match it.     *)
Taken == IF call.pc = "add" THEN call.k - 1 ELSE Len(call.args)
Faithful ==
  UnderWay =>
    /\ \A j \in 1 .. Taken :
         /\ \E p \in Places(Obj.table) : At(Obj.table, p).name = call.args[j].name
         /\ IsMatch(call.args[FirstNamed(call.args, call.args[j].name)], call.args[j])
    /\ \A p \in Places(Obj.table) :
         /\ FirstNamed(call.args, At(Obj.table, p).name) \in 1 .. Taken
         /\ At(Obj.table, p).prop = call.args[FirstNamed(call.args, At(Obj.table, p).name)]
         /\ call.pc \in {"add", "count"} => At(Obj.table, p).ind = Unassigned

Adv(t, S) == {p \in S : At(t, p).prop.adv}

(* The advected entries gone past have been counted.                        *)
Counting ==
  call.pc = "count" =>
    /\ OnTable(Obj.table, call.it)
    /\ Obj.num_advected = Cardinality(Adv(Obj.table, Seen(Obj.table, call.it)))
    /\ Len(Obj.const_metadata) = Obj.table.num_keys

(* Each entry of S has an index, up to a if advected, above the number of   *)
(* the advected and up to c if not, and all these indices are given.        *)
Indexed(o, S, a, c) ==
  /\ o.num_advected = Cardinality(Adv(o.table, Places(o.table)))
  /\ Len(o.const_metadata) = o.table.num_keys
  /\ \A p \in S :
       LET e == At(o.table, p) IN
       /\ e.prop.layer
       /\ IF e.prop.adv THEN e.ind \in 1 .. a ELSE e.ind \in o.num_advected + 1 .. c
       /\ o.const_metadata[e.ind] = e.name
  /\ \A x \in (1 .. a) \cup (o.num_advected + 1 .. c) :
       \E p \in S : At(o.table, p).ind = x

Assigning ==
  call.pc = "assign" =>
    LET t == Obj.table
        S == Seen(t, call.it) IN
    /\ OnTable(t, call.it)
    /\ call.index_advect = Cardinality(Adv(t, S))
    /\ call.index_const = Obj.num_advected + Cardinality(S \ Adv(t, S))
    /\ Indexed(Obj, S, call.index_advect, call.index_const)
    /\ \A p \in Places(t) \ S : At(t, p).ind = Unassigned

(* A locked table is not empty, and is indexed from end to end.             *)
Indexes(o) == Indexed(o, Places(o.table), o.num_advected, o.table.num_keys)
LockedIndexed ==
  \A i \in Instances :
    PropsLocked(obj[i]) => Places(obj[i].table) # {} /\ Indexes(obj[i])

(* The cap holds what belongs to the object.                                *)
FixedNames == {Fixed[j].name : j \in DOMAIN Fixed}
CapsAgree ==
  /\ DOMAIN cap = Instances
  /\ \A i \in Instances :
       /\ DOMAIN cap[i] = {"all", "props", "props_live", "array", "views", "indices"}
       /\ DOMAIN cap[i].indices = FixedNames
       /\ Published(i) => \A n \in FixedNames : cap[i].indices[n] = ConstIndex(obj[i], n)
       /\ Locked(obj[i]) => \A k \in DOMAIN cap[i].views :
                              cap[i].views[k] = ConstIndex(obj[i], Views[k])

Verdict ==
  /\ call.pc \in {"ok", "failed"} => call.inst \in Instances
  /\ RegistrationVerdict

RegInv == /\ Typed /\ Begun /\ Faithful /\ Counting /\ Assigning
          /\ LockedIndexed /\ CapsAgree /\ PublishedLive /\ Verdict

-----------------------------------------------------------------------------
(* Entries of the table have a name among Names.                           *)
LEMMA EntriesNamed == Entries(TableEntry)
BY DEF Entries, TableEntry

(* FirstNamed finds the first constituent of a name.                       *)
LEMMA FirstNamedIs ==
  ASSUME NEW args \in Seq(Constituent), NEW k \in 1 .. Len(args)
  PROVE  LET f == FirstNamed(args, args[k].name) IN
         /\ f \in 1 .. Len(args) /\ f <= k /\ args[f].name = args[k].name
         /\ \A l \in 1 .. Len(args) : args[l].name = args[k].name => f <= l
<1> DEFINE S == {l \in DOMAIN args : args[l].name = args[k].name}
<1>1. DOMAIN args = 1 .. Len(args) /\ Len(args) \in Nat
  OBVIOUS
<1>2. S \subseteq Nat /\ k \in S
  BY <1>1
<1>3. FirstOf(S) \in S /\ \A l \in S : FirstOf(S) <= l
  BY <1>2, FirstOfIsLeast
<1> QED
  BY <1>1, <1>2, <1>3 DEF FirstNamed

(* The parts of the invariant that are about objects and caps only: what a *)
(* step of a registration that leaves its own object unlocked keeps.       *)
LEMMA UnlockedStep ==
  ASSUME RegInv, NEW i \in Instances, i = call.inst,
         UnderWay, call.pc # "publish",
         NEW o \in Objects, obj' = [obj EXCEPT ![i] = o],
         IsInitialized(o.table), WellFormed(o.table), ~PropsLocked(o),
         UNCHANGED <<dyn, cap>>,
         call' \in CallStates, call'.pc = "publish" => call'.inst = i
  PROVE  Typed' /\ LockedIndexed' /\ CapsAgree' /\ PublishedLive'
<1>1. obj \in [Instances -> Objects]
  BY DEF RegInv, Typed
<1>2. /\ obj' \in [Instances -> Objects]
      /\ obj'[i] = o
      /\ \A j \in Instances : j # i => obj'[j] = obj[j]
  BY <1>1
<1>3. Typed'
  <2>1. \A j \in Instances : IsInitialized(obj'[j].table) => WellFormed(obj'[j].table)
    BY <1>2 DEF RegInv, Typed
  <2> QED
    BY <2>1, <1>2 DEF RegInv, Typed
<1>4. LockedIndexed'
  BY <1>2 DEF RegInv, LockedIndexed
<1>5. ~Published(i)' /\ ~Locked(obj[i])'
  BY <1>2 DEF Published, Locked
<1>6. ASSUME NEW j \in Instances, j # i
      PROVE  /\ Published(j)' <=> Published(j)
             /\ obj'[j] = obj[j] /\ cap'[j] = cap[j]
  BY <1>2, <1>6 DEF Published
<1>7. CapsAgree'
  <2> SUFFICES ASSUME NEW j \in Instances
               PROVE  /\ DOMAIN cap[j] = {"all", "props", "props_live", "array", "views", "indices"}
                      /\ DOMAIN cap[j].indices = FixedNames
                      /\ Published(j)' => \A n \in FixedNames :
                           cap[j].indices[n] = ConstIndex(obj'[j], n)
                      /\ Locked(obj'[j]) => \A k \in DOMAIN cap[j].views :
                           cap[j].views[k] = ConstIndex(obj'[j], Views[k])
    BY DEF RegInv, CapsAgree
  <2>1. CASE j = i
    BY <2>1, <1>5 DEF RegInv, CapsAgree
  <2>2. CASE j # i
    BY <2>2, <1>6 DEF RegInv, CapsAgree
  <2> QED
    BY <2>1, <2>2
<1>8. PublishedLive'
  <2> SUFFICES ASSUME NEW j \in Instances
               PROVE  /\ Published(j)' => cap[j].props_live /\ cap[j].props = obj'[j].const_metadata
                      /\ Locked(obj'[j]) => cap[j].array = "live" /\ obj'[j].vars_layer
                      /\ ~IsInitialized(obj'[j].table) => cap[j].props = <<>> /\ cap[j].array = "null"
    BY DEF PublishedLive
  <2>1. CASE j = i
    BY <2>1, <1>2, <1>5
  <2>2. CASE j # i
    BY <2>2, <1>6 DEF RegInv, PublishedLive
  <2> QED
    BY <2>1, <2>2
<1> QED
  BY <1>3, <1>4, <1>7, <1>8

(* The object of a registration under way, and what is known of it.        *)
LEMMA ObjectUnderWay ==
  ASSUME RegInv, UnderWay
  PROVE  /\ call.inst \in Instances /\ Obj = obj[call.inst] /\ Obj \in Objects
         /\ IsInitialized(Obj.table) /\ WellFormed(Obj.table)
         /\ Obj.table \in Tables(TableEntry)
         /\ call \in CallStates /\ call.args \in Seq(Constituent)
         /\ Len(call.args) \in Nat /\ DOMAIN call.args = 1 .. Len(call.args)
<1>1. call.inst \in Instances /\ IsInitialized(Obj.table)
  BY DEF RegInv, Begun
<1>2. Obj = obj[call.inst] /\ Obj \in Objects /\ WellFormed(Obj.table)
  BY <1>1 DEF RegInv, Typed, Obj
<1>3. Obj.table \in Tables(TableEntry)
  BY <1>2 DEF Objects
<1>4. call \in CallStates
  BY DEF RegInv, Typed
<1>5. call.args \in Seq(Constituent)
  BY <1>4 DEF CallStates
<1> QED
  BY <1>1, <1>2, <1>3, <1>4, <1>5

(* What a registration knows after its next constituent is in the table.   *)
LEMMA AddOneKeeps ==
  ASSUME RegInv, AddOne
  PROVE  RegInv'
<1> DEFINE args == call.args
           k == call.k
           t == Obj.table
           c == args[k]
<1>1. UnderWay /\ call.pc = "add" /\ k <= Len(args)
  BY DEF AddOne, Adding, UnderWay, Loop
<1>2. PICK i \in Instances : i = call.inst
  BY <1>1, ObjectUnderWay
<1>3. /\ Obj = obj[i] /\ Obj \in Objects /\ WellFormed(t) /\ t \in Tables(TableEntry)
      /\ IsInitialized(t) /\ args \in Seq(Constituent) /\ call \in CallStates
      /\ Len(args) \in Nat /\ DOMAIN args = 1 .. Len(args)
  BY <1>1, <1>2, ObjectUnderWay
<1>4. k \in 1 .. Len(args) /\ c = Arg /\ c \in Constituent
  BY <1>1, <1>3 DEF RegInv, Begun, Arg
<1>5. ~Obj.table_locked /\ ~Obj.data_locked /\ ~PropsLocked(Obj) /\ ~Incompatible(Obj, c)
  BY <1>1, <1>3, <1>4 DEF AddOne, NewFieldFails, OkayToAdd, PropsLocked, DataLocked
<1> DEFINE e == Entry(c)
           u == AddHashKey(t, e)
           o == NewField(Obj, c)
<1>6. e \in TableEntry /\ e.name = c.name /\ e.prop = c /\ e.ind = 0 /\ c.name \in Names
  BY <1>4, ConstituentAssumption DEF Entry, TableEntry, Unassigned
<1>7. /\ obj' = [obj EXCEPT ![i] = o]
      /\ call' = [call EXCEPT !.k = k + 1] /\ UNCHANGED <<dyn, cap>>
  BY <1>2, <1>4 DEF AddOne, SetObj
<1>8. o.table = u /\ ~o.table_locked /\ ~o.data_locked /\ ~PropsLocked(o)
  BY <1>3, <1>5 DEF NewField, Objects, PropsLocked
<1>9. \A n \in Names : HasKey(t, n) <=> \E p \in Places(t) : At(t, p).name = n
  BY <1>3, Lookup, EntriesNamed
<1>10. \A p \in Places(t) : /\ At(t, p) \in TableEntry /\ At(t, p).name \in Names
                            /\ TableValue(t, At(t, p).name) = At(t, p)
  BY <1>3, Lookup, InPlaces, EntriesNamed
(* What is in the table now: what was in it, and c if its name was not.    *)
<1>11. /\ u \in Tables(TableEntry) /\ WellFormed(u)
       /\ \A p \in Places(t) : p \in Places(u) /\ At(u, p) = At(t, p)
       /\ \A p \in Places(u) : p \in Places(t) \/ (At(u, p) = e /\ ~HasKey(t, c.name))
       /\ \E p \in Places(u) : At(u, p).name = c.name
  <2>1. CASE HasKey(t, c.name)
    <3>1. u = t
      BY <2>1, <1>6 DEF AddHashKey
    <3> QED
      BY <2>1, <3>1, <1>3, <1>6, <1>9
  <2>2. CASE ~HasKey(t, c.name)
    <3> DEFINE q == <<KeyHash(t, e.name), Len(t.chain[KeyHash(t, e.name)]) + 1>>
    <3> HIDE DEF t, e
    <3>1. /\ u \in Tables(TableEntry) /\ WellFormed(u)
          /\ Places(u) = Places(t) \cup {q} /\ At(u, q) = e
          /\ \A p \in Places(t) : At(u, p) = At(t, p)
      BY <2>2, <1>3, <1>6, AddIs, EntriesNamed
    <3> HIDE DEF q, u
    <3> QED
      BY <3>1, <2>2, <1>6
  <2> QED
    BY <2>1, <2>2
<1>12. o \in Objects
  BY <1>3, <1>11 DEF NewField, Objects
<1>13. u.chain # <<>>
  BY <1>11 DEF WellFormed
<1>14. IsInitialized(o.table) /\ WellFormed(o.table)
  BY <1>8, <1>11, <1>13 DEF IsInitialized, NoTable
<1>15. /\ call' \in CallStates /\ call'.pc = "add" /\ call'.inst = i
       /\ call'.args = args /\ call'.k = k + 1
  BY <1>1, <1>2, <1>3, <1>4, <1>7 DEF CallStates
<1>16. Typed' /\ LockedIndexed' /\ CapsAgree' /\ PublishedLive'
  <2> HIDE DEF o
  <2> QED
    BY <1>1, <1>2, <1>7, <1>8, <1>12, <1>14, <1>15, UnlockedStep
<1>17. Obj' = o
  BY <1>3, <1>7, <1>15 DEF Obj, RegInv, Typed
<1>18. Begun'
  <2>1. \A j \in DOMAIN Fixed : \E l \in DOMAIN args : args[l] = Fixed[j]
    BY <1>1 DEF RegInv, Begun
  <2> HIDE DEF o, u, args, k
  <2>2. k + 1 \in 1 .. Len(args) + 1
    BY <1>3, <1>4
  <2>3. o.table_locked = FALSE /\ o.data_locked = FALSE
    BY <1>8, <1>12 DEF Objects
  <2> QED
    BY <2>1, <2>2, <2>3, <1>14, <1>15, <1>17 DEF Begun, UnderWay
<1>19. Taken = k - 1 /\ Taken' = k
  BY <1>1, <1>3, <1>4, <1>15 DEF Taken
<1>20. \A j \in 1 .. k - 1 :
         /\ \E p \in Places(t) : At(t, p).name = args[j].name
         /\ IsMatch(args[FirstNamed(args, args[j].name)], args[j])
  BY <1>1, <1>19 DEF RegInv, Faithful
<1>21. \A p \in Places(t) :
         /\ FirstNamed(args, At(t, p).name) \in 1 .. k - 1
         /\ At(t, p).prop = args[FirstNamed(args, At(t, p).name)]
         /\ At(t, p).ind = Unassigned
  BY <1>1, <1>19 DEF RegInv, Faithful
<1> DEFINE f == FirstNamed(args, c.name)
<1>22. f \in 1 .. Len(args) /\ f <= k /\ args[f].name = c.name
  BY <1>3, <1>4, FirstNamedIs
<1>23. ~HasKey(t, c.name) => f = k
  <2> SUFFICES ASSUME f # k PROVE HasKey(t, c.name)
    OBVIOUS
  <2>1. f \in 1 .. k - 1
    BY <1>3, <1>4, <1>22
  <2>2. \E p \in Places(t) : At(t, p).name = c.name
    BY <2>1, <1>20, <1>22
  <2> QED
    BY <2>2, <1>6, <1>9
<1>24. IsMatch(args[f], c)
  <2>1. CASE HasKey(t, c.name)
    <3>1. PICK p \in Places(t) : At(t, p).name = c.name
      BY <2>1, <1>6, <1>9
    <3>2. FindConst(Obj, c.name).prop = args[f]
      BY <3>1, <1>10, <1>21 DEF FindConst
    <3> QED
      BY <2>1, <3>2, <1>5 DEF Incompatible
  <2>2. CASE ~HasKey(t, c.name)
    BY <2>2, <1>23 DEF IsMatch
  <2> QED
    BY <2>1, <2>2
<1>25. Faithful'
  <2>1. \A j \in 1 .. k : /\ \E p \in Places(u) : At(u, p).name = args[j].name
                          /\ IsMatch(args[FirstNamed(args, args[j].name)], args[j])
    <3> SUFFICES ASSUME NEW j \in 1 .. k
                 PROVE  /\ \E p \in Places(u) : At(u, p).name = args[j].name
                        /\ IsMatch(args[FirstNamed(args, args[j].name)], args[j])
      OBVIOUS
    <3> HIDE DEF u, t, e
    <3>1. CASE j = k
      BY <3>1, <1>11, <1>24
    <3>2. CASE j # k
      <4>1. j \in 1 .. k - 1
        BY <3>2, <1>3, <1>4
      <4> QED
        BY <4>1, <1>11, <1>20
    <3> QED
      BY <3>1, <3>2
  <2>2. \A p \in Places(u) :
          /\ FirstNamed(args, At(u, p).name) \in 1 .. k
          /\ At(u, p).prop = args[FirstNamed(args, At(u, p).name)]
          /\ At(u, p).ind = Unassigned
    <3> SUFFICES ASSUME NEW p \in Places(u)
                 PROVE  /\ FirstNamed(args, At(u, p).name) \in 1 .. k
                        /\ At(u, p).prop = args[FirstNamed(args, At(u, p).name)]
                        /\ At(u, p).ind = Unassigned
      OBVIOUS
    <3>1. CASE p \in Places(t)
      <4>1. At(u, p) = At(t, p)
        BY <3>1, <1>11
      <4> HIDE DEF u, t, e
      <4> QED
        BY <3>1, <4>1, <1>21, <1>3, <1>4
    <3>2. CASE p \notin Places(t)
      <4>1. At(u, p) = e /\ f = k
        BY <3>2, <1>11, <1>23
      <4> HIDE DEF u, t, e
      <4> QED
        BY <4>1, <1>3, <1>4, <1>6 DEF Unassigned
    <3> QED
      BY <3>1, <3>2
  <2> HIDE DEF u, t, e, o, args, k
  <2> QED
    BY <2>1, <2>2, <1>8, <1>15, <1>17, <1>19 DEF Faithful
<1>26. Counting' /\ Assigning' /\ Verdict'
  BY <1>15 DEF Counting, Assigning, Verdict, RegistrationVerdict
<1> QED
  BY <1>16, <1>18, <1>25, <1>26 DEF RegInv

(* A constituent that is refused ends the registration, for one of the     *)
(* three reasons.                                                          *)
LEMMA AddFailsKeeps ==
  ASSUME RegInv, AddFails
  PROVE  RegInv'
<1> DEFINE args == call.args
           k == call.k
           t == Obj.table
           c == args[k]
<1>1. UnderWay /\ call.pc = "add" /\ k <= Len(args)
  BY DEF AddFails, Adding, UnderWay, Loop
<1>2. PICK i \in Instances : i = call.inst
  BY <1>1, ObjectUnderWay
<1>3. /\ Obj = obj[i] /\ Obj \in Objects /\ WellFormed(t) /\ t \in Tables(TableEntry)
      /\ IsInitialized(t) /\ args \in Seq(Constituent) /\ call \in CallStates
      /\ Len(args) \in Nat /\ DOMAIN args = 1 .. Len(args)
  BY <1>1, <1>2, ObjectUnderWay
<1>4. k \in 1 .. Len(args) /\ c = Arg /\ c \in Constituent /\ c.name \in Names
  BY <1>1, <1>3, ConstituentAssumption DEF RegInv, Begun, Arg
<1>5. ~Obj.table_locked /\ ~PropsLocked(Obj)
  BY <1>1 DEF RegInv, Begun, PropsLocked
<1>6. UNCHANGED <<dyn, obj, cap>> /\ Fail
  BY DEF AddFails
<1>7. /\ call' \in CallStates /\ call'.pc = "failed" /\ call'.inst = i
      /\ call'.args = args
  <2>1. call' = [NoCall EXCEPT !.pc = "failed", !.inst = call.inst, !.args = call.args]
    BY <1>6 DEF Fail, Return
  <2> QED
    BY <2>1, <1>2, <1>3 DEF NoCall, CallStates, Iterators, AtEnd
<1>8. Typed' /\ LockedIndexed' /\ CapsAgree' /\ PublishedLive'
  <2>1. obj' = [obj EXCEPT ![i] = Obj]
    BY <1>3, <1>6 DEF RegInv, Typed
  <2> QED
    BY <2>1, <1>1, <1>2, <1>3, <1>5, <1>6, <1>7, UnlockedStep
<1>9. Conflict(args) \/ Obj.data_locked
  <2>1. CASE ~OkayToAdd(Obj)
    BY <2>1, <1>3, <1>5 DEF OkayToAdd, DataLocked
  <2>2. CASE Incompatible(Obj, c)
    <3>1. PICK p \in Places(t) : At(t, p).name = c.name
      BY <2>2, <1>3, <1>4, Lookup, EntriesNamed DEF Incompatible
    <3>2. FindConst(Obj, c.name) = At(t, p)
      BY <3>1, <1>3, Lookup, EntriesNamed DEF FindConst
    <3>3. At(t, p).prop = args[FirstNamed(args, c.name)]
      BY <3>1, <1>1 DEF RegInv, Faithful
    <3>4. ~IsMatch(args[FirstNamed(args, args[k].name)], args[k])
      BY <2>2, <3>2, <3>3 DEF Incompatible
    <3> QED
      BY <3>4, <1>3, <1>4 DEF Conflict
  <2> QED
    BY <2>1, <2>2, <1>4 DEF AddFails, NewFieldFails
<1>10. Verdict'
  <2>1. Obj' = Obj
    BY <1>2, <1>6, <1>7 DEF Obj
  <2> QED
    BY <2>1, <1>7, <1>9 DEF Verdict, RegistrationVerdict
<1>11. Begun' /\ Faithful' /\ Counting' /\ Assigning'
  BY <1>7 DEF Begun, Faithful, Counting, Assigning, UnderWay, Loop
<1> QED
  BY <1>8, <1>10, <1>11 DEF RegInv

(* Once all constituents are added, nothing is locked and the table is not *)
(* empty.                                                                  *)
LEMMA AllAdded ==
  ASSUME RegInv, UnderWay, call.pc = "add" => call.k > Len(call.args)
  PROVE  /\ Taken = Len(call.args) /\ ~Obj.data_locked /\ Places(Obj.table) # {}
         /\ \A j \in 1 .. Len(call.args) :
              \E p \in Places(Obj.table) : At(Obj.table, p).name = call.args[j].name
<1>1. Len(call.args) \in Nat /\ DOMAIN call.args = 1 .. Len(call.args)
  BY ObjectUnderWay
<1>2. 1 \in DOMAIN Fixed
  BY ConstituentAssumption
<1>3. PICK l \in 1 .. Len(call.args) : call.args[l] = Fixed[1]
  BY <1>1, <1>2 DEF RegInv, Begun
<1>4. call.pc = "add" => call.k = Len(call.args) + 1
  BY <1>1 DEF RegInv, Begun
<1>5. Taken = Len(call.args)
  BY <1>1, <1>4 DEF Taken
<1>6. \A j \in 1 .. Len(call.args) :
        \E p \in Places(Obj.table) : At(Obj.table, p).name = call.args[j].name
  BY <1>5 DEF RegInv, Faithful
<1>7. ~Obj.data_locked
  BY <1>1, <1>3, <1>4 DEF RegInv, Begun
<1> QED
  BY <1>3, <1>5, <1>6, <1>7

(* What a step of lock_table keeps that leaves the entries of the table    *)
(* their names and properties and does not lock it.                        *)
LEMMA SameTableStep ==
  ASSUME RegInv, NEW i \in Instances, i = call.inst,
         UnderWay, call.pc = "add" => call.k > Len(call.args), call.pc # "publish",
         NEW o \in Objects, obj' = [obj EXCEPT ![i] = o],
         WellFormed(o.table), ~o.table_locked, ~o.data_locked,
         Places(o.table) = Places(Obj.table),
         \A p \in Places(Obj.table) :
           /\ At(o.table, p).name = At(Obj.table, p).name
           /\ At(o.table, p).prop = At(Obj.table, p).prop
           /\ call'.pc = "count" => At(o.table, p).ind = At(Obj.table, p).ind,
         call'.pc = "count" => call.pc \in {"add", "count"},
         UNCHANGED <<dyn, cap>>,
         call' \in CallStates, call'.pc \in {"count", "assign"},
         call'.inst = i, call'.args = call.args
  PROVE  /\ Typed' /\ Begun' /\ Faithful' /\ LockedIndexed' /\ CapsAgree'
         /\ PublishedLive' /\ Verdict' /\ Obj' = o
<1>1. Obj' = o
  BY DEF Obj, RegInv, Typed
<1>2. o.table.chain # <<>>
  BY DEF WellFormed
<1>3. IsInitialized(o.table) /\ ~PropsLocked(o)
  BY <1>2 DEF IsInitialized, NoTable, PropsLocked
<1>4. Typed' /\ LockedIndexed' /\ CapsAgree' /\ PublishedLive'
  BY <1>3, UnlockedStep
<1>5. Begun'
  <2>1. \A j \in DOMAIN Fixed : \E l \in DOMAIN call.args : call.args[l] = Fixed[j]
    BY DEF RegInv, Begun
  <2>2. o.table_locked = FALSE /\ o.data_locked = FALSE
    BY DEF Objects
  <2> QED
    BY <2>1, <2>2, <1>1, <1>3 DEF Begun
<1>6. Taken = Len(call.args) /\ Taken' = Len(call.args)
  BY AllAdded DEF Taken
<1>7. Faithful'
  <2>1. \A j \in 1 .. Len(call.args) :
          /\ \E p \in Places(o.table) : At(o.table, p).name = call.args[j].name
          /\ IsMatch(call.args[FirstNamed(call.args, call.args[j].name)], call.args[j])
    <3> SUFFICES ASSUME NEW j \in 1 .. Len(call.args)
                 PROVE  /\ \E p \in Places(o.table) : At(o.table, p).name = call.args[j].name
                        /\ IsMatch(call.args[FirstNamed(call.args, call.args[j].name)], call.args[j])
      OBVIOUS
    <3>1. PICK p \in Places(Obj.table) : At(Obj.table, p).name = call.args[j].name
      BY AllAdded
    <3>2. IsMatch(call.args[FirstNamed(call.args, call.args[j].name)], call.args[j])
      BY <1>6 DEF RegInv, Faithful
    <3> QED
      BY <3>1, <3>2
  <2>2. ASSUME NEW p \in Places(o.table)
        PROVE  /\ FirstNamed(call.args, At(o.table, p).name) \in 1 .. Len(call.args)
               /\ At(o.table, p).prop
                    = call.args[FirstNamed(call.args, At(o.table, p).name)]
               /\ call'.pc \in {"add", "count"} => At(o.table, p).ind = Unassigned
    BY <2>2, <1>6 DEF RegInv, Faithful
  <2> QED
    BY <2>1, <2>2, <1>1, <1>6 DEF Faithful
<1>8. Verdict'
  BY DEF Verdict, RegistrationVerdict
<1> QED
  BY <1>1, <1>4, <1>5, <1>7, <1>8

(* lock_table begins.                                                      *)
LEMMA LockTableKeeps ==
  ASSUME RegInv, LockTable
  PROVE  RegInv'
<1> DEFINE t == Obj.table
           n == t.num_keys
           m == [k \in 1 .. n |-> None]
           o == [ResetArrays(Obj) EXCEPT !.num_advected = 0, !.const_metadata = m]
<1>1. UnderWay /\ call.pc = "add" /\ call.k > Len(call.args)
  BY DEF LockTable, UnderWay, Loop
<1>2. PICK i \in Instances : i = call.inst
  BY <1>1, ObjectUnderWay
<1>3. /\ Obj = obj[i] /\ Obj \in Objects /\ WellFormed(t) /\ t \in Tables(TableEntry)
      /\ call \in CallStates
  BY <1>1, <1>2, ObjectUnderWay
<1>4. /\ obj' = [obj EXCEPT ![i] = o]
      /\ call' = [call EXCEPT !.pc = "count", !.it = IterStart(t)]
      /\ UNCHANGED <<dyn, cap>>
  BY <1>2 DEF LockTable, SetObj
<1>5. n \in Nat
  BY <1>3 DEF Tables
<1>6. m \in Seq(Names \cup {None}) /\ Len(m) = n
  BY <1>5
<1> HIDE DEF m
<1>7. /\ o \in Objects /\ o.table = t /\ o.table_locked = Obj.table_locked
      /\ o.data_locked = Obj.data_locked /\ o.num_advected = 0 /\ o.const_metadata = m
  BY <1>3, <1>6 DEF ResetArrays, Objects
<1> HIDE DEF o
<1>8. ~Obj.table_locked /\ ~Obj.data_locked /\ Places(t) # {}
  BY <1>1, AllAdded DEF RegInv, Begun
<1>9. LET it == IterStart(t) IN
      it \in Iterators /\ IterValid(it) /\ OnTable(t, it) /\ Seen(t, it) = {}
  BY <1>3, <1>8, StartIs
<1>10. /\ call' \in CallStates /\ call'.pc = "count" /\ call'.inst = i
       /\ call'.args = call.args /\ call'.it = IterStart(t)
  BY <1>2, <1>3, <1>4, <1>9 DEF CallStates, Loop
<1>11. /\ Typed' /\ Begun' /\ Faithful' /\ LockedIndexed' /\ CapsAgree'
       /\ PublishedLive' /\ Verdict' /\ Obj' = o
  BY <1>1, <1>2, <1>3, <1>4, <1>7, <1>8, <1>10, SameTableStep
<1>12. Counting'
  <2>1. Adv(t, {}) = {} /\ Cardinality({}) = 0
    BY FS_EmptySet DEF Adv
  <2>2. Cardinality(Adv(t, Seen(t, IterStart(t)))) = 0
    BY <2>1, <1>9
  <2> QED
    BY <2>2, <1>6, <1>7, <1>9, <1>10, <1>11 DEF Counting
<1>13. Assigning'
  BY <1>10 DEF Assigning
<1> QED
  BY <1>11, <1>12, <1>13 DEF RegInv

(* The advected, and the others, among one entry more.                     *)
LEMMA AdvAdd ==
  ASSUME NEW t, NEW S, NEW p, p \notin S, IsFiniteSet(S)
  PROVE  LET R == S \cup {p} IN
         /\ Cardinality(Adv(t, S)) \in Nat /\ Cardinality(S \ Adv(t, S)) \in Nat
         /\ Increment(At(t, p).prop.adv) \in Nat
         /\ Increment(~At(t, p).prop.adv) \in Nat
         /\ Cardinality(Adv(t, R))
              = Cardinality(Adv(t, S)) + Increment(At(t, p).prop.adv)
         /\ Cardinality(R \ Adv(t, R))
              = Cardinality(S \ Adv(t, S)) + Increment(~At(t, p).prop.adv)
<1> DEFINE R == S \cup {p}
<1>1. Adv(t, S) \in SUBSET S /\ S \ Adv(t, S) \in SUBSET S
  BY DEF Adv
<1>2. IsFiniteSet(Adv(t, S)) /\ IsFiniteSet(S \ Adv(t, S))
  BY <1>1, FS_Subset
<1>3. Cardinality(Adv(t, S)) \in Nat /\ Cardinality(S \ Adv(t, S)) \in Nat
  BY <1>2, FS_CardinalityType
<1>4. CASE At(t, p).prop.adv
  <2>1. Adv(t, R) = Adv(t, S) \cup {p} /\ p \notin Adv(t, S)
    BY <1>4 DEF Adv
  <2>2. R \ Adv(t, R) = S \ Adv(t, S)
    BY <2>1
  <2>3. Cardinality(Adv(t, R)) = Cardinality(Adv(t, S)) + 1
    BY <2>1, <1>2, FS_AddElement
  <2>4. Increment(At(t, p).prop.adv) = 1 /\ Increment(~At(t, p).prop.adv) = 0
    BY <1>4, Zenon DEF Increment
  <2> QED
    BY <2>2, <2>3, <2>4, <1>3
<1>5. CASE ~At(t, p).prop.adv
  <2>1. Adv(t, R) = Adv(t, S) /\ p \notin S \ Adv(t, S)
    BY <1>5 DEF Adv
  <2>2. R \ Adv(t, R) = (S \ Adv(t, S)) \cup {p}
    BY <2>1, <1>1
  <2>3. Cardinality(R \ Adv(t, R)) = Cardinality(S \ Adv(t, S)) + 1
    BY <2>1, <2>2, <1>2, FS_AddElement
  <2>4. Increment(At(t, p).prop.adv) = 0 /\ Increment(~At(t, p).prop.adv) = 1
    BY <1>5, Zenon DEF Increment
  <2> QED
    BY <2>1, <2>3, <2>4, <1>3
<1> QED
  BY <1>4, <1>5

(* What the iterator of a registration under way has gone past and is at.  *)
LEMMA SeenIsFinite ==
  ASSUME RegInv, UnderWay
  PROVE  /\ IsFiniteSet(Places(Obj.table))
         /\ Obj.table.num_keys = Cardinality(Places(Obj.table))
         /\ Seen(Obj.table, call.it) \subseteq Places(Obj.table)
         /\ IsFiniteSet(Seen(Obj.table, call.it))
         /\ call.it \in Iterators
<1>1. IsFiniteSet(Places(Obj.table)) /\ Obj.table.num_keys = Cardinality(Places(Obj.table))
  BY ObjectUnderWay DEF WellFormed
<1>2. Seen(Obj.table, call.it) \subseteq Places(Obj.table)
  BY DEF Seen
<1>3. call.it \in Iterators
  BY ObjectUnderWay DEF CallStates
<1> QED
  BY <1>1, <1>2, <1>3, FS_Subset

(* The first loop of lock_table counts the entry it is at.                 *)
LEMMA CountKeeps ==
  ASSUME RegInv, Count
  PROVE  RegInv'
<1> DEFINE t == Obj.table
           S == Seen(t, call.it)
           p == Place(call.it)
           N == IterNext(t, call.it)
           a == Obj.num_advected + Increment(At(t, p).prop.adv)
           o == [Obj EXCEPT !.num_advected = a]
<1>1. UnderWay /\ call.pc = "count" /\ IterValid(call.it)
  BY DEF Count, UnderWay, Loop
<1>2. PICK i \in Instances : i = call.inst
  BY <1>1, ObjectUnderWay
<1>3. /\ Obj = obj[i] /\ Obj \in Objects /\ WellFormed(t) /\ t \in Tables(TableEntry)
      /\ call \in CallStates
  BY <1>1, <1>2, ObjectUnderWay
<1>4. /\ OnTable(t, call.it) /\ Obj.num_advected = Cardinality(Adv(t, S))
      /\ Len(Obj.const_metadata) = t.num_keys
  BY <1>1 DEF RegInv, Counting
<1>5. /\ N \in Iterators /\ OnTable(t, N) /\ p \in Places(t) /\ Visited = At(t, p)
      /\ p \notin S /\ Seen(t, N) = S \cup {p}
  BY <1>1, <1>3, <1>4, SeenIsFinite, NextIs DEF Visited
<1>6. /\ obj' = [obj EXCEPT ![i] = o]
      /\ call' = [call EXCEPT !.it = N]
      /\ UNCHANGED <<dyn, cap>>
  BY <1>2, <1>5 DEF Count, SetObj
<1>7. IsFiniteSet(S)
  BY <1>1, SeenIsFinite
<1>8. a \in Nat /\ a = Cardinality(Adv(t, S \cup {p}))
  <2>1. p \notin S
    BY <1>5
  <2> HIDE DEF t, S, p
  <2>2. /\ Cardinality(Adv(t, S)) \in Nat
        /\ Increment(At(t, p).prop.adv) \in Nat
    BY <2>1, <1>7, AdvAdd
  <2>3. Cardinality(Adv(t, S \cup {p}))
          = Cardinality(Adv(t, S)) + Increment(At(t, p).prop.adv)
    BY <2>1, <1>7, AdvAdd, Zenon
  <2> QED
    BY <2>2, <2>3, <1>4
<1> HIDE DEF a
<1>9. /\ o \in Objects /\ o.table = t /\ o.table_locked = Obj.table_locked
      /\ o.data_locked = Obj.data_locked /\ o.num_advected = a
      /\ o.const_metadata = Obj.const_metadata
  BY <1>3, <1>8 DEF Objects
<1> HIDE DEF o
<1>10. ~Obj.table_locked /\ ~Obj.data_locked
  BY <1>1 DEF RegInv, Begun
<1> HIDE DEF N
<1>11. /\ call' \in CallStates /\ call'.pc = "count" /\ call'.inst = i
       /\ call'.args = call.args /\ call'.it = N
  BY <1>1, <1>2, <1>3, <1>5, <1>6 DEF CallStates
<1>12. /\ Typed' /\ Begun' /\ Faithful' /\ LockedIndexed' /\ CapsAgree'
       /\ PublishedLive' /\ Verdict' /\ Obj' = o
  BY <1>1, <1>2, <1>3, <1>6, <1>9, <1>10, <1>11, SameTableStep
<1>13. Counting'
  <2>1. o.num_advected = Cardinality(Adv(t, Seen(t, N)))
    BY <1>5, <1>8, <1>9
  <2> QED
    BY <2>1, <1>4, <1>5, <1>9, <1>11, <1>12 DEF Counting
<1>14. Assigning'
  BY <1>11 DEF Assigning
<1> QED
  BY <1>12, <1>13, <1>14 DEF RegInv

(* Between the loops: every entry was counted, none has an index.          *)
LEMMA CountedKeeps ==
  ASSUME RegInv, Counted
  PROVE  RegInv'
<1> DEFINE t == Obj.table
           N == IterStart(t)
<1>1. UnderWay /\ call.pc = "count" /\ ~IterValid(call.it)
  BY DEF Counted, UnderWay, Loop
<1>2. PICK i \in Instances : i = call.inst
  BY <1>1, ObjectUnderWay
<1>3. /\ Obj = obj[i] /\ Obj \in Objects /\ WellFormed(t) /\ t \in Tables(TableEntry)
      /\ call \in CallStates
  BY <1>1, <1>2, ObjectUnderWay
<1>4. /\ Obj.num_advected = Cardinality(Adv(t, Places(t)))
      /\ Len(Obj.const_metadata) = t.num_keys
  BY <1>1, SeenAtEnd DEF RegInv, Counting
<1>5. ~Obj.table_locked /\ ~Obj.data_locked /\ Places(t) # {}
  BY <1>1, AllAdded DEF RegInv, Begun
<1>6. N \in Iterators /\ IterValid(N) /\ OnTable(t, N) /\ Seen(t, N) = {}
  BY <1>3, <1>5, StartIs
<1>7. /\ obj' = [obj EXCEPT ![i] = Obj]
      /\ call' = [call EXCEPT !.pc = "assign", !.it = N,
                              !.index_advect = 0, !.index_const = Obj.num_advected]
      /\ UNCHANGED <<dyn, cap>>
  BY <1>3 DEF Counted, RegInv, Typed
<1> HIDE DEF N
<1>8. Obj.num_advected \in Nat
  BY <1>3 DEF Objects
<1>9. /\ call' \in CallStates /\ call'.pc = "assign" /\ call'.inst = i
      /\ call'.args = call.args /\ call'.it = N
      /\ call'.index_advect = 0 /\ call'.index_const = Obj.num_advected
  BY <1>2, <1>3, <1>6, <1>7, <1>8 DEF CallStates, Loop
<1>10. /\ Typed' /\ Begun' /\ Faithful' /\ LockedIndexed' /\ CapsAgree'
       /\ PublishedLive' /\ Verdict' /\ Obj' = Obj
  BY <1>1, <1>2, <1>3, <1>5, <1>7, <1>9, SameTableStep
<1>11. Assigning'
  <2>1. Adv(t, {}) = {} /\ Cardinality({}) = 0 /\ {} \ {} = {}
    BY FS_EmptySet DEF Adv
  <2>2. \A p \in Places(t) : At(t, p).ind = Unassigned
    BY <1>1 DEF RegInv, Faithful
  <2>3. Indexed(Obj, {}, 0, Obj.num_advected)
    BY <1>4, <1>8 DEF Indexed
  <2> HIDE DEF t
  <2>4. Cardinality(Adv(t, {})) = 0 /\ Cardinality({} \ Adv(t, {})) = 0
    BY <2>1
  <2> QED
    BY <2>2, <2>3, <2>4, <1>6, <1>8, <1>9, <1>10 DEF Assigning, t
<1>12. Counting'
  BY <1>9 DEF Counting
<1> QED
  BY <1>10, <1>11, <1>12 DEF RegInv

(* The advected and the others of some entries and of all.                 *)
LEMMA AdvParts ==
  ASSUME NEW t, NEW P, IsFiniteSet(P), NEW S \in SUBSET P
  PROVE  /\ Cardinality(Adv(t, S)) \in Nat /\ Cardinality(Adv(t, P)) \in Nat
         /\ Cardinality(S \ Adv(t, S)) \in Nat /\ Cardinality(P \ Adv(t, P)) \in Nat
         /\ Cardinality(Adv(t, S)) <= Cardinality(Adv(t, P))
         /\ Cardinality(S \ Adv(t, S)) <= Cardinality(P \ Adv(t, P))
         /\ Cardinality(Adv(t, P)) + Cardinality(P \ Adv(t, P)) = Cardinality(P)
<1> DEFINE A == Adv(t, P)
           B == P \ A
<1>1. A \in SUBSET P /\ B \in SUBSET P /\ A \cup B = P /\ A \cap B = {}
  BY DEF Adv
<1>2. Adv(t, S) \in SUBSET A /\ S \ Adv(t, S) \in SUBSET B
  BY DEF Adv
<1> HIDE DEF A, B
<1>3. IsFiniteSet(A) /\ IsFiniteSet(B)
  BY <1>1, FS_Subset
<1>4. /\ IsFiniteSet(Adv(t, S)) /\ IsFiniteSet(S \ Adv(t, S))
      /\ Cardinality(Adv(t, S)) <= Cardinality(A)
      /\ Cardinality(S \ Adv(t, S)) <= Cardinality(B)
  BY <1>2, <1>3, FS_Subset
<1>5. /\ Cardinality(A) \in Nat /\ Cardinality(B) \in Nat
      /\ Cardinality(Adv(t, S)) \in Nat /\ Cardinality(S \ Adv(t, S)) \in Nat
  BY <1>3, <1>4, FS_CardinalityType
<1>6. Cardinality(P) = Cardinality(A) + Cardinality(B)
  <2>1. Cardinality(A \cup B) = Cardinality(A) + Cardinality(B) - Cardinality(A \cap B)
    BY <1>3, FS_Union
  <2>2. Cardinality(A \cap B) = 0
    BY <1>1, FS_EmptySet
  <2>3. Cardinality(A \cup B) = Cardinality(P)
    BY <1>1
  <2> QED
    BY <2>1, <2>2, <2>3, <1>5
<1> QED
  BY <1>4, <1>5, <1>6 DEF A, B

(* Indexing one entry more.                                                *)
LEMMA IndexedMore ==
  ASSUME NEW o \in Objects, NEW w \in Objects, NEW S, S \subseteq Places(o.table),
         NEW p \in Places(o.table), p \notin S,
         NEW a \in Nat, NEW c \in Nat, NEW x \in Nat,
         Indexed(o, S, a, c), a <= o.num_advected, o.num_advected <= c,
         x = IF At(o.table, p).prop.adv THEN a + 1 ELSE c + 1,
         x <= IF At(o.table, p).prop.adv THEN o.num_advected ELSE Len(o.const_metadata),
         o.num_advected <= Len(o.const_metadata),
         At(o.table, p).prop.layer,
         Places(w.table) = Places(o.table), w.table.num_keys = o.table.num_keys,
         \A r \in Places(o.table) : r # p => At(w.table, r) = At(o.table, r),
         At(w.table, p).name = At(o.table, p).name,
         At(w.table, p).prop = At(o.table, p).prop,
         At(w.table, p).ind = x,
         w.const_metadata = [o.const_metadata EXCEPT ![x] = At(o.table, p).name],
         w.num_advected = o.num_advected
  PROVE  Indexed(w, S \cup {p}, a + Increment(At(o.table, p).prop.adv),
                 c + Increment(~At(o.table, p).prop.adv))
<1> DEFINE t == o.table
           u == w.table
           adv == At(t, p).prop.adv
           na == o.num_advected
           a2 == a + Increment(adv)
           c2 == c + Increment(~adv)
<1>1. o.const_metadata \in Seq(Names \cup {None}) /\ na \in Nat /\ Len(o.const_metadata) \in Nat
  BY DEF Objects
<1>2. \A r \in Places(t) : At(u, r).prop = At(t, r).prop /\ At(u, r).name = At(t, r).name
  OBVIOUS
<1>3. Adv(u, Places(u)) = Adv(t, Places(t))
  BY <1>2 DEF Adv
<1>4. \/ adv /\ a2 = a + 1 /\ c2 = c /\ x = a + 1 /\ x <= na
      \/ ~adv /\ a2 = a /\ c2 = c + 1 /\ x = c + 1 /\ x <= Len(o.const_metadata)
  <2>1. CASE adv
    <3>1. Increment(adv) = 1 /\ Increment(~adv) = 0
      BY <2>1, Zenon DEF Increment
    <3>2. x = a + 1 /\ x <= na
      BY <2>1, Zenon
    <3>3. a2 = a + 1 /\ c2 = c
      BY <3>1
    <3> QED
      BY <2>1, <3>2, <3>3
  <2>2. CASE ~adv
    <3>1. Increment(adv) = 0 /\ Increment(~adv) = 1
      BY <2>2, Zenon DEF Increment
    <3>2. x = c + 1 /\ x <= Len(o.const_metadata)
      BY <2>2, Zenon
    <3>3. a2 = a /\ c2 = c + 1
      BY <3>1
    <3> QED
      BY <2>2, <3>2, <3>3
  <2> QED
    BY <2>1, <2>2
<1>5. x \in 1 .. Len(o.const_metadata) /\ x \notin 1 .. a /\ x \notin na + 1 .. c
      /\ a2 \in Nat /\ c2 \in Nat /\ a <= a2 /\ c <= c2
  BY <1>1, <1>4
<1>6. /\ Len(w.const_metadata) = Len(o.const_metadata)
      /\ w.const_metadata[x] = At(t, p).name
      /\ \A y \in 1 .. Len(o.const_metadata) : y # x => w.const_metadata[y] = o.const_metadata[y]
  BY <1>1, <1>5
<1>7. ASSUME NEW r \in S
      PROVE  /\ At(u, r).prop.layer
             /\ IF At(u, r).prop.adv THEN At(u, r).ind \in 1 .. a2
                ELSE At(u, r).ind \in na + 1 .. c2
             /\ w.const_metadata[At(u, r).ind] = At(u, r).name
  <2>1. At(u, r) = At(t, r)
    OBVIOUS
  <2>2. /\ At(t, r).prop.layer
        /\ IF At(t, r).prop.adv THEN At(t, r).ind \in 1 .. a ELSE At(t, r).ind \in na + 1 .. c
        /\ o.const_metadata[At(t, r).ind] = At(t, r).name
    BY DEF Indexed
  <2> DEFINE y == At(t, r).ind
  <2>3. y # x /\ (At(t, r).prop.adv => y \in 1 .. a2) /\ (~At(t, r).prop.adv => y \in na + 1 .. c2)
    BY <2>2, <1>1, <1>5
  <2>4. w.const_metadata[y] = o.const_metadata[y]
    BY <2>3, <1>1, <1>5
  <2> QED
    BY <2>1, <2>2, <2>3, <2>4
<1>8. /\ At(u, p).prop.layer
      /\ IF At(u, p).prop.adv THEN At(u, p).ind \in 1 .. a2
         ELSE At(u, p).ind \in na + 1 .. c2
      /\ w.const_metadata[At(u, p).ind] = At(u, p).name
  <2>1. At(u, p).prop.adv <=> adv
    OBVIOUS
  <2>2. (adv => x \in 1 .. a2) /\ (~adv => x \in na + 1 .. c2)
    BY <1>1, <1>4
  <2> QED
    BY <2>1, <2>2, <1>6
<1>9. ASSUME NEW y \in (1 .. a2) \cup (na + 1 .. c2)
      PROVE  \E r \in S \cup {p} : At(u, r).ind = y
  <2>1. CASE y = x
    BY <2>1
  <2>2. CASE y # x
    <3>1. y \in (1 .. a) \cup (na + 1 .. c)
      BY <2>2, <1>1, <1>4
    <3>2. PICK r \in S : At(t, r).ind = y
      BY <3>1 DEF Indexed
    <3> QED
      BY <3>2
  <2> QED
    BY <2>1, <2>2
<1>10. na = Cardinality(Adv(t, Places(t))) /\ Len(o.const_metadata) = t.num_keys
  BY DEF Indexed
<1> HIDE DEF a2, c2
<1>11. Indexed(w, S \cup {p}, a2, c2)
  <2>1. \A r \in S \cup {p} :
          /\ At(u, r).prop.layer
          /\ IF At(u, r).prop.adv THEN At(u, r).ind \in 1 .. a2
             ELSE At(u, r).ind \in na + 1 .. c2
          /\ w.const_metadata[At(u, r).ind] = At(u, r).name
    BY <1>7, <1>8
  <2> QED
    BY <2>1, <1>3, <1>6, <1>9, <1>10 DEF Indexed
<1> QED
  BY <1>11 DEF a2, c2

(* The second loop of lock_table: there is always room for the next index, *)
(* the entry it is at has none yet, and gets this one.                     *)
LEMMA AssignDoes ==
  ASSUME RegInv, Assign, NEW i \in Instances, i = call.inst
  PROVE  LET t == Obj.table
             S == Seen(t, call.it)
             p == Place(call.it)
             e == At(t, p)
             o == obj'[i]
             u == o.table IN
         /\ o \in Objects /\ obj' = [obj EXCEPT ![i] = o]
         /\ o.table_locked = Obj.table_locked /\ o.data_locked = Obj.data_locked
         /\ u \in Tables(TableEntry) /\ WellFormed(u)
         /\ Places(u) = Places(t) /\ u.num_keys = t.num_keys
         /\ p \in Places(t) /\ p \notin S /\ Visited = e
         /\ \A r \in Places(t) : r # p => At(u, r) = At(t, r)
         /\ At(u, p).name = e.name /\ At(u, p).prop = e.prop
         /\ At(u, p).ind = NextIndex /\ DOMAIN u.chain = DOMAIN t.chain
         /\ NextIndex <= Room
         /\ e.prop.layer => Indexed(o, S \cup {p}, call.index_advect + Increment(e.prop.adv),
                                    call.index_const + Increment(~e.prop.adv))
<1> DEFINE t == Obj.table
           S == Seen(t, call.it)
           p == Place(call.it)
           e == At(t, p)
           x == NextIndex
           d == [e EXCEPT !.ind = x]
           u == Update(t, d)
           m == [Obj.const_metadata EXCEPT ![x] = e.name]
           o == [Obj EXCEPT !.table = u, !.const_metadata = m]
           P == Places(t)
<1>1. UnderWay /\ call.pc = "assign" /\ IterValid(call.it)
  BY DEF Assign, UnderWay, Loop
<1>2. /\ Obj = obj[i] /\ Obj \in Objects /\ WellFormed(t) /\ t \in Tables(TableEntry)
      /\ call \in CallStates
  BY <1>1, ObjectUnderWay
<1>3. /\ OnTable(t, call.it) /\ call.index_advect = Cardinality(Adv(t, S))
      /\ call.index_const = Obj.num_advected + Cardinality(S \ Adv(t, S))
      /\ Indexed(Obj, S, call.index_advect, call.index_const)
      /\ \A r \in P \ S : At(t, r).ind = Unassigned
  BY <1>1 DEF RegInv, Assigning
<1>4. /\ IsFiniteSet(P) /\ t.num_keys = Cardinality(P)
      /\ S \subseteq P /\ call.it \in Iterators
  BY <1>1, SeenIsFinite
<1>5. p \in P /\ p \notin S /\ Visited = e
  BY <1>1, <1>2, <1>3, <1>4, NextIs DEF Visited
<1>6. e \in TableEntry /\ e.name \in Names /\ TableValue(t, e.name) = e
  BY <1>2, <1>5, InPlaces, Lookup, EntriesNamed
<1>7. /\ Obj.num_advected = Cardinality(Adv(t, P))
      /\ Len(Obj.const_metadata) = Cardinality(P)
      /\ Obj.const_metadata \in Seq(Names \cup {None})
  BY <1>2, <1>3, <1>4 DEF Indexed, Objects
<1> DEFINE a == call.index_advect
           c == call.index_const
           na == Obj.num_advected
<1>8. /\ a \in Nat /\ c \in Nat /\ na \in Nat /\ a <= na /\ na <= c
      /\ na <= Len(Obj.const_metadata) /\ Len(Obj.const_metadata) \in Nat
  <2> HIDE DEF t, S, P, p
  <2>1. /\ Cardinality(Adv(t, S)) \in Nat /\ Cardinality(Adv(t, P)) \in Nat
        /\ Cardinality(S \ Adv(t, S)) \in Nat /\ Cardinality(P \ Adv(t, P)) \in Nat
        /\ Cardinality(Adv(t, S)) <= Cardinality(Adv(t, P))
        /\ Cardinality(Adv(t, P)) + Cardinality(P \ Adv(t, P)) = Cardinality(P)
    BY <1>4, AdvParts
  <2> QED
    BY <2>1, <1>3, <1>7
(* The set gone past grows to no more than all the places.                 *)
<1>9. /\ a + Increment(e.prop.adv) <= na
      /\ c + Increment(~e.prop.adv) <= Len(Obj.const_metadata)
      /\ Increment(e.prop.adv) \in Nat /\ Increment(~e.prop.adv) \in Nat
  <2> DEFINE R == S \cup {p}
  <2>1. R \subseteq P /\ IsFiniteSet(S) /\ p \notin S
    BY <1>4, <1>5, FS_Subset
  <2>2. /\ Cardinality(Adv(t, R)) = Cardinality(Adv(t, S)) + Increment(e.prop.adv)
        /\ Cardinality(R \ Adv(t, R))
             = Cardinality(S \ Adv(t, S)) + Increment(~e.prop.adv)
        /\ Increment(e.prop.adv) \in Nat /\ Increment(~e.prop.adv) \in Nat
    BY <2>1, AdvAdd, Zenon
  <2> HIDE DEF t, S, P, R, e
  <2>3. /\ Cardinality(Adv(t, R)) <= Cardinality(Adv(t, P))
        /\ Cardinality(R \ Adv(t, R)) <= Cardinality(P \ Adv(t, P))
        /\ Cardinality(Adv(t, P)) \in Nat /\ Cardinality(P \ Adv(t, P)) \in Nat
        /\ Cardinality(Adv(t, P)) + Cardinality(P \ Adv(t, P)) = Cardinality(P)
    BY <2>1, <1>4, AdvParts
  <2>4. Cardinality(S \ Adv(t, S)) \in Nat /\ Cardinality(Adv(t, S)) \in Nat
    BY <1>4, AdvParts
  <2> QED
    BY <2>2, <2>3, <2>4, <1>3, <1>7
<1>10. /\ e.prop.adv => x = a + 1 /\ Room = na
       /\ ~e.prop.adv => x = c + 1 /\ Room = Len(Obj.const_metadata)
  BY <1>5, Zenon DEF NextIndex, Room
<1>11. /\ e.prop.adv => Increment(e.prop.adv) = 1
       /\ ~e.prop.adv => Increment(~e.prop.adv) = 1
  BY Zenon DEF Increment
<1> HIDE DEF x
<1>12. x \in Nat /\ x >= 1 /\ x <= Room /\ x <= Len(Obj.const_metadata)
  <2>1. CASE e.prop.adv
    <3>1. x = a + 1 /\ Room = na /\ Increment(e.prop.adv) = 1
      BY <2>1, <1>10, <1>11, Zenon
    <3> QED
      BY <3>1, <1>8, <1>9
  <2>2. CASE ~e.prop.adv
    <3>1. x = c + 1 /\ Room = Len(Obj.const_metadata) /\ Increment(~e.prop.adv) = 1
      BY <2>2, <1>10, <1>11, Zenon
    <3> QED
      BY <3>1, <1>8, <1>9
  <2> QED
    BY <2>1, <2>2
<1>13. e.ind = Unassigned /\ FindConst(Obj, e.name) = e
  BY <1>3, <1>5, <1>6 DEF FindConst
<1>14. obj' = [obj EXCEPT ![i] = o]
  <2>1. SetConstIndex(Obj, e.name, x) = [Obj EXCEPT !.table = u]
    <3>1. [FindConst(Obj, e.name) EXCEPT !.ind = IF @ = Unassigned THEN x ELSE @] = d
      BY <1>13
    <3> HIDE DEF d
    <3> QED
      BY <3>1, Zenon DEF SetConstIndex
  <2>2. SetMetadata(SetConstIndex(Obj, e.name, x), x, e.name) = o
    <3> HIDE DEF u
    <3> QED
      BY <2>1, <1>2 DEF SetMetadata, Objects
  <2>3. SetObj(o)
    <3>1. x <= Room /\ x = NextIndex
      BY <1>12 DEF x
    <3> HIDE DEF o, e
    <3> QED
      BY <3>1, <2>2, <1>5, Zenon DEF Assign
  <2> QED
    BY <2>3 DEF SetObj
<1>15. d \in TableEntry /\ d.name = e.name /\ d.prop = e.prop /\ d.ind = x
  BY <1>6, <1>12 DEF TableEntry
<1> HIDE DEF d
<1>16. /\ u \in Tables(TableEntry) /\ WellFormed(u) /\ Places(u) = P
       /\ u.num_keys = t.num_keys /\ At(u, p) = d
       /\ \A r \in P : r # p => At(u, r) = At(t, r)
  <2>1. d \in TableEntry /\ d.name = At(t, p).name
    BY <1>15
  <2>2. p \in Places(t) /\ t \in Tables(TableEntry) /\ WellFormed(t)
    BY <1>2, <1>5
  <2> HIDE DEF t, p, e
  <2> QED
    BY <2>1, <2>2, UpdateIs, EntriesNamed
<1>17. m \in Seq(Names \cup {None})
  BY <1>6, <1>7, <1>12
<1>25. DOMAIN u.chain = DOMAIN t.chain
  <2> HIDE DEF t
  <2> QED
    BY <1>2 DEF Update, Tables
<1> HIDE DEF u, m
<1>18. /\ o \in Objects /\ o.table = u /\ o.const_metadata = m
       /\ o.table_locked = Obj.table_locked /\ o.data_locked = Obj.data_locked
       /\ o.num_advected = na
  BY <1>2, <1>16, <1>17 DEF Objects
<1>19. obj'[i] = o
  BY <1>14 DEF RegInv, Typed
<1>20. x = IF At(t, p).prop.adv THEN a + 1 ELSE c + 1
  BY <1>10, Zenon
<1>21. x <= IF At(t, p).prop.adv THEN na ELSE Len(Obj.const_metadata)
  BY <1>10, <1>12, Zenon
<1>22. m = [Obj.const_metadata EXCEPT ![x] = At(t, p).name]
  BY DEF m
<1> HIDE DEF o
<1>23. ASSUME At(t, p).prop.layer
       PROVE  Indexed(o, S \cup {p}, a + Increment(At(t, p).prop.adv),
                      c + Increment(~At(t, p).prop.adv))
  <2>1. /\ At(o.table, p).name = At(t, p).name /\ At(o.table, p).prop = At(t, p).prop
        /\ At(o.table, p).ind = x
        /\ \A r \in P : r # p => At(o.table, r) = At(t, r)
        /\ Places(o.table) = P /\ o.table.num_keys = t.num_keys
    BY <1>15, <1>16, <1>18
  <2>2. Indexed(Obj, S, a, c)
    BY <1>3
  <2>3. o.const_metadata = [Obj.const_metadata EXCEPT ![x] = At(t, p).name]
    BY <1>18, <1>22
  <2> HIDE DEF S, p, a, c, e
  <2> QED
    BY <2>1, <2>2, <2>3, <1>2, <1>4, <1>5, <1>8, <1>12, <1>18, <1>20, <1>21, <1>23,
       IndexedMore, Zenon
<1>24. NextIndex <= Room /\ At(u, p).ind = NextIndex
  BY <1>12, <1>15, <1>16 DEF x
<1> QED
  BY <1>5, <1>14, <1>15, <1>16, <1>18, <1>19, <1>23, <1>24, <1>25

(* An entry of the table gets its index, or the registration fails.        *)
LEMMA AssignKeeps ==
  ASSUME RegInv, Assign
  PROVE  RegInv'
<1>1. UnderWay /\ call.pc = "assign" /\ IterValid(call.it)
  BY DEF Assign, UnderWay, Loop
<1>2. PICK i \in Instances : i = call.inst
  BY <1>1, ObjectUnderWay
<1> DEFINE t == Obj.table
           S == Seen(t, call.it)
           p == Place(call.it)
           N == IterNext(t, call.it)
           o == obj'[i]
           u == o.table
           adv == At(t, p).prop.adv
<1>3. /\ Obj = obj[i] /\ Obj \in Objects /\ WellFormed(t) /\ t \in Tables(TableEntry)
      /\ call \in CallStates
  BY <1>1, <1>2, ObjectUnderWay
<1>4. /\ o \in Objects /\ obj' = [obj EXCEPT ![i] = o]
      /\ o.table_locked = Obj.table_locked /\ o.data_locked = Obj.data_locked
      /\ u \in Tables(TableEntry) /\ WellFormed(u)
      /\ Places(u) = Places(t) /\ u.num_keys = t.num_keys
      /\ p \in Places(t) /\ p \notin S /\ Visited = At(t, p)
      /\ \A r \in Places(t) : r # p => At(u, r) = At(t, r)
      /\ At(u, p).name = At(t, p).name /\ At(u, p).prop = At(t, p).prop
      /\ NextIndex <= Room
      /\ At(t, p).prop.layer =>
           Indexed(o, S \cup {p}, call.index_advect + Increment(adv),
                   call.index_const + Increment(~adv))
  BY <1>2, AssignDoes
<1>5. UNCHANGED <<dyn, cap>>
  BY DEF Assign
<1> HIDE DEF o, u
<1>6. ~o.table_locked /\ ~o.data_locked
  BY <1>1, <1>4 DEF RegInv, Begun
<1>7. u = o.table
  BY DEF u
<1>8. CASE At(t, p).prop.layer
  <2>1. call' = [call EXCEPT !.it = N, !.index_advect = @ + Increment(adv),
                             !.index_const = @ + Increment(~adv)]
    <3>1. NextIndex <= Room /\ Visited.prop.layer
      BY <1>4, <1>8, Zenon
    <3> QED
      BY <3>1, <1>4, Zenon DEF Assign
  <2>2. N \in Iterators /\ OnTable(t, N) /\ Seen(t, N) = S \cup {p}
    BY <1>1, <1>3, SeenIsFinite, NextIs DEF RegInv, Assigning
  <2>3. /\ Increment(adv) \in Nat /\ Increment(~adv) \in Nat
        /\ Cardinality(Adv(t, S)) \in Nat /\ Cardinality(S \ Adv(t, S)) \in Nat
        /\ Cardinality(Adv(t, S \cup {p})) = Cardinality(Adv(t, S)) + Increment(adv)
        /\ Cardinality((S \cup {p}) \ Adv(t, S \cup {p}))
             = Cardinality(S \ Adv(t, S)) + Increment(~adv)
    <3>1. IsFiniteSet(S) /\ p \notin S
      BY <1>1, <1>4, SeenIsFinite
    <3> QED
      BY <3>1, AdvAdd, Zenon
  <2>4. /\ call.index_advect = Cardinality(Adv(t, S))
        /\ call.index_const = Obj.num_advected + Cardinality(S \ Adv(t, S))
        /\ \A r \in Places(t) \ S : At(t, r).ind = Unassigned
    BY <1>1 DEF RegInv, Assigning
  <2> DEFINE a2 == call.index_advect + Increment(adv)
             c2 == call.index_const + Increment(~adv)
  <2>5. a2 \in Nat /\ c2 \in Nat
    BY <2>3, <1>3 DEF CallStates
  <2>6. call' = [call EXCEPT !.it = N, !.index_advect = a2, !.index_const = c2]
    BY <2>1
  <2> HIDE DEF a2, c2, N
  <2>7. /\ call' \in CallStates /\ call'.pc = "assign" /\ call'.inst = i
        /\ call'.args = call.args /\ call'.it = N
        /\ call'.index_advect = a2 /\ call'.index_const = c2
    BY <2>2, <2>5, <2>6, <1>1, <1>2, <1>3 DEF CallStates
  <2>8. \A r \in Places(t) : At(u, r).name = At(t, r).name /\ At(u, r).prop = At(t, r).prop
    <3> SUFFICES ASSUME NEW r \in Places(t)
                 PROVE  At(u, r).name = At(t, r).name /\ At(u, r).prop = At(t, r).prop
      OBVIOUS
    <3>1. CASE r = p
      BY <3>1, <1>4
    <3>2. CASE r # p
      BY <3>2, <1>4
    <3> QED
      BY <3>1, <3>2
  <2>9. /\ Typed' /\ Begun' /\ Faithful' /\ LockedIndexed' /\ CapsAgree'
        /\ PublishedLive' /\ Verdict' /\ Obj' = o
    BY <2>7, <2>8, <1>1, <1>2, <1>3, <1>4, <1>5, <1>6, <1>7, SameTableStep
  <2>10. Assigning'
    <3>1. Indexed(o, S \cup {p}, a2, c2)
      BY <1>4, <1>8 DEF a2, c2
    <3>2. Seen(u, N) = S \cup {p} /\ OnTable(u, N)
      BY <2>2, <1>4 DEF Seen, OnTable
    <3>3. Adv(u, S \cup {p}) = Adv(t, S \cup {p})
      <4>1. S \cup {p} \subseteq Places(t)
        BY <1>1, <1>4, SeenIsFinite
      <4> QED
        BY <4>1, <2>8 DEF Adv
    <3>4. Obj.num_advected \in Nat /\ Obj.num_advected = o.num_advected
      <4>1. Adv(u, Places(u)) = Adv(t, Places(t))
        BY <1>4, <2>8 DEF Adv
      <4>2. Obj.num_advected = Cardinality(Adv(t, Places(t)))
        BY <1>1 DEF RegInv, Assigning, Indexed
      <4>3. o.num_advected = Cardinality(Adv(u, Places(u)))
        BY <3>1 DEF Indexed, u
      <4> QED
        BY <4>1, <4>2, <4>3, <1>3 DEF Objects
    <3>5. a2 = Cardinality(Adv(u, S \cup {p}))
      BY <2>3, <2>4, <3>3 DEF a2
    <3>6. c2 = o.num_advected + Cardinality((S \cup {p}) \ Adv(u, S \cup {p}))
      <4>1. c2 = (o.num_advected + Cardinality(S \ Adv(t, S))) + Increment(~adv)
        BY <2>4, <3>4 DEF c2
      <4>2. Cardinality((S \cup {p}) \ Adv(u, S \cup {p}))
              = Cardinality(S \ Adv(t, S)) + Increment(~adv)
        BY <2>3, <3>3
      <4>3. o.num_advected \in Nat
        BY <3>4
      <4> HIDE DEF adv
      <4> QED
        BY <4>1, <4>2, <4>3, <2>3
    <3>7. \A r \in Places(u) \ (S \cup {p}) : At(u, r).ind = Unassigned
      BY <2>4, <1>4
    <3> HIDE DEF t, S, p, adv
    <3> QED
      BY <3>1, <3>2, <3>5, <3>6, <3>7, <2>7, <2>9, <1>7 DEF Assigning
  <2>11. Counting'
    BY <2>7 DEF Counting
  <2> QED
    BY <2>9, <2>10, <2>11 DEF RegInv
(* A constituent that is not on layers ends the registration.              *)
<1>9. CASE ~At(t, p).prop.layer
  <2>1. Fail
    <3>1. ~(NextIndex <= Room /\ Visited.prop.layer)
      BY <1>4, <1>9, Zenon
    <3> QED
      BY <3>1, Zenon DEF Assign
  <2>2. /\ call' \in CallStates /\ call'.pc = "failed" /\ call'.inst = i
        /\ call'.args = call.args
    <3>1. call' = [NoCall EXCEPT !.pc = "failed", !.inst = call.inst, !.args = call.args]
      BY <2>1 DEF Fail, Return
    <3> QED
      BY <3>1, <1>2, <1>3 DEF NoCall, CallStates, Iterators, AtEnd
  <2>3. o.table.chain # <<>>
    BY <1>4, <1>7 DEF WellFormed
  <2>4. IsInitialized(o.table) /\ ~PropsLocked(o)
    BY <2>3, <1>6 DEF IsInitialized, NoTable, PropsLocked
  <2>5. Typed' /\ LockedIndexed' /\ CapsAgree' /\ PublishedLive'
    BY <2>2, <2>4, <1>1, <1>2, <1>4, <1>5, <1>7, UnlockedStep
  <2>6. OffLayers(call.args)
    <3> DEFINE f == FirstNamed(call.args, At(t, p).name)
    <3>1. Len(call.args) \in Nat /\ DOMAIN call.args = 1 .. Len(call.args)
      BY <1>1, ObjectUnderWay
    <3>2. Taken = Len(call.args) /\ f \in 1 .. Taken /\ At(t, p).prop = call.args[f]
      BY <1>1, <1>4, AllAdded DEF RegInv, Faithful
    <3>3. At(t, p) \in TableEntry
      BY <1>3, <1>4, InPlaces
    <3>4. call.args[f].name = At(t, p).name
      BY <3>2, <3>3 DEF TableEntry
    <3>5. FirstNamed(call.args, call.args[f].name) = f
      BY <3>4
    <3>6. ~call.args[f].layer
      BY <3>2, <1>9
    <3> HIDE DEF f
    <3>7. f \in DOMAIN call.args
      BY <3>1, <3>2
    <3> QED
      BY <3>5, <3>6, <3>7 DEF OffLayers
  <2>7. Verdict'
    BY <2>2, <2>6 DEF Verdict, RegistrationVerdict
  <2>8. Begun' /\ Faithful' /\ Counting' /\ Assigning'
    BY <2>2 DEF Begun, Faithful, Counting, Assigning, UnderWay, Loop
  <2> QED
    BY <2>5, <2>7, <2>8 DEF RegInv
<1> QED
  BY <1>8, <1>9

(* lock_table ends: the counts are right, and the table is locked.         *)
LEMMA AssignedKeeps ==
  ASSUME RegInv, Assigned
  PROVE  /\ RegInv' /\ call'.pc = "publish" /\ call'.inst = call.inst
         /\ obj' = [obj EXCEPT ![call.inst] = [Obj EXCEPT !.table_locked = TRUE]]
<1> DEFINE t == Obj.table
           P == Places(t)
           o == [Obj EXCEPT !.table_locked = TRUE]
<1>1. UnderWay /\ call.pc = "assign" /\ ~IterValid(call.it)
  BY DEF Assigned, UnderWay, Loop
<1>2. PICK i \in Instances : i = call.inst
  BY <1>1, ObjectUnderWay
<1>3. /\ Obj = obj[i] /\ Obj \in Objects /\ WellFormed(t) /\ t \in Tables(TableEntry)
      /\ call \in CallStates /\ IsInitialized(t)
  BY <1>1, <1>2, ObjectUnderWay
<1>4. Seen(t, call.it) = P
  BY <1>1, SeenAtEnd
<1>5. /\ call.index_advect = Cardinality(Adv(t, P))
      /\ call.index_const = Obj.num_advected + Cardinality(P \ Adv(t, P))
      /\ Indexed(Obj, P, call.index_advect, call.index_const)
  BY <1>1, <1>4 DEF RegInv, Assigning
<1>6. Obj.num_advected = Cardinality(Adv(t, P))
  BY <1>5 DEF Indexed
<1>7. call.index_advect = Obj.num_advected /\ call.index_const = t.num_keys
  <2>1. IsFiniteSet(P) /\ t.num_keys = Cardinality(P)
    BY <1>1, SeenIsFinite
  <2> HIDE DEF t, P
  <2>2. Cardinality(Adv(t, P)) + Cardinality(P \ Adv(t, P)) = Cardinality(P)
    BY <2>1, AdvParts
  <2> QED
    BY <2>1, <2>2, <1>5, <1>6
<1>8. /\ obj' = [obj EXCEPT ![i] = o]
      /\ call' = [call EXCEPT !.pc = "publish"]
      /\ UNCHANGED <<dyn, cap>>
  BY <1>2, <1>7 DEF Assigned, SetObj
<1>9. /\ o \in Objects /\ o.table = t /\ o.table_locked = TRUE
      /\ o.data_locked = Obj.data_locked /\ o.num_advected = Obj.num_advected
      /\ o.const_metadata = Obj.const_metadata
  BY <1>3 DEF Objects
<1>10. /\ call' \in CallStates /\ call'.pc = "publish" /\ call'.inst = i
       /\ call'.args = call.args
  BY <1>2, <1>3, <1>8 DEF CallStates, Loop
<1>11. /\ obj' \in [Instances -> Objects] /\ obj'[i] = o
       /\ \A j \in Instances : j # i => obj'[j] = obj[j]
  BY <1>8, <1>9 DEF RegInv, Typed
<1>12. Obj' = o
  BY <1>10, <1>11 DEF Obj
<1> HIDE DEF o
<1>13. Obj.data_locked = FALSE /\ P # {}
  BY <1>1, <1>3, AllAdded DEF Objects
<1>14. Typed'
  <2>1. \A j \in Instances : IsInitialized(obj'[j].table) => WellFormed(obj'[j].table)
    BY <1>3, <1>9, <1>11 DEF RegInv, Typed
  <2> QED
    BY <2>1, <1>8, <1>10, <1>11 DEF RegInv, Typed
<1>15. Begun'
  <2>1. \A j \in DOMAIN Fixed : \E l \in DOMAIN call.args : call.args[l] = Fixed[j]
    BY <1>1 DEF RegInv, Begun
  <2> QED
    BY <2>1, <1>3, <1>9, <1>10, <1>12, <1>13 DEF Begun
<1>16. Faithful'
  <2>1. Taken = Len(call.args) /\ Taken' = Len(call.args)
    BY <1>1, <1>10 DEF Taken
  <2> QED
    BY <2>1, <1>1, <1>9, <1>10, <1>12 DEF RegInv, Faithful
<1>17. LockedIndexed'
  <2>1. Indexes(o)
    BY <1>5, <1>7, <1>9 DEF Indexes, Indexed
  <2> SUFFICES ASSUME NEW j \in Instances, PropsLocked(obj'[j])
               PROVE  Places(obj'[j].table) # {} /\ Indexes(obj'[j])
    BY DEF LockedIndexed
  <2>2. CASE j = i
    BY <2>1, <2>2, <1>9, <1>11, <1>13
  <2>3. CASE j # i
    BY <2>3, <1>11 DEF RegInv, LockedIndexed
  <2> QED
    BY <2>2, <2>3
<1>18. ~Published(i)' /\ ~Locked(obj[i])'
  BY <1>9, <1>10, <1>11, <1>13 DEF Published, Locked, DataLocked
<1>19. ASSUME NEW j \in Instances, j # i
       PROVE  /\ Published(j)' <=> Published(j)
              /\ obj'[j] = obj[j] /\ cap'[j] = cap[j]
  BY <1>1, <1>8, <1>10, <1>11, <1>19 DEF Published
<1>20. CapsAgree'
  <2> SUFFICES ASSUME NEW j \in Instances
               PROVE  /\ DOMAIN cap[j] = {"all", "props", "props_live", "array", "views", "indices"}
                      /\ DOMAIN cap[j].indices = FixedNames
                      /\ Published(j)' => \A n \in FixedNames :
                           cap[j].indices[n] = ConstIndex(obj'[j], n)
                      /\ Locked(obj'[j]) => \A k \in DOMAIN cap[j].views :
                           cap[j].views[k] = ConstIndex(obj'[j], Views[k])
    BY <1>8 DEF RegInv, CapsAgree
  <2>1. CASE j = i
    BY <2>1, <1>18 DEF RegInv, CapsAgree
  <2>2. CASE j # i
    BY <2>2, <1>19 DEF RegInv, CapsAgree
  <2> QED
    BY <2>1, <2>2
<1>21. PublishedLive'
  <2> SUFFICES ASSUME NEW j \in Instances
               PROVE  /\ Published(j)' => cap[j].props_live /\ cap[j].props = obj'[j].const_metadata
                      /\ Locked(obj'[j]) => cap[j].array = "live" /\ obj'[j].vars_layer
                      /\ ~IsInitialized(obj'[j].table) => cap[j].props = <<>> /\ cap[j].array = "null"
    BY <1>8 DEF PublishedLive
  <2>1. CASE j = i
    BY <2>1, <1>3, <1>9, <1>11, <1>18
  <2>2. CASE j # i
    BY <2>2, <1>19 DEF RegInv, PublishedLive
  <2> QED
    BY <2>1, <2>2
<1>22. Counting' /\ Assigning' /\ Verdict'
  BY <1>10 DEF Counting, Assigning, Verdict, RegistrationVerdict
<1>23. RegInv'
  BY <1>14, <1>15, <1>16, <1>17, <1>20, <1>21, <1>22 DEF RegInv
<1> QED
  BY <1>2, <1>8, <1>10, <1>23 DEF o

(* The index of a name that is in a locked table.                          *)
LEMMA IndexOf ==
  ASSUME NEW o \in Objects, WellFormed(o.table), PropsLocked(o), Indexes(o),
         NEW p \in Places(o.table)
  PROVE  LET e == At(o.table, p) IN
         /\ ConstIndex(o, e.name) = e.ind /\ e.name \in Names
         /\ FindConst(o, e.name) = e
         /\ e.prop.layer /\ e.ind \in 1 .. o.table.num_keys
         /\ (e.prop.adv <=> e.ind <= o.num_advected)
         /\ e.ind \in 1 .. Len(o.const_metadata) /\ o.const_metadata[e.ind] = e.name
<1> DEFINE e == At(o.table, p)
           P == Places(o.table)
<1>1. o.table \in Tables(TableEntry)
  BY DEF Objects
<1>2. /\ HasKey(o.table, e.name) /\ TableValue(o.table, e.name) = e /\ e.name \in Names
  BY <1>1, Lookup, EntriesNamed
<1>3. ConstIndex(o, e.name) = e.ind /\ FindConst(o, e.name) = e
  BY <1>2 DEF ConstIndex, FindConst
<1>4. /\ o.num_advected = Cardinality(Adv(o.table, P))
      /\ o.table.num_keys = Cardinality(P) /\ IsFiniteSet(P)
      /\ Len(o.const_metadata) = o.table.num_keys
      /\ e.prop.layer
      /\ IF e.prop.adv THEN e.ind \in 1 .. o.num_advected
         ELSE e.ind \in o.num_advected + 1 .. o.table.num_keys
      /\ o.const_metadata[e.ind] = e.name
  BY DEF Indexes, Indexed, WellFormed
<1>5. o.num_advected \in Nat /\ o.table.num_keys \in Nat /\ o.num_advected <= o.table.num_keys
  <2> HIDE DEF P
  <2>1. /\ Cardinality(Adv(o.table, P)) \in Nat /\ Cardinality(P \ Adv(o.table, P)) \in Nat
        /\ Cardinality(Adv(o.table, P)) + Cardinality(P \ Adv(o.table, P)) = Cardinality(P)
    BY <1>4, AdvParts
  <2> QED
    BY <2>1, <1>4
<1>6. e.ind \in 1 .. o.table.num_keys /\ (e.prop.adv <=> e.ind <= o.num_advected)
  <2> HIDE DEF e
  <2>1. CASE e.prop.adv
    <3>1. e.ind \in 1 .. o.num_advected
      BY <2>1, <1>4, Zenon
    <3> QED
      BY <2>1, <3>1, <1>5
  <2>2. CASE ~e.prop.adv
    <3>1. e.ind \in o.num_advected + 1 .. o.table.num_keys
      BY <2>2, <1>4, Zenon
    <3> QED
      BY <2>2, <3>1, <1>5
  <2> QED
    BY <2>1, <2>2
<1> QED
  BY <1>2, <1>3, <1>4, <1>6

(* Every index is given, and const_metadata leads to it.                   *)
LEMMA EveryIndex ==
  ASSUME NEW o \in Objects, WellFormed(o.table), PropsLocked(o), Indexes(o),
         NEW x \in 1 .. o.table.num_keys
  PROVE  \E p \in Places(o.table) :
           At(o.table, p).ind = x /\ o.const_metadata[x] = At(o.table, p).name
<1>1. o.num_advected \in Nat /\ o.table.num_keys \in Nat
  BY DEF Objects, Tables
<1>2. x \in (1 .. o.num_advected) \cup (o.num_advected + 1 .. o.table.num_keys)
  BY <1>1
<1>3. PICK p \in Places(o.table) : At(o.table, p).ind = x
  BY <1>2 DEF Indexes, Indexed
<1> QED
  BY <1>3, IndexOf

(* The registration ends well: every fixed constituent has its index.      *)
LEMMA PublishKeeps ==
  ASSUME RegInv, Publish
  PROVE  RegInv'
<1> DEFINE t == Obj.table
           args == call.args
<1>1. UnderWay /\ call.pc = "publish"
  BY DEF Publish, UnderWay, Loop
<1>2. PICK i \in Instances : i = call.inst
  BY <1>1, ObjectUnderWay
<1>3. /\ Obj = obj[i] /\ Obj \in Objects /\ WellFormed(t) /\ t \in Tables(TableEntry)
      /\ call \in CallStates /\ IsInitialized(t)
      /\ args \in Seq(Constituent) /\ Len(args) \in Nat /\ DOMAIN args = 1 .. Len(args)
  BY <1>1, <1>2, ObjectUnderWay
<1>4. PropsLocked(Obj) /\ ~Obj.data_locked /\ Indexes(Obj)
  BY <1>1, <1>2, <1>3 DEF RegInv, Begun, PropsLocked, LockedIndexed
<1>5. \A p \in Places(t) :
        /\ ConstIndex(Obj, At(t, p).name) = At(t, p).ind
        /\ At(t, p).prop.layer /\ At(t, p).ind \in 1 .. Len(Obj.const_metadata)
        /\ Obj.const_metadata[At(t, p).ind] = At(t, p).name
  BY <1>3, <1>4, IndexOf
<1>6. \A l \in 1 .. Len(args) : \E p \in Places(t) : At(t, p).name = args[l].name
  BY <1>1, AllAdded
<1> DEFINE found == [n \in FixedNames |-> ConstIndex(Obj, n)]
<1>7. \A n \in FixedNames : found[n] > 0
  <2> SUFFICES ASSUME NEW n \in FixedNames PROVE ConstIndex(Obj, n) > 0
    OBVIOUS
  <2>1. PICK j \in DOMAIN Fixed : n = Fixed[j].name
    BY DEF FixedNames
  <2>2. PICK l \in 1 .. Len(args) : args[l] = Fixed[j]
    BY <1>1, <1>3 DEF RegInv, Begun
  <2>3. PICK p \in Places(t) : At(t, p).name = n
    BY <2>1, <2>2, <1>6
  <2> QED
    BY <2>3, <1>5
<1>8. /\ cap' = [cap EXCEPT ![i].props = Obj.const_metadata, ![i].props_live = TRUE,
                            ![i].all = TRUE, ![i].indices = found]
      /\ Return("ok") /\ UNCHANGED <<dyn, obj>>
  <2>1. DOMAIN cap[i].indices = FixedNames
    BY DEF RegInv, CapsAgree
  <2> HIDE DEF found
  <2>2. \A n \in DOMAIN found : found[n] > 0
    BY <1>7 DEF found
  <2>3. [n \in DOMAIN cap[i].indices |-> ConstIndex(Obj, n)] = found
    BY <2>1 DEF found
  <2> QED
    BY <2>2, <2>3, <1>2, Zenon DEF Publish
<1>9. /\ call' \in CallStates /\ call'.pc = "ok" /\ call'.inst = i /\ call'.args = args
  <2>1. call' = [NoCall EXCEPT !.pc = "ok", !.inst = call.inst, !.args = call.args]
    BY <1>8 DEF Return
  <2> QED
    BY <2>1, <1>2, <1>3 DEF NoCall, CallStates, Iterators, AtEnd
<1> HIDE DEF found
<1>10. /\ DOMAIN cap' = Instances
       /\ cap'[i].props = Obj.const_metadata /\ cap'[i].props_live = TRUE
       /\ cap'[i].indices = found
       /\ DOMAIN cap'[i] = DOMAIN cap[i]
       /\ \A j \in Instances : j # i => cap'[j] = cap[j]
  BY <1>8 DEF RegInv, CapsAgree
<1>11. Typed' /\ LockedIndexed'
  BY <1>8, <1>9 DEF RegInv, Typed, LockedIndexed
<1>12. Obj' = Obj
  BY <1>2, <1>8, <1>9 DEF Obj
<1>13. ~Locked(obj[i]) /\ PropsLocked(obj[i])
  BY <1>3, <1>4 DEF Locked, DataLocked
<1>14. ASSUME NEW j \in Instances, j # i
       PROVE  Published(j)' <=> Published(j)
  BY <1>1, <1>2, <1>8, <1>9, <1>14 DEF Published
<1>15. CapsAgree'
  <2> SUFFICES ASSUME NEW j \in Instances
               PROVE  /\ DOMAIN cap'[j] = {"all", "props", "props_live", "array", "views", "indices"}
                      /\ DOMAIN cap'[j].indices = FixedNames
                      /\ Published(j)' => \A n \in FixedNames :
                           cap'[j].indices[n] = ConstIndex(obj[j], n)
                      /\ Locked(obj[j]) => \A k \in DOMAIN cap'[j].views :
                           cap'[j].views[k] = ConstIndex(obj[j], Views[k])
    BY <1>8, <1>10 DEF RegInv, CapsAgree
  <2>1. CASE j = i
    BY <2>1, <1>3, <1>10, <1>13 DEF RegInv, CapsAgree, found
  <2>2. CASE j # i
    BY <2>2, <1>10, <1>14 DEF RegInv, CapsAgree
  <2> QED
    BY <2>1, <2>2
<1>16. PublishedLive'
  <2> SUFFICES ASSUME NEW j \in Instances
               PROVE  /\ Published(j)' => cap'[j].props_live /\ cap'[j].props = obj[j].const_metadata
                      /\ Locked(obj[j]) => cap'[j].array = "live" /\ obj[j].vars_layer
                      /\ ~IsInitialized(obj[j].table) => cap'[j].props = <<>> /\ cap'[j].array = "null"
    BY <1>8 DEF PublishedLive
  <2>1. CASE j = i
    BY <2>1, <1>3, <1>10, <1>13
  <2>2. CASE j # i
    BY <2>2, <1>10, <1>14 DEF RegInv, PublishedLive
  <2> QED
    BY <2>1, <2>2
(* What was given is what is there: no conflict, all on layers.            *)
<1>17. Taken = Len(args)
  BY <1>1 DEF Taken
<1>18. ~Conflict(args)
  BY <1>1, <1>3, <1>17 DEF RegInv, Faithful, Conflict
<1>19. \A p \in Places(t) :
         /\ FirstNamed(args, At(t, p).name) \in 1 .. Len(args)
         /\ At(t, p).prop = args[FirstNamed(args, At(t, p).name)]
         /\ At(t, p).prop.name = At(t, p).name
  BY <1>1, <1>3, <1>17, InPlaces DEF RegInv, Faithful, TableEntry
<1>20. ~OffLayers(args)
  <2> SUFFICES ASSUME NEW k \in 1 .. Len(args)
               PROVE  args[FirstNamed(args, args[k].name)].layer
    BY <1>3 DEF OffLayers
  <2>1. PICK p \in Places(t) : At(t, p).name = args[k].name
    BY <1>6
  <2>2. At(t, p).prop = args[FirstNamed(args, args[k].name)] /\ At(t, p).prop.layer
    BY <2>1, <1>5, <1>19
  <2> QED
    BY <2>2, Zenon
<1>21. Range(Obj.const_metadata) = {args[k].name : k \in DOMAIN args}
  <2>1. /\ Obj.const_metadata \in Seq(Names \cup {None})
        /\ Len(Obj.const_metadata) = t.num_keys
        /\ DOMAIN Obj.const_metadata = 1 .. t.num_keys
    BY <1>3, <1>4 DEF Objects, Indexes, Indexed
  <2>2. Range(Obj.const_metadata) = {Obj.const_metadata[x] : x \in 1 .. t.num_keys}
    BY <2>1 DEF Range
  <2>3. ASSUME NEW x \in 1 .. t.num_keys
        PROVE  \E k \in DOMAIN args : Obj.const_metadata[x] = args[k].name
    <3>1. PICK p \in Places(t) : Obj.const_metadata[x] = At(t, p).name
      BY <1>3, <1>4, EveryIndex
    <3> QED
      BY <3>1, <1>3, <1>19
  <2>4. ASSUME NEW k \in DOMAIN args
        PROVE  \E x \in 1 .. t.num_keys : Obj.const_metadata[x] = args[k].name
    <3>1. PICK p \in Places(t) : At(t, p).name = args[k].name
      BY <1>3, <1>6
    <3> QED
      BY <3>1, <2>1, <1>5
  <2> QED
    BY <2>2, <2>3, <2>4
<1>22. Verdict'
  BY <1>9, <1>12, <1>18, <1>20, <1>21 DEF Verdict, RegistrationVerdict
<1>23. Begun' /\ Faithful' /\ Counting' /\ Assigning'
  BY <1>9 DEF Begun, Faithful, Counting, Assigning, UnderWay, Loop
<1> QED
  BY <1>11, <1>15, <1>16, <1>22, <1>23 DEF RegInv

(* Steps that are none of a registration's.                                *)
LEMMA NotUnderWay ==
  ASSUME NEW pc, pc \notin Loop, call'.pc = pc
  PROVE  Begun' /\ Faithful' /\ Counting' /\ Assigning'
BY DEF Begun, Faithful, Counting, Assigning, UnderWay, Loop

(* A registration of the schemes.                                          *)
LEMMA CcppRegisterKeeps ==
  ASSUME RegInv, NEW i \in Instances, CcppRegister(i)
  PROVE  RegInv'
<1>1. UNCHANGED <<obj, cap, call>> /\ call.pc \notin Loop
  BY DEF CcppRegister, Idle, Loop
<1>2. Typed'
  BY <1>1 DEF RegInv, Typed, CcppRegister
<1>3. Begun' /\ Faithful' /\ Counting' /\ Assigning'
  BY <1>1, NotUnderWay
<1>4. LockedIndexed' /\ CapsAgree' /\ PublishedLive' /\ Verdict'
  BY <1>1 DEF RegInv, LockedIndexed, CapsAgree, PublishedLive, Published, Verdict,
              RegistrationVerdict, Obj
<1> QED
  BY <1>2, <1>3, <1>4 DEF RegInv

(* What steps keep of the other instances, when no registration publishes. *)
LEMMA OthersKept ==
  ASSUME RegInv, NEW i \in Instances, Idle, call'.pc # "publish",
         obj' \in [Instances -> Objects], DOMAIN cap' = Instances,
         \A j \in Instances : j # i => obj'[j] = obj[j] /\ cap'[j] = cap[j],
         IsInitialized(obj'[i].table) => WellFormed(obj'[i].table),
         PropsLocked(obj'[i]) => Places(obj'[i].table) # {} /\ Indexes(obj'[i]),
         DOMAIN cap'[i] = DOMAIN cap[i], DOMAIN cap'[i].indices = FixedNames,
         PropsLocked(obj'[i]) => /\ \A n \in FixedNames :
                                      cap'[i].indices[n] = ConstIndex(obj'[i], n)
                                 /\ cap'[i].props_live
                                 /\ cap'[i].props = obj'[i].const_metadata,
         Locked(obj'[i]) => /\ \A k \in DOMAIN cap'[i].views :
                                 cap'[i].views[k] = ConstIndex(obj'[i], Views[k])
                            /\ cap'[i].array = "live" /\ obj'[i].vars_layer,
         ~IsInitialized(obj'[i].table) => cap'[i].props = <<>> /\ cap'[i].array = "null"
  PROVE  /\ \A j \in Instances : IsInitialized(obj'[j].table) => WellFormed(obj'[j].table)
         /\ LockedIndexed' /\ CapsAgree' /\ PublishedLive'
<1>1. \A j \in Instances : IsInitialized(obj'[j].table) => WellFormed(obj'[j].table)
  BY DEF RegInv, Typed
<1>2. LockedIndexed'
  <2> SUFFICES ASSUME NEW j \in Instances, PropsLocked(obj'[j])
               PROVE  Places(obj'[j].table) # {} /\ Indexes(obj'[j])
    BY DEF LockedIndexed
  <2>1. CASE j = i
    BY <2>1
  <2>2. CASE j # i
    BY <2>2 DEF RegInv, LockedIndexed
  <2> QED
    BY <2>1, <2>2
<1>3. \A j \in Instances : /\ Published(j) <=> PropsLocked(obj[j])
                           /\ Published(j)' <=> PropsLocked(obj'[j])
  BY DEF Published, Idle
<1>4. CapsAgree'
  <2> SUFFICES ASSUME NEW j \in Instances
               PROVE  /\ DOMAIN cap'[j] = {"all", "props", "props_live", "array", "views", "indices"}
                      /\ DOMAIN cap'[j].indices = FixedNames
                      /\ Published(j)' => \A n \in FixedNames :
                           cap'[j].indices[n] = ConstIndex(obj'[j], n)
                      /\ Locked(obj'[j]) => \A k \in DOMAIN cap'[j].views :
                           cap'[j].views[k] = ConstIndex(obj'[j], Views[k])
    BY DEF CapsAgree
  <2>1. CASE j = i
    BY <2>1, <1>3 DEF RegInv, CapsAgree
  <2>2. CASE j # i
    BY <2>2, <1>3 DEF RegInv, CapsAgree
  <2> QED
    BY <2>1, <2>2
<1>5. PublishedLive'
  <2> SUFFICES ASSUME NEW j \in Instances
               PROVE  /\ Published(j)' => cap'[j].props_live /\ cap'[j].props = obj'[j].const_metadata
                      /\ Locked(obj'[j]) => cap'[j].array = "live" /\ obj'[j].vars_layer
                      /\ ~IsInitialized(obj'[j].table) => cap'[j].props = <<>> /\ cap'[j].array = "null"
    BY DEF PublishedLive
  <2>1. CASE j = i
    BY <2>1, <1>3
  <2>2. CASE j # i
    BY <2>2, <1>3 DEF RegInv, PublishedLive
  <2> QED
    BY <2>1, <2>2
<1> QED
  BY <1>1, <1>2, <1>4, <1>5

(* reset() takes the table and the arrays, and leaves the locks.           *)
LEMMA ResetIs ==
  ASSUME NEW o \in Objects
  PROVE  LET r == Reset(o) IN
         /\ r \in Objects /\ r.table = NoTable /\ r.table_locked = o.table_locked
         /\ r.data_locked = o.data_locked
<1> DEFINE q == ResetArrays(o)
<1>1. <<>> \in Seq(Names \cup {None}) /\ NoTable \in Tables(TableEntry)
  BY DEF NoTable, Tables
<1>2. /\ q \in Objects /\ q.table_locked = o.table_locked
      /\ q.data_locked = o.data_locked
  BY <1>1 DEF ResetArrays, Objects
<1> DEFINE r == Reset(o)
<1>3. r = [q EXCEPT !.table = NoTable, !.num_advected = 0]
  BY DEF Reset
<1> HIDE DEF q, r
<1>4. /\ r \in Objects /\ r.table = NoTable /\ r.table_locked = q.table_locked
      /\ r.data_locked = q.data_locked
  BY <1>1, <1>2, <1>3 DEF Objects
<1> QED
  BY <1>2, <1>4 DEF r

(* A registration begins, with a table of its own and nothing locked but   *)
(* perhaps the data.                                                       *)
LEMMA RegisterConstituentsKeeps ==
  ASSUME RegInv, NEW i \in Instances, RegisterConstituents(i)
  PROVE  RegInv'
<1>1. PICK h \in HostChoices :
        LET args == h \o dyn[i] \o Fixed IN
        /\ obj' = [obj EXCEPT ![i] = InitializeTable(obj[i], Len(args))]
        /\ call' = [call EXCEPT !.pc = "add", !.inst = i, !.args = args, !.k = 1]
  BY DEF RegisterConstituents, RegInv, Typed
<1> DEFINE args == h \o dyn[i] \o Fixed
           o == InitializeTable(obj[i], Len(args))
           t == EmptyTable(TableBits(Len(args)))
<1>2. /\ Idle /\ cap' = [cap EXCEPT ![i] = Dangle(cap[i])] /\ UNCHANGED dyn
  BY DEF RegisterConstituents, RegInv, CapsAgree
<1>3. /\ h \in Seq(Constituent) /\ dyn[i] \in Seq(Constituent) /\ Fixed \in Seq(Constituent)
      /\ dyn[i] \in DynChoices \cup {<<>>}
  <2>1. dyn[i] \in DynChoices \cup {<<>>}
    BY DEF RegInv, Typed
  <2>2. DynChoices \subseteq Seq(Constituent) /\ h \in Seq(Constituent)
        /\ Fixed \in Seq(Constituent)
    BY ConstituentAssumption
  <2>3. dyn[i] \in Seq(Constituent)
    <3>1. CASE dyn[i] \in DynChoices
      BY <3>1, <2>2
    <3>2. CASE dyn[i] = <<>>
      BY <3>2
    <3> QED
      BY <3>1, <3>2, <2>1
  <2> QED
    BY <2>1, <2>2, <2>3
<1>4. /\ args \in Seq(Constituent) /\ DOMAIN args = 1 .. Len(args) /\ Len(args) \in Nat
      /\ \A j \in DOMAIN Fixed : \E l \in DOMAIN args : args[l] = Fixed[j]
  <2> DEFINE g == h \o dyn[i]
  <2>1. g \in Seq(Constituent) /\ Len(g) \in Nat
    BY <1>3
  <2> HIDE DEF g
  <2>2. /\ g \o Fixed \in Seq(Constituent) /\ Len(g \o Fixed) = Len(g) + Len(Fixed)
        /\ \A j \in 1 .. Len(Fixed) : (g \o Fixed)[Len(g) + j] = Fixed[j]
    BY <2>1, <1>3
  <2>3. args = g \o Fixed
    BY DEF g
  <2> HIDE DEF args
  <2>4. DOMAIN Fixed = 1 .. Len(Fixed) /\ Len(Fixed) \in Nat /\ DOMAIN args = 1 .. Len(args)
    BY <2>2, <2>3, <1>3
  <2>5. \A j \in 1 .. Len(Fixed) : Len(g) + j \in 1 .. Len(args) /\ args[Len(g) + j] = Fixed[j]
    BY <2>1, <2>2, <2>3, <2>4
  <2>6. ASSUME NEW j \in DOMAIN Fixed PROVE \E l \in DOMAIN args : args[l] = Fixed[j]
    <3>1. Len(g) + j \in DOMAIN args /\ args[Len(g) + j] = Fixed[j]
      BY <2>4, <2>5
    <3> QED
      BY <3>1
  <2>7. args \in Seq(Constituent) /\ Len(args) \in Nat
    BY <2>2, <2>3
  <2> QED
    BY <2>4, <2>6, <2>7
<1>5. 2 ^ TableBits(Len(args)) \in Nat \ {0}
  BY <1>3, SizeAssumption
<1>6. t \in Tables(TableEntry) /\ WellFormed(t) /\ Places(t) = {}
  <2> HIDE DEF args
  <2> QED
    BY <1>5, EmptyTableIs
<1> HIDE DEF t
<1>7. obj \in [Instances -> Objects] /\ obj[i] \in Objects
  BY DEF RegInv, Typed
<1>8. /\ o \in Objects /\ o.table = t /\ o.table_locked = FALSE
      /\ o.data_locked = obj[i].data_locked
  <2> DEFINE q == Reset(obj[i])
  <2>1. q \in Objects /\ q.data_locked = obj[i].data_locked
    BY <1>7, ResetIs
  <2>2. o = [q EXCEPT !.table = t, !.table_locked = FALSE]
    BY DEF InitializeTable, t
  <2> HIDE DEF q, o
  <2> QED
    BY <2>1, <2>2, <1>6 DEF Objects
<1> HIDE DEF o, args
<1>9. /\ obj' = [obj EXCEPT ![i] = o]
      /\ call' = [call EXCEPT !.pc = "add", !.inst = i, !.args = args, !.k = 1]
  BY <1>1 DEF o, args
<1>10. /\ obj' \in [Instances -> Objects] /\ obj'[i] = o
       /\ \A j \in Instances : j # i => obj'[j] = obj[j]
  BY <1>7, <1>8, <1>9
<1>11. /\ call' \in CallStates /\ call'.pc = "add" /\ call'.inst = i
       /\ call'.args = args /\ call'.k = 1
  BY <1>4, <1>9 DEF RegInv, Typed, CallStates, Loop
<1>12. IsInitialized(t)
  BY <1>6 DEF WellFormed, IsInitialized, NoTable
<1>13. ~PropsLocked(o) /\ ~Locked(o)
  BY <1>8 DEF PropsLocked, Locked
<1>14. /\ DOMAIN cap' = Instances /\ DOMAIN cap'[i] = DOMAIN cap[i]
       /\ cap'[i].indices = cap[i].indices
       /\ \A j \in Instances : j # i => cap'[j] = cap[j]
  BY <1>2 DEF RegInv, CapsAgree, Dangle
<1>15. DOMAIN cap'[i].indices = FixedNames
  BY <1>14 DEF RegInv, CapsAgree
<1>16. /\ \A j \in Instances : IsInitialized(obj'[j].table) => WellFormed(obj'[j].table)
       /\ LockedIndexed' /\ CapsAgree' /\ PublishedLive'
  BY <1>2, <1>6, <1>8, <1>10, <1>11, <1>12, <1>13, <1>14, <1>15, OthersKept
<1>17. Typed'
  BY <1>2, <1>10, <1>11, <1>16 DEF RegInv, Typed
<1>18. Obj' = o
  BY <1>10, <1>11 DEF Obj
<1>19. Begun'
  <2>1. 1 \in 1 .. Len(args) + 1
    BY <1>4
  <2>2. IsInitialized(o.table) /\ o.table_locked = FALSE
    BY <1>8, <1>12
  <2> QED
    BY <2>1, <2>2, <1>4, <1>11, <1>18 DEF Begun
<1>20. Faithful'
  <2>1. Taken' = 0
    BY <1>11 DEF Taken
  <2> QED
    BY <2>1, <1>6, <1>8, <1>18 DEF Faithful
<1>21. Counting' /\ Assigning' /\ Verdict'
  BY <1>11 DEF Counting, Assigning, Verdict, RegistrationVerdict
<1> QED
  BY <1>16, <1>17, <1>19, <1>20, <1>21 DEF RegInv

(* The data is put to use: the index map stays as it is.                   *)
LEMMA InitializeConstituentsKeeps ==
  ASSUME RegInv, NEW i \in Instances, InitializeConstituents(i)
  PROVE  /\ RegInv'
         /\ obj' = [obj EXCEPT ![i].vars_layer = TRUE, ![i].data_locked = TRUE]
<1> DEFINE o == [obj[i] EXCEPT !.vars_layer = TRUE, !.data_locked = TRUE]
           v == [k \in ViewsFound(obj[i]) |-> ConstIndex(obj[i], Views[k])]
<1>1. /\ Idle /\ PropsLocked(obj[i]) /\ UNCHANGED <<dyn, call>>
      /\ obj' = [obj EXCEPT ![i].vars_layer = TRUE, ![i].data_locked = TRUE]
      /\ cap' = [cap EXCEPT ![i].array = "live", ![i].views = v]
  BY DEF InitializeConstituents
<1>2. obj \in [Instances -> Objects] /\ obj[i] \in Objects /\ DOMAIN cap = Instances
      /\ DOMAIN cap[i] = {"all", "props", "props_live", "array", "views", "indices"}
  BY DEF RegInv, Typed, CapsAgree
<1>3. obj' = [obj EXCEPT ![i] = o]
  BY <1>1, <1>2
<1>4. /\ o \in Objects /\ o.table = obj[i].table /\ o.table_locked = obj[i].table_locked
      /\ o.const_metadata = obj[i].const_metadata /\ o.num_advected = obj[i].num_advected
      /\ o.vars_layer = TRUE /\ o.data_locked = TRUE
  BY <1>2 DEF Objects
<1> HIDE DEF o
<1>5. /\ obj' \in [Instances -> Objects] /\ obj'[i] = o
      /\ \A j \in Instances : j # i => obj'[j] = obj[j]
  BY <1>2, <1>3, <1>4
<1> HIDE DEF v
<1>6. /\ DOMAIN cap' = Instances /\ DOMAIN cap'[i] = DOMAIN cap[i]
      /\ cap'[i].indices = cap[i].indices /\ cap'[i].props = cap[i].props
      /\ cap'[i].props_live = cap[i].props_live
      /\ cap'[i].array = "live" /\ cap'[i].views = v
      /\ \A j \in Instances : j # i => cap'[j] = cap[j]
  BY <1>1, <1>2
<1>7. PropsLocked(o) /\ IsInitialized(o.table)
  BY <1>1, <1>4 DEF PropsLocked
<1>8. \A n : ConstIndex(o, n) = ConstIndex(obj[i], n)
  BY <1>1, <1>4, <1>7 DEF ConstIndex, FindConst
<1>9. Places(o.table) # {} /\ Indexes(o) /\ WellFormed(o.table)
  <2>1. Places(obj[i].table) # {} /\ Indexes(obj[i])
    BY <1>1 DEF RegInv, LockedIndexed
  <2>2. WellFormed(obj[i].table)
    BY <1>4, <1>7 DEF RegInv, Typed
  <2> QED
    BY <2>1, <2>2, <1>4 DEF Indexes, Indexed
<1>10. Published(i)
  BY <1>1 DEF Published, Idle
<1>11. /\ \A n \in FixedNames : cap'[i].indices[n] = ConstIndex(o, n)
       /\ DOMAIN cap'[i].indices = FixedNames
       /\ cap'[i].props_live /\ cap'[i].props = o.const_metadata
  BY <1>4, <1>6, <1>8, <1>10 DEF RegInv, CapsAgree, PublishedLive
<1>12. \A k \in DOMAIN cap'[i].views : cap'[i].views[k] = ConstIndex(o, Views[k])
  BY <1>6, <1>8 DEF v
<1>13. /\ \A j \in Instances : IsInitialized(obj'[j].table) => WellFormed(obj'[j].table)
       /\ LockedIndexed' /\ CapsAgree' /\ PublishedLive'
  <2>1. call'.pc # "publish"
    BY <1>1 DEF Idle
  <2>2. o.vars_layer /\ DOMAIN cap[i].indices = FixedNames
    BY <1>4, <1>6, <1>11
  <2>3. \A k \in DOMAIN cap'[i].views : cap'[i].views[k] = ConstIndex(obj'[i], Views[k])
    BY <1>5, <1>12
  <2>4. \A n \in FixedNames : cap'[i].indices[n] = ConstIndex(obj'[i], n)
    BY <1>5, <1>11
  <2>5. /\ IsInitialized(obj'[i].table) => WellFormed(obj'[i].table)
        /\ PropsLocked(obj'[i]) => Places(obj'[i].table) # {} /\ Indexes(obj'[i])
        /\ ~IsInitialized(obj'[i].table) => cap'[i].props = <<>> /\ cap'[i].array = "null"
    BY <1>5, <1>7, <1>9
  <2>6. /\ PropsLocked(obj'[i]) => /\ \A n \in FixedNames :
                                        cap'[i].indices[n] = ConstIndex(obj'[i], n)
                                   /\ cap'[i].props_live
                                   /\ cap'[i].props = obj'[i].const_metadata
        /\ Locked(obj'[i]) => /\ \A k \in DOMAIN cap'[i].views :
                                   cap'[i].views[k] = ConstIndex(obj'[i], Views[k])
                              /\ cap'[i].array = "live" /\ obj'[i].vars_layer
    BY <2>2, <2>3, <2>4, <1>5, <1>6, <1>11
  <2>7. /\ obj' \in [Instances -> Objects] /\ DOMAIN cap' = Instances /\ Idle
        /\ DOMAIN cap'[i] = DOMAIN cap[i] /\ DOMAIN cap'[i].indices = FixedNames
        /\ \A j \in Instances : j # i => obj'[j] = obj[j] /\ cap'[j] = cap[j]
    BY <1>1, <1>5, <1>6, <1>11
  <2> QED
    BY <2>1, <2>5, <2>6, <2>7, OthersKept
<1>14. Typed'
  BY <1>1, <1>5, <1>13 DEF RegInv, Typed
<1>15. Begun' /\ Faithful' /\ Counting' /\ Assigning'
  <2>1. call.pc \notin Loop /\ call'.pc = call.pc
    BY <1>1 DEF Idle, Loop
  <2> QED
    BY <2>1, NotUnderWay
<1>16. Verdict'
  <2>1. CASE call.pc \in {"ok", "failed"}
    <3>1. call.inst \in Instances /\ Obj = obj[call.inst] /\ Obj' = obj'[call.inst]
      BY <2>1, <1>1 DEF RegInv, Verdict, Obj
    <3>2. CASE call.inst = i
      BY <2>1, <3>1, <3>2, <1>1, <1>4, <1>5, <1>7
         DEF RegInv, Verdict, RegistrationVerdict
    <3>3. CASE call.inst # i
      BY <2>1, <3>1, <3>3, <1>1, <1>5 DEF RegInv, Verdict, RegistrationVerdict
    <3> QED
      BY <3>2, <3>3
  <2>2. CASE call.pc \notin {"ok", "failed"}
    BY <2>2, <1>1 DEF Verdict, RegistrationVerdict
  <2> QED
    BY <2>1, <2>2
<1> QED
  BY <1>1, <1>13, <1>14, <1>15, <1>16 DEF RegInv

(* deallocate_dynamic_constituents leaves nothing behind.                  *)
LEMMA DeallocateKeeps ==
  ASSUME RegInv, NEW i \in Instances, DeallocateDynamicConstituents(i)
  PROVE  /\ RegInv' /\ obj' = [obj EXCEPT ![i] = Reset(obj[i])]
<1> DEFINE o == Reset(obj[i])
           x == [NewCap EXCEPT !.indices = cap[i].indices]
<1>1. /\ Idle /\ UNCHANGED call /\ dyn' = [dyn EXCEPT ![i] = <<>>]
      /\ obj' = [obj EXCEPT ![i] = o] /\ cap' = [cap EXCEPT ![i] = x]
  BY DEF DeallocateDynamicConstituents, RegInv, Typed, CapsAgree
<1>2. obj \in [Instances -> Objects] /\ obj[i] \in Objects /\ DOMAIN cap = Instances
      /\ DOMAIN cap[i] = {"all", "props", "props_live", "array", "views", "indices"}
      /\ DOMAIN cap[i].indices = FixedNames
  BY DEF RegInv, Typed, CapsAgree
<1>3. /\ o \in Objects /\ o.table = NoTable /\ o.data_locked = obj[i].data_locked
  BY <1>2, ResetIs
<1>4. /\ DOMAIN x = DOMAIN cap[i] /\ x.props = <<>> /\ x.array = "null"
      /\ x.indices = cap[i].indices
  BY <1>2 DEF NewCap
<1> HIDE DEF o, x
<1>5. /\ obj' \in [Instances -> Objects] /\ obj'[i] = o
      /\ \A j \in Instances : j # i => obj'[j] = obj[j]
      /\ DOMAIN cap' = Instances /\ cap'[i] = x
      /\ \A j \in Instances : j # i => cap'[j] = cap[j]
  BY <1>1, <1>2, <1>3
<1>6. ~IsInitialized(o.table) /\ ~PropsLocked(o) /\ ~Locked(o)
  BY <1>3 DEF IsInitialized, PropsLocked, Locked
<1>7. /\ \A j \in Instances : IsInitialized(obj'[j].table) => WellFormed(obj'[j].table)
      /\ LockedIndexed' /\ CapsAgree' /\ PublishedLive'
  <2>1. call'.pc # "publish"
    BY <1>1 DEF Idle
  <2> QED
    BY <2>1, <1>1, <1>2, <1>4, <1>5, <1>6, OthersKept
<1>8. Typed'
  BY <1>1, <1>5, <1>7 DEF RegInv, Typed
<1>9. Begun' /\ Faithful' /\ Counting' /\ Assigning'
  <2>1. call.pc \notin Loop /\ call'.pc = call.pc
    BY <1>1 DEF Idle, Loop
  <2> QED
    BY <2>1, NotUnderWay
<1>10. Verdict'
  <2>1. CASE call.pc \in {"ok", "failed"}
    <3>1. call.inst \in Instances /\ Obj = obj[call.inst] /\ Obj' = obj'[call.inst]
      BY <2>1, <1>1 DEF RegInv, Verdict, Obj
    <3>2. CASE call.inst = i
      BY <2>1, <3>1, <3>2, <1>1, <1>3, <1>5, <1>6
         DEF RegInv, Verdict, RegistrationVerdict
    <3>3. CASE call.inst # i
      BY <2>1, <3>1, <3>3, <1>1, <1>5 DEF RegInv, Verdict, RegistrationVerdict
    <3> QED
      BY <3>2, <3>3
  <2>2. CASE call.pc \notin {"ok", "failed"}
    BY <2>2, <1>1 DEF Verdict, RegistrationVerdict
  <2> QED
    BY <2>1, <2>2
<1> QED
  BY <1>1, <1>7, <1>8, <1>9, <1>10 DEF RegInv, o

(* The initial states.                                                     *)
LEMMA InitRegInv == Init => RegInv
<1> SUFFICES ASSUME Init PROVE RegInv
  OBVIOUS
<1> USE DEF Init
<1>1. NewObj \in Objects /\ NewObj.table = NoTable
  <2>1. <<>> \in Seq(Names \cup {None}) /\ NoTable \in Tables(TableEntry)
    BY DEF NoTable, Tables
  <2> QED
    BY <2>1 DEF NewObj, Objects
<1>2. NoCall \in CallStates /\ NoCall.pc = "idle"
  BY DEF NoCall, CallStates, Iterators, AtEnd
<1>3. \A i \in Instances : ~IsInitialized(obj[i].table) /\ ~PropsLocked(obj[i]) /\ ~Locked(obj[i])
  BY <1>1 DEF IsInitialized, PropsLocked, Locked
<1>4. Typed
  BY <1>1, <1>2, <1>3 DEF Typed
<1>5. Begun /\ Faithful /\ Counting /\ Assigning /\ Verdict
  BY <1>2 DEF Begun, Faithful, Counting, Assigning, Verdict, UnderWay, Loop, RegistrationVerdict
<1>6. LockedIndexed /\ CapsAgree /\ PublishedLive
  BY <1>3 DEF LockedIndexed, CapsAgree, PublishedLive, Published, NewCap, FixedNames
<1> QED
  BY <1>4, <1>5, <1>6 DEF RegInv

(* Every step keeps the invariant.                                         *)
LEMMA NextRegInv == RegInv /\ [Next]_vars => RegInv'
<1> SUFFICES ASSUME RegInv, [Next]_vars PROVE RegInv'
  OBVIOUS
<1>1. CASE AddOne
  BY <1>1, AddOneKeeps
<1>2. CASE AddFails
  BY <1>2, AddFailsKeeps
<1>3. CASE LockTable
  BY <1>3, LockTableKeeps
<1>4. CASE Count
  BY <1>4, CountKeeps
<1>5. CASE Counted
  BY <1>5, CountedKeeps
<1>6. CASE Assign
  BY <1>6, AssignKeeps
<1>7. CASE Assigned
  BY <1>7, AssignedKeeps
<1>8. CASE Publish
  BY <1>8, PublishKeeps
<1>9. ASSUME NEW i \in Instances, CcppRegister(i) PROVE RegInv'
  BY <1>9, CcppRegisterKeeps
<1>10. ASSUME NEW i \in Instances, RegisterConstituents(i) PROVE RegInv'
  BY <1>10, RegisterConstituentsKeeps
<1>11. ASSUME NEW i \in Instances, InitializeConstituents(i) PROVE RegInv'
  BY <1>11, InitializeConstituentsKeeps
<1>12. ASSUME NEW i \in Instances, DeallocateDynamicConstituents(i) PROVE RegInv'
  BY <1>12, DeallocateKeeps
<1>13. CASE UNCHANGED vars
  BY <1>13 DEF vars, RegInv, Typed, Begun, Faithful, Taken, Counting, Assigning,
               LockedIndexed, CapsAgree, PublishedLive, Published, Verdict,
               RegistrationVerdict, UnderWay, Obj
<1> QED
  BY <1>1, <1>2, <1>3, <1>4, <1>5, <1>6, <1>7, <1>8, <1>9, <1>10, <1>11, <1>12, <1>13
     DEF Next, Registering

-----------------------------------------------------------------------------
(* The invariant of the registrations, whatever the host calls in whatever *)
(* order (constituent_cap.py over ccpp_model_constituents_t).              *)
THEOREM RegistrationInvariance == Spec => []RegInv
<1>1. Init => RegInv
  BY InitRegInv
<1>2. RegInv /\ [Next]_vars => RegInv'
  BY NextRegInv
<1> QED
  BY <1>1, <1>2, PTL DEF Spec

(* Nothing that was handed to the host dangles while the object is locked, *)
(* and nothing is left after a teardown: reset() is never run behind the   *)
(* back of a host that may use its pointers.                               *)
THEOREM PublishedStaysLive == Spec => []PublishedLive
<1>1. RegInv => PublishedLive
  BY DEF RegInv
<1> QED
  BY <1>1, RegistrationInvariance, PTL

(* register_constituents fails for a conflict, for a constituent that  *)
(* is not on layers or for locked data, for no other reason, and when it   *)
(* succeeds the table knows what it was given.                             *)
THEOREM FailsForThreeReasons == Spec => []RegistrationVerdict
<1>1. RegInv => RegistrationVerdict
  BY DEF RegInv, Verdict
<1> QED
  BY <1>1, RegistrationInvariance, PTL

(* The advected constituents are those with the first indices, so that a   *)
(* slice of the array is all of them (advected_constituents_array).        *)
AdvectedFirst ==
  \A i \in Instances :
    PropsLocked(obj[i]) =>
      \A k \in DOMAIN obj[i].const_metadata :
        FindConst(obj[i], obj[i].const_metadata[k]).prop.adv <=> k <= obj[i].num_advected

(* The map of a locked object: const_metadata lists the names in the order *)
(* of their indices, the advected first.                                   *)
LEMMA LockedMap ==
  ASSUME RegInv, NEW i \in Instances, PropsLocked(obj[i])
  PROVE  LET o == obj[i] IN
         /\ o.num_advected \in Nat /\ o.table.num_keys \in Nat /\ o.table.num_keys > 0
         /\ o.num_advected <= o.table.num_keys
         /\ Len(o.const_metadata) = o.table.num_keys
         /\ DOMAIN o.const_metadata = 1 .. o.table.num_keys
         /\ \A k \in 1 .. o.table.num_keys :
              /\ o.const_metadata[k] \in Names
              /\ ConstIndex(o, o.const_metadata[k]) = k
              /\ FindConst(o, o.const_metadata[k]).prop.adv <=> k <= o.num_advected
              /\ FindConst(o, o.const_metadata[k]).prop.layer
              /\ FindConst(o, o.const_metadata[k]).prop \in Constituent
<1> DEFINE o == obj[i]
           P == Places(o.table)
<1>1. /\ o \in Objects /\ WellFormed(o.table) /\ Indexes(o) /\ P # {}
      /\ o.const_metadata \in Seq(Names \cup {None})
  BY DEF RegInv, Typed, LockedIndexed, PropsLocked, Objects
<1>2. /\ Len(o.const_metadata) = o.table.num_keys
      /\ DOMAIN o.const_metadata = 1 .. o.table.num_keys
  BY <1>1 DEF Indexes, Indexed
<1>3. PropsLocked(o)
  OBVIOUS
<1> HIDE DEF o
<1>4. /\ o.num_advected \in Nat /\ o.table.num_keys \in Nat
      /\ o.num_advected <= o.table.num_keys /\ o.table.num_keys > 0
  <2>1. /\ IsFiniteSet(P) /\ o.table.num_keys = Cardinality(P)
        /\ o.num_advected = Cardinality(Adv(o.table, P))
    BY <1>1 DEF WellFormed, Indexes, Indexed
  <2>2. Cardinality(P) # 0
    BY <2>1, <1>1, FS_EmptySet
  <2> HIDE DEF P
  <2>3. /\ Cardinality(Adv(o.table, P)) \in Nat /\ Cardinality(P \ Adv(o.table, P)) \in Nat
        /\ Cardinality(Adv(o.table, P)) + Cardinality(P \ Adv(o.table, P)) = Cardinality(P)
    BY <2>1, AdvParts
  <2> QED
    BY <2>1, <2>2, <2>3
<1>5. ASSUME NEW k \in 1 .. o.table.num_keys
      PROVE  /\ o.const_metadata[k] \in Names
             /\ ConstIndex(o, o.const_metadata[k]) = k
             /\ FindConst(o, o.const_metadata[k]).prop.adv <=> k <= o.num_advected
             /\ FindConst(o, o.const_metadata[k]).prop.layer
             /\ FindConst(o, o.const_metadata[k]).prop \in Constituent
  <2>1. PICK p \in Places(o.table) :
          At(o.table, p).ind = k /\ o.const_metadata[k] = At(o.table, p).name
    BY <1>1, <1>3, EveryIndex
  <2>2. /\ ConstIndex(o, At(o.table, p).name) = At(o.table, p).ind
        /\ FindConst(o, At(o.table, p).name) = At(o.table, p)
        /\ At(o.table, p).name \in Names
        /\ At(o.table, p).prop.adv <=> At(o.table, p).ind <= o.num_advected
        /\ At(o.table, p).prop.layer
    BY <1>1, <1>3, IndexOf
  <2>6. At(o.table, p).prop \in Constituent
    <3>1. o.table \in Tables(TableEntry)
      BY <1>1 DEF Objects
    <3>2. At(o.table, p) \in TableEntry
      BY <3>1, InPlaces
    <3> QED
      BY <3>2 DEF TableEntry
  <2>3. ConstIndex(o, o.const_metadata[k]) = k /\ o.const_metadata[k] \in Names
    BY <2>1, <2>2
  <2>4. FindConst(o, o.const_metadata[k]) = At(o.table, p)
    BY <2>1, <2>2
  <2>5. /\ At(o.table, p).prop.adv <=> k <= o.num_advected
        /\ At(o.table, p).prop.layer /\ At(o.table, p).prop \in Constituent
    BY <2>1, <2>2, <2>6
  <2> QED
    BY <2>3, <2>4, <2>5, Zenon
<1> QED
  BY <1>2, <1>4, <1>5 DEF o

(* The hash table, const_metadata, the fixed indices and the views agree.  *)
THEOREM OneIndexMap == Spec => [](MapsAgree /\ AdvectedFirst)
<1>1. ASSUME RegInv PROVE MapsAgree /\ AdvectedFirst
  <2>1. AdvectedFirst
    BY <1>1, LockedMap DEF AdvectedFirst
  <2>2. \A i \in Instances :
          /\ Published(i) => \A n \in DOMAIN cap[i].indices :
               cap[i].indices[n] = ConstIndex(obj[i], n)
          /\ Locked(obj[i]) => \A k \in DOMAIN cap[i].views :
               cap[i].views[k] = ConstIndex(obj[i], Views[k])
    BY <1>1 DEF RegInv, CapsAgree
  <2>3. \A i \in Instances : PropsLocked(obj[i]) =>
          /\ Len(obj[i].const_metadata) = obj[i].table.num_keys
          /\ \A k \in DOMAIN obj[i].const_metadata :
               ConstIndex(obj[i], obj[i].const_metadata[k]) = k
    BY <1>1, LockedMap
  <2> QED
    BY <2>1, <2>2, <2>3 DEF MapsAgree
<1> QED
  BY <1>1, RegistrationInvariance, PTL

(* A loop over n fields that takes the first m of them, one by one.        *)
LEMMA TakesTheFirst ==
  ASSUME NEW n \in Nat, NEW m \in 0 .. n, NEW copied,
         copied[0] = <<>>,
         \A k \in 1 .. n :
           copied[k] = IF k <= m THEN Append(copied[k - 1], k) ELSE copied[k - 1]
  PROVE  copied[n] = [k \in 1 .. m |-> k]
<1> DEFINE first(k) == [l \in 1 .. (IF k <= m THEN k ELSE m) |-> l]
           wrong == {k \in 0 .. n : copied[k] # first(k)}
<1>1. first(0) = <<>>
  OBVIOUS
<1>2. \A k \in 1 .. n : first(k) = IF k <= m THEN Append(first(k - 1), k) ELSE first(k - 1)
  <2> SUFFICES ASSUME NEW k \in 1 .. n
               PROVE  first(k) = IF k <= m THEN Append(first(k - 1), k) ELSE first(k - 1)
    OBVIOUS
  <2>1. CASE k <= m
    <3>1. first(k - 1) = [l \in 1 .. (k - 1) |-> l] /\ first(k) = [l \in 1 .. k |-> l]
      BY <2>1
    <3>2. Append([l \in 1 .. (k - 1) |-> l], k) = [l \in 1 .. k |-> l]
      OBVIOUS
    <3> QED
      BY <2>1, <3>1, <3>2, Zenon
  <2>2. CASE ~(k <= m)
    <3>1. first(k - 1) = first(k)
      BY <2>2
    <3> QED
      BY <2>2, <3>1, Zenon
  <2> QED
    BY <2>1, <2>2
<1> HIDE DEF first
<1>3. \A k \in 1 .. n : copied[k - 1] = first(k - 1) => copied[k] = first(k)
  BY <1>2, Zenon
<1>4. wrong = {}
  <2> SUFFICES ASSUME wrong # {} PROVE FALSE
    OBVIOUS
  <2> DEFINE k == FirstOf(wrong)
  <2>1. wrong \subseteq Nat
    OBVIOUS
  <2> HIDE DEF wrong
  <2>2. k \in wrong /\ \A l \in wrong : k <= l
    BY <2>1, FirstOfIsLeast
  <2> HIDE DEF k
  <2>3. k \in 0 .. n /\ copied[k] # first(k)
    BY <2>2 DEF wrong
  <2>4. k \in 1 .. n /\ k - 1 \in 0 .. n /\ ~(k <= k - 1)
    BY <1>1, <2>3
  <2>5. copied[k - 1] = first(k - 1)
    BY <2>2, <2>4 DEF wrong
  <2> QED
    BY <1>3, <2>3, <2>4, <2>5
<1>5. copied[n] = first(n)
  BY <1>4
<1>6. first(n) = [k \in 1 .. m |-> k]
  BY DEF first
<1> QED
  BY <1>5, <1>6

Advected == {c \in Constituent : c.adv}

(* What copy_in copies of a locked object: the advected come first.        *)
LEMMA CopiesAdvected ==
  ASSUME RegInv, NEW i \in Instances, PropsLocked(obj[i])
  PROVE  CopyIn(obj[i], Advected) = [k \in 1 .. obj[i].num_advected |-> k]
<1> DEFINE o == obj[i]
           n == Len(o.const_metadata)
           m == o.num_advected
           prop(k) == FindConst(o, o.const_metadata[k]).prop
           fld_ind(k) == ConstIndex(o, o.const_metadata[k])
           taken(k) == prop(k) \in Advected /\ \A l \in 1 .. k :
                         ~(prop(l) \in Advected /\ (fld_ind(l) # l \/ ~prop(l).layer))
           loop(f) == [k \in 0 .. n |->
                         IF k = 0 THEN <<>>
                         ELSE IF taken(k) THEN Append(f[k - 1], fld_ind(k)) ELSE f[k - 1]]
           first(f) == [k \in 0 .. n |->
                         IF k = 0 THEN <<>>
                         ELSE IF k <= m THEN Append(f[k - 1], k) ELSE f[k - 1]]
           g == [k \in 0 .. n |-> [l \in 1 .. (IF k <= m THEN k ELSE m) |-> l]]
           copied == CHOOSE f : f = loop(f)
<1>1. /\ n \in Nat /\ m \in 0 .. n
      /\ \A k \in 1 .. n : /\ fld_ind(k) = k /\ prop(k).layer
                           /\ prop(k) \in Advected <=> k <= m
  BY LockedMap DEF Advected
<1>2. CopyIn(o, Advected) = copied[n]
  BY DEF CopyIn
<1> HIDE DEF n, m, prop, fld_ind
<1>3. \A k \in 1 .. n : taken(k) <=> k <= m
  BY <1>1
<1> HIDE DEF taken
<1>4. \A f : loop(f) = first(f)
  BY <1>1, <1>3
<1>5. g = first(g)
  <2> SUFFICES ASSUME NEW k \in 0 .. n PROVE g[k] = first(g)[k]
    OBVIOUS
  <2>1. CASE k = 0
    BY <1>1, <2>1
  <2>2. CASE k # 0 /\ k <= m
    BY <1>1, <2>2
  <2>3. CASE k # 0 /\ k > m
    BY <1>1, <2>3
  <2> QED
    BY <1>1, <2>1, <2>2, <2>3
<1> HIDE DEF g, loop
<1>6. copied = loop(copied)
  <2>1. \E f : f = loop(f)
    BY <1>4, <1>5
  <2> QED
    BY <2>1, Zenon
<1> HIDE DEF copied
<1>7. copied = first(copied)
  BY <1>4, <1>6
<1>8. /\ first(copied)[0] = <<>>
      /\ \A k \in 1 .. n : first(copied)[k] =
            IF k <= m THEN Append(copied[k - 1], k) ELSE copied[k - 1]
  BY <1>1
<1> HIDE DEF first
<1>9. copied[n] = [k \in 1 .. m |-> k]
  BY <1>1, <1>7, <1>8, TakesTheFirst
<1> QED
  BY <1>2, <1>9 DEF m

(* So the slice of the array is what copying field by field gives.         *)
THEOREM OneWayToConstituents == Spec => []IndicesAgree
<1>1. RegInv => \A i \in Instances : PropsLocked(obj[i]) =>
        CopyIn(obj[i], Advected) = [k \in 1 .. obj[i].num_advected |-> k]
  BY CopiesAdvected
<1>2. RegInv /\ MapsAgree => IndicesAgree
  BY <1>1 DEF IndicesAgree, Advected
<1> QED
  BY <1>2, OneIndexMap, RegistrationInvariance, PTL

-----------------------------------------------------------------------------
(* As many names as indices: a sequence without repetition.                *)
LEMMA AsManyNames ==
  ASSUME NEW n \in Nat, NEW s, \A k, l \in 1 .. n : s[k] = s[l] => k = l
  PROVE  Cardinality({s[k] : k \in 1 .. n}) = n
<1> DEFINE T == {s[k] : k \in 1 .. n}
           f == [k \in 1 .. n |-> s[k]]
<1>1. f \in Bijection(1 .. n, T)
  <2>1. f \in [1 .. n -> T]
    OBVIOUS
  <2>2. IsInjective(f)
    BY DEF IsInjective
  <2>3. \A t \in T : \E k \in 1 .. n : f[k] = t
    OBVIOUS
  <2> QED
    BY <2>1, <2>2, <2>3 DEF Bijection, Injection, Surjection
<1>2. ExistsBijection(1 .. n, T)
  BY <1>1 DEF ExistsBijection
<1>3. IsFiniteSet(1 .. n) /\ Cardinality(1 .. n) = n
  BY FS_Interval
<1> QED
  BY <1>2, <1>3, FS_Bijection

(* The abstract module counts with the same operator.                      *)
LEMMA SameCardinality ==
  ASSUME NEW S PROVE Abstract!Cardinality(S) = Cardinality(S)
  BY DEF Abstract!Cardinality, Cardinality

(* An object that is not locked has no map, a locked one has a packed map. *)
LEMMA MapOfObject ==
  ASSUME RegInv, NEW i \in Instances
  PROVE  /\ ~PropsLocked(obj[i]) => MapOf(obj[i]) = Abstract!NoMap
         /\ PropsLocked(obj[i]) => Abstract!IsPacked(MapOf(obj[i]))
<1>1. ASSUME ~PropsLocked(obj[i]) PROVE MapOf(obj[i]) = Abstract!NoMap
  BY <1>1 DEF MapOf, Abstract!NoMap
<1>2. ASSUME PropsLocked(obj[i]) PROVE Abstract!IsPacked(MapOf(obj[i]))
  <2> DEFINE s == obj[i].const_metadata
             n == obj[i].table.num_keys
             na == obj[i].num_advected
             f == MapOf(obj[i])
  <2>1. /\ na \in Nat /\ n \in Nat /\ n > 0 /\ na <= n
        /\ DOMAIN s = 1 .. n
        /\ \A k \in 1 .. n : /\ s[k] \in Names
                             /\ ConstIndex(obj[i], s[k]) = k
                             /\ FindConst(obj[i], s[k]).prop.adv <=> k <= na
    BY <1>2, LockedMap
  <2>2. /\ DOMAIN f = {s[k] : k \in 1 .. n}
        /\ \A x \in DOMAIN f : /\ f[x].ind = ConstIndex(obj[i], x)
                               /\ f[x].adv = FindConst(obj[i], x).prop.adv
    BY <1>2, <2>1 DEF MapOf, Range
  <2> HIDE DEF f, s, n, na
  <2>3. \A k \in 1 .. n : s[k] \in DOMAIN f /\ f[s[k]].ind = k /\ (f[s[k]].adv <=> k <= na)
    BY <2>1, <2>2
  <2>4. \A k, l \in 1 .. n : s[k] = s[l] => k = l
    BY <2>1
  <2>5. Cardinality(DOMAIN f) = n
    BY <2>1, <2>2, <2>4, AsManyNames
  <2>6. {f[x].ind : x \in DOMAIN f} = 1 .. n
    BY <2>2, <2>3
  <2>7. Abstract!Advected(f) = {s[k] : k \in 1 .. na}
    BY <2>1, <2>2, <2>3 DEF Abstract!Advected
  <2>8. Cardinality(Abstract!Advected(f)) = na
    <3>1. \A k, l \in 1 .. na : s[k] = s[l] => k = l
      BY <2>1, <2>4
    <3> QED
      BY <3>1, <2>1, <2>7, AsManyNames
  <2>9. {f[x].ind : x \in Abstract!Advected(f)} = 1 .. na
    BY <2>1, <2>3, <2>7
  <2>10. DOMAIN f \subseteq Names
    BY <2>1, <2>2
  <2>11. f # Abstract!NoMap
    <3>1. s[1] \in DOMAIN f
      BY <2>1, <2>3
    <3> QED
      BY <3>1 DEF Abstract!NoMap
  <2>12. Abstract!IsPacked(f)
    <3>1. {f[x].ind : x \in DOMAIN f} = 1 .. Abstract!Cardinality(DOMAIN f)
      BY <2>5, <2>6, SameCardinality
    <3>2. {f[x].ind : x \in Abstract!Advected(f)}
            = 1 .. Abstract!Cardinality(Abstract!Advected(f))
      BY <2>8, <2>9, SameCardinality
    <3> QED
      BY <3>1, <3>2, <2>10, <2>11, Zenon DEF Abstract!IsPacked
  <2> QED
    BY <2>12 DEF f
<1> QED
  BY <1>1, <1>2

(* A step of a registration before its end is none of the map's.           *)
LEMMA StepStutters ==
  ASSUME RegInv, RegInv', UnderWay, call.pc # "publish",
         NEW o, obj' = [obj EXCEPT ![call.inst] = o], ~o.table_locked
  PROVE  UNCHANGED Abstract!vars
<1>1. /\ obj \in [Instances -> Objects] /\ obj' \in [Instances -> Objects]
      /\ call.inst \in Instances /\ ~obj[call.inst].table_locked
  BY DEF RegInv, Typed, Begun, Obj
<1>2. ~PropsLocked(obj[call.inst]) /\ ~PropsLocked(obj'[call.inst])
  BY <1>1 DEF PropsLocked
<1>3. ASSUME NEW j \in Instances
      PROVE  MapOf(obj'[j]) = MapOf(obj[j]) /\ (Locked(obj'[j]) <=> Locked(obj[j]))
  <2>1. CASE j = call.inst
    <3>1. MapOf(obj[j]) = Abstract!NoMap
      BY <2>1, <1>2, MapOfObject
    <3>2. MapOf(obj'[j]) = Abstract!NoMap
      BY <2>1, <1>2 DEF MapOf, Abstract!NoMap
    <3> QED
      BY <2>1, <3>1, <3>2, <1>2 DEF Locked
  <2>2. CASE j # call.inst
    BY <2>2, <1>1
  <2> QED
    BY <2>1, <2>2
<1>4. [j \in Instances |-> MapOf(obj'[j])] = [j \in Instances |-> MapOf(obj[j])]
  BY <1>3
<1>5. [j \in Instances |-> Locked(obj'[j])] = [j \in Instances |-> Locked(obj[j])]
  <2>1. \A j \in Instances : Locked(obj[j]) \in BOOLEAN /\ Locked(obj'[j]) \in BOOLEAN
    BY DEF Locked, PropsLocked, DataLocked
  <2>2. \A j \in Instances : Locked(obj'[j]) = Locked(obj[j])
    BY <2>1, <1>3
  <2> QED
    BY <2>2, Zenon
<1> QED
  BY <1>4, <1>5 DEF Abstract!vars

(* The map of an instance, whenever a registration is followed.            *)
MapsPacked ==
  \A i \in Instances :
    /\ ~PropsLocked(obj[i]) => MapOf(obj[i]) = Abstract!NoMap
    /\ PropsLocked(obj[i]) => Abstract!IsPacked(MapOf(obj[i]))

(* In the abstract state an instance goes from one map to another, the     *)
(* others stay as they are.                                                *)
LEMMA OthersStay ==
  ASSUME RegInv, NEW i \in Instances, NEW o, obj' = [obj EXCEPT ![i] = o]
  PROVE  /\ obj'[i] = o
         /\ \A j \in Instances \ {i} :
              /\ [k \in Instances |-> MapOf(obj[k])]'[j]
                   = [k \in Instances |-> MapOf(obj[k])][j]
              /\ [k \in Instances |-> Locked(obj[k])]'[j]
                   = [k \in Instances |-> Locked(obj[k])][j]
<1>1. obj \in [Instances -> Objects]
  BY DEF RegInv, Typed
<1>2. obj'[i] = o /\ \A j \in Instances \ {i} : obj'[j] = obj[j]
  BY <1>1
<1>3. ASSUME NEW j \in Instances \ {i}
      PROVE  MapOf(obj'[j]) = MapOf(obj[j]) /\ Locked(obj'[j]) = Locked(obj[j])
  <2>1. obj'[j] = obj[j]
    BY <1>2
  <2> QED
    BY <2>1, Zenon
<1>4. ASSUME NEW j \in Instances \ {i}
      PROVE  [k \in Instances |-> MapOf(obj[k])]'[j]
               = [k \in Instances |-> MapOf(obj[k])][j]
  <2>1. [k \in Instances |-> MapOf(obj'[k])][j] = MapOf(obj'[j])
    OBVIOUS
  <2>2. [k \in Instances |-> MapOf(obj[k])][j] = MapOf(obj[j])
    OBVIOUS
  <2> QED
    BY <2>1, <2>2, <1>3
<1>5. ASSUME NEW j \in Instances \ {i}
      PROVE  [k \in Instances |-> Locked(obj[k])]'[j]
               = [k \in Instances |-> Locked(obj[k])][j]
  <2>1. [k \in Instances |-> Locked(obj'[k])][j] = Locked(obj'[j])
    BY Zenon
  <2>2. [k \in Instances |-> Locked(obj[k])][j] = Locked(obj[j])
    BY Zenon
  <2> QED
    BY <2>1, <2>2, <1>3, Zenon
<1> QED
  BY <1>2, <1>4, <1>5

(* The last step of a registration gives the instance its map.             *)
LEMMA AssignedRegisters ==
  ASSUME RegInv, Assigned, MapsPacked'
  PROVE  \E i \in Instances : Abstract!Register(i)
<1>1. /\ RegInv' /\ call'.pc = "publish" /\ call'.inst = call.inst
      /\ obj' = [obj EXCEPT ![call.inst] = [Obj EXCEPT !.table_locked = TRUE]]
  BY AssignedKeeps
<1>2. UnderWay /\ call.pc = "assign"
  BY DEF Assigned, UnderWay, Loop
<1>3. PICK i \in Instances : i = call.inst
  BY <1>2, ObjectUnderWay
<1> DEFINE o == [obj[i] EXCEPT !.table_locked = TRUE]
<1>4. obj' = [obj EXCEPT ![i] = o] /\ obj[i] \in Objects
  BY <1>1, <1>3 DEF Obj, RegInv, Typed
<1>5. /\ IsInitialized(obj[i].table) /\ ~obj[i].table_locked /\ ~obj[i].data_locked
  BY <1>2, <1>3 DEF RegInv, Begun, Obj
<1>6. o.table = obj[i].table /\ o.table_locked /\ o.data_locked = obj[i].data_locked
  BY <1>4 DEF Objects
<1>7. obj'[i] = o
  BY <1>4, OthersStay
<1>8. ~PropsLocked(obj[i]) /\ PropsLocked(obj'[i]) /\ ~Locked(obj'[i])
  BY <1>5, <1>6, <1>7 DEF PropsLocked, DataLocked, Locked
<1>9. MapOf(obj[i]) = Abstract!NoMap
  BY <1>8, MapOfObject
<1>10. Abstract!IsPacked(MapOf(obj'[i]))
  BY <1>8 DEF MapsPacked
<1>11. Abstract!Others(i)
  BY <1>4, OthersStay DEF Abstract!Others
<1>12. Abstract!Register(i)
  BY <1>8, <1>9, <1>10, <1>11 DEF Abstract!Register
<1> QED
  BY <1>12

(* The data of an instance comes into use without a change of its map.     *)
LEMMA InitializeMakesReady ==
  ASSUME RegInv, NEW i \in Instances, InitializeConstituents(i)
  PROVE  Abstract!MakeReady(i)
<1> DEFINE w == [obj[i] EXCEPT !.vars_layer = TRUE]
           o == [w EXCEPT !.data_locked = TRUE]
<1>1. obj' = [obj EXCEPT ![i].vars_layer = TRUE, ![i].data_locked = TRUE]
  BY InitializeConstituentsKeeps
<1>2. PropsLocked(obj[i]) /\ ~DataLocked(obj[i])
  BY DEF InitializeConstituents
<1>3. obj \in [Instances -> Objects] /\ obj[i] \in Objects
  BY DEF RegInv, Typed
<1>4. obj' = [obj EXCEPT ![i] = o]
  BY <1>1, <1>3
<1>5. /\ w \in Objects /\ w.table = obj[i].table /\ w.table_locked = obj[i].table_locked
      /\ w.const_metadata = obj[i].const_metadata
  BY <1>3 DEF Objects
<1>6. /\ o.table = obj[i].table /\ o.table_locked = obj[i].table_locked
      /\ o.const_metadata = obj[i].const_metadata /\ o.data_locked
  <2> HIDE DEF w
  <2>1. /\ o.table = w.table /\ o.table_locked = w.table_locked
        /\ o.const_metadata = w.const_metadata /\ o.data_locked
    BY <1>5 DEF Objects
  <2> QED
    BY <2>1, <1>5
<1> HIDE DEF o
<1>7. obj'[i] = o
  BY <1>4, OthersStay
<1>8. PropsLocked(o) /\ Locked(o) /\ ~Locked(obj[i])
  BY <1>2, <1>6 DEF PropsLocked, DataLocked, Locked
<1>9. MapOf(o) = MapOf(obj[i])
  <2>1. \A n : ConstIndex(o, n) = ConstIndex(obj[i], n)
    BY <1>2, <1>6, <1>8 DEF ConstIndex, FindConst
  <2>2. \A n : FindConst(o, n) = FindConst(obj[i], n)
    BY <1>6 DEF FindConst
  <2>3. PropsLocked(o) = PropsLocked(obj[i])
    BY <1>2, <1>6 DEF PropsLocked
  <2> QED
    BY <2>1, <2>2, <2>3, <1>2, <1>6, <1>8 DEF MapOf
<1>10. MapOf(obj[i]) # Abstract!NoMap
  BY <1>2, MapOfObject DEF Abstract!IsPacked
<1>11. Abstract!Others(i)
  BY <1>4, OthersStay DEF Abstract!Others
<1> QED
  BY <1>7, <1>8, <1>9, <1>10, <1>11 DEF Abstract!MakeReady

(* What takes the lock of an instance away takes its map.                  *)
LEMMA UnlockingDrops ==
  ASSUME RegInv, NEW i \in Instances, NEW o, obj' = [obj EXCEPT ![i] = o], ~PropsLocked(o)
  PROVE  Abstract!Drop(i)
<1>1. obj'[i] = o /\ Abstract!Others(i)
  BY OthersStay DEF Abstract!Others
<1>2. MapOf(obj'[i]) = Abstract!NoMap
  BY <1>1 DEF MapOf, Abstract!NoMap
<1>3. ~Locked(obj'[i])
  BY <1>1 DEF Locked
<1> QED
  BY <1>1, <1>2, <1>3 DEF Abstract!Drop

(* A step that leaves the objects alone leaves the maps alone.             *)
LEMMA SameObjects ==
  ASSUME UNCHANGED obj PROVE UNCHANGED Abstract!vars
BY DEF Abstract!vars

(* A step of a registration before its end locks no table.                 *)
LEMMA UnlockedUnderWay ==
  ASSUME RegInv, AddOne \/ LockTable \/ Count \/ Assign
  PROVE  /\ UnderWay /\ call.pc # "publish"
         /\ \E o : obj' = [obj EXCEPT ![call.inst] = o] /\ ~o.table_locked
<1>1. UnderWay /\ call.pc # "publish"
  BY DEF AddOne, Adding, LockTable, Count, Assign, UnderWay, Loop
<1>2. PICK i \in Instances : i = call.inst
  BY <1>1, ObjectUnderWay
<1>3. Obj \in Objects /\ ~Obj.table_locked
  BY <1>1 DEF RegInv, Typed, Begun, Obj
<1>4. CASE AddOne
  <2> DEFINE o == NewField(Obj, Arg)
  <2>1. obj' = [obj EXCEPT ![call.inst] = o]
    BY <1>4 DEF AddOne, SetObj
  <2>2. ~o.table_locked
    BY <1>3 DEF NewField, Objects
  <2> QED
    BY <1>1, <2>1, <2>2
<1>5. CASE LockTable
  <2> DEFINE r == ResetArrays(Obj)
             q == [r EXCEPT !.num_advected = 0]
             o == [r EXCEPT !.num_advected = 0,
                     !.const_metadata = [k \in 1 .. Obj.table.num_keys |-> None]]
  <2>1. obj' = [obj EXCEPT ![call.inst] = o]
    BY <1>5 DEF LockTable, SetObj
  <2>2. r.table_locked = Obj.table_locked /\ DOMAIN r = DOMAIN Obj
    BY <1>3 DEF ResetArrays, Objects
  <2>3. "table_locked" \in DOMAIN r
    BY <1>3, <2>2 DEF Objects
  <2> HIDE DEF r
  <2>4. o.table_locked = r.table_locked
    BY <2>3
  <2> QED
    BY <1>1, <1>3, <2>1, <2>2, <2>4
<1>6. CASE Count
  <2> DEFINE o == [Obj EXCEPT !.num_advected = Obj.num_advected + Increment(Visited.prop.adv)]
  <2>1. obj' = [obj EXCEPT ![call.inst] = o]
    BY <1>3, <1>6 DEF Count, SetObj, Objects
  <2>2. ~o.table_locked
    BY <1>3 DEF Objects
  <2> QED
    BY <1>1, <2>1, <2>2
<1>7. CASE Assign
  <2>1. obj' = [obj EXCEPT ![i] = obj'[i]] /\ obj'[i].table_locked = Obj.table_locked
    BY <1>2, <1>7, AssignDoes
  <2> QED
    BY <1>1, <1>2, <1>3, <2>1
<1> QED
  BY <1>4, <1>5, <1>6, <1>7

(* Each step of the constituents is a step of their maps, or none.         *)
LEMMA StepOfMaps ==
  ASSUME RegInv, RegInv', MapsPacked', [Next]_vars
  PROVE  [Abstract!Next]_(Abstract!vars)
<1>1. CASE AddOne \/ LockTable \/ Count \/ Assign
  BY <1>1, UnlockedUnderWay, StepStutters
<1>2. CASE AddFails \/ Counted \/ Publish
  <2>1. UNCHANGED obj
    BY <1>2 DEF AddFails, Counted, Publish
  <2> QED
    BY <2>1, SameObjects
<1>3. CASE Assigned
  BY <1>3, AssignedRegisters DEF Abstract!Next
<1>4. ASSUME NEW i \in Instances, CcppRegister(i)
      PROVE  UNCHANGED Abstract!vars
  <2>1. UNCHANGED obj
    BY <1>4 DEF CcppRegister
  <2> QED
    BY <2>1, SameObjects
<1>5. ASSUME NEW i \in Instances, RegisterConstituents(i)
      PROVE  Abstract!Drop(i)
  <2>1. PICK h \in HostChoices :
          obj' = [obj EXCEPT ![i] = InitializeTable(obj[i], Len(h \o dyn[i] \o Fixed))]
    BY <1>5 DEF RegisterConstituents, RegInv, Typed
  <2> DEFINE n == Len(h \o dyn[i] \o Fixed)
             r == Reset(obj[i])
             q == [r EXCEPT !.table = EmptyTable(TableBits(n))]
             o == [r EXCEPT !.table = EmptyTable(TableBits(n)), !.table_locked = FALSE]
  <2>2. obj' = [obj EXCEPT ![i] = o]
    BY <2>1 DEF InitializeTable
  <2>3. r \in Objects
    BY ResetIs DEF RegInv, Typed
  <2>4. ~o.table_locked
    <3> HIDE DEF r
    <3> QED
      BY <2>3 DEF Objects
  <2> HIDE DEF o
  <2>5. ~PropsLocked(o)
    BY <2>4 DEF PropsLocked
  <2> QED
    BY <1>5, <2>2, <2>5, UnlockingDrops
<1>6. ASSUME NEW i \in Instances, InitializeConstituents(i)
      PROVE  Abstract!MakeReady(i)
  BY <1>6, InitializeMakesReady
<1>7. ASSUME NEW i \in Instances, DeallocateDynamicConstituents(i)
      PROVE  Abstract!Drop(i)
  <2>1. obj' = [obj EXCEPT ![i] = Reset(obj[i])]
    BY <1>7, DeallocateKeeps
  <2>2. Reset(obj[i]).table = NoTable
    BY ResetIs DEF RegInv, Typed
  <2>3. ~PropsLocked(Reset(obj[i]))
    BY <2>2 DEF PropsLocked, IsInitialized
  <2> QED
    BY <2>1, <2>3, UnlockingDrops
<1>8. CASE UNCHANGED vars
  <2>1. UNCHANGED obj
    BY <1>8 DEF vars
  <2> QED
    BY <2>1, SameObjects
<1> QED
  BY <1>1, <1>2, <1>3, <1>4, <1>5, <1>6, <1>7, <1>8 DEF Next, Registering, Abstract!Next

(* The maps of the instances start as the abstract ones do.                *)
LEMMA InitOfMaps == Init => Abstract!Init
<1> SUFFICES ASSUME Init PROVE Abstract!Init
  OBVIOUS
<1>1. \A i \in Instances : ~PropsLocked(obj[i]) /\ Locked(obj[i]) = FALSE
  BY DEF Init, NewObj, PropsLocked, Locked, DataLocked
<1>2. \A i \in Instances : MapOf(obj[i]) = Abstract!NoMap
  BY <1>1 DEF MapOf, Abstract!NoMap
<1>3. [i \in Instances |-> MapOf(obj[i])] = [i \in Instances |-> Abstract!NoMap]
  BY <1>2
<1>4. [i \in Instances |-> Locked(obj[i])] = [i \in Instances |-> FALSE]
  BY <1>1, Zenon
<1> QED
  BY <1>3, <1>4 DEF Abstract!Init

(* The constituents of the instances keep the index maps the abstract      *)
(* specification promises: none until a registration is over, then one     *)
(* that numbers the constituents from 1, the advected ones first, and that *)
(* stays until the next registration or the teardown.                      *)
THEOREM KeepsIndexMaps == Spec => ImplementsConstituentMap
<1>1. RegInv => MapsPacked
  BY MapOfObject DEF MapsPacked
<1>2. RegInv /\ RegInv' /\ MapsPacked' /\ [Next]_vars => [Abstract!Next]_(Abstract!vars)
  BY StepOfMaps
<1> QED
  BY <1>1, <1>2, InitOfMaps, RegistrationInvariance, PTL
     DEF Spec, ImplementsConstituentMap, Abstract!Spec

-----------------------------------------------------------------------------
(***************************************************************************)
(* The index of a constituent depends on nothing but the list that was     *)
(* registered.                                                             *)
(***************************************************************************)

(* The index that the list args gives to its constituent k, the first of   *)
(* its name: its rank among those advected alike, by bucket and then by    *)
(* place in the list, behind the advected ones if it is not.               *)
Firsts(args) == {k \in DOMAIN args : FirstNamed(args, args[k].name) = k}
BucketIn(args, k) == (Hash[args[k].name] % 2 ^ TableBits(Len(args))) + 1
NotAfter(args, j, k) ==
  \/ BucketIn(args, j) < BucketIn(args, k)
  \/ BucketIn(args, j) = BucketIn(args, k) /\ j <= k
UpTo(args, k) ==
  {j \in Firsts(args) : (args[j].adv <=> args[k].adv) /\ NotAfter(args, j, k)}
AdvFirsts(args) == {j \in Firsts(args) : args[j].adv}
IndexIn(args, k) ==
  IF args[k].adv THEN Cardinality(UpTo(args, k))
  ELSE Cardinality(AdvFirsts(args)) + Cardinality(UpTo(args, k))

(* The table has the size the list asks for, and the chains are in the     *)
(* order of the list.                                                      *)
FirstAt(args, t, p) == FirstNamed(args, At(t, p).name)
InListOrder(args, t) ==
  /\ TableSize(t) = 2 ^ TableBits(Len(args))
  /\ \A p, q \in Places(t) :
       p[1] = q[1] /\ p[2] < q[2] => FirstAt(args, t, p) < FirstAt(args, t, q)
ByList(args, t, S) == \A p \in S : At(t, p).ind = IndexIn(args, FirstAt(args, t, p))

Ordered ==
  UnderWay =>
    /\ InListOrder(call.args, Obj.table)
    /\ call.pc = "assign" => ByList(call.args, Obj.table, Seen(Obj.table, call.it))
    /\ call.pc = "publish" => ByList(call.args, Obj.table, Places(Obj.table))

(* What was published was numbered by the list, and has its names.         *)
Numbered(args, t) ==
  /\ ByList(args, t, Places(t))
  /\ \A k \in DOMAIN args : \E p \in Places(t) : At(t, p).name = args[k].name
  /\ \A p \in Places(t) : \E k \in DOMAIN args : At(t, p).name = args[k].name
ListedNumbered ==
  /\ DOMAIN listed = Instances
  /\ \A i \in Instances : Published(i) => Numbered(listed[i], obj[i].table)

(* The schemes have the list of an instance that is published.             *)
HandedOver ==
  /\ DOMAIN utils = {"inst", "names", "live"}
  /\ utils.inst # 0 /\ utils.live =>
       /\ utils.inst \in Instances /\ Published(utils.inst)
       /\ utils.names = obj[utils.inst].const_metadata

OrderInv == Ordered /\ ListedNumbered /\ HandedOver

(* Sets that a function maps onto each other one to one are equally large. *)
LEMMA SameCount ==
  ASSUME NEW A, NEW B, IsFiniteSet(A), NEW f \in [A -> B],
         \A x, y \in A : f[x] = f[y] => x = y,
         \A z \in B : \E x \in A : f[x] = z
  PROVE  IsFiniteSet(B) /\ Cardinality(B) = Cardinality(A)
<1>1. f \in Bijection(A, B)
  BY DEF Bijection, Injection, Surjection, IsInjective
<1>2. ExistsBijection(A, B)
  BY <1>1 DEF ExistsBijection
<1> QED
  BY <1>2, FS_Bijection

(* Once all are added, the places of the table are the first constituents  *)
(* of the names of the list, one for one.                                  *)
LEMMA PlacesAreFirsts ==
  ASSUME RegInv, UnderWay, Taken = Len(call.args)
  PROVE  LET args == call.args
             t == Obj.table IN
         /\ \A q \in Places(t) : /\ FirstAt(args, t, q) \in Firsts(args)
                                 /\ args[FirstAt(args, t, q)] = At(t, q).prop
                                 /\ args[FirstAt(args, t, q)].name = At(t, q).name
         /\ \A q, r \in Places(t) : FirstAt(args, t, q) = FirstAt(args, t, r) => q = r
         /\ \A k \in Firsts(args) : \E q \in Places(t) : FirstAt(args, t, q) = k
<1> DEFINE args == call.args
           t == Obj.table
<1>1. /\ WellFormed(t) /\ t \in Tables(TableEntry)
      /\ Len(args) \in Nat /\ DOMAIN args = 1 .. Len(args)
  BY ObjectUnderWay
<1>2. ASSUME NEW q \in Places(t)
      PROVE  /\ FirstAt(args, t, q) \in Firsts(args)
             /\ args[FirstAt(args, t, q)] = At(t, q).prop
             /\ args[FirstAt(args, t, q)].name = At(t, q).name
  <2>1. /\ FirstNamed(args, At(t, q).name) \in 1 .. Len(args)
        /\ At(t, q).prop = args[FirstNamed(args, At(t, q).name)]
    BY DEF RegInv, Faithful
  <2>2. At(t, q) \in TableEntry
    BY <1>1, InPlaces
  <2>3. At(t, q).prop.name = At(t, q).name
    BY <2>2 DEF TableEntry
  <2> HIDE DEF args, t
  <2> QED
    BY <1>1, <2>1, <2>3 DEF Firsts, FirstAt
<1>3. ASSUME NEW q \in Places(t), NEW r \in Places(t),
             FirstAt(args, t, q) = FirstAt(args, t, r)
      PROVE  q = r
  <2>1. At(t, q).name = At(t, r).name
    BY <1>2, <1>3
  <2> QED
    BY <2>1, <1>1 DEF WellFormed
<1>4. ASSUME NEW k \in Firsts(args)
      PROVE  \E q \in Places(t) : FirstAt(args, t, q) = k
  <2>1. k \in 1 .. Len(args) /\ FirstNamed(args, args[k].name) = k
    BY <1>1 DEF Firsts
  <2>2. PICK q \in Places(t) : At(t, q).name = args[k].name
    BY <2>1 DEF RegInv, Faithful
  <2> QED
    BY <2>1, <2>2 DEF FirstAt
<1> QED
  BY <1>2, <1>3, <1>4

(* The places up to one in the order of the iterator.                      *)
PlacesTo(t, p) ==
  {q \in Places(t) : \/ q[1] < p[1]
                     \/ q[1] = p[1] /\ q[2] <= p[2]}

(* What has been gone past with the entry that comes next.                 *)
LEMMA SeenTo ==
  ASSUME NEW E, NEW t \in Tables(E), NEW it \in Iterators, IterValid(it),
         Place(it) \in Places(t)
  PROVE  Seen(t, it) \cup {Place(it)} = PlacesTo(t, Place(it))
<1> DEFINE p == Place(it)
<1>1. p[1] = it.bucket /\ p[2] = it.place /\ it.bucket \in Nat /\ it.place \in Nat
  BY DEF Place, Iterators
<1>2. \A q \in Places(t) : q = <<q[1], q[2]>> /\ q[1] \in Nat /\ q[2] \in Nat
  BY InPlaces
<1>3. ASSUME NEW q \in Places(t)
      PROVE  q \in Seen(t, it) \/ q = p <=> q \in PlacesTo(t, p)
  <2>1. q = p <=> q[1] = p[1] /\ q[2] = p[2]
    BY <1>1, <1>2
  <2> HIDE DEF p
  <2> QED
    BY <2>1, <1>1, <1>2 DEF Seen, PlacesTo
<1> QED
  BY <1>3 DEF Seen, PlacesTo

(* So the index that comes next at a place is a count in the list.         *)
LEMMA RankIs ==
  ASSUME RegInv, UnderWay, Taken = Len(call.args),
         InListOrder(call.args, Obj.table), NEW p \in Places(Obj.table)
  PROVE  LET args == call.args
             t == Obj.table
             alike == {q \in PlacesTo(t, p) : At(t, q).prop.adv <=> At(t, p).prop.adv} IN
         /\ Cardinality(alike) = Cardinality(UpTo(args, FirstAt(args, t, p)))
         /\ Cardinality(Adv(t, Places(t))) = Cardinality(AdvFirsts(args))
<1> DEFINE args == call.args
           t == Obj.table
           F(q) == FirstAt(args, t, q)
           alike == {q \in PlacesTo(t, p) : At(t, q).prop.adv <=> At(t, p).prop.adv}
<1>1. /\ WellFormed(t) /\ t \in Tables(TableEntry) /\ IsFiniteSet(Places(t))
      /\ DOMAIN args = 1 .. Len(args)
  BY ObjectUnderWay DEF WellFormed
<1>2. /\ \A q \in Places(t) : /\ F(q) \in Firsts(args)
                              /\ args[F(q)] = At(t, q).prop
                              /\ args[F(q)].name = At(t, q).name
      /\ \A q, r \in Places(t) : F(q) = F(r) => q = r
      /\ \A k \in Firsts(args) : \E q \in Places(t) : F(q) = k
  BY PlacesAreFirsts
<1>3. \A q \in Places(t) : /\ q = <<q[1], q[2]>> /\ q[1] \in Nat /\ q[2] \in Nat
  BY <1>1, InPlaces
<1>4. \A q \in Places(t) : BucketIn(args, F(q)) = q[1] /\ F(q) \in Nat
  <2> SUFFICES ASSUME NEW q \in Places(t)
               PROVE  BucketIn(args, F(q)) = q[1] /\ F(q) \in Nat
    OBVIOUS
  <2>1. KeyHash(t, At(t, q).name) = q[1]
    BY <1>1 DEF WellFormed
  <2>2. args[F(q)].name = At(t, q).name /\ F(q) \in Firsts(args)
    BY <1>2
  <2>3. TableSize(t) = 2 ^ TableBits(Len(args))
    BY DEF InListOrder
  <2>4. F(q) \in Nat
    BY <2>2, <1>1 DEF Firsts
  <2> HIDE DEF args, t, F
  <2> QED
    BY <2>1, <2>2, <2>3, <2>4 DEF KeyHash, BucketIn
<1>5. \A q, r \in Places(t) : q[1] = r[1] /\ q[2] < r[2] => F(q) < F(r)
  BY DEF InListOrder
<1> HIDE DEF args, t, F
<1>6. Cardinality(UpTo(args, F(p))) = Cardinality(alike)
  <2> DEFINE B == UpTo(args, F(p))
             f == [q \in alike |-> F(q)]
  <2>1. alike \subseteq Places(t) /\ IsFiniteSet(alike)
    <3>1. alike \subseteq Places(t)
      BY DEF PlacesTo
    <3> QED
      BY <3>1, <1>1, FS_Subset
  <2>2. ASSUME NEW q \in alike PROVE F(q) \in B
    <3>1. q \in Places(t) /\ p \in Places(t)
      BY <2>1 DEF t
    <3>2. args[F(q)].adv <=> args[F(p)].adv
      BY <3>1, <1>2
    <3>3. NotAfter(args, F(q), F(p))
      <4>1. CASE q[1] < p[1]
        BY <4>1, <3>1, <1>4 DEF NotAfter
      <4>2. CASE q[1] = p[1] /\ q[2] < p[2]
        BY <4>2, <3>1, <1>4, <1>5 DEF NotAfter
      <4>3. CASE q[1] = p[1] /\ q[2] = p[2]
        BY <4>3, <3>1, <1>3, <1>4 DEF NotAfter
      <4> QED
        BY <4>1, <4>2, <4>3, <3>1, <1>3 DEF PlacesTo
    <3>4. F(q) \in Firsts(args)
      BY <3>1, <1>2
    <3> QED
      BY <3>2, <3>3, <3>4 DEF UpTo
  <2>3. ASSUME NEW k \in B PROVE \E q \in alike : F(q) = k
    <3>1. k \in Firsts(args) /\ (args[k].adv <=> args[F(p)].adv) /\ NotAfter(args, k, F(p))
      BY DEF UpTo
    <3>2. PICK q \in Places(t) : F(q) = k
      BY <3>1, <1>2
    <3>3. p \in Places(t)
      BY DEF t
    <3>4. At(t, q).prop.adv <=> At(t, p).prop.adv
      BY <3>1, <3>2, <3>3, <1>2
    <3>5. q \in PlacesTo(t, p)
      <4>1. \/ q[1] < p[1]
            \/ q[1] = p[1] /\ F(q) <= F(p)
        BY <3>1, <3>2, <3>3, <1>4 DEF NotAfter
      <4>2. ASSUME q[1] = p[1], F(q) <= F(p) PROVE q[2] <= p[2]
        <5> SUFFICES ASSUME p[2] < q[2] PROVE FALSE
          BY <3>2, <3>3, <1>3
        <5>1. F(p) < F(q)
          BY <4>2, <3>2, <3>3, <1>5
        <5> QED
          BY <5>1, <4>2, <3>2, <3>3, <1>4
      <4> QED
        BY <4>1, <4>2, <3>2 DEF PlacesTo
    <3> QED
      BY <3>2, <3>4, <3>5
  <2>4. f \in [alike -> B] /\ \A q \in alike : f[q] = F(q)
    BY <2>2
  <2> HIDE DEF f, B, alike
  <2>5. \A x, y \in alike : f[x] = f[y] => x = y
    BY <2>1, <2>4, <1>2
  <2>6. \A z \in B : \E x \in alike : f[x] = z
    BY <2>3, <2>4
  <2>7. Cardinality(B) = Cardinality(alike)
    BY <2>1, <2>4, <2>5, <2>6, SameCount
  <2> QED
    BY <2>7 DEF B
<1>7. Cardinality(AdvFirsts(args)) = Cardinality(Adv(t, Places(t)))
  <2> DEFINE A == Adv(t, Places(t))
             B == AdvFirsts(args)
             f == [q \in A |-> F(q)]
  <2>1. A \subseteq Places(t) /\ IsFiniteSet(A)
    <3>1. A \subseteq Places(t)
      BY DEF Adv
    <3> QED
      BY <3>1, <1>1, FS_Subset
  <2>2. ASSUME NEW q \in A PROVE F(q) \in B
    BY <2>1, <1>2 DEF AdvFirsts, Adv
  <2>3. ASSUME NEW k \in B PROVE \E q \in A : F(q) = k
    <3>1. k \in Firsts(args) /\ args[k].adv
      BY DEF AdvFirsts
    <3>2. PICK q \in Places(t) : F(q) = k
      BY <3>1, <1>2
    <3>3. q \in A
      BY <3>1, <3>2, <1>2 DEF Adv
    <3> QED
      BY <3>2, <3>3
  <2>4. f \in [A -> B] /\ \A q \in A : f[q] = F(q)
    BY <2>2
  <2> HIDE DEF f, A, B
  <2>5. \A x, y \in A : f[x] = f[y] => x = y
    BY <2>1, <2>4, <1>2
  <2>6. \A z \in B : \E x \in A : f[x] = z
    BY <2>3, <2>4
  <2>7. Cardinality(B) = Cardinality(A)
    BY <2>1, <2>4, <2>5, <2>6, SameCount
  <2> QED
    BY <2>7 DEF A, B
<1> QED
  BY <1>6, <1>7 DEF args, t, F

(* Tables with the same buckets have the same size.                        *)
LEMMA SameSize ==
  ASSUME NEW E, NEW t \in Tables(E), NEW u \in Tables(E), DOMAIN u.chain = DOMAIN t.chain
  PROVE  TableSize(u) = TableSize(t)
<1>1. /\ t.chain \in Seq(Seq(E)) /\ u.chain \in Seq(Seq(E))
  BY DEF Tables
<1> QED
  BY <1>1 DEF TableSize

(* What a registration under way keeps of what others have published.      *)
LEMMA OrderUnderWay ==
  ASSUME RegInv, OrderInv, UnderWay, NEW i \in Instances, i = call.inst,
         NEW o, obj' = [obj EXCEPT ![i] = o],
         o.table_locked => call'.pc = "publish", call'.inst = i,
         UNCHANGED <<utils, listed>>
  PROVE  ListedNumbered' /\ HandedOver'
<1>1. obj \in [Instances -> Objects]
  BY DEF RegInv, Typed
<1>2. obj'[i] = o /\ \A j \in Instances : j # i => obj'[j] = obj[j]
  BY <1>1
<1>3. ~Published(i) /\ ~Published(i)'
  <2>1. ~Published(i)
    BY DEF RegInv, Begun, Obj, Published, PropsLocked
  <2>2. ~Published(i)'
    BY <1>2 DEF Published, PropsLocked
  <2> QED
    BY <2>1, <2>2
<1>4. \A j \in Instances : j # i => (Published(j)' <=> Published(j))
  BY <1>2 DEF Published
<1>5. ListedNumbered'
  <2> SUFFICES ASSUME NEW j \in Instances, Published(j)'
               PROVE  Numbered(listed[j], obj'[j].table)
    BY DEF OrderInv, ListedNumbered
  <2>1. j # i /\ Published(j) /\ obj'[j] = obj[j]
    BY <1>2, <1>3, <1>4
  <2> QED
    BY <2>1 DEF OrderInv, ListedNumbered
<1>6. HandedOver'
  <2> SUFFICES ASSUME utils.inst # 0, utils.live
               PROVE  /\ utils.inst \in Instances /\ Published(utils.inst)'
                      /\ utils.names = obj'[utils.inst].const_metadata
    BY DEF OrderInv, HandedOver
  <2>1. PICK j \in Instances : j = utils.inst
    BY DEF OrderInv, HandedOver
  <2>2. Published(j) /\ utils.names = obj[j].const_metadata
    BY <2>1 DEF OrderInv, HandedOver
  <2>3. j # i /\ obj'[j] = obj[j] /\ Published(j)'
    BY <2>2, <1>2, <1>3, <1>4
  <2>4. Published(utils.inst)'
    BY <2>1, <2>3 DEF Published
  <2> QED
    BY <2>1, <2>2, <2>3, <2>4
<1> QED
  BY <1>5, <1>6

(* A step of a registration that leaves its table as it is.                *)
LEMMA SameOrder ==
  ASSUME RegInv, OrderInv, UnderWay, NEW i \in Instances, i = call.inst,
         NEW o, obj' = [obj EXCEPT ![i] = o], o.table = Obj.table,
         o.table_locked => call'.pc = "publish", call'.inst = i, call'.args = call.args,
         UNCHANGED <<utils, listed>>,
         call'.pc = "assign" => Seen(Obj.table, call'.it) = {},
         call'.pc = "publish" => call.pc = "assign" /\ ~IterValid(call.it)
  PROVE  OrderInv'
<1>1. Obj' = o
  BY DEF Obj, RegInv, Typed
<1>2. Ordered'
  <2>1. InListOrder(call.args, Obj.table)
    BY DEF OrderInv, Ordered
  <2>2. call'.pc = "publish" => ByList(call.args, Obj.table, Places(Obj.table))
    BY SeenAtEnd DEF OrderInv, Ordered
  <2>3. call'.pc = "assign" => ByList(call.args, Obj.table, Seen(Obj.table, call'.it))
    BY DEF ByList
  <2> QED
    BY <2>1, <2>2, <2>3, <1>1 DEF Ordered
<1> QED
  BY <1>2, OrderUnderWay DEF OrderInv

(* A new entry is the last of its chain, and of its list so far.           *)
LEMMA AddOneInOrder ==
  ASSUME RegInv, OrderInv, AddOne
  PROVE  OrderInv'
<1> DEFINE args == call.args
           k == call.k
           t == Obj.table
           c == args[k]
           e == Entry(c)
           u == AddHashKey(t, e)
           o == NewField(Obj, c)
<1>1. UnderWay /\ call.pc = "add" /\ k <= Len(args)
  BY DEF AddOne, Adding, UnderWay, Loop
<1>2. PICK i \in Instances : i = call.inst
  BY <1>1, ObjectUnderWay
<1>3. /\ Obj = obj[i] /\ Obj \in Objects /\ WellFormed(t) /\ t \in Tables(TableEntry)
      /\ args \in Seq(Constituent) /\ Len(args) \in Nat /\ DOMAIN args = 1 .. Len(args)
  BY <1>1, <1>2, ObjectUnderWay
<1>4. k \in 1 .. Len(args) /\ c = Arg /\ c \in Constituent /\ Taken = k - 1
  BY <1>1, <1>3 DEF RegInv, Begun, Arg, Taken
<1>5. e \in TableEntry /\ e.name = c.name /\ c.name \in Names
  BY <1>4, ConstituentAssumption DEF Entry, TableEntry, Unassigned
<1>6. /\ obj' = [obj EXCEPT ![i] = o]
      /\ call' = [call EXCEPT !.k = k + 1] /\ UNCHANGED <<utils, listed>>
  BY <1>2, <1>4 DEF AddOne, SetObj
<1>7. o.table = u /\ ~o.table_locked
  BY <1>1, <1>3 DEF NewField, Objects, RegInv, Begun
<1>8. call'.pc = "add" /\ call'.inst = i /\ call'.args = args
  BY <1>1, <1>2, <1>6 DEF RegInv, Typed, CallStates
<1>9. Obj' = o
  BY <1>3, <1>6, <1>8 DEF Obj, RegInv, Typed
<1>10. InListOrder(args, t)
  BY <1>1 DEF OrderInv, Ordered
<1>11. \A p \in Places(t) : FirstAt(args, t, p) \in 1 .. k - 1
  BY <1>1, <1>4 DEF RegInv, Faithful, FirstAt
<1>12. InListOrder(args, u)
  <2>1. CASE HasKey(t, c.name)
    BY <2>1, <1>5, <1>10 DEF AddHashKey
  <2>2. CASE ~HasKey(t, c.name)
    <3> DEFINE q == <<KeyHash(t, e.name), Len(t.chain[KeyHash(t, e.name)]) + 1>>
               f == FirstNamed(args, c.name)
    <3>1. f \in 1 .. Len(args) /\ f <= k /\ args[f].name = c.name
      BY <1>3, <1>4, FirstNamedIs
    <3>2. f = k
      <4> SUFFICES ASSUME f # k PROVE HasKey(t, c.name)
        BY <2>2
      <4>1. f \in 1 .. Taken
        BY <1>3, <1>4, <3>1
      <4>2. \E p \in Places(t) : At(t, p).name = c.name
        BY <4>1, <3>1, <1>1 DEF RegInv, Faithful
      <4> QED
        BY <4>2, <1>3, <1>5, Lookup, EntriesNamed
    <3>11. t \in Tables(TableEntry) /\ WellFormed(t) /\ e \in TableEntry /\ ~HasKey(t, e.name)
      BY <2>2, <1>3, <1>5
    <3> HIDE DEF t, e
    <3>3. /\ u \in Tables(TableEntry) /\ WellFormed(u)
          /\ Places(u) = Places(t) \cup {q} /\ At(u, q) = e
          /\ \A p \in Places(t) : At(u, p) = At(t, p)
      BY <3>11, AddIs, EntriesNamed
    <3>4. TableSize(u) = TableSize(t)
      <4>1. DOMAIN u.chain = DOMAIN t.chain
        BY <2>2, <1>3, <1>5 DEF AddHashKey, Tables
      <4> HIDE DEF u
      <4> QED
        BY <4>1, <3>3, <1>3, SameSize
    <3>5. \A p \in Places(t) : p[1] \in 1 .. Len(t.chain) /\ p[2] \in 1 .. Len(t.chain[p[1]])
      BY <1>3, InPlaces
    <3>6. Len(t.chain) \in Nat /\ \A b \in 1 .. Len(t.chain) : Len(t.chain[b]) \in Nat
      BY <1>3 DEF Tables
    <3>7. q[1] = KeyHash(t, e.name) /\ q[2] = Len(t.chain[q[1]]) + 1
      OBVIOUS
    <3> HIDE DEF q, u
    <3>8. \A p \in Places(t) : FirstAt(args, u, p) = FirstAt(args, t, p)
      BY <3>3 DEF FirstAt
    <3>9. FirstAt(args, u, q) = k
      BY <3>2, <3>3, <1>5 DEF FirstAt
    <3>10. ASSUME NEW p \in Places(u), NEW r \in Places(u), p[1] = r[1], p[2] < r[2]
           PROVE  FirstAt(args, u, p) < FirstAt(args, u, r)
      <4>1. CASE p \in Places(t) /\ r \in Places(t)
        BY <4>1, <3>8, <3>10, <1>10 DEF InListOrder
      <4>2. CASE p \in Places(t) /\ r = q
        BY <4>2, <3>8, <3>9, <1>3, <1>4, <1>11
      <4>3. CASE p = q /\ r \in Places(t)
        <5>1. r[2] <= Len(t.chain[r[1]]) /\ Len(t.chain[r[1]]) \in Nat /\ r[2] \in Nat
          BY <4>3, <3>5, <3>6
        <5>2. p[2] = Len(t.chain[r[1]]) + 1
          BY <4>3, <3>7, <3>10
        <5> QED
          BY <5>1, <5>2, <3>10
      <4>4. CASE p = q /\ r = q
        <5>1. q[2] \in Nat
          <6>1. KeyHash(t, e.name) \in 1 .. Len(t.chain)
            BY <1>3, <1>5, BucketOf DEF WellFormed
          <6> QED
            BY <6>1, <3>6, <3>7
        <5> QED
          BY <5>1, <4>4, <3>10
      <4> QED
        BY <4>1, <4>2, <4>3, <4>4, <3>3
    <3> QED
      BY <3>4, <3>10, <1>10 DEF InListOrder
  <2> QED
    BY <2>1, <2>2
<1> HIDE DEF u, o, t, args
<1>13. Ordered'
  BY <1>7, <1>8, <1>9, <1>12 DEF Ordered
<1>14. ListedNumbered' /\ HandedOver'
  BY <1>1, <1>2, <1>6, <1>7, <1>8, OrderUnderWay
<1> QED
  BY <1>13, <1>14 DEF OrderInv

(* The entry gone past gets the index the list gives it.                   *)
LEMMA AssignInOrder ==
  ASSUME RegInv, OrderInv, Assign, RegInv'
  PROVE  OrderInv'
<1>1. UnderWay /\ call.pc = "assign" /\ IterValid(call.it)
  BY DEF Assign, UnderWay, Loop
<1>2. PICK i \in Instances : i = call.inst
  BY <1>1, ObjectUnderWay
<1> DEFINE args == call.args
           t == Obj.table
           S == Seen(t, call.it)
           p == Place(call.it)
           N == IterNext(t, call.it)
           o == obj'[i]
           u == o.table
           e == At(t, p)
<1>3. /\ Obj = obj[i] /\ Obj \in Objects /\ WellFormed(t) /\ t \in Tables(TableEntry)
      /\ call \in CallStates /\ call.it \in Iterators /\ S \subseteq Places(t)
      /\ IsFiniteSet(S)
  BY <1>1, <1>2, ObjectUnderWay, SeenIsFinite
<1>4. /\ o \in Objects /\ obj' = [obj EXCEPT ![i] = o]
      /\ o.table_locked = Obj.table_locked
      /\ u \in Tables(TableEntry) /\ Places(u) = Places(t)
      /\ p \in Places(t) /\ p \notin S /\ Visited = e
      /\ \A r \in Places(t) : r # p => At(u, r) = At(t, r)
      /\ At(u, p).name = e.name /\ At(u, p).prop = e.prop /\ At(u, p).ind = NextIndex
      /\ DOMAIN u.chain = DOMAIN t.chain /\ NextIndex <= Room
  BY <1>2, AssignDoes
<1> HIDE DEF o
<1>5. ~o.table_locked /\ UNCHANGED <<utils, listed>>
  BY <1>1, <1>4 DEF RegInv, Begun, Assign
<1>6. \/ ~e.prop.layer /\ Fail
      \/ call' = [call EXCEPT !.it = N,
                    !.index_advect = @ + Increment(e.prop.adv),
                    !.index_const = @ + Increment(~e.prop.adv)]
  <2>1. CASE e.prop.layer
    <3>1. NextIndex <= Room /\ Visited.prop.layer
      BY <1>4, <2>1, Zenon
    <3> QED
      BY <3>1, <1>4, Zenon DEF Assign
  <2>2. CASE ~e.prop.layer
    <3>1. ~(NextIndex <= Room /\ Visited.prop.layer)
      BY <1>4, <2>2, Zenon
    <3> QED
      BY <2>2, <3>1, Zenon DEF Assign
  <2> QED
    BY <2>1, <2>2
<1>7. call'.inst = i /\ call'.args = args /\ call'.pc \in {"failed", "assign"}
      /\ (call'.pc = "assign" => call'.it = N)
  <2>1. ASSUME Fail PROVE call'.inst = i /\ call'.args = args /\ call'.pc = "failed"
    <3>1. call' = [NoCall EXCEPT !.pc = "failed", !.inst = call.inst, !.args = call.args]
      BY <2>1 DEF Fail, Return
    <3> QED
      BY <3>1, <1>2 DEF NoCall
  <2>2. ASSUME call' = [call EXCEPT !.it = N,
                          !.index_advect = @ + Increment(e.prop.adv),
                          !.index_const = @ + Increment(~e.prop.adv)]
        PROVE  /\ call'.inst = i /\ call'.args = args /\ call'.pc = "assign"
               /\ call'.it = N
    <3> DEFINE a2 == call.index_advect + Increment(e.prop.adv)
               c2 == call.index_const + Increment(~e.prop.adv)
    <3>1. call' = [call EXCEPT !.it = N, !.index_advect = a2, !.index_const = c2]
      BY <2>2
    <3> HIDE DEF a2, c2, N
    <3> QED
      BY <3>1, <1>1, <1>2, <1>3 DEF CallStates
  <2> QED
    BY <2>1, <2>2, <1>6
<1>8. Obj' = o
  BY <1>3, <1>4, <1>7 DEF Obj, RegInv, Typed
<1>9. \A r \in Places(t) : At(u, r).name = At(t, r).name
  BY <1>4
<1>10. \A r \in Places(t) : FirstAt(args, u, r) = FirstAt(args, t, r)
  BY <1>9 DEF FirstAt
<1>11. InListOrder(args, t) /\ ByList(args, t, S)
  BY <1>1 DEF OrderInv, Ordered
<1>12. InListOrder(args, u)
  <2>1. TableSize(u) = TableSize(t)
    <3> HIDE DEF u, t
    <3> QED
      BY <1>3, <1>4, SameSize
  <2> QED
    BY <2>1, <1>4, <1>10, <1>11 DEF InListOrder
<1>13. NextIndex = IndexIn(args, FirstAt(args, t, p))
  <2> DEFINE R == PlacesTo(t, p)
             k == FirstAt(args, t, p)
             alike == {q \in R : At(t, q).prop.adv <=> e.prop.adv}
  <2>1. Taken = Len(args)
    BY <1>1 DEF Taken
  <2>2. /\ Cardinality(alike) = Cardinality(UpTo(args, k))
        /\ Cardinality(Adv(t, Places(t))) = Cardinality(AdvFirsts(args))
    BY <2>1, <1>1, <1>4, <1>11, RankIs
  <2>3. args[k].adv = e.prop.adv
    BY <2>1, <1>1, <1>4, PlacesAreFirsts
  <2>4. R = S \cup {p}
    BY <1>1, <1>3, <1>4, SeenTo
  <2>5. /\ call.index_advect = Cardinality(Adv(t, S))
        /\ call.index_const = Obj.num_advected + Cardinality(S \ Adv(t, S))
        /\ Obj.num_advected = Cardinality(Adv(t, Places(t)))
    BY <1>1 DEF RegInv, Assigning, Indexed
  <2>6. /\ Cardinality(Adv(t, S)) \in Nat /\ Cardinality(S \ Adv(t, S)) \in Nat
        /\ Cardinality(Adv(t, R)) = Cardinality(Adv(t, S)) + Increment(e.prop.adv)
        /\ Cardinality(R \ Adv(t, R)) = Cardinality(S \ Adv(t, S)) + Increment(~e.prop.adv)
    <3>1. IsFiniteSet(S) /\ p \notin S
      BY <1>3, <1>4
    <3> DEFINE Q == S \cup {p}
    <3>2. /\ Cardinality(Adv(t, S)) \in Nat /\ Cardinality(S \ Adv(t, S)) \in Nat
          /\ Cardinality(Adv(t, Q)) = Cardinality(Adv(t, S)) + Increment(e.prop.adv)
          /\ Cardinality(Q \ Adv(t, Q)) = Cardinality(S \ Adv(t, S)) + Increment(~e.prop.adv)
      BY <3>1, AdvAdd, Zenon
    <3> QED
      BY <3>2, <2>4
  <2>7. Obj.num_advected \in Nat
    BY <1>3 DEF Objects
  <2>8. CASE e.prop.adv
    <3>1. alike = Adv(t, R)
      BY <2>8 DEF Adv
    <3>2. Increment(e.prop.adv) = 1
      BY <2>8, Zenon DEF Increment
    <3>3. NextIndex = call.index_advect + 1
      BY <2>8, <1>4, Zenon DEF NextIndex
    <3>4. IndexIn(args, k) = Cardinality(UpTo(args, k))
      BY <2>3, <2>8, Zenon DEF IndexIn
    <3> HIDE DEF e, R, k, alike, args, t, S, p
    <3> QED
      BY <3>1, <3>2, <3>3, <3>4, <2>2, <2>5, <2>6 DEF k
  <2>9. CASE ~e.prop.adv
    <3>1. alike = R \ Adv(t, R)
      BY <2>9 DEF Adv
    <3>2. Increment(~e.prop.adv) = 1
      BY <2>9, Zenon DEF Increment
    <3>3. NextIndex = call.index_const + 1
      BY <2>9, <1>4, Zenon DEF NextIndex
    <3>4. IndexIn(args, k) = Cardinality(AdvFirsts(args)) + Cardinality(UpTo(args, k))
      BY <2>3, <2>9, Zenon DEF IndexIn
    <3> HIDE DEF e, R, k, alike, args, t, S, p
    <3> QED
      BY <3>1, <3>2, <3>3, <3>4, <2>2, <2>5, <2>6, <2>7 DEF k
  <2> QED
    BY <2>8, <2>9
<1>14. Ordered'
  <2>1. CASE call'.pc = "failed"
    BY <2>1 DEF Ordered, UnderWay, Loop
  <2>2. CASE call'.pc = "assign"
    <3>1. OnTable(t, call.it)
      BY <1>1 DEF RegInv, Assigning
    <3>2. Seen(t, N) = S \cup {p}
      BY <3>1, <1>1, <1>3, NextIs
    <3>3. Seen(u, N) = S \cup {p}
      BY <3>2, <1>4 DEF Seen
    <3>4. ByList(args, u, S \cup {p})
      <4> SUFFICES ASSUME NEW r \in S \cup {p}
                   PROVE  At(u, r).ind = IndexIn(args, FirstAt(args, u, r))
        BY DEF ByList
      <4>1. FirstAt(args, u, r) = FirstAt(args, t, r) /\ r \in Places(t)
        BY <1>3, <1>4, <1>10
      <4>2. CASE r = p
        BY <4>1, <4>2, <1>4, <1>13
      <4>3. CASE r # p
        <5>1. At(u, r) = At(t, r) /\ r \in S
          BY <4>1, <4>3, <1>4
        <5> QED
          BY <5>1, <4>1, <1>11 DEF ByList
      <4> QED
        BY <4>2, <4>3
    <3> HIDE DEF args, t, S, p, N
    <3> QED
      BY <2>2, <3>3, <3>4, <1>7, <1>8, <1>12 DEF Ordered
  <2> QED
    BY <2>1, <2>2, <1>7
<1>15. ListedNumbered' /\ HandedOver'
  BY <1>1, <1>2, <1>4, <1>5, <1>7, OrderUnderWay
<1> QED
  BY <1>14, <1>15 DEF OrderInv

(* The registration ends: its list is the one that was published.          *)
LEMMA PublishInOrder ==
  ASSUME RegInv, OrderInv, Publish
  PROVE  OrderInv'
<1> DEFINE args == call.args
           t == Obj.table
<1>1. UnderWay /\ call.pc = "publish"
  BY DEF Publish, UnderWay, Loop
<1>2. PICK i \in Instances : i = call.inst
  BY <1>1, ObjectUnderWay
<1>3. /\ Obj = obj[i] /\ IsInitialized(t) /\ DOMAIN args = 1 .. Len(args)
      /\ DOMAIN listed = Instances
  BY <1>1, <1>2, ObjectUnderWay DEF OrderInv, ListedNumbered
<1>4. /\ UNCHANGED obj /\ listed' = [listed EXCEPT ![i] = args] /\ utils' = HandOver(i)
      /\ call'.pc \in {"ok", "failed"}
  <2>1. \E pc \in {"ok", "failed"} : Return(pc)
    BY DEF Publish
  <2>2. call'.pc \in {"ok", "failed"}
    BY <2>1 DEF Return, NoCall
  <2> QED
    BY <2>2, <1>2 DEF Publish
<1>5. PropsLocked(obj[i])
  BY <1>1, <1>3 DEF RegInv, Begun, PropsLocked
<1>6. Published(i)' /\ \A j \in Instances : j # i => (Published(j)' <=> Published(j))
  BY <1>1, <1>2, <1>4, <1>5 DEF Published
<1>7. Numbered(args, t)
  <2>1. ByList(args, t, Places(t))
    BY <1>1 DEF OrderInv, Ordered
  <2>2. \A k \in DOMAIN args : \E p \in Places(t) : At(t, p).name = args[k].name
    BY <1>1, <1>3, AllAdded
  <2>3. ASSUME NEW p \in Places(t)
        PROVE  \E k \in DOMAIN args : At(t, p).name = args[k].name
    <3>1. Taken = Len(args)
      BY <1>1 DEF Taken
    <3>2. FirstAt(args, t, p) \in DOMAIN args
      BY <3>1, <1>1, <1>3 DEF RegInv, Faithful, FirstAt
    <3>3. args[FirstAt(args, t, p)].name = At(t, p).name
      BY <3>1, <1>1, PlacesAreFirsts
    <3> QED
      BY <3>2, <3>3
  <2> QED
    BY <2>1, <2>2, <2>3 DEF Numbered
<1>8. ListedNumbered'
  <2>1. DOMAIN listed' = Instances
    BY <1>3, <1>4
  <2> SUFFICES ASSUME NEW j \in Instances, Published(j)'
               PROVE  Numbered(listed'[j], obj'[j].table)
    BY <2>1 DEF ListedNumbered
  <2>2. CASE j = i
    <3>1. listed'[j] = args /\ obj'[j].table = t
      BY <2>2, <1>3, <1>4
    <3> QED
      BY <3>1, <1>7
  <2>3. CASE j # i
    <3>1. listed'[j] = listed[j] /\ obj'[j] = obj[j] /\ Published(j)
      BY <2>3, <1>3, <1>4, <1>6
    <3> QED
      BY <3>1 DEF OrderInv, ListedNumbered
  <2> QED
    BY <2>2, <2>3
<1>9. HandedOver'
  <2>1. /\ DOMAIN utils' = {"inst", "names", "live"} /\ utils'.inst = i
        /\ utils'.names = obj[i].const_metadata
    BY <1>4 DEF HandOver
  <2>2. Published(utils.inst)'
    BY <2>1, <1>6 DEF Published
  <2> QED
    BY <2>1, <2>2, <1>4 DEF HandedOver
<1>10. Ordered'
  BY <1>4 DEF Ordered, UnderWay, Loop
<1> QED
  BY <1>8, <1>9, <1>10 DEF OrderInv

(* An instance loses what it had published, the schemes their list if it   *)
(* was that instance's.                                                    *)
LEMMA OrderOfOthers ==
  ASSUME RegInv, OrderInv, Idle, call'.pc # "publish", NEW i \in Instances,
         NEW o, obj' = [obj EXCEPT ![i] = o], ~PropsLocked(o),
         listed' = [listed EXCEPT ![i] = <<>>], utils' = UtilsWithout(i)
  PROVE  ListedNumbered' /\ HandedOver'
<1>1. /\ obj \in [Instances -> Objects] /\ DOMAIN listed = Instances
      /\ DOMAIN utils = {"inst", "names", "live"}
  BY DEF RegInv, Typed, OrderInv, ListedNumbered, HandedOver
<1>2. /\ obj'[i] = o
      /\ \A j \in Instances : j # i => obj'[j] = obj[j] /\ listed'[j] = listed[j]
      /\ DOMAIN listed' = Instances
  BY <1>1
<1>3. \A j \in Instances : /\ Published(j) <=> PropsLocked(obj[j])
                           /\ Published(j)' <=> PropsLocked(obj'[j])
  BY DEF Published, Idle
<1>4. ListedNumbered'
  <2> SUFFICES ASSUME NEW j \in Instances, Published(j)'
               PROVE  Numbered(listed'[j], obj'[j].table)
    BY <1>2 DEF ListedNumbered
  <2>1. j # i /\ Published(j) /\ obj'[j] = obj[j] /\ listed'[j] = listed[j]
    BY <1>2, <1>3
  <2> QED
    BY <2>1 DEF OrderInv, ListedNumbered
<1>5. /\ DOMAIN utils' = {"inst", "names", "live"} /\ utils'.inst = utils.inst
      /\ utils'.names = utils.names /\ (utils'.live => utils.live /\ utils.inst # i)
  <2> DEFINE b == utils.live /\ utils.inst # i
  <2>1. utils' = [utils EXCEPT !.live = b]
    BY <1>1 DEF UtilsWithout
  <2>2. b => utils.live /\ utils.inst # i
    OBVIOUS
  <2> HIDE DEF b
  <2>3. /\ DOMAIN utils' = {"inst", "names", "live"} /\ utils'.inst = utils.inst
        /\ utils'.names = utils.names /\ utils'.live = b
    BY <2>1, <1>1
  <2>4. utils'.live => utils.live /\ utils.inst # i
    BY <2>2, <2>3, Zenon
  <2> QED
    BY <2>3, <2>4
<1>6. HandedOver'
  <2> SUFFICES ASSUME utils'.inst # 0, utils'.live
               PROVE  /\ utils'.inst \in Instances /\ Published(utils.inst)'
                      /\ utils'.names = obj'[utils'.inst].const_metadata
    BY <1>5 DEF HandedOver
  <2>1. PICK j \in Instances : j = utils.inst
    BY <1>5 DEF OrderInv, HandedOver
  <2>2. Published(j) /\ utils.names = obj[j].const_metadata /\ j # i
    BY <2>1, <1>5 DEF OrderInv, HandedOver
  <2>3. obj'[j] = obj[j] /\ Published(j)'
    BY <2>2, <1>2, <1>3
  <2>4. Published(utils.inst)'
    BY <2>1, <2>3, <1>5 DEF Published
  <2> QED
    BY <2>1, <2>2, <2>3, <2>4, <1>5
<1> QED
  BY <1>4, <1>6

(* A registration begins with an empty table of the size its list asks for. *)
LEMMA RegisterInOrder ==
  ASSUME RegInv, OrderInv, NEW i \in Instances, RegisterConstituents(i)
  PROVE  OrderInv'
<1>1. PICK h \in HostChoices :
        LET args == h \o dyn[i] \o Fixed IN
        /\ obj' = [obj EXCEPT ![i] = InitializeTable(obj[i], Len(args))]
        /\ call' = [call EXCEPT !.pc = "add", !.inst = i, !.args = args, !.k = 1]
  <2>1. obj \in [Instances -> Objects]
    BY DEF RegInv, Typed
  <2>2. PICK h \in HostChoices :
          /\ obj' = [obj EXCEPT ![i] = InitializeTable(@, Len(h \o dyn[i] \o Fixed))]
          /\ call' = [call EXCEPT !.pc = "add", !.inst = i,
                                 !.args = h \o dyn[i] \o Fixed, !.k = 1]
    BY Zenon DEF RegisterConstituents
  <2>3. obj' = [obj EXCEPT ![i] = InitializeTable(obj[i], Len(h \o dyn[i] \o Fixed))]
    BY <2>1, <2>2
  <2> QED
    BY <2>2, <2>3, Zenon
<1> DEFINE args == h \o dyn[i] \o Fixed
           n == TableBits(Len(args))
           t == EmptyTable(n)
           o == InitializeTable(obj[i], Len(args))
<1>2. 2 ^ n \in Nat \ {0}
  BY SizeAssumption DEF RegInv, Typed
<1>3. obj \in [Instances -> Objects] /\ obj[i] \in Objects /\ call \in CallStates
  BY DEF RegInv, Typed
<1> HIDE DEF n
<1>4. Places(t) = {} /\ TableSize(t) = 2 ^ n
  <2>1. Places(t) = {}
    BY <1>2, EmptyTableIs
  <2>2. t.chain = [b \in 1 .. 2 ^ n |-> <<>>]
    BY DEF EmptyTable
  <2>3. Len(t.chain) = 2 ^ n
    BY <2>2, <1>2
  <2> QED
    BY <2>1, <2>3 DEF TableSize
<1> HIDE DEF t
<1>5. o.table = t /\ o.table_locked = FALSE
  <2> DEFINE q == Reset(obj[i])
  <2>1. q \in Objects
    BY <1>3, ResetIs
  <2>2. o = [q EXCEPT !.table = t, !.table_locked = FALSE]
    BY DEF InitializeTable, t, n
  <2> HIDE DEF q, o
  <2> QED
    BY <2>1, <2>2 DEF Objects
<1>6. obj' = [obj EXCEPT ![i] = o]
  BY <1>1
<1>7. call'.pc = "add" /\ call'.inst = i /\ call'.args = args
  <2> HIDE DEF args
  <2>1. call' = [call EXCEPT !.pc = "add", !.inst = i, !.args = args, !.k = 1]
    BY <1>1 DEF args
  <2> QED
    BY <2>1, <1>3 DEF CallStates
<1> HIDE DEF o
<1>8. Obj' = o
  BY <1>3, <1>6, <1>7 DEF Obj
<1>9. InListOrder(args, t)
  BY <1>4 DEF InListOrder, n
<1> HIDE DEF args
<1>10. Ordered'
  BY <1>5, <1>7, <1>8, <1>9 DEF Ordered
<1>11. ListedNumbered' /\ HandedOver'
  <2>1. ~PropsLocked(o)
    BY <1>5 DEF PropsLocked
  <2>2. /\ Idle /\ listed' = [listed EXCEPT ![i] = <<>>] /\ utils' = UtilsWithout(i)
        /\ call'.pc # "publish"
    BY <1>7 DEF RegisterConstituents
  <2> QED
    BY <2>1, <2>2, <1>6, OrderOfOthers
<1> QED
  BY <1>10, <1>11 DEF OrderInv

(* The data of an instance comes into use: its table stays.                *)
LEMMA InitializeInOrder ==
  ASSUME RegInv, OrderInv, NEW i \in Instances, InitializeConstituents(i)
  PROVE  OrderInv'
<1>1. /\ Idle /\ UNCHANGED <<utils, call, listed>>
      /\ obj' = [obj EXCEPT ![i].vars_layer = TRUE, ![i].data_locked = TRUE]
  BY DEF InitializeConstituents
<1> DEFINE o == [obj[i] EXCEPT !.vars_layer = TRUE, !.data_locked = TRUE]
<1>2. obj \in [Instances -> Objects] /\ obj[i] \in Objects
  BY DEF RegInv, Typed
<1>3. obj' = [obj EXCEPT ![i] = o]
  BY <1>1, <1>2
<1>4. /\ o.table = obj[i].table /\ o.table_locked = obj[i].table_locked
      /\ o.const_metadata = obj[i].const_metadata
  BY <1>2 DEF Objects
<1> HIDE DEF o
<1>5. \A j \in Instances : /\ obj'[j].table = obj[j].table
                           /\ obj'[j].table_locked = obj[j].table_locked
                           /\ obj'[j].const_metadata = obj[j].const_metadata
  BY <1>2, <1>3, <1>4
<1>6. \A j \in Instances : Published(j)' <=> Published(j)
  BY <1>1, <1>5 DEF Published, PropsLocked
<1>7. ListedNumbered'
  BY <1>1, <1>5, <1>6 DEF OrderInv, ListedNumbered
<1>8. HandedOver'
  <2> SUFFICES ASSUME utils.inst # 0, utils.live
               PROVE  /\ utils.inst \in Instances /\ Published(utils.inst)'
                      /\ utils.names = obj'[utils.inst].const_metadata
    BY <1>1 DEF OrderInv, HandedOver
  <2>1. PICK j \in Instances : j = utils.inst
    BY DEF OrderInv, HandedOver
  <2>2. Published(j) /\ utils.names = obj[j].const_metadata
    BY <2>1 DEF OrderInv, HandedOver
  <2>3. Published(utils.inst)'
    BY <2>1, <2>2, <1>1, <1>6 DEF Published
  <2> QED
    BY <2>1, <2>2, <2>3, <1>5
<1>9. Ordered'
  BY <1>1 DEF Ordered, UnderWay, Loop, Idle
<1> QED
  BY <1>7, <1>8, <1>9 DEF OrderInv

(* Every step keeps the order.                                             *)
LEMMA NextOrderInv == RegInv /\ RegInv' /\ OrderInv /\ [Next]_vars => OrderInv'
<1> SUFFICES ASSUME RegInv, RegInv', OrderInv, [Next]_vars PROVE OrderInv'
  OBVIOUS
<1> USE DEF Loop
<1>1. CASE AddOne
  BY <1>1, AddOneInOrder
<1>2. CASE AddFails
  <2>1. UnderWay /\ call.pc = "add" /\ UNCHANGED <<obj, utils, listed>> /\ Fail
    BY <1>2 DEF AddFails, Adding, UnderWay
  <2>2. PICK i \in Instances : i = call.inst /\ Obj = obj[i] /\ Obj \in Objects
    BY <2>1, ObjectUnderWay
  <2>3. call'.pc = "failed" /\ call'.inst = i /\ call'.args = call.args
    BY <2>1, <2>2 DEF Fail, Return, NoCall
  <2>4. ~Obj.table_locked
    BY <2>1 DEF RegInv, Begun
  <2>5. obj' = [obj EXCEPT ![i] = Obj]
    BY <2>1, <2>2 DEF RegInv, Typed
  <2> QED
    BY <2>1, <2>2, <2>3, <2>4, <2>5, SameOrder
<1>3. CASE LockTable
  <2>1. UnderWay /\ call.pc = "add" /\ UNCHANGED <<utils, listed>>
    BY <1>3 DEF LockTable, UnderWay
  <2>2. PICK i \in Instances : i = call.inst /\ Obj = obj[i] /\ Obj \in Objects
    BY <2>1, ObjectUnderWay
  <2> DEFINE m == [k \in 1 .. Obj.table.num_keys |-> None]
             r == ResetArrays(Obj)
             o == [r EXCEPT !.num_advected = 0, !.const_metadata = m]
  <2>3. obj' = [obj EXCEPT ![i] = o]
    BY <1>3, <2>2 DEF LockTable, SetObj
  <2>4. /\ r.table = Obj.table /\ r.table_locked = Obj.table_locked
        /\ DOMAIN r = DOMAIN Obj
    BY <2>2 DEF ResetArrays, Objects
  <2>5. DOMAIN Obj = {"table", "table_locked", "data_locked", "const_metadata",
                      "vars_layer", "num_advected"}
    BY <2>2 DEF Objects
  <2> HIDE DEF m, r
  <2>6. o.table = Obj.table /\ o.table_locked = Obj.table_locked
    BY <2>4, <2>5
  <2>7. call'.pc = "count" /\ call'.inst = i /\ call'.args = call.args
    BY <1>3, <2>2 DEF LockTable, RegInv, Typed, CallStates
  <2>8. ~Obj.table_locked
    BY <2>1 DEF RegInv, Begun
  <2> HIDE DEF o
  <2> QED
    BY <2>1, <2>2, <2>3, <2>6, <2>7, <2>8, SameOrder
<1>4. CASE Count
  <2>1. UnderWay /\ call.pc = "count" /\ UNCHANGED <<utils, listed>>
    BY <1>4 DEF Count, UnderWay
  <2>2. PICK i \in Instances : i = call.inst /\ Obj = obj[i] /\ Obj \in Objects
    BY <2>1, ObjectUnderWay
  <2> DEFINE a == Obj.num_advected + Increment(Visited.prop.adv)
             o == [Obj EXCEPT !.num_advected = a]
  <2>3. obj' = [obj EXCEPT ![i] = o]
    BY <1>4, <2>2 DEF Count, SetObj, Objects
  <2> HIDE DEF a
  <2>4. o.table = Obj.table /\ o.table_locked = Obj.table_locked
    BY <2>2 DEF Objects
  <2>5. call'.pc = "count" /\ call'.inst = i /\ call'.args = call.args
    BY <1>4, <2>1, <2>2 DEF Count, RegInv, Typed, CallStates
  <2>6. ~Obj.table_locked
    BY <2>1 DEF RegInv, Begun
  <2> HIDE DEF o
  <2> QED
    BY <2>1, <2>2, <2>3, <2>4, <2>5, <2>6, SameOrder
<1>5. CASE Counted
  <2>1. UnderWay /\ call.pc = "count" /\ UNCHANGED <<obj, utils, listed>>
    BY <1>5 DEF Counted, UnderWay
  <2>2. PICK i \in Instances : i = call.inst /\ Obj = obj[i] /\ Obj.table \in Tables(TableEntry)
    BY <2>1, ObjectUnderWay
  <2>3. /\ call'.pc = "assign" /\ call'.inst = i /\ call'.args = call.args
        /\ call'.it = IterStart(Obj.table)
    BY <1>5, <2>2 DEF Counted, RegInv, Typed, CallStates
  <2>4. Seen(Obj.table, call'.it) = {}
    BY <2>1, <2>2, <2>3, AllAdded, StartIs
  <2>5. ~Obj.table_locked
    BY <2>1 DEF RegInv, Begun
  <2>6. obj' = [obj EXCEPT ![i] = Obj]
    BY <2>1, <2>2 DEF RegInv, Typed
  <2> QED
    BY <2>1, <2>2, <2>3, <2>4, <2>5, <2>6, SameOrder
<1>6. CASE Assign
  BY <1>6, AssignInOrder
<1>7. CASE Assigned
  <2>1. UnderWay /\ call.pc = "assign" /\ ~IterValid(call.it) /\ UNCHANGED <<utils, listed>>
    BY <1>7 DEF Assigned, UnderWay
  <2>2. PICK i \in Instances : i = call.inst /\ Obj = obj[i] /\ Obj \in Objects
    BY <2>1, ObjectUnderWay
  <2> DEFINE o == [Obj EXCEPT !.table_locked = TRUE]
  <2>3. /\ obj' = [obj EXCEPT ![i] = o] /\ call'.pc = "publish" /\ call'.inst = i
    BY <1>7, <2>2, AssignedKeeps
  <2>4. call'.args = call.args
    <3>1. call' = [call EXCEPT !.pc = "publish"] \/ Fail
      BY <1>7 DEF Assigned
    <3>2. ~Fail
      BY <2>3 DEF Fail, Return, NoCall
    <3> QED
      BY <3>1, <3>2 DEF RegInv, Typed, CallStates
  <2>5. o.table = Obj.table
    BY <2>2 DEF Objects
  <2> HIDE DEF o
  <2> QED
    BY <2>1, <2>2, <2>3, <2>4, <2>5, SameOrder
<1>8. CASE Publish
  BY <1>8, PublishInOrder
<1>9. ASSUME NEW i \in Instances, CcppRegister(i) PROVE OrderInv'
  BY <1>9 DEF CcppRegister, OrderInv, Ordered, UnderWay, Idle, ListedNumbered,
              HandedOver, Published
<1>10. ASSUME NEW i \in Instances, RegisterConstituents(i) PROVE OrderInv'
  BY <1>10, RegisterInOrder
<1>11. ASSUME NEW i \in Instances, InitializeConstituents(i) PROVE OrderInv'
  BY <1>11, InitializeInOrder
<1>12. ASSUME NEW i \in Instances, DeallocateDynamicConstituents(i) PROVE OrderInv'
  <2>1. obj' = [obj EXCEPT ![i] = Reset(obj[i])]
    BY <1>12, DeallocateKeeps
  <2>2. ~PropsLocked(Reset(obj[i]))
    BY ResetIs DEF RegInv, Typed, PropsLocked, IsInitialized
  <2>3. /\ Idle /\ UNCHANGED call /\ listed' = [listed EXCEPT ![i] = <<>>]
        /\ utils' = UtilsWithout(i)
    BY <1>12 DEF DeallocateDynamicConstituents
  <2>4. call'.pc # "publish"
    BY <2>3 DEF Idle
  <2>5. ListedNumbered' /\ HandedOver'
    BY <2>1, <2>2, <2>3, <2>4, OrderOfOthers
  <2>6. Ordered'
    BY <2>3 DEF Ordered, UnderWay, Idle
  <2> QED
    BY <2>5, <2>6 DEF OrderInv
<1>13. CASE UNCHANGED vars
  BY <1>13 DEF vars, OrderInv, Ordered, UnderWay, Obj, ListedNumbered, HandedOver, Published
<1> QED
  BY <1>1, <1>2, <1>3, <1>4, <1>5, <1>6, <1>7, <1>8, <1>9, <1>10, <1>11, <1>12, <1>13
     DEF Next, Registering

(* Nothing is published at first.                                          *)
LEMMA InitOrderInv == Init => OrderInv
<1> SUFFICES ASSUME Init PROVE OrderInv
  OBVIOUS
<1>1. Ordered
  BY DEF Init, Ordered, UnderWay, Loop, NoCall
<1>2. ListedNumbered
  BY DEF Init, ListedNumbered, Published, PropsLocked, NewObj
<1>3. HandedOver
  BY DEF Init, HandedOver, NoUtils
<1> QED
  BY <1>1, <1>2, <1>3 DEF OrderInv

(* Where every place of one table has its like in another, with the same   *)
(* index, a name that is in the one leads to the same index in both.       *)
LEMMA SameIndexes ==
  ASSUME RegInv, OrderInv, NEW i \in Instances, NEW j \in Instances,
         Published(i), Published(j), listed[i] = listed[j], NEW n \in Names,
         HasKey(obj[i].table, n)
  PROVE  ConstIndex(obj[i], n) = ConstIndex(obj[j], n) /\ HasKey(obj[j].table, n)
<1> DEFINE args == listed[i]
           t == obj[i].table
           u == obj[j].table
<1>1. /\ obj[i] \in Objects /\ WellFormed(t) /\ t \in Tables(TableEntry)
      /\ PropsLocked(obj[i]) /\ Indexes(obj[i])
  BY DEF RegInv, Typed, LockedIndexed, Published, PropsLocked, Objects
<1>2. /\ obj[j] \in Objects /\ WellFormed(u) /\ u \in Tables(TableEntry)
      /\ PropsLocked(obj[j]) /\ Indexes(obj[j])
  BY DEF RegInv, Typed, LockedIndexed, Published, PropsLocked, Objects
<1>3. Numbered(args, t) /\ Numbered(args, u)
  BY DEF OrderInv, ListedNumbered
<1>4. PICK p \in Places(t) : At(t, p).name = n
  BY <1>1, Lookup, EntriesNamed
<1>5. PICK k \in DOMAIN args : args[k].name = n
  BY <1>3, <1>4 DEF Numbered
<1>6. PICK q \in Places(u) : At(u, q).name = n
  BY <1>3, <1>5 DEF Numbered
<1>7. At(t, p).ind = At(u, q).ind
  BY <1>3, <1>4, <1>6 DEF Numbered, ByList, FirstAt
<1>8. ConstIndex(obj[i], n) = At(t, p).ind
  BY <1>1, <1>4, IndexOf
<1>9. ConstIndex(obj[j], n) = At(u, q).ind
  BY <1>2, <1>6, IndexOf
<1>10. HasKey(u, n)
  BY <1>2, <1>6, Lookup, EntriesNamed
<1> QED
  BY <1>7, <1>8, <1>9, <1>10

(* The list the schemes were given leads to the index in the table of the  *)
(* instance it is from.                                                    *)
LEMMA ListLeadsHome ==
  ASSUME RegInv, OrderInv, NEW j \in Instances, Published(j), NEW n \in Names,
         utils.names = obj[j].const_metadata
  PROVE  SchemeIndex(n) = ConstIndex(obj[j], n)
<1> DEFINE o == obj[j]
           s == utils.names
           ks == {k \in DOMAIN s : s[k] = n}
<1>1. /\ o \in Objects /\ WellFormed(o.table) /\ o.table \in Tables(TableEntry)
      /\ PropsLocked(o) /\ Indexes(o)
  BY DEF RegInv, Typed, LockedIndexed, Published, PropsLocked, Objects
<1>2. /\ o.table.num_keys \in Nat /\ DOMAIN s = 1 .. o.table.num_keys
      /\ \A k \in 1 .. o.table.num_keys : ConstIndex(o, s[k]) = k
  BY <1>1, LockedMap
<1>3. SchemeIndex(n) = IF ks = {} THEN Unassigned ELSE FirstOf(ks)
  BY DEF SchemeIndex
<1>4. CASE HasKey(o.table, n)
  <2>1. PICK p \in Places(o.table) : At(o.table, p).name = n
    BY <1>1, <1>4, Lookup, EntriesNamed
  <2> DEFINE x == At(o.table, p).ind
  <2>2. /\ ConstIndex(o, n) = x /\ x \in 1 .. o.table.num_keys
        /\ o.const_metadata[x] = n
    BY <2>1, <1>1, IndexOf
  <2> HIDE DEF x
  <2>3. ks = {x}
    BY <2>2, <1>2
  <2>4. x \in Nat
    BY <2>2, <1>2
  <2>5. FirstOf({x}) \in {x}
    BY <2>4, FirstOfIsLeast
  <2> HIDE DEF ks
  <2> QED
    BY <2>2, <2>3, <2>5, <1>3
<1>5. CASE ~HasKey(o.table, n)
  <2>1. ks = {}
    <3> SUFFICES ASSUME NEW k \in 1 .. o.table.num_keys, s[k] = n
                 PROVE  FALSE
      BY <1>2
    <3>1. PICK p \in Places(o.table) : o.const_metadata[k] = At(o.table, p).name
      BY <1>1, EveryIndex
    <3> QED
      BY <3>1, <1>1, <1>5, Lookup, EntriesNamed
  <2>2. ConstIndex(o, n) = Unassigned
    BY <1>5 DEF ConstIndex
  <2> HIDE DEF ks
  <2> QED
    BY <2>1, <2>2, <1>3
<1> QED
  BY <1>4, <1>5

(* The one list that ccpp_scheme_utils keeps for all instances serves each *)
(* instance that registered the same list in the same order: its schemes   *)
(* find their own indices in the list of another.                          *)
THEOREM SchemesFindTheirOwn == Spec => []SchemesFindOwn
<1>1. Init => OrderInv
  BY InitOrderInv
<1>2. RegInv /\ RegInv' /\ OrderInv /\ [Next]_vars => OrderInv'
  BY NextOrderInv
<1>3. ASSUME RegInv, OrderInv PROVE SchemesFindOwn
  <2> SUFFICES ASSUME NEW i \in Instances, NEW n \in Names,
                      utils.inst # 0, utils.live, Published(i),
                      listed[i] = listed[utils.inst]
               PROVE  SchemeIndex(n) = ConstIndex(obj[i], n)
    BY DEF SchemesFindOwn
  <2>1. PICK j \in Instances : j = utils.inst
    BY <1>3 DEF OrderInv, HandedOver
  <2>2. Published(j) /\ utils.names = obj[j].const_metadata /\ listed[i] = listed[j]
    BY <1>3, <2>1 DEF OrderInv, HandedOver
  <2>3. SchemeIndex(n) = ConstIndex(obj[j], n)
    BY <1>3, <2>2, ListLeadsHome
  <2>4. ConstIndex(obj[j], n) = ConstIndex(obj[i], n)
    <3>1. CASE HasKey(obj[i].table, n)
      BY <3>1, <1>3, <2>2, SameIndexes
    <3>2. CASE HasKey(obj[j].table, n)
      BY <3>2, <1>3, <2>2, SameIndexes
    <3>3. CASE ~HasKey(obj[i].table, n) /\ ~HasKey(obj[j].table, n)
      BY <3>3 DEF ConstIndex
    <3> QED
      BY <3>1, <3>2, <3>3
  <2> QED
    BY <2>3, <2>4
<1> QED
  BY <1>1, <1>2, <1>3, RegistrationInvariance, PTL DEF Spec

=============================================================================

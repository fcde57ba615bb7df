---------------------------- MODULE Constituents ----------------------------
(***************************************************************************)
(* The constituents of the model instances: the generated routines of      *)
(* constituent_cap.py over ccpp_model_constituents_t, and the list that    *)
(* ccpp_scheme_utils keeps for the schemes.                                *)
(*                                                                         *)
(* The host is serial and may call the routines in any order: a call that  *)
(* comes too early, twice or after a failure has to return an error.       *)
(* register_constituents is taken step by step, an iteration of a loop at  *)
(* a time; the others are one action each.                                 *)
(*                                                                         *)
(* A constituent is [name, adv, units, layer]: units stands for all        *)
(* attributes is_match compares but adv.  A pointer to an object of the    *)
(* table is the constituent's name, with a flag where it may dangle.       *)
(***************************************************************************)
EXTENDS HashTable, FiniteSets, SequencesExt

CONSTANTS
  Instances,     \* 1 .. ninstances
  Constituent,   \* the constituents there are
  HostChoices,   \* the lists a host may register
  DynChoices,    \* the lists a scheme may add in ccpp_register
  Fixed,         \* the advected constituents of scheme metadata, a list
  Views          \* constituents with a view (arguments, tendencies), a list

ASSUME ConstituentAssumption ==
  /\ \A c \in Constituent :
       c.name \in Names /\ c.adv \in BOOLEAN /\ c.layer \in BOOLEAN
  /\ HostChoices \cup DynChoices \cup {Fixed} \subseteq Seq(Constituent)
  /\ Fixed # <<>>       \* an empty table cannot be iterated over
  /\ Views \in Seq(Names)
  /\ 0 \notin Instances

VARIABLES
  allocated,  \* lc_instances is allocated
  dyn,        \* dyn[i]: lc_<name>(:), what the schemes registered, if anything
  obj,        \* obj[i]: <host>_constituents_obj
  cap,        \* cap[i]: the other components of lc_instances(i)
  utils,      \* lc_constituents of ccpp_scheme_utils
  call,       \* the last call of register_constituents
  listed      \* listed[i]: what a call that succeeded got (history)
vars == <<allocated, dyn, obj, cap, utils, call, listed>>

None == "none"   \* a pointer not associated
Unassigned == 0

(***************************************************************************)
(* The object.                                                             *)
(***************************************************************************)
NewObj == [table |-> NoTable, table_locked |-> FALSE, data_locked |-> FALSE,
           const_metadata |-> <<>>, vars_layer |-> FALSE, num_advected |-> 0]

PropsLocked(o) == IsInitialized(o.table) /\ o.table_locked
DataLocked(o) == IsInitialized(o.table) /\ o.data_locked
Locked(o) == PropsLocked(o) /\ DataLocked(o)

(* reset(clear_hash_table = .false.): the arrays go, the table stays.      *)
ResetArrays(o) == [o EXCEPT !.const_metadata = <<>>, !.vars_layer = FALSE]

(* reset(): the table goes as well; the two locks are left as they are.    *)
Reset(o) ==
  [ResetArrays(o) EXCEPT !.table = NoTable, !.num_advected = 0]

(* initialize_table for n constituents: 2^k buckets, k the bits of 10 n.   *)
TableBits(n) == CHOOSE k \in 1 .. 30 : 2 ^ (k - 1) <= 10 * n /\ 10 * n < 2 ^ k
(* The default integers of the code can count what is registered.          *)
ASSUME SizeAssumption ==
  \A h \in HostChoices, d \in DynChoices \cup {<<>>} :
    2 ^ TableBits(Len(h \o d \o Fixed)) \in Nat \ {0}

(* Mutant: the lock of the properties is left to reset(). *)
InitializeTableKeepsLock(o, n) == [Reset(o) EXCEPT !.table = EmptyTable(TableBits(n))]
InitializeTable(o, n) ==
  [Reset(o) EXCEPT !.table = EmptyTable(TableBits(n)), !.table_locked = FALSE]

IsMatch(c, d) == c.adv = d.adv /\ c.units = d.units
(* Mutant: only the lock of the properties is asked. *)
OkayToAddUnlocked(o) == IsInitialized(o.table) /\ ~PropsLocked(o)
OkayToAdd(o) == IsInitialized(o.table) /\ ~(PropsLocked(o) \/ DataLocked(o))

Entry(c) == [name |-> c.name, prop |-> c, ind |-> Unassigned]
FindConst(o, n) == TableValue(o.table, n)
Incompatible(o, c) ==
  HasKey(o.table, c.name) /\ ~IsMatch(FindConst(o, c.name).prop, c)

(* new_field of a constituent that is known and matches adds nothing.      *)
NewFieldFails(o, c) == ~OkayToAdd(o) \/ Incompatible(o, c)
NewField(o, c) == [o EXCEPT !.table = AddHashKey(@, Entry(c))]

ConstIndex(o, n) ==
  IF PropsLocked(o) /\ HasKey(o.table, n) THEN FindConst(o, n).ind
  ELSE Unassigned

(* Mutant: the index goes to the first entry of the chain. *)
SetConstIndexFirst(o, n, k) ==
  [o EXCEPT !.table.chain[KeyHash(o.table, n)][1].ind = k]

(* set_const_index: an index that is set is not set again.                 *)
SetConstIndex(o, n, k) ==
  [o EXCEPT !.table = Update(@, [FindConst(o, n) EXCEPT
                        !.ind = IF @ = Unassigned THEN k ELSE @])]
SetMetadata(o, k, n) == [o EXCEPT !.const_metadata[k] = n]

(* copy_in: the numbers of the fields that match, in the order of           *)
(* const_metadata, up to one that is out of place or not on layers.        *)
CopyIn(o, matching) ==
  LET metadata == o.const_metadata
      prop(k) == FindConst(o, metadata[k]).prop
      fld_ind(k) == ConstIndex(o, metadata[k])
      refused(k) == prop(k) \in matching /\ (fld_ind(k) # k \/ ~prop(k).layer)
      copied[k \in 0 .. Len(metadata)] ==
        IF k = 0 THEN <<>>
        ELSE IF prop(k) \in matching /\ \A l \in 1 .. k : ~refused(l)
             THEN Append(copied[k - 1], fld_ind(k)) ELSE copied[k - 1]
  IN  copied[Len(metadata)]

(***************************************************************************)
(* Pointers to what reset() frees.                                         *)
(***************************************************************************)
NewCap == [all |-> FALSE, props |-> <<>>, props_live |-> TRUE,
           array |-> "null", views |-> <<>>,
           indices |-> [n \in {Fixed[k].name : k \in DOMAIN Fixed} |-> Unassigned]]
NoUtils == [inst |-> 0, names |-> <<>>, live |-> TRUE]

Dangle(c) == [c EXCEPT !.props_live = (c.props = <<>>),
                       !.array = IF @ = "live" THEN "dangling" ELSE @]
UtilsWithout(i) == [utils EXCEPT !.live = @ /\ utils.inst # i]

Idle == call.pc \in {"idle", "ok", "failed"}

(* A call with its loop counters at rest.                                  *)
NoCall == [pc |-> "idle", inst |-> 0, args |-> <<>>, k |-> 0, it |-> AtEnd,
           index_advect |-> 0, index_const |-> 0]
Return(pc) == call' = [NoCall EXCEPT !.pc = pc, !.inst = call.inst, !.args = call.args]
Fail == Return("failed")

Init ==
  /\ allocated = FALSE
  /\ dyn = [i \in Instances |-> <<>>]
  /\ obj = [i \in Instances |-> NewObj]
  /\ cap = [i \in Instances |-> NewCap]
  /\ utils = NoUtils
  /\ call = NoCall
  /\ listed = [i \in Instances |-> <<>>]

(* <host>_ccpp_register: lc_instances is allocated by whichever of the two *)
(* registrations comes first; a scheme lists its constituents.             *)
CcppRegister(i) ==
  /\ Idle
  /\ allocated' = TRUE
  /\ \E d \in DynChoices : dyn' = [dyn EXCEPT ![i] = d]
  /\ UNCHANGED <<obj, cap, utils, call, listed>>

(***************************************************************************)
(* register_constituents.                                                  *)
(***************************************************************************)
RegisterConstituents(i) ==
  /\ Idle
  /\ allocated' = TRUE
  /\ \E h \in HostChoices :
       LET args == h \o dyn[i] \o Fixed IN
       /\ obj' = [obj EXCEPT ![i] = InitializeTable(@, Len(args))]
       /\ call' = [call EXCEPT !.pc = "add", !.inst = i, !.args = args, !.k = 1]
  /\ cap' = [cap EXCEPT ![i] = Dangle(@)]
  /\ utils' = UtilsWithout(i)
  /\ listed' = [listed EXCEPT ![i] = <<>>]
  /\ UNCHANGED dyn

Adding == call.pc = "add" /\ call.k <= Len(call.args)
Arg == call.args[call.k]
Obj == obj[call.inst]
SetObj(o) == obj' = [obj EXCEPT ![call.inst] = o]

AddOne ==
  /\ Adding /\ ~NewFieldFails(Obj, Arg)
  /\ SetObj(NewField(Obj, Arg))
  /\ call' = [call EXCEPT !.k = @ + 1]
  /\ UNCHANGED <<allocated, dyn, cap, utils, listed>>

AddFails ==
  /\ Adding /\ NewFieldFails(Obj, Arg)
  /\ Fail
  /\ UNCHANGED <<allocated, dyn, obj, cap, utils, listed>>

(* lock_table: the advected entries are counted, then all get their index. *)
LockTable ==
  /\ call.pc = "add" /\ call.k > Len(call.args)
  /\ SetObj([ResetArrays(Obj) EXCEPT
       !.num_advected = 0,
       !.const_metadata = [k \in 1 .. Obj.table.num_keys |-> None]])
  /\ call' = [call EXCEPT !.pc = "count", !.it = IterStart(Obj.table)]
  /\ UNCHANGED <<allocated, dyn, cap, utils, listed>>

Visited == IterValue(Obj.table, call.it)
Increment(b) == IF b THEN 1 ELSE 0

Count ==
  /\ call.pc = "count" /\ IterValid(call.it)
  /\ SetObj([Obj EXCEPT !.num_advected = @ + Increment(Visited.prop.adv)])
  /\ call' = [call EXCEPT !.it = IterNext(Obj.table, @)]
  /\ UNCHANGED <<allocated, dyn, cap, utils, listed>>

Counted ==
  /\ call.pc = "count" /\ ~IterValid(call.it)
  /\ call' = [call EXCEPT !.pc = "assign", !.it = IterStart(Obj.table),
                          !.index_advect = 0, !.index_const = Obj.num_advected]
  /\ UNCHANGED <<allocated, dyn, obj, cap, utils, listed>>

(* The index of the entry visited: advected ones count from 1, the others  *)
(* from num_advected + 1.                                                  *)
NextIndex == IF Visited.prop.adv THEN call.index_advect + 1 ELSE call.index_const + 1
Room == IF Visited.prop.adv THEN Obj.num_advected ELSE Len(Obj.const_metadata)

Assign ==
  /\ call.pc = "assign" /\ IterValid(call.it)
  /\ LET n == Visited.name
         good == NextIndex <= Room /\ Visited.prop.layer IN
     /\ SetObj(IF NextIndex <= Room
               THEN SetMetadata(SetConstIndex(Obj, n, NextIndex), NextIndex, n)
               ELSE Obj)
     /\ IF good
        THEN call' = [call EXCEPT
               !.it = IterNext(Obj.table, @),
               !.index_advect = @ + Increment(Visited.prop.adv),
               !.index_const = @ + Increment(~Visited.prop.adv)]
        ELSE Fail
  /\ UNCHANGED <<allocated, dyn, cap, utils, listed>>

(* Too few constituents found is an error; otherwise the table is locked.  *)
Assigned ==
  /\ call.pc = "assign" /\ ~IterValid(call.it)
  /\ IF /\ call.index_const = Obj.table.num_keys
        /\ call.index_advect = Obj.num_advected
     THEN /\ SetObj([Obj EXCEPT !.table_locked = TRUE])
          /\ call' = [call EXCEPT !.pc = "publish"]
     ELSE Fail /\ UNCHANGED obj
  /\ UNCHANGED <<allocated, dyn, cap, utils, listed>>

(* Mutant: the schemes get the list as it was registered. *)
HandOverListed(i) ==
  [inst |-> i, live |-> TRUE,
   names |-> [k \in DOMAIN call.args |-> call.args[k].name]]
HandOver(i) == [inst |-> i, live |-> TRUE, names |-> obj[i].const_metadata]

(* The cap keeps copies of the pointers, and gives them to the schemes.    *)
Publish ==
  LET i == call.inst
      found == [n \in DOMAIN cap[i].indices |-> ConstIndex(Obj, n)]
      good == \A n \in DOMAIN found : found[n] > 0 IN
  /\ call.pc = "publish"
  /\ cap' = [cap EXCEPT ![i].props = Obj.const_metadata, ![i].props_live = TRUE,
                        ![i].all = TRUE,
                        ![i].indices = IF good THEN found ELSE @]
  /\ utils' = HandOver(i)
  /\ Return(IF good THEN "ok" ELSE "failed")
  /\ listed' = [listed EXCEPT ![i] = call.args]
  /\ UNCHANGED <<allocated, dyn, obj>>

Registering == AddOne \/ AddFails \/ LockTable \/ Count \/ Counted \/ Assign
                 \/ Assigned \/ Publish

(***************************************************************************)
(* The other routines.  One that is refused returns an error and changes   *)
(* nothing.                                                                *)
(***************************************************************************)

(* The views, up to the first whose constituent is missing: that is an     *)
(* error, but the data stays locked.                                       *)
ViewsFound(o) == {k \in DOMAIN Views : \A l \in 1 .. k : ConstIndex(o, Views[l]) > 0}

InitializeConstituents(i) ==
  /\ Idle /\ allocated /\ cap[i].all
  /\ PropsLocked(obj[i]) /\ ~DataLocked(obj[i])
  /\ obj' = [obj EXCEPT ![i].vars_layer = TRUE, ![i].data_locked = TRUE]
  /\ cap' = [cap EXCEPT
       ![i].array = "live",
       ![i].views = [k \in ViewsFound(obj[i]) |-> ConstIndex(obj[i], Views[k])]]
  /\ UNCHANGED <<allocated, dyn, utils, call, listed>>

DeallocateDynamicConstituents(i) ==
  /\ Idle /\ allocated
  /\ dyn' = [dyn EXCEPT ![i] = <<>>]
  /\ obj' = [obj EXCEPT ![i] = Reset(@)]
  /\ cap' = [cap EXCEPT ![i] = [NewCap EXCEPT !.indices = cap[i].indices]]
  /\ utils' = UtilsWithout(i)
  /\ listed' = [listed EXCEPT ![i] = <<>>]
  /\ UNCHANGED <<allocated, call>>

Next ==
  \/ Registering
  \/ \E i \in Instances :
       \/ CcppRegister(i) \/ RegisterConstituents(i)
       \/ InitializeConstituents(i) \/ DeallocateDynamicConstituents(i)

(* A call that has begun goes on to its end.                               *)
Spec == Init /\ [][Next]_vars /\ WF_vars(Registering)

(* ccpp_constituent_index: the place in the last list handed over.         *)
SchemeIndex(n) ==
  LET ks == {k \in DOMAIN utils.names : utils.names[k] = n}
  IN  IF ks = {} THEN Unassigned ELSE FirstOf(ks)

(***************************************************************************)
(* Properties.                                                             *)
(***************************************************************************)

TypeOK ==
  /\ allocated \in BOOLEAN
  /\ DOMAIN dyn = Instances /\ \A i \in Instances : dyn[i] \in DynChoices \cup {<<>>}
  /\ \A i \in Instances :
       /\ obj[i].table_locked \in BOOLEAN /\ obj[i].data_locked \in BOOLEAN
       /\ obj[i].vars_layer \in BOOLEAN
       /\ obj[i].num_advected <= Len(obj[i].const_metadata)
       /\ Range(obj[i].const_metadata) \subseteq Names \cup {None}
       /\ obj[i].table.num_keys = Cardinality({n \in Names :
            IsInitialized(obj[i].table) /\ HasKey(obj[i].table, n)})
       /\ cap[i].array \in {"null", "live", "dangling"}
       /\ Range(cap[i].props) \subseteq Names
  /\ utils.inst \in Instances \cup {0}

Published(i) == PropsLocked(obj[i]) /\ ~(call.pc = "publish" /\ call.inst = i)

(* The hash table, const_metadata, the fixed indices of the cap and its    *)
(* views say the same.                                                     *)
MapsAgree ==
  \A i \in Instances :
    LET o == obj[i] IN
    /\ PropsLocked(o) =>
         /\ Len(o.const_metadata) = o.table.num_keys
         /\ \A k \in DOMAIN o.const_metadata :
              ConstIndex(o, o.const_metadata[k]) = k
    /\ Published(i) => \A n \in DOMAIN cap[i].indices :
                         cap[i].indices[n] = ConstIndex(o, n)
    /\ Locked(o) => \A k \in DOMAIN cap[i].views :
                      cap[i].views[k] = ConstIndex(o, Views[k])

(* All the ways to a constituent lead to the same place, and               *)
(* advected_constituents_array, a slice of the array, holds what copying   *)
(* out the advected constituents one by one would give.                    *)
IndicesAgree ==
  /\ MapsAgree
  /\ \A i \in Instances :
       PropsLocked(obj[i]) =>
         CopyIn(obj[i], {c \in Constituent : c.adv}) = [k \in 1 .. obj[i].num_advected |-> k]

(* What host and schemes were given may dangle only after a registration   *)
(* that has failed: never while the object is locked, and nothing is left  *)
(* after deallocate_dynamic_constituents.                                  *)
PublishedLive ==
  \A i \in Instances :
    /\ Published(i) => cap[i].props_live /\ cap[i].props = obj[i].const_metadata
    /\ Locked(obj[i]) => cap[i].array = "live" /\ obj[i].vars_layer
    /\ ~IsInitialized(obj[i].table) => cap[i].props = <<>> /\ cap[i].array = "null"

(* The one list of ccpp_scheme_utils serves all instances: as long as the  *)
(* last to register is not torn down, a scheme finds the index of its own  *)
(* instance if the instances registered the same list in the same order.   *)
SchemesFindOwn ==
  \A i \in Instances : \A n \in Names :
    (/\ utils.inst # 0 /\ utils.live
     /\ Published(i) /\ listed[i] = listed[utils.inst])
      => SchemeIndex(n) = ConstIndex(obj[i], n)

(* A registration fails for one of three reasons: two constituents of one  *)
(* name that do not match, one that is not on layers, or data that was     *)
(* locked before.  Whatever failed earlier, and in whichever state the     *)
(* instance is otherwise, it succeeds, and then knows all it was given.    *)
FirstNamed(args, n) == FirstOf({k \in DOMAIN args : args[k].name = n})
Conflict(args) == \E k \in DOMAIN args : ~IsMatch(args[FirstNamed(args, args[k].name)], args[k])
OffLayers(args) == \E k \in DOMAIN args : ~args[FirstNamed(args, args[k].name)].layer

RegistrationVerdict ==
  LET bad == Conflict(call.args) \/ OffLayers(call.args) IN
  /\ call.pc = "failed" => bad \/ Obj.data_locked
  /\ call.pc = "ok" =>
       /\ ~bad
       /\ PropsLocked(Obj) =>
            Range(Obj.const_metadata) = {call.args[k].name : k \in DOMAIN call.args}

(* register_constituents returns: the iterator reaches the end of the      *)
(* table.                                                                  *)
RegistrationReturns == (call.pc = "add") ~> Idle

(* The instances keep index maps as ConstituentMap says.                   *)
MapOf(o) ==
  [n \in IF PropsLocked(o) THEN Range(o.const_metadata) ELSE {} |->
     [ind |-> ConstIndex(o, n), adv |-> FindConst(o, n).prop.adv]]
Abstract == INSTANCE ConstituentMap WITH
  reg <- [i \in Instances |-> MapOf(obj[i])],
  ready <- [i \in Instances |-> Locked(obj[i])]
ImplementsConstituentMap == Abstract!Spec
=============================================================================

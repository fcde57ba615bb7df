----------------------------- MODULE HashTable -----------------------------
(***************************************************************************)
(* The hash table of ccpp_hash_table.F90 and its iterator.  A table is an  *)
(* array of buckets; a bucket holds its first entry in the array itself    *)
(* and the others in a chain behind it, here one sequence.                 *)
(*                                                                         *)
(* The hash of a name is a constant; an entry is a record with a field     *)
(* "name".                                                                 *)
(***************************************************************************)
EXTENDS Naturals, Sequences

CONSTANTS Names,   \* the keys
          Hash     \* Hash[n]: the hash of n, before it is cut to the table

ASSUME HashAssumption == Hash \in [Names -> Nat]

(* initialize_table(tbl_size): 2^tbl_size empty buckets.                   *)
EmptyTable(tbl_size) ==
  [chain |-> [b \in 1 .. 2 ^ tbl_size |-> <<>>], num_keys |-> 0]

NoTable == [chain |-> <<>>, num_keys |-> 0]
IsInitialized(t) == t # NoTable

TableSize(t) == Len(t.chain)
KeyHash(t, n) == (Hash[n] % TableSize(t)) + 1

Matching(t, n) == {e \in {t.chain[KeyHash(t, n)][k] :
                            k \in DOMAIN t.chain[KeyHash(t, n)]} : e.name = n}
HasKey(t, n) == Matching(t, n) # {}
TableValue(t, n) == CHOOSE e \in Matching(t, n) : TRUE

(* Mutant: known keys are added again.                                     *)
AddHashKeyTwice(t, e) ==
  [t EXCEPT !.chain[KeyHash(t, e.name)] = Append(@, e), !.num_keys = @ + 1]

(* A new entry goes to the end of its chain; a known key changes nothing.  *)
AddHashKey(t, e) ==
  IF HasKey(t, e.name)
  THEN t
  ELSE [t EXCEPT !.chain[KeyHash(t, e.name)] = Append(@, e),
                 !.num_keys = @ + 1]

(* What an assignment through a pointer to the entry does.                 *)
Update(t, e) ==
  [t EXCEPT !.chain[KeyHash(t, e.name)] =
     [k \in DOMAIN @ |-> IF @[k].name = e.name THEN e ELSE @[k]]]

(***************************************************************************)
(* The iterator: bucket and place in its chain; bucket 0 at the end.       *)
(***************************************************************************)
AtEnd == [bucket |-> 0, place |-> 0]
Used(t) == {b \in DOMAIN t.chain : t.chain[b] # <<>>}
FirstOf(S) == CHOOSE b \in S : \A c \in S : b <= c

(* Starts in the first used bucket: looking for it in a table without      *)
(* entries is out of bounds, and no caller may do so.                      *)
IterStart(t) == [bucket |-> FirstOf(Used(t)), place |-> 1]
IterValid(it) == it.bucket > 0
IterValue(t, it) == t.chain[it.bucket][it.place]

(* Mutants: the chains are not walked; the step into a chain is not made.  *)
IterNextSkipsChains(t, it) ==
  LET later == {b \in Used(t) : b > it.bucket}
  IN  IF later # {} THEN [bucket |-> FirstOf(later), place |-> 1] ELSE AtEnd
IterNextSticks(t, it) ==
  IF it.place < Len(t.chain[it.bucket]) THEN it ELSE IterNextSkipsChains(t, it)

IterNext(t, it) ==
  LET later == {b \in Used(t) : b > it.bucket}
  IN  IF it.place < Len(t.chain[it.bucket])
      THEN [it EXCEPT !.place = @ + 1]
      ELSE IF later # {} THEN [bucket |-> FirstOf(later), place |-> 1]
      ELSE AtEnd
=============================================================================

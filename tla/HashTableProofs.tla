--------------------------- MODULE HashTableProofs ---------------------------
(***************************************************************************)
(* What the operators of HashTable do, as lemmas: where the entries are,   *)
(* what adding and updating change, and that the iterator goes past every  *)
(* entry once.  An entry is looked at by its place, the bucket and the     *)
(* position in its chain.                                                  *)
(***************************************************************************)
EXTENDS HashTable, FiniteSets, FiniteSetTheorems, WellFoundedInduction, TLAPS

Entries(E) == \A e \in E : e.name \in Names
Tables(E) == [chain : Seq(Seq(E)), num_keys : Nat]
Iterators == [bucket : Nat, place : Nat]

Places(t) == UNION {{b} \X DOMAIN t.chain[b] : b \in DOMAIN t.chain}
At(t, p) == t.chain[p[1]][p[2]]
Place(it) == <<it.bucket, it.place>>

(* Every entry is in the bucket of its name, and no name is there twice.   *)
WellFormed(t) ==
  /\ t.chain # <<>>
  /\ \A p \in Places(t) : KeyHash(t, At(t, p).name) = p[1]
  /\ \A p, r \in Places(t) : At(t, p).name = At(t, r).name => p = r
  /\ IsFiniteSet(Places(t)) /\ t.num_keys = Cardinality(Places(t))

(* The iterator is on an entry or at the end; the entries it has gone past. *)
OnTable(t, it) == it = AtEnd \/ Place(it) \in Places(t)
Seen(t, it) ==
  {p \in Places(t) : \/ ~IterValid(it) \/ p[1] < it.bucket
                     \/ p[1] = it.bucket /\ p[2] < it.place}

-----------------------------------------------------------------------------
(* A nonempty set of numbers has a first element, and FirstOf finds it.    *)
LEMMA FirstOfIsLeast ==
  ASSUME NEW S, S \subseteq Nat, S # {}
  PROVE  FirstOf(S) \in S /\ \A y \in S : FirstOf(S) <= y
<1>1. IsWellFoundedOn(OpToRel(<, Nat), Nat)
  BY NatLessThanWellFounded, Zenon
<1>2. \E x \in S : \A y \in S : ~ (<<y, x>> \in OpToRel(<, Nat))
  BY <1>1, WFMin, Zenon
<1>3. \E x \in S : \A y \in S : ~ (y < x)
  BY <1>2 DEF OpToRel
<1>4. \E x \in S : \A y \in S : x <= y
  BY <1>3
<1> QED
  BY <1>4, Zenon DEF FirstOf

(* The places of a table.                                                  *)
LEMMA InPlaces ==
  ASSUME NEW E, NEW t \in Tables(E)
  PROVE  /\ Places(t) \subseteq Nat \X Nat
         /\ \A b, k : <<b, k>> \in Places(t) <=>
              b \in 1 .. Len(t.chain) /\ k \in 1 .. Len(t.chain[b])
         /\ \A p \in Places(t) : /\ p = <<p[1], p[2]>>
                                 /\ p[1] \in 1 .. Len(t.chain)
                                 /\ p[2] \in 1 .. Len(t.chain[p[1]])
                                 /\ At(t, p) \in E
<1>1. t.chain \in Seq(Seq(E)) /\ DOMAIN t.chain = 1 .. Len(t.chain)
  BY DEF Tables
<1>2. \A b \in 1 .. Len(t.chain) :
        t.chain[b] \in Seq(E) /\ DOMAIN t.chain[b] = 1 .. Len(t.chain[b])
  BY <1>1
<1>3. Places(t) = UNION {{b} \X (1 .. Len(t.chain[b])) : b \in 1 .. Len(t.chain)}
  BY <1>1, <1>2 DEF Places
<1>4. ASSUME NEW p \in Places(t)
      PROVE  /\ p = <<p[1], p[2]>>
             /\ p[1] \in 1 .. Len(t.chain)
             /\ p[2] \in 1 .. Len(t.chain[p[1]])
  <2>1. PICK b \in 1 .. Len(t.chain) : p \in {b} \X (1 .. Len(t.chain[b]))
    BY <1>3
  <2> QED
    BY <2>1
<1>5. ASSUME NEW b \in 1 .. Len(t.chain), NEW k \in 1 .. Len(t.chain[b])
      PROVE  <<b, k>> \in Places(t)
  BY <1>3
<1>6. \A b, k : <<b, k>> \in Places(t) <=>
              b \in 1 .. Len(t.chain) /\ k \in 1 .. Len(t.chain[b])
  <2> TAKE b, k
  <2>1. <<b, k>> \in Places(t) => b \in 1 .. Len(t.chain) /\ k \in 1 .. Len(t.chain[b])
    <3> HAVE <<b, k>> \in Places(t)
    <3> DEFINE p == <<b, k>>
    <3>1. p[1] = b /\ p[2] = k
      OBVIOUS
    <3>2. p \in Places(t)
      OBVIOUS
    <3> HIDE DEF p
    <3>3. p[1] \in 1 .. Len(t.chain) /\ p[2] \in 1 .. Len(t.chain[p[1]])
      BY <1>4, <3>2
    <3> QED
      BY <3>1, <3>3
  <2> QED
    BY <2>1, <1>5
<1>7. ASSUME NEW p \in Places(t) PROVE At(t, p) \in E
  BY <1>4, <1>2 DEF At
<1>8. ASSUME NEW p \in Places(t) PROVE p \in Nat \X Nat
  <2>1. p[1] \in Nat /\ p[2] \in Nat /\ p = <<p[1], p[2]>>
    BY <1>4, <1>1, <1>2
  <2> QED
    BY <2>1
<1> QED
  BY <1>4, <1>6, <1>7, <1>8

(* The bucket of a name is one of the table's.                             *)
LEMMA BucketOf ==
  ASSUME NEW E, NEW t \in Tables(E), t.chain # <<>>, NEW n \in Names
  PROVE  KeyHash(t, n) \in 1 .. Len(t.chain)
<1>1. Len(t.chain) \in Nat /\ Len(t.chain) > 0
  BY DEF Tables
<1>2. Hash[n] \in Nat
  BY HashAssumption
<1>3. Hash[n] % Len(t.chain) \in 0 .. Len(t.chain) - 1
  BY <1>1, <1>2
<1> QED
  BY <1>1, <1>3 DEF KeyHash, TableSize

(* A lookup finds the entry of that name, if there is one.                 *)
LEMMA Lookup ==
  ASSUME NEW E, Entries(E), NEW t \in Tables(E), WellFormed(t)
  PROVE  /\ \A n \in Names : HasKey(t, n) <=> \E p \in Places(t) : At(t, p).name = n
         /\ \A p \in Places(t) : /\ At(t, p).name \in Names
                                 /\ TableValue(t, At(t, p).name) = At(t, p)
<1>1. t.chain \in Seq(Seq(E)) /\ DOMAIN t.chain = 1 .. Len(t.chain)
  BY DEF Tables
<1>2. \A b \in 1 .. Len(t.chain) :
        t.chain[b] \in Seq(E) /\ DOMAIN t.chain[b] = 1 .. Len(t.chain[b])
  BY <1>1
<1>3. \A p \in Places(t) : At(t, p) \in E /\ At(t, p).name \in Names
  BY InPlaces DEF Entries
<1>4. ASSUME NEW n \in Names, NEW e
      PROVE  e \in Matching(t, n) <=> \E p \in Places(t) : At(t, p) = e /\ e.name = n
  <2> DEFINE b == KeyHash(t, n)
  <2>1. b \in 1 .. Len(t.chain)
    BY BucketOf DEF WellFormed
  <2>2. e \in Matching(t, n) <=> e.name = n /\ \E k \in 1 .. Len(t.chain[b]) : t.chain[b][k] = e
    BY <2>1, <1>2 DEF Matching
  <2>3. ASSUME NEW k \in 1 .. Len(t.chain[b]), t.chain[b][k] = e
        PROVE  \E p \in Places(t) : At(t, p) = e
    <3>1. <<b, k>> \in Places(t) /\ At(t, <<b, k>>) = t.chain[b][k]
      BY <2>1, InPlaces DEF At
    <3> QED
      BY <3>1, <2>3
  <2>4. ASSUME NEW p \in Places(t), At(t, p) = e, e.name = n
        PROVE  \E k \in 1 .. Len(t.chain[b]) : t.chain[b][k] = e
    <3>1. p[1] = b
      BY <2>4 DEF WellFormed
    <3>2. p[2] \in 1 .. Len(t.chain[p[1]]) /\ t.chain[p[1]][p[2]] = e
      BY <2>4, InPlaces DEF At
    <3> QED
      BY <3>1, <3>2
  <2> QED
    BY <2>2, <2>3, <2>4
<1>5. ASSUME NEW n \in Names
      PROVE  HasKey(t, n) <=> \E p \in Places(t) : At(t, p).name = n
  BY <1>4 DEF HasKey
<1>6. ASSUME NEW p \in Places(t)
      PROVE  TableValue(t, At(t, p).name) = At(t, p)
  <2> DEFINE n == At(t, p).name
  <2>1. n \in Names
    BY <1>3
  <2>2. At(t, p) \in Matching(t, n)
    BY <1>4, <2>1
  <2>3. TableValue(t, n) \in Matching(t, n)
    BY <2>2 DEF TableValue
  <2>4. PICK r \in Places(t) : At(t, r) = TableValue(t, n) /\ At(t, r).name = n
    BY <1>4, <2>1, <2>3
  <2>5. r = p
    BY <2>4 DEF WellFormed
  <2> QED
    BY <2>4, <2>5
<1> QED
  BY <1>3, <1>5, <1>6

(* An initialized table is empty and well formed.                          *)
LEMMA EmptyTableIs ==
  ASSUME NEW E, NEW k, 2 ^ k \in Nat \ {0}
  PROVE  LET t == EmptyTable(k) IN
         t \in Tables(E) /\ WellFormed(t) /\ Places(t) = {} /\ t.num_keys = 0
<1> DEFINE t == EmptyTable(k)
<1>1. t.chain = [b \in 1 .. 2 ^ k |-> <<>>] /\ t.num_keys = 0
  BY DEF EmptyTable
<1>2. t.chain \in Seq(Seq(E)) /\ Len(t.chain) = 2 ^ k
  <2>1. <<>> \in Seq(E)
    OBVIOUS
  <2> DEFINE m == 2 ^ k
  <2>2. m \in Nat \ {0}
    OBVIOUS
  <2> HIDE DEF m
  <2>3. [b \in 1 .. m |-> <<>>] \in Seq(Seq(E)) /\ Len([b \in 1 .. m |-> <<>>]) = m
    BY <2>1, <2>2
  <2> QED
    BY <2>3, <1>1 DEF m
<1>3. t = [chain |-> t.chain, num_keys |-> t.num_keys]
  BY <1>1 DEF EmptyTable
<1>4. t \in Tables(E)
  <2>1. t.num_keys \in Nat
    BY <1>1
  <2> HIDE DEF t
  <2> QED
    BY <2>1, <1>2, <1>3 DEF Tables
<1>5. t.chain # <<>>
  BY <1>2
<1>6. \A b \in DOMAIN t.chain : t.chain[b] = <<>>
  BY <1>1
<1>7. Places(t) = {}
  BY <1>6 DEF Places
<1>8. IsFiniteSet(Places(t)) /\ Cardinality(Places(t)) = 0
  BY <1>7, FS_EmptySet
<1> HIDE DEF t
<1>9. WellFormed(t)
  BY <1>1, <1>5, <1>7, <1>8 DEF WellFormed
<1> QED
  BY <1>1, <1>4, <1>7, <1>9 DEF t

(* A new entry gets one new place; all others stay where they are.         *)
LEMMA AddIs ==
  ASSUME NEW E, Entries(E), NEW t \in Tables(E), WellFormed(t),
         NEW e \in E, ~HasKey(t, e.name)
  PROVE  LET u == AddHashKey(t, e)
             b == KeyHash(t, e.name)
             q == <<b, Len(t.chain[b]) + 1>> IN
         /\ u \in Tables(E) /\ WellFormed(u)
         /\ q \notin Places(t) /\ Places(u) = Places(t) \cup {q}
         /\ At(u, q) = e
         /\ \A p \in Places(t) : At(u, p) = At(t, p)
<1> DEFINE u == AddHashKey(t, e)
           b == KeyHash(t, e.name)
           q == <<b, Len(t.chain[b]) + 1>>
<1>1. t.chain \in Seq(Seq(E)) /\ DOMAIN t.chain = 1 .. Len(t.chain) /\ t.num_keys \in Nat
  BY DEF Tables
<1>2. \A c \in 1 .. Len(t.chain) :
        t.chain[c] \in Seq(E) /\ DOMAIN t.chain[c] = 1 .. Len(t.chain[c])
  BY <1>1
<1>3. b \in 1 .. Len(t.chain) /\ e.name \in Names
  BY BucketOf DEF WellFormed, Entries
<1>4. u = [chain |-> [t.chain EXCEPT ![b] = Append(t.chain[b], e)], num_keys |-> t.num_keys + 1]
  BY <1>1 DEF AddHashKey, Tables
<1> HIDE DEF u, b
<1>5. /\ u.chain = [t.chain EXCEPT ![b] = Append(t.chain[b], e)]
      /\ u.num_keys = t.num_keys + 1
  BY <1>4
<1>6. /\ u.chain \in Seq(Seq(E)) /\ Len(u.chain) = Len(t.chain)
      /\ u.chain[b] = Append(t.chain[b], e)
      /\ \A c \in 1 .. Len(t.chain) : c # b => u.chain[c] = t.chain[c]
  <2>1. Append(t.chain[b], e) \in Seq(E)
    BY <1>2, <1>3
  <2> QED
    BY <1>1, <1>3, <1>5, <2>1
<1>7. u \in Tables(E)
  BY <1>1, <1>4, <1>5, <1>6 DEF Tables
<1>8. /\ Len(u.chain[b]) = Len(t.chain[b]) + 1
      /\ u.chain[b][Len(t.chain[b]) + 1] = e
      /\ \A k \in 1 .. Len(t.chain[b]) : u.chain[b][k] = t.chain[b][k]
      /\ Len(t.chain[b]) \in Nat
  BY <1>2, <1>3, <1>6
<1>9. \A c, k : <<c, k>> \in Places(u) <=> <<c, k>> \in Places(t) \/ <<c, k>> = q
  <2> TAKE c, k
  <2>1. <<c, k>> \in Places(u) <=> c \in 1 .. Len(u.chain) /\ k \in 1 .. Len(u.chain[c])
    BY <1>7, InPlaces
  <2>2. <<c, k>> \in Places(t) <=> c \in 1 .. Len(t.chain) /\ k \in 1 .. Len(t.chain[c])
    BY InPlaces
  <2>3. CASE c = b
    <3>1. k \in 1 .. Len(u.chain[b]) <=> k \in 1 .. Len(t.chain[b]) \/ k = Len(t.chain[b]) + 1
      BY <1>8
    <3> QED
      BY <2>1, <2>2, <2>3, <3>1, <1>6, <1>3
  <2>4. CASE c # b
    BY <2>1, <2>2, <2>4, <1>6
  <2> QED
    BY <2>3, <2>4
<1>10. q \notin Places(t)
  BY InPlaces, <1>8
<1>11. Places(u) = Places(t) \cup {q}
  <2>1. \A p \in Places(u) : p = <<p[1], p[2]>>
    BY <1>7, InPlaces
  <2>2. \A p \in Places(t) \cup {q} : p = <<p[1], p[2]>>
    BY InPlaces
  <2> HIDE DEF q
  <2> QED
    BY <2>1, <2>2, <1>9
<1>12. At(u, q) = e
  BY <1>8 DEF At
<1>13. ASSUME NEW p \in Places(t) PROVE At(u, p) = At(t, p)
  <2>1. p[1] \in 1 .. Len(t.chain) /\ p[2] \in 1 .. Len(t.chain[p[1]])
    BY InPlaces
  <2>2. u.chain[p[1]][p[2]] = t.chain[p[1]][p[2]]
    <3>1. CASE p[1] = b
      BY <2>1, <3>1, <1>8
    <3>2. CASE p[1] # b
      BY <2>1, <3>2, <1>6
    <3> QED
      BY <3>1, <3>2
  <2> QED
    BY <2>2 DEF At
<1>14. \A n : KeyHash(u, n) = KeyHash(t, n)
  BY <1>6 DEF KeyHash, TableSize
<1>15. q[1] = b /\ b = KeyHash(t, e.name)
  BY DEF b
<1> HIDE DEF q
<1>16. WellFormed(u)
  <2>1. u.chain # <<>>
    BY <1>3, <1>6
  <2>2. \A p \in Places(u) : KeyHash(u, At(u, p).name) = p[1]
    BY <1>11, <1>12, <1>13, <1>14, <1>15 DEF WellFormed
  <2>3. \A p \in Places(t) : At(t, p).name # e.name
    BY <1>3, Lookup
  <2>4. \A p, r \in Places(u) : At(u, p).name = At(u, r).name => p = r
    BY <1>11, <1>12, <1>13, <2>3 DEF WellFormed
  <2>5. IsFiniteSet(Places(u)) /\ Cardinality(Places(u)) = Cardinality(Places(t)) + 1
    BY <1>10, <1>11, FS_AddElement DEF WellFormed
  <2> QED
    BY <2>1, <2>2, <2>4, <2>5, <1>5 DEF WellFormed
<1> QED
  BY <1>7, <1>10, <1>11, <1>12, <1>13, <1>16 DEF q, u, b

(* An update changes the one entry and leaves all places as they are.      *)
LEMMA UpdateIs ==
  ASSUME NEW E, Entries(E), NEW t \in Tables(E), WellFormed(t),
         NEW q \in Places(t), NEW e \in E, e.name = At(t, q).name
  PROVE  LET u == Update(t, e) IN
         /\ u \in Tables(E) /\ WellFormed(u)
         /\ Places(u) = Places(t) /\ u.num_keys = t.num_keys
         /\ At(u, q) = e
         /\ \A p \in Places(t) : p # q => At(u, p) = At(t, p)
<1> DEFINE u == Update(t, e)
           b == KeyHash(t, e.name)
           new == [k \in DOMAIN t.chain[b] |->
                     IF t.chain[b][k].name = e.name THEN e ELSE t.chain[b][k]]
<1>1. t.chain \in Seq(Seq(E)) /\ DOMAIN t.chain = 1 .. Len(t.chain) /\ t.num_keys \in Nat
  BY DEF Tables
<1>2. \A c \in 1 .. Len(t.chain) :
        t.chain[c] \in Seq(E) /\ DOMAIN t.chain[c] = 1 .. Len(t.chain[c])
  BY <1>1
<1>3. b \in 1 .. Len(t.chain) /\ e.name \in Names
  BY BucketOf DEF WellFormed, Entries
<1>4. u = [chain |-> [t.chain EXCEPT ![b] = new], num_keys |-> t.num_keys]
  <2>1. t = [chain |-> t.chain, num_keys |-> t.num_keys]
    BY DEF Tables
  <2>2. u = [t EXCEPT !.chain = [t.chain EXCEPT ![b] = new]]
    BY Zenon DEF Update
  <2> HIDE DEF u, new, b
  <2> QED
    BY <2>1, <2>2
<1>5. /\ new \in Seq(E) /\ Len(new) = Len(t.chain[b])
      /\ \A k \in 1 .. Len(t.chain[b]) :
           new[k] = IF t.chain[b][k].name = e.name THEN e ELSE t.chain[b][k]
  <2> DEFINE s == t.chain[b]
             n == Len(s)
  <2>1. s \in Seq(E) /\ DOMAIN s = 1 .. n /\ n \in Nat
    BY <1>2, <1>3
  <2>2. new = [k \in 1 .. n |-> IF s[k].name = e.name THEN e ELSE s[k]]
    BY <2>1
  <2> HIDE DEF new, s, n
  <2>3. \A k \in 1 .. n : s[k] \in E
    BY <2>1 DEF n
  <2>4. new \in [1 .. n -> E]
    BY <2>2, <2>3
  <2>5. new \in Seq(E) /\ Len(new) = n
    BY <2>1, <2>4
  <2> QED
    BY <2>2, <2>5 DEF s, n
<1> HIDE DEF u, new, b
<1>6. /\ u.chain \in Seq(Seq(E)) /\ Len(u.chain) = Len(t.chain)
      /\ u.chain[b] = new /\ u.num_keys = t.num_keys
      /\ \A c \in 1 .. Len(t.chain) : c # b => u.chain[c] = t.chain[c]
  BY <1>1, <1>3, <1>4, <1>5
<1>7. u \in Tables(E)
  BY <1>1, <1>4, <1>6 DEF Tables
<1>8. \A c \in 1 .. Len(t.chain) : Len(u.chain[c]) = Len(t.chain[c])
  BY <1>5, <1>6
<1>9. Places(u) = Places(t)
  <2>1. \A c, k : <<c, k>> \in Places(u) <=> <<c, k>> \in Places(t)
    <3> TAKE c, k
    <3>1. <<c, k>> \in Places(u) <=> c \in 1 .. Len(u.chain) /\ k \in 1 .. Len(u.chain[c])
      BY <1>7, InPlaces
    <3>2. <<c, k>> \in Places(t) <=> c \in 1 .. Len(t.chain) /\ k \in 1 .. Len(t.chain[c])
      BY InPlaces
    <3> QED
      BY <3>1, <3>2, <1>6, <1>8
  <2>2. /\ \A p \in Places(u) : p = <<p[1], p[2]>>
        /\ \A p \in Places(t) : p = <<p[1], p[2]>>
    BY <1>7, InPlaces
  <2> QED
    BY <2>1, <2>2
<1>10. ASSUME NEW p \in Places(t)
       PROVE  At(u, p) = IF At(t, p).name = e.name THEN e ELSE At(t, p)
  <2>1. p[1] \in 1 .. Len(t.chain) /\ p[2] \in 1 .. Len(t.chain[p[1]])
    BY InPlaces
  <2>2. CASE p[1] = b
    BY <2>1, <2>2, <1>5, <1>6 DEF At
  <2>3. CASE p[1] # b
    <3>1. At(t, p).name # e.name
      BY <2>3 DEF WellFormed, b
    <3> QED
      BY <2>1, <2>3, <3>1, <1>6 DEF At
  <2> QED
    BY <2>2, <2>3
<1>11. \A p \in Places(t) : At(t, p).name = e.name => p = q
  BY DEF WellFormed
<1>12. \A p \in Places(t) : At(u, p).name = At(t, p).name
  BY <1>10
<1>13. \A n : KeyHash(u, n) = KeyHash(t, n)
  BY <1>6 DEF KeyHash, TableSize
<1>14. WellFormed(u)
  <2>1. u.chain # <<>>
    BY <1>3, <1>6
  <2> QED
    BY <2>1, <1>6, <1>9, <1>12, <1>13 DEF WellFormed
<1> QED
  BY <1>6, <1>7, <1>9, <1>10, <1>11, <1>14 DEF u

(* The iterator starts on an entry, before all others.                     *)
LEMMA StartIs ==
  ASSUME NEW E, NEW t \in Tables(E), Places(t) # {}
  PROVE  LET it == IterStart(t) IN
         /\ it \in Iterators /\ IterValid(it)
         /\ OnTable(t, it) /\ Seen(t, it) = {}
<1> DEFINE f == FirstOf(Used(t))
<1>1. t.chain \in Seq(Seq(E)) /\ DOMAIN t.chain = 1 .. Len(t.chain)
  BY DEF Tables
<1>2. \A b \in 1 .. Len(t.chain) : Len(t.chain[b]) \in Nat /\ (t.chain[b] # <<>> <=> Len(t.chain[b]) > 0)
  <2>1. \A b \in 1 .. Len(t.chain) : t.chain[b] \in Seq(E)
    BY <1>1
  <2> QED
    BY <2>1
<1>3. Used(t) = {b \in 1 .. Len(t.chain) : Len(t.chain[b]) > 0}
  BY <1>1, <1>2 DEF Used
<1>4. \A p \in Places(t) : p[1] \in Used(t) /\ p[2] >= 1
  BY <1>2, <1>3, InPlaces
<1>5. Used(t) \subseteq Nat /\ Used(t) # {}
  BY <1>3, <1>4
<1>6. f \in Used(t) /\ \A b \in Used(t) : f <= b
  BY <1>5, FirstOfIsLeast
<1> HIDE DEF f
<1>7. <<f, 1>> \in Places(t)
  BY <1>2, <1>3, <1>6, InPlaces
<1>8. IterStart(t) = [bucket |-> f, place |-> 1]
  BY DEF IterStart, f
<1>9. f \in Nat /\ f > 0
  BY <1>3, <1>6
<1>10. \A p \in Places(t) : p[1] \in Nat /\ p[2] \in Nat
  BY InPlaces
<1>11. Seen(t, IterStart(t)) = {}
  BY <1>4, <1>6, <1>8, <1>9, <1>10 DEF Seen, IterValid
<1> QED
  BY <1>7, <1>8, <1>9, <1>11 DEF Iterators, IterValid, OnTable, Place

(* A step of the iterator goes past the one entry it was on.               *)
LEMMA NextIs ==
  ASSUME NEW E, NEW t \in Tables(E), NEW it \in Iterators,
         OnTable(t, it), IterValid(it)
  PROVE  LET n == IterNext(t, it) IN
         /\ n \in Iterators /\ OnTable(t, n)
         /\ Place(it) \in Places(t) /\ IterValue(t, it) = At(t, Place(it))
         /\ Place(it) \notin Seen(t, it)
         /\ Seen(t, n) = Seen(t, it) \cup {Place(it)}
<1> DEFINE n == IterNext(t, it)
           b == it.bucket
           k == it.place
           later == {c \in Used(t) : c > b}
<1>1. t.chain \in Seq(Seq(E)) /\ DOMAIN t.chain = 1 .. Len(t.chain)
  BY DEF Tables
<1>2. \A c \in 1 .. Len(t.chain) :
        /\ Len(t.chain[c]) \in Nat
        /\ t.chain[c] # <<>> <=> Len(t.chain[c]) > 0
  <2>1. \A c \in 1 .. Len(t.chain) : t.chain[c] \in Seq(E)
    BY <1>1
  <2> QED
    BY <2>1
<1>3. Used(t) = {c \in 1 .. Len(t.chain) : Len(t.chain[c]) > 0}
  BY <1>1, <1>2 DEF Used
<1>4. b \in Nat /\ k \in Nat /\ b > 0 /\ it # AtEnd /\ it = [bucket |-> b, place |-> k]
  BY DEF Iterators, IterValid, AtEnd
<1>5. <<b, k>> \in Places(t) /\ Place(it) = <<b, k>>
  BY <1>4 DEF OnTable, Place
<1>6. b \in 1 .. Len(t.chain) /\ k \in 1 .. Len(t.chain[b])
  BY <1>5, InPlaces
<1>7. IterValue(t, it) = At(t, Place(it))
  BY <1>5 DEF IterValue, At
<1>8. Place(it) \notin Seen(t, it)
  BY <1>4, <1>5 DEF Seen, IterValid
<1>9. \A p \in Places(t) : /\ p[1] \in Used(t) /\ p[1] \in Nat /\ p[2] \in Nat
                           /\ p[2] >= 1 /\ p[2] <= Len(t.chain[p[1]])
                           /\ p = <<b, k>> <=> p[1] = b /\ p[2] = k
  <2> SUFFICES ASSUME NEW p \in Places(t)
               PROVE  /\ p[1] \in Used(t) /\ p[1] \in Nat /\ p[2] \in Nat
                      /\ p[2] >= 1 /\ p[2] <= Len(t.chain[p[1]])
                      /\ p = <<b, k>> <=> p[1] = b /\ p[2] = k
    OBVIOUS
  <2>1. p = <<p[1], p[2]>> /\ p[1] \in 1 .. Len(t.chain) /\ p[2] \in 1 .. Len(t.chain[p[1]])
    BY InPlaces
  <2> QED
    BY <2>1, <1>2, <1>3
<1>10. Seen(t, it) = {p \in Places(t) : p[1] < b \/ (p[1] = b /\ p[2] < k)}
  BY <1>4 DEF Seen, IterValid
<1>11. Seen(t, it) \cup {Place(it)}
         = {p \in Places(t) : p[1] < b \/ (p[1] = b /\ p[2] <= k)}
  BY <1>4, <1>5, <1>9, <1>10
<1> HIDE DEF later
<1>12. CASE k < Len(t.chain[b])
  <2>1. n = [bucket |-> b, place |-> k + 1]
    BY <1>4, <1>12 DEF IterNext
  <2>2. <<b, k + 1>> \in Places(t)
    BY <1>2, <1>4, <1>6, <1>12, InPlaces
  <2> HIDE DEF n
  <2>3. Seen(t, n) = {p \in Places(t) : p[1] < b \/ (p[1] = b /\ p[2] < k + 1)}
    BY <2>1, <1>4 DEF Seen, IterValid
  <2>4. Seen(t, n) = Seen(t, it) \cup {Place(it)}
    BY <2>3, <1>4, <1>9, <1>11
  <2>5. n \in Iterators /\ OnTable(t, n)
    BY <2>1, <2>2, <1>4 DEF Iterators, OnTable, Place
  <2> QED
    BY <2>4, <2>5, <1>5, <1>7, <1>8 DEF n
<1>13. CASE ~(k < Len(t.chain[b])) /\ later # {}
  <2> DEFINE f == FirstOf(later)
  <2>1. n = [bucket |-> f, place |-> 1]
    BY <1>13 DEF IterNext, later
  <2>2. f \in later /\ \A c \in later : f <= c
    <3>1. later \subseteq Nat
      BY <1>3 DEF later
    <3> QED
      BY <3>1, <1>13, FirstOfIsLeast
  <2> HIDE DEF n, f
  <2>3. f \in Used(t) /\ f \in Nat /\ f > b
    BY <2>2, <1>3 DEF later
  <2>4. <<f, 1>> \in Places(t)
    BY <2>3, <1>2, <1>3, InPlaces
  <2>5. \A c \in Used(t) : c > b => f <= c
    BY <2>2 DEF later
  <2>6. Seen(t, n) = {p \in Places(t) : p[1] < f \/ (p[1] = f /\ p[2] < 1)}
    BY <2>1, <2>3, <1>4 DEF Seen, IterValid
  <2>7. ASSUME NEW p \in Places(t)
        PROVE  p[1] < f \/ (p[1] = f /\ p[2] < 1) <=> p[1] < b \/ (p[1] = b /\ p[2] <= k)
    <3>1. p[1] \in Used(t) /\ p[1] \in Nat /\ p[2] \in Nat /\ p[2] >= 1
      BY <1>9
    <3>2. p[1] = b => p[2] <= k
      <4>1. p[2] <= Len(t.chain[p[1]]) /\ Len(t.chain[b]) \in Nat
        BY <1>2, <1>6, <1>9
      <4> QED
        BY <4>1, <3>1, <1>4, <1>13
    <3>3. p[1] < f <=> p[1] <= b
      BY <2>3, <2>5, <3>1, <1>4
    <3> QED
      BY <2>3, <3>1, <3>2, <3>3, <1>4
  <2>8. Seen(t, n) = Seen(t, it) \cup {Place(it)}
    BY <2>6, <2>7, <1>11
  <2>9. n \in Iterators /\ OnTable(t, n)
    BY <2>1, <2>3, <2>4 DEF Iterators, OnTable, Place
  <2> QED
    BY <2>8, <2>9, <1>5, <1>7, <1>8 DEF n
<1>14. CASE ~(k < Len(t.chain[b])) /\ later = {}
  <2>1. n = AtEnd
    BY <1>14 DEF IterNext, later
  <2> HIDE DEF n
  <2>2. Seen(t, n) = Places(t)
    BY <2>1 DEF Seen, IterValid, AtEnd
  <2>3. ASSUME NEW p \in Places(t)
        PROVE  p[1] < b \/ (p[1] = b /\ p[2] <= k)
    <3>1. p[1] \in Used(t) /\ p[1] \in Nat /\ p[2] \in Nat
      BY <1>9
    <3>2. p[1] = b => p[2] <= k
      <4>1. p[2] <= Len(t.chain[p[1]]) /\ Len(t.chain[b]) \in Nat
        BY <1>2, <1>6, <1>9
      <4> QED
        BY <4>1, <3>1, <1>4, <1>14
    <3>3. ~(p[1] > b)
      BY <3>1, <1>14 DEF later
    <3> QED
      BY <3>1, <3>2, <3>3, <1>4
  <2>4. Seen(t, n) = Seen(t, it) \cup {Place(it)}
    BY <2>2, <2>3, <1>11
  <2>5. n \in Iterators /\ OnTable(t, n)
    BY <2>1 DEF Iterators, OnTable, AtEnd
  <2> QED
    BY <2>4, <2>5, <1>5, <1>7, <1>8 DEF n
<1> QED
  BY <1>12, <1>13, <1>14

(* At the end every entry has been gone past.                              *)
LEMMA SeenAtEnd ==
  ASSUME NEW t, NEW it, ~IterValid(it)
  PROVE  Seen(t, it) = Places(t)
BY DEF Seen
=============================================================================

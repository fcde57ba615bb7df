--------------------------- MODULE ResidencyProofs ---------------------------
(***************************************************************************)
(* Theorems about Residency: for any suites, groups, chunks and time steps *)
(* no directive and no kernel ever fails for want of device data, and every*)
(* reference to the device copy that is taken is given back.               *)
(***************************************************************************)
EXTENDS Residency, FiniteSetTheorems, NaturalsInduction, WellFoundedInduction, TLAPS

(***************************************************************************)
(* Paths.  T relates items to how many references are held before and      *)
(* after; a path of a sequence goes from one number to another item by     *)
(* item.                                                                   *)
(***************************************************************************)
PathsOf(T, q) == {H \in [0..Len(q) -> Nat] : \A j \in 1..Len(q) : <<q[j], H[j - 1], H[j]>> \in T}
Path(T, q, h, e) == \E H \in PathsOf(T, q) : H[0] = h /\ H[Len(q)] = e

(* The empty sequence leads nowhere.                                       *)
LEMMA PathEmpty == ASSUME NEW T, NEW h \in Nat PROVE Path(T, <<>>, h, h)
<1> DEFINE H == [j \in 0..0 |-> h]
<1>1. H \in PathsOf(T, <<>>) /\ H[0] = h
  BY DEF PathsOf
<1> QED
  BY <1>1 DEF Path

(* One item, one move.                                                     *)
LEMMA PathOne ==
  ASSUME NEW T, NEW i, NEW h \in Nat, NEW e \in Nat, <<i, h, e>> \in T
  PROVE  Path(T, <<i>>, h, e)
<1> DEFINE H == [j \in 0..1 |-> IF j = 0 THEN h ELSE e]
<1>1. H \in [0..1 -> Nat] /\ H[0] = h /\ H[1] = e
  OBVIOUS
<1>2. Len(<<i>>) = 1 /\ <<i>>[1] = i
  OBVIOUS
<1> HIDE DEF H
<1>3. H \in PathsOf(T, <<i>>)
  <2>1. \A j \in 1..1 : j = 1 /\ j - 1 = 0
    OBVIOUS
  <2> QED
    BY <1>1, <1>2, <2>1 DEF PathsOf
<1> QED
  BY <1>1, <1>2, <1>3 DEF Path

(* A path goes on where another ends.                                      *)
LEMMA PathCat ==
  ASSUME NEW T, NEW S, NEW p \in Seq(S), NEW q \in Seq(S), NEW h, NEW m, NEW e,
         Path(T, p, h, m), Path(T, q, m, e)
  PROVE  Path(T, p \o q, h, e)
<1>1. PICK H \in PathsOf(T, p) : H[0] = h /\ H[Len(p)] = m
  BY DEF Path
<1>2. PICK K \in PathsOf(T, q) : K[0] = m /\ K[Len(q)] = e
  BY DEF Path
<1> DEFINE a == Len(p)
           b == Len(q)
           G == [j \in 0..(a + b) |-> IF j <= a THEN H[j] ELSE K[j - a]]
<1>3. /\ a \in Nat /\ b \in Nat /\ Len(p \o q) = a + b
      /\ \A j \in 1..a : (p \o q)[j] = p[j]
      /\ \A j \in (a + 1)..(a + b) : (p \o q)[j] = q[j - a]
  OBVIOUS
<1>9. H[0] = h /\ H[a] = m /\ K[0] = m /\ K[b] = e
  BY <1>1, <1>2
<1>4. /\ H \in [0..a -> Nat] /\ \A j \in 1..a : <<p[j], H[j - 1], H[j]>> \in T
      /\ K \in [0..b -> Nat] /\ \A j \in 1..b : <<q[j], K[j - 1], K[j]>> \in T
  BY DEF PathsOf
<1> HIDE DEF a, b
<1>5. G \in [0..(a + b) -> Nat]
  BY <1>3, <1>4
<1>10. /\ \A j \in 0..a : G[j] = H[j]
       /\ \A j \in a..(a + b) : G[j] = K[j - a]
  <2>1. \A j \in 0..a : j \in 0..(a + b) /\ j <= a
    BY <1>3
  <2>2. \A j \in a..(a + b) : j \in 0..(a + b) /\ (j <= a => j = a)
    BY <1>3
  <2>3. a - a = 0
    BY <1>3
  <2> QED
    BY <1>9, <2>1, <2>2, <2>3
<1> HIDE DEF G
<1>6. ASSUME NEW j \in 1..(a + b) PROVE <<(p \o q)[j], G[j - 1], G[j]>> \in T
  <2>1. CASE j <= a
    <3>1. j \in 0..a /\ j - 1 \in 0..a /\ j \in 1..a
      BY <1>3, <2>1
    <3> QED
      BY <1>3, <1>4, <1>10, <3>1, Zenon
  <2>2. CASE j > a
    <3> DEFINE i == j - a
    <3>1. /\ j \in a..(a + b) /\ j - 1 \in a..(a + b) /\ j \in (a + 1)..(a + b)
          /\ i \in 1..b /\ (j - 1) - a = i - 1
      BY <1>3, <2>2
    <3>2. (p \o q)[j] = q[i] /\ G[j] = K[i] /\ G[j - 1] = K[i - 1]
      <4>1. (p \o q)[j] = q[j - a] /\ G[j] = K[j - a] /\ G[j - 1] = K[(j - 1) - a]
        BY <1>3, <1>10, <3>1, Zenon
      <4> QED
        BY <3>1, <4>1
    <3> HIDE DEF i
    <3> QED
      BY <1>4, <3>1, <3>2, Zenon
  <2> QED
    <3>1. j <= a \/ j > a
      BY <1>3
    <3> QED
      BY <2>1, <2>2, <3>1, Zenon
<1>7. G[0] = h /\ G[a + b] = e
  <2>1. 0 \in 0..a /\ a + b \in a..(a + b) /\ (a + b) - a = b
    BY <1>3
  <2> QED
    BY <1>9, <1>10, <2>1
<1>8. G \in PathsOf(T, p \o q)
  BY <1>3, <1>5, <1>6 DEF PathsOf
<1> QED
  BY <1>3, <1>7, <1>8 DEF Path

(* The first move of a path, and the path that is left.                    *)
LEMMA PathTail ==
  ASSUME NEW T, NEW S, NEW q \in Seq(S), q # <<>>, NEW h, NEW e, Path(T, q, h, e)
  PROVE  \E m \in Nat : <<Head(q), h, m>> \in T /\ Path(T, Tail(q), m, e)
<1>1. PICK H \in PathsOf(T, q) : H[0] = h /\ H[Len(q)] = e
  BY DEF Path
<1> DEFINE n == Len(q)
           G == [j \in 0..(n - 1) |-> H[j + 1]]
<1>2. /\ n \in Nat /\ n > 0 /\ Head(q) = q[1] /\ Tail(q) \in Seq(S) /\ Len(Tail(q)) = n - 1
      /\ \A j \in 1..(n - 1) : Tail(q)[j] = q[j + 1]
  OBVIOUS
<1>3. H \in [0..n -> Nat] /\ \A j \in 1..n : <<q[j], H[j - 1], H[j]>> \in T
  BY DEF PathsOf
<1> HIDE DEF n
<1>4. H[1] \in Nat /\ <<Head(q), h, H[1]>> \in T
  <2>1. 1 \in 1..n /\ 1 - 1 = 0
    BY <1>2
  <2> QED
    BY <1>1, <1>2, <1>3, <2>1
<1>5. G \in [0..(n - 1) -> Nat] /\ G[0] = H[1] /\ G[n - 1] = H[n]
  BY <1>2, <1>3
<1>6. ASSUME NEW j \in 1..(n - 1) PROVE <<Tail(q)[j], G[j - 1], G[j]>> \in T
  <2>1. G[j - 1] = H[j] /\ G[j] = H[j + 1] /\ Tail(q)[j] = q[j + 1]
    BY <1>2
  <2>2. <<q[j + 1], H[(j + 1) - 1], H[j + 1]>> \in T
    BY <1>2, <1>3
  <2>3. (j + 1) - 1 = j
    OBVIOUS
  <2> QED
    BY <2>1, <2>2, <2>3
<1> HIDE DEF G
<1>7. G \in PathsOf(T, Tail(q))
  BY <1>2, <1>5, <1>6 DEF PathsOf
<1> QED
  BY <1>1, <1>2, <1>4, <1>5, <1>7 DEF Path, n

(* The path of the empty sequence stays.                                   *)
LEMMA PathOfNone == ASSUME NEW T, NEW h, NEW e, Path(T, <<>>, h, e) PROVE h = e
BY DEF Path, PathsOf

(***************************************************************************)
(* Sequences one after the other.                                          *)
(***************************************************************************)
LEMMA Least ==
  ASSUME NEW S, S \subseteq Nat, S # {}
  PROVE  \E x \in S : \A y \in S : x <= y
<1>1. IsWellFoundedOn(OpToRel(<, Nat), Nat)
  BY NatLessThanWellFounded, Zenon
<1>2. \E x \in S : \A y \in S : ~ (<<y, x>> \in OpToRel(<, Nat))
  BY <1>1, WFMin, Zenon
<1>3. \E x \in S : \A y \in S : ~ (y < x)
  BY <1>2 DEF OpToRel
<1> QED
  BY <1>3

(* What Joined computes on the way.                                        *)
JoinsTo(S, ps, n) ==
  {f \in [0..n -> Seq(S)] : f[0] = <<>> /\ \A k \in 1..n : f[k] = f[k - 1] \o ps[k]}

(* The parts can be joined one after another.                              *)
LEMMA JoinsExist ==
  ASSUME NEW S, NEW ps \in Seq(Seq(S)), NEW n \in 0..Len(ps)
  PROVE  JoinsTo(S, ps, n) # {}
<1> DEFINE wrong == {k \in 0..Len(ps) : JoinsTo(S, ps, k) = {}}
<1>1. JoinsTo(S, ps, 0) # {}
  <2> DEFINE f == [k \in 0..0 |-> <<>>]
  <2>1. f \in JoinsTo(S, ps, 0)
    BY DEF JoinsTo
  <2> QED
    BY <2>1
<1>2. ASSUME NEW k \in 1..Len(ps), JoinsTo(S, ps, k - 1) # {} PROVE JoinsTo(S, ps, k) # {}
  <2>1. PICK f : f \in JoinsTo(S, ps, k - 1)
    BY <1>2
  <2>2. /\ f \in [0..(k - 1) -> Seq(S)] /\ f[0] = <<>>
        /\ \A l \in 1..(k - 1) : f[l] = f[l - 1] \o ps[l]
    BY <2>1 DEF JoinsTo
  <2> DEFINE g == [l \in 0..k |-> IF l < k THEN f[l] ELSE f[k - 1] \o ps[k]]
  <2>3. ps[k] \in Seq(S) /\ f[k - 1] \in Seq(S)
    BY <2>2
  <2>4. f[k - 1] \o ps[k] \in Seq(S)
    BY <2>3
  <2>5. g \in [0..k -> Seq(S)]
    BY <2>2, <2>4
  <2>6. g[0] = <<>> /\ g[k] = f[k - 1] \o ps[k] /\ \A l \in 0..(k - 1) : g[l] = f[l]
    <3>1. 0 \in 0..k /\ 0 < k /\ k \in 0..k /\ ~(k < k)
      OBVIOUS
    <3>2. \A l \in 0..(k - 1) : l \in 0..k /\ l < k
      OBVIOUS
    <3> QED
      BY <2>2, <3>1, <3>2, Zenon
  <2> HIDE DEF g
  <2>7. \A l \in 1..k : g[l] = g[l - 1] \o ps[l]
    <3> SUFFICES ASSUME NEW l \in 1..k PROVE g[l] = g[l - 1] \o ps[l]
      OBVIOUS
    <3>1. CASE l = k
      <4>1. k - 1 \in 0..(k - 1)
        OBVIOUS
      <4>2. g[k - 1] = f[k - 1]
        BY <2>6, <4>1, Zenon
      <4> QED
        BY <2>6, <3>1, <4>2, Zenon
    <3>2. CASE l # k
      <4>1. l \in 1..(k - 1) /\ l \in 0..(k - 1) /\ l - 1 \in 0..(k - 1)
        BY <3>2
      <4> QED
        BY <2>2, <2>6, <4>1, Zenon
    <3> QED
      BY <3>1, <3>2
  <2>8. g \in JoinsTo(S, ps, k)
    BY <2>5, <2>6, <2>7 DEF JoinsTo
  <2> QED
    BY <2>8
<1>3. wrong = {}
  <2> SUFFICES ASSUME wrong # {} PROVE FALSE
    OBVIOUS
  <2>1. wrong \subseteq Nat
    OBVIOUS
  <2> HIDE DEF wrong
  <2>2. PICK k \in wrong : \A l \in wrong : k <= l
    BY <2>1, Least
  <2>3. k \in 0..Len(ps) /\ JoinsTo(S, ps, k) = {}
    BY <2>2 DEF wrong
  <2>4. k \in 1..Len(ps) /\ k - 1 \in 0..Len(ps) /\ ~(k <= k - 1)
    BY <1>1, <2>3
  <2>5. JoinsTo(S, ps, k - 1) # {}
    BY <2>2, <2>4 DEF wrong
  <2> QED
    BY <1>2, <2>3, <2>4, <2>5
<1> QED
  BY <1>3

(* Joined is what the last of these joins gives.                           *)
LEMMA JoinedIs ==
  ASSUME NEW S, NEW ps \in Seq(Seq(S))
  PROVE  \E f \in JoinsTo(S, ps, Len(ps)) : Joined(ps) = f[Len(ps)]
<1> DEFINE n == Len(ps)
           F(f) == [k \in 0..n |-> IF k = 0 THEN <<>> ELSE f[k - 1] \o ps[k]]
           upto == CHOOSE f : f = F(f)
<1>1. n \in Nat /\ Joined(ps) = upto[n]
  BY DEF Joined
<1>2. PICK g : g \in JoinsTo(S, ps, n)
  BY JoinsExist
<1> HIDE DEF n
<1>3. g = F(g)
  <2>1. /\ g \in [0..n -> Seq(S)] /\ g[0] = <<>>
        /\ \A k \in 1..n : g[k] = g[k - 1] \o ps[k]
    BY <1>2 DEF JoinsTo, n
  <2>2. ASSUME NEW k \in 0..n PROVE g[k] = F(g)[k]
    <3>1. CASE k = 0
      BY <2>1, <3>1, Zenon
    <3>2. CASE k # 0
      <4>1. k \in 1..n
        BY <3>2
      <4> QED
        BY <2>1, <3>2, <4>1, Zenon
    <3> QED
      BY <3>1, <3>2
  <2>3. g = [k \in 0..n |-> g[k]] /\ F(g) = [k \in 0..n |-> F(g)[k]]
    BY <2>1
  <2> HIDE DEF F
  <2> QED
    BY <2>2, <2>3
<1>4. upto = F(upto)
  <2>1. \E f : f = F(f)
    BY <1>3
  <2> HIDE DEF F
  <2> QED
    BY <2>1, Zenon
<1> HIDE DEF upto
<1>5. upto[0] = <<>> /\ \A k \in 1..n : upto[k] = upto[k - 1] \o ps[k]
  <2>1. 0 \in 0..n /\ \A k \in 1..n : k \in 0..n /\ k # 0
    BY <1>1
  <2>2. F(upto)[0] = <<>> /\ \A k \in 1..n : F(upto)[k] = upto[k - 1] \o ps[k]
    BY <2>1, Zenon
  <2> HIDE DEF F
  <2> QED
    BY <1>4, <2>2
<1>6. g[0] = <<>> /\ \A k \in 1..n : g[k] = g[k - 1] \o ps[k]
  BY <1>2 DEF JoinsTo, n
<1> DEFINE wrong == {k \in 0..n : upto[k] # g[k]}
<1>7. wrong = {}
  <2> SUFFICES ASSUME wrong # {} PROVE FALSE
    OBVIOUS
  <2>1. wrong \subseteq Nat
    OBVIOUS
  <2> HIDE DEF wrong, n
  <2>2. PICK k \in wrong : \A l \in wrong : k <= l
    BY <2>1, Least
  <2>3. k \in 0..n /\ upto[k] # g[k]
    BY <2>2 DEF wrong
  <2>4. k \in 1..n /\ k - 1 \in 0..n /\ ~(k <= k - 1)
    BY <1>1, <1>5, <1>6, <2>3
  <2>5. upto[k - 1] = g[k - 1]
    BY <2>2, <2>4 DEF wrong
  <2>6. upto[k] = upto[k - 1] \o ps[k] /\ g[k] = g[k - 1] \o ps[k]
    BY <1>5, <1>6, <2>4
  <2> QED
    BY <2>3, <2>5, <2>6
<1>8. Joined(ps) = g[n]
  <2>1. n \in 0..n
    BY <1>1
  <2> HIDE DEF n
  <2> QED
    BY <1>1, <1>7, <2>1
<1> QED
  BY <1>2, <1>8 DEF n

(* It is a sequence, has the elements of its parts, and no others.         *)
LEMMA JoinedHas ==
  ASSUME NEW S, NEW ps \in Seq(Seq(S))
  PROVE  /\ Joined(ps) \in Seq(S)
         /\ \A j \in 1..Len(Joined(ps)) :
              \E k \in 1..Len(ps) : \E i \in 1..Len(ps[k]) : Joined(ps)[j] = ps[k][i]
         /\ \A k \in 1..Len(ps) : \A i \in 1..Len(ps[k]) :
              \E j \in 1..Len(Joined(ps)) : Joined(ps)[j] = ps[k][i]
<1>1. PICK f \in JoinsTo(S, ps, Len(ps)) : Joined(ps) = f[Len(ps)]
  BY JoinedIs
<1> DEFINE n == Len(ps)
<1>2. /\ n \in Nat /\ f \in [0..n -> Seq(S)] /\ f[0] = <<>>
      /\ \A k \in 1..n : f[k] = f[k - 1] \o ps[k] /\ ps[k] \in Seq(S)
  BY <1>1 DEF JoinsTo
<1> HIDE DEF n
<1> DEFINE From(k) == \A j \in 1..Len(f[k]) :
                        \E l \in 1..n : \E i \in 1..Len(ps[l]) : f[k][j] = ps[l][i]
           To(k) == \A l \in 1..k : \A i \in 1..Len(ps[l]) :
                      \E j \in 1..Len(f[k]) : f[k][j] = ps[l][i]
           wrong == {k \in 0..n : ~(From(k) /\ To(k))}
<1>3. From(0) /\ To(0)
  BY <1>2
<1>4. ASSUME NEW k \in 1..n, From(k - 1), To(k - 1) PROVE From(k) /\ To(k)
  <2> DEFINE p == f[k - 1]
             q == ps[k]
  <2>1. p \in Seq(S) /\ q \in Seq(S) /\ f[k] = p \o q
    <3>1. k - 1 \in 0..n
      BY <1>2
    <3> QED
      BY <1>2, <3>1, Zenon
  <2> HIDE DEF p, q, From, To
  <2>2. /\ Len(p \o q) = Len(p) + Len(q) /\ Len(p) \in Nat /\ Len(q) \in Nat
        /\ \A j \in 1..Len(p) : (p \o q)[j] = p[j]
        /\ \A j \in (Len(p) + 1)..(Len(p) + Len(q)) : (p \o q)[j] = q[j - Len(p)]
        /\ \A i \in 1..Len(q) : (p \o q)[Len(p) + i] = q[i]
    BY <2>1
  <2>3. \A j \in 1..Len(p) : \E l \in 1..n : \E i \in 1..Len(ps[l]) : p[j] = ps[l][i]
    BY <1>4 DEF From, p
  <2>4. \A l \in 1..(k - 1) : \A i \in 1..Len(ps[l]) : \E j \in 1..Len(p) : p[j] = ps[l][i]
    BY <1>4 DEF To, p
  <2>5. From(k)
    <3> SUFFICES ASSUME NEW j \in 1..Len(p \o q)
                 PROVE  \E l \in 1..n : \E i \in 1..Len(ps[l]) : (p \o q)[j] = ps[l][i]
      BY <2>1 DEF From
    <3>1. CASE j \in 1..Len(p)
      BY <2>2, <2>3, <3>1
    <3>2. CASE j \notin 1..Len(p)
      <4>1. j \in (Len(p) + 1)..(Len(p) + Len(q)) /\ j - Len(p) \in 1..Len(q)
        BY <2>2, <3>2
      <4>2. (p \o q)[j] = ps[k][j - Len(p)]
        BY <2>2, <4>1 DEF q
      <4> QED
        BY <4>1, <4>2, Zenon DEF q
    <3> QED
      BY <3>1, <3>2
  <2>6. To(k)
    <3> SUFFICES ASSUME NEW l \in 1..k, NEW i \in 1..Len(ps[l])
                 PROVE  \E j \in 1..Len(p \o q) : (p \o q)[j] = ps[l][i]
      BY <2>1 DEF To
    <3>1. CASE l = k
      <4>1. Len(p) + i \in 1..Len(p \o q) /\ (p \o q)[Len(p) + i] = ps[l][i]
        BY <2>2, <3>1 DEF q
      <4> QED
        BY <4>1, Zenon
    <3>2. CASE l # k
      <4>1. l \in 1..(k - 1)
        BY <3>2
      <4>2. PICK j \in 1..Len(p) : p[j] = ps[l][i]
        BY <2>4, <4>1, Zenon
      <4>3. j \in 1..Len(p \o q) /\ (p \o q)[j] = p[j]
        BY <2>2
      <4> QED
        BY <4>2, <4>3, Zenon
    <3> QED
      BY <3>1, <3>2
  <2> QED
    BY <2>5, <2>6
<1>5. wrong = {}
  <2> HIDE DEF From, To
  <2> SUFFICES ASSUME wrong # {} PROVE FALSE
    OBVIOUS
  <2>1. wrong \subseteq Nat
    BY <1>2
  <2> HIDE DEF wrong
  <2>2. PICK k \in wrong : \A l \in wrong : k <= l
    BY <2>1, Least
  <2>3. k \in 0..n /\ ~(From(k) /\ To(k))
    BY <2>2 DEF wrong
  <2>4. k \in 1..n /\ k - 1 \in 0..n /\ ~(k <= k - 1)
    BY <1>2, <1>3, <2>3
  <2>5. From(k - 1) /\ To(k - 1)
    BY <2>2, <2>4 DEF wrong
  <2> QED
    BY <1>4, <2>3, <2>4, <2>5
<1>6. From(n) /\ To(n) /\ f[n] \in Seq(S)
  <2> HIDE DEF From, To
  <2>1. n \in 0..n
    BY <1>2
  <2>2. From(n) /\ To(n)
    BY <1>5, <2>1
  <2>3. f[n] \in Seq(S)
    BY <1>2, <2>1, Zenon
  <2> QED
    BY <2>2, <2>3, Zenon
<1>7. Joined(ps) = f[n]
  BY <1>1 DEF n
<1>8. Joined(ps) \in Seq(S)
  BY <1>6, <1>7, Zenon
<1> DEFINE Within(q) == \A j \in 1..Len(q) : \E k \in 1..n : \E i \in 1..Len(ps[k]) : q[j] = ps[k][i]
           Covers(q) == \A k \in 1..n : \A i \in 1..Len(ps[k]) : \E j \in 1..Len(q) : q[j] = ps[k][i]
<1>9. Within(f[n]) /\ Covers(f[n])
  BY <1>6
<1> HIDE DEF From, To, Within, Covers
<1>10. Within(Joined(ps)) /\ Covers(Joined(ps))
  BY <1>7, <1>9
<1> QED
  BY <1>8, <1>10 DEF n, Within, Covers

(* Nothing joined is nothing.                                              *)
LEMMA JoinedNone == ASSUME NEW ps, ps = <<>> PROVE Joined(ps) = <<>>
<1> DEFINE S == {}
<1>1. ps \in Seq(Seq(S)) /\ Len(ps) = 0
  OBVIOUS
<1> HIDE DEF S
<1>2. PICK f \in JoinsTo(S, ps, Len(ps)) : Joined(ps) = f[Len(ps)]
  BY <1>1, JoinedIs
<1> QED
  BY <1>1, <1>2 DEF JoinsTo

(* Paths through the parts, each from where the one before it ended, make  *)
(* one through the whole.                                                  *)
LEMMA PathJoinedAlong ==
  ASSUME NEW T, NEW S, NEW ps \in Seq(Seq(S)), NEW H \in [0..Len(ps) -> Nat],
         \A k \in 1..Len(ps) : Path(T, ps[k], H[k - 1], H[k])
  PROVE  Path(T, Joined(ps), H[0], H[Len(ps)])
<1>1. PICK f \in JoinsTo(S, ps, Len(ps)) : Joined(ps) = f[Len(ps)]
  BY JoinedIs
<1> DEFINE n == Len(ps)
<1>2. /\ n \in Nat /\ f \in [0..n -> Seq(S)] /\ f[0] = <<>> /\ H \in [0..n -> Nat]
      /\ \A k \in 1..n : f[k] = f[k - 1] \o ps[k] /\ ps[k] \in Seq(S)
      /\ \A k \in 1..n : Path(T, ps[k], H[k - 1], H[k])
  <2>3. n \in Nat /\ \A k \in 1..n : ps[k] \in Seq(S)
    OBVIOUS
  <2>4. f \in [0..n -> Seq(S)] /\ f[0] = <<>> /\ \A k \in 1..n : f[k] = f[k - 1] \o ps[k]
    BY <1>1, Zenon DEF JoinsTo
  <2>1. /\ n \in Nat /\ f \in [0..n -> Seq(S)] /\ f[0] = <<>>
        /\ \A k \in 1..n : f[k] = f[k - 1] \o ps[k] /\ ps[k] \in Seq(S)
    BY <2>3, <2>4, Zenon
  <2>2. H \in [0..n -> Nat] /\ \A k \in 1..n : Path(T, ps[k], H[k - 1], H[k])
    OBVIOUS
  <2> QED
    BY <2>1, <2>2, Zenon
<1> HIDE DEF n
<1> DEFINE wrong == {k \in 0..n : ~Path(T, f[k], H[0], H[k])}
<1>3. Path(T, f[0], H[0], H[0])
  <2>1. H[0] \in Nat
    BY <1>2
  <2> QED
    BY <1>2, <2>1, PathEmpty
<1>4. ASSUME NEW k \in 1..n, Path(T, f[k - 1], H[0], H[k - 1]) PROVE Path(T, f[k], H[0], H[k])
  <2>1. f[k - 1] \in Seq(S)
    <3>1. k - 1 \in 0..n
      BY <1>2
    <3> QED
      BY <1>2, <3>1, Zenon
  <2>2. ps[k] \in Seq(S) /\ f[k] = f[k - 1] \o ps[k] /\ Path(T, ps[k], H[k - 1], H[k])
    BY <1>2, Zenon
  <2>3. Path(T, f[k - 1] \o ps[k], H[0], H[k])
    BY <1>4, <2>1, <2>2, PathCat
  <2> QED
    BY <2>2, <2>3
<1>5. wrong = {}
  <2> SUFFICES ASSUME wrong # {} PROVE FALSE
    OBVIOUS
  <2>1. wrong \subseteq Nat
    BY <1>2
  <2> HIDE DEF wrong
  <2>2. PICK k \in wrong : \A l \in wrong : k <= l
    BY <2>1, Least
  <2>3. k \in 0..n /\ ~Path(T, f[k], H[0], H[k])
    BY <2>2 DEF wrong
  <2>4. k \in 1..n /\ k - 1 \in 0..n /\ ~(k <= k - 1)
    BY <1>2, <1>3, <2>3
  <2>5. Path(T, f[k - 1], H[0], H[k - 1])
    BY <2>2, <2>4 DEF wrong
  <2> QED
    BY <1>4, <2>3, <2>4, <2>5
<1>6. Path(T, f[n], H[0], H[n])
  <2>1. n \in 0..n /\ n \notin wrong
    BY <1>2, <1>5
  <2> QED
    BY <2>1
<1> QED
  BY <1>1, <1>6 DEF n

(* Parts that each lead back to where they start, joined, do too.          *)
LEMMA PathJoined ==
  ASSUME NEW T, NEW S, NEW ps \in Seq(Seq(S)), NEW h \in Nat,
         \A k \in 1..Len(ps) : Path(T, ps[k], h, h)
  PROVE  Path(T, Joined(ps), h, h)
<1> DEFINE n == Len(ps)
           H == [k \in 0..n |-> h]
<1>1. n \in Nat
  OBVIOUS
<1> HIDE DEF n
<1>2. H \in [0..n -> Nat] /\ H[0] = h /\ H[n] = h /\ \A k \in 1..n : H[k - 1] = h /\ H[k] = h
  BY <1>1
<1> HIDE DEF H
<1>3. \A k \in 1..n : Path(T, ps[k], H[k - 1], H[k])
  BY <1>2 DEF n
<1>4. Path(T, Joined(ps), H[0], H[n])
  BY <1>2, <1>3, PathJoinedAlong DEF n
<1> QED
  BY <1>2, <1>4

(* A path of a sequence given item by item.                                *)
LEMMA PathAlong ==
  ASSUME NEW T, NEW n \in Nat, NEW q, q = [i \in 1..n |-> q[i]], NEW H \in [0..n -> Nat],
         \A i \in 1..n : <<q[i], H[i - 1], H[i]>> \in T
  PROVE  Path(T, q, H[0], H[n])
<1>1. Len(q) = n
  OBVIOUS
<1>2. H \in PathsOf(T, q)
  BY <1>1 DEF PathsOf
<1> QED
  BY <1>1, <1>2 DEF Path

(* Items that each keep a level keep it together.                          *)
LEMMA PathFlat ==
  ASSUME NEW T, NEW n \in Nat, NEW q, q = [i \in 1..n |-> q[i]], NEW h \in Nat,
         \A i \in 1..n : <<q[i], h, h>> \in T
  PROVE  Path(T, q, h, h)
<1> DEFINE H == [k \in 0..n |-> h]
<1>1. H \in [0..n -> Nat] /\ H[0] = h /\ H[n] = h /\ \A k \in 1..n : H[k - 1] = h /\ H[k] = h
  OBVIOUS
<1> HIDE DEF H
<1>2. \A i \in 1..n : <<q[i], H[i - 1], H[i]>> \in T
  BY <1>1
<1>3. Path(T, q, H[0], H[n])
  BY <1>1, <1>2, PathAlong
<1> QED
  BY <1>1, <1>3

(***************************************************************************)
(* What a directive or a scheme call of a program does to the references:  *)
(* it goes from h to e, and never needs data that is not on the device.    *)
(***************************************************************************)
SomeParts == SUBSET Parts
Counts == 0..2
Items == [op : Schemes \cup Directives, parts : SomeParts]
CallPhases == Phases \cup {"initialize_constituents"}

Does(s, phase, i, h, e) ==
  \/ i.op \in {"enter copyin", "enter create"} /\ e = h + 1
  \/ i.op \in {"exit copyout", "exit delete"} /\ h = e + 1
  \/ i.op \in {"update self", "update device", "present"} /\ h > 0 /\ e = h
  \/ i.op \in Schemes /\ (UseAt(s, phase, i.op).space = "device" => h > 0) /\ e = h
Moves(s, phase) ==
  {m \in Items \X Counts \X Counts : Does(s, phase, m[1], m[2], m[3])}
Runs(s, phase, q, h, e) == q \in Seq(Items) /\ Path(Moves(s, phase), q, h, e)

(* The counts of references that occur.                                    *)
LEMMA CountsAre ==
  /\ Counts \subseteq Nat
  /\ \A h \in 0..1 : h \in Counts /\ h + 1 \in Counts /\ h + 1 > 0
BY DEF Counts

(* A program with nothing to do changes nothing.                           *)
LEMMA RunsNone == ASSUME NEW s, NEW phase, NEW h \in Counts PROVE Runs(s, phase, <<>>, h, h)
BY PathEmpty, CountsAre DEF Runs

(* A program of one instruction.                                           *)
LEMMA RunsOne ==
  ASSUME NEW s, NEW phase, NEW op \in Schemes \cup Directives, NEW ps \in SomeParts,
         NEW h \in Counts, NEW e \in Counts, Does(s, phase, Instruction(op, ps), h, e)
  PROVE  Runs(s, phase, <<Instruction(op, ps)>>, h, e)
<1>1. Instruction(op, ps) \in Items
  BY DEF Instruction, Items
<1>2. <<Instruction(op, ps), h, e>> \in Moves(s, phase)
  BY <1>1 DEF Moves
<1> QED
  BY <1>1, <1>2, PathOne, CountsAre DEF Runs

(* One program after another.                                              *)
LEMMA RunsCat ==
  ASSUME NEW s, NEW phase, NEW p, NEW q, NEW h, NEW m, NEW e,
         Runs(s, phase, p, h, m), Runs(s, phase, q, m, e)
  PROVE  Runs(s, phase, p \o q, h, e)
<1>1. p \in Seq(Items) /\ q \in Seq(Items)
  BY DEF Runs
<1>2. Path(Moves(s, phase), p \o q, h, e)
  BY <1>1, PathCat DEF Runs
<1> QED
  BY <1>1, <1>2 DEF Runs

(* An enter directive takes a reference.                                   *)
LEMMA RunsEnter ==
  ASSUME NEW s, NEW phase, NEW op \in {"enter copyin", "enter create"}, NEW ps \in SomeParts,
         NEW h \in 0..1
  PROVE  Runs(s, phase, One(op, ps), h, h + 1)
<1>1. op \in Schemes \cup Directives
  BY DEF Directives
<1>2. h \in Counts /\ h + 1 \in Counts
  BY CountsAre, Zenon
<1>3. Does(s, phase, Instruction(op, ps), h, h + 1)
  BY DEF Does, Instruction
<1> QED
  BY <1>1, <1>2, <1>3, RunsOne DEF One

(* An exit directive gives one back.                                       *)
LEMMA RunsExit ==
  ASSUME NEW s, NEW phase, NEW op \in {"exit copyout", "exit delete"}, NEW ps \in SomeParts,
         NEW h \in 0..1
  PROVE  Runs(s, phase, One(op, ps), h + 1, h)
<1>1. op \in Schemes \cup Directives
  BY DEF Directives
<1>2. h \in Counts /\ h + 1 \in Counts
  BY CountsAre, Zenon
<1>3. Does(s, phase, Instruction(op, ps), h + 1, h)
  BY DEF Does, Instruction
<1> QED
  BY <1>1, <1>2, <1>3, RunsOne DEF One

(* Update and present directives need the data and keep the references.    *)
LEMMA RunsUpdate ==
  ASSUME NEW s, NEW phase, NEW op \in {"update self", "update device", "present"},
         NEW ps \in SomeParts, NEW h \in Counts, h > 0
  PROVE  Runs(s, phase, One(op, ps), h, h)
<1>1. op \in Schemes \cup Directives
  BY DEF Directives
<1>2. Does(s, phase, Instruction(op, ps), h, h)
  BY DEF Does, Instruction
<1> QED
  BY <1>1, <1>2, RunsOne DEF One

(* A scheme call keeps the references, and on the device needs the data.   *)
LEMMA RunsCall ==
  ASSUME NEW s, NEW phase, NEW op \in Schemes, NEW ps \in SomeParts, NEW h \in Counts,
         UseAt(s, phase, op).space = "device" => h > 0
  PROVE  Runs(s, phase, One(op, ps), h, h)
<1>1. Does(s, phase, Instruction(op, ps), h, h)
  BY DEF Does, Instruction
<1> QED
  BY <1>1, RunsOne DEF One

(* A program with directives around it.                                    *)
LEMMA RunsAround ==
  ASSUME NEW s, NEW phase, NEW p, NEW q, NEW r, NEW h, NEW m, NEW n, NEW e,
         Runs(s, phase, p, h, m), Runs(s, phase, q, m, n), Runs(s, phase, r, n, e)
  PROVE  Runs(s, phase, Around(p, q, r), h, e)
<1>1. Runs(s, phase, p \o q, h, n)
  BY RunsCat
<1> QED
  BY <1>1, RunsCat DEF Around

(* Programs that each keep the references keep them together.              *)
LEMMA RunsJoined ==
  ASSUME NEW s, NEW phase, NEW n \in Nat, NEW ps, ps = [i \in 1..n |-> ps[i]], NEW h \in Counts,
         \A i \in 1..n : Runs(s, phase, ps[i], h, h)
  PROVE  Runs(s, phase, Joined(ps), h, h)
<1>1. \A i \in 1..n : ps[i] \in Seq(Items) /\ Path(Moves(s, phase), ps[i], h, h)
  BY DEF Runs
<1>2. ps \in Seq(Seq(Items)) /\ Len(ps) = n
  BY <1>1
<1>3. Joined(ps) \in Seq(Items)
  BY <1>2, JoinedHas
<1>4. Path(Moves(s, phase), Joined(ps), h, h)
  BY <1>1, <1>2, PathJoined, CountsAre
<1> QED
  BY <1>3, <1>4 DEF Runs

(***************************************************************************)
(* The suites.                                                             *)
(***************************************************************************)
WellFormed(s) ==
  /\ s.owner \in Owners /\ s.chunks \in Nat \ {0}
  /\ s.chunks = 1 \/ 1..s.chunks \subseteq Parts
  /\ s.groups \in Seq(Seq(Schemes)) /\ s.groups # <<>>
  /\ DOMAIN s.uses \subseteq Schemes \X TablePhases
  /\ \A e \in Used(s) :
       /\ s.uses[e].space \in {"host", "device"}
       /\ \E g \in DOMAIN s.groups : \E i \in DOMAIN s.groups[g] : s.groups[g][i] = e[1]
       /\ Constituents(s) => e[2] # "register"

(* Deriving the memory spaces changes nothing else.                        *)
LEMMA DerivedIs == ASSUME NEW s \in Derived PROVE WellFormed(s)
<1>1. PICK r \in Suites : s = ResolveConstituentResidency(ApplyDerivedMemorySpace(r))
  BY DEF Derived
<1>2. /\ r = [owner |-> r.owner, groups |-> r.groups, uses |-> r.uses, chunks |-> r.chunks]
      /\ r.owner \in Owners /\ r.chunks \in Nat \ {0}
      /\ r.chunks = 1 \/ 1..r.chunks \subseteq Parts
      /\ r.groups \in Seq(Seq(Schemes)) /\ r.groups # <<>>
      /\ DOMAIN r.uses \subseteq Schemes \X TablePhases
      /\ r.uses \in [DOMAIN r.uses -> Uses]
      /\ \A e \in Used(r) :
            /\ \E g \in DOMAIN r.groups : \E i \in DOMAIN r.groups[g] : r.groups[g][i] = e[1]
            /\ Constituents(r) => e[2] # "register"
  BY SuitesAssumption
<1> DEFINE t == ApplyDerivedMemorySpace(r)
<1>3. /\ t.owner = r.owner /\ t.groups = r.groups /\ t.chunks = r.chunks
      /\ t = [owner |-> t.owner, groups |-> t.groups, uses |-> t.uses, chunks |-> t.chunks]
      /\ DOMAIN t.uses = DOMAIN r.uses
      /\ \A e \in DOMAIN r.uses :
           /\ t.uses[e].intent = r.uses[e].intent
           /\ t.uses[e].space = r.uses[e].space
              \/ (r.uses[e].space = "either" /\ t.uses[e].space = "device")
  <2> DEFINE U == [e \in DOMAIN r.uses |->
                    [space |-> IF r.uses[e].space = "either" /\ DeviceElsewhere(r, e)
                               THEN "device" ELSE r.uses[e].space,
                     intent |-> r.uses[e].intent]]
  <2>1. t = [r EXCEPT !.uses = U]
    BY DEF ApplyDerivedMemorySpace, WithSpaces
  <2>2. \A e \in DOMAIN r.uses :
          /\ U[e].intent = r.uses[e].intent
          /\ U[e].space = r.uses[e].space \/ (r.uses[e].space = "either" /\ U[e].space = "device")
    OBVIOUS
  <2>3. DOMAIN U = DOMAIN r.uses
    OBVIOUS
  <2> HIDE DEF U, t
  <2>4. t = [owner |-> r.owner, groups |-> r.groups, uses |-> U, chunks |-> r.chunks]
    BY <1>2, <2>1
  <2> QED
    BY <2>2, <2>3, <2>4
<1>4. s = ResolveConstituentResidency(t)
  BY <1>1
<1> HIDE DEF t
<1>5. /\ s.owner = t.owner /\ s.groups = t.groups /\ s.chunks = t.chunks
      /\ DOMAIN s.uses = DOMAIN t.uses
      /\ \A e \in DOMAIN t.uses :
           /\ s.uses[e].intent = t.uses[e].intent
           /\ s.uses[e] = [space |-> s.uses[e].space, intent |-> s.uses[e].intent]
           /\ t.uses[e].space # "either" => s.uses[e].space = t.uses[e].space
           /\ t.uses[e].space = "either" => s.uses[e].space \in {"host", "device"}
  BY <1>3, <1>4 DEF ResolveConstituentResidency, WithSpaces
<1>6. \A e \in DOMAIN r.uses :
        \/ /\ r.uses[e] = NoUse /\ s.uses[e] = NoUse
        \/ /\ r.uses[e] # NoUse /\ s.uses[e].space \in {"host", "device"}
  <2> SUFFICES ASSUME NEW e \in DOMAIN r.uses
               PROVE  \/ (r.uses[e] = NoUse /\ s.uses[e] = NoUse)
                      \/ (r.uses[e] # NoUse /\ s.uses[e].space \in {"host", "device"})
    OBVIOUS
  <2>1. r.uses[e] \in Uses
    BY <1>2
  <2> HIDE DEF t
  <2>2. CASE r.uses[e] = NoUse
    <3>1. r.uses[e].space = "none" /\ r.uses[e].intent = "none"
      BY <2>2 DEF NoUse
    <3>2. t.uses[e].space = "none" /\ t.uses[e].intent = "none" /\ e \in DOMAIN t.uses
      BY <1>3, <3>1
    <3>3. s.uses[e].space = "none" /\ s.uses[e].intent = "none"
      BY <1>5, <3>2
    <3>4. s.uses[e] = [space |-> "none", intent |-> "none"]
      BY <1>5, <3>2, <3>3
    <3> QED
      BY <2>2, <3>4 DEF NoUse
  <2>3. CASE r.uses[e] # NoUse
    <3>1. r.uses[e].space \in {"host", "device", "either"}
      BY <2>1, <2>3 DEF Uses
    <3>2. t.uses[e].space \in {"host", "device", "either"} /\ e \in DOMAIN t.uses
      BY <1>3, <3>1
    <3> QED
      BY <1>3, <1>5, <2>3, <3>2
  <2> QED
    BY <2>2, <2>3
<1>7. Used(s) = Used(r)
  BY <1>3, <1>5, <1>6 DEF Used, NoUse
<1>8. \A e \in Used(s) : s.uses[e].space \in {"host", "device"}
  BY <1>3, <1>5, <1>6 DEF Used
<1>9. Constituents(s) <=> Constituents(r)
  BY <1>3, <1>5 DEF Constituents
<1> QED
  BY <1>2, <1>3, <1>5, <1>7, <1>8, <1>9 DEF WellFormed

(* The scheme calls of a function use the variable, and there are some if  *)
(* one of its schemes does.                                                *)
LEMMA SchemesAre ==
  ASSUME NEW s, WellFormed(s), NEW phase \in CallPhases, NEW g \in DOMAIN s.groups
  PROVE  SchemesOf(s, phase, g) \in Seq(Schemes)
<1>1. s.groups \in Seq(Seq(Schemes)) /\ s.groups[g] \in Seq(Schemes)
  BY DEF WellFormed
<1>2. Joined(s.groups) \in Seq(Schemes)
  BY <1>1, JoinedHas
<1> QED
  BY <1>1, <1>2 DEF SchemesOf

(* The calls of a function are of schemes that use the variable there.     *)
LEMMA CallsAre ==
  ASSUME NEW s, WellFormed(s), NEW phase \in CallPhases, NEW g \in DOMAIN s.groups
  PROVE  /\ Calls(s, phase, g) \in Seq(Schemes)
         /\ \A j \in 1..Len(Calls(s, phase, g)) :
              LET e == <<Calls(s, phase, g)[j], TableOf(phase)>> IN
              /\ UseAt(s, phase, Calls(s, phase, g)[j]) # NoUse
              /\ e \in Used(s) /\ UseAt(s, phase, Calls(s, phase, g)[j]) = s.uses[e]
         /\ \A i \in 1..Len(SchemesOf(s, phase, g)) :
              UseAt(s, phase, SchemesOf(s, phase, g)[i]) # NoUse => Touches(s, phase, g)
<1> DEFINE l == SchemesOf(s, phase, g)
           ps == [i \in 1..Len(l) |->
                    IF UseAt(s, phase, l[i]) # NoUse THEN <<l[i]>> ELSE <<>>]
           c == Calls(s, phase, g)
<1>1. l \in Seq(Schemes) /\ c = Joined(ps)
  BY SchemesAre DEF Calls
<1> HIDE DEF l, c
<1>2. ps \in Seq(Seq(Schemes)) /\ Len(ps) = Len(l)
  <2>1. \A i \in 1..Len(l) : l[i] \in Schemes
    BY <1>1
  <2>2. \A i \in 1..Len(l) : ps[i] \in Seq(Schemes)
    BY <2>1
  <2>3. Len(l) \in Nat
    BY <1>1
  <2> HIDE DEF ps
  <2>4. ps = [i \in 1..Len(l) |-> ps[i]]
    BY DEF ps
  <2> QED
    BY <2>2, <2>3, <2>4
<1>3. \A i \in 1..Len(l) : ps[i] = IF UseAt(s, phase, l[i]) # NoUse THEN <<l[i]>> ELSE <<>>
  OBVIOUS
<1> HIDE DEF ps
<1>4. /\ c \in Seq(Schemes)
      /\ \A j \in 1..Len(c) : \E k \in 1..Len(ps) : \E i \in 1..Len(ps[k]) : c[j] = ps[k][i]
      /\ \A k \in 1..Len(ps) : \A i \in 1..Len(ps[k]) : \E j \in 1..Len(c) : c[j] = ps[k][i]
  <2>1. /\ Joined(ps) \in Seq(Schemes)
        /\ \A j \in 1..Len(Joined(ps)) :
             \E k \in 1..Len(ps) : \E i \in 1..Len(ps[k]) : Joined(ps)[j] = ps[k][i]
        /\ \A k \in 1..Len(ps) : \A i \in 1..Len(ps[k]) :
             \E j \in 1..Len(Joined(ps)) : Joined(ps)[j] = ps[k][i]
    BY <1>2, JoinedHas
  <2> QED
    BY <1>1, <2>1, Zenon
<1>5. ASSUME NEW j \in 1..Len(c) PROVE UseAt(s, phase, c[j]) # NoUse
  <2>1. PICK k \in 1..Len(l) : \E i \in 1..Len(ps[k]) : c[j] = ps[k][i]
    BY <1>2, <1>4
  <2>2. PICK i \in 1..Len(ps[k]) : c[j] = ps[k][i]
    BY <2>1
  <2>3. CASE UseAt(s, phase, l[k]) # NoUse
    <3>1. ps[k] = <<l[k]>>
      BY <1>3, <2>3
    <3>2. i \in 1..Len(<<l[k]>>) /\ c[j] = <<l[k]>>[i]
      BY <2>2, <3>1, Zenon
    <3>3. c[j] = l[k]
      BY <3>2
    <3> QED
      BY <2>3, <3>3
  <2>4. CASE UseAt(s, phase, l[k]) = NoUse
    <3>1. ps[k] = <<>>
      BY <1>3, <2>4
    <3>2. i \in 1..Len(<<>>)
      BY <2>2, <3>1, Zenon
    <3> QED
      BY <3>2
  <2> QED
    BY <2>3, <2>4
<1>6. ASSUME NEW i \in 1..Len(l), UseAt(s, phase, l[i]) # NoUse PROVE c # <<>>
  <2>1. ps[i] = <<l[i]>>
    BY <1>3, <1>6, Zenon
  <2>2. 1 \in 1..Len(<<l[i]>>)
    OBVIOUS
  <2>3. \E j \in 1..Len(c) : c[j] = ps[i][1]
    BY <1>2, <1>4, <2>1, <2>2, Zenon
  <2> QED
    BY <2>3
<1>7. \A d : UseAt(s, phase, d) # NoUse =>
        <<d, TableOf(phase)>> \in Used(s) /\ UseAt(s, phase, d) = s.uses[<<d, TableOf(phase)>>]
  BY DEF UseAt, Used
<1> QED
  BY <1>4, <1>5, <1>6, <1>7 DEF c, l, Touches

(* No scheme is called with the variable where there is no table.          *)
LEMMA TablelessDoNotTouch ==
  ASSUME NEW s, WellFormed(s), NEW g \in DOMAIN s.groups,
         NEW phase \in {"initialize_constituents", "initialize", "finalize"}
  PROVE  ~Touches(s, phase, g)
<1> SUFFICES ASSUME Touches(s, phase, g) PROVE FALSE
  OBVIOUS
<1>1. phase \in CallPhases
  BY DEF CallPhases, Phases, PhaseOrder
<1>2. Calls(s, phase, g) \in Seq(Schemes) /\ Calls(s, phase, g) # <<>>
  BY <1>1, CallsAre DEF Touches
<1>3. 1 \in 1..Len(Calls(s, phase, g))
  BY <1>2
<1>4. <<Calls(s, phase, g)[1], TableOf(phase)>> \in Used(s)
  BY <1>1, <1>3, CallsAre
<1>5. TableOf(phase) = "none"
  BY DEF TableOf
<1> QED
  BY <1>4, <1>5 DEF Used, WellFormed, TablePhases

(***************************************************************************)
(* The suite cap functions.                                                *)
(***************************************************************************)
(* Taking and giving back the first reference.                             *)
LEMMA RunsFirst ==
  ASSUME NEW s, NEW phase, NEW ps \in SomeParts
  PROVE  /\ \A op \in {"enter copyin", "enter create"} : Runs(s, phase, One(op, ps), 0, 1)
         /\ \A op \in {"exit copyout", "exit delete"} : Runs(s, phase, One(op, ps), 1, 0)
<1>1. 0 \in 0..1 /\ 0 + 1 = 1
  OBVIOUS
<1>2. /\ \A op \in {"enter copyin", "enter create"} : Runs(s, phase, One(op, ps), 0, 0 + 1)
      /\ \A op \in {"exit copyout", "exit delete"} : Runs(s, phase, One(op, ps), 0 + 1, 0)
  BY <1>1, RunsEnter, RunsExit
<1> QED
  BY <1>1, <1>2, Zenon

(* A scheme call with the copy region a view has.                          *)
LEMMA SchemeCallRuns ==
  ASSUME NEW s, NEW phase, NEW c \in Schemes, NEW cols \in SomeParts, NEW h \in Counts,
         DeviceView(s, phase, c) => h \in 0..1,
         h > 0 \/ OnHost(s, phase, c) \/ DeviceView(s, phase, c)
  PROVE  Runs(s, phase, SchemeCallOf(s, phase, c, cols), h, h)
<1>1. CASE DeviceView(s, phase, c)
  <2> DEFINE before == One("enter copyin", cols)
             itself == One(c, cols)
             after == One("exit copyout", cols)
  <2>1. h \in 0..1
    BY <1>1
  <2>2. h + 1 \in Counts /\ h + 1 > 0
    BY <2>1, CountsAre
  <2>3. Runs(s, phase, before, h, h + 1) /\ Runs(s, phase, after, h + 1, h)
    BY <2>1, RunsEnter, RunsExit
  <2>4. Runs(s, phase, itself, h + 1, h + 1)
    BY <2>2, RunsCall
  <2>5. SchemeCallOf(s, phase, c, cols) = Around(before, itself, after)
    BY <1>1 DEF SchemeCallOf
  <2> HIDE DEF before, itself, after
  <2> QED
    BY <2>3, <2>4, <2>5, RunsAround
<1>2. CASE ~DeviceView(s, phase, c)
  <2>1. UseAt(s, phase, c).space = "device" => h > 0
    BY <1>2 DEF OnHost
  <2>2. SchemeCallOf(s, phase, c, cols) = One(c, cols)
    BY <1>2 DEF SchemeCallOf, One
  <2> QED
    BY <2>1, <2>2, RunsCall
<1> QED
  BY <1>1, <1>2

(* The calls of a function whose schemes agree.                            *)
LEMMA PlainRuns ==
  ASSUME NEW s, NEW phase, NEW calls \in Seq(Schemes), NEW cols \in SomeParts, NEW h \in Counts,
         \A j \in 1..Len(calls) :
           /\ DeviceView(s, phase, calls[j]) => h \in 0..1
           /\ h > 0 \/ OnHost(s, phase, calls[j]) \/ DeviceView(s, phase, calls[j])
  PROVE  Runs(s, phase, PlainCalls(s, phase, calls, cols), h, h)
<1> DEFINE n == Len(calls)
           ps == [i \in 1..n |-> SchemeCallOf(s, phase, calls[i], cols)]
<1>1. n \in Nat /\ ps = [i \in 1..n |-> ps[i]]
  OBVIOUS
<1>2. \A i \in 1..n : Runs(s, phase, ps[i], h, h)
  <2> SUFFICES ASSUME NEW i \in 1..n PROVE Runs(s, phase, ps[i], h, h)
    OBVIOUS
  <2>1. calls[i] \in Schemes /\ ps[i] = SchemeCallOf(s, phase, calls[i], cols)
    OBVIOUS
  <2> QED
    BY <2>1, SchemeCallRuns
<1>3. PlainCalls(s, phase, calls, cols) = Joined(ps)
  BY DEF PlainCalls
<1> HIDE DEF n, ps
<1> QED
  BY <1>1, <1>2, <1>3, RunsJoined

(* The calls of a function whose schemes disagree, with their syncs.       *)
LEMMA CoalescedRuns ==
  ASSUME NEW s, NEW phase, NEW calls \in Seq(Schemes), NEW ref \in SomeParts, NEW cols \in SomeParts,
         NEW h \in Counts, h > 0,
         \A j \in 1..Len(calls) : DeviceView(s, phase, calls[j]) => h \in 0..1
  PROVE  Runs(s, phase, CoalescedUpdates(s, phase, calls, ref, cols), h, h)
<1> DEFINE n == Len(calls)
           runs == HostRuns(s, phase, calls)
           whole(r) == ~OverwrittenSection(s, phase, calls, r)
           pulls(i) == IF \E r \in runs : r[1] = i /\ whole(r) THEN One("update self", ref) ELSE <<>>
           pushes(i) == IF \E r \in runs : r[2] = i /\ WrittenIn(s, phase, calls, r)
                        THEN One("update device", IF \E r \in runs : r[2] = i /\ whole(r) THEN ref ELSE cols)
                        ELSE <<>>
           piece(i) == pulls(i) \o Presence(s, phase, calls[i], ref)
                         \o SchemeCallOf(s, phase, calls[i], cols) \o pushes(i)
           ps == [i \in 1..n |-> piece(i)]
<1>1. n \in Nat /\ ps = [i \in 1..n |-> ps[i]]
  <2> HIDE DEF piece
  <2> QED
    OBVIOUS
<1>2. ASSUME NEW i \in 1..n PROVE Runs(s, phase, piece(i), h, h)
  <2>1. Runs(s, phase, pulls(i), h, h)
    BY RunsUpdate, RunsNone DEF One
  <2>2. Runs(s, phase, Presence(s, phase, calls[i], ref), h, h)
    BY RunsUpdate, RunsNone DEF One, Presence
  <2>3. Runs(s, phase, SchemeCallOf(s, phase, calls[i], cols), h, h)
    <3>1. calls[i] \in Schemes
      OBVIOUS
    <3> QED
      BY <3>1, SchemeCallRuns
  <2>4. Runs(s, phase, pushes(i), h, h)
    <3> DEFINE q == IF \E r \in runs : r[2] = i /\ whole(r) THEN ref ELSE cols
    <3>1. q \in SomeParts
      OBVIOUS
    <3>2. pushes(i) = One("update device", q) \/ pushes(i) = <<>>
      BY DEF One
    <3> HIDE DEF q, pushes
    <3> QED
      BY <3>1, <3>2, RunsUpdate, RunsNone
  <2> HIDE DEF pulls, pushes
  <2>5. Runs(s, phase, pulls(i) \o Presence(s, phase, calls[i], ref), h, h)
    BY <2>1, <2>2, RunsCat
  <2>6. Runs(s, phase, pulls(i) \o Presence(s, phase, calls[i], ref)
                         \o SchemeCallOf(s, phase, calls[i], cols), h, h)
    BY <2>3, <2>5, RunsCat
  <2> QED
    BY <2>4, <2>6, RunsCat
<1>3. CoalescedUpdates(s, phase, calls, ref, cols) = Joined(ps)
  BY Zenon DEF CoalescedUpdates
<1> HIDE DEF n, piece
<1>4. \A i \in 1..n : ps[i] = piece(i)
  OBVIOUS
<1> HIDE DEF ps
<1> QED
  BY <1>1, <1>2, <1>3, <1>4, RunsJoined

(* Which of the calls of a function the function itself can meet without   *)
(* a reference.                                                            *)
LEMMA SpacesAre ==
  ASSUME NEW s, WellFormed(s), NEW phase \in CallPhases, NEW g \in DOMAIN s.groups,
         NEW j \in 1..Len(Calls(s, phase, g)), NEW c, c = Calls(s, phase, g)[j]
  PROVE  /\ c \in Schemes
         /\ <<c, TableOf(phase)>> \in Used(s)
         /\ UseAt(s, phase, c) = s.uses[<<c, TableOf(phase)>>]
         /\ OnHost(s, phase, c) \/ UseAt(s, phase, c).space = "device"
<1> DEFINE e == <<c, TableOf(phase)>>
<1>1. c \in Schemes /\ e \in Used(s) /\ UseAt(s, phase, c) = s.uses[e]
  BY CallsAre
<1>2. s.uses[e].space \in {"host", "device"}
  BY <1>1 DEF WellFormed
<1> QED
  BY <1>1, <1>2 DEF OnHost

(* The body of any function keeps the references it finds.                 *)
LEMMA BodyRuns ==
  ASSUME NEW s, WellFormed(s), s.owner # "suite",
         NEW phase \in CallPhases, NEW g \in DOMAIN s.groups, NEW cols \in SomeParts,
         NEW h \in Counts,
         Constituents(s) => h \in 0..1,
         Touches(s, phase, g) =>
           \/ h > 0
           \/ /\ ~Diverged(s)
              /\ \A e \in UsesIn(s, "device") : Constituents(s) /\ e[1] \in Viewing
  PROVE  Runs(s, phase, SuiteCapBody(s, phase, g, cols), h, h)
<1> DEFINE calls == Calls(s, phase, g)
<1>1. calls \in Seq(Schemes)
  BY CallsAre
<1>2. ASSUME NEW j \in 1..Len(calls)
      PROVE  /\ DeviceView(s, phase, calls[j]) => h \in 0..1
             /\ h > 0 \/ ~Diverged(s)
             /\ h > 0 \/ OnHost(s, phase, calls[j]) \/ DeviceView(s, phase, calls[j])
  <2>1. Touches(s, phase, g)
    BY <1>1 DEF Touches
  <2> HIDE DEF calls
  <2>2. /\ <<calls[j], TableOf(phase)>> \in Used(s)
        /\ UseAt(s, phase, calls[j]) = s.uses[<<calls[j], TableOf(phase)>>]
        /\ OnHost(s, phase, calls[j]) \/ UseAt(s, phase, calls[j]).space = "device"
    <3> USE DEF calls
    <3>1. j \in 1..Len(Calls(s, phase, g))
      OBVIOUS
    <3> QED
      BY <3>1, SpacesAre, Zenon
  <2>3. UseAt(s, phase, calls[j]).space = "device" => <<calls[j], TableOf(phase)>> \in UsesIn(s, "device")
    BY <2>2 DEF UsesIn
  <2> QED
    BY <2>1, <2>2, <2>3 DEF DeviceView
<1>3. CASE Diverged(s) /\ h > 0
  <2>1. SuiteCapBody(s, phase, g, cols) = CoalescedUpdates(s, phase, calls, cols, cols)
    BY <1>3 DEF SuiteCapBody
  <2> HIDE DEF calls
  <2> QED
    BY <1>1, <1>2, <1>3, <2>1, CoalescedRuns
<1>4. CASE Diverged(s) /\ ~(h > 0)
  <2>1. SuiteCapBody(s, phase, g, cols) = CoalescedUpdates(s, phase, calls, cols, cols)
    BY <1>4 DEF SuiteCapBody
  <2>2. calls = <<>>
    <3> HIDE DEF calls
    <3>1. 1 \notin 1..Len(calls)
      BY <1>2, <1>4
    <3> QED
      BY <1>1, <3>1
  <2>3. CoalescedUpdates(s, phase, <<>>, cols, cols) = Joined(<<>>)
    BY DEF CoalescedUpdates
  <2>4. Joined(<<>>) = <<>>
    BY JoinedNone
  <2> QED
    BY <2>1, <2>2, <2>3, <2>4, RunsNone
<1>5. CASE ~Diverged(s)
  <2>1. SuiteCapBody(s, phase, g, cols) = PlainCalls(s, phase, calls, cols)
    BY <1>5 DEF SuiteCapBody
  <2> HIDE DEF calls
  <2> QED
    BY <1>1, <1>2, <2>1, PlainRuns
<1> QED
  BY <1>3, <1>4, <1>5

(***************************************************************************)
(* Phases and lifetimes.                                                   *)
(***************************************************************************)
LEMMA Ranks ==
  /\ PhaseRank["register"] = 1 /\ PhaseRank["initialize"] = 2 /\ PhaseRank["physics_initial"] = 3
  /\ PhaseRank["timestep_initial"] = 4 /\ PhaseRank["run"] = 5 /\ PhaseRank["timestep_final"] = 6
  /\ PhaseRank["physics_final"] = 7 /\ PhaseRank["finalize"] = 8
<1>1. /\ PhaseOrder[1] = "register" /\ PhaseOrder[2] = "initialize" /\ PhaseOrder[3] = "physics_initial"
      /\ PhaseOrder[4] = "timestep_initial" /\ PhaseOrder[5] = "run" /\ PhaseOrder[6] = "timestep_final"
      /\ PhaseOrder[7] = "physics_final" /\ PhaseOrder[8] = "finalize"
  BY DEF PhaseOrder
<1>2. \A i \in 1..8 : i \in {1, 2, 3, 4, 5, 6, 7, 8}
  OBVIOUS
<1>3. \A i, j \in 1..8 : PhaseOrder[i] = PhaseOrder[j] => i = j
  BY <1>1, <1>2
<1>4. ASSUME NEW i \in 1..8 PROVE PhaseRank[PhaseOrder[i]] = i
  <2>1. PhaseOrder[i] \in Phases
    BY DEF Phases
  <2>2. PhaseRank[PhaseOrder[i]] = CHOOSE j \in 1..8 : PhaseOrder[j] = PhaseOrder[i]
    BY <2>1 DEF PhaseRank
  <2>3. \E j \in 1..8 : PhaseOrder[j] = PhaseOrder[i]
    OBVIOUS
  <2>4. PhaseRank[PhaseOrder[i]] \in 1..8 /\ PhaseOrder[PhaseRank[PhaseOrder[i]]] = PhaseOrder[i]
    BY <2>2, <2>3, Zenon
  <2> QED
    BY <1>3, <2>4
<1>5. 1 \in 1..8 /\ 2 \in 1..8 /\ 3 \in 1..8 /\ 4 \in 1..8 /\ 5 \in 1..8 /\ 6 \in 1..8 /\ 7 \in 1..8 /\ 8 \in 1..8
  OBVIOUS
<1>6. /\ PhaseRank[PhaseOrder[1]] = 1 /\ PhaseRank[PhaseOrder[2]] = 2 /\ PhaseRank[PhaseOrder[3]] = 3
      /\ PhaseRank[PhaseOrder[4]] = 4 /\ PhaseRank[PhaseOrder[5]] = 5 /\ PhaseRank[PhaseOrder[6]] = 6
      /\ PhaseRank[PhaseOrder[7]] = 7 /\ PhaseRank[PhaseOrder[8]] = 8
  BY <1>4, <1>5, Zenon
<1> QED
  BY <1>1, <1>6, Zenon

(* The phases by name.                                                     *)
LEMMA PhasesAre ==
  Phases = {"register", "initialize", "physics_initial", "timestep_initial",
            "run", "timestep_final", "physics_final", "finalize"}
<1>1. /\ PhaseOrder[1] = "register" /\ PhaseOrder[2] = "initialize" /\ PhaseOrder[3] = "physics_initial"
      /\ PhaseOrder[4] = "timestep_initial" /\ PhaseOrder[5] = "run" /\ PhaseOrder[6] = "timestep_final"
      /\ PhaseOrder[7] = "physics_final" /\ PhaseOrder[8] = "finalize"
  BY DEF PhaseOrder
<1>2. 1..8 = {1, 2, 3, 4, 5, 6, 7, 8}
  OBVIOUS
<1>3. Phases = {PhaseOrder[i] : i \in {1, 2, 3, 4, 5, 6, 7, 8}}
  BY <1>2 DEF Phases
<1> QED
  BY <1>1, <1>3

(* The first and the last phase of a set, in the order of the phases.      *)
LEMMA EarliestIs ==
  ASSUME NEW ps \in SUBSET Phases, ps # {}
  PROVE  /\ Earliest(ps) \in ps /\ \A q \in ps : PhaseRank[Earliest(ps)] <= PhaseRank[q]
         /\ Latest(ps) \in ps /\ \A q \in ps : PhaseRank[q] <= PhaseRank[Latest(ps)]
<1>1. \A p \in Phases : PhaseRank[p] \in 1..8
  BY PhasesAre, Ranks
<1> DEFINE up == {PhaseRank[p] : p \in ps}
           down == {8 - PhaseRank[p] : p \in ps}
<1>2. up \subseteq Nat /\ up # {} /\ down \subseteq Nat /\ down # {}
  BY <1>1
<1>3. PICK x \in up : \A y \in up : x <= y
  <2> HIDE DEF up
  <2> QED
    BY <1>2, Least
<1>4. PICK z \in down : \A y \in down : z <= y
  <2> HIDE DEF down
  <2> QED
    BY <1>2, Least
<1>5. PICK p \in ps : x = PhaseRank[p]
  BY <1>3
<1>6. PICK r \in ps : z = 8 - PhaseRank[r]
  BY <1>4
<1>7. \A q \in ps : PhaseRank[p] <= PhaseRank[q]
  BY <1>3, <1>5
<1>8. \A q \in ps : PhaseRank[q] <= PhaseRank[r]
  <2> SUFFICES ASSUME NEW q \in ps PROVE PhaseRank[q] <= PhaseRank[r]
    OBVIOUS
  <2>1. z <= 8 - PhaseRank[q]
    BY <1>4
  <2>2. PhaseRank[q] \in 1..8 /\ PhaseRank[r] \in 1..8
    BY <1>1
  <2> QED
    BY <1>6, <2>1, <2>2
<1>9. Earliest(ps) \in ps /\ \A q \in ps : PhaseRank[Earliest(ps)] <= PhaseRank[q]
  BY <1>7, Zenon DEF Earliest
<1>10. Latest(ps) \in ps /\ \A q \in ps : PhaseRank[q] <= PhaseRank[Latest(ps)]
  BY <1>8, Zenon DEF Latest
<1> QED
  BY <1>9, <1>10

(* A lifetime is of one of three forms.                                    *)
OneTime(lt) == lt.hoisted /\ lt.entry \in {"register", "initialize"} /\ lt.exit = "finalize"
StepWise(lt) ==
  /\ lt.hoisted /\ lt.entry \in PerTimestepPhases /\ lt.exit \in PerTimestepPhases
  /\ PhaseRank[lt.entry] < PhaseRank[lt.exit]

(* A lifetime ends with each call, within a step or with the simulation.   *)
LEMMA ResolveIs ==
  ASSUME NEW kind, NEW used \in SUBSET TablePhases
  PROVE  LET lt == ResolveLifetime(kind, used) IN
         /\ lt.kind = kind
         /\ lt.hoisted = FALSE \/ OneTime(lt) \/ StepWise(lt)
         /\ lt.hoisted => lt.entry \in used
         /\ StepWise(lt) => lt.exit \in used
<1> DEFINE once == (used \cap OneTimePhases) \ {"finalize"}
           step == used \cap PerTimestepPhases
           lt == ResolveLifetime(kind, used)
<1>1. once \subseteq {"register", "initialize"} /\ step \subseteq PerTimestepPhases
  BY DEF TablePhases, OneTimePhases, PerTimestepPhases
<1>2. once \in SUBSET Phases /\ step \in SUBSET Phases
  BY PhasesAre DEF TablePhases, OneTimePhases, PerTimestepPhases
<1>3. CASE once # {}
  <2>1. lt = [kind |-> kind, entry |-> Earliest(once), exit |-> "finalize", hoisted |-> TRUE]
    BY <1>3 DEF ResolveLifetime, Lifetime
  <2>2. Earliest(once) \in once
    <3> HIDE DEF once
    <3> QED
      BY <1>2, <1>3, EarliestIs
  <2>3. lt.kind = kind /\ lt.entry = Earliest(once) /\ lt.exit = "finalize" /\ lt.hoisted = TRUE
    <3> HIDE DEF once, lt
    <3> QED
      BY <2>1
  <2>4. OneTime(lt) /\ lt.exit \notin PerTimestepPhases
    <3> HIDE DEF lt
    <3> QED
      BY <1>1, <2>2, <2>3 DEF OneTime, PerTimestepPhases
  <2>5. lt.entry \in used
    <3> HIDE DEF lt
    <3> QED
      BY <2>2, <2>3
  <2> HIDE DEF lt
  <2> QED
    BY <2>3, <2>4, <2>5 DEF StepWise, lt
<1>4. CASE once = {} /\ Cardinality(step) <= 1
  <2>1. lt = [kind |-> kind, entry |-> "none", exit |-> "none", hoisted |-> FALSE]
    BY <1>4 DEF ResolveLifetime, Lifetime
  <2> QED
    BY <2>1 DEF StepWise
<1>5. CASE once = {} /\ ~(Cardinality(step) <= 1)
  <2>1. lt = [kind |-> kind, entry |-> Earliest(step), exit |-> Latest(step), hoisted |-> TRUE]
    BY <1>5 DEF ResolveLifetime, Lifetime
  <2>2. lt.kind = kind /\ lt.entry = Earliest(step) /\ lt.exit = Latest(step) /\ lt.hoisted = TRUE
    <3> HIDE DEF step, lt
    <3> QED
      BY <2>1
  <2>3. PICK p \in step, q \in step : p # q
    <3> SUFFICES ASSUME \A p, q \in step : p = q PROVE FALSE
      OBVIOUS
    <3>1. step = {} \/ \E p : step = {p}
      <4> HIDE DEF step
      <4> QED
        OBVIOUS
    <3> HIDE DEF step
    <3>2. Cardinality(step) = 0 \/ Cardinality(step) = 1
      BY <3>1, FS_EmptySet, FS_Singleton
    <3> QED
      BY <1>5, <3>2
  <2>4. /\ Earliest(step) \in step /\ \A r \in step : PhaseRank[Earliest(step)] <= PhaseRank[r]
        /\ Latest(step) \in step /\ \A r \in step : PhaseRank[r] <= PhaseRank[Latest(step)]
    <3>1. step # {}
      BY <2>3
    <3> HIDE DEF step
    <3> QED
      BY <1>2, <3>1, EarliestIs
  <2>5. PhaseRank[Earliest(step)] < PhaseRank[Latest(step)]
    <3>1. \A r \in step : r \in PerTimestepPhases
      BY <1>1
    <3>2. \A r \in PerTimestepPhases : PhaseRank[r] \in 4..6
      BY Ranks DEF PerTimestepPhases
    <3>3. PhaseRank[p] # PhaseRank[q]
      BY <2>3, <3>1, Ranks DEF PerTimestepPhases
    <3> HIDE DEF step
    <3>4. /\ PhaseRank[p] \in Nat /\ PhaseRank[q] \in Nat
          /\ PhaseRank[Earliest(step)] \in Nat /\ PhaseRank[Latest(step)] \in Nat
      BY <2>3, <2>4, <3>1, <3>2
    <3>5. /\ PhaseRank[Earliest(step)] <= PhaseRank[p] /\ PhaseRank[Earliest(step)] <= PhaseRank[q]
          /\ PhaseRank[p] <= PhaseRank[Latest(step)] /\ PhaseRank[q] <= PhaseRank[Latest(step)]
      BY <2>3, <2>4
    <3> QED
      BY <3>3, <3>4, <3>5
  <2>6. lt.entry \in step /\ lt.exit \in step /\ StepWise(lt)
    <3> HIDE DEF lt, step
    <3> QED
      BY <1>1, <2>2, <2>4, <2>5 DEF StepWise
  <2>7. lt.entry \in used /\ lt.exit \in used
    <3> HIDE DEF lt
    <3> QED
      BY <2>6
  <2> HIDE DEF lt
  <2> QED
    BY <2>2, <2>6, <2>7 DEF lt
<1> QED
  BY <1>3, <1>4, <1>5

(***************************************************************************)
(* The groups a phase is called for, and those that use the variable.      *)
(***************************************************************************)
LEMMA GroupsAre ==
  ASSUME NEW s, WellFormed(s), NEW phase
  PROVE  /\ Len(s.groups) \in Nat /\ Len(s.groups) > 0 /\ DOMAIN s.groups = 1..Len(s.groups)
         /\ GroupsOf(s, phase) \subseteq DOMAIN s.groups
         /\ GroupsOf(s, phase) = {1} \/ GroupsOf(s, phase) = 1..Len(s.groups)
         /\ Cardinality(GroupsOf(s, phase)) <= 1 => GroupsOf(s, phase) = {1}
         /\ ~(Cardinality(GroupsOf(s, phase)) <= 1) => Cardinality(GroupsOf(s, phase)) > 1
<1> DEFINE n == Len(s.groups)
<1>1. s.groups \in Seq(Seq(Schemes)) /\ s.groups # <<>>
  BY DEF WellFormed
<1>2. n \in Nat /\ n > 0 /\ DOMAIN s.groups = 1..n
  BY <1>1
<1> HIDE DEF n
<1>3. GroupsOf(s, phase) = {1} \/ GroupsOf(s, phase) = 1..n
  BY <1>2 DEF GroupsOf
<1>4. Cardinality(1..n) = n
  BY <1>2, FS_Interval
<1>5. n = 1 => 1..n = {1}
  OBVIOUS
<1>6. {1} \subseteq 1..n
  BY <1>2
<1>7. Cardinality({1}) = 1
  BY FS_Singleton
<1> QED
  BY <1>2, <1>3, <1>4, <1>5, <1>6, <1>7 DEF n

(* A use in a table is a call in every phase that has the table.           *)
LEMMA UsedTouches ==
  ASSUME NEW s, WellFormed(s), NEW e \in Used(s), NEW phase \in CallPhases, TableOf(phase) = e[2]
  PROVE  Touching(s, phase) # {}
<1>1. PICK g \in DOMAIN s.groups : \E i \in DOMAIN s.groups[g] : s.groups[g][i] = e[1]
  BY DEF WellFormed
<1>2. PICK i \in DOMAIN s.groups[g] : s.groups[g][i] = e[1]
  BY <1>1
<1>3. e = <<e[1], e[2]>> /\ s.uses[e] # NoUse /\ e \in DOMAIN s.uses /\ e[2] \in TablePhases
  BY DEF WellFormed, Used
<1>4. UseAt(s, phase, e[1]) # NoUse
  BY <1>3 DEF UseAt
<1>5. /\ s.groups \in Seq(Seq(Schemes)) /\ s.groups[g] \in Seq(Schemes)
      /\ DOMAIN s.groups = 1..Len(s.groups) /\ DOMAIN s.groups[g] = 1..Len(s.groups[g])
  BY DEF WellFormed
<1>6. 1 \in DOMAIN s.groups
  BY GroupsAre
<1>7. CASE phase = "register"
  <2>1. SchemesOf(s, phase, 1) = Joined(s.groups)
    BY <1>7 DEF SchemesOf
  <2>2. \A k \in 1..Len(s.groups) : \A l \in 1..Len(s.groups[k]) :
          \E j \in 1..Len(Joined(s.groups)) : Joined(s.groups)[j] = s.groups[k][l]
    BY <1>5, JoinedHas
  <2>3. \E j \in 1..Len(Joined(s.groups)) : Joined(s.groups)[j] = e[1]
    BY <1>2, <1>5, <2>2
  <2>4. Touches(s, phase, 1)
    BY <1>4, <1>6, <2>1, <2>3, CallsAre
  <2>5. 1 \in GroupsOf(s, phase)
    BY <1>7 DEF GroupsOf, OneLevelPhases
  <2> QED
    BY <2>4, <2>5 DEF Touching
<1>8. CASE phase # "register"
  <2>1. SchemesOf(s, phase, g) = s.groups[g]
    BY <1>8 DEF SchemesOf
  <2>2. Touches(s, phase, g)
    BY <1>2, <1>4, <1>5, <2>1, CallsAre
  <2>3. phase \notin OneLevelPhases
    BY <1>3, <1>8 DEF OneLevelPhases, TableOf, TablePhases
  <2>4. g \in GroupsOf(s, phase)
    BY <2>3 DEF GroupsOf
  <2> QED
    BY <2>2, <2>4 DEF Touching
<1> QED
  BY <1>7, <1>8

(* And a call is a use.                                                    *)
LEMMA TouchesUsed ==
  ASSUME NEW s, WellFormed(s), NEW phase \in CallPhases, NEW g \in DOMAIN s.groups, Touches(s, phase, g)
  PROVE  \E e \in Used(s) : e[2] = TableOf(phase)
<1>1. Calls(s, phase, g) \in Seq(Schemes) /\ Calls(s, phase, g) # <<>>
  BY CallsAre DEF Touches
<1>2. 1 \in 1..Len(Calls(s, phase, g))
  BY <1>1
<1>3. <<Calls(s, phase, g)[1], TableOf(phase)>> \in Used(s)
  BY <1>2, CallsAre
<1> QED
  BY <1>3

(* The groups that use the variable in a phase.                            *)
LEMMA TouchingIs ==
  ASSUME NEW s, WellFormed(s), NEW phase \in CallPhases
  PROVE  /\ Touching(s, phase) \subseteq GroupsOf(s, phase)
         /\ phase \in {"initialize_constituents", "initialize", "finalize"} => Touching(s, phase) = {}
BY GroupsAre, TablelessDoNotTouch DEF Touching

(***************************************************************************)
(* The role of a call of group g in a phase.                               *)
(***************************************************************************)
LEMMA RoleBasics ==
  ASSUME NEW s, WellFormed(s), NEW phase \in CallPhases, NEW g \in GroupsOf(s, phase),
         NEW lt, lt.kind # "none", lt.hoisted \in BOOLEAN
  PROVE  /\ Touches(s, phase, g) => RoleOf(s, lt, phase, g) # "exclude"
         /\ RoleOf(s, lt, phase, g) = "legacy" => Touches(s, phase, g)
         /\ ~lt.hoisted => RoleOf(s, lt, phase, g) \in {"exclude", "legacy"}
<1> DEFINE r == RoleOf(s, lt, phase, g)
<1>1. Touches(s, phase, g) <=> g \in Touching(s, phase)
  BY DEF Touching
<1>2. CASE Touching(s, phase) = {}
  <2>1. r = Forced(lt, phase, g)
    BY <1>2 DEF RoleOf
  <2>2. r # "legacy" /\ (~lt.hoisted => r = "exclude")
    BY <2>1 DEF Forced
  <2> QED
    BY <1>1, <1>2, <2>2
<1>3. CASE Touching(s, phase) # {}
  <2>1. r = Override(s, lt, phase, g)
    BY <1>3 DEF RoleOf
  <2>2. RoleAt(lt, phase) # "exclude" /\ (~lt.hoisted => RoleAt(lt, phase) = "legacy")
    BY DEF RoleAt
  <2>3. CASE Cardinality(GroupsOf(s, phase)) <= 1
    <3>1. g = 1 /\ Touching(s, phase) = {1}
      BY <1>3, <2>3, GroupsAre, TouchingIs
    <3>2. r = RoleAt(lt, phase)
      <4>1. ~(\E h \in Touching(s, phase) : h < g) /\ ~(\E h \in Touching(s, phase) : h > g)
        BY <3>1
      <4>2. ~(Cardinality(GroupsOf(s, phase)) > 1)
        <5>1. GroupsOf(s, phase) = {1} /\ Cardinality({1}) = 1
          BY <2>3, GroupsAre, FS_Singleton
        <5> QED
          BY <5>1
      <4> QED
        BY <2>1, <2>3, <4>1, <4>2 DEF Override
    <3> QED
      BY <1>1, <2>2, <3>1, <3>2
  <2>4. CASE ~(Cardinality(GroupsOf(s, phase)) <= 1)
    <3>1. Cardinality(GroupsOf(s, phase)) > 1
      BY <2>4, GroupsAre
    <3>2. g \notin Touching(s, phase) => r = "exclude"
      BY <2>1, <2>4, <3>1 DEF Override
    <3>3. g \in Touching(s, phase) => (r = "passthrough" /\ lt.hoisted) \/ r = RoleAt(lt, phase)
      BY <2>1, <2>4, <3>1 DEF Override
    <3> QED
      BY <1>1, <2>2, <3>2, <3>3
  <2> QED
    BY <2>3, <2>4
<1> QED
  BY <1>2, <1>3

(* Away from the two ends of a hoisted lifetime.                           *)
LEMMA RoleElsewhere ==
  ASSUME NEW s, WellFormed(s), NEW phase \in CallPhases, NEW g \in GroupsOf(s, phase),
         NEW lt, lt.kind # "none", lt.hoisted = TRUE, phase # lt.entry, phase # lt.exit
  PROVE  \/ RoleOf(s, lt, phase, g) = "exclude"
         \/ /\ phase \in Phases
            /\ RoleOf(s, lt, phase, g) =
                 IF PhaseRank[lt.entry] < PhaseRank[phase] /\ PhaseRank[phase] < PhaseRank[lt.exit]
                 THEN "passthrough" ELSE "legacy"
<1> DEFINE r == RoleOf(s, lt, phase, g)
<1>1. CASE Touching(s, phase) = {}
  <2>1. r = Forced(lt, phase, g)
    BY <1>1 DEF RoleOf
  <2> QED
    BY <2>1 DEF Forced
<1>2. CASE Touching(s, phase) # {}
  <2>1. phase \in Phases
    BY <1>2, TouchingIs DEF CallPhases
  <2>2. r = Override(s, lt, phase, g)
    BY <1>2 DEF RoleOf
  <2>3. RoleAt(lt, phase) = IF PhaseRank[lt.entry] < PhaseRank[phase] /\ PhaseRank[phase] < PhaseRank[lt.exit]
                            THEN "passthrough" ELSE "legacy"
    BY DEF RoleAt
  <2>4. r = RoleAt(lt, phase) \/ r = "exclude"
    <3>1. CASE Cardinality(GroupsOf(s, phase)) <= 1
      BY <2>2, <3>1 DEF Override
    <3>2. CASE ~(Cardinality(GroupsOf(s, phase)) <= 1)
      <4>1. Cardinality(GroupsOf(s, phase)) > 1
        BY <3>2, GroupsAre
      <4> QED
        BY <2>2, <3>2, <4>1 DEF Override
    <3> QED
      BY <3>1, <3>2
  <2> QED
    BY <2>1, <2>3, <2>4
<1> QED
  BY <1>1, <1>2

(* At an end of a one-time lifetime, whose phases have one call.           *)
LEMMA RoleAtOnce ==
  ASSUME NEW s, WellFormed(s), NEW lt, lt.kind # "none", OneTime(lt)
  PROVE  RoleOf(s, lt, lt.entry, 1) = "enter" /\ RoleOf(s, lt, lt.exit, 1) = "exit"
<1>1. /\ lt.entry \in OneLevelPhases /\ lt.exit \in OneLevelPhases /\ lt.exit # lt.entry
      /\ lt.exit \in CallPhases /\ lt.entry \in CallPhases /\ lt.hoisted
  BY PhasesAre DEF OneTime, OneLevelPhases, CallPhases
<1>2. GroupsOf(s, lt.entry) = {1} /\ Cardinality(GroupsOf(s, lt.entry)) = 1
  BY <1>1, FS_Singleton DEF GroupsOf
<1>3. RoleOf(s, lt, lt.entry, 1) = "enter"
  <2>1. Forced(lt, lt.entry, 1) = "enter"
    BY <1>1 DEF Forced
  <2>3. RoleAt(lt, lt.entry) = "enter"
    <3>1. PhaseRank[lt.entry] \in Int
      BY Ranks DEF OneTime
    <3> QED
      BY <1>1, <3>1 DEF RoleAt
  <2>2. Override(s, lt, lt.entry, 1) = RoleAt(lt, lt.entry)
    <3>1. Touching(s, lt.entry) \subseteq {1}
      BY <1>1, <1>2, TouchingIs
    <3>2. ~(\E h \in Touching(s, lt.entry) : h < 1) /\ ~(\E h \in Touching(s, lt.entry) : h > 1)
      BY <3>1
    <3> QED
      BY <1>2, <3>2 DEF Override
  <2> QED
    BY <2>1, <2>2, <2>3 DEF RoleOf
<1>4. RoleOf(s, lt, lt.exit, 1) = "exit"
  <2>1. Touching(s, lt.exit) = {}
    BY <1>1, TouchingIs DEF OneTime
  <2>2. Forced(lt, lt.exit, 1) = "exit"
    BY <1>1 DEF Forced
  <2> QED
    BY <2>1, <2>2 DEF RoleOf
<1> QED
  BY <1>3, <1>4

(* At the ends of a lifetime within a time step: the first group that uses *)
(* the variable enters it, the last one leaves it.                         *)
LEMMA RoleAtEntry ==
  ASSUME NEW s, WellFormed(s), NEW lt, lt.kind # "none", StepWise(lt), Touching(s, lt.entry) # {}
  PROVE  \E m \in DOMAIN s.groups : \A g \in DOMAIN s.groups :
           RoleOf(s, lt, lt.entry, g) \in
             CASE g < m -> {"exclude"} [] g = m -> {"enter"} [] OTHER -> {"exclude", "passthrough"}
<1> DEFINE phase == lt.entry
           T == Touching(s, phase)
           n == Len(s.groups)
<1>1. /\ phase \in CallPhases /\ phase \notin OneLevelPhases /\ lt.hoisted /\ phase # lt.exit
      /\ PhaseRank[phase] \in Int /\ PhaseRank[lt.exit] \in Int
  BY PhasesAre, Ranks DEF StepWise, PerTimestepPhases, OneLevelPhases, CallPhases
<1>2. n \in Nat /\ n > 0 /\ DOMAIN s.groups = 1..n /\ GroupsOf(s, phase) = 1..n /\ T \subseteq 1..n
  BY <1>1, GroupsAre, TouchingIs DEF GroupsOf
<1>3. Cardinality(GroupsOf(s, phase)) = n
  BY <1>2, FS_Interval
<1> HIDE DEF phase, T, n
<1>4. PICK m \in T : \A g \in T : m <= g
  <2>1. T \subseteq Nat /\ T # {}
    BY <1>2 DEF T, phase
  <2> QED
    BY <2>1, Least
<1>5. RoleAt(lt, phase) = "enter"
  BY <1>1 DEF RoleAt, phase
<1>6. ASSUME NEW g \in 1..n
      PROVE  RoleOf(s, lt, phase, g) \in
               CASE g < m -> {"exclude"} [] g = m -> {"enter"} [] OTHER -> {"exclude", "passthrough"}
  <2>1. RoleOf(s, lt, phase, g) = Override(s, lt, phase, g)
    BY DEF RoleOf, phase
  <2>2. CASE n = 1
    <3>1. g = 1 /\ m = 1
      BY <1>2, <2>2
    <3>2. Override(s, lt, phase, g) = "enter"
      <4>1. ~(\E h \in T : h < g) /\ ~(\E h \in T : h > g)
        BY <1>2, <2>2, <3>1
      <4> QED
        BY <1>3, <1>5, <2>2, <4>1 DEF Override, T
    <3> QED
      BY <2>1, <3>1, <3>2
  <2>3. CASE n # 1
    <3>1. n > 1 /\ ~(n <= 1)
      BY <1>2, <2>3
    <3>2. CASE g \notin T
      <4>1. Override(s, lt, phase, g) = "exclude"
        BY <1>3, <3>1, <3>2 DEF Override, T
      <4>2. g # m
        BY <3>2
      <4> QED
        BY <2>1, <4>1, <4>2
    <3>3. CASE g \in T
      <4>1. m <= g /\ m \in Nat /\ g \in Nat
        BY <1>2, <1>4, <3>3
      <4>2. CASE g = m
        <5>1. ~ \E h \in T : h < g
          BY <1>2, <1>4, <4>2
        <5>2. Override(s, lt, phase, g) = "enter"
          BY <1>1, <1>3, <1>5, <3>1, <3>3, <5>1 DEF Override, T
        <5> QED
          BY <2>1, <4>2, <5>2
      <4>3. CASE g # m
        <5>1. m < g /\ ~(g < m)
          BY <4>1, <4>3
        <5>2. Override(s, lt, phase, g) = "passthrough"
          BY <1>1, <1>3, <3>1, <3>3, <5>1 DEF Override, T, phase
        <5> QED
          BY <2>1, <4>3, <5>1, <5>2
      <4> QED
        BY <4>2, <4>3
    <3> QED
      BY <3>2, <3>3
  <2> QED
    BY <2>2, <2>3
<1>7. m \in DOMAIN s.groups
  BY <1>2
<1> QED
  BY <1>2, <1>6, <1>7 DEF phase

(* Likewise the last group that uses it leaves it.                         *)
LEMMA RoleAtExit ==
  ASSUME NEW s, WellFormed(s), NEW lt, lt.kind # "none", StepWise(lt), Touching(s, lt.exit) # {}
  PROVE  \E m \in DOMAIN s.groups : \A g \in DOMAIN s.groups :
           RoleOf(s, lt, lt.exit, g) \in
             CASE g < m -> {"exclude", "passthrough"} [] g = m -> {"exit"} [] OTHER -> {"exclude"}
<1> DEFINE phase == lt.exit
           T == Touching(s, phase)
           n == Len(s.groups)
<1>1. /\ phase \in CallPhases /\ phase \notin OneLevelPhases /\ lt.hoisted /\ phase # lt.entry
      /\ PhaseRank[phase] \in Int /\ PhaseRank[lt.entry] \in Int
  BY PhasesAre, Ranks DEF StepWise, PerTimestepPhases, OneLevelPhases, CallPhases
<1>2. n \in Nat /\ n > 0 /\ DOMAIN s.groups = 1..n /\ GroupsOf(s, phase) = 1..n /\ T \subseteq 1..n
  BY <1>1, GroupsAre, TouchingIs DEF GroupsOf
<1>3. Cardinality(GroupsOf(s, phase)) = n
  BY <1>2, FS_Interval
<1> HIDE DEF phase, T, n
<1>4. PICK m \in T : \A g \in T : g <= m
  <2> DEFINE down == {n - g : g \in T}
  <2>1. down \subseteq Nat /\ down # {}
    BY <1>2 DEF T, phase
  <2> HIDE DEF down
  <2>2. PICK x \in down : \A y \in down : x <= y
    BY <2>1, Least
  <2>3. PICK m \in T : x = n - m
    BY <2>2 DEF down
  <2>4. ASSUME NEW g \in T PROVE g <= m
    <3>1. n - m <= n - g
      BY <2>2, <2>3 DEF down
    <3> QED
      BY <1>2, <2>3, <3>1
  <2> QED
    BY <2>3, <2>4
<1>5. RoleAt(lt, phase) = "exit"
  BY <1>1 DEF RoleAt, phase
<1>6. ASSUME NEW g \in 1..n
      PROVE  RoleOf(s, lt, phase, g) \in
               CASE g < m -> {"exclude", "passthrough"} [] g = m -> {"exit"} [] OTHER -> {"exclude"}
  <2>1. RoleOf(s, lt, phase, g) = Override(s, lt, phase, g)
    BY DEF RoleOf, phase
  <2>2. CASE n = 1
    <3>1. g = 1 /\ m = 1
      BY <1>2, <2>2
    <3>2. Override(s, lt, phase, g) = "exit"
      <4>1. ~(\E h \in T : h < g) /\ ~(\E h \in T : h > g)
        BY <1>2, <2>2, <3>1
      <4> QED
        BY <1>3, <1>5, <2>2, <4>1 DEF Override, T
    <3> QED
      BY <2>1, <3>1, <3>2
  <2>3. CASE n # 1
    <3>1. n > 1 /\ ~(n <= 1)
      BY <1>2, <2>3
    <3>2. CASE g \notin T
      <4>1. Override(s, lt, phase, g) = "exclude"
        BY <1>3, <3>1, <3>2 DEF Override, T
      <4>2. g # m
        BY <3>2
      <4> QED
        BY <2>1, <4>1, <4>2
    <3>3. CASE g \in T
      <4>1. g <= m /\ m \in Nat /\ g \in Nat
        BY <1>2, <1>4, <3>3
      <4>2. CASE g = m
        <5>1. ~ \E h \in T : h > g
          BY <1>2, <1>4, <4>2
        <5>2. Override(s, lt, phase, g) = "exit"
          BY <1>1, <1>3, <1>5, <3>1, <3>3, <5>1 DEF Override, T
        <5> QED
          BY <2>1, <4>2, <5>2
      <4>3. CASE g # m
        <5>1. m > g /\ g < m
          BY <4>1, <4>3
        <5>2. Override(s, lt, phase, g) = "passthrough"
          BY <1>1, <1>3, <3>1, <3>3, <5>1 DEF Override, T, phase
        <5> QED
          BY <2>1, <4>3, <5>1, <5>2
      <4> QED
        BY <4>2, <4>3
    <3> QED
      BY <3>2, <3>3
  <2> QED
    BY <2>2, <2>3
<1>7. m \in DOMAIN s.groups
  BY <1>2
<1> QED
  BY <1>2, <1>6, <1>7 DEF phase

(***************************************************************************)
(* What the host cap does around a call, for a variable of the host.       *)
(***************************************************************************)
CopyKinds == {"copy", "copyin", "copyout"}

(* The lifetime that takes references to the device copy.                  *)
Holding(s) == IF ResidencyLifetime(s).kind = "residency" THEN ResidencyLifetime(s) ELSE VarLifetime(s)

(* Lifetimes with the same ends give a call the same role.                 *)
LEMMA RoleSame ==
  ASSUME NEW s, NEW phase, NEW g, NEW lt, NEW mt, lt.kind # "none", mt.kind # "none",
         lt.hoisted = mt.hoisted, lt.entry = mt.entry, lt.exit = mt.exit
  PROVE  RoleOf(s, lt, phase, g) = RoleOf(s, mt, phase, g)
<1>1. RoleAt(lt, phase) = RoleAt(mt, phase)
  BY DEF RoleAt
<1>2. Override(s, lt, phase, g) = Override(s, mt, phase, g)
  BY <1>1 DEF Override
<1>3. Forced(lt, phase, g) = Forced(mt, phase, g)
  BY DEF Forced
<1> QED
  BY <1>2, <1>3 DEF RoleOf

(* Where the schemes agree, no two of them use different memory spaces.    *)
LEMMA AgreeingSpaces ==
  ASSUME NEW s, HostMatched(s), ~Diverged(s), UsesIn(s, "device") # {}
  PROVE  UsesIn(s, "host") = {}
<1> SUFFICES ASSUME UsesIn(s, "host") # {} PROVE FALSE
  OBVIOUS
<1>1. PICK d \in Used(s), e \in Used(s) : s.uses[d].space = "device" /\ s.uses[e].space = "host"
  BY DEF UsesIn
<1>2. Category(s.uses[d]) = "present" /\ Category(s.uses[e]) = "update"
  BY <1>1 DEF Category
<1>3. Categories(s) = {"present", "update"}
  <2>1. Categories(s) \subseteq {"present", "update"}
    BY DEF Categories, Category
  <2>2. "present" \in Categories(s) /\ "update" \in Categories(s)
    BY <1>2 DEF Categories
  <2> QED
    BY <2>1, <2>2
<1>4. Cardinality({"present", "update"}) = 2
  <2>1. IsFiniteSet({"present"}) /\ Cardinality({"present"}) = 1
    BY FS_Singleton
  <2>2. Cardinality({"present"} \cup {"update"}) = 1 + 1
    BY <2>1, FS_AddElement
  <2>3. {"present"} \cup {"update"} = {"present", "update"}
    OBVIOUS
  <2> QED
    BY <2>2, <2>3
<1> QED
  BY <1>3, <1>4 DEF Diverged, DivergedHost

(* Which lifetimes a host variable has: one of them takes references.      *)
LEMMA LifetimesAre ==
  ASSUME NEW s, WellFormed(s), HostMatched(s)
  PROVE  LET R == ResidencyLifetime(s)
             V == VarLifetime(s)
             used == PhasesUsed(s) IN
         /\ used \in SUBSET TablePhases
         /\ \/ /\ R = ResolveLifetime("residency", used)
               /\ V \in {NoLifetime, Lifetime("present", "none", "none", FALSE), ResolveLifetime("update", used)}
            \/ R = NoLifetime /\ (\E kind \in CopyKinds : V = ResolveLifetime(kind, used))
            \/ R = NoLifetime /\ V = NoLifetime /\ ~Diverged(s) /\ UsesIn(s, "device") = {}
<1> DEFINE R == ResidencyLifetime(s)
           V == VarLifetime(s)
           used == PhasesUsed(s)
<1>1. used \in SUBSET TablePhases
  BY DEF PhasesUsed, Used, WellFormed
<1>2. CASE Used(s) # {} /\ (ModelSpace(s) = "device" \/ Diverged(s))
  <2>1. R = ResolveLifetime("residency", used)
    BY <1>2 DEF ResidencyLifetime
  <2>2. V \in {NoLifetime, Lifetime("present", "none", "none", FALSE), ResolveLifetime("update", used)}
    <3>1. CASE Diverged(s)
      BY <3>1 DEF VarLifetime
    <3>2. CASE ~Diverged(s)
      <4>1. ModelSpace(s) = "device"
        BY <1>2, <3>2
      <4>2. ModelSpace(s) # "host" /\ HostMatched(s) /\ ~(~HostMatched(s) \/ Diverged(s) \/ Used(s) = {})
        BY <1>2, <3>2, <4>1
      <4>3. CASE UsesIn(s, "device") # {}
        <5>1. UsesIn(s, "host") = {}
          BY <3>2, <4>3, AgreeingSpaces
        <5>2. V = Lifetime("present", "none", "none", FALSE)
          BY <4>1, <4>2, <4>3, <5>1 DEF VarLifetime
        <5> QED
          BY <5>2
      <4>4. CASE UsesIn(s, "device") = {} /\ UsesIn(s, "host") # {}
        <5>1. V = ResolveLifetime("update", used)
          BY <4>1, <4>2, <4>4 DEF VarLifetime
        <5> QED
          BY <5>1
      <4>5. CASE UsesIn(s, "device") = {} /\ UsesIn(s, "host") = {}
        <5>1. V = NoLifetime
          BY <4>2, <4>5 DEF VarLifetime
        <5> QED
          BY <5>1
      <4> QED
        BY <4>3, <4>4, <4>5
    <3> QED
      BY <3>1, <3>2
  <2> QED
    BY <1>1, <2>1, <2>2
<1>3. CASE Used(s) # {} /\ ModelSpace(s) # "device" /\ ~Diverged(s)
  <2>1. R = NoLifetime /\ ModelSpace(s) = "host"
    BY <1>3 DEF ResidencyLifetime, ModelSpace
  <2>2. CASE UsesIn(s, "device") # {}
    <3>1. V = ResolveLifetime(CopyKind(s), used)
      BY <1>3, <2>1, <2>2 DEF VarLifetime
    <3>2. CopyKind(s) \in CopyKinds
      BY DEF CopyKind, CopyKinds
    <3> QED
      BY <1>1, <2>1, <3>1, <3>2
  <2>3. CASE UsesIn(s, "device") = {}
    <3>1. V = NoLifetime
      BY <1>3, <2>1, <2>3 DEF VarLifetime
    <3> QED
      BY <1>1, <1>3, <2>1, <2>3, <3>1
  <2> QED
    BY <2>2, <2>3
<1>4. CASE Used(s) = {}
  <2>1. R = NoLifetime /\ UsesIn(s, "device") = {}
    BY <1>4 DEF ResidencyLifetime, UsesIn
  <2>2. V = NoLifetime
    <3>1. UsesIn(s, "device") = {} /\ UsesIn(s, "host") = {}
      BY <1>4 DEF UsesIn
    <3> QED
      BY <1>4, <3>1 DEF VarLifetime
  <2>3. ~Diverged(s)
    <3>1. Categories(s) = {}
      BY <1>4 DEF Categories
    <3>2. ~(Cardinality({}) > 1)
      BY FS_EmptySet
    <3> QED
      BY <3>1, <3>2 DEF Diverged, DivergedHost, DivergedConstituents, DivergedOwned
  <2> QED
    BY <1>1, <2>1, <2>2, <2>3
<1> QED
  BY <1>2, <1>3, <1>4

(* What WrapSchemeCall makes of a body.                                    *)
WrapForm(kind, role, W, body) ==
  /\ role \notin {"legacy", "enter", "exit", "passthrough"} => W = body
  /\ kind = "present" /\ role = "legacy" => W = Around(One("present", Parts), body, <<>>)
  /\ kind = "update" => \E ref \in SomeParts :
       /\ role = "legacy" => W = Around(One("update self", ref), body, One("update device", ref))
       /\ role = "enter" => W = Around(One("update self", ref), body, <<>>)
       /\ role = "exit" => W = Around(<<>>, body, One("update device", ref))
       /\ role = "passthrough" => W = body
  /\ kind \in CopyKinds => \E ref \in SomeParts, in \in {"enter copyin", "enter create"},
                               out \in {"exit copyout", "exit delete"} :
       /\ role = "legacy" => W = Around(One(in, ref), body, One(out, ref))
       /\ role = "enter" => W = Around(One(in, ref), body, <<>>)
       /\ role = "exit" => W = Around(<<>>, body, One(out, ref))
       /\ role = "passthrough" => W = Around(One("present", Parts), body, <<>>)

(* What the host cap puts around a call in each role.                      *)
LEMMA WrapsAre ==
  ASSUME NEW s, NEW lt, NEW phase, NEW g, NEW cols \in SomeParts, NEW body
  PROVE  WrapForm(lt.kind, RoleOf(s, lt, phase, g), WrapSchemeCall(s, lt, phase, g, cols, body), body)
<1> DEFINE role == RoleOf(s, lt, phase, g)
           W == WrapSchemeCall(s, lt, phase, g, cols, body)
           ref == RefOf(role, cols)
           entered == CASE lt.kind = "update"             -> "update self"
                        [] lt.kind \in {"copyin", "copy"} -> "enter copyin"
                        [] OTHER                          -> "enter create"
           left == CASE lt.kind = "update"              -> "update device"
                     [] lt.kind \in {"copyout", "copy"} -> "exit copyout"
                     [] OTHER                           -> "exit delete"
<1>1. ref \in SomeParts
  BY DEF RefOf, SomeParts
<1>2. W = CASE role = "legacy" /\ lt.kind = "present" -> Around(One("present", Parts), body, <<>>)
            [] role = "legacy" /\ lt.kind # "present" -> Around(One(entered, ref), body, One(left, ref))
            [] role = "enter" -> Around(One(entered, ref), body, <<>>)
            [] role = "exit" -> Around(<<>>, body, One(left, ref))
            [] role = "passthrough" /\ lt.kind # "update" -> Around(One("present", Parts), body, <<>>)
            [] OTHER -> body
  BY Zenon DEF WrapSchemeCall
<1>3. lt.kind = "update" => entered = "update self" /\ left = "update device"
  OBVIOUS
<1>4. lt.kind \in CopyKinds => /\ entered \in {"enter copyin", "enter create"}
                               /\ left \in {"exit copyout", "exit delete"}
  BY DEF CopyKinds
<1> HIDE DEF role, W, ref, entered, left
<1>5. role \notin {"legacy", "enter", "exit", "passthrough"} => W = body
  BY <1>2
<1>6. lt.kind = "present" /\ role = "legacy" => W = Around(One("present", Parts), body, <<>>)
  BY <1>2
<1>7. lt.kind = "update" =>
        /\ role = "legacy" => W = Around(One("update self", ref), body, One("update device", ref))
        /\ role = "enter" => W = Around(One("update self", ref), body, <<>>)
        /\ role = "exit" => W = Around(<<>>, body, One("update device", ref))
        /\ role = "passthrough" => W = body
  BY <1>2, <1>3
<1>8. lt.kind \in CopyKinds =>
        /\ role = "legacy" => W = Around(One(entered, ref), body, One(left, ref))
        /\ role = "enter" => W = Around(One(entered, ref), body, <<>>)
        /\ role = "exit" => W = Around(<<>>, body, One(left, ref))
        /\ role = "passthrough" => W = Around(One("present", Parts), body, <<>>)
  BY <1>2 DEF CopyKinds
<1> QED
  BY <1>1, <1>4, <1>5, <1>6, <1>7, <1>8 DEF WrapForm, role, W

(* The references that a call with a role takes and gives back.            *)
RoleRuns(s, phase, role, P) ==
  /\ role \in {"exclude", "legacy", "enter", "exit", "passthrough"}
  /\ role = "exclude" => \A h \in Counts : Runs(s, phase, P, h, h)
  /\ role = "legacy" => \A h \in 0..1 : Runs(s, phase, P, h, h)
  /\ role = "enter" => \A h \in 0..1 : Runs(s, phase, P, h, h + 1)
  /\ role = "exit" => \A h \in 0..1 : Runs(s, phase, P, h + 1, h)
  /\ role = "passthrough" => \A h \in 0..1 : Runs(s, phase, P, h + 1, h + 1)

(* The roles.                                                              *)
LEMMA RolesAre ==
  ASSUME NEW s, NEW lt, NEW phase, NEW g
  PROVE  RoleOf(s, lt, phase, g) \in {"exclude", "legacy", "enter", "exit", "passthrough"}
<1>1. Forced(lt, phase, g) \in {"exclude", "enter", "exit"}
  BY DEF Forced
<1>2. RoleAt(lt, phase) \in {"exclude", "legacy", "enter", "exit", "passthrough"}
  <2>1. lt.kind = "none" \/ (lt.kind # "none" /\ ~lt.hoisted) \/ (lt.kind # "none" /\ lt.hoisted)
    OBVIOUS
  <2> QED
    BY DEF RoleAt
<1>3. Override(s, lt, phase, g) \in {"exclude", "legacy", "enter", "exit", "passthrough"}
  BY <1>2 DEF Override
<1> QED
  BY <1>1, <1>3 DEF RoleOf

(* The references a call takes and gives back, by its role.                *)
LEMMA AroundRuns ==
  ASSUME NEW s, NEW phase, NEW P, NEW B, NEW ps \in SomeParts,
         NEW in \in {"enter copyin", "enter create"}, NEW out \in {"exit copyout", "exit delete"},
         NEW role,
         \/ role = "exclude" /\ P = B
         \/ role = "legacy" /\ P = Around(One(in, ps), B, One(out, ps))
         \/ role = "enter" /\ P = Around(One(in, ps), B, <<>>)
         \/ role = "exit" /\ P = Around(<<>>, B, One(out, ps))
         \/ role = "passthrough" /\ (P = B \/ P = Around(One("present", Parts), B, <<>>)),
         \A h \in Counts : h > 0 \/ role = "exclude" => Runs(s, phase, B, h, h)
  PROVE  RoleRuns(s, phase, role, P)
<1>1. \A h \in 0..1 : h \in Counts /\ h + 1 \in Counts /\ Runs(s, phase, B, h + 1, h + 1)
  <2> SUFFICES ASSUME NEW h \in 0..1
               PROVE  h \in Counts /\ h + 1 \in Counts /\ Runs(s, phase, B, h + 1, h + 1)
    OBVIOUS
  <2>1. h \in Counts /\ h + 1 \in Counts
    BY CountsAre, Zenon
  <2>2. h + 1 > 0
    BY CountsAre, Zenon
  <2> QED
    BY <2>1, <2>2
<1>2. \A h \in 0..1 : Runs(s, phase, One(in, ps), h, h + 1) /\ Runs(s, phase, One(out, ps), h + 1, h)
  BY RunsEnter, RunsExit
<1>3. \A h \in 0..1 : Runs(s, phase, <<>>, h, h) /\ Runs(s, phase, <<>>, h + 1, h + 1)
  BY <1>1, RunsNone
<1>4. \A h \in 0..1 : Runs(s, phase, One("present", Parts), h + 1, h + 1)
  <2>1. \A h \in 0..1 : h + 1 > 0
    BY CountsAre, Zenon
  <2> QED
    BY <1>1, <2>1, RunsUpdate DEF SomeParts
<1>5. CASE role = "exclude"
  BY <1>5 DEF RoleRuns
<1>6. CASE role = "legacy"
  <2>1. ASSUME NEW h \in 0..1 PROVE Runs(s, phase, P, h, h)
    BY <1>1, <1>2, <1>6, RunsAround
  <2> QED
    BY <1>6, <2>1 DEF RoleRuns
<1>7. CASE role = "enter"
  <2>1. ASSUME NEW h \in 0..1 PROVE Runs(s, phase, P, h, h + 1)
    BY <1>1, <1>2, <1>3, <1>7, RunsAround
  <2> QED
    BY <1>7, <2>1 DEF RoleRuns
<1>8. CASE role = "exit"
  <2>1. ASSUME NEW h \in 0..1 PROVE Runs(s, phase, P, h + 1, h)
    BY <1>1, <1>2, <1>3, <1>8, RunsAround
  <2> QED
    BY <1>8, <2>1 DEF RoleRuns
<1>9. CASE role = "passthrough"
  <2>1. ASSUME NEW h \in 0..1 PROVE Runs(s, phase, P, h + 1, h + 1)
    BY <1>1, <1>3, <1>4, <1>9, RunsAround
  <2> QED
    BY <1>9, <2>1 DEF RoleRuns
<1> QED
  BY <1>5, <1>6, <1>7, <1>8, <1>9

(* Updates and assertions inside the references of another lifetime.       *)
LEMMA InnerRuns ==
  ASSUME NEW s, NEW phase, NEW P, NEW B, NEW ps \in SomeParts, NEW role, NEW h \in Counts,
         \/ role = "exclude" /\ P = B
         \/ role = "legacy" /\ (\/ P = Around(One("update self", ps), B, One("update device", ps))
                                \/ P = Around(One("present", Parts), B, <<>>))
         \/ role = "enter" /\ P = Around(One("update self", ps), B, <<>>)
         \/ role = "exit" /\ P = Around(<<>>, B, One("update device", ps))
         \/ role = "passthrough" /\ P = B,
         h > 0 \/ role = "exclude",
         Runs(s, phase, B, h, h)
  PROVE  Runs(s, phase, P, h, h)
<1>1. CASE P = B
  BY <1>1
<1>2. CASE P # B
  <2>1. h > 0
    BY <1>2
  <2>2. /\ Runs(s, phase, One("update self", ps), h, h) /\ Runs(s, phase, One("update device", ps), h, h)
        /\ Runs(s, phase, One("present", Parts), h, h) /\ Runs(s, phase, <<>>, h, h)
    BY <2>1, RunsUpdate, RunsNone DEF SomeParts
  <2> QED
    BY <1>2, <2>2, RunsAround
<1> QED
  BY <1>1, <1>2

(* The lifetime that takes references begins where the variable is used.   *)
LEMMA HoldingIs ==
  ASSUME NEW s, WellFormed(s), HostMatched(s)
  PROVE  LET lt == Holding(s) IN
         \/ lt.kind = "none"
         \/ /\ lt.kind # "none"
            /\ lt.hoisted = FALSE \/ OneTime(lt) \/ StepWise(lt)
            /\ lt.hoisted \in BOOLEAN
            /\ lt.hoisted => lt.entry \in PhasesUsed(s)
            /\ StepWise(lt) => lt.exit \in PhasesUsed(s)
<1> DEFINE lt == Holding(s)
<1>1. PhasesUsed(s) \in SUBSET TablePhases
  BY LifetimesAre
<1>2. \/ \E kind \in CopyKinds \cup {"residency"} : lt = ResolveLifetime(kind, PhasesUsed(s))
      \/ lt = NoLifetime
  <2>1. ResolveLifetime("residency", PhasesUsed(s)).kind = "residency"
    BY <1>1, ResolveIs
  <2>2. NoLifetime.kind # "residency"
    BY DEF NoLifetime, Lifetime
  <2> QED
    BY <2>1, <2>2, LifetimesAre DEF Holding
<1> HIDE DEF lt
<1>3. CASE lt = NoLifetime
  BY <1>3 DEF NoLifetime, Lifetime, lt
<1>4. CASE \E kind \in CopyKinds \cup {"residency"} : lt = ResolveLifetime(kind, PhasesUsed(s))
  <2>1. PICK kind \in CopyKinds \cup {"residency"} : lt = ResolveLifetime(kind, PhasesUsed(s))
    BY <1>4
  <2>2. /\ lt.kind = kind
        /\ lt.hoisted = FALSE \/ OneTime(lt) \/ StepWise(lt)
        /\ lt.hoisted => lt.entry \in PhasesUsed(s)
        /\ StepWise(lt) => lt.exit \in PhasesUsed(s)
    BY <1>1, <2>1, ResolveIs
  <2>3. lt.kind # "none"
    BY <2>2 DEF CopyKinds
  <2>4. lt.hoisted \in BOOLEAN
    BY <2>1 DEF ResolveLifetime, Lifetime
  <2> QED
    BY <2>2, <2>3, <2>4 DEF lt
<1> QED
  BY <1>2, <1>3, <1>4

(* What a call does to the references to a host variable, by its role.     *)
LEMMA CallRuns ==
  ASSUME NEW s, WellFormed(s), HostMatched(s), NEW phase \in CallPhases,
         NEW g \in GroupsOf(s, phase), NEW cols \in SomeParts
  PROVE  RoleRuns(s, phase, RoleOf(s, Holding(s), phase, g), CallProgram(s, phase, g, cols))
<1> DEFINE R == ResidencyLifetime(s)
           V == VarLifetime(s)
           used == PhasesUsed(s)
           role == RoleOf(s, Holding(s), phase, g)
           body == SuiteCapBody(s, phase, g, cols)
           W == WrapSchemeCall(s, V, phase, g, cols, body)
           P == WrapResidency(s, R, phase, g, cols, W)
<1>1. g \in DOMAIN s.groups /\ ~Constituents(s) /\ s.owner # "suite" /\ used \in SUBSET TablePhases
  BY GroupsAre, LifetimesAre DEF HostMatched, Constituents
<1>2. CallProgram(s, phase, g, cols) = P
  BY <1>1 DEF CallProgram, WrapConstituents, ConstituentsResident
<1>3. \A h \in Counts : (Touches(s, phase, g) => h > 0) => Runs(s, phase, body, h, h)
  BY <1>1, BodyRuns
<1> HIDE DEF body
<1> DEFINE rv == RoleOf(s, V, phase, g)
<1>10. /\ rv \notin {"legacy", "enter", "exit", "passthrough"} => W = body
       /\ V.kind = "present" /\ rv = "legacy" => W = Around(One("present", Parts), body, <<>>)
       /\ V.kind = "update" => \E ref \in SomeParts :
            /\ rv = "legacy" => W = Around(One("update self", ref), body, One("update device", ref))
            /\ rv = "enter" => W = Around(One("update self", ref), body, <<>>)
            /\ rv = "exit" => W = Around(<<>>, body, One("update device", ref))
            /\ rv = "passthrough" => W = body
       /\ V.kind \in CopyKinds => \E ref \in SomeParts, in \in {"enter copyin", "enter create"},
                                      out \in {"exit copyout", "exit delete"} :
            /\ rv = "legacy" => W = Around(One(in, ref), body, One(out, ref))
            /\ rv = "enter" => W = Around(One(in, ref), body, <<>>)
            /\ rv = "exit" => W = Around(<<>>, body, One(out, ref))
            /\ rv = "passthrough" => W = Around(One("present", Parts), body, <<>>)
  <2>1. WrapForm(V.kind, rv, W, body)
    BY WrapsAre
  <2> HIDE DEF V, rv, W
  <2> QED
    BY <2>1 DEF WrapForm
<1>4. CASE /\ R = ResolveLifetime("residency", used)
           /\ V \in {NoLifetime, Lifetime("present", "none", "none", FALSE), ResolveLifetime("update", used)}
  <2>1. R.kind = "residency" /\ Holding(s) = R /\ R.hoisted \in BOOLEAN
    <3>1. R.kind = "residency"
      BY <1>1, <1>4, ResolveIs
    <3>2. R.hoisted \in BOOLEAN
      BY <1>4 DEF ResolveLifetime, Lifetime
    <3> QED
      BY <3>1, <3>2 DEF Holding
  <2>2. role = RoleOf(s, R, phase, g) /\ (Touches(s, phase, g) => role # "exclude")
    BY <2>1, RoleBasics
  <2>3. ASSUME NEW h \in Counts, h > 0 \/ role = "exclude" PROVE Runs(s, phase, W, h, h)
    <3>1. Runs(s, phase, body, h, h)
      BY <1>3, <2>2, <2>3
    <3>2. CASE V = NoLifetime
      <4>1. RoleOf(s, V, phase, g) = "exclude"
        BY <3>2 DEF RoleOf, NoLifetime, Lifetime
      <4>2. W = body
        BY <1>10, <4>1
      <4> QED
        BY <3>1, <4>2
    <3>3. CASE V = Lifetime("present", "none", "none", FALSE)
      <4>1. V.kind = "present" /\ V.hoisted = FALSE
        BY <3>3 DEF Lifetime
      <4>2. /\ RoleOf(s, V, phase, g) \in {"exclude", "legacy"}
            /\ RoleOf(s, V, phase, g) = "legacy" => Touches(s, phase, g)
        BY <4>1, RoleBasics
      <4>3. CASE RoleOf(s, V, phase, g) = "exclude"
        <5>1. W = body
          BY <1>10, <4>3
        <5> QED
          BY <3>1, <5>1
      <4>4. CASE RoleOf(s, V, phase, g) = "legacy"
        <5>1. W = Around(One("present", Parts), body, <<>>)
          BY <1>10, <4>1, <4>4
        <5>2. h > 0
          BY <2>2, <2>3, <4>2, <4>4
        <5> HIDE DEF W
        <5> QED
          BY <3>1, <4>4, <5>1, <5>2, InnerRuns DEF SomeParts
      <4> QED
        BY <4>2, <4>3, <4>4
    <3>4. CASE V = ResolveLifetime("update", used)
      <4>1. V.kind = "update"
        BY <1>1, <3>4, ResolveIs
      <4>2. V.hoisted = R.hoisted /\ V.entry = R.entry /\ V.exit = R.exit
        BY <1>4, <3>4 DEF ResolveLifetime, Lifetime
      <4>3. RoleOf(s, V, phase, g) = role
        BY <2>1, <2>2, <4>1, <4>2, RoleSame
      <4>4. \E ps \in SomeParts :
              /\ role = "legacy" => W = Around(One("update self", ps), body, One("update device", ps))
              /\ role = "enter" => W = Around(One("update self", ps), body, <<>>)
              /\ role = "exit" => W = Around(<<>>, body, One("update device", ps))
              /\ role = "passthrough" => W = body
        BY <1>10, <4>1, <4>3
      <4>5. role = "exclude" => W = body
        BY <1>10, <4>3
      <4>6. role \in {"exclude", "legacy", "enter", "exit", "passthrough"}
        BY RolesAre
      <4> HIDE DEF W, role
      <4> QED
        BY <2>3, <3>1, <4>4, <4>5, <4>6, InnerRuns
    <3> QED
      BY <1>4, <3>2, <3>3, <3>4
  <2>4. role \in {"exclude", "legacy", "enter", "exit", "passthrough"}
    BY RolesAre
  <2> DEFINE ps == RefOf(role, cols)
  <2>5. ps \in SomeParts
    BY DEF RefOf, SomeParts
  <2>6. \/ role = "exclude" /\ P = W
        \/ role = "legacy" /\ P = Around(One("enter copyin", ps), W, One("exit copyout", ps))
        \/ role = "enter" /\ P = Around(One("enter copyin", ps), W, <<>>)
        \/ role = "exit" /\ P = Around(<<>>, W, One("exit copyout", ps))
        \/ role = "passthrough" /\ P = W
    <3> HIDE DEF W, role
    <3> QED
      BY <2>2, <2>4 DEF WrapResidency
  <2> HIDE DEF W, P, role, ps
  <2>7. RoleRuns(s, phase, role, P)
    BY <2>3, <2>5, <2>6, AroundRuns
  <2> QED
    BY <1>2, <2>7 DEF role, P
<1>5. CASE R = NoLifetime /\ \E kind \in CopyKinds : V = ResolveLifetime(kind, used)
  <2>1. /\ V.kind \in CopyKinds /\ V.kind # "none" /\ Holding(s) = V /\ V.hoisted \in BOOLEAN
    <3>4. PICK kind \in CopyKinds : V = ResolveLifetime(kind, used)
      BY <1>5
    <3>5. ResolveLifetime(kind, used).kind = kind
      BY <1>1, ResolveIs
    <3>1. V.kind \in CopyKinds
      BY <3>4, <3>5
    <3>2. V.hoisted \in BOOLEAN
      BY <1>5 DEF ResolveLifetime, Lifetime
    <3>3. R.kind # "residency"
      BY <1>5 DEF NoLifetime, Lifetime
    <3> QED
      BY <3>1, <3>2, <3>3 DEF Holding, CopyKinds
  <2>2. role = RoleOf(s, V, phase, g) /\ (Touches(s, phase, g) => role # "exclude")
    BY <2>1, RoleBasics
  <2>3. P = W
    <3>1. RoleOf(s, R, phase, g) = "exclude"
      BY <1>5 DEF RoleOf, NoLifetime, Lifetime
    <3> HIDE DEF W
    <3> QED
      BY <3>1 DEF WrapResidency
  <2>4. role \in {"exclude", "legacy", "enter", "exit", "passthrough"}
    BY RolesAre
  <2>5. PICK ps \in SomeParts, in \in {"enter copyin", "enter create"}, out \in {"exit copyout", "exit delete"} :
              /\ role = "legacy" => W = Around(One(in, ps), body, One(out, ps))
              /\ role = "enter" => W = Around(One(in, ps), body, <<>>)
              /\ role = "exit" => W = Around(<<>>, body, One(out, ps))
              /\ role = "passthrough" => W = Around(One("present", Parts), body, <<>>)
    BY <1>10, <2>1, <2>2
  <2>6. role = "exclude" => W = body
    BY <1>10, <2>2
  <2>7. \A h \in Counts : h > 0 \/ role = "exclude" => Runs(s, phase, body, h, h)
    BY <1>3, <2>2
  <2> HIDE DEF W, P, role
  <2>8. RoleRuns(s, phase, role, W)
    BY <2>4, <2>5, <2>6, <2>7, AroundRuns
  <2> QED
    BY <1>2, <2>3, <2>8 DEF role
<1>6. CASE R = NoLifetime /\ V = NoLifetime /\ ~Diverged(s) /\ UsesIn(s, "device") = {}
  <2>1. Holding(s) = V
    BY <1>6 DEF Holding, NoLifetime, Lifetime
  <2>2. RoleOf(s, R, phase, g) = "exclude" /\ RoleOf(s, V, phase, g) = "exclude"
    BY <1>6 DEF RoleOf, NoLifetime, Lifetime
  <2>3. W = body
    BY <1>10, <2>2
  <2>4. P = W
    <3> HIDE DEF W
    <3> QED
      BY <2>2 DEF WrapResidency
  <2>5. \A h \in Counts : Runs(s, phase, body, h, h)
    BY <1>1, <1>6, BodyRuns DEF body
  <2> HIDE DEF W, P
  <2> QED
    BY <1>2, <2>1, <2>2, <2>3, <2>4, <2>5 DEF RoleRuns
<1> QED
  BY <1>4, <1>5, <1>6, LifetimesAre

(***************************************************************************)
(* A call for the constituents, and for a suite-owned variable.            *)
(***************************************************************************)
LEMMA NoLifetimes ==
  ASSUME NEW s, WellFormed(s), ~HostMatched(s), NEW phase, NEW g, NEW cols \in SomeParts
  PROVE  CallProgram(s, phase, g, cols) = WrapConstituents(s, phase, g, SuiteCapBody(s, phase, g, cols))
<1> DEFINE R == ResidencyLifetime(s)
           V == VarLifetime(s)
           body == SuiteCapBody(s, phase, g, cols)
           W == WrapSchemeCall(s, V, phase, g, cols, body)
<1>1. R = NoLifetime /\ V = NoLifetime
  BY DEF ResidencyLifetime, VarLifetime
<1>2. RoleOf(s, R, phase, g) = "exclude" /\ RoleOf(s, V, phase, g) = "exclude"
  BY <1>1 DEF RoleOf, NoLifetime, Lifetime
<1> HIDE DEF body
<1>3. W = body
  <2>1. WrapForm(V.kind, RoleOf(s, V, phase, g), W, body)
    BY WrapsAre
  <2> HIDE DEF V, W
  <2> QED
    BY <1>2, <2>1 DEF WrapForm
<1>4. WrapResidency(s, R, phase, g, cols, W) = W
  <2> HIDE DEF W, R
  <2> QED
    BY <1>2 DEF WrapResidency
<1> QED
  BY <1>3, <1>4 DEF CallProgram, body

(* What a call does to the references to the constituents.                 *)
LEMMA ConstituentRuns ==
  ASSUME NEW s, WellFormed(s), Constituents(s), NEW phase \in CallPhases,
         NEW g \in GroupsOf(s, phase), NEW cols \in SomeParts
  PROVE  LET P == CallProgram(s, phase, g, cols) IN
         /\ ~ConstituentsResident(s) => Runs(s, phase, P, 0, 0)
         /\ ConstituentsResident(s) =>
              /\ phase = "register" => Runs(s, phase, P, 0, 0)
              /\ phase = "initialize_constituents" => Runs(s, phase, P, 0, 1)
              /\ phase = "finalize" => Runs(s, phase, P, 1, 0)
              /\ phase \notin {"register", "initialize_constituents", "finalize"} => Runs(s, phase, P, 1, 1)
<1> DEFINE P == CallProgram(s, phase, g, cols)
           body == SuiteCapBody(s, phase, g, cols)
<1>1. g \in DOMAIN s.groups /\ ~HostMatched(s) /\ s.owner # "suite"
  BY GroupsAre DEF HostMatched, Constituents
<1>2. P = WrapConstituents(s, phase, g, body)
  BY <1>1, NoLifetimes
<1>3. 0 \in Counts /\ 1 \in Counts /\ 0 \in 0..1 /\ 1 \in 0..1
  BY DEF Counts
<1>4. CASE ~ConstituentsResident(s)
  <2>1. ~Diverged(s) /\ \A e \in UsesIn(s, "device") : e[1] \in Viewing
    BY <1>1, <1>4 DEF ConstituentsResident, Diverged, DivergedHost, DivergedConstituents, DivergedOwned,
                      SuiteOwnedResident
  <2>2. Runs(s, phase, body, 0, 0)
    BY <1>1, <1>3, <2>1, BodyRuns
  <2>3. P = body
    BY <1>2, <1>4 DEF WrapConstituents
  <2> QED
    BY <1>4, <2>2, <2>3
<1>5. CASE ConstituentsResident(s)
  <2>1. Runs(s, phase, body, 1, 1)
    BY <1>1, <1>3, BodyRuns
  <2>2. phase = "register" => ~Touches(s, phase, g)
    <3> SUFFICES ASSUME phase = "register", Touches(s, phase, g) PROVE FALSE
      OBVIOUS
    <3>1. PICK e \in Used(s) : e[2] = TableOf(phase)
      BY <1>1, TouchesUsed
    <3> QED
      BY <3>1 DEF TableOf, WellFormed
  <2>3. phase = "register" => Runs(s, phase, body, 0, 0)
    BY <1>1, <1>3, <2>2, BodyRuns
  <2> HIDE DEF body, P
  <2>4. CASE phase = "register"
    <3>1. P = body
      BY <1>2, <1>5, <2>4 DEF WrapConstituents
    <3> QED
      BY <1>5, <2>3, <2>4, <3>1 DEF P
  <2>5. CASE phase = "initialize_constituents"
    <3>1. P = One("enter copyin", Parts)
      BY <1>2, <1>5, <2>5 DEF WrapConstituents
    <3>2. Runs(s, phase, P, 0, 1)
      BY <3>1, RunsFirst DEF SomeParts
    <3> QED
      BY <1>5, <2>5, <3>2 DEF P
  <2>6. CASE phase = "finalize"
    <3>1. P = Around(body, One("exit delete", Parts), <<>>)
      BY <1>2, <1>5, <2>6 DEF WrapConstituents
    <3>2. Runs(s, phase, One("exit delete", Parts), 1, 0) /\ Runs(s, phase, <<>>, 0, 0)
      BY <1>3, RunsFirst, RunsNone DEF SomeParts
    <3>3. Runs(s, phase, P, 1, 0)
      BY <2>1, <3>1, <3>2, RunsAround
    <3> QED
      BY <1>5, <2>6, <3>3 DEF P
  <2>7. CASE phase \notin {"register", "initialize_constituents", "finalize"}
    <3>1. P = body \/ P = Around(One("update device", Parts), body, One("update self", Parts))
      BY <1>2, <1>5, <2>7 DEF WrapConstituents
    <3>2. 1 > 0
      OBVIOUS
    <3>3. Runs(s, phase, One("update device", Parts), 1, 1) /\ Runs(s, phase, One("update self", Parts), 1, 1)
      BY <1>3, <3>2, RunsUpdate DEF SomeParts
    <3>4. Runs(s, phase, P, 1, 1)
      BY <2>1, <3>1, <3>3, RunsAround
    <3> QED
      BY <1>5, <2>7, <3>4 DEF P
  <2> QED
    BY <2>4, <2>5, <2>6, <2>7
<1> QED
  BY <1>4, <1>5

(* What a call does to the references to a suite-owned array.              *)
LEMMA SuiteOwnedRuns ==
  ASSUME NEW s, WellFormed(s), s.owner = "suite", NEW phase \in CallPhases,
         NEW g \in GroupsOf(s, phase), NEW cols \in SomeParts
  PROVE  LET P == CallProgram(s, phase, g, cols) IN
         /\ SuiteOwnedResident(s) /\ phase = "finalize" => Runs(s, phase, P, 1, 0)
         /\ SuiteOwnedResident(s) /\ phase # "finalize" => Runs(s, phase, P, 1, 1)
         /\ ~SuiteOwnedResident(s) \/ (phase # "finalize" /\ ~Touches(s, phase, g)) => Runs(s, phase, P, 0, 0)
<1> DEFINE P == CallProgram(s, phase, g, cols)
           calls == Calls(s, phase, g)
<1>1. g \in DOMAIN s.groups /\ ~HostMatched(s) /\ ~Constituents(s)
  BY GroupsAre DEF HostMatched, Constituents
<1>2. P = SuiteOwnedBody(s, phase, g, cols)
  <2>1. P = SuiteCapBody(s, phase, g, cols)
    BY <1>1, NoLifetimes DEF WrapConstituents, ConstituentsResident
  <2> QED
    BY <2>1 DEF SuiteCapBody
<1>3. 0 \in Counts /\ 1 \in Counts /\ 0 \in 0..1 /\ 1 \in 0..1 /\ 1 > 0 /\ Parts \in SomeParts
  BY DEF Counts, SomeParts
<1>4. calls \in Seq(Schemes)
  BY <1>1, CallsAre
<1>5. \A j \in 1..Len(calls) : ~DeviceView(s, phase, calls[j])
  BY <1>1 DEF DeviceView
<1>6. Runs(s, phase, PlainCalls(s, phase, calls, cols), 1, 1)
  <2> HIDE DEF calls
  <2> QED
    BY <1>3, <1>4, <1>5, PlainRuns
<1>7. Runs(s, phase, CoalescedUpdates(s, phase, calls, Parts, cols), 1, 1)
  <2> HIDE DEF calls
  <2> QED
    BY <1>3, <1>4, <1>5, CoalescedRuns
<1>8. ASSUME ~SuiteOwnedResident(s) PROVE Runs(s, phase, PlainCalls(s, phase, calls, cols), 0, 0)
  <2>1. UsesIn(s, "device") = {}
    BY <1>8 DEF SuiteOwnedResident
  <2>2. \A j \in 1..Len(calls) : OnHost(s, phase, calls[j])
    <3> SUFFICES ASSUME NEW j \in 1..Len(calls) PROVE OnHost(s, phase, calls[j])
      OBVIOUS
    <3> DEFINE c == calls[j]
    <3>1. /\ <<c, TableOf(phase)>> \in Used(s) /\ UseAt(s, phase, c) = s.uses[<<c, TableOf(phase)>>]
          /\ OnHost(s, phase, c) \/ UseAt(s, phase, c).space = "device"
      BY <1>1, SpacesAre
    <3> HIDE DEF c
    <3>2. OnHost(s, phase, c)
      BY <2>1, <3>1 DEF UsesIn
    <3> QED
      BY <3>2 DEF c
  <2> HIDE DEF calls
  <2> QED
    BY <1>3, <1>4, <1>5, <2>2, PlainRuns
<1>9. ASSUME ~Touches(s, phase, g)
      PROVE  Runs(s, phase, PlainCalls(s, phase, calls, cols), 0, 0) /\
             Runs(s, phase, CoalescedUpdates(s, phase, calls, Parts, cols), 0, 0)
  <2>1. calls = <<>>
    BY <1>9 DEF Touches
  <2>2. /\ PlainCalls(s, phase, <<>>, cols) = Joined(<<>>)
        /\ CoalescedUpdates(s, phase, <<>>, Parts, cols) = Joined(<<>>)
    BY DEF PlainCalls, CoalescedUpdates
  <2>3. Joined(<<>>) = <<>>
    BY JoinedNone
  <2> HIDE DEF calls
  <2> QED
    BY <1>3, <2>1, <2>2, <2>3, RunsNone
<1>10. SuiteOwnedResident(s) /\ phase = "finalize" => P = One("exit delete", Parts)
  BY <1>2 DEF SuiteOwnedBody, OneLevelPhases
<1>11. SuiteOwnedResident(s) /\ phase # "finalize" =>
         \/ P = PlainCalls(s, phase, calls, cols)
         \/ P = CoalescedUpdates(s, phase, calls, Parts, cols)
  BY <1>2 DEF SuiteOwnedBody
<1>12. ~SuiteOwnedResident(s) => P = PlainCalls(s, phase, calls, cols)
  <2>1. ~SuiteOwnedResident(s) => ~Diverged(s)
    BY <1>1 DEF Diverged, DivergedHost, DivergedConstituents, DivergedOwned, ConstituentsResident
  <2> QED
    BY <1>2, <2>1 DEF SuiteOwnedBody
<1>13. Runs(s, phase, One("exit delete", Parts), 1, 0)
  BY <1>3, RunsFirst
<1> HIDE DEF P, calls
<1> QED
  BY <1>6, <1>7, <1>8, <1>9, <1>10, <1>11, <1>12, <1>13 DEF P

(***************************************************************************)
(* The host's calls.                                                       *)
(***************************************************************************)
Records(s) == [phase : CallPhases, group : DOMAIN s.groups, chunk : 0..s.chunks]
Middle == {"physics_initial", "timestep_initial", "run", "timestep_final", "physics_final"}

(* The parts of a call.                                                    *)
LEMMA CallIs ==
  ASSUME NEW s, WellFormed(s), NEW phase \in CallPhases, NEW g \in DOMAIN s.groups, NEW ch \in 0..s.chunks
  PROVE  /\ Call(phase, g, ch) \in Records(s)
         /\ Call(phase, g, ch).phase = phase /\ Call(phase, g, ch).group = g /\ Call(phase, g, ch).chunk = ch
BY DEF Call, Records

(* The calls of one phase, group by group.                                 *)
LEMMA PerGroupIs ==
  ASSUME NEW s, WellFormed(s), NEW phase \in CallPhases, NEW q, q = PerGroup(s, phase),
         NEW n, n = Len(s.groups)
  PROVE  /\ q \in Seq(Records(s)) /\ q = [g \in 1..n |-> q[g]] /\ Len(q) = n
         /\ \A g \in 1..n : q[g] = Call(phase, g, 0)
<1>1. n \in Nat /\ DOMAIN s.groups = 1..n
  BY GroupsAre
<1>2. 0 \in 0..s.chunks
  BY DEF WellFormed
<1>3. \A g \in 1..n : Call(phase, g, 0) \in Records(s)
  BY <1>1, <1>2, CallIs
<1>4. q = [g \in 1..n |-> Call(phase, g, 0)]
  BY DEF PerGroup
<1> QED
  BY <1>1, <1>3, <1>4

(* A function on 1..n is a sequence.                                       *)
LEMMA SeqOf ==
  ASSUME NEW S, NEW n \in Nat, NEW q, q = [i \in 1..n |-> q[i]], \A i \in 1..n : q[i] \in S
  PROVE  q \in Seq(S) /\ Len(q) = n
OBVIOUS

(* The run calls of each group.                                            *)
RunPieces(s) == [g \in 1..Len(s.groups) |-> [c \in 1..s.chunks |-> Call("run", g, c)]]

(* One run call for each chunk of each group.                              *)
LEMMA RunPiecesAre ==
  ASSUME NEW s, WellFormed(s)
  PROVE  /\ Len(s.groups) \in Nat /\ RunCalls(s) = Joined(RunPieces(s))
         /\ RunPieces(s) \in Seq(Seq(Records(s))) /\ Len(RunPieces(s)) = Len(s.groups)
         /\ \A g \in 1..Len(s.groups) :
              /\ RunPieces(s)[g] = [c \in 1..s.chunks |-> RunPieces(s)[g][c]]
              /\ Len(RunPieces(s)[g]) = s.chunks
              /\ \A c \in 1..s.chunks : RunPieces(s)[g][c] = Call("run", g, c)
<1> DEFINE n == Len(s.groups)
           ps == RunPieces(s)
<1>1. n \in Nat /\ DOMAIN s.groups = 1..n
  BY GroupsAre
<1>2. s.chunks \in Nat /\ \A c \in 1..s.chunks : c \in 0..s.chunks
  BY DEF WellFormed
<1>3. "run" \in CallPhases
  BY PhasesAre DEF CallPhases
<1>4. \A g \in 1..n : \A c \in 1..s.chunks : Call("run", g, c) \in Records(s)
  BY <1>1, <1>2, <1>3, CallIs
<1>5. /\ \A g \in 1..n : ps[g] = [c \in 1..s.chunks |-> Call("run", g, c)]
      /\ ps = [g \in 1..n |-> ps[g]]
      /\ RunCalls(s) = Joined(ps)
  BY DEF RunPieces, RunCalls
<1> HIDE DEF ps, n
<1>6. \A g \in 1..n : /\ ps[g] = [c \in 1..s.chunks |-> ps[g][c]]
                      /\ \A c \in 1..s.chunks : ps[g][c] = Call("run", g, c)
  BY <1>5
<1>7. \A g \in 1..n : ps[g] \in Seq(Records(s)) /\ Len(ps[g]) = s.chunks
  <2> SUFFICES ASSUME NEW g \in 1..n PROVE ps[g] \in Seq(Records(s)) /\ Len(ps[g]) = s.chunks
    OBVIOUS
  <2>1. \A c \in 1..s.chunks : ps[g][c] \in Records(s)
    BY <1>4, <1>6
  <2>2. ps[g] = [c \in 1..s.chunks |-> ps[g][c]]
    BY <1>6
  <2> DEFINE q == ps[g]
  <2> HIDE DEF q
  <2>3. q \in Seq(Records(s)) /\ Len(q) = s.chunks
    <3>1. q = [c \in 1..s.chunks |-> q[c]] /\ \A c \in 1..s.chunks : q[c] \in Records(s)
      BY <2>1, <2>2 DEF q
    <3> QED
      BY <1>2, <3>1, SeqOf
  <2> QED
    BY <2>3 DEF q
<1>8. ps \in Seq(Seq(Records(s))) /\ Len(ps) = n
  BY <1>1, <1>5, <1>7, SeqOf
<1> QED
  BY <1>1, <1>5, <1>6, <1>7, <1>8 DEF ps, n

(* They are calls.                                                         *)
LEMMA RunCallsAre == ASSUME NEW s, WellFormed(s) PROVE RunCalls(s) \in Seq(Records(s))
<1>1. RunCalls(s) = Joined(RunPieces(s)) /\ RunPieces(s) \in Seq(Seq(Records(s)))
  BY RunPiecesAre
<1> QED
  BY <1>1, JoinedHas

(* The calls of a time step are calls.                                     *)
LEMMA StepCallsAre ==
  ASSUME NEW s, WellFormed(s)
  PROVE  /\ PerGroup(s, "timestep_initial") \in Seq(Records(s)) /\ RunCalls(s) \in Seq(Records(s))
         /\ PerGroup(s, "timestep_final") \in Seq(Records(s)) /\ StepCalls(s) \in Seq(Records(s))
<1>1. "timestep_initial" \in CallPhases /\ "timestep_final" \in CallPhases
  BY PhasesAre DEF CallPhases
<1>2. /\ PerGroup(s, "timestep_initial") \in Seq(Records(s)) /\ RunCalls(s) \in Seq(Records(s))
      /\ PerGroup(s, "timestep_final") \in Seq(Records(s))
  BY <1>1, PerGroupIs, RunCallsAre
<1> QED
  BY <1>2 DEF StepCalls

(***************************************************************************)
(* What a call of the host does to the references to a variable that is    *)
(* not the suite's: Base of them are the host's own, and where no lifetime *)
(* spans time steps, only they are left when the host is between two.      *)
(***************************************************************************)
Base(s) == IF s.owner = "managed" THEN 1 ELSE 0
NoOnce(s) == ~ \E lt \in {VarLifetime(s), ResidencyLifetime(s)} : lt.entry \in OneTimePhases
AtEnd(s, c) ==
  \/ c.phase \in {"register", "initialize_constituents", "initialize", "physics_initial",
                  "physics_final", "finalize"}
  \/ c.phase = "timestep_final" /\ c.group = Len(s.groups)
CallRunsOf(s, c, h, e) == Runs(s, c.phase, CallProgram(s, c.phase, c.group, Columns(s, c)), h, e)
CallMoves(s) ==
  {m \in Records(s) \X Counts \X Counts :
     /\ m[2] >= Base(s) /\ m[3] >= Base(s)
     /\ CallRunsOf(s, m[1], m[2], m[3])
     /\ HostMatched(s) /\ NoOnce(s) /\ AtEnd(s, m[1]) => m[3] = Base(s)}

(* The references of the host itself are none or one.                      *)
LEMMA BaseIs ==
  ASSUME NEW s
  PROVE  /\ Base(s) \in 0..1 /\ Base(s) \in Counts /\ Base(s) + 1 \in Counts /\ Base(s) \in Nat /\ Base(s) + 1 \in Nat
         /\ Base(s) >= Base(s) /\ Base(s) + 1 >= Base(s)
BY DEF Base, Counts

(* The columns of a call are columns of the array.                         *)
LEMMA ColumnsAre ==
  ASSUME NEW s, WellFormed(s), NEW c \in Records(s) PROVE Columns(s, c) \in SomeParts
BY DEF Columns, WellFormed, Records, SomeParts

(* A program that runs, whatever its columns, is a move.                   *)
LEMMA MoveOf ==
  ASSUME NEW s, WellFormed(s), NEW phase \in CallPhases, NEW g \in DOMAIN s.groups, NEW ch \in 0..s.chunks,
         NEW h \in Counts, NEW e \in Counts, h >= Base(s), e >= Base(s),
         \A cols \in SomeParts : Runs(s, phase, CallProgram(s, phase, g, cols), h, e),
         HostMatched(s) /\ NoOnce(s) /\ AtEnd(s, Call(phase, g, ch)) => e = Base(s)
  PROVE  <<Call(phase, g, ch), h, e>> \in CallMoves(s)
<1> DEFINE c == Call(phase, g, ch)
<1>1. c \in Records(s) /\ c.phase = phase /\ c.group = g
  BY CallIs
<1> HIDE DEF c
<1>2. Columns(s, c) \in SomeParts
  BY <1>1, ColumnsAre
<1>3. CallRunsOf(s, c, h, e)
  BY <1>1, <1>2 DEF CallRunsOf
<1>4. HostMatched(s) /\ NoOnce(s) /\ AtEnd(s, c) => e = Base(s)
  BY DEF c
<1> QED
  BY <1>1, <1>3, <1>4 DEF CallMoves, c

(* The moves of a call of a host variable, by its role.                    *)
LEMMA RoleMoves ==
  ASSUME NEW s, WellFormed(s), HostMatched(s), NEW phase \in CallPhases,
         NEW g \in GroupsOf(s, phase), NEW ch \in 0..s.chunks, NEW b, b = Base(s),
         NEW role, role = RoleOf(s, Holding(s), phase, g), NEW c, c = Call(phase, g, ch)
  PROVE  /\ role \in {"exclude", "legacy"} => <<c, b, b>> \in CallMoves(s)
         /\ role = "exit" => <<c, b + 1, b>> \in CallMoves(s)
         /\ ~NoOnce(s) \/ ~AtEnd(s, c) =>
              /\ role \in {"exclude", "passthrough"} => <<c, b + 1, b + 1>> \in CallMoves(s)
              /\ role = "enter" => <<c, b, b + 1>> \in CallMoves(s)
<1>1. g \in DOMAIN s.groups
  BY GroupsAre
<1>2. b \in 0..1 /\ b \in Counts /\ b + 1 \in Counts /\ b >= b /\ b + 1 >= b
  BY BaseIs
<1>3. \A cols \in SomeParts : RoleRuns(s, phase, role, CallProgram(s, phase, g, cols))
  BY CallRuns
<1>4. ASSUME role \in {"exclude", "legacy"} PROVE <<c, b, b>> \in CallMoves(s)
  <2>1. \A cols \in SomeParts : Runs(s, phase, CallProgram(s, phase, g, cols), b, b)
    BY <1>2, <1>3, <1>4 DEF RoleRuns
  <2> QED
    BY <1>1, <1>2, <2>1, MoveOf
<1>5. ASSUME role = "exit" PROVE <<c, b + 1, b>> \in CallMoves(s)
  <2>1. \A cols \in SomeParts : Runs(s, phase, CallProgram(s, phase, g, cols), b + 1, b)
    BY <1>2, <1>3, <1>5 DEF RoleRuns
  <2> QED
    BY <1>1, <1>2, <2>1, MoveOf
<1>6. ASSUME role \in {"exclude", "passthrough"}, ~NoOnce(s) \/ ~AtEnd(s, c)
      PROVE  <<c, b + 1, b + 1>> \in CallMoves(s)
  <2>1. \A cols \in SomeParts : Runs(s, phase, CallProgram(s, phase, g, cols), b + 1, b + 1)
    BY <1>2, <1>3, <1>6 DEF RoleRuns
  <2> QED
    BY <1>1, <1>2, <1>6, <2>1, MoveOf
<1>7. ASSUME role = "enter", ~NoOnce(s) \/ ~AtEnd(s, c) PROVE <<c, b, b + 1>> \in CallMoves(s)
  <2>1. \A cols \in SomeParts : Runs(s, phase, CallProgram(s, phase, g, cols), b, b + 1)
    BY <1>2, <1>3, <1>7 DEF RoleRuns
  <2> QED
    BY <1>1, <1>2, <1>7, <2>1, MoveOf
<1> QED
  BY <1>4, <1>5, <1>6, <1>7

(* Around the time steps.                                                  *)
LEMMA HostCallsAre ==
  ASSUME NEW s, WellFormed(s)
  PROVE  /\ PerGroup(s, "physics_initial") \in Seq(Records(s)) /\ PerGroup(s, "physics_final") \in Seq(Records(s))
         /\ [t \in 1..Timesteps |-> StepCalls(s)] \in Seq(Seq(Records(s)))
         /\ Joined([t \in 1..Timesteps |-> StepCalls(s)]) \in Seq(Records(s))
         /\ <<Call("register", 1, 0), Call("initialize_constituents", 1, 0), Call("initialize", 1, 0)>> \in Seq(Records(s))
         /\ <<Call("finalize", 1, 0)>> \in Seq(Records(s))
         /\ HostCalls(s) \in Seq(Records(s))
<1>1. /\ "physics_initial" \in CallPhases /\ "physics_final" \in CallPhases /\ "register" \in CallPhases
      /\ "initialize_constituents" \in CallPhases /\ "initialize" \in CallPhases /\ "finalize" \in CallPhases
  BY PhasesAre DEF CallPhases
<1>2. PerGroup(s, "physics_initial") \in Seq(Records(s)) /\ PerGroup(s, "physics_final") \in Seq(Records(s))
  BY <1>1, PerGroupIs
<1> DEFINE ps == [t \in 1..Timesteps |-> StepCalls(s)]
<1>3. ps \in Seq(Seq(Records(s)))
  <2>1. Timesteps \in Nat /\ StepCalls(s) \in Seq(Records(s))
    BY SuitesAssumption, StepCallsAre
  <2> QED
    BY <2>1
<1> HIDE DEF ps
<1>4. Joined(ps) \in Seq(Records(s))
  BY <1>3, JoinedHas
<1>5. 1 \in DOMAIN s.groups /\ 0 \in 0..s.chunks
  BY GroupsAre DEF WellFormed
<1>6. /\ Call("register", 1, 0) \in Records(s) /\ Call("initialize_constituents", 1, 0) \in Records(s)
      /\ Call("initialize", 1, 0) \in Records(s) /\ Call("finalize", 1, 0) \in Records(s)
  BY <1>1, <1>5, CallIs
<1>7. /\ <<Call("register", 1, 0), Call("initialize_constituents", 1, 0), Call("initialize", 1, 0)>> \in Seq(Records(s))
      /\ <<Call("finalize", 1, 0)>> \in Seq(Records(s))
  BY <1>6
<1>8. HostCalls(s) \in Seq(Records(s))
  <2>1. HostCalls(s) =
          <<Call("register", 1, 0), Call("initialize_constituents", 1, 0), Call("initialize", 1, 0)>>
          \o PerGroup(s, "physics_initial") \o Joined(ps) \o PerGroup(s, "physics_final") \o <<Call("finalize", 1, 0)>>
    BY DEF HostCalls, ps
  <2> QED
    BY <1>2, <1>4, <1>7, <2>1
<1> QED
  BY <1>2, <1>3, <1>4, <1>7, <1>8 DEF ps

(* A path of a time step is part of one of the whole simulation.           *)
LEMMA OuterPath ==
  ASSUME NEW s, WellFormed(s), NEW T, NEW b \in Nat, NEW x \in Nat, NEW y \in Nat, NEW z \in Nat,
         <<Call("register", 1, 0), b, x>> \in T, <<Call("initialize_constituents", 1, 0), x, y>> \in T,
         <<Call("initialize", 1, 0), y, z>> \in T, Path(T, PerGroup(s, "physics_initial"), z, z),
         Path(T, StepCalls(s), z, z), Path(T, PerGroup(s, "physics_final"), z, z),
         <<Call("finalize", 1, 0), z, b>> \in T
  PROVE  Path(T, HostCalls(s), b, b)
<1> DEFINE c1 == Call("register", 1, 0)
           c2 == Call("initialize_constituents", 1, 0)
           c3 == Call("initialize", 1, 0)
           c4 == Call("finalize", 1, 0)
           pi == PerGroup(s, "physics_initial")
           pf == PerGroup(s, "physics_final")
           ps == [t \in 1..Timesteps |-> StepCalls(s)]
           R == Records(s)
<1>1. /\ pi \in Seq(R) /\ pf \in Seq(R) /\ ps \in Seq(Seq(R)) /\ Joined(ps) \in Seq(R)
      /\ <<c1, c2, c3>> \in Seq(R) /\ <<c4>> \in Seq(R)
  BY HostCallsAre
<1>2. Timesteps \in Nat
  BY SuitesAssumption
<1>3. Path(T, <<c1, c2, c3>>, b, z)
  <2> HIDE DEF c1, c2, c3
  <2> DEFINE q == <<c1, c2, c3>>
             H == [j \in 0..3 |-> CASE j = 0 -> b [] j = 1 -> x [] j = 2 -> y [] OTHER -> z]
  <2>1. H[0] = b /\ H[1] = x /\ H[2] = y /\ H[3] = z
    OBVIOUS
  <2>2. q[1] = c1 /\ q[2] = c2 /\ q[3] = c3 /\ q = [i \in 1..3 |-> q[i]]
    OBVIOUS
  <2>3. H \in [0..3 -> Nat]
    OBVIOUS
  <2> HIDE DEF H, q
  <2>4. \A i \in 1..3 : <<q[i], H[i - 1], H[i]>> \in T
    <3>1. <<q[1], H[0], H[1]>> \in T /\ <<q[2], H[1], H[2]>> \in T /\ <<q[3], H[2], H[3]>> \in T
      BY <2>1, <2>2 DEF c1, c2, c3
    <3>2. \A i \in 1..3 : i \in {1, 2, 3}
      OBVIOUS
    <3>3. 1 - 1 = 0 /\ 2 - 1 = 1 /\ 3 - 1 = 2
      OBVIOUS
    <3> QED
      BY <3>1, <3>2, <3>3
  <2>5. Path(T, q, H[0], H[3])
    BY <2>2, <2>3, <2>4, PathAlong
  <2> QED
    BY <2>1, <2>5 DEF q
<1>4. Path(T, Joined(ps), z, z)
  <2>1. Len(ps) = Timesteps /\ \A t \in 1..Timesteps : ps[t] = StepCalls(s)
    BY <1>2
  <2>2. \A t \in 1..Len(ps) : Path(T, ps[t], z, z)
    BY <2>1
  <2> HIDE DEF ps
  <2> QED
    BY <1>1, <2>2, PathJoined
<1>5. Path(T, <<c4>>, z, b)
  BY PathOne
<1>6. HostCalls(s) = <<c1, c2, c3>> \o pi \o Joined(ps) \o pf \o <<c4>>
  BY DEF HostCalls
<1>9. Path(T, pi, z, z) /\ Path(T, pf, z, z)
  OBVIOUS
<1> HIDE DEF c1, c2, c3, c4, pi, pf, ps, R
<1> DEFINE q1 == <<c1, c2, c3>>
<1> HIDE DEF q1
<1>7. q1 \in Seq(R) /\ Path(T, q1, b, z)
  BY <1>1, <1>3 DEF q1
<1> DEFINE q2 == q1 \o pi
           q3 == q2 \o Joined(ps)
           q4 == q3 \o pf
<1>8. q2 \in Seq(R) /\ Path(T, q2, b, z)
  BY <1>1, <1>7, <1>9, PathCat
<1> HIDE DEF q2
<1>10. q3 \in Seq(R) /\ Path(T, q3, b, z)
  BY <1>1, <1>4, <1>8, PathCat
<1> HIDE DEF q3
<1>11. q4 \in Seq(R) /\ Path(T, q4, b, z)
  BY <1>1, <1>9, <1>10, PathCat
<1> HIDE DEF q4
<1>12. Path(T, q4 \o <<c4>>, b, b)
  BY <1>1, <1>5, <1>11, PathCat
<1> QED
  BY <1>6, <1>12 DEF q4, q3, q2, q1

(* The calls of a phase of a time step.                                    *)
Segment(s, phase) == IF phase = "run" THEN RunCalls(s) ELSE PerGroup(s, phase)

(* The calls of a phase, each at a level of its own.                       *)
LEMMA SegmentAlong ==
  ASSUME NEW s, WellFormed(s), NEW T, NEW phase \in CallPhases, phase # "run" \/ s.chunks = 1,
         NEW n, n = Len(s.groups), NEW H \in [0..n -> Nat],
         \A g \in 1..n : \A ch \in 0..s.chunks : <<Call(phase, g, ch), H[g - 1], H[g]>> \in T
  PROVE  Path(T, Segment(s, phase), H[0], H[n])
<1>1. n \in Nat /\ 0 \in 0..s.chunks /\ s.chunks \in Nat
  BY GroupsAre DEF WellFormed
<1>2. CASE phase # "run"
  <2> DEFINE q == PerGroup(s, phase)
  <2>1. q = [g \in 1..n |-> q[g]] /\ \A g \in 1..n : q[g] = Call(phase, g, 0)
    BY PerGroupIs
  <2> HIDE DEF q
  <2>2. \A g \in 1..n : <<q[g], H[g - 1], H[g]>> \in T
    BY <1>1, <2>1
  <2>3. Path(T, q, H[0], H[n])
    BY <1>1, <2>1, <2>2, PathAlong
  <2> QED
    BY <1>2, <2>3 DEF q, Segment
<1>3. CASE phase = "run"
  <2> DEFINE ps == RunPieces(s)
  <2>1. /\ ps \in Seq(Seq(Records(s))) /\ Len(ps) = n /\ RunCalls(s) = Joined(ps)
        /\ \A g \in 1..n : /\ ps[g] = [c \in 1..s.chunks |-> ps[g][c]]
                           /\ \A c \in 1..s.chunks : ps[g][c] = Call("run", g, c)
    BY RunPiecesAre
  <2> HIDE DEF ps
  <2>2. \A g \in 1..n : Path(T, ps[g], H[g - 1], H[g])
    <3> SUFFICES ASSUME NEW g \in 1..n PROVE Path(T, ps[g], H[g - 1], H[g])
      OBVIOUS
    <3> DEFINE q == ps[g]
               i == Call("run", g, 1)
    <3>1. q = [c \in 1..1 |-> q[c]] /\ q[1] = i
      <4>1. s.chunks = 1
        BY <1>3
      <4>2. q = [c \in 1..s.chunks |-> q[c]] /\ \A c \in 1..s.chunks : q[c] = Call("run", g, c)
        BY <2>1
      <4> HIDE DEF q
      <4>3. q = [c \in 1..1 |-> q[c]] /\ \A c \in 1..1 : q[c] = Call("run", g, c)
        BY <4>1, <4>2
      <4> QED
        BY <4>3
    <3>2. <<i, H[g - 1], H[g]>> \in T
      <4>1. 1 \in 0..s.chunks
        BY <1>3
      <4> QED
        BY <1>3, <4>1
    <3>3. H[g - 1] \in Nat /\ H[g] \in Nat
      BY <1>1
    <3>4. Path(T, <<i>>, H[g - 1], H[g])
      <4> HIDE DEF i
      <4> QED
        BY <3>2, <3>3, PathOne
    <3> HIDE DEF q, i
    <3>5. q = <<i>>
      BY <3>1
    <3> QED
      BY <3>4, <3>5 DEF q
  <2>3. Path(T, Joined(ps), H[0], H[n])
    BY <2>1, <2>2, PathJoinedAlong
  <2> QED
    BY <1>3, <2>1, <2>3 DEF Segment
<1> QED
  BY <1>2, <1>3

(* The calls of a phase, all at one level.                                 *)
LEMMA SegmentFlat ==
  ASSUME NEW s, WellFormed(s), NEW T, NEW phase \in CallPhases, NEW h \in Nat,
         \A g \in DOMAIN s.groups : \A ch \in 0..s.chunks : <<Call(phase, g, ch), h, h>> \in T
  PROVE  Path(T, Segment(s, phase), h, h)
<1> DEFINE n == Len(s.groups)
<1>1. n \in Nat /\ 0 \in 0..s.chunks /\ s.chunks \in Nat /\ DOMAIN s.groups = 1..n
  BY GroupsAre DEF WellFormed
<1>2. CASE phase # "run"
  <2> DEFINE q == PerGroup(s, phase)
  <2>1. q = [g \in 1..n |-> q[g]] /\ \A g \in 1..n : q[g] = Call(phase, g, 0)
    BY PerGroupIs
  <2> HIDE DEF q, n
  <2>2. \A g \in 1..n : <<q[g], h, h>> \in T
    BY <1>1, <2>1
  <2>3. Path(T, q, h, h)
    BY <1>1, <2>1, <2>2, PathFlat
  <2> QED
    BY <1>2, <2>3 DEF q, Segment
<1>3. CASE phase = "run"
  <2> DEFINE ps == RunPieces(s)
  <2>1. /\ ps \in Seq(Seq(Records(s))) /\ Len(ps) = n /\ RunCalls(s) = Joined(ps)
        /\ \A g \in 1..n : /\ ps[g] = [c \in 1..s.chunks |-> ps[g][c]]
                           /\ \A c \in 1..s.chunks : ps[g][c] = Call("run", g, c)
    BY RunPiecesAre
  <2> HIDE DEF ps, n
  <2>2. \A g \in 1..n : Path(T, ps[g], h, h)
    <3> SUFFICES ASSUME NEW g \in 1..n PROVE Path(T, ps[g], h, h)
      OBVIOUS
    <3> DEFINE q == ps[g]
    <3>1. q = [c \in 1..s.chunks |-> q[c]] /\ \A c \in 1..s.chunks : q[c] = Call("run", g, c)
      BY <2>1
    <3> HIDE DEF q
    <3>2. \A c \in 1..s.chunks : <<q[c], h, h>> \in T
      <4>1. \A c \in 1..s.chunks : c \in 0..s.chunks
        BY <1>1
      <4> QED
        BY <1>1, <1>3, <3>1, <4>1
    <3>3. Path(T, q, h, h)
      BY <1>1, <3>1, <3>2, PathFlat
    <3> QED
      BY <3>3 DEF q
  <2>3. Path(T, Joined(ps), h, h)
    BY <2>1, <2>2, PathJoined
  <2> QED
    BY <1>3, <2>1, <2>3 DEF Segment
<1> QED
  BY <1>2, <1>3

(* A path of a time step, from those of its phases.                        *)
LEMMA StepPath ==
  ASSUME NEW s, WellFormed(s), NEW T, NEW h \in Nat, NEW x \in Nat, NEW y \in Nat, NEW e \in Nat,
         Path(T, Segment(s, "timestep_initial"), h, x), Path(T, Segment(s, "run"), x, y),
         Path(T, Segment(s, "timestep_final"), y, e)
  PROVE  Path(T, StepCalls(s), h, e)
<1> DEFINE ti == Segment(s, "timestep_initial")
           ru == Segment(s, "run")
           tf == Segment(s, "timestep_final")
<1>1. ti \in Seq(Records(s)) /\ ru \in Seq(Records(s)) /\ tf \in Seq(Records(s))
  BY StepCallsAre DEF Segment
<1>2. StepCalls(s) = (ti \o ru) \o tf
  BY DEF StepCalls, Segment
<1>3. Path(T, ti, h, x) /\ Path(T, ru, x, y) /\ Path(T, tf, y, e)
  OBVIOUS
<1> HIDE DEF ti, ru, tf
<1>4. ti \o ru \in Seq(Records(s)) /\ Path(T, ti \o ru, h, y)
  BY <1>1, <1>3, PathCat
<1> QED
  BY <1>1, <1>2, <1>3, <1>4, PathCat

(* All the calls from the initial physics to the final at one level.       *)
LEMMA MiddlePaths ==
  ASSUME NEW s, WellFormed(s), NEW T, NEW z \in Nat,
         \A phase \in Middle : \A g \in DOMAIN s.groups : \A ch \in 0..s.chunks :
           <<Call(phase, g, ch), z, z>> \in T
  PROVE  /\ Path(T, PerGroup(s, "physics_initial"), z, z) /\ Path(T, PerGroup(s, "physics_final"), z, z)
         /\ Path(T, StepCalls(s), z, z)
<1>1. \A phase \in Middle : phase \in CallPhases
  BY PhasesAre DEF Middle, CallPhases
<1>2. \A phase \in Middle : Path(T, Segment(s, phase), z, z)
  BY <1>1, SegmentFlat
<1>3. /\ Path(T, Segment(s, "physics_initial"), z, z) /\ Path(T, Segment(s, "physics_final"), z, z)
      /\ Path(T, Segment(s, "timestep_initial"), z, z) /\ Path(T, Segment(s, "run"), z, z)
      /\ Path(T, Segment(s, "timestep_final"), z, z)
  BY <1>2 DEF Middle
<1>4. Path(T, PerGroup(s, "physics_initial"), z, z) /\ Path(T, PerGroup(s, "physics_final"), z, z)
  BY <1>3 DEF Segment
<1> QED
  BY <1>3, <1>4, StepPath

(* The constituents.                                                       *)
LEMMA ConstituentPath ==
  ASSUME NEW s, WellFormed(s), Constituents(s)
  PROVE  Path(CallMoves(s), HostCalls(s), Base(s), Base(s))
<1> DEFINE z == IF ConstituentsResident(s) THEN 1 ELSE 0
           T == CallMoves(s)
<1>1. Base(s) = 0 /\ ~HostMatched(s) /\ z \in Counts /\ z \in Nat /\ z >= 0 /\ 0 \in Counts /\ 0 >= 0
  BY DEF Base, Constituents, HostMatched, Counts
<1>2. 1 \in DOMAIN s.groups /\ 0 \in 0..s.chunks
  BY GroupsAre DEF WellFormed
<1>3. ASSUME NEW phase \in CallPhases, NEW g \in GroupsOf(s, phase), NEW cols \in SomeParts
      PROVE  LET P == CallProgram(s, phase, g, cols) IN
             /\ phase = "register" => Runs(s, phase, P, 0, 0)
             /\ phase = "initialize_constituents" => Runs(s, phase, P, 0, z)
             /\ phase = "finalize" => Runs(s, phase, P, z, 0)
             /\ phase \notin {"register", "initialize_constituents", "finalize"} => Runs(s, phase, P, z, z)
  BY ConstituentRuns
<1> HIDE DEF z
<1>4. /\ "register" \in CallPhases /\ "initialize_constituents" \in CallPhases
      /\ "initialize" \in CallPhases /\ "finalize" \in CallPhases
  BY PhasesAre DEF CallPhases
<1>5. \A phase \in {"register", "initialize_constituents", "initialize", "finalize"} : 1 \in GroupsOf(s, phase)
  BY DEF GroupsOf, OneLevelPhases
<1>6. <<Call("register", 1, 0), 0, 0>> \in T
  <2>1. \A cols \in SomeParts : Runs(s, "register", CallProgram(s, "register", 1, cols), 0, 0)
    BY <1>3, <1>4, <1>5
  <2> QED
    BY <1>1, <1>2, <1>4, <2>1, MoveOf
<1>7. <<Call("initialize_constituents", 1, 0), 0, z>> \in T
  <2>1. \A cols \in SomeParts :
          Runs(s, "initialize_constituents", CallProgram(s, "initialize_constituents", 1, cols), 0, z)
    BY <1>3, <1>4, <1>5
  <2> QED
    BY <1>1, <1>2, <1>4, <2>1, MoveOf
<1>8. <<Call("initialize", 1, 0), z, z>> \in T
  <2>1. \A cols \in SomeParts : Runs(s, "initialize", CallProgram(s, "initialize", 1, cols), z, z)
    BY <1>3, <1>4, <1>5
  <2> QED
    BY <1>1, <1>2, <1>4, <2>1, MoveOf
<1>9. <<Call("finalize", 1, 0), z, 0>> \in T
  <2>1. \A cols \in SomeParts : Runs(s, "finalize", CallProgram(s, "finalize", 1, cols), z, 0)
    BY <1>3, <1>4, <1>5
  <2> QED
    BY <1>1, <1>2, <1>4, <2>1, MoveOf
<1>10. ASSUME NEW phase \in Middle, NEW g \in DOMAIN s.groups, NEW ch \in 0..s.chunks
       PROVE  <<Call(phase, g, ch), z, z>> \in T
  <2>1. phase \in CallPhases /\ phase \notin OneLevelPhases
        /\ phase \notin {"register", "initialize_constituents", "finalize"}
    BY PhasesAre DEF Middle, CallPhases, OneLevelPhases
  <2>2. g \in GroupsOf(s, phase)
    BY <2>1 DEF GroupsOf
  <2>3. \A cols \in SomeParts : Runs(s, phase, CallProgram(s, phase, g, cols), z, z)
    BY <1>3, <2>1, <2>2
  <2> QED
    BY <1>1, <2>1, <2>3, MoveOf
<1> HIDE DEF T
<1>11. /\ Path(T, PerGroup(s, "physics_initial"), z, z) /\ Path(T, PerGroup(s, "physics_final"), z, z)
       /\ Path(T, StepCalls(s), z, z)
  BY <1>1, <1>10, MiddlePaths
<1>12. Path(T, HostCalls(s), 0, 0)
  BY <1>1, <1>6, <1>7, <1>8, <1>9, <1>11, OuterPath
<1> QED
  BY <1>1, <1>12 DEF T

(***************************************************************************)
(* The variables of the host.                                              *)
(***************************************************************************)
PairedOf(s) == s.chunks = 1 \/ \A lt \in {VarLifetime(s), ResidencyLifetime(s)} :
                                 ~lt.hoisted \/ "run" \notin {lt.entry, lt.exit}

(* A lifetime that ends with each call.                                    *)
LEMMA LegacyPath ==
  ASSUME NEW s, WellFormed(s), HostMatched(s),
         Holding(s).kind = "none" \/ (Holding(s).hoisted \in BOOLEAN /\ ~Holding(s).hoisted)
  PROVE  Path(CallMoves(s), HostCalls(s), Base(s), Base(s))
<1> DEFINE lt == Holding(s)
           b == Base(s)
           T == CallMoves(s)
<1>1. b \in Nat
  BY BaseIs
<1>2. ASSUME NEW phase \in CallPhases, NEW g \in GroupsOf(s, phase), NEW ch \in 0..s.chunks
      PROVE  <<Call(phase, g, ch), b, b>> \in T
  <2>1. RoleOf(s, lt, phase, g) \in {"exclude", "legacy"}
    <3>1. CASE lt.kind = "none"
      BY <3>1 DEF RoleOf
    <3>2. CASE lt.kind # "none"
      <4> HIDE DEF lt
      <4>1. lt.hoisted \in BOOLEAN /\ ~lt.hoisted
        BY <3>2 DEF lt
      <4> QED
        BY <3>2, <4>1, RoleBasics
    <3> QED
      BY <3>1, <3>2
  <2> QED
    BY <2>1, RoleMoves
<1>3. 1 \in DOMAIN s.groups /\ 0 \in 0..s.chunks
  BY GroupsAre DEF WellFormed
<1>4. /\ "register" \in CallPhases /\ "initialize_constituents" \in CallPhases
      /\ "initialize" \in CallPhases /\ "finalize" \in CallPhases
  BY PhasesAre DEF CallPhases
<1>5. \A phase \in {"register", "initialize_constituents", "initialize", "finalize"} : 1 \in GroupsOf(s, phase)
  BY DEF GroupsOf, OneLevelPhases
<1> HIDE DEF b, T
<1>6. /\ <<Call("register", 1, 0), b, b>> \in T /\ <<Call("initialize_constituents", 1, 0), b, b>> \in T
      /\ <<Call("initialize", 1, 0), b, b>> \in T /\ <<Call("finalize", 1, 0), b, b>> \in T
  BY <1>2, <1>3, <1>4, <1>5
<1>7. ASSUME NEW phase \in Middle, NEW g \in DOMAIN s.groups, NEW ch \in 0..s.chunks
      PROVE  <<Call(phase, g, ch), b, b>> \in T
  <2>1. phase \in CallPhases /\ phase \notin OneLevelPhases
    BY PhasesAre DEF Middle, CallPhases, OneLevelPhases
  <2>2. g \in GroupsOf(s, phase)
    BY <2>1 DEF GroupsOf
  <2> QED
    BY <1>2, <2>1, <2>2
<1>8. /\ Path(T, PerGroup(s, "physics_initial"), b, b) /\ Path(T, PerGroup(s, "physics_final"), b, b)
      /\ Path(T, StepCalls(s), b, b)
  BY <1>1, <1>7, MiddlePaths
<1>9. Path(T, HostCalls(s), b, b)
  BY <1>1, <1>6, <1>8, OuterPath
<1> QED
  BY <1>9 DEF b, T

(* A lifetime of the whole simulation.                                     *)
LEMMA OncePath ==
  ASSUME NEW s, WellFormed(s), HostMatched(s), Holding(s).kind # "none", OneTime(Holding(s))
  PROVE  Path(CallMoves(s), HostCalls(s), Base(s), Base(s))
<1> DEFINE lt == Holding(s)
           b == Base(s)
           T == CallMoves(s)
<1>1. b \in Nat /\ b + 1 \in Nat
  BY BaseIs
<1>2. ~NoOnce(s)
  <2>1. lt.entry \in OneTimePhases
    BY DEF OneTime, OneTimePhases
  <2>2. lt = VarLifetime(s) \/ lt = ResidencyLifetime(s)
    BY DEF Holding
  <2> HIDE DEF lt
  <2> QED
    BY <2>1, <2>2 DEF NoOnce
<1>3. 1 \in DOMAIN s.groups /\ 0 \in 0..s.chunks
  BY GroupsAre DEF WellFormed
<1>4. /\ "register" \in CallPhases /\ "initialize_constituents" \in CallPhases
      /\ "initialize" \in CallPhases /\ "finalize" \in CallPhases
  BY PhasesAre DEF CallPhases
<1>5. \A phase \in {"register", "initialize_constituents", "initialize", "finalize"} : 1 \in GroupsOf(s, phase)
  BY DEF GroupsOf, OneLevelPhases
<1>7. lt.kind # "none" /\ OneTime(lt) /\ lt.hoisted = TRUE /\ lt.exit = "finalize"
      /\ lt.entry \in {"register", "initialize"}
  <2>1. lt.hoisted \in BOOLEAN
    BY HoldingIs
  <2> QED
    BY <2>1 DEF OneTime
<1>8. RoleOf(s, lt, lt.entry, 1) = "enter" /\ RoleOf(s, lt, "finalize", 1) = "exit"
  BY <1>7, RoleAtOnce
<1>9. ASSUME NEW phase \in CallPhases, NEW g \in GroupsOf(s, phase), NEW ch \in 0..s.chunks,
             NEW role, role = RoleOf(s, lt, phase, g)
      PROVE  /\ role \in {"exclude", "legacy"} => <<Call(phase, g, ch), b, b>> \in T
             /\ role = "exit" => <<Call(phase, g, ch), b + 1, b>> \in T
             /\ role \in {"exclude", "passthrough"} => <<Call(phase, g, ch), b + 1, b + 1>> \in T
             /\ role = "enter" => <<Call(phase, g, ch), b, b + 1>> \in T
  BY <1>2, <1>9, RoleMoves
<1> HIDE DEF lt, T, b
<1>10. ASSUME NEW phase \in CallPhases, NEW g \in GroupsOf(s, phase), phase # lt.entry, phase # lt.exit
       PROVE  \/ RoleOf(s, lt, phase, g) = "exclude"
              \/ /\ phase \in Phases
                 /\ RoleOf(s, lt, phase, g) =
                      IF PhaseRank[lt.entry] < PhaseRank[phase] /\ PhaseRank[phase] < PhaseRank[lt.exit]
                      THEN "passthrough" ELSE "legacy"
  BY <1>7, <1>10, RoleElsewhere
<1>11. <<Call("finalize", 1, 0), b + 1, b>> \in T
  BY <1>3, <1>4, <1>5, <1>8, <1>9
<1>12. RoleOf(s, lt, "initialize_constituents", 1) = "exclude"
  BY <1>4, <1>5, <1>7, <1>10, PhasesAre
<1>13. ASSUME NEW phase \in Middle, NEW g \in DOMAIN s.groups, NEW ch \in 0..s.chunks
       PROVE  <<Call(phase, g, ch), b + 1, b + 1>> \in T
  <2>1. phase \in CallPhases /\ phase \notin OneLevelPhases /\ phase # lt.entry /\ phase # lt.exit
    BY <1>7, PhasesAre DEF Middle, CallPhases, OneLevelPhases
  <2>2. g \in GroupsOf(s, phase)
    BY <2>1 DEF GroupsOf
  <2>3. PhaseRank[lt.entry] < PhaseRank[phase] /\ PhaseRank[phase] < PhaseRank[lt.exit]
    BY <1>7, Ranks DEF Middle
  <2>4. RoleOf(s, lt, phase, g) \in {"exclude", "passthrough"}
    BY <1>10, <2>1, <2>2, <2>3
  <2> QED
    BY <1>9, <2>1, <2>2, <2>4
<1>14. /\ Path(T, PerGroup(s, "physics_initial"), b + 1, b + 1) /\ Path(T, PerGroup(s, "physics_final"), b + 1, b + 1)
       /\ Path(T, StepCalls(s), b + 1, b + 1)
  BY <1>1, <1>13, MiddlePaths
<1>15. CASE lt.entry = "register"
  <2>1. <<Call("register", 1, 0), b, b + 1>> \in T
    BY <1>3, <1>4, <1>5, <1>8, <1>9, <1>15
  <2>2. <<Call("initialize_constituents", 1, 0), b + 1, b + 1>> \in T
    BY <1>3, <1>4, <1>5, <1>9, <1>12
  <2>3. RoleOf(s, lt, "initialize", 1) \in {"exclude", "passthrough"}
    <3>1. PhaseRank[lt.entry] < PhaseRank["initialize"] /\ PhaseRank["initialize"] < PhaseRank[lt.exit]
      BY <1>7, <1>15, Ranks
    <3> QED
      BY <1>4, <1>5, <1>7, <1>10, <1>15, <3>1
  <2>4. <<Call("initialize", 1, 0), b + 1, b + 1>> \in T
    BY <1>3, <1>4, <1>5, <1>9, <2>3
  <2>5. Path(T, HostCalls(s), b, b)
    BY <1>1, <1>11, <1>14, <2>1, <2>2, <2>4, OuterPath
  <2> QED
    BY <2>5 DEF b, T
<1>16. CASE lt.entry = "initialize"
  <2>1. <<Call("initialize", 1, 0), b, b + 1>> \in T
    BY <1>3, <1>4, <1>5, <1>8, <1>9, <1>16
  <2>2. <<Call("initialize_constituents", 1, 0), b, b>> \in T
    BY <1>3, <1>4, <1>5, <1>9, <1>12
  <2>3. RoleOf(s, lt, "register", 1) \in {"exclude", "legacy"}
    <3>1. ~(PhaseRank[lt.entry] < PhaseRank["register"])
      BY <1>16, Ranks
    <3> QED
      BY <1>4, <1>5, <1>7, <1>10, <1>16, <3>1
  <2>4. <<Call("register", 1, 0), b, b>> \in T
    BY <1>3, <1>4, <1>5, <1>9, <2>3
  <2>5. Path(T, HostCalls(s), b, b)
    BY <1>1, <1>11, <1>14, <2>1, <2>2, <2>4, OuterPath
  <2> QED
    BY <2>5 DEF b, T
<1> QED
  BY <1>7, <1>15, <1>16

(* A lifetime within each time step.                                       *)
LEMMA StepwisePath ==
  ASSUME NEW s, WellFormed(s), HostMatched(s), Holding(s).kind # "none", StepWise(Holding(s)), PairedOf(s)
  PROVE  Path(CallMoves(s), HostCalls(s), Base(s), Base(s))
<1> DEFINE lt == Holding(s)
           b == Base(s)
           T == CallMoves(s)
           n == Len(s.groups)
<1>1. b \in Nat /\ b + 1 \in Nat
  BY BaseIs
<1>2. n \in Nat /\ n > 0 /\ DOMAIN s.groups = 1..n /\ 1 \in DOMAIN s.groups /\ 0 \in 0..s.chunks
  BY GroupsAre DEF WellFormed
<1>3. /\ lt.kind # "none" /\ StepWise(lt) /\ lt.hoisted = TRUE
      /\ lt.entry \in PhasesUsed(s) /\ lt.exit \in PhasesUsed(s)
  BY HoldingIs DEF StepWise
<1>4. "run" \in {lt.entry, lt.exit} => s.chunks = 1
  <2>1. lt = VarLifetime(s) \/ lt = ResidencyLifetime(s)
    BY DEF Holding
  <2> HIDE DEF lt
  <2> QED
    BY <1>3, <2>1 DEF PairedOf
<1>5. \A phase \in PerTimestepPhases :
        /\ phase \in CallPhases /\ TableOf(phase) = phase /\ PhaseRank[phase] \in 4..6
        /\ GroupsOf(s, phase) = DOMAIN s.groups
  BY PhasesAre, Ranks DEF PerTimestepPhases, CallPhases, TableOf, GroupsOf, OneLevelPhases
<1>6. ASSUME NEW phase \in CallPhases, NEW g \in GroupsOf(s, phase), NEW ch \in 0..s.chunks,
             NEW role, role = RoleOf(s, lt, phase, g), NEW c, c = Call(phase, g, ch)
      PROVE  /\ role \in {"exclude", "legacy"} => <<c, b, b>> \in T
             /\ role = "exit" => <<c, b + 1, b>> \in T
             /\ ~AtEnd(s, c) /\ role \in {"exclude", "passthrough"} => <<c, b + 1, b + 1>> \in T
             /\ ~AtEnd(s, c) /\ role = "enter" => <<c, b, b + 1>> \in T
  BY <1>6, RoleMoves
<1>7. ASSUME NEW phase \in PhasesUsed(s), phase \in PerTimestepPhases PROVE Touching(s, phase) # {}
  <2>1. PICK e \in Used(s) : e[2] = phase
    BY DEF PhasesUsed
  <2> QED
    BY <1>5, <1>7, <2>1, UsedTouches
<1> HIDE DEF lt, b, T, n
<1>8. /\ lt.entry \in PerTimestepPhases /\ lt.exit \in PerTimestepPhases
      /\ PhaseRank[lt.entry] < PhaseRank[lt.exit] /\ lt.entry # "timestep_final"
  BY <1>3, Ranks DEF StepWise, PerTimestepPhases
<1>9. PICK m \in DOMAIN s.groups : \A g \in DOMAIN s.groups :
        RoleOf(s, lt, lt.entry, g) \in
          CASE g < m -> {"exclude"} [] g = m -> {"enter"} [] OTHER -> {"exclude", "passthrough"}
  BY <1>3, <1>7, <1>8, RoleAtEntry
<1>10. PICK k \in DOMAIN s.groups : \A g \in DOMAIN s.groups :
         RoleOf(s, lt, lt.exit, g) \in
           CASE g < k -> {"exclude", "passthrough"} [] g = k -> {"exit"} [] OTHER -> {"exclude"}
  BY <1>3, <1>7, <1>8, RoleAtExit
<1>11. Path(T, Segment(s, lt.entry), b, b + 1)
  <2> DEFINE H == [g \in 0..n |-> IF g < m THEN b ELSE b + 1]
  <2>1. H \in [0..n -> Nat]
    BY <1>1
  <2>2. H[0] = b /\ H[n] = b + 1
    <3>1. 0 \in 0..n /\ n \in 0..n /\ 0 < m /\ ~(n < m)
      BY <1>2
    <3> QED
      BY <3>1
  <2>3. ASSUME NEW g \in 1..n, NEW ch \in 0..s.chunks
        PROVE  <<Call(lt.entry, g, ch), H[g - 1], H[g]>> \in T
    <3> DEFINE c == Call(lt.entry, g, ch)
    <3>1. /\ g - 1 \in 0..n /\ g \in 0..n /\ g \in Nat /\ m \in Nat
          /\ (g < m => g - 1 < m) /\ (g = m => g - 1 < m /\ ~(g < m))
          /\ (g > m => ~(g - 1 < m) /\ ~(g < m) /\ g # m)
      BY <1>2
    <3>2. ~AtEnd(s, c)
      BY <1>8 DEF AtEnd, Call, PerTimestepPhases
    <3>3. lt.entry \in CallPhases /\ g \in GroupsOf(s, lt.entry) /\ g \in DOMAIN s.groups
      BY <1>2, <1>5, <1>8
    <3>4. CASE g < m
      <4>1. RoleOf(s, lt, lt.entry, g) = "exclude"
        BY <1>9, <3>3, <3>4
      <4>2. <<c, b, b>> \in T
        BY <1>6, <3>3, <4>1
      <4>3. H[g - 1] = b /\ H[g] = b
        BY <3>1, <3>4
      <4> QED
        BY <4>2, <4>3
    <3>5. CASE g = m
      <4>1. RoleOf(s, lt, lt.entry, g) = "enter"
        BY <1>9, <3>1, <3>3, <3>5
      <4>2. <<c, b, b + 1>> \in T
        BY <1>6, <3>2, <3>3, <4>1
      <4>3. H[g - 1] = b /\ H[g] = b + 1
        BY <3>1, <3>5
      <4> QED
        BY <4>2, <4>3
    <3>6. CASE g > m
      <4>1. RoleOf(s, lt, lt.entry, g) \in {"exclude", "passthrough"}
        BY <1>9, <3>1, <3>3, <3>6
      <4>2. <<c, b + 1, b + 1>> \in T
        BY <1>6, <3>2, <3>3, <4>1
      <4>3. H[g - 1] = b + 1 /\ H[g] = b + 1
        BY <3>1, <3>6
      <4> QED
        BY <4>2, <4>3
    <3> QED
      BY <3>1, <3>4, <3>5, <3>6
  <2> HIDE DEF H
  <2>4. lt.entry \in CallPhases /\ (lt.entry # "run" \/ s.chunks = 1)
    BY <1>4, <1>5, <1>8
  <2>5. Path(T, Segment(s, lt.entry), H[0], H[n])
    BY <2>1, <2>3, <2>4, SegmentAlong DEF n
  <2> QED
    BY <2>2, <2>5
<1>12. Path(T, Segment(s, lt.exit), b + 1, b)
  <2> DEFINE H == [g \in 0..n |-> IF g < k THEN b + 1 ELSE b]
  <2>1. H \in [0..n -> Nat]
    BY <1>1
  <2>2. H[0] = b + 1 /\ H[n] = b
    <3>1. 0 \in 0..n /\ n \in 0..n /\ 0 < k /\ ~(n < k)
      BY <1>2
    <3> QED
      BY <3>1
  <2>3. ASSUME NEW g \in 1..n, NEW ch \in 0..s.chunks
        PROVE  <<Call(lt.exit, g, ch), H[g - 1], H[g]>> \in T
    <3> DEFINE c == Call(lt.exit, g, ch)
    <3>1. /\ g - 1 \in 0..n /\ g \in 0..n /\ g \in Nat /\ k \in Nat
          /\ (g < k => g - 1 < k) /\ (g = k => g - 1 < k /\ ~(g < k))
          /\ (g > k => ~(g - 1 < k) /\ ~(g < k) /\ g # k)
      BY <1>2
    <3>3. lt.exit \in CallPhases /\ g \in GroupsOf(s, lt.exit) /\ g \in DOMAIN s.groups
      BY <1>2, <1>5, <1>8
    <3>4. CASE g < k
      <4>1. RoleOf(s, lt, lt.exit, g) \in {"exclude", "passthrough"}
        BY <1>10, <3>3, <3>4
      <4>4. ~AtEnd(s, c)
        <5>1. g # n
          BY <1>2, <3>4
        <5> QED
          BY <1>8, <5>1 DEF AtEnd, Call, PerTimestepPhases, n
      <4>2. <<c, b + 1, b + 1>> \in T
        BY <1>6, <3>3, <4>1, <4>4
      <4>3. H[g - 1] = b + 1 /\ H[g] = b + 1
        BY <3>1, <3>4
      <4> QED
        BY <4>2, <4>3
    <3>5. CASE g = k
      <4>1. RoleOf(s, lt, lt.exit, g) = "exit"
        BY <1>10, <3>1, <3>3, <3>5
      <4>2. <<c, b + 1, b>> \in T
        BY <1>6, <3>3, <4>1
      <4>3. H[g - 1] = b + 1 /\ H[g] = b
        BY <3>1, <3>5
      <4> QED
        BY <4>2, <4>3
    <3>6. CASE g > k
      <4>1. RoleOf(s, lt, lt.exit, g) = "exclude"
        BY <1>10, <3>1, <3>3, <3>6
      <4>2. <<c, b, b>> \in T
        BY <1>6, <3>3, <4>1
      <4>3. H[g - 1] = b /\ H[g] = b
        BY <3>1, <3>6
      <4> QED
        BY <4>2, <4>3
    <3> QED
      BY <3>1, <3>4, <3>5, <3>6
  <2> HIDE DEF H
  <2>4. lt.exit \in CallPhases /\ (lt.exit # "run" \/ s.chunks = 1)
    BY <1>4, <1>5, <1>8
  <2>5. Path(T, Segment(s, lt.exit), H[0], H[n])
    BY <2>1, <2>3, <2>4, SegmentAlong DEF n
  <2> QED
    BY <2>2, <2>5
<1>13. ASSUME NEW phase \in CallPhases, phase # lt.entry, phase # lt.exit, NEW g \in GroupsOf(s, phase),
              phase \in PerTimestepPhases => ~(PhaseRank[lt.entry] < PhaseRank[phase]
                                               /\ PhaseRank[phase] < PhaseRank[lt.exit])
       PROVE  RoleOf(s, lt, phase, g) \in {"exclude", "legacy"}
  <2>1. phase \in Phases => ~(PhaseRank[lt.entry] < PhaseRank[phase] /\ PhaseRank[phase] < PhaseRank[lt.exit])
    <3>1. PhaseRank[lt.entry] \in 4..6 /\ PhaseRank[lt.exit] \in 4..6
      BY <1>5, <1>8
    <3>2. ASSUME phase \in Phases \ PerTimestepPhases PROVE PhaseRank[phase] \in {1, 2, 3, 7, 8}
      BY <3>2, PhasesAre, Ranks DEF PerTimestepPhases
    <3>3. CASE phase \in PerTimestepPhases
      BY <1>13, <3>3
    <3>4. CASE phase \notin PerTimestepPhases
      BY <3>1, <3>2, <3>4
    <3> QED
      BY <3>3, <3>4
  <2> QED
    BY <1>3, <1>13, <2>1, RoleElsewhere
<1>14. ASSUME NEW phase \in CallPhases \ PerTimestepPhases, NEW g \in GroupsOf(s, phase), NEW ch \in 0..s.chunks
       PROVE  <<Call(phase, g, ch), b, b>> \in T
  BY <1>6, <1>8, <1>13
<1>15. ASSUME NEW phase \in PerTimestepPhases, phase # lt.entry, phase # lt.exit,
              ~(PhaseRank[lt.entry] < PhaseRank[phase] /\ PhaseRank[phase] < PhaseRank[lt.exit])
       PROVE  Path(T, Segment(s, phase), b, b)
  <2>1. phase \in CallPhases /\ GroupsOf(s, phase) = DOMAIN s.groups
    BY <1>5
  <2>2. \A g \in DOMAIN s.groups : \A ch \in 0..s.chunks : <<Call(phase, g, ch), b, b>> \in T
    BY <1>6, <1>13, <1>15, <2>1
  <2> QED
    BY <1>1, <2>1, <2>2, SegmentFlat
<1>16. ASSUME "run" # lt.entry, "run" # lt.exit PROVE Path(T, Segment(s, "run"), b + 1, b + 1)
  <2>1. "run" \in CallPhases /\ "run" \in PerTimestepPhases /\ GroupsOf(s, "run") = DOMAIN s.groups
    BY <1>5 DEF PerTimestepPhases
  <2>2. PhaseRank[lt.entry] < PhaseRank["run"] /\ PhaseRank["run"] < PhaseRank[lt.exit]
    BY <1>8, <1>16, Ranks DEF PerTimestepPhases
  <2>3. \A g \in DOMAIN s.groups : RoleOf(s, lt, "run", g) \in {"exclude", "passthrough"}
    BY <1>3, <1>16, <2>1, <2>2, RoleElsewhere
  <2>4. \A g \in DOMAIN s.groups : \A ch \in 0..s.chunks : ~AtEnd(s, Call("run", g, ch))
    BY DEF AtEnd, Call
  <2>5. \A g \in DOMAIN s.groups : \A ch \in 0..s.chunks : <<Call("run", g, ch), b + 1, b + 1>> \in T
    BY <1>6, <2>1, <2>3, <2>4
  <2> QED
    BY <1>1, <2>1, <2>5, SegmentFlat
<1>17. Path(T, StepCalls(s), b, b)
  <2>1. CASE lt.entry = "timestep_initial" /\ lt.exit = "run"
    <3>1. Path(T, Segment(s, "timestep_final"), b, b)
      BY <1>15, <2>1, Ranks DEF PerTimestepPhases
    <3> QED
      BY <1>1, <1>11, <1>12, <2>1, <3>1, StepPath
  <2>2. CASE lt.entry = "timestep_initial" /\ lt.exit = "timestep_final"
    <3>1. Path(T, Segment(s, "run"), b + 1, b + 1)
      BY <1>16, <2>2
    <3> QED
      BY <1>1, <1>11, <1>12, <2>2, <3>1, StepPath
  <2>3. CASE lt.entry = "run" /\ lt.exit = "timestep_final"
    <3>1. Path(T, Segment(s, "timestep_initial"), b, b)
      BY <1>15, <2>3, Ranks DEF PerTimestepPhases
    <3> QED
      BY <1>1, <1>11, <1>12, <2>3, <3>1, StepPath
  <2> QED
    BY <1>8, <2>1, <2>2, <2>3, Ranks DEF PerTimestepPhases
<1>18. ASSUME NEW phase \in {"physics_initial", "physics_final"}
       PROVE  Path(T, PerGroup(s, phase), b, b)
  <2>1. phase \in CallPhases \ PerTimestepPhases /\ GroupsOf(s, phase) = DOMAIN s.groups /\ phase # "run"
    BY PhasesAre DEF CallPhases, PerTimestepPhases, GroupsOf, OneLevelPhases
  <2>2. Path(T, Segment(s, phase), b, b)
    BY <1>1, <1>14, <2>1, SegmentFlat
  <2> QED
    BY <2>1, <2>2 DEF Segment
<1>19. ASSUME NEW phase \in {"register", "initialize_constituents", "initialize", "finalize"}
       PROVE  <<Call(phase, 1, 0), b, b>> \in T
  <2>1. phase \in CallPhases \ PerTimestepPhases /\ 1 \in GroupsOf(s, phase)
    BY PhasesAre DEF CallPhases, PerTimestepPhases, GroupsOf, OneLevelPhases
  <2> QED
    BY <1>2, <1>14, <2>1
<1>20. Path(T, HostCalls(s), b, b)
  BY <1>1, <1>17, <1>18, <1>19, OuterPath
<1> QED
  BY <1>20 DEF T, b

(* Whoever keeps the variable, the references are those of the host again  *)
(* when the simulation is over.                                            *)
LEMMA HostPath ==
  ASSUME NEW s, WellFormed(s), s.owner # "suite", PairedOf(s)
  PROVE  Path(CallMoves(s), HostCalls(s), Base(s), Base(s))
<1>1. CASE Constituents(s)
  BY <1>1, ConstituentPath
<1>2. CASE ~Constituents(s)
  <2>1. HostMatched(s)
    BY <1>2 DEF HostMatched, Constituents, WellFormed, Owners
  <2>2. \/ Holding(s).kind = "none"
        \/ /\ Holding(s).kind # "none" /\ Holding(s).hoisted \in BOOLEAN
           /\ Holding(s).hoisted = FALSE \/ OneTime(Holding(s)) \/ StepWise(Holding(s))
    BY <2>1, HoldingIs
  <2> QED
    BY <2>1, <2>2, LegacyPath, OncePath, StepwisePath
<1> QED
  BY <1>1, <1>2

(***************************************************************************)
(* Which calls the host makes: the last is the only one of ccpp_final, and *)
(* a variable that schemes use is reached by some call before it.          *)
(***************************************************************************)
FrontCalls(s) ==
  <<Call("register", 1, 0), Call("initialize_constituents", 1, 0), Call("initialize", 1, 0)>> \o PerGroup(s, "physics_initial")
  \o Joined([t \in 1..Timesteps |-> StepCalls(s)]) \o PerGroup(s, "physics_final")
Proper(s, c) == c.phase # "finalize" /\ c.group \in GroupsOf(s, c.phase)

(* All calls but the last are of groups of their phase, none of ccpp_final.*)
LEMMA FrontIs ==
  ASSUME NEW s, WellFormed(s)
  PROVE  /\ FrontCalls(s) \in Seq(Records(s)) /\ HostCalls(s) = FrontCalls(s) \o <<Call("finalize", 1, 0)>>
         /\ \A j \in 1..Len(FrontCalls(s)) : Proper(s, FrontCalls(s)[j])
<1> DEFINE c1 == Call("register", 1, 0)
           c2 == Call("initialize_constituents", 1, 0)
           c3 == Call("initialize", 1, 0)
           q1 == <<c1, c2, c3>>
           pi == PerGroup(s, "physics_initial")
           pf == PerGroup(s, "physics_final")
           ps == [t \in 1..Timesteps |-> StepCalls(s)]
           jp == Joined(ps)
           R == Records(s)
           T == {m \in R \X {0} \X {0} : Proper(s, m[1])}
<1>1. /\ pi \in Seq(R) /\ pf \in Seq(R) /\ ps \in Seq(Seq(R)) /\ jp \in Seq(R) /\ q1 \in Seq(R)
  BY HostCallsAre
<1>2. FrontCalls(s) = ((q1 \o pi) \o jp) \o pf
  BY DEF FrontCalls
<1>3. HostCalls(s) = FrontCalls(s) \o <<Call("finalize", 1, 0)>>
  BY DEF HostCalls, FrontCalls
<1>4. 1 \in DOMAIN s.groups /\ 0 \in 0..s.chunks
  BY GroupsAre DEF WellFormed
<1>5. \A phase \in {"register", "initialize_constituents", "initialize"} :
        /\ phase \in CallPhases /\ 1 \in GroupsOf(s, phase) /\ phase # "finalize"
  BY PhasesAre DEF CallPhases, GroupsOf, OneLevelPhases
<1>6. \A phase \in {"register", "initialize_constituents", "initialize"} : <<Call(phase, 1, 0), 0, 0>> \in T
  <2> SUFFICES ASSUME NEW phase \in {"register", "initialize_constituents", "initialize"}
               PROVE  <<Call(phase, 1, 0), 0, 0>> \in T
    OBVIOUS
  <2>1. /\ Call(phase, 1, 0) \in R
        /\ Call(phase, 1, 0).phase = phase /\ Call(phase, 1, 0).group = 1
    BY <1>4, <1>5, CallIs
  <2>2. Proper(s, Call(phase, 1, 0))
    BY <1>5, <2>1 DEF Proper
  <2> QED
    BY <2>1, <2>2
<1>7. \A phase \in Middle : \A g \in DOMAIN s.groups : \A ch \in 0..s.chunks : <<Call(phase, g, ch), 0, 0>> \in T
  <2> SUFFICES ASSUME NEW phase \in Middle, NEW g \in DOMAIN s.groups, NEW ch \in 0..s.chunks
               PROVE  <<Call(phase, g, ch), 0, 0>> \in T
    OBVIOUS
  <2>1. phase \in CallPhases /\ phase \notin OneLevelPhases /\ phase # "finalize"
    BY PhasesAre DEF Middle, CallPhases, OneLevelPhases
  <2>2. g \in GroupsOf(s, phase)
    BY <2>1 DEF GroupsOf
  <2>3. Call(phase, g, ch) \in R /\ Call(phase, g, ch).phase = phase /\ Call(phase, g, ch).group = g
    BY <2>1, CallIs
  <2>4. Proper(s, Call(phase, g, ch))
    BY <2>1, <2>2, <2>3 DEF Proper
  <2> QED
    BY <2>3, <2>4
<1>8. Path(T, q1, 0, 0)
  <2>1. <<c1, 0, 0>> \in T /\ <<c2, 0, 0>> \in T /\ <<c3, 0, 0>> \in T
    BY <1>6, Zenon
  <2> HIDE DEF c1, c2, c3, T
  <2>2. q1 = [i \in 1..3 |-> q1[i]] /\ q1[1] = c1 /\ q1[2] = c2 /\ q1[3] = c3
    OBVIOUS
  <2> HIDE DEF q1
  <2>3. \A i \in 1..3 : <<q1[i], 0, 0>> \in T
    <3>1. \A i \in 1..3 : i \in {1, 2, 3}
      OBVIOUS
    <3> QED
      BY <2>1, <2>2, <3>1
  <2> QED
    BY <2>2, <2>3, PathFlat
<1>9. /\ Path(T, pi, 0, 0) /\ Path(T, pf, 0, 0) /\ Path(T, StepCalls(s), 0, 0)
  <2> HIDE DEF T
  <2> QED
    BY <1>7, MiddlePaths
<1>10. Path(T, jp, 0, 0)
  <2>1. Timesteps \in Nat
    BY SuitesAssumption
  <2>2. Len(ps) = Timesteps /\ \A t \in 1..Timesteps : ps[t] = StepCalls(s)
    BY <2>1
  <2> HIDE DEF T
  <2>3. \A t \in 1..Len(ps) : Path(T, ps[t], 0, 0)
    BY <1>9, <2>2
  <2> HIDE DEF ps
  <2> QED
    BY <1>1, <2>3, PathJoined
<1> DEFINE F == ((q1 \o pi) \o jp) \o pf
<1>11. F \in Seq(R) /\ Path(T, F, 0, 0)
  <2> HIDE DEF T, q1, pi, jp, pf, R
  <2> DEFINE q2 == q1 \o pi
             q3 == q2 \o jp
  <2>1. q2 \in Seq(R) /\ Path(T, q2, 0, 0)
    BY <1>1, <1>8, <1>9, PathCat
  <2> HIDE DEF q2
  <2>2. q3 \in Seq(R) /\ Path(T, q3, 0, 0)
    BY <1>1, <1>10, <2>1, PathCat
  <2> HIDE DEF q3
  <2>3. q3 \o pf \in Seq(R) /\ Path(T, q3 \o pf, 0, 0)
    BY <1>1, <1>9, <2>2, PathCat
  <2> QED
    BY <2>3 DEF q3, q2
<1>12. \A j \in 1..Len(F) : Proper(s, F[j])
  <2> HIDE DEF F
  <2>1. PICK H \in PathsOf(T, F) : TRUE
    BY <1>11 DEF Path
  <2>2. \A j \in 1..Len(F) : <<F[j], H[j - 1], H[j]>> \in T
    BY <2>1 DEF PathsOf
  <2> QED
    BY <2>2
<1> HIDE DEF F
<1> QED
  BY <1>2, <1>3, <1>11, <1>12 DEF F

Has(q, c) == \E j \in 1..Len(q) : q[j] = c

(* What a part has, the whole has.                                         *)
LEMMA CatHas ==
  ASSUME NEW S, NEW p \in Seq(S), NEW q \in Seq(S), NEW c, Has(p, c) \/ Has(q, c)
  PROVE  Has(p \o q, c)
<1>1. /\ Len(p) \in Nat /\ Len(q) \in Nat /\ Len(p \o q) = Len(p) + Len(q)
      /\ \A j \in 1..Len(p) : (p \o q)[j] = p[j]
      /\ \A j \in 1..Len(q) : (p \o q)[Len(p) + j] = q[j]
  OBVIOUS
<1>2. ASSUME NEW j \in 1..Len(p), p[j] = c PROVE Has(p \o q, c)
  <2>1. j \in 1..Len(p \o q) /\ (p \o q)[j] = c
    BY <1>1, <1>2
  <2> QED
    BY <2>1 DEF Has
<1>3. ASSUME NEW j \in 1..Len(q), q[j] = c PROVE Has(p \o q, c)
  <2>1. Len(p) + j \in 1..Len(p \o q) /\ (p \o q)[Len(p) + j] = c
    BY <1>1, <1>3
  <2> QED
    BY <2>1 DEF Has
<1> QED
  BY <1>2, <1>3 DEF Has

(* The host makes a call of every group in every phase that has groups.    *)
LEMMA HostHas ==
  ASSUME NEW s, WellFormed(s)
  PROVE  /\ Has(HostCalls(s), Call("register", 1, 0))
         /\ \A phase \in Middle : \A g \in DOMAIN s.groups : \E ch \in 0..s.chunks :
              Has(HostCalls(s), Call(phase, g, ch))
<1> DEFINE c1 == Call("register", 1, 0)
           q1 == <<c1, Call("initialize_constituents", 1, 0), Call("initialize", 1, 0)>>
           pi == PerGroup(s, "physics_initial")
           pf == PerGroup(s, "physics_final")
           ps == [t \in 1..Timesteps |-> StepCalls(s)]
           jp == Joined(ps)
           last == <<Call("finalize", 1, 0)>>
           R == Records(s)
           n == Len(s.groups)
<1>1. /\ pi \in Seq(R) /\ pf \in Seq(R) /\ ps \in Seq(Seq(R)) /\ jp \in Seq(R) /\ q1 \in Seq(R) /\ last \in Seq(R)
  BY HostCallsAre
<1>2. HostCalls(s) = (((q1 \o pi) \o jp) \o pf) \o last
  BY DEF HostCalls
<1>3. n \in Nat /\ DOMAIN s.groups = 1..n /\ 0 \in 0..s.chunks /\ 1 \in 0..s.chunks /\ 1 \in 1..s.chunks
  BY GroupsAre DEF WellFormed
<1>4. ASSUME NEW c, Has(q1, c) \/ Has(pi, c) \/ Has(jp, c) \/ Has(pf, c)
      PROVE  Has(HostCalls(s), c)
  <2> DEFINE q2 == q1 \o pi
             q3 == q2 \o jp
             q4 == q3 \o pf
             q5 == q4 \o last
  <2>1. Has(q1, c) \/ Has(pi, c) \/ Has(jp, c) \/ Has(pf, c)
    BY <1>4
  <2>5. HostCalls(s) = q5
    BY <1>2
  <2> HIDE DEF q1, pi, jp, pf, last, R
  <2>2. q2 \in Seq(R) /\ (Has(q1, c) \/ Has(pi, c) => Has(q2, c))
    BY <1>1, CatHas
  <2> HIDE DEF q2
  <2>3. q3 \in Seq(R) /\ (Has(q2, c) \/ Has(jp, c) => Has(q3, c))
    BY <1>1, <2>2, CatHas
  <2> HIDE DEF q3
  <2>4. q4 \in Seq(R) /\ (Has(q3, c) \/ Has(pf, c) => Has(q4, c))
    BY <1>1, <2>3, CatHas
  <2> HIDE DEF q4
  <2>6. Has(q4, c) => Has(q5, c)
    BY <1>1, <2>4, CatHas
  <2> HIDE DEF q5
  <2> QED
    BY <2>1, <2>2, <2>3, <2>4, <2>5, <2>6
<1>5. Has(q1, c1)
  <2> HIDE DEF c1
  <2>1. 1 \in 1..Len(q1) /\ q1[1] = c1
    OBVIOUS
  <2> QED
    BY <2>1 DEF Has
<1>6. ASSUME NEW phase \in CallPhases, NEW g \in 1..n
      PROVE  Has(PerGroup(s, phase), Call(phase, g, 0))
  BY <1>3, PerGroupIs DEF Has
<1>7. ASSUME NEW c, Has(StepCalls(s), c) PROVE Has(jp, c)
  <2>1. Timesteps \in Nat /\ 1 \in 1..Timesteps
    BY SuitesAssumption
  <2>2. Len(ps) = Timesteps /\ ps[1] = StepCalls(s)
    BY <2>1
  <2>3. PICK i \in 1..Len(ps[1]) : ps[1][i] = c
    BY <1>7, <2>2 DEF Has
  <2>4. 1 \in 1..Len(ps)
    BY <2>1, <2>2
  <2> HIDE DEF ps
  <2>5. \A k \in 1..Len(ps) : \A l \in 1..Len(ps[k]) : \E j \in 1..Len(Joined(ps)) : Joined(ps)[j] = ps[k][l]
    BY <1>1, JoinedHas
  <2>6. \E j \in 1..Len(Joined(ps)) : Joined(ps)[j] = c
    BY <2>3, <2>4, <2>5
  <2> QED
    BY <2>6 DEF Has
<1>8. ASSUME NEW g \in 1..n PROVE Has(RunCalls(s), Call("run", g, 1))
  <2> DEFINE rp == RunPieces(s)
  <2>3. /\ RunCalls(s) = Joined(rp) /\ rp \in Seq(Seq(R)) /\ Len(rp) = n
        /\ \A k \in 1..n : Len(rp[k]) = s.chunks /\ \A c \in 1..s.chunks : rp[k][c] = Call("run", k, c)
    <3>1. /\ RunCalls(s) = Joined(RunPieces(s)) /\ RunPieces(s) \in Seq(Seq(Records(s)))
          /\ Len(RunPieces(s)) = Len(s.groups)
      BY RunPiecesAre, Zenon
    <3>2. \A k \in 1..Len(s.groups) :
            /\ Len(RunPieces(s)[k]) = s.chunks
            /\ \A c \in 1..s.chunks : RunPieces(s)[k][c] = Call("run", k, c)
      <4> SUFFICES ASSUME NEW k \in 1..Len(s.groups)
                   PROVE  /\ Len(RunPieces(s)[k]) = s.chunks
                          /\ \A c \in 1..s.chunks : RunPieces(s)[k][c] = Call("run", k, c)
        OBVIOUS
      <4>1. \A gg \in 1..Len(s.groups) :
              /\ RunPieces(s)[gg] = [c \in 1..s.chunks |-> RunPieces(s)[gg][c]]
              /\ Len(RunPieces(s)[gg]) = s.chunks
              /\ \A c \in 1..s.chunks : RunPieces(s)[gg][c] = Call("run", gg, c)
        BY RunPiecesAre
      <4> QED
        BY <4>1, Zenon
    <3> QED
      BY <3>1, <3>2
  <2> HIDE DEF n, R, rp
  <2>1. /\ RunCalls(s) = Joined(rp) /\ rp \in Seq(Seq(R)) /\ g \in 1..Len(rp)
        /\ 1 \in 1..Len(rp[g]) /\ rp[g][1] = Call("run", g, 1)
    BY <1>3, <2>3
  <2>2. \E j \in 1..Len(Joined(rp)) : Joined(rp)[j] = rp[g][1]
    BY <2>1, JoinedHas
  <2> QED
    BY <2>1, <2>2 DEF Has
<1>9. ASSUME NEW c, \/ Has(PerGroup(s, "timestep_initial"), c) \/ Has(RunCalls(s), c)
                    \/ Has(PerGroup(s, "timestep_final"), c)
      PROVE  Has(StepCalls(s), c)
  <2> DEFINE a == PerGroup(s, "timestep_initial")
             b == RunCalls(s)
             d == PerGroup(s, "timestep_final")
  <2>1. a \in Seq(R) /\ b \in Seq(R) /\ d \in Seq(R)
    BY StepCallsAre
  <2>2. StepCalls(s) = (a \o b) \o d
    BY DEF StepCalls
  <2>3. Has(a, c) \/ Has(b, c) \/ Has(d, c)
    BY <1>9
  <2> HIDE DEF a, b, d, R
  <2>4. a \o b \in Seq(R) /\ (Has(a, c) \/ Has(b, c) => Has(a \o b, c))
    BY <2>1, CatHas
  <2>5. Has(a \o b, c) \/ Has(d, c) => Has((a \o b) \o d, c)
    BY <2>1, <2>4, CatHas
  <2> QED
    BY <2>2, <2>3, <2>4, <2>5
<1>10. ASSUME NEW phase \in Middle, NEW g \in 1..n
       PROVE  \E ch \in 0..s.chunks : Has(HostCalls(s), Call(phase, g, ch))
  <2> HIDE DEF q1, pi, jp, pf, n
  <2>1. phase \in CallPhases
    BY PhasesAre DEF Middle, CallPhases
  <2>2. CASE phase = "run"
    <3>1. Has(HostCalls(s), Call("run", g, 1))
      BY <1>4, <1>7, <1>8, <1>9
    <3> QED
      BY <1>3, <2>2, <3>1
  <2>3. CASE phase # "run"
    <3>1. Has(PerGroup(s, phase), Call(phase, g, 0))
      BY <1>6, <2>1
    <3>2. phase \in {"physics_initial", "timestep_initial", "timestep_final", "physics_final"}
      BY <2>3 DEF Middle
    <3>3. CASE phase = "physics_initial"
      BY <1>3, <1>4, <3>1, <3>3 DEF pi
    <3>4. CASE phase = "physics_final"
      BY <1>3, <1>4, <3>1, <3>4 DEF pf
    <3>5. CASE phase \in {"timestep_initial", "timestep_final"}
      <4>1. Has(StepCalls(s), Call(phase, g, 0))
        BY <1>9, <3>1, <3>5
      <4> QED
        BY <1>3, <1>4, <1>7, <4>1
    <3> QED
      BY <3>2, <3>3, <3>4, <3>5
  <2> QED
    BY <2>2, <2>3
<1> HIDE DEF q1, c1, n
<1>11. Has(HostCalls(s), c1)
  BY <1>4, <1>5
<1> QED
  BY <1>3, <1>10, <1>11 DEF c1

(* A call of a phase whose table uses the variable is among them.          *)
TouchedBy(s, c) == Touches(s, c.phase, c.group)

(* So it makes one that reaches the variable, if a scheme uses it.         *)
LEMMA SomeCallTouches ==
  ASSUME NEW s, WellFormed(s), Used(s) # {}
  PROVE  \E k \in 1..Len(HostCalls(s)) : TouchedBy(s, HostCalls(s)[k])
<1>1. PICK e \in Used(s) : TRUE
  OBVIOUS
<1>2. e[2] \in TablePhases
  BY DEF WellFormed, Used
<1> DEFINE phase == CASE e[2] = "initialize" -> "physics_initial"
                      [] e[2] = "finalize" -> "physics_final"
                      [] OTHER -> e[2]
<1>3. phase \in CallPhases /\ TableOf(phase) = e[2] /\ (phase = "register" \/ phase \in Middle)
  BY <1>2, PhasesAre DEF TablePhases, CallPhases, TableOf, Middle
<1> HIDE DEF phase
<1>4. PICK g \in Touching(s, phase) : TRUE
  BY <1>3, UsedTouches
<1>5. g \in GroupsOf(s, phase) /\ Touches(s, phase, g) /\ g \in DOMAIN s.groups
  BY <1>4, GroupsAre DEF Touching
<1>6. phase = "register" => g = 1
  BY <1>5 DEF GroupsOf, OneLevelPhases
<1>7. 0 \in 0..s.chunks
  BY DEF WellFormed
<1>8. PICK ch \in 0..s.chunks : Has(HostCalls(s), Call(phase, g, ch))
  BY <1>3, <1>5, <1>6, <1>7, HostHas
<1>9. TouchedBy(s, Call(phase, g, ch))
  BY <1>3, <1>5, CallIs DEF TouchedBy
<1> QED
  BY <1>8, <1>9 DEF Has

(***************************************************************************)
(* The steps.  First what they do to the copies of the variable.           *)
(***************************************************************************)
LEMMA CopiesAre ==
  ASSUME NEW m \in Memory
  PROVE  /\ Faulted(m) \in Memory
         /\ Allocated(m) \in Memory /\ Allocated(m).held = 1 /\ Allocated(m).fault = m.fault
         /\ Released(m) \in Memory /\ Released(m).held = 0 /\ Released(m).fault = m.fault
         /\ Retained(m) \in Memory /\ Retained(m).held = m.held + 1 /\ Retained(m).fault = m.fault
         /\ m.held \in Nat
<1>1. /\ m = [newest |-> m.newest, held |-> m.held, fault |-> m.fault]
      /\ m.newest \in [Spaces -> SUBSET Parts] /\ m.held \in Nat /\ m.fault \in BOOLEAN
  BY DEF Memory
<1>2. [m.newest EXCEPT !["device"] = {}] \in [Spaces -> SUBSET Parts]
  BY <1>1
<1>3. Faulted(m) \in Memory
  BY <1>1 DEF Memory, Faulted
<1>4. Allocated(m) \in Memory
  BY <1>1, <1>2 DEF Memory, Allocated
<1>5. Allocated(m).held = 1 /\ Allocated(m).fault = m.fault
  BY <1>1, <1>2 DEF Memory, Allocated
<1>6. Released(m) \in Memory
  BY <1>1, <1>2 DEF Memory, Released
<1>7. Released(m).held = 0 /\ Released(m).fault = m.fault
  BY <1>1, <1>2 DEF Memory, Released
<1>8. Retained(m) \in Memory
  BY <1>1 DEF Memory, Retained
<1>9. Retained(m).held = m.held + 1 /\ Retained(m).fault = m.fault
  BY <1>1 DEF Memory, Retained
<1> QED
  BY <1>1, <1>3, <1>4, <1>5, <1>6, <1>7, <1>8, <1>9

(* Data that moves between the copies keeps the references.                *)
LEMMA MovedIs ==
  ASSUME NEW m \in Memory, NEW from \in Spaces, NEW to \in Spaces, NEW ps \in SomeParts
  PROVE  /\ Moved(m, from, to, ps) \in Memory
         /\ Moved(m, from, to, ps).held = m.held /\ Moved(m, from, to, ps).fault = m.fault
<1>1. /\ m = [newest |-> m.newest, held |-> m.held, fault |-> m.fault]
      /\ m.newest \in [Spaces -> SUBSET Parts] /\ m.held \in Nat /\ m.fault \in BOOLEAN
  BY DEF Memory
<1>2. (m.newest[to] \ ps) \cup (m.newest[from] \cap ps) \subseteq Parts
  BY <1>1
<1>3. [m.newest EXCEPT ![to] = (@ \ ps) \cup (m.newest[from] \cap ps)] \in [Spaces -> SUBSET Parts]
  BY <1>1, <1>2
<1> QED
  BY <1>1, <1>3 DEF Memory, Moved

(* So does a computation, and on the device it needs the data.             *)
LEMMA ComputedIs ==
  ASSUME NEW m \in Memory, NEW space, NEW writes, NEW ps \in SomeParts
  PROVE  /\ Computed(m, space, writes, ps) \in Memory
         /\ Computed(m, space, writes, ps).held = m.held
         /\ (space = "device" => m.held > 0) => Computed(m, space, writes, ps).fault = m.fault
<1>1. /\ m = [newest |-> m.newest, held |-> m.held, fault |-> m.fault]
      /\ m.newest \in [Spaces -> SUBSET Parts] /\ m.held \in Nat /\ m.fault \in BOOLEAN
  BY DEF Memory
<1> DEFINE N == [s \in Spaces |-> IF s = space THEN m.newest[s] \cup ps ELSE m.newest[s] \ ps]
<1>2. N \in [Spaces -> SUBSET Parts]
  BY <1>1 DEF SomeParts
<1>3. /\ Computed(m, space, writes, ps) = Faulted(m) /\ space = "device" /\ ~(m.held > 0)
      \/ Computed(m, space, writes, ps) = m
      \/ Computed(m, space, writes, ps) = [m EXCEPT !.newest = N]
  BY DEF Computed, OnDevice
<1> HIDE DEF N
<1>4. /\ [m EXCEPT !.newest = N] \in Memory
      /\ [m EXCEPT !.newest = N].held = m.held /\ [m EXCEPT !.newest = N].fault = m.fault
  BY <1>1, <1>2 DEF Memory
<1>5. Faulted(m) \in Memory /\ Faulted(m).held = m.held
  BY <1>1 DEF Memory, Faulted
<1> QED
  BY <1>3, <1>4, <1>5

(* A directive does what Does says, so it finds the data it needs.         *)
LEMMA EffectIs ==
  ASSUME NEW m \in Memory, NEW i \in Items, i.op \notin Schemes
  PROVE  /\ Effect(m, i) \in Memory
         /\ \A s, phase : \A e \in Nat : Does(s, phase, i, m.held, e) =>
              Effect(m, i).held = e /\ Effect(m, i).fault = m.fault
<1>1. i.op \in Directives /\ i.parts \in SomeParts /\ m.held \in Nat
  BY CopiesAre DEF Items
<1>2. "host" \in Spaces /\ "device" \in Spaces
  BY DEF Spaces
<1>3. CASE i.op \in {"enter copyin", "enter create"}
  <2>1. /\ Effect(m, i) = IF m.held > 0 THEN Retained(m)
                          ELSE IF i.op = "enter copyin" THEN Moved(Allocated(m), "host", "device", i.parts)
                          ELSE Allocated(m)
    BY <1>3 DEF Effect, Entered, OnDevice
  <2>2. /\ Moved(Allocated(m), "host", "device", i.parts) \in Memory
        /\ Moved(Allocated(m), "host", "device", i.parts).held = 1
        /\ Moved(Allocated(m), "host", "device", i.parts).fault = m.fault
    BY <1>1, <1>2, CopiesAre, MovedIs
  <2>3. /\ Effect(m, i) \in Memory /\ Effect(m, i).held = m.held + 1 /\ Effect(m, i).fault = m.fault
    <3>1. CASE m.held > 0
      <4>1. Effect(m, i) = Retained(m)
        BY <2>1, <3>1
      <4> QED
        BY <4>1, CopiesAre
    <3>2. CASE ~(m.held > 0)
      <4>1. m.held + 1 = 1
        BY <1>1, <3>2
      <4>2. Effect(m, i) \in {Moved(Allocated(m), "host", "device", i.parts), Allocated(m)}
        BY <2>1, <3>2
      <4> QED
        BY <2>2, <4>1, <4>2, CopiesAre
    <3> QED
      BY <3>1, <3>2
  <2>4. \A s, phase : \A e \in Nat : Does(s, phase, i, m.held, e) => e = m.held + 1
    BY <1>3 DEF Does
  <2> QED
    BY <2>3, <2>4
<1>4. CASE i.op \in {"exit copyout", "exit delete"}
  <2> DEFINE d == [m EXCEPT !.held = @ - 1]
             r == Moved(m, "device", "host", i.parts)
  <2>1. Effect(m, i) = IF m.held > 1 THEN d ELSE IF m.held = 0 THEN Faulted(m)
                       ELSE IF i.op = "exit copyout" THEN Released(r) ELSE Released(m)
    BY <1>4 DEF Effect, Exited
  <2>2. r \in Memory /\ r.fault = m.fault
    BY <1>1, <1>2, MovedIs
  <2>3. m.held > 1 => d \in Memory /\ d.held = m.held - 1 /\ d.fault = m.fault
    BY <1>1 DEF Memory
  <2> HIDE DEF d, r
  <2>4. /\ Released(r) \in Memory /\ Released(r).held = 0 /\ Released(r).fault = m.fault
        /\ Released(m) \in Memory /\ Released(m).held = 0 /\ Released(m).fault = m.fault
        /\ Faulted(m) \in Memory
    BY <2>2, CopiesAre
  <2>5. \A s, phase : \A e \in Nat : Does(s, phase, i, m.held, e) => m.held = e + 1
    BY <1>4 DEF Does
  <2>6. Effect(m, i) \in Memory
    BY <2>1, <2>3, <2>4
  <2>7. ASSUME NEW e \in Nat, m.held = e + 1 PROVE Effect(m, i).held = e /\ Effect(m, i).fault = m.fault
    <3>1. CASE e = 0
      <4>1. m.held = 1 /\ ~(m.held > 1) /\ m.held # 0
        BY <2>7, <3>1
      <4>2. Effect(m, i) \in {Released(r), Released(m)}
        BY <2>1, <4>1
      <4> QED
        BY <2>4, <3>1, <4>2
    <3>2. CASE e # 0
      <4>1. m.held > 1 /\ m.held - 1 = e
        BY <2>7, <3>2
      <4> QED
        BY <2>1, <2>3, <4>1
    <3> QED
      BY <3>1, <3>2
  <2> QED
    BY <2>5, <2>6, <2>7
<1>5. CASE i.op \in {"update self", "update device", "present"}
  <2>1. \/ Effect(m, i) = Faulted(m) /\ ~(m.held > 0)
        \/ m.held > 0 /\ Effect(m, i) \in {m, Moved(m, "device", "host", i.parts), Moved(m, "host", "device", i.parts)}
    BY <1>5 DEF Effect, UpdatedSelf, UpdatedDevice, AssertedPresent, OnDevice
  <2>2. \A x \in {m, Moved(m, "device", "host", i.parts), Moved(m, "host", "device", i.parts)} :
          x \in Memory /\ x.held = m.held /\ x.fault = m.fault
    BY <1>1, <1>2, MovedIs
  <2>3. \A s, phase : \A e \in Nat : Does(s, phase, i, m.held, e) => m.held > 0 /\ e = m.held
    BY <1>5 DEF Does
  <2> QED
    BY <2>1, <2>2, <2>3, CopiesAre
<1> QED
  BY <1>1, <1>3, <1>4, <1>5 DEF Directives

(***************************************************************************)
(* The invariant.  For a variable that is not the suite's: some path of    *)
(* the host's calls passes, at the call under way, through the count that  *)
(* what is left of its program leads to.  For a suite-owned array: one     *)
(* reference from where it is allocated to ccpp_final.                     *)
(***************************************************************************)
TypeBase ==
  /\ suite \in Derived
  /\ call \in 0..Len(HostCalls(suite))
  /\ todo \in Seq(Items)
  /\ mem \in Memory
  /\ errflg \in BOOLEAN /\ allocated \in BOOLEAN /\ disturbed \in BOOLEAN

Levels(s) ==
  {K \in PathsOf(CallMoves(s), HostCalls(s)) : K[0] = Base(s) /\ K[Len(HostCalls(s))] = Base(s)}

HeldInv ==
  suite.owner # "suite" /\ PairedOf(suite) =>
    /\ ~mem.fault
    /\ \E K \in Levels(suite) : Runs(suite, TheCall.phase, todo, mem.held, K[call])

OwnedCount == IF SuiteOwnedResident(suite) /\ allocated /\ TheCall.phase # "finalize" THEN 1 ELSE 0
OwnedInv ==
  suite.owner = "suite" =>
    /\ ~mem.fault
    /\ Runs(suite, TheCall.phase, todo, mem.held, OwnedCount)
    /\ \A k \in 1..call : TouchedBy(suite, HostCalls(suite)[k]) => allocated

ResidencyInv == TypeBase /\ HeldInv /\ OwnedInv

(* Paired, of the suite of the simulation.                                 *)
LEMMA PairedIs == Paired <=> PairedOf(suite)
BY DEF Paired, PairedOf, Lifetimes

(* A program is a sequence of instructions.                                *)
LEMMA ProgramIs ==
  ASSUME NEW s, WellFormed(s), NEW phase \in CallPhases, NEW g \in GroupsOf(s, phase), NEW cols \in SomeParts
  PROVE  CallProgram(s, phase, g, cols) \in Seq(Items)
<1> DEFINE P == CallProgram(s, phase, g, cols)
<1>1. \A h, e : Runs(s, phase, P, h, e) => P \in Seq(Items)
  BY DEF Runs
<1>2. 0 \in 0..1 /\ 0 \in Counts
  BY DEF Counts
<1>3. CASE HostMatched(s)
  <2>1. RoleRuns(s, phase, RoleOf(s, Holding(s), phase, g), P)
    BY <1>3, CallRuns
  <2> HIDE DEF P
  <2>2. P \in Seq(Items)
    BY <1>1, <1>2, <2>1 DEF RoleRuns
  <2> QED
    BY <2>2 DEF P
<1>4. CASE Constituents(s)
  <2>1. \E h, e : Runs(s, phase, P, h, e)
    BY <1>4, ConstituentRuns
  <2> QED
    BY <1>1, <2>1
<1>5. CASE s.owner = "suite"
  <2>1. \E h, e : Runs(s, phase, P, h, e)
    BY <1>5, SuiteOwnedRuns
  <2> QED
    BY <1>1, <2>1
<1>6. HostMatched(s) \/ Constituents(s) \/ s.owner = "suite"
  BY DEF WellFormed, Owners, HostMatched, Constituents
<1> QED
  BY <1>3, <1>4, <1>5, <1>6

(* Every call the host makes is of a group its phase has.                  *)
LEMMA HostCallIs ==
  ASSUME NEW s, WellFormed(s), NEW k \in 1..Len(HostCalls(s)), NEW c, c = HostCalls(s)[k]
  PROVE  /\ c \in Records(s) /\ c.phase \in CallPhases /\ c.group \in GroupsOf(s, c.phase)
         /\ Columns(s, c) \in SomeParts
         /\ c.phase = "finalize" <=> k = Len(HostCalls(s))
<1> DEFINE F == FrontCalls(s)
           last == Call("finalize", 1, 0)
           R == Records(s)
<1>1. /\ F \in Seq(R) /\ HostCalls(s) = F \o <<last>> /\ \A j \in 1..Len(F) : Proper(s, F[j])
  BY FrontIs
<1>2. 1 \in DOMAIN s.groups /\ 0 \in 0..s.chunks
  BY GroupsAre DEF WellFormed
<1>3. last \in R /\ last.phase = "finalize" /\ last.group = 1
  BY <1>2, PhasesAre, CallIs DEF CallPhases
<1>4. 1 \in GroupsOf(s, "finalize")
  BY DEF GroupsOf, OneLevelPhases
<1> HIDE DEF F, last
<1>5. Len(HostCalls(s)) = Len(F) + 1 /\ Len(F) \in Nat
  BY <1>1, <1>3
<1>6. CASE k = Len(F) + 1
  <2>1. c = last
    BY <1>1, <1>3, <1>6
  <2> QED
    BY <1>3, <1>4, <1>5, <1>6, <2>1, ColumnsAre DEF Records
<1>7. CASE k # Len(F) + 1
  <2>1. k \in 1..Len(F)
    BY <1>5, <1>7
  <2>2. c = F[k]
    BY <1>1, <1>3, <2>1
  <2>3. c \in R /\ Proper(s, c)
    BY <1>1, <2>1, <2>2
  <2> QED
    BY <1>5, <1>7, <2>3, ColumnsAre DEF Records, Proper
<1> QED
  BY <1>6, <1>7

(* The host makes a call.                                                  *)
LEMMA HostCallsLen ==
  ASSUME NEW s, WellFormed(s) PROVE Len(HostCalls(s)) \in Nat /\ Len(HostCalls(s)) > 0
<1>1. HostCalls(s) \in Seq(Records(s)) /\ FrontCalls(s) \in Seq(Records(s))
      /\ HostCalls(s) = FrontCalls(s) \o <<Call("finalize", 1, 0)>>
  BY HostCallsAre, FrontIs
<1> QED
  BY <1>1

(* What a path of the calls says of the counts before and after each.      *)
LEMMA LevelsAre ==
  ASSUME NEW s, WellFormed(s), NEW K \in Levels(s), NEW k \in 0..Len(HostCalls(s))
  PROVE  /\ K[k] \in Counts /\ K[k] >= Base(s)
         /\ k = 0 \/ k = Len(HostCalls(s)) => K[k] = Base(s)
         /\ k > 0 /\ HostMatched(s) /\ NoOnce(s) /\ AtEnd(s, HostCalls(s)[k]) => K[k] = Base(s)
         /\ k < Len(HostCalls(s)) => CallRunsOf(s, HostCalls(s)[k + 1], K[k], K[k + 1])
<1> DEFINE n == Len(HostCalls(s))
<1>1. n \in Nat
  BY HostCallsLen
<1>2. /\ \A j \in 1..n : <<HostCalls(s)[j], K[j - 1], K[j]>> \in CallMoves(s)
      /\ K[0] = Base(s) /\ K[n] = Base(s)
  BY DEF Levels, PathsOf
<1>3. \A j \in 1..n : /\ K[j] \in Counts /\ K[j] >= Base(s)
                      /\ CallRunsOf(s, HostCalls(s)[j], K[j - 1], K[j])
                      /\ HostMatched(s) /\ NoOnce(s) /\ AtEnd(s, HostCalls(s)[j]) => K[j] = Base(s)
  BY <1>2 DEF CallMoves
<1> HIDE DEF n
<1>4. k = 0 \/ (k > 0 /\ k \in 1..n)
  BY <1>1 DEF n
<1>5. k < n => k + 1 \in 1..n /\ (k + 1) - 1 = k
  BY <1>1, <1>4
<1>6. k < n => CallRunsOf(s, HostCalls(s)[k + 1], K[k], K[k + 1])
  <2>1. ASSUME k < n PROVE CallRunsOf(s, HostCalls(s)[k + 1], K[(k + 1) - 1], K[k + 1])
    BY <1>3, <1>5, <2>1
  <2> QED
    BY <1>5, <2>1
<1>7. Base(s) \in Counts /\ Base(s) >= Base(s)
  BY BaseIs
<1>8. k = 0 => ~(k > 0)
  OBVIOUS
<1> QED
  BY <1>2, <1>3, <1>4, <1>6, <1>7, <1>8 DEF n

(* It holds at the start.                                                  *)
LEMMA InitInv == Init => ResidencyInv
<1> SUFFICES ASSUME Init PROVE ResidencyInv
  OBVIOUS
<1>1. suite \in Derived /\ call = 0 /\ todo = <<>> /\ mem = Initially(suite)
      /\ errflg = FALSE /\ allocated = FALSE /\ disturbed = FALSE
  BY DEF Init
<1>2. WellFormed(suite)
  BY <1>1, DerivedIs
<1>3. mem \in Memory /\ mem.held = Base(suite) /\ ~mem.fault
  <2> DEFINE N == CASE suite.owner = "managed" -> [sp \in Spaces |-> IF sp = "device" THEN Parts ELSE {}]
                    [] suite.owner = "suite"   -> [sp \in Spaces |-> {}]
                    [] OTHER                   -> [sp \in Spaces |-> IF sp = "host" THEN Parts ELSE {}]
  <2>1. N \in [Spaces -> SUBSET Parts]
    OBVIOUS
  <2>2. mem = [newest |-> N, held |-> Base(suite), fault |-> FALSE]
    BY <1>1 DEF Initially, Base
  <2> HIDE DEF N
  <2> QED
    BY <2>1, <2>2, BaseIs DEF Memory
<1>4. TypeBase
  <2>1. call \in 0..Len(HostCalls(suite))
    BY <1>1, <1>2, HostCallsLen
  <2>2. todo \in Seq(Items)
    BY <1>1
  <2>3. errflg \in BOOLEAN /\ allocated \in BOOLEAN /\ disturbed \in BOOLEAN
    BY <1>1
  <2> QED
    BY <1>1, <1>3, <2>1, <2>2, <2>3 DEF TypeBase
<1>5. Runs(suite, TheCall.phase, todo, Base(suite), Base(suite))
  BY <1>1, RunsNone, BaseIs
<1>6. HeldInv
  <2>1. ASSUME suite.owner # "suite", PairedOf(suite) PROVE HeldInv
    <3>1. PICK K \in Levels(suite) : TRUE
      BY <1>2, <2>1, HostPath DEF Path, Levels
    <3>2. K[call] = Base(suite)
      BY <1>1, <3>1 DEF Levels
    <3> QED
      BY <1>3, <1>5, <3>2 DEF HeldInv
  <2> QED
    BY <2>1 DEF HeldInv
<1>7. OwnedInv
  <2>1. ASSUME suite.owner = "suite" PROVE OwnedInv
    <3>1. Base(suite) = 0 /\ OwnedCount = 0
      BY <1>1, <2>1 DEF Base, OwnedCount
    <3>2. 1..call = {}
      BY <1>1
    <3> QED
      BY <1>3, <1>5, <3>1, <3>2 DEF OwnedInv
  <2> QED
    BY <2>1 DEF OwnedInv
<1> QED
  BY <1>4, <1>6, <1>7 DEF ResidencyInv

(* A step inside a call.                                                   *)
Work == Directive \/ SchemeCall \/ SchemeFails \/ GuardedCall

(* One instruction of a program that runs, and the program that is left.   *)
LEMMA TodoStep ==
  ASSUME NEW s, NEW phase, NEW q, NEW h, NEW e, Runs(s, phase, q, h, e), q # <<>>
  PROVE  \E m \in Counts : h \in Counts /\ Does(s, phase, Head(q), h, m) /\ Runs(s, phase, Tail(q), m, e)
<1>1. q \in Seq(Items) /\ Path(Moves(s, phase), q, h, e)
  BY DEF Runs
<1>2. PICK m \in Nat : <<Head(q), h, m>> \in Moves(s, phase) /\ Path(Moves(s, phase), Tail(q), m, e)
  BY <1>1, PathTail
<1>3. m \in Counts /\ h \in Counts /\ Does(s, phase, Head(q), h, m)
  BY <1>2 DEF Moves
<1>4. Tail(q) \in Seq(Items)
  BY <1>1
<1> QED
  BY <1>2, <1>3, <1>4 DEF Runs

(* A step inside a call keeps the types and the call.                      *)
LEMMA WorkType ==
  ASSUME TypeBase, Work
  PROVE  TypeBase' /\ UNCHANGED <<suite, call, allocated>> /\ TheCall' = TheCall
<1>1. /\ suite \in Derived /\ call \in 0..Len(HostCalls(suite)) /\ todo \in Seq(Items) /\ mem \in Memory
      /\ errflg \in BOOLEAN /\ allocated \in BOOLEAN /\ disturbed \in BOOLEAN
  BY DEF TypeBase
<1>2. /\ todo # <<>> /\ todo' = Tail(todo) /\ UNCHANGED <<suite, call, allocated, disturbed>> /\ errflg' \in BOOLEAN
  BY <1>1 DEF Work, Directive, SchemeCall, SchemeFails, GuardedCall
<1>6. todo' \in Seq(Items) /\ Head(todo) \in Items
  BY <1>1, <1>2
<1>3. todo' \in Seq(Items) /\ Head(todo) \in Items /\ Head(todo).parts \in SomeParts
  BY <1>6 DEF Items
<1>4. mem' \in Memory
  <2>1. CASE Directive
    BY <1>1, <1>3, <2>1, EffectIs DEF Directive, IsCall
  <2>2. CASE SchemeCall
    BY <1>1, <1>3, <2>2, ComputedIs DEF SchemeCall
  <2>3. CASE SchemeFails \/ GuardedCall
    BY <1>1, <2>3 DEF SchemeFails, GuardedCall
  <2> QED
    BY <2>1, <2>2, <2>3 DEF Work
<1>5. TheCall' = TheCall
  BY <1>2 DEF TheCall
<1> QED
  BY <1>1, <1>2, <1>3, <1>4, <1>5 DEF TypeBase

(* A step inside a call follows the program and finds the data it needs.   *)
LEMMA WorkRuns ==
  ASSUME TypeBase, Work, ~mem.fault, NEW e, Runs(suite, TheCall.phase, todo, mem.held, e)
  PROVE  ~mem'.fault /\ Runs(suite, TheCall.phase, todo', mem'.held, e)
<1> DEFINE ph == TheCall.phase
           i == Head(todo)
<1>1. todo \in Seq(Items) /\ mem \in Memory /\ todo # <<>> /\ todo' = Tail(todo)
  BY DEF TypeBase, Work, Directive, SchemeCall, SchemeFails, GuardedCall
<1>6. i \in Items
  BY <1>1
<1>2. i \in Items /\ i.parts \in SomeParts
  BY <1>6 DEF Items
<1>3. PICK m \in Counts : Does(suite, ph, i, mem.held, m) /\ Runs(suite, ph, Tail(todo), m, e)
  BY <1>1, TodoStep
<1>4. m \in Nat
  BY CountsAre
<1>5. mem'.held = m /\ mem'.fault = mem.fault
  <2>1. CASE Directive
    <3>1. i.op \notin Schemes /\ mem' = Effect(mem, i)
      BY <2>1 DEF Directive, IsCall
    <3> HIDE DEF i, ph
    <3> QED
      BY <1>1, <1>2, <1>3, <1>4, <3>1, EffectIs
  <2>2. ASSUME i.op \in Schemes PROVE (UseAt(suite, ph, i.op).space = "device" => mem.held > 0) /\ m = mem.held
    <3>1. i.op \notin Directives
      BY <2>2, SuitesAssumption
    <3> HIDE DEF i, ph
    <3> QED
      BY <1>3, <3>1 DEF Does, Directives
  <2>3. CASE SchemeCall
    <3>1. i.op \in Schemes /\ mem' = Computed(mem, UseAt(suite, ph, i.op).space, Writes(UseAt(suite, ph, i.op)), i.parts)
      BY <2>3 DEF SchemeCall, IsCall, TheUse
    <3> HIDE DEF i, ph
    <3> QED
      BY <1>1, <1>2, <2>2, <3>1, ComputedIs
  <2>4. CASE SchemeFails \/ GuardedCall
    <3>1. i.op \in Schemes /\ mem' = mem
      BY <2>4 DEF SchemeFails, GuardedCall, IsCall
    <3> QED
      BY <2>2, <3>1
  <2> QED
    BY <2>1, <2>3, <2>4 DEF Work
<1> QED
  BY <1>1, <1>3, <1>5

(* So it keeps the invariant.                                              *)
LEMMA WorkInv == ASSUME ResidencyInv, Work PROVE ResidencyInv'
<1>1. TypeBase /\ HeldInv /\ OwnedInv
  BY DEF ResidencyInv
<1>2. TypeBase' /\ suite' = suite /\ call' = call /\ allocated' = allocated /\ TheCall' = TheCall
  BY <1>1, WorkType
<1>3. HeldInv'
  <2>1. ASSUME suite.owner # "suite", PairedOf(suite)
        PROVE  ~mem'.fault /\ \E K \in Levels(suite) : Runs(suite, TheCall.phase, todo', mem'.held, K[call])
    <3>1. ~mem.fault /\ \E K \in Levels(suite) : Runs(suite, TheCall.phase, todo, mem.held, K[call])
      BY <1>1, <2>1 DEF HeldInv
    <3>2. PICK K \in Levels(suite) : Runs(suite, TheCall.phase, todo, mem.held, K[call])
      BY <3>1
    <3>3. ~mem'.fault /\ Runs(suite, TheCall.phase, todo', mem'.held, K[call])
      BY <1>1, <3>1, <3>2, WorkRuns
    <3> QED
      BY <3>3
  <2> QED
    BY <1>2, <2>1 DEF HeldInv
<1>4. OwnedInv'
  <2>1. OwnedCount' = OwnedCount
    BY <1>2 DEF OwnedCount
  <2>2. ASSUME suite.owner = "suite"
        PROVE  ~mem'.fault /\ Runs(suite, TheCall.phase, todo', mem'.held, OwnedCount)
    <3>1. ~mem.fault /\ Runs(suite, TheCall.phase, todo, mem.held, OwnedCount)
      BY <1>1, <2>2 DEF OwnedInv
    <3> QED
      BY <1>1, <3>1, WorkRuns
  <2>3. suite.owner = "suite" => \A k \in 1..call : TouchedBy(suite, HostCalls(suite)[k]) => allocated
    BY <1>1 DEF OwnedInv
  <2> QED
    BY <1>2, <2>1, <2>2, <2>3 DEF OwnedInv
<1> QED
  BY <1>2, <1>3, <1>4 DEF ResidencyInv

(* A new call of the host.                                                 *)
LEMMA DispatchInv == ASSUME ResidencyInv, Dispatch PROVE ResidencyInv'
<1> DEFINE n == Len(HostCalls(suite))
           c == HostCalls(suite)[call + 1]
           first == suite.owner = "suite" /\ ~allocated /\ Touches(suite, c.phase, c.group)
           P == CallProgram(suite, c.phase, c.group, Columns(suite, c))
           pre == IF first /\ SuiteOwnedResident(suite) THEN One("enter create", Parts) ELSE <<>>
<1>1. /\ suite \in Derived /\ call \in 0..n /\ todo \in Seq(Items) /\ mem \in Memory
      /\ errflg \in BOOLEAN /\ allocated \in BOOLEAN /\ disturbed \in BOOLEAN
      /\ HeldInv /\ OwnedInv
  BY DEF ResidencyInv, TypeBase
<1>2. /\ todo = <<>> /\ call < n /\ todo' = pre \o P /\ allocated' = (allocated \/ first) /\ call' = call + 1
      /\ suite' = suite /\ mem' = mem /\ errflg' = errflg /\ disturbed' = disturbed
  BY DEF Dispatch, Idle
<1>3. WellFormed(suite)
  BY <1>1, DerivedIs
<1>16. n \in Nat
  BY <1>3, HostCallsLen
<1>4. n \in Nat /\ call \in Nat /\ call + 1 \in 1..n /\ call' \in 0..n /\ call' # 0
  <2>1. call \in 0..n /\ call < n /\ call' = call + 1
    BY <1>1, <1>2
  <2> HIDE DEF n
  <2> QED
    BY <1>16, <2>1
<1>5. /\ c \in Records(suite) /\ c.phase \in CallPhases /\ c.group \in GroupsOf(suite, c.phase)
      /\ Columns(suite, c) \in SomeParts
      /\ c.phase = "finalize" <=> call + 1 = n
  BY <1>3, <1>4, HostCallIs
<1>6. P \in Seq(Items)
  BY <1>3, <1>5, ProgramIs
<1>7. Runs(suite, c.phase, One("enter create", Parts), 0, 1)
  BY RunsFirst DEF SomeParts
<1>8. TheCall' = c
  <2>1. TheCall' = HostCalls(suite')[call']
    BY <1>4 DEF TheCall
  <2> QED
    BY <1>2, <2>1
<1>9. call > 0 => TheCall.phase # "finalize"
  <2>1. ASSUME call > 0 PROVE TheCall.phase # "finalize"
    <3>1. TheCall = HostCalls(suite)[call]
      BY <2>1 DEF TheCall
    <3>2. call \in 1..n /\ call # n
      <4>1. call \in 0..n /\ call < n
        BY <1>1, <1>2
      <4> HIDE DEF n
      <4> QED
        BY <1>16, <2>1, <4>1
    <3> QED
      BY <1>3, <3>1, <3>2, HostCallIs
  <2> QED
    BY <2>1
<1>10. TheCall.phase # "finalize"
  <2>1. call = 0 => TheCall.phase = "none"
    BY DEF TheCall, Call
  <2>2. call = 0 \/ call > 0
    BY <1>1, <1>4
  <2> QED
    BY <1>9, <2>1, <2>2
<1> HIDE DEF n, P, c
<1>11. pre \o P \in Seq(Items)
  <2>3. One("enter create", Parts) \in Seq(Items)
    BY <1>7 DEF Runs
  <2>1. <<>> \in Seq(Items)
    OBVIOUS
  <2> HIDE DEF first
  <2>2. pre \in Seq(Items)
    BY <2>1, <2>3
  <2> HIDE DEF pre
  <2> QED
    BY <1>6, <2>2
<1>12. ~(first /\ SuiteOwnedResident(suite)) => pre \o P = P
  <2> HIDE DEF first
  <2>1. <<>> \o P = P
    BY <1>6
  <2>2. ~(first /\ SuiteOwnedResident(suite)) => pre = <<>>
    OBVIOUS
  <2> QED
    BY <2>1, <2>2
<1>13. TypeBase'
  <2>1. call' \in 0..Len(HostCalls(suite'))
    BY <1>2, <1>4 DEF n
  <2>2. todo' \in Seq(Items) /\ allocated' \in BOOLEAN
    BY <1>1, <1>2, <1>11
  <2> QED
    BY <1>1, <1>2, <2>1, <2>2 DEF TypeBase
<1>14. HeldInv'
  <2>1. ASSUME suite.owner # "suite", PairedOf(suite)
        PROVE  ~mem'.fault /\ \E K \in Levels(suite) : Runs(suite, c.phase, todo', mem'.held, K[call + 1])
    <3>1. ~mem.fault /\ \E K \in Levels(suite) : Runs(suite, TheCall.phase, todo, mem.held, K[call])
      BY <1>1, <2>1 DEF HeldInv
    <3>2. PICK K \in Levels(suite) : Runs(suite, TheCall.phase, todo, mem.held, K[call])
      BY <3>1
    <3>3. mem.held = K[call]
      BY <1>2, <3>2, PathOfNone DEF Runs
    <3>4. CallRunsOf(suite, c, K[call], K[call + 1])
      BY <1>1, <1>2, <1>3, LevelsAre DEF n, c
    <3>5. Runs(suite, c.phase, P, K[call], K[call + 1])
      BY <3>4 DEF CallRunsOf, P
    <3>6. todo' = P
      BY <1>2, <1>12, <2>1
    <3> QED
      BY <1>2, <3>1, <3>3, <3>5, <3>6
  <2> QED
    BY <1>2, <1>8, <2>1 DEF HeldInv
<1>15. OwnedInv'
  <2>1. ASSUME suite.owner = "suite"
        PROVE  /\ ~mem'.fault
               /\ Runs(suite, c.phase, todo', mem'.held, OwnedCount')
               /\ \A k \in 1..call' : TouchedBy(suite, HostCalls(suite)[k]) => allocated'
    <3>1. /\ ~mem.fault /\ Runs(suite, TheCall.phase, todo, mem.held, OwnedCount)
          /\ \A k \in 1..call : TouchedBy(suite, HostCalls(suite)[k]) => allocated
      BY <1>1, <2>1 DEF OwnedInv
    <3>2. mem.held = OwnedCount
      BY <1>2, <3>1, PathOfNone DEF Runs
    <3>3. mem.held = IF SuiteOwnedResident(suite) /\ allocated THEN 1 ELSE 0
      BY <1>10, <3>2 DEF OwnedCount
    <3>4. OwnedCount' = IF SuiteOwnedResident(suite) /\ allocated' /\ c.phase # "finalize" THEN 1 ELSE 0
      <4>1. SuiteOwnedResident(suite)' = SuiteOwnedResident(suite)
        BY <1>2
      <4> QED
        BY <1>8, <4>1 DEF OwnedCount
    <3>5. /\ SuiteOwnedResident(suite) /\ c.phase = "finalize" => Runs(suite, c.phase, P, 1, 0)
          /\ SuiteOwnedResident(suite) /\ c.phase # "finalize" => Runs(suite, c.phase, P, 1, 1)
          /\ ~SuiteOwnedResident(suite) \/ (c.phase # "finalize" /\ ~Touches(suite, c.phase, c.group)) =>
               Runs(suite, c.phase, P, 0, 0)
      BY <1>3, <1>5, <2>1, SuiteOwnedRuns DEF P
    <3>6. \A k \in 1..call' : TouchedBy(suite, HostCalls(suite)[k]) => allocated'
      <4> SUFFICES ASSUME NEW k \in 1..call', TouchedBy(suite, HostCalls(suite)[k]) PROVE allocated'
        OBVIOUS
      <4>1. k \in 1..call \/ k = call + 1
        <5>1. call' = call + 1 /\ call \in Nat
          BY <1>2, <1>4
        <5> QED
          BY <5>1
      <4>2. CASE k \in 1..call
        BY <1>2, <3>1, <4>2
      <4>3. CASE k = call + 1
        BY <1>2, <2>1, <4>3 DEF TouchedBy, c
      <4> QED
        BY <4>1, <4>2, <4>3
    <3>7. Runs(suite, c.phase, pre \o P, mem.held, OwnedCount')
      <4>1. CASE ~SuiteOwnedResident(suite)
        BY <1>12, <3>3, <3>4, <3>5, <4>1
      <4>2. CASE SuiteOwnedResident(suite) /\ c.phase = "finalize"
        <5>1. Used(suite) # {}
          BY <4>2 DEF SuiteOwnedResident, UsesIn
        <5>2. PICK k \in 1..n : TouchedBy(suite, HostCalls(suite)[k])
          BY <1>3, <5>1, SomeCallTouches DEF n
        <5>3. k # n
          <6>1. c = HostCalls(suite)[n] /\ c.phase = "finalize" /\ c.group \in DOMAIN suite.groups
            BY <1>3, <1>5, <4>2, GroupsAre DEF c
          <6>2. ~TouchedBy(suite, c)
            BY <1>3, <6>1, TablelessDoNotTouch DEF TouchedBy
          <6> QED
            BY <5>2, <6>1, <6>2
        <5>4. k \in 1..call
          BY <1>1, <1>4, <1>5, <4>2, <5>2, <5>3
        <5>5. allocated
          BY <3>1, <5>2, <5>4
        <5> QED
          BY <1>12, <3>3, <3>4, <3>5, <4>2, <5>5
      <4>3. CASE SuiteOwnedResident(suite) /\ c.phase # "finalize" /\ allocated
        BY <1>2, <1>12, <3>3, <3>4, <3>5, <4>3
      <4>4. CASE SuiteOwnedResident(suite) /\ c.phase # "finalize" /\ ~allocated /\ Touches(suite, c.phase, c.group)
        <5>1. pre = One("enter create", Parts) /\ allocated' /\ mem.held = 0 /\ OwnedCount' = 1
          BY <1>2, <2>1, <3>3, <3>4, <4>4
        <5> HIDE DEF pre
        <5> QED
          BY <1>7, <3>5, <4>4, <5>1, RunsCat
      <4>5. CASE SuiteOwnedResident(suite) /\ c.phase # "finalize" /\ ~allocated /\ ~Touches(suite, c.phase, c.group)
        BY <1>2, <1>12, <3>3, <3>4, <3>5, <4>5
      <4> QED
        BY <4>1, <4>2, <4>3, <4>4, <4>5
    <3> QED
      BY <1>2, <3>1, <3>6, <3>7
  <2> QED
    BY <1>2, <1>8, <2>1 DEF OwnedInv
<1> QED
  BY <1>13, <1>14, <1>15 DEF ResidencyInv

(* The host's own computation, where it has the variable.                  *)
LEMMA ComputesInv == ASSUME ResidencyInv, HostComputes PROVE ResidencyInv'
<1> DEFINE space == IF suite.owner = "managed" THEN "device" ELSE "host"
<1>1. TypeBase /\ HeldInv /\ suite \in Derived /\ call \in 0..Len(HostCalls(suite)) /\ mem \in Memory
      /\ suite.owner # "suite" /\ todo = <<>> /\ disturbed \in BOOLEAN
  BY DEF ResidencyInv, TypeBase, HostComputes, BetweenSteps, Idle
<1>2. /\ suite' = suite /\ call' = call /\ todo' = todo /\ errflg' = errflg /\ allocated' = allocated
      /\ mem' = Computed(mem, space, TRUE, Parts) /\ disturbed' \in BOOLEAN
  BY <1>1 DEF HostComputes
<1>3. Parts \in SomeParts
  BY DEF SomeParts
<1>4. /\ mem' \in Memory /\ mem'.held = mem.held
      /\ (space = "device" => mem.held > 0) => mem'.fault = mem.fault
  <2> HIDE DEF space
  <2> QED
    BY <1>1, <1>2, <1>3, ComputedIs
<1>5. TheCall' = TheCall
  BY <1>2 DEF TheCall
<1>6. TypeBase'
  BY <1>1, <1>2, <1>4 DEF TypeBase
<1>7. HeldInv'
  <2>1. ASSUME PairedOf(suite)
        PROVE  ~mem'.fault /\ \E K \in Levels(suite) : Runs(suite, TheCall.phase, todo', mem'.held, K[call])
    <3>1. ~mem.fault /\ \E K \in Levels(suite) : Runs(suite, TheCall.phase, todo, mem.held, K[call])
      BY <1>1, <2>1 DEF HeldInv
    <3>2. PICK K \in Levels(suite) : Runs(suite, TheCall.phase, todo, mem.held, K[call])
      BY <3>1
    <3>3. mem.held = K[call]
      BY <1>1, <3>2, PathOfNone DEF Runs
    <3>4. K[call] \in Counts /\ K[call] >= Base(suite)
      BY <1>1, DerivedIs, LevelsAre
    <3>5. space = "device" => Base(suite) = 1
      BY DEF Base
    <3>6. space = "device" => mem.held > 0
      BY <3>3, <3>4, <3>5 DEF Counts
    <3> QED
      BY <1>2, <1>4, <3>1, <3>2, <3>6
  <2> QED
    BY <1>2, <1>5, <2>1 DEF HeldInv
<1>8. OwnedInv'
  BY <1>1, <1>2 DEF OwnedInv
<1> QED
  BY <1>6, <1>7, <1>8 DEF ResidencyInv

(* A step that changes nothing.                                            *)
LEMMA StutterInv == ASSUME ResidencyInv, UNCHANGED vars PROVE ResidencyInv'
<1>1. /\ suite' = suite /\ call' = call /\ todo' = todo /\ mem' = mem /\ errflg' = errflg
      /\ allocated' = allocated /\ disturbed' = disturbed
  BY DEF vars
<1>2. TheCall' = TheCall /\ OwnedCount' = OwnedCount
  BY <1>1 DEF TheCall, OwnedCount
<1>3. TypeBase /\ HeldInv /\ OwnedInv
  BY DEF ResidencyInv
<1>4. TypeBase'
  BY <1>1, <1>3 DEF TypeBase
<1>5. HeldInv'
  BY <1>1, <1>2, <1>3 DEF HeldInv
<1>6. OwnedInv'
  BY <1>1, <1>2, <1>3 DEF OwnedInv
<1> QED
  BY <1>4, <1>5, <1>6 DEF ResidencyInv

(* ResidencyInv holds in every state of every simulation: it is what the   *)
(* generated directives and the host's calls keep between them.            *)
THEOREM ResidencyInvariance == Spec => []ResidencyInv
<1>1. Init => ResidencyInv
  BY InitInv
<1>2. ResidencyInv /\ [Next]_vars => ResidencyInv'
  <2> SUFFICES ASSUME ResidencyInv, [Next]_vars PROVE ResidencyInv'
    OBVIOUS
  <2>1. CASE Dispatch
    BY <2>1, DispatchInv
  <2>2. CASE Directive \/ SchemeCall \/ SchemeFails \/ GuardedCall
    BY <2>2, WorkInv DEF Work
  <2>3. CASE HostComputes
    BY <2>3, ComputesInv
  <2>4. CASE Done
    BY <2>4, StutterInv DEF Done
  <2>5. CASE UNCHANGED vars
    BY <2>5, StutterInv
  <2> QED
    BY <2>1, <2>2, <2>3, <2>4, <2>5 DEF Next
<1> QED
  BY <1>1, <1>2, PTL DEF Spec

(* No directive and no kernel ever finds its data missing (NeverFaults):   *)
(* in any simulation of any suites, groups, column chunks and time steps,  *)
(* with the schemes failing wherever they may.                             *)
THEOREM DataIsPresent == Spec => []NeverFaults
<1>1. ResidencyInv => NeverFaults
  <2> SUFFICES ASSUME ResidencyInv PROVE NeverFaults
    OBVIOUS
  <2>1. HeldInv /\ OwnedInv
    BY DEF ResidencyInv
  <2> QED
    BY <2>1, PairedIs DEF NeverFaults, HeldInv, OwnedInv
<1> QED
  BY <1>1, ResidencyInvariance, PTL

(* Every reference the generated directives take to the device copy of a   *)
(* host variable is given back (ReferencesBalanced): after the simulation, *)
(* and between its time steps where no lifetime spans them.                *)
THEOREM EnteredIsExited == Spec => []ReferencesBalanced
<1>1. ResidencyInv => ReferencesBalanced
  <2> SUFFICES ASSUME ResidencyInv, Paired, BetweenSteps, HostMatched(suite),
                      Finished \/ ~\E lt \in Lifetimes : lt.entry \in OneTimePhases
               PROVE  mem.held = Base(suite)
    BY DEF ReferencesBalanced, EntersAndExitsPair, Base
  <2>1. TypeBase /\ HeldInv /\ PairedOf(suite) /\ suite.owner # "suite" /\ todo = <<>>
    BY PairedIs DEF ResidencyInv, HostMatched, BetweenSteps, Idle
  <2>2. suite \in Derived /\ call \in 0..Len(HostCalls(suite)) /\ WellFormed(suite)
    BY <2>1, DerivedIs DEF TypeBase
  <2>3. PICK K \in Levels(suite) : Runs(suite, TheCall.phase, todo, mem.held, K[call])
    BY <2>1 DEF HeldInv
  <2>4. mem.held = K[call]
    BY <2>1, <2>3, PathOfNone DEF Runs
  <2>5. CASE call = 0 \/ call = Len(HostCalls(suite))
    BY <2>2, <2>4, <2>5, LevelsAre
  <2>6. CASE call # 0 /\ call # Len(HostCalls(suite))
    <3>1. call > 0
      BY <2>2, <2>6, HostCallsLen
    <3>2. NoOnce(suite)
      BY <2>6 DEF NoOnce, Finished, Lifetimes
    <3>3. TheCall = HostCalls(suite)[call] /\ call \in 1..Len(HostCalls(suite))
      BY <2>2, <2>6, <3>1, HostCallsLen DEF TheCall
    <3>4. TheCall.phase # "none"
      <4>1. TheCall.phase \in CallPhases
        BY <2>2, <3>3, HostCallIs
      <4> QED
        BY <4>1, PhasesAre DEF CallPhases
    <3>5. AtEnd(suite, TheCall)
      BY <3>4 DEF BetweenSteps, AtEnd
    <3> QED
      BY <2>2, <2>4, <3>1, <3>2, <3>3, <3>5, LevelsAre
  <2> QED
    BY <2>5, <2>6
<1> QED
  BY <1>1, ResidencyInvariance, PTL

(* The types of the variables, and at most two references to the device    *)
(* copy at any moment: the host's own and one of the suite's directives.   *)
THEOREM ResidencyTypes == Spec => []TypeOK
<1>1. ResidencyInv => TypeOK
  <2> SUFFICES ASSUME ResidencyInv PROVE TypeOK
    OBVIOUS
  <2>1. TypeBase /\ HeldInv /\ OwnedInv
    BY DEF ResidencyInv
  <2>2. suite \in Derived /\ call \in 0..Len(HostCalls(suite)) /\ WellFormed(suite)
    BY <2>1, DerivedIs DEF TypeBase
  <2>3. ASSUME NEW e \in Counts, Runs(suite, TheCall.phase, todo, mem.held, e)
        PROVE  mem.held <= 2
    <3>1. CASE todo = <<>>
      <4>1. mem.held = e
        BY <2>3, <3>1, PathOfNone DEF Runs
      <4> QED
        BY <4>1 DEF Counts
    <3>2. CASE todo # <<>>
      <4>1. mem.held \in Counts
        BY <2>3, <3>2, TodoStep
      <4> QED
        BY <4>1 DEF Counts
    <3> QED
      BY <3>1, <3>2
  <2>4. Paired => mem.held <= 2
    <3>1. CASE suite.owner = "suite"
      <4>1. OwnedCount \in Counts
        BY DEF OwnedCount, Counts
      <4>2. Runs(suite, TheCall.phase, todo, mem.held, OwnedCount)
        BY <2>1, <3>1 DEF OwnedInv
      <4> QED
        BY <2>3, <4>1, <4>2
    <3>2. CASE suite.owner # "suite"
      <4> SUFFICES ASSUME Paired PROVE mem.held <= 2
        OBVIOUS
      <4>1. PICK K \in Levels(suite) : Runs(suite, TheCall.phase, todo, mem.held, K[call])
        BY <2>1, <3>2, PairedIs DEF HeldInv
      <4>2. K[call] \in Counts
        BY <2>2, LevelsAre
      <4> QED
        BY <2>3, <4>1, <4>2
    <3> QED
      BY <3>1, <3>2
  <2>5. /\ suite \in Derived /\ call \in 0..Len(HostCalls(suite))
        /\ todo \in Seq([op : Schemes \cup Directives, parts : SUBSET Parts]) /\ mem \in Memory
        /\ {errflg, allocated, disturbed} \subseteq BOOLEAN
    BY <2>1 DEF TypeBase, Items, SomeParts
  <2> QED
    BY <2>4, <2>5 DEF TypeOK
<1> QED
  BY <1>1, ResidencyInvariance, PTL
=============================================================================

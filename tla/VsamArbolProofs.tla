--------------------------- MODULE VsamArbolProofs ---------------------------
(***************************************************************************)
(* The trees and the blocks of a VSAM file, for any number of keys, values *)
(* and blocks: what searches, splits, loans and merges do.                 *)
(*                                                                         *)
(* The clusters in a file say little of the tree they make: a slot has a   *)
(* key and a child.  So the tree is a record G beside the blocks D         *)
(* (Arbol): the root, the set of the clusters, and for each cluster its    *)
(* height over the leaves, its parent, and the keys lo and hi between      *)
(* which are all those below it; for each key the record it names and the  *)
(* cluster that shows it.  An operation is right when there is another G   *)
(* for the blocks it leaves, with the keys it should have.                 *)
(*                                                                         *)
(* The blocks are in use, or in the free chain (Disco): the ones in use    *)
(* are a set X, and the chain, ordered by a rank, has all the others.      *)
(*                                                                         *)
(* Inserting goes from a leaf up, and each level has the key still to put, *)
(* s, with the cluster to its right already in the file (Pendiente);       *)
(* forma goes up in the same way with a cluster that may be below half     *)
(* (Debe), and what is left of the way up is a path from the root (Ruta).  *)
(***************************************************************************)
EXTENDS VsamArbol, TLAPS, WellFoundedInduction, FiniteSetTheorems, SequenceTheorems

(* Induction: the library has it for predicates, which the provers cannot instantiate; here *)
(* it is for sets of numbers, from the well-foundedness of < alone.                        *)

\* A set of numbers that is not empty has a least one.
LEMMA Minimo ==
    ASSUME NEW T, T \subseteq Nat, T # {}
    PROVE  \E x \in T : \A y \in T : x <= y
<1> DEFINE R == OpToRel(<, Nat)
<1>1. IsWellFoundedOn(R, Nat)
  BY NatLessThanWellFounded, Zenon
<1>2. PICK x \in T : \A y \in T : ~ (<<y, x>> \in R)
  BY <1>1, WFMin, Zenon
<1>3. \A y \in T : y < x => <<y, x>> \in R
  BY Zenon DEF OpToRel
<1>4. \A y \in T : ~ (y < x)
  BY <1>2, <1>3, Zenon
<1> HIDE DEF R
<1>5. \A y \in T : x <= y
  BY <1>4
<1> QED
  BY <1>5

\* A set with 0, and with k + 1 when it has k, has all numbers up to n.
LEMMA Hasta ==
    ASSUME NEW n \in Nat, NEW S, 0 \in S, \A k \in 0..n-1 : k \in S => k + 1 \in S
    PROVE  \A k \in 0..n : k \in S
<1> DEFINE T == {k \in 0..n : k \notin S}
<1> SUFFICES ASSUME T # {} PROVE FALSE
  BY Zenon
<1>1. PICK x \in T : \A y \in T : x <= y
  <2>1. T \subseteq Nat
    OBVIOUS
  <2> HIDE DEF T
  <2> QED BY <2>1, Minimo
<1>2. x # 0 /\ x \in 0..n /\ x - 1 \in 0..n-1 /\ x - 1 + 1 = x
  OBVIOUS
<1>3. x - 1 \notin T
  BY <1>1, <1>2
<1>4. x - 1 \in S /\ x \notin S
  BY <1>2, <1>3
<1> QED
  BY <1>2, <1>4

\* The walk from x, place by place.
LEMMA DesdeEs ==
    ASSUME NEW N \in Nat, NEW x, NEW sig
    PROVE  LET S == Desde(x, sig, N)
           IN  /\ S[0] = x /\ DOMAIN S = 0..N
               /\ \A n \in 0..N-1 : S[n + 1] = IF S[n] = 0 THEN 0 ELSE sig[S[n]]
<1>0. N \in Nat
  OBVIOUS
<1> DEFINE Bueno(m, S) ==
               S = [n \in 0..m |-> IF n = 0 THEN x
                                   ELSE IF S[n - 1] = 0 THEN 0 ELSE sig[S[n - 1]]]
           Hay == {m \in 0..N : \E S : Bueno(m, S)}
<1>1. N \in Hay
  <2>1. 0 \in Hay
    <3> DEFINE S == [n \in 0..0 |-> x]
    <3>1. Bueno(0, S)
      OBVIOUS
    <3> HIDE DEF S, Bueno
    <3> QED BY <3>1, <1>0
  <2>2. ASSUME NEW k \in 0..N-1, k \in Hay PROVE k + 1 \in Hay
    <3>0. k + 1 \in 0..N /\ k \in Nat
      BY <1>0
    <3>1. PICK S : Bueno(k, S)
      BY <2>2
    <3> DEFINE nx == IF S[k] = 0 THEN 0 ELSE sig[S[k]]
               T == [n \in 0..k+1 |-> IF n = k + 1 THEN nx ELSE S[n]]
    <3>2. \A n \in 0..k : T[n] = S[n]
      BY <3>0
    <3>3. T[k + 1] = nx
      BY <3>0
    <3>4. \A n \in 0..k : S[n] = IF n = 0 THEN x
                                 ELSE IF S[n - 1] = 0 THEN 0 ELSE sig[S[n - 1]]
      BY <3>1
    <3>5. \A n \in 0..k+1 : T[n] = IF n = 0 THEN x
                                   ELSE IF T[n - 1] = 0 THEN 0 ELSE sig[T[n - 1]]
      <4> TAKE n \in 0..k+1
      <4>1. CASE n = k + 1
        <5>1. n # 0 /\ n - 1 = k /\ k \in 0..k
          BY <4>1, <3>0
        <5> HIDE DEF T
        <5> QED BY <4>1, <5>1, <3>2, <3>3
      <4>2. CASE n # k + 1
        <5>1. n \in 0..k /\ (n # 0 => n - 1 \in 0..k)
          BY <4>2, <3>0
        <5> HIDE DEF T
        <5> QED BY <5>1, <3>2, <3>4
      <4> QED BY <4>1, <4>2
    <3>6. Bueno(k + 1, T)
      <4> DEFINE U == [n \in 0..k+1 |-> IF n = 0 THEN x
                                        ELSE IF T[n - 1] = 0 THEN 0 ELSE sig[T[n - 1]]]
      <4>1. DOMAIN T = 0..k+1 /\ T = [n \in 0..k+1 |-> T[n]]
        OBVIOUS
      <4> HIDE DEF T
      <4>2. T = U
        BY <3>5, <4>1
      <4> QED BY <4>2
    <3> HIDE DEF Bueno, T
    <3> QED BY <3>6, <3>0
  <2> HIDE DEF Hay
  <2> QED BY <2>1, <2>2, <1>0, Hasta
<1> DEFINE S == Desde(x, sig, N)
<1>2. Bueno(N, S)
  <2>1. PICK T : Bueno(N, T)
    BY <1>1
  <2> DEFINE V == CHOOSE S1 : Bueno(N, S1)
  <2>2. S = V
    BY DEF Desde
  <2> HIDE DEF Bueno
  <2>3. Bueno(N, V)
    BY <2>1
  <2> QED BY <2>2, <2>3
<1> HIDE DEF Hay, S
<1>3. /\ S[0] = x /\ DOMAIN S = 0..N
      /\ \A n \in 0..N-1 : S[n + 1] = IF S[n] = 0 THEN 0 ELSE sig[S[n]]
  <2>1. S[0] = x /\ DOMAIN S = 0..N
    BY <1>2, <1>0
  <2>2. ASSUME NEW n \in 0..N-1
        PROVE  S[n + 1] = IF S[n] = 0 THEN 0 ELSE sig[S[n]]
    <3>1. n + 1 \in 0..N /\ n + 1 # 0 /\ (n + 1) - 1 = n
      BY <1>0
    <3>2. \A m \in 0..N : S[m] = IF m = 0 THEN x
                                       ELSE IF S[m - 1] = 0 THEN 0 ELSE sig[S[m - 1]]
      BY <1>2
    <3> HIDE DEF Bueno
    <3>3. S[n + 1] = IF n + 1 = 0 THEN x
                     ELSE IF S[(n + 1) - 1] = 0 THEN 0 ELSE sig[S[(n + 1) - 1]]
      BY <3>1, <3>2
    <3> QED BY <3>1, <3>3
  <2> QED BY <2>1, <2>2
<1> QED BY <1>3 DEF S

\* The walk along a chain of places with ranks that go up gives them all, each once, and
\* ends.
LEMMA Recorrido ==
    ASSUME NEW N \in Nat, NEW L, IsFiniteSet(L), Cardinality(L) <= N, 0 \notin L,
           NEW x \in L \cup {0}, NEW sig, NEW g, \A y \in L : g[y] \in Nat,
           x = 0 => L = {},
           \A y \in L : /\ sig[y] \in L \cup {0}
                        /\ sig[y] # 0 => g[y] < g[sig[y]]
                        /\ y # x => \E z \in L : sig[z] = y
    PROVE  LET S == Desde(x, sig, N)
           IN  /\ Alcanza(S) = L /\ DOMAIN S = 0..N /\ S[N] = 0
               /\ \A m, n \in 0..N : m < n /\ S[n] # 0 => S[m] # 0 /\ g[S[m]] < g[S[n]]
<1>0. N \in Nat /\ 0 \notin L /\ \A y \in L : g[y] \in Nat
  OBVIOUS
<1> DEFINE S == Desde(x, sig, N)
<1>3. /\ S[0] = x /\ DOMAIN S = 0..N
      /\ \A n \in 0..N-1 : S[n + 1] = IF S[n] = 0 THEN 0 ELSE sig[S[n]]
  BY DesdeEs
<1> HIDE DEF S
<1>4. \A n \in 0..N : S[n] \in L \cup {0}
  <2> DEFINE E == {n \in 0..N : S[n] \in L \cup {0}}
  <2>1. 0 \in E
    BY <1>3, <1>0
  <2>2. ASSUME NEW k \in 0..N-1, k \in E PROVE k + 1 \in E
    BY <2>2, <1>3, <1>0
  <2> HIDE DEF E
  <2>3. \A k \in 0..N : k \in E
    BY <2>1, <2>2, <1>0, Hasta
  <2> QED BY <2>3 DEF E
<1>5. \A n \in 0..N : S[n] # 0 =>
          \A m \in 0..n-1 : S[m] # 0 /\ g[S[m]] < g[S[n]]
  <2> DEFINE E == {n \in 0..N : S[n] # 0 =>
                       \A m \in 0..n-1 : S[m] # 0 /\ g[S[m]] < g[S[n]]}
  <2>1. 0 \in E
    BY <1>0
  <2>2. ASSUME NEW k \in 0..N-1, k \in E PROVE k + 1 \in E
    <3>0. k + 1 \in 0..N /\ k \in 0..N /\ k \in Nat
      BY <1>0
    <3>1. SUFFICES ASSUME S[k + 1] # 0, NEW m \in 0..(k + 1)-1
                   PROVE  S[m] # 0 /\ g[S[m]] < g[S[k + 1]]
      BY <3>0
    <3>2. S[k] # 0 /\ S[k + 1] = sig[S[k]] /\ S[k] \in L /\ S[k + 1] \in L
      BY <1>3, <1>4, <3>0, <3>1
    <3>3. g[S[k]] < g[S[k + 1]]
      BY <3>1, <3>2
    <3>4. m = k \/ m \in 0..k-1
      BY <3>0, <3>1
    <3>5. CASE m \in 0..k-1
      <4>1. S[m] # 0 /\ g[S[m]] < g[S[k]]
        BY <3>5, <2>2, <3>2
      <4>2. S[m] \in L
        <5>1. m \in 0..N
          BY <3>0, <3>5, <1>0
        <5> QED BY <5>1, <4>1, <1>4
      <4> QED BY <4>1, <4>2, <3>2, <3>3, <1>0
    <3> QED BY <3>2, <3>3, <3>4, <3>5
  <2> HIDE DEF E
  <2>3. \A k \in 0..N : k \in E
    BY <2>1, <2>2, <1>0, Hasta
  <2> QED BY <2>3 DEF E
<1>6. S[N] = 0
  <2> SUFFICES ASSUME S[N] # 0 PROVE FALSE
    OBVIOUS
  <2>1. \A n \in 0..N : S[n] \in L
    <3> TAKE n \in 0..N
    <3>1. (n = N \/ n \in 0..N-1) /\ N \in 0..N
      BY <1>0
    <3>2. S[n] # 0
      BY <3>1, <1>5
    <3> QED BY <3>2, <1>4
  <2>2. \A m, n \in 0..N : m < n => S[m] # S[n]
    <3> TAKE m, n \in 0..N
    <3>1. m < n => m \in 0..n-1
      BY <1>0
    <3>2. m < n => g[S[m]] < g[S[n]]
      BY <3>1, <1>5, <2>1, <1>0
    <3> QED BY <3>2, <2>1, <1>0
  <2> DEFINE A == 0..N
             h == [n \in A |-> S[n]]
  <2>3. IsFiniteSet(A) /\ Cardinality(A) = N + 1
    <3>1. IsFiniteSet(0..N)
          /\ Cardinality(0..N) = IF 0 > N THEN 0 ELSE N - 0 + 1
      BY <1>0, FS_Interval
    <3> QED BY <3>1, <1>0
  <2>4. h \in [A -> L]
    BY <2>1
  <2>c. Cardinality(L) \in Nat
    BY FS_CardinalityType
  <2> HIDE DEF A, h
  <2>d. Cardinality(L) < Cardinality(A)
    BY <2>3, <2>c, <1>0
  <2>5. \E a, b \in A : a # b /\ h[a] = h[b]
    BY <2>3, <2>4, <2>d, FS_PigeonHole
  <2>6. PICK a, b \in A : a # b /\ h[a] = h[b]
    BY <2>5
  <2>7. S[a] = S[b] /\ a \in 0..N /\ b \in 0..N
    BY <2>6 DEF h, A
  <2> QED BY <2>2, <2>6, <2>7, <1>0
<1>7. ASSUME NEW y0 \in L, \A n \in 0..N : S[n] # y0 PROVE FALSE
  <2> DEFINE T == {y \in L : \A n \in 0..N : S[n] # y}
             R == {g[y] : y \in T}
  <2>1. PICK t \in R : \A u \in R : t <= u
    <3>1. R \subseteq Nat /\ R # {}
      BY <1>0, <1>7
    <3> HIDE DEF R
    <3> QED BY <3>1, Minimo
  <2>2. PICK y \in T : g[y] = t
    OBVIOUS
  <2>3. y # x
    BY <1>3, <1>0
  <2>4. PICK z \in L : sig[z] = y
    BY <2>3
  <2>5. y # 0 /\ y \in L /\ g[z] < g[y]
    BY <2>4, <1>0
  <2>6. z \notin T
    <3> SUFFICES ASSUME z \in T PROVE FALSE
      OBVIOUS
    <3>1. g[z] \in R
      OBVIOUS
    <3>2. t <= g[z]
      BY <2>1, <3>1
    <3>3. g[z] \in Nat /\ g[y] \in Nat
      BY <2>5, <1>0
    <3> QED BY <2>2, <2>5, <3>2, <3>3
  <2>7. PICK n \in 0..N : S[n] = z
    BY <2>6
  <2>8. n # N /\ n \in 0..N-1 /\ n + 1 \in 0..N
    BY <2>7, <1>6, <1>0
  <2>9. S[n + 1] = y
    BY <2>7, <2>8, <1>3, <1>0, <2>4
  <2> QED BY <2>8, <2>9
<1>8. Alcanza(S) = L
  <2>1. Alcanza(S) = {S[n] : n \in 0..N} \ {0}
    BY <1>3 DEF Alcanza
  <2>2. \A y \in L : \E n \in 0..N : S[n] = y
    BY <1>7
  <2> QED BY <2>1, <2>2, <1>4, <1>0
<1>9. \A m, n \in 0..N : m < n /\ S[n] # 0 => S[m] # 0 /\ g[S[m]] < g[S[n]]
  <2> TAKE m, n \in 0..N
  <2>1. m < n => m \in 0..n-1
    BY <1>0
  <2> QED BY <2>1, <1>5
<1> QED BY <1>3, <1>6, <1>8, <1>9 DEF S

\* The walk down through places of a height each one less ends, and gives the places it goes
\* through.
LEMMA HuellaEs ==
    ASSUME NEW N \in Nat, NEW T, 0 \notin T, NEW x \in T, NEW sig, NEW g, g[x] < N,
           \A y \in T : /\ g[y] \in Nat
                        /\ sig[y] = 0 \/ (sig[y] \in T /\ g[sig[y]] = g[y] - 1)
    PROVE  LET H == Huella(x, sig, N)
           IN  /\ H \in Seq(T) /\ Len(H) \in 1..N /\ H[1] = x
               /\ \A j \in 1..Len(H) : H[j] \in T /\ g[H[j]] = g[x] - j + 1
               /\ \A j \in 1..Len(H)-1 : sig[H[j]] = H[j + 1]
               /\ sig[H[Len(H)]] = 0
<1> DEFINE S == Desde(x, sig, N)
<1>0. N \in Nat /\ 0 \notin T /\ x \in T /\ g[x] \in Nat /\ g[x] < N /\ x # 0
  OBVIOUS
<1>1. /\ S[0] = x /\ DOMAIN S = 0..N
      /\ \A n \in 0..N-1 : S[n + 1] = IF S[n] = 0 THEN 0 ELSE sig[S[n]]
  BY DesdeEs
<1> DEFINE K == CHOOSE k \in 1..N : S[k - 1] # 0 /\ S[k] = 0
<1>H. Huella(x, sig, N) = [j \in 1..K |-> S[j - 1]]
  BY DEF Huella
<1> HIDE DEF S
<1>2. \A n \in 0..N : S[n] = 0 \/ (S[n] \in T /\ g[S[n]] = g[x] - n)
  <2> DEFINE E == {n \in 0..N : S[n] = 0 \/ (S[n] \in T /\ g[S[n]] = g[x] - n)}
  <2>1. 0 \in E
    BY <1>0, <1>1
  <2>2. ASSUME NEW n \in 0..N-1, n \in E PROVE n + 1 \in E
    <3>1. n + 1 \in 0..N /\ n \in Nat
      BY <1>0
    <3>2. CASE S[n] = 0
      BY <3>1, <3>2, <1>1
    <3>3. CASE S[n] # 0
      <4>1. S[n] \in T /\ g[S[n]] = g[x] - n /\ S[n + 1] = sig[S[n]]
        BY <3>3, <2>2, <1>1
      <4>2. sig[S[n]] = 0 \/ (sig[S[n]] \in T /\ g[sig[S[n]]] = g[S[n]] - 1)
        BY <4>1
      <4>3. (g[x] - n) - 1 = g[x] - (n + 1)
        BY <3>1, <1>0
      <4> QED BY <3>1, <4>1, <4>2, <4>3
    <3> QED BY <3>2, <3>3
  <2> HIDE DEF E
  <2>3. \A n \in 0..N : n \in E
    BY <2>1, <2>2, <1>0, Hasta
  <2> QED BY <2>3 DEF E
<1>3. S[N] = 0
  <2> SUFFICES ASSUME S[N] # 0 PROVE FALSE
    OBVIOUS
  <2>1. S[N] \in T /\ g[S[N]] = g[x] - N
    BY <1>2, <1>0
  <2>2. g[S[N]] \in Nat
    BY <2>1
  <2> QED BY <2>1, <2>2, <1>0
<1>4. K \in 1..N /\ S[K - 1] # 0 /\ S[K] = 0
  <2> DEFINE Z == {n \in 0..N : S[n] = 0}
  <2>1. Z \subseteq Nat /\ Z # {}
    BY <1>3, <1>0
  <2>2. PICK k \in Z : \A y \in Z : k <= y
    <3> HIDE DEF Z
    <3> QED BY <2>1, Minimo
  <2>3. k \in 0..N /\ S[k] = 0 /\ k # 0
    BY <2>2, <1>1, <1>0
  <2>4. k \in 1..N /\ k - 1 \in 0..N /\ ~(k <= k - 1)
    BY <2>3, <1>0
  <2>5. S[k - 1] # 0
    BY <2>2, <2>4
  <2> HIDE DEF Z
  <2>6. \E i \in 1..N : S[i - 1] # 0 /\ S[i] = 0
    BY <2>3, <2>4, <2>5
  <2> QED BY <2>6
<1> HIDE DEF K
<1>5. \A n \in 0..N : S[n] # 0 => \A m \in 0..n : S[m] # 0
  <2> DEFINE E == {n \in 0..N : S[n] # 0 => \A m \in 0..n : S[m] # 0}
  <2>1. 0 \in E
    BY <1>0
  <2>2. ASSUME NEW n \in 0..N-1, n \in E PROVE n + 1 \in E
    <3>1. n + 1 \in 0..N /\ n \in Nat
      BY <1>0
    <3>2. SUFFICES ASSUME S[n + 1] # 0, NEW m \in 0..n+1 PROVE S[m] # 0
      BY <3>1
    <3>3. S[n] # 0
      BY <3>2, <1>1
    <3>4. m = n + 1 \/ m \in 0..n
      BY <3>1
    <3> QED BY <3>2, <3>3, <3>4, <2>2
  <2> HIDE DEF E
  <2>3. \A n \in 0..N : n \in E
    BY <2>1, <2>2, <1>0, Hasta
  <2> QED BY <2>3 DEF E
<1> DEFINE H == [j \in 1..K |-> S[j - 1]]
<1>6. \A j \in 1..K : S[j - 1] \in T /\ g[S[j - 1]] = g[x] - j + 1 /\ S[j - 1] # 0
  <2> TAKE j \in 1..K
  <2>1. j - 1 \in 0..K-1 /\ j - 1 \in 0..N /\ K - 1 \in 0..N
    BY <1>4, <1>0
  <2>2. S[j - 1] # 0
    BY <2>1, <1>4, <1>5
  <2>3. S[j - 1] \in T /\ g[S[j - 1]] = g[x] - (j - 1)
    BY <2>1, <2>2, <1>2
  <2>4. g[x] - (j - 1) = g[x] - j + 1
    BY <2>1, <1>0, <1>4
  <2> QED BY <2>2, <2>3, <2>4
<1>7. H \in Seq(T) /\ Len(H) = K
  <2>1. K \in Nat
    BY <1>4, <1>0
  <2>2. H \in [1..K -> T]
    BY <1>6
  <2> HIDE DEF H
  <2> QED BY <2>1, <2>2
<1>8. \A j \in 1..K : H[j] = S[j - 1]
  OBVIOUS
<1>9. \A j \in 1..K-1 : sig[H[j]] = H[j + 1]
  <2> TAKE j \in 1..K-1
  <2>1. j \in 1..K /\ j + 1 \in 1..K /\ j - 1 \in 0..N-1 /\ (j - 1) + 1 = j /\ (j + 1) - 1 = j
    BY <1>4, <1>0
  <2>2. S[j] = sig[S[j - 1]]
    BY <2>1, <1>6, <1>1
  <2> QED BY <2>1, <2>2, <1>8
<1>10. sig[H[K]] = 0
  <2>1. K \in 1..K /\ K - 1 \in 0..N-1 /\ (K - 1) + 1 = K
    BY <1>4, <1>0
  <2>2. S[K] = sig[S[K - 1]]
    BY <2>1, <1>6, <1>1
  <2> QED BY <2>1, <2>2, <1>8, <1>4
<1>11. H[1] = x
  <2>1. 1 \in 1..K /\ 1 - 1 = 0
    BY <1>4, <1>0
  <2> QED BY <2>1, <1>8, <1>1
<1> HIDE DEF H
<1>12. \A j \in 1..K : H[j] \in T /\ g[H[j]] = g[x] - j + 1
  BY <1>6, <1>8
<1>13. Huella(x, sig, N) = H
  BY <1>H DEF H
<1> QED BY <1>4, <1>7, <1>9, <1>10, <1>11, <1>12, <1>13

-----------------------------------------------------------------------------
(* Sequences *)

\* A sequence with an element inserted.
LEMMA Insertado ==
    ASSUME NEW S, NEW s \in Seq(S), NEW k \in 1..Len(s)+1, NEW e \in S
    PROVE  /\ InsertAt(s, k, e) \in Seq(S)
           /\ Len(InsertAt(s, k, e)) = Len(s) + 1
           /\ \A n \in 1..Len(s)+1 : InsertAt(s, k, e)[n] =
                  IF n < k THEN s[n] ELSE IF n = k THEN e ELSE s[n - 1]
<1> DEFINE a == SubSeq(s, 1, k - 1)
           b == SubSeq(s, k, Len(s))
           m == Len(s)
<1>0. m \in Nat /\ k \in 1..m+1 /\ \A i \in 1..m : s[i] \in S
  BY LenProperties, ElementOfSeq
<1>1. /\ a \in Seq(S) /\ Len(a) = k - 1
      /\ \A i \in 1..k-1 : a[i] = s[i]
  <2>1. \A i \in 1..k-1 : s[i] \in S
    BY <1>0
  <2>2. /\ a \in Seq(S) /\ Len(a) = IF 1 <= k - 1 THEN (k - 1) - 1 + 1 ELSE 0
        /\ \A i \in 1..(k-1)-1+1 : a[i] = s[1 + i - 1]
    BY <2>1, <1>0, SubSeqProperties
  <2> HIDE DEF a
  <2> QED BY <2>2, <1>0
<1>2. /\ b \in Seq(S) /\ Len(b) = m - k + 1
      /\ \A i \in 1..m-k+1 : b[i] = s[k + i - 1]
  <2>1. \A i \in k..m : s[i] \in S
    BY <1>0
  <2>2. /\ b \in Seq(S) /\ Len(b) = IF k <= m THEN m - k + 1 ELSE 0
        /\ \A i \in 1..m-k+1 : b[i] = s[k + i - 1]
    BY <2>1, <1>0, SubSeqProperties
  <2> HIDE DEF b
  <2> QED BY <2>2, <1>0
<1> HIDE DEF a, b
<1>3. <<e>> \in Seq(S) /\ Len(<<e>>) = 1 /\ <<e>>[1] = e
  OBVIOUS
<1> DEFINE c == a \o <<e>>
<1>4. /\ c \in Seq(S) /\ Len(c) = k
      /\ \A i \in 1..k : c[i] = IF i < k THEN s[i] ELSE e
  <2>1. /\ c \in Seq(S) /\ Len(c) = Len(a) + Len(<<e>>)
        /\ \A i \in 1..Len(a) + Len(<<e>>) : c[i] = IF i <= Len(a) THEN a[i] ELSE <<e>>[i - Len(a)]
    BY <1>1, <1>3, ConcatProperties
  <2>2. Len(a) + Len(<<e>>) = k /\ Len(a) = k - 1
    BY <1>1, <1>3, <1>0
  <2>3. ASSUME NEW i \in 1..k PROVE c[i] = IF i < k THEN s[i] ELSE e
    <3>1. CASE i < k
      BY <3>1, <2>1, <2>2, <1>0, <1>1
    <3>2. CASE ~(i < k)
      <4>1. i = k /\ i - Len(a) = 1 /\ ~(i <= Len(a))
        BY <3>2, <2>2, <1>0
      <4> QED BY <4>1, <2>1, <2>2, <1>3
    <3> QED BY <3>1, <3>2
  <2> HIDE DEF c
  <2> QED BY <2>1, <2>2, <2>3
<1> HIDE DEF c
<1>5. InsertAt(s, k, e) = c \o b
  BY DEF InsertAt, a, b, c
<1>6. /\ c \o b \in Seq(S) /\ Len(c \o b) = Len(c) + Len(b)
      /\ \A i \in 1..Len(c) + Len(b) : (c \o b)[i] = IF i <= Len(c) THEN c[i] ELSE b[i - Len(c)]
  BY <1>2, <1>4, ConcatProperties
<1>7. Len(c) + Len(b) = m + 1
  BY <1>0, <1>2, <1>4
<1>8. ASSUME NEW n \in 1..m+1
      PROVE  (c \o b)[n] = IF n < k THEN s[n] ELSE IF n = k THEN e ELSE s[n - 1]
  <2>1. CASE n <= k
    BY <2>1, <1>0, <1>4, <1>6, <1>7
  <2>2. CASE ~(n <= k)
    <3>1. n - k \in 1..m-k+1 /\ k + (n - k) - 1 = n - 1
      BY <2>2, <1>0
    <3> QED BY <2>2, <3>1, <1>0, <1>2, <1>4, <1>6, <1>7
  <2> QED BY <2>1, <2>2
<1> QED
  BY <1>5, <1>6, <1>7, <1>8

\* The same as one fact, t is s with e as number k.
EsInsertado(t, S, s, k, e) ==
    /\ t \in Seq(S) /\ Len(t) = Len(s) + 1
    /\ \A n \in 1..Len(s)+1 : t[n] = IF n < k THEN s[n] ELSE IF n = k THEN e ELSE s[n - 1]

\* Which InsertAt makes.
LEMMA InsertadoEs ==
    ASSUME NEW S, NEW s, NEW k, NEW e, s \in Seq(S), k \in 1..Len(s)+1, e \in S
    PROVE  EsInsertado(InsertAt(s, k, e), S, s, k, e)
<1>1. /\ InsertAt(s, k, e) \in Seq(S)
      /\ Len(InsertAt(s, k, e)) = Len(s) + 1
      /\ \A n \in 1..Len(s)+1 : InsertAt(s, k, e)[n] =
             IF n < k THEN s[n] ELSE IF n = k THEN e ELSE s[n - 1]
  BY Insertado
<1> DEFINE t == InsertAt(s, k, e)
<1> HIDE DEF t
<1> QED BY <1>1 DEF EsInsertado, t

\* A sequence with an element taken out.
LEMMA Sacado ==
    ASSUME NEW S, NEW s \in Seq(S), NEW k \in 1..Len(s)
    PROVE  /\ RemoveAt(s, k) \in Seq(S)
           /\ Len(RemoveAt(s, k)) = Len(s) - 1
           /\ \A n \in 1..Len(s)-1 : RemoveAt(s, k)[n] = IF n < k THEN s[n] ELSE s[n + 1]
<1> DEFINE a == SubSeq(s, 1, k - 1)
           b == SubSeq(s, k + 1, Len(s))
           m == Len(s)
<1>0. m \in Nat /\ k \in 1..m /\ \A i \in 1..m : s[i] \in S
  BY LenProperties, ElementOfSeq
<1>1. /\ a \in Seq(S) /\ Len(a) = k - 1
      /\ \A i \in 1..k-1 : a[i] = s[i]
  <2>1. \A i \in 1..k-1 : s[i] \in S
    BY <1>0
  <2>2. /\ a \in Seq(S) /\ Len(a) = IF 1 <= k - 1 THEN (k - 1) - 1 + 1 ELSE 0
        /\ \A i \in 1..(k-1)-1+1 : a[i] = s[1 + i - 1]
    BY <2>1, <1>0, SubSeqProperties
  <2> HIDE DEF a
  <2> QED BY <2>2, <1>0
<1>2. /\ b \in Seq(S) /\ Len(b) = m - k
      /\ \A i \in 1..m-k : b[i] = s[k + i]
  <2>1. \A i \in k+1..m : s[i] \in S
    BY <1>0
  <2>2. /\ b \in Seq(S) /\ Len(b) = IF k + 1 <= m THEN m - (k + 1) + 1 ELSE 0
        /\ \A i \in 1..m-(k+1)+1 : b[i] = s[(k + 1) + i - 1]
    BY <2>1, <1>0, SubSeqProperties
  <2> HIDE DEF b
  <2> QED BY <2>2, <1>0
<1> HIDE DEF a, b
<1>5. RemoveAt(s, k) = a \o b
  BY DEF RemoveAt, a, b
<1>6. /\ a \o b \in Seq(S) /\ Len(a \o b) = Len(a) + Len(b)
      /\ \A i \in 1..Len(a) + Len(b) : (a \o b)[i] = IF i <= Len(a) THEN a[i] ELSE b[i - Len(a)]
  BY <1>1, <1>2, ConcatProperties
<1>7. Len(a) + Len(b) = m - 1
  BY <1>0, <1>2, <1>1
<1>8. ASSUME NEW n \in 1..m-1
      PROVE  (a \o b)[n] = IF n < k THEN s[n] ELSE s[n + 1]
  <2>1. CASE n < k
    BY <2>1, <1>0, <1>1, <1>6, <1>7
  <2>2. CASE ~(n < k)
    <3>1. n - (k - 1) \in 1..m-k /\ k + (n - (k - 1)) = n + 1 /\ ~(n <= k - 1)
      BY <2>2, <1>0
    <3> QED BY <2>2, <3>1, <1>0, <1>1, <1>2, <1>6, <1>7, ZenonT(40)
  <2> QED BY <2>1, <2>2
<1> QED
  BY <1>5, <1>6, <1>7, <1>8

\* A stretch of a sequence.
LEMMA Tramo ==
    ASSUME NEW S, NEW s \in Seq(S), NEW a \in 1..Len(s)+1, NEW b \in a-1..Len(s)
    PROVE  /\ SubSeq(s, a, b) \in Seq(S)
           /\ Len(SubSeq(s, a, b)) = b - a + 1
           /\ \A n \in 1..b-a+1 : SubSeq(s, a, b)[n] = s[a + n - 1]
<1>0. Len(s) \in Nat /\ \A i \in 1..Len(s) : s[i] \in S
  BY LenProperties, ElementOfSeq
<1>1. a \in Int /\ b \in Int /\ \A i \in a..b : s[i] \in S
  BY <1>0
<1>2. /\ SubSeq(s, a, b) \in Seq(S)
      /\ Len(SubSeq(s, a, b)) = IF a <= b THEN b - a + 1 ELSE 0
      /\ \A i \in 1..b-a+1 : SubSeq(s, a, b)[i] = s[a + i - 1]
  BY <1>1, SubSeqProperties
<1>3. (IF a <= b THEN b - a + 1 ELSE 0) = b - a + 1
  BY <1>0
<1> QED
  BY <1>2, <1>3

\* Two stretches of slots with one between.
LEMMA Junto ==
    ASSUME NEW S, NEW a \in Seq(S), NEW e \in S, NEW c \in Seq(S)
    PROVE  LET t == Append(a, e) \o c
           IN  /\ t \in Seq(S) /\ Len(t) = Len(a) + 1 + Len(c)
               /\ \A n \in 1..Len(a)+1+Len(c) : t[n] =
                      IF n <= Len(a) THEN a[n] ELSE IF n = Len(a) + 1 THEN e
                      ELSE c[n - Len(a) - 1]
<1> DEFINE b == Append(a, e)
<1>0. Len(a) \in Nat /\ Len(c) \in Nat
  BY LenProperties
<1>1. /\ b \in Seq(S) /\ Len(b) = Len(a) + 1
      /\ \A i \in 1..Len(a) : b[i] = a[i]
      /\ b[Len(a) + 1] = e
  BY AppendProperties
<1> HIDE DEF b
<1>2. /\ b \o c \in Seq(S) /\ Len(b \o c) = Len(b) + Len(c)
      /\ \A i \in 1..Len(b) + Len(c) : (b \o c)[i] = IF i <= Len(b) THEN b[i] ELSE c[i - Len(b)]
  BY <1>1, ConcatProperties
<1>3. ASSUME NEW n \in 1..Len(a)+1+Len(c)
      PROVE  (b \o c)[n] = IF n <= Len(a) THEN a[n] ELSE IF n = Len(a) + 1 THEN e
                           ELSE c[n - Len(a) - 1]
  <2>1. CASE n <= Len(a)
    BY <2>1, <1>0, <1>1, <1>2
  <2>2. CASE n = Len(a) + 1
    BY <2>2, <1>0, <1>1, <1>2
  <2>3. CASE n > Len(a) + 1
    <3>1. n - Len(b) = n - Len(a) - 1 /\ ~(n <= Len(b))
      BY <2>3, <1>0, <1>1
    <3>2. n \in 1..Len(b) + Len(c)
      BY <1>0, <1>1
    <3>3. (b \o c)[n] = c[n - Len(b)]
      BY <3>1, <3>2, <1>2
    <3>4. ~(n <= Len(a)) /\ n # Len(a) + 1
      BY <2>3, <1>0
    <3> QED BY <3>1, <3>3, <3>4
  <2>4. n <= Len(a) \/ n = Len(a) + 1 \/ n > Len(a) + 1
    BY <1>0
  <2> QED BY <2>1, <2>2, <2>3, <2>4, Zenon
<1> QED
  BY <1>0, <1>1, <1>2, <1>3 DEF b

-----------------------------------------------------------------------------
(* Trees *)

\* The slots of a cluster.
Casillas == [k : Nat, nm : Nat, may : Nat]
EsKlug(c) == /\ c = Klug(c.ant, c.ll)
             /\ c.ant \in Nat /\ c.ll \in Seq(Casillas)

\* What a tree is made of, G: its root r and the set C of its clusters, the height h of
\* each over the leaves, the keys lo and hi between which are those below it (-1 where
\* there is no such key) and its parent P; the record N of each key of the tree, and the
\* cluster W with its slot.  D are the blocks.
Bajo0(k, x) == x = -1 \/ k < x
Dentro(G, q, k) == G.lo[q] < k /\ Bajo0(k, G.hi[q])
Cotas(G, c, q, n) ==
    LET x == Hijo(c, n)
    IN  /\ x \in G.C /\ G.h[x] = G.h[q] - 1 /\ G.P[x] = q
        /\ G.lo[x] = IF n = 0 THEN G.lo[q] ELSE c.ll[n].k
        /\ G.hi[x] = IF n = Len(c.ll) THEN G.hi[q] ELSE c.ll[n + 1].k
Suya(G, q, s) == /\ Dentro(G, q, s.k)
                 /\ s.k \in DOMAIN G.N /\ G.N[s.k] = s.nm /\ G.W[s.k] = q
Nodo(G, c, q) ==
    /\ EsKlug(c)
    /\ \A n \in 1..Len(c.ll) : Suya(G, q, c.ll[n])
    /\ \A m, n \in 1..Len(c.ll) : m < n => c.ll[m].k < c.ll[n].k
    /\ G.h[q] = 0 => /\ \A n \in 0..Len(c.ll) : Hijo(c, n) = 0
                     /\ \A k \in DOMAIN G.N : Dentro(G, q, k) => G.W[k] = q
    /\ G.h[q] # 0 => \A n \in 0..Len(c.ll) : Cotas(G, c, q, n)
Forma0(G) ==
    /\ G = [r |-> G.r, C |-> G.C, h |-> G.h, lo |-> G.lo, hi |-> G.hi, P |-> G.P,
            W |-> G.W, N |-> G.N]
    /\ G.C \subseteq Nat \ {0} /\ G.r \in G.C /\ DOMAIN G.N \subseteq Nat
    /\ G.h \in [G.C -> Nat] /\ G.P \in [G.C -> Nat] /\ G.P[G.r] = 0
    /\ G.lo \in [G.C -> Nat \cup {-1}] /\ G.lo[G.r] = -1
    /\ G.hi \in [G.C -> Nat \cup {-1}] /\ G.hi[G.r] = -1
    /\ G.W \in [DOMAIN G.N -> G.C]
    /\ \A q \in G.C \ {G.r} : G.h[q] < G.h[G.r]
Arbol(D, G) ==
    /\ Forma0(G)
    /\ \A q \in G.C : Nodo(G, D[q], q)
    /\ \A k \in DOMAIN G.N : \E n \in 1..Len(D[G.W[k]].ll) : D[G.W[k]].ll[n].k = k
    /\ \A q \in G.C \ {G.r} : /\ G.P[q] \in G.C
                              /\ \E n \in 0..Len(D[G.P[q]].ll) : Hijo(D[G.P[q]], n) = q

\* What holds of a tree holds of other blocks where its clusters are the same.
LEMMA OtroDisco ==
    ASSUME NEW D, NEW E, NEW G, Arbol(D, G), \A q \in G.C : E[q] = D[q]
    PROVE  Arbol(E, G)
<1>1. /\ Forma0(G)
      /\ \A k \in DOMAIN G.N : G.W[k] \in G.C
      /\ \A q \in G.C \ {G.r} : G.P[q] \in G.C
  BY DEF Arbol, Forma0
<1>2. \A q \in G.C : Nodo(G, E[q], q)
  BY DEF Arbol
<1>3. \A k \in DOMAIN G.N : \E n \in 1..Len(E[G.W[k]].ll) : E[G.W[k]].ll[n].k = k
  BY <1>1 DEF Arbol
<1>4. \A q \in G.C \ {G.r} : \E n \in 0..Len(E[G.P[q]].ll) : Hijo(E[G.P[q]], n) = q
  BY <1>1 DEF Arbol
<1> QED
  BY <1>1, <1>2, <1>3, <1>4 DEF Arbol

\* What is known of a cluster c = D[q] with l slots and of what hangs from it.
Sabido(G, c, l, q) ==
    /\ c = Klug(c.ant, c.ll) /\ c.ant \in Nat /\ c.ll \in Seq(Casillas)
    /\ l = Len(c.ll) /\ l \in Nat
    /\ G.lo[q] \in Nat \cup {-1} /\ G.hi[q] \in Nat \cup {-1}
    /\ G.h[q] \in Nat /\ q \in Nat \ {0}
    /\ \A n \in 1..l : /\ c.ll[n] \in Casillas /\ c.ll[n].k \in Nat
                       /\ c.ll[n].may \in Nat /\ c.ll[n].nm \in Nat
                       /\ c.ll[n].k \in DOMAIN G.N /\ G.N[c.ll[n].k] = c.ll[n].nm
                       /\ G.W[c.ll[n].k] = q
                       /\ G.lo[q] < c.ll[n].k /\ Bajo0(c.ll[n].k, G.hi[q])
    /\ \A m, n \in 1..l : m < n => c.ll[m].k < c.ll[n].k
    /\ G.h[q] = 0 => /\ \A n \in 0..l : Hijo(c, n) = 0
                     /\ \A k \in DOMAIN G.N : G.lo[q] < k /\ Bajo0(k, G.hi[q]) => G.W[k] = q
    /\ G.h[q] # 0 => \A n \in 0..l : Cotas(G, c, q, n) /\ Hijo(c, n) # G.r
    /\ \A n \in 0..l : Hijo(c, n) \in G.C => G.h[q] # 0
    /\ \A m, n \in 0..l : Hijo(c, m) = Hijo(c, n) /\ G.h[q] # 0 => m = n

\* It is so of every cluster of a tree.
LEMMA DeNodo ==
    ASSUME NEW D, NEW G, Arbol(D, G), NEW q \in G.C
    PROVE  Sabido(G, D[q], Len(D[q].ll), q)
<1> DEFINE c == D[q]
           l == Len(c.ll)
<1>1. Nodo(G, c, q) /\ Forma0(G)
  BY DEF Arbol
<1>2. EsKlug(c) /\ l \in Nat
  BY <1>1, LenProperties DEF Nodo, EsKlug
<1>3. /\ G.lo[q] \in Nat \cup {-1} /\ G.hi[q] \in Nat \cup {-1} /\ G.h[q] \in Nat
      /\ q \in Nat \ {0} /\ 0 \notin G.C /\ G.P[G.r] = 0
  BY <1>1 DEF Forma0
<1>4. \A n \in 1..l : /\ c.ll[n] \in Casillas /\ c.ll[n].k \in Nat
                      /\ c.ll[n].may \in Nat /\ c.ll[n].nm \in Nat
  <2>1. ASSUME NEW n \in 1..l PROVE c.ll[n] \in Casillas
    <3>1. c.ll \in Seq(Casillas)
      BY <1>2 DEF EsKlug
    <3> QED BY <3>1, ElementOfSeq
  <2> QED BY <2>1 DEF Casillas
<1>5. \A n \in 1..l : /\ c.ll[n].k \in DOMAIN G.N /\ G.N[c.ll[n].k] = c.ll[n].nm
                      /\ G.W[c.ll[n].k] = q
                      /\ G.lo[q] < c.ll[n].k /\ Bajo0(c.ll[n].k, G.hi[q])
  BY <1>1 DEF Nodo, Suya, Dentro
<1>6. \A m, n \in 1..l : m < n => c.ll[m].k < c.ll[n].k
  BY <1>1 DEF Nodo
<1>7. G.h[q] # 0 => \A n \in 0..l : Cotas(G, c, q, n)
  BY <1>1 DEF Nodo
<1>8. G.h[q] # 0 => \A n \in 0..l : Hijo(c, n) # G.r
  BY <1>7, <1>3 DEF Cotas
<1>9. \A n \in 0..l : Hijo(c, n) \in G.C => G.h[q] # 0
  BY <1>1, <1>3 DEF Nodo
<1>10. ASSUME NEW m \in 0..l, NEW n \in 0..l, Hijo(c, m) = Hijo(c, n), G.h[q] # 0
       PROVE  m = n
  <2> DEFINE z(i) == IF i = 0 THEN G.lo[q] ELSE c.ll[i].k
  <2>1. z(m) = z(n)
    BY <1>7, <1>10 DEF Cotas
  <2>2. \A i, j \in 0..l : i < j => z(i) < z(j)
    <3> TAKE i, j \in 0..l
    <3>1. CASE i = 0
      <4>1. j # 0 => j \in 1..l
        BY <1>2
      <4> QED BY <3>1, <4>1, <1>5
    <3>2. CASE i # 0
      <4>1. i \in 1..l /\ (j # 0 => j \in 1..l)
        BY <3>2, <1>2
      <4> QED BY <3>2, <4>1, <1>6
    <3> QED BY <3>1, <3>2
  <2>3. \A i \in 0..l : z(i) \in Int
    <3> TAKE i \in 0..l
    <3>1. i # 0 => i \in 1..l
      BY <1>2
    <3> QED BY <3>1, <1>3, <1>4
  <2> HIDE DEF z
  <2> QED BY <2>1, <2>2, <2>3, <1>2
<1>11. G.h[q] = 0 => /\ \A n \in 0..l : Hijo(c, n) = 0
                     /\ \A k \in DOMAIN G.N : G.lo[q] < k /\ Bajo0(k, G.hi[q]) => G.W[k] = q
  BY <1>1 DEF Nodo, Dentro
<1> HIDE DEF c, l
<1>12. Sabido(G, c, l, q)
  BY <1>2, <1>3, <1>4, <1>5, <1>6, <1>7, <1>8, <1>9, <1>10, <1>11, Zenon DEF EsKlug, Sabido, l
<1> QED
  BY <1>12 DEF c, l

\* A cluster p is divided at its slot of key x: the slots after it, and what hangs from
\* them, go to q, and x goes up to the cluster over p.
Dividido(G, p, q, x) ==
    [r  |-> G.r, C |-> G.C \cup {q}, N |-> G.N,
     h  |-> [y \in G.C \cup {q} |-> IF y = q THEN G.h[p] ELSE G.h[y]],
     lo |-> [y \in G.C \cup {q} |-> IF y = q THEN x ELSE G.lo[y]],
     hi |-> [y \in G.C \cup {q} |-> IF y = q THEN G.hi[p] ELSE IF y = p THEN x ELSE G.hi[y]],
     P  |-> [y \in G.C \cup {q} |-> IF y = q THEN G.P[p]
                                    ELSE IF G.P[y] = p /\ G.lo[y] >= x THEN q ELSE G.P[y]],
     W  |-> [k \in DOMAIN G.N |-> IF k = x THEN G.P[p]
                                  ELSE IF G.W[k] = p /\ k > x THEN q ELSE G.W[k]]]

\* How the blocks E come from D when cluster p is divided at its slot m and the slot goes
\* into the cluster over p as number k.
Division(D, E, G, p, q, m, k) ==
    LET t  == D[p].ll
        pp == G.P[p]
    IN  /\ p \in G.C /\ p # G.r /\ q \in Nat \ {0} /\ q \notin G.C
        /\ m \in 1..Len(t) /\ k \in 1..Len(D[pp].ll)+1 /\ Hijo(D[pp], k - 1) = p
        /\ E[p] = Klug(D[p].ant, SubSeq(t, 1, m - 1))
        /\ E[q] = Klug(t[m].may, SubSeq(t, m + 1, Len(t)))
        /\ E[pp] = Klug(D[pp].ant, InsertAt(D[pp].ll, k, Ranura(t[m].k, t[m].nm, q)))
        /\ \A y \in G.C \ {p, pp} : E[y] = D[y]

\* A cluster divided leaves a tree with the same keys.
LEMMA Divide ==
    ASSUME NEW D, NEW E, NEW G, NEW p, NEW q, NEW m, NEW k, Arbol(D, G),
           Division(D, E, G, p, q, m, k)
    PROVE  Arbol(E, Dividido(G, p, q, D[p].ll[m].k))
<1> DEFINE c  == D[p]
           t  == c.ll
           L  == Len(t)
           x  == t[m].k
           pp == G.P[p]
           e  == D[pp]
           u  == e.ll
           l  == Len(u)
           H  == Dividido(G, p, q, x)
           s  == Ranura(x, t[m].nm, q)
           tp == SubSeq(t, 1, m - 1)
           tq == SubSeq(t, m + 1, L)
           te == InsertAt(u, k, s)
<1>a. /\ p \in G.C /\ p # G.r /\ q \in Nat \ {0} /\ q \notin G.C
      /\ m \in 1..L /\ k \in 1..l+1 /\ Hijo(e, k - 1) = p
  BY DEF Division
<1>b. E[p] = Klug(c.ant, tp) /\ E[q] = Klug(t[m].may, tq) /\ E[pp] = Klug(e.ant, te)
  BY DEF Division
<1>c. \A y \in G.C \ {p, pp} : E[y] = D[y]
  BY DEF Division
<1>d. Forma0(G) /\ pp \in G.C
  BY <1>a DEF Arbol
<1>e. Sabido(G, c, L, p) /\ Sabido(G, e, l, pp)
  BY <1>a, <1>d, DeNodo
<1>f. /\ 0 \notin G.C /\ G.C \subseteq Nat /\ DOMAIN G.N \subseteq Nat /\ G.r \in G.C /\ G.P[G.r] = 0
      /\ \A y \in G.C : /\ G.h[y] \in Nat /\ G.P[y] \in Nat
                        /\ G.lo[y] \in Nat \cup {-1} /\ G.hi[y] \in Nat \cup {-1}
      /\ \A i \in DOMAIN G.N : G.W[i] \in G.C /\ i \in Nat
      /\ G.lo[G.r] = -1 /\ G.hi[G.r] = -1
  BY <1>d DEF Forma0
<1>g. H.r = G.r /\ H.C = G.C \cup {q} /\ H.N = G.N
  BY DEF Dividido
<1>h. \A y \in G.C : /\ H.h[y] = G.h[y] /\ H.lo[y] = G.lo[y]
                     /\ H.hi[y] = IF y = p THEN x ELSE G.hi[y]
                     /\ H.P[y] = IF G.P[y] = p /\ G.lo[y] >= x THEN q ELSE G.P[y]
  BY <1>a DEF Dividido
<1>i. H.h[q] = G.h[p] /\ H.lo[q] = x /\ H.hi[q] = G.hi[p] /\ H.P[q] = pp
  BY DEF Dividido
<1>j. \A i \in DOMAIN G.N : H.W[i] = IF i = x THEN pp
                                     ELSE IF G.W[i] = p /\ i > x THEN q ELSE G.W[i]
  BY DEF Dividido
<1>w. t = c.ll /\ u = e.ll /\ x = t[m].k /\ s.k = x /\ s.nm = t[m].nm /\ s.may = q
  BY DEF Ranura
<1>s. s = Ranura(x, t[m].nm, q)
  OBVIOUS
<1>F. Arbol(E, H) => Arbol(E, Dividido(G, p, q, D[p].ll[m].k))
  OBVIOUS
<1> HIDE DEF s
<1>z. tp = SubSeq(t, 1, m - 1) /\ tq = SubSeq(t, m + 1, L) /\ te = InsertAt(u, k, s) /\ L = Len(t) /\ l = Len(u)
  OBVIOUS
<1> HIDE DEF c, t, L, x, pp, e, u, l, H, tp, tq, te
<1>v. E[q].ant = t[m].may /\ E[q].ll = tq /\ E[p].ant = c.ant /\ E[p].ll = tp
      /\ E[pp].ant = e.ant /\ E[pp].ll = te
  BY <1>b DEF Klug

\* The cluster p.
<1>p1. t \in Seq(Casillas) /\ L \in Nat /\ c.ant \in Nat /\ c = Klug(c.ant, t)
  BY <1>e, <1>w DEF Sabido
<1>p2. \A n \in 1..L : t[n] \in Casillas /\ t[n].k \in Nat /\ t[n].may \in Nat /\ t[n].nm \in Nat
  BY <1>e, <1>w DEF Sabido
<1>p3. \A n \in 1..L : /\ t[n].k \in DOMAIN G.N /\ G.N[t[n].k] = t[n].nm /\ G.W[t[n].k] = p
                       /\ G.lo[p] < t[n].k /\ Bajo0(t[n].k, G.hi[p])
  BY <1>e, <1>w DEF Sabido
<1>p4. \A i, j \in 1..L : i < j => t[i].k < t[j].k
  BY <1>e, <1>w DEF Sabido
<1>p5. G.h[p] = 0 => /\ \A n \in 0..L : Hijo(c, n) = 0
                     /\ \A i \in DOMAIN G.N : G.lo[p] < i /\ Bajo0(i, G.hi[p]) => G.W[i] = p
  BY <1>e DEF Sabido
<1>p6. G.h[p] # 0 => \A n \in 0..L : Cotas(G, c, p, n) /\ Hijo(c, n) # G.r
  BY <1>e DEF Sabido
<1>x. x \in Nat /\ x \in DOMAIN G.N /\ G.W[x] = p /\ G.lo[p] < x /\ Bajo0(x, G.hi[p])
  BY <1>a, <1>p2, <1>p3, <1>w

\* The cluster over it.
<1>u1. u \in Seq(Casillas) /\ l \in Nat /\ e.ant \in Nat /\ e = Klug(e.ant, u)
  BY <1>e, <1>w DEF Sabido
<1>u2. \A n \in 1..l : u[n] \in Casillas /\ u[n].k \in Nat /\ u[n].may \in Nat /\ u[n].nm \in Nat
  BY <1>e, <1>w DEF Sabido
<1>u3. \A n \in 1..l : /\ u[n].k \in DOMAIN G.N /\ G.N[u[n].k] = u[n].nm /\ G.W[u[n].k] = pp
                       /\ G.lo[pp] < u[n].k /\ Bajo0(u[n].k, G.hi[pp])
  BY <1>e, <1>w DEF Sabido
<1>u4. \A i, j \in 1..l : i < j => u[i].k < u[j].k
  BY <1>e, <1>w DEF Sabido
<1>u5. k - 1 \in 0..l /\ G.h[pp] # 0
  BY <1>a, <1>e, <1>u1, SMTT(30) DEF Sabido
<1>u6. \A n \in 0..l : Cotas(G, e, pp, n) /\ Hijo(e, n) # G.r
  BY <1>e, <1>u5 DEF Sabido
<1>u7. \A i, j \in 0..l : Hijo(e, i) = Hijo(e, j) => i = j
  BY <1>e, <1>u5 DEF Sabido
<1>u8. /\ G.h[p] = G.h[pp] - 1 /\ pp # p
       /\ G.lo[p] = (IF k = 1 THEN G.lo[pp] ELSE u[k - 1].k)
       /\ G.hi[p] = (IF k = l + 1 THEN G.hi[pp] ELSE u[k].k)
  <2>1. Cotas(G, e, pp, k - 1) /\ k - 1 + 1 = k /\ (k - 1 = 0 <=> k = 1) /\ (k - 1 = l <=> k = l + 1)
    BY <1>u5, <1>u6, <1>a, <1>u1
  <2>2. /\ G.h[p] = G.h[pp] - 1
        /\ G.lo[p] = IF k - 1 = 0 THEN G.lo[pp] ELSE e.ll[k - 1].k
        /\ G.hi[p] = IF k - 1 = Len(e.ll) THEN G.hi[pp] ELSE e.ll[k - 1 + 1].k
    BY <2>1, <1>a DEF Cotas
  <2>3. pp # p
    BY <2>2, <1>a, <1>f
  <2> QED BY <2>1, <2>2, <2>3, <1>w, <1>z

\* The three clusters that come out.
<1>t1. tp \in Seq(Casillas) /\ Len(tp) = m - 1 /\ \A n \in 1..m-1 : tp[n] = t[n]
  <2>1. 1 \in 1..Len(t)+1 /\ m - 1 \in 1-1..Len(t)
    BY <1>p1, <1>a, <1>z
  <2>2. /\ tp \in Seq(Casillas) /\ Len(tp) = (m - 1) - 1 + 1
        /\ \A n \in 1..(m-1)-1+1 : tp[n] = t[1 + n - 1]
    BY <2>1, <1>z, <1>p1, Tramo
  <2> QED BY <2>2, <1>a, <1>p1
<1>t2. tq \in Seq(Casillas) /\ Len(tq) = L - m /\ \A n \in 1..L-m : tq[n] = t[m + n]
  <2>1. m + 1 \in 1..Len(t)+1 /\ L \in (m + 1)-1..Len(t)
    BY <1>p1, <1>a, <1>z
  <2>2. /\ tq \in Seq(Casillas) /\ Len(tq) = L - (m + 1) + 1
        /\ \A n \in 1..L-(m+1)+1 : tq[n] = t[(m + 1) + n - 1]
    BY <2>1, <1>z, <1>p1, Tramo
  <2> QED BY <2>2, <1>a, <1>p1
<1>t3. /\ te \in Seq(Casillas) /\ Len(te) = l + 1
       /\ \A n \in 1..l+1 : te[n] = IF n < k THEN u[n] ELSE IF n = k THEN s ELSE u[n - 1]
  <2>1. s \in Casillas
    BY <1>s, <1>x, <1>a, <1>p2 DEF Ranura, Casillas
  <2>2. u \in Seq(Casillas) /\ k \in 1..Len(u)+1 /\ te = InsertAt(u, k, s)
    BY <1>u1, <1>a, <1>z
  <2>4. EsInsertado(InsertAt(u, k, s), Casillas, u, k, s)
    BY <2>1, <2>2, InsertadoEs, Zenon
  <2>3. /\ te \in Seq(Casillas) /\ Len(te) = Len(u) + 1
        /\ \A n \in 1..Len(u)+1 : te[n] = IF n < k THEN u[n] ELSE IF n = k THEN s ELSE u[n - 1]
    BY <2>2, <2>4, Zenon DEF EsInsertado
  <2> QED BY <2>3, <1>z
<1>n1. Nodo(H, E[q], q)
  <2> DEFINE d == E[q]
  <2>0. d = Klug(d.ant, tq) /\ d.ll = tq /\ d.ant = t[m].may /\ d.ant \in Nat
    BY <1>b, <1>v, <1>p2, <1>a
  <2> HIDE DEF d
  <2>1. EsKlug(d)
    BY <2>0, <1>t2 DEF EsKlug
  <2>2. \A n \in 1..L-m : m + n \in 1..L /\ m < m + n /\ tq[n] = t[m + n]
    BY <1>p1, <1>a, <1>t2
  <2>h. \A n \in 0..L-m : m + n \in 0..L /\ Hijo(d, n) = Hijo(c, m + n)
    <3> TAKE n \in 0..L-m
    <3>1. m + n \in 0..L /\ m + n # 0 /\ m \in 1..L /\ m + 0 = m /\ (n # 0 => n \in 1..L-m)
      BY <1>p1, <1>a
    <3> QED BY <3>1, <2>0, <2>2, <1>w DEF Hijo
  <2>3. \A n \in 1..L-m : Suya(H, q, tq[n])
    <3> TAKE n \in 1..L-m
    <3> DEFINE j == m + n
    <3>1. j \in 1..L /\ tq[n] = t[j] /\ m \in 1..L /\ m < j
      BY <2>2, <1>a
    <3> HIDE DEF j
    <3>2. x < t[j].k /\ t[j].k \in Nat
      BY <3>1, <1>p2, <1>p4, <1>w
    <3>3. H.W[t[j].k] = q
      BY <3>1, <3>2, <1>j, <1>p3, <1>x
    <3> QED BY <3>1, <3>2, <3>3, <1>g, <1>i, <1>p3 DEF Suya, Dentro
  <2>4. \A i, j \in 1..L-m : i < j => tq[i].k < tq[j].k
    <3> TAKE i, j \in 1..L-m
    <3>1. i < j => m + i < m + j
      BY <1>p1, <1>a
    <3> QED BY <3>1, <2>2, <1>p4
  <2>5. G.h[p] = 0 => /\ \A n \in 0..L-m : Hijo(d, n) = 0
                      /\ \A i \in DOMAIN G.N : Dentro(H, q, i) => H.W[i] = q
    <3> SUFFICES ASSUME G.h[p] = 0
                 PROVE  /\ \A n \in 0..L-m : Hijo(d, n) = 0
                        /\ \A i \in DOMAIN G.N : Dentro(H, q, i) => H.W[i] = q
      OBVIOUS
    <3>1. \A n \in 0..L : Hijo(c, n) = 0
      BY <1>p5
    <3>2. ASSUME NEW i \in DOMAIN G.N, Dentro(H, q, i) PROVE H.W[i] = q
      <4>1. x < i /\ Bajo0(i, G.hi[p]) /\ i \in Nat
        BY <3>2, <1>i, <1>f DEF Dentro
      <4>2. G.lo[p] < i
        BY <4>1, <1>x, <1>a, <1>f
      <4>3. G.W[i] = p
        BY <4>1, <4>2, <1>p5
      <4>4. i # x /\ i > x
        BY <4>1, <1>x
      <4> QED BY <4>3, <4>4, <1>j
    <3> QED BY <3>1, <3>2, <2>h
  <2>6. G.h[p] # 0 => \A n \in 0..L-m : Cotas(H, d, q, n)
    <3> SUFFICES ASSUME G.h[p] # 0, NEW n \in 0..L-m PROVE Cotas(H, d, q, n)
      OBVIOUS
    <3> DEFINE j == m + n
               z == Hijo(c, j)
    <3>1. j \in 0..L /\ j # 0 /\ j \in 1..L /\ (n = 0 <=> j = m) /\ j >= m
          /\ (n # 0 => n \in 1..L-m) /\ (n = L - m <=> j = L) /\ (n # L - m => n + 1 \in 1..L-m)
          /\ m + (n + 1) = j + 1
      BY <1>p1, <1>a
    <3>0. Hijo(d, n) = z
      BY <2>h
    <3>2. n # 0 => tq[n] = t[j]
      BY <3>1, <2>2
    <3>3. n # L - m => tq[n + 1] = t[j + 1]
      BY <3>1, <2>2
    <3>z. z = Hijo(c, j)
      OBVIOUS
    <3> HIDE DEF j, z
    <3>4. Cotas(G, c, p, j)
      BY <3>1, <1>p6
    <3>5. /\ z \in G.C /\ G.h[z] = G.h[p] - 1 /\ G.P[z] = p
          /\ G.lo[z] = t[j].k /\ G.hi[z] = IF j = L THEN G.hi[p] ELSE t[j + 1].k
      BY <3>1, <3>4, <3>z, <1>w, <1>z DEF Cotas
    <3>6. z # p /\ z # q
      BY <3>5, <1>a, <1>f
    <3>7. t[j].k >= x
      <4>1. j = m \/ m < j
        BY <3>1, <1>a, <1>p1
      <4> QED BY <4>1, <3>1, <1>a, <1>p2, <1>p4, <1>w, <1>x
    <3>8. /\ H.h[z] = G.h[z] /\ H.P[z] = q /\ H.lo[z] = G.lo[z] /\ H.hi[z] = G.hi[z] /\ z \in H.C
      BY <3>5, <3>6, <3>7, <1>g, <1>h
    <3>9. d.ll = tq /\ Len(tq) = L - m
      BY <2>0, <1>t2
    <3>10. H.lo[z] = IF n = 0 THEN H.lo[q] ELSE tq[n].k
      BY <3>1, <3>2, <3>5, <3>8, <1>i, <1>w
    <3>11. H.hi[z] = IF n = L - m THEN H.hi[q] ELSE tq[n + 1].k
      BY <3>1, <3>3, <3>5, <3>8, <1>i
    <3>12. H.h[z] = H.h[q] - 1
      BY <3>5, <3>8, <1>i
    <3> QED BY <3>0, <3>8, <3>9, <3>10, <3>11, <3>12 DEF Cotas
  <2>7. H.h[q] = G.h[p] /\ H.N = G.N
    BY <1>g, <1>i
  <2>8. Nodo(H, d, q)
    BY <2>0, <2>1, <2>3, <2>4, <2>5, <2>6, <2>7, <1>t2 DEF Nodo
  <2> QED BY <2>8 DEF d
<1>n2. Nodo(H, E[p], p)
  <2> DEFINE d == E[p]
  <2>0. d = Klug(d.ant, tp) /\ d.ll = tp /\ d.ant = c.ant /\ d.ant \in Nat
    BY <1>b, <1>v, <1>p1
  <2> HIDE DEF d
  <2>1. EsKlug(d)
    BY <2>0, <1>t1 DEF EsKlug
  <2>2. \A n \in 1..m-1 : n \in 1..L /\ n < m /\ tp[n] = t[n]
    BY <1>p1, <1>a, <1>t1
  <2>h. \A n \in 0..m-1 : n \in 0..L /\ Hijo(d, n) = Hijo(c, n)
    <3> TAKE n \in 0..m-1
    <3>1. n \in 0..L /\ (n # 0 => n \in 1..m-1)
      BY <1>p1, <1>a
    <3> QED BY <3>1, <2>0, <2>2, <1>w DEF Hijo
  <2>3. \A n \in 1..m-1 : Suya(H, p, tp[n])
    <3> TAKE n \in 1..m-1
    <3>1. n \in 1..L /\ tp[n] = t[n] /\ m \in 1..L /\ n < m
      BY <2>2, <1>a
    <3>2. t[n].k < x /\ t[n].k \in Nat
      BY <3>1, <1>p2, <1>p4, <1>w
    <3>3. H.W[t[n].k] = p
      BY <3>1, <3>2, <1>j, <1>p3, <1>x
    <3>4. Bajo0(t[n].k, x)
      BY <3>2, <1>x DEF Bajo0
    <3> QED BY <3>1, <3>3, <3>4, <1>g, <1>h, <1>a, <1>p3 DEF Suya, Dentro
  <2>4. \A i, j \in 1..m-1 : i < j => tp[i].k < tp[j].k
    BY <2>2, <1>p4
  <2>5. G.h[p] = 0 => /\ \A n \in 0..m-1 : Hijo(d, n) = 0
                      /\ \A i \in DOMAIN G.N : Dentro(H, p, i) => H.W[i] = p
    <3> SUFFICES ASSUME G.h[p] = 0
                 PROVE  /\ \A n \in 0..m-1 : Hijo(d, n) = 0
                        /\ \A i \in DOMAIN G.N : Dentro(H, p, i) => H.W[i] = p
      OBVIOUS
    <3>1. \A n \in 0..L : Hijo(c, n) = 0
      BY <1>p5
    <3>2. ASSUME NEW i \in DOMAIN G.N, Dentro(H, p, i) PROVE H.W[i] = p
      <4>1. i < x /\ G.lo[p] < i /\ i \in Nat
        BY <3>2, <1>h, <1>a, <1>f, <1>x DEF Dentro, Bajo0
      <4>2. Bajo0(i, G.hi[p])
        BY <4>1, <1>x, <1>a, <1>f DEF Bajo0
      <4>3. G.W[i] = p
        BY <4>1, <4>2, <1>p5
      <4>4. i # x /\ ~(i > x)
        BY <4>1, <1>x
      <4> QED BY <4>3, <4>4, <1>j
    <3> QED BY <3>1, <3>2, <2>h
  <2>6. G.h[p] # 0 => \A n \in 0..m-1 : Cotas(H, d, p, n)
    <3> SUFFICES ASSUME G.h[p] # 0, NEW n \in 0..m-1 PROVE Cotas(H, d, p, n)
      OBVIOUS
    <3> DEFINE z == Hijo(c, n)
    <3>1. n \in 0..L /\ n # L /\ (n # 0 => n \in 1..m-1) /\ n < m /\ n + 1 \in 1..L
          /\ (n = m - 1 <=> n + 1 = m) /\ (n # m - 1 => n + 1 \in 1..m-1)
      BY <1>p1, <1>a
    <3>0. Hijo(d, n) = z
      BY <2>h
    <3>z. z = Hijo(c, n)
      OBVIOUS
    <3> HIDE DEF z
    <3>4. Cotas(G, c, p, n)
      BY <3>1, <1>p6
    <3>5. /\ z \in G.C /\ G.h[z] = G.h[p] - 1 /\ G.P[z] = p
          /\ G.lo[z] = (IF n = 0 THEN G.lo[p] ELSE t[n].k) /\ G.hi[z] = t[n + 1].k
      BY <3>1, <3>4, <3>z, <1>w, <1>z DEF Cotas
    <3>6. z # p /\ z # q
      BY <3>5, <1>a, <1>f
    <3>7. G.lo[z] < x
      <4>1. CASE n = 0
        BY <4>1, <3>5, <1>x
      <4>2. CASE n # 0
        BY <4>2, <3>1, <3>5, <1>a, <1>p4, <1>w, <2>2
      <4> QED BY <4>1, <4>2
    <3>8. /\ H.h[z] = G.h[z] /\ H.P[z] = p /\ H.lo[z] = G.lo[z] /\ H.hi[z] = G.hi[z] /\ z \in H.C
      <4>1. ~(G.lo[z] >= x)
        BY <3>5, <3>7, <1>x, <1>f
      <4> QED BY <4>1, <3>5, <3>6, <1>g, <1>h
    <3>9. d.ll = tp /\ Len(tp) = m - 1
      BY <2>0, <1>t1
    <3>10. H.lo[z] = IF n = 0 THEN H.lo[p] ELSE tp[n].k
      BY <3>1, <2>2, <3>5, <3>8, <1>h, <1>a
    <3>11. H.hi[z] = IF n = m - 1 THEN H.hi[p] ELSE tp[n + 1].k
      BY <3>1, <2>2, <3>5, <3>8, <1>h, <1>a, <1>w
    <3>12. H.h[z] = H.h[p] - 1
      BY <3>5, <3>8, <1>h, <1>a
    <3> QED BY <3>0, <3>8, <3>9, <3>10, <3>11, <3>12 DEF Cotas
  <2>7. H.h[p] = G.h[p] /\ H.N = G.N
    BY <1>g, <1>h, <1>a
  <2>8. Nodo(H, d, p)
    BY <2>0, <2>1, <2>3, <2>4, <2>5, <2>6, <2>7, <1>t1 DEF Nodo
  <2> QED BY <2>8 DEF d
<1>n3. Nodo(H, E[pp], pp)
  <2> DEFINE d == E[pp]
  <2>0. d = Klug(d.ant, te) /\ d.ll = te /\ d.ant = e.ant /\ d.ant \in Nat
    BY <1>b, <1>v, <1>u1
  <2> HIDE DEF d
  <2>1. EsKlug(d)
    BY <2>0, <1>t3 DEF EsKlug
  <2>2. \A n \in 1..l+1 : \/ n < k /\ n \in 1..l /\ te[n] = u[n]
                          \/ n = k /\ te[n] = s
                          \/ n > k /\ n - 1 \in 1..l /\ te[n] = u[n - 1]
    <3> TAKE n \in 1..l+1
    <3>1. \/ n < k /\ n \in 1..l
          \/ n = k
          \/ n > k /\ n - 1 \in 1..l
      BY <1>u1, <1>a
    <3> QED BY <3>1, <1>t3, <1>a
  <2>c. /\ G.lo[pp] < x /\ Bajo0(x, G.hi[pp])
        /\ \A n \in 1..l : n < k => u[n].k < x
        /\ \A n \in 1..l : n >= k => x < u[n].k
    <3>1. \A n \in 1..l : n < k => u[n].k < x
      <4> TAKE n \in 1..l
      <4>1. SUFFICES ASSUME n < k PROVE u[n].k < x
        OBVIOUS
      <4>2. k # 1 /\ k - 1 \in 1..l /\ n <= k - 1
        BY <4>1, <1>a, <1>u1
      <4>3. u[k - 1].k < x
        BY <4>2, <1>u8, <1>x
      <4>4. n = k - 1 \/ n < k - 1
        BY <4>2
      <4> QED BY <4>2, <4>3, <4>4, <1>u2, <1>u4, <1>x
    <3>2. \A n \in 1..l : n >= k => x < u[n].k
      <4> TAKE n \in 1..l
      <4>1. SUFFICES ASSUME n >= k PROVE x < u[n].k
        OBVIOUS
      <4>2. k # l + 1 /\ k \in 1..l
        BY <4>1, <1>a, <1>u1
      <4>3. x < u[k].k
        BY <4>2, <1>u8, <1>x, <1>u2 DEF Bajo0
      <4>4. n = k \/ k < n
        BY <4>1, <4>2
      <4> QED BY <4>2, <4>3, <4>4, <1>u2, <1>u4, <1>x
    <3>3. G.lo[pp] < x
      <4>1. CASE k = 1
        BY <4>1, <1>u8, <1>x
      <4>2. CASE k # 1
        <5>1. k - 1 \in 1..l
          BY <4>2, <1>a, <1>u1
        <5> QED BY <5>1, <4>2, <1>u3, <1>u2, <1>x, <1>u8, <1>d, <1>f
      <4> QED BY <4>1, <4>2
    <3>4. Bajo0(x, G.hi[pp])
      <4>1. CASE k = l + 1
        BY <4>1, <1>u8, <1>x
      <4>2. CASE k # l + 1
        <5>1. k \in 1..l /\ k >= k
          BY <4>2, <1>a, <1>u1
        <5>2. x < u[k].k /\ Bajo0(u[k].k, G.hi[pp]) /\ u[k].k \in Nat
          BY <5>1, <3>2, <1>u3, <1>u2
        <5> QED BY <5>2, <1>x, <1>d, <1>f DEF Bajo0
      <4> QED BY <4>1, <4>2
    <3> QED BY <3>1, <3>2, <3>3, <3>4
  <2>i. \A i \in DOMAIN G.N : G.W[i] = pp => H.W[i] = pp
    BY <1>j, <1>u8
  <2>j. H.lo[pp] = G.lo[pp] /\ H.hi[pp] = G.hi[pp] /\ H.h[pp] = G.h[pp] /\ pp \in H.C
    BY <1>h, <1>g, <1>d, <1>u8
  <2>3. \A n \in 1..l+1 : Suya(H, pp, te[n])
    <3> TAKE n \in 1..l+1
    <3>1. CASE n < k /\ n \in 1..l /\ te[n] = u[n]
      BY <3>1, <2>i, <2>j, <1>u3, <1>g DEF Suya, Dentro
    <3>2. CASE n = k /\ te[n] = s
      <4>1. H.W[x] = pp /\ G.N[x] = t[m].nm
        BY <1>j, <1>x, <1>p3, <1>a, <1>w
      <4> QED BY <4>1, <3>2, <2>j, <2>c, <1>w, <1>x, <1>g DEF Suya, Dentro
    <3>3. CASE n > k /\ n - 1 \in 1..l /\ te[n] = u[n - 1]
      BY <3>3, <2>i, <2>j, <1>u3, <1>g DEF Suya, Dentro
    <3> QED BY <3>1, <3>2, <3>3, <2>2
  <2>4. \A i, j \in 1..l+1 : i < j => te[i].k < te[j].k
    <3> TAKE i, j \in 1..l+1
    <3>1. SUFFICES ASSUME i < j PROVE te[i].k < te[j].k
      OBVIOUS
    <3>2. CASE i < k /\ i \in 1..l /\ te[i] = u[i]
      <4>1. CASE j < k /\ j \in 1..l /\ te[j] = u[j]
        BY <3>1, <3>2, <4>1, <1>u4
      <4>2. CASE j = k /\ te[j] = s
        BY <3>2, <4>2, <2>c, <1>w
      <4>3. CASE j > k /\ j - 1 \in 1..l /\ te[j] = u[j - 1]
        <5>1. i < j - 1
          BY <3>2, <4>3, <1>a
        <5> QED BY <5>1, <3>2, <4>3, <1>u4
      <4> QED BY <4>1, <4>2, <4>3, <2>2
    <3>3. CASE i = k /\ te[i] = s
      <4>1. j > k
        BY <3>1, <3>3
      <4>2. j > k /\ j - 1 \in 1..l /\ te[j] = u[j - 1]
        BY <4>1, <2>2, <1>a
      <4>3. j - 1 >= k
        BY <4>1, <1>a
      <4> QED BY <3>3, <4>2, <4>3, <2>c, <1>w
    <3>4. CASE i > k /\ i - 1 \in 1..l /\ te[i] = u[i - 1]
      <4>1. j > k
        BY <3>1, <3>4, <1>a
      <4>2. j > k /\ j - 1 \in 1..l /\ te[j] = u[j - 1]
        BY <4>1, <2>2, <1>a
      <4>3. i - 1 < j - 1
        BY <3>1
      <4> QED BY <3>4, <4>2, <4>3, <1>u4
    <3> QED BY <3>2, <3>3, <3>4, <2>2
  <2>6. \A n \in 0..l+1 : Cotas(H, d, pp, n)
    <3> TAKE n \in 0..l+1
    <3>9. d.ll = te /\ Len(te) = l + 1
      BY <2>0, <1>t3
    <3>1. CASE n < k
      <4> DEFINE z == Hijo(e, n)
      <4>0. n \in 0..l /\ (n # 0 => n \in 1..l /\ n \in 1..l+1) /\ n # l + 1 /\ n + 1 \in 1..l+1
            /\ (n # k - 1 => n + 1 < k /\ n + 1 \in 1..l /\ n # l)
        BY <3>1, <1>a, <1>u1
      <4>1. n # 0 => te[n] = u[n]
        BY <4>0, <3>1, <2>2, <1>a
      <4>2. Hijo(d, n) = z
        BY <4>0, <4>1, <2>0, <1>w DEF Hijo
      <4>z. z = Hijo(e, n)
        OBVIOUS
      <4> HIDE DEF z
      <4>4. Cotas(G, e, pp, n)
        BY <4>0, <1>u6
      <4>5. /\ z \in G.C /\ G.h[z] = G.h[pp] - 1 /\ G.P[z] = pp
            /\ G.lo[z] = (IF n = 0 THEN G.lo[pp] ELSE u[n].k)
            /\ G.hi[z] = IF n = l THEN G.hi[pp] ELSE u[n + 1].k
        BY <4>4, <4>z, <1>w, <1>z DEF Cotas
      <4>6. z # q /\ (z = p <=> n = k - 1)
        BY <4>5, <1>a, <4>0, <4>z, <1>u5, <1>u7
      <4>7. H.h[z] = G.h[z] /\ H.lo[z] = G.lo[z] /\ H.P[z] = pp /\ z \in H.C
            /\ H.hi[z] = IF n = k - 1 THEN x ELSE G.hi[z]
        BY <4>5, <4>6, <1>g, <1>h, <1>u8
      <4>8. H.hi[z] = te[n + 1].k
        <5>1. CASE n = k - 1
          <6>1. n + 1 = k
            BY <5>1, <1>a
          <6> QED BY <5>1, <6>1, <4>7, <4>0, <2>2, <1>w, <1>a
        <5>2. CASE n # k - 1
          <6>1. te[n + 1] = u[n + 1]
            BY <5>2, <4>0, <2>2, <1>a
          <6> QED BY <5>2, <6>1, <4>5, <4>7, <4>0
        <5> QED BY <5>1, <5>2
      <4>10. H.lo[z] = IF n = 0 THEN H.lo[pp] ELSE te[n].k
        BY <4>5, <4>7, <4>1, <2>j
      <4> QED BY <4>0, <4>2, <4>5, <4>7, <4>8, <4>10, <3>9, <2>j DEF Cotas
    <3>2. CASE n = k
      <4>0. n # 0 /\ n \in 1..l+1 /\ te[n] = s /\ (n # l + 1 => n + 1 \in 1..l+1 /\ n + 1 > k /\ n + 1 - 1 = k)
        BY <3>2, <1>a, <1>u1, <2>2
      <4>1. Hijo(d, n) = q
        BY <4>0, <2>0, <1>w DEF Hijo
      <4>2. n # l + 1 => te[n + 1] = u[k]
        BY <4>0, <2>2
      <4>3. H.hi[q] = IF n = l + 1 THEN H.hi[pp] ELSE te[n + 1].k
        BY <4>2, <3>2, <1>i, <1>u8, <2>j
      <4>4. H.lo[q] = te[n].k
        BY <4>0, <1>w, <1>i
      <4>5. q \in H.C /\ H.h[q] = H.h[pp] - 1 /\ H.P[q] = pp
        BY <1>g, <1>i, <2>j, <1>u8
      <4> QED BY <4>0, <4>1, <4>3, <4>4, <4>5, <3>9 DEF Cotas
    <3>3. CASE n > k
      <4> DEFINE j == n - 1
                 z == Hijo(e, j)
      <4>0. /\ j \in 0..l /\ j # 0 /\ j \in 1..l /\ n \in 1..l+1 /\ n # 0 /\ j # k - 1
            /\ (n = l + 1 <=> j = l) /\ (n # l + 1 => n + 1 \in 1..l+1 /\ n + 1 > k /\ n + 1 - 1 = j + 1)
        BY <3>3, <1>a, <1>u1
      <4>1. te[n] = u[j]
        BY <4>0, <3>3, <2>2, <1>a
      <4>a. n # l + 1 => te[n + 1] = u[j + 1]
        BY <4>0, <2>2, <1>a
      <4>2. Hijo(d, n) = z
        BY <4>0, <4>1, <2>0, <1>w DEF Hijo
      <4>z. z = Hijo(e, j)
        OBVIOUS
      <4> HIDE DEF z, j
      <4>4. Cotas(G, e, pp, j)
        BY <4>0, <1>u6
      <4>5. /\ z \in G.C /\ G.h[z] = G.h[pp] - 1 /\ G.P[z] = pp
            /\ G.lo[z] = u[j].k
            /\ G.hi[z] = IF j = l THEN G.hi[pp] ELSE u[j + 1].k
        BY <4>0, <4>4, <4>z, <1>w, <1>z DEF Cotas
      <4>6. z # q /\ z # p
        BY <4>5, <1>a, <4>0, <4>z, <1>u5, <1>u7
      <4>7. H.h[z] = G.h[z] /\ H.lo[z] = G.lo[z] /\ H.P[z] = pp /\ z \in H.C /\ H.hi[z] = G.hi[z]
        BY <4>5, <4>6, <1>g, <1>h, <1>u8
      <4>8. H.hi[z] = IF n = l + 1 THEN H.hi[pp] ELSE te[n + 1].k
        BY <4>0, <4>a, <4>5, <4>7, <2>j
      <4>10. H.lo[z] = te[n].k
        BY <4>5, <4>7, <4>1
      <4> QED BY <4>0, <4>2, <4>5, <4>7, <4>8, <4>10, <3>9, <2>j DEF Cotas
    <3>4. n < k \/ n = k \/ n > k
      BY <1>a
    <3> QED BY <3>1, <3>2, <3>3, <3>4
  <2>8. Nodo(H, d, pp)
    BY <2>0, <2>1, <2>3, <2>4, <2>6, <2>j, <1>u5, <1>g, <1>t3 DEF Nodo
  <2> QED BY <2>8 DEF d
<1>n4. ASSUME NEW y \in G.C \ {p, pp} PROVE Nodo(H, E[y], y)
  <2> DEFINE d == E[y]
             b == Len(d.ll)
  <2>1. Sabido(G, d, b, y) /\ y # p /\ y # pp /\ y # q
    BY <1>n4, <1>c, <1>a, DeNodo
  <2> HIDE DEF d, b
  <2>2. EsKlug(d) /\ b = Len(d.ll) /\ b \in Nat
    BY <2>1 DEF Sabido, EsKlug
  <2>3. H.h[y] = G.h[y] /\ H.lo[y] = G.lo[y] /\ H.hi[y] = G.hi[y] /\ H.N = G.N
    BY <2>1, <1>g, <1>h
  <2>4. \A i \in DOMAIN G.N : G.W[i] = y => H.W[i] = y
    BY <2>1, <1>j, <1>x
  <2>5. \A n \in 1..b : Suya(H, y, d.ll[n])
    BY <2>1, <2>3, <2>4 DEF Sabido, Suya, Dentro
  <2>6. \A i, j \in 1..b : i < j => d.ll[i].k < d.ll[j].k
    BY <2>1 DEF Sabido
  <2>7. G.h[y] = 0 => /\ \A n \in 0..b : Hijo(d, n) = 0
                      /\ \A i \in DOMAIN G.N : Dentro(H, y, i) => H.W[i] = y
    BY <2>1, <2>3, <2>4 DEF Sabido, Dentro
  <2>8. G.h[y] # 0 => \A n \in 0..b : Cotas(H, d, y, n)
    <3> SUFFICES ASSUME G.h[y] # 0, NEW n \in 0..b PROVE Cotas(H, d, y, n)
      OBVIOUS
    <3> DEFINE z == Hijo(d, n)
    <3>1. Cotas(G, d, y, n)
      BY <2>1 DEF Sabido
    <3>2. /\ z \in G.C /\ G.h[z] = G.h[y] - 1 /\ G.P[z] = y
          /\ G.lo[z] = IF n = 0 THEN G.lo[y] ELSE d.ll[n].k
          /\ G.hi[z] = IF n = Len(d.ll) THEN G.hi[y] ELSE d.ll[n + 1].k
      BY <3>1 DEF Cotas
    <3>z. z = Hijo(d, n)
      OBVIOUS
    <3> HIDE DEF z
    <3>3. z # p /\ z # q
      BY <3>2, <2>1, <1>a, <1>z DEF pp
    <3>4. H.h[z] = G.h[z] /\ H.lo[z] = G.lo[z] /\ H.P[z] = y /\ z \in H.C /\ H.hi[z] = G.hi[z]
      BY <3>2, <3>3, <2>1, <1>g, <1>h
    <3> QED BY <3>2, <3>4, <3>z, <2>3 DEF Cotas
  <2>9. Nodo(H, d, y)
    BY <2>2, <2>3, <2>5, <2>6, <2>7, <2>8 DEF Nodo
  <2> QED BY <2>9 DEF d
<1>k. ASSUME NEW i \in DOMAIN H.N PROVE \E n \in 1..Len(E[H.W[i]].ll) : E[H.W[i]].ll[n].k = i
  <2>0. i \in DOMAIN G.N /\ i \in Nat
    BY <1>k, <1>g, <1>f
  <2>1. PICK n \in 1..Len(D[G.W[i]].ll) : D[G.W[i]].ll[n].k = i
    BY <2>0 DEF Arbol
  <2>2. CASE G.W[i] = p
    <3>1. n \in 1..L /\ t[n].k = i
      BY <2>1, <2>2, <1>w, <1>z DEF c
    <3>2. CASE i = x
      <4>1. k \in 1..l+1 /\ te[k].k = i
        BY <1>t3, <1>a, <1>w, <3>2
      <4> QED BY <4>1, <3>2, <2>0, <1>j, <1>v, <1>t3
    <3>3. CASE i > x
      <4>1. n > m
        BY <3>1, <3>3, <1>p2, <1>p4, <1>a, <1>w, <1>x
      <4>2. n - m \in 1..L-m /\ m + (n - m) = n
        BY <4>1, <3>1, <1>a, <1>p1
      <4>3. tq[n - m].k = i
        BY <4>2, <3>1, <1>t2
      <4> QED BY <4>2, <4>3, <3>3, <2>0, <2>2, <1>j, <1>v, <1>t2, <1>x
    <3>4. CASE i < x
      <4>1. n < m
        BY <3>1, <3>4, <1>p2, <1>p4, <1>a, <1>w, <1>x
      <4>2. n \in 1..m-1
        BY <4>1, <3>1, <1>a
      <4>3. tp[n].k = i
        BY <4>2, <3>1, <1>t1
      <4> QED BY <4>2, <4>3, <3>4, <2>0, <2>2, <1>j, <1>v, <1>t1, <1>x
    <3> QED BY <3>2, <3>3, <3>4, <2>0, <1>x
  <2>3. CASE G.W[i] = pp
    <3>1. n \in 1..l /\ u[n].k = i
      BY <2>1, <2>3, <1>w, <1>z DEF e
    <3>2. H.W[i] = pp
      BY <2>3, <2>0, <1>j, <1>u8
    <3>3. \E j \in 1..l+1 : te[j].k = i
      <4>1. CASE n < k
        BY <4>1, <3>1, <1>t3, <1>u1
      <4>2. CASE n >= k
        <5>1. n + 1 \in 1..l+1 /\ ~(n + 1 < k) /\ n + 1 # k /\ n + 1 - 1 = n
          BY <4>2, <3>1, <1>u1, <1>a
        <5> QED BY <5>1, <3>1, <1>t3
      <4> QED BY <4>1, <4>2, <3>1, <1>a
    <3> QED BY <3>2, <3>3, <1>v, <1>t3
  <2>4. CASE G.W[i] # p /\ G.W[i] # pp
    <3>1. H.W[i] = G.W[i] /\ G.W[i] \in G.C \ {p, pp}
      BY <2>4, <2>0, <1>j, <1>x, <1>f
    <3> QED BY <3>1, <2>1, <1>c
  <2> QED BY <2>2, <2>3, <2>4
<1>l. ASSUME NEW y \in H.C \ {H.r}
      PROVE  H.P[y] \in H.C /\ \E n \in 0..Len(E[H.P[y]].ll) : Hijo(E[H.P[y]], n) = y
  <2>1. CASE y = q
    <3>1. k \in 0..l+1 /\ k # 0 /\ te[k] = s
      BY <1>t3, <1>a, <1>u1
    <3>2. Hijo(E[pp], k) = q
      BY <3>1, <1>v, <1>w DEF Hijo
    <3> QED BY <3>1, <3>2, <2>1, <1>i, <1>g, <1>d, <1>v, <1>t3
  <2>2. CASE y # q
    <3>1. y \in G.C \ {G.r}
      BY <2>2, <1>g
    <3>2. G.P[y] \in G.C
      BY <3>1 DEF Arbol
    <3>3. PICK n \in 0..Len(D[G.P[y]].ll) : Hijo(D[G.P[y]], n) = y
      BY <3>1 DEF Arbol
    <3>4. CASE G.P[y] = p
      <4>1. n \in 0..L /\ Hijo(c, n) = y
        BY <3>3, <3>4, <1>w, <1>z DEF c
      <4>2. G.h[p] # 0
        BY <4>1, <3>1, <1>f, <1>p5, <1>a
      <4>3. Cotas(G, c, p, n)
        BY <4>1, <4>2, <1>p6
      <4>4. G.lo[y] = IF n = 0 THEN G.lo[p] ELSE t[n].k
        BY <4>1, <4>3, <1>w DEF Cotas
      <4>5. CASE n < m
        <5>1. n \in 0..m-1 /\ (n # 0 => n \in 1..m-1 /\ n \in 1..L)
          BY <4>1, <4>5, <1>a
        <5>2. G.lo[y] < x
          BY <4>4, <4>5, <5>1, <1>x, <1>p4, <1>a, <1>w
        <5>3. Hijo(E[p], n) = y
          BY <5>1, <4>1, <1>v, <1>w, <1>t1 DEF Hijo
        <5>4. H.P[y] = p
          BY <5>2, <3>4, <3>1, <1>h, <1>x, <1>f, SMTT(30)
        <5> QED BY <5>1, <5>3, <5>4, <1>v, <1>t1, <1>g, <1>a
      <4>6. CASE n >= m
        <5>1. n - m \in 0..L-m /\ n # 0 /\ n \in 1..L /\ (n - m # 0 => n - m \in 1..L-m)
              /\ m + (n - m) = n /\ (n = m \/ m < n)
          BY <4>1, <4>6, <1>a, <1>p1
        <5>2. G.lo[y] >= x
          BY <4>4, <5>1, <1>x, <1>p2, <1>p4, <1>a, <1>w
        <5>5. t[n].may = y
          BY <5>1, <4>1, <1>w DEF Hijo
        <5>3. Hijo(E[q], n - m) = y
          <6>1. CASE n - m = 0
            <7>1. n = m
              BY <6>1, <5>1, <1>a
            <7> QED BY <6>1, <7>1, <5>5, <1>v DEF Hijo
          <6>2. CASE n - m # 0
            BY <6>2, <5>1, <5>5, <1>v, <1>t2 DEF Hijo
          <6> QED BY <6>1, <6>2
        <5>4. H.P[y] = q
          BY <5>2, <3>4, <3>1, <1>h
        <5> QED BY <5>1, <5>3, <5>4, <1>v, <1>t2, <1>g
      <4> QED BY <4>5, <4>6, <4>1, <1>a
    <3>5. CASE G.P[y] = pp
      <4>1. n \in 0..l /\ Hijo(e, n) = y
        BY <3>3, <3>5, <1>w, <1>z DEF e
      <4>2. H.P[y] = pp
        BY <3>5, <3>1, <1>h, <1>u8
      <4>3. \E j \in 0..l+1 : Hijo(E[pp], j) = y
        <5>1. CASE n < k
          <6>1. n \in 0..l+1 /\ (n # 0 => n \in 1..l+1 /\ te[n] = u[n])
            BY <5>1, <4>1, <1>t3, <1>u1
          <6> QED BY <6>1, <4>1, <1>v, <1>w DEF Hijo
        <5>2. CASE n >= k
          <6>1. n + 1 \in 1..l+1 /\ ~(n + 1 < k) /\ n + 1 # k /\ n + 1 - 1 = n /\ n # 0 /\ n + 1 # 0
                /\ n + 1 \in 0..l+1
            BY <5>2, <4>1, <1>u1, <1>a
          <6>2. te[n + 1] = u[n]
            BY <6>1, <1>t3
          <6> QED BY <6>1, <6>2, <4>1, <1>v, <1>w DEF Hijo
        <5> QED BY <5>1, <5>2, <4>1, <1>a
      <4> QED BY <4>2, <4>3, <1>v, <1>t3, <1>g, <1>d
    <3>6. CASE G.P[y] # p /\ G.P[y] # pp
      <4>1. H.P[y] = G.P[y] /\ G.P[y] \in G.C \ {p, pp}
        BY <3>6, <3>1, <3>2, <1>h
      <4> QED BY <4>1, <3>3, <1>c, <1>g
    <3> QED BY <3>4, <3>5, <3>6
  <2> QED BY <2>1, <2>2
<1>o. Forma0(H)
  <2>1. H = [r |-> H.r, C |-> H.C, h |-> H.h, lo |-> H.lo, hi |-> H.hi, P |-> H.P, W |-> H.W, N |-> H.N]
    BY DEF H, Dividido
  <2>2. /\ DOMAIN H.h = G.C \cup {q} /\ DOMAIN H.lo = G.C \cup {q} /\ DOMAIN H.hi = G.C \cup {q}
        /\ DOMAIN H.P = G.C \cup {q} /\ DOMAIN H.W = DOMAIN G.N
        /\ H.h = [y \in DOMAIN H.h |-> H.h[y]] /\ H.lo = [y \in DOMAIN H.lo |-> H.lo[y]]
        /\ H.hi = [y \in DOMAIN H.hi |-> H.hi[y]] /\ H.P = [y \in DOMAIN H.P |-> H.P[y]]
        /\ H.W = [y \in DOMAIN H.W |-> H.W[y]]
    BY DEF H, Dividido
  <2>3. H.C \subseteq Nat \ {0} /\ H.r \in H.C /\ DOMAIN H.N \subseteq Nat
    BY <1>g, <1>f, <1>a
  <2>4. \A y \in H.C : /\ H.h[y] \in Nat /\ H.P[y] \in Nat
                       /\ H.lo[y] \in Nat \cup {-1} /\ H.hi[y] \in Nat \cup {-1}
    <3> TAKE y \in H.C
    <3>1. CASE y = q
      BY <3>1, <1>i, <1>a, <1>f, <1>x, <1>d
    <3>2. CASE y # q
      BY <3>2, <1>g, <1>h, <1>a, <1>f, <1>x
    <3> QED BY <3>1, <3>2
  <2>5. H.P[H.r] = 0 /\ H.lo[H.r] = -1 /\ H.hi[H.r] = -1
    BY <1>g, <1>h, <1>f, <1>a
  <2>6. \A i \in DOMAIN H.N : H.W[i] \in H.C
    BY <1>g, <1>j, <1>f, <1>d
  <2>7. H.h \in [H.C -> Nat] /\ H.P \in [H.C -> Nat]
    BY <2>2, <2>4, <1>g
  <2>8. H.lo \in [H.C -> Nat \cup {-1}] /\ H.hi \in [H.C -> Nat \cup {-1}]
    BY <2>2, <2>4, <1>g
  <2>9. H.W \in [DOMAIN H.N -> H.C]
    BY <2>2, <2>6, <1>g
  <2>10. \A y \in G.C \ {G.r} : G.h[y] < G.h[G.r]
    BY <1>d DEF Forma0
  <2>11. \A y \in H.C \ {H.r} : H.h[y] < H.h[H.r]
    BY <2>10, <1>g, <1>h, <1>i, <1>f, <1>a
  <2> QED BY <2>1, <2>3, <2>5, <2>7, <2>8, <2>9, <2>11 DEF Forma0
<1>q. \A y \in H.C : Nodo(H, E[y], y)
  BY <1>n1, <1>n2, <1>n3, <1>n4, <1>g
<1>r. Arbol(E, H)
  BY <1>o, <1>q, <1>k, <1>l DEF Arbol
<1> QED BY <1>F, <1>r

\* The clusters a and b, neighbours under another with the slot of key x between, are
\* put together in a.
Unido(G, a, b, x) ==
    [r  |-> G.r, C |-> G.C \ {b}, N |-> G.N,
     h  |-> [y \in G.C \ {b} |-> G.h[y]],
     lo |-> [y \in G.C \ {b} |-> G.lo[y]],
     hi |-> [y \in G.C \ {b} |-> IF y = a THEN G.hi[b] ELSE G.hi[y]],
     P  |-> [y \in G.C \ {b} |-> IF G.P[y] = b THEN a ELSE G.P[y]],
     W  |-> [k \in DOMAIN G.N |-> IF k = x \/ G.W[k] = b THEN a ELSE G.W[k]]]

\* How the blocks E come from D when the clusters at both sides of slot s of cluster p
\* are put together.
Union(D, E, G, p, s, a, b) ==
    LET c == D[p]
    IN  /\ p \in G.C /\ s \in 1..Len(c.ll) /\ G.h[p] # 0
        /\ a = Hijo(c, s - 1) /\ b = Hijo(c, s)
        /\ E[a] = Klug(D[a].ant, Append(D[a].ll, Ranura(c.ll[s].k, c.ll[s].nm, D[b].ant)) \o D[b].ll)
        /\ E[p] = Klug(c.ant, RemoveAt(c.ll, s))
        /\ \A y \in G.C \ {a, b, p} : E[y] = D[y]

\* Two clusters put together leave a tree with the same keys.
LEMMA Junta ==
    ASSUME NEW D, NEW E, NEW G, NEW p, NEW s, NEW a, NEW b, Arbol(D, G),
           Union(D, E, G, p, s, a, b)
    PROVE  /\ Arbol(E, Unido(G, a, b, D[p].ll[s].k))
           /\ a \in G.C /\ b \in G.C /\ a # b /\ a # p /\ b # p /\ b # G.r /\ a # G.r
           /\ G.P[a] = p /\ G.P[b] = p /\ G.h[a] = G.h[p] - 1 /\ G.h[b] = G.h[a]
<1> DEFINE c  == D[p]
           u  == c.ll
           l  == Len(u)
           x  == u[s].k
           da == D[a]
           ta == da.ll
           La == Len(ta)
           db == D[b]
           tb == db.ll
           Lb == Len(tb)
           H  == Unido(G, a, b, x)
           e  == Ranura(x, u[s].nm, db.ant)
           tt == Append(ta, e) \o tb
           te == RemoveAt(u, s)
<1>a. p \in G.C /\ s \in 1..l /\ G.h[p] # 0 /\ a = Hijo(c, s - 1) /\ b = Hijo(c, s)
  BY DEF Union
<1>b. E[a] = Klug(da.ant, tt) /\ E[p] = Klug(c.ant, te)
  BY DEF Union
<1>c. \A y \in G.C \ {a, b, p} : E[y] = D[y]
  BY DEF Union
<1>d. Forma0(G)
  BY DEF Arbol
<1>e. Sabido(G, c, l, p)
  BY <1>a, DeNodo
<1>f. /\ 0 \notin G.C /\ G.C \subseteq Nat /\ DOMAIN G.N \subseteq Nat /\ G.r \in G.C /\ G.P[G.r] = 0
      /\ \A y \in G.C : /\ G.h[y] \in Nat /\ G.P[y] \in Nat
                        /\ G.lo[y] \in Nat \cup {-1} /\ G.hi[y] \in Nat \cup {-1}
      /\ \A i \in DOMAIN G.N : G.W[i] \in G.C /\ i \in Nat
      /\ G.lo[G.r] = -1 /\ G.hi[G.r] = -1
  BY <1>d DEF Forma0
<1>w. u = c.ll /\ x = u[s].k /\ ta = da.ll /\ tb = db.ll
  OBVIOUS
<1>z. La = Len(ta) /\ Lb = Len(tb) /\ l = Len(u) /\ tt = Append(ta, e) \o tb /\ te = RemoveAt(u, s)
  OBVIOUS
<1>y. c = D[p] /\ da = D[a] /\ db = D[b] /\ e = Ranura(x, u[s].nm, db.ant)
  OBVIOUS
<1>F. Arbol(E, H) => Arbol(E, Unido(G, a, b, D[p].ll[s].k))
  OBVIOUS
<1>H. H = Unido(G, a, b, x)
  OBVIOUS
<1> HIDE DEF c, u, l, x, da, ta, La, db, tb, Lb, H, e, tt, te
<1>g. H.r = G.r /\ H.C = G.C \ {b} /\ H.N = G.N
  BY <1>H DEF Unido
<1>h. \A y \in G.C \ {b} : /\ H.h[y] = G.h[y] /\ H.lo[y] = G.lo[y]
                           /\ H.hi[y] = IF y = a THEN G.hi[b] ELSE G.hi[y]
                           /\ H.P[y] = IF G.P[y] = b THEN a ELSE G.P[y]
  BY <1>H DEF Unido
<1>j. \A i \in DOMAIN G.N : H.W[i] = IF i = x \/ G.W[i] = b THEN a ELSE G.W[i]
  BY <1>H DEF Unido
<1>v. E[a].ant = da.ant /\ E[a].ll = tt /\ E[p].ant = c.ant /\ E[p].ll = te
  BY <1>b DEF Klug

\* The cluster over them.
<1>u1. u \in Seq(Casillas) /\ l \in Nat /\ c.ant \in Nat /\ c = Klug(c.ant, u)
  BY <1>e, <1>w DEF Sabido
<1>u2. \A n \in 1..l : u[n] \in Casillas /\ u[n].k \in Nat /\ u[n].may \in Nat /\ u[n].nm \in Nat
  BY <1>e, <1>w DEF Sabido
<1>u3. \A n \in 1..l : /\ u[n].k \in DOMAIN G.N /\ G.N[u[n].k] = u[n].nm /\ G.W[u[n].k] = p
                       /\ G.lo[p] < u[n].k /\ Bajo0(u[n].k, G.hi[p])
  BY <1>e, <1>w DEF Sabido
<1>u4. \A i, j \in 1..l : i < j => u[i].k < u[j].k
  BY <1>e, <1>w DEF Sabido
<1>u6. \A n \in 0..l : Cotas(G, c, p, n) /\ Hijo(c, n) # G.r
  BY <1>e, <1>a DEF Sabido
<1>u7. \A i, j \in 0..l : Hijo(c, i) = Hijo(c, j) => i = j
  BY <1>e, <1>a DEF Sabido
<1>u5. s - 1 \in 0..l /\ s \in 0..l /\ s # 0 /\ s \in 1..l /\ s # s - 1
  BY <1>a, <1>u1
<1>x. x \in Nat /\ x \in DOMAIN G.N /\ G.W[x] = p /\ G.lo[p] < x /\ Bajo0(x, G.hi[p])
  BY <1>u5, <1>u2, <1>u3, <1>w
<1>u8. /\ a \in G.C /\ G.h[a] = G.h[p] - 1 /\ G.P[a] = p /\ a # G.r
       /\ G.lo[a] = (IF s = 1 THEN G.lo[p] ELSE u[s - 1].k)
       /\ G.hi[a] = x
  <2>1. Cotas(G, c, p, s - 1) /\ s - 1 + 1 = s /\ (s - 1 = 0 <=> s = 1) /\ s - 1 # l /\ a # G.r
    BY <1>u5, <1>u6, <1>a, <1>u1
  <2>2. /\ a \in G.C /\ G.h[a] = G.h[p] - 1 /\ G.P[a] = p
        /\ G.lo[a] = IF s - 1 = 0 THEN G.lo[p] ELSE c.ll[s - 1].k
        /\ G.hi[a] = IF s - 1 = Len(c.ll) THEN G.hi[p] ELSE c.ll[s - 1 + 1].k
    BY <2>1, <1>a DEF Cotas
  <2> QED BY <2>1, <2>2, <1>w, <1>z
<1>u9. /\ b \in G.C /\ G.h[b] = G.h[p] - 1 /\ G.P[b] = p /\ b # G.r
       /\ G.lo[b] = x
       /\ G.hi[b] = (IF s = l THEN G.hi[p] ELSE u[s + 1].k)
  <2>1. Cotas(G, c, p, s) /\ b # G.r
    BY <1>u5, <1>u6, <1>a
  <2>2. /\ b \in G.C /\ G.h[b] = G.h[p] - 1 /\ G.P[b] = p
        /\ G.lo[b] = IF s = 0 THEN G.lo[p] ELSE c.ll[s].k
        /\ G.hi[b] = IF s = Len(c.ll) THEN G.hi[p] ELSE c.ll[s + 1].k
    BY <2>1, <1>a DEF Cotas
  <2> QED BY <2>1, <2>2, <1>w, <1>z, <1>u5
<1>ab. a # b /\ a # p /\ b # p
  BY <1>u5, <1>u7, <1>u8, <1>u9, <1>a, <1>f
<1>S. Sabido(G, da, La, a) /\ Sabido(G, db, Lb, b)
  BY <1>u8, <1>u9, <1>w, <1>y, <1>z, DeNodo

\* The two below.
<1>a1. ta \in Seq(Casillas) /\ La \in Nat /\ da.ant \in Nat
  BY <1>S, <1>w DEF Sabido
<1>a2. \A n \in 1..La : ta[n] \in Casillas /\ ta[n].k \in Nat /\ ta[n].may \in Nat /\ ta[n].nm \in Nat
  BY <1>S, <1>w DEF Sabido
<1>a3. \A n \in 1..La : /\ ta[n].k \in DOMAIN G.N /\ G.N[ta[n].k] = ta[n].nm /\ G.W[ta[n].k] = a
                        /\ G.lo[a] < ta[n].k /\ Bajo0(ta[n].k, x)
  BY <1>S, <1>w, <1>u8 DEF Sabido
<1>a4. \A i, j \in 1..La : i < j => ta[i].k < ta[j].k
  BY <1>S, <1>w DEF Sabido
<1>a5. G.h[a] = 0 => /\ \A n \in 0..La : Hijo(da, n) = 0
                     /\ \A i \in DOMAIN G.N : G.lo[a] < i /\ Bajo0(i, x) => G.W[i] = a
  BY <1>S, <1>u8 DEF Sabido
<1>a6. G.h[a] # 0 => \A n \in 0..La : Cotas(G, da, a, n) /\ Hijo(da, n) # G.r
  BY <1>S DEF Sabido
<1>b1. tb \in Seq(Casillas) /\ Lb \in Nat /\ db.ant \in Nat
  BY <1>S, <1>w DEF Sabido
<1>b2. \A n \in 1..Lb : tb[n] \in Casillas /\ tb[n].k \in Nat /\ tb[n].may \in Nat /\ tb[n].nm \in Nat
  BY <1>S, <1>w DEF Sabido
<1>b3. \A n \in 1..Lb : /\ tb[n].k \in DOMAIN G.N /\ G.N[tb[n].k] = tb[n].nm /\ G.W[tb[n].k] = b
                        /\ x < tb[n].k /\ Bajo0(tb[n].k, G.hi[b])
  BY <1>S, <1>w, <1>u9 DEF Sabido
<1>b4. \A i, j \in 1..Lb : i < j => tb[i].k < tb[j].k
  BY <1>S, <1>w DEF Sabido
<1>b5. G.h[b] = 0 => /\ \A n \in 0..Lb : Hijo(db, n) = 0
                     /\ \A i \in DOMAIN G.N : x < i /\ Bajo0(i, G.hi[b]) => G.W[i] = b
  BY <1>S, <1>u9 DEF Sabido
<1>b6. G.h[b] # 0 => \A n \in 0..Lb : Cotas(G, db, b, n) /\ Hijo(db, n) # G.r
  BY <1>S DEF Sabido

\* What comes out.
<1>k0. e.k = x /\ e.nm = u[s].nm /\ e.may = db.ant /\ e \in Casillas
  BY <1>y, <1>x, <1>u2, <1>u5, <1>b1 DEF Ranura, Casillas
<1>t1. /\ tt \in Seq(Casillas) /\ Len(tt) = La + 1 + Lb
       /\ \A n \in 1..La+1+Lb : tt[n] = IF n <= La THEN ta[n] ELSE IF n = La + 1 THEN e
                                        ELSE tb[n - La - 1]
  <2>1. /\ tt \in Seq(Casillas) /\ Len(tt) = Len(ta) + 1 + Len(tb)
        /\ \A n \in 1..Len(ta)+1+Len(tb) : tt[n] =
              IF n <= Len(ta) THEN ta[n] ELSE IF n = Len(ta) + 1 THEN e ELSE tb[n - Len(ta) - 1]
    BY <1>a1, <1>b1, <1>k0, <1>z, Junto
  <2> QED BY <2>1, <1>z
<1>t2. /\ te \in Seq(Casillas) /\ Len(te) = l - 1
       /\ \A n \in 1..l-1 : te[n] = IF n < s THEN u[n] ELSE u[n + 1]
  <2>1. u \in Seq(Casillas) /\ s \in 1..Len(u) /\ te = RemoveAt(u, s)
    BY <1>u1, <1>u5, <1>z
  <2>2. /\ te \in Seq(Casillas) /\ Len(te) = Len(u) - 1
        /\ \A n \in 1..Len(u)-1 : te[n] = IF n < s THEN u[n] ELSE u[n + 1]
    BY <2>1, Sacado
  <2> QED BY <2>2, <1>z
<1>R. /\ a \in G.C /\ b \in G.C /\ a # b /\ a # p /\ b # p /\ b # G.r /\ a # G.r
      /\ G.P[a] = p /\ G.P[b] = p /\ G.h[a] = G.h[p] - 1 /\ G.h[b] = G.h[a]
  BY <1>u8, <1>u9, <1>ab
<1>n1. Nodo(H, E[a], a)
  <2> DEFINE d == E[a]
             M == La + 1 + Lb
  <2>0. d = Klug(d.ant, tt) /\ d.ll = tt /\ d.ant = da.ant /\ d.ant \in Nat
    BY <1>b, <1>v, <1>a1
  <2>m. M = La + 1 + Lb
    OBVIOUS
  <2> HIDE DEF d, M
  <2>1. EsKlug(d)
    BY <2>0, <1>t1 DEF EsKlug
  <2>2. \A n \in 1..M : \/ n \in 1..La /\ tt[n] = ta[n]
                        \/ n = La + 1 /\ tt[n] = e
                        \/ n > La + 1 /\ n - La - 1 \in 1..Lb /\ tt[n] = tb[n - La - 1]
    <3> TAKE n \in 1..M
    <3>1. \/ n \in 1..La
          \/ n = La + 1
          \/ n > La + 1 /\ n - La - 1 \in 1..Lb
      BY <2>m, <1>a1, <1>b1
    <3> QED BY <3>1, <2>m, <1>t1, <1>a1
  <2>h. \A n \in 0..M : \/ n \in 0..La /\ Hijo(d, n) = Hijo(da, n)
                        \/ n > La /\ n - La - 1 \in 0..Lb /\ Hijo(d, n) = Hijo(db, n - La - 1)
    <3> TAKE n \in 0..M
    <3>1. CASE n = 0
      BY <3>1, <2>0, <1>a1 DEF Hijo
    <3>2. CASE n # 0
      <4>0. n \in 1..M
        BY <3>2, <2>m, <1>a1, <1>b1
      <4>1. CASE n \in 1..La /\ tt[n] = ta[n]
        BY <4>1, <2>0, <1>w, <3>2, <1>a1 DEF Hijo
      <4>2. CASE n = La + 1 /\ tt[n] = e
        <5>1. n > La /\ n - La - 1 = 0 /\ 0 \in 0..Lb
          BY <4>2, <1>a1, <1>b1
        <5> QED BY <4>2, <5>1, <3>2, <2>0, <1>k0 DEF Hijo
      <4>3. CASE n > La + 1 /\ n - La - 1 \in 1..Lb /\ tt[n] = tb[n - La - 1]
        <5>1. n > La /\ n - La - 1 # 0 /\ n - La - 1 \in 0..Lb
          BY <4>3, <1>a1, <1>b1
        <5> QED BY <4>3, <5>1, <3>2, <2>0, <1>w DEF Hijo
      <4> QED BY <4>0, <4>1, <4>2, <4>3, <2>2
    <3> QED BY <3>1, <3>2
  <2>b. H.h[a] = G.h[a] /\ H.lo[a] = G.lo[a] /\ H.hi[a] = G.hi[b] /\ H.N = G.N /\ a \in H.C
    BY <1>g, <1>h, <1>R
  <2>w. \A i \in DOMAIN G.N : i = x \/ G.W[i] = b \/ G.W[i] = a => H.W[i] = a
    BY <1>j
  <2>x. G.lo[a] < x /\ Bajo0(x, G.hi[b])
    <3>1. G.lo[a] < x
      <4>1. CASE s = 1
        BY <4>1, <1>u8, <1>x
      <4>2. CASE s # 1
        <5>1. s - 1 \in 1..l /\ s - 1 < s
          BY <4>2, <1>u5, <1>u1
        <5> QED BY <4>2, <5>1, <1>u8, <1>u4, <1>u5, <1>w
      <4> QED BY <4>1, <4>2
    <3>2. Bajo0(x, G.hi[b])
      <4>1. CASE s = l
        BY <4>1, <1>u9, <1>x
      <4>2. CASE s # l
        <5>1. s + 1 \in 1..l /\ s < s + 1
          BY <4>2, <1>u5, <1>u1
        <5> QED BY <4>2, <5>1, <1>u9, <1>u4, <1>u5, <1>w DEF Bajo0
      <4> QED BY <4>1, <4>2
    <3> QED BY <3>1, <3>2
  <2>y. \A i \in Nat : /\ (i < x => Bajo0(i, G.hi[b]))
                       /\ (x < i => G.lo[a] < i)
    <3>1. x \in Nat /\ G.lo[a] \in Int /\ G.hi[b] \in Int
      BY <1>x, <1>f, <1>R
    <3> QED BY <3>1, <2>x DEF Bajo0
  <2>3. \A n \in 1..M : Suya(H, a, tt[n])
    <3> TAKE n \in 1..M
    <3>1. CASE n \in 1..La /\ tt[n] = ta[n]
      <4>1. ta[n].k < x /\ ta[n].k \in Nat
        BY <3>1, <1>a2, <1>a3, <1>x DEF Bajo0
      <4> QED BY <3>1, <4>1, <2>y, <2>b, <2>w, <1>a3 DEF Suya, Dentro
    <3>2. CASE n = La + 1 /\ tt[n] = e
      <4>1. G.N[x] = u[s].nm
        BY <1>u3, <1>u5, <1>w
      <4> QED BY <3>2, <4>1, <2>x, <2>b, <2>w, <1>k0, <1>x DEF Suya, Dentro
    <3>3. CASE n > La + 1 /\ n - La - 1 \in 1..Lb /\ tt[n] = tb[n - La - 1]
      <4> DEFINE j == n - La - 1
      <4>1. j \in 1..Lb /\ tt[n] = tb[j]
        BY <3>3
      <4> HIDE DEF j
      <4> QED BY <4>1, <2>y, <2>b, <2>w, <1>b2, <1>b3 DEF Suya, Dentro
    <3> QED BY <3>1, <3>2, <3>3, <2>2
  <2>4. \A i, j \in 1..M : i < j => tt[i].k < tt[j].k
    <3> TAKE i, j \in 1..M
    <3>0. SUFFICES ASSUME i < j PROVE tt[i].k < tt[j].k
      OBVIOUS
    <3>1. CASE i \in 1..La /\ tt[i] = ta[i]
      <4>0. ta[i].k < x /\ ta[i].k \in Nat
        BY <3>1, <1>a2, <1>a3, <1>x DEF Bajo0
      <4>1. CASE j \in 1..La /\ tt[j] = ta[j]
        BY <3>0, <3>1, <4>1, <1>a4
      <4>2. CASE j = La + 1 /\ tt[j] = e
        BY <3>1, <4>0, <4>2, <1>k0
      <4>3. CASE j > La + 1 /\ j - La - 1 \in 1..Lb /\ tt[j] = tb[j - La - 1]
        BY <3>1, <4>0, <4>3, <1>b2, <1>b3, <1>x
      <4> QED BY <4>1, <4>2, <4>3, <2>2
    <3>2. CASE i = La + 1 /\ tt[i] = e
      <4>1. j > La + 1 /\ j - La - 1 \in 1..Lb /\ tt[j] = tb[j - La - 1]
        BY <3>0, <3>2, <2>2, <1>a1
      <4> QED BY <3>2, <4>1, <1>k0, <1>b3
    <3>3. CASE i > La + 1 /\ i - La - 1 \in 1..Lb /\ tt[i] = tb[i - La - 1]
      <4>1. j > La + 1 /\ j - La - 1 \in 1..Lb /\ tt[j] = tb[j - La - 1]
        BY <3>0, <3>3, <2>2, <1>a1
      <4>2. i - La - 1 < j - La - 1
        BY <3>0, <1>a1
      <4> QED BY <3>3, <4>1, <4>2, <1>b4
    <3> QED BY <3>1, <3>2, <3>3, <2>2
  <2>5. G.h[a] = 0 => /\ \A n \in 0..M : Hijo(d, n) = 0
                      /\ \A i \in DOMAIN G.N : Dentro(H, a, i) => H.W[i] = a
    <3> SUFFICES ASSUME G.h[a] = 0
                 PROVE  /\ \A n \in 0..M : Hijo(d, n) = 0
                        /\ \A i \in DOMAIN G.N : Dentro(H, a, i) => H.W[i] = a
      OBVIOUS
    <3>1. /\ \A n \in 0..La : Hijo(da, n) = 0
          /\ \A n \in 0..Lb : Hijo(db, n) = 0
      BY <1>a5, <1>b5, <1>R
    <3>2. ASSUME NEW i \in DOMAIN G.N, Dentro(H, a, i) PROVE H.W[i] = a
      <4>1. G.lo[a] < i /\ Bajo0(i, G.hi[b]) /\ i \in Nat
        BY <3>2, <2>b, <1>f DEF Dentro
      <4>2. CASE i < x
        BY <4>1, <4>2, <1>a5, <2>w DEF Bajo0
      <4>3. CASE x < i
        BY <4>1, <4>3, <1>b5, <2>w, <1>R
      <4> QED BY <4>1, <4>2, <4>3, <2>w, <1>x
    <3> QED BY <3>1, <3>2, <2>h
  <2>6. G.h[a] # 0 => \A n \in 0..M : Cotas(H, d, a, n)
    <3> SUFFICES ASSUME G.h[a] # 0, NEW n \in 0..M PROVE Cotas(H, d, a, n)
      OBVIOUS
    <3>9. d.ll = tt /\ Len(tt) = M
      BY <2>0, <2>m, <1>t1
    <3>1. CASE n \in 0..La /\ Hijo(d, n) = Hijo(da, n)
      <4> DEFINE z == Hijo(da, n)
      <4>z. z = Hijo(da, n) /\ Hijo(d, n) = z
        BY <3>1
      <4> HIDE DEF z
      <4>0. (n # 0 => n \in 1..La /\ n \in 1..M) /\ n # M /\ n + 1 \in 1..M /\ (n # La => n + 1 \in 1..La)
        BY <3>1, <2>m, <1>a1, <1>b1
      <4>1. Cotas(G, da, a, n)
        BY <3>1, <1>a6
      <4>2. /\ z \in G.C /\ G.h[z] = G.h[a] - 1 /\ G.P[z] = a
            /\ G.lo[z] = (IF n = 0 THEN G.lo[a] ELSE ta[n].k)
            /\ G.hi[z] = (IF n = La THEN x ELSE ta[n + 1].k)
        BY <4>1, <4>z, <1>w, <1>z, <1>u8 DEF Cotas
      <4>3. z # a /\ z # b
        BY <4>2, <1>R, <1>f
      <4>4. H.h[z] = G.h[z] /\ H.lo[z] = G.lo[z] /\ H.P[z] = a /\ z \in H.C /\ H.hi[z] = G.hi[z]
        BY <4>2, <4>3, <1>g, <1>h, <1>R
      <4>5. n # 0 => tt[n] = ta[n]
        BY <4>0, <2>2, <1>a1
      <4>6. tt[n + 1] = IF n = La THEN e ELSE ta[n + 1]
        <5>1. CASE n = La
          BY <5>1, <4>0, <2>2, <1>a1
        <5>2. CASE n # La
          BY <5>2, <4>0, <2>2, <1>a1
        <5> QED BY <5>1, <5>2
      <4>7. H.lo[z] = IF n = 0 THEN H.lo[a] ELSE tt[n].k
        BY <4>2, <4>4, <4>5, <2>b
      <4>8. H.hi[z] = tt[n + 1].k
        BY <4>2, <4>4, <4>6, <1>k0
      <4> QED BY <4>0, <4>2, <4>4, <4>7, <4>8, <4>z, <2>b, <3>9 DEF Cotas
    <3>2. CASE n > La /\ n - La - 1 \in 0..Lb /\ Hijo(d, n) = Hijo(db, n - La - 1)
      <4> DEFINE j == n - La - 1
                 z == Hijo(db, j)
      <4>0. /\ j \in 0..Lb /\ n # 0 /\ n \in 1..M /\ (j # 0 => j \in 1..Lb) /\ (n = M <=> j = Lb)
            /\ (n # M => n + 1 \in 1..M /\ n + 1 > La + 1 /\ (n + 1) - La - 1 = j + 1) /\ j = n - La - 1
            /\ (j = 0 => n = La + 1) /\ (j # 0 => n > La + 1)
        BY <3>2, <2>m, <1>a1, <1>b1
      <4>z. z = Hijo(db, j) /\ Hijo(d, n) = z
        BY <3>2
      <4> HIDE DEF z, j
      <4>1. Cotas(G, db, b, j)
        BY <4>0, <1>b6, <1>R
      <4>2. /\ z \in G.C /\ G.h[z] = G.h[a] - 1 /\ G.P[z] = b
            /\ G.lo[z] = (IF j = 0 THEN x ELSE tb[j].k)
            /\ G.hi[z] = (IF j = Lb THEN G.hi[b] ELSE tb[j + 1].k)
        BY <4>1, <4>z, <1>w, <1>z, <1>u9, <1>R DEF Cotas
      <4>3. z # a /\ z # b
        BY <4>2, <1>R, <1>f
      <4>4. H.h[z] = G.h[z] /\ H.lo[z] = G.lo[z] /\ H.P[z] = a /\ z \in H.C /\ H.hi[z] = G.hi[z]
        BY <4>2, <4>3, <1>g, <1>h
      <4>5. tt[n] = IF j = 0 THEN e ELSE tb[j]
        BY <4>0, <2>2, <1>a1
      <4>6. n # M => tt[n + 1] = tb[j + 1]
        BY <4>0, <2>2, <1>a1
      <4>7. H.lo[z] = tt[n].k
        BY <4>2, <4>4, <4>5, <1>k0
      <4>8. H.hi[z] = IF n = M THEN H.hi[a] ELSE tt[n + 1].k
        BY <4>0, <4>2, <4>4, <4>6, <2>b
      <4> QED BY <4>0, <4>2, <4>4, <4>7, <4>8, <4>z, <2>b, <3>9 DEF Cotas
    <3> QED BY <3>1, <3>2, <2>h
  <2>8. Nodo(H, d, a)
    BY <2>0, <2>1, <2>3, <2>4, <2>5, <2>6, <2>b, <2>m, <1>t1 DEF Nodo
  <2> QED BY <2>8 DEF d
<1>n2. Nodo(H, E[p], p)
  <2> DEFINE d == E[p]
  <2>0. d = Klug(d.ant, te) /\ d.ll = te /\ d.ant = c.ant /\ d.ant \in Nat
    BY <1>b, <1>v, <1>u1
  <2> HIDE DEF d
  <2>1. EsKlug(d)
    BY <2>0, <1>t2 DEF EsKlug
  <2>2. \A n \in 1..l-1 : \/ n < s /\ n \in 1..l /\ te[n] = u[n]
                          \/ n >= s /\ n + 1 \in 1..l /\ te[n] = u[n + 1]
    <3> TAKE n \in 1..l-1
    <3>1. \/ n < s /\ n \in 1..l
          \/ ~(n < s) /\ n >= s /\ n + 1 \in 1..l
      BY <1>u1, <1>u5
    <3> QED BY <3>1, <1>t2
  <2>b. H.h[p] = G.h[p] /\ H.lo[p] = G.lo[p] /\ H.hi[p] = G.hi[p] /\ H.N = G.N /\ p \in H.C
    BY <1>g, <1>h, <1>R, <1>a
  <2>w. \A n \in 1..l : n # s => H.W[u[n].k] = p
    <3> TAKE n \in 1..l
    <3>1. SUFFICES ASSUME n # s PROVE H.W[u[n].k] = p
      OBVIOUS
    <3>2. u[n].k # x
      <4>1. n < s \/ s < n
        BY <3>1, <1>u5, <1>u1
      <4> QED BY <4>1, <1>u2, <1>u4, <1>u5, <1>w
    <3> QED BY <3>2, <1>u3, <1>j, <1>R
  <2>3. \A n \in 1..l-1 : Suya(H, p, te[n])
    <3> TAKE n \in 1..l-1
    <3>1. CASE n < s /\ n \in 1..l /\ te[n] = u[n]
      <4>1. n # s
        BY <3>1, <1>u5
      <4> QED BY <3>1, <4>1, <2>w, <2>b, <1>u3 DEF Suya, Dentro
    <3>2. CASE n >= s /\ n + 1 \in 1..l /\ te[n] = u[n + 1]
      <4>1. n + 1 # s
        BY <3>2, <1>u5
      <4> QED BY <3>2, <4>1, <2>w, <2>b, <1>u3 DEF Suya, Dentro
    <3> QED BY <3>1, <3>2, <2>2
  <2>4. \A i, j \in 1..l-1 : i < j => te[i].k < te[j].k
    <3> TAKE i, j \in 1..l-1
    <3>0. SUFFICES ASSUME i < j PROVE te[i].k < te[j].k
      OBVIOUS
    <3>1. CASE i < s /\ i \in 1..l /\ te[i] = u[i]
      <4>1. i < j + 1
        BY <3>0
      <4> QED BY <3>0, <3>1, <4>1, <2>2, <1>u4
    <3>2. CASE i >= s /\ i + 1 \in 1..l /\ te[i] = u[i + 1]
      <4>1. j >= s /\ i + 1 < j + 1 /\ ~(j < s)
        BY <3>0, <3>2, <1>u5
      <4> QED BY <3>2, <4>1, <2>2, <1>u4
    <3> QED BY <3>1, <3>2, <2>2
  <2>6. \A n \in 0..l-1 : Cotas(H, d, p, n)
    <3> TAKE n \in 0..l-1
    <3>9. d.ll = te /\ Len(te) = l - 1
      BY <2>0, <1>t2
    <3>1. CASE n < s
      <4> DEFINE z == Hijo(c, n)
      <4>0. n \in 0..l /\ (n # 0 => n \in 1..l-1) /\ (n # l - 1 => n + 1 \in 1..l-1) /\ n + 1 \in 1..l /\ n # l
            /\ n # s /\ (n # s - 1 => n + 1 < s /\ n # l - 1) /\ (n = s - 1 => n + 1 = s)
        BY <3>1, <1>u5, <1>u1
      <4>1. n # 0 => te[n] = u[n]
        BY <4>0, <3>1, <2>2, <1>u5
      <4>2. Hijo(d, n) = z
        BY <4>0, <4>1, <2>0, <1>w DEF Hijo
      <4>z. z = Hijo(c, n)
        OBVIOUS
      <4> HIDE DEF z
      <4>4. Cotas(G, c, p, n)
        BY <4>0, <1>u6
      <4>5. /\ z \in G.C /\ G.h[z] = G.h[p] - 1 /\ G.P[z] = p
            /\ G.lo[z] = (IF n = 0 THEN G.lo[p] ELSE u[n].k)
            /\ G.hi[z] = u[n + 1].k
        BY <4>0, <4>4, <4>z, <1>w, <1>z DEF Cotas
      <4>6. z # b /\ (z = a <=> n = s - 1)
        BY <4>0, <4>z, <1>u5, <1>u7, <1>a
      <4>7. H.h[z] = G.h[z] /\ H.lo[z] = G.lo[z] /\ H.P[z] = p /\ z \in H.C
            /\ H.hi[z] = IF n = s - 1 THEN G.hi[b] ELSE G.hi[z]
        BY <4>5, <4>6, <1>g, <1>h, <1>R
      <4>8. H.hi[z] = IF n = l - 1 THEN H.hi[p] ELSE te[n + 1].k
        <5>1. CASE n = s - 1
          <6>1. (s = l <=> n = l - 1) /\ n + 1 = s /\ ~(s < s)
            BY <5>1, <1>u5, <1>u1
          <6>2. n # l - 1 => te[n + 1] = u[s + 1]
            BY <6>1, <4>0, <2>2
          <6> QED BY <5>1, <6>1, <6>2, <4>7, <1>u9, <2>b
        <5>2. CASE n # s - 1
          <6>1. n # l - 1 /\ n + 1 < s /\ n + 1 \in 1..l-1 /\ ~(n + 1 >= s)
            BY <5>2, <4>0, <1>u5
          <6>2. te[n + 1] = u[n + 1]
            BY <6>1, <2>2
          <6> QED BY <5>2, <6>1, <6>2, <4>5, <4>7
        <5> QED BY <5>1, <5>2
      <4>10. H.lo[z] = IF n = 0 THEN H.lo[p] ELSE te[n].k
        BY <4>5, <4>7, <4>1, <2>b
      <4> QED BY <4>2, <4>5, <4>7, <4>8, <4>10, <3>9, <2>b DEF Cotas
    <3>2. CASE n >= s
      <4> DEFINE j == n + 1
                 z == Hijo(c, j)
      <4>0. /\ j \in 0..l /\ j # 0 /\ j \in 1..l /\ n \in 1..l-1 /\ n # 0 /\ j # s /\ j # s - 1
            /\ (n = l - 1 <=> j = l) /\ (n # l - 1 => n + 1 \in 1..l-1 /\ n + 1 >= s /\ ~(n + 1 < s)) /\ j = n + 1
            /\ ~(n < s)
        BY <3>2, <1>u5, <1>u1
      <4>1. te[n] = u[j]
        BY <4>0, <2>2
      <4>a. n # l - 1 => te[n + 1] = u[j + 1]
        BY <4>0, <2>2
      <4>2. Hijo(d, n) = z
        BY <4>0, <4>1, <2>0, <1>w DEF Hijo
      <4>z. z = Hijo(c, j)
        OBVIOUS
      <4> HIDE DEF z, j
      <4>4. Cotas(G, c, p, j)
        BY <4>0, <1>u6
      <4>5. /\ z \in G.C /\ G.h[z] = G.h[p] - 1 /\ G.P[z] = p
            /\ G.lo[z] = u[j].k
            /\ G.hi[z] = IF j = l THEN G.hi[p] ELSE u[j + 1].k
        BY <4>0, <4>4, <4>z, <1>w, <1>z DEF Cotas
      <4>6. z # b /\ z # a
        BY <4>0, <4>z, <1>u5, <1>u7, <1>a
      <4>7. H.h[z] = G.h[z] /\ H.lo[z] = G.lo[z] /\ H.P[z] = p /\ z \in H.C /\ H.hi[z] = G.hi[z]
        BY <4>5, <4>6, <1>g, <1>h, <1>R
      <4>8. H.hi[z] = IF n = l - 1 THEN H.hi[p] ELSE te[n + 1].k
        BY <4>0, <4>a, <4>5, <4>7, <2>b
      <4>10. H.lo[z] = te[n].k
        BY <4>5, <4>7, <4>1
      <4> QED BY <4>0, <4>2, <4>5, <4>7, <4>8, <4>10, <3>9, <2>b DEF Cotas
    <3>4. n < s \/ n >= s
      BY <1>u5
    <3> QED BY <3>1, <3>2, <3>4
  <2>8. Nodo(H, d, p)
    BY <2>0, <2>1, <2>3, <2>4, <2>6, <2>b, <1>a, <1>t2 DEF Nodo
  <2> QED BY <2>8 DEF d
<1>n4. ASSUME NEW y \in G.C \ {a, b, p} PROVE Nodo(H, E[y], y)
  <2> DEFINE d == E[y]
             m == Len(d.ll)
  <2>1. Sabido(G, d, m, y) /\ y # a /\ y # b /\ y # p
    BY <1>n4, <1>c, DeNodo
  <2> HIDE DEF d, m
  <2>2. EsKlug(d) /\ m = Len(d.ll) /\ m \in Nat
    BY <2>1 DEF Sabido, EsKlug
  <2>3. H.h[y] = G.h[y] /\ H.lo[y] = G.lo[y] /\ H.hi[y] = G.hi[y] /\ H.N = G.N
    BY <2>1, <1>g, <1>h
  <2>4. \A i \in DOMAIN G.N : G.W[i] = y => H.W[i] = y
    BY <2>1, <1>j, <1>x
  <2>5. \A n \in 1..m : Suya(H, y, d.ll[n])
    BY <2>1, <2>3, <2>4 DEF Sabido, Suya, Dentro
  <2>6. \A i, j \in 1..m : i < j => d.ll[i].k < d.ll[j].k
    BY <2>1 DEF Sabido
  <2>7. G.h[y] = 0 => /\ \A n \in 0..m : Hijo(d, n) = 0
                      /\ \A i \in DOMAIN G.N : Dentro(H, y, i) => H.W[i] = y
    BY <2>1, <2>3, <2>4 DEF Sabido, Dentro
  <2>8. G.h[y] # 0 => \A n \in 0..m : Cotas(H, d, y, n)
    <3> SUFFICES ASSUME G.h[y] # 0, NEW n \in 0..m PROVE Cotas(H, d, y, n)
      OBVIOUS
    <3> DEFINE z == Hijo(d, n)
    <3>1. Cotas(G, d, y, n)
      BY <2>1 DEF Sabido
    <3>2. /\ z \in G.C /\ G.h[z] = G.h[y] - 1 /\ G.P[z] = y
          /\ G.lo[z] = IF n = 0 THEN G.lo[y] ELSE d.ll[n].k
          /\ G.hi[z] = IF n = Len(d.ll) THEN G.hi[y] ELSE d.ll[n + 1].k
      BY <3>1 DEF Cotas
    <3>z. z = Hijo(d, n)
      OBVIOUS
    <3> HIDE DEF z
    <3>3. z # a /\ z # b
      BY <3>2, <2>1, <1>R
    <3>4. H.h[z] = G.h[z] /\ H.lo[z] = G.lo[z] /\ H.P[z] = y /\ z \in H.C /\ H.hi[z] = G.hi[z]
      BY <3>2, <3>3, <2>1, <1>g, <1>h
    <3> QED BY <3>2, <3>4, <3>z, <2>3 DEF Cotas
  <2>9. Nodo(H, d, y)
    BY <2>2, <2>3, <2>5, <2>6, <2>7, <2>8 DEF Nodo
  <2> QED BY <2>9 DEF d
<1>k. ASSUME NEW i \in DOMAIN H.N PROVE \E n \in 1..Len(E[H.W[i]].ll) : E[H.W[i]].ll[n].k = i
  <2>0. i \in DOMAIN G.N /\ i \in Nat
    BY <1>k, <1>g, <1>f
  <2>1. PICK n \in 1..Len(D[G.W[i]].ll) : D[G.W[i]].ll[n].k = i
    BY <2>0 DEF Arbol
  <2>2. CASE i = x
    <3>1. La + 1 \in 1..La+1+Lb /\ ~(La + 1 <= La)
      BY <1>a1, <1>b1
    <3>2. tt[La + 1].k = i
      BY <3>1, <2>2, <1>t1, <1>k0
    <3> QED BY <3>1, <3>2, <2>2, <1>j, <2>0, <1>v, <1>t1
  <2>3. CASE i # x /\ G.W[i] = a
    <3>1. n \in 1..La /\ ta[n].k = i
      BY <2>1, <2>3, <1>w, <1>z, <1>y
    <3>2. n \in 1..La+1+Lb /\ n <= La
      BY <3>1, <1>a1, <1>b1
    <3> QED BY <3>1, <3>2, <2>3, <1>j, <2>0, <1>v, <1>t1
  <2>4. CASE i # x /\ G.W[i] = b
    <3>1. n \in 1..Lb /\ tb[n].k = i
      BY <2>1, <2>4, <1>w, <1>z, <1>y
    <3>2. La + 1 + n \in 1..La+1+Lb /\ ~(La + 1 + n <= La) /\ La + 1 + n # La + 1 /\ (La + 1 + n) - La - 1 = n
      BY <3>1, <1>a1, <1>b1
    <3>3. tt[La + 1 + n].k = i
      BY <3>1, <3>2, <1>t1
    <3> QED BY <3>2, <3>3, <2>4, <1>j, <2>0, <1>v, <1>t1
  <2>5. CASE i # x /\ G.W[i] = p
    <3>1. n \in 1..l /\ u[n].k = i /\ n # s
      BY <2>1, <2>5, <1>w, <1>z, <1>y
    <3>2. \E j \in 1..l-1 : te[j].k = i
      <4>1. CASE n < s
        <5>1. n \in 1..l-1
          BY <4>1, <3>1, <1>u5, <1>u1
        <5> QED BY <4>1, <5>1, <3>1, <1>t2
      <4>2. CASE n > s
        <5>1. n - 1 \in 1..l-1 /\ ~(n - 1 < s) /\ n - 1 + 1 = n
          BY <4>2, <3>1, <1>u5, <1>u1
        <5> QED BY <5>1, <3>1, <1>t2
      <4> QED BY <4>1, <4>2, <3>1, <1>u5
    <3> QED BY <3>2, <2>5, <1>j, <2>0, <1>v, <1>t2, <1>R
  <2>6. CASE i # x /\ G.W[i] \notin {a, b, p}
    <3>1. H.W[i] = G.W[i] /\ G.W[i] \in G.C \ {a, b, p}
      BY <2>6, <2>0, <1>j, <1>f
    <3> QED BY <3>1, <2>1, <1>c
  <2> QED BY <2>2, <2>3, <2>4, <2>5, <2>6
<1>l. ASSUME NEW y \in H.C \ {H.r}
      PROVE  H.P[y] \in H.C /\ \E n \in 0..Len(E[H.P[y]].ll) : Hijo(E[H.P[y]], n) = y
  <2>1. y \in G.C \ {G.r} /\ y # b
    BY <1>g
  <2>2. G.P[y] \in G.C
    BY <2>1 DEF Arbol
  <2>3. PICK n \in 0..Len(D[G.P[y]].ll) : Hijo(D[G.P[y]], n) = y
    BY <2>1 DEF Arbol
  <2>4. H.P[y] = IF G.P[y] = b THEN a ELSE G.P[y]
    BY <2>1, <1>h
  <2>5. CASE G.P[y] = a
    <3>1. n \in 0..La /\ Hijo(da, n) = y
      BY <2>3, <2>5, <1>w, <1>z, <1>y
    <3>2. n \in 0..La+1+Lb /\ (n # 0 => n \in 1..La+1+Lb /\ n <= La)
      BY <3>1, <1>a1, <1>b1
    <3>3. Hijo(E[a], n) = y
      BY <3>1, <3>2, <1>v, <1>t1, <1>w DEF Hijo
    <3> QED BY <3>2, <3>3, <2>4, <2>5, <1>R, <1>g, <1>v, <1>t1
  <2>6. CASE G.P[y] = b
    <3>1. n \in 0..Lb /\ Hijo(db, n) = y
      BY <2>3, <2>6, <1>w, <1>z, <1>y
    <3>2. La + 1 + n \in 0..La+1+Lb /\ La + 1 + n # 0 /\ La + 1 + n \in 1..La+1+Lb /\ ~(La + 1 + n <= La)
          /\ (n = 0 <=> La + 1 + n = La + 1) /\ (La + 1 + n) - La - 1 = n /\ (n # 0 => n \in 1..Lb)
      BY <3>1, <1>a1, <1>b1
    <3>3. tt[La + 1 + n] = IF n = 0 THEN e ELSE tb[n]
      BY <3>2, <1>t1
    <3>4. Hijo(E[a], La + 1 + n) = tt[La + 1 + n].may
      BY <3>2, <1>v DEF Hijo
    <3>5. Hijo(E[a], La + 1 + n) = y
      <4>1. CASE n = 0
        BY <4>1, <3>1, <3>3, <3>4, <1>k0 DEF Hijo
      <4>2. CASE n # 0
        BY <4>2, <3>1, <3>3, <3>4, <1>w DEF Hijo
      <4> QED BY <4>1, <4>2
    <3> QED BY <3>2, <3>5, <2>4, <2>6, <1>R, <1>g, <1>v, <1>t1
  <2>7. CASE G.P[y] = p
    <3>1. n \in 0..l /\ Hijo(c, n) = y /\ n # s
      BY <2>1, <2>3, <2>7, <1>w, <1>z, <1>y, <1>a
    <3>2. \E j \in 0..l-1 : Hijo(E[p], j) = y
      <4>1. CASE n < s
        <5>1. n \in 0..l-1 /\ (n # 0 => n \in 1..l-1)
          BY <4>1, <3>1, <1>u5, <1>u1
        <5>2. n # 0 => te[n] = u[n]
          BY <4>1, <5>1, <1>t2
        <5> QED BY <5>1, <5>2, <3>1, <1>v, <1>w DEF Hijo
      <4>2. CASE n > s
        <5>1. n - 1 \in 1..l-1 /\ ~(n - 1 < s) /\ n - 1 + 1 = n /\ n - 1 \in 0..l-1 /\ n # 0 /\ n - 1 # 0
          BY <4>2, <3>1, <1>u5, <1>u1
        <5>2. te[n - 1] = u[n]
          BY <5>1, <1>t2
        <5> QED BY <5>1, <5>2, <3>1, <1>v, <1>w DEF Hijo
      <4> QED BY <4>1, <4>2, <3>1, <1>u5
    <3> QED BY <3>2, <2>4, <2>7, <1>R, <1>g, <1>v, <1>t2, <1>a
  <2>8. CASE G.P[y] \notin {a, b, p}
    <3>1. H.P[y] = G.P[y] /\ G.P[y] \in G.C \ {a, b, p}
      BY <2>8, <2>2, <2>4
    <3> QED BY <3>1, <2>3, <1>c, <1>g
  <2> QED BY <2>5, <2>6, <2>7, <2>8
<1>o. Forma0(H)
  <2>1. H = [r |-> H.r, C |-> H.C, h |-> H.h, lo |-> H.lo, hi |-> H.hi, P |-> H.P, W |-> H.W, N |-> H.N]
    BY <1>H DEF Unido
  <2>2. /\ DOMAIN H.h = G.C \ {b} /\ DOMAIN H.lo = G.C \ {b} /\ DOMAIN H.hi = G.C \ {b}
        /\ DOMAIN H.P = G.C \ {b} /\ DOMAIN H.W = DOMAIN G.N
        /\ H.h = [y \in DOMAIN H.h |-> H.h[y]] /\ H.lo = [y \in DOMAIN H.lo |-> H.lo[y]]
        /\ H.hi = [y \in DOMAIN H.hi |-> H.hi[y]] /\ H.P = [y \in DOMAIN H.P |-> H.P[y]]
        /\ H.W = [y \in DOMAIN H.W |-> H.W[y]]
    BY <1>H DEF Unido
  <2>3. H.C \subseteq Nat \ {0} /\ H.r \in H.C /\ DOMAIN H.N \subseteq Nat
    BY <1>g, <1>f, <1>R
  <2>4. \A y \in H.C : /\ H.h[y] \in Nat /\ H.P[y] \in Nat
                       /\ H.lo[y] \in Nat \cup {-1} /\ H.hi[y] \in Nat \cup {-1}
    BY <1>g, <1>h, <1>f, <1>R
  <2>5. H.P[H.r] = 0 /\ H.lo[H.r] = -1 /\ H.hi[H.r] = -1
    BY <1>g, <1>h, <1>f, <1>R
  <2>6. \A i \in DOMAIN H.N : H.W[i] \in H.C
    BY <1>g, <1>j, <1>f, <1>R
  <2>7. H.h \in [H.C -> Nat] /\ H.P \in [H.C -> Nat]
    BY <2>2, <2>4, <1>g
  <2>8. H.lo \in [H.C -> Nat \cup {-1}] /\ H.hi \in [H.C -> Nat \cup {-1}]
    BY <2>2, <2>4, <1>g
  <2>9. H.W \in [DOMAIN H.N -> H.C]
    BY <2>2, <2>6, <1>g
  <2>10. \A y \in G.C \ {G.r} : G.h[y] < G.h[G.r]
    BY <1>d DEF Forma0
  <2>11. \A y \in H.C \ {H.r} : H.h[y] < H.h[H.r]
    BY <2>10, <1>g, <1>h, <1>f, <1>R
  <2> QED BY <2>1, <2>3, <2>5, <2>7, <2>8, <2>9, <2>11 DEF Forma0
<1>q. \A y \in H.C : Nodo(H, E[y], y)
  BY <1>n1, <1>n2, <1>n4, <1>g
<1>r. Arbol(E, H)
  BY <1>o, <1>q, <1>k, <1>l DEF Arbol
<1> QED BY <1>F, <1>r, <1>R

\* What a tree is at each cluster and each key.
Puntos(D, G) ==
    /\ 0 \notin G.C /\ G.C \subseteq Nat /\ DOMAIN G.N \subseteq Nat /\ G.r \in G.C /\ G.P[G.r] = 0
    /\ \A y \in G.C : /\ G.h[y] \in Nat /\ G.P[y] \in Nat
                      /\ G.lo[y] \in Nat \cup {-1} /\ G.hi[y] \in Nat \cup {-1}
    /\ \A i \in DOMAIN G.N : /\ G.W[i] \in G.C /\ i \in Nat
                             /\ \E n \in 1..Len(D[G.W[i]].ll) : D[G.W[i]].ll[n].k = i
    /\ G.lo[G.r] = -1 /\ G.hi[G.r] = -1
    /\ \A y \in G.C \ {G.r} : /\ G.h[y] < G.h[G.r] /\ G.P[y] \in G.C
                              /\ \E n \in 0..Len(D[G.P[y]].ll) : Hijo(D[G.P[y]], n) = y

\* It is so of every tree.
LEMMA DePuntos == ASSUME NEW D, NEW G, Arbol(D, G) PROVE Puntos(D, G)
<1>1. Forma0(G)
  BY DEF Arbol
<1>2. /\ 0 \notin G.C /\ G.C \subseteq Nat /\ DOMAIN G.N \subseteq Nat /\ G.r \in G.C /\ G.P[G.r] = 0
      /\ \A y \in G.C : /\ G.h[y] \in Nat /\ G.P[y] \in Nat
                        /\ G.lo[y] \in Nat \cup {-1} /\ G.hi[y] \in Nat \cup {-1}
      /\ \A i \in DOMAIN G.N : G.W[i] \in G.C /\ i \in Nat
      /\ G.lo[G.r] = -1 /\ G.hi[G.r] = -1
  BY <1>1 DEF Forma0
<1>3. \A y \in G.C \ {G.r} : G.h[y] < G.h[G.r]
  BY <1>1 DEF Forma0
<1>4. \A i \in DOMAIN G.N : \E n \in 1..Len(D[G.W[i]].ll) : D[G.W[i]].ll[n].k = i
  BY DEF Arbol
<1>5. \A y \in G.C \ {G.r} : /\ G.P[y] \in G.C
                              /\ \E n \in 0..Len(D[G.P[y]].ll) : Hijo(D[G.P[y]], n) = y
  BY DEF Arbol
<1> QED BY <1>2, <1>3, <1>4, <1>5, Zenon DEF Puntos

\* A root without keys over the root.
Coronado(G, q) ==
    [r  |-> q, C |-> G.C \cup {q}, N |-> G.N, W |-> G.W,
     h  |-> [y \in G.C \cup {q} |-> IF y = q THEN G.h[G.r] + 1 ELSE G.h[y]],
     lo |-> [y \in G.C \cup {q} |-> IF y = q THEN -1 ELSE G.lo[y]],
     hi |-> [y \in G.C \cup {q} |-> IF y = q THEN -1 ELSE G.hi[y]],
     P  |-> [y \in G.C \cup {q} |-> IF y = q THEN 0 ELSE IF y = G.r THEN q ELSE G.P[y]]]

\* The tree under a new root is a tree.
LEMMA Corona ==
    ASSUME NEW D, NEW E, NEW G, NEW q, Arbol(D, G), q \in Nat \ {0}, q \notin G.C,
           E[q] = Klug(G.r, <<>>), \A y \in G.C : E[y] = D[y]
    PROVE  Arbol(E, Coronado(G, q))
<1> DEFINE H == Coronado(G, q)
<1>p. Puntos(D, G)
  BY DePuntos
<1>f. /\ 0 \notin G.C /\ G.C \subseteq Nat /\ DOMAIN G.N \subseteq Nat /\ G.r \in G.C /\ G.P[G.r] = 0
      /\ \A y \in G.C : /\ G.h[y] \in Nat /\ G.P[y] \in Nat
                        /\ G.lo[y] \in Nat \cup {-1} /\ G.hi[y] \in Nat \cup {-1}
      /\ \A i \in DOMAIN G.N : G.W[i] \in G.C /\ i \in Nat
      /\ G.lo[G.r] = -1 /\ G.hi[G.r] = -1
      /\ \A y \in G.C \ {G.r} : G.h[y] < G.h[G.r] /\ G.P[y] \in G.C
  BY <1>p DEF Puntos
<1>g. H.r = q /\ H.C = G.C \cup {q} /\ H.N = G.N /\ H.W = G.W
  BY DEF Coronado
<1>h. \A y \in G.C : /\ H.h[y] = G.h[y] /\ H.lo[y] = G.lo[y] /\ H.hi[y] = G.hi[y]
                     /\ H.P[y] = IF y = G.r THEN q ELSE G.P[y]
  BY DEF Coronado
<1>i. H.h[q] = G.h[G.r] + 1 /\ H.lo[q] = -1 /\ H.hi[q] = -1 /\ H.P[q] = 0
  BY DEF Coronado
<1>o. Forma0(H)
  <2>1. H = [r |-> H.r, C |-> H.C, h |-> H.h, lo |-> H.lo, hi |-> H.hi, P |-> H.P, W |-> H.W, N |-> H.N]
    BY DEF Coronado
  <2>2. /\ DOMAIN H.h = G.C \cup {q} /\ DOMAIN H.lo = G.C \cup {q} /\ DOMAIN H.hi = G.C \cup {q}
        /\ DOMAIN H.P = G.C \cup {q}
        /\ H.h = [y \in DOMAIN H.h |-> H.h[y]] /\ H.lo = [y \in DOMAIN H.lo |-> H.lo[y]]
        /\ H.hi = [y \in DOMAIN H.hi |-> H.hi[y]] /\ H.P = [y \in DOMAIN H.P |-> H.P[y]]
    BY DEF Coronado
  <2>w. H.W \in [DOMAIN H.N -> G.C]
    <3>1. Forma0(G)
      BY DEF Arbol
    <3> HIDE DEF H
    <3> QED BY <3>1, <1>g DEF Forma0
  <2> HIDE DEF H
  <2>3. H.C \subseteq Nat \ {0} /\ H.r \in H.C /\ DOMAIN H.N \subseteq Nat
    BY <1>g, <1>f
  <2>4. \A y \in H.C : /\ H.h[y] \in Nat /\ H.P[y] \in Nat
                       /\ H.lo[y] \in Nat \cup {-1} /\ H.hi[y] \in Nat \cup {-1}
    <3> TAKE y \in H.C
    <3>1. CASE y = q
      BY <3>1, <1>i, <1>f
    <3>2. CASE y # q
      BY <3>2, <1>g, <1>h, <1>f
    <3> QED BY <3>1, <3>2
  <2>7. H.h \in [H.C -> Nat] /\ H.P \in [H.C -> Nat]
    BY <2>2, <2>4, <1>g
  <2>8. H.lo \in [H.C -> Nat \cup {-1}] /\ H.hi \in [H.C -> Nat \cup {-1}]
    BY <2>2, <2>4, <1>g
  <2>9. H.W \in [DOMAIN H.N -> H.C]
    BY <2>w, <1>g
  <2>10. \A y \in H.C \ {H.r} : H.h[y] < H.h[H.r]
    <3> TAKE y \in H.C \ {H.r}
    <3>1. y \in G.C /\ H.h[y] = G.h[y] /\ H.h[H.r] = G.h[G.r] + 1
      BY <1>g, <1>h, <1>i
    <3>2. y = G.r \/ G.h[y] < G.h[G.r]
      BY <3>1, <1>f
    <3> QED BY <3>1, <3>2, <1>f
  <2> QED BY <2>1, <2>3, <2>7, <2>8, <2>9, <2>10, <1>g, <1>i DEF Forma0
<1> HIDE DEF H
<1>e. Len(E[q].ll) = 0 /\ EsKlug(E[q]) /\ Hijo(E[q], 0) = G.r /\ E[q].ant = G.r /\ E[q].ll = <<>>
  BY <1>f DEF EsKlug, Klug, Hijo
<1>q. ASSUME NEW y \in H.C PROVE Nodo(H, E[y], y)
  <2>1. CASE y = q
    <3>1. \A n \in 0..Len(E[y].ll) : n = 0
      BY <2>1, <1>e
    <3>2. 0 # Len(E[y].ll) => FALSE
      BY <2>1, <1>e
    <3>3. Cotas(H, E[y], y, 0)
      BY <2>1, <1>e, <1>g, <1>h, <1>i, <1>f DEF Cotas
    <3>4. H.h[y] # 0
      BY <2>1, <1>i, <1>f
    <3>5. 1..Len(E[y].ll) = {}
      BY <2>1, <1>e
    <3> QED BY <3>1, <3>3, <3>4, <3>5, <2>1, <1>e DEF Nodo
  <2>2. CASE y # q
    <3>1. y \in G.C /\ E[y] = D[y] /\ Nodo(G, D[y], y)
      BY <2>2, <1>g DEF Arbol
    <3>2. \A n \in 1..Len(E[y].ll) : Suya(H, y, E[y].ll[n])
      BY <3>1, <1>g, <1>h DEF Nodo, Suya, Dentro
    <3>3. H.h[y] = 0 => \A k \in DOMAIN H.N : Dentro(H, y, k) => H.W[k] = y
      BY <3>1, <1>g, <1>h DEF Nodo, Dentro
    <3>4. H.h[y] # 0 => \A n \in 0..Len(E[y].ll) : Cotas(H, E[y], y, n)
      <4>1. SUFFICES ASSUME H.h[y] # 0, NEW n \in 0..Len(E[y].ll) PROVE Cotas(H, E[y], y, n)
        BY Zenon
      <4>2. Cotas(G, D[y], y, n)
        BY <4>1, <3>1, <1>h DEF Nodo
      <4>3. Hijo(D[y], n) # G.r
        <5> SUFFICES ASSUME Hijo(D[y], n) = G.r PROVE FALSE
          OBVIOUS
        <5>1. G.P[G.r] = y
          BY <4>2 DEF Cotas
        <5> QED BY <5>1, <3>1, <1>f
      <4> QED BY <4>2, <4>3, <3>1, <1>g, <1>h DEF Cotas
    <3>5. H.h[y] = 0 => \A n \in 0..Len(E[y].ll) : Hijo(E[y], n) = 0
      BY <3>1, <1>h DEF Nodo
    <3> QED BY <3>1, <3>2, <3>3, <3>4, <3>5 DEF Nodo
  <2> QED BY <2>1, <2>2
<1>k. \A i \in DOMAIN H.N : \E n \in 1..Len(E[H.W[i]].ll) : E[H.W[i]].ll[n].k = i
  BY <1>g, <1>f, SMTT(30) DEF Arbol
<1>l. ASSUME NEW y \in H.C \ {H.r}
      PROVE  H.P[y] \in H.C /\ \E n \in 0..Len(E[H.P[y]].ll) : Hijo(E[H.P[y]], n) = y
  <2>1. CASE y = G.r
    <3>1. H.P[y] = q
      BY <2>1, <1>h, <1>f
    <3>2. 0 \in 0..Len(E[q].ll)
      BY <1>e
    <3> QED BY <3>1, <3>2, <2>1, <1>e, <1>g
  <2>2. CASE y # G.r
    <3>1. y \in G.C \ {G.r} /\ H.P[y] = G.P[y] /\ G.P[y] \in G.C
      BY <2>2, <1>g, <1>h, <1>f
    <3> QED BY <3>1, <1>g DEF Arbol
  <2> QED BY <2>1, <2>2
<1>r. Arbol(E, H)
  BY <1>o, <1>q, <1>k, <1>l DEF Arbol
<1> QED BY <1>r DEF H

\* The root, without keys, is taken from over its only child a.
Descoronado(G, a) ==
    [r  |-> a, C |-> G.C \ {G.r}, N |-> G.N, W |-> G.W,
     h  |-> [y \in G.C \ {G.r} |-> G.h[y]],
     lo |-> [y \in G.C \ {G.r} |-> G.lo[y]],
     hi |-> [y \in G.C \ {G.r} |-> G.hi[y]],
     P  |-> [y \in G.C \ {G.r} |-> IF y = a THEN 0 ELSE G.P[y]]]

\* What is under a root without keys is a tree.
LEMMA Descorona ==
    ASSUME NEW D, NEW E, NEW G, Arbol(D, G), Len(D[G.r].ll) = 0, G.h[G.r] # 0,
           \A y \in G.C \ {G.r} : E[y] = D[y]
    PROVE  Arbol(E, Descoronado(G, D[G.r].ant)) /\ D[G.r].ant \in G.C \ {G.r}
<1> DEFINE a == D[G.r].ant
           R == G.r
           H == Descoronado(G, a)
<1>p. Puntos(D, G)
  BY DePuntos
<1>f. /\ 0 \notin G.C /\ G.C \subseteq Nat /\ DOMAIN G.N \subseteq Nat /\ R \in G.C /\ G.P[R] = 0
      /\ \A y \in G.C : /\ G.h[y] \in Nat /\ G.P[y] \in Nat
                        /\ G.lo[y] \in Nat \cup {-1} /\ G.hi[y] \in Nat \cup {-1}
      /\ \A i \in DOMAIN G.N : G.W[i] \in G.C /\ i \in Nat
      /\ G.lo[R] = -1 /\ G.hi[R] = -1
      /\ \A y \in G.C \ {R} : G.h[y] < G.h[R] /\ G.P[y] \in G.C
  BY <1>p DEF Puntos
<1>n. Nodo(G, D[R], R)
  BY <1>f DEF Arbol
<1>s. EsKlug(D[R]) /\ 0 \in 0..Len(D[R].ll) /\ Hijo(D[R], 0) = a /\ 0..Len(D[R].ll) = {0} /\ 1..Len(D[R].ll) = {}
  BY <1>n DEF Nodo, Hijo
<1>c. Cotas(G, D[R], R, 0)
  BY <1>n, <1>s DEF Nodo
<1>a. a \in G.C /\ G.h[a] = G.h[R] - 1 /\ G.P[a] = R /\ G.lo[a] = -1 /\ G.hi[a] = -1 /\ a # R
  BY <1>c, <1>s, <1>f DEF Cotas
<1>w. \A i \in DOMAIN G.N : G.W[i] # R
  BY <1>p, <1>s DEF Puntos
<1>x. \A y \in G.C \ {R} : G.P[y] = R => y = a
  <2> TAKE y \in G.C \ {R}
  <2>1. \E n \in 0..Len(D[G.P[y]].ll) : Hijo(D[G.P[y]], n) = y
    BY <1>p DEF Puntos
  <2> QED BY <2>1, <1>s
<1>g. H.r = a /\ H.C = G.C \ {R} /\ H.N = G.N /\ H.W = G.W
  BY DEF Descoronado
<1>h. \A y \in G.C \ {R} : /\ H.h[y] = G.h[y] /\ H.lo[y] = G.lo[y] /\ H.hi[y] = G.hi[y]
                     /\ H.P[y] = IF y = a THEN 0 ELSE G.P[y]
  BY DEF Descoronado
<1>o. Forma0(H)
  <2>1. H = [r |-> H.r, C |-> H.C, h |-> H.h, lo |-> H.lo, hi |-> H.hi, P |-> H.P, W |-> H.W, N |-> H.N]
    BY DEF Descoronado
  <2>2. /\ DOMAIN H.h = G.C \ {R} /\ DOMAIN H.lo = G.C \ {R} /\ DOMAIN H.hi = G.C \ {R}
        /\ DOMAIN H.P = G.C \ {R}
        /\ H.h = [y \in DOMAIN H.h |-> H.h[y]] /\ H.lo = [y \in DOMAIN H.lo |-> H.lo[y]]
        /\ H.hi = [y \in DOMAIN H.hi |-> H.hi[y]] /\ H.P = [y \in DOMAIN H.P |-> H.P[y]]
    BY DEF Descoronado
  <2>w. H.W = [y \in DOMAIN G.N |-> H.W[y]]
    <3>1. Forma0(G)
      BY DEF Arbol
    <3> HIDE DEF H
    <3> QED BY <3>1, <1>g DEF Forma0
  <2> HIDE DEF H, a, R
  <2>3. H.C \subseteq Nat \ {0} /\ H.r \in H.C /\ DOMAIN H.N \subseteq Nat
    BY <1>g, <1>f, <1>a
  <2>4. \A y \in H.C : /\ H.h[y] \in Nat /\ H.P[y] \in Nat
                       /\ H.lo[y] \in Nat \cup {-1} /\ H.hi[y] \in Nat \cup {-1}
    BY <1>g, <1>h, <1>f
  <2>7. H.h \in [H.C -> Nat] /\ H.P \in [H.C -> Nat]
    BY <2>2, <2>4, <1>g
  <2>8. H.lo \in [H.C -> Nat \cup {-1}] /\ H.hi \in [H.C -> Nat \cup {-1}]
    BY <2>2, <2>4, <1>g
  <2>9. H.W \in [DOMAIN H.N -> H.C]
    BY <2>w, <1>g, <1>f, <1>w
  <2>10. \A y \in H.C \ {H.r} : H.h[y] < H.h[H.r]
    <3> TAKE y \in H.C \ {H.r}
    <3>0. y \in G.C \ {R} /\ y # a
      BY <1>g
    <3>1. G.P[y] \in G.C /\ G.P[y] # R
      BY <3>0, <1>f, <1>x
    <3>2. PICK n \in 0..Len(D[G.P[y]].ll) : Hijo(D[G.P[y]], n) = y
      BY <3>0, <1>p DEF Puntos, R
    <3>3. Nodo(G, D[G.P[y]], G.P[y])
      BY <3>1 DEF Arbol
    <3>4. G.h[G.P[y]] # 0
      BY <3>0, <3>2, <3>3, <1>f DEF Nodo
    <3>5. Cotas(G, D[G.P[y]], G.P[y], n)
      BY <3>2, <3>3, <3>4 DEF Nodo
    <3>6. G.h[y] = G.h[G.P[y]] - 1
      BY <3>2, <3>5 DEF Cotas
    <3>7. G.h[G.P[y]] < G.h[R] /\ G.h[y] \in Nat /\ G.h[G.P[y]] \in Nat /\ G.h[R] \in Nat
      BY <3>0, <3>1, <1>f
    <3>8. H.h[y] = G.h[y] /\ H.h[H.r] = G.h[R] - 1
      BY <3>0, <1>g, <1>h, <1>a
    <3> QED BY <3>6, <3>7, <3>8
  <2>11. H.P[H.r] = 0 /\ H.lo[H.r] = -1 /\ H.hi[H.r] = -1
    BY <1>g, <1>h, <1>a
  <2> QED BY <2>1, <2>3, <2>7, <2>8, <2>9, <2>10, <2>11 DEF Forma0
<1>R. R = G.r
  OBVIOUS
<1>A. Arbol(E, H) => Arbol(E, Descoronado(G, D[G.r].ant))
  OBVIOUS
<1>B. a \in G.C \ {R} => D[G.r].ant \in G.C \ {G.r}
  OBVIOUS
<1> HIDE DEF H, a, R
<1>q. ASSUME NEW y \in H.C PROVE Nodo(H, E[y], y)
  <2>1. y \in G.C /\ y # R /\ E[y] = D[y] /\ Nodo(G, D[y], y)
    BY <1>g, <1>R DEF Arbol
  <2>2. \A n \in 1..Len(E[y].ll) : Suya(H, y, E[y].ll[n])
    BY <2>1, <1>g, <1>h DEF Nodo, Suya, Dentro
  <2>3. H.h[y] = 0 => \A k \in DOMAIN H.N : Dentro(H, y, k) => H.W[k] = y
    BY <2>1, <1>g, <1>h DEF Nodo, Dentro
  <2>4. H.h[y] # 0 => \A n \in 0..Len(E[y].ll) : Cotas(H, E[y], y, n)
    <4>1. SUFFICES ASSUME H.h[y] # 0, NEW n \in 0..Len(E[y].ll) PROVE Cotas(H, E[y], y, n)
      BY Zenon
    <4>2. Cotas(G, D[y], y, n)
      BY <4>1, <2>1, <1>h DEF Nodo
    <4>3. G.P[Hijo(D[y], n)] = y /\ Hijo(D[y], n) \in G.C
      BY <4>2 DEF Cotas
    <4>4. Hijo(D[y], n) # R /\ Hijo(D[y], n) # a
      BY <4>3, <2>1, <1>f, <1>a
    <4> QED BY <4>2, <4>3, <4>4, <2>1, <1>g, <1>h DEF Cotas
  <2>5. H.h[y] = 0 => \A n \in 0..Len(E[y].ll) : Hijo(E[y], n) = 0
    BY <2>1, <1>h DEF Nodo
  <2> QED BY <2>1, <2>2, <2>3, <2>4, <2>5 DEF Nodo
<1>k. \A i \in DOMAIN H.N : \E n \in 1..Len(E[H.W[i]].ll) : E[H.W[i]].ll[n].k = i
  <2> TAKE i \in DOMAIN H.N
  <2>1. i \in DOMAIN G.N /\ H.W[i] = G.W[i] /\ G.W[i] \in G.C \ {R}
    BY <1>g, <1>f, <1>w
  <2>2. E[G.W[i]] = D[G.W[i]]
    BY <2>1, <1>R
  <2>3. \E n \in 1..Len(D[G.W[i]].ll) : D[G.W[i]].ll[n].k = i
    BY <2>1, <1>p DEF Puntos
  <2> QED BY <2>1, <2>2, <2>3
<1>l. ASSUME NEW y \in H.C \ {H.r}
      PROVE  H.P[y] \in H.C /\ \E n \in 0..Len(E[H.P[y]].ll) : Hijo(E[H.P[y]], n) = y
  <2>1. y \in G.C \ {R} /\ y # a /\ H.P[y] = G.P[y] /\ G.P[y] \in G.C \ {R}
    BY <1>g, <1>h, <1>f, <1>x
  <2> QED BY <2>1, <1>p, <1>g, <1>R DEF Puntos
<1>r. Arbol(E, H)
  BY <1>o, <1>q, <1>k, <1>l DEF Arbol
<1> QED BY <1>r, <1>a, <1>A, <1>B

\* A key of the tree changes its record.
Rotulado(G, k, nw) ==
    [r |-> G.r, C |-> G.C, h |-> G.h, lo |-> G.lo, hi |-> G.hi, P |-> G.P, W |-> G.W,
     N |-> [G.N EXCEPT ![k] = nw]]

\* What a slot that names another record makes of the tree.
LEMMA Rotula ==
    ASSUME NEW D, NEW E, NEW G, NEW q, NEW n, NEW nw \in Nat, Arbol(D, G), q \in G.C,
           n \in 1..Len(D[q].ll), \A y \in G.C \ {q} : E[y] = D[y],
           E[q] = [D[q] EXCEPT !.ll[n].nm = nw]
    PROVE  Arbol(E, Rotulado(G, D[q].ll[n].k, nw))
<1> DEFINE c == D[q]
           l == Len(c.ll)
           x == c.ll[n].k
           H == Rotulado(G, x, nw)
           t == [c.ll EXCEPT ![n].nm = nw]
<1>p. Puntos(D, G) /\ Forma0(G)
  BY DePuntos DEF Arbol
<1>e. Sabido(G, c, l, q)
  BY DeNodo
<1>1. /\ c.ll \in Seq(Casillas) /\ l \in Nat /\ c.ant \in Nat /\ c = Klug(c.ant, c.ll)
      /\ \A j \in 1..l : c.ll[j] \in Casillas /\ c.ll[j].k \in DOMAIN G.N /\ G.N[c.ll[j].k] = c.ll[j].nm
                         /\ G.W[c.ll[j].k] = q
      /\ \A i, j \in 1..l : i < j => c.ll[i].k < c.ll[j].k
  BY <1>e DEF Sabido
<1>2. /\ E[q] = Klug(c.ant, t)
  BY <1>1 DEF Klug
<1>3. \A j \in 1..l : /\ t[j] \in Casillas /\ t[j].k = c.ll[j].k /\ t[j].may = c.ll[j].may
                      /\ t[j].nm = IF j = n THEN nw ELSE c.ll[j].nm
  <2> TAKE j \in 1..l
  <2>1. c.ll[j] \in Casillas /\ c.ll[n] \in Casillas /\ j \in DOMAIN c.ll /\ n \in DOMAIN c.ll
    BY <1>1
  <2>2. t[j] = IF j = n THEN [c.ll[n] EXCEPT !.nm = nw] ELSE c.ll[j]
    BY <2>1
  <2> QED BY <2>1, <2>2 DEF Casillas
<1>4. t \in Seq(Casillas) /\ Len(t) = l
  BY <1>1, <1>3
<1>5. /\ x \in DOMAIN G.N /\ H.N = [G.N EXCEPT ![x] = nw]
      /\ H.r = G.r /\ H.C = G.C /\ H.h = G.h /\ H.lo = G.lo /\ H.hi = G.hi /\ H.P = G.P /\ H.W = G.W
      /\ H = [r |-> H.r, C |-> H.C, h |-> H.h, lo |-> H.lo, hi |-> H.hi, P |-> H.P, W |-> H.W, N |-> H.N]
  BY <1>1 DEF Rotulado
<1>6. \A j \in 1..l : c.ll[j].k = x => j = n
  <2> TAKE j \in 1..l
  <2>0. c.ll[j] \in Casillas /\ c.ll[n] \in Casillas
    BY <1>1
  <2>1. c.ll[j].k \in Nat /\ c.ll[n].k \in Nat /\ j \in Nat /\ n \in Nat
    BY <2>0 DEF Casillas
  <2> QED BY <2>1, <1>1
<1>c. c = D[q] /\ c.ll \in Seq(Casillas) /\ l = Len(D[q].ll) /\ x = D[q].ll[n].k
  BY <1>1
<1> HIDE DEF H, c, l, x, t
<1>7. E[q].ant = c.ant /\ E[q].ll = t /\ EsKlug(E[q])
  <2>1. E[q].ant = c.ant /\ E[q].ll = t
    BY <1>2 DEF Klug
  <2>2. c.ant \in Nat /\ t \in Seq(Casillas)
    BY <1>1, <1>4
  <2> QED BY <1>2, <2>1, <2>2 DEF EsKlug
<1>8. DOMAIN H.N = DOMAIN G.N /\ \A k \in DOMAIN G.N : H.N[k] = IF k = x THEN nw ELSE G.N[k]
  BY <1>5
<1>q. ASSUME NEW y \in H.C PROVE Nodo(H, E[y], y)
  <2>0. y \in G.C /\ Nodo(G, D[y], y)
    BY <1>5 DEF Arbol
  <2>1. CASE y = q
    <3>1. \A j \in 1..l : Suya(H, q, t[j])
      <4> TAKE j \in 1..l
      <4>1. Suya(G, q, c.ll[j])
        BY <2>0, <2>1, <1>c DEF Nodo
      <4>2. t[j].k = c.ll[j].k /\ t[j].nm = IF j = n THEN nw ELSE c.ll[j].nm
        BY <1>3
      <4>3. c.ll[j].k = x <=> j = n
        BY <1>6, <1>c
      <4> QED BY <4>1, <4>2, <4>3, <1>5, <1>8 DEF Suya, Dentro
    <3>2. \A i, j \in 1..l : i < j => t[i].k < t[j].k
      BY <1>1, <1>3
    <3>3. \A j \in 0..l : Hijo(E[q], j) = Hijo(c, j)
      <4> TAKE j \in 0..l
      <4>1. j # 0 => j \in 1..l
        BY <1>1
      <4> QED BY <4>1, <1>3, <1>7 DEF Hijo
    <3>4. \A j \in 0..l : Cotas(G, c, q, j) => Cotas(H, E[q], q, j)
      <4> TAKE j \in 0..l
      <4>1. j # 0 => j \in 1..l
        BY <1>1
      <4>2. j # l => j + 1 \in 1..l
        BY <1>1
      <4> QED BY <4>1, <4>2, <3>3, <1>3, <1>4, <1>5, <1>7, <1>c DEF Cotas
    <3>5. G.h[q] # 0 => \A j \in 0..l : Cotas(G, c, q, j)
      BY <2>0, <2>1, <1>c DEF Nodo
    <3>6. G.h[q] = 0 => /\ \A j \in 0..l : Hijo(c, j) = 0
                        /\ \A k \in DOMAIN G.N : Dentro(G, q, k) => G.W[k] = q
      BY <2>0, <2>1, <1>c DEF Nodo
    <3> QED BY <3>1, <3>2, <3>3, <3>4, <3>5, <3>6, <2>1, <1>4, <1>5, <1>7, <1>8 DEF Nodo, Dentro
  <2>2. CASE y # q
    <3>1. E[y] = D[y]
      BY <2>0, <2>2
    <3>2. \A j \in 1..Len(D[y].ll) : Suya(H, y, D[y].ll[j])
      <4> TAKE j \in 1..Len(D[y].ll)
      <4>1. Suya(G, y, D[y].ll[j])
        BY <2>0 DEF Nodo
      <4>2. D[y].ll[j].k # x
        BY <4>1, <2>2, <1>c, <1>1 DEF Suya
      <4> QED BY <4>1, <4>2, <1>5, <1>8 DEF Suya, Dentro
    <3>3. \A j : Cotas(G, D[y], y, j) => Cotas(H, D[y], y, j)
      BY <1>5 DEF Cotas
    <3> QED BY <2>0, <3>1, <3>2, <3>3, <1>5, <1>8 DEF Nodo, Dentro
  <2> QED BY <2>1, <2>2
<1>o. Forma0(H)
  BY <1>p, <1>5, <1>8 DEF Forma0
<1>k. ASSUME NEW i \in DOMAIN H.N PROVE \E j \in 1..Len(E[H.W[i]].ll) : E[H.W[i]].ll[j].k = i
  <2>1. PICK j \in 1..Len(D[G.W[i]].ll) : D[G.W[i]].ll[j].k = i
    BY <1>8, <1>p DEF Puntos
  <2>2. G.W[i] \in G.C
    BY <1>8, <1>p DEF Puntos
  <2>3. CASE G.W[i] = q
    <3>1. j \in 1..l /\ c.ll[j].k = i
      BY <2>1, <2>3, <1>c
    <3>2. t[j].k = i
      BY <3>1, <1>3
    <3> QED BY <3>1, <3>2, <2>3, <1>4, <1>5, <1>7
  <2>4. CASE G.W[i] # q
    BY <2>1, <2>2, <2>4, <1>5
  <2> QED BY <2>3, <2>4
<1>l. ASSUME NEW y \in H.C \ {H.r}
      PROVE  H.P[y] \in H.C /\ \E j \in 0..Len(E[H.P[y]].ll) : Hijo(E[H.P[y]], j) = y
  <2>1. y \in G.C \ {G.r} /\ G.P[y] \in G.C /\ H.P[y] = G.P[y]
    BY <1>5, <1>p DEF Puntos
  <2>2. PICK j \in 0..Len(D[G.P[y]].ll) : Hijo(D[G.P[y]], j) = y
    BY <2>1, <1>p DEF Puntos
  <2>3. CASE G.P[y] = q
    <3>1. j \in 0..l /\ (j # 0 => j \in 1..l)
      BY <2>2, <2>3, <1>c, <1>1
    <3>2. Hijo(E[q], j) = y
      BY <3>1, <2>2, <2>3, <1>c, <1>3, <1>7 DEF Hijo
    <3> QED BY <3>1, <3>2, <2>1, <2>3, <1>4, <1>5, <1>7
  <2>4. CASE G.P[y] # q
    BY <2>1, <2>2, <2>4, <1>5
  <2> QED BY <2>3, <2>4
<1>r. Arbol(E, H)
  BY <1>o, <1>q, <1>k, <1>l DEF Arbol
<1> QED BY <1>r DEF H, x, c

\* The cluster over another one, and where this hangs from it.
LEMMA Padre ==
    ASSUME NEW D, NEW G, Arbol(D, G), NEW y \in G.C \ {G.r}
    PROVE  /\ G.P[y] \in G.C /\ G.h[G.P[y]] = G.h[y] + 1
           /\ \E n \in 0..Len(D[G.P[y]].ll) : Hijo(D[G.P[y]], n) = y /\ Cotas(G, D[G.P[y]], G.P[y], n)
           /\ \A k \in Nat : Dentro(G, y, k) => Dentro(G, G.P[y], k)
<1> DEFINE p == G.P[y]
           c == D[p]
           l == Len(c.ll)
<1>p. Puntos(D, G)
  BY DePuntos
<1>1. p \in G.C /\ G.h[p] \in Nat /\ G.h[y] \in Nat /\ 0 \notin G.C
  BY <1>p DEF Puntos
<1>2. PICK n \in 0..l : Hijo(c, n) = y
  BY <1>p DEF Puntos
<1>3. Sabido(G, c, l, p)
  BY <1>1, DeNodo
<1> HIDE DEF c, l, p
<1>4. G.h[p] # 0
  BY <1>2, <1>3 DEF Sabido
<1>5. Cotas(G, c, p, n)
  BY <1>2, <1>3, <1>4 DEF Sabido
<1>6. G.h[p] = G.h[y] + 1
  BY <1>1, <1>2, <1>5 DEF Cotas
<1>7. ASSUME NEW k \in Nat, Dentro(G, y, k) PROVE Dentro(G, p, k)
  <2>0. l \in Nat /\ G.lo[p] \in Nat \cup {-1} /\ l = Len(c.ll) /\ G.hi[p] \in Nat \cup {-1}
    BY <1>3 DEF Sabido
  <2>a. /\ G.lo[y] = IF n = 0 THEN G.lo[p] ELSE c.ll[n].k
        /\ G.hi[y] = IF n = l THEN G.hi[p] ELSE c.ll[n + 1].k
    BY <1>2, <1>5, <2>0 DEF Cotas
  <2>b. \A j \in 1..l : /\ c.ll[j].k \in Nat /\ G.lo[p] < c.ll[j].k
                        /\ G.hi[p] = -1 \/ c.ll[j].k < G.hi[p]
    BY <1>3 DEF Sabido, Bajo0
  <2>c. G.lo[y] < k /\ (G.hi[y] = -1 \/ k < G.hi[y])
    BY <1>7 DEF Dentro, Bajo0
  <2>1. G.lo[p] < k
    <3>1. CASE n = 0
      BY <3>1, <2>a, <2>c
    <3>2. CASE n # 0
      <4>1. n \in 1..l
        BY <3>2, <2>0
      <4> QED BY <4>1, <3>2, <2>a, <2>b, <2>c, <2>0
    <3> QED BY <3>1, <3>2
  <2>2. G.hi[p] = -1 \/ k < G.hi[p]
    <3>1. CASE n = l
      BY <3>1, <2>a, <2>c
    <3>2. CASE n # l
      <4>1. n + 1 \in 1..l
        BY <3>2, <2>0
      <4> QED BY <4>1, <3>2, <2>a, <2>b, <2>c, <2>0
    <3> QED BY <3>1, <3>2
  <2> QED BY <2>1, <2>2 DEF Dentro, Bajo0
<1> QED BY <1>1, <1>2, <1>5, <1>6, <1>7 DEF p, c, l

\* Two clusters at one height do not hold one key between their bounds.
LEMMA Unico ==
    ASSUME NEW D, NEW G, Arbol(D, G), NEW k \in Nat, NEW y \in G.C, NEW z \in G.C,
           G.h[y] = G.h[z], Dentro(G, y, k), Dentro(G, z, k)
    PROVE  y = z
<1> DEFINE R == G.h[G.r]
           E == {d \in 0..R : \A a, b \in G.C : G.h[a] = R - d /\ G.h[b] = R - d
                                  /\ Dentro(G, a, k) /\ Dentro(G, b, k) => a = b}
<1>p. Puntos(D, G)
  BY DePuntos
<1>f. /\ R \in Nat /\ G.r \in G.C /\ \A a \in G.C : G.h[a] \in Nat
      /\ \A a \in G.C \ {G.r} : G.h[a] < R
  BY <1>p DEF Puntos
<1>1. 0 \in E
  BY <1>f
<1>2. ASSUME NEW d \in 0..R-1, d \in E PROVE d + 1 \in E
  <2>0. d + 1 \in 0..R
    BY <1>f
  <2>1. ASSUME NEW a \in G.C, NEW b \in G.C, G.h[a] = R - (d + 1), G.h[b] = R - (d + 1),
               Dentro(G, a, k), Dentro(G, b, k)
        PROVE  a = b
    <3>1. a # G.r /\ b # G.r
      BY <2>1, <1>f
    <3>2. /\ G.P[a] \in G.C /\ G.h[G.P[a]] = G.h[a] + 1 /\ Dentro(G, G.P[a], k)
          /\ \E n \in 0..Len(D[G.P[a]].ll) : Hijo(D[G.P[a]], n) = a /\ Cotas(G, D[G.P[a]], G.P[a], n)
      BY <3>1, <2>1, Padre
    <3>3. /\ G.P[b] \in G.C /\ G.h[G.P[b]] = G.h[b] + 1 /\ Dentro(G, G.P[b], k)
          /\ \E n \in 0..Len(D[G.P[b]].ll) : Hijo(D[G.P[b]], n) = b /\ Cotas(G, D[G.P[b]], G.P[b], n)
      BY <3>1, <2>1, Padre
    <3>4. G.h[G.P[a]] = R - d /\ G.h[G.P[b]] = R - d
      BY <3>2, <3>3, <2>1, <1>f
    <3>5. G.P[a] = G.P[b]
      BY <3>2, <3>3, <3>4, <1>2
    <3> DEFINE c == D[G.P[a]]
               l == Len(c.ll)
    <3>6. PICK m \in 0..l : Hijo(c, m) = a /\ Cotas(G, c, G.P[a], m)
      BY <3>2
    <3>7. PICK n \in 0..l : Hijo(c, n) = b /\ Cotas(G, c, G.P[a], n)
      BY <3>3, <3>5
    <3>8. Sabido(G, c, l, G.P[a])
      BY <3>2, DeNodo
    <3> HIDE DEF c, l
    <3>9. /\ l \in Nat /\ l = Len(c.ll) /\ \A i \in 1..l : c.ll[i].k \in Nat
          /\ \A i, j \in 1..l : i < j => c.ll[i].k < c.ll[j].k
      BY <3>8 DEF Sabido
    <3>10. /\ G.lo[a] = IF m = 0 THEN G.lo[G.P[a]] ELSE c.ll[m].k
           /\ G.hi[a] = IF m = l THEN G.hi[G.P[a]] ELSE c.ll[m + 1].k
           /\ G.lo[b] = IF n = 0 THEN G.lo[G.P[a]] ELSE c.ll[n].k
           /\ G.hi[b] = IF n = l THEN G.hi[G.P[a]] ELSE c.ll[n + 1].k
      BY <3>6, <3>7, <3>9 DEF Cotas
    <3>11. /\ G.lo[a] < k /\ (G.hi[a] = -1 \/ k < G.hi[a])
           /\ G.lo[b] < k /\ (G.hi[b] = -1 \/ k < G.hi[b])
      BY <2>1 DEF Dentro, Bajo0
    <3>12. ~(m < n)
      <4> SUFFICES ASSUME m < n PROVE FALSE
        OBVIOUS
      <4>1. m + 1 \in 1..l /\ n \in 1..l /\ m # l /\ n # 0 /\ (m + 1 = n \/ m + 1 < n)
        BY <3>9
      <4>2. c.ll[m + 1].k <= c.ll[n].k /\ c.ll[m + 1].k \in Nat /\ c.ll[n].k \in Nat
        BY <4>1, <3>9
      <4>3. k < c.ll[m + 1].k /\ c.ll[n].k < k
        BY <4>1, <4>2, <3>10, <3>11
      <4> QED BY <4>2, <4>3
    <3>13. ~(n < m)
      <4> SUFFICES ASSUME n < m PROVE FALSE
        OBVIOUS
      <4>1. n + 1 \in 1..l /\ m \in 1..l /\ n # l /\ m # 0 /\ (n + 1 = m \/ n + 1 < m)
        BY <3>9
      <4>2. c.ll[n + 1].k <= c.ll[m].k /\ c.ll[n + 1].k \in Nat /\ c.ll[m].k \in Nat
        BY <4>1, <3>9
      <4>3. k < c.ll[n + 1].k /\ c.ll[m].k < k
        BY <4>1, <4>2, <3>10, <3>11
      <4> QED BY <4>2, <4>3
    <3>14. m = n
      BY <3>9, <3>12, <3>13
    <3> QED BY <3>6, <3>7, <3>14
  <2> QED BY <2>0, <2>1
<1>3. \A d \in 0..R : d \in E
  <2> HIDE DEF E, R
  <2> QED BY <1>1, <1>2, <1>f, Hasta
<1>4. R - G.h[y] \in 0..R /\ R - (R - G.h[y]) = G.h[y]
  <2>1. y = G.r \/ G.h[y] < R
    BY <1>f
  <2> QED BY <2>1, <1>f
<1>5. R - G.h[y] \in E
  BY <1>3, <1>4
<1> QED BY <1>4, <1>5

\* A leaf takes a key that the tree lacks.
ConLlave(G, p, key, nm) ==
    [r |-> G.r, C |-> G.C, h |-> G.h, lo |-> G.lo, hi |-> G.hi, P |-> G.P,
     W |-> [k \in DOMAIN G.N \cup {key} |-> IF k = key THEN p ELSE G.W[k]],
     N |-> [k \in DOMAIN G.N \cup {key} |-> IF k = key THEN nm ELSE G.N[k]]]

\* How the blocks E come from D when the slot s goes into leaf p as number j.
Alta(D, E, G, p, j, s) ==
    /\ p \in G.C /\ G.h[p] = 0 /\ s \in Casillas /\ s.may = 0
    /\ s.k \notin DOMAIN G.N /\ Dentro(G, p, s.k)
    /\ j \in 1..Len(D[p].ll)+1
    /\ \A i \in 1..Len(D[p].ll) : IF i < j THEN D[p].ll[i].k < s.k ELSE s.k < D[p].ll[i].k
    /\ E[p] = Klug(D[p].ant, InsertAt(D[p].ll, j, s))
    /\ \A y \in G.C \ {p} : E[y] = D[y]

\* A tree with one more key.
LEMMA PoneHoja ==
    ASSUME NEW D, NEW E, NEW G, NEW p, NEW j, NEW s, Arbol(D, G), Alta(D, E, G, p, j, s)
    PROVE  Arbol(E, ConLlave(G, p, s.k, s.nm))
<1> DEFINE c == D[p]
           u == c.ll
           l == Len(u)
           x == s.k
           H == ConLlave(G, p, x, s.nm)
           t == InsertAt(u, j, s)
<1>a. /\ p \in G.C /\ G.h[p] = 0 /\ s \in Casillas /\ s.may = 0
      /\ x \notin DOMAIN G.N /\ Dentro(G, p, x) /\ j \in 1..l+1
      /\ \A i \in 1..l : IF i < j THEN u[i].k < x ELSE x < u[i].k
      /\ E[p] = Klug(c.ant, t) /\ \A y \in G.C \ {p} : E[y] = D[y]
  BY DEF Alta
<1>p. Puntos(D, G) /\ Forma0(G)
  BY DePuntos DEF Arbol
<1>e. Sabido(G, c, l, p)
  BY <1>a, DeNodo
<1>1. /\ u \in Seq(Casillas) /\ l \in Nat /\ c.ant \in Nat
      /\ \A i, n \in 1..l : i < n => u[i].k < u[n].k
      /\ \A i \in 1..l : u[i] \in Casillas /\ u[i].k \in Nat
      /\ \A n \in 0..l : Hijo(c, n) = 0
  BY <1>a, <1>e DEF Sabido
<1>x. x \in Nat /\ s.nm \in Nat /\ s.k = x
  BY <1>a DEF Casillas
<1>2. /\ t \in Seq(Casillas) /\ Len(t) = l + 1
      /\ \A n \in 1..l+1 : t[n] = IF n < j THEN u[n] ELSE IF n = j THEN s ELSE u[n - 1]
  <2>1. u \in Seq(Casillas) /\ j \in 1..Len(u)+1 /\ s \in Casillas /\ l = Len(u)
    BY <1>1, <1>a
  <2>2. t = InsertAt(u, j, s)
    BY <1>a
  <2> HIDE DEF u, t, l
  <2>3. EsInsertado(t, Casillas, u, j, s)
    BY <2>1, <2>2, InsertadoEs, Zenon
  <2> QED BY <2>1, <2>3, Zenon DEF EsInsertado
<1>3. /\ H.r = G.r /\ H.C = G.C /\ H.h = G.h /\ H.lo = G.lo /\ H.hi = G.hi /\ H.P = G.P
      /\ H = [r |-> H.r, C |-> H.C, h |-> H.h, lo |-> H.lo, hi |-> H.hi, P |-> H.P, W |-> H.W, N |-> H.N]
      /\ DOMAIN H.N = DOMAIN G.N \cup {x} /\ DOMAIN H.W = DOMAIN G.N \cup {x}
      /\ H.W = [k \in DOMAIN H.W |-> H.W[k]]
      /\ H.N[x] = s.nm /\ H.W[x] = p
      /\ \A k \in DOMAIN G.N : k # x => H.N[k] = G.N[k] /\ H.W[k] = G.W[k]
  BY DEF ConLlave
<1>c. c = D[p] /\ u = D[p].ll /\ l = Len(u) /\ l = Len(D[p].ll)
  OBVIOUS
<1>F. Arbol(E, H) => Arbol(E, ConLlave(G, p, s.k, s.nm))
  OBVIOUS
<1> HIDE DEF H, c, u, l, x, t
<1>7. E[p].ant = c.ant /\ E[p].ll = t /\ EsKlug(E[p])
  <2>1. E[p].ant = c.ant /\ E[p].ll = t
    BY <1>a DEF Klug
  <2> QED BY <1>a, <2>1, <1>1, <1>2 DEF EsKlug
<1>8. \A n \in 1..l+1 : (n < j /\ n \in 1..l) \/ n = j \/ (n > j /\ n - 1 \in 1..l /\ ~(n - 1 < j))
  BY <1>a, <1>1
<1>q. ASSUME NEW y \in H.C PROVE Nodo(H, E[y], y)
  <2>0. y \in G.C /\ Nodo(G, D[y], y)
    BY <1>3 DEF Arbol
  <2>1. CASE y = p
    <3>1. \A n \in 1..l : Suya(H, p, u[n])
      <4> TAKE n \in 1..l
      <4>1. Suya(G, p, u[n])
        BY <2>0, <2>1, <1>c DEF Nodo
      <4>2. u[n].k \in DOMAIN G.N /\ u[n].k # x
        BY <4>1, <1>a DEF Suya
      <4> QED BY <4>1, <4>2, <1>3 DEF Suya, Dentro
    <3>2. Suya(H, p, s)
      BY <1>a, <1>3, <1>x DEF Suya, Dentro
    <3>3. \A n \in 1..l+1 : Suya(H, p, t[n])
      <4> TAKE n \in 1..l+1
      <4>1. t[n] = IF n < j THEN u[n] ELSE IF n = j THEN s ELSE u[n - 1]
        BY <1>2
      <4>2. CASE n = j
        BY <4>1, <4>2, <3>2, <1>a, <1>1
      <4>3. CASE n # j
        <5>1. (n < j /\ n \in 1..l) \/ (n > j /\ n - 1 \in 1..l /\ ~(n - 1 < j))
          BY <4>3, <1>8
        <5>2. n < j \/ ~(n < j)
          OBVIOUS
        <5>3. \E i \in 1..l : t[n] = u[i]
          <6>1. CASE n < j
            BY <6>1, <5>1, <4>1, <1>a, <1>1
          <6>2. CASE ~(n < j)
            <7>1. n - 1 \in 1..l /\ t[n] = u[n - 1]
              BY <6>2, <5>1, <4>1, <4>3
            <7> QED BY <7>1
          <6> QED BY <6>1, <6>2
        <5> QED BY <5>3, <3>1
      <4> QED BY <4>2, <4>3
    <3>4. \A i, n \in 1..l+1 : i < n => t[i].k < t[n].k
      <4> SUFFICES ASSUME NEW i \in 1..l+1, NEW n \in 1..l+1, i < n PROVE t[i].k < t[n].k
        OBVIOUS
      <4>0. i \in Nat /\ n \in Nat /\ j \in Nat
        BY <1>a, <1>1
      <4>1. CASE n < j
        <5>1. i < j /\ i \in 1..l /\ n \in 1..l
          BY <4>0, <4>1, <1>8
        <5> QED BY <5>1, <4>1, <1>1, <1>2
      <4>2. CASE n = j
        <5>1. i < j /\ i \in 1..l /\ t[n] = s /\ t[i] = u[i]
          BY <4>0, <4>2, <1>8, <1>2
        <5> QED BY <5>1, <1>a, <1>x
      <4>3. CASE n > j
        <5>1. n - 1 \in 1..l /\ ~(n - 1 < j) /\ t[n] = u[n - 1]
          BY <4>0, <4>3, <1>8, <1>2
        <5>2. CASE i < j
          <6>1. i \in 1..l /\ t[i] = u[i] /\ i < n - 1
            BY <5>2, <4>0, <4>3, <1>8, <1>2
          <6> QED BY <5>1, <6>1, <1>1
        <5>3. CASE i = j
          BY <5>1, <5>3, <1>a, <1>2, <1>x, <4>0
        <5>4. CASE i > j
          <6>1. i - 1 \in 1..l /\ t[i] = u[i - 1] /\ i - 1 < n - 1
            BY <5>4, <4>0, <1>8, <1>2
          <6> QED BY <5>1, <6>1, <1>1
        <5> QED BY <5>2, <5>3, <5>4, <4>0
      <4> QED BY <4>0, <4>1, <4>2, <4>3
    <3>5. \A n \in 0..l+1 : Hijo(E[p], n) = 0
      <4> TAKE n \in 0..l+1
      <4>1. CASE n = 0
        BY <4>1, <1>7, <1>1 DEF Hijo
      <4>2. CASE n # 0
        <5>1. n \in 1..l+1 /\ t[n].may = 0
          <6>1. n \in 1..l+1
            BY <4>2, <1>1
          <6>2. \A i \in 1..l : u[i].may = 0
            <7> TAKE i \in 1..l
            <7>1. i \in 0..l /\ i # 0
              OBVIOUS
            <7> QED BY <7>1, <1>1, <1>c DEF Hijo
          <6> QED BY <6>1, <6>2, <1>8, <1>2, <1>a
        <5> QED BY <5>1, <4>2, <1>7 DEF Hijo
      <4> QED BY <4>1, <4>2
    <3>6. \A k \in DOMAIN H.N : Dentro(H, p, k) => H.W[k] = p
      BY <2>0, <2>1, <1>a, <1>3 DEF Nodo, Dentro
    <3> QED BY <3>3, <3>4, <3>5, <3>6, <2>1, <1>7, <1>2, <1>3, <1>a DEF Nodo
  <2>2. CASE y # p
    <3>1. E[y] = D[y]
      BY <2>0, <2>2, <1>a
    <3>2. \A n \in 1..Len(D[y].ll) : Suya(H, y, D[y].ll[n])
      <4> TAKE n \in 1..Len(D[y].ll)
      <4>1. Suya(G, y, D[y].ll[n])
        BY <2>0 DEF Nodo
      <4>2. D[y].ll[n].k \in DOMAIN G.N /\ D[y].ll[n].k # x
        BY <4>1, <1>a DEF Suya
      <4> QED BY <4>1, <4>2, <1>3 DEF Suya, Dentro
    <3>3. \A n : Cotas(G, D[y], y, n) => Cotas(H, D[y], y, n)
      BY <1>3 DEF Cotas
    <3>4. H.h[y] = 0 => \A k \in DOMAIN H.N : Dentro(H, y, k) => H.W[k] = y
      <4> SUFFICES ASSUME H.h[y] = 0, NEW k \in DOMAIN H.N, Dentro(H, y, k) PROVE H.W[k] = y
        BY Zenon
      <4>1. Dentro(G, y, k) /\ G.h[y] = 0
        BY <1>3 DEF Dentro
      <4>2. CASE k = x
        <5>1. y = p
          BY <4>1, <4>2, <2>0, <1>a, <1>x, Unico
        <5> QED BY <5>1, <2>2
      <4>3. CASE k # x
        BY <4>1, <4>3, <2>0, <1>3 DEF Nodo
      <4> QED BY <4>2, <4>3
    <3> QED BY <2>0, <3>1, <3>2, <3>3, <3>4, <1>3 DEF Nodo
  <2> QED BY <2>1, <2>2
<1>o. Forma0(H)
  <2>1. \A k \in DOMAIN H.N : H.W[k] \in H.C
    BY <1>3, <1>a, <1>p DEF Puntos
  <2>2. H.W \in [DOMAIN H.N -> H.C]
    BY <2>1, <1>3
  <2>3. DOMAIN H.N \subseteq Nat
    BY <1>3, <1>x, <1>p DEF Puntos
  <2> QED BY <2>2, <2>3, <1>p, <1>3 DEF Forma0
<1>k. ASSUME NEW i \in DOMAIN H.N PROVE \E n \in 1..Len(E[H.W[i]].ll) : E[H.W[i]].ll[n].k = i
  <2>1. CASE i = x
    <3>1. t[j] = s /\ j \in 1..l+1
      BY <1>2, <1>a, <1>1
    <3> QED BY <3>1, <2>1, <1>3, <1>7, <1>2, <1>x
  <2>2. CASE i # x
    <3>1. i \in DOMAIN G.N /\ H.W[i] = G.W[i] /\ G.W[i] \in G.C
      BY <2>2, <1>3, <1>p DEF Puntos
    <3>2. PICK n \in 1..Len(D[G.W[i]].ll) : D[G.W[i]].ll[n].k = i
      BY <3>1, <1>p DEF Puntos
    <3>3. CASE G.W[i] = p
      <4>1. n \in 1..l /\ u[n].k = i
        BY <3>2, <3>3, <1>c
      <4>2. CASE n < j
        <5>1. n \in 1..l+1 /\ t[n] = u[n]
          BY <4>1, <4>2, <1>1, <1>2
        <5> QED BY <5>1, <4>1, <3>1, <3>3, <1>7, <1>2
      <4>3. CASE ~(n < j)
        <5>1. n + 1 \in 1..l+1 /\ ~(n + 1 < j) /\ n + 1 # j /\ (n + 1) - 1 = n
          BY <4>1, <4>3, <1>1, <1>a
        <5>2. t[n + 1] = u[n]
          BY <5>1, <1>2
        <5> QED BY <5>1, <5>2, <4>1, <3>1, <3>3, <1>7, <1>2
      <4> QED BY <4>2, <4>3
    <3>4. CASE G.W[i] # p
      BY <3>1, <3>2, <3>4, <1>a
    <3> QED BY <3>3, <3>4
  <2> QED BY <2>1, <2>2
<1>l. ASSUME NEW y \in H.C \ {H.r}
      PROVE  H.P[y] \in H.C /\ \E n \in 0..Len(E[H.P[y]].ll) : Hijo(E[H.P[y]], n) = y
  <2>1. y \in G.C \ {G.r} /\ G.P[y] \in G.C /\ H.P[y] = G.P[y] /\ y # 0
    BY <1>3, <1>p DEF Puntos
  <2>2. PICK n \in 0..Len(D[G.P[y]].ll) : Hijo(D[G.P[y]], n) = y
    BY <2>1, <1>p DEF Puntos
  <2>3. G.P[y] # p
    <3> SUFFICES ASSUME G.P[y] = p PROVE FALSE
      OBVIOUS
    <3>1. n \in 0..l /\ Hijo(c, n) = y
      BY <2>2, <1>c
    <3> QED BY <3>1, <2>1, <1>1
  <2> QED BY <2>1, <2>2, <2>3, <1>a, <1>3
<1>r. Arbol(E, H)
  BY <1>o, <1>q, <1>k, <1>l DEF Arbol
<1> QED BY <1>r, <1>F

\* A key leaves the tree.
SinLlave(G, x) ==
    [r |-> G.r, C |-> G.C, h |-> G.h, lo |-> G.lo, hi |-> G.hi, P |-> G.P,
     W |-> [k \in DOMAIN G.N \ {x} |-> G.W[k]], N |-> [k \in DOMAIN G.N \ {x} |-> G.N[k]]]

\* A leaf p without its slot j leaves a tree with one key less.
LEMMA QuitaHoja ==
    ASSUME NEW D, NEW E, NEW G, NEW p, NEW j, Arbol(D, G), p \in G.C, G.h[p] = 0,
           j \in 1..Len(D[p].ll), E[p] = Klug(D[p].ant, RemoveAt(D[p].ll, j)),
           \A y \in G.C \ {p} : E[y] = D[y]
    PROVE  Arbol(E, SinLlave(G, D[p].ll[j].k))
<1> DEFINE c == D[p]
           u == c.ll
           l == Len(u)
           x == u[j].k
           H == SinLlave(G, x)
           t == RemoveAt(u, j)
<1>a. /\ p \in G.C /\ G.h[p] = 0 /\ j \in 1..l
      /\ E[p] = Klug(c.ant, t) /\ \A y \in G.C \ {p} : E[y] = D[y]
  OBVIOUS
<1>p. Puntos(D, G) /\ Forma0(G)
  BY DePuntos DEF Arbol
<1>e. Sabido(G, c, l, p)
  BY <1>a, DeNodo
<1>1. /\ u \in Seq(Casillas) /\ l \in Nat /\ c.ant \in Nat
      /\ \A i, n \in 1..l : i < n => u[i].k < u[n].k
      /\ \A i \in 1..l : u[i] \in Casillas /\ u[i].k \in Nat /\ u[i].k \in DOMAIN G.N /\ G.W[u[i].k] = p
      /\ \A n \in 0..l : Hijo(c, n) = 0
  BY <1>a, <1>e DEF Sabido
<1>2. /\ t \in Seq(Casillas) /\ Len(t) = l - 1
      /\ \A n \in 1..l-1 : t[n] = IF n < j THEN u[n] ELSE u[n + 1]
  <2>1. u \in Seq(Casillas) /\ j \in 1..Len(u)
    BY <1>1, <1>a
  <2> HIDE DEF u
  <2> QED BY <2>1, Sacado
<1>3. /\ H.r = G.r /\ H.C = G.C /\ H.h = G.h /\ H.lo = G.lo /\ H.hi = G.hi /\ H.P = G.P
      /\ H = [r |-> H.r, C |-> H.C, h |-> H.h, lo |-> H.lo, hi |-> H.hi, P |-> H.P, W |-> H.W, N |-> H.N]
      /\ DOMAIN H.N = DOMAIN G.N \ {x} /\ DOMAIN H.W = DOMAIN G.N \ {x}
      /\ H.W = [k \in DOMAIN H.W |-> H.W[k]]
      /\ \A k \in DOMAIN G.N \ {x} : H.N[k] = G.N[k] /\ H.W[k] = G.W[k]
  BY DEF SinLlave
<1>c. c = D[p] /\ u = D[p].ll /\ l = Len(u) /\ l = Len(D[p].ll) /\ x = u[j].k
  OBVIOUS
<1>F. Arbol(E, H) => Arbol(E, SinLlave(G, D[p].ll[j].k))
  OBVIOUS
<1> HIDE DEF H, c, u, l, x, t
<1>x. \A i \in 1..l : u[i].k = x => i = j
  <2> TAKE i \in 1..l
  <2>1. u[i].k \in Nat /\ u[j].k \in Nat /\ i \in Nat /\ j \in Nat /\ j \in 1..l
    BY <1>1, <1>a
  <2> QED BY <2>1, <1>1, <1>c
<1>7. E[p].ant = c.ant /\ E[p].ll = t /\ EsKlug(E[p])
  <2>1. E[p].ant = c.ant /\ E[p].ll = t
    BY <1>a DEF Klug
  <2> QED BY <1>a, <2>1, <1>1, <1>2 DEF EsKlug
<1>8. ASSUME NEW n \in 1..l-1
      PROVE  /\ (n < j /\ n \in 1..l /\ t[n] = u[n]) \/ (n >= j /\ n + 1 \in 1..l /\ t[n] = u[n + 1])
             /\ \E i \in 1..l : i # j /\ t[n] = u[i]
  <2>1. n \in Nat /\ j \in Nat /\ l \in Nat /\ n \in 1..l /\ n + 1 \in 1..l
    BY <1>a, <1>1
  <2>2. (n < j /\ t[n] = u[n]) \/ (n >= j /\ t[n] = u[n + 1])
    BY <2>1, <1>2
  <2>3. n < j => n # j
    BY <2>1
  <2>4. n >= j => n + 1 # j
    BY <2>1
  <2> QED BY <2>1, <2>2, <2>3, <2>4
<1>q. ASSUME NEW y \in H.C PROVE Nodo(H, E[y], y)
  <2>0. y \in G.C /\ Nodo(G, D[y], y)
    BY <1>3 DEF Arbol
  <2>1. CASE y = p
    <3>1. \A n \in 1..l : n # j => Suya(H, p, u[n])
      <4> SUFFICES ASSUME NEW n \in 1..l, n # j PROVE Suya(H, p, u[n])
        OBVIOUS
      <4>1. Suya(G, p, u[n])
        BY <2>0, <2>1, <1>c DEF Nodo
      <4>2. u[n].k # x
        BY <1>x
      <4> QED BY <4>1, <4>2, <1>3 DEF Suya, Dentro
    <3>3. \A n \in 1..l-1 : Suya(H, p, t[n])
      <4> TAKE n \in 1..l-1
      <4>1. PICK i \in 1..l : i # j /\ t[n] = u[i]
        BY <1>8
      <4> QED BY <4>1, <3>1
    <3>4. \A i, n \in 1..l-1 : i < n => t[i].k < t[n].k
      <4> SUFFICES ASSUME NEW i \in 1..l-1, NEW n \in 1..l-1, i < n PROVE t[i].k < t[n].k
        OBVIOUS
      <4>1. (i < j /\ i \in 1..l /\ t[i] = u[i]) \/ (i >= j /\ i + 1 \in 1..l /\ t[i] = u[i + 1])
        BY <1>8
      <4>2. (n < j /\ n \in 1..l /\ t[n] = u[n]) \/ (n >= j /\ n + 1 \in 1..l /\ t[n] = u[n + 1])
        BY <1>8
      <4>3. i \in Nat /\ n \in Nat /\ j \in Nat
        BY <1>a, <1>1
      <4>4. CASE n < j
        <5>1. i < j
          BY <4>3, <4>4
        <5> QED BY <4>1, <4>2, <4>3, <4>4, <5>1, <1>1
      <4>5. CASE n >= j
        <5>1. n + 1 \in 1..l /\ t[n] = u[n + 1]
          BY <4>2, <4>3, <4>5
        <5>2. CASE i < j
          <6>1. i \in 1..l /\ t[i] = u[i] /\ i < n + 1
            BY <4>1, <4>3, <5>2
          <6> QED BY <5>1, <6>1, <1>1
        <5>3. CASE i >= j
          <6>1. i + 1 \in 1..l /\ t[i] = u[i + 1] /\ i + 1 < n + 1
            BY <4>1, <4>3, <5>3
          <6> QED BY <5>1, <6>1, <1>1
        <5> QED BY <5>2, <5>3, <4>3
      <4> QED BY <4>4, <4>5, <4>3
    <3>5. \A n \in 0..l-1 : Hijo(E[p], n) = 0
      <4> TAKE n \in 0..l-1
      <4>1. CASE n = 0
        BY <4>1, <1>7, <1>1 DEF Hijo
      <4>2. CASE n # 0
        <5>1. n \in 1..l-1
          BY <4>2, <1>1
        <5>2. PICK i \in 1..l : i # j /\ t[n] = u[i]
          BY <5>1, <1>8
        <5>3. i \in 0..l /\ i # 0
          BY <1>1
        <5>4. u[i].may = 0
          BY <5>3, <1>1, <1>c DEF Hijo
        <5> QED BY <5>2, <5>4, <4>2, <1>7 DEF Hijo
      <4> QED BY <4>1, <4>2
    <3>6. \A k \in DOMAIN H.N : Dentro(H, p, k) => H.W[k] = p
      BY <2>0, <2>1, <1>a, <1>3 DEF Nodo, Dentro
    <3> QED BY <3>3, <3>4, <3>5, <3>6, <2>1, <1>7, <1>2, <1>3, <1>a DEF Nodo
  <2>2. CASE y # p
    <3>1. E[y] = D[y]
      BY <2>0, <2>2, <1>a
    <3>2. \A n \in 1..Len(D[y].ll) : Suya(H, y, D[y].ll[n])
      <4> TAKE n \in 1..Len(D[y].ll)
      <4>1. Suya(G, y, D[y].ll[n])
        BY <2>0 DEF Nodo
      <4>2. D[y].ll[n].k # x
        BY <4>1, <2>2, <1>1, <1>a, <1>c DEF Suya
      <4> QED BY <4>1, <4>2, <1>3 DEF Suya, Dentro
    <3>3. \A n : Cotas(G, D[y], y, n) => Cotas(H, D[y], y, n)
      BY <1>3 DEF Cotas
    <3> QED BY <2>0, <3>1, <3>2, <3>3, <1>3 DEF Nodo, Dentro
  <2> QED BY <2>1, <2>2
<1>o. Forma0(H)
  <2>1. \A k \in DOMAIN H.N : H.W[k] \in H.C
    BY <1>3, <1>a, <1>p DEF Puntos
  <2>2. H.W \in [DOMAIN H.N -> H.C]
    BY <2>1, <1>3
  <2>3. DOMAIN H.N \subseteq Nat
    BY <1>3, <1>p DEF Puntos
  <2> QED BY <2>2, <2>3, <1>p, <1>3 DEF Forma0
<1>k. ASSUME NEW i \in DOMAIN H.N PROVE \E n \in 1..Len(E[H.W[i]].ll) : E[H.W[i]].ll[n].k = i
  <2>1. i \in DOMAIN G.N /\ H.W[i] = G.W[i] /\ G.W[i] \in G.C /\ i # x
    BY <1>3, <1>p DEF Puntos
  <2>2. PICK n \in 1..Len(D[G.W[i]].ll) : D[G.W[i]].ll[n].k = i
    BY <2>1, <1>p DEF Puntos
  <2>3. CASE G.W[i] = p
    <4>1. n \in 1..l /\ u[n].k = i /\ n # j
      BY <2>1, <2>2, <2>3, <1>c
    <4>2. CASE n < j
      <5>1. n \in 1..l-1 /\ t[n] = u[n]
        <6>1. n \in 1..l-1
          BY <4>1, <4>2, <1>1, <1>a
        <6> QED BY <6>1, <4>2, <1>2
      <5> QED BY <5>1, <4>1, <2>1, <2>3, <1>7, <1>2
    <4>3. CASE ~(n < j)
      <5>1. n - 1 \in 1..l-1 /\ ~(n - 1 < j) /\ (n - 1) + 1 = n
        BY <4>1, <4>3, <1>1, <1>a
      <5>2. t[n - 1] = u[n]
        BY <5>1, <1>2
      <5> QED BY <5>1, <5>2, <4>1, <2>1, <2>3, <1>7, <1>2
    <4> QED BY <4>2, <4>3
  <2>4. CASE G.W[i] # p
    BY <2>1, <2>2, <2>4, <1>a
  <2> QED BY <2>3, <2>4
<1>l. ASSUME NEW y \in H.C \ {H.r}
      PROVE  H.P[y] \in H.C /\ \E n \in 0..Len(E[H.P[y]].ll) : Hijo(E[H.P[y]], n) = y
  <2>1. y \in G.C \ {G.r} /\ G.P[y] \in G.C /\ H.P[y] = G.P[y] /\ y # 0
    BY <1>3, <1>p DEF Puntos
  <2>2. PICK n \in 0..Len(D[G.P[y]].ll) : Hijo(D[G.P[y]], n) = y
    BY <2>1, <1>p DEF Puntos
  <2>3. G.P[y] # p
    <3> SUFFICES ASSUME G.P[y] = p PROVE FALSE
      OBVIOUS
    <3>1. n \in 0..l /\ Hijo(c, n) = y
      BY <2>2, <1>c
    <3> QED BY <3>1, <2>1, <1>1
  <2> QED BY <2>1, <2>2, <2>3, <1>a, <1>3
<1>r. Arbol(E, H)
  BY <1>o, <1>q, <1>k, <1>l DEF Arbol
<1> QED BY <1>r, <1>F

\* The key x of cluster q leaves the tree and key y, the next one, takes its place.
Relevado(G, q, x, y) ==
    [r |-> G.r, C |-> G.C, h |-> G.h, P |-> G.P,
     lo |-> [z \in G.C |-> IF G.lo[z] = x THEN y ELSE G.lo[z]],
     hi |-> [z \in G.C |-> IF G.hi[z] = x THEN y ELSE G.hi[z]],
     W |-> [k \in DOMAIN G.N \ {x} |-> IF k = y THEN q ELSE G.W[k]],
     N |-> [k \in DOMAIN G.N \ {x} |-> G.N[k]]]

\* How the blocks E come from D when slot i of the inner cluster q takes the first slot
\* of b, the leaf with the keys right after it.
Relevo(D, E, G, q, i, b) ==
    LET c == D[q]
        s == D[b].ll[1]
    IN  /\ q \in G.C /\ G.h[q] # 0 /\ i \in 1..Len(c.ll)
        /\ b \in G.C /\ G.h[b] = 0 /\ G.lo[b] = c.ll[i].k /\ 1 <= Len(D[b].ll)
        /\ i < Len(c.ll) => s.k < c.ll[i + 1].k
        /\ Dentro(G, q, s.k)
        /\ E[q] = Klug(c.ant, [c.ll EXCEPT ![i] = Ranura(s.k, s.nm, @.may)])
        /\ E[b] = Klug(D[b].ant, RemoveAt(D[b].ll, 1))
        /\ \A z \in G.C \ {q, b} : E[z] = D[z]

\* A tree with one key less.
LEMMA Sustituye ==
    ASSUME NEW D, NEW E, NEW G, NEW q, NEW i, NEW b, Arbol(D, G), Relevo(D, E, G, q, i, b)
    PROVE  Arbol(E, Relevado(G, q, D[q].ll[i].k, D[b].ll[1].k))
<1> DEFINE c == D[q]
           u == c.ll
           l == Len(u)
           x == u[i].k
           d == D[b]
           v == d.ll
           L == Len(v)
           s == v[1]
           y == s.k
           H == Relevado(G, q, x, y)
           t == [u EXCEPT ![i] = Ranura(s.k, s.nm, @.may)]
           w == RemoveAt(v, 1)
<1>a. /\ q \in G.C /\ G.h[q] # 0 /\ i \in 1..l
      /\ b \in G.C /\ G.h[b] = 0 /\ G.lo[b] = x /\ 1 <= L
      /\ i < l => y < u[i + 1].k
      /\ Dentro(G, q, y)
  BY DEF Relevo
<1>b. E[q] = Klug(c.ant, t) /\ E[b] = Klug(d.ant, w) /\ \A z \in G.C \ {q, b} : E[z] = D[z]
  BY DEF Relevo
<1>p. Puntos(D, G) /\ Forma0(G)
  BY DePuntos DEF Arbol
<1>e. Sabido(G, c, l, q) /\ Sabido(G, d, L, b)
  BY <1>a, DeNodo
<1>1. /\ u \in Seq(Casillas) /\ l \in Nat /\ c.ant \in Nat
      /\ \A j, n \in 1..l : j < n => u[j].k < u[n].k
      /\ \A j \in 1..l : u[j] \in Casillas /\ u[j].k \in Nat /\ u[j].k \in DOMAIN G.N
                         /\ G.N[u[j].k] = u[j].nm /\ G.W[u[j].k] = q
  BY <1>e DEF Sabido
<1>2. /\ v \in Seq(Casillas) /\ L \in Nat /\ d.ant \in Nat
      /\ \A j, n \in 1..L : j < n => v[j].k < v[n].k
      /\ \A j \in 1..L : v[j] \in Casillas /\ v[j].k \in Nat /\ v[j].k \in DOMAIN G.N
                         /\ G.N[v[j].k] = v[j].nm /\ G.W[v[j].k] = b /\ G.lo[b] < v[j].k
                         /\ Bajo0(v[j].k, G.hi[b])
      /\ \A n \in 0..L : Hijo(d, n) = 0
      /\ \A k \in DOMAIN G.N : G.lo[b] < k /\ Bajo0(k, G.hi[b]) => G.W[k] = b
  BY <1>a, <1>e DEF Sabido
<1>n. Nodo(G, c, q) /\ Nodo(G, d, b)
  BY <1>a DEF Arbol
<1>3. /\ s \in Casillas /\ y \in Nat /\ y \in DOMAIN G.N /\ G.N[y] = s.nm /\ G.W[y] = b /\ x < y
      /\ s.nm \in Nat /\ x \in Nat /\ x \in DOMAIN G.N /\ G.W[x] = q /\ x # y /\ q # b
      /\ Bajo0(y, G.hi[b]) /\ 1 \in 1..L
  <2>1. 1 \in 1..L /\ i \in 1..l
    BY <1>a, <1>2
  <2>2. /\ s \in Casillas /\ y \in Nat /\ y \in DOMAIN G.N /\ G.N[y] = s.nm /\ G.W[y] = b /\ x < y
        /\ Bajo0(y, G.hi[b])
    BY <2>1, <1>2, <1>a
  <2>3. x \in Nat /\ x \in DOMAIN G.N /\ G.W[x] = q
    BY <2>1, <1>1
  <2>4. q # b /\ x # y
    BY <2>2, <2>3, <1>a
  <2>5. s.nm \in Nat
    BY <2>2 DEF Casillas
  <2> HIDE DEF s, x, y
  <2> QED BY <2>1, <2>2, <2>3, <2>4, <2>5
<1>4. \A k \in DOMAIN G.N : k \in Nat /\ (x < k /\ k # y => y < k)
  <2> TAKE k \in DOMAIN G.N
  <2>0. k \in Nat
    BY <1>p DEF Puntos
  <2>1. SUFFICES ASSUME x < k, k < y PROVE FALSE
    BY <2>0, <1>3
  <2>2. G.hi[b] \in Nat \cup {-1}
    BY <1>a, <1>p DEF Puntos
  <2>3. Bajo0(k, G.hi[b])
    <3>1. y \in Nat /\ (G.hi[b] = -1 \/ y < G.hi[b])
      BY <1>3 DEF Bajo0
    <3> HIDE DEF y
    <3>2. G.hi[b] = -1 \/ k < G.hi[b]
      BY <3>1, <2>0, <2>1, <2>2
    <3> QED BY <3>2 DEF Bajo0
  <2>4. G.W[k] = b
    BY <2>1, <2>3, <1>2, <1>a
  <2>5. PICK n \in 1..L : v[n].k = k
    BY <2>4, <1>p DEF Puntos
  <2>6. n = 1 \/ 1 < n
    BY <1>2
  <2>7. y = k \/ y < k
    BY <2>5, <2>6, <1>2, <1>3
  <2> HIDE DEF y
  <2> QED BY <2>0, <2>1, <2>7, <1>3
<1>5. \A j \in 1..l : /\ t[j] \in Casillas /\ t[j].may = u[j].may
                      /\ j # i => t[j] = u[j]
                      /\ j = i => t[j].k = y /\ t[j].nm = s.nm
  <2> TAKE j \in 1..l
  <2>1. u[j] \in Casillas /\ u[i] \in Casillas /\ j \in DOMAIN u /\ i \in DOMAIN u /\ s \in Casillas
    BY <1>1, <1>3, <1>a
  <2>2. t[j] = IF j = i THEN Ranura(s.k, s.nm, u[i].may) ELSE u[j]
    BY <2>1
  <2> QED BY <2>1, <2>2 DEF Casillas, Ranura
<1>6. t \in Seq(Casillas) /\ Len(t) = l
  <2>1. u \in [1..l -> Casillas] /\ l \in Nat
    BY <1>1
  <2>2. t = [j \in 1..l |-> t[j]]
    BY <2>1
  <2>3. \A j \in 1..l : t[j] \in Casillas
    BY <1>5
  <2> HIDE DEF t, l, u
  <2>4. t \in [1..l -> Casillas]
    BY <2>2, <2>3
  <2> QED BY <2>1, <2>4
<1>7. /\ w \in Seq(Casillas) /\ Len(w) = L - 1
      /\ \A n \in 1..L-1 : w[n] = v[n + 1] /\ n + 1 \in 1..L
  <2>1. v \in Seq(Casillas) /\ 1 \in 1..Len(v) /\ Len(v) = L
    BY <1>2, <1>3
  <2> HIDE DEF v
  <2>2. /\ w \in Seq(Casillas) /\ Len(w) = Len(v) - 1
        /\ \A n \in 1..Len(v)-1 : w[n] = IF n < 1 THEN v[n] ELSE v[n + 1]
    BY <2>1, Sacado
  <2> HIDE DEF w
  <2> QED BY <2>1, <2>2, <1>2
<1>8. /\ H.r = G.r /\ H.C = G.C /\ H.h = G.h /\ H.P = G.P
      /\ H = [r |-> H.r, C |-> H.C, h |-> H.h, lo |-> H.lo, hi |-> H.hi, P |-> H.P, W |-> H.W, N |-> H.N]
      /\ DOMAIN H.N = DOMAIN G.N \ {x} /\ DOMAIN H.W = DOMAIN G.N \ {x}
      /\ DOMAIN H.lo = G.C /\ DOMAIN H.hi = G.C
      /\ H.W = [k \in DOMAIN H.W |-> H.W[k]]
      /\ H.lo = [k \in DOMAIN H.lo |-> H.lo[k]] /\ H.hi = [k \in DOMAIN H.hi |-> H.hi[k]]
  BY DEF Relevado
<1>9. /\ \A k \in DOMAIN G.N \ {x} : H.N[k] = G.N[k] /\ H.W[k] = IF k = y THEN q ELSE G.W[k]
      /\ \A z \in G.C : /\ H.lo[z] = IF G.lo[z] = x THEN y ELSE G.lo[z]
                        /\ H.hi[z] = IF G.hi[z] = x THEN y ELSE G.hi[z]
  BY DEF Relevado
<1>c. c = D[q] /\ u = D[q].ll /\ l = Len(u) /\ l = Len(D[q].ll) /\ x = u[i].k
      /\ d = D[b] /\ v = D[b].ll /\ L = Len(v) /\ L = Len(D[b].ll) /\ s = v[1] /\ y = s.k
      /\ c.ll = u /\ d.ll = v
  OBVIOUS
<1>F. Arbol(E, H) => Arbol(E, Relevado(G, q, D[q].ll[i].k, D[b].ll[1].k))
  OBVIOUS
<1> HIDE DEF H, c, u, l, x, t, d, v, L, s, y, w
<1>10. /\ E[q].ant = c.ant /\ E[q].ll = t /\ EsKlug(E[q])
       /\ E[b].ant = d.ant /\ E[b].ll = w /\ EsKlug(E[b])
  <2>1. E[q].ant = c.ant /\ E[q].ll = t /\ E[b].ant = d.ant /\ E[b].ll = w
    BY <1>b DEF Klug
  <2>2. EsKlug(E[q])
    BY <1>b, <2>1, <1>1, <1>6 DEF EsKlug
  <2>3. EsKlug(E[b])
    BY <1>b, <2>1, <1>2, <1>7 DEF EsKlug
  <2> QED BY <2>1, <2>2, <2>3
<1>f. \A z \in G.C : G.lo[z] \in Nat \cup {-1} /\ G.hi[z] \in Nat \cup {-1}
  BY <1>p DEF Puntos

\* The bounds of every cluster, new and old, hold the same keys but these two.
<1>11. ASSUME NEW z \in G.C, NEW k \in DOMAIN G.N, k # x, k # y
       PROVE  Dentro(H, z, k) <=> Dentro(G, z, k)
  <2>1. k \in Nat /\ (x < k <=> y < k) /\ (k < x <=> k < y)
    BY <1>3, <1>4, <1>11
  <2>2. H.lo[z] < k <=> G.lo[z] < k
    BY <2>1, <1>9
  <2>3. (H.hi[z] = -1 \/ k < H.hi[z]) <=> (G.hi[z] = -1 \/ k < G.hi[z])
    <3>1. CASE G.hi[z] = x
      <4>1. H.hi[z] = y /\ H.hi[z] # -1 /\ G.hi[z] # -1
        BY <3>1, <1>9, <1>3
      <4> QED BY <4>1, <3>1, <2>1
    <3>2. CASE G.hi[z] # x
      BY <3>2, <1>9
    <3> QED BY <3>1, <3>2
  <2> QED BY <2>2, <2>3 DEF Dentro, Bajo0
<1>12. ASSUME NEW z \in G.C, Dentro(H, z, y) PROVE Dentro(G, z, y) /\ G.lo[z] # x
  <2>0. H.lo[z] < y /\ (H.hi[z] = -1 \/ y < H.hi[z])
    BY <1>12 DEF Dentro, Bajo0
  <2>1. G.lo[z] # x
    BY <2>0, <1>9, <1>3
  <2>2. G.hi[z] # x
    <3> SUFFICES ASSUME G.hi[z] = x PROVE FALSE
      OBVIOUS
    <3>1. H.hi[z] = y
      BY <1>9
    <3> QED BY <3>1, <2>0, <1>3
  <2>3. H.lo[z] = G.lo[z] /\ H.hi[z] = G.hi[z]
    BY <2>1, <2>2, <1>9
  <2> QED BY <2>0, <2>1, <2>3 DEF Dentro, Bajo0
<1>13. ASSUME NEW z \in G.C, NEW a, Suya(G, z, a), a.k # x, a.k # y PROVE Suya(H, z, a)
  <2>1. Dentro(G, z, a.k) /\ a.k \in DOMAIN G.N /\ G.N[a.k] = a.nm /\ G.W[a.k] = z
    BY <1>13 DEF Suya
  <2>2. Dentro(H, z, a.k)
    BY <2>1, <1>11, <1>13
  <2> QED BY <2>1, <2>2, <1>8, <1>9, <1>13 DEF Suya
<1>14. ASSUME NEW z \in G.C, H.h[z] = 0, NEW k \in DOMAIN H.N, Dentro(H, z, k) PROVE H.W[k] = z
  <2>0. Nodo(G, D[z], z) /\ G.h[z] = 0 /\ k \in DOMAIN G.N /\ k # x
    BY <1>14, <1>8 DEF Arbol
  <2>1. CASE k = y
    <3>1. Dentro(G, z, y) /\ G.lo[z] # x
      BY <2>1, <1>12, <1>14
    <3>2. G.W[y] = z
      BY <2>0, <2>1, <3>1 DEF Nodo
    <3> QED BY <3>1, <3>2, <1>3, <1>a
  <2>2. CASE k # y
    <3>1. Dentro(G, z, k)
      BY <2>0, <2>2, <1>14, <1>11
    <3> QED BY <3>1, <2>0, <2>2, <1>9 DEF Nodo
  <2> QED BY <2>1, <2>2

\* The clusters.
<1>q1. Nodo(H, E[q], q)
  <2>1. \A j \in 1..l : Suya(H, q, t[j])
    <3> TAKE j \in 1..l
    <3>1. CASE j = i
      <4>1. H.N[y] = s.nm /\ H.W[y] = q /\ y \in DOMAIN H.N
        BY <1>3, <1>8, <1>9
      <4>2. G.lo[q] < y /\ (G.hi[q] = -1 \/ y < G.hi[q])
        BY <1>a DEF Dentro, Bajo0
      <4>3. G.lo[q] < x /\ (G.hi[q] = -1 \/ x < G.hi[q])
        BY <1>n, <1>a, <1>c DEF Nodo, Suya, Dentro, Bajo0
      <4>4. G.lo[q] # x /\ G.hi[q] # x
        BY <4>3, <1>3
      <4>5. H.lo[q] = G.lo[q] /\ H.hi[q] = G.hi[q]
        BY <4>4, <1>9, <1>a
      <4> QED BY <4>1, <4>2, <4>5, <3>1, <1>5 DEF Suya, Dentro, Bajo0
    <3>2. CASE j # i
      <4>1. Suya(G, q, u[j])
        BY <1>n, <1>c DEF Nodo
      <4>2. u[j].k # x
        <5>1. j < i \/ i < j
          BY <3>2, <1>1, <1>a
        <5>2. u[j].k < u[i].k \/ u[i].k < u[j].k
          BY <5>1, <1>1, <1>a
        <5> QED BY <5>2, <1>1, <1>a, <1>c
      <4>3. u[j].k # y
        BY <1>1, <1>3
      <4> QED BY <4>1, <4>2, <4>3, <3>2, <1>5, <1>13, <1>a
    <3> QED BY <3>1, <3>2
  <2>2. \A j, n \in 1..l : j < n => t[j].k < t[n].k
    <3> SUFFICES ASSUME NEW j \in 1..l, NEW n \in 1..l, j < n PROVE t[j].k < t[n].k
      OBVIOUS
    <3>0. u[j].k < u[n].k /\ u[j].k \in Nat /\ u[n].k \in Nat /\ i \in 1..l /\ j \in Nat /\ n \in Nat
      BY <1>1, <1>a
    <3>1. CASE j = i
      <4>1. n # i /\ i < n /\ i < l /\ i + 1 \in 1..l /\ (i + 1 = n \/ i + 1 < n)
        BY <3>0, <3>1, <1>1
      <4>2. u[i + 1].k <= u[n].k /\ u[i + 1].k \in Nat
        BY <4>1, <3>0, <1>1
      <4>3. y < u[n].k
        BY <4>1, <4>2, <3>0, <1>a, <1>3
      <4> QED BY <4>1, <4>3, <3>1, <1>5
    <3>2. CASE n = i
      <4>1. u[j].k < x /\ j # i
        BY <3>0, <3>2, <1>c
      <4>2. u[j].k < y
        BY <4>1, <3>0, <1>3
      <4> QED BY <4>1, <4>2, <3>2, <1>5
    <3>3. CASE j # i /\ n # i
      BY <3>0, <3>3, <1>5
    <3> QED BY <3>1, <3>2, <3>3
  <2>3. \A n \in 0..l : Hijo(E[q], n) = Hijo(c, n)
    <3> TAKE n \in 0..l
    <3>1. n # 0 => n \in 1..l
      BY <1>1
    <3> QED BY <3>1, <1>5, <1>10, <1>c DEF Hijo
  <2>4. \A n \in 0..l : Cotas(H, E[q], q, n)
    <3> TAKE n \in 0..l
    <3>1. Cotas(G, c, q, n)
      BY <1>n, <1>a, <1>c DEF Nodo
    <3> DEFINE z == Hijo(c, n)
    <3>2. /\ z \in G.C /\ G.h[z] = G.h[q] - 1 /\ G.P[z] = q
          /\ G.lo[z] = IF n = 0 THEN G.lo[q] ELSE u[n].k
          /\ G.hi[z] = IF n = l THEN G.hi[q] ELSE u[n + 1].k
      BY <3>1, <1>c DEF Cotas
    <3> HIDE DEF z
    <3>3. \A j \in 1..l : t[j].k = IF u[j].k = x THEN y ELSE u[j].k
      <4> TAKE j \in 1..l
      <4>1. u[j].k = x => j = i
        <5>1. j < i => u[j].k < x
          BY <1>1, <1>a, <1>c
        <5>2. i < j => x < u[j].k
          BY <1>1, <1>a, <1>c
        <5>3. j \in Nat /\ i \in Nat /\ u[j].k \in Nat
          BY <1>1, <1>a
        <5> QED BY <5>1, <5>2, <5>3, <1>3
      <4> QED BY <4>1, <1>5, <1>c
    <3>4. H.lo[z] = IF n = 0 THEN H.lo[q] ELSE t[n].k
      <4>1. CASE n = 0
        BY <4>1, <3>2, <1>9, <1>a
      <4>2. CASE n # 0
        <5>1. n \in 1..l
          BY <4>2, <1>1
        <5> QED BY <5>1, <4>2, <3>2, <3>3, <1>9
      <4> QED BY <4>1, <4>2
    <3>5. H.hi[z] = IF n = l THEN H.hi[q] ELSE t[n + 1].k
      <4>1. CASE n = l
        BY <4>1, <3>2, <1>9, <1>a
      <4>2. CASE n # l
        <5>1. n + 1 \in 1..l
          BY <4>2, <1>1
        <5> QED BY <5>1, <4>2, <3>2, <3>3, <1>9
      <4> QED BY <4>1, <4>2
    <3>6. Hijo(E[q], n) = z
      BY <2>3 DEF z
    <3> QED BY <3>2, <3>4, <3>5, <3>6, <1>8, <1>10, <1>6 DEF Cotas
  <2> QED BY <2>1, <2>2, <2>4, <1>6, <1>8, <1>10, <1>a DEF Nodo
<1>q2. Nodo(H, E[b], b)
  <2>1. \A n \in 1..L-1 : Suya(H, b, w[n])
    <3> TAKE n \in 1..L-1
    <3>1. w[n] = v[n + 1] /\ n + 1 \in 1..L /\ 1 < n + 1
      BY <1>7, <1>2
    <3>2. Suya(G, b, v[n + 1])
      BY <3>1, <1>n, <1>c DEF Nodo
    <3>3. y < v[n + 1].k /\ v[n + 1].k \in Nat
      BY <3>1, <1>2, <1>3, <1>c
    <3>4. v[n + 1].k # x /\ v[n + 1].k # y
      BY <3>3, <1>3
    <3> QED BY <3>1, <3>2, <3>4, <1>13, <1>a
  <2>2. \A j, n \in 1..L-1 : j < n => w[j].k < w[n].k
    <3> SUFFICES ASSUME NEW j \in 1..L-1, NEW n \in 1..L-1, j < n PROVE w[j].k < w[n].k
      OBVIOUS
    <3>1. w[j] = v[j + 1] /\ j + 1 \in 1..L /\ w[n] = v[n + 1] /\ n + 1 \in 1..L /\ j + 1 < n + 1
      BY <1>7, <1>2
    <3> QED BY <3>1, <1>2
  <2>3. \A n \in 0..L-1 : Hijo(E[b], n) = 0
    <3> TAKE n \in 0..L-1
    <3>1. CASE n = 0
      BY <3>1, <1>10, <1>2 DEF Hijo
    <3>2. CASE n # 0
      <4>1. n \in 1..L-1 /\ n + 1 \in 0..L /\ n + 1 # 0
        BY <3>2, <1>2
      <4>2. Hijo(d, n + 1) = 0 /\ w[n] = v[n + 1]
        BY <4>1, <1>2, <1>7
      <4> QED BY <4>1, <4>2, <3>2, <1>10, <1>c DEF Hijo
    <3> QED BY <3>1, <3>2
  <2> QED BY <2>1, <2>2, <2>3, <1>7, <1>8, <1>10, <1>14, <1>a DEF Nodo
<1>q3. ASSUME NEW z \in G.C, z # q, z # b PROVE Nodo(H, E[z], z)
  <2>0. Nodo(G, D[z], z) /\ E[z] = D[z]
    BY <1>q3, <1>b DEF Arbol
  <2>1. \A n \in 1..Len(D[z].ll) : Suya(H, z, D[z].ll[n]) /\ D[z].ll[n].k # x /\ D[z].ll[n].k # y
    <3> TAKE n \in 1..Len(D[z].ll)
    <3>1. Suya(G, z, D[z].ll[n])
      BY <2>0 DEF Nodo
    <3>2. D[z].ll[n].k # x /\ D[z].ll[n].k # y
      BY <3>1, <1>q3, <1>3 DEF Suya
    <3> QED BY <3>1, <3>2, <1>13
  <2>2. G.h[z] # 0 => \A n \in 0..Len(D[z].ll) : Cotas(H, D[z], z, n)
    <3> SUFFICES ASSUME G.h[z] # 0, NEW n \in 0..Len(D[z].ll) PROVE Cotas(H, D[z], z, n)
      BY Zenon
    <3>0. Len(D[z].ll) \in Nat
      <4>1. EsKlug(D[z])
        BY <2>0 DEF Nodo
      <4> QED BY <4>1, LenProperties DEF EsKlug
    <3>1. Cotas(G, D[z], z, n)
      BY <2>0 DEF Nodo
    <3>2. (n # 0 => n \in 1..Len(D[z].ll)) /\ (n # Len(D[z].ll) => n + 1 \in 1..Len(D[z].ll))
      BY <3>0
    <3> QED BY <3>1, <3>2, <2>1, <1>8, <1>9 DEF Cotas
  <2> QED BY <2>0, <2>1, <2>2, <1>8, <1>14 DEF Nodo
<1>o. Forma0(H)
  <2>1. \A k \in DOMAIN H.N : H.W[k] \in H.C
    BY <1>8, <1>9, <1>a, <1>p DEF Puntos
  <2>2. H.W \in [DOMAIN H.N -> H.C]
    BY <2>1, <1>8
  <2>3. DOMAIN H.N \subseteq Nat
    BY <1>8, <1>p DEF Puntos
  <2>4. \A z \in H.C : H.lo[z] \in Nat \cup {-1} /\ H.hi[z] \in Nat \cup {-1}
    BY <1>8, <1>9, <1>3, <1>f
  <2>5. H.lo \in [H.C -> Nat \cup {-1}] /\ H.hi \in [H.C -> Nat \cup {-1}]
    BY <2>4, <1>8
  <2>6. H.lo[H.r] = -1 /\ H.hi[H.r] = -1
    BY <1>8, <1>9, <1>3, <1>p DEF Puntos
  <2> QED BY <2>2, <2>3, <2>5, <2>6, <1>p, <1>8 DEF Forma0
<1>k. ASSUME NEW k \in DOMAIN H.N PROVE \E n \in 1..Len(E[H.W[k]].ll) : E[H.W[k]].ll[n].k = k
  <2>1. k \in DOMAIN G.N /\ k # x /\ G.W[k] \in G.C /\ H.W[k] = IF k = y THEN q ELSE G.W[k]
    BY <1>8, <1>9, <1>p DEF Puntos
  <2>2. PICK n \in 1..Len(D[G.W[k]].ll) : D[G.W[k]].ll[n].k = k
    BY <2>1, <1>p DEF Puntos
  <2>3. CASE k = y
    <3>1. i \in 1..l /\ t[i].k = y
      BY <1>5, <1>a
    <3> QED BY <3>1, <2>1, <2>3, <1>10, <1>6
  <2>4. CASE k # y /\ G.W[k] = q
    <3>1. n \in 1..l /\ u[n].k = k
      BY <2>2, <2>4, <1>c
    <3>2. n # i
      BY <3>1, <2>1, <1>c
    <3>3. t[n].k = k
      BY <3>1, <3>2, <1>5
    <3> QED BY <3>1, <3>3, <2>1, <2>4, <1>10, <1>6
  <2>5. CASE k # y /\ G.W[k] = b
    <3>1. n \in 1..L /\ v[n].k = k
      BY <2>2, <2>5, <1>c
    <3>2. n # 1
      BY <3>1, <2>5, <1>c
    <3>3. n - 1 \in 1..L-1 /\ (n - 1) + 1 = n
      BY <3>1, <3>2, <1>2
    <3>4. w[n - 1].k = k
      BY <3>1, <3>3, <1>7
    <3> QED BY <3>3, <3>4, <2>1, <2>5, <1>10, <1>7
  <2>6. CASE k # y /\ G.W[k] # q /\ G.W[k] # b
    BY <2>1, <2>2, <2>6, <1>b
  <2> QED BY <2>3, <2>4, <2>5, <2>6
<1>l. ASSUME NEW z \in H.C \ {H.r}
      PROVE  H.P[z] \in H.C /\ \E n \in 0..Len(E[H.P[z]].ll) : Hijo(E[H.P[z]], n) = z
  <2>1. z \in G.C \ {G.r} /\ G.P[z] \in G.C /\ H.P[z] = G.P[z] /\ z # 0
    BY <1>8, <1>p DEF Puntos
  <2>2. PICK n \in 0..Len(D[G.P[z]].ll) : Hijo(D[G.P[z]], n) = z
    BY <2>1, <1>p DEF Puntos
  <2>3. G.P[z] # b
    <3> SUFFICES ASSUME G.P[z] = b PROVE FALSE
      OBVIOUS
    <3>1. n \in 0..L /\ Hijo(d, n) = z
      BY <2>2, <1>c
    <3> QED BY <3>1, <2>1, <1>2
  <2>4. CASE G.P[z] = q
    <3>1. n \in 0..l /\ Hijo(c, n) = z /\ (n # 0 => n \in 1..l)
      BY <2>2, <2>4, <1>c, <1>1
    <3>2. Hijo(E[q], n) = z
      BY <3>1, <1>5, <1>10, <1>c DEF Hijo
    <3> QED BY <3>1, <3>2, <2>1, <2>4, <1>6, <1>8, <1>10
  <2>5. CASE G.P[z] # q
    BY <2>1, <2>2, <2>3, <2>5, <1>b, <1>8
  <2> QED BY <2>4, <2>5
<1>q. \A z \in H.C : Nodo(H, E[z], z)
  BY <1>q1, <1>q2, <1>q3, <1>8
<1>r. Arbol(E, H)
  BY <1>o, <1>q, <1>k, <1>l DEF Arbol
<1> QED BY <1>r, <1>F

-----------------------------------------------------------------------------
(* Blocks *)

\* The free blocks of a file are L, each names the next, and g goes up along the chain.
LibreEn(f, L, g) ==
    /\ f.pad1 \in L \cup {0}
    /\ \A p \in L : f.dsk[p] = Libre(f.dsk[p].sig, f.dsk[p].tam)
    /\ \A p \in L : g[p] \in Nat /\ f.dsk[p].sig \in L \cup {0}
    /\ \A p \in L : f.dsk[p].sig # 0 => g[p] < g[f.dsk[p].sig] /\ f.dsk[p].sig # f.pad1
    /\ \A p \in L : p # f.pad1 => \E z \in L : f.dsk[z].sig = p
    /\ \A y, z \in L : f.dsk[y].sig = f.dsk[z].sig /\ f.dsk[y].sig # 0 => y = z

\* The blocks X of a file are in use and the others are on the free chain.
Disco(f, X) ==
    /\ f = [dsk |-> f.dsk, pad1 |-> f.pad1, kpos |-> f.kpos, vpk |-> f.vpk]
    /\ \E S : f.dsk \in Seq(S)
    /\ X \subseteq 1..Len(f.dsk) /\ \A p \in X : ~EsLibre(f.dsk[p])
    /\ \E g : LibreEn(f, (1..Len(f.dsk)) \ X, g)

\* The chain that frsp goes through has the free blocks, each once.
LEMMA LibresEs ==
    ASSUME NEW f, NEW X, Disco(f, X)
    PROVE  LET S == Libres(f)
               N == Len(f.dsk)
           IN  /\ N \in Nat /\ DOMAIN S = 0..N /\ S[0] = f.pad1 /\ S[N] = 0
               /\ Alcanza(S) = (1..N) \ X
               /\ \A n \in 0..N-1 : S[n + 1] = IF S[n] = 0 THEN 0 ELSE f.dsk[S[n]].sig
               /\ \A m, n \in 0..N : m < n /\ S[m] = S[n] => S[n] = 0
<1> DEFINE N == Len(f.dsk)
           L == (1..N) \ X
           sig == [p \in {p \in DOMAIN f.dsk : EsLibre(f.dsk[p])} |-> f.dsk[p].sig]
           S == Libres(f)
<1>1. PICK Z : f.dsk \in Seq(Z)
  BY DEF Disco
<1>2. N \in Nat /\ DOMAIN f.dsk = 1..N
  BY <1>1, LenProperties
<1>3. PICK g : LibreEn(f, L, g)
  BY DEF Disco
<1>4. {p \in DOMAIN f.dsk : EsLibre(f.dsk[p])} = L
  <2>1. \A p \in L : EsLibre(f.dsk[p])
    <3> TAKE p \in L
    <3>1. f.dsk[p] = Libre(f.dsk[p].sig, f.dsk[p].tam)
      BY <1>3 DEF LibreEn
    <3>2. "sig" \in DOMAIN Libre(f.dsk[p].sig, f.dsk[p].tam)
      BY DEF Libre
    <3> QED BY <3>1, <3>2, Zenon DEF EsLibre
  <2>2. \A p \in X : ~EsLibre(f.dsk[p])
    BY DEF Disco
  <2>3. X \subseteq 1..N
    BY DEF Disco
  <2> QED BY <2>1, <2>2, <2>3, <1>2
<1>5. \A p \in L : sig[p] = f.dsk[p].sig
  BY <1>4
<1>6. S = Desde(f.pad1, sig, N)
  BY DEF Libres
<1>s. N = Len(f.dsk) /\ L = (1..N) \ X
  OBVIOUS
<1> HIDE DEF sig, S, L, N
<1>7. IsFiniteSet(L) /\ Cardinality(L) <= N /\ 0 \notin L
  <2>1. IsFiniteSet(1..N) /\ Cardinality(1..N) = IF 1 > N THEN 0 ELSE N - 1 + 1
    BY <1>2, FS_Interval
  <2>2. Cardinality(1..N) = N
    BY <2>1, <1>2
  <2>3. L \subseteq 1..N /\ 0 \notin L
    BY <1>s, <1>2
  <2> QED BY <2>1, <2>2, <2>3, FS_Subset
<1>8. /\ f.pad1 \in L \cup {0} /\ (f.pad1 = 0 => L = {})
      /\ \A p \in L : /\ g[p] \in Nat /\ sig[p] \in L \cup {0}
                      /\ sig[p] # 0 => g[p] < g[sig[p]]
                      /\ p # f.pad1 => \E z \in L : sig[z] = p
  <2>1. /\ f.pad1 \in L \cup {0}
        /\ \A p \in L : /\ g[p] \in Nat /\ sig[p] \in L \cup {0}
                        /\ sig[p] # 0 => g[p] < g[sig[p]]
                        /\ p # f.pad1 => \E z \in L : sig[z] = p
    BY <1>3, <1>5 DEF LibreEn
  <2>2. ASSUME f.pad1 = 0, L # {} PROVE FALSE
    <3> DEFINE R == {g[p] : p \in L}
    <3>1. R \subseteq Nat /\ R # {}
      BY <2>1, <2>2
    <3>2. PICK t \in R : \A u \in R : t <= u
      <4> HIDE DEF R
      <4> QED BY <3>1, Minimo
    <3>3. PICK p \in L : t = g[p]
      OBVIOUS
    <3>4. PICK z \in L : sig[z] = p
      BY <2>1, <2>2, <3>3, <1>7
    <3>5. g[z] < g[p] /\ g[z] \in Nat /\ g[p] \in Nat
      BY <2>1, <3>3, <3>4, <1>7
    <3>6. g[z] \in R
      OBVIOUS
    <3>7. t <= g[z]
      BY <3>2, <3>6
    <3> HIDE DEF R
    <3> QED BY <3>3, <3>5, <3>7
  <2> QED BY <2>1, <2>2
<1>9. LET S1 == Desde(f.pad1, sig, N)
      IN  /\ Alcanza(S1) = L /\ DOMAIN S1 = 0..N /\ S1[N] = 0
          /\ \A m, n \in 0..N : m < n /\ S1[n] # 0 => S1[m] # 0 /\ g[S1[m]] < g[S1[n]]
  BY <1>2, <1>7, <1>8, Recorrido
<1>10. /\ Alcanza(S) = L /\ DOMAIN S = 0..N /\ S[N] = 0
       /\ \A m, n \in 0..N : m < n /\ S[n] # 0 => S[m] # 0 /\ g[S[m]] < g[S[n]]
  BY <1>6, <1>9
<1>11. S[0] = f.pad1 /\ \A n \in 0..N-1 : S[n + 1] = IF S[n] = 0 THEN 0 ELSE sig[S[n]]
  BY <1>2, <1>6, DesdeEs
<1>12. \A n \in 0..N : S[n] # 0 => S[n] \in L
  BY <1>10 DEF Alcanza
<1>13. \A n \in 0..N-1 : S[n + 1] = IF S[n] = 0 THEN 0 ELSE f.dsk[S[n]].sig
  <2> TAKE n \in 0..N-1
  <2>1. n \in 0..N
    BY <1>2
  <2> QED BY <2>1, <1>5, <1>11, <1>12
<1>14. \A m, n \in 0..N : m < n /\ S[m] = S[n] => S[n] = 0
  <2> SUFFICES ASSUME NEW m \in 0..N, NEW n \in 0..N, m < n, S[m] = S[n], S[n] # 0 PROVE FALSE
    OBVIOUS
  <2>1. g[S[m]] < g[S[n]] /\ g[S[n]] \in Nat
    BY <1>8, <1>10, <1>12
  <2>2. g[S[n]] < g[S[n]] /\ g[S[n]] \in Nat
    BY <2>1
  <2> QED BY <2>2
<1> QED BY <1>2, <1>10, <1>11, <1>13, <1>14, <1>s DEF S, N

\* A used block is written again.
Escrito(f, g, X, p, b) ==
    /\ Disco(g, X) /\ g.dsk[p] = b /\ \A q \in X \ {p} : g.dsk[q] = f.dsk[q]
    /\ g.kpos = f.kpos /\ g.vpk = f.vpk /\ Len(g.dsk) = Len(f.dsk)

\* So does renu.
LEMMA RenuEs ==
    ASSUME NEW f, NEW X, Disco(f, X), NEW p \in X, NEW b, ~EsLibre(b)
    PROVE  Escrito(f, Renu(f, p, b), X, p, b)
<1> DEFINE g == Renu(f, p, b)
           N == Len(f.dsk)
<1>1. PICK Z : f.dsk \in Seq(Z)
  BY DEF Disco
<1>2. N \in Nat /\ DOMAIN f.dsk = 1..N /\ f.dsk \in Seq(Z \cup {b}) /\ p \in 1..N /\ p # N + 1
  <2>1. p \in 1..N
    BY DEF Disco
  <2>2. N \in Nat /\ DOMAIN f.dsk = 1..N /\ f.dsk \in Seq(Z \cup {b})
    BY <1>1, LenProperties
  <2> QED BY <2>1, <2>2
<1>3. f = [dsk |-> f.dsk, pad1 |-> f.pad1, kpos |-> f.kpos, vpk |-> f.vpk]
  BY DEF Disco
<1> DEFINE d == [f.dsk EXCEPT ![p] = b]
<1>4. g = [f EXCEPT !.dsk = d]
  BY <1>2 DEF Renu
<1>5. g = [dsk |-> d, pad1 |-> f.pad1, kpos |-> f.kpos, vpk |-> f.vpk]
  <2> HIDE DEF d, g
  <2> QED BY <1>3, <1>4
<1>6. d \in Seq(Z \cup {b}) /\ Len(d) = N /\ d[p] = b /\ \A q \in 1..N : q # p => d[q] = f.dsk[q]
  BY <1>2
<1>7. PICK k : LibreEn(f, (1..N) \ X, k)
  BY DEF Disco
<1> HIDE DEF d, g
<1>g. g.dsk = d /\ g.pad1 = f.pad1 /\ g.kpos = f.kpos /\ g.vpk = f.vpk
  BY <1>5
<1>8. LibreEn(g, (1..N) \ X, k)
  <2>1. \A q \in (1..N) \ X : g.dsk[q] = f.dsk[q]
    BY <1>6, <1>g
  <2> DEFINE L == (1..N) \ X
  <2>2. LibreEn(f, L, k) /\ \A q \in L : g.dsk[q] = f.dsk[q]
    BY <2>1, <1>7
  <2> HIDE DEF L
  <2>3. LibreEn(g, L, k)
    <3>1. f.pad1 \in L \cup {0}
      BY <2>2 DEF LibreEn
    <3>2. \A q \in L : f.dsk[q] = Libre(f.dsk[q].sig, f.dsk[q].tam)
      BY <2>2, Zenon DEF LibreEn
    <3>3. \A q \in L : k[q] \in Nat /\ f.dsk[q].sig \in L \cup {0}
      BY <2>2, Zenon DEF LibreEn
    <3>4. \A q \in L : f.dsk[q].sig # 0 => k[q] < k[f.dsk[q].sig] /\ f.dsk[q].sig # f.pad1
      BY <2>2, Zenon DEF LibreEn
    <3>5. \A q \in L : q # f.pad1 => \E z \in L : f.dsk[z].sig = q
      BY <2>2, Zenon DEF LibreEn
    <3>6. \A y, z \in L : f.dsk[y].sig = f.dsk[z].sig /\ f.dsk[y].sig # 0 => y = z
      BY <2>2, Zenon DEF LibreEn
    <3>7. \A q \in L : g.dsk[q] = Libre(g.dsk[q].sig, g.dsk[q].tam)
      BY <2>2, <3>2
    <3> QED BY <2>2, <3>1, <3>3, <3>4, <3>5, <3>6, <3>7, <1>g DEF LibreEn
  <2> QED BY <2>3 DEF L
<1>9. X \subseteq 1..N /\ \A q \in X : ~EsLibre(f.dsk[q])
  BY DEF Disco
<1>10. \A q \in X : ~EsLibre(g.dsk[q])
  <2> TAKE q \in X
  <2>1. q \in 1..N
    BY <1>9
  <2> QED BY <2>1, <1>6, <1>9, <1>g
<1>11. Disco(g, X)
  <2>1. Len(g.dsk) = N /\ g.dsk \in Seq(Z \cup {b})
    BY <1>6, <1>g
  <2>2. g = [dsk |-> g.dsk, pad1 |-> g.pad1, kpos |-> g.kpos, vpk |-> g.vpk]
    BY <1>5, <1>g
  <2> QED BY <2>1, <2>2, <1>8, <1>9, <1>10 DEF Disco
<1>12. \A q \in X \ {p} : g.dsk[q] = f.dsk[q]
  BY <1>6, <1>9, <1>g
<1> QED BY <1>6, <1>g, <1>11, <1>12 DEF Escrito, g

\* A used block becomes free.
Suelto(f, g, X, p) ==
    /\ Disco(g, X \ {p}) /\ \A q \in X \ {p} : g.dsk[q] = f.dsk[q]
    /\ g.kpos = f.kpos /\ g.vpk = f.vpk /\ Len(g.dsk) = Len(f.dsk)

\* So does libera.
LEMMA LiberaEs ==
    ASSUME NEW f, NEW X, Disco(f, X), NEW p \in X, NEW tam
    PROVE  Suelto(f, Libera(f, tam, p), X, p)
<1> DEFINE g == Libera(f, tam, p)
           N == Len(f.dsk)
           b == Libre(f.pad1, tam)
           d == [f.dsk EXCEPT ![p] = b]
           L == (1..N) \ X
           M == (1..N) \ (X \ {p})
<1>1. PICK Z : f.dsk \in Seq(Z)
  BY DEF Disco
<1>2. N \in Nat /\ DOMAIN f.dsk = 1..N /\ f.dsk \in Seq(Z \cup {b}) /\ p \in 1..N
  <2>1. p \in 1..N
    BY DEF Disco
  <2> HIDE DEF b
  <2>2. N \in Nat /\ DOMAIN f.dsk = 1..N /\ f.dsk \in Seq(Z \cup {b})
    BY <1>1, LenProperties
  <2> QED BY <2>1, <2>2
<1>3. f = [dsk |-> f.dsk, pad1 |-> f.pad1, kpos |-> f.kpos, vpk |-> f.vpk]
  BY DEF Disco
<1>5. g = [dsk |-> d, pad1 |-> p, kpos |-> f.kpos, vpk |-> f.vpk]
  <2>1. g = [[f EXCEPT !.dsk = d] EXCEPT !.pad1 = p]
    BY DEF Libera
  <2> HIDE DEF d, g
  <2>2. [f EXCEPT !.dsk = d] = [dsk |-> d, pad1 |-> f.pad1, kpos |-> f.kpos, vpk |-> f.vpk]
    BY <1>3
  <2> QED BY <2>1, <2>2
<1>b. b.sig = f.pad1 /\ b = Libre(b.sig, b.tam)
  BY DEF Libre
<1> HIDE DEF b
<1>6. d \in Seq(Z \cup {b}) /\ Len(d) = N /\ d[p] = b /\ \A q \in 1..N : q # p => d[q] = f.dsk[q]
  BY <1>2
<1>7. PICK k : LibreEn(f, L, k)
  BY DEF Disco
<1>9. X \subseteq 1..N /\ \A q \in X : ~EsLibre(f.dsk[q])
  BY DEF Disco
<1> HIDE DEF d, g
<1>g. g.dsk = d /\ g.pad1 = p /\ g.kpos = f.kpos /\ g.vpk = f.vpk
  BY <1>5
<1>m. M = L \cup {p} /\ p \notin L /\ p # 0 /\ 0 \notin L /\ \A q \in L : g.dsk[q] = f.dsk[q]
  BY <1>2, <1>6, <1>9, <1>g
<1> DEFINE h == [q \in M |-> IF q = p THEN 0 ELSE k[q] + 1]
<1>h. h[p] = 0 /\ \A q \in L : h[q] = k[q] + 1
  BY <1>m
<1> HIDE DEF h, L, M
<1>8. LibreEn(g, M, h)
  <2>1. g.pad1 \in M \cup {0} /\ g.pad1 # 0
    BY <1>g, <1>m
  <2>a1. f.pad1 \in L \cup {0}
    BY <1>7 DEF LibreEn
  <2>a2. \A q \in L : f.dsk[q] = Libre(f.dsk[q].sig, f.dsk[q].tam)
    BY <1>7, Zenon DEF LibreEn
  <2>a3. \A q \in L : k[q] \in Nat /\ f.dsk[q].sig \in L \cup {0}
    BY <1>7, Zenon DEF LibreEn
  <2>a4. \A q \in L : f.dsk[q].sig # 0 => k[q] < k[f.dsk[q].sig] /\ f.dsk[q].sig # f.pad1
    BY <1>7, Zenon DEF LibreEn
  <2>a5. \A q \in L : q # f.pad1 => \E z \in L : f.dsk[z].sig = q
    BY <1>7, Zenon DEF LibreEn
  <2>a6. \A y, z \in L : f.dsk[y].sig = f.dsk[z].sig /\ f.dsk[y].sig # 0 => y = z
    BY <1>7, Zenon DEF LibreEn
  <2>p. g.dsk[p] = b /\ g.dsk[p].sig = f.pad1
    BY <1>6, <1>g, <1>b
  <2>b. \A q \in M : q = p \/ q \in L
    BY <1>m
  <2>2. \A q \in M : g.dsk[q] = Libre(g.dsk[q].sig, g.dsk[q].tam)
    <3>1. g.dsk[p] = Libre(g.dsk[p].sig, g.dsk[p].tam)
      BY <2>p, <1>b
    <3>2. \A q \in L : g.dsk[q] = Libre(g.dsk[q].sig, g.dsk[q].tam)
      BY <2>a2, <1>m
    <3> QED BY <2>b, <3>1, <3>2
  <2>3. \A q \in M : h[q] \in Nat /\ g.dsk[q].sig \in M \cup {0}
    BY <2>b, <2>a1, <2>a3, <2>p, <1>h, <1>m
  <2>4. ASSUME NEW q \in M, g.dsk[q].sig # 0
        PROVE  h[q] < h[g.dsk[q].sig] /\ g.dsk[q].sig # g.pad1
    <3>1. CASE q = p
      <4>1. f.pad1 \in L /\ g.dsk[q].sig = f.pad1
        BY <2>4, <3>1, <2>p, <2>a1
      <4>2. h[f.pad1] = k[f.pad1] + 1 /\ k[f.pad1] \in Nat /\ f.pad1 # p
        BY <4>1, <1>h, <2>a3, <1>m
      <4> QED BY <3>1, <4>1, <4>2, <1>h, <1>g
    <3>2. CASE q # p
      <4>1. q \in L /\ g.dsk[q] = f.dsk[q]
        BY <3>2, <2>b, <1>m
      <4> DEFINE z == f.dsk[q].sig
      <4>2. z \in L /\ z # 0 /\ g.dsk[q].sig = z /\ k[q] < k[z] /\ k[q] \in Nat
        BY <4>1, <2>4, <2>a3, <2>a4
      <4> HIDE DEF z
      <4>3. h[z] = k[z] + 1 /\ k[z] \in Nat /\ h[q] = k[q] + 1 /\ z # p
        BY <4>1, <4>2, <1>h, <2>a3, <1>m
      <4> QED BY <4>2, <4>3, <1>g
    <3> QED BY <3>1, <3>2
  <2>5. ASSUME NEW q \in M, q # g.pad1 PROVE \E z \in M : g.dsk[z].sig = q
    <3>1. q \in L
      BY <2>5, <2>b, <1>g
    <3>2. CASE q = f.pad1
      BY <3>2, <2>p, <1>m
    <3>3. CASE q # f.pad1
      <4>1. PICK z \in L : f.dsk[z].sig = q
        BY <3>1, <3>3, <2>a5
      <4> QED BY <4>1, <1>m
    <3> QED BY <3>2, <3>3
  <2>6. ASSUME NEW y \in M, NEW z \in M, g.dsk[y].sig = g.dsk[z].sig, g.dsk[y].sig # 0 PROVE y = z
    <3>2. y = p \/ (y \in L /\ g.dsk[y] = f.dsk[y])
      BY <1>m
    <3>3. z = p \/ (z \in L /\ g.dsk[z] = f.dsk[z])
      BY <1>m
    <3> QED BY <2>6, <3>2, <3>3, <2>p, <2>a4, <2>a6
  <2> QED BY <2>1, <2>2, <2>3, <2>4, <2>5, <2>6 DEF LibreEn
<1>11. Disco(g, X \ {p})
  <2>1. Len(g.dsk) = N /\ g.dsk \in Seq(Z \cup {b})
    BY <1>6, <1>g
  <2>2. g = [dsk |-> g.dsk, pad1 |-> g.pad1, kpos |-> g.kpos, vpk |-> g.vpk]
    BY <1>5, <1>g
  <2>3. \A q \in X \ {p} : ~EsLibre(g.dsk[q])
    BY <1>6, <1>9, <1>g
  <2>4. X \ {p} \subseteq 1..Len(g.dsk)
    BY <2>1, <1>9
  <2>5. LibreEn(g, (1..Len(g.dsk)) \ (X \ {p}), h)
    BY <2>1, <1>8 DEF M
  <2> QED BY <2>1, <2>2, <2>3, <2>4, <2>5 DEF Disco
<1>12. \A q \in X \ {p} : g.dsk[q] = f.dsk[q]
  BY <1>6, <1>9, <1>g
<1> QED BY <1>6, <1>g, <1>11, <1>12 DEF Suelto, g

\* A block comes into use.
Tomado(f, g, X, p, b) ==
    /\ p \in Nat \ {0} /\ p \notin X
    /\ Disco(g, X \cup {p}) /\ g.dsk[p] = b /\ \A q \in X : g.dsk[q] = f.dsk[q]
    /\ g.kpos = f.kpos /\ g.vpk = f.vpk

\* The one that frsp finds, once it is written.
LEMMA FrspEs ==
    ASSUME NEW f, NEW X, Disco(f, X), NEW tam, NEW b, ~EsLibre(b)
    PROVE  Tomado(f, Renu(Frsp(f, tam).f, Frsp(f, tam).lug, b), X, Frsp(f, tam).lug, b)
<1> DEFINE N == Len(f.dsk)
           L == (1..N) \ X
           S == Libres(f)
           buenos == {m \in DOMAIN S : S[m] # 0 /\ f.dsk[S[m]].tam = tam}
           n == CHOOSE n \in buenos : \A m \in buenos : n <= m
           r == Frsp(f, tam)
           g == Renu(r.f, r.lug, b)
<1>1. PICK Z : f.dsk \in Seq(Z)
  BY DEF Disco
<1>2. N \in Nat /\ DOMAIN f.dsk = 1..N
  BY <1>1, LenProperties
<1>3. f = [dsk |-> f.dsk, pad1 |-> f.pad1, kpos |-> f.kpos, vpk |-> f.vpk]
  BY DEF Disco
<1>4. PICK k : LibreEn(f, L, k)
  BY DEF Disco
<1>5. X \subseteq 1..N /\ \A q \in X : ~EsLibre(f.dsk[q])
  BY DEF Disco
<1>6. /\ DOMAIN S = 0..N /\ S[0] = f.pad1 /\ S[N] = 0
      /\ Alcanza(S) = L
      /\ \A i \in 0..N-1 : S[i + 1] = IF S[i] = 0 THEN 0 ELSE f.dsk[S[i]].sig
  BY LibresEs
<1>7. r = IF buenos = {} THEN [lug |-> N + 1, f |-> f]
          ELSE [lug |-> S[n], f |-> Saca(f, IF n = 0 THEN 0 ELSE S[n - 1], S[n])]
  BY DEF Frsp, Toma
<1>8. L \subseteq 1..N /\ 0 \notin L /\ \A q \in L : q \notin X
  BY <1>2
<1>s. N = Len(f.dsk) /\ L = (1..N) \ X
  OBVIOUS
<1>g. g = Renu(r.f, r.lug, b)
  OBVIOUS
<1>F. Tomado(f, g, X, r.lug, b) => Tomado(f, Renu(Frsp(f, tam).f, Frsp(f, tam).lug, b), X, Frsp(f, tam).lug, b)
  OBVIOUS
<1> HIDE DEF r, g
<1>9. CASE buenos = {}
  <2> HIDE DEF buenos, n, S, L, N
  <2>1. r.lug = N + 1 /\ r.f = f
    BY <1>7, <1>9
  <2> DEFINE d == Append(f.dsk, b)
  <2>2. g = [f EXCEPT !.dsk = d]
    BY <2>1, <1>g, <1>s DEF Renu
  <2>3. f.dsk \in Seq(Z \cup {b})
    BY <1>1
  <2>4. /\ d \in Seq(Z \cup {b}) /\ Len(d) = N + 1 /\ d[N + 1] = b
        /\ \A q \in 1..N : d[q] = f.dsk[q]
    BY <2>3, <1>s, AppendProperties
  <2> HIDE DEF d
  <2>5. g = [dsk |-> d, pad1 |-> f.pad1, kpos |-> f.kpos, vpk |-> f.vpk]
    BY <1>3, <2>2
  <2>6. g.dsk = d /\ g.pad1 = f.pad1 /\ g.kpos = f.kpos /\ g.vpk = f.vpk
    BY <2>5
  <2>7. (1..N+1) \ (X \cup {N + 1}) = L
    BY <1>s, <1>2, <1>5
  <2>8. \A q \in L : g.dsk[q] = f.dsk[q]
    BY <1>8, <2>4, <2>6
  <2>9. LibreEn(g, L, k)
    <3>1. f.pad1 \in L \cup {0}
      BY <1>4 DEF LibreEn
    <3>2. \A q \in L : f.dsk[q] = Libre(f.dsk[q].sig, f.dsk[q].tam)
      BY <1>4, Zenon DEF LibreEn
    <3>3. \A q \in L : k[q] \in Nat /\ f.dsk[q].sig \in L \cup {0}
      BY <1>4, Zenon DEF LibreEn
    <3>4. \A q \in L : f.dsk[q].sig # 0 => k[q] < k[f.dsk[q].sig] /\ f.dsk[q].sig # f.pad1
      BY <1>4, Zenon DEF LibreEn
    <3>5. \A q \in L : q # f.pad1 => \E z \in L : f.dsk[z].sig = q
      BY <1>4, Zenon DEF LibreEn
    <3>6. \A y, z \in L : f.dsk[y].sig = f.dsk[z].sig /\ f.dsk[y].sig # 0 => y = z
      BY <1>4, Zenon DEF LibreEn
    <3>7. \A q \in L : g.dsk[q] = Libre(g.dsk[q].sig, g.dsk[q].tam)
      BY <2>8, <3>2
    <3> QED BY <2>6, <2>8, <3>1, <3>3, <3>4, <3>5, <3>6, <3>7 DEF LibreEn
  <2>10. Disco(g, X \cup {N + 1})
    <3>1. g = [dsk |-> g.dsk, pad1 |-> g.pad1, kpos |-> g.kpos, vpk |-> g.vpk]
      BY <2>5, <2>6
    <3>2. g.dsk \in Seq(Z \cup {b}) /\ Len(g.dsk) = N + 1
      BY <2>4, <2>6
    <3>3. X \cup {N + 1} \subseteq 1..N+1
      BY <1>2, <1>5
    <3>4. \A q \in X \cup {N + 1} : ~EsLibre(g.dsk[q])
      <4> TAKE q \in X \cup {N + 1}
      <4>1. CASE q = N + 1
        BY <4>1, <2>4, <2>6
      <4>2. CASE q \in X
        <5>1. g.dsk[q] = f.dsk[q]
          BY <4>2, <1>5, <2>4, <2>6
        <5> QED BY <4>2, <5>1, <1>5
      <4> QED BY <4>1, <4>2
    <3>5. LibreEn(g, (1..Len(g.dsk)) \ (X \cup {N + 1}), k)
      BY <3>2, <2>7, <2>9
    <3> QED BY <3>1, <3>2, <3>3, <3>4, <3>5 DEF Disco
  <2>11. N + 1 \notin X /\ N + 1 \in Nat \ {0}
    BY <1>2, <1>5
  <2>12. \A q \in X : g.dsk[q] = f.dsk[q]
    BY <1>5, <2>4, <2>6
  <2>13. Tomado(f, g, X, r.lug, b)
    BY <2>1, <2>4, <2>6, <2>10, <2>11, <2>12 DEF Tomado
  <2> QED BY <2>13, <1>F
<1>10. CASE buenos # {}
  <2> DEFINE y == S[n]
             a == IF n = 0 THEN 0 ELSE S[n - 1]
  <2>1. n \in buenos
    <3>1. buenos \subseteq Nat
      BY <1>6, <1>2
    <3> HIDE DEF buenos
    <3>2. \E i \in buenos : \A m \in buenos : i <= m
      BY <3>1, <1>10, Minimo
    <3> QED BY <3>2
  <2>2. r.lug = y /\ r.f = Saca(f, a, y)
    BY <1>7, <1>10
  <2>3. n \in 0..N /\ y # 0 /\ y \in L
    <3>1. n \in DOMAIN S /\ y # 0
      BY <2>1
    <3> HIDE DEF n, S, L
    <3> QED BY <3>1, <1>6 DEF Alcanza
  <2>y. y = S[n] /\ a = IF n = 0 THEN 0 ELSE S[n - 1]
    OBVIOUS
  <2> HIDE DEF n, S, L, N, buenos, y, a
  <2>4. (a = 0 /\ y = f.pad1) \/ (a \in L /\ a # 0 /\ f.dsk[a].sig = y)
    <3>1. CASE n = 0
      BY <3>1, <2>y, <1>6
    <3>2. CASE n # 0
      <4>1. n - 1 \in 0..N-1 /\ (n - 1) + 1 = n /\ n - 1 \in DOMAIN S
        BY <3>2, <2>3, <1>2, <1>6
      <4>2. S[n - 1] # 0 /\ f.dsk[S[n - 1]].sig = y
        BY <4>1, <1>6, <2>3, <2>y
      <4>3. S[n - 1] \in L
        BY <4>1, <4>2, <1>6 DEF Alcanza
      <4> QED BY <3>2, <4>2, <4>3, <2>y
    <3> QED BY <3>1, <3>2
  <2> DEFINE c == Libre(f.dsk[y].sig, f.dsk[a].tam)
             d0 == IF a = 0 THEN f.dsk ELSE [f.dsk EXCEPT ![a] = c]
             p0 == IF a = 0 THEN f.dsk[y].sig ELSE f.pad1
             d == [d0 EXCEPT ![y] = b]
  <2>a1. f.pad1 \in L \cup {0}
    BY <1>4 DEF LibreEn
  <2>a2. \A q \in L : f.dsk[q] = Libre(f.dsk[q].sig, f.dsk[q].tam)
    BY <1>4, Zenon DEF LibreEn
  <2>a3. \A q \in L : k[q] \in Nat /\ f.dsk[q].sig \in L \cup {0}
    BY <1>4, Zenon DEF LibreEn
  <2>a4. \A q \in L : f.dsk[q].sig # 0 => k[q] < k[f.dsk[q].sig] /\ f.dsk[q].sig # f.pad1
    BY <1>4, Zenon DEF LibreEn
  <2>a5. \A q \in L : q # f.pad1 => \E z \in L : f.dsk[z].sig = q
    BY <1>4, Zenon DEF LibreEn
  <2>a6. \A x, z \in L : f.dsk[x].sig = f.dsk[z].sig /\ f.dsk[x].sig # 0 => x = z
    BY <1>4, Zenon DEF LibreEn
  <2>c. c = Libre(c.sig, c.tam) /\ c.sig = f.dsk[y].sig
    BY DEF Libre
  <2>5. r.f = [dsk |-> d0, pad1 |-> p0, kpos |-> f.kpos, vpk |-> f.vpk]
    <3>1. CASE a = 0
      <4>1. r.f = [f EXCEPT !.pad1 = f.dsk[y].sig]
        BY <2>2, <3>1 DEF Saca
      <4> QED BY <4>1, <3>1, <1>3
    <3>2. CASE a # 0
      <4>1. f.dsk[a] = [sig |-> f.dsk[a].sig, tam |-> f.dsk[a].tam]
        BY <3>2, <2>4, <2>a2 DEF Libre
      <4>2. [f.dsk[a] EXCEPT !.sig = f.dsk[y].sig] = c
        <5> DEFINE e == f.dsk[a]
                   z == f.dsk[y].sig
        <5>1. e = [sig |-> e.sig, tam |-> e.tam]
          BY <4>1
        <5>2. c = [sig |-> z, tam |-> e.tam]
          BY DEF Libre
        <5> HIDE DEF e, z, c
        <5>3. [e EXCEPT !.sig = z] = c
          BY <5>1, <5>2
        <5> QED BY <5>3 DEF e, z
      <4>3. r.f = [f EXCEPT !.dsk = [f.dsk EXCEPT ![a] = c]]
        BY <2>2, <3>2, <4>2 DEF Saca
      <4> HIDE DEF c
      <4> QED BY <4>3, <3>2, <1>3
    <3> QED BY <3>1, <3>2
  <2> HIDE DEF c
  <2>6. y \in 1..N /\ (a # 0 => a \in 1..N /\ a # y)
    <3>1. a # 0 => a # y
      <4> SUFFICES ASSUME a # 0, a = y PROVE FALSE
        OBVIOUS
      <4>1. a \in L /\ f.dsk[a].sig = a /\ k[a] \in Nat
        BY <2>4, <2>a3
      <4>2. k[a] < k[a]
        BY <4>1, <2>a4, <1>8
      <4> QED BY <4>1, <4>2
    <3> QED BY <3>1, <2>3, <2>4, <1>8
  <2>7. /\ d0 \in Seq(Z \cup {b, c}) /\ Len(d0) = N
        /\ \A q \in 1..N : d0[q] = IF a # 0 /\ q = a THEN c ELSE f.dsk[q]
    <3>1. f.dsk \in Seq(Z \cup {b, c}) /\ Len(f.dsk) = N
      BY <1>1, <1>s
    <3>2. CASE a = 0
      BY <3>1, <3>2
    <3>3. CASE a # 0
      BY <3>1, <3>3, <2>6
    <3> QED BY <3>2, <3>3
  <2> HIDE DEF d0
  <2>8. /\ d \in Seq(Z \cup {b, c}) /\ Len(d) = N /\ d[y] = b
        /\ \A q \in 1..N : q # y => d[q] = d0[q]
    BY <2>6, <2>7
  <2> HIDE DEF p0
  <2>9. g = [dsk |-> d, pad1 |-> p0, kpos |-> f.kpos, vpk |-> f.vpk]
    <3>1. r.f.dsk = d0 /\ y # N + 1
      BY <2>5, <2>6, <1>2
    <3>2. g = [r.f EXCEPT !.dsk = d]
      BY <3>1, <1>g, <2>2, <2>7 DEF Renu
    <3> HIDE DEF d
    <3> QED BY <3>2, <2>5
  <2> HIDE DEF d
  <2>10. g.dsk = d /\ g.pad1 = p0 /\ g.kpos = f.kpos /\ g.vpk = f.vpk
    BY <2>9
  <2> DEFINE M == L \ {y}
  <2>11. \A q \in M : g.dsk[q] = IF a # 0 /\ q = a THEN c ELSE f.dsk[q]
    BY <1>8, <2>7, <2>8, <2>10
  <2>p. p0 = IF a = 0 THEN f.dsk[y].sig ELSE f.pad1
    BY DEF p0
  <2>z. y \notin M /\ 0 \notin M /\ \A q : q \in M <=> q \in L /\ q # y
    BY <1>8
  <2> HIDE DEF M
  <2>s. f.dsk[y].sig \in M \cup {0}
    <3>1. f.dsk[y].sig # y
      <4> SUFFICES ASSUME f.dsk[y].sig = y PROVE FALSE
        OBVIOUS
      <4>1. k[y] < k[y] /\ k[y] \in Nat
        BY <2>3, <2>a3, <2>a4
      <4> QED BY <4>1
    <3> QED BY <3>1, <2>3, <2>a3, <2>z
  <2>t. \A q \in M : f.dsk[q].sig # 0 /\ f.dsk[q].sig = y => a # 0 /\ q = a
    <3> TAKE q \in M
    <3> SUFFICES ASSUME f.dsk[q].sig # 0, f.dsk[q].sig = y PROVE a # 0 /\ q = a
      OBVIOUS
    <3>1. q \in L
      BY <2>z
    <3>2. y # f.pad1
      BY <3>1, <2>a4
    <3>3. a \in L /\ a # 0 /\ f.dsk[a].sig = y
      BY <3>2, <2>4
    <3> QED BY <3>1, <3>3, <2>a6
  <2>12. LibreEn(g, M, k)
    <3>1. g.pad1 \in M \cup {0}
      <4>1. CASE a = 0
        BY <4>1, <2>s, <2>p, <2>10
      <4>2. CASE a # 0
        <5>1. f.pad1 # y
          BY <4>2, <2>4, <2>a4, <2>3
        <5> QED BY <4>2, <5>1, <2>p, <2>10, <2>a1, <2>z
      <4> QED BY <4>1, <4>2
    <3>2. \A q \in M : g.dsk[q] = Libre(g.dsk[q].sig, g.dsk[q].tam)
      BY <2>11, <2>a2, <2>c, <2>z
    <3>3. ASSUME NEW q \in M PROVE k[q] \in Nat /\ g.dsk[q].sig \in M \cup {0}
      <4>1. q \in L
        BY <2>z
      <4>2. CASE a # 0 /\ q = a
        BY <4>1, <4>2, <2>11, <2>c, <2>s, <2>a3
      <4>3. CASE ~(a # 0 /\ q = a)
        <5>1. g.dsk[q].sig = f.dsk[q].sig
          BY <4>3, <2>11
        <5>2. f.dsk[q].sig # y
          BY <4>3, <2>t, <2>3, <1>8
        <5> QED BY <4>1, <5>1, <5>2, <2>a3, <2>z
      <4> QED BY <4>2, <4>3
    <3>4. ASSUME NEW q \in M, g.dsk[q].sig # 0
          PROVE  k[q] < k[g.dsk[q].sig] /\ g.dsk[q].sig # g.pad1
      <4>1. q \in L /\ q # y
        BY <2>z
      <4>2. CASE a # 0 /\ q = a
        <5>1. g.dsk[q].sig = f.dsk[y].sig
          BY <4>2, <2>11, <2>c
        <5>2. k[y] < k[f.dsk[y].sig] /\ f.dsk[y].sig # f.pad1
          BY <5>1, <3>4, <2>3, <2>a4
        <5>3. k[q] < k[y]
          BY <4>2, <2>4, <2>3, <2>a4, <1>8
        <5>4. k[q] \in Nat /\ k[y] \in Nat /\ k[f.dsk[y].sig] \in Nat
          BY <4>1, <2>3, <2>a3, <5>1, <3>4
        <5> QED BY <5>1, <5>2, <5>3, <5>4, <4>2, <2>p, <2>10
      <4>3. CASE ~(a # 0 /\ q = a)
        <5>1. g.dsk[q].sig = f.dsk[q].sig
          BY <4>3, <2>11
        <5>2. k[q] < k[f.dsk[q].sig] /\ f.dsk[q].sig # f.pad1
          BY <4>1, <5>1, <3>4, <2>a4
        <5>3. f.dsk[q].sig # f.dsk[y].sig
          BY <4>1, <5>1, <3>4, <2>3, <2>a6
        <5> QED BY <5>1, <5>2, <5>3, <2>p, <2>10
      <4> QED BY <4>2, <4>3
    <3>5. ASSUME NEW q \in M, q # g.pad1 PROVE \E z \in M : g.dsk[z].sig = q
      <4>0. q \in L /\ q # y /\ q # 0
        BY <2>z
      <4>1. q # f.pad1
        <5>1. CASE a = 0
          BY <5>1, <4>0, <2>4
        <5>2. CASE a # 0
          BY <5>2, <3>5, <2>p, <2>10
        <5> QED BY <5>1, <5>2
      <4>2. PICK z \in L : f.dsk[z].sig = q
        BY <4>0, <4>1, <2>a5
      <4>3. CASE z = y
        <5>1. a # 0
          BY <4>2, <4>3, <3>5, <2>p, <2>10
        <5>2. a \in M /\ g.dsk[a].sig = q
          BY <5>1, <4>2, <4>3, <2>4, <2>6, <2>z, <2>11, <2>c
        <5> QED BY <5>2
      <4>4. CASE z # y
        <5>1. z \in M /\ ~(a # 0 /\ z = a)
          BY <4>0, <4>2, <4>4, <2>4, <2>z
        <5> QED BY <5>1, <4>2, <2>11
      <4> QED BY <4>3, <4>4
    <3>6. ASSUME NEW x \in M, NEW z \in M, g.dsk[x].sig = g.dsk[z].sig, g.dsk[x].sig # 0 PROVE x = z
      <4>1. x \in L /\ z \in L /\ x # y /\ z # y
        BY <2>z
      <4>2. g.dsk[x].sig = IF a # 0 /\ x = a THEN f.dsk[y].sig ELSE f.dsk[x].sig
        BY <2>11, <2>c
      <4>3. g.dsk[z].sig = IF a # 0 /\ z = a THEN f.dsk[y].sig ELSE f.dsk[z].sig
        BY <2>11, <2>c
      <4> QED BY <3>6, <4>1, <4>2, <4>3, <2>3, <2>a6
    <3> QED BY <3>1, <3>2, <3>3, <3>4, <3>5, <3>6 DEF LibreEn
  <2>13. Disco(g, X \cup {y})
    <3>1. g = [dsk |-> g.dsk, pad1 |-> g.pad1, kpos |-> g.kpos, vpk |-> g.vpk]
      BY <2>9, <2>10
    <3>2. g.dsk \in Seq(Z \cup {b, c}) /\ Len(g.dsk) = N
      BY <2>8, <2>10
    <3>3. X \cup {y} \subseteq 1..N
      BY <1>5, <2>6
    <3>4. \A q \in X \cup {y} : ~EsLibre(g.dsk[q])
      <4> TAKE q \in X \cup {y}
      <4>1. CASE q = y
        BY <4>1, <2>8, <2>10
      <4>2. CASE q # y
        <5>1. q \in X /\ q \in 1..N /\ q \notin L
          BY <4>2, <1>5, <1>s
        <5>2. g.dsk[q] = f.dsk[q]
          BY <5>1, <4>2, <2>4, <2>7, <2>8, <2>10
        <5> QED BY <5>1, <5>2, <1>5
      <4> QED BY <4>1, <4>2
    <3>5. (1..Len(g.dsk)) \ (X \cup {y}) = M
      BY <3>2, <1>s DEF M
    <3> QED BY <3>1, <3>2, <3>3, <3>4, <3>5, <2>12 DEF Disco
  <2>14. y \notin X /\ y \in Nat \ {0}
    BY <2>3, <1>8, <1>2
  <2>15. ASSUME NEW q \in X PROVE g.dsk[q] = f.dsk[q]
    <3>1. q \in 1..N /\ q \notin L /\ q # y
      BY <1>5, <1>s, <2>14
    <3> QED BY <3>1, <2>4, <2>7, <2>8, <2>10
  <2>16. Tomado(f, g, X, r.lug, b)
    BY <2>2, <2>8, <2>10, <2>13, <2>14, <2>15 DEF Tomado
  <2> QED BY <2>16, <1>F
<1> QED BY <1>9, <1>10

-----------------------------------------------------------------------------
(* Search *)

\* How full the clusters of a tree are.
Buena(D, G, q) == /\ Len(D[q].ll) <= TK
                  /\ q # G.r => Len(D[q].ll) >= 2
                  /\ G.h[q] # 0 => Len(D[q].ll) >= 1
Llena(D, G) == \A q \in G.C : Buena(D, G, q)

\* Where the search for a key leaves a cluster.
LEMMA MenoresEs ==
    ASSUME NEW G, NEW c, NEW l, NEW q, Sabido(G, c, l, q), NEW key \in Nat
    PROVE  LET i == Menores(c, key)
           IN  /\ i \in 0..l
               /\ \A j \in 1..i : c.ll[j].k < key
               /\ \A j \in i+1..l : key <= c.ll[j].k
               /\ Halla(c, key) <=> i < l /\ c.ll[i + 1].k = key
               /\ \A j \in 1..l : c.ll[j].k = key => j = i + 1 /\ Halla(c, key)
<1> DEFINE i == Menores(c, key)
<1>1. /\ l = Len(c.ll) /\ l \in Nat /\ \A j \in 1..l : c.ll[j].k \in Nat
      /\ \A m, n \in 1..l : m < n => c.ll[m].k < c.ll[n].k
  BY DEF Sabido
<1>2. i = CHOOSE n \in 0..Len(c.ll) : Para(c, key, n)
  BY DEF Menores
<1>3. \E n \in 0..Len(c.ll) : Para(c, key, n)
  <2> DEFINE Z == {j \in 0..l : j < l => key <= c.ll[j + 1].k}
  <2>1. Z \subseteq Nat /\ l \in Z
    BY <1>1
  <2>2. PICK z \in Z : \A y \in Z : z <= y
    <3> HIDE DEF Z
    <3> QED BY <2>1, Minimo
  <2>3. z \in 0..l /\ (z < l => key <= c.ll[z + 1].k)
    BY <2>2
  <2>4. ASSUME NEW j \in 1..z PROVE c.ll[j].k < key
    <3>1. j - 1 \in 0..l /\ j - 1 < l /\ ~(z <= j - 1) /\ (j - 1) + 1 = j /\ j \in 1..l
      BY <2>3, <1>1
    <3>2. j - 1 \notin Z
      BY <3>1, <2>2
    <3>3. ~(key <= c.ll[j].k)
      BY <3>1, <3>2
    <3> QED BY <3>1, <3>3, <1>1
  <2> QED BY <2>3, <2>4, <1>1 DEF Para
<1> HIDE DEF i
<1>4. /\ i \in 0..l
      /\ \A j \in 1..i : c.ll[j].k < key
      /\ i < l => key <= c.ll[i + 1].k
  <2>1. i \in 0..Len(c.ll) /\ Para(c, key, i)
    BY <1>2, <1>3, Zenon
  <2> QED BY <2>1, <1>1 DEF Para
<1>5. \A j \in i+1..l : key <= c.ll[j].k
  <2> TAKE j \in i+1..l
  <2>1. i < l /\ i + 1 \in 1..l /\ j \in 1..l /\ (j = i + 1 \/ i + 1 < j)
    BY <1>1, <1>4
  <2>2. c.ll[i + 1].k <= c.ll[j].k
    BY <2>1, <1>1
  <2> QED BY <2>1, <2>2, <1>1, <1>4
<1>6. Halla(c, key) <=> i < l /\ c.ll[i + 1].k = key
  BY <1>1 DEF Halla, i
<1>7. ASSUME NEW j \in 1..l, c.ll[j].k = key PROVE j = i + 1 /\ Halla(c, key)
  <2>1. ~(j \in 1..i)
    BY <1>4, <1>7
  <2>2. i < l /\ i + 1 \in 1..l /\ (j = i + 1 \/ i + 1 < j) /\ i + 1 \in i+1..l
    BY <2>1, <1>1, <1>4
  <2>3. key <= c.ll[i + 1].k
    BY <2>2, <1>5
  <2>4. j = i + 1
    <3> SUFFICES ASSUME i + 1 < j PROVE FALSE
      BY <2>2
    <3>1. c.ll[i + 1].k < c.ll[j].k
      BY <2>2, <1>1
    <3> QED BY <3>1, <2>2, <2>3, <1>1, <1>7
  <2> QED BY <2>2, <2>4, <1>6, <1>7
<1> QED BY <1>4, <1>5, <1>6, <1>7 DEF i

\* The clusters of a tree are more than its height.
LEMMA Altura ==
    ASSUME NEW D, NEW G, NEW N \in Nat, Arbol(D, G), G.C \subseteq 1..N
    PROVE  G.h[G.r] < N
<1> DEFINE R == G.h[G.r]
           E == {d \in 0..R : \E q \in G.C : G.h[q] = R - d}
<1>1. /\ R \in Nat /\ G.r \in G.C /\ \A q \in G.C : G.h[q] \in Nat
  <2>1. Puntos(D, G)
    BY DePuntos
  <2> QED BY <2>1 DEF Puntos
<1>2. 0 \in E
  BY <1>1
<1>3. ASSUME NEW d \in 0..R-1, d \in E PROVE d + 1 \in E
  <2>1. PICK q \in G.C : G.h[q] = R - d
    BY <1>3
  <2>2. G.h[q] # 0 /\ d + 1 \in 0..R
    BY <2>1, <1>1
  <2>3. Nodo(G, D[q], q)
    BY DEF Arbol
  <2>4. 0 \in 0..Len(D[q].ll)
    <3>1. D[q].ll \in Seq(Casillas)
      BY <2>3 DEF Nodo, EsKlug
    <3> QED BY <3>1, LenProperties
  <2>5. Cotas(G, D[q], q, 0)
    BY <2>2, <2>3, <2>4 DEF Nodo
  <2>6. Hijo(D[q], 0) \in G.C /\ G.h[Hijo(D[q], 0)] = G.h[q] - 1
    BY <2>5 DEF Cotas
  <2> QED BY <2>1, <2>2, <2>6, <1>1
<1>4. \A d \in 0..R : d \in E
  <2> HIDE DEF E, R
  <2> QED BY <1>1, <1>2, <1>3, Hasta
<1>5. SUFFICES ASSUME N <= R PROVE FALSE
  BY <1>1
<1> DEFINE A == 0..R
           e == [d \in A |-> CHOOSE q \in G.C : G.h[q] = R - d]
<1>6. \A d \in A : e[d] \in G.C /\ G.h[e[d]] = R - d
  <2> TAKE d \in A
  <2>1. \E q \in G.C : G.h[q] = R - d
    BY <1>4
  <2> QED BY <2>1
<1>7. e \in [A -> 1..N]
  BY <1>6
<1>8. IsFiniteSet(A) /\ Cardinality(A) = R + 1
  <2>0. R \in Int /\ 0 \in Int
    BY <1>1
  <2> HIDE DEF R
  <2>1. IsFiniteSet(0..R) /\ Cardinality(0..R) = IF 0 > R THEN 0 ELSE R - 0 + 1
    BY <2>0, FS_Interval
  <2> QED BY <2>1, <1>1
<1>9. IsFiniteSet(1..N) /\ Cardinality(1..N) = N
  <2>1. IsFiniteSet(1..N) /\ Cardinality(1..N) = IF 1 > N THEN 0 ELSE N - 1 + 1
    BY FS_Interval
  <2> QED BY <2>1
<1>f. \A d \in A : d \in Nat
  BY <1>1
<1>10. Cardinality(1..N) < Cardinality(A)
  BY <1>1, <1>5, <1>8, <1>9
<1> DEFINE B == 1..N
<1>b. IsFiniteSet(B) /\ Cardinality(B) < Cardinality(A) /\ e \in [A -> B] /\ IsFiniteSet(A)
  BY <1>7, <1>8, <1>9, <1>10
<1> HIDE DEF A, e, B, R
<1>11. PICK x, y \in A : x # y /\ e[x] = e[y]
  BY <1>b, FS_PigeonHole
<1>12. R - x = R - y /\ x \in Nat /\ y \in Nat
  BY <1>6, <1>11, <1>f
<1> QED BY <1>1, <1>11, <1>12

\* A way down from the root, and the slots it takes.
Ruta(D, G, cl, k1) ==
    /\ cl \in Seq(G.C) /\ Len(cl) \in Nat \ {0} /\ cl[1] = G.r
    /\ k1 \in Seq(Nat) /\ Len(k1) = Len(cl)
    /\ \A j \in 1..Len(cl) : cl[j] \in G.C /\ G.h[cl[j]] = G.h[G.r] - j + 1
    /\ \A j \in 1..Len(cl) : k1[j] \in 1..Len(D[cl[j]].ll)+1
    /\ \A j \in 1..Len(cl)-1 : Hijo(D[cl[j]], k1[j] - 1) = cl[j + 1]

\* Where the blocks of a file hold the tree G of key i.
Raiz(f, X, i, G) ==
    /\ Disco(f, X) /\ Arbol(f.dsk, G) /\ G.C \subseteq X /\ G.r = f.kpos[i]

\* What busca answers.
Hallado(f, G, b, key) ==
    LET D == f.dsk
        z == Last(b.clusan)
    IN  /\ Ruta(D, G, b.clusan, b.k1) /\ z = b.clusan[Len(b.clusan)] /\ z \in G.C
        /\ \A j \in 1..Len(b.clusan) : /\ Dentro(G, b.clusan[j], key)
                                       /\ b.k1[j] = Menores(D[b.clusan[j]], key) + 1
        /\ IF key \in DOMAIN G.N
           THEN /\ b.rec = G.N[key] /\ z = G.W[key]
                /\ b.k2 \in 1..Len(D[z].ll) /\ D[z].ll[b.k2].k = key
                /\ b.k2 = b.k1[Len(b.clusan)]
           ELSE /\ b.rec = -1 /\ G.h[z] = 0
                /\ b.menor = IF Menores(D[z], key) = 0 THEN 0 ELSE D[z].ll[Menores(D[z], key)].nm
                /\ b.mayor = MayorDe(D[z], Menores(D[z], key))

\* busca finds every key of the tree, and the leaf of every other.
LEMMA BuscaEs ==
    ASSUME NEW f, NEW X, NEW i, NEW G, NEW key \in Nat, Raiz(f, X, i, G), Llena(f.dsk, G)
    PROVE  Hallado(f, G, Busca(f, i, key), key)
<1> DEFINE D == f.dsk
           N == Len(D)
           sig == Baja(f, key)
           T == {q \in G.C : Dentro(G, q, key)}
           cl == Huella(G.r, sig, N)
           n == Len(cl)
           z == cl[n]
           b == Busca(f, i, key)
<1>1. /\ Disco(f, X) /\ Arbol(D, G) /\ G.C \subseteq X /\ G.r = f.kpos[i]
  BY DEF Raiz
<1>2. PICK Z : D \in Seq(Z)
  BY <1>1 DEF Disco
<1>3. N \in Nat /\ DOMAIN D = 1..N /\ G.C \subseteq 1..N
  <2>1. X \subseteq 1..N
    BY <1>1 DEF Disco
  <2> HIDE DEF D
  <2> QED BY <1>1, <1>2, <2>1, LenProperties
<1>p. Puntos(D, G)
  BY <1>1, DePuntos
<1>4. /\ 0 \notin G.C /\ G.r \in G.C /\ G.lo[G.r] = -1 /\ G.hi[G.r] = -1
      /\ \A q \in G.C : G.h[q] \in Nat
  BY <1>p DEF Puntos
<1>5. 0 \notin T /\ G.r \in T
  BY <1>4 DEF Dentro, Bajo0
<1>6. G.h[G.r] < N
  <2> HIDE DEF D, N
  <2> QED BY <1>1, <1>3, Altura
<1>7. \A q \in G.C : sig[q] = IF Halla(D[q], key) \/ Len(D[q].ll) = 0 THEN 0
                              ELSE Hijo(D[q], Menores(D[q], key))
  BY <1>3 DEF Baja
<1>D. D = f.dsk
  OBVIOUS
<1> HIDE DEF D, N, sig

\* A cluster of the search.
<1>8. ASSUME NEW q \in T
      PROVE  /\ G.h[q] \in Nat
             /\ sig[q] = 0 \/ (sig[q] \in T /\ G.h[sig[q]] = G.h[q] - 1)
             /\ sig[q] = 0 /\ ~Halla(D[q], key) => G.h[q] = 0
  <2> DEFINE c == D[q]
             l == Len(c.ll)
             j == Menores(c, key)
  <2>0. q \in G.C /\ Dentro(G, q, key)
    OBVIOUS
  <2>1. Sabido(G, c, l, q)
    BY <1>1, <2>0, DeNodo
  <2>2. /\ j \in 0..l
        /\ \A m \in 1..j : c.ll[m].k < key
        /\ \A m \in j+1..l : key <= c.ll[m].k
        /\ Halla(c, key) <=> j < l /\ c.ll[j + 1].k = key
    <3> HIDE DEF c, l
    <3> QED BY <2>1, MenoresEs
  <2>3. sig[q] = IF Halla(c, key) \/ l = 0 THEN 0 ELSE Hijo(c, j)
    BY <1>7
  <2>4. G.h[q] # 0 => l >= 1
    BY <1>D DEF Llena, Buena
  <2> HIDE DEF c, l, j
  <2>5. G.h[q] = 0 => \A m \in 0..l : Hijo(c, m) = 0
    BY <2>1 DEF Sabido
  <2>6. CASE G.h[q] = 0
    BY <2>6, <2>2, <2>3, <2>5, <1>4, <2>0 DEF c
  <2>7. CASE G.h[q] # 0 /\ Halla(c, key)
    BY <2>7, <2>3, <1>4, <2>0 DEF c
  <2>8. CASE G.h[q] # 0 /\ ~Halla(c, key)
    <3>1. sig[q] = Hijo(c, j) /\ l # 0 /\ l \in Nat /\ l = Len(c.ll)
      BY <2>1, <2>3, <2>4, <2>8 DEF Sabido
    <3>2. Cotas(G, c, q, j)
      BY <2>1, <2>2, <2>8 DEF Sabido
    <3> DEFINE x == Hijo(c, j)
    <3>3. /\ x \in G.C /\ G.h[x] = G.h[q] - 1
          /\ G.lo[x] = IF j = 0 THEN G.lo[q] ELSE c.ll[j].k
          /\ G.hi[x] = IF j = l THEN G.hi[q] ELSE c.ll[j + 1].k
      BY <3>1, <3>2 DEF Cotas
    <3> HIDE DEF x
    <3>4. G.lo[q] < key /\ (G.hi[q] = -1 \/ key < G.hi[q])
      BY <2>0 DEF Dentro, Bajo0
    <3>5. G.lo[x] < key
      <4>1. j # 0 => j \in 1..j
        BY <2>2, <3>1
      <4> QED BY <4>1, <3>3, <3>4, <2>2
    <3>6. G.hi[x] = -1 \/ key < G.hi[x]
      <4>1. CASE j = l
        BY <4>1, <3>3, <3>4
      <4>2. CASE j # l
        <5>1. j + 1 \in j+1..l /\ j < l /\ j + 1 \in 1..l
          BY <4>2, <2>2, <3>1
        <5>2. key <= c.ll[j + 1].k /\ c.ll[j + 1].k # key /\ c.ll[j + 1].k \in Nat
          BY <5>1, <2>2, <2>8, <2>1 DEF Sabido
        <5> QED BY <5>2, <4>2, <3>3
      <4> QED BY <4>1, <4>2
    <3>7. x \in T
      BY <3>3, <3>5, <3>6 DEF Dentro, Bajo0
    <3>8. sig[q] = x /\ x # 0
      BY <3>1, <3>3, <1>4 DEF x
    <3> QED BY <3>3, <3>7, <3>8, <2>0, <2>8, <1>4
  <2> QED BY <2>6, <2>7, <2>8
<1>9. /\ cl \in Seq(T) /\ n \in 1..N /\ cl[1] = G.r
      /\ \A j \in 1..n : cl[j] \in T /\ G.h[cl[j]] = G.h[G.r] - j + 1
      /\ \A j \in 1..n-1 : sig[cl[j]] = cl[j + 1]
      /\ sig[cl[n]] = 0
  <2>1. \A y \in T : G.h[y] \in Nat /\ (sig[y] = 0 \/ (sig[y] \in T /\ G.h[sig[y]] = G.h[y] - 1))
    BY <1>8
  <2> DEFINE g == G.h
             x == G.r
  <2>2. N \in Nat /\ 0 \notin T /\ x \in T /\ g[x] < N
        /\ \A y \in T : g[y] \in Nat /\ (sig[y] = 0 \/ (sig[y] \in T /\ g[sig[y]] = g[y] - 1))
    BY <2>1, <1>3, <1>5, <1>6
  <2> HIDE DEF T, g, x
  <2>3. LET H == Huella(x, sig, N)
        IN  /\ H \in Seq(T) /\ Len(H) \in 1..N /\ H[1] = x
            /\ \A j \in 1..Len(H) : H[j] \in T /\ g[H[j]] = g[x] - j + 1
            /\ \A j \in 1..Len(H)-1 : sig[H[j]] = H[j + 1]
            /\ sig[H[Len(H)]] = 0
    BY <2>2, HuellaEs
  <2> QED BY <2>3 DEF g, x
<1>10. b.clusan = cl /\ b.k1 = [j \in DOMAIN cl |-> Menores(D[cl[j]], key) + 1] /\ Last(cl) = z
  BY <1>1 DEF Busca, Llega, D, N, sig, Last
<1>11. /\ Halla(D[z], key) => /\ b.rec = D[z].ll[Menores(D[z], key) + 1].nm
                              /\ b.k2 = Menores(D[z], key) + 1
       /\ ~Halla(D[z], key) => /\ b.rec = -1
                               /\ b.menor = IF Menores(D[z], key) = 0 THEN 0
                                            ELSE D[z].ll[Menores(D[z], key)].nm
                               /\ b.mayor = MayorDe(D[z], Menores(D[z], key))
  <2>1. Last(Huella(f.kpos[i], Baja(f, key), Len(f.dsk))) = z
    BY <1>10, <1>1 DEF D, N, sig
  <2> HIDE DEF z
  <2>2. CASE Halla(D[z], key)
    BY <2>1, <2>2 DEF Busca, Llega, D
  <2>3. CASE ~Halla(D[z], key)
    BY <2>1, <2>3 DEF Busca, Llega, D
  <2> QED BY <2>2, <2>3
<1>c. cl = Huella(G.r, sig, N) /\ n = Len(cl) /\ z = cl[n]
  OBVIOUS
<1> HIDE DEF cl, n, z, b, T
<1>12. /\ \A j \in 1..n : cl[j] \in G.C /\ Dentro(G, cl[j], key)
       /\ cl \in Seq(G.C) /\ n \in Nat \ {0} /\ n \in 1..n /\ DOMAIN cl = 1..n
  <2>1. \A j \in 1..n : cl[j] \in G.C /\ Dentro(G, cl[j], key)
    BY <1>9 DEF T
  <2>2. n \in Nat \ {0} /\ n \in 1..n
    BY <1>9, <1>3
  <2>3. cl \in [1..n -> T]
    BY <1>9, <1>c, LenProperties
  <2>4. cl \in [1..n -> G.C]
    BY <2>1, <2>3
  <2> QED BY <2>1, <2>2, <2>3, <2>4, <1>c
<1>13. ASSUME NEW j \in 1..n
       PROVE  /\ Menores(D[cl[j]], key) \in 0..Len(D[cl[j]].ll) /\ Len(D[cl[j]].ll) \in Nat
  <2> DEFINE q == cl[j]
             l == Len(D[q].ll)
  <2>1. Sabido(G, D[q], l, q)
    BY <1>1, <1>12, DeNodo
  <2>2. l \in Nat
    BY <2>1 DEF Sabido
  <2> HIDE DEF q, l
  <2>3. Menores(D[q], key) \in 0..l
    BY <2>1, MenoresEs
  <2> QED BY <2>2, <2>3 DEF q, l
<1>14. b.k1 \in Seq(Nat) /\ Len(b.k1) = n /\ \A j \in 1..n : b.k1[j] = Menores(D[cl[j]], key) + 1
  <2>1. b.k1 = [j \in 1..n |-> Menores(D[cl[j]], key) + 1]
    BY <1>10, <1>12
  <2>2. \A j \in 1..n : Menores(D[cl[j]], key) + 1 \in Nat
    BY <1>13
  <2>3. b.k1 \in [1..n -> Nat]
    BY <2>1, <2>2
  <2> QED BY <2>1, <2>3, <1>12
<1>15. ASSUME NEW j \in 1..n-1
       PROVE  Hijo(D[cl[j]], b.k1[j] - 1) = cl[j + 1]
  <2>1. j \in 1..n /\ j + 1 \in 1..n
    BY <1>12
  <2>2. sig[cl[j]] = cl[j + 1] /\ cl[j + 1] # 0 /\ cl[j] \in G.C
    BY <2>1, <1>9, <1>12, <1>4
  <2>3. sig[cl[j]] = Hijo(D[cl[j]], Menores(D[cl[j]], key))
    BY <2>2, <1>7
  <2>4. b.k1[j] - 1 = Menores(D[cl[j]], key)
    <3> DEFINE M == Menores(D[cl[j]], key)
    <3>1. M \in Nat
      BY <2>1, <1>13
    <3>2. b.k1[j] = M + 1
      BY <2>1, <1>14
    <3> HIDE DEF M
    <3>3. b.k1[j] - 1 = M
      BY <3>1, <3>2
    <3> QED BY <3>3 DEF M
  <2> QED BY <2>2, <2>3, <2>4
<1>r. ASSUME NEW j \in 1..n PROVE b.k1[j] \in 1..Len(D[cl[j]].ll)+1
  <2> DEFINE M == Menores(D[cl[j]], key)
             L == Len(D[cl[j]].ll)
  <2>1. M \in 0..L /\ L \in Nat /\ b.k1[j] = M + 1
    BY <1>13, <1>14
  <2> HIDE DEF M, L
  <2>2. b.k1[j] \in 1..L+1
    BY <2>1
  <2> QED BY <2>2 DEF L
<1>16. Ruta(D, G, b.clusan, b.k1)
  BY <1>9, <1>10, <1>12, <1>14, <1>15, <1>r, <1>c, ZenonT(40) DEF Ruta
<1>17. z \in G.C /\ z \in T /\ Dentro(G, z, key) /\ sig[z] = 0
  BY <1>9, <1>12, <1>c
<1>18. CASE key \in DOMAIN G.N
  <2>1. Halla(D[z], key)
    <3> SUFFICES ASSUME ~Halla(D[z], key) PROVE FALSE
      OBVIOUS
    <3>1. G.h[z] = 0
      BY <1>8, <1>17
    <3>2. Nodo(G, D[z], z)
      BY <1>1, <1>17 DEF Arbol
    <3>3. G.W[key] = z
      BY <1>17, <1>18, <3>1, <3>2 DEF Nodo
    <3>4. \E j \in 1..Len(D[z].ll) : D[z].ll[j].k = key
      BY <3>3, <1>18, <1>p DEF Puntos
    <3>5. Sabido(G, D[z], Len(D[z].ll), z)
      BY <1>1, <1>17, DeNodo
    <3>6. Halla(D[z], key)
      <4> DEFINE l == Len(D[z].ll)
      <4>1. PICK j \in 1..l : D[z].ll[j].k = key
        BY <3>4
      <4>2. Sabido(G, D[z], l, z)
        BY <3>5
      <4> HIDE DEF l
      <4> QED BY <4>1, <4>2, MenoresEs
    <3> QED BY <3>6
  <2> DEFINE l == Len(D[z].ll)
             j == Menores(D[z], key)
  <2>2. Sabido(G, D[z], l, z)
    BY <1>1, <1>17, DeNodo
  <2>l. l = Len(D[z].ll) /\ j = Menores(D[z], key)
    OBVIOUS
  <2> HIDE DEF l
  <2>3. j \in 0..l /\ j < l /\ D[z].ll[j + 1].k = key
    BY <2>1, <2>2, MenoresEs
  <2> HIDE DEF j
  <2>4. /\ l \in Nat /\ j + 1 \in 1..l
        /\ G.N[D[z].ll[j + 1].k] = D[z].ll[j + 1].nm /\ G.W[D[z].ll[j + 1].k] = z
    <3>1. l \in Nat /\ \A m \in 1..l : G.N[D[z].ll[m].k] = D[z].ll[m].nm /\ G.W[D[z].ll[m].k] = z
      BY <2>2 DEF Sabido
    <3>2. j + 1 \in 1..l
      BY <3>1, <2>3
    <3> QED BY <3>1, <3>2
  <2>5. b.rec = D[z].ll[j + 1].nm /\ b.k2 = j + 1
    BY <1>11, <2>1, <2>l
  <2>6. b.k2 = b.k1[n]
    BY <2>5, <2>l, <1>12, <1>14, <1>c
  <2>7. b.rec = G.N[key] /\ z = G.W[key] /\ b.k2 \in 1..Len(D[z].ll) /\ D[z].ll[b.k2].k = key
    BY <2>3, <2>4, <2>5, <2>l
  <2>8. \A m \in 1..Len(b.clusan) : Dentro(G, b.clusan[m], key) /\ b.k1[m] = Menores(D[b.clusan[m]], key) + 1
    BY <1>10, <1>12, <1>14, <1>c
  <2>9. Last(b.clusan) = z /\ b.clusan[Len(b.clusan)] = z /\ Len(b.clusan) = n
    BY <1>10, <1>c
  <2> HIDE DEF b
  <2> QED BY <1>16, <1>17, <1>18, <2>6, <2>7, <2>8, <2>9, <1>D DEF Hallado, b
<1>19. CASE key \notin DOMAIN G.N
  <2> DEFINE l == Len(D[z].ll)
  <2>2. Sabido(G, D[z], l, z)
    BY <1>1, <1>17, DeNodo
  <2>1. ~Halla(D[z], key)
    <3> SUFFICES ASSUME Halla(D[z], key) PROVE FALSE
      OBVIOUS
    <3> HIDE DEF l
    <3>1. Menores(D[z], key) \in 0..l /\ Menores(D[z], key) < l /\ D[z].ll[Menores(D[z], key) + 1].k = key
      BY <2>2, MenoresEs
    <3>2. l \in Nat /\ \A m \in 1..l : D[z].ll[m].k \in DOMAIN G.N
      BY <2>2 DEF Sabido
    <3>3. Menores(D[z], key) + 1 \in 1..l
      BY <3>1, <3>2
    <3> QED BY <3>1, <3>2, <3>3, <1>19
  <2>3. G.h[z] = 0
    BY <2>1, <1>8, <1>17
  <2>8. \A m \in 1..Len(b.clusan) : Dentro(G, b.clusan[m], key) /\ b.k1[m] = Menores(D[b.clusan[m]], key) + 1
    BY <1>10, <1>12, <1>14, <1>c
  <2>9. Last(b.clusan) = z /\ b.clusan[Len(b.clusan)] = z /\ Len(b.clusan) = n
    BY <1>10, <1>c
  <2> QED BY <1>16, <1>17, <1>19, <2>3, <2>1, <1>11, <2>8, <2>9, <1>D DEF Hallado, b
<1> QED BY <1>18, <1>19

-----------------------------------------------------------------------------
(* Insertion *)

\* A cluster is neither free nor a record.
LEMMA KlugEs == \A a, l : ~EsLibre(Klug(a, l)) /\ ~EsRegistro(Klug(a, l))
BY Zenon DEF EsLibre, EsRegistro, Klug

\* A cluster with a slot more.
LEMMA ConUnaMas ==
    ASSUME NEW a, NEW j, NEW e, a \in Seq(Casillas) /\ j \in 1..Len(a)+1 /\ e \in Casillas
    PROVE  InsertAt(a, j, e) \in Seq(Casillas) /\ Len(InsertAt(a, j, e)) = Len(a) + 1
<1>1. EsInsertado(InsertAt(a, j, e), Casillas, a, j, e)
  BY InsertadoEs, Zenon
<1> QED BY <1>1, Zenon DEF EsInsertado

\* The blocks D with slot x put into cluster p as number k.
Puesta(D, p, k, x) ==
    [y \in Nat |-> IF y = p THEN Klug(D[p].ant, InsertAt(D[p].ll, k, x)) ELSE D[y]]

\* How a full cluster p with one slot more, t, is split: q is the new cluster.
Partido(s, u, Y, p, q, t) ==
    /\ q \in Nat \ {0} /\ q \notin Y /\ Disco(u.f, Y \cup {q})
    /\ u.f.dsk[p] = Klug(s.f.dsk[p].ant, SubSeq(t, 1, 2))
    /\ u.f.dsk[q] = Klug(t[3].may, SubSeq(t, 4, 5))
    /\ \A y \in Y \ {p} : u.f.dsk[y] = s.f.dsk[y]
    /\ u.f.kpos = s.f.kpos /\ u.f.vpk = s.f.vpk
    /\ u.sube = Ranura(t[3].k, t[3].nm, q)

\* So does insef.
LEMMA ParteEs ==
    ASSUME NEW s, NEW Y, Disco(s.f, Y), NEW p \in Y, NEW k, NEW hoja \in BOOLEAN, NEW tam,
           hoja => InsertAt(s.f.dsk[p].ll, k, s.sube)[3].may = 0
    PROVE  \E q : Partido(s, Parte(s, tam, p, k, hoja), Y, p, q, InsertAt(s.f.dsk[p].ll, k, s.sube))
<1> DEFINE t == InsertAt(s.f.dsk[p].ll, k, s.sube)
           b1 == Klug(s.f.dsk[p].ant, SubSeq(t, 1, 2))
           f1 == Renu(s.f, p, b1)
           r == Frsp(f1, tam)
           b2 == Klug(t[3].may, SubSeq(t, 4, 5))
           u == Parte(s, tam, p, k, hoja)
           f2 == Renu(r.f, r.lug, b2)
<1>1. (IF hoja THEN 0 ELSE t[3].may) = t[3].may
  OBVIOUS
<1>2. u.f = Renu(r.f, r.lug, Klug(IF hoja THEN 0 ELSE t[3].may, SubSeq(t, 4, 5)))
      /\ u.sube = Ranura(t[3].k, t[3].nm, r.lug)
  BY DEF Parte
<1>3. u.f = f2
  BY <1>1, <1>2
<1>4. ~EsLibre(b1) /\ ~EsLibre(b2)
  BY KlugEs
<1>5. f1 = Renu(s.f, p, b1) /\ f2 = Renu(Frsp(f1, tam).f, Frsp(f1, tam).lug, b2) /\ r.lug = Frsp(f1, tam).lug
  OBVIOUS
<1>6. b1 = Klug(s.f.dsk[p].ant, SubSeq(t, 1, 2)) /\ b2 = Klug(t[3].may, SubSeq(t, 4, 5))
  OBVIOUS
<1> DEFINE q == r.lug
<1>7. q = Frsp(f1, tam).lug
  OBVIOUS
<1>8. u.sube = Ranura(t[3].k, t[3].nm, q)
  BY <1>2
<1> HIDE DEF t, b1, b2, f1, f2, r, u, q
<1>9. Escrito(s.f, f1, Y, p, b1)
  BY <1>4, <1>5, RenuEs
<1>10. Disco(f1, Y)
  BY <1>9 DEF Escrito
<1>11. Tomado(f1, f2, Y, q, b2)
  BY <1>4, <1>5, <1>7, <1>10, FrspEs
<1>12. /\ f1.dsk[p] = b1 /\ \A y \in Y \ {p} : f1.dsk[y] = s.f.dsk[y]
       /\ f1.kpos = s.f.kpos /\ f1.vpk = s.f.vpk
  BY <1>9 DEF Escrito
<1>13. /\ q \in Nat \ {0} /\ q \notin Y
       /\ Disco(f2, Y \cup {q}) /\ f2.dsk[q] = b2 /\ \A y \in Y : f2.dsk[y] = f1.dsk[y]
       /\ f2.kpos = f1.kpos /\ f2.vpk = f1.vpk
  BY <1>11 DEF Tomado
<1>14. Partido(s, u, Y, p, q, t)
  BY <1>3, <1>6, <1>8, <1>12, <1>13 DEF Partido
<1> QED BY <1>14 DEF u, t

\* The blocks of a file out of tree G stay, and tree H is where G was.
Resto(f, g, X, G, H) ==
    /\ Disco(g, (X \ G.C) \cup H.C) /\ (X \ G.C) \cap H.C = {}
    /\ \A y \in X \ G.C : g.dsk[y] = f.dsk[y]
    /\ g.vpk = f.vpk

\* A slot s.sube has come up to level n of the way down: with the slot put there the tree H
\* has the records N2, and what is over that level is as it was.
Pendiente(f, X, G, cl, k1, N2, n, s, H) ==
    /\ Resto(f, s.f, X, G, H) /\ s.f.kpos = f.kpos
    /\ s.sube \in Casillas /\ Arbol(Puesta(s.f.dsk, cl[n], k1[n], s.sube), H)
    /\ H.N = N2 /\ H.r = G.r /\ G.C \subseteq H.C
    /\ \A y \in G.C : H.h[y] = G.h[y]
    /\ \A l \in 1..n : s.f.dsk[cl[l]] = f.dsk[cl[l]]
    /\ \A l \in 1..n-1 : H.P[cl[l + 1]] = cl[l]
    /\ \A q \in H.C \ {cl[n]} : Buena(s.f.dsk, H, q)

\* The clusters of a way down are at different heights.
LEMMA RutaEs ==
    ASSUME NEW D, NEW G, NEW cl, NEW k1, Ruta(D, G, cl, k1), Arbol(D, G)
    PROVE  /\ Len(cl) \in Nat \ {0} /\ cl[1] = G.r
           /\ \A l \in 1..Len(cl) : cl[l] \in G.C
           /\ \A l, m \in 1..Len(cl) : cl[l] = cl[m] => l = m
           /\ \A l \in 1..Len(cl) : k1[l] \in 1..Len(D[cl[l]].ll)+1
           /\ \A l \in 1..Len(cl)-1 : Hijo(D[cl[l]], k1[l] - 1) = cl[l + 1]
<1>1. G.h[G.r] \in Nat
  <2>1. Puntos(D, G)
    BY DePuntos
  <2> QED BY <2>1 DEF Puntos
<1>2. /\ Len(cl) \in Nat \ {0} /\ cl[1] = G.r
      /\ \A l \in 1..Len(cl) : cl[l] \in G.C /\ G.h[cl[l]] = G.h[G.r] - l + 1
      /\ \A l \in 1..Len(cl) : k1[l] \in 1..Len(D[cl[l]].ll)+1
      /\ \A l \in 1..Len(cl)-1 : Hijo(D[cl[l]], k1[l] - 1) = cl[l + 1]
  BY DEF Ruta
<1>3. ASSUME NEW l \in 1..Len(cl), NEW m \in 1..Len(cl), cl[l] = cl[m] PROVE l = m
  <2> DEFINE R == G.h[G.r]
  <2>1. R - l + 1 = R - m + 1 /\ l \in Nat /\ m \in Nat /\ R \in Nat
    BY <1>1, <1>2, <1>3
  <2> HIDE DEF R
  <2> QED BY <2>1
<1> QED BY <1>2, <1>3

\* A full cluster under the root is split, and the slot goes on to the next level.
LEMMA Sigue ==
    ASSUME NEW f, NEW X, NEW G, NEW cl, NEW k1, NEW N2, NEW s, NEW H, NEW n, NEW hoja, NEW tam,
           Ruta(f.dsk, G, cl, k1), Arbol(f.dsk, G), n \in 2..Len(cl),
           Pendiente(f, X, G, cl, k1, N2, n, s, H),
           Lleno(f.dsk[cl[n]]), hoja \in BOOLEAN, hoja => G.h[cl[n]] = 0
    PROVE  \E I : Pendiente(f, X, G, cl, k1, N2, n - 1, Parte(s, tam, cl[n], k1[n], hoja), I)
<1> DEFINE g == s.f
           Y == (X \ G.C) \cup H.C
           p == cl[n]
           pp == cl[n - 1]
           k == k1[n - 1]
           V == Puesta(g.dsk, p, k1[n], s.sube)
           t == InsertAt(g.dsk[p].ll, k1[n], s.sube)
           u == Parte(s, tam, p, k1[n], hoja)
<1>1. /\ Len(cl) \in Nat \ {0}
      /\ \A l \in 1..Len(cl) : cl[l] \in G.C
      /\ \A l, m \in 1..Len(cl) : cl[l] = cl[m] => l = m
      /\ \A l \in 1..Len(cl) : k1[l] \in 1..Len(f.dsk[cl[l]].ll)+1
      /\ \A l \in 1..Len(cl)-1 : Hijo(f.dsk[cl[l]], k1[l] - 1) = cl[l + 1]
  BY RutaEs
<1>2. /\ n \in Nat /\ n \in 1..Len(cl) /\ n - 1 \in 1..Len(cl) /\ n - 1 \in 1..Len(cl)-1 /\ (n - 1) + 1 = n
      /\ n \in 1..n /\ n - 1 \in 1..n /\ n - 1 # n /\ n - 1 \in 1..n-1
  BY <1>1
<1>3. p \in G.C /\ pp \in G.C /\ p # pp /\ p # G.r
  <2>1. cl[1] = G.r /\ 1 \in 1..Len(cl) /\ n # 1
    BY <1>1, RutaEs
  <2> QED BY <2>1, <1>1, <1>2
<1>4. /\ Disco(g, Y) /\ (X \ G.C) \cap H.C = {} /\ \A y \in X \ G.C : g.dsk[y] = f.dsk[y]
      /\ g.vpk = f.vpk /\ g.kpos = f.kpos /\ s.sube \in Casillas /\ Arbol(V, H)
      /\ H.N = N2 /\ H.r = G.r /\ G.C \subseteq H.C
      /\ \A y \in G.C : H.h[y] = G.h[y]
      /\ \A l \in 1..n : g.dsk[cl[l]] = f.dsk[cl[l]]
      /\ \A l \in 1..n-1 : H.P[cl[l + 1]] = cl[l]
      /\ \A q \in H.C \ {p} : Buena(g.dsk, H, q)
  BY DEF Pendiente, Resto
<1>5. H.P[p] = pp /\ g.dsk[p] = f.dsk[p] /\ g.dsk[pp] = f.dsk[pp] /\ p \in H.C /\ pp \in H.C
  BY <1>2, <1>3, <1>4
<1>p. Puntos(V, H)
  BY <1>4, DePuntos
<1>6. H.C \subseteq Nat /\ 0 \notin H.C
  BY <1>p DEF Puntos
<1>7. /\ V[p] = Klug(g.dsk[p].ant, t) /\ \A y \in H.C \ {p} : V[y] = g.dsk[y]
  BY <1>5, <1>6 DEF Puesta
<1>8. V[p].ll = t /\ V[p].ant = g.dsk[p].ant
  BY <1>7 DEF Klug
<1>9. t \in Seq(Casillas) /\ Len(t) = 5
  <2>1. Sabido(G, f.dsk[p], Len(f.dsk[p].ll), p)
    BY <1>3, DeNodo
  <2>2. f.dsk[p].ll \in Seq(Casillas) /\ Len(f.dsk[p].ll) = 4
    BY <2>1 DEF Sabido, Lleno, TK
  <2>3. k1[n] \in 1..Len(f.dsk[p].ll)+1
    BY <1>1, <1>2
  <2> DEFINE a == f.dsk[p].ll
             e == s.sube
             j == k1[n]
  <2>4. a \in Seq(Casillas) /\ j \in 1..Len(a)+1 /\ e \in Casillas
    BY <2>2, <2>3, <1>4
  <2>6. Len(a) = 4 /\ t = InsertAt(a, j, e)
    BY <2>2, <1>5
  <2> HIDE DEF a, e, j, t
  <2>5. InsertAt(a, j, e) \in Seq(Casillas) /\ Len(InsertAt(a, j, e)) = Len(a) + 1
    BY <2>4, ConUnaMas
  <2> QED BY <2>5, <2>6
<1>10. hoja => t[3].may = 0
  <2> SUFFICES ASSUME hoja PROVE t[3].may = 0
    OBVIOUS
  <2>1. H.h[p] = 0
    BY <1>3, <1>4
  <2>2. Sabido(H, V[p], Len(V[p].ll), p)
    BY <1>4, <1>5, DeNodo
  <2>3. Hijo(V[p], 3) = 0
    <3> HIDE DEF V, p, t
    <3>1. 3 \in 0..Len(V[p].ll)
      BY <1>8, <1>9
    <3> QED BY <2>1, <2>2, <3>1 DEF Sabido
  <2> QED BY <2>3, <1>8 DEF Hijo
<1>11. Disco(s.f, Y) /\ p \in Y /\ (hoja => InsertAt(s.f.dsk[p].ll, k1[n], s.sube)[3].may = 0)
  BY <1>4, <1>5, <1>10
<1>l. g = s.f /\ u = Parte(s, tam, p, k1[n], hoja) /\ t = InsertAt(s.f.dsk[p].ll, k1[n], s.sube)
      /\ k = k1[n - 1] /\ pp = cl[n - 1] /\ p = cl[n] /\ Y = (X \ G.C) \cup H.C
  OBVIOUS
<1> HIDE DEF g, Y, p, pp, k, V, t, u
<1>12. PICK q : Partido(s, u, Y, p, q, t)
  BY <1>11, <1>l, ParteEs
<1>13. /\ q \in Nat \ {0} /\ q \notin Y /\ Disco(u.f, Y \cup {q})
       /\ u.f.dsk[p] = Klug(g.dsk[p].ant, SubSeq(t, 1, 2))
       /\ u.f.dsk[q] = Klug(t[3].may, SubSeq(t, 4, 5))
       /\ \A y \in Y \ {p} : u.f.dsk[y] = g.dsk[y]
       /\ u.f.kpos = g.kpos /\ u.f.vpk = g.vpk
       /\ u.sube = Ranura(t[3].k, t[3].nm, q)
  BY <1>12, <1>l DEF Partido
<1> DEFINE E == Puesta(u.f.dsk, pp, k, u.sube)
           I == Dividido(H, p, q, t[3].k)
<1>14. q # pp /\ q # p /\ q \notin H.C /\ H.C \subseteq Y
  BY <1>5, <1>13, <1>l
<1>15. /\ E[p] = u.f.dsk[p] /\ E[q] = u.f.dsk[q]
       /\ E[pp] = Klug(u.f.dsk[pp].ant, InsertAt(u.f.dsk[pp].ll, k, u.sube))
       /\ \A y \in H.C \ {p, pp} : E[y] = V[y]
  BY <1>3, <1>5, <1>6, <1>7, <1>13, <1>14 DEF Puesta
<1>16. u.f.dsk[pp] = V[pp] /\ V[pp] = f.dsk[pp]
  BY <1>3, <1>5, <1>7, <1>13, <1>14
<1>17. k \in 1..Len(V[pp].ll)+1 /\ Hijo(V[pp], k - 1) = p
  BY <1>1, <1>2, <1>16, <1>l
<1>18. Division(V, E, H, p, q, 3, k)
  <2>1. 3 \in 1..Len(V[p].ll) /\ 3 - 1 = 2 /\ 3 + 1 = 4 /\ Len(V[p].ll) = 5
    BY <1>8, <1>9
  <2>2. E[p] = Klug(V[p].ant, SubSeq(V[p].ll, 1, 3 - 1))
    BY <1>8, <1>13, <1>15
  <2>3. E[q] = Klug(V[p].ll[3].may, SubSeq(V[p].ll, 3 + 1, Len(V[p].ll)))
    BY <1>8, <1>13, <1>15, <2>1
  <2>4. E[pp] = Klug(V[pp].ant, InsertAt(V[pp].ll, k, Ranura(V[p].ll[3].k, V[p].ll[3].nm, q)))
    BY <1>8, <1>13, <1>15, <1>16
  <2>5. p \in H.C /\ p # H.r /\ q \in Nat \ {0} /\ q \notin H.C /\ H.P[p] = pp
    BY <1>3, <1>4, <1>5, <1>13, <1>14
  <2> HIDE DEF E
  <2> QED BY <2>1, <2>2, <2>3, <2>4, <2>5, <1>15, <1>17 DEF Division
<1>19. Arbol(E, I)
  <2> HIDE DEF E
  <2> QED BY <1>4, <1>8, <1>18, Divide
<1>20. /\ I.r = H.r /\ I.C = H.C \cup {q} /\ I.N = H.N
       /\ I.h = [y \in H.C \cup {q} |-> IF y = q THEN H.h[p] ELSE H.h[y]]
       /\ I.P = [y \in H.C \cup {q} |-> IF y = q THEN H.P[p]
                                        ELSE IF H.P[y] = p /\ H.lo[y] >= t[3].k THEN q ELSE H.P[y]]
  BY DEF Dividido
<1> HIDE DEF E, I
<1>21. Resto(f, u.f, X, G, I)
  <2>1. (X \ G.C) \cup I.C = Y \cup {q}
    BY <1>20, <1>l
  <2>2. (X \ G.C) \cap I.C = {}
    BY <1>20, <1>13, <1>4, <1>l
  <2>3. \A y \in X \ G.C : u.f.dsk[y] = f.dsk[y]
    <3> SUFFICES ASSUME NEW y \in X \ G.C PROVE u.f.dsk[y] = f.dsk[y]
      OBVIOUS
    <3>0. y \in Y /\ y # p
      <4>1. y \in Y
        BY <1>l
      <4>2. y \notin H.C
        BY <1>4
      <4> QED BY <4>1, <4>2, <1>5
    <3>1. u.f.dsk[y] = g.dsk[y]
      BY <3>0, <1>13
    <3>2. g.dsk[y] = f.dsk[y]
      BY <1>4
    <3> QED BY <3>1, <3>2
  <2> QED BY <2>1, <2>2, <2>3, <1>13, <1>4 DEF Resto
<1>22. u.sube \in Casillas
  <2>1. t[3] \in Casillas
    <3>1. 3 \in 1..Len(t)
      BY <1>9
    <3> QED BY <3>1, <1>9, ElementOfSeq
  <2> QED BY <2>1, <1>13 DEF Casillas, Ranura
<1>23. \A y \in G.C : I.h[y] = G.h[y]
  BY <1>20, <1>4, <1>14
<1>24. \A l \in 1..n-1 : u.f.dsk[cl[l]] = f.dsk[cl[l]]
  <2> TAKE l \in 1..n-1
  <2>1. l \in 1..n /\ l \in 1..Len(cl) /\ l # n
    BY <1>2
  <2>2. cl[l] \in G.C /\ cl[l] # p
    BY <2>1, <1>1, <1>2, <1>l
  <2> QED BY <2>1, <2>2, <1>4, <1>13, <1>14
<1>25. \A l \in 1..(n-1)-1 : I.P[cl[l + 1]] = cl[l]
  <2> TAKE l \in 1..(n-1)-1
  <2>1. l \in 1..n-1 /\ l \in 1..Len(cl) /\ l # n /\ l + 1 \in 1..Len(cl)
    BY <1>2
  <2>2. cl[l] # p /\ cl[l + 1] \in G.C /\ H.P[cl[l + 1]] = cl[l]
    BY <2>1, <1>1, <1>2, <1>4, <1>l
  <2>3. cl[l + 1] \in H.C /\ cl[l + 1] # q
    BY <2>2, <1>4, <1>14
  <2> QED BY <2>2, <2>3, <1>20
<1>26. \A y \in I.C \ {pp} : Buena(u.f.dsk, I, y)
  <2> TAKE y \in I.C \ {pp}
  <2>1. CASE y = p \/ y = q
    <3>1. SubSeq(t, 1, 2) = u.f.dsk[p].ll /\ SubSeq(t, 4, 5) = u.f.dsk[q].ll
      BY <1>13 DEF Klug
    <3>2. Len(SubSeq(t, 1, 2)) = 2
      <4>1. 1 \in 1..Len(t)+1 /\ 2 \in 1-1..Len(t) /\ 2 - 1 + 1 = 2
        BY <1>9
      <4> QED BY <4>1, <1>9, Tramo
    <3>3. Len(SubSeq(t, 4, 5)) = 2
      <4>1. 4 \in 1..Len(t)+1 /\ 5 \in 4-1..Len(t) /\ 5 - 4 + 1 = 2
        BY <1>9
      <4> QED BY <4>1, <1>9, Tramo
    <3>4. Len(u.f.dsk[y].ll) = 2
      BY <2>1, <3>1, <3>2, <3>3
    <3> QED BY <3>4 DEF Buena, TK
  <2>2. CASE y # p /\ y # q
    <3>1. y \in H.C \ {p} /\ u.f.dsk[y] = g.dsk[y] /\ I.h[y] = H.h[y]
      BY <2>2, <1>13, <1>14, <1>20
    <3>2. Buena(g.dsk, H, y)
      BY <3>1, <1>4
    <3> QED BY <3>1, <3>2, <1>20 DEF Buena
  <2> QED BY <2>1, <2>2
<1>27. Pendiente(f, X, G, cl, k1, N2, n - 1, u, I)
  <2>1. Arbol(Puesta(u.f.dsk, cl[n - 1], k1[n - 1], u.sube), I)
    BY <1>19, <1>l DEF E
  <2>2. I.N = N2 /\ I.r = G.r /\ G.C \subseteq I.C /\ u.f.kpos = f.kpos
    BY <1>4, <1>13, <1>20
  <2> QED BY <2>1, <2>2, <1>21, <1>22, <1>23, <1>24, <1>25, <1>26, <1>l DEF Pendiente
<1> QED BY <1>27, <1>l

\* The records by key with one more.
Con1(N, key, nw) == [k \in DOMAIN N \cup {key} |-> IF k = key THEN nw ELSE N[k]]

\* The slot that the search of a key that the tree lacks leads to.
LEMMA Empieza ==
    ASSUME NEW f, NEW X, NEW i, NEW G, NEW key \in Nat, NEW nw \in Nat, NEW b,
           Raiz(f, X, i, G), Llena(f.dsk, G), Hallado(f, G, b, key), key \notin DOMAIN G.N
    PROVE  \E H : Pendiente(f, X, G, b.clusan, b.k1, Con1(G.N, key, nw), Len(b.clusan),
                            [f |-> f, sube |-> Ranura(key, nw, 0)], H)
<1> DEFINE D == f.dsk
           cl == b.clusan
           k1 == b.k1
           n == Len(cl)
           z == cl[n]
           s == Ranura(key, nw, 0)
           j == k1[n]
           l == Len(D[z].ll)
           E == Puesta(D, z, j, s)
           H == ConLlave(G, z, key, nw)
<1>1. /\ Ruta(D, G, cl, k1) /\ Last(cl) = z /\ z \in G.C /\ G.h[z] = 0
      /\ \A m \in 1..n : Dentro(G, cl[m], key) /\ k1[m] = Menores(D[cl[m]], key) + 1
  BY DEF Hallado
<1>2. /\ Disco(f, X) /\ Arbol(D, G) /\ G.C \subseteq X
  BY DEF Raiz
<1>3. /\ n \in Nat \ {0} /\ n \in 1..n
      /\ \A m \in 1..n : cl[m] \in G.C
      /\ \A m \in 1..n : k1[m] \in 1..Len(D[cl[m]].ll)+1
      /\ \A m \in 1..n-1 : Hijo(D[cl[m]], k1[m] - 1) = cl[m + 1]
  <2>0. Ruta(D, G, cl, k1) /\ Arbol(D, G)
    BY <1>1, <1>2
  <2> HIDE DEF D, cl, k1
  <2>1. /\ n \in Nat \ {0}
        /\ \A m \in 1..n : cl[m] \in G.C
        /\ \A m \in 1..n : k1[m] \in 1..Len(D[cl[m]].ll)+1
        /\ \A m \in 1..n-1 : Hijo(D[cl[m]], k1[m] - 1) = cl[m + 1]
    BY <2>0, RutaEs
  <2> QED BY <2>1
<1>4. s \in Casillas /\ s.may = 0 /\ s.k = key /\ s.nm = nw
  BY DEF Casillas, Ranura
<1>p. Puntos(D, G)
  BY <1>2, DePuntos
<1>c. G.C \subseteq Nat
  BY <1>p DEF Puntos
<1>5. /\ E[z] = Klug(D[z].ant, InsertAt(D[z].ll, j, s)) /\ \A y \in G.C \ {z} : E[y] = D[y]
  BY <1>1, <1>c DEF Puesta
<1>6. Sabido(G, D[z], l, z)
  BY <1>1, <1>2, DeNodo
<1>7. Dentro(G, z, key) /\ j = Menores(D[z], key) + 1 /\ j \in 1..l+1
  BY <1>1, <1>3
<1>8. \A m \in 1..l : IF m < j THEN D[z].ll[m].k < key ELSE key < D[z].ll[m].k
  <2> DEFINE c == D[z]
             h == Menores(c, key)
  <2>1. Sabido(G, c, l, z) /\ j = h + 1
    BY <1>6, <1>7
  <2>2. l \in Nat /\ \A m \in 1..l : c.ll[m].k \in DOMAIN G.N /\ c.ll[m].k \in Nat
    BY <2>1 DEF Sabido
  <2> HIDE DEF c, l, z, j
  <2>3. /\ h \in 0..l
        /\ \A m \in 1..h : c.ll[m].k < key
        /\ \A m \in h+1..l : key <= c.ll[m].k
    BY <2>1, MenoresEs
  <2> HIDE DEF h
  <2>4. ASSUME NEW m \in 1..l PROVE IF m < j THEN c.ll[m].k < key ELSE key < c.ll[m].k
    <3>1. CASE m < j
      <4>1. m \in 1..h
        BY <2>1, <2>2, <2>3, <3>1
      <4> QED BY <3>1, <4>1, <2>3
    <3>2. CASE ~(m < j)
      <4>1. m \in h+1..l
        BY <2>1, <2>2, <2>3, <3>2
      <4>2. key <= c.ll[m].k /\ c.ll[m].k # key
        BY <4>1, <2>2, <2>3
      <4> QED BY <4>2, <3>2, <2>2
    <3> QED BY <3>1, <3>2
  <2> QED BY <2>4 DEF c
<1>9. Alta(D, E, G, z, j, s)
  <2> HIDE DEF E, z, j, s, l
  <2>1. \A m \in 1..Len(D[z].ll) : IF m < j THEN D[z].ll[m].k < s.k ELSE s.k < D[z].ll[m].k
    BY <1>4, <1>8 DEF l
  <2> QED BY <2>1, <1>1, <1>4, <1>5, <1>7 DEF Alta, l
<1>10. Arbol(E, H)
  <2> HIDE DEF E, s
  <2> QED BY <1>2, <1>4, <1>9, PoneHoja
<1>11. /\ H.r = G.r /\ H.C = G.C /\ H.h = G.h /\ H.P = G.P /\ H.N = Con1(G.N, key, nw)
  BY DEF ConLlave, Con1
<1> HIDE DEF H
<1>12. (X \ G.C) \cup H.C = X /\ (X \ G.C) \cap H.C = {}
  BY <1>2, <1>11
<1>13. Resto(f, f, X, G, H)
  BY <1>2, <1>12 DEF Resto
<1>14. \A m \in 1..n-1 : H.P[cl[m + 1]] = cl[m]
  <2> TAKE m \in 1..n-1
  <2>1. m \in 1..n /\ m + 1 \in 1..n
    BY <1>3
  <2> DEFINE p == cl[m]
             a == k1[m] - 1
             y == cl[m + 1]
  <2>2. p \in G.C /\ y \in G.C /\ a \in 0..Len(D[p].ll) /\ Hijo(D[p], a) = y
    <3>1. k1[m] \in 1..Len(D[p].ll)+1
      BY <2>1, <1>3
    <3>2. Sabido(G, D[p], Len(D[p].ll), p)
      BY <2>1, <1>2, <1>3, DeNodo
    <3>3. Len(D[p].ll) \in Nat
      BY <3>2 DEF Sabido
    <3> DEFINE L == Len(D[p].ll)
    <3>4. k1[m] \in 1..L+1 /\ L \in Nat
      BY <3>1, <3>3
    <3> HIDE DEF L
    <3>5. a \in 0..L
      BY <3>4
    <3> QED BY <3>5, <2>1, <1>3 DEF L
  <2> HIDE DEF p, a, y
  <2>3. Sabido(G, D[p], Len(D[p].ll), p)
    BY <2>2, <1>2, DeNodo
  <2>4. G.h[p] # 0
    BY <2>2, <2>3 DEF Sabido
  <2>5. Cotas(G, D[p], p, a)
    BY <2>2, <2>3, <2>4 DEF Sabido
  <2>6. G.P[y] = p
    BY <2>2, <2>5 DEF Cotas
  <2> QED BY <2>6, <1>11 DEF p, y
<1>15. \A q \in H.C \ {z} : Buena(f.dsk, H, q)
  BY <1>11 DEF Llena, Buena
<1> DEFINE u == [f |-> f, sube |-> s]
<1>16. u.f = f /\ u.sube = s
  OBVIOUS
<1>17. Arbol(Puesta(u.f.dsk, cl[n], k1[n], u.sube), H)
  BY <1>10, <1>16
<1> HIDE DEF E, s, u, n, z
<1>18. Pendiente(f, X, G, cl, k1, Con1(G.N, key, nw), n, u, H)
  BY <1>4, <1>11, <1>13, <1>14, <1>15, <1>16, <1>17 DEF Pendiente, z
<1> QED BY <1>18 DEF u, n, s

\* The tree I of key i, with the records N2, is where G was, and the rest of the file stays.
Puesto(f, g, X, G, N2, i, I) ==
    /\ Resto(f, g, X, G, I) /\ Arbol(g.dsk, I) /\ Llena(g.dsk, I) /\ I.N = N2
    /\ g.kpos = [f.kpos EXCEPT ![i] = I.r]

\* The slot goes where there is room.
LEMMA MeteEs ==
    ASSUME NEW f, NEW X, NEW i \in Llaves, NEW G, NEW cl, NEW k1, NEW N2, NEW s, NEW H, NEW n,
           Raiz(f, X, i, G), Ruta(f.dsk, G, cl, k1), Llena(f.dsk, G), n \in 1..Len(cl),
           Pendiente(f, X, G, cl, k1, N2, n, s, H), ~Lleno(f.dsk[cl[n]]),
           f.kpos \in [Llaves -> Nat]
    PROVE  Puesto(f, Mete(s.f, cl[n], k1[n], s.sube), X, G, N2, i, H)
<1> DEFINE g == s.f
           Y == (X \ G.C) \cup H.C
           p == cl[n]
           V == Puesta(g.dsk, p, k1[n], s.sube)
           t == InsertAt(g.dsk[p].ll, k1[n], s.sube)
           b == Klug(g.dsk[p].ant, t)
           w == Mete(s.f, cl[n], k1[n], s.sube)
<1>0. Arbol(f.dsk, G) /\ G.r = f.kpos[i]
  BY DEF Raiz
<1>1. p \in G.C /\ n \in 1..n /\ k1[n] \in 1..Len(f.dsk[p].ll)+1
  <2>1. /\ Len(cl) \in Nat \ {0}
        /\ \A l \in 1..Len(cl) : cl[l] \in G.C
        /\ \A l \in 1..Len(cl) : k1[l] \in 1..Len(f.dsk[cl[l]].ll)+1
    BY <1>0, RutaEs
  <2> QED BY <2>1
<1>4. /\ Disco(g, Y) /\ (X \ G.C) \cap H.C = {} /\ \A y \in X \ G.C : g.dsk[y] = f.dsk[y]
      /\ g.vpk = f.vpk /\ g.kpos = f.kpos /\ s.sube \in Casillas /\ Arbol(V, H)
      /\ H.N = N2 /\ H.r = G.r /\ G.C \subseteq H.C
      /\ \A y \in G.C : H.h[y] = G.h[y]
      /\ g.dsk[p] = f.dsk[p]
      /\ \A q \in H.C \ {p} : Buena(g.dsk, H, q)
  BY <1>1 DEF Pendiente, Resto
<1>5. p \in H.C /\ p \in Y
  BY <1>1, <1>4
<1>p. Puntos(V, H)
  BY <1>4, DePuntos
<1>6. H.C \subseteq Nat
  BY <1>p DEF Puntos
<1>7. w = Renu(g, p, b)
  BY DEF Mete
<1>8. V[p] = b /\ \A y \in H.C \ {p} : V[y] = g.dsk[y]
  BY <1>5, <1>6 DEF Puesta
<1>9. Len(t) = Len(g.dsk[p].ll) + 1 /\ Len(g.dsk[p].ll) \in Nat /\ t = b.ll
  <2>1. Sabido(G, g.dsk[p], Len(g.dsk[p].ll), p)
    BY <1>0, <1>1, <1>4, DeNodo
  <2> DEFINE a == g.dsk[p].ll
             e == s.sube
             j == k1[n]
  <2>4. a \in Seq(Casillas) /\ j \in 1..Len(a)+1 /\ e \in Casillas
    BY <2>1, <1>1, <1>4 DEF Sabido
  <2>6. t = InsertAt(a, j, e) /\ t = b.ll
    BY DEF Klug
  <2>7. Len(a) \in Nat
    BY <2>1 DEF Sabido
  <2> HIDE DEF a, e, j, t
  <2>5. InsertAt(a, j, e) \in Seq(Casillas) /\ Len(InsertAt(a, j, e)) = Len(a) + 1
    BY <2>4, ConUnaMas
  <2> QED BY <2>5, <2>6, <2>7 DEF a
<1>b. ~EsLibre(b)
  BY KlugEs
<1>Y. Y = (X \ G.C) \cup H.C /\ V = Puesta(g.dsk, p, k1[n], s.sube)
  OBVIOUS
<1>z. w = Mete(s.f, cl[n], k1[n], s.sube)
  OBVIOUS
<1> HIDE DEF g, Y, p, V, t, b, w
<1>10. Escrito(g, w, Y, p, b)
  BY <1>4, <1>5, <1>7, <1>b, RenuEs
<1>11. /\ Disco(w, Y) /\ w.dsk[p] = b /\ \A y \in Y \ {p} : w.dsk[y] = g.dsk[y]
       /\ w.kpos = g.kpos /\ w.vpk = g.vpk
  BY <1>10 DEF Escrito
<1>12. \A y \in H.C : w.dsk[y] = V[y]
  BY <1>8, <1>11, <1>Y
<1>13. Arbol(w.dsk, H)
  BY <1>4, <1>12, OtroDisco
<1>14. Llena(w.dsk, H)
  <2> SUFFICES ASSUME NEW y \in H.C PROVE Buena(w.dsk, H, y)
    BY DEF Llena
  <2>1. CASE y = p
    <3>1. Buena(f.dsk, G, p)
      BY <1>1 DEF Llena
    <3>2. Len(g.dsk[p].ll) # 4
      BY <1>4 DEF Lleno, TK, p
    <3>3. Len(w.dsk[p].ll) = Len(g.dsk[p].ll) + 1
      BY <1>9, <1>11
    <3>4. p # G.r => Len(g.dsk[p].ll) >= 2
      BY <3>1, <1>4 DEF Buena
    <3>5. Len(g.dsk[p].ll) <= 4
      BY <3>1, <1>4 DEF Buena, TK
    <3>6. Len(w.dsk[p].ll) <= 4 /\ (p # G.r => Len(w.dsk[p].ll) >= 2) /\ Len(w.dsk[p].ll) >= 1
      <4> DEFINE L == Len(g.dsk[p].ll)
                 M == Len(w.dsk[p].ll)
      <4>1. L \in Nat /\ L # 4 /\ M = L + 1 /\ (p # G.r => L >= 2) /\ L <= 4
        BY <3>2, <3>3, <3>4, <3>5, <1>9
      <4> HIDE DEF L, M
      <4>2. M <= 4 /\ (p # G.r => M >= 2) /\ M >= 1
        BY <4>1
      <4> QED BY <4>2 DEF M
    <3> QED BY <3>6, <2>1, <1>4 DEF Buena, TK
  <2>2. CASE y # p
    <3>1. Buena(g.dsk, H, y) /\ w.dsk[y] = g.dsk[y]
      BY <2>2, <1>4, <1>11, <1>Y
    <3> QED BY <3>1 DEF Buena
  <2> QED BY <2>1, <2>2
<1>15. Resto(f, w, X, G, H)
  BY <1>4, <1>5, <1>11, <1>Y DEF Resto
<1>16. w.kpos = [f.kpos EXCEPT ![i] = H.r]
  BY <1>0, <1>4, <1>11
<1>17. Puesto(f, w, X, G, N2, i, H)
  BY <1>4, <1>13, <1>14, <1>15, <1>16 DEF Puesto
<1> QED BY <1>17, <1>z

\* The blocks of a file are the same whatever tree or chain the header names.
LEMMA DiscoOtro ==
    ASSUME NEW f, NEW X, Disco(f, X), NEW kp, NEW vp
    PROVE  Disco([dsk |-> f.dsk, pad1 |-> f.pad1, kpos |-> kp, vpk |-> vp], X)
<1> DEFINE g == [dsk |-> f.dsk, pad1 |-> f.pad1, kpos |-> kp, vpk |-> vp]
<1>1. g.dsk = f.dsk /\ g.pad1 = f.pad1
      /\ g = [dsk |-> g.dsk, pad1 |-> g.pad1, kpos |-> g.kpos, vpk |-> g.vpk]
  OBVIOUS
<1> HIDE DEF g
<1>2. /\ \E S : f.dsk \in Seq(S)
      /\ X \subseteq 1..Len(f.dsk) /\ \A p \in X : ~EsLibre(f.dsk[p])
  BY DEF Disco
<1>3. PICK r : LibreEn(f, (1..Len(f.dsk)) \ X, r)
  BY DEF Disco
<1>4. LibreEn(g, (1..Len(g.dsk)) \ X, r)
  BY <1>1, <1>3 DEF LibreEn
<1>5. Disco(g, X)
  BY <1>1, <1>2, <1>4 DEF Disco
<1> QED BY <1>5 DEF g

\* A root is named in the header.
LEMMA OtraKpos ==
    ASSUME NEW f, NEW X, Disco(f, X), NEW i, NEW z
    PROVE  LET g == [f EXCEPT !.kpos[i] = z]
           IN  /\ Disco(g, X) /\ g.dsk = f.dsk /\ g.vpk = f.vpk
               /\ g.kpos = [f.kpos EXCEPT ![i] = z]
<1> DEFINE kp == [f.kpos EXCEPT ![i] = z]
           vp == f.vpk
           g == [f EXCEPT !.kpos[i] = z]
<1>1. f = [dsk |-> f.dsk, pad1 |-> f.pad1, kpos |-> f.kpos, vpk |-> f.vpk]
  BY DEF Disco
<1>2. g = [dsk |-> f.dsk, pad1 |-> f.pad1, kpos |-> kp, vpk |-> vp]
  BY <1>1
<1>3. g.dsk = f.dsk /\ g.vpk = f.vpk /\ g.kpos = kp
  BY <1>2
<1>4. kp = [f.kpos EXCEPT ![i] = z]
  OBVIOUS
<1> HIDE DEF kp, vp, g
<1>5. Disco(g, X)
  BY <1>2, DiscoOtro
<1> QED BY <1>3, <1>4, <1>5 DEF g

\* A cluster without slots takes one.
LEMMA PrimeraRanura == ASSUME NEW s \in Casillas PROVE InsertAt(<<>>, 1, s) = <<s>>
<1> DEFINE a == <<>>
           j == 1
           t == InsertAt(a, j, s)
<1>1. a \in Seq(Casillas) /\ j \in 1..Len(a)+1 /\ s \in Casillas
  OBVIOUS
<1>2. Len(a) = 0 /\ j = 1
  OBVIOUS
<1> HIDE DEF a, j
<1>i. EsInsertado(InsertAt(a, j, s), Casillas, a, j, s)
  BY <1>1, InsertadoEs, Zenon
<1>3. /\ InsertAt(a, j, s) \in Seq(Casillas)
      /\ Len(InsertAt(a, j, s)) = Len(a) + 1
      /\ \A m \in 1..Len(a)+1 : InsertAt(a, j, s)[m] =
             IF m < j THEN a[m] ELSE IF m = j THEN s ELSE a[m - 1]
  BY <1>i, Zenon DEF EsInsertado
<1>4. t \in Seq(Casillas) /\ Len(t) = 1 /\ t[1] = s
  BY <1>2, <1>3
<1> HIDE DEF t
<1>5. t = <<s>>
  BY <1>4
<1> QED BY <1>5 DEF t, a, j

\* The root is split, and the tree grows.
LEMMA OtraRaizEs ==
    ASSUME NEW f, NEW X, NEW i \in Llaves, NEW G, NEW cl, NEW k1, NEW N2, NEW s, NEW H, NEW hoja,
           Raiz(f, X, i, G), Ruta(f.dsk, G, cl, k1), NEW tam,
           Pendiente(f, X, G, cl, k1, N2, 1, s, H), Lleno(f.dsk[cl[1]]),
           f.kpos \in [Llaves -> Nat], hoja \in BOOLEAN, hoja => G.h[cl[1]] = 0
    PROVE  LET u == Parte(s, tam, cl[1], k1[1], hoja)
           IN  \E I : Puesto(f, OtraRaiz(u.f, i, cl[1], u.sube), X, G, N2, i, I)
<1> DEFINE g == s.f
           Y == (X \ G.C) \cup H.C
           p == cl[1]
           V == Puesta(g.dsk, p, k1[1], s.sube)
           t == InsertAt(g.dsk[p].ll, k1[1], s.sube)
           u == Parte(s, tam, p, k1[1], hoja)
<1>0. Arbol(f.dsk, G) /\ G.r = f.kpos[i]
  BY DEF Raiz
<1>1. p \in G.C /\ 1 \in 1..1 /\ k1[1] \in 1..Len(f.dsk[p].ll)+1 /\ p = G.r
  <2>1. /\ Len(cl) \in Nat \ {0} /\ cl[1] = G.r
        /\ \A l \in 1..Len(cl) : cl[l] \in G.C
        /\ \A l \in 1..Len(cl) : k1[l] \in 1..Len(f.dsk[cl[l]].ll)+1
    BY <1>0, RutaEs
  <2> QED BY <2>1
<1>4. /\ Disco(g, Y) /\ (X \ G.C) \cap H.C = {} /\ \A y \in X \ G.C : g.dsk[y] = f.dsk[y]
      /\ g.vpk = f.vpk /\ g.kpos = f.kpos /\ s.sube \in Casillas /\ Arbol(V, H)
      /\ H.N = N2 /\ H.r = G.r /\ G.C \subseteq H.C
      /\ \A y \in G.C : H.h[y] = G.h[y]
      /\ g.dsk[p] = f.dsk[p]
      /\ \A q \in H.C \ {p} : Buena(g.dsk, H, q)
  BY <1>1 DEF Pendiente, Resto
<1>5. p \in H.C /\ p \in Y
  BY <1>1, <1>4
<1>p. Puntos(V, H)
  BY <1>4, DePuntos
<1>6. H.C \subseteq Nat /\ 0 \notin H.C
  BY <1>p DEF Puntos
<1>7. /\ V[p] = Klug(g.dsk[p].ant, t) /\ \A y \in H.C \ {p} : V[y] = g.dsk[y]
  BY <1>5, <1>6 DEF Puesta
<1>8. V[p].ll = t /\ V[p].ant = g.dsk[p].ant
  BY <1>7 DEF Klug
<1>9. t \in Seq(Casillas) /\ Len(t) = 5
  <2>1. Sabido(G, g.dsk[p], Len(g.dsk[p].ll), p)
    BY <1>0, <1>1, <1>4, DeNodo
  <2> DEFINE a == g.dsk[p].ll
             e == s.sube
             j == k1[1]
  <2>4. a \in Seq(Casillas) /\ j \in 1..Len(a)+1 /\ e \in Casillas
    BY <2>1, <1>1, <1>4 DEF Sabido
  <2>6. Len(a) = 4 /\ t = InsertAt(a, j, e)
    BY <1>4 DEF Lleno, TK
  <2> HIDE DEF a, e, j, t
  <2>5. InsertAt(a, j, e) \in Seq(Casillas) /\ Len(InsertAt(a, j, e)) = Len(a) + 1
    BY <2>4, ConUnaMas
  <2> QED BY <2>5, <2>6
<1>10. hoja => t[3].may = 0
  <2> SUFFICES ASSUME hoja PROVE t[3].may = 0
    OBVIOUS
  <2>1. H.h[p] = 0
    BY <1>1, <1>4
  <2>2. Sabido(H, V[p], Len(V[p].ll), p)
    BY <1>4, <1>5, DeNodo
  <2>3. Hijo(V[p], 3) = 0
    <3> HIDE DEF V, p, t
    <3>1. 3 \in 0..Len(V[p].ll)
      BY <1>8, <1>9
    <3> QED BY <2>1, <2>2, <3>1 DEF Sabido
  <2> QED BY <2>3, <1>8 DEF Hijo
<1>11. Disco(s.f, Y) /\ p \in Y /\ (hoja => InsertAt(s.f.dsk[p].ll, k1[1], s.sube)[3].may = 0)
  BY <1>4, <1>5, <1>10
<1>l. g = s.f /\ u = Parte(s, tam, p, k1[1], hoja) /\ t = InsertAt(s.f.dsk[p].ll, k1[1], s.sube)
      /\ p = cl[1] /\ Y = (X \ G.C) \cup H.C
  OBVIOUS
<1> HIDE DEF g, Y, p, V, t, u
<1>12. PICK q : Partido(s, u, Y, p, q, t)
  BY <1>11, <1>l, ParteEs
<1>13. /\ q \in Nat \ {0} /\ q \notin Y /\ Disco(u.f, Y \cup {q})
       /\ u.f.dsk[p] = Klug(g.dsk[p].ant, SubSeq(t, 1, 2))
       /\ u.f.dsk[q] = Klug(t[3].may, SubSeq(t, 4, 5))
       /\ \A y \in Y \ {p} : u.f.dsk[y] = g.dsk[y]
       /\ u.f.kpos = g.kpos /\ u.f.vpk = g.vpk
       /\ u.sube = Ranura(t[3].k, t[3].nm, q)
  BY <1>12, <1>l DEF Partido
<1>14. q # p /\ q \notin H.C /\ H.C \subseteq Y
  BY <1>5, <1>13, <1>l
<1> DEFINE r == Frsp(u.f, TamK[i])
           z == r.lug
           c == Klug(p, <<u.sube>>)
           w0 == Renu(r.f, z, c)
           w == OtraRaiz(u.f, i, p, u.sube)
<1>15. w = [w0 EXCEPT !.kpos[i] = z]
  BY DEF OtraRaiz
<1>16. ~EsLibre(c) /\ w0 = Renu(Frsp(u.f, TamK[i]).f, Frsp(u.f, TamK[i]).lug, c)
       /\ z = Frsp(u.f, TamK[i]).lug /\ c = Klug(p, <<u.sube>>)
  BY KlugEs
<1>w. w = OtraRaiz(u.f, i, p, u.sube)
  OBVIOUS
<1> HIDE DEF r, z, c, w0, w
<1> DEFINE Z == Y \cup {q}
<1>17. Tomado(u.f, w0, Z, z, c)
  <2> DEFINE tk == TamK[i]
  <2>1. w0 = Renu(Frsp(u.f, tk).f, Frsp(u.f, tk).lug, c) /\ z = Frsp(u.f, tk).lug
    BY <1>16
  <2>2. Disco(u.f, Z)
    BY <1>13
  <2> HIDE DEF tk, Z
  <2> QED BY <2>1, <2>2, <1>16, FrspEs
<1>18. /\ z \in Nat \ {0} /\ z \notin Y /\ z # q /\ Disco(w0, (Y \cup {q}) \cup {z}) /\ w0.dsk[z] = c
       /\ \A y \in Y \cup {q} : w0.dsk[y] = u.f.dsk[y]
       /\ w0.kpos = u.f.kpos /\ w0.vpk = u.f.vpk
  BY <1>17 DEF Tomado
<1>19. /\ Disco(w, (Y \cup {q}) \cup {z}) /\ w.dsk = w0.dsk /\ w.vpk = w0.vpk
       /\ w.kpos = [f.kpos EXCEPT ![i] = z]
  <2> DEFINE ZZ == (Y \cup {q}) \cup {z}
  <2>1. Disco(w0, ZZ)
    BY <1>18
  <2> HIDE DEF ZZ
  <2>2. /\ Disco(w, ZZ) /\ w.dsk = w0.dsk /\ w.vpk = w0.vpk
        /\ w.kpos = [w0.kpos EXCEPT ![i] = z]
    BY <2>1, <1>15, OtraKpos
  <2> QED BY <2>2, <1>18, <1>13, <1>4 DEF ZZ
<1> DEFINE V1 == [y \in Nat |-> IF y = z THEN Klug(H.r, <<>>) ELSE V[y]]
           J == Coronado(H, z)
           E == w.dsk
           I == Dividido(J, p, q, t[3].k)
<1>20. z # p /\ z \notin H.C
  BY <1>5, <1>14, <1>18
<1>21. V1[z] = Klug(H.r, <<>>) /\ \A y \in H.C : V1[y] = V[y]
  BY <1>6, <1>18, <1>20
<1>22. Arbol(V1, J)
  <2> HIDE DEF V1
  <2> QED BY <1>4, <1>18, <1>20, <1>21, Corona
<1>23. /\ J.r = z /\ J.C = H.C \cup {z} /\ J.N = H.N
       /\ \A y \in J.C : J.h[y] = IF y = z THEN H.h[H.r] + 1 ELSE H.h[y]
       /\ J.P[p] = z /\ p \in J.C
  <2>1. /\ J.r = z /\ J.C = H.C \cup {z} /\ J.N = H.N
        /\ J.h = [y \in H.C \cup {z} |-> IF y = z THEN H.h[H.r] + 1 ELSE H.h[y]]
        /\ J.P = [y \in H.C \cup {z} |-> IF y = z THEN 0 ELSE IF y = H.r THEN z ELSE H.P[y]]
    BY DEF Coronado
  <2> QED BY <2>1, <1>1, <1>4, <1>5, <1>20
<1>24. u.sube \in Casillas
  <2>1. t[3] \in Casillas
    <3>1. 3 \in 1..Len(t)
      BY <1>9
    <3> QED BY <3>1, <1>9, ElementOfSeq
  <2> QED BY <2>1, <1>13 DEF Casillas, Ranura
<1>25. Division(V1, E, J, p, q, 3, 1)
  <2> HIDE DEF V1
  <2>1. V1[p] = V[p] /\ V1[p].ll = t /\ V1[z].ll = <<>> /\ V1[z].ant = p
    BY <1>1, <1>4, <1>5, <1>8, <1>21 DEF Klug
  <2>2. 3 \in 1..Len(V1[p].ll) /\ 3 - 1 = 2 /\ 3 + 1 = 4 /\ Len(V1[p].ll) = 5
        /\ 1 \in 1..Len(V1[z].ll)+1 /\ Hijo(V1[z], 1 - 1) = p
    BY <2>1, <1>9 DEF Hijo
  <2>3. E[p] = Klug(V1[p].ant, SubSeq(V1[p].ll, 1, 3 - 1))
    BY <2>1, <1>5, <1>8, <1>13, <1>18, <1>19
  <2>4. E[q] = Klug(V1[p].ll[3].may, SubSeq(V1[p].ll, 3 + 1, Len(V1[p].ll)))
    BY <2>1, <2>2, <1>13, <1>18, <1>19
  <2>5. E[z] = Klug(V1[z].ant, InsertAt(V1[z].ll, 1, Ranura(V1[p].ll[3].k, V1[p].ll[3].nm, q)))
    <3>1. InsertAt(<<>>, 1, u.sube) = <<u.sube>>
      BY <1>24, PrimeraRanura
    <3>2. E[z] = Klug(p, <<u.sube>>)
      BY <1>16, <1>18, <1>19
    <3> QED BY <3>1, <3>2, <2>1, <1>13
  <2>6. \A y \in J.C \ {p, z} : E[y] = V1[y]
    BY <1>7, <1>13, <1>14, <1>18, <1>19, <1>20, <1>21, <1>23
  <2>7. p \in J.C /\ p # J.r /\ q \in Nat \ {0} /\ q \notin J.C /\ J.P[p] = z
    BY <1>13, <1>14, <1>18, <1>20, <1>23
  <2> HIDE DEF E, V1, J
  <2> QED BY <2>2, <2>3, <2>4, <2>5, <2>6, <2>7 DEF Division
<1>26. V1[p].ll[3].k = t[3].k
  BY <1>8, <1>5, <1>21
<1>27. Arbol(E, I)
  <2> HIDE DEF E, V1, J
  <2> QED BY <1>22, <1>25, <1>26, Divide
<1>28. /\ I.r = J.r /\ I.C = J.C \cup {q} /\ I.N = J.N
       /\ I.h = [y \in J.C \cup {q} |-> IF y = q THEN J.h[p] ELSE J.h[y]]
  BY DEF Dividido
<1>e. E = w.dsk
  OBVIOUS
<1> HIDE DEF E, I, J, V1
<1>29. Resto(f, w, X, G, I)
  <2>1. (X \ G.C) \cup I.C = (Y \cup {q}) \cup {z}
    BY <1>28, <1>23, <1>l
  <2>2. (X \ G.C) \cap I.C = {}
    BY <1>28, <1>23, <1>13, <1>18, <1>4, <1>l, SMTT(30)
  <2>3. \A y \in X \ G.C : w.dsk[y] = f.dsk[y]
    <3> SUFFICES ASSUME NEW y \in X \ G.C PROVE w.dsk[y] = f.dsk[y]
      OBVIOUS
    <3>1. y \in Y /\ y # p
      BY <1>l, <1>1
    <3>2. w.dsk[y] = w0.dsk[y]
      BY <1>19
    <3>3. w0.dsk[y] = u.f.dsk[y]
      BY <3>1, <1>18
    <3>4. u.f.dsk[y] = g.dsk[y]
      BY <3>1, <1>13
    <3>5. g.dsk[y] = f.dsk[y]
      BY <1>4
    <3> QED BY <3>2, <3>3, <3>4, <3>5
  <2> QED BY <2>1, <2>2, <2>3, <1>13, <1>4, <1>18, <1>19 DEF Resto
<1>30. Llena(w.dsk, I)
  <2> SUFFICES ASSUME NEW y \in I.C PROVE Buena(w.dsk, I, y)
    BY DEF Llena
  <2>1. CASE y = p \/ y = q
    <3>1. SubSeq(t, 1, 2) = w.dsk[p].ll /\ SubSeq(t, 4, 5) = w.dsk[q].ll
      BY <1>5, <1>13, <1>18, <1>19 DEF Klug
    <3>2. Len(SubSeq(t, 1, 2)) = 2
      <4>1. 1 \in 1..Len(t)+1 /\ 2 \in 1-1..Len(t) /\ 2 - 1 + 1 = 2
        BY <1>9
      <4> QED BY <4>1, <1>9, Tramo
    <3>3. Len(SubSeq(t, 4, 5)) = 2
      <4>1. 4 \in 1..Len(t)+1 /\ 5 \in 4-1..Len(t) /\ 5 - 4 + 1 = 2
        BY <1>9
      <4> QED BY <4>1, <1>9, Tramo
    <3>4. Len(w.dsk[y].ll) = 2
      BY <2>1, <3>1, <3>2, <3>3
    <3> QED BY <3>4 DEF Buena, TK
  <2>2. CASE y = z
    <3>1. w.dsk[z].ll = <<u.sube>>
      <4>1. w.dsk[z] = w0.dsk[z]
        BY <1>19
      <4>2. w0.dsk[z] = c
        BY <1>18
      <4>3. c = Klug(p, <<u.sube>>)
        BY <1>16
      <4> QED BY <4>1, <4>2, <4>3 DEF Klug
    <3>2. Len(w.dsk[y].ll) = 1
      BY <2>2, <3>1
    <3> QED BY <3>2, <2>2, <1>23, <1>28 DEF Buena, TK
  <2>3. CASE y # p /\ y # q /\ y # z
    <3>1. y \in H.C \ {p} /\ w.dsk[y] = g.dsk[y] /\ I.h[y] = H.h[y] /\ y # H.r
      BY <2>3, <1>1, <1>4, <1>13, <1>14, <1>18, <1>19, <1>23, <1>28
    <3>2. Buena(g.dsk, H, y)
      BY <3>1, <1>4
    <3> QED BY <3>1, <3>2 DEF Buena
  <2> QED BY <2>1, <2>2, <2>3
<1>31. Puesto(f, w, X, G, N2, i, I)
  BY <1>e, <1>27, <1>28, <1>29, <1>30, <1>4, <1>19, <1>23 DEF Puesto
<1> QED BY <1>31, <1>w, <1>l

\* The clusters that are full from the leaf up, and the one over them with room.
LEMMA LlenosEs ==
    ASSUME NEW f, NEW cl, Len(cl) \in Nat
    PROVE  LET m == Llenos(f, cl)
               n == Len(cl)
           IN  /\ m \in 0..n
               /\ \A j \in 0..m-1 : Lleno(f.dsk[cl[n - j]])
               /\ m < n => ~Lleno(f.dsk[cl[n - m]])
<1> DEFINE n == Len(cl)
           Z == {m \in 0..n : m < n => ~Lleno(f.dsk[cl[n - m]])}
<1>1. Z \subseteq Nat /\ n \in Z
  OBVIOUS
<1>2. PICK z \in Z : \A y \in Z : z <= y
  <2> HIDE DEF Z
  <2> QED BY <1>1, Minimo
<1>3. z \in 0..n /\ (z < n => ~Lleno(f.dsk[cl[n - z]]))
  BY <1>2
<1>4. ASSUME NEW j \in 0..z-1 PROVE Lleno(f.dsk[cl[n - j]])
  <2>1. j \in 0..n /\ j < n /\ ~(z <= j)
    BY <1>3
  <2> QED BY <2>1, <1>2
<1>5. Repleta(f, cl, z)
  BY <1>3, <1>4 DEF Repleta
<1> DEFINE m == Llenos(f, cl)
<1>6. m \in 0..Len(cl) /\ Repleta(f, cl, m)
  BY <1>3, <1>5 DEF Llenos
<1> HIDE DEF m
<1>7. m \in 0..n /\ (\A j \in 0..m-1 : Lleno(f.dsk[cl[n - j]])) /\ (m < n => ~Lleno(f.dsk[cl[n - m]]))
  BY <1>6 DEF Repleta
<1> QED BY <1>7 DEF m

\* inserta adds the key to the tree, which stays one.
LEMMA InsertaEs ==
    ASSUME NEW f, NEW X, NEW i \in Llaves, NEW G, NEW key \in Nat, NEW nw \in Nat, NEW b,
           Raiz(f, X, i, G), Llena(f.dsk, G), Hallado(f, G, b, key), key \notin DOMAIN G.N,
           f.kpos \in [Llaves -> Nat]
    PROVE  \E I : Puesto(f, Inserta(f, i, b, key, nw), X, G, Con1(G.N, key, nw), i, I)
<1> DEFINE cl == b.clusan
           k1 == b.k1
           n == Len(cl)
           m == Llenos(f, cl)
           N2 == Con1(G.N, key, nw)
           base == [f |-> f, sube |-> Ranura(key, nw, 0)]
           tam == TamK[i]
<1>1. Ruta(f.dsk, G, cl, k1) /\ Arbol(f.dsk, G) /\ G.h[cl[n]] = 0
  BY DEF Hallado, Raiz
<1>2. /\ n \in Nat \ {0} /\ cl[1] = G.r
      /\ \A l \in 1..n : cl[l] \in G.C
      /\ \A l, h \in 1..n : cl[l] = cl[h] => l = h
  <2> HIDE DEF cl, k1
  <2>1. /\ Len(cl) \in Nat \ {0} /\ cl[1] = G.r
        /\ \A l \in 1..Len(cl) : cl[l] \in G.C
        /\ \A l, h \in 1..Len(cl) : cl[l] = cl[h] => l = h
    BY <1>1, RutaEs
  <2> QED BY <2>1
<1>3. /\ m \in 0..n
      /\ \A j \in 0..m-1 : Lleno(f.dsk[cl[n - j]])
      /\ m < n => ~Lleno(f.dsk[cl[n - m]])
  <2> HIDE DEF cl
  <2>1. Len(cl) \in Nat
    BY <1>2
  <2> QED BY <2>1, LlenosEs
<1>4. \E H : Pendiente(f, X, G, cl, k1, N2, n, base, H)
  BY Empieza
<1> DEFINE Bueno(z, e) == e = [j \in 0..z |-> IF j = 0 THEN base
                                ELSE Parte(e[j - 1], tam, cl[n - j + 1], k1[n - j + 1], j = 1)]
           Hay == {z \in 0..m : \E e : Bueno(z, e)}
<1> HIDE DEF cl, k1, n, m, base, tam, N2
<1>5. m \in Hay
  <2>1. 0 \in Hay
    <3> DEFINE e == [j \in 0..0 |-> base]
    <3>1. Bueno(0, e)
      OBVIOUS
    <3> HIDE DEF e, Bueno
    <3> QED BY <3>1, <1>3, <1>2
  <2>2. ASSUME NEW k \in 0..m-1, k \in Hay PROVE k + 1 \in Hay
    <3>0. k + 1 \in 0..m /\ k \in Nat
      BY <1>2, <1>3
    <3>1. PICK S : Bueno(k, S)
      BY <2>2
    <3> DEFINE F(e, j) == Parte(e[j - 1], tam, cl[n - j + 1], k1[n - j + 1], j = 1)
               nx == F(S, k + 1)
               T == [j \in 0..k+1 |-> IF j = k + 1 THEN nx ELSE S[j]]
    <3>2. \A j \in 0..k : T[j] = S[j]
      BY <3>0
    <3>3. T[k + 1] = nx
      BY <3>0
    <3>4. \A j \in 0..k : S[j] = IF j = 0 THEN base ELSE F(S, j)
      BY <3>1
    <3>5. \A j \in 0..k+1 : T[j] = IF j = 0 THEN base ELSE F(T, j)
      <4> TAKE j \in 0..k+1
      <4>0. j - 1 \in 0..k => T[j - 1] = S[j - 1]
        BY <3>2
      <4>f. j - 1 \in 0..k => F(T, j) = F(S, j)
        <5> HIDE DEF T
        <5> QED BY <4>0
      <4> HIDE DEF F, T
      <4>1. CASE j = k + 1
        <5>1. j # 0 /\ j - 1 \in 0..k
          BY <4>1, <3>0
        <5> QED BY <4>1, <5>1, <3>3, <4>f
      <4>2. CASE j # k + 1
        <5>1. j \in 0..k /\ (j # 0 => j - 1 \in 0..k)
          BY <4>2, <3>0
        <5> QED BY <5>1, <3>2, <3>4, <4>f
      <4> QED BY <4>1, <4>2
    <3>6. Bueno(k + 1, T)
      <4>1. DOMAIN T = 0..k+1 /\ T = [j \in 0..k+1 |-> T[j]]
        OBVIOUS
      <4> HIDE DEF T
      <4>2. T = [j \in 0..k+1 |-> IF j = 0 THEN base ELSE F(T, j)]
        <5> HIDE DEF F
        <5> QED BY <3>5, <4>1
      <4> QED BY <4>2
    <3> HIDE DEF Bueno, T
    <3> QED BY <3>6, <3>0
  <2>3. m \in Nat /\ m \in 0..m
    BY <1>3, <1>2
  <2> HIDE DEF Hay
  <2>4. \A k \in 0..m : k \in Hay
    BY <2>1, <2>2, <2>3, Hasta
  <2> QED BY <2>3, <2>4
<1> DEFINE e == CHOOSE e : Bueno(m, e)
           w == IF m < n THEN Mete(e[m].f, cl[n - m], k1[n - m], e[m].sube)
                ELSE OtraRaiz(e[m].f, i, cl[1], e[m].sube)
<1>6. Inserta(f, i, b, key, nw) = w
  BY DEF Inserta, cl, k1, n, m, base, tam
<1>7. Bueno(m, e)
  <2>1. PICK S : Bueno(m, S)
    BY <1>5
  <2> HIDE DEF Bueno
  <2> QED BY <2>1
<1> HIDE DEF e, Hay
<1>8. /\ e[0] = base
      /\ \A j \in 1..m : e[j] = Parte(e[j - 1], tam, cl[n - j + 1], k1[n - j + 1], j = 1)
  <2>1. \A j \in 0..m : e[j] = IF j = 0 THEN base
                               ELSE Parte(e[j - 1], tam, cl[n - j + 1], k1[n - j + 1], j = 1)
    BY <1>7
  <2> HIDE DEF Bueno
  <2>2. 0 \in 0..m /\ \A j \in 1..m : j \in 0..m /\ j # 0
    BY <1>2, <1>3
  <2> QED BY <2>1, <2>2
<1> HIDE DEF Bueno

\* While the slot comes up.
<1> DEFINE Va == {j \in 0..m : j < n => \E H : Pendiente(f, X, G, cl, k1, N2, n - j, e[j], H)}
<1>9. \A j \in 0..m : j \in Va
  <2>1. 0 \in Va
    <3>1. n - 0 = n /\ 0 \in 0..m
      BY <1>2, <1>3
    <3> QED BY <3>1, <1>4, <1>8
  <2>2. ASSUME NEW j \in 0..m-1, j \in Va PROVE j + 1 \in Va
    <3>1. j + 1 \in 0..m /\ j + 1 \in 1..m /\ (j + 1) - 1 = j /\ n - (j + 1) + 1 = n - j /\ j < n
          /\ n - (j + 1) = (n - j) - 1 /\ n - j \in 1..n
      BY <1>2, <1>3
    <3> SUFFICES ASSUME j + 1 < n
                 PROVE  \E H : Pendiente(f, X, G, cl, k1, N2, n - (j + 1), e[j + 1], H)
      BY <3>1
    <3>2. PICK H : Pendiente(f, X, G, cl, k1, N2, n - j, e[j], H)
      BY <2>2, <3>1
    <3> DEFINE l == n - j
               hoja == (j + 1 = 1)
               s == e[j]
    <3>3. e[j + 1] = Parte(s, tam, cl[l], k1[l], hoja)
      BY <1>8, <3>1
    <3>4. l \in 2..n /\ Lleno(f.dsk[cl[l]]) /\ hoja \in BOOLEAN
      BY <1>2, <1>3, <3>1
    <3>5. hoja => G.h[cl[l]] = 0
      <4>1. hoja => l = n
        BY <3>1, <1>2
      <4> QED BY <4>1, <1>1 DEF n
    <3>6. Pendiente(f, X, G, cl, k1, N2, l, s, H) /\ l \in 2..Len(cl)
      BY <3>2, <3>4 DEF n
    <3> HIDE DEF l, hoja, s
    <3>7. \E I : Pendiente(f, X, G, cl, k1, N2, l - 1, Parte(s, tam, cl[l], k1[l], hoja), I)
      BY <1>1, <3>4, <3>5, <3>6, Sigue
    <3> QED BY <3>1, <3>3, <3>7 DEF l
  <2> HIDE DEF Va
  <2> QED BY <2>1, <2>2, <1>3, <1>2, Hasta
<1>10. CASE m < n
  <2>1. m \in 0..m /\ n - m \in 1..Len(cl)
    BY <1>10, <1>2, <1>3 DEF n
  <2>2. PICK H : Pendiente(f, X, G, cl, k1, N2, n - m, e[m], H)
    BY <1>10, <2>1, <1>9
  <2> DEFINE l == n - m
             s == e[m]
  <2>3. Pendiente(f, X, G, cl, k1, N2, l, s, H) /\ l \in 1..Len(cl) /\ ~Lleno(f.dsk[cl[l]])
    BY <1>10, <2>1, <2>2, <1>3
  <2>4. w = Mete(s.f, cl[l], k1[l], s.sube)
    BY <1>10
  <2> HIDE DEF l, s, w
  <2>5. Puesto(f, Mete(s.f, cl[l], k1[l], s.sube), X, G, N2, i, H)
    BY <1>1, <2>3, MeteEs
  <2> QED BY <1>6, <2>4, <2>5 DEF N2
<1>11. CASE ~(m < n)
  <2>1. m = n /\ m - 1 \in 0..m /\ m - 1 < n /\ n - (m - 1) = 1 /\ m \in 1..m /\ n - m + 1 = 1
        /\ m - 1 \in 0..m-1
    BY <1>11, <1>2, <1>3
  <2>2. PICK H : Pendiente(f, X, G, cl, k1, N2, 1, e[m - 1], H)
    BY <2>1, <1>9
  <2> DEFINE s == e[m - 1]
             hoja == (m = 1)
             u == Parte(s, tam, cl[1], k1[1], hoja)
  <2>3. e[m] = u
    BY <2>1, <1>8
  <2>4. Lleno(f.dsk[cl[1]]) /\ hoja \in BOOLEAN
    BY <2>1, <1>3
  <2>5. hoja => G.h[cl[1]] = 0
    BY <2>1, <1>1 DEF n
  <2>6. w = OtraRaiz(u.f, i, cl[1], u.sube)
    BY <1>11, <2>3
  <2>7. Pendiente(f, X, G, cl, k1, N2, 1, s, H) /\ u = Parte(s, tam, cl[1], k1[1], hoja)
    BY <2>2
  <2> HIDE DEF s, hoja, u, w
  <2>8. \E I : Puesto(f, OtraRaiz(u.f, i, cl[1], u.sube), X, G, N2, i, I)
    <3>1. LET v == Parte(s, tam, cl[1], k1[1], hoja)
          IN  \E I : Puesto(f, OtraRaiz(v.f, i, cl[1], v.sube), X, G, N2, i, I)
      BY <1>1, <2>4, <2>5, <2>7, OtraRaizEs, ZenonT(40)
    <3> QED BY <3>1, <2>7
  <2> QED BY <1>6, <2>6, <2>8 DEF N2
<1> QED BY <1>10, <1>11

-----------------------------------------------------------------------------
(* Loans and merges *)

\* A slot taken out and another put in its place.
LEMMA Repuesto ==
    ASSUME NEW u, NEW s, NEW x, u \in Seq(Casillas) /\ s \in 1..Len(u) /\ x \in Casillas
    PROVE  InsertAt(RemoveAt(u, s), s, x) = [u EXCEPT ![s] = x] /\ Len(RemoveAt(u, s)) = Len(u) - 1
<1> DEFINE l == Len(u)
           a == RemoveAt(u, s)
           w == [u EXCEPT ![s] = x]
           t == InsertAt(a, s, x)
<1>0. l \in Nat /\ DOMAIN u = 1..l /\ u \in Seq(Casillas) /\ s \in 1..l /\ x \in Casillas
      /\ \A n \in 1..l : u[n] \in Casillas
  BY LenProperties, ElementOfSeq
<1>1. /\ RemoveAt(u, s) \in Seq(Casillas) /\ Len(RemoveAt(u, s)) = Len(u) - 1
      /\ \A n \in 1..Len(u)-1 : RemoveAt(u, s)[n] = IF n < s THEN u[n] ELSE u[n + 1]
  BY Sacado
<1>2. a \in Seq(Casillas) /\ s \in 1..Len(a)+1 /\ x \in Casillas
  <2> HIDE DEF l
  <2> QED BY <1>0, <1>1 DEF l
<1>l. l = Len(u)
  OBVIOUS
<1>a. a = RemoveAt(u, s) /\ t = InsertAt(a, s, x) /\ w = [u EXCEPT ![s] = x]
  OBVIOUS
<1> HIDE DEF a, l
<1>i. EsInsertado(InsertAt(a, s, x), Casillas, a, s, x)
  BY <1>2, InsertadoEs, Zenon
<1>3. /\ InsertAt(a, s, x) \in Seq(Casillas)
      /\ Len(InsertAt(a, s, x)) = Len(a) + 1
      /\ \A m \in 1..Len(a)+1 : InsertAt(a, s, x)[m] =
             IF m < s THEN a[m] ELSE IF m = s THEN x ELSE a[m - 1]
  BY <1>i, Zenon DEF EsInsertado
<1> HIDE DEF t, w
<1>4. Len(a) = l - 1 /\ \A n \in 1..l-1 : a[n] = IF n < s THEN u[n] ELSE u[n + 1]
  BY <1>1, <1>a, <1>l
<1>5. /\ t \in Seq(Casillas) /\ Len(t) = l
      /\ \A m \in 1..l : t[m] = IF m < s THEN a[m] ELSE IF m = s THEN x ELSE a[m - 1]
  <2>1. Len(a) + 1 = l
    BY <1>4, <1>0
  <2> QED BY <2>1, <1>3, <1>a
<1>6. DOMAIN t = 1..l /\ t = [m \in 1..l |-> t[m]]
  <2>1. t \in [1..l -> Casillas]
    BY <1>5, LenProperties
  <2> QED BY <2>1
<1>7. w = [m \in 1..l |-> IF m = s THEN x ELSE u[m]]
  <2>1. u \in [1..l -> Casillas]
    BY <1>0, <1>l, LenProperties
  <2> QED BY <2>1, <1>a, <1>0
<1>8. ASSUME NEW m \in 1..l PROVE t[m] = IF m = s THEN x ELSE u[m]
  <2>1. CASE m < s
    <3>1. m \in 1..l-1
      BY <2>1, <1>0
    <3> QED BY <3>1, <2>1, <1>4, <1>5, <1>0
  <2>2. CASE m = s
    BY <2>2, <1>5, <1>0
  <2>3. CASE m > s
    <3>1. m - 1 \in 1..l-1 /\ ~(m - 1 < s) /\ (m - 1) + 1 = m /\ ~(m < s) /\ m # s
      BY <2>3, <1>0
    <3>2. a[m - 1] = u[(m - 1) + 1]
      BY <3>1, <1>4
    <3>3. t[m] = a[m - 1]
      BY <3>1, <1>5
    <3> QED BY <3>1, <3>2, <3>3
  <2> QED BY <2>1, <2>2, <2>3, <1>0
<1>9. t = w
  BY <1>6, <1>7, <1>8
<1> QED BY <1>9, <1>1, <1>a

\* A sequence is the function of its elements.
LEMMA ComoFuncion == ASSUME NEW S, NEW u \in Seq(S) PROVE u = [m \in 1..Len(u) |-> u[m]]
<1>1. u \in [1..Len(u) -> S]
  BY LenProperties
<1> QED BY <1>1

\* So is a stretch of it.
LEMMA TramoComo ==
    ASSUME NEW t, NEW x, NEW y, NEW n,
           t \in Seq(Casillas) /\ x \in 1..Len(t)+1 /\ y \in x-1..Len(t) /\ n = y - x + 1
    PROVE  SubSeq(t, x, y) = [m \in 1..n |-> t[x + m - 1]]
<1> DEFINE u == SubSeq(t, x, y)
<1>1. /\ SubSeq(t, x, y) \in Seq(Casillas)
      /\ Len(SubSeq(t, x, y)) = y - x + 1
      /\ \A i \in 1..y-x+1 : SubSeq(t, x, y)[i] = t[x + i - 1]
  BY Tramo
<1>2. u \in Seq(Casillas) /\ Len(u) = n /\ \A i \in 1..n : u[i] = t[x + i - 1]
  BY <1>1
<1> HIDE DEF u
<1>3. u = [m \in 1..Len(u) |-> u[m]]
  BY <1>2, ComoFuncion
<1>4. u = [m \in 1..n |-> t[x + m - 1]]
  BY <1>2, <1>3
<1> QED BY <1>4 DEF u

\* The slots t of two clusters, a and c, with a slot e between.
Piezas(a, e, c, t) ==
    LET l == Len(a)
    IN  /\ t \in Seq(Casillas) /\ Len(t) = l + 1 + Len(c) /\ l \in Nat /\ Len(c) \in Nat
        /\ SubSeq(t, 1, l) = a /\ t[l + 1] = e
        /\ SubSeq(t, 1, l + 1) = Append(a, e)
        /\ SubSeq(t, l + 1, Len(t)) = <<e>> \o c
        /\ l >= 1 => /\ SubSeq(t, 1, l - 1) = Front(a) /\ Len(Front(a)) = l - 1
                     /\ t[l] = a[l]
        /\ Len(c) >= 1 => /\ SubSeq(t, l + 3, Len(t)) = Tail(c) /\ Len(Tail(c)) = Len(c) - 1
                          /\ t[l + 2] = c[1]

\* Its pieces.
LEMMA Pedazos ==
    ASSUME NEW a, NEW e, NEW c, a \in Seq(Casillas) /\ e \in Casillas /\ c \in Seq(Casillas)
    PROVE  Piezas(a, e, c, Append(a, e) \o c)
<1> DEFINE t == Append(a, e) \o c
           l == Len(a)
           n == Len(c)
<1>1. /\ t \in Seq(Casillas) /\ Len(t) = l + 1 + n
      /\ \A m \in 1..l+1+n : t[m] = IF m <= l THEN a[m] ELSE IF m = l + 1 THEN e ELSE c[m - l - 1]
  BY Junto
<1>2. l \in Nat /\ n \in Nat /\ a \in [1..l -> Casillas] /\ c \in [1..n -> Casillas]
  BY LenProperties
<1>3. /\ Append(a, e) = [m \in 1..l+1 |-> IF m = l + 1 THEN e ELSE a[m]]
      /\ <<e>> \o c = [m \in 1..n+1 |-> IF m = 1 THEN e ELSE c[m - 1]]
      /\ l >= 1 => Front(a) = [m \in 1..l-1 |-> a[m]]
      /\ n >= 1 => Tail(c) = [m \in 1..n-1 |-> c[m + 1]]
  <2>1. Append(a, e) = [m \in 1..l+1 |-> IF m = l + 1 THEN e ELSE a[m]]
    <3> DEFINE u == Append(a, e)
    <3>1. /\ Append(a, e) \in Seq(Casillas)
          /\ Append(a, e) # << >>
          /\ Len(Append(a, e)) = Len(a) + 1
          /\ \A i \in 1..Len(a) : Append(a, e)[i] = a[i]
          /\ Append(a, e)[Len(a) + 1] = e
      BY AppendProperties
    <3>2. u \in Seq(Casillas) /\ Len(u) = l + 1 /\ (\A i \in 1..l : u[i] = a[i]) /\ u[l + 1] = e
      BY <3>1
    <3> HIDE DEF u, l
    <3>3. u = [m \in 1..Len(u) |-> u[m]]
      BY <3>2, ComoFuncion
    <3>4. \A m \in 1..l+1 : u[m] = IF m = l + 1 THEN e ELSE a[m]
      BY <3>2, <1>2
    <3> QED BY <3>2, <3>3, <3>4 DEF u
  <2>2. <<e>> \o c = [m \in 1..n+1 |-> IF m = 1 THEN e ELSE c[m - 1]]
    OBVIOUS
  <2>3. l >= 1 => Front(a) = [m \in 1..l-1 |-> a[m]]
    BY DEF Front
  <2>4. n >= 1 => Tail(c) = [m \in 1..n-1 |-> c[m + 1]]
    <3> SUFFICES ASSUME n >= 1 PROVE Tail(c) = [m \in 1..n-1 |-> c[m + 1]]
      OBVIOUS
    <3> DEFINE u == Tail(c)
    <3>0. c # <<>>
      BY <1>2
    <3>1. /\ Head(c) \in Casillas
          /\ Tail(c) \in Seq(Casillas)
          /\ Len(Tail(c)) = Len(c) - 1
          /\ \A i \in 1..Len(Tail(c)) : Tail(c)[i] = c[i + 1]
      BY <3>0, HeadTailProperties
    <3>2. u \in Seq(Casillas) /\ Len(u) = n - 1 /\ \A i \in 1..n-1 : u[i] = c[i + 1]
      BY <3>1
    <3> HIDE DEF u, n
    <3>3. u = [m \in 1..Len(u) |-> u[m]]
      BY <3>2, ComoFuncion
    <3> QED BY <3>2, <3>3 DEF u
  <2> QED BY <2>1, <2>2, <2>3, <2>4
<1>t. t = Append(a, e) \o c /\ l = Len(a) /\ n = Len(c)
  OBVIOUS
<1> HIDE DEF t, l, n
<1>5. SubSeq(t, 1, l) = a /\ t[l + 1] = e
  <2>1. SubSeq(t, 1, l) = [m \in 1..l |-> t[m]]
    <3>0. t \in Seq(Casillas) /\ 1 \in 1..Len(t)+1 /\ l \in 1-1..Len(t) /\ l = l - 1 + 1
      BY <1>1, <1>2
    <3>1. SubSeq(t, 1, l) = [m \in 1..l |-> t[1 + m - 1]]
      BY <3>0, TramoComo
    <3>2. \A m \in 1..l : 1 + m - 1 = m
      BY <1>2
    <3> QED BY <3>1, <3>2
  <2>2. \A m \in 1..l : t[m] = a[m]
    BY <1>1, <1>2
  <2>3. a = [m \in 1..l |-> a[m]]
    BY <1>2
  <2>4. t[l + 1] = e
    BY <1>1, <1>2
  <2> QED BY <2>1, <2>2, <2>3, <2>4
<1>6. SubSeq(t, 1, l + 1) = Append(a, e)
  <2>1. SubSeq(t, 1, l + 1) = [m \in 1..l+1 |-> t[m]]
    <3>0. t \in Seq(Casillas) /\ 1 \in 1..Len(t)+1 /\ l + 1 \in 1-1..Len(t) /\ l + 1 = (l + 1) - 1 + 1
      BY <1>1, <1>2
    <3>1. SubSeq(t, 1, l + 1) = [m \in 1..l+1 |-> t[1 + m - 1]]
      BY <3>0, TramoComo
    <3>2. \A m \in 1..l+1 : 1 + m - 1 = m
      BY <1>2
    <3> QED BY <3>1, <3>2
  <2>2. \A m \in 1..l+1 : t[m] = IF m = l + 1 THEN e ELSE a[m]
    BY <1>1, <1>2
  <2> QED BY <2>1, <2>2, <1>3
<1>7. SubSeq(t, l + 1, Len(t)) = <<e>> \o c
  <2>1. SubSeq(t, l + 1, Len(t)) = [m \in 1..n+1 |-> t[l + m]]
    <3> DEFINE x == l + 1
               y == l + 1 + n
    <3>0. t \in Seq(Casillas) /\ x \in 1..Len(t)+1 /\ y \in x-1..Len(t) /\ n + 1 = y - x + 1
      BY <1>1, <1>2
    <3>1. \A m \in 1..n+1 : x + m - 1 = l + m
      BY <1>2
    <3> HIDE DEF x, y
    <3>2. SubSeq(t, x, y) = [m \in 1..n+1 |-> t[x + m - 1]]
      BY <3>0, TramoComo
    <3> QED BY <3>1, <3>2, <1>1 DEF x, y
  <2>2. \A m \in 1..n+1 : t[l + m] = IF m = 1 THEN e ELSE c[m - 1]
    <3> TAKE m \in 1..n+1
    <3>1. l + m \in 1..l+1+n /\ ~(l + m <= l) /\ (l + m = l + 1 <=> m = 1) /\ (l + m) - l - 1 = m - 1
      BY <1>2
    <3> QED BY <3>1, <1>1
  <2> QED BY <2>1, <2>2, <1>3
<1>8. ASSUME l >= 1 PROVE SubSeq(t, 1, l - 1) = Front(a) /\ t[l] = a[l]
  <2>1. SubSeq(t, 1, l - 1) = [m \in 1..l-1 |-> t[m]]
    <3>0. t \in Seq(Casillas) /\ 1 \in 1..Len(t)+1 /\ l - 1 \in 1-1..Len(t) /\ l - 1 = (l - 1) - 1 + 1
      BY <1>1, <1>2, <1>8
    <3>1. SubSeq(t, 1, l - 1) = [m \in 1..l-1 |-> t[1 + m - 1]]
      BY <3>0, TramoComo
    <3>2. \A m \in 1..l-1 : 1 + m - 1 = m
      BY <1>2
    <3> QED BY <3>1, <3>2
  <2>2. \A m \in 1..l : t[m] = a[m]
    BY <1>1, <1>2
  <2>3. \A m \in 1..l-1 : t[m] = a[m]
    BY <2>2, <1>2
  <2> QED BY <2>1, <2>2, <2>3, <1>2, <1>3, <1>8
<1>9. ASSUME n >= 1 PROVE SubSeq(t, l + 3, Len(t)) = Tail(c) /\ t[l + 2] = c[1]
  <2>1. SubSeq(t, l + 3, Len(t)) = [m \in 1..n-1 |-> t[l + 2 + m]]
    <3> DEFINE x == l + 3
               y == l + 1 + n
    <3>0. t \in Seq(Casillas) /\ x \in 1..Len(t)+1 /\ y \in x-1..Len(t) /\ n - 1 = y - x + 1
      BY <1>1, <1>2, <1>9
    <3>1. \A m \in 1..n-1 : x + m - 1 = l + 2 + m
      BY <1>2
    <3> HIDE DEF x, y
    <3>2. SubSeq(t, x, y) = [m \in 1..n-1 |-> t[x + m - 1]]
      BY <3>0, TramoComo
    <3> QED BY <3>1, <3>2, <1>1 DEF x, y
  <2>2. \A m \in 1..n-1 : t[l + 2 + m] = c[m + 1]
    <3> TAKE m \in 1..n-1
    <3>1. l + 2 + m \in 1..l+1+n /\ ~(l + 2 + m <= l) /\ l + 2 + m # l + 1
          /\ (l + 2 + m) - l - 1 = m + 1
      BY <1>2
    <3> QED BY <3>1, <1>1
  <2>3. t[l + 2] = c[1]
    <3>1. l + 2 \in 1..l+1+n /\ ~(l + 2 <= l) /\ l + 2 # l + 1 /\ (l + 2) - l - 1 = 1
      BY <1>2, <1>9
    <3> QED BY <3>1, <1>1
  <2> QED BY <2>1, <2>2, <2>3, <1>3, <1>9
<1>10. l >= 1 => Len(Front(a)) = l - 1
  <2>1. l >= 1 => Len([m \in 1..l-1 |-> a[m]]) = l - 1
    BY <1>2
  <2> QED BY <2>1, <1>3
<1>11. n >= 1 => Len(Tail(c)) = n - 1
  <2>1. n >= 1 => Len([m \in 1..n-1 |-> c[m + 1]]) = n - 1
    BY <1>2
  <2> QED BY <2>1, <1>3
<1>12. Piezas(a, e, c, t)
  <2>1. t \in Seq(Casillas) /\ Len(t) = l + 1 + n
    BY <1>1
  <2> QED BY <2>1, <1>2, <1>5, <1>6, <1>7, <1>8, <1>9, <1>10, <1>11, <1>t DEF Piezas
<1> QED BY <1>12, <1>t

\* How the blocks E come from D when a slot m of those of a and b, and the one of p between
\* them, goes up to p, and that one down.
Girado(D, E, G, p, s, a, b, m) ==
    LET c == D[p]
        t == Append(D[a].ll, Ranura(c.ll[s].k, c.ll[s].nm, D[b].ant)) \o D[b].ll
    IN  /\ p \in G.C /\ s \in 1..Len(c.ll) /\ G.h[p] # 0
        /\ a = Hijo(c, s - 1) /\ b = Hijo(c, s) /\ m \in 1..Len(t)
        /\ E[a] = Klug(D[a].ant, SubSeq(t, 1, m - 1))
        /\ E[b] = Klug(t[m].may, SubSeq(t, m + 1, Len(t)))
        /\ E[p] = Klug(c.ant, [c.ll EXCEPT ![s] = Ranura(t[m].k, t[m].nm, @.may)])
        /\ \A y \in G.C \ {a, b, p} : E[y] = D[y]

\* A tree with the clusters and keys of another.
Igual(G, H) == H.r = G.r /\ H.C = G.C /\ H.N = G.N /\ \A y \in G.C : H.h[y] = G.h[y]

\* A loan between neighbours leaves a tree with the same keys: it is what putting them
\* together and dividing them elsewhere leaves.
LEMMA GiraEs ==
    ASSUME NEW D, NEW E, NEW G, NEW p, NEW s, NEW a, NEW b, NEW m, Arbol(D, G),
           Girado(D, E, G, p, s, a, b, m)
    PROVE  \E I : Arbol(E, I) /\ Igual(G, I)
<1> DEFINE c == D[p]
           l == Len(c.ll)
           x == c.ll[s].k
           e == Ranura(c.ll[s].k, c.ll[s].nm, D[b].ant)
           t == Append(D[a].ll, e) \o D[b].ll
           M == [y \in Nat |-> IF y = a THEN Klug(D[a].ant, t)
                               ELSE IF y = p THEN Klug(c.ant, RemoveAt(c.ll, s)) ELSE D[y]]
           J == Unido(G, a, b, x)
           I == Dividido(J, a, b, t[m].k)
<1>1. /\ p \in G.C /\ s \in 1..l /\ G.h[p] # 0
      /\ a = Hijo(c, s - 1) /\ b = Hijo(c, s) /\ m \in 1..Len(t)
      /\ E[a] = Klug(D[a].ant, SubSeq(t, 1, m - 1))
      /\ E[b] = Klug(t[m].may, SubSeq(t, m + 1, Len(t)))
      /\ E[p] = Klug(c.ant, [c.ll EXCEPT ![s] = Ranura(t[m].k, t[m].nm, @.may)])
      /\ \A y \in G.C \ {a, b, p} : E[y] = D[y]
  BY DEF Girado
<1>2. Sabido(G, c, l, p)
  BY <1>1, DeNodo
<1>p. Puntos(D, G)
  BY DePuntos
<1>c. G.C \subseteq Nat /\ 0 \notin G.C
  BY <1>p DEF Puntos
<1>3. /\ l \in Nat /\ c.ll \in Seq(Casillas) /\ l = Len(c.ll)
      /\ \A n \in 0..l : Cotas(G, c, p, n)
      /\ c.ll[s] \in Casillas
  BY <1>1, <1>2 DEF Sabido
<1>4. a \in G.C /\ b \in G.C /\ G.h[a] = G.h[p] - 1 /\ G.h[b] = G.h[p] - 1 /\ G.h[p] \in Nat
  <2> HIDE DEF c, l
  <2>1. s - 1 \in 0..l /\ s \in 0..l
    BY <1>1, <1>3
  <2>2. Cotas(G, c, p, s - 1) /\ Cotas(G, c, p, s)
    BY <2>1, <1>3
  <2> QED BY <2>2, <1>1, <1>p DEF Cotas, Puntos
<1>5. a # p
  BY <1>4
<1>m. /\ M[a] = Klug(D[a].ant, t) /\ M[p] = Klug(c.ant, RemoveAt(c.ll, s))
      /\ \A y \in G.C \ {a, p} : M[y] = D[y]
  BY <1>1, <1>4, <1>5, <1>c
<1>l. /\ c = D[p] /\ l = Len(c.ll) /\ x = c.ll[s].k /\ t = Append(D[a].ll, e) \o D[b].ll
      /\ e = Ranura(c.ll[s].k, c.ll[s].nm, D[b].ant)
  OBVIOUS
<1> HIDE DEF M, J, I, c, l, x, t, e
<1>6. Union(D, M, G, p, s, a, b)
  <2>1. M[a] = Klug(D[a].ant, Append(D[a].ll, Ranura(D[p].ll[s].k, D[p].ll[s].nm, D[b].ant)) \o D[b].ll)
    BY <1>m, <1>l
  <2>2. M[p] = Klug(D[p].ant, RemoveAt(D[p].ll, s))
    BY <1>m, <1>l
  <2>3. s \in 1..Len(D[p].ll) /\ a = Hijo(D[p], s - 1) /\ b = Hijo(D[p], s)
    BY <1>1, <1>l
  <2> QED BY <2>1, <2>2, <2>3, <1>1, <1>m DEF Union
<1>7. /\ Arbol(M, J)
      /\ a # b /\ a # p /\ b # p /\ b # G.r /\ a # G.r
      /\ G.P[a] = p /\ G.P[b] = p
  <2>1. /\ Arbol(M, Unido(G, a, b, D[p].ll[s].k))
        /\ a \in G.C /\ b \in G.C /\ a # b /\ a # p /\ b # p /\ b # G.r /\ a # G.r
        /\ G.P[a] = p /\ G.P[b] = p /\ G.h[a] = G.h[p] - 1 /\ G.h[b] = G.h[a]
    BY <1>6, Junta
  <2> QED BY <2>1, <1>l DEF J
<1>8. /\ J.r = G.r /\ J.C = G.C \ {b} /\ J.N = G.N
      /\ \A y \in G.C \ {b} : J.h[y] = G.h[y]
      /\ J.P[a] = p
  <2>1. /\ J.r = G.r /\ J.C = G.C \ {b} /\ J.N = G.N
        /\ J.h = [y \in G.C \ {b} |-> G.h[y]]
        /\ J.P = [y \in G.C \ {b} |-> IF G.P[y] = b THEN a ELSE G.P[y]]
    BY DEF J, Unido
  <2> QED BY <2>1, <1>4, <1>7
<1>9. M[a].ll = t /\ M[a].ant = D[a].ant /\ M[p].ll = RemoveAt(c.ll, s) /\ M[p].ant = c.ant
  BY <1>m DEF Klug
<1>10. e \in Casillas /\ t \in Seq(Casillas) /\ \A n \in 1..Len(t) : t[n] \in Casillas
  <2>1. Sabido(G, D[a], Len(D[a].ll), a) /\ Sabido(G, D[b], Len(D[b].ll), b)
    BY <1>4, DeNodo
  <2>2. D[a].ll \in Seq(Casillas) /\ D[b].ll \in Seq(Casillas) /\ D[b].ant \in Nat
    BY <2>1 DEF Sabido
  <2>3. e \in Casillas
    BY <2>2, <1>3, <1>l DEF Casillas, Ranura
  <2> DEFINE u == D[a].ll
             v == D[b].ll
  <2>4. u \in Seq(Casillas) /\ v \in Seq(Casillas) /\ t = Append(u, e) \o v
    BY <2>2, <1>l
  <2> HIDE DEF u, v
  <2>5. /\ Append(u, e) \o v \in Seq(Casillas)
        /\ Len(Append(u, e) \o v) = Len(u) + 1 + Len(v)
        /\ \A n \in 1..Len(u)+1+Len(v) : (Append(u, e) \o v)[n] =
               IF n <= Len(u) THEN u[n] ELSE IF n = Len(u) + 1 THEN e ELSE v[n - Len(u) - 1]
    BY <2>3, <2>4, Junto
  <2>6. t \in Seq(Casillas)
    BY <2>4, <2>5
  <2> QED BY <2>3, <2>6, ElementOfSeq
<1> DEFINE y0 == Ranura(t[m].k, t[m].nm, b)
<1>11. y0 \in Casillas /\ c.ll[s].may = b
  <2>1. c.ll[s].may = b
    BY <1>1, <1>3 DEF Hijo
  <2> QED BY <2>1, <1>1, <1>4, <1>c, <1>10 DEF Casillas, Ranura
<1>12. /\ InsertAt(RemoveAt(c.ll, s), s, y0) = [c.ll EXCEPT ![s] = y0]
       /\ Len(RemoveAt(c.ll, s)) = Len(c.ll) - 1
  <2> DEFINE u == c.ll
  <2>1. u \in Seq(Casillas) /\ s \in 1..Len(u) /\ y0 \in Casillas
    BY <1>1, <1>3, <1>11
  <2> HIDE DEF u, y0
  <2>2. InsertAt(RemoveAt(u, s), s, y0) = [u EXCEPT ![s] = y0] /\ Len(RemoveAt(u, s)) = Len(u) - 1
    BY <2>1, Repuesto
  <2> QED BY <2>2 DEF u
<1>13. E[p] = Klug(M[p].ant, InsertAt(M[p].ll, s, y0))
  BY <1>1, <1>9, <1>11, <1>12
<1>14. s \in 1..Len(M[p].ll)+1 /\ Hijo(M[p], s - 1) = a
  <2>1. Len(M[p].ll) + 1 = l
    BY <1>3, <1>9, <1>12
  <2>2. CASE s = 1
    BY <2>1, <2>2, <1>1, <1>9 DEF Hijo
  <2>3. CASE s # 1
    <3>1. s - 1 \in 1..l-1 /\ s - 1 < s /\ s - 1 # 0
      BY <2>3, <1>1, <1>3
    <3> DEFINE u == c.ll
    <3>2. u \in Seq(Casillas) /\ s \in 1..Len(u) /\ Len(u) = l
      BY <1>1, <1>3
    <3> HIDE DEF u
    <3>3. /\ RemoveAt(u, s) \in Seq(Casillas)
          /\ Len(RemoveAt(u, s)) = Len(u) - 1
          /\ \A n \in 1..Len(u)-1 : RemoveAt(u, s)[n] = IF n < s THEN u[n] ELSE u[n + 1]
      BY <3>2, Sacado
    <3>4. RemoveAt(u, s)[s - 1] = u[s - 1]
      BY <3>1, <3>2, <3>3
    <3>5. M[p].ll[s - 1] = c.ll[s - 1]
      BY <3>4, <1>9 DEF u
    <3> QED BY <2>1, <3>1, <3>5, <1>1 DEF Hijo
  <2> QED BY <2>2, <2>3
<1>15. Division(M, E, J, a, b, m, s)
  <2>1. a \in J.C /\ a # J.r /\ b \in Nat \ {0} /\ b \notin J.C /\ J.P[a] = p
    BY <1>4, <1>7, <1>8, <1>c
  <2>2. \A y \in J.C \ {a, p} : E[y] = M[y]
    BY <1>1, <1>m, <1>8
  <2>3. m \in 1..Len(M[a].ll)
        /\ E[a] = Klug(M[a].ant, SubSeq(M[a].ll, 1, m - 1))
        /\ E[b] = Klug(M[a].ll[m].may, SubSeq(M[a].ll, m + 1, Len(M[a].ll)))
    BY <1>1, <1>9
  <2>4. E[p] = Klug(M[p].ant, InsertAt(M[p].ll, s, Ranura(M[a].ll[m].k, M[a].ll[m].nm, b)))
    BY <1>9, <1>13
  <2> HIDE DEF y0
  <2> QED BY <2>1, <2>2, <2>3, <2>4, <1>14 DEF Division
<1>16. Arbol(E, I)
  BY <1>7, <1>9, <1>15, Divide DEF I
<1>17. Igual(G, I)
  <2>1. /\ I.r = J.r /\ I.C = J.C \cup {b} /\ I.N = J.N
        /\ I.h = [y \in J.C \cup {b} |-> IF y = b THEN J.h[a] ELSE J.h[y]]
    BY DEF I, Dividido
  <2> QED BY <2>1, <1>4, <1>7, <1>8 DEF Igual
<1> QED BY <1>16, <1>17

\* Three used blocks are written again.
LEMMA TresRenu ==
    ASSUME NEW g, NEW Y, NEW x, NEW y, NEW z, NEW bx, NEW by, NEW bz, Disco(g, Y),
           x \in Y /\ y \in Y /\ z \in Y /\ x # y /\ x # z /\ y # z,
           ~EsLibre(bx) /\ ~EsLibre(by) /\ ~EsLibre(bz)
    PROVE  LET w == Renu(Renu(Renu(g, x, bx), y, by), z, bz)
           IN  /\ Disco(w, Y) /\ w.dsk[x] = bx /\ w.dsk[y] = by /\ w.dsk[z] = bz
               /\ \A q \in Y \ {x, y, z} : w.dsk[q] = g.dsk[q]
               /\ w.kpos = g.kpos /\ w.vpk = g.vpk
<1> DEFINE u == Renu(g, x, bx)
           v == Renu(u, y, by)
           w == Renu(v, z, bz)
<1>d. u = Renu(g, x, bx) /\ v = Renu(u, y, by) /\ w = Renu(v, z, bz)
  OBVIOUS
<1> HIDE DEF u, v, w
<1>1. Escrito(g, u, Y, x, bx)
  BY <1>d, RenuEs
<1>2. Escrito(u, v, Y, y, by)
  <2>1. Disco(u, Y)
    BY <1>1 DEF Escrito
  <2> QED BY <2>1, <1>d, RenuEs
<1>3. Escrito(v, w, Y, z, bz)
  <2>1. Disco(v, Y)
    BY <1>2 DEF Escrito
  <2> QED BY <2>1, <1>d, RenuEs
<1>4. /\ Disco(w, Y) /\ w.dsk[x] = bx /\ w.dsk[y] = by /\ w.dsk[z] = bz
      /\ \A q \in Y \ {x, y, z} : w.dsk[q] = g.dsk[q]
      /\ w.kpos = g.kpos /\ w.vpk = g.vpk
  BY <1>1, <1>2, <1>3 DEF Escrito
<1> QED BY <1>4 DEF u, v, w

\* The clusters a and b are at the sides of slot sep of p.
Vecinas(g, Y, H, p, sep, a, b, hoja) ==
    /\ Disco(g, Y) /\ Arbol(g.dsk, H) /\ H.C \subseteq Y
    /\ p \in H.C /\ H.h[p] # 0 /\ sep \in 1..Len(g.dsk[p].ll)
    /\ a = Hijo(g.dsk[p], sep - 1) /\ b = Hijo(g.dsk[p], sep)
    /\ hoja \in BOOLEAN /\ (hoja => H.h[p] = 1)

\* What is known of them.
LEMMA VecinasEs ==
    ASSUME NEW g, NEW Y, NEW H, NEW p, NEW sep, NEW a, NEW b, NEW hoja,
           Vecinas(g, Y, H, p, sep, a, b, hoja)
    PROVE  LET D == g.dsk
               e == Ranura(D[p].ll[sep].k, D[p].ll[sep].nm, D[b].ant)
           IN  /\ a \in H.C /\ b \in H.C /\ a # b /\ a # p /\ b # p /\ a # H.r /\ b # H.r
               /\ H.h[a] = H.h[p] - 1 /\ H.h[b] = H.h[p] - 1 /\ H.h[p] \in Nat
               /\ D[a].ll \in Seq(Casillas) /\ D[b].ll \in Seq(Casillas) /\ D[p].ll \in Seq(Casillas)
               /\ DeArriba(g, p, b, sep, hoja) = e /\ e \in Casillas
               /\ hoja => D[b].ant = 0
               /\ hoja => \A n \in 1..Len(D[a].ll) : D[a].ll[n].may = 0
               /\ hoja => \A n \in 1..Len(D[b].ll) : D[b].ll[n].may = 0
               /\ D[p] = Klug(D[p].ant, D[p].ll)
<1> DEFINE D == g.dsk
           c == D[p]
           l == Len(c.ll)
           e == Ranura(c.ll[sep].k, c.ll[sep].nm, D[b].ant)
<1>1. /\ Arbol(D, H) /\ p \in H.C /\ H.h[p] # 0 /\ sep \in 1..l
      /\ a = Hijo(c, sep - 1) /\ b = Hijo(c, sep)
      /\ hoja \in BOOLEAN /\ (hoja => H.h[p] = 1)
  BY DEF Vecinas
<1>2. Sabido(H, c, l, p)
  BY <1>1, DeNodo
<1>3. /\ l \in Nat /\ c.ll \in Seq(Casillas) /\ c = Klug(c.ant, c.ll)
      /\ \A n \in 0..l : Cotas(H, c, p, n) /\ Hijo(c, n) # H.r
      /\ \A m, n \in 0..l : Hijo(c, m) = Hijo(c, n) => m = n
      /\ c.ll[sep] \in Casillas /\ H.h[p] \in Nat
  BY <1>1, <1>2 DEF Sabido
<1>4. sep - 1 \in 0..l /\ sep \in 0..l /\ sep - 1 # sep
  <2> HIDE DEF l, c
  <2> QED BY <1>1, <1>3
<1>5. /\ a \in H.C /\ b \in H.C /\ a # b /\ a # p /\ b # p /\ a # H.r /\ b # H.r
      /\ H.h[a] = H.h[p] - 1 /\ H.h[b] = H.h[p] - 1
  <2> HIDE DEF l, c
  <2>1. Cotas(H, c, p, sep - 1) /\ Cotas(H, c, p, sep)
    BY <1>3, <1>4
  <2> QED BY <2>1, <1>1, <1>3, <1>4 DEF Cotas
<1>6. Sabido(H, D[a], Len(D[a].ll), a) /\ Sabido(H, D[b], Len(D[b].ll), b)
  BY <1>1, <1>5, DeNodo
<1>7. /\ D[a].ll \in Seq(Casillas) /\ D[b].ll \in Seq(Casillas) /\ D[b].ant \in Nat
      /\ Len(D[a].ll) \in Nat /\ Len(D[b].ll) \in Nat
  BY <1>6 DEF Sabido
<1>8. ASSUME hoja
      PROVE  /\ D[b].ant = 0
             /\ \A n \in 1..Len(D[a].ll) : D[a].ll[n].may = 0
             /\ \A n \in 1..Len(D[b].ll) : D[b].ll[n].may = 0
  <2>1. H.h[a] = 0 /\ H.h[b] = 0
    BY <1>1, <1>5, <1>8
  <2>2. /\ \A n \in 0..Len(D[a].ll) : Hijo(D[a], n) = 0
        /\ \A n \in 0..Len(D[b].ll) : Hijo(D[b], n) = 0
    BY <2>1, <1>6 DEF Sabido
  <2> DEFINE u == D[a]
             v == D[b]
             la == Len(u.ll)
             lb == Len(v.ll)
  <2>3. /\ \A n \in 0..la : Hijo(u, n) = 0
        /\ \A n \in 0..lb : Hijo(v, n) = 0
        /\ la \in Nat /\ lb \in Nat
    BY <2>2, <1>7
  <2> HIDE DEF u, v, la, lb
  <2>4. /\ v.ant = 0 /\ \A n \in 1..la : u.ll[n].may = 0
        /\ \A n \in 1..lb : v.ll[n].may = 0
    BY <2>3 DEF Hijo
  <2> QED BY <2>4 DEF u, v, la, lb
<1>9. DeArriba(g, p, b, sep, hoja) = e
  BY <1>1, <1>8 DEF DeArriba, Mueve
<1>10. e \in Casillas
  BY <1>3, <1>7 DEF Casillas, Ranura
<1> QED BY <1>3, <1>5, <1>7, <1>8, <1>9, <1>10

\* What a loan between them leaves: na and nb slots.
Prestado(g, w, Y, H, p, a, b, na, nb) ==
    /\ Disco(w, Y) /\ \A y \in Y \ {a, b, p} : w.dsk[y] = g.dsk[y]
    /\ w.kpos = g.kpos /\ w.vpk = g.vpk
    /\ Len(w.dsk[p].ll) = Len(g.dsk[p].ll) /\ Len(w.dsk[a].ll) = na /\ Len(w.dsk[b].ll) = nb
    /\ \E I : Arbol(w.dsk, I) /\ Igual(H, I)

\* A loan from the left one.
LEMMA PrestaIzqEs ==
    ASSUME NEW g, NEW Y, NEW H, NEW p, NEW sep, NEW a, NEW b, NEW hoja,
           Vecinas(g, Y, H, p, sep, a, b, hoja), Len(g.dsk[a].ll) >= 1
    PROVE  Prestado(g, PrestaIzq(g, a, p, b, sep, hoja), Y, H, p, a, b,
                    Len(g.dsk[a].ll) - 1, Len(g.dsk[b].ll) + 1)
<1> DEFINE D == g.dsk
           e == Ranura(D[p].ll[sep].k, D[p].ll[sep].nm, D[b].ant)
           u == D[a].ll
           v == D[b].ll
           la == Len(u)
           lb == Len(v)
           t == Append(u, e) \o v
           s == Ult(D[a])
           bb == Klug(IF hoja THEN D[b].ant ELSE s.may, <<DeArriba(g, p, b, sep, hoja)>> \o v)
           ba == Klug(D[a].ant, Front(u))
           bp == Separa(D[p], sep, s)
           w == PrestaIzq(g, a, p, b, sep, hoja)
           E == w.dsk
<1>1. /\ a \in H.C /\ b \in H.C /\ a # b /\ a # p /\ b # p /\ a # H.r /\ b # H.r
      /\ H.h[a] = H.h[p] - 1 /\ H.h[b] = H.h[p] - 1 /\ H.h[p] \in Nat
      /\ u \in Seq(Casillas) /\ v \in Seq(Casillas) /\ D[p].ll \in Seq(Casillas)
      /\ DeArriba(g, p, b, sep, hoja) = e /\ e \in Casillas
      /\ hoja => D[b].ant = 0
      /\ hoja => \A n \in 1..la : u[n].may = 0
      /\ hoja => \A n \in 1..lb : v[n].may = 0
      /\ D[p] = Klug(D[p].ant, D[p].ll)
  BY VecinasEs
<1>2. /\ Disco(g, Y) /\ Arbol(D, H) /\ H.C \subseteq Y /\ p \in H.C /\ H.h[p] # 0
      /\ sep \in 1..Len(D[p].ll) /\ a = Hijo(D[p], sep - 1) /\ b = Hijo(D[p], sep)
  BY DEF Vecinas
<1>3. w = Renu(Renu(Renu(g, b, bb), a, ba), p, bp)
  BY DEF PrestaIzq
<1>4. s = u[la] /\ la >= 1
  BY DEF Ult
<1>5. /\ t \in Seq(Casillas) /\ Len(t) = la + 1 + lb
      /\ SubSeq(t, la + 1, Len(t)) = <<e>> \o v
      /\ SubSeq(t, 1, la - 1) = Front(u) /\ t[la] = u[la]
      /\ Len(Front(u)) = la - 1 /\ la \in Nat /\ lb \in Nat
  <2>1. u \in Seq(Casillas) /\ e \in Casillas /\ v \in Seq(Casillas)
    BY <1>1
  <2>0. t = Append(u, e) \o v /\ la = Len(u) /\ lb = Len(v) /\ la >= 1
    BY <1>4
  <2> HIDE DEF u, e, v, t, la, lb
  <2>2. Piezas(u, e, v, t)
    BY <2>0, <2>1, Pedazos
  <2> QED BY <2>0, <2>2 DEF Piezas
<1>6. la \in Nat /\ lb \in Nat /\ la \in 1..la /\ la \in 1..Len(t)
  <2> HIDE DEF la, lb, t
  <2> QED BY <1>4, <1>5
<1>7. (IF hoja THEN D[b].ant ELSE s.may) = t[la].may
  BY <1>1, <1>4, <1>5, <1>6
<1>8. bp = Klug(D[p].ant, [D[p].ll EXCEPT ![sep] = Ranura(t[la].k, t[la].nm, @.may)])
  <2> DEFINE c == D[p]
             r == Ranura(s.k, s.nm, c.ll[sep].may)
  <2>1. bp = [c EXCEPT !.ll[sep] = Ranura(s.k, s.nm, @.may)]
    BY DEF Separa
  <2>2. c = Klug(c.ant, c.ll) /\ sep \in DOMAIN c.ll
    BY <1>1, <1>2, LenProperties
  <2>3. [c EXCEPT !.ll[sep] = Ranura(s.k, s.nm, @.may)] = [c EXCEPT !.ll = [c.ll EXCEPT ![sep] = r]]
    OBVIOUS
  <2>4. [c EXCEPT !.ll = [c.ll EXCEPT ![sep] = r]] = Klug(c.ant, [c.ll EXCEPT ![sep] = r])
    <3> HIDE DEF c, r
    <3> QED BY <2>2 DEF Klug
  <2>5. [c.ll EXCEPT ![sep] = r] = [c.ll EXCEPT ![sep] = Ranura(t[la].k, t[la].nm, @.may)]
    BY <1>4, <1>5
  <2> QED BY <2>1, <2>3, <2>4, <2>5
<1>9. ~EsLibre(bb) /\ ~EsLibre(ba) /\ ~EsLibre(bp)
  BY <1>8, KlugEs
<1>10. bb = Klug(t[la].may, SubSeq(t, la + 1, Len(t))) /\ ba = Klug(D[a].ant, SubSeq(t, 1, la - 1))
  BY <1>1, <1>5, <1>7
<1>11. Len(Front(u)) = la - 1 /\ Len(<<e>> \o v) = lb + 1
  <2>1. Len(Front(u)) = la - 1
    BY <1>5
  <2>2. Len(<<e>> \o v) = lb + 1
    <3> HIDE DEF e, v
    <3> QED BY <1>1
  <2> QED BY <2>1, <2>2
<1>z. t = Append(D[a].ll, Ranura(D[p].ll[sep].k, D[p].ll[sep].nm, D[b].ant)) \o D[b].ll
  OBVIOUS
<1>y. E = w.dsk /\ w = PrestaIzq(g, a, p, b, sep, hoja) /\ la = Len(g.dsk[a].ll) /\ lb = Len(g.dsk[b].ll)
      /\ D = g.dsk
  OBVIOUS
<1>x. bb.ll = <<e>> \o v /\ ba.ll = Front(u) /\ bp.ll = [D[p].ll EXCEPT ![sep] = Ranura(t[la].k, t[la].nm, @.may)]
  <2> HIDE DEF D, e, u, v, la, t, bp
  <2> QED BY <1>1, <1>8 DEF Klug
<1> HIDE DEF D, e, u, v, la, lb, t, s, bb, ba, bp, w, E
<1>12. /\ Disco(w, Y) /\ w.dsk[b] = bb /\ w.dsk[a] = ba /\ w.dsk[p] = bp
       /\ \A q \in Y \ {b, a, p} : w.dsk[q] = g.dsk[q]
       /\ w.kpos = g.kpos /\ w.vpk = g.vpk
  <2>1. Disco(g, Y) /\ b \in Y /\ a \in Y /\ p \in Y /\ b # a /\ b # p /\ a # p
    BY <1>1, <1>2
  <2> QED BY <2>1, <1>3, <1>9, TresRenu
<1>13. Girado(D, E, H, p, sep, a, b, la)
  <2>1. E[a] = Klug(D[a].ant, SubSeq(t, 1, la - 1)) /\ E[b] = Klug(t[la].may, SubSeq(t, la + 1, Len(t)))
    BY <1>10, <1>12, <1>y
  <2>2. E[p] = Klug(D[p].ant, [D[p].ll EXCEPT ![sep] = Ranura(t[la].k, t[la].nm, @.may)])
    BY <1>8, <1>12, <1>y
  <2>3. \A y \in H.C \ {a, b, p} : E[y] = D[y]
    BY <1>2, <1>12, <1>y
  <2> QED BY <2>1, <2>2, <2>3, <1>2, <1>6, <1>z DEF Girado
<1>14. \E I : Arbol(E, I) /\ Igual(H, I)
  BY <1>2, <1>13, GiraEs
<1>15. Len(w.dsk[p].ll) = Len(D[p].ll)
  <2> DEFINE c == D[p].ll
             r == Ranura(t[la].k, t[la].nm, c[sep].may)
  <2>1. w.dsk[p].ll = [c EXCEPT ![sep] = r] /\ c \in Seq(Casillas)
    BY <1>1, <1>12, <1>x
  <2> HIDE DEF c, r
  <2>2. Len([c EXCEPT ![sep] = r]) = Len(c)
    BY <2>1
  <2> QED BY <2>1, <2>2 DEF c
<1>16. Len(w.dsk[a].ll) = la - 1 /\ Len(w.dsk[b].ll) = lb + 1
  BY <1>11, <1>12, <1>x
<1>17. Prestado(g, w, Y, H, p, a, b, la - 1, lb + 1)
  BY <1>12, <1>14, <1>15, <1>16, <1>y DEF Prestado
<1> QED BY <1>17, <1>y

\* A loan from the right one.
LEMMA PrestaDerEs ==
    ASSUME NEW g, NEW Y, NEW H, NEW p, NEW sep, NEW a, NEW b, NEW hoja,
           Vecinas(g, Y, H, p, sep, a, b, hoja), Len(g.dsk[b].ll) >= 1
    PROVE  Prestado(g, PrestaDer(g, a, p, b, sep, hoja), Y, H, p, a, b,
                    Len(g.dsk[a].ll) + 1, Len(g.dsk[b].ll) - 1)
<1> DEFINE D == g.dsk
           e == Ranura(D[p].ll[sep].k, D[p].ll[sep].nm, D[b].ant)
           u == D[a].ll
           v == D[b].ll
           la == Len(u)
           lb == Len(v)
           t == Append(u, e) \o v
           m == la + 2
           s == v[1]
           bb == Klug(IF hoja THEN D[b].ant ELSE s.may, Tail(v))
           ba == Klug(D[a].ant, Append(u, DeArriba(g, p, b, sep, hoja)))
           bp == Separa(D[p], sep, s)
           w == PrestaDer(g, a, p, b, sep, hoja)
           E == w.dsk
<1>1. /\ a \in H.C /\ b \in H.C /\ a # b /\ a # p /\ b # p /\ a # H.r /\ b # H.r
      /\ H.h[a] = H.h[p] - 1 /\ H.h[b] = H.h[p] - 1 /\ H.h[p] \in Nat
      /\ u \in Seq(Casillas) /\ v \in Seq(Casillas) /\ D[p].ll \in Seq(Casillas)
      /\ DeArriba(g, p, b, sep, hoja) = e /\ e \in Casillas
      /\ hoja => D[b].ant = 0
      /\ hoja => \A n \in 1..la : u[n].may = 0
      /\ hoja => \A n \in 1..lb : v[n].may = 0
      /\ D[p] = Klug(D[p].ant, D[p].ll)
  BY VecinasEs
<1>2. /\ Disco(g, Y) /\ Arbol(D, H) /\ H.C \subseteq Y /\ p \in H.C /\ H.h[p] # 0
      /\ sep \in 1..Len(D[p].ll) /\ a = Hijo(D[p], sep - 1) /\ b = Hijo(D[p], sep)
  BY DEF Vecinas
<1>3. w = Renu(Renu(Renu(g, a, ba), b, bb), p, bp)
  BY DEF PrestaDer
<1>4. s = v[1] /\ lb >= 1
  OBVIOUS
<1>5. /\ t \in Seq(Casillas) /\ Len(t) = la + 1 + lb
      /\ SubSeq(t, 1, la + 1) = Append(u, e)
      /\ SubSeq(t, la + 3, Len(t)) = Tail(v) /\ t[la + 2] = v[1]
      /\ Len(Tail(v)) = lb - 1 /\ la \in Nat /\ lb \in Nat
  <2>1. u \in Seq(Casillas) /\ e \in Casillas /\ v \in Seq(Casillas)
    BY <1>1
  <2>0. t = Append(u, e) \o v /\ la = Len(u) /\ lb = Len(v) /\ lb >= 1
    BY <1>4
  <2> HIDE DEF u, e, v, t, la, lb
  <2>2. Piezas(u, e, v, t)
    BY <2>0, <2>1, Pedazos
  <2> QED BY <2>0, <2>2 DEF Piezas
<1>6. la \in Nat /\ lb \in Nat /\ 1 \in 1..lb /\ m \in 1..Len(t) /\ m = la + 2 /\ m - 1 = la + 1 /\ m + 1 = la + 3
  <2> HIDE DEF la, lb, t, v
  <2> QED BY <1>4, <1>5
<1>7. (IF hoja THEN D[b].ant ELSE s.may) = t[m].may
  BY <1>1, <1>4, <1>5, <1>6
<1>8. bp = Klug(D[p].ant, [D[p].ll EXCEPT ![sep] = Ranura(t[m].k, t[m].nm, @.may)])
  <2> DEFINE c == D[p]
             r == Ranura(s.k, s.nm, c.ll[sep].may)
  <2>1. bp = [c EXCEPT !.ll[sep] = Ranura(s.k, s.nm, @.may)]
    BY DEF Separa
  <2>2. c = Klug(c.ant, c.ll) /\ sep \in DOMAIN c.ll
    BY <1>1, <1>2, LenProperties
  <2>3. [c EXCEPT !.ll[sep] = Ranura(s.k, s.nm, @.may)] = [c EXCEPT !.ll = [c.ll EXCEPT ![sep] = r]]
    OBVIOUS
  <2>4. [c EXCEPT !.ll = [c.ll EXCEPT ![sep] = r]] = Klug(c.ant, [c.ll EXCEPT ![sep] = r])
    <3> HIDE DEF c, r
    <3> QED BY <2>2 DEF Klug
  <2>5. [c.ll EXCEPT ![sep] = r] = [c.ll EXCEPT ![sep] = Ranura(t[m].k, t[m].nm, @.may)]
    BY <1>4, <1>5, <1>6
  <2> QED BY <2>1, <2>3, <2>4, <2>5
<1>9. ~EsLibre(bb) /\ ~EsLibre(ba) /\ ~EsLibre(bp)
  BY <1>8, KlugEs
<1>10. bb = Klug(t[m].may, SubSeq(t, m + 1, Len(t))) /\ ba = Klug(D[a].ant, SubSeq(t, 1, m - 1))
  BY <1>1, <1>5, <1>6, <1>7
<1>11. Len(Tail(v)) = lb - 1 /\ Len(Append(u, e)) = la + 1
  <2>1. Len(Tail(v)) = lb - 1
    BY <1>5
  <2>2. Len(Append(u, e)) = la + 1
    <3> HIDE DEF e, u
    <3> QED BY <1>1
  <2> QED BY <2>1, <2>2
<1>z. t = Append(D[a].ll, Ranura(D[p].ll[sep].k, D[p].ll[sep].nm, D[b].ant)) \o D[b].ll
  OBVIOUS
<1>y. E = w.dsk /\ w = PrestaDer(g, a, p, b, sep, hoja) /\ la = Len(g.dsk[a].ll) /\ lb = Len(g.dsk[b].ll)
      /\ D = g.dsk
  OBVIOUS
<1>x. bb.ll = Tail(v) /\ ba.ll = Append(u, e) /\ bp.ll = [D[p].ll EXCEPT ![sep] = Ranura(t[m].k, t[m].nm, @.may)]
  <2> HIDE DEF D, e, u, v, la, t, bp, m
  <2> QED BY <1>1, <1>8 DEF Klug
<1> HIDE DEF D, e, u, v, la, lb, t, m, s, bb, ba, bp, w, E
<1>12. /\ Disco(w, Y) /\ w.dsk[b] = bb /\ w.dsk[a] = ba /\ w.dsk[p] = bp
       /\ \A q \in Y \ {a, b, p} : w.dsk[q] = g.dsk[q]
       /\ w.kpos = g.kpos /\ w.vpk = g.vpk
  <2>1. Disco(g, Y) /\ b \in Y /\ a \in Y /\ p \in Y /\ a # b /\ a # p /\ b # p
    BY <1>1, <1>2
  <2> QED BY <2>1, <1>3, <1>9, TresRenu
<1>13. Girado(D, E, H, p, sep, a, b, m)
  <2>1. E[a] = Klug(D[a].ant, SubSeq(t, 1, m - 1)) /\ E[b] = Klug(t[m].may, SubSeq(t, m + 1, Len(t)))
    BY <1>10, <1>12, <1>y
  <2>2. E[p] = Klug(D[p].ant, [D[p].ll EXCEPT ![sep] = Ranura(t[m].k, t[m].nm, @.may)])
    BY <1>8, <1>12, <1>y
  <2>3. \A y \in H.C \ {a, b, p} : E[y] = D[y]
    BY <1>2, <1>12, <1>y
  <2> QED BY <2>1, <2>2, <2>3, <1>2, <1>6, <1>z DEF Girado
<1>14. \E I : Arbol(E, I) /\ Igual(H, I)
  BY <1>2, <1>13, GiraEs
<1>15. Len(w.dsk[p].ll) = Len(D[p].ll)
  <2> DEFINE c == D[p].ll
             r == Ranura(t[m].k, t[m].nm, c[sep].may)
  <2>1. w.dsk[p].ll = [c EXCEPT ![sep] = r] /\ c \in Seq(Casillas)
    BY <1>1, <1>12, <1>x
  <2> HIDE DEF c, r
  <2>2. Len([c EXCEPT ![sep] = r]) = Len(c)
    BY <2>1
  <2> QED BY <2>1, <2>2 DEF c
<1>16. Len(w.dsk[a].ll) = la + 1 /\ Len(w.dsk[b].ll) = lb - 1
  BY <1>11, <1>12, <1>x
<1>17. Prestado(g, w, Y, H, p, a, b, la + 1, lb - 1)
  BY <1>12, <1>14, <1>15, <1>16, <1>y DEF Prestado
<1> QED BY <1>17, <1>y

\* The slots of b, and the one between, go into a.
LEMMA UneEs ==
    ASSUME NEW g, NEW Y, NEW H, NEW p, NEW sep, NEW a, NEW b, NEW hoja,
           Vecinas(g, Y, H, p, sep, a, b, hoja)
    PROVE  LET D == g.dsk
               t == Append(D[a].ll, Ranura(D[p].ll[sep].k, D[p].ll[sep].nm, D[b].ant)) \o D[b].ll
           IN  /\ Escrito(g, Une(g, a, p, b, sep, hoja), Y, a, Klug(D[a].ant, t))
               /\ Len(t) = Len(D[a].ll) + 1 + Len(D[b].ll)
<1> DEFINE D == g.dsk
           e == Ranura(D[p].ll[sep].k, D[p].ll[sep].nm, D[b].ant)
           u == D[a].ll
           v == D[b].ll
           t == Append(u, e) \o v
           w == Une(g, a, p, b, sep, hoja)
           ba == Klug(D[a].ant, t)
<1>1. /\ a \in H.C /\ u \in Seq(Casillas) /\ v \in Seq(Casillas)
      /\ DeArriba(g, p, b, sep, hoja) = e /\ e \in Casillas
  BY VecinasEs
<1>2. Disco(g, Y) /\ a \in Y
  BY <1>1 DEF Vecinas
<1>3. w = Renu(g, a, ba)
  BY <1>1 DEF Une
<1>4. ~EsLibre(ba)
  BY KlugEs
<1>5. Len(t) = Len(u) + 1 + Len(v)
  <2> HIDE DEF u, v, e
  <2>1. Piezas(u, e, v, t)
    BY <1>1, Pedazos
  <2> QED BY <2>1 DEF Piezas
<1> HIDE DEF ba, w
<1>6. Escrito(g, w, Y, a, ba)
  BY <1>2, <1>3, <1>4, RenuEs
<1> QED BY <1>5, <1>6 DEF ba, w

\* What two clusters put together leave: the file w, with the blocks Z and the tree I.
Fundido(g, w, Y, H, p, a, b, Z, I) ==
    /\ Disco(w, Y \ Z) /\ \A y \in Y \ {a, b, p} : w.dsk[y] = g.dsk[y]
    /\ w.kpos = g.kpos /\ w.vpk = g.vpk
    /\ Len(w.dsk[a].ll) = Len(g.dsk[a].ll) + 1 + Len(g.dsk[b].ll)
    /\ Arbol(w.dsk, I) /\ I.C = H.C \ Z /\ I.N = H.N /\ \A y \in I.C : I.h[y] = H.h[y]

\* The two ways it ends: with the root of the tree in its place, and without it.
Fusion(g, w, Y, H, p, a, b) ==
    /\ Len(w.dsk[p].ll) = Len(g.dsk[p].ll) - 1
    /\ \E I : Fundido(g, w, Y, H, p, a, b, {b}, I) /\ I.r = H.r
Bajada(g, w, Y, H, p, a, b) ==
    /\ g.dsk[p].ant = a
    /\ \E I : Fundido(g, w, Y, H, p, a, b, {p, b}, I) /\ I.r = a

\* A cluster of two is freed, and the one over them has a slot less.
LEMMA FundeEs ==
    ASSUME NEW g, NEW Y, NEW H, NEW p, NEW sep, NEW a, NEW b, NEW hoja, NEW tam,
           Vecinas(g, Y, H, p, sep, a, b, hoja)
    PROVE  Fusion(g, Libera(Renu(Une(g, a, p, b, sep, hoja), p, Exclu(g.dsk[p], sep)), tam, b),
                  Y, H, p, a, b)
<1> DEFINE D == g.dsk
           e == Ranura(D[p].ll[sep].k, D[p].ll[sep].nm, D[b].ant)
           t == Append(D[a].ll, e) \o D[b].ll
           f1 == Une(g, a, p, b, sep, hoja)
           ba == Klug(D[a].ant, t)
           bp == Exclu(D[p], sep)
           f2 == Renu(f1, p, bp)
           w == Libera(f2, tam, b)
           x == D[p].ll[sep].k
           I == Unido(H, a, b, x)
<1>1. /\ a \in H.C /\ b \in H.C /\ a # b /\ a # p /\ b # p /\ a # H.r /\ b # H.r
      /\ D[p].ll \in Seq(Casillas) /\ D[p] = Klug(D[p].ant, D[p].ll)
  BY VecinasEs
<1>2. /\ Disco(g, Y) /\ Arbol(D, H) /\ H.C \subseteq Y /\ p \in H.C /\ H.h[p] # 0
      /\ sep \in 1..Len(D[p].ll) /\ a = Hijo(D[p], sep - 1) /\ b = Hijo(D[p], sep)
  BY DEF Vecinas
<1>3. Escrito(g, f1, Y, a, ba) /\ Len(t) = Len(D[a].ll) + 1 + Len(D[b].ll)
  BY UneEs
<1>4. bp = Klug(D[p].ant, RemoveAt(D[p].ll, sep))
  <2> DEFINE c == D[p]
  <2>1. c = Klug(c.ant, c.ll)
    BY <1>1
  <2> HIDE DEF c
  <2>2. Exclu(c, sep) = Klug(c.ant, RemoveAt(c.ll, sep))
    BY <2>1 DEF Exclu, Klug
  <2> QED BY <2>2 DEF c
<1>5. ~EsLibre(bp)
  BY <1>4, KlugEs
<1>6. Len(RemoveAt(D[p].ll, sep)) = Len(D[p].ll) - 1
  <2> DEFINE u == D[p].ll
  <2>1. u \in Seq(Casillas) /\ sep \in 1..Len(u)
    BY <1>1, <1>2
  <2> HIDE DEF u
  <2>2. /\ RemoveAt(u, sep) \in Seq(Casillas)
        /\ Len(RemoveAt(u, sep)) = Len(u) - 1
        /\ \A n \in 1..Len(u)-1 : RemoveAt(u, sep)[n] = IF n < sep THEN u[n] ELSE u[n + 1]
    BY <2>1, Sacado
  <2> QED BY <2>2 DEF u
<1>l. /\ f2 = Renu(f1, p, bp) /\ w = Libera(f2, tam, b) /\ D = g.dsk
      /\ t = Append(D[a].ll, Ranura(D[p].ll[sep].k, D[p].ll[sep].nm, D[b].ant)) \o D[b].ll
      /\ ba = Klug(D[a].ant, t) /\ x = D[p].ll[sep].k
  OBVIOUS
<1>x. ba.ll = t /\ bp.ll = RemoveAt(D[p].ll, sep)
  <2> HIDE DEF t, bp, D
  <2> QED BY <1>4 DEF Klug
<1> HIDE DEF D, e, t, f1, ba, bp, f2, w, x, I
<1>7. Escrito(f1, f2, Y, p, bp)
  <2>1. Disco(f1, Y) /\ p \in Y
    BY <1>2, <1>3 DEF Escrito
  <2> QED BY <2>1, <1>5, <1>l, RenuEs
<1>8. Suelto(f2, w, Y, b)
  <2>1. Disco(f2, Y) /\ b \in Y
    BY <1>1, <1>2, <1>7 DEF Escrito
  <2> QED BY <2>1, <1>l, LiberaEs
<1>9. /\ Disco(w, Y \ {b}) /\ w.dsk[a] = ba /\ w.dsk[p] = bp
      /\ \A y \in Y \ {a, b, p} : w.dsk[y] = D[y]
      /\ w.kpos = g.kpos /\ w.vpk = g.vpk
  BY <1>1, <1>2, <1>3, <1>7, <1>8, <1>l, ZenonT(40) DEF Escrito, Suelto
<1> DEFINE E == w.dsk
<1>10. Union(D, E, H, p, sep, a, b)
  <2>1. E[a] = Klug(D[a].ant, Append(D[a].ll, Ranura(D[p].ll[sep].k, D[p].ll[sep].nm, D[b].ant)) \o D[b].ll)
    BY <1>9, <1>l
  <2>2. E[p] = Klug(D[p].ant, RemoveAt(D[p].ll, sep))
    BY <1>9, <1>4
  <2>3. \A y \in H.C \ {a, b, p} : E[y] = D[y]
    BY <1>2, <1>9
  <2> HIDE DEF E
  <2> QED BY <2>1, <2>2, <2>3, <1>2 DEF Union
<1>11. Arbol(E, I)
  <2>1. /\ Arbol(E, Unido(H, a, b, D[p].ll[sep].k))
        /\ a \in H.C /\ b \in H.C /\ a # b /\ a # p /\ b # p /\ b # H.r /\ a # H.r
        /\ H.P[a] = p /\ H.P[b] = p /\ H.h[a] = H.h[p] - 1 /\ H.h[b] = H.h[a]
    <3> HIDE DEF E
    <3> QED BY <1>2, <1>10, Junta
  <2> QED BY <2>1, <1>l DEF I
<1>12. I.r = H.r /\ I.C = H.C \ {b} /\ I.N = H.N /\ \A y \in I.C : I.h[y] = H.h[y]
  <2>1. I.r = H.r /\ I.C = H.C \ {b} /\ I.N = H.N /\ I.h = [y \in H.C \ {b} |-> H.h[y]]
    BY DEF I, Unido
  <2> QED BY <2>1
<1>13. Fundido(g, w, Y, H, p, a, b, {b}, I)
  BY <1>3, <1>9, <1>11, <1>12, <1>l, <1>x DEF Fundido
<1>14. Len(w.dsk[p].ll) = Len(g.dsk[p].ll) - 1
  BY <1>6, <1>9, <1>l, <1>x
<1> QED BY <1>12, <1>13, <1>14 DEF w, f2, f1, bp, D, Fusion

\* The root of two, with a single slot, is freed too.
LEMMA BajaRaizEs ==
    ASSUME NEW g, NEW Y, NEW H, NEW p, NEW sep, NEW a, NEW b, NEW hoja, NEW tam,
           Vecinas(g, Y, H, p, sep, a, b, hoja), Len(g.dsk[p].ll) = 1, p = H.r
    PROVE  Bajada(g, Libera(Libera(Une(g, a, p, b, sep, hoja), tam, p), tam, b), Y, H, p, a, b)
<1> DEFINE D == g.dsk
           e == Ranura(D[p].ll[sep].k, D[p].ll[sep].nm, D[b].ant)
           t == Append(D[a].ll, e) \o D[b].ll
           f1 == Une(g, a, p, b, sep, hoja)
           ba == Klug(D[a].ant, t)
           bp == Klug(D[p].ant, RemoveAt(D[p].ll, sep))
           f2 == Libera(f1, tam, p)
           w == Libera(f2, tam, b)
           x == D[p].ll[sep].k
           J == Unido(H, a, b, x)
           I == Descoronado(J, a)
<1>1. /\ a \in H.C /\ b \in H.C /\ a # b /\ a # p /\ b # p /\ a # H.r /\ b # H.r
      /\ D[p].ll \in Seq(Casillas) /\ D[p] = Klug(D[p].ant, D[p].ll)
  BY VecinasEs
<1>2. /\ Disco(g, Y) /\ Arbol(D, H) /\ H.C \subseteq Y /\ p \in H.C /\ H.h[p] # 0
      /\ sep \in 1..Len(D[p].ll) /\ a = Hijo(D[p], sep - 1) /\ b = Hijo(D[p], sep)
  BY DEF Vecinas
<1>3. Escrito(g, f1, Y, a, ba) /\ Len(t) = Len(D[a].ll) + 1 + Len(D[b].ll)
  BY UneEs
<1>s. sep = 1 /\ D[p].ant = a
  BY <1>2 DEF Hijo
<1>6. Len(RemoveAt(D[p].ll, sep)) = 0
  <2> DEFINE u == D[p].ll
  <2>1. u \in Seq(Casillas) /\ sep \in 1..Len(u) /\ Len(u) = 1
    BY <1>1, <1>2
  <2> HIDE DEF u
  <2>2. /\ RemoveAt(u, sep) \in Seq(Casillas)
        /\ Len(RemoveAt(u, sep)) = Len(u) - 1
        /\ \A n \in 1..Len(u)-1 : RemoveAt(u, sep)[n] = IF n < sep THEN u[n] ELSE u[n + 1]
    BY <2>1, Sacado
  <2> QED BY <2>1, <2>2 DEF u
<1>l. /\ f2 = Libera(f1, tam, p) /\ w = Libera(f2, tam, b) /\ D = g.dsk
      /\ t = Append(D[a].ll, Ranura(D[p].ll[sep].k, D[p].ll[sep].nm, D[b].ant)) \o D[b].ll
      /\ ba = Klug(D[a].ant, t) /\ x = D[p].ll[sep].k
      /\ bp = Klug(D[p].ant, RemoveAt(D[p].ll, sep))
  OBVIOUS
<1>x. ba.ll = t /\ bp.ll = RemoveAt(D[p].ll, sep) /\ bp.ant = D[p].ant
  <2> HIDE DEF t, D
  <2> QED BY DEF Klug
<1>p. Puntos(D, H)
  BY <1>2, DePuntos
<1>c. H.C \subseteq Nat
  BY <1>p DEF Puntos
<1> HIDE DEF D, e, t, f1, ba, bp, f2, w, x, I, J
<1>7. Suelto(f1, f2, Y, p)
  <2>1. Disco(f1, Y) /\ p \in Y
    BY <1>2, <1>3 DEF Escrito
  <2> QED BY <2>1, <1>l, LiberaEs
<1>8. Suelto(f2, w, Y \ {p}, b)
  <2>1. Disco(f2, Y \ {p}) /\ b \in Y \ {p}
    BY <1>1, <1>2, <1>7 DEF Suelto
  <2> DEFINE Z == Y \ {p}
  <2>2. Disco(f2, Z) /\ b \in Z
    BY <2>1
  <2> HIDE DEF Z
  <2>3. Suelto(f2, w, Z, b)
    BY <2>2, <1>l, LiberaEs
  <2> QED BY <2>3 DEF Z
<1>9. /\ Disco(w, (Y \ {p}) \ {b}) /\ w.dsk[a] = ba
      /\ \A y \in Y \ {a, b, p} : w.dsk[y] = D[y]
      /\ w.kpos = g.kpos /\ w.vpk = g.vpk
  <2>1. /\ f1.dsk[a] = ba /\ f1.kpos = g.kpos /\ f1.vpk = g.vpk
        /\ \A y \in Y \ {a} : f1.dsk[y] = D[y]
    BY <1>3, <1>l DEF Escrito
  <2>2. f2.kpos = f1.kpos /\ f2.vpk = f1.vpk /\ \A y \in Y \ {p} : f2.dsk[y] = f1.dsk[y]
    BY <1>7 DEF Suelto
  <2>3. /\ Disco(w, (Y \ {p}) \ {b})
        /\ w.kpos = f2.kpos /\ w.vpk = f2.vpk /\ \A y \in (Y \ {p}) \ {b} : w.dsk[y] = f2.dsk[y]
    BY <1>8 DEF Suelto
  <2>4. a \in (Y \ {p}) \ {b}
    BY <1>1, <1>2
  <2>5. \A y \in Y \ {a, b, p} : w.dsk[y] = D[y]
    BY <2>1, <2>2, <2>3
  <2>6. w.dsk[a] = ba
    BY <2>1, <2>2, <2>3, <2>4
  <2> QED BY <2>1, <2>2, <2>3, <2>5, <2>6
<1> DEFINE M == [y \in Nat |-> IF y = p THEN bp ELSE IF y = a THEN ba ELSE D[y]]
<1>m. M[p] = bp /\ M[a] = ba /\ \A y \in H.C \ {a, p} : M[y] = D[y]
  BY <1>1, <1>2, <1>c
<1> HIDE DEF M
<1>10. Union(D, M, H, p, sep, a, b)
  <2>1. M[a] = Klug(D[a].ant, Append(D[a].ll, Ranura(D[p].ll[sep].k, D[p].ll[sep].nm, D[b].ant)) \o D[b].ll)
    BY <1>m, <1>l
  <2>2. M[p] = Klug(D[p].ant, RemoveAt(D[p].ll, sep))
    BY <1>m, <1>l
  <2>3. \A y \in H.C \ {a, b, p} : M[y] = D[y]
    BY <1>m
  <2> QED BY <2>1, <2>2, <2>3, <1>2 DEF Union
<1>11. Arbol(M, J)
  <2>1. /\ Arbol(M, Unido(H, a, b, D[p].ll[sep].k))
        /\ a \in H.C /\ b \in H.C /\ a # b /\ a # p /\ b # p /\ b # H.r /\ a # H.r
        /\ H.P[a] = p /\ H.P[b] = p /\ H.h[a] = H.h[p] - 1 /\ H.h[b] = H.h[a]
    BY <1>2, <1>10, Junta
  <2> QED BY <2>1, <1>l DEF J
<1>12. J.r = H.r /\ J.C = H.C \ {b} /\ J.N = H.N /\ \A y \in J.C : J.h[y] = H.h[y]
  <2>1. J.r = H.r /\ J.C = H.C \ {b} /\ J.N = H.N /\ J.h = [y \in H.C \ {b} |-> H.h[y]]
    BY DEF J, Unido
  <2> QED BY <2>1
<1> DEFINE E == w.dsk
<1>13. Arbol(E, I)
  <2>1. Len(M[J.r].ll) = 0 /\ J.h[J.r] # 0 /\ M[J.r].ant = a
    BY <1>1, <1>2, <1>6, <1>12, <1>m, <1>s, <1>x
  <2>2. \A y \in J.C \ {J.r} : E[y] = M[y]
    BY <1>1, <1>2, <1>9, <1>12, <1>m
  <2> HIDE DEF E
  <2>3. Arbol(E, Descoronado(J, M[J.r].ant)) /\ M[J.r].ant \in J.C \ {J.r}
    BY <2>1, <2>2, <1>11, Descorona
  <2> QED BY <2>1, <2>3 DEF I
<1>14. I.r = a /\ I.C = H.C \ {p, b} /\ I.N = H.N /\ \A y \in I.C : I.h[y] = H.h[y]
  <2>1. I.r = a /\ I.C = J.C \ {J.r} /\ I.N = J.N /\ I.h = [y \in J.C \ {J.r} |-> J.h[y]]
    BY DEF I, Descoronado
  <2> QED BY <2>1, <1>12
<1>15. Fundido(g, w, Y, H, p, a, b, {p, b}, I)
  <2>1. Y \ {p, b} = (Y \ {p}) \ {b}
    OBVIOUS
  <2> QED BY <2>1, <1>3, <1>9, <1>13, <1>14, <1>l, <1>x DEF Fundido
<1> QED BY <1>14, <1>15, <1>s DEF w, f2, f1, D, Bajada

\* A child that is neither the last one nor the second of two has a slot after it.
LEMMA NiUltima ==
    ASSUME NEW l \in Nat \ {0}, NEW k \in 1..l+1, ~(k > l /\ l > 1), ~(k = 1 \/ (k = 2 /\ l = 1))
    PROVE  k \in 1..l
  OBVIOUS

\* The two clusters of v are at the sides of a slot of p, and y is one of them.
AlLado(v, p, l, y) ==
    /\ v.sep \in 1..l /\ v.c1 = Hijo(p, v.sep - 1) /\ v.c3 = Hijo(p, v.sep)
    /\ y = v.c1 \/ y = v.c3

\* The neighbours that vdel takes are at the sides of a slot, and the cluster is one of them.
LEMMA VecinosEs ==
    ASSUME NEW g, NEW b, NEW i, NEW p, NEW l \in Nat \ {0}, p = g.dsk[b.clusan[i - 1]],
           l = Len(p.ll), b.k1[i - 1] \in 1..l+1, Hijo(p, b.k1[i - 1] - 1) = b.clusan[i]
    PROVE  AlLado(Vecinos(g, b, i), p, l, b.clusan[i])
<1> DEFINE k == b.k1[i - 1]
           y == b.clusan[i]
           v == Vecinos(g, b, i)
<1>1. v = IF k > l /\ l > 1 THEN [c1 |-> Hijo(p, k - 2), c3 |-> y, sep |-> k - 1]
          ELSE IF k = 1 \/ (k = 2 /\ l = 1)
          THEN [c1 |-> p.ant, c3 |-> p.ll[1].may, sep |-> 1]
          ELSE [c1 |-> y, c3 |-> Hijo(p, k), sep |-> k]
  BY DEF Vecinos
<1>2. k \in 1..l+1 /\ Hijo(p, k - 1) = y /\ Hijo(p, 0) = p.ant /\ Hijo(p, 1) = p.ll[1].may
  BY DEF Hijo
<1> HIDE DEF k, y, v
<1>3. CASE k > l /\ l > 1
  <2>1. v = [c1 |-> Hijo(p, k - 2), c3 |-> y, sep |-> k - 1] /\ k = l + 1
    BY <1>1, <1>2, <1>3, SMTT(30)
  <2>2. v.c1 = Hijo(p, k - 2) /\ v.c3 = y /\ v.sep = k - 1 /\ (k - 1) - 1 = k - 2 /\ k - 1 \in 1..l
    BY <2>1
  <2> QED BY <2>2, <1>2 DEF v, y, AlLado
<1>4. CASE ~(k > l /\ l > 1) /\ (k = 1 \/ (k = 2 /\ l = 1))
  <2>1. v = [c1 |-> p.ant, c3 |-> p.ll[1].may, sep |-> 1]
    BY <1>1, <1>4
  <2>2. v.c1 = Hijo(p, 0) /\ v.c3 = Hijo(p, 1) /\ v.sep = 1 /\ 1 \in 1..l
    BY <2>1, <1>2
  <2>3. y = Hijo(p, 0) \/ y = Hijo(p, 1)
    <3>1. k - 1 = 0 \/ k - 1 = 1
      BY <1>4
    <3> QED BY <3>1, <1>2
  <2> QED BY <2>2, <2>3 DEF v, y, AlLado
<1>5. CASE ~(k > l /\ l > 1) /\ ~(k = 1 \/ (k = 2 /\ l = 1))
  <2>0. k \in 1..l
    BY <1>2, <1>5, NiUltima
  <2>1. v = [c1 |-> y, c3 |-> Hijo(p, k), sep |-> k]
    BY <1>1, <1>5, Zenon
  <2> QED BY <2>0, <2>1, <1>2 DEF v, y, AlLado
<1> QED BY <1>3, <1>4, <1>5

\* While vdel goes up the way cl of the tree G, mending: the cluster at level n may have too
\* few slots, the rest of the tree is right and what is over that level is as it was.
Debe(f, X, G, cl, n, g, H) ==
    /\ Resto(f, g, X, G, H) /\ g.kpos = f.kpos /\ Arbol(g.dsk, H)
    /\ H.N = G.N /\ H.r = G.r /\ H.C \subseteq G.C
    /\ \A y \in H.C : H.h[y] = G.h[y]
    /\ \A l \in 1..n : cl[l] \in H.C
    /\ \A l \in 1..n-1 : g.dsk[cl[l]] = f.dsk[cl[l]]
    /\ \A y \in H.C \ {cl[n]} : Buena(g.dsk, H, y)
    /\ Len(g.dsk[cl[n]].ll) <= TK /\ (n > 1 => Len(g.dsk[cl[n]].ll) >= 1)
    /\ H.h[cl[n]] # 0 => Len(g.dsk[cl[n]].ll) >= 1

\* The tree that has lost its root.
Bajado(f, X, G, g, r, I) ==
    /\ Resto(f, g, X, G, I) /\ g.kpos = f.kpos /\ Arbol(g.dsk, I) /\ Llena(g.dsk, I)
    /\ I.N = G.N /\ I.r = r

\* The step up of that way, where the cluster has one slot.
Sube(f, X, G, cl, n, g, w) ==
    \/ w.r = 0 /\ \E I : Debe(f, X, G, cl, n - 1, w.f, I)
    \/ w.r = 1 /\ n = 2 /\ \E I : Bajado(f, X, G, w.f, g.dsk[cl[1]].ant, I)

\* Who is who when the cluster at level n of the way is mended.
Pareja(f, X, G, cl, k1, n, g, H, p, sep, a, b, hoja) ==
    /\ Vecinas(g, (X \ G.C) \cup H.C, H, p, sep, a, b, hoja)
    /\ p = cl[n - 1] /\ p \in H.C
    /\ \A l \in 1..n-1 : cl[l] # a /\ cl[l] # b /\ cl[l] \in H.C
    /\ \A l \in 1..n-2 : cl[l] # p
    /\ Buena(g.dsk, H, p) /\ Len(g.dsk[p].ll) \in Nat \ {0}
    /\ p = H.r => n = 2
    /\ Len(g.dsk[a].ll) \in 1..TK /\ Len(g.dsk[b].ll) \in 1..TK
    /\ \/ Len(g.dsk[a].ll) = 1 /\ Len(g.dsk[b].ll) >= 2
       \/ Len(g.dsk[b].ll) = 1 /\ Len(g.dsk[a].ll) >= 2
    /\ \A y \in H.C \ {a, b} : Buena(g.dsk, H, y)

\* The cluster and its neighbour.
LEMMA ParejaEs ==
    ASSUME NEW f, NEW X, NEW G, NEW cl, NEW k1, NEW n \in Nat, NEW g, NEW H, NEW b,
           Ruta(f.dsk, G, cl, k1), Arbol(f.dsk, G), n \in 2..Len(cl), G.h[cl[Len(cl)]] = 0,
           Debe(f, X, G, cl, n, g, H), Debil(g.dsk[cl[n]]), b.clusan = cl, b.k1 = k1
    PROVE  LET v == Vecinos(g, b, n)
           IN  Pareja(f, X, G, cl, k1, n, g, H, cl[n - 1], v.sep, v.c1, v.c3, n = Len(b.clusan))
<1> DEFINE p == cl[n - 1]
           z == cl[n]
           D == g.dsk
           Y == (X \ G.C) \cup H.C
           v == Vecinos(g, b, n)
           hoja == (n = Len(cl))
<1>1. /\ \A l \in 1..Len(cl) : cl[l] \in G.C /\ G.h[cl[l]] = G.h[G.r] - l + 1
      /\ \A l \in 1..Len(cl) : k1[l] \in 1..Len(f.dsk[cl[l]].ll)+1
      /\ \A l \in 1..Len(cl)-1 : Hijo(f.dsk[cl[l]], k1[l] - 1) = cl[l + 1]
      /\ Len(cl) \in Nat
  BY DEF Ruta
<1>2. n - 1 \in 1..Len(cl)-1 /\ n - 1 \in 1..n-1 /\ n - 1 \in 1..n /\ n \in 1..n /\ (n - 1) + 1 = n
      /\ n - 1 \in 1..Len(cl) /\ n \in 1..Len(cl)
  BY <1>1
<1>3. /\ Disco(g, Y) /\ Arbol(D, H) /\ H.C \subseteq Y /\ H.r = G.r
      /\ p \in H.C /\ z \in H.C /\ D[p] = f.dsk[p]
      /\ \A l \in 1..n : cl[l] \in H.C
      /\ \A y \in H.C : H.h[y] = G.h[y]
      /\ \A y \in H.C \ {z} : Buena(D, H, y)
      /\ Len(D[z].ll) <= TK /\ Len(D[z].ll) >= 1
  BY <1>2 DEF Debe, Resto
<1>4. G.h[G.r] \in Nat /\ \A y \in H.C : H.h[y] \in Nat
  <2>1. Puntos(f.dsk, G) /\ Puntos(D, H)
    BY <1>3, DePuntos
  <2> QED BY <2>1 DEF Puntos
<1> DEFINE l0 == Len(D[p].ll)
<1>5. l0 \in Nat /\ l0 = Len(D[p].ll)
  BY <1>3, DeNodo DEF Sabido
<1>6. \A l \in 1..n : H.h[cl[l]] = G.h[G.r] - l + 1
  <2> TAKE l \in 1..n
  <2>1. l \in 1..Len(cl)
    BY <1>1
  <2> QED BY <2>1, <1>1, <1>3
<1>7. H.h[p] = H.h[z] + 1 /\ H.h[p] # 0 /\ p # z /\ (hoja => H.h[p] = 1)
  <2>1. H.h[p] = G.h[G.r] - (n - 1) + 1 /\ H.h[z] = G.h[G.r] - n + 1
    BY <1>2, <1>6
  <2>2. hoja => H.h[z] = 0
    BY <1>3
  <2> HIDE DEF p, z, hoja
  <2> QED BY <2>1, <2>2, <1>3, <1>4, SMTT(30)
<1>8. Buena(D, H, p) /\ l0 \in Nat \ {0}
  <2>1. Buena(D, H, p)
    BY <1>3, <1>7
  <2> HIDE DEF p, D
  <2> QED BY <2>1, <1>5, <1>7 DEF Buena
<1>9. k1[n - 1] \in 1..l0+1 /\ Hijo(D[p], k1[n - 1] - 1) = z
  BY <1>1, <1>2, <1>3
<1>10. /\ v.sep \in 1..l0 /\ v.c1 = Hijo(D[p], v.sep - 1) /\ v.c3 = Hijo(D[p], v.sep)
       /\ z = v.c1 \/ z = v.c3
  <2> DEFINE q == D[p]
  <2>1. /\ q = g.dsk[b.clusan[n - 1]] /\ l0 = Len(q.ll) /\ l0 \in Nat \ {0}
        /\ b.k1[n - 1] \in 1..l0+1 /\ Hijo(q, b.k1[n - 1] - 1) = b.clusan[n]
    BY <1>8, <1>9
  <2> HIDE DEF q, l0, v
  <2>2. AlLado(Vecinos(g, b, n), q, l0, b.clusan[n])
    BY <2>1, VecinosEs
  <2> QED BY <2>2 DEF v, q, AlLado
<1> HIDE DEF v
<1> DEFINE a == v.c1
           c == v.c3
           s == v.sep
<1>11. Vecinas(g, Y, H, p, s, a, c, hoja)
  <2>1. hoja \in BOOLEAN
    OBVIOUS
  <2> HIDE DEF a, c, s, hoja, p, Y
  <2> QED BY <2>1, <1>3, <1>7, <1>10 DEF Vecinas, a, c, s, l0
<1>12. /\ a \in H.C /\ c \in H.C /\ a # c /\ a # p /\ c # p /\ a # H.r /\ c # H.r
       /\ H.h[a] = H.h[p] - 1 /\ H.h[c] = H.h[p] - 1
  <2> HIDE DEF a, c, s, hoja, p, Y
  <2> QED BY <1>11, VecinasEs
<1>13. Len(D[a].ll) \in Nat /\ Len(D[c].ll) \in Nat
  <2> HIDE DEF a, c, D
  <2> QED BY <1>3, <1>12, DeNodo DEF Sabido
<1> DEFINE L(y) == Len(D[y].ll)
<1> HIDE DEF a, c, s, hoja, p, Y, D, z, l0
<1>14. /\ L(a) \in 1..TK /\ L(c) \in 1..TK
       /\ \/ L(a) = 1 /\ L(c) >= 2
          \/ L(c) = 1 /\ L(a) >= 2
  <2>0. L(a) \in Nat /\ L(c) \in Nat
    BY <1>13
  <2>1. L(z) = 1
    <3>1. Debil(D[z])
      BY DEF D, z
    <3>2. L(z) \in Nat
      BY <1>10, <2>0 DEF a, c
    <3>3. L(z) >= 1 /\ L(z) < 2
      BY <3>1, <1>3 DEF Debil, D, z
    <3> HIDE DEF L
    <3> QED BY <3>2, <3>3
  <2>2. ASSUME NEW y \in H.C, y # z, y # H.r PROVE L(y) >= 2 /\ L(y) <= TK
    BY <2>2, <1>3 DEF Buena
  <2>3. TK = 4
    BY DEF TK
  <2> HIDE DEF L
  <2>4. CASE z = a
    <3>1. c \in H.C /\ c # z /\ c # H.r
      BY <2>4, <1>12
    <3>2. L(c) >= 2 /\ L(c) <= TK
      BY <3>1, <2>2
    <3>3. L(a) = 1 /\ L(c) \in Nat
      BY <2>0, <2>1, <2>4
    <3> QED BY <3>2, <3>3, <2>3
  <2>5. CASE z = c
    <3>1. a \in H.C /\ a # z /\ a # H.r
      BY <2>5, <1>12
    <3>2. L(a) >= 2 /\ L(a) <= TK
      BY <3>1, <2>2
    <3>3. L(c) = 1 /\ L(a) \in Nat
      BY <2>0, <2>1, <2>5
    <3> QED BY <3>2, <3>3, <2>3
  <2> QED BY <2>4, <2>5, <1>10 DEF a, c
<1>15. \A y \in H.C \ {a, c} : Buena(D, H, y)
  BY <1>3, <1>10 DEF a, c
<1>16. \A l \in 1..n-1 : cl[l] # a /\ cl[l] # c /\ cl[l] \in H.C
  <2> TAKE l \in 1..n-1
  <2>1. H.h[cl[l]] = G.h[G.r] - l + 1 /\ cl[l] \in H.C /\ l \in Nat /\ l <= n - 1
    BY <1>6, <1>3
  <2>2. H.h[p] = G.h[G.r] - (n - 1) + 1
    BY <1>2, <1>6 DEF p
  <2>3. H.h[cl[l]] # H.h[p] - 1
    BY <2>1, <2>2, <1>4
  <2> QED BY <2>1, <2>3, <1>12
<1>17. \A l \in 1..n-2 : cl[l] # p
  <2> TAKE l \in 1..n-2
  <2>1. l \in 1..n /\ H.h[cl[l]] = G.h[G.r] - l + 1 /\ l \in Nat /\ l <= n - 2
    BY <1>6
  <2>2. H.h[p] = G.h[G.r] - (n - 1) + 1
    BY <1>2, <1>6 DEF p
  <2> QED BY <2>1, <2>2, <1>4
<1>18. p = H.r => n = 2
  <2>1. H.h[p] = G.h[G.r] - (n - 1) + 1 /\ p \in H.C /\ H.r = G.r
    BY <1>2, <1>3, <1>6 DEF p
  <2>2. p = H.r => H.h[p] = G.h[G.r]
    BY <2>1, <1>3
  <2> QED BY <2>1, <2>2, <1>4
<1>19. Pareja(f, X, G, cl, k1, n, g, H, p, s, a, c, hoja)
  <2>1. p = cl[n - 1]
    BY DEF p
  <2> QED BY <2>1, <1>3, <1>8, <1>11, <1>14, <1>15, <1>16, <1>17, <1>18 DEF Pareja, D, Y, l0
<1> QED BY <1>19 DEF p, s, a, c, hoja, v

\* After a loan the way up goes on.
LEMMA PrestaSube ==
    ASSUME NEW f, NEW X, NEW G, NEW cl, NEW k1, NEW n \in Nat, NEW g, NEW H, NEW p, NEW sep,
           NEW a, NEW b, NEW hoja, NEW w, NEW na \in 2..TK, NEW nb \in 2..TK, n >= 2,
           Debe(f, X, G, cl, n, g, H), Pareja(f, X, G, cl, k1, n, g, H, p, sep, a, b, hoja),
           Prestado(g, w, (X \ G.C) \cup H.C, H, p, a, b, na, nb)
    PROVE  \E I : Debe(f, X, G, cl, n - 1, w, I)
<1> DEFINE Y == (X \ G.C) \cup H.C
           D == g.dsk
           E == w.dsk
<1>1. /\ Resto(f, g, X, G, H) /\ g.kpos = f.kpos /\ H.N = G.N /\ H.r = G.r /\ H.C \subseteq G.C
      /\ \A y \in H.C : H.h[y] = G.h[y]
      /\ \A l \in 1..n : cl[l] \in H.C
      /\ \A l \in 1..n-1 : D[cl[l]] = f.dsk[cl[l]]
  BY DEF Debe
<1>2. /\ Vecinas(g, Y, H, p, sep, a, b, hoja)
      /\ p = cl[n - 1] /\ p \in H.C
      /\ \A l \in 1..n-1 : cl[l] # a /\ cl[l] # b /\ cl[l] \in H.C
      /\ \A l \in 1..n-2 : cl[l] # p
      /\ Buena(D, H, p) /\ Len(D[p].ll) \in Nat \ {0}
      /\ \A y \in H.C \ {a, b} : Buena(D, H, y)
  BY DEF Pareja
<1>3. PICK I : Arbol(E, I) /\ Igual(H, I)
  BY DEF Prestado
<1>4. /\ Disco(w, Y) /\ \A y \in Y \ {a, b, p} : E[y] = D[y]
      /\ w.kpos = g.kpos /\ w.vpk = g.vpk
      /\ Len(E[p].ll) = Len(D[p].ll) /\ Len(E[a].ll) = na /\ Len(E[b].ll) = nb
  BY DEF Prestado
<1>5. I.r = H.r /\ I.C = H.C /\ I.N = H.N /\ \A y \in H.C : I.h[y] = H.h[y]
  BY <1>3 DEF Igual
<1>6. a \in H.C /\ b \in H.C /\ a # p /\ b # p
  <2> HIDE DEF Y
  <2> QED BY <1>2, VecinasEs
<1> HIDE DEF D, E
<1>7. Resto(f, w, X, G, I)
  <2>1. /\ (X \ G.C) \cap H.C = {} /\ \A y \in X \ G.C : D[y] = f.dsk[y]
        /\ g.vpk = f.vpk
    BY <1>1 DEF Resto, D
  <2>2. \A y \in X \ G.C : y \in Y \ {a, b, p}
    BY <1>1, <1>2, <1>6
  <2>3. \A y \in X \ G.C : E[y] = f.dsk[y]
    BY <2>1, <2>2, <1>4
  <2> QED BY <2>1, <2>3, <1>4, <1>5 DEF Resto, E
<1>8. \A l \in 1..n-2 : E[cl[l]] = f.dsk[cl[l]]
  <2> TAKE l \in 1..n-2
  <2>1. l \in 1..n-1
    OBVIOUS
  <2>2. cl[l] \in H.C /\ cl[l] # a /\ cl[l] # b /\ cl[l] # p
    BY <1>2, <2>1
  <2> QED BY <2>1, <2>2, <1>1, <1>4
<1>9. \A y \in H.C \ {p} : Buena(E, I, y)
  <2> TAKE y \in H.C \ {p}
  <2>1. I.h[y] = H.h[y] /\ I.r = H.r
    BY <1>5
  <2>2. CASE y = a
    BY <2>2, <1>4 DEF Buena
  <2>3. CASE y = b
    BY <2>3, <1>4 DEF Buena
  <2>4. CASE y # a /\ y # b
    <3>1. E[y] = D[y]
      BY <2>4, <1>4
    <3>2. Buena(D, H, y)
      BY <2>4, <1>2
    <3> QED BY <3>1, <3>2, <2>1 DEF Buena
  <2> QED BY <2>2, <2>3, <2>4
<1>10. Len(E[p].ll) <= TK /\ Len(E[p].ll) >= 1
  <2> DEFINE lp == Len(D[p].ll)
  <2>1. lp <= TK /\ lp \in Nat \ {0} /\ Len(E[p].ll) = lp
    BY <1>2, <1>4 DEF Buena
  <2> HIDE DEF lp
  <2> QED BY <2>1
<1>11. Debe(f, X, G, cl, n - 1, w, I)
  <2>1. /\ w.kpos = f.kpos /\ I.N = G.N /\ I.r = G.r /\ I.C \subseteq G.C
        /\ \A y \in I.C : I.h[y] = G.h[y]
    BY <1>1, <1>4, <1>5
  <2>2. \A l \in 1..n-1 : cl[l] \in I.C
    BY <1>2, <1>5
  <2>3. (n - 1) - 1 = n - 2
    OBVIOUS
  <2>4. \A y \in I.C \ {cl[n - 1]} : Buena(E, I, y)
    BY <1>2, <1>5, <1>9
  <2>5. Len(E[cl[n - 1]].ll) <= TK /\ Len(E[cl[n - 1]].ll) >= 1
    BY <1>2, <1>10
  <2> QED BY <1>3, <1>7, <1>8, <2>1, <2>2, <2>3, <2>4, <2>5 DEF Debe, E
<1> QED BY <1>11

\* After two clusters are put together, the one over them keeping a slot, it goes on too.
LEMMA FundeSube ==
    ASSUME NEW f, NEW X, NEW G, NEW cl, NEW k1, NEW n \in Nat, NEW g, NEW H, NEW p, NEW sep,
           NEW a, NEW b, NEW hoja, NEW w, NEW I, n >= 2,
           Debe(f, X, G, cl, n, g, H), Pareja(f, X, G, cl, k1, n, g, H, p, sep, a, b, hoja),
           Fundido(g, w, (X \ G.C) \cup H.C, H, p, a, b, {b}, I), I.r = H.r,
           Len(g.dsk[a].ll) + 1 + Len(g.dsk[b].ll) = TK,
           Len(g.dsk[p].ll) # 1, Len(w.dsk[p].ll) = Len(g.dsk[p].ll) - 1
    PROVE  Debe(f, X, G, cl, n - 1, w, I)
<1> DEFINE Y == (X \ G.C) \cup H.C
           D == g.dsk
           E == w.dsk
<1>1. /\ Resto(f, g, X, G, H) /\ g.kpos = f.kpos /\ H.N = G.N /\ H.r = G.r /\ H.C \subseteq G.C
      /\ \A y \in H.C : H.h[y] = G.h[y]
      /\ \A l \in 1..n : cl[l] \in H.C
      /\ \A l \in 1..n-1 : D[cl[l]] = f.dsk[cl[l]]
  BY DEF Debe
<1>2. /\ Vecinas(g, Y, H, p, sep, a, b, hoja)
      /\ p = cl[n - 1] /\ p \in H.C
      /\ \A l \in 1..n-1 : cl[l] # a /\ cl[l] # b /\ cl[l] \in H.C
      /\ \A l \in 1..n-2 : cl[l] # p
      /\ Buena(D, H, p) /\ Len(D[p].ll) \in Nat \ {0}
      /\ \A y \in H.C \ {a, b} : Buena(D, H, y)
  BY DEF Pareja
<1>4. /\ Disco(w, Y \ {b}) /\ \A y \in Y \ {a, b, p} : E[y] = D[y]
      /\ w.kpos = g.kpos /\ w.vpk = g.vpk
      /\ Len(E[a].ll) = TK /\ Len(E[p].ll) = Len(D[p].ll) - 1
      /\ Arbol(E, I) /\ I.C = H.C \ {b} /\ I.N = H.N /\ \A y \in I.C : I.h[y] = H.h[y]
  BY DEF Fundido
<1>6. a \in H.C /\ b \in H.C /\ a # p /\ b # p /\ a # b
  <2> HIDE DEF Y
  <2> QED BY <1>2, VecinasEs
<1>l. Len(D[p].ll) # 1
  OBVIOUS
<1> HIDE DEF D, E
<1>7. Resto(f, w, X, G, I)
  <2>1. /\ (X \ G.C) \cap H.C = {} /\ \A y \in X \ G.C : D[y] = f.dsk[y]
        /\ g.vpk = f.vpk
    BY <1>1 DEF Resto, D
  <2>2. \A y \in X \ G.C : y \in Y \ {a, b, p}
    BY <1>1, <1>2, <1>6
  <2>3. \A y \in X \ G.C : E[y] = f.dsk[y]
    BY <2>1, <2>2, <1>4
  <2>4. Y \ {b} = (X \ G.C) \cup I.C /\ (X \ G.C) \cap I.C = {}
    BY <2>1, <1>1, <1>4, <1>6
  <2> QED BY <2>1, <2>3, <2>4, <1>4 DEF Resto, E
<1>8. \A l \in 1..n-2 : E[cl[l]] = f.dsk[cl[l]]
  <2> TAKE l \in 1..n-2
  <2>1. l \in 1..n-1
    OBVIOUS
  <2>2. cl[l] \in H.C /\ cl[l] # a /\ cl[l] # b /\ cl[l] # p
    BY <1>2, <2>1
  <2> QED BY <2>1, <2>2, <1>1, <1>4
<1>9. \A y \in I.C \ {p} : Buena(E, I, y)
  <2> TAKE y \in I.C \ {p}
  <2>1. I.h[y] = H.h[y] /\ I.r = H.r /\ y \in H.C /\ y # b
    BY <1>4
  <2>2. CASE y = a
    <3>1. Len(E[y].ll) = TK /\ TK = 4
      BY <2>2, <1>4 DEF TK
    <3> QED BY <3>1 DEF Buena
  <2>4. CASE y # a
    <3>1. E[y] = D[y]
      BY <2>1, <2>4, <1>4
    <3>2. Buena(D, H, y)
      BY <2>1, <2>4, <1>2
    <3> QED BY <3>1, <3>2, <2>1 DEF Buena
  <2> QED BY <2>2, <2>4
<1>10. Len(E[p].ll) <= TK /\ Len(E[p].ll) >= 1
  <2> DEFINE lp == Len(D[p].ll)
  <2>1. lp <= TK /\ lp \in Nat \ {0} /\ Len(E[p].ll) = lp - 1 /\ lp # 1 /\ TK = 4
    BY <1>2, <1>4, <1>l DEF Buena, TK
  <2> HIDE DEF lp
  <2> QED BY <2>1
<1>11. Debe(f, X, G, cl, n - 1, w, I)
  <2>1. /\ w.kpos = f.kpos /\ I.N = G.N /\ I.r = G.r /\ I.C \subseteq G.C
        /\ \A y \in I.C : I.h[y] = G.h[y]
    BY <1>1, <1>4
  <2>2. \A l \in 1..n-1 : cl[l] \in I.C
    BY <1>2, <1>4
  <2>3. (n - 1) - 1 = n - 2
    OBVIOUS
  <2>4. \A y \in I.C \ {cl[n - 1]} : Buena(E, I, y)
    BY <1>2, <1>9
  <2>5. Len(E[cl[n - 1]].ll) <= TK /\ Len(E[cl[n - 1]].ll) >= 1
    BY <1>2, <1>10
  <2> QED BY <1>4, <1>7, <1>8, <2>1, <2>2, <2>3, <2>4, <2>5 DEF Debe, E
<1> QED BY <1>11

\* The root goes when its only slot does.
LEMMA BajaSube ==
    ASSUME NEW f, NEW X, NEW G, NEW cl, NEW k1, NEW n \in Nat, NEW g, NEW H, NEW p, NEW sep,
           NEW a, NEW b, NEW hoja, NEW w, NEW I, n >= 2,
           Debe(f, X, G, cl, n, g, H), Pareja(f, X, G, cl, k1, n, g, H, p, sep, a, b, hoja),
           Fundido(g, w, (X \ G.C) \cup H.C, H, p, a, b, {p, b}, I), I.r = a, p = H.r,
           Len(g.dsk[a].ll) + 1 + Len(g.dsk[b].ll) = TK
    PROVE  Bajado(f, X, G, w, a, I)
<1> DEFINE Y == (X \ G.C) \cup H.C
           D == g.dsk
           E == w.dsk
<1>1. /\ Resto(f, g, X, G, H) /\ g.kpos = f.kpos /\ H.N = G.N /\ H.r = G.r /\ H.C \subseteq G.C
  BY DEF Debe
<1>2. /\ Vecinas(g, Y, H, p, sep, a, b, hoja)
      /\ p \in H.C
      /\ \A y \in H.C \ {a, b} : Buena(D, H, y)
  BY DEF Pareja
<1>4. /\ Disco(w, Y \ {p, b}) /\ \A y \in Y \ {a, b, p} : E[y] = D[y]
      /\ w.kpos = g.kpos /\ w.vpk = g.vpk
      /\ Len(E[a].ll) = TK
      /\ Arbol(E, I) /\ I.C = H.C \ {p, b} /\ I.N = H.N /\ \A y \in I.C : I.h[y] = H.h[y]
  BY DEF Fundido
<1>6. a \in H.C /\ b \in H.C /\ a # p /\ b # p /\ a # b
  <2> HIDE DEF Y
  <2> QED BY <1>2, VecinasEs
<1>r. I.r = a /\ p = H.r
  OBVIOUS
<1> HIDE DEF D, E
<1>7. Resto(f, w, X, G, I)
  <2>1. /\ (X \ G.C) \cap H.C = {} /\ \A y \in X \ G.C : D[y] = f.dsk[y]
        /\ g.vpk = f.vpk
    BY <1>1 DEF Resto, D
  <2>2. \A y \in X \ G.C : y \in Y \ {a, b, p}
    BY <1>1, <1>2, <1>6
  <2>3. \A y \in X \ G.C : E[y] = f.dsk[y]
    BY <2>1, <2>2, <1>4
  <2>4. Y \ {p, b} = (X \ G.C) \cup I.C /\ (X \ G.C) \cap I.C = {}
    BY <2>1, <1>1, <1>2, <1>4, <1>6
  <2> QED BY <2>1, <2>3, <2>4, <1>4 DEF Resto, E
<1>9. \A y \in I.C : Buena(E, I, y)
  <2> TAKE y \in I.C
  <2>1. I.h[y] = H.h[y] /\ y \in H.C /\ y # b /\ y # p
    BY <1>4
  <2>2. CASE y = a
    <3>1. Len(E[y].ll) = TK /\ TK = 4
      BY <2>2, <1>4 DEF TK
    <3> QED BY <3>1 DEF Buena
  <2>4. CASE y # a
    <3>1. E[y] = D[y]
      BY <2>1, <2>4, <1>4
    <3>2. Buena(D, H, y)
      BY <2>1, <2>4, <1>2
    <3> QED BY <3>1, <3>2, <2>1, <1>r DEF Buena
  <2> QED BY <2>2, <2>4
<1> QED BY <1>1, <1>4, <1>7, <1>9, <1>r DEF Bajado, Llena, E

\* forma mends a cluster with one slot, from its neighbour.
LEMMA RemiendaEs ==
    ASSUME NEW f, NEW X, NEW G, NEW cl, NEW k1, NEW n \in Nat, NEW g, NEW H, NEW b, NEW tam,
           Ruta(f.dsk, G, cl, k1), Arbol(f.dsk, G), n \in 2..Len(cl), G.h[cl[Len(cl)]] = 0,
           Debe(f, X, G, cl, n, g, H), Debil(g.dsk[cl[n]]), b.clusan = cl, b.k1 = k1
    PROVE  Sube(f, X, G, cl, n, g, Remienda(g, tam, b, n))
<1> DEFINE v == Vecinos(g, b, n)
           p == cl[n - 1]
           s == v.sep
           a == v.c1
           c == v.c3
           hoja == (n = Len(b.clusan))
           Y == (X \ G.C) \cup H.C
           w == Remienda(g, tam, b, n)
           la == Len(g.dsk[a].ll)
           lc == Len(g.dsk[c].ll)
           lp == Len(g.dsk[p].ll)
           junta == Une(g, a, p, c, s, hoja)
           Pf == PrestaIzq(g, a, p, c, s, hoja)
           Pd == PrestaDer(g, a, p, c, s, hoja)
           Fb == Libera(Libera(junta, tam, p), tam, c)
           Fu == Libera(Renu(junta, p, Exclu(g.dsk[p], s)), tam, c)
<1>1. Pareja(f, X, G, cl, k1, n, g, H, p, s, a, c, hoja)
  <2>1. LET v1 == Vecinos(g, b, n)
        IN  Pareja(f, X, G, cl, k1, n, g, H, cl[n - 1], v1.sep, v1.c1, v1.c3, n = Len(b.clusan))
    BY ParejaEs
  <2> QED BY <2>1
<1>2. w = IF la >= 3 THEN [f |-> Pf, r |-> 0]
          ELSE IF la = 1 /\ lc > 2 THEN [f |-> Pd, r |-> 0]
          ELSE IF lp = 1 THEN [f |-> Fb, r |-> 1]
          ELSE [f |-> Fu, r |-> 0]
  BY DEF Remienda, Forma
<1>3. n >= 2 /\ Debe(f, X, G, cl, n, g, H)
  <2>1. Len(cl) \in Nat
    BY DEF Ruta
  <2> QED BY <2>1
<1> HIDE DEF v, s, a, c, hoja, w, Pf, Pd, Fb, Fu, junta, p, Y
<1>4. /\ Vecinas(g, Y, H, p, s, a, c, hoja)
      /\ p = cl[n - 1] /\ p \in H.C /\ Buena(g.dsk, H, p) /\ lp \in Nat \ {0}
      /\ p = H.r => n = 2
      /\ la \in 1..TK /\ lc \in 1..TK
      /\ (la = 1 /\ lc >= 2) \/ (lc = 1 /\ la >= 2)
  <2>1. /\ Vecinas(g, Y, H, p, s, a, c, hoja)
        /\ p \in H.C /\ Buena(g.dsk, H, p) /\ lp \in Nat \ {0} /\ (p = H.r => n = 2)
    BY <1>1 DEF Pareja, Y
  <2>2. la \in 1..TK /\ lc \in 1..TK
    BY <1>1 DEF Pareja
  <2>3. (la = 1 /\ lc >= 2) \/ (lc = 1 /\ la >= 2)
    BY <1>1 DEF Pareja
  <2> QED BY <2>1, <2>2, <2>3 DEF p
<1>5. lp = 1 => p = H.r
  BY <1>4 DEF Buena
<1>6. TK = 4
  BY DEF TK
<1>7. CASE la >= 3
  <2> DEFINE na == la - 1
             nb == lc + 1
  <2>1. na \in 2..TK /\ nb \in 2..TK /\ la >= 1
    <3> HIDE DEF la, lc
    <3> QED BY <1>4, <1>6, <1>7
  <2>2. Prestado(g, Pf, Y, H, p, a, c, na, nb)
    BY <1>4, <2>1, PrestaIzqEs DEF Pf
  <2>3. \E I : Debe(f, X, G, cl, n - 1, Pf, I)
    <3> HIDE DEF na, nb
    <3> QED BY <1>1, <1>3, <2>1, <2>2, PrestaSube DEF Y
  <2>4. w = [f |-> Pf, r |-> 0]
    BY <1>2, <1>7
  <2>5. w.r = 0 /\ w.f = Pf
    BY <2>4
  <2> QED BY <2>3, <2>5 DEF Sube, w
<1>8. CASE ~(la >= 3) /\ (la = 1 /\ lc > 2)
  <2> DEFINE na == la + 1
             nb == lc - 1
  <2>1. na \in 2..TK /\ nb \in 2..TK /\ lc >= 1
    <3> HIDE DEF la, lc
    <3> QED BY <1>4, <1>6, <1>8
  <2>2. Prestado(g, Pd, Y, H, p, a, c, na, nb)
    BY <1>4, <2>1, PrestaDerEs DEF Pd
  <2>3. \E I : Debe(f, X, G, cl, n - 1, Pd, I)
    <3> HIDE DEF na, nb
    <3> QED BY <1>1, <1>3, <2>1, <2>2, PrestaSube DEF Y
  <2>4. w = [f |-> Pd, r |-> 0]
    BY <1>2, <1>8, Zenon
  <2>5. w.r = 0 /\ w.f = Pd
    BY <2>4
  <2> QED BY <2>3, <2>5 DEF Sube, w
<1>9. CASE ~(la >= 3) /\ ~(la = 1 /\ lc > 2)
  <2>1. la + 1 + lc = TK
    <3> HIDE DEF la, lc
    <3> QED BY <1>4, <1>6, <1>9
  <2>2. CASE lp = 1
    <3>1. p = H.r
      BY <1>5, <2>2
    <3>2. g.dsk[p].ant = a /\ \E I : Fundido(g, Fb, Y, H, p, a, c, {p, c}, I) /\ I.r = a
      <4> HIDE DEF lp
      <4>1. Vecinas(g, Y, H, p, s, a, c, hoja) /\ Len(g.dsk[p].ll) = 1 /\ p = H.r
        BY <1>4, <2>2, <3>1 DEF lp
      <4>2. Bajada(g, Libera(Libera(Une(g, a, p, c, s, hoja), tam, p), tam, c), Y, H, p, a, c)
        BY <4>1, BajaRaizEs
      <4> QED BY <4>2 DEF Fb, junta, Bajada
    <3>3. PICK I : Fundido(g, Fb, Y, H, p, a, c, {p, c}, I) /\ I.r = a
      BY <3>2
    <3>4. Bajado(f, X, G, Fb, a, I)
      BY <1>1, <1>3, <2>1, <3>1, <3>3, BajaSube DEF Y
    <3>5. w = [f |-> Fb, r |-> 1]
      BY <1>2, <1>9, <2>2, Zenon
    <3>6. w.r = 1 /\ w.f = Fb
      BY <3>5
    <3>7. n = 2 /\ cl[1] = p
      <4>1. n = 2
        BY <1>4, <3>1
      <4> QED BY <4>1, <1>4
    <3> QED BY <3>2, <3>4, <3>6, <3>7 DEF Sube, w
  <2>3. CASE lp # 1
    <3>1. Len(Fu.dsk[p].ll) = lp - 1 /\ \E I : Fundido(g, Fu, Y, H, p, a, c, {c}, I) /\ I.r = H.r
      <4>1. Fusion(g, Libera(Renu(Une(g, a, p, c, s, hoja), p, Exclu(g.dsk[p], s)), tam, c),
                   Y, H, p, a, c)
        BY <1>4, FundeEs
      <4> QED BY <4>1 DEF Fu, junta, Fusion
    <3>2. PICK I : Fundido(g, Fu, Y, H, p, a, c, {c}, I) /\ I.r = H.r
      BY <3>1
    <3>3. Debe(f, X, G, cl, n - 1, Fu, I)
      <4>1. Len(g.dsk[p].ll) # 1 /\ Len(Fu.dsk[p].ll) = Len(g.dsk[p].ll) - 1
        BY <2>3, <3>1
      <4> QED BY <4>1, <1>1, <1>3, <2>1, <3>2, FundeSube DEF Y
    <3>4. w = [f |-> Fu, r |-> 0]
      BY <1>2, <1>9, <2>3, Zenon
    <3>5. w.r = 0 /\ w.f = Fu
      BY <3>4
    <3> QED BY <3>3, <3>5 DEF Sube, w
  <2> QED BY <2>2, <2>3
<1> QED BY <1>7, <1>8, <1>9
=============================================================================

--------------------------- MODULE VsamFileProofs ---------------------------
(***************************************************************************)
(* The chain, the stacks and the indexes of VsamFile are right in every    *)
(* reachable state, for any set of keys, values and positions.             *)
(*                                                                         *)
(* No part is inductive alone: that a new record is linked at the right    *)
(* place of the chain needs the index to be faithful (busca finds its      *)
(* neighbours there), that its pointers are positions of the file needs    *)
(* the chain, and the height of a stack needs its top to be a record.  The *)
(* inductive invariant is their conjunction with the type invariant.       *)
(***************************************************************************)
EXTENDS VsamFile, TLAPS, WellFoundedInduction, FiniteSetTheorems

(* Induction: the library has it for predicates, which the provers cannot instantiate; here *)
(* it is for sets of numbers, from the well-foundedness of < alone.                        *)

\* A set of numbers that is not empty has a least one.
LEMMA Minimo ==
    ASSUME NEW T, T \subseteq Nat, T # {}
    PROVE  \E x \in T : \A y \in T : x <= y
<1> DEFINE R == OpToRel(<, Nat)
<1>1. IsWellFoundedOn(R, Nat)
  BY NatLessThanWellFounded, Zenon
<1>2. PICK x \in T : \A y \in T : ~ (<<y, x>> \in R)
  BY <1>1, WFMin, Zenon
<1>3. \A y \in T : y < x => <<y, x>> \in R
  BY Zenon DEF OpToRel
<1>4. \A y \in T : ~ (y < x)
  BY <1>2, <1>3, Zenon
<1> HIDE DEF R
<1>5. \A y \in T : x <= y
  BY <1>4
<1> QED
  BY <1>5

\* A set with 0, and with k + 1 when it has k, has all numbers up to n.
LEMMA Hasta ==
    ASSUME NEW n \in Nat, NEW S, 0 \in S, \A k \in 0..n-1 : k \in S => k + 1 \in S
    PROVE  \A k \in 0..n : k \in S
<1> DEFINE T == {k \in 0..n : k \notin S}
<1> SUFFICES ASSUME T # {} PROVE FALSE
  BY Zenon
<1>1. PICK x \in T : \A y \in T : x <= y
  <2>1. T \subseteq Nat
    OBVIOUS
  <2> HIDE DEF T
  <2> QED BY <2>1, Minimo
<1>2. x # 0 /\ x \in 0..n /\ x - 1 \in 0..n-1 /\ x - 1 + 1 = x
  OBVIOUS
<1>3. x - 1 \notin T
  BY <1>1, <1>2
<1>4. x - 1 \in S /\ x \notin S
  BY <1>2, <1>3
<1> QED
  BY <1>2, <1>4

\* The walk from x, place by place.
LEMMA DesdeEs ==
    ASSUME NEW N \in Nat, NEW x, NEW sig
    PROVE  LET S == Desde(x, sig, N)
           IN  /\ S[0] = x /\ DOMAIN S = 0..N
               /\ \A n \in 0..N-1 : S[n + 1] = IF S[n] = 0 THEN 0 ELSE sig[S[n]]
<1>0. N \in Nat
  OBVIOUS
<1> DEFINE Bueno(m, S) ==
               S = [n \in 0..m |-> IF n = 0 THEN x
                                   ELSE IF S[n - 1] = 0 THEN 0 ELSE sig[S[n - 1]]]
           Hay == {m \in 0..N : \E S : Bueno(m, S)}
<1>1. N \in Hay
  <2>1. 0 \in Hay
    <3> DEFINE S == [n \in 0..0 |-> x]
    <3>1. Bueno(0, S)
      OBVIOUS
    <3> HIDE DEF S, Bueno
    <3> QED BY <3>1, <1>0
  <2>2. ASSUME NEW k \in 0..N-1, k \in Hay PROVE k + 1 \in Hay
    <3>0. k + 1 \in 0..N /\ k \in Nat
      BY <1>0
    <3>1. PICK S : Bueno(k, S)
      BY <2>2
    <3> DEFINE nx == IF S[k] = 0 THEN 0 ELSE sig[S[k]]
               T == [n \in 0..k+1 |-> IF n = k + 1 THEN nx ELSE S[n]]
    <3>2. \A n \in 0..k : T[n] = S[n]
      BY <3>0
    <3>3. T[k + 1] = nx
      BY <3>0
    <3>4. \A n \in 0..k : S[n] = IF n = 0 THEN x
                                 ELSE IF S[n - 1] = 0 THEN 0 ELSE sig[S[n - 1]]
      BY <3>1
    <3>5. \A n \in 0..k+1 : T[n] = IF n = 0 THEN x
                                   ELSE IF T[n - 1] = 0 THEN 0 ELSE sig[T[n - 1]]
      <4> TAKE n \in 0..k+1
      <4>1. CASE n = k + 1
        <5>1. n # 0 /\ n - 1 = k /\ k \in 0..k
          BY <4>1, <3>0
        <5> HIDE DEF T
        <5> QED BY <4>1, <5>1, <3>2, <3>3
      <4>2. CASE n # k + 1
        <5>1. n \in 0..k /\ (n # 0 => n - 1 \in 0..k)
          BY <4>2, <3>0
        <5> HIDE DEF T
        <5> QED BY <5>1, <3>2, <3>4
      <4> QED BY <4>1, <4>2
    <3>6. Bueno(k + 1, T)
      <4> DEFINE U == [n \in 0..k+1 |-> IF n = 0 THEN x
                                        ELSE IF T[n - 1] = 0 THEN 0 ELSE sig[T[n - 1]]]
      <4>1. DOMAIN T = 0..k+1 /\ T = [n \in 0..k+1 |-> T[n]]
        OBVIOUS
      <4> HIDE DEF T
      <4>2. T = U
        BY <3>5, <4>1
      <4> QED BY <4>2
    <3> HIDE DEF Bueno, T
    <3> QED BY <3>6, <3>0
  <2> HIDE DEF Hay
  <2> QED BY <2>1, <2>2, <1>0, Hasta
<1> DEFINE S == Desde(x, sig, N)
<1>2. Bueno(N, S)
  <2>1. PICK T : Bueno(N, T)
    BY <1>1
  <2> DEFINE V == CHOOSE S1 : Bueno(N, S1)
  <2>2. S = V
    BY DEF Desde
  <2> HIDE DEF Bueno
  <2>3. Bueno(N, V)
    BY <2>1
  <2> QED BY <2>2, <2>3
<1> HIDE DEF Hay, S
<1>3. /\ S[0] = x /\ DOMAIN S = 0..N
      /\ \A n \in 0..N-1 : S[n + 1] = IF S[n] = 0 THEN 0 ELSE sig[S[n]]
  <2>1. S[0] = x /\ DOMAIN S = 0..N
    BY <1>2, <1>0
  <2>2. ASSUME NEW n \in 0..N-1
        PROVE  S[n + 1] = IF S[n] = 0 THEN 0 ELSE sig[S[n]]
    <3>1. n + 1 \in 0..N /\ n + 1 # 0 /\ (n + 1) - 1 = n
      BY <1>0
    <3>2. \A m \in 0..N : S[m] = IF m = 0 THEN x
                                       ELSE IF S[m - 1] = 0 THEN 0 ELSE sig[S[m - 1]]
      BY <1>2
    <3> HIDE DEF Bueno
    <3>3. S[n + 1] = IF n + 1 = 0 THEN x
                     ELSE IF S[(n + 1) - 1] = 0 THEN 0 ELSE sig[S[(n + 1) - 1]]
      BY <3>1, <3>2
    <3> QED BY <3>1, <3>3
  <2> QED BY <2>1, <2>2
<1> QED BY <1>3 DEF S

\* The walk along a chain of places with ranks that go up gives them all, each once, and
\* ends.
LEMMA Recorrido ==
    ASSUME NEW N \in Nat, NEW L, IsFiniteSet(L), Cardinality(L) <= N, 0 \notin L,
           NEW x \in L \cup {0}, NEW sig, NEW g, \A y \in L : g[y] \in Nat,
           x = 0 => L = {},
           \A y \in L : /\ sig[y] \in L \cup {0}
                        /\ sig[y] # 0 => g[y] < g[sig[y]]
                        /\ y # x => \E z \in L : sig[z] = y
    PROVE  LET S == Desde(x, sig, N)
           IN  /\ Alcanza(S) = L /\ DOMAIN S = 0..N /\ S[N] = 0
               /\ \A m, n \in 0..N : m < n /\ S[n] # 0 => S[m] # 0 /\ g[S[m]] < g[S[n]]
<1>0. N \in Nat /\ 0 \notin L /\ \A y \in L : g[y] \in Nat
  OBVIOUS
<1> DEFINE S == Desde(x, sig, N)
<1>3. /\ S[0] = x /\ DOMAIN S = 0..N
      /\ \A n \in 0..N-1 : S[n + 1] = IF S[n] = 0 THEN 0 ELSE sig[S[n]]
  BY DesdeEs
<1> HIDE DEF S
<1>4. \A n \in 0..N : S[n] \in L \cup {0}
  <2> DEFINE E == {n \in 0..N : S[n] \in L \cup {0}}
  <2>1. 0 \in E
    BY <1>3, <1>0
  <2>2. ASSUME NEW k \in 0..N-1, k \in E PROVE k + 1 \in E
    BY <2>2, <1>3, <1>0
  <2> HIDE DEF E
  <2>3. \A k \in 0..N : k \in E
    BY <2>1, <2>2, <1>0, Hasta
  <2> QED BY <2>3 DEF E
<1>5. \A n \in 0..N : S[n] # 0 =>
          \A m \in 0..n-1 : S[m] # 0 /\ g[S[m]] < g[S[n]]
  <2> DEFINE E == {n \in 0..N : S[n] # 0 =>
                       \A m \in 0..n-1 : S[m] # 0 /\ g[S[m]] < g[S[n]]}
  <2>1. 0 \in E
    BY <1>0
  <2>2. ASSUME NEW k \in 0..N-1, k \in E PROVE k + 1 \in E
    <3>0. k + 1 \in 0..N /\ k \in 0..N /\ k \in Nat
      BY <1>0
    <3>1. SUFFICES ASSUME S[k + 1] # 0, NEW m \in 0..(k + 1)-1
                   PROVE  S[m] # 0 /\ g[S[m]] < g[S[k + 1]]
      BY <3>0
    <3>2. S[k] # 0 /\ S[k + 1] = sig[S[k]] /\ S[k] \in L /\ S[k + 1] \in L
      BY <1>3, <1>4, <3>0, <3>1
    <3>3. g[S[k]] < g[S[k + 1]]
      BY <3>1, <3>2
    <3>4. m = k \/ m \in 0..k-1
      BY <3>0, <3>1
    <3>5. CASE m \in 0..k-1
      <4>1. S[m] # 0 /\ g[S[m]] < g[S[k]]
        BY <3>5, <2>2, <3>2
      <4>2. S[m] \in L
        <5>1. m \in 0..N
          BY <3>0, <3>5, <1>0
        <5> QED BY <5>1, <4>1, <1>4
      <4> QED BY <4>1, <4>2, <3>2, <3>3, <1>0
    <3> QED BY <3>2, <3>3, <3>4, <3>5
  <2> HIDE DEF E
  <2>3. \A k \in 0..N : k \in E
    BY <2>1, <2>2, <1>0, Hasta
  <2> QED BY <2>3 DEF E
<1>6. S[N] = 0
  <2> SUFFICES ASSUME S[N] # 0 PROVE FALSE
    OBVIOUS
  <2>1. \A n \in 0..N : S[n] \in L
    <3> TAKE n \in 0..N
    <3>1. (n = N \/ n \in 0..N-1) /\ N \in 0..N
      BY <1>0
    <3>2. S[n] # 0
      BY <3>1, <1>5
    <3> QED BY <3>2, <1>4
  <2>2. \A m, n \in 0..N : m < n => S[m] # S[n]
    <3> TAKE m, n \in 0..N
    <3>1. m < n => m \in 0..n-1
      BY <1>0
    <3>2. m < n => g[S[m]] < g[S[n]]
      BY <3>1, <1>5, <2>1, <1>0
    <3> QED BY <3>2, <2>1, <1>0
  <2> DEFINE A == 0..N
             h == [n \in A |-> S[n]]
  <2>3. IsFiniteSet(A) /\ Cardinality(A) = N + 1
    <3>1. IsFiniteSet(0..N)
          /\ Cardinality(0..N) = IF 0 > N THEN 0 ELSE N - 0 + 1
      BY <1>0, FS_Interval
    <3> QED BY <3>1, <1>0
  <2>4. h \in [A -> L]
    BY <2>1
  <2>c. Cardinality(L) \in Nat
    BY FS_CardinalityType
  <2> HIDE DEF A, h
  <2>d. Cardinality(L) < Cardinality(A)
    BY <2>3, <2>c, <1>0
  <2>5. \E a, b \in A : a # b /\ h[a] = h[b]
    BY <2>3, <2>4, <2>d, FS_PigeonHole
  <2>6. PICK a, b \in A : a # b /\ h[a] = h[b]
    BY <2>5
  <2>7. S[a] = S[b] /\ a \in 0..N /\ b \in 0..N
    BY <2>6 DEF h, A
  <2> QED BY <2>2, <2>6, <2>7, <1>0
<1>7. ASSUME NEW y0 \in L, \A n \in 0..N : S[n] # y0 PROVE FALSE
  <2> DEFINE T == {y \in L : \A n \in 0..N : S[n] # y}
             R == {g[y] : y \in T}
  <2>1. PICK t \in R : \A u \in R : t <= u
    <3>1. R \subseteq Nat /\ R # {}
      BY <1>0, <1>7
    <3> HIDE DEF R
    <3> QED BY <3>1, Minimo
  <2>2. PICK y \in T : g[y] = t
    OBVIOUS
  <2>3. y # x
    BY <1>3, <1>0
  <2>4. PICK z \in L : sig[z] = y
    BY <2>3
  <2>5. y # 0 /\ y \in L /\ g[z] < g[y]
    BY <2>4, <1>0
  <2>6. z \notin T
    <3> SUFFICES ASSUME z \in T PROVE FALSE
      OBVIOUS
    <3>1. g[z] \in R
      OBVIOUS
    <3>2. t <= g[z]
      BY <2>1, <3>1
    <3>3. g[z] \in Nat /\ g[y] \in Nat
      BY <2>5, <1>0
    <3> QED BY <2>2, <2>5, <3>2, <3>3
  <2>7. PICK n \in 0..N : S[n] = z
    BY <2>6
  <2>8. n # N /\ n \in 0..N-1 /\ n + 1 \in 0..N
    BY <2>7, <1>6, <1>0
  <2>9. S[n + 1] = y
    BY <2>7, <2>8, <1>3, <1>0, <2>4
  <2> QED BY <2>8, <2>9
<1>8. Alcanza(S) = L
  <2>1. Alcanza(S) = {S[n] : n \in 0..N} \ {0}
    BY <1>3 DEF Alcanza
  <2>2. \A y \in L : \E n \in 0..N : S[n] = y
    BY <1>7
  <2> QED BY <2>1, <2>2, <1>4, <1>0
<1>9. \A m, n \in 0..N : m < n /\ S[n] # 0 => S[m] # 0 /\ g[S[m]] < g[S[n]]
  <2> TAKE m, n \in 0..N
  <2>1. m < n => m \in 0..n-1
    BY <1>0
  <2> QED BY <2>1, <1>5
<1> QED BY <1>3, <1>6, <1>8, <1>9 DEF S


IInv == TypeOK /\ IndiceFiel /\ Cadena /\ Pilas

\* A file just created satisfies the invariant.
LEMMA InvInicial == Init => IInv
<1> SUFFICES ASSUME Init PROVE IInv
  OBVIOUS
<1>1. TypeOK
  BY ConstantesArchivo DEF Init, TypeOK, Llaves, Pos0
<1>2. IndiceFiel
  BY DEF Init, IndiceFiel
<1>3. Cadena
  BY DEF Init, Cadena, Primera
<1>4. Pilas
  BY DEF Init, Pilas, Tope
<1> QED
  BY <1>1, <1>2, <1>3, <1>4 DEF IInv

-----------------------------------------------------------------------------
(* Where a new record goes *)

\* a and s are the neighbours in the chain of a key k that the file lacks.
Hueco(k, a, s) ==
    /\ a \in Pos0 /\ s \in Pos0
    /\ a = 0 => \A q \in vivo : k < clave[q]
    /\ a # 0 => /\ a \in vivo /\ proxi[Unica][a] = s /\ clave[a] < k
                /\ \A q \in vivo : clave[q] <= clave[a] \/ k < clave[q]
    /\ s = 0 => \A q \in vivo : clave[q] < k
    /\ s # 0 => /\ s \in vivo /\ anter[Unica][s] = a /\ k < clave[s]
                /\ \A q \in vivo : clave[q] < k \/ clave[s] <= clave[q]

\* What busca names as menor is the record of the greatest key below k, and as
\* mayor the record of the least key above.
LEMMA VecinosDeBusca ==
  ASSUME IInv, NEW k \in Claves, idxu[k] = 0
  PROVE  /\ \A m \in Menores(idxu, k) : /\ m \in vivo /\ clave[m] < k
                                  /\ \A q \in vivo : clave[q] <= clave[m] \/ k < clave[q]
         /\ \A m \in Mayores(idxu, k) : /\ m \in vivo /\ k < clave[m]
                                  /\ \A q \in vivo : clave[q] < k \/ clave[m] <= clave[q]
<1> USE ConstantesArchivo
<1>1. /\ \A q \in vivo : clave[q] \in Claves /\ clave[q] \in Nat /\ idxu[clave[q]] = q
                         /\ q # 0
      /\ \A c \in Claves : idxu[c] # 0 => idxu[c] \in vivo /\ clave[idxu[c]] = c
  BY DEF IInv, TypeOK, IndiceFiel
<1>2. \A q \in vivo : clave[q] # k
  BY <1>1
<1>3. ASSUME NEW m \in Menores(idxu, k)
      PROVE  /\ m \in vivo /\ clave[m] < k
             /\ \A q \in vivo : clave[q] <= clave[m] \/ k < clave[q]
  <2>1. PICK c \in Claves : /\ m = idxu[c] /\ c < k /\ idxu[c] # 0
                            /\ \A d \in Claves : c < d /\ d < k => idxu[d] = 0
    BY <1>3 DEF Menores
  <2>2. m \in vivo /\ clave[m] = c
    BY <1>1, <2>1
  <2>3. ASSUME NEW q \in vivo PROVE clave[q] <= c \/ k < clave[q]
    <3>1. ~ (c < clave[q] /\ clave[q] < k)
      BY <1>1, <2>1
    <3>2. clave[q] \in Nat /\ c \in Nat /\ k \in Nat /\ clave[q] # k
      BY <1>1, <1>2
    <3> QED
      BY <3>1, <3>2
  <2> QED
    BY <2>1, <2>2, <2>3
<1>4. ASSUME NEW m \in Mayores(idxu, k)
      PROVE  /\ m \in vivo /\ k < clave[m]
             /\ \A q \in vivo : clave[q] < k \/ clave[m] <= clave[q]
  <2>1. PICK c \in Claves : /\ m = idxu[c] /\ k < c /\ idxu[c] # 0
                            /\ \A d \in Claves : k < d /\ d < c => idxu[d] = 0
    BY <1>4 DEF Mayores
  <2>2. m \in vivo /\ clave[m] = c
    BY <1>1, <2>1
  <2>3. ASSUME NEW q \in vivo PROVE clave[q] < k \/ c <= clave[q]
    <3>1. ~ (k < clave[q] /\ clave[q] < c)
      BY <1>1, <2>1
    <3>2. clave[q] \in Nat /\ c \in Nat /\ k \in Nat /\ clave[q] # k
      BY <1>1, <1>2
    <3> QED
      BY <3>1, <3>2
  <2> QED
    BY <2>1, <2>2, <2>3
<1> QED
  BY <1>3, <1>4

\* Whichever neighbours busca saw, inclu links the record into the gap its key
\* belongs to.
LEMMA HuecoDeInclu ==
  ASSUME IInv, NEW k \in Claves, idxu[k] = 0,
         NEW menor \in Menores(idxu, k) \cup {0},
         NEW mayor \in Mayores(idxu, k) \cup {0},
         Vecindad(k, menor, mayor)
  PROVE  Hueco(k, Izq(menor, mayor), Der(menor, mayor))
<1> USE ConstantesArchivo
<1> DEFINE a == Izq(menor, mayor)
           s == Der(menor, mayor)
<1>1. /\ \A q \in vivo : clave[q] \in Nat /\ q # 0 /\ q \in Pos0 /\ idxu[clave[q]] = q
                         /\ clave[q] \in Claves
      /\ k \in Nat
  BY DEF IInv, TypeOK, IndiceFiel, Pos0
<1>2. \A q \in vivo : Eslabon(q)
  BY DEF IInv, Cadena
<1>3. /\ menor # 0 => /\ menor \in vivo /\ clave[menor] < k
                      /\ \A q \in vivo : clave[q] <= clave[menor] \/ k < clave[q]
      /\ mayor # 0 => /\ mayor \in vivo /\ k < clave[mayor]
                      /\ \A q \in vivo : clave[q] < k \/ clave[mayor] <= clave[q]
  BY VecinosDeBusca
<1>4. \A q \in vivo : clave[q] # k
  BY <1>1
<1>5. CASE mayor # 0
  <2>1. s = mayor /\ a = anter[Unica][mayor]
    BY <1>5 DEF Izq, Der
  <2>2. mayor \in vivo /\ k < clave[mayor]
        /\ \A q \in vivo : clave[q] < k \/ clave[mayor] <= clave[q]
    BY <1>3, <1>5
  <2>3. Eslabon(mayor)
    BY <1>2, <2>2
  <2>4. CASE a = 0
    <3>1. \A q \in vivo : clave[mayor] <= clave[q]
      BY <2>1, <2>3, <2>4 DEF Eslabon
    <3>2. \A q \in vivo : k < clave[q]
      BY <3>1, <2>2, <1>1
    <3> QED
      BY <3>2, <2>1, <2>2, <2>4, <1>1 DEF Hueco, Pos0
  <2>5. CASE a # 0
    <3>1. a \in vivo /\ proxi[Unica][a] = mayor
      BY <2>1, <2>3, <2>5 DEF Eslabon
    <3>2. /\ clave[a] < clave[mayor]
          /\ \A q \in vivo : clave[q] <= clave[a] \/ clave[mayor] <= clave[q]
      BY <3>1, <1>1, <1>2, <2>2 DEF Eslabon
    <3>3. clave[a] < k
      BY <3>1, <3>2, <2>2, <1>1, <1>4
    <3>4. \A q \in vivo : clave[q] <= clave[a] \/ k < clave[q]
      BY <3>1, <3>2, <2>2, <1>1
    <3> QED
      BY <3>1, <3>3, <3>4, <2>1, <2>2, <2>5, <1>1 DEF Hueco
  <2> QED
    BY <2>4, <2>5
<1>6. CASE mayor = 0 /\ menor # 0
  <2>1. s = proxi[Unica][menor] /\ a = menor
    BY <1>6 DEF Izq, Der
  <2>2. menor \in vivo /\ clave[menor] < k
        /\ \A q \in vivo : clave[q] <= clave[menor] \/ k < clave[q]
    BY <1>3, <1>6
  <2>3. Eslabon(menor)
    BY <1>2, <2>2
  <2>4. CASE s = 0
    <3>1. \A q \in vivo : clave[q] <= clave[menor]
      BY <2>1, <2>3, <2>4 DEF Eslabon
    <3>2. \A q \in vivo : clave[q] < k
      BY <3>1, <2>2, <1>1
    <3> QED
      BY <3>2, <2>1, <2>2, <2>4, <1>1, <1>6 DEF Hueco, Pos0
  <2>5. CASE s # 0
    <3>1. /\ s \in vivo /\ anter[Unica][s] = menor /\ clave[menor] < clave[s]
          /\ \A q \in vivo : clave[q] <= clave[menor] \/ clave[s] <= clave[q]
      BY <2>1, <2>3, <2>5 DEF Eslabon
    <3>2. k < clave[s]
      BY <3>1, <2>2, <1>1
    <3>3. \A q \in vivo : clave[q] < k \/ clave[s] <= clave[q]
      BY <3>1, <2>2, <1>1
    <3> QED
      BY <3>1, <3>2, <3>3, <2>1, <2>2, <2>5, <1>1, <1>6 DEF Hueco
  <2> QED
    BY <2>4, <2>5
<1>7. CASE mayor = 0 /\ menor = 0
  <2>1. vivo = {}
    BY <1>1, <1>7 DEF Vecindad
  <2>2. a = 0 /\ s = 0
    BY <1>7 DEF Izq, Der
  <2> QED
    BY <2>1, <2>2 DEF Hueco, Pos0
<1> QED
  BY <1>5, <1>6, <1>7

-----------------------------------------------------------------------------
(* A new record *)

\* Enlaza keeps every part of the invariant.
LEMMA EnlazaTipo ==
  ASSUME IInv, NEW nw \in Pos, nw \notin vivo, vivo' = vivo \cup {nw},
         NEW k \in Claves, NEW v \in [Reps -> Valores], NEW a \in Pos0, NEW s \in Pos0,
         \A i \in Reps : Altura(i, v[i]) <= MaxCuant,
         Escribe(nw, k, v), Enlaza(nw, k, v, a, s)
  PROVE  TypeOK'
<1> USE ConstantesArchivo
<1> DEFINE tope(i) == idxr[i][v[i]]
<1>1. \A i \in Reps : v[i] \in Valores /\ tope(i) \in Pos0
  BY DEF IInv, TypeOK
<1>2. \A i \in Reps : Altura(i, v[i]) \in 0..MaxCuant
  <2> SUFFICES ASSUME NEW i \in Reps PROVE Altura(i, v[i]) \in 0..MaxCuant
    OBVIOUS
  <2>1. CASE tope(i) = 0
    BY <2>1 DEF Altura
  <2>2. CASE tope(i) # 0
    <3>1. tope(i) \in vivo
      BY <2>2, <1>1 DEF IInv, Pilas, Tope
    <3>2. cuant \in [Reps -> [vivo -> 0..MaxCuant]]
      BY DEF IInv, TypeOK
    <3>3. cuant[i][tope(i)] \in 0..MaxCuant
      BY <3>1, <3>2
    <3>4. Altura(i, v[i]) = cuant[i][tope(i)] + 1
      BY <2>2 DEF Altura
    <3> QED
      BY <3>3, <3>4
  <2> QED
    BY <2>1, <2>2
<1>3. clave' \in [vivo' -> Claves]
  BY DEF IInv, TypeOK, Escribe, Enlaza, Con
<1>4. valor' \in [Reps -> [vivo' -> Valores]]
  BY <1>1 DEF IInv, TypeOK, Escribe, Enlaza, Con
<1>5. anter' \in [Llaves -> [vivo' -> Pos0]]
  BY <1>1 DEF IInv, TypeOK, Escribe, Enlaza, Con, Pos0, Llaves
<1>6. proxi' \in [Llaves -> [vivo' -> Pos0]]
  BY <1>1 DEF IInv, TypeOK, Escribe, Enlaza, Con, Pos0, Llaves
<1>7. cuant' \in [Reps -> [vivo' -> 0..MaxCuant]]
  BY <1>2 DEF IInv, TypeOK, Escribe, Enlaza, Con
<1>8. vivo' \subseteq Pos /\ vpk' \in Pos0 /\ idxu' \in [Claves -> Pos0]
      /\ idxr' \in [Reps -> [Valores -> Pos0]]
  BY <1>1 DEF IInv, TypeOK, Enlaza, Pos0
<1> QED
  BY <1>3, <1>4, <1>5, <1>6, <1>7, <1>8 DEF TypeOK

LEMMA EnlazaIndice ==
  ASSUME IInv, NEW nw \in Pos, nw \notin vivo, vivo' = vivo \cup {nw},
         NEW k \in Claves, idxu[k] = 0, NEW v, NEW a, NEW s,
         Escribe(nw, k, v), Enlaza(nw, k, v, a, s)
  PROVE  IndiceFiel'
<1> USE ConstantesArchivo
<1>1. \A q \in vivo' : clave'[q] = IF q = nw THEN k ELSE clave[q]
  BY DEF IInv, TypeOK, Escribe, Enlaza, Con
<1>2. \A c \in Claves : idxu'[c] = IF c = k THEN nw ELSE idxu[c]
  BY DEF IInv, TypeOK, Enlaza
<1>3. nw # 0 /\ \A q \in vivo : clave[q] \in Claves /\ q # 0
  BY DEF IInv, TypeOK
<1>4. /\ \A p \in vivo : idxu[clave[p]] = p
      /\ \A c \in Claves : idxu[c] # 0 => idxu[c] \in vivo /\ clave[idxu[c]] = c
  BY DEF IInv, IndiceFiel
<1>5. \A p \in vivo' : idxu'[clave'[p]] = p
  <2> TAKE p \in vivo'
  <2>1. CASE p = nw
    BY <2>1, <1>1, <1>2
  <2>2. CASE p # nw
    <3>1. p \in vivo /\ clave'[p] = clave[p]
      BY <2>2, <1>1
    <3>2. clave[p] \in Claves /\ idxu[clave[p]] = p /\ p # 0
      BY <3>1, <1>3, <1>4
    <3>3. clave[p] # k
      BY <3>2
    <3> QED
      BY <3>1, <3>2, <3>3, <1>2
  <2> QED
    BY <2>1, <2>2
<1>6. ASSUME NEW c \in Claves, idxu'[c] # 0
      PROVE  idxu'[c] \in vivo' /\ clave'[idxu'[c]] = c
  <2>1. CASE c = k
    BY <2>1, <1>1, <1>2
  <2>2. CASE c # k
    <3>1. idxu'[c] = idxu[c]
      BY <2>2, <1>2
    <3>2. idxu[c] \in vivo /\ clave[idxu[c]] = c
      BY <3>1, <1>6, <1>4
    <3>3. idxu[c] \in vivo' /\ idxu[c] # nw
      BY <3>2
    <3> QED
      BY <3>1, <3>2, <3>3, <1>1
  <2> QED
    BY <2>1, <2>2
<1> QED
  BY <1>5, <1>6 DEF IndiceFiel

LEMMA EnlazaCadena ==
  ASSUME IInv, NEW nw \in Pos, nw \notin vivo, vivo' = vivo \cup {nw},
         NEW k \in Claves, NEW v, NEW a, NEW s, Hueco(k, a, s),
         Escribe(nw, k, v), Enlaza(nw, k, v, a, s)
  PROVE  Cadena'
<1> USE ConstantesArchivo
<1>1. \A q \in vivo' : /\ clave'[q] = IF q = nw THEN k ELSE clave[q]
                       /\ clave'[q] \in Nat
  BY DEF IInv, TypeOK, Escribe, Enlaza, Con
<1>2. \A q \in vivo' : anter'[Unica][q] =
                         IF q = nw THEN a ELSE IF q = s THEN nw ELSE anter[Unica][q]
  BY DEF IInv, TypeOK, Escribe, Enlaza, Con, Llaves
<1>3. \A q \in vivo' : proxi'[Unica][q] =
                         IF q = nw THEN s ELSE IF q = a THEN nw ELSE proxi[Unica][q]
  BY DEF IInv, TypeOK, Escribe, Enlaza, Con, Llaves
<1>4. vpk' = IF a = 0 THEN nw ELSE vpk
  BY DEF Enlaza
<1>5. nw # 0 /\ 0 \notin vivo
  BY DEF IInv, TypeOK
<1>6. Primera' 
  <2>1. CASE a = 0
    BY <2>1, <1>2, <1>4, <1>5 DEF Primera
  <2>2. CASE a # 0
    <3>1. a \in vivo /\ vpk' = vpk
      BY <2>2, <1>4 DEF Hueco
    <3>2. vpk \in vivo /\ anter[Unica][vpk] = 0 /\ vpk # nw
      BY <3>1 DEF IInv, Cadena, Primera
    <3>3. vpk # s
      BY <2>2, <3>2, <1>5 DEF Hueco
    <3> QED
      BY <3>1, <3>2, <3>3, <1>2, <1>5 DEF Primera
  <2> QED
    BY <2>1, <2>2
<1>7. ASSUME NEW p \in vivo' PROVE Eslabon(p)'
  <2>1. CASE p = nw
    <3>1. anter'[Unica][p] = a /\ proxi'[Unica][p] = s /\ clave'[p] = k
      BY <2>1, <1>1, <1>2, <1>3
    <3>2. a = 0 => p = vpk' /\ \A q \in vivo' : clave'[p] <= clave'[q]
      BY <2>1, <3>1, <1>1, <1>4 DEF Hueco
    <3>3. a # 0 => a \in vivo' /\ proxi'[Unica][a] = p
      BY <2>1, <1>3 DEF Hueco
    <3>4. s = 0 => \A q \in vivo' : clave'[q] <= clave'[p]
      <4> SUFFICES ASSUME s = 0, NEW q \in vivo' PROVE clave'[q] <= k
        BY <3>1
      <4>1. k \in Nat
        OBVIOUS
      <4>2. q # nw => clave[q] < k /\ clave'[q] = clave[q]
        BY <1>1 DEF Hueco
      <4>3. q = nw => clave'[q] = k
        BY <1>1
      <4> QED
        BY <4>1, <4>2, <4>3, <1>1
    <3>5. s # 0 => /\ s \in vivo' /\ anter'[Unica][s] = p /\ clave'[p] < clave'[s]
                   /\ \A q \in vivo' : clave'[q] <= clave'[p] \/ clave'[s] <= clave'[q]
      <4> SUFFICES ASSUME s # 0
                   PROVE  /\ s \in vivo' /\ anter'[Unica][s] = nw /\ k < clave'[s]
                          /\ \A q \in vivo' : clave'[q] <= k \/ clave'[s] <= clave'[q]
        BY <2>1, <3>1
      <4>1. /\ s \in vivo /\ k < clave[s]
            /\ \A q \in vivo : clave[q] < k \/ clave[s] <= clave[q]
        BY DEF Hueco
      <4>2. s # nw /\ clave'[s] = clave[s] /\ anter'[Unica][s] = nw
        BY <4>1, <1>1, <1>2
      <4>3. ASSUME NEW q \in vivo' PROVE clave'[q] <= k \/ clave'[s] <= clave'[q]
        <5>1. q = nw => clave'[q] = k /\ k \in Nat
          BY <1>1
        <5>2. q # nw => q \in vivo /\ clave'[q] = clave[q]
          BY <1>1
        <5> QED
          BY <5>1, <5>2, <4>1, <4>2, <1>1
      <4> QED
        BY <4>1, <4>2, <4>3
    <3> QED
      BY <3>1, <3>2, <3>3, <3>4, <3>5 DEF Eslabon
  <2>2. CASE p # nw
    <3> DEFINE b == anter[Unica][p]
               t == proxi[Unica][p]
    <3>1. p \in vivo /\ p # 0 /\ clave'[p] = clave[p] /\ clave[p] \in Nat /\ k \in Nat
      BY <2>2, <1>1, <1>5
    <3>2. /\ b = 0 => p = vpk /\ \A q \in vivo : clave[p] <= clave[q]
          /\ b # 0 => b \in vivo /\ proxi[Unica][b] = p
          /\ t = 0 => \A q \in vivo : clave[q] <= clave[p]
          /\ t # 0 => /\ t \in vivo /\ anter[Unica][t] = p /\ clave[p] < clave[t]
                      /\ \A q \in vivo : clave[q] <= clave[p] \/ clave[t] <= clave[q]
      BY <3>1 DEF IInv, Cadena, Eslabon
    <3>3. CASE p = s
      <4>1. anter'[Unica][p] = nw /\ proxi'[Unica][nw] = p /\ b = a /\ k < clave[p]
        BY <2>2, <3>1, <3>3, <1>2, <1>3 DEF Hueco
      <4>2. p # a
        BY <4>1, <3>1, <1>1, <1>5 DEF Hueco
      <4>3. proxi'[Unica][p] = t
        BY <4>2, <2>2, <1>3
      <4>4. t # 0 => t # s /\ t # nw
        BY <3>2, <3>3, <3>1
      <4>5. t # 0 => anter'[Unica][t] = p
        BY <4>4, <3>2, <1>2
      <4>6. t = 0 => \A q \in vivo' : clave'[q] <= clave'[p]
        BY <3>1, <3>2, <4>1, <1>1
      <4>7. t # 0 => /\ clave'[p] < clave'[t]
                     /\ \A q \in vivo' : clave'[q] <= clave'[p] \/ clave'[t] <= clave'[q]
        BY <3>1, <3>2, <4>1, <1>1
      <4> QED
        BY <4>1, <4>3, <4>5, <4>6, <4>7, <3>2, <1>5 DEF Eslabon
    <3>4. CASE p = a
      <4>1. proxi'[Unica][p] = nw /\ anter'[Unica][nw] = p /\ t = s /\ clave[p] < k
        BY <2>2, <3>1, <3>4, <1>2, <1>3 DEF Hueco
      <4>2. p # s
        BY <4>1, <3>1, <1>1, <1>5 DEF Hueco
      <4>3. anter'[Unica][p] = b
        BY <4>2, <2>2, <1>2
      <4>4. b # 0 => b # a /\ b # nw
        <5> SUFFICES ASSUME b # 0, b = a PROVE FALSE
          BY <3>2
        <5>1. t = p
          BY <3>2, <3>4
        <5> QED
          BY <5>1, <3>1, <3>2
      <4>5. b # 0 => proxi'[Unica][b] = p
        BY <4>4, <3>2, <1>3
      <4>6. b = 0 => p = vpk' /\ \A q \in vivo' : clave'[p] <= clave'[q]
        BY <3>1, <3>2, <3>4, <4>1, <1>1, <1>4
      <4>7. \A q \in vivo' : clave'[q] <= clave'[p] \/ clave'[nw] <= clave'[q]
        BY <3>1, <3>4, <4>1, <1>1 DEF Hueco
      <4> QED
        BY <4>1, <4>3, <4>5, <4>6, <4>7, <3>1, <3>2, <1>1, <1>5 DEF Eslabon
    <3>5. CASE p # s /\ p # a
      <4>1. anter'[Unica][p] = b /\ proxi'[Unica][p] = t
        BY <2>2, <3>5, <1>2, <1>3
      <4>2. b # 0 => b # a
        BY <3>2, <3>5 DEF Hueco
      <4>3. t # 0 => t # s
        BY <3>1, <3>2, <3>5 DEF Hueco
      <4>4. b # 0 => b \in vivo' /\ proxi'[Unica][b] = p
        BY <4>2, <3>2, <1>3
      <4>5. t # 0 => t \in vivo' /\ anter'[Unica][t] = p
        BY <4>3, <3>2, <1>2
      <4>6. b = 0 => p = vpk' /\ clave[p] < k
        <5> SUFFICES ASSUME b = 0 PROVE p = vpk' /\ clave[p] < k
          OBVIOUS
        <5>1. p = vpk /\ \A q \in vivo : clave[p] <= clave[q]
          BY <3>2
        <5>2. a # 0
          <6> SUFFICES ASSUME a = 0 PROVE FALSE
            OBVIOUS
          <6>1. CASE s = 0
            BY <6>1, <3>1, <1>1 DEF Hueco
          <6>2. CASE s # 0
            <7>1. s \in vivo /\ anter[Unica][s] = 0
              BY <6>2 DEF Hueco
            <7>2. s = vpk
              BY <7>1 DEF IInv, Cadena, Eslabon
            <7> QED
              BY <7>2, <5>1, <3>5
          <6> QED
            BY <6>1, <6>2
        <5>3. a \in vivo /\ clave[a] < k /\ clave[a] \in Nat
          BY <5>2, <1>1, <1>5 DEF Hueco
        <5> QED
          BY <5>1, <5>2, <5>3, <3>1, <1>4
      <4>7. t = 0 => k < clave[p]
        <5> SUFFICES ASSUME t = 0 PROVE k < clave[p]
          OBVIOUS
        <5>1. \A q \in vivo : clave[q] <= clave[p]
          BY <3>2
        <5>2. s # 0
          <6> SUFFICES ASSUME s = 0 PROVE FALSE
            OBVIOUS
          <6>1. clave[p] < k
            BY <3>1 DEF Hueco
          <6>2. a # 0
            BY <6>1, <3>1 DEF Hueco
          <6>3. /\ a \in vivo /\ proxi[Unica][a] = 0
                /\ clave[p] <= clave[a] \/ k < clave[p]
            BY <6>2, <3>1 DEF Hueco
          <6>4. clave[p] = clave[a]
            BY <6>1, <6>3, <5>1, <3>1, <1>1
          <6> QED
            BY <6>3, <6>4, <3>1, <3>5 DEF IInv, IndiceFiel
        <5>3. s \in vivo /\ k < clave[s] /\ clave[s] \in Nat /\ clave[s] <= clave[p]
          BY <5>1, <5>2, <1>1 DEF Hueco
        <5> QED
          BY <5>3, <3>1
      <4>8. t # 0 => k <= clave[p] \/ clave[t] <= k
        <5> SUFFICES ASSUME t # 0, clave[p] < k, k < clave[t] PROVE FALSE
          BY <3>1, <3>2, <1>1
        <5>1. a # 0
          BY <3>1, <3>2 DEF Hueco
        <5>2. /\ a \in vivo /\ clave[a] < k /\ clave[a] \in Nat /\ clave[t] \in Nat
              /\ clave[p] <= clave[a] \/ k < clave[p]
          BY <5>1, <3>1, <3>2, <1>1, <1>5 DEF Hueco
        <5>3. clave[a] <= clave[p]
          BY <5>2, <3>1, <3>2
        <5>4. clave[a] = clave[p]
          BY <5>2, <5>3, <3>1
        <5> QED
          BY <5>2, <5>4, <3>1, <3>5 DEF IInv, IndiceFiel
      <4>9. /\ b = 0 => \A q \in vivo' : clave'[p] <= clave'[q]
            /\ t = 0 => \A q \in vivo' : clave'[q] <= clave'[p]
            /\ t # 0 => /\ clave'[p] < clave'[t]
                        /\ \A q \in vivo' : clave'[q] <= clave'[p] \/ clave'[t] <= clave'[q]
        BY <4>6, <4>7, <4>8, <3>1, <3>2, <1>1
      <4> QED
        BY <4>1, <4>4, <4>5, <4>6, <4>9 DEF Eslabon
    <3> QED
      BY <3>3, <3>4, <3>5
  <2> QED
    BY <2>1, <2>2
<1> QED
  BY <1>6, <1>7 DEF Cadena

LEMMA EnlazaPilas ==
  ASSUME IInv, NEW nw \in Pos, nw \notin vivo, vivo' = vivo \cup {nw},
         NEW k \in Claves, NEW v \in [Reps -> Valores], NEW a, NEW s,
         \A i \in Reps : Altura(i, v[i]) <= MaxCuant,
         Escribe(nw, k, v), Enlaza(nw, k, v, a, s)
  PROVE  Pilas'
<1> USE ConstantesArchivo
<1> SUFFICES ASSUME NEW i \in Reps
             PROVE  /\ \A x \in Valores : Tope(i, x)'
                    /\ \A p \in vivo' : Apilado(i, p)'
  BY DEF Pilas
<1> DEFINE x == v[i]
           t == idxr[i][x]
<1>1. /\ \A q \in vivo' : valor'[i][q] = IF q = nw THEN x ELSE valor[i][q]
      /\ \A q \in vivo' : cuant'[i][q] = IF q = nw THEN Altura(i, x) ELSE cuant[i][q]
  BY DEF IInv, TypeOK, Escribe, Enlaza, Con
<1>2. i \in Llaves /\ i # Unica
  BY DEF Llaves
<1>3. /\ \A q \in vivo' : anter'[i][q] = IF q = nw THEN 0 ELSE IF q = t THEN nw
                                         ELSE anter[i][q]
      /\ \A q \in vivo' : proxi'[i][q] = IF q = nw THEN t ELSE IF q = 0 THEN 0
                                         ELSE proxi[i][q]
  BY <1>2 DEF IInv, TypeOK, Escribe, Enlaza, Con
<1>4. \A y \in Valores : idxr'[i][y] = IF y = x THEN nw ELSE idxr[i][y]
  BY DEF IInv, TypeOK, Enlaza
<1>5. nw # 0 /\ 0 \notin vivo /\ x \in Valores
  BY DEF IInv, TypeOK
<1>6. /\ \A y \in Valores : Tope(i, y)
      /\ \A q \in vivo : Apilado(i, q)
  BY DEF IInv, Pilas
<1>7. /\ \A q \in vivo : valor[i][q] \in Valores /\ cuant[i][q] \in Nat
  BY DEF IInv, TypeOK
<1>8. ASSUME NEW y \in Valores PROVE Tope(i, y)'
  <2>1. CASE y = x
    BY <2>1, <1>1, <1>3, <1>4 DEF Tope
  <2>2. CASE y # x
    <3> SUFFICES ASSUME idxr[i][y] # 0
                 PROVE  /\ idxr[i][y] \in vivo' /\ valor'[i][idxr[i][y]] = y
                        /\ anter'[i][idxr[i][y]] = 0
      BY <2>2, <1>4 DEF Tope
    <3>1. idxr[i][y] \in vivo /\ valor[i][idxr[i][y]] = y /\ anter[i][idxr[i][y]] = 0
      BY <1>6 DEF Tope
    <3>2. idxr[i][y] # t
      BY <2>2, <3>1, <1>5, <1>6 DEF Tope
    <3> QED
      BY <3>1, <3>2, <1>1, <1>3
  <2> QED
    BY <2>1, <2>2
<1>9. t # 0 => /\ t \in vivo /\ valor[i][t] = x /\ anter[i][t] = 0 /\ t # nw
               /\ Altura(i, x) = cuant[i][t] + 1
  BY <1>5, <1>6 DEF Tope, Altura
<1>10. ASSUME NEW p \in vivo' PROVE Apilado(i, p)'
  <2>1. CASE p = nw
    <3>1. anter'[i][p] = 0 /\ proxi'[i][p] = t /\ valor'[i][p] = x /\ idxr'[i][x] = p
      BY <2>1, <1>1, <1>3, <1>4, <1>5
    <3>2. t # 0 => /\ t \in vivo' /\ anter'[i][t] = p /\ valor'[i][t] = x
                   /\ cuant'[i][t] < cuant'[i][p]
      <4> SUFFICES ASSUME t # 0
                   PROVE  /\ t \in vivo' /\ anter'[i][t] = nw /\ valor'[i][t] = x
                          /\ cuant'[i][t] < cuant'[i][nw]
        BY <2>1
      <4>1. t \in vivo' /\ t # nw /\ cuant[i][t] \in Nat
        BY <1>7, <1>9
      <4>2. cuant'[i][t] = cuant[i][t] /\ valor'[i][t] = x /\ anter'[i][t] = nw
        BY <4>1, <1>1, <1>3, <1>9
      <4>3. cuant'[i][nw] = cuant[i][t] + 1
        BY <1>1, <1>9
      <4> QED
        BY <4>1, <4>2, <4>3
    <3> QED
      BY <3>1, <3>2 DEF Apilado
  <2>2. CASE p # nw
    <3> DEFINE b == anter[i][p]
               z == proxi[i][p]
    <3>1. /\ p \in vivo /\ p # 0 /\ proxi'[i][p] = z /\ valor'[i][p] = valor[i][p]
          /\ valor[i][p] \in Valores /\ cuant'[i][p] = cuant[i][p]
      BY <2>2, <1>1, <1>3, <1>5, <1>7
    <3>2. /\ b = 0 => idxr[i][valor[i][p]] = p
          /\ b # 0 => b \in vivo /\ proxi[i][b] = p /\ valor[i][b] = valor[i][p]
          /\ z # 0 => /\ z \in vivo /\ anter[i][z] = p
                      /\ valor[i][z] = valor[i][p] /\ cuant[i][z] < cuant[i][p]
      BY <3>1, <1>6 DEF Apilado
    <3>3. z # 0 => /\ z \in vivo' /\ anter'[i][z] = p /\ valor'[i][z] = valor[i][p]
                   /\ cuant'[i][z] < cuant'[i][p]
      <4> SUFFICES ASSUME z # 0 PROVE z # t /\ z # nw
        BY <3>1, <3>2, <1>1, <1>3
      <4> QED
        BY <3>1, <3>2, <1>9
    <3>4. CASE p = t
      <4>1. anter'[i][p] = nw /\ proxi'[i][nw] = p /\ valor'[i][nw] = valor[i][p]
        BY <2>2, <3>1, <3>4, <1>1, <1>3, <1>9
      <4> QED
        BY <4>1, <3>1, <3>3, <1>5 DEF Apilado
    <3>5. CASE p # t
      <4>1. anter'[i][p] = b
        BY <2>2, <3>5, <1>3
      <4>2. b = 0 => idxr'[i][valor[i][p]] = p
        BY <3>1, <3>2, <3>5, <1>4
      <4>3. b # 0 => b \in vivo' /\ proxi'[i][b] = p /\ valor'[i][b] = valor[i][p]
        BY <3>2, <1>1, <1>3
      <4> QED
        BY <4>1, <4>2, <4>3, <3>1, <3>3 DEF Apilado
    <3> QED
      BY <3>4, <3>5
  <2> QED
    BY <2>1, <2>2
<1> QED
  BY <1>8, <1>10

-----------------------------------------------------------------------------
(* A deleted record *)

\* Vdel keeps every part of the invariant.
LEMMA VdelTipo ==
  ASSUME IInv, NEW lug \in Pos, Vdel(lug)
  PROVE  TypeOK'
<1> USE ConstantesArchivo
<1>1. lug \in vivo /\ vivo' = vivo \ {lug} /\ vivo' \subseteq Pos
  BY DEF Vdel, IInv, TypeOK
<1>2. \A i \in Llaves : anter[i][lug] \in Pos0 /\ proxi[i][lug] \in Pos0
  BY <1>1 DEF IInv, TypeOK
<1>3. clave' \in [vivo' -> Claves]
  <2>1. clave \in [vivo -> Claves] /\ 0 \notin vivo
    BY DEF IInv, TypeOK
  <2> QED
    BY <1>1, <2>1 DEF Vdel, Sin
<1>4. valor' \in [Reps -> [vivo' -> Valores]]
  <2>1. valor \in [Reps -> [vivo -> Valores]] /\ 0 \notin vivo
    BY DEF IInv, TypeOK
  <2> QED
    BY <1>1, <2>1 DEF Vdel, Sin
<1>5. cuant' \in [Reps -> [vivo' -> 0..MaxCuant]]
  <2>1. cuant \in [Reps -> [vivo -> 0..MaxCuant]] /\ 0 \notin vivo
    BY DEF IInv, TypeOK
  <2> QED
    BY <1>1, <2>1 DEF Vdel, Sin
<1>6. anter' \in [Llaves -> [vivo' -> Pos0]]
  <2>1. anter \in [Llaves -> [vivo -> Pos0]]
    BY DEF IInv, TypeOK
  <2> QED
    BY <1>1, <1>2, <2>1 DEF Vdel, Sin
<1>7. proxi' \in [Llaves -> [vivo' -> Pos0]]
  <2>1. proxi \in [Llaves -> [vivo -> Pos0]]
    BY DEF IInv, TypeOK
  <2> QED
    BY <1>1, <1>2, <2>1 DEF Vdel, Sin
<1>8. vpk' \in Pos0
  BY <1>2 DEF Vdel, Primero, IInv, TypeOK, Llaves
<1>9. idxu' \in [Claves -> Pos0]
  BY DEF Vdel, Olvida, IInv, TypeOK, Pos0
<1>10. idxr' \in [Reps -> [Valores -> Pos0]]
  BY <1>2 DEF Vdel, Topes, IInv, TypeOK, Llaves
<1> QED
  BY <1>1, <1>3, <1>4, <1>5, <1>6, <1>7, <1>8, <1>9, <1>10 DEF TypeOK

LEMMA VdelIndice ==
  ASSUME IInv, NEW lug \in Pos, Vdel(lug)
  PROVE  IndiceFiel'
<1> USE ConstantesArchivo
<1>1. /\ lug \in vivo /\ vivo' = vivo \ {lug} /\ 0 \notin vivo
      /\ \A q \in vivo : clave[q] \in Claves
  BY DEF Vdel, IInv, TypeOK
<1>2. \A q \in vivo' : clave'[q] = clave[q]
  BY <1>1 DEF Vdel, Sin, IInv, TypeOK
<1>3. \A c \in Claves : idxu'[c] = IF c = clave[lug] THEN 0 ELSE idxu[c]
  BY DEF Vdel, Olvida, IInv, TypeOK
<1>4. /\ \A p \in vivo : idxu[clave[p]] = p
      /\ \A c \in Claves : idxu[c] # 0 => idxu[c] \in vivo /\ clave[idxu[c]] = c
  BY DEF IInv, IndiceFiel
<1>5. ASSUME NEW q \in vivo' PROVE idxu'[clave'[q]] = q
  BY <1>1, <1>2, <1>3, <1>4, ZenonT(40)
<1>6. ASSUME NEW c \in Claves, idxu'[c] # 0
      PROVE  idxu'[c] \in vivo' /\ clave'[idxu'[c]] = c
  <2>1. idxu'[c] = idxu[c] /\ idxu[c] # 0 /\ c # clave[lug]
    BY <1>3, <1>6
  <2>2. idxu[c] \in vivo /\ clave[idxu[c]] = c
    BY <2>1, <1>4
  <2>3. idxu[c] \in vivo'
    BY <2>1, <2>2, <1>1
  <2> QED
    BY <2>1, <2>2, <2>3, <1>2
<1> QED
  BY <1>5, <1>6 DEF IndiceFiel

LEMMA VdelCadena ==
  ASSUME IInv, NEW lug \in Pos, Vdel(lug)
  PROVE  Cadena'
<1> USE ConstantesArchivo
<1> DEFINE a == anter[Unica][lug]
           s == proxi[Unica][lug]
<1>1. /\ lug \in vivo /\ vivo' = vivo \ {lug} /\ 0 \notin vivo
      /\ \A q \in vivo : clave[q] \in Nat
  BY DEF Vdel, IInv, TypeOK
<1>2. \A q \in vivo' : clave'[q] = clave[q]
  BY <1>1 DEF Vdel, Sin, IInv, TypeOK
<1>3. /\ \A q \in vivo' : anter'[Unica][q] = IF q = s THEN a ELSE anter[Unica][q]
      /\ \A q \in vivo' : proxi'[Unica][q] = IF q = a THEN s ELSE proxi[Unica][q]
  BY <1>1 DEF Vdel, Sin, IInv, TypeOK, Llaves
<1>4. vpk' = IF a = 0 THEN s ELSE vpk
  BY DEF Vdel, Primero
<1>5. \A q \in vivo : clave[q] = clave[lug] => q = lug
  BY <1>1 DEF IInv, IndiceFiel
<1>6. \A q \in vivo : Eslabon(q)
  BY DEF IInv, Cadena
<1>7. /\ a = 0 => lug = vpk /\ \A q \in vivo : clave[lug] <= clave[q]
      /\ a # 0 => a \in vivo /\ proxi[Unica][a] = lug
      /\ s = 0 => \A q \in vivo : clave[q] <= clave[lug]
      /\ s # 0 => /\ s \in vivo /\ anter[Unica][s] = lug /\ clave[lug] < clave[s]
                  /\ \A q \in vivo : clave[q] <= clave[lug] \/ clave[s] <= clave[q]
  BY <1>1, <1>6 DEF Eslabon
<1>8. s # lug /\ a # lug
  <2>1. s # lug
    BY <1>1, <1>7
  <2> QED
    BY <2>1, <1>1, <1>7
<1>9. a # 0 => /\ clave[a] < clave[lug]
               /\ \A q \in vivo : clave[q] <= clave[a] \/ clave[lug] <= clave[q]
  BY <1>1, <1>6, <1>7 DEF Eslabon
<1>10. Primera'
  <2>1. /\ vpk = 0 <=> vivo = {}
        /\ vpk # 0 => vpk \in vivo /\ anter[Unica][vpk] = 0
    BY DEF IInv, Cadena, Primera
  <2>2. CASE a = 0
    <3>1. CASE s = 0
      <4>1. \A q \in vivo : q = lug
        BY <2>2, <3>1, <1>1, <1>5, <1>7
      <4> QED
        BY <4>1, <2>2, <3>1, <1>1, <1>4 DEF Primera
    <3>2. CASE s # 0
      <4>1. s \in vivo' /\ anter'[Unica][s] = 0
        BY <2>2, <3>2, <1>1, <1>3, <1>7, <1>8
      <4> QED
        BY <4>1, <2>2, <3>2, <1>4 DEF Primera
    <3> QED
      BY <3>1, <3>2
  <2>3. CASE a # 0
    <3>1. vpk # 0 /\ vpk \in vivo /\ vpk # lug /\ vpk' = vpk /\ anter[Unica][vpk] = 0
      BY <2>1, <2>3, <1>1, <1>4
    <3>2. vpk # s
      BY <3>1, <1>1, <1>7
    <3>3. vpk \in vivo' /\ anter'[Unica][vpk] = 0
      BY <3>1, <3>2, <1>1, <1>3
    <3> QED
      BY <3>1, <3>3 DEF Primera
  <2> QED
    BY <2>2, <2>3
<1>11. ASSUME NEW p \in vivo' PROVE Eslabon(p)'
  <2> DEFINE b == anter[Unica][p]
             t == proxi[Unica][p]
  <2>1. p \in vivo /\ p # lug /\ p # 0 /\ clave'[p] = clave[p] /\ clave[p] \in Nat
    BY <1>1, <1>2
  <2>2. /\ b = 0 => p = vpk /\ \A q \in vivo : clave[p] <= clave[q]
        /\ b # 0 => b \in vivo /\ proxi[Unica][b] = p
        /\ t = 0 => \A q \in vivo : clave[q] <= clave[p]
        /\ t # 0 => /\ t \in vivo /\ anter[Unica][t] = p /\ clave[p] < clave[t]
                    /\ \A q \in vivo : clave[q] <= clave[p] \/ clave[t] <= clave[q]
    BY <2>1, <1>6 DEF Eslabon
  <2> DEFINE b1 == anter'[Unica][p]
             t1 == proxi'[Unica][p]
  <2>3. /\ b1 = 0 => p = vpk' /\ \A q \in vivo' : clave[p] <= clave[q]
        /\ b1 # 0 => b1 \in vivo' /\ proxi'[Unica][b1] = p
    <3>1. CASE p = s
      <4>1. b1 = a
        BY <3>1, <1>3
      <4>2. b1 = 0 => p = vpk'
        BY <3>1, <4>1, <1>4
      <4>3. b1 = 0 => \A q \in vivo' : clave[p] <= clave[q]
        <5> SUFFICES ASSUME b1 = 0, NEW q \in vivo' PROVE clave[p] <= clave[q]
          OBVIOUS
        <5>1. clave[lug] <= clave[q] /\ q \in vivo /\ clave[q] # clave[lug]
          BY <4>1, <1>1, <1>5, <1>7
        <5>2. clave[q] <= clave[lug] \/ clave[p] <= clave[q]
          BY <3>1, <5>1, <2>1, <1>7
        <5> QED
          BY <5>1, <5>2, <1>1, <2>1
      <4>4. b1 # 0 => b1 \in vivo' /\ proxi'[Unica][b1] = p
        BY <3>1, <4>1, <1>1, <1>3, <1>7, <1>8
      <4> QED
        BY <4>2, <4>3, <4>4
    <3>2. CASE p # s
      <4>1. b1 = b
        BY <3>2, <1>3
      <4>2. b # 0 => b # lug
        BY <3>2, <2>2
      <4>3. b # 0 => b # a
        BY <2>1, <2>2, <1>7
      <4>4. b # 0 => b \in vivo' /\ proxi'[Unica][b] = p
        BY <4>2, <4>3, <2>2, <1>1, <1>3
      <4>5. b = 0 => vpk' = p /\ \A q \in vivo' : clave[p] <= clave[q]
        BY <2>1, <2>2, <1>1, <1>4, <1>7
      <4> QED
        BY <4>1, <4>4, <4>5
    <3> QED
      BY <3>1, <3>2
  <2>4. /\ t1 = 0 => \A q \in vivo' : clave[q] <= clave[p]
        /\ t1 # 0 => /\ t1 \in vivo' /\ anter'[Unica][t1] = p /\ clave[p] < clave[t1]
                     /\ \A q \in vivo' : clave[q] <= clave[p] \/ clave[t1] <= clave[q]
    <3>1. CASE p = a
      <4>1. t1 = s
        BY <3>1, <1>3
      <4>2. /\ clave[p] < clave[lug]
            /\ \A q \in vivo : clave[q] <= clave[p] \/ clave[lug] <= clave[q]
        BY <3>1, <2>1, <1>9
      <4>3. s = 0 => \A q \in vivo' : clave[q] <= clave[p]
        <5> SUFFICES ASSUME s = 0, NEW q \in vivo' PROVE clave[q] <= clave[p]
          OBVIOUS
        <5>1. q \in vivo /\ clave[q] # clave[lug] /\ clave[q] <= clave[lug]
          BY <1>1, <1>5, <1>7
        <5> QED
          BY <5>1, <4>2, <1>1
      <4>4. s # 0 => s \in vivo' /\ anter'[Unica][s] = p /\ clave[p] < clave[s]
        <5> SUFFICES ASSUME s # 0
                     PROVE  s \in vivo' /\ anter'[Unica][s] = p /\ clave[p] < clave[s]
          OBVIOUS
        <5>1. s \in vivo /\ clave[s] \in Nat /\ clave[lug] < clave[s]
          BY <1>1, <1>7
        <5>2. s \in vivo' /\ anter'[Unica][s] = p
          BY <5>1, <3>1, <1>1, <1>3, <1>8
        <5> QED
          BY <5>1, <5>2, <4>2, <2>1, <1>1
      <4>5. s # 0 => \A q \in vivo' : clave[q] <= clave[p] \/ clave[s] <= clave[q]
        <5> SUFFICES ASSUME s # 0, NEW q \in vivo'
                     PROVE  clave[q] <= clave[p] \/ clave[s] <= clave[q]
          OBVIOUS
        <5>1. /\ q \in vivo /\ clave[q] # clave[lug] /\ clave[q] \in Nat
              /\ clave[s] \in Nat /\ clave[lug] \in Nat
          BY <1>1, <1>5, <1>7
        <5>2. clave[q] <= clave[p] \/ clave[lug] <= clave[q]
          BY <5>1, <4>2
        <5>3. clave[q] <= clave[lug] \/ clave[s] <= clave[q]
          BY <5>1, <1>7
        <5> QED
          BY <5>1, <5>2, <5>3
      <4> QED
        BY <4>1, <4>3, <4>4, <4>5
    <3>2. CASE p # a
      <4>1. t1 = t
        BY <3>2, <1>3
      <4>2. t # 0 => t # lug /\ t # s
        BY <3>2, <2>1, <2>2, <1>1, <1>7
      <4>3. t # 0 => t \in vivo' /\ anter'[Unica][t] = p
        BY <4>2, <2>2, <1>1, <1>3
      <4> QED
        BY <4>1, <4>3, <2>2, <1>1
    <3> QED
      BY <3>1, <3>2
  <2>5. \A q \in vivo' : clave'[q] = clave[q]
    BY <1>2
  <2> QED
    BY <2>1, <2>3, <2>4, <2>5 DEF Eslabon
<1> QED
  BY <1>10, <1>11 DEF Cadena

LEMMA VdelPilas ==
  ASSUME IInv, NEW lug \in Pos, Vdel(lug)
  PROVE  Pilas'
<1> USE ConstantesArchivo
<1> SUFFICES ASSUME NEW i \in Reps
             PROVE  /\ \A x \in Valores : Tope(i, x)'
                    /\ \A p \in vivo' : Apilado(i, p)'
  BY DEF Pilas
<1> DEFINE x == valor[i][lug]
           a == anter[i][lug]
           s == proxi[i][lug]
<1>1. /\ lug \in vivo /\ vivo' = vivo \ {lug} /\ 0 \notin vivo /\ x \in Valores
      /\ \A q \in vivo : cuant[i][q] \in Nat /\ valor[i][q] \in Valores
  BY DEF Vdel, IInv, TypeOK
<1>2. i \in Llaves
  BY DEF Llaves
<1>3. /\ \A q \in vivo' : valor'[i][q] = valor[i][q]
      /\ \A q \in vivo' : cuant'[i][q] = cuant[i][q]
  BY <1>1 DEF Vdel, Sin, IInv, TypeOK
<1>4. /\ \A q \in vivo' : anter'[i][q] = IF q = s THEN a ELSE anter[i][q]
      /\ \A q \in vivo' : proxi'[i][q] = IF q = a THEN s ELSE proxi[i][q]
  BY <1>1, <1>2 DEF Vdel, Sin, IInv, TypeOK
<1>5. \A y \in Valores : idxr'[i][y] = IF a = 0 /\ y = x THEN s ELSE idxr[i][y]
  BY <1>1 DEF Vdel, Topes, IInv, TypeOK
<1>6. /\ \A y \in Valores : Tope(i, y)
      /\ \A q \in vivo : Apilado(i, q)
  BY DEF IInv, Pilas
<1>7. /\ a = 0 => idxr[i][x] = lug
      /\ a # 0 => a \in vivo /\ proxi[i][a] = lug /\ valor[i][a] = x
      /\ s # 0 => /\ s \in vivo /\ anter[i][s] = lug
                  /\ valor[i][s] = x /\ cuant[i][s] < cuant[i][lug]
  BY <1>1, <1>6 DEF Apilado
<1>8. a # 0 => cuant[i][lug] < cuant[i][a]
  BY <1>1, <1>6, <1>7 DEF Apilado
<1>9. s # lug /\ a # lug /\ (a # 0 => a # s)
  <2>1. s # lug
    BY <1>1, <1>7
  <2>2. a # lug
    BY <1>1, <1>8
  <2>3. ASSUME a # 0, a = s PROVE FALSE
    <3>1. cuant[i][s] < cuant[i][lug] /\ cuant[i][lug] < cuant[i][s] /\ s \in vivo
      BY <2>3, <1>1, <1>7, <1>8
    <3>2. cuant[i][s] \in Nat /\ cuant[i][lug] \in Nat
      BY <3>1, <1>1
    <3> QED
      BY <3>1, <3>2
  <2> QED
    BY <2>1, <2>2, <2>3
<1>10. ASSUME NEW y \in Valores PROVE Tope(i, y)'
  <2>1. CASE a = 0 /\ y = x
    <3> SUFFICES ASSUME s # 0
                 PROVE  s \in vivo' /\ valor'[i][s] = x /\ anter'[i][s] = 0
      BY <2>1, <1>5 DEF Tope
    <3> QED
      BY <2>1, <1>1, <1>3, <1>4, <1>7, <1>9
  <2>2. CASE ~ (a = 0 /\ y = x)
    <3> DEFINE c == idxr[i][y]
    <3>1. idxr'[i][y] = c
      BY <2>2, <1>5
    <3> SUFFICES ASSUME c # 0
                 PROVE  c \in vivo' /\ valor'[i][c] = y /\ anter'[i][c] = 0
      BY <3>1 DEF Tope
    <3>2. c \in vivo /\ valor[i][c] = y /\ anter[i][c] = 0
      BY <1>6 DEF Tope
    <3>3. c # lug
      BY <2>2, <3>2
    <3>4. c # s
      BY <3>2, <1>1, <1>7
    <3> QED
      BY <3>2, <3>3, <3>4, <1>1, <1>3, <1>4
  <2> QED
    BY <2>1, <2>2
<1>11. ASSUME NEW p \in vivo' PROVE Apilado(i, p)'
  <2> DEFINE b == anter[i][p]
             t == proxi[i][p]
             b1 == anter'[i][p]
             t1 == proxi'[i][p]
  <2>1. /\ p \in vivo /\ p # lug /\ p # 0 /\ valor'[i][p] = valor[i][p]
        /\ cuant'[i][p] = cuant[i][p] /\ valor[i][p] \in Valores /\ cuant[i][p] \in Nat
    BY <1>1, <1>3
  <2>2. /\ b = 0 => idxr[i][valor[i][p]] = p
        /\ b # 0 => b \in vivo /\ proxi[i][b] = p /\ valor[i][b] = valor[i][p]
        /\ t # 0 => /\ t \in vivo /\ anter[i][t] = p
                    /\ valor[i][t] = valor[i][p] /\ cuant[i][t] < cuant[i][p]
    BY <2>1, <1>6 DEF Apilado
  <2>3. /\ b1 = 0 => idxr'[i][valor'[i][p]] = p
        /\ b1 # 0 => b1 \in vivo' /\ proxi'[i][b1] = p /\ valor'[i][b1] = valor'[i][p]
    <3>1. CASE p = s
      <4>1. b1 = a /\ valor[i][p] = x
        BY <3>1, <2>1, <1>4, <1>7
      <4>2. a = 0 => idxr'[i][x] = p
        BY <3>1, <1>1, <1>5
      <4>3. a # 0 => a \in vivo' /\ proxi'[i][a] = p /\ valor'[i][a] = x
        BY <3>1, <1>1, <1>3, <1>4, <1>7, <1>9
      <4> QED
        BY <4>1, <4>2, <4>3, <2>1
    <3>2. CASE p # s
      <4>1. b1 = b
        BY <3>2, <1>4
      <4>2. b # 0 => b # lug /\ b # a
        BY <3>2, <2>1, <2>2, <1>7
      <4>3. b # 0 => b \in vivo' /\ proxi'[i][b] = p /\ valor'[i][b] = valor[i][p]
        BY <4>2, <2>2, <1>1, <1>3, <1>4
      <4>4. b = 0 => idxr'[i][valor[i][p]] = p
        BY <2>1, <2>2, <1>5, <1>7
      <4> QED
        BY <4>1, <4>3, <4>4, <2>1
    <3> QED
      BY <3>1, <3>2
  <2>4. t1 # 0 => /\ t1 \in vivo' /\ anter'[i][t1] = p
                  /\ valor'[i][t1] = valor'[i][p] /\ cuant'[i][t1] < cuant'[i][p]
    <3>1. CASE p = a
      <4>1. t1 = s /\ p # s /\ valor[i][p] = x /\ cuant[i][lug] < cuant[i][p]
        BY <3>1, <2>1, <1>4, <1>7, <1>8, <1>9
      <4> SUFFICES ASSUME s # 0
                   PROVE  /\ s \in vivo' /\ anter'[i][s] = p
                          /\ valor'[i][s] = x /\ cuant'[i][s] < cuant[i][p]
        BY <4>1, <2>1
      <4>2. s \in vivo /\ s \in vivo' /\ valor[i][s] = x /\ cuant[i][s] < cuant[i][lug]
        BY <1>1, <1>7, <1>9
      <4>3. cuant[i][s] < cuant[i][p]
        BY <4>1, <4>2, <2>1, <1>1
      <4> QED
        BY <4>2, <4>3, <3>1, <1>3, <1>4
    <3>2. CASE p # a
      <4>1. t1 = t
        BY <3>2, <1>4
      <4>2. t # 0 => t # lug /\ t # s
        BY <3>2, <2>1, <2>2, <1>7
      <4> QED
        <5> SUFFICES ASSUME t # 0
                     PROVE  /\ t \in vivo' /\ anter'[i][t] = p
                            /\ valor'[i][t] = valor[i][p] /\ cuant'[i][t] < cuant[i][p]
          BY <4>1, <2>1
        <5>1. /\ t \in vivo /\ anter[i][t] = p /\ valor[i][t] = valor[i][p]
              /\ cuant[i][t] < cuant[i][p] /\ t # lug /\ t # s
          BY <4>2, <2>2
        <5>2. t \in vivo'
          BY <5>1, <1>1
        <5> QED
          BY <5>1, <5>2, <1>3, <1>4
    <3> QED
      BY <3>1, <3>2
  <2> QED
    BY <2>3, <2>4 DEF Apilado
<1> QED
  BY <1>10, <1>11

-----------------------------------------------------------------------------
(* The invariant *)

\* Neither operation can break the chain, the stacks or the indexes.
LEMMA InvInclu ==
  ASSUME IInv, NEW nw \in Pos, Inclu(nw)
  PROVE  IInv'
<1>1. PICK k \in Claves, v \in [Reps -> Valores] :
        /\ idxu[k] = 0 /\ Escribe(nw, k, v)
        /\ \A i \in Reps : Altura(i, v[i]) <= MaxCuant
        /\ \E menor \in Menores(idxu, k) \cup {0}, mayor \in Mayores(idxu, k) \cup {0} :
             /\ Vecindad(k, menor, mayor)
             /\ Enlaza(nw, k, v, Izq(menor, mayor), Der(menor, mayor))
  BY DEF Inclu
<1>2. PICK menor \in Menores(idxu, k) \cup {0}, mayor \in Mayores(idxu, k) \cup {0} :
        /\ Vecindad(k, menor, mayor)
        /\ Enlaza(nw, k, v, Izq(menor, mayor), Der(menor, mayor))
  BY <1>1
<1> DEFINE a == Izq(menor, mayor)
           s == Der(menor, mayor)
<1>3. Hueco(k, a, s)
  BY <1>1, <1>2, HuecoDeInclu
<1>4. a \in Pos0 /\ s \in Pos0
  BY <1>3 DEF Hueco
<1>5. nw \notin vivo /\ vivo' = vivo \cup {nw}
  BY DEF Inclu
<1> HIDE DEF a, s
<1>6. idxu[k] = 0 /\ Escribe(nw, k, v) /\ Enlaza(nw, k, v, a, s)
  BY <1>1, <1>2 DEF a, s
<1>7. TypeOK'
  BY <1>1, <1>4, <1>5, <1>6, EnlazaTipo
<1>8. IndiceFiel'
  BY <1>5, <1>6, EnlazaIndice
<1>9. Cadena'
  BY <1>3, <1>5, <1>6, EnlazaCadena DEF a, s
<1>10. Pilas'
  BY <1>1, <1>5, <1>6, EnlazaPilas
<1> QED
  BY <1>7, <1>8, <1>9, <1>10 DEF IInv

\* A step that changes nothing changes no part of the invariant.
LEMMA InvQuieto == IInv /\ UNCHANGED vars => IInv'
  BY DEF IInv, vars, TypeOK, IndiceFiel, Cadena, Primera, Eslabon, Pilas, Tope, Apilado

LEMMA InvPaso == IInv /\ [Next]_vars => IInv'
<1> SUFFICES ASSUME IInv, [Next]_vars PROVE IInv'
  OBVIOUS
<1>1. CASE \E p \in Pos : Inclu(p)
  BY <1>1, InvInclu
<1>2. ASSUME NEW p \in Pos, Vdel(p) PROVE IInv'
  BY <1>2, VdelTipo, VdelIndice, VdelCadena, VdelPilas DEF IInv
<1>3. CASE UNCHANGED vars
  BY <1>3, InvQuieto
<1> QED
  BY <1>1, <1>2, <1>3 DEF Next

\* Every reachable state of the file satisfies the inductive invariant, whatever
\* records inclu and vdel enter and delete.
THEOREM Invariante == Spec => []IInv
<1>1. Init => IInv
  BY InvInicial
<1>2. IInv /\ [Next]_vars => IInv'
  BY InvPaso
<1> QED
  BY <1>1, <1>2, PTL DEF Spec

\* Records, indexes and pointers always have the values their types say.
THEOREM Tipo == Spec => []TypeOK
<1>1. IInv => TypeOK
  BY DEF IInv
<1> QED
  BY <1>1, Invariante, PTL

\* busca always finds each record of the file by its unique key, and nothing else.
THEOREM FidelidadDelIndice == Spec => []IndiceFiel
<1>1. IInv => IndiceFiel
  BY DEF IInv
<1> QED
  BY <1>1, Invariante, PTL

\* The chain of the unique key always joins the records in key order from vpk on.
THEOREM CadenaOrdenada == Spec => []Cadena
<1>1. IInv => Cadena
  BY DEF IInv
<1> QED
  BY <1>1, Invariante, PTL

\* The stacks of a repeated key are always linked both ways, hold one value each
\* and cannot run in a circle.
THEOREM PilasEnlazadas == Spec => []Pilas
<1>1. IInv => Pilas
  BY DEF IInv
<1> QED
  BY <1>1, Invariante, PTL

-----------------------------------------------------------------------------
(* The walks *)

\* A file has finitely many records, and the walk knows how many.
Finito == IInv /\ IsFiniteSet(vivo)

LEMMA PasoFinito == Finito /\ [Next]_vars => Finito'
<1> SUFFICES ASSUME Finito, [Next]_vars PROVE Finito'
  OBVIOUS
<1>1. IInv'
  BY InvPaso DEF Finito
<1>2. ASSUME NEW p \in Pos, Inclu(p) PROVE IsFiniteSet(vivo')
  BY <1>2, FS_AddElement DEF Inclu, Finito
<1>3. ASSUME NEW p \in Pos, Vdel(p) PROVE IsFiniteSet(vivo')
  BY <1>3, FS_RemoveElement DEF Vdel, Finito
<1>4. ASSUME UNCHANGED vars PROVE IsFiniteSet(vivo')
  BY <1>4 DEF vars, Finito
<1>5. IsFiniteSet(vivo')
  BY <1>2, <1>3, <1>4 DEF Next
<1> QED
  BY <1>1, <1>5 DEF Finito

\* What follows a record in a walk is its neighbour.
LEMMA SiguienteEs ==
  ASSUME IInv, NEW i \in Llaves, NEW q \in vivo
  PROVE  Siguientes(i)[q] = proxi[i][q]
<1>1. q \in Pos
  BY DEF IInv, TypeOK
<1> QED
  BY <1>1 DEF Siguientes

\* From vpk on the walk goes over all the records, the smaller keys first.
LEMMA PaseoEntero ==
  ASSUME Finito
  PROVE  RecorreTodo
<1> DEFINE sig == Siguientes(Unica)
           n == Cardinality(vivo)
<1>1. /\ IInv /\ TypeOK /\ Cadena /\ Unica \in Llaves
      /\ IsFiniteSet(vivo) /\ n \in Nat
  BY FS_CardinalityType DEF Finito, IInv, Llaves
<1>2. 0 \notin vivo /\ \A y \in vivo : clave[y] \in Nat
  BY <1>1, ConstantesArchivo DEF TypeOK
<1>3. vpk \in vivo \cup {0} /\ (vpk = 0 => vivo = {})
  BY <1>1 DEF Cadena, Primera
<1>4. ASSUME NEW y \in vivo
      PROVE  /\ sig[y] \in vivo \cup {0}
             /\ sig[y] # 0 => clave[y] < clave[sig[y]]
             /\ y # vpk => \E z \in vivo : sig[z] = y
  <2>1. sig[y] = proxi[Unica][y] /\ Eslabon(y)
    BY <1>1, SiguienteEs DEF Cadena
  <2>2. y # vpk => /\ anter[Unica][y] \in vivo
                   /\ sig[anter[Unica][y]] = y
    BY <1>1, <2>1, SiguienteEs DEF Eslabon
  <2> QED
    BY <2>1, <2>2 DEF Eslabon
<1> HIDE DEF sig
<1>5. \A y \in vivo : /\ sig[y] \in vivo \cup {0}
                      /\ sig[y] # 0 => clave[y] < clave[sig[y]]
                      /\ y # vpk => \E z \in vivo : sig[z] = y
  BY <1>4
<1> DEFINE S == Desde(vpk, sig, n)
<1>6. n <= n
  BY <1>1
<1>7. /\ Alcanza(S) = vivo /\ DOMAIN S = 0..n
      /\ \A l, m \in 0..n : l < m /\ S[m] # 0 => S[l] # 0 /\ clave[S[l]] < clave[S[m]]
  BY <1>1, <1>2, <1>3, <1>5, <1>6, Recorrido
<1>8. S = Camino(Unica, vpk)
  BY DEF Camino, sig
<1> HIDE DEF S, n
<1> QED
  BY <1>7, <1>8 DEF RecorreTodo

\* From the top of the stack of a value on, over the records that have it.
LEMMA PaseoPila ==
  ASSUME Finito
  PROVE  RecorrePilas
<1> SUFFICES ASSUME NEW i \in Reps, NEW x \in Valores
             PROVE  LET S == Camino(i, idxr[i][x])
                    IN  /\ Alcanza(S) = {p \in vivo : valor[i][p] = x}
                        /\ \A m, n \in DOMAIN S : S[m] = S[n] /\ S[n] # 0 => m = n
  BY DEF RecorrePilas
<1> DEFINE sig == Siguientes(i)
           N == Cardinality(vivo)
           L == {p \in vivo : valor[i][p] = x}
           h == idxr[i][x]
           g == [y \in vivo |-> MaxCuant - cuant[i][y]]
<1>1. /\ IInv /\ TypeOK /\ i \in Llaves
      /\ IsFiniteSet(vivo) /\ N \in Nat /\ MaxCuant \in Nat
      /\ Tope(i, x) /\ \A y \in vivo : Apilado(i, y)
  BY FS_CardinalityType, ConstantesArchivo
  DEF Finito, IInv, Llaves, Pilas, ConstantesArchivo
<1>2. 0 \notin L /\ \A y \in L : y \in vivo /\ valor[i][y] = x
  BY <1>1, ConstantesArchivo DEF TypeOK, ConstantesArchivo
<1>3. IsFiniteSet(L) /\ Cardinality(L) <= N
  BY <1>1, FS_Subset
<1>4. \A y \in vivo : cuant[i][y] \in 0..MaxCuant /\ g[y] = MaxCuant - cuant[i][y]
  BY <1>1 DEF TypeOK
<1>5. \A y \in vivo : g[y] \in Nat /\ sig[y] = proxi[i][y]
  BY <1>1, <1>4, SiguienteEs
<1>6. ASSUME NEW y \in L
      PROVE  /\ proxi[i][y] # 0 => /\ proxi[i][y] \in L
                                  /\ cuant[i][proxi[i][y]] < cuant[i][y]
             /\ anter[i][y] = 0 => h = y
             /\ anter[i][y] # 0 => /\ anter[i][y] \in L /\ proxi[i][anter[i][y]] = y
                                  /\ cuant[i][y] < cuant[i][anter[i][y]]
  <2>1. Apilado(i, y) /\ y # 0
    BY <1>1, <1>2
  <2>2. anter[i][y] # 0 => Apilado(i, anter[i][y])
    BY <1>1, <2>1 DEF Apilado
  <2> QED
    BY <2>1, <2>2, <1>2 DEF Apilado
<1>7. h \in L \cup {0}
  BY <1>1 DEF Tope
<1> HIDE DEF sig, g, h
<1>8. ASSUME h = 0, L # {} PROVE FALSE
  <2> DEFINE R == {g[y] : y \in L}
  <2>1. PICK t \in R : \A u \in R : t <= u
    <3>1. R \subseteq Nat /\ R # {}
      BY <1>2, <1>5, <1>8
    <3> HIDE DEF R
    <3> QED
      BY <3>1, Minimo
  <2>2. PICK y \in L : g[y] = t
    OBVIOUS
  <2>3. anter[i][y] \in L /\ cuant[i][y] < cuant[i][anter[i][y]]
    BY <1>2, <1>6, <1>8
  <2>4. t <= g[anter[i][y]]
    BY <2>1, <2>3
  <2> QED
    BY <1>1, <1>2, <1>4, <2>2, <2>3, <2>4
<1>9. \A y \in L : /\ sig[y] \in L \cup {0}
                   /\ sig[y] # 0 => g[y] < g[sig[y]]
                   /\ y # h => \E z \in L : sig[z] = y
  <2> TAKE y \in L
  <2>1. y \in vivo /\ sig[y] = proxi[i][y]
    BY <1>2, <1>5
  <2>2. sig[y] # 0 => /\ sig[y] \in L /\ sig[y] \in vivo
                      /\ cuant[i][sig[y]] < cuant[i][y]
    BY <2>1, <1>2, <1>6
  <2>3. sig[y] # 0 => g[y] < g[sig[y]]
    BY <2>1, <2>2, <1>1, <1>4
  <2>4. y # h => anter[i][y] \in L /\ sig[anter[i][y]] = y
    BY <1>2, <1>5, <1>6
  <2> QED
    BY <2>2, <2>3, <2>4
<1>g. \A y \in L : g[y] \in Nat
  BY <1>2, <1>5
<1> DEFINE S == Desde(h, sig, N)
<1> HIDE DEF L, N
<1>10. /\ Alcanza(S) = L /\ DOMAIN S = 0..N
       /\ \A l, m \in 0..N : l < m /\ S[m] # 0 => S[l] # 0 /\ g[S[l]] < g[S[m]]
  BY <1>1, <1>2, <1>3, <1>7, <1>8, <1>9, <1>g, Recorrido
<1>11. ASSUME NEW l \in 0..N, NEW m \in 0..N, l < m, S[m] # 0 PROVE S[l] # S[m]
  <2>1. S[l] \in L /\ S[m] \in L /\ g[S[l]] < g[S[m]]
    BY <1>10, <1>11 DEF Alcanza
  <2> QED
    BY <2>1, <1>g
<1>12. \A l, m \in 0..N : S[l] = S[m] /\ S[m] # 0 => l = m
  <2> SUFFICES ASSUME NEW l \in 0..N, NEW m \in 0..N, S[l] = S[m], S[m] # 0
               PROVE  l = m
    OBVIOUS
  <2>1. l < m \/ m < l \/ l = m
    BY <1>1
  <2> QED
    BY <2>1, <1>11
<1>13. S = Camino(i, idxr[i][x])
  BY DEF Camino, sig, h, N
<1> HIDE DEF S
<1> QED
  BY <1>10, <1>12, <1>13 DEF L

\* A program that goes from record to record sees every record of the file once and in
\* key order, or every record of the value it picked.
THEOREM RecorridoEntero == Spec => []Recorre
<1>1. Init => Finito
  BY InvInicial, FS_EmptySet DEF Finito, Init
<1>2. Finito => Recorre
  BY PaseoEntero, PaseoPila DEF Recorre
<1> QED
  BY <1>1, <1>2, PasoFinito, PTL DEF Spec
=============================================================================

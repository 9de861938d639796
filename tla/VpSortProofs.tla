---------------------------- MODULE VpSortProofs ----------------------------
(***************************************************************************)
(* The sort leaves an index by key, and a search in it answers what is     *)
(* there, for any files, options, memory and slots.                        *)
(*                                                                         *)
(* The tree of inskey is one that read in order gives the keys in order    *)
(* (EsArbol): every node has a rank, and what hangs from it a stretch of   *)
(* ranks about its own.  A new key falls in a place between two ranks      *)
(* (Hueco), where one of the two nodes beside it has nothing on that side  *)
(* (DondeCuelga), and all the ranks after the place move by one (Sube).    *)
(* The walk of outsorteda is at the stretch of ranks that comes next, and  *)
(* each node on its stack follows the stretch of the one above it          *)
(* (EnRecorrido): so each run comes out by rank.  In a merge what was      *)
(* written goes before what is left of both files (Antecede).              *)
(*                                                                         *)
(* A search keeps the entries before posmin smaller than the key and those *)
(* past maxreg greater (Buscando), also when it compares an old entry past *)
(* the end of the index: by then it is the last one.                       *)
(***************************************************************************)
EXTENDS VbSearch, TLAPS, WellFoundedInduction, SequenceTheorems, FiniteSetTheorems

(* Induction: the library has it for predicates, which the provers cannot instantiate; here *)
(* it is for sets of numbers, from the well-foundedness of < alone.                        *)

\* A set of numbers that is not empty has a least one.
LEMMA Minimo ==
    ASSUME NEW T, T \subseteq Nat, T # {}
    PROVE  \E x \in T : \A y \in T : x <= y
<1> DEFINE R == OpToRel(<, Nat)
<1>1. IsWellFoundedOn(R, Nat)
  BY NatLessThanWellFounded, Zenon
<1>2. PICK x \in T : \A y \in T : ~ (<<y, x>> \in R)
  BY <1>1, WFMin, Zenon
<1>3. \A y \in T : y < x => <<y, x>> \in R
  BY Zenon DEF OpToRel
<1>4. \A y \in T : ~ (y < x)
  BY <1>2, <1>3, Zenon
<1> HIDE DEF R
<1>5. \A y \in T : x <= y
  BY <1>4
<1> QED
  BY <1>5

\* A set with 0, and with k + 1 when it has k, has all numbers up to n.
LEMMA Hasta ==
    ASSUME NEW n \in Nat, NEW S, 0 \in S, \A k \in 0..n-1 : k \in S => k + 1 \in S
    PROVE  \A k \in 0..n : k \in S
<1> DEFINE T == {k \in 0..n : k \notin S}
<1> SUFFICES ASSUME T # {} PROVE FALSE
  BY Zenon
<1>1. PICK x \in T : \A y \in T : x <= y
  <2>1. T \subseteq Nat
    OBVIOUS
  <2> HIDE DEF T
  <2> QED BY <2>1, Minimo
<1>2. x # 0 /\ x \in 0..n /\ x - 1 \in 0..n-1 /\ x - 1 + 1 = x
  OBVIOUS
<1>3. x - 1 \notin T
  BY <1>1, <1>2
<1>4. x - 1 \in S /\ x \notin S
  BY <1>2, <1>3
<1> QED
  BY <1>2, <1>4

\* A walk through a table whose links go to later places stays where they lead, and ends
\* where there is none.
LEMMA AlFondo ==
    ASSUME NEW n \in Nat, NEW sig, DOMAIN sig = 1..n,
           \A x \in 1..n : sig[x] = 0 \/ (sig[x] \in 1..n /\ sig[x] > x),
           NEW C \in SUBSET (1..n), \A x \in C : sig[x] # 0 => sig[x] \in C, NEW y \in C
    PROVE  Fondo(sig)[y] \in C /\ sig[Fondo(sig)[y]] = 0
<1> DEFINE Valor(F, x) == IF sig[x] = 0 THEN x ELSE F[sig[x]]
           Bueno(m, F) == F = [x \in n-m+1..n |-> Valor(F, x)]
           Hay == {m \in 0..n : \E F : Bueno(m, F)}
<1>0. n \in Nat /\ C \subseteq 1..n /\ \A x \in 1..n : sig[x] = 0 \/ (sig[x] \in 1..n /\ sig[x] > x)
  OBVIOUS
<1>1. n \in Hay
  <2>1. 0 \in Hay
    <3> DEFINE F == [x \in n-0+1..n |-> 0]
    <3>0. n-0+1..n = {}
      BY <1>0
    <3>1. Bueno(0, F)
      BY <3>0, Zenon
    <3> HIDE DEF F, Bueno
    <3> QED BY <3>1, <1>0
  <2>2. ASSUME NEW k \in 0..n-1, k \in Hay PROVE k + 1 \in Hay
    <3>1. PICK F : Bueno(k, F)
      BY <2>2
    <3> DEFINE u == n - (k + 1) + 1
               G == [x \in n-(k+1)+1..n |-> IF x = u THEN Valor(F, x) ELSE F[x]]
    <3>0. /\ u \in 1..n /\ k + 1 \in 0..n
          /\ \A x \in n-(k+1)+1..n : x # u => x \in n-k+1..n
          /\ \A x \in n-k+1..n : x \in n-(k+1)+1..n /\ x # u /\ x \in 1..n
          /\ u \in n-(k+1)+1..n /\ \A x \in 1..n : x > u => x \in n-k+1..n
      BY <1>0
    <3>2. \A x \in n-k+1..n : F[x] = Valor(F, x)
      BY <3>1
    <3>3. \A x \in n-k+1..n : G[x] = F[x]
      BY <3>0
    <3>4. G[u] = Valor(F, u)
      BY <3>0
    <3> HIDE DEF u
    <3>5. ASSUME NEW x \in n-(k+1)+1..n PROVE G[x] = Valor(G, x)
      <4>1. CASE x = u
        <5>1. sig[u] # 0 => sig[u] \in n-k+1..n
          BY <1>0, <3>0
        <5>2. Valor(F, u) = Valor(G, u)
          <6> HIDE DEF G
          <6> QED BY <5>1, <3>3
        <5> QED BY <5>2, <3>4, <4>1
      <4>2. CASE x # u
        <5>1. x \in n-k+1..n /\ x \in 1..n
          BY <4>2, <3>0
        <5>2. sig[x] # 0 => sig[x] \in 1..n /\ sig[x] > x
          BY <5>1, <1>0
        <5>3. sig[x] # 0 => sig[x] \in n-k+1..n
          BY <5>1, <5>2, <1>0
        <5>4. Valor(F, x) = Valor(G, x)
          <6> HIDE DEF G
          <6> QED BY <5>3, <3>3
        <5> QED BY <5>1, <5>4, <3>2, <3>3
      <4> QED BY <4>1, <4>2
    <3>6. Bueno(k + 1, G)
      <4>1. G = [x \in n-(k+1)+1..n |-> G[x]]
        OBVIOUS
      <4> HIDE DEF G
      <4>2. [x \in n-(k+1)+1..n |-> G[x]] = [x \in n-(k+1)+1..n |-> Valor(G, x)]
        BY <3>5
      <4> QED BY <4>1, <4>2
    <3> HIDE DEF Bueno, G
    <3> QED BY <3>6, <3>0
  <2> HIDE DEF Hay
  <2>3. \A k \in 0..n : k \in Hay
    BY <2>1, <2>2, <1>0, Hasta
  <2> QED BY <2>3, <1>0
<1> DEFINE F == Fondo(sig)
<1>2. \A x \in 1..n : F[x] = Valor(F, x)
  <2>1. PICK G : Bueno(n, G)
    BY <1>1
  <2> DEFINE Este(H) == H = [x \in 1..n |-> Valor(H, x)]
             V == CHOOSE H : Este(H)
  <2>2. F = V
    BY DEF Fondo
  <2>3. Este(G)
    <3>1. n-n+1..n = 1..n
      BY <1>0
    <3> QED BY <2>1, <3>1
  <2>4. Este(V)
    <3> HIDE DEF Este
    <3> QED BY <2>3
  <2> HIDE DEF V, F
  <2>5. Este(F)
    BY <2>2, <2>4
  <2> QED BY <2>5
<1> HIDE DEF Hay, Bueno, F
<1> DEFINE E == {k \in 0..n : \A x \in C : x > n - k => F[x] \in C /\ sig[F[x]] = 0}
<1>3. 0 \in E
  <2>1. \A x \in C : ~ (x > n - 0)
    BY <1>0
  <2> QED BY <2>1, <1>0
<1>4. ASSUME NEW k \in 0..n-1, k \in E PROVE k + 1 \in E
  <2>1. ASSUME NEW x \in C, x > n - (k + 1) PROVE F[x] \in C /\ sig[F[x]] = 0
    <3>1. x \in 1..n /\ F[x] = Valor(F, x)
      BY <1>2
    <3>2. CASE sig[x] = 0
      BY <3>1, <3>2
    <3>3. CASE sig[x] # 0
      <4>1. sig[x] \in C /\ sig[x] > n - k /\ F[x] = F[sig[x]]
        BY <3>1, <3>3, <2>1, <1>0
      <4> QED BY <4>1, <1>4
    <3> QED BY <3>2, <3>3
  <2>2. k + 1 \in 0..n
    BY <1>0
  <2> QED BY <2>1, <2>2
<1> HIDE DEF E
<1>5. \A k \in 0..n : k \in E
  BY <1>3, <1>4, <1>0, Hasta
<1>6. n \in E /\ n \in Nat
  BY <1>5, <1>0
<1>7. \A x \in C : x > n - n
  BY <1>0
<1> QED BY <1>6, <1>7 DEF E, F


(* The tree of the keys *)

Nodos == [llave : Int, lugar : Nat \X Nat, menor : Nat, mayor : Nat]

\* The tree read in order: q[i] is the node of rank i, r[x] the rank of node x, and
\* desde[x]..hasta[x] the ranks of the nodes that hang from x, x among them.
Biyeccion(n, q, r) ==
    /\ q \in [1..n -> 1..n] /\ r \in [1..n -> 1..n]
    /\ \A x \in 1..n : q[r[x]] = x /\ r[q[x]] = x
PorRango(a, q) ==
    \A i, j \in 1..Len(a) : i < j => EnOrden(a[q[i]], a[q[j]])
Tramos(n, r, desde, hasta) ==
    /\ desde \in [1..n -> 1..n] /\ hasta \in [1..n -> 1..n]
    /\ \A x \in 1..n : desde[x] <= r[x] /\ r[x] <= hasta[x]
    /\ n > 0 => desde[1] = 1 /\ hasta[1] = n
Ramas(a, r, desde, hasta) ==
    \A x \in 1..Len(a) :
        /\ a[x].menor = 0 => desde[x] = r[x]
        /\ a[x].menor # 0 => /\ a[x].menor \in 1..Len(a) /\ a[x].menor > x
                             /\ desde[a[x].menor] = desde[x]
                             /\ hasta[a[x].menor] = r[x] - 1
        /\ a[x].mayor = 0 => hasta[x] = r[x]
        /\ a[x].mayor # 0 => /\ a[x].mayor \in 1..Len(a) /\ a[x].mayor > x
                             /\ desde[a[x].mayor] = r[x] + 1
                             /\ hasta[a[x].mayor] = hasta[x]
\* Of two nodes with nothing between them one hangs from the other.
Seguidos(n, q, desde, hasta) ==
    \A i \in 1..n-1 : hasta[q[i]] > i <=> desde[q[i + 1]] > i

EsArbol(a, q, r, desde, hasta) ==
    /\ Biyeccion(Len(a), q, r)
    /\ PorRango(a, q)
    /\ Tramos(Len(a), r, desde, hasta)
    /\ Ramas(a, r, desde, hasta)
    /\ Seguidos(Len(a), q, desde, hasta)

\* The place of key k: after the nodes of ranks up to p.
Separa(a, r, k, p) == \A x \in 1..Len(a) : k < a[x].llave <=> r[x] > p

\* A key has a place between the ranks of those that go before and after it.
LEMMA Hueco ==
    ASSUME NEW a \in Seq(Nodos), NEW q, NEW r, Biyeccion(Len(a), q, r), PorRango(a, q),
           NEW k \in Int
    PROVE  \E p \in 0..Len(a) : Separa(a, r, k, p)
<1> DEFINE T == {i \in 1..Len(a) : k < a[q[i]].llave}
<1>0. /\ Len(a) \in Nat /\ \A x \in 1..Len(a) : a[x].llave \in Int
      /\ \A x \in 1..Len(a) : q[x] \in 1..Len(a) /\ r[x] \in 1..Len(a) /\ q[r[x]] = x
  <2>1. \A x \in 1..Len(a) : a[x] \in Nodos
    OBVIOUS
  <2>2. \A x \in 1..Len(a) : a[x].llave \in Int
    BY <2>1 DEF Nodos
  <2> QED BY <2>2 DEF Biyeccion
<1>1. CASE T = {}
  <2>1. \A x \in 1..Len(a) : ~ (k < a[x].llave)
    BY <1>0, <1>1
  <2>2. \A x \in 1..Len(a) : ~ (r[x] > Len(a))
    BY <1>0
  <2>3. Len(a) \in 0..Len(a)
    BY <1>0
  <2> QED BY <2>1, <2>2, <2>3 DEF Separa
<1>2. CASE T # {}
  <2>1. PICK t \in T : \A i \in T : t <= i
    <3>1. T \subseteq Nat
      OBVIOUS
    <3> HIDE DEF T
    <3> QED BY <3>1, <1>2, Minimo
  <2>2. t \in 1..Len(a) /\ k < a[q[t]].llave
    BY <2>1
  <2>3. ASSUME NEW x \in 1..Len(a) PROVE k < a[x].llave <=> r[x] > t - 1
    <3>1. r[x] \in 1..Len(a) /\ q[r[x]] = x
      BY <1>0
    <3>2. r[x] < t => ~ (k < a[x].llave)
      BY <3>1, <2>1, <2>2
    <3>3. r[x] = t => k < a[x].llave
      BY <3>1, <2>2
    <3>4. r[x] > t => k < a[x].llave
      <4>1. r[x] > t => EnOrden(a[q[t]], a[x])
        BY <3>1, <2>2 DEF PorRango
      <4> QED BY <4>1, <2>2, <1>0 DEF EnOrden
    <3> QED BY <3>1, <3>2, <3>3, <3>4, <2>2
  <2>4. t - 1 \in 0..Len(a)
    BY <2>2, <1>0
  <2> QED BY <2>3, <2>4 DEF Separa
<1> QED BY <1>1, <1>2

\* The node where inskey ends its way down with key k.
PadreDe(a, k) == Fondo([x \in DOMAIN a |-> Hijo(a[x], k)])[1]

\* inskey hangs a key from the node before or after its place, on the side where that
\* one has nothing.
LEMMA DondeCuelga ==
    ASSUME NEW a \in Seq(Nodos), a # <<>>, NEW q, NEW r, NEW desde, NEW hasta,
           EsArbol(a, q, r, desde, hasta), NEW k \in Int, NEW p \in 0..Len(a),
           Separa(a, r, k, p)
    PROVE  LET y == PadreDe(a, k)
           IN  /\ y \in 1..Len(a)
               /\ k < a[y].llave => a[y].menor = 0 /\ r[y] = p + 1
               /\ ~ (k < a[y].llave) => a[y].mayor = 0 /\ r[y] = p
<1> DEFINE n == Len(a)
           sig == [x \in DOMAIN a |-> Hijo(a[x], k)]
           C == {x \in 1..n : desde[x] - 1 <= p /\ p <= hasta[x]}
           y == Fondo(sig)[1]
<1>0. /\ n \in Nat \ {0} /\ DOMAIN a = 1..n /\ DOMAIN sig = 1..n
      /\ \A x \in 1..n : /\ desde[x] \in 1..n /\ hasta[x] \in 1..n /\ r[x] \in 1..n
                         /\ a[x].llave \in Int /\ desde[x] <= r[x] /\ r[x] <= hasta[x]
  <2>1. n \in Nat \ {0} /\ DOMAIN a = 1..n /\ DOMAIN sig = 1..n
    OBVIOUS
  <2>2. \A x \in 1..n : a[x] \in Nodos
    OBVIOUS
  <2> QED BY <2>1, <2>2 DEF Nodos, EsArbol, Biyeccion, Tramos
<1>1. \A x \in 1..n : sig[x] = IF r[x] > p THEN a[x].menor ELSE a[x].mayor
  BY <1>0 DEF Hijo, Menor, Separa
<1>y. y = Fondo(sig)[1]
  BY Zenon DEF PadreDe
<1> HIDE DEF sig, y
<1>2. \A x \in 1..n : sig[x] = 0 \/ (sig[x] \in 1..n /\ sig[x] > x)
  BY <1>0, <1>1 DEF EsArbol, Ramas
<1>3. ASSUME NEW x \in C, sig[x] # 0 PROVE sig[x] \in C
  <2>1. CASE r[x] > p
    <3>1. sig[x] = a[x].menor
      BY <2>1, <1>1
    <3>2. sig[x] \in 1..n /\ desde[sig[x]] = desde[x] /\ hasta[sig[x]] = r[x] - 1
      BY <3>1, <1>3 DEF EsArbol, Ramas
    <3> QED BY <3>2, <2>1, <1>0
  <2>2. CASE ~ (r[x] > p)
    <3>1. sig[x] = a[x].mayor
      BY <2>2, <1>1
    <3>2. sig[x] \in 1..n /\ desde[sig[x]] = r[x] + 1 /\ hasta[sig[x]] = hasta[x]
      BY <3>1, <1>3 DEF EsArbol, Ramas
    <3> QED BY <3>2, <2>2, <1>0
  <2> QED BY <2>1, <2>2
<1>4. 1 \in C
  BY <1>0 DEF EsArbol, Tramos
<1>5. y \in C /\ sig[y] = 0
  <2>1. C \subseteq 1..n /\ n \in Nat
    BY <1>0
  <2> HIDE DEF C, n
  <2>2. C \in SUBSET (1..n) /\ \A x \in C : sig[x] # 0 => sig[x] \in C
    BY <2>1, <1>3
  <2>3. n \in Nat /\ DOMAIN sig = 1..n
    BY <1>0
  <2>4. \A x \in C : Fondo(sig)[x] \in C /\ sig[Fondo(sig)[x]] = 0
    BY <1>2, <2>2, <2>3, AlFondo
  <2>5. Fondo(sig)[1] \in C /\ sig[Fondo(sig)[1]] = 0
    BY <2>4, <1>4
  <2> QED BY <2>5, <1>y
<1>6. y \in 1..n /\ desde[y] - 1 <= p /\ p <= hasta[y]
  BY <1>5
<1> HIDE DEF y
<1>7. CASE r[y] > p
  <2>1. a[y].menor = 0 /\ k < a[y].llave
    BY <1>7, <1>5, <1>6, <1>1 DEF Separa
  <2>2. desde[y] = r[y]
    BY <2>1, <1>6 DEF EsArbol, Ramas
  <2> QED BY <2>1, <2>2, <1>6, <1>7, <1>0 DEF y, sig, PadreDe
<1>8. CASE ~ (r[y] > p)
  <2>1. a[y].mayor = 0 /\ ~ (k < a[y].llave)
    BY <1>8, <1>5, <1>6, <1>1 DEF Separa
  <2>2. hasta[y] = r[y]
    BY <2>1, <1>6 DEF EsArbol, Ramas
  <2> QED BY <2>1, <2>2, <1>6, <1>8, <1>0 DEF y, sig, PadreDe
<1> QED BY <1>7, <1>8

\* A tree with one key more: its place is p + 1 and those after it move up.
ConMas(n, q, p) ==
    [i \in 1..n+1 |-> IF i <= p THEN q[i] ELSE IF i = p + 1 THEN n + 1 ELSE q[i - 1]]
Sube(n, f, p, z) == [x \in 1..n+1 |-> IF x = n + 1 THEN z
                                      ELSE IF f[x] > p THEN f[x] + 1 ELSE f[x]]

\* The ranks after a new node, which goes after those up to p.
LEMMA BiyeccionMas ==
    ASSUME NEW n \in Nat, NEW q, NEW r, Biyeccion(n, q, r), NEW p \in 0..n
    PROVE  Biyeccion(n + 1, ConMas(n, q, p), Sube(n, r, p, p + 1))
<1> DEFINE q2 == ConMas(n, q, p)
           r2 == Sube(n, r, p, p + 1)
<1>0. /\ \A x \in 1..n : /\ q[x] \in 1..n /\ r[x] \in 1..n
                         /\ q[r[x]] = x /\ r[q[x]] = x
      /\ p \in Nat /\ p <= n
  BY DEF Biyeccion
<1>1. q2 \in [1..n+1 -> 1..n+1]
  <2>1. ASSUME NEW i \in 1..n+1
        PROVE  (IF i <= p THEN q[i] ELSE IF i = p + 1 THEN n + 1 ELSE q[i - 1]) \in 1..n+1
    <3>1. (i <= p => i \in 1..n) /\ (i > p + 1 => i - 1 \in 1..n)
      BY <1>0
    <3> QED BY <3>1, <1>0
  <2> QED BY <2>1 DEF ConMas
<1>2. r2 \in [1..n+1 -> 1..n+1]
  <2>1. ASSUME NEW x \in 1..n+1
        PROVE  (IF x = n + 1 THEN p + 1
                ELSE IF r[x] > p THEN r[x] + 1 ELSE r[x]) \in 1..n+1
    <3>1. x # n + 1 => x \in 1..n
      OBVIOUS
    <3> QED BY <3>1, <1>0
  <2> QED BY <2>1 DEF Sube
<1>3. ASSUME NEW i \in 1..n+1
      PROVE  q2[i] = IF i <= p THEN q[i] ELSE IF i = p + 1 THEN n + 1 ELSE q[i - 1]
  BY DEF ConMas
<1>4. ASSUME NEW x \in 1..n+1
      PROVE  r2[x] = IF x = n + 1 THEN p + 1 ELSE IF r[x] > p THEN r[x] + 1 ELSE r[x]
  BY DEF Sube
<1> HIDE DEF q2, r2
<1>5. ASSUME NEW x \in 1..n+1 PROVE q2[r2[x]] = x
  <2>1. CASE x = n + 1
    <3>1. r2[x] = p + 1 /\ p + 1 \in 1..n+1
      BY <2>1, <1>4, <1>0
    <3> QED BY <3>1, <2>1, <1>3, <1>0
  <2>2. CASE x # n + 1
    <3>1. x \in 1..n /\ r[x] \in 1..n /\ q[r[x]] = x
      BY <2>2, <1>0
    <3>2. CASE r[x] > p
      <4>1. r2[x] = r[x] + 1 /\ r[x] + 1 \in 1..n+1 /\ (r[x] + 1) - 1 = r[x]
        BY <2>2, <3>1, <3>2, <1>4
      <4>2. q2[r[x] + 1] = q[(r[x] + 1) - 1]
        BY <4>1, <3>1, <3>2, <1>3, <1>0
      <4> QED BY <4>1, <4>2, <3>1
    <3>3. CASE ~ (r[x] > p)
      <4>1. r2[x] = r[x] /\ r[x] \in 1..n+1 /\ r[x] <= p
        BY <2>2, <3>1, <3>3, <1>4, <1>0
      <4> QED BY <4>1, <3>1, <1>3
    <3> QED BY <3>2, <3>3
  <2> QED BY <2>1, <2>2
<1>6. ASSUME NEW i \in 1..n+1 PROVE r2[q2[i]] = i
  <2>1. CASE i = p + 1
    <3>1. q2[i] = n + 1 /\ n + 1 \in 1..n+1
      BY <2>1, <1>3, <1>0
    <3> QED BY <3>1, <2>1, <1>4
  <2>2. CASE i <= p
    <3>1. i \in 1..n /\ q2[i] = q[i] /\ q[i] \in 1..n /\ r[q[i]] = i
      BY <2>2, <1>3, <1>0
    <3> QED BY <3>1, <2>2, <1>4, <1>0
  <2>3. CASE i > p + 1
    <3>1. i - 1 \in 1..n /\ i - 1 > p
      BY <2>3, <1>0
    <3>2. q2[i] = q[i - 1] /\ q[i - 1] \in 1..n /\ r[q[i - 1]] = i - 1
      BY <2>3, <3>1, <1>3, <1>0
    <3>3. q[i - 1] \in 1..n+1 /\ q[i - 1] # n + 1
      BY <3>2
    <3>4. r2[q[i - 1]] = r[q[i - 1]] + 1
      BY <3>1, <3>2, <3>3, <1>4
    <3> QED BY <3>1, <3>2, <3>4
  <2> QED BY <2>1, <2>2, <2>3, <1>0
<1> QED BY <1>1, <1>2, <1>5, <1>6 DEF Biyeccion, q2, r2

\* c is a with the node nueva hung from y.
Colgada(a, c, nueva, y) ==
    /\ c \in Seq(Nodos) /\ Len(c) = Len(a) + 1 /\ c[Len(a) + 1] = nueva
    /\ \A x \in 1..Len(a) :
        /\ c[x].llave = a[x].llave /\ c[x].lugar = a[x].lugar
        /\ c[x].menor = IF x = y /\ nueva.llave < a[y].llave THEN Len(a) + 1 ELSE a[x].menor
        /\ c[x].mayor = IF x = y /\ ~ (nueva.llave < a[y].llave) THEN Len(a) + 1
                        ELSE a[x].mayor

\* The ranks are still by key, and equal keys in the order they were read.
LEMMA PorRangoMas ==
    ASSUME NEW a \in Seq(Nodos), NEW q, NEW r, Biyeccion(Len(a), q, r), PorRango(a, q),
           NEW c, NEW nueva \in Nodos, NEW y, Colgada(a, c, nueva, y),
           \A x \in 1..Len(a) : Antes(a[x].lugar, nueva.lugar),
           NEW p \in 0..Len(a), Separa(a, r, nueva.llave, p)
    PROVE  PorRango(c, ConMas(Len(a), q, p))
<1> DEFINE n == Len(a)
           q2 == ConMas(n, q, p)
<1>0. /\ n \in Nat /\ p \in Nat /\ Len(c) = n + 1 /\ nueva.llave \in Int
      /\ \A x \in 1..n : q[x] \in 1..n /\ r[q[x]] = x
  <2>1. nueva.llave \in Int
    BY DEF Nodos
  <2>2. Len(c) = n + 1
    BY DEF Colgada
  <2> QED BY <2>1, <2>2 DEF Biyeccion
<1>1. \A x \in 1..n : a[x].llave \in Int
  <2>1. \A x \in 1..n : a[x] \in Nodos
    OBVIOUS
  <2> QED BY <2>1 DEF Nodos
<1>2. \A x, z \in 1..n : EnOrden(a[x], a[z]) => EnOrden(c[x], c[z])
  BY DEF EnOrden, Colgada
<1>3. \A x \in 1..n : r[x] <= p => EnOrden(c[x], c[n + 1])
  <2> TAKE x \in 1..n
  <2> HAVE r[x] <= p
  <2>1. ~ (nueva.llave < a[x].llave)
    <3>1. r[x] \in 1..n
      BY DEF Biyeccion
    <3> QED BY <3>1, <1>0 DEF Separa
  <2> QED BY <2>1, <1>0, <1>1 DEF EnOrden, Colgada
<1>4. \A x \in 1..n : r[x] > p => EnOrden(c[n + 1], c[x])
  BY <1>0, <1>1 DEF EnOrden, Colgada, Separa
<1>5. \A i \in 1..n+1 :
          q2[i] = IF i <= p THEN q[i] ELSE IF i = p + 1 THEN n + 1 ELSE q[i - 1]
  BY DEF ConMas
<1> HIDE DEF q2
<1>6. ASSUME NEW i \in 1..n+1, NEW j \in 1..n+1, i < j
      PROVE  EnOrden(c[q2[i]], c[q2[j]])
  <2>1. CASE i <= p
    <3>1. i \in 1..n /\ q2[i] = q[i] /\ q[i] \in 1..n /\ r[q[i]] = i
      BY <2>1, <1>0, <1>5
    <3>2. CASE j <= p
      <4>1. j \in 1..n /\ q2[j] = q[j] /\ q[j] \in 1..n
        BY <3>2, <1>0, <1>5
      <4>2. EnOrden(a[q[i]], a[q[j]])
        BY <3>1, <4>1, <1>6 DEF PorRango
      <4> QED BY <3>1, <4>1, <4>2, <1>2
    <3>3. CASE j = p + 1
      <4>1. q2[j] = n + 1
        BY <3>3, <1>0, <1>5
      <4> QED BY <4>1, <3>1, <2>1, <1>3
    <3>4. CASE j > p + 1
      <4>1. j - 1 \in 1..n /\ q2[j] = q[j - 1] /\ i < j - 1
        BY <3>4, <2>1, <1>0, <1>5
      <4>2. q[j - 1] \in 1..n /\ EnOrden(a[q[i]], a[q[j - 1]])
        BY <3>1, <4>1, <1>0 DEF PorRango
      <4> QED BY <3>1, <4>1, <4>2, <1>2
    <3> QED BY <3>2, <3>3, <3>4, <1>0
  <2>2. CASE i = p + 1
    <3>1. j - 1 \in 1..n /\ q2[j] = q[j - 1] /\ j - 1 > p /\ q2[i] = n + 1
      BY <2>2, <1>6, <1>0, <1>5
    <3>2. q[j - 1] \in 1..n /\ r[q[j - 1]] = j - 1
      BY <3>1, <1>0
    <3> QED BY <3>1, <3>2, <1>4
  <2>3. CASE i > p + 1
    <3>1. /\ i - 1 \in 1..n /\ j - 1 \in 1..n /\ i - 1 < j - 1
          /\ q2[i] = q[i - 1] /\ q2[j] = q[j - 1]
      BY <2>3, <1>6, <1>0, <1>5
    <3>2. q[i - 1] \in 1..n /\ q[j - 1] \in 1..n /\ EnOrden(a[q[i - 1]], a[q[j - 1]])
      BY <3>1, <1>0 DEF PorRango
    <3> QED BY <3>1, <3>2, <1>2
  <2> QED BY <2>1, <2>2, <2>3, <1>0
<1> QED BY <1>6, <1>0 DEF PorRango, q2

\* The stretches of ranks are still about the ranks of their nodes.
LEMMA TramosMas ==
    ASSUME NEW n \in Nat \ {0}, NEW q, NEW r, Biyeccion(n, q, r), NEW desde, NEW hasta,
           Tramos(n, r, desde, hasta), NEW p \in 0..n
    PROVE  Tramos(n + 1, Sube(n, r, p, p + 1), Sube(n, desde, p + 1, p + 1),
                  Sube(n, hasta, p - 1, p + 1))
<1> DEFINE r2 == Sube(n, r, p, p + 1)
           d2 == Sube(n, desde, p + 1, p + 1)
           h2 == Sube(n, hasta, p - 1, p + 1)
<1>0. /\ \A x \in 1..n : /\ r[x] \in 1..n /\ desde[x] \in 1..n /\ hasta[x] \in 1..n
                         /\ desde[x] <= r[x] /\ r[x] <= hasta[x]
      /\ p \in Nat /\ p <= n /\ desde[1] = 1 /\ hasta[1] = n
  <2>1. \A x \in 1..n : r[x] \in 1..n
    BY DEF Biyeccion
  <2>2. p \in Nat /\ p <= n /\ n > 0
    OBVIOUS
  <2> QED BY <2>1, <2>2 DEF Tramos
<1>1. \A x \in 1..n+1 :
          /\ r2[x] = IF x = n + 1 THEN p + 1 ELSE IF r[x] > p THEN r[x] + 1 ELSE r[x]
          /\ d2[x] = IF x = n + 1 THEN p + 1
                     ELSE IF desde[x] > p + 1 THEN desde[x] + 1 ELSE desde[x]
          /\ h2[x] = IF x = n + 1 THEN p + 1
                     ELSE IF hasta[x] > p - 1 THEN hasta[x] + 1 ELSE hasta[x]
  BY DEF Sube
<1>2. d2 = [x \in 1..n+1 |-> d2[x]] /\ h2 = [x \in 1..n+1 |-> h2[x]]
  BY DEF Sube
<1> HIDE DEF r2, d2, h2
<1>3. \A x \in 1..n+1 : /\ d2[x] \in 1..n+1 /\ h2[x] \in 1..n+1
                        /\ d2[x] <= r2[x] /\ r2[x] <= h2[x]
  <2> TAKE x \in 1..n+1
  <2>1. CASE x = n + 1
    BY <2>1, <1>0, <1>1
  <2>2. CASE x # n + 1
    <3>1. x \in 1..n
      BY <2>2
    <3> QED BY <3>1, <2>2, <1>0, <1>1
  <2> QED BY <2>1, <2>2
<1>4. d2[1] = 1 /\ h2[1] = n + 1
  BY <1>0, <1>1
<1>5. d2 \in [1..n+1 -> 1..n+1] /\ h2 \in [1..n+1 -> 1..n+1]
  BY <1>2, <1>3
<1> QED BY <1>3, <1>4, <1>5 DEF Tramos, r2, d2, h2

\* The links of the tree with the new node, hung from the only one that can have it.
LEMMA RamasMas ==
    ASSUME NEW a \in Seq(Nodos), NEW q, NEW r, NEW desde, NEW hasta,
           EsArbol(a, q, r, desde, hasta), NEW c, NEW nueva \in Nodos,
           nueva.menor = 0, nueva.mayor = 0, NEW y \in 1..Len(a), Colgada(a, c, nueva, y),
           NEW p \in 0..Len(a), Separa(a, r, nueva.llave, p),
           nueva.llave < a[y].llave => a[y].menor = 0 /\ r[y] = p + 1,
           ~ (nueva.llave < a[y].llave) => a[y].mayor = 0 /\ r[y] = p
    PROVE  Ramas(c, Sube(Len(a), r, p, p + 1), Sube(Len(a), desde, p + 1, p + 1),
                 Sube(Len(a), hasta, p - 1, p + 1))
<1> DEFINE n == Len(a)
           r2 == Sube(n, r, p, p + 1)
           d2 == Sube(n, desde, p + 1, p + 1)
           h2 == Sube(n, hasta, p - 1, p + 1)
<1>0. /\ n \in Nat /\ p \in Nat /\ p <= n /\ Len(c) = n + 1
      /\ \A x \in 1..n : /\ r[x] \in 1..n /\ desde[x] \in 1..n /\ hasta[x] \in 1..n
                         /\ desde[x] <= r[x] /\ r[x] <= hasta[x]
                         /\ q[x] \in 1..n /\ r[q[x]] = x /\ q[r[x]] = x
  <2>1. n \in Nat /\ p \in Nat /\ p <= n
    OBVIOUS
  <2>2. Len(c) = n + 1
    BY DEF Colgada
  <2>3. \A x \in 1..n : r[x] \in 1..n /\ q[x] \in 1..n /\ r[q[x]] = x /\ q[r[x]] = x
    BY DEF EsArbol, Biyeccion
  <2>4. \A x \in 1..n : /\ desde[x] \in 1..n /\ hasta[x] \in 1..n
                        /\ desde[x] <= r[x] /\ r[x] <= hasta[x]
    BY DEF EsArbol, Tramos
  <2> QED BY <2>1, <2>2, <2>3, <2>4
<1>1. /\ \A x \in 1..n :
          /\ r2[x] = IF r[x] > p THEN r[x] + 1 ELSE r[x]
          /\ d2[x] = IF desde[x] > p + 1 THEN desde[x] + 1 ELSE desde[x]
          /\ h2[x] = IF hasta[x] > p - 1 THEN hasta[x] + 1 ELSE hasta[x]
      /\ r2[n + 1] = p + 1 /\ d2[n + 1] = p + 1 /\ h2[n + 1] = p + 1
  <2>1. n + 1 \in 1..n+1 /\ \A x \in 1..n : x \in 1..n+1 /\ x # n + 1
    BY <1>0
  <2> QED BY <2>1 DEF Sube
<1> HIDE DEF r2, d2, h2
<1>2. /\ \A x \in 1..n :
          /\ a[x].menor = 0 => desde[x] = r[x]
          /\ a[x].menor # 0 => /\ a[x].menor \in 1..n /\ a[x].menor > x
                               /\ desde[a[x].menor] = desde[x]
                               /\ hasta[a[x].menor] = r[x] - 1
          /\ a[x].mayor = 0 => hasta[x] = r[x]
          /\ a[x].mayor # 0 => /\ a[x].mayor \in 1..n /\ a[x].mayor > x
                               /\ desde[a[x].mayor] = r[x] + 1
                               /\ hasta[a[x].mayor] = hasta[x]
  BY DEF EsArbol, Ramas
<1>3. ASSUME NEW x \in 1..n, x # y, r[x] = p + 1 PROVE a[x].menor # 0
  <2>1. r[y] = p /\ a[y].mayor = 0
    BY <1>3, <1>0
  <2>2. p \in 1..n-1 /\ q[p] = y /\ q[p + 1] = x
    BY <2>1, <1>3, <1>0
  <2>3. ~ (hasta[y] > p)
    BY <2>1, <1>2, <1>0
  <2>4. ~ (desde[x] > p)
    BY <2>2, <2>3 DEF EsArbol, Seguidos
  <2> QED BY <2>4, <1>3, <1>2, <1>0
<1>4. ASSUME NEW x \in 1..n, x # y, r[x] = p PROVE a[x].mayor # 0
  <2>1. r[y] = p + 1 /\ a[y].menor = 0
    BY <1>4, <1>0
  <2>2. p \in 1..n-1 /\ q[p] = x /\ q[p + 1] = y
    BY <2>1, <1>4, <1>0
  <2>3. desde[y] > p
    BY <2>1, <1>2, <1>0
  <2>4. hasta[x] > p
    BY <2>2, <2>3 DEF EsArbol, Seguidos
  <2> QED BY <2>4, <1>4, <1>2, <1>0
<1>5. \A x \in 1..n :
        /\ c[x].menor = IF x = y /\ nueva.llave < a[y].llave THEN n + 1 ELSE a[x].menor
        /\ c[x].mayor = IF x = y /\ ~ (nueva.llave < a[y].llave) THEN n + 1 ELSE a[x].mayor
  BY DEF Colgada
<1>6. c[n + 1].menor = 0 /\ c[n + 1].mayor = 0
  BY DEF Colgada
<1>7. ASSUME NEW x \in 1..n
      PROVE  /\ c[x].menor = 0 => d2[x] = r2[x]
             /\ c[x].menor # 0 => /\ c[x].menor \in 1..n+1 /\ c[x].menor > x
                                  /\ d2[c[x].menor] = d2[x]
                                  /\ h2[c[x].menor] = r2[x] - 1
  <2>1. CASE x = y /\ nueva.llave < a[y].llave
    <3>1. c[x].menor = n + 1 /\ r[x] = p + 1 /\ desde[x] = r[x]
      BY <2>1, <1>5, <1>2
    <3> QED BY <3>1, <1>1, <1>0
  <2>2. CASE ~ (x = y /\ nueva.llave < a[y].llave) /\ a[x].menor # 0
    <3>1. /\ c[x].menor = a[x].menor /\ a[x].menor \in 1..n /\ a[x].menor > x
          /\ desde[a[x].menor] = desde[x] /\ hasta[a[x].menor] = r[x] - 1
      BY <2>2, <1>5, <1>2
    <3>2. PICK z \in 1..n : z = a[x].menor
      BY <3>1
    <3>3. c[x].menor = z /\ z > x /\ z \in 1..n+1 /\ z # 0
      BY <3>1, <3>2
    <3>4. /\ r[x] \in 1..n /\ desde[x] \in 1..n /\ hasta[x] \in 1..n
          /\ desde[z] = desde[x] /\ hasta[z] = r[x] - 1
      BY <3>1, <3>2, <1>0
    <3>5. d2[z] = d2[x]
      BY <3>4, <1>1
    <3>6. h2[z] = r2[x] - 1
      <4>1. r2[x] = IF r[x] > p THEN r[x] + 1 ELSE r[x]
        BY <1>1
      <4>2. h2[z] = IF r[x] - 1 > p - 1 THEN (r[x] - 1) + 1 ELSE r[x] - 1
        BY <3>4, <1>1
      <4>3. PICK k \in Int : k = r[x]
        BY <3>4, <1>0
      <4>4. CASE k > p
        <5>1. r2[x] = k + 1 /\ h2[z] = k
          BY <4>1, <4>2, <4>3, <4>4, <1>0
        <5> QED BY <5>1, <4>3
      <4>5. CASE ~ (k > p)
        <5>1. r2[x] = k /\ h2[z] = k - 1
          BY <4>1, <4>2, <4>3, <4>5, <1>0
        <5> QED BY <5>1
      <4> QED BY <4>4, <4>5
    <3> QED BY <3>3, <3>5, <3>6
  <2>3. CASE ~ (x = y /\ nueva.llave < a[y].llave) /\ a[x].menor = 0
    <3>1. c[x].menor = 0 /\ desde[x] = r[x]
      BY <2>3, <1>5, <1>2
    <3>2. r[x] # p + 1
      <4>1. CASE x = y
        BY <4>1, <2>3, <1>0
      <4>2. CASE x # y
        BY <4>2, <2>3, <1>3
      <4> QED BY <4>1, <4>2
    <3> QED BY <3>1, <3>2, <1>1, <1>0
  <2> QED BY <2>1, <2>2, <2>3
<1>8. ASSUME NEW x \in 1..n
      PROVE  /\ c[x].mayor = 0 => h2[x] = r2[x]
             /\ c[x].mayor # 0 => /\ c[x].mayor \in 1..n+1 /\ c[x].mayor > x
                                  /\ d2[c[x].mayor] = r2[x] + 1
                                  /\ h2[c[x].mayor] = h2[x]
  <2>1. CASE x = y /\ ~ (nueva.llave < a[y].llave)
    <3>1. c[x].mayor = n + 1 /\ r[x] = p /\ hasta[x] = r[x]
      BY <2>1, <1>5, <1>2
    <3> QED BY <3>1, <1>1, <1>0
  <2>2. CASE ~ (x = y /\ ~ (nueva.llave < a[y].llave)) /\ a[x].mayor # 0
    <3>1. /\ c[x].mayor = a[x].mayor /\ a[x].mayor \in 1..n /\ a[x].mayor > x
          /\ desde[a[x].mayor] = r[x] + 1 /\ hasta[a[x].mayor] = hasta[x]
      BY <2>2, <1>5, <1>2
    <3>2. PICK z \in 1..n : z = a[x].mayor
      BY <3>1
    <3>3. c[x].mayor = z /\ z > x /\ z \in 1..n+1 /\ z # 0
      BY <3>1, <3>2
    <3>4. /\ r[x] \in 1..n /\ desde[x] \in 1..n /\ hasta[x] \in 1..n
          /\ desde[z] = r[x] + 1 /\ hasta[z] = hasta[x]
      BY <3>1, <3>2, <1>0
    <3>5. d2[z] = r2[x] + 1
      BY <3>4, <1>1
    <3>6. h2[z] = h2[x]
      BY <3>4, <1>1
    <3> QED BY <3>3, <3>5, <3>6
  <2>3. CASE ~ (x = y /\ ~ (nueva.llave < a[y].llave)) /\ a[x].mayor = 0
    <3>1. c[x].mayor = 0 /\ hasta[x] = r[x]
      BY <2>3, <1>5, <1>2
    <3>2. r[x] # p
      <4>1. CASE x = y
        BY <4>1, <2>3, <1>0
      <4>2. CASE x # y
        BY <4>2, <2>3, <1>4
      <4> QED BY <4>1, <4>2
    <3> QED BY <3>1, <3>2, <1>1, <1>0
  <2> QED BY <2>1, <2>2, <2>3
<1>9. ASSUME NEW x \in 1..n+1, x = n + 1
      PROVE  d2[x] = r2[x] /\ h2[x] = r2[x] /\ c[x].menor = 0 /\ c[x].mayor = 0
  BY <1>9, <1>1, <1>6
<1>10. n \in Nat
  BY <1>0
<1> HIDE DEF n
<1>11. \A x \in 1..n+1 : x = n + 1 \/ x \in 1..n
  BY <1>10
<1> QED BY <1>0, <1>7, <1>8, <1>9, <1>11 DEF Ramas, r2, d2, h2, n

\* Of two nodes next to each other one still hangs from the other.
LEMMA SeguidosMas ==
    ASSUME NEW n \in Nat \ {0}, NEW q, NEW r, Biyeccion(n, q, r), NEW desde, NEW hasta,
           Tramos(n, r, desde, hasta), Seguidos(n, q, desde, hasta), NEW p \in 0..n
    PROVE  Seguidos(n + 1, ConMas(n, q, p), Sube(n, desde, p + 1, p + 1),
                    Sube(n, hasta, p - 1, p + 1))
<1> DEFINE q2 == ConMas(n, q, p)
           d2 == Sube(n, desde, p + 1, p + 1)
           h2 == Sube(n, hasta, p - 1, p + 1)
<1>0. p \in Nat /\ p <= n
  OBVIOUS
<1>1. \A i \in 1..n : /\ q[i] \in 1..n /\ desde[q[i]] \in 1..n /\ hasta[q[i]] \in 1..n
                      /\ desde[q[i]] <= i /\ i <= hasta[q[i]]
  <2>1. \A i \in 1..n : q[i] \in 1..n /\ r[q[i]] = i
    BY DEF Biyeccion
  <2>2. \A x \in 1..n : /\ desde[x] \in 1..n /\ hasta[x] \in 1..n
                        /\ desde[x] <= r[x] /\ r[x] <= hasta[x]
    BY DEF Tramos
  <2> QED BY <2>1, <2>2
<1>2. \A i \in 1..n+1 :
          q2[i] = IF i <= p THEN q[i] ELSE IF i = p + 1 THEN n + 1 ELSE q[i - 1]
  BY DEF ConMas
<1>3. /\ \A x \in 1..n :
          /\ d2[x] = IF desde[x] > p + 1 THEN desde[x] + 1 ELSE desde[x]
          /\ h2[x] = IF hasta[x] > p - 1 THEN hasta[x] + 1 ELSE hasta[x]
      /\ d2[n + 1] = p + 1 /\ h2[n + 1] = p + 1
  <2>1. n + 1 \in 1..n+1 /\ \A x \in 1..n : x \in 1..n+1 /\ x # n + 1
    OBVIOUS
  <2> QED BY <2>1 DEF Sube
<1> HIDE DEF q2, d2, h2
<1>4. ASSUME NEW i \in 1..n PROVE h2[q2[i]] > i <=> d2[q2[i + 1]] > i
  <2>0. i \in 1..n+1 /\ i + 1 \in 1..n+1 /\ (i + 1) - 1 = i
    OBVIOUS
  <2>1. CASE i < p
    <3>1. i + 1 \in 1..n /\ i \in 1..n-1 /\ q2[i] = q[i] /\ q2[i + 1] = q[i + 1]
      BY <2>0, <2>1, <1>0, <1>2
    <3>2. PICK x \in 1..n : x = q[i]
      BY <1>1
    <3>3. PICK z \in 1..n : z = q[i + 1]
      BY <3>1, <1>1
    <3>4. hasta[x] > i <=> desde[z] > i
      BY <3>1, <3>2, <3>3 DEF Seguidos
    <3>5. desde[z] \in 1..n /\ hasta[x] \in 1..n /\ desde[z] <= i + 1 /\ i <= hasta[x]
      BY <3>1, <3>2, <3>3, <1>1
    <3>6. h2[x] > i <=> hasta[x] > i
      BY <3>5, <2>1, <1>0, <1>3
    <3>7. d2[z] = desde[z]
      BY <3>5, <2>1, <1>0, <1>3
    <3> QED BY <3>1, <3>2, <3>3, <3>4, <3>6, <3>7
  <2>2. CASE i = p
    <3>1. q2[i] = q[i] /\ q2[i + 1] = n + 1
      BY <2>0, <2>2, <1>0, <1>2
    <3>2. PICK x \in 1..n : x = q[i]
      BY <1>1
    <3>3. h2[x] > i
      BY <3>2, <2>2, <1>0, <1>1, <1>3
    <3>4. d2[n + 1] > i
      BY <2>2, <1>0, <1>3
    <3> QED BY <3>1, <3>2, <3>3, <3>4
  <2>3. CASE i = p + 1
    <3>1. q2[i] = n + 1 /\ q2[i + 1] = q[i]
      BY <2>0, <2>3, <1>0, <1>2
    <3>2. PICK z \in 1..n : z = q[i]
      BY <1>1
    <3>3. ~ (h2[n + 1] > i)
      BY <2>3, <1>0, <1>3
    <3>4. ~ (d2[z] > i)
      BY <3>2, <2>3, <1>0, <1>1, <1>3
    <3> QED BY <3>1, <3>2, <3>3, <3>4
  <2>4. CASE i > p + 1
    <3>1. i - 1 \in 1..n-1 /\ (i - 1) + 1 = i /\ q2[i] = q[i - 1] /\ q2[i + 1] = q[i]
      BY <2>0, <2>4, <1>0, <1>2
    <3>2. PICK x \in 1..n : x = q[i - 1]
      BY <3>1, <1>1
    <3>3. PICK z \in 1..n : z = q[i]
      BY <1>1
    <3>4. hasta[x] > i - 1 <=> desde[z] > i - 1
      BY <3>1, <3>2, <3>3 DEF Seguidos
    <3>5. /\ desde[z] \in 1..n /\ hasta[x] \in 1..n /\ desde[z] <= i
          /\ i - 1 <= hasta[x] /\ i - 1 \in 1..n
      BY <3>1, <3>2, <3>3, <1>1
    <3>6. h2[x] = hasta[x] + 1
      BY <3>5, <2>4, <1>0, <1>3
    <3>7. d2[z] > i <=> desde[z] > i - 1
      BY <3>5, <2>4, <1>0, <1>3
    <3> QED BY <3>1, <3>2, <3>3, <3>4, <3>5, <3>6, <3>7
  <2> QED BY <2>1, <2>2, <2>3, <2>4, <1>0
<1>5. (n + 1) - 1 = n
  OBVIOUS
<1> QED BY <1>4, <1>5 DEF Seguidos, q2, d2, h2

\* inskey leaves the tree with one key more, its nodes where they were.
LEMMA ArbolMas ==
    ASSUME NEW a \in Seq(Nodos), NEW q, NEW r, NEW desde, NEW hasta,
           EsArbol(a, q, r, desde, hasta), NEW nueva \in Nodos,
           nueva.menor = 0, nueva.mayor = 0,
           \A x \in 1..Len(a) : Antes(a[x].lugar, nueva.lugar)
    PROVE  LET c == Cuelga(a, nueva)
           IN  /\ c \in Seq(Nodos) /\ Len(c) = Len(a) + 1 /\ c[Len(a) + 1] = nueva
               /\ \A x \in 1..Len(a) : c[x].llave = a[x].llave /\ c[x].lugar = a[x].lugar
               /\ \E q2, r2, desde2, hasta2 : EsArbol(c, q2, r2, desde2, hasta2)
<1> DEFINE c == Cuelga(a, nueva)
           n == Len(a)
<1>1. CASE a = <<>>
  <2>1. c = <<nueva>>
    BY <1>1 DEF Cuelga
  <2>2. c \in Seq(Nodos) /\ Len(c) = 1 /\ c[1] = nueva /\ n = 0
    BY <2>1, <1>1
  <2> DEFINE f == [x \in 1..1 |-> 1]
  <2>3. f[1] = 1 /\ f \in [1..1 -> 1..1]
    OBVIOUS
  <2> HIDE DEF c, f
  <2>4. EsArbol(c, f, f, f, f)
    BY <2>2, <2>3 DEF EsArbol, Biyeccion, PorRango, Tramos, Ramas, Seguidos
  <2>5. /\ c \in Seq(Nodos) /\ Len(c) = Len(a) + 1 /\ c[Len(a) + 1] = nueva
        /\ \A x \in 1..Len(a) : c[x].llave = a[x].llave /\ c[x].lugar = a[x].lugar
        /\ \E q2, r2, desde2, hasta2 : EsArbol(c, q2, r2, desde2, hasta2)
    <3>1. \A x \in 1..Len(a) : FALSE
      BY <1>1
    <3> QED BY <2>2, <2>4, <3>1
  <2> QED BY <2>5, Zenon DEF c
<1>2. CASE a # <<>>
  <2> DEFINE k == nueva.llave
             y == PadreDe(a, k)
  <2>0. n \in Nat \ {0} /\ k \in Int
    BY <1>2 DEF Nodos
  <2>1. PICK p \in 0..n : Separa(a, r, k, p)
    BY <2>0, Hueco DEF EsArbol
  <2>2. /\ y \in 1..n
        /\ k < a[y].llave => a[y].menor = 0 /\ r[y] = p + 1
        /\ ~ (k < a[y].llave) => a[y].mayor = 0 /\ r[y] = p
    BY <1>2, <2>0, <2>1, DondeCuelga
  <2> DEFINE z == IF k < a[y].llave THEN [a[y] EXCEPT !.menor = n + 1]
                                    ELSE [a[y] EXCEPT !.mayor = n + 1]
  <2>3. c = Append([a EXCEPT ![y] = z], nueva)
    BY <1>2, Zenon DEF Cuelga, Menor, PadreDe
  <2> HIDE DEF y
  <2>4. a[y] \in Nodos /\ DOMAIN a = 1..n
    BY <2>2
  <2>5. /\ z \in Nodos /\ z.llave = a[y].llave /\ z.lugar = a[y].lugar
        /\ z.menor = IF k < a[y].llave THEN n + 1 ELSE a[y].menor
        /\ z.mayor = IF ~ (k < a[y].llave) THEN n + 1 ELSE a[y].mayor
    <3>1. n + 1 \in Nat
      BY <2>0
    <3> HIDE DEF n, k
    <3> QED BY <2>4, <3>1 DEF Nodos
  <2> HIDE DEF z
  <2> DEFINE b == [a EXCEPT ![y] = z]
  <2>6. b \in Seq(Nodos) /\ Len(b) = n /\ \A x \in 1..n : b[x] = IF x = y THEN z ELSE a[x]
    BY <2>2, <2>4, <2>5
  <2> HIDE DEF b
  <2>7. /\ c \in Seq(Nodos) /\ Len(c) = n + 1 /\ c[n + 1] = nueva
        /\ \A x \in 1..n : c[x] = IF x = y THEN z ELSE a[x]
    <3>1. c = Append(b, nueva)
      BY <2>3 DEF b
    <3> HIDE DEF c
    <3> QED BY <2>6, <3>1, <2>0
  <2> HIDE DEF c
  <2>8. Colgada(a, c, nueva, y)
    BY <2>5, <2>7 DEF Colgada
  <2> DEFINE q2 == ConMas(n, q, p)
             r2 == Sube(n, r, p, p + 1)
             d2 == Sube(n, desde, p + 1, p + 1)
             h2 == Sube(n, hasta, p - 1, p + 1)
  <2>9. /\ Biyeccion(n, q, r) /\ PorRango(a, q) /\ Tramos(n, r, desde, hasta)
        /\ Seguidos(n, q, desde, hasta)
    BY DEF EsArbol
  <2>10. Biyeccion(n + 1, q2, r2)
    BY <2>0, <2>9, BiyeccionMas
  <2>11. PorRango(c, q2)
    BY <2>1, <2>8, <2>9, PorRangoMas
  <2>12. Tramos(n + 1, r2, d2, h2)
    BY <2>0, <2>9, TramosMas
  <2>13. Ramas(c, r2, d2, h2)
    BY <2>1, <2>2, <2>8, RamasMas
  <2>14. Seguidos(n + 1, q2, d2, h2)
    BY <2>0, <2>9, SeguidosMas
  <2> HIDE DEF q2, r2, d2, h2, n
  <2>15. EsArbol(c, q2, r2, d2, h2)
    BY <2>7, <2>10, <2>11, <2>12, <2>13, <2>14 DEF EsArbol
  <2>16. /\ c \in Seq(Nodos) /\ Len(c) = Len(a) + 1 /\ c[Len(a) + 1] = nueva
         /\ \A x \in 1..Len(a) : c[x].llave = a[x].llave /\ c[x].lugar = a[x].lugar
         /\ \E q3, r3, d3, h3 : EsArbol(c, q3, r3, d3, h3)
    BY <2>7, <2>8, <2>15 DEF Colgada, n
  <2> QED BY <2>16, Zenon DEF c
<1> QED BY <1>1, <1>2

-----------------------------------------------------------------------------
(* The walk of the tree *)

\* The last of a sequence and what goes before it.
LEMMA Frente ==
    ASSUME NEW S, NEW s \in Seq(S), s # <<>>
    PROVE  /\ Last(s) = s[Len(s)] /\ Last(s) \in S
           /\ Front(s) \in Seq(S) /\ Len(Front(s)) = Len(s) - 1
           /\ \A i \in 1..Len(s)-1 : Front(s)[i] = s[i]
<1>1. PICK l : l = Len(s) /\ l \in Nat \ {0} /\ \A i \in 1..l : s[i] \in S
  OBVIOUS
<1>2. PICK m : m = l - 1 /\ m \in Nat
  BY <1>1
<1>3. Front(s) = SubSeq(s, 1, m) /\ \A i \in 1..m : s[i] \in S
  BY <1>1, <1>2 DEF Front
<1>4. /\ SubSeq(s, 1, m) \in Seq(S)
      /\ Len(SubSeq(s, 1, m)) = IF 1 <= m THEN m - 1 + 1 ELSE 0
      /\ \A i \in 1..m-1+1 : SubSeq(s, 1, m)[i] = s[1 + i - 1]
  <2>1. 1 \in Int /\ m \in Int
    BY <1>2
  <2> QED BY <1>3, <2>1, SubSeqProperties
<1>5. m - 1 + 1 = m /\ (~ (1 <= m) => m = 0) /\ \A i \in 1..m : 1 + i - 1 = i
  <2>1. m \in Nat
    BY <1>2
  <2>2. m - 1 + 1 = m
    BY <2>1
  <2>3. ~ (1 <= m) => m = 0
    BY <2>1
  <2>4. \A i \in 1..m : 1 + i - 1 = i
    BY <2>1
  <2> QED BY <2>2, <2>3, <2>4
<1>6. Last(s) = s[l] /\ l \in 1..l
  BY <1>1 DEF Last
<1> QED BY <1>1, <1>2, <1>3, <1>4, <1>5, <1>6

\* The walk of outsorteda after j keys: it is at the subtree of nodo, whose keys come
\* next (or, coming back, at nodo itself), and each node on the stack is the one that
\* follows the subtree of the node above it.
EnRecorrido(a, r, desde, hasta, x, p, baja, j) ==
    /\ x \in 1..Len(a) /\ j \in 0..Len(a)-1
    /\ baja => desde[x] = j + 1
    /\ ~baja => r[x] = j + 1
    /\ p \in Seq(1..Len(a))
    /\ p = <<>> => hasta[x] = Len(a)
    /\ p # <<>> => hasta[p[1]] = Len(a) /\ r[p[Len(p)]] = hasta[x] + 1
    /\ \A i \in 1..Len(p)-1 : r[p[i]] = hasta[p[i + 1]] + 1
    /\ \A i, k \in 1..Len(p) : i <= k => r[p[i]] + i >= r[p[k]] + k

\* The numbers of a tree.
LEMMA DelArbol ==
    ASSUME NEW a \in Seq(Nodos), NEW q, NEW r, NEW desde, NEW hasta,
           EsArbol(a, q, r, desde, hasta)
    PROVE  /\ Len(a) \in Nat
           /\ \A x \in 1..Len(a) :
               /\ q[x] \in 1..Len(a) /\ r[x] \in 1..Len(a) /\ r[q[x]] = x /\ q[r[x]] = x
               /\ desde[x] \in 1..Len(a) /\ hasta[x] \in 1..Len(a)
               /\ desde[x] <= r[x] /\ r[x] <= hasta[x]
               /\ a[x] \in Nodos
           /\ Len(a) > 0 => desde[1] = 1 /\ hasta[1] = Len(a)
<1>1. \A x \in 1..Len(a) :
          q[x] \in 1..Len(a) /\ r[x] \in 1..Len(a) /\ r[q[x]] = x /\ q[r[x]] = x
  BY DEF EsArbol, Biyeccion
<1>2. \A x \in 1..Len(a) : /\ desde[x] \in 1..Len(a) /\ hasta[x] \in 1..Len(a)
                           /\ desde[x] <= r[x] /\ r[x] <= hasta[x]
  BY DEF EsArbol, Tramos
<1>3. Len(a) \in Nat /\ \A x \in 1..Len(a) : a[x] \in Nodos
  OBVIOUS
<1>4. Len(a) > 0 => desde[1] = 1 /\ hasta[1] = Len(a)
  BY DEF EsArbol, Tramos
<1> QED BY <1>1, <1>2, <1>3, <1>4

\* The walk ends at the node of the greatest rank.
UltimoDe(a) == Fondo([x \in DOMAIN a |-> a[x].mayor])[1]

\* Always to the greater side leads to the greatest rank (anter of outsorteda).
LEMMA UltimoEs ==
    ASSUME NEW a \in Seq(Nodos), a # <<>>, NEW q, NEW r, NEW desde, NEW hasta,
           EsArbol(a, q, r, desde, hasta)
    PROVE  UltimoDe(a) \in 1..Len(a) /\ r[UltimoDe(a)] = Len(a)
<1> DEFINE n == Len(a)
           sig == [x \in DOMAIN a |-> a[x].mayor]
           C == {x \in 1..n : hasta[x] = n}
           y == UltimoDe(a)
<1>y. y = Fondo(sig)[1]
  BY Zenon DEF UltimoDe
<1>0. n \in Nat \ {0} /\ DOMAIN sig = 1..n /\ \A x \in 1..n : sig[x] = a[x].mayor
  OBVIOUS
<1> HIDE DEF sig, y
<1>1. \A x \in 1..n : /\ sig[x] = 0 => hasta[x] = r[x]
                      /\ sig[x] # 0 => /\ sig[x] \in 1..n /\ sig[x] > x
                                       /\ hasta[sig[x]] = hasta[x]
  BY <1>0 DEF EsArbol, Ramas
<1>2. 1 \in C
  BY <1>0, DelArbol
<1>3. y \in C /\ sig[y] = 0
  <2>1. \A x \in 1..n : sig[x] = 0 \/ (sig[x] \in 1..n /\ sig[x] > x)
    BY <1>1
  <2>2. C \in SUBSET (1..n) /\ \A x \in C : sig[x] # 0 => sig[x] \in C
    BY <1>1
  <2>3. n \in Nat /\ DOMAIN sig = 1..n
    BY <1>0
  <2> HIDE DEF C, n
  <2>4. \A x \in C : Fondo(sig)[x] \in C /\ sig[Fondo(sig)[x]] = 0
    BY <2>1, <2>2, <2>3, AlFondo
  <2>5. Fondo(sig)[1] \in C /\ sig[Fondo(sig)[1]] = 0
    BY <2>4, <1>2
  <2> QED BY <2>5, <1>y
<1>4. y \in 1..n /\ hasta[y] = n /\ hasta[y] = r[y]
  BY <1>1, <1>3
<1> QED BY <1>4 DEF y

\* The walk starts at the first key.
LEMMA RecorridoInicia ==
    ASSUME NEW a \in Seq(Nodos), a # <<>>, NEW q, NEW r, NEW desde, NEW hasta,
           EsArbol(a, q, r, desde, hasta)
    PROVE  EnRecorrido(a, r, desde, hasta, 1, <<>>, TRUE, 0)
<1>1. Len(a) \in Nat \ {0} /\ desde[1] = 1 /\ hasta[1] = Len(a)
  BY DelArbol
<1>2. <<>> \in Seq(1..Len(a)) /\ Len(<<>>) = 0
  OBVIOUS
<1> QED BY <1>1, <1>2 DEF EnRecorrido

\* Down to the smaller keys.
LEMMA RecorridoBaja ==
    ASSUME NEW a \in Seq(Nodos), NEW q, NEW r, NEW desde, NEW hasta,
           EsArbol(a, q, r, desde, hasta), NEW x, NEW p, NEW j,
           EnRecorrido(a, r, desde, hasta, x, p, TRUE, j), a[x].menor # 0
    PROVE  EnRecorrido(a, r, desde, hasta, a[x].menor, Append(p, x), TRUE, j)
<1> DEFINE n == Len(a)
           l == Len(p)
           p2 == Append(p, x)
<1>0. /\ n \in Nat /\ x \in 1..n /\ j \in 0..n-1 /\ l \in Nat
      /\ r[x] \in 1..n /\ hasta[x] \in 1..n /\ r[x] <= hasta[x]
  BY DelArbol DEF EnRecorrido
<1>1. PICK y \in 1..n : y = a[x].menor /\ desde[y] = desde[x] /\ hasta[y] = r[x] - 1
  BY <1>0 DEF EsArbol, Ramas
<1>2. p \in Seq(1..n) /\ \A i \in 1..l : p[i] \in 1..n /\ r[p[i]] \in 1..n
  <2>1. p \in Seq(1..n)
    BY DEF EnRecorrido
  <2> QED BY <2>1, DelArbol
<1>3. /\ p2 \in Seq(1..n) /\ Len(p2) = l + 1 /\ p2 # <<>> /\ p2[l + 1] = x
      /\ \A i \in 1..l : p2[i] = p[i]
  <2>1. PICK K : K = 1..n
    OBVIOUS
  <2>2. p \in Seq(K) /\ x \in K
    BY <2>1, <1>0, <1>2
  <2>3. /\ p2 \in Seq(K) /\ Len(p2) = l + 1 /\ p2 # <<>> /\ p2[l + 1] = x
        /\ \A i \in 1..l : p2[i] = p[i]
    BY <2>2
  <2> QED BY <2>1, <2>3
<1> HIDE DEF p2
<1>4. hasta[p2[1]] = n
  <2>1. CASE p = <<>>
    <3>1. hasta[x] = n /\ l = 0
      BY <2>1 DEF EnRecorrido
    <3> QED BY <3>1, <1>3
  <2>2. CASE p # <<>>
    <3>1. hasta[p[1]] = n /\ 1 \in 1..l
      BY <2>2, <1>2 DEF EnRecorrido
    <3> QED BY <3>1, <1>3
  <2> QED BY <2>1, <2>2
<1>5. l > 0 => r[p[l]] = hasta[x] + 1
  <2>1. l > 0 => p # <<>>
    OBVIOUS
  <2> QED BY <2>1 DEF EnRecorrido
<1>6. ASSUME NEW i \in 1..(l+1)-1 PROVE r[p2[i]] = hasta[p2[i + 1]] + 1
  <2>1. i \in 1..l
    BY <1>0
  <2>2. CASE i = l
    BY <2>1, <2>2, <1>3, <1>5, <1>0
  <2>3. CASE i # l
    <3>1. i \in 1..l-1 /\ i + 1 \in 1..l
      BY <2>1, <2>3, <1>0
    <3> QED BY <3>1, <2>1, <1>3 DEF EnRecorrido
  <2> QED BY <2>2, <2>3
<1>7. ASSUME NEW i \in 1..l+1, NEW k \in 1..l+1, i <= k
      PROVE  r[p2[i]] + i >= r[p2[k]] + k
  <2>1. CASE k \in 1..l
    <3>1. i \in 1..l
      BY <2>1, <1>7, <1>0
    <3> QED BY <3>1, <2>1, <1>7, <1>3 DEF EnRecorrido
  <2>2. CASE k = l + 1 /\ i = l + 1
    <3>1. r[p2[i]] + i = r[x] + i
      BY <2>2, <1>3
    <3> QED BY <3>1, <2>2, <1>0
  <2>3. CASE k = l + 1 /\ i \in 1..l
    <3>1. l \in 1..l /\ i <= l
      BY <2>3, <1>0
    <3>2. r[p[i]] + i >= r[p[l]] + l
      BY <3>1, <2>3 DEF EnRecorrido
    <3>3. r[p[l]] = hasta[x] + 1 /\ r[p[i]] \in 1..n
      BY <3>1, <2>3, <1>5, <1>2, <1>0
    <3>4. p2[i] = p[i] /\ p2[k] = x
      BY <2>3, <1>3
    <3> QED BY <3>2, <3>3, <3>4, <2>3, <1>0, SMTT(30)
  <2> QED BY <2>1, <2>2, <2>3, <1>0
<1>8. desde[x] = j + 1
  BY DEF EnRecorrido
<1>9. r[x] = hasta[y] + 1
  BY <1>0, <1>1
<1> HIDE DEF n, l
<1>10. EnRecorrido(a, r, desde, hasta, y, p2, TRUE, j)
  BY <1>0, <1>1, <1>3, <1>4, <1>6, <1>7, <1>8, <1>9 DEF EnRecorrido, n
<1> QED BY <1>1, <1>10 DEF p2

Toca(q, r, x, j) == x = q[j + 1] /\ r[x] = j + 1
Queda(a, r, x) == a[x].mayor = 0 /\ r[x] # Len(a)
Vuelve(a, r, desde, hasta, p, j) ==
    p # <<>> /\ EnRecorrido(a, r, desde, hasta, Last(p), Front(p), FALSE, j)

\* One key out, and on to the greater ones that hang from its node, or back to the last
\* node passed.
LEMMA RecorridoSube ==
    ASSUME NEW a \in Seq(Nodos), NEW q, NEW r, NEW desde, NEW hasta,
           EsArbol(a, q, r, desde, hasta), NEW x, NEW p, NEW baja \in BOOLEAN, NEW j,
           EnRecorrido(a, r, desde, hasta, x, p, baja, j), baja = FALSE \/ a[x].menor = 0
    PROVE  /\ Toca(q, r, x, j)
           /\ a[x].mayor # 0 => EnRecorrido(a, r, desde, hasta, a[x].mayor, p, TRUE, j + 1)
           /\ Queda(a, r, x) => Vuelve(a, r, desde, hasta, p, j + 1)
<1> DEFINE n == Len(a)
           l == Len(p)
<1>0. /\ n \in Nat /\ x \in 1..n /\ j \in 0..n-1 /\ l \in Nat
      /\ r[x] \in 1..n /\ hasta[x] \in 1..n /\ r[x] <= hasta[x] /\ q[r[x]] = x
  BY DelArbol DEF EnRecorrido
<1>1. r[x] = j + 1
  <2>1. baja => desde[x] = r[x] /\ desde[x] = j + 1
    BY <1>0 DEF EsArbol, Ramas, EnRecorrido
  <2>2. ~baja => r[x] = j + 1
    BY DEF EnRecorrido
  <2> QED BY <2>1, <2>2
<1>2. p \in Seq(1..n) /\ \A i \in 1..l : p[i] \in 1..n /\ r[p[i]] \in 1..n
  <2>1. p \in Seq(1..n)
    BY DEF EnRecorrido
  <2> QED BY <2>1, DelArbol
<1>3. ASSUME a[x].mayor # 0
      PROVE  EnRecorrido(a, r, desde, hasta, a[x].mayor, p, TRUE, j + 1)
  <2>1. PICK y \in 1..n : y = a[x].mayor /\ desde[y] = r[x] + 1 /\ hasta[y] = hasta[x]
    BY <1>0, <1>3 DEF EsArbol, Ramas
  <2>2. desde[y] \in 1..n /\ desde[y] = (j + 1) + 1
    BY <1>0, <1>1, <2>1, DelArbol
  <2>3. j + 1 \in 0..n-1
    BY <1>0, <2>2
  <2>4. EnRecorrido(a, r, desde, hasta, y, p, TRUE, j + 1)
    BY <1>2, <2>1, <2>2, <2>3 DEF EnRecorrido
  <2> QED BY <2>1, <2>4
<1>4. ASSUME a[x].mayor = 0, r[x] # n
      PROVE  p # <<>> /\ EnRecorrido(a, r, desde, hasta, Last(p), Front(p), FALSE, j + 1)
  <2>1. hasta[x] = r[x]
    BY <1>0, <1>4 DEF EsArbol, Ramas
  <2>2. p # <<>>
    BY <2>1, <1>4 DEF EnRecorrido
  <2>3. l \in Nat \ {0}
    BY <1>0, <1>2, <2>2
  <2> DEFINE y == Last(p)
             f == Front(p)
  <2>4. y = p[l] /\ y \in 1..n
    BY <1>2, <2>2, Frente
  <2>5. f \in Seq(1..n) /\ Len(f) = l - 1 /\ \A i \in 1..l-1 : f[i] = p[i]
    BY <1>2, <2>2, Frente
  <2> HIDE DEF y, f
  <2>6. r[y] = (j + 1) + 1
    BY <2>1, <2>2, <2>4, <1>1 DEF EnRecorrido
  <2>7. j + 1 \in 0..n-1
    <3>1. r[y] \in 1..n
      BY <2>4, DelArbol
    <3> QED BY <3>1, <2>6, <1>0
  <2>8. f = <<>> => hasta[y] = n
    <3>1. f = <<>> => l = 1
      BY <2>3, <2>5
    <3> QED BY <3>1, <2>2, <2>4 DEF EnRecorrido
  <2>9. f # <<>> => hasta[f[1]] = n /\ r[f[Len(f)]] = hasta[y] + 1
    <3>1. f # <<>> => l - 1 \in 1..l-1 /\ 1 \in 1..l-1 /\ (l - 1) + 1 = l
      BY <2>3, <2>5
    <3>2. f # <<>> => f[1] = p[1] /\ f[Len(f)] = p[l - 1]
      BY <3>1, <2>5
    <3> QED BY <3>1, <3>2, <2>2, <2>4 DEF EnRecorrido
  <2>10. ASSUME NEW i \in 1..Len(f)-1 PROVE r[f[i]] = hasta[f[i + 1]] + 1
    <3>1. i \in 1..l-1 /\ i + 1 \in 1..l-1
      BY <2>3, <2>5
    <3> QED BY <3>1, <2>5 DEF EnRecorrido
  <2>11. ASSUME NEW i \in 1..Len(f), NEW k \in 1..Len(f), i <= k
         PROVE  r[f[i]] + i >= r[f[k]] + k
    <3>1. i \in 1..l-1 /\ k \in 1..l-1 /\ i \in 1..l /\ k \in 1..l
      BY <2>3, <2>5
    <3> QED BY <3>1, <2>5, <2>11 DEF EnRecorrido
  <2>12. EnRecorrido(a, r, desde, hasta, y, f, FALSE, j + 1)
    BY <2>4, <2>5, <2>6, <2>7, <2>8, <2>9, <2>10, <2>11 DEF EnRecorrido
  <2> QED BY <2>2, <2>12 DEF y, f
<1> QED BY <1>0, <1>1, <1>3, <1>4 DEF Toca, Queda, Vuelve

\* The stack is shorter than the tree.
LEMMA PilaCorta ==
    ASSUME NEW a \in Seq(Nodos), NEW q, NEW r, NEW desde, NEW hasta,
           EsArbol(a, q, r, desde, hasta), NEW x, NEW p, NEW baja \in BOOLEAN, NEW j,
           EnRecorrido(a, r, desde, hasta, x, p, baja, j)
    PROVE  Len(p) < Len(a)
<1> DEFINE n == Len(a)
           l == Len(p)
<1>0. n \in Nat /\ x \in 1..n /\ hasta[x] \in 1..n
  BY DelArbol DEF EnRecorrido
<1>1. p \in Seq(1..n)
  BY DEF EnRecorrido
<1>2. l \in Nat /\ \A i \in 1..l : r[p[i]] \in 1..n
  BY <1>1, DelArbol
<1>3. CASE p = <<>>
  <2>1. l = 0
    BY <1>3
  <2> QED BY <2>1, <1>0
<1>4. CASE p # <<>>
  <2>1. l \in 1..l /\ 1 \in 1..l /\ 1 <= l
    BY <1>1, <1>2, <1>4
  <2>2. r[p[1]] + 1 >= r[p[l]] + l /\ r[p[l]] = hasta[x] + 1
    BY <2>1, <1>4 DEF EnRecorrido
  <2>3. r[p[1]] \in 1..n /\ r[p[l]] \in 1..n
    BY <2>1, <1>2
  <2> QED BY <2>2, <2>3, <1>0, <1>2
<1> QED BY <1>3, <1>4

-----------------------------------------------------------------------------
(* Sequences by key *)

\* Every key of s is at most every key of u.
Antecede(s, u) == \A m \in 1..Len(s) : \A n \in 1..Len(u) : s[m].llave <= u[n].llave

\* A file with nothing in it.
LEMMA OrdenVacio ==
    ASSUME NEW u
    PROVE  PorLlave(<<>>) /\ Antecede(<<>>, u)
  BY DEF PorLlave, Antecede

\* Two files one after the other, when the first one has the smaller keys.
LEMMA OrdenUne ==
    ASSUME NEW R, \A x \in R : x.llave \in Int, NEW s \in Seq(R), NEW u \in Seq(R),
           PorLlave(s), PorLlave(u), Antecede(s, u)
    PROVE  PorLlave(s \o u)
<1> DEFINE w == s \o u
<1>1. /\ w \in Seq(R) /\ Len(w) = Len(s) + Len(u) /\ Len(s) \in Nat /\ Len(u) \in Nat
      /\ \A i \in 1..Len(s)+Len(u) : w[i] = IF i <= Len(s) THEN s[i] ELSE u[i - Len(s)]
  BY ConcatProperties
<1>2. DOMAIN w = 1..Len(w) /\ DOMAIN s = 1..Len(s) /\ DOMAIN u = 1..Len(u)
  BY <1>1
<1> HIDE DEF w
<1>3. ASSUME NEW i \in 1..Len(w), NEW j \in 1..Len(w), i < j
      PROVE  w[i].llave <= w[j].llave
  <2>1. CASE j <= Len(s)
    <3>1. i \in 1..Len(s) /\ j \in 1..Len(s) /\ w[i] = s[i] /\ w[j] = s[j]
      BY <2>1, <1>1, <1>3
    <3> QED BY <3>1, <1>2, <1>3 DEF PorLlave
  <2>2. CASE i <= Len(s) /\ j > Len(s)
    <3>1. /\ i \in 1..Len(s) /\ j - Len(s) \in 1..Len(u)
          /\ w[i] = s[i] /\ w[j] = u[j - Len(s)]
      BY <2>2, <1>1, <1>3
    <3> QED BY <3>1 DEF Antecede
  <2>3. CASE i > Len(s)
    <3>1. /\ i - Len(s) \in 1..Len(u) /\ j - Len(s) \in 1..Len(u)
          /\ i - Len(s) < j - Len(s)
          /\ w[i] = u[i - Len(s)] /\ w[j] = u[j - Len(s)]
      BY <2>3, <1>1, <1>3
    <3> QED BY <3>1, <1>2 DEF PorLlave
  <2> QED BY <2>1, <2>2, <2>3, <1>1, <1>3
<1> QED BY <1>2, <1>3 DEF PorLlave, w

\* The first key of a sequence that goes to the end of another one.
LEMMA OrdenPasa ==
    ASSUME NEW R, \A x \in R : x.llave \in Int, NEW h \in Seq(R), NEW s \in Seq(R),
           NEW o \in Seq(R), s # <<>>, PorLlave(h), PorLlave(s), Antecede(h, s),
           Antecede(h, o), \A n \in 1..Len(o) : s[1].llave <= o[n].llave
    PROVE  /\ Append(h, Head(s)) \in Seq(R) /\ Tail(s) \in Seq(R)
           /\ PorLlave(Append(h, Head(s))) /\ PorLlave(Tail(s))
           /\ Antecede(Append(h, Head(s)), Tail(s)) /\ Antecede(Append(h, Head(s)), o)
<1> DEFINE c == Append(h, Head(s))
           t == Tail(s)
           l == Len(h)
<1>0. PICK x \in R : x = Head(s) /\ x = s[1]
  OBVIOUS
<1>1. /\ c \in Seq(R) /\ Len(c) = l + 1 /\ c[l + 1] = s[1] /\ l \in Nat
      /\ \A i \in 1..l : c[i] = h[i]
  <2>1. c = Append(h, x)
    BY <1>0
  <2> HIDE DEF c
  <2> QED BY <2>1, <1>0
<1>2. /\ t \in Seq(R) /\ Len(t) = Len(s) - 1 /\ Len(s) \in Nat \ {0}
      /\ \A i \in 1..Len(t) : t[i] = s[i + 1]
  BY HeadTailProperties
<1>3. /\ DOMAIN c = 1..Len(c) /\ DOMAIN t = 1..Len(t) /\ DOMAIN s = 1..Len(s)
      /\ DOMAIN h = 1..Len(h)
  BY <1>1, <1>2
<1>4. /\ \A i \in 1..Len(s) : s[i].llave \in Int
      /\ \A i \in 1..l : h[i].llave \in Int
  <2>1. /\ \A i \in 1..Len(s) : s[i] \in R
        /\ \A i \in 1..l : h[i] \in R
    OBVIOUS
  <2> QED BY <2>1
<1> HIDE DEF c, t
<1>5. PorLlave(t)
  <2>1. ASSUME NEW i \in 1..Len(t), NEW j \in 1..Len(t), i < j
        PROVE  t[i].llave <= t[j].llave
    <3>1. i + 1 \in 1..Len(s) /\ j + 1 \in 1..Len(s) /\ i + 1 < j + 1
      BY <1>2, <2>1
    <3> QED BY <3>1, <1>2, <1>3 DEF PorLlave
  <2> QED BY <2>1, <1>3 DEF PorLlave
<1>6. PorLlave(c)
  <2>1. ASSUME NEW i \in 1..Len(c), NEW j \in 1..Len(c), i < j
        PROVE  c[i].llave <= c[j].llave
    <3>1. i \in 1..l /\ c[i] = h[i]
      BY <1>1, <2>1
    <3>2. CASE j = l + 1
      <4>1. 1 \in 1..Len(s)
        BY <1>2
      <4> QED BY <3>1, <3>2, <4>1, <1>1 DEF Antecede
    <3>3. CASE j # l + 1
      <4>1. j \in 1..l /\ c[j] = h[j]
        BY <3>3, <1>1
      <4> QED BY <3>1, <4>1, <2>1, <1>3 DEF PorLlave
    <3> QED BY <3>2, <3>3
  <2> QED BY <2>1, <1>3 DEF PorLlave
<1>7. Antecede(c, t)
  <2>1. ASSUME NEW i \in 1..Len(c), NEW j \in 1..Len(t) PROVE c[i].llave <= t[j].llave
    <3>1. j + 1 \in 1..Len(s) /\ t[j] = s[j + 1] /\ 1 < j + 1 /\ 1 \in 1..Len(s)
      BY <1>2
    <3>2. CASE i = l + 1
      BY <3>1, <3>2, <1>1, <1>3 DEF PorLlave
    <3>3. CASE i # l + 1
      <4>1. i \in 1..l /\ c[i] = h[i]
        BY <3>3, <1>1
      <4> QED BY <3>1, <4>1 DEF Antecede
    <3> QED BY <3>2, <3>3
  <2> QED BY <2>1 DEF Antecede
<1>8. Antecede(c, o)
  <2>1. ASSUME NEW i \in 1..Len(c), NEW j \in 1..Len(o) PROVE c[i].llave <= o[j].llave
    <3>1. CASE i = l + 1
      BY <3>1, <1>1
    <3>2. CASE i # l + 1
      <4>1. i \in 1..l /\ c[i] = h[i]
        BY <3>2, <1>1
      <4> QED BY <4>1 DEF Antecede
    <3> QED BY <3>1, <3>2
  <2> QED BY <2>1 DEF Antecede
<1> QED BY <1>1, <1>2, <1>5, <1>6, <1>7, <1>8 DEF c, t

-----------------------------------------------------------------------------
(* The invariant of the sort *)

Fichas(o) == [llave : Int, lugar : IF o.junta THEN Nat \X Nat ELSE {Perdido}]
FichaDe(o, x) == [llave |-> x.llave, lugar |-> IF o.junta THEN x.lugar ELSE Perdido]

Opciones == [forma : Forma, salta : BOOLEAN, indice : {"no", "si", "solo"},
             desc : BOOLEAN, tokeys : Nat \ {0}, junta : BOOLEAN]
Entradas == Seq([regs : Seq([k : (0..Tope) \cup {Corta}, borrado : BOOLEAN]),
                 cortado : BOOLEAN])

TipoS ==
    /\ op \in Opciones /\ archivos \in Entradas
    /\ e \in 0..Len(archivos) /\ pos \in Nat /\ inbuf \in Int
    /\ e > 0 => pos > 0
    /\ fase = "lee" \/ (fase = "recorre" /\ sigue = "lee") => e > 0
    /\ arbol \in Seq(Nodos) /\ bajando \in BOOLEAN
    /\ corridas \in Seq(Seq(Fichas(op)))
    /\ f1 \in Seq(Fichas(op)) /\ f2 \in Seq(Fichas(op)) /\ ff \in Seq(Fichas(op))
    /\ indice \in Seq(Fichas(op)) /\ pasada \in Nat
    /\ fase \in Fases /\ sigue \in {"lee", "mezcla", "cierra"}

\* While it reads, memory has a tree of records read before the next one, and no more of
\* them than fit.
ArbolS ==
    /\ fase \in {"abre", "lee"} =>
           /\ \E q, r, desde, hasta : EsArbol(arbol, q, r, desde, hasta)
           /\ Len(arbol) < op.tokeys
    /\ fase = "lee" => \A x \in 1..Len(arbol) : Antes(arbol[x].lugar, <<e, pos>>)
    /\ fase = "abre" => \A x \in 1..Len(arbol) : arbol[x].lugar[1] <= e

\* While it walks, the last run has the keys of the first ranks.
Escrita(a, q, j, o, s) == Len(s) = j /\ \A i \in 1..j : s[i] = FichaDe(o, a[q[i]])
RecorreS ==
    fase = "recorre" =>
        /\ Len(arbol) <= op.tokeys
        /\ \E q, r, desde, hasta, j :
            /\ EsArbol(arbol, q, r, desde, hasta)
            /\ EnRecorrido(arbol, r, desde, hasta, nodo, pila, bajando, j)
            /\ sigue # "cierra" => /\ corridas # <<>>
                                   /\ Escrita(arbol, q, j, op, corridas[Len(corridas)])

\* Every file is by key, and the merged part goes before what is left of its two files.
OrdenS ==
    /\ \A t \in 1..Len(corridas) : PorLlave(corridas[t])
    /\ PorLlave(f1) /\ PorLlave(f2) /\ PorLlave(ff) /\ PorLlave(indice)
    /\ Antecede(ff, f1) /\ Antecede(ff, f2)

\* A file that a merge opens has a key at least.
LlenaS ==
    /\ fase \in {"abre", "lee", "recorre"} => pasada = 0
    /\ fase = "compara" => f1 # <<>> /\ f2 # <<>>
    /\ fase = "mezcla" /\ pasada > 0 => f1 # <<>>
    /\ fase \in {"abre", "lee", "mezcla", "compara"} =>
           \A t \in 1..Len(corridas) : pasada = 0 \/ t > pasada + 1 => corridas[t] # <<>>
    /\ fase = "recorre" /\ sigue # "cierra" =>
           \A t \in 1..Len(corridas)-1 : corridas[t] # <<>>
    /\ fase \in {"mezcla", "compara"} \/ (fase = "recorre" /\ sigue = "mezcla") =>
           corridas # <<>>
    /\ fase = "recorre" /\ sigue = "cierra" => op.indice = "no"
    /\ fase = "cierra" => op.indice = "no" \/ corridas # <<>>

InvS == TipoS /\ ArbolS /\ RecorreS /\ OrdenS /\ LlenaS

\* A sequence is a function over 1..n, whatever it is written as.
LEMMA SecuenciaDe ==
    ASSUME NEW S, NEW n \in Nat, NEW s \in [1..n -> S]
    PROVE  s \in Seq(S)
  OBVIOUS

\* What the program sees of its input is files of records with a key each.
LEMMA VistosSon ==
    ASSUME NEW t \in Trabajos
    PROVE  /\ t.op \in Opciones /\ Vistos(t) \in Entradas
           /\ t.op.forma # "lineas" =>
                  \A f \in DOMAIN Vistos(t) : \A n \in DOMAIN Vistos(t)[f].regs :
                      Vistos(t)[f].regs[n].k # Corta
<1> DEFINE Cortas == (0..Tope) \cup {Corta}
           Crudo == [cols : Seq(Cortas), borrado : BOOLEAN]
           Cocido == [k : Cortas, borrado : BOOLEAN]
           FilaC == [regs : Seq(Crudo), cortado : BOOLEAN]
           Fila == [regs : Seq(Cocido), cortado : BOOLEAN]
           Rs(f) == [n \in DOMAIN t.archivos[f].regs |->
                        Visto(t.archivos[f].regs[n], Despl(t.op, f))]
<1>1. t.op \in Opciones
  BY TrabajosAssumption DEF Opciones
<1>2. t.archivos \in Seq(FilaC)
  BY TrabajosAssumption, Zenon
<1>3. \A f \in DOMAIN t.archivos : \A n \in DOMAIN t.archivos[f].regs :
          /\ Despl(t.op, f) \in DOMAIN t.archivos[f].regs[n].cols
          /\ t.op.forma # "lineas" => t.archivos[f].regs[n].cols[Despl(t.op, f)] # Corta
  BY TrabajosAssumption, Zenon
<1>4. DOMAIN Vistos(t) = DOMAIN t.archivos
  BY DEF Vistos
<1>5. \A f \in DOMAIN t.archivos :
          Vistos(t)[f] = [regs |-> Rs(f), cortado |-> t.archivos[f].cortado]
  BY DEF Vistos
<1>6. DOMAIN t.archivos = 1..Len(t.archivos) /\ Len(t.archivos) \in Nat
  BY <1>2, LenProperties
<1>7. ASSUME NEW f \in DOMAIN t.archivos
      PROVE  /\ t.archivos[f] \in FilaC
             /\ t.archivos[f].regs \in Seq(Crudo) /\ t.archivos[f].cortado \in BOOLEAN
  <2>1. t.archivos[f] \in FilaC
    <3> HIDE DEF FilaC
    <3> QED BY <1>2, <1>6, ElementOfSeq
  <2> HIDE DEF Crudo
  <2> QED BY <2>1
<1>8. ASSUME NEW f \in DOMAIN t.archivos, NEW n \in DOMAIN t.archivos[f].regs
      PROVE  Rs(f)[n] \in Cocido /\ (t.op.forma # "lineas" => Rs(f)[n].k # Corta)
  <2> DEFINE r == t.archivos[f].regs[n]
             d == Despl(t.op, f)
  <2>1. r \in Crudo
    <3>1. n \in 1..Len(t.archivos[f].regs)
      <4> HIDE DEF Crudo
      <4> QED BY <1>7, LenProperties
    <3> HIDE DEF Crudo
    <3> QED BY <1>7, <3>1, ElementOfSeq
  <2>2. r.cols \in Seq(Cortas) /\ r.borrado \in BOOLEAN
    <3> HIDE DEF r, Cortas
    <3> QED BY <2>1
  <2>3. d \in DOMAIN r.cols /\ (t.op.forma # "lineas" => r.cols[d] # Corta)
    BY <1>3
  <2>4. r.cols[d] \in Cortas
    <3> HIDE DEF r, d, Cortas
    <3>1. d \in 1..Len(r.cols)
      BY <2>2, <2>3, LenProperties
    <3> QED BY <2>2, <3>1, ElementOfSeq
  <2>5. Rs(f)[n] = [k |-> r.cols[d], borrado |-> r.borrado]
    BY DEF Visto
  <2> HIDE DEF r, d, Rs, Cortas
  <2> QED BY <2>2, <2>3, <2>4, <2>5
<1>9. ASSUME NEW f \in DOMAIN t.archivos PROVE Rs(f) \in Seq(Cocido)
  <2>1. DOMAIN t.archivos[f].regs = 1..Len(t.archivos[f].regs) /\ Len(t.archivos[f].regs) \in Nat
    <3> HIDE DEF Crudo
    <3> QED BY <1>7, LenProperties
  <2>2. Rs(f) \in [1..Len(t.archivos[f].regs) -> Cocido]
    <3>1. DOMAIN Rs(f) = 1..Len(t.archivos[f].regs)
      BY <2>1
    <3>2. \A n \in 1..Len(t.archivos[f].regs) : Rs(f)[n] \in Cocido
      BY <1>8, <2>1, Zenon
    <3>3. Rs(f) = [n \in 1..Len(t.archivos[f].regs) |-> Rs(f)[n]]
      BY <2>1
    <3> HIDE DEF Rs, Cocido
    <3> QED BY <3>2, <3>3
  <2> HIDE DEF Rs, Cocido
  <2> QED BY <2>1, <2>2, SecuenciaDe
<1>10. Vistos(t) \in Entradas
  <2>1. \A f \in 1..Len(t.archivos) : Vistos(t)[f] \in Fila
    <3> SUFFICES ASSUME NEW f \in 1..Len(t.archivos) PROVE Vistos(t)[f] \in Fila
      OBVIOUS
    <3>1. f \in DOMAIN t.archivos
      BY <1>6
    <3>2. Rs(f) \in Seq(Cocido) /\ t.archivos[f].cortado \in BOOLEAN
      BY <3>1, <1>7, <1>9
    <3>3. Vistos(t)[f] = [regs |-> Rs(f), cortado |-> t.archivos[f].cortado]
      BY <3>1, <1>5
    <3> HIDE DEF Rs, Cocido
    <3> QED BY <3>2, <3>3
  <2>2. Vistos(t) = [f \in 1..Len(t.archivos) |-> Vistos(t)[f]]
    BY <1>6 DEF Vistos
  <2>3. Vistos(t) \in [1..Len(t.archivos) -> Fila]
    <3> HIDE DEF Fila
    <3> QED BY <2>1, <2>2
  <2>4. Vistos(t) \in Seq(Fila)
    <3> HIDE DEF Fila
    <3> QED BY <1>6, <2>3, SecuenciaDe
  <2> QED BY <2>4, Zenon DEF Entradas
<1>11. ASSUME t.op.forma # "lineas"
       PROVE  \A f \in DOMAIN Vistos(t) : \A n \in DOMAIN Vistos(t)[f].regs :
                  Vistos(t)[f].regs[n].k # Corta
  <2> SUFFICES ASSUME NEW f \in DOMAIN Vistos(t), NEW n \in DOMAIN Vistos(t)[f].regs
               PROVE  Vistos(t)[f].regs[n].k # Corta
    OBVIOUS
  <2>1. f \in DOMAIN t.archivos /\ Vistos(t)[f].regs = Rs(f)
    <3>1. f \in DOMAIN t.archivos
      BY <1>4
    <3>2. Vistos(t)[f] = [regs |-> Rs(f), cortado |-> t.archivos[f].cortado]
      BY <3>1, <1>5
    <3> HIDE DEF Rs
    <3> QED BY <3>1, <3>2
  <2>2. n \in DOMAIN t.archivos[f].regs
    BY <2>1
  <2> QED BY <1>8, <1>11, <2>1, <2>2
<1> QED BY <1>1, <1>10, <1>11

\* The sort starts with nothing.
LEMMA InicioS == Init => InvS
<1> SUFFICES ASSUME Init PROVE InvS
  OBVIOUS
<1> USE DEF Init
<1>1. PICK t \in Trabajos : op = t.op /\ archivos = Vistos(t)
  OBVIOUS
<1>2. op \in Opciones /\ archivos \in Entradas
  BY <1>1, VistosSon
<1>3. <<>> \in Seq(Nodos) /\ <<>> \in Seq(Seq(Fichas(op))) /\ <<>> \in Seq(Fichas(op))
      /\ Len(<<>>) = 0
  OBVIOUS
<1>4. TipoS
  <2>1. 0 \in 0..Len(archivos)
    BY <1>2 DEF Entradas
  <2>2. e \in 0..Len(archivos) /\ pos \in Nat /\ inbuf \in Int /\ pasada \in Nat /\ e = 0
    BY <2>1
  <2>3. fase \in Fases /\ sigue \in {"lee", "mezcla", "cierra"} /\ fase = "abre"
    BY DEF Fases
  <2> QED BY <1>2, <1>3, <2>2, <2>3 DEF TipoS
<1>5. EsArbol(<<>>, <<>>, <<>>, <<>>, <<>>)
  BY <1>3 DEF EsArbol, Biyeccion, PorRango, Tramos, Ramas, Seguidos
<1>6. ArbolS
  <2>1. Len(arbol) < op.tokeys
    BY <1>2, <1>3 DEF Opciones
  <2>2. \A x \in 1..Len(arbol) : FALSE
    BY <1>3
  <2> QED BY <1>5, <2>1, <2>2 DEF ArbolS
<1>7. OrdenS
  BY <1>3, OrdenVacio DEF OrdenS
<1>8. RecorreS /\ LlenaS
  BY <1>3 DEF RecorreS, LlenaS
<1> QED BY <1>4, <1>6, <1>7, <1>8 DEF InvS

\* The record that is read.
LEMMA LeeRegistro ==
    ASSUME TipoS, fase = "lee", pos <= Len(Regs)
    PROVE  /\ Columnas(Regs[pos], inbuf) \in Int
           /\ Llave(Columnas(Regs[pos], inbuf)) \in Int
           /\ e \in Nat \ {0} /\ pos \in Nat \ {0} /\ pos + 1 \in Nat \ {0}
<1>1. e \in 1..Len(archivos) /\ archivos \in Entradas /\ pos \in Nat \ {0}
  BY DEF TipoS, Entradas
<1> DEFINE R == [k : (0..Tope) \cup {Corta}, borrado : BOOLEAN]
           A == [regs : Seq(R), cortado : BOOLEAN]
<1>2. archivos[e] \in A
  <2>1. archivos \in Seq(A)
    BY <1>1, Zenon DEF Entradas
  <2> HIDE DEF A
  <2> QED BY <1>1, <2>1
<1>3. Regs \in Seq(R)
  <2> HIDE DEF R
  <2> QED BY <1>2 DEF Regs
<1>4. pos \in 1..Len(Regs)
  BY <1>1, <1>3
<1>5. Regs[pos] \in R
  <2> HIDE DEF R
  <2> QED BY <1>3, <1>4
<1>6. Columnas(Regs[pos], inbuf) \in Int
  BY <1>5, TopeAssumption DEF Columnas, Corta, TipoS
<1>7. Llave(Columnas(Regs[pos], inbuf)) \in Int
  BY <1>6, TopeAssumption DEF Llave
<1>8. e \in Nat \ {0} /\ pos + 1 \in Nat \ {0}
  BY <1>1 DEF Entradas
<1> QED BY <1>1, <1>6, <1>7, <1>8

\* The next file is opened.
LEMMA PasoAbre == InvS /\ Abre => InvS'
<1> SUFFICES ASSUME InvS, Abre PROVE InvS'
  OBVIOUS
<1> USE DEF Abre, entrada, recorrido, mezclado
<1>0. TipoS /\ ArbolS /\ RecorreS /\ OrdenS /\ LlenaS
  BY DEF InvS
<1>1. /\ e \in Nat /\ e + 1 \in 0..Len(archivos) /\ e' \in 0..Len(archivos)
      /\ pos' \in Nat \ {0} /\ e' > 0 /\ e' = e + 1
  BY <1>0 DEF TipoS, Entradas
<1>2. TipoS'
  BY <1>0, <1>1 DEF TipoS, Fases
<1>3. ArbolS'
  <2>1. ASSUME NEW x \in 1..Len(arbol) PROVE Antes(arbol[x].lugar, <<e', pos'>>)
    <3>1. arbol[x] \in Nodos
      BY <1>0 DEF TipoS
    <3>2. arbol[x].lugar \in Nat \X Nat /\ arbol[x].lugar[1] <= e
      BY <3>1, <1>0 DEF Nodos, ArbolS
    <3> QED BY <3>2, <1>1 DEF Antes
  <2> QED BY <1>0, <2>1 DEF ArbolS
<1>4. RecorreS' /\ OrdenS' /\ LlenaS'
  BY <1>0 DEF RecorreS, OrdenS, LlenaS
<1> QED BY <1>2, <1>3, <1>4 DEF InvS

\* A record that does not count.
LEMMA PasoSalta == InvS /\ Salta => InvS'
<1> SUFFICES ASSUME InvS, Salta PROVE InvS'
  OBVIOUS
<1> USE DEF Salta, entrada, recorrido, mezclado
<1>0. TipoS /\ ArbolS /\ RecorreS /\ OrdenS /\ LlenaS
  BY DEF InvS
<1>1. /\ Columnas(Regs[pos], inbuf) \in Int /\ e \in Nat /\ pos \in Nat
      /\ pos' \in Nat \ {0} /\ pos' = pos + 1
  BY <1>0, LeeRegistro
<1>2. TipoS'
  BY <1>0, <1>1 DEF TipoS
<1>3. ArbolS'
  <2>1. ASSUME NEW x \in 1..Len(arbol) PROVE Antes(arbol[x].lugar, <<e, pos'>>)
    <3>1. arbol[x] \in Nodos
      BY <1>0 DEF TipoS
    <3>2. arbol[x].lugar \in Nat \X Nat /\ Antes(arbol[x].lugar, <<e, pos>>)
      BY <3>1, <1>0 DEF Nodos, ArbolS
    <3> QED BY <3>2, <1>1 DEF Antes
  <2> QED BY <1>0, <2>1 DEF ArbolS
<1>4. RecorreS' /\ OrdenS' /\ LlenaS'
  BY <1>0 DEF RecorreS, OrdenS, LlenaS
<1> QED BY <1>2, <1>3, <1>4 DEF InvS

\* The end of a file.
LEMMA PasoAcaba == InvS /\ Acaba => InvS'
<1> SUFFICES ASSUME InvS, Acaba PROVE InvS'
  OBVIOUS
<1> USE DEF Acaba, entrada, recorrido, mezclado
<1>0. TipoS /\ ArbolS /\ RecorreS /\ OrdenS /\ LlenaS
  BY DEF InvS
<1>1. TipoS'
  BY <1>0 DEF TipoS, Fases
<1>2. ArbolS'
  <2>1. ASSUME NEW x \in 1..Len(arbol) PROVE arbol[x].lugar[1] <= e
    <3>1. arbol[x] \in Nodos
      BY <1>0 DEF TipoS
    <3>2. arbol[x].lugar \in Nat \X Nat /\ Antes(arbol[x].lugar, <<e, pos>>)
      BY <3>1, <1>0 DEF Nodos, ArbolS
    <3>3. e \in Nat
      BY <1>0 DEF TipoS, Entradas
    <3> QED BY <3>2, <3>3 DEF Antes
  <2> QED BY <1>0, <2>1 DEF ArbolS
<1>3. RecorreS' /\ OrdenS' /\ LlenaS'
  BY <1>0 DEF RecorreS, OrdenS, LlenaS
<1> QED BY <1>1, <1>2, <1>3 DEF InvS

\* The next merge.
LEMMA PasoMezcla == InvS /\ Mezcla => InvS'
<1> SUFFICES ASSUME InvS, Mezcla PROVE InvS'
  OBVIOUS
<1> USE DEF Mezcla, entrada, recorrido
<1>0. TipoS /\ ArbolS /\ RecorreS /\ OrdenS /\ LlenaS
  BY DEF InvS
<1> DEFINE F == Fichas(op)
<1>1. PICK n \in Nat : n = Len(corridas) /\ pasada \in Nat /\ pasada + 1 < n
  BY <1>0 DEF TipoS
<1>2. /\ corridas \in Seq(Seq(F)) /\ pasada + 2 \in 1..n /\ pasada + 1 \in 1..n
      /\ pasada = 0 => 1 \in 1..n
  BY <1>0, <1>1 DEF TipoS
<1>3. PICK a : a = f1'
  OBVIOUS
<1>4. a \in Seq(F) /\ PorLlave(a) /\ a # <<>>
  <2>1. pasada = 0 => a = corridas[1] /\ corridas[1] \in Seq(F) /\ PorLlave(corridas[1])
                      /\ corridas[1] # <<>>
    BY <1>0, <1>1, <1>2, <1>3 DEF OrdenS, LlenaS
  <2>2. pasada # 0 => a = f1 /\ f1 \in Seq(F) /\ PorLlave(f1) /\ f1 # <<>>
    BY <1>0, <1>1, <1>3 DEF TipoS, OrdenS, LlenaS
  <2> QED BY <2>1, <2>2
<1>5. PICK b : b = f2'
  OBVIOUS
<1>6. b \in Seq(F) /\ PorLlave(b) /\ b # <<>>
  <2>1. b = corridas[pasada + 2] /\ pasada + 2 > pasada + 1
    BY <1>1, <1>5
  <2> QED BY <1>0, <1>1, <1>2, <2>1 DEF OrdenS, LlenaS
<1>7. PICK c : c = corridas'
  OBVIOUS
<1>8. /\ c \in Seq(Seq(F)) /\ Len(c) = n
      /\ \A t \in 1..n : c[t] = IF t \in {pasada + 1, pasada + 2} THEN <<>> ELSE corridas[t]
  <2>1. <<>> \in Seq(F)
    OBVIOUS
  <2>2. PICK G : G = Seq(F)
    OBVIOUS
  <2>3. c \in Seq(G) /\ Len(c) = n
        /\ \A t \in 1..n : c[t] = IF t \in {pasada + 1, pasada + 2} THEN <<>> ELSE corridas[t]
    <3> DEFINE d == [corridas EXCEPT ![pasada + 1] = <<>>]
    <3>1. c = [d EXCEPT ![pasada + 2] = <<>>] /\ corridas \in Seq(G) /\ <<>> \in G
      BY <1>2, <1>7, <2>1, <2>2
    <3>2. d \in Seq(G) /\ Len(d) = n
          /\ \A t \in 1..n : d[t] = IF t = pasada + 1 THEN <<>> ELSE corridas[t]
      BY <1>1, <1>2, <3>1
    <3> HIDE DEF d
    <3> QED BY <1>1, <1>2, <3>1, <3>2
  <2> QED BY <2>2, <2>3
<1>9. PorLlave(<<>>) /\ Antecede(<<>>, a) /\ Antecede(<<>>, b) /\ <<>> \in Seq(F)
  BY OrdenVacio
<1> HIDE DEF F
<1>10. TipoS'
  <2>1. pasada' \in Nat /\ fase' \in Fases /\ F = Fichas(op') /\ fase' = "compara"
    BY <1>1 DEF Fases, F
  <2> QED BY <1>0, <1>3, <1>4, <1>5, <1>6, <1>7, <1>8, <1>9, <2>1 DEF TipoS, F
<1>11. ArbolS' /\ RecorreS'
  BY DEF ArbolS, RecorreS
<1>12. OrdenS'
  <2>1. \A t \in 1..n : PorLlave(c[t])
    BY <1>0, <1>1, <1>8, <1>9 DEF OrdenS
  <2> QED BY <1>0, <1>3, <1>4, <1>5, <1>6, <1>7, <1>8, <1>9, <2>1 DEF OrdenS
<1>13. LlenaS'
  <2>1. c # <<>>
    BY <1>1, <1>8
  <2>2. \A t \in 1..n : t > (pasada + 1) + 1 => c[t] # <<>>
    <3>1. \A t \in 1..n : t > (pasada + 1) + 1 =>
              t > pasada + 1 /\ t # pasada + 1 /\ t # pasada + 2
      BY <1>1
    <3> QED BY <1>0, <1>1, <1>8, <3>1 DEF LlenaS
  <2>3. pasada' # 0
    BY <1>1
  <2> QED BY <1>3, <1>4, <1>5, <1>6, <1>7, <1>8, <2>1, <2>2, <2>3 DEF LlenaS
<1> QED BY <1>10, <1>11, <1>12, <1>13 DEF InvS

\* One more run, with nothing in it yet.
LEMMA CorridaNueva ==
    ASSUME NEW F, NEW c \in Seq(Seq(F)), \A t \in 1..Len(c) : PorLlave(c[t]),
           \A t \in 1..Len(c) : c[t] # <<>>
    PROVE  LET d == Append(c, <<>>)
           IN  /\ d \in Seq(Seq(F)) /\ d # <<>> /\ Len(d) \in Nat \ {0} /\ d[Len(d)] = <<>>
               /\ \A t \in 1..Len(d) : PorLlave(d[t])
               /\ \A t \in 1..Len(d)-1 : d[t] # <<>>
<1>1. PICK G : G = Seq(F)
  OBVIOUS
<1> DEFINE d == Append(c, <<>>)
           n == Len(c)
<1>2. c \in Seq(G) /\ <<>> \in G /\ n \in Nat
  BY <1>1
<1>3. /\ d \in Seq(G) /\ Len(d) = n + 1 /\ d[n + 1] = <<>>
      /\ \A t \in 1..n : d[t] = c[t]
  BY <1>2
<1> HIDE DEF d
<1>4. \A t \in 1..n+1 : PorLlave(d[t])
  <2>1. \A t \in 1..n+1 : t = n + 1 \/ t \in 1..n
    BY <1>2
  <2>2. PorLlave(<<>>)
    BY OrdenVacio
  <2> QED BY <1>3, <2>1, <2>2
<1>5. \A t \in 1..(n+1)-1 : d[t] # <<>>
  <2>1. \A t \in 1..(n+1)-1 : t \in 1..n
    BY <1>2
  <2> QED BY <1>3, <2>1
<1>6. d # <<>> /\ n + 1 \in Nat \ {0}
  BY <1>2, <1>3
<1> QED BY <1>1, <1>3, <1>4, <1>5, <1>6 DEF d

\* A walk that starts.
LEMMA Empezado ==
    ASSUME NEW a \in Seq(Nodos), a # <<>>, NEW o,
           \E q, r, desde, hasta : EsArbol(a, q, r, desde, hasta)
    PROVE  \E q, r, desde, hasta, j :
               /\ EsArbol(a, q, r, desde, hasta)
               /\ EnRecorrido(a, r, desde, hasta, 1, <<>>, TRUE, j)
               /\ Escrita(a, q, j, o, <<>>)
<1>1. PICK q, r, desde, hasta : EsArbol(a, q, r, desde, hasta)
  OBVIOUS
<1>2. EnRecorrido(a, r, desde, hasta, 1, <<>>, TRUE, 0)
  BY <1>1, RecorridoInicia
<1>3. Escrita(a, q, 0, o, <<>>)
  BY DEF Escrita
<1> QED BY <1>1, <1>2, <1>3

\* One more key in the tree.
LEMMA PasoFormKey == InvS /\ FormKey => InvS'
<1> SUFFICES ASSUME InvS, FormKey PROVE InvS'
  OBVIOUS
<1> USE DEF entrada, recorrido, mezclado
<1>0. TipoS /\ ArbolS /\ RecorreS /\ OrdenS /\ LlenaS /\ fase = "lee" /\ pos <= Len(Regs)
  BY DEF InvS, FormKey
<1> DEFINE b == Columnas(Regs[pos], inbuf)
           F == Fichas(op)
           n == Len(arbol)
<1>1. /\ b \in Int /\ Llave(b) \in Int /\ e \in Nat /\ pos \in Nat
      /\ pos' \in Nat \ {0} /\ pos' = pos + 1 /\ inbuf' = b
  BY <1>0, LeeRegistro DEF FormKey
<1>2. PICK nueva : nueva = [llave |-> Llave(b), lugar |-> <<e, pos>>, menor |-> 0, mayor |-> 0]
  OBVIOUS
<1>3. nueva \in Nodos /\ nueva.menor = 0 /\ nueva.mayor = 0 /\ nueva.lugar = <<e, pos>>
  BY <1>1, <1>2 DEF Nodos
<1>4. arbol \in Seq(Nodos) /\ n \in Nat /\ n < op.tokeys /\ op.tokeys \in Nat
  BY <1>0 DEF TipoS, ArbolS, Opciones
<1>5. PICK q, r, desde, hasta : EsArbol(arbol, q, r, desde, hasta)
  BY <1>0 DEF ArbolS
<1>6. \A x \in 1..n : Antes(arbol[x].lugar, nueva.lugar)
  BY <1>0, <1>3 DEF ArbolS
<1>7. PICK a : a = Cuelga(arbol, nueva)
  OBVIOUS
<1>8. /\ a \in Seq(Nodos) /\ Len(a) = n + 1 /\ a[n + 1] = nueva /\ a # <<>>
      /\ \A x \in 1..n : a[x].llave = arbol[x].llave /\ a[x].lugar = arbol[x].lugar
      /\ \E q2, r2, desde2, hasta2 : EsArbol(a, q2, r2, desde2, hasta2)
  <2>1. \A x \in 1..Len(arbol) : Antes(arbol[x].lugar, nueva.lugar)
    BY <1>6
  <2>2. /\ a \in Seq(Nodos) /\ Len(a) = Len(arbol) + 1 /\ a[Len(arbol) + 1] = nueva
        /\ \A x \in 1..Len(arbol) : a[x].llave = arbol[x].llave /\ a[x].lugar = arbol[x].lugar
        /\ \E q2, r2, desde2, hasta2 : EsArbol(a, q2, r2, desde2, hasta2)
    BY <1>3, <1>4, <1>5, <1>7, <2>1, ArbolMas
  <2>3. a # <<>>
    BY <2>2, <1>4
  <2> QED BY <2>2, <2>3
<1>9. /\ arbol' = a /\ op' = op /\ archivos' = archivos /\ e' = e /\ pasada' = pasada
      /\ f1' = f1 /\ f2' = f2 /\ ff' = ff /\ indice' = indice
      /\ IF Lleno(a) THEN corridas' = Append(corridas, <<>>) /\ Recorrera("lee")
                     ELSE corridas' = corridas /\ sigue' = sigue /\ bajando' = bajando
                          /\ fase' = fase
  BY <1>2, <1>7, Zenon DEF FormKey
<1>10. LlenaS /\ \A t \in 1..Len(corridas) : corridas[t] # <<>> /\ PorLlave(corridas[t])
  BY <1>0 DEF LlenaS, OrdenS
<1> HIDE DEF b, F
<1>11. CASE ~Lleno(a)
  <2>1. TipoS'
    BY <1>0, <1>1, <1>8, <1>9, <1>11 DEF TipoS
  <2>2. ArbolS'
    <3>1. Len(a) < op.tokeys
      BY <1>4, <1>8, <1>11 DEF Lleno
    <3>2. ASSUME NEW x \in 1..Len(a) PROVE Antes(a[x].lugar, <<e, pos'>>)
      <4>1. CASE x = n + 1
        BY <4>1, <1>1, <1>3, <1>8 DEF Antes
      <4>2. CASE x # n + 1
        <5>1. x \in 1..n
          BY <4>2, <1>4, <1>8
        <5>2. a[x].lugar = arbol[x].lugar /\ Antes(arbol[x].lugar, <<e, pos>>)
          BY <5>1, <1>3, <1>6, <1>8
        <5>3. arbol[x] \in Nodos
          BY <5>1, <1>4
        <5>4. arbol[x].lugar \in Nat \X Nat
          BY <5>3 DEF Nodos
        <5> QED BY <5>2, <5>4, <1>1 DEF Antes
      <4> QED BY <4>1, <4>2
    <3> QED BY <1>0, <1>8, <1>9, <1>11, <3>1, <3>2 DEF ArbolS
  <2>3. RecorreS' /\ OrdenS' /\ LlenaS'
    BY <1>0, <1>9, <1>11 DEF RecorreS, OrdenS, LlenaS
  <2> QED BY <2>1, <2>2, <2>3 DEF InvS
<1>12. CASE Lleno(a)
  <2>1. PICK c : c = Append(corridas, <<>>)
    OBVIOUS
  <2>2. /\ corridas' = c /\ nodo' = 1 /\ pila' = <<>> /\ bajando' = TRUE
        /\ fase' = "recorre" /\ sigue' = "lee"
    BY <1>9, <1>12, <2>1 DEF Recorrera
  <2>3. /\ c \in Seq(Seq(F)) /\ c # <<>> /\ Len(c) \in Nat \ {0} /\ c[Len(c)] = <<>>
        /\ \A t \in 1..Len(c) : PorLlave(c[t])
        /\ \A t \in 1..Len(c)-1 : c[t] # <<>>
    <3>1. corridas \in Seq(Seq(F))
      BY <1>0 DEF TipoS, F
    <3> QED BY <1>10, <2>1, <3>1, CorridaNueva
  <2>4. TipoS'
    BY <1>0, <1>1, <1>8, <1>9, <2>2, <2>3 DEF TipoS, Fases, F
  <2>5. ArbolS'
    BY <2>2 DEF ArbolS
  <2>6. RecorreS'
    <3>1. Len(a) <= op.tokeys
      BY <1>4, <1>8, <1>12 DEF Lleno
    <3>2. \E q3, r3, desde3, hasta3, j :
              /\ EsArbol(a, q3, r3, desde3, hasta3)
              /\ EnRecorrido(a, r3, desde3, hasta3, 1, <<>>, TRUE, j)
              /\ Escrita(a, q3, j, op, <<>>)
      BY <1>8, Empezado
    <3> QED BY <1>9, <2>2, <2>3, <3>1, <3>2 DEF RecorreS
  <2>7. OrdenS'
    BY <1>0, <1>9, <2>2, <2>3 DEF OrdenS
  <2>8. LlenaS'
    BY <1>0, <1>9, <2>2, <2>3 DEF LlenaS
  <2> QED BY <2>4, <2>5, <2>6, <2>7, <2>8 DEF InvS
<1> QED BY <1>11, <1>12

\* Down the tree.
LEMMA PasoBaja == InvS /\ Baja => InvS'
<1> SUFFICES ASSUME InvS, Baja PROVE InvS'
  OBVIOUS
<1> USE DEF Baja, entrada, recorrido, mezclado
<1>0. TipoS /\ ArbolS /\ RecorreS /\ OrdenS /\ LlenaS
  BY DEF InvS
<1>1. TipoS'
  BY <1>0 DEF TipoS
<1>2. ArbolS' /\ OrdenS' /\ LlenaS'
  BY <1>0 DEF ArbolS, OrdenS, LlenaS
<1>3. RecorreS'
  <2>1. Len(arbol) <= op.tokeys /\ arbol \in Seq(Nodos)
    BY <1>0 DEF RecorreS, TipoS
  <2>2. PICK q, r, desde, hasta, j :
            /\ EsArbol(arbol, q, r, desde, hasta)
            /\ EnRecorrido(arbol, r, desde, hasta, nodo, pila, bajando, j)
            /\ sigue # "cierra" => /\ corridas # <<>>
                                   /\ Escrita(arbol, q, j, op, corridas[Len(corridas)])
    BY <1>0 DEF RecorreS
  <2>3. PICK x, p : x = nodo /\ p = pila
    OBVIOUS
  <2>4. EnRecorrido(arbol, r, desde, hasta, x, p, TRUE, j) /\ arbol[x].menor # 0
    <3>1. bajando = TRUE
      BY <1>0 DEF TipoS
    <3> QED BY <2>2, <2>3, <3>1
  <2>5. EnRecorrido(arbol, r, desde, hasta, arbol[x].menor, Append(p, x), TRUE, j)
    BY <2>1, <2>2, <2>4, RecorridoBaja
  <2>6. nodo' = arbol[x].menor /\ pila' = Append(p, x) /\ bajando' = TRUE
    BY <1>0, <2>3 DEF TipoS
  <2>7. EnRecorrido(arbol, r, desde, hasta, nodo', pila', bajando', j)
    BY <2>5, <2>6
  <2> QED BY <2>1, <2>2, <2>7 DEF RecorreS
<1> QED BY <1>1, <1>2, <1>3 DEF InvS

\* The end of the input.
LEMMA PasoAlFinal == InvS /\ AlFinal => InvS'
<1> SUFFICES ASSUME InvS, AlFinal PROVE InvS'
  OBVIOUS
<1> USE DEF entrada, recorrido, mezclado
<1>0. TipoS /\ ArbolS /\ RecorreS /\ OrdenS /\ LlenaS /\ fase = "abre"
  BY DEF InvS, AlFinal
<1>1. /\ op' = op /\ archivos' = archivos /\ e' = e /\ pos' = pos /\ inbuf' = inbuf
      /\ arbol' = arbol /\ f1' = f1 /\ f2' = f2 /\ ff' = ff /\ pasada' = pasada
      /\ indice' = indice
  BY DEF AlFinal
<1> DEFINE F == Fichas(op)
<1>2. arbol \in Seq(Nodos) /\ Len(arbol) <= op.tokeys /\ op.indice \in {"no", "si", "solo"}
  BY <1>0 DEF TipoS, ArbolS, Opciones
<1>3. \E q, r, desde, hasta : EsArbol(arbol, q, r, desde, hasta)
  BY <1>0 DEF ArbolS
<1>4. \A t \in 1..Len(corridas) : corridas[t] # <<>> /\ PorLlave(corridas[t])
  BY <1>0 DEF LlenaS, OrdenS
<1>5. corridas \in Seq(Seq(F))
  BY <1>0 DEF TipoS
<1>6. PICK c : c = Append(corridas, <<>>)
  OBVIOUS
<1>7. /\ c \in Seq(Seq(F)) /\ c # <<>> /\ Len(c) \in Nat \ {0} /\ c[Len(c)] = <<>>
      /\ \A t \in 1..Len(c) : PorLlave(c[t])
      /\ \A t \in 1..Len(c)-1 : c[t] # <<>>
  <2> HIDE DEF F
  <2> QED BY <1>4, <1>5, <1>6, CorridaNueva
<1>8. arbol # <<>> => \E q, r, desde, hasta, j :
          /\ EsArbol(arbol, q, r, desde, hasta)
          /\ EnRecorrido(arbol, r, desde, hasta, 1, <<>>, TRUE, j)
          /\ Escrita(arbol, q, j, op, <<>>)
  BY <1>2, <1>3, Empezado
<1>9. CASE corridas # <<>> \/ op.indice # "no"
  <2>1. corridas' = c
    BY <1>6, <1>9 DEF AlFinal
  <2>2. CASE arbol = <<>>
    <3>1. fase' = "sin_llave" /\ sigue' = sigue /\ bajando' = bajando
      BY <1>9, <2>2 DEF AlFinal
    <3>2. TipoS'
      BY <1>0, <1>1, <1>7, <2>1, <3>1 DEF TipoS, Fases, Fallas
    <3>3. ArbolS' /\ RecorreS' /\ OrdenS' /\ LlenaS'
      BY <1>0, <1>1, <1>7, <2>1, <3>1 DEF ArbolS, RecorreS, OrdenS, LlenaS
    <3> QED BY <3>2, <3>3 DEF InvS
  <2>3. CASE arbol # <<>>
    <3>1. /\ nodo' = 1 /\ pila' = <<>> /\ bajando' = TRUE
          /\ fase' = "recorre" /\ sigue' = "mezcla"
      BY <1>9, <2>3 DEF AlFinal, Recorrera
    <3>2. TipoS'
      BY <1>0, <1>1, <1>7, <2>1, <3>1 DEF TipoS, Fases
    <3>3. RecorreS'
      BY <1>1, <1>2, <1>7, <1>8, <2>1, <2>3, <3>1 DEF RecorreS
    <3>4. ArbolS' /\ OrdenS' /\ LlenaS'
      BY <1>0, <1>1, <1>7, <2>1, <3>1 DEF ArbolS, OrdenS, LlenaS
    <3> QED BY <3>2, <3>3, <3>4 DEF InvS
  <2> QED BY <2>2, <2>3
<1>10. CASE ~(corridas # <<>> \/ op.indice # "no")
  <2>1. corridas' = corridas /\ corridas = <<>> /\ op.indice = "no"
    BY <1>10 DEF AlFinal
  <2>2. CASE arbol = <<>>
    <3>1. fase' = "basura" /\ sigue' = sigue /\ bajando' = bajando
      BY <1>10, <2>2 DEF AlFinal
    <3>2. TipoS'
      BY <1>0, <1>1, <2>1, <3>1 DEF TipoS, Fases, Fallas
    <3>3. ArbolS' /\ RecorreS' /\ OrdenS' /\ LlenaS'
      BY <1>0, <1>1, <2>1, <3>1 DEF ArbolS, RecorreS, OrdenS, LlenaS
    <3> QED BY <3>2, <3>3 DEF InvS
  <2>3. CASE arbol # <<>>
    <3>1. /\ nodo' = 1 /\ pila' = <<>> /\ bajando' = TRUE
          /\ fase' = "recorre" /\ sigue' = "cierra"
      BY <1>10, <2>3 DEF AlFinal, Recorrera
    <3>2. TipoS'
      BY <1>0, <1>1, <2>1, <3>1 DEF TipoS, Fases
    <3>3. RecorreS'
      BY <1>1, <1>2, <1>8, <2>1, <2>3, <3>1 DEF RecorreS
    <3>4. ArbolS' /\ OrdenS' /\ LlenaS'
      BY <1>0, <1>1, <2>1, <3>1 DEF ArbolS, OrdenS, LlenaS
    <3> QED BY <3>2, <3>3, <3>4 DEF InvS
  <2> QED BY <2>2, <2>3
<1> QED BY <1>9, <1>10

\* One more key at the end of a file.
LEMMA PorLlaveMas ==
    ASSUME NEW F, \A x \in F : x.llave \in Int, NEW s \in Seq(F), PorLlave(s), NEW y \in F,
           \A m \in 1..Len(s) : s[m].llave <= y.llave, NEW u, u = Append(s, y)
    PROVE  u \in Seq(F) /\ u # <<>> /\ PorLlave(u)
<1>1. /\ u \in Seq(F) /\ Len(u) = Len(s) + 1 /\ u[Len(s) + 1] = y /\ Len(s) \in Nat
      /\ \A m \in 1..Len(s) : u[m] = s[m]
  OBVIOUS
<1>2. DOMAIN u = 1..Len(u) /\ DOMAIN s = 1..Len(s) /\ u # <<>>
  BY <1>1
<1>3. ASSUME NEW i \in 1..Len(u), NEW j \in 1..Len(u), i < j
      PROVE  u[i].llave <= u[j].llave
  <2>1. i \in 1..Len(s) /\ u[i] = s[i]
    BY <1>1, <1>3
  <2>2. CASE j = Len(s) + 1
    BY <1>1, <2>1, <2>2
  <2>3. CASE j # Len(s) + 1
    <3>1. j \in 1..Len(s) /\ u[j] = s[j]
      BY <1>1, <2>3
    <3> QED BY <1>2, <1>3, <2>1, <3>1 DEF PorLlave
  <2> QED BY <2>2, <2>3
<1> QED BY <1>1, <1>2, <1>3 DEF PorLlave

\* One file of several changes.
LEMMA CambiaUna ==
    ASSUME NEW G, NEW c \in Seq(G), NEW n \in 1..Len(c), NEW u \in G,
           NEW d, d = [c EXCEPT ![n] = u]
    PROVE  /\ d \in Seq(G) /\ Len(d) = Len(c) /\ d[n] = u
           /\ \A t \in 1..Len(c) : t # n => d[t] = c[t]
<1>1. d \in Seq(G) /\ DOMAIN d = DOMAIN c
  OBVIOUS
<1>2. Len(d) = Len(c)
  BY <1>1
<1> QED BY <1>1, <1>2

\* The next key of a walk in the last run.
LEMMA EscritaMas ==
    ASSUME NEW a \in Seq(Nodos), NEW q, NEW r, NEW desde, NEW hasta,
           EsArbol(a, q, r, desde, hasta), NEW o, NEW j \in Nat, j + 1 \in 1..Len(a),
           NEW s \in Seq(Fichas(o)), Escrita(a, q, j, o, s)
    PROVE  LET y == FichaDe(o, a[q[j + 1]])
           IN  /\ y \in Fichas(o) /\ Escrita(a, q, j + 1, o, Append(s, y))
               /\ \A m \in 1..Len(s) : s[m].llave <= y.llave
<1> DEFINE y == FichaDe(o, a[q[j + 1]])
           u == Append(s, y)
<1>1. /\ Len(a) \in Nat /\ \A i \in 1..Len(a) : q[i] \in 1..Len(a) /\ a[q[i]] \in Nodos
      /\ \A i \in 1..j : i \in 1..Len(a) /\ i < j + 1
  BY DelArbol
<1>2. a[q[j + 1]] \in Nodos
  BY <1>1
<1>3. y \in Fichas(o) /\ y.llave = a[q[j + 1]].llave
  BY <1>2 DEF Nodos, Fichas, FichaDe
<1>4. Len(s) = j /\ \A i \in 1..j : s[i] = FichaDe(o, a[q[i]])
  BY DEF Escrita
<1>5. \A i \in 1..j : s[i].llave = a[q[i]].llave
  BY <1>4 DEF FichaDe
<1>6. ASSUME NEW i \in 1..j PROVE a[q[i]].llave <= a[q[j + 1]].llave
  <2>1. EnOrden(a[q[i]], a[q[j + 1]])
    BY <1>1 DEF EsArbol, PorRango
  <2>2. a[q[i]].llave \in Int /\ a[q[j + 1]].llave \in Int
    BY <1>1 DEF Nodos
  <2> QED BY <2>1, <2>2 DEF EnOrden
<1>7. Escrita(a, q, j + 1, o, u)
  <2> HIDE DEF y
  <2>1. Len(u) = j + 1 /\ u[j + 1] = y /\ \A i \in 1..j : u[i] = s[i]
    BY <1>3, <1>4
  <2>2. \A i \in 1..j+1 : i = j + 1 \/ i \in 1..j
    OBVIOUS
  <2>3. \A i \in 1..j+1 : u[i] = FichaDe(o, a[q[i]])
    <3> HIDE DEF u
    <3> QED BY <1>4, <2>1, <2>2 DEF y
  <2> QED BY <2>1, <2>3 DEF Escrita
<1> QED BY <1>3, <1>4, <1>5, <1>6, <1>7

\* One more key of the tree goes out: the walk goes on, or that was the last one.
LEMMA PoneUna ==
    ASSUME InvS, Pone, NEW q, NEW r, NEW desde, NEW hasta, NEW j,
           EsArbol(arbol, q, r, desde, hasta),
           EnRecorrido(arbol, r, desde, hasta, nodo, pila, bajando, j)
    PROVE  /\ j \in Nat /\ j + 1 \in 1..Len(arbol) /\ nodo = q[j + 1]
           /\ nodo = Ultimo => /\ j + 1 = Len(arbol)
                               /\ arbol' = <<>> /\ bajando' = FALSE /\ fase' = sigue
           /\ nodo # Ultimo => /\ arbol' = arbol /\ fase' = fase /\ bajando' \in BOOLEAN
                               /\ EnRecorrido(arbol, r, desde, hasta, nodo', pila', bajando',
                                              j + 1)
<1>1. PICK a, x, p, b : a = arbol /\ x = nodo /\ p = pila /\ b = bajando
  OBVIOUS
<1>2. EsArbol(a, q, r, desde, hasta) /\ EnRecorrido(a, r, desde, hasta, x, p, b, j)
  BY <1>1
<1>3. a \in Seq(Nodos) /\ b \in BOOLEAN /\ x \in 1..Len(a) /\ j \in 0..Len(a)-1
  BY <1>1, <1>2 DEF InvS, TipoS, EnRecorrido
<1>4. a # <<>> /\ Len(a) \in Nat /\ j \in Nat /\ j + 1 \in 1..Len(a)
  BY <1>3
<1>5. /\ x = q[j + 1] /\ r[x] = j + 1
      /\ a[x].mayor # 0 => EnRecorrido(a, r, desde, hasta, a[x].mayor, p, TRUE, j + 1)
      /\ a[x].mayor = 0 /\ r[x] # Len(a) =>
             EnRecorrido(a, r, desde, hasta, Last(p), Front(p), FALSE, j + 1)
  <2>1. b = FALSE \/ a[x].menor = 0
    BY <1>1, <1>3 DEF Pone
  <2>2. a \in Seq(Nodos) /\ b \in BOOLEAN
    BY <1>3
  <2>3. /\ Toca(q, r, x, j)
        /\ a[x].mayor # 0 => EnRecorrido(a, r, desde, hasta, a[x].mayor, p, TRUE, j + 1)
        /\ Queda(a, r, x) => Vuelve(a, r, desde, hasta, p, j + 1)
    BY <1>2, <2>1, <2>2, RecorridoSube
  <2> QED BY <2>3 DEF Toca, Queda, Vuelve
<1>6. x = UltimoDe(a) <=> r[x] = Len(a)
  <2>1. UltimoDe(a) \in 1..Len(a) /\ r[UltimoDe(a)] = Len(a)
    BY <1>2, <1>3, <1>4, UltimoEs
  <2>2. \A z \in 1..Len(a) : q[r[z]] = z
    BY <1>2 DEF EsArbol, Biyeccion
  <2> QED BY <1>3, <2>1, <2>2
<1>7. Ultimo = UltimoDe(a)
  BY <1>1, Zenon DEF Ultimo, UltimoDe
<1>8. CASE x = UltimoDe(a)
  <2>1. arbol' = <<>> /\ bajando' = FALSE /\ fase' = sigue
    BY <1>1, <1>7, <1>8 DEF Pone
  <2>2. j + 1 = Len(a)
    BY <1>5, <1>6, <1>8
  <2> QED BY <1>1, <1>4, <1>5, <1>7, <1>8, <2>1, <2>2
<1>9. CASE x # UltimoDe(a)
  <2>1. arbol' = arbol /\ fase' = fase /\ bajando' \in BOOLEAN
    BY <1>1, <1>7, <1>9 DEF Pone
  <2>2. EnRecorrido(a, r, desde, hasta, nodo', pila', bajando', j + 1)
    <3>1. CASE a[x].mayor # 0
      <4>1. nodo' = a[x].mayor /\ pila' = p /\ bajando' = TRUE
        BY <1>1, <1>7, <1>9, <3>1 DEF Pone
      <4> QED BY <1>5, <3>1, <4>1
    <3>2. CASE a[x].mayor = 0
      <4>1. nodo' = Last(p) /\ pila' = Front(p) /\ bajando' = FALSE
        BY <1>1, <1>7, <1>9, <3>2 DEF Pone
      <4> QED BY <1>5, <1>6, <1>9, <3>2, <4>1
    <3> QED BY <3>1, <3>2
  <2> QED BY <1>1, <1>4, <1>5, <1>7, <1>9, <2>1, <2>2
<1> QED BY <1>8, <1>9

\* The key goes to the end of the last run.
LEMMA PoneEnCorrida ==
    ASSUME InvS, Pone, sigue # "cierra", NEW q, NEW r, NEW desde, NEW hasta, NEW j \in Nat,
           EsArbol(arbol, q, r, desde, hasta), j + 1 \in 1..Len(arbol), nodo = q[j + 1],
           corridas # <<>>, Escrita(arbol, q, j, op, corridas[Len(corridas)]),
           NEW d, d = corridas'
    PROVE  /\ d \in Seq(Seq(Fichas(op))) /\ Len(d) = Len(corridas) /\ d # <<>>
           /\ \A t \in 1..Len(d) : PorLlave(d[t])
           /\ \A t \in 1..Len(d)-1 : d[t] = corridas[t]
           /\ d[Len(d)] # <<>> /\ Escrita(arbol, q, j + 1, op, d[Len(d)])
<1> DEFINE F == Fichas(op)
<1>1. PICK a, c : a = arbol /\ c = corridas
  OBVIOUS
<1>2. /\ a \in Seq(Nodos) /\ c \in Seq(Seq(F)) /\ c # <<>>
      /\ \A t \in 1..Len(c) : PorLlave(c[t])
  BY <1>1 DEF InvS, TipoS, OrdenS
<1>3. PICK y : y = FichaDe(op, a[q[j + 1]])
  OBVIOUS
<1>4. PICK n, s, u : n = Len(c) /\ s = c[n] /\ u = Append(s, y)
  OBVIOUS
<1>5. s \in Seq(F) /\ Escrita(a, q, j, op, s)
  <2>1. PICK G : G = Seq(F)
    OBVIOUS
  <2>2. c \in Seq(G)
    BY <1>2, <2>1
  <2>3. c[Len(c)] \in G
    BY <1>2, <2>2
  <2> QED BY <1>1, <1>4, <2>1, <2>3
<1>6. /\ y \in F /\ Escrita(a, q, j + 1, op, u)
      /\ \A m \in 1..Len(s) : s[m].llave <= y.llave
  BY <1>1, <1>2, <1>3, <1>4, <1>5, EscritaMas
<1>7. d = [c EXCEPT ![n] = u]
  <2>1. Ficha(a[nodo]) = y
    BY <1>3 DEF Ficha, FichaDe
  <2> QED BY <2>1, <1>1, <1>4 DEF Pone
<1>8. \A z \in F : z.llave \in Int
  BY DEF Fichas
<1>9. \A t \in 1..Len(c) : PorLlave(c[t])
  BY <1>2
<1> HIDE DEF F
<1>10. u \in Seq(F) /\ u # <<>> /\ PorLlave(u)
  <2>1. PorLlave(s)
    BY <1>2, <1>4
  <2> QED BY <1>4, <1>5, <1>6, <1>8, <2>1, PorLlaveMas
<1>11. /\ d \in Seq(Seq(F)) /\ Len(d) = n /\ d[n] = u /\ n \in 1..n
       /\ \A t \in 1..n : t # n => d[t] = c[t]
  <2>1. PICK G : G = Seq(F)
    OBVIOUS
  <2>2. c \in Seq(G) /\ u \in G /\ n \in 1..Len(c)
    BY <1>2, <1>4, <1>10, <2>1
  <2>3. /\ d \in Seq(G) /\ Len(d) = Len(c) /\ d[n] = u
        /\ \A t \in 1..Len(c) : t # n => d[t] = c[t]
    BY <1>7, <2>2, CambiaUna
  <2> QED BY <1>4, <2>1, <2>2, <2>3
<1>12. \A t \in 1..n : PorLlave(d[t])
  BY <1>4, <1>9, <1>10, <1>11
<1>13. d # <<>> /\ \A t \in 1..n-1 : d[t] = c[t]
  <2>1. \A t \in 1..n-1 : t \in 1..n /\ t # n
    BY <1>11
  <2>2. 1 \in 1..Len(d)
    BY <1>11
  <2> QED BY <1>11, <2>1, <2>2
<1> QED BY <1>1, <1>4, <1>6, <1>10, <1>11, <1>12, <1>13 DEF F

\* One more key of the tree goes out.
LEMMA PasoPone == InvS /\ Pone => InvS'
<1> SUFFICES ASSUME InvS, Pone PROVE InvS'
  OBVIOUS
<1> USE DEF entrada, mezclado
<1>0. TipoS /\ ArbolS /\ RecorreS /\ OrdenS /\ LlenaS /\ fase = "recorre"
  BY DEF InvS, Pone
<1> DEFINE F == Fichas(op)
<1>1. PICK a, c : a = arbol /\ c = corridas
  OBVIOUS
<1>2. PICK q, r, desde, hasta, j :
          /\ EsArbol(arbol, q, r, desde, hasta)
          /\ EnRecorrido(arbol, r, desde, hasta, nodo, pila, bajando, j)
          /\ sigue # "cierra" => /\ corridas # <<>>
                                 /\ Escrita(arbol, q, j, op, corridas[Len(corridas)])
  BY <1>0 DEF RecorreS
<1>3. Len(a) <= op.tokeys /\ c \in Seq(Seq(F)) /\ op.tokeys \in Nat \ {0}
  BY <1>0, <1>1 DEF TipoS, RecorreS, Opciones
<1>4. /\ j \in Nat /\ j + 1 \in 1..Len(arbol) /\ nodo = q[j + 1]
      /\ nodo = Ultimo => /\ j + 1 = Len(arbol)
                          /\ arbol' = <<>> /\ bajando' = FALSE /\ fase' = sigue
      /\ nodo # Ultimo => /\ arbol' = arbol /\ fase' = fase /\ bajando' \in BOOLEAN
                          /\ EnRecorrido(arbol, r, desde, hasta, nodo', pila', bajando',
                                         j + 1)
  BY <1>2, PoneUna
\* The runs.
<1>8. PICK d : d = corridas'
  OBVIOUS
<1>9. /\ d \in Seq(Seq(F)) /\ Len(d) = Len(c) /\ (c # <<>> => d # <<>>)
      /\ \A t \in 1..Len(d) : PorLlave(d[t])
      /\ \A t \in 1..Len(d)-1 : d[t] = c[t]
      /\ sigue # "cierra" => /\ d # <<>> /\ d[Len(d)] # <<>>
                             /\ Escrita(arbol, q, j + 1, op, d[Len(d)])
  <2>1. CASE sigue = "cierra"
    <3>1. d = c
      BY <2>1, <1>1, <1>8 DEF Pone
    <3>2. \A t \in 1..Len(c) : PorLlave(c[t])
      BY <1>0, <1>1 DEF OrdenS
    <3>3. \A t \in 1..Len(c)-1 : t \in 1..Len(c)
      BY <1>3
    <3> QED BY <2>1, <3>1, <3>2, <3>3, <1>3
  <2>2. CASE sigue # "cierra"
    BY <1>1, <1>2, <1>4, <1>8, <2>2, PoneEnCorrida
  <2> QED BY <2>1, <2>2
<1>10. /\ op' = op /\ archivos' = archivos /\ e' = e /\ pos' = pos /\ inbuf' = inbuf
       /\ f1' = f1 /\ f2' = f2 /\ ff' = ff /\ pasada' = pasada /\ indice' = indice
       /\ sigue' = sigue
  BY DEF Pone
<1>11. OrdenS'
  BY <1>0, <1>8, <1>9, <1>10 DEF OrdenS
<1>12. /\ pasada = 0
       /\ sigue # "cierra" => \A t \in 1..Len(d)-1 : d[t] # <<>>
  BY <1>0, <1>1, <1>9 DEF LlenaS
<1>13. CASE nodo = Ultimo
  <2>1. arbol' = <<>> /\ bajando' = FALSE /\ fase' = sigue
    BY <1>4, <1>13
  <2>2. TipoS'
    <3>0. <<>> \in Seq(Nodos)
      OBVIOUS
    <3>1. arbol' \in Seq(Nodos) /\ bajando' \in BOOLEAN
      BY <2>1, <3>0
    <3>2. fase' \in Fases /\ (fase' = "lee" => e > 0) /\ fase' # "recorre"
      BY <1>0, <2>1 DEF TipoS, Fases
    <3> QED BY <1>0, <1>8, <1>9, <1>10, <3>1, <3>2 DEF TipoS
  <2>3. EsArbol(<<>>, <<>>, <<>>, <<>>, <<>>)
    BY DEF EsArbol, Biyeccion, PorRango, Tramos, Ramas, Seguidos
  <2>4. ArbolS'
    <3>1. Len(<<>>) < op.tokeys /\ \A z \in 1..Len(<<>>) : FALSE
      BY <1>3
    <3> QED BY <1>10, <2>1, <2>3, <3>1 DEF ArbolS
  <2>5. RecorreS'
    BY <1>0, <2>1 DEF RecorreS, TipoS
  <2>6. sigue # "cierra" => \A t \in 1..Len(d) : d[t] # <<>>
    <3>1. \A t \in 1..Len(d) : t = Len(d) \/ t \in 1..Len(d)-1
      BY <1>9
    <3> QED BY <1>9, <1>12, <3>1
  <2>7. LlenaS'
    BY <1>0, <1>8, <1>9, <1>10, <1>12, <2>1, <2>6 DEF LlenaS, TipoS
  <2> QED BY <1>11, <2>2, <2>4, <2>5, <2>7 DEF InvS
<1>14. CASE nodo # Ultimo
  <2>1. arbol' = arbol /\ fase' = fase /\ bajando' \in BOOLEAN
    BY <1>4, <1>14
  <2>2. TipoS'
    BY <1>0, <1>8, <1>9, <1>10, <2>1 DEF TipoS
  <2>3. ArbolS' /\ LlenaS'
    BY <1>0, <1>1, <1>8, <1>9, <1>10, <1>12, <2>1 DEF ArbolS, LlenaS
  <2>4. EnRecorrido(arbol, r, desde, hasta, nodo', pila', bajando', j + 1)
    BY <1>4, <1>14
  <2>5. RecorreS'
    BY <1>1, <1>2, <1>3, <1>8, <1>9, <1>10, <2>1, <2>4 DEF RecorreS
  <2> QED BY <1>11, <2>2, <2>3, <2>5 DEF InvS
<1> QED BY <1>13, <1>14

\* One more key of a merge: the file it comes from has the smaller first key.
LEMMA Mezclada ==
    ASSUME NEW F, \A x \in F : x.llave \in Int, NEW h \in Seq(F), NEW g \in Seq(F),
           NEW o \in Seq(F), g # <<>>, o # <<>>, PorLlave(h), PorLlave(g), PorLlave(o),
           Antecede(h, g), Antecede(h, o), g[1].llave <= o[1].llave
    PROVE  LET c == Append(h, Head(g))
           IN  /\ c \in Seq(F) /\ Tail(g) \in Seq(F) /\ PorLlave(c) /\ PorLlave(Tail(g))
               /\ Antecede(c, Tail(g)) /\ Antecede(c, o)
               /\ c \o o \in Seq(F) /\ c \o o # <<>> /\ PorLlave(c \o o)
<1>1. \A n \in 1..Len(o) : g[1].llave <= o[n].llave
  <2>1. 1 \in 1..Len(o) /\ DOMAIN o = 1..Len(o) /\ 1 \in 1..Len(g)
    OBVIOUS
  <2>2. \A n \in 1..Len(o) : o[n].llave \in Int
    <3>1. \A n \in 1..Len(o) : o[n] \in F
      OBVIOUS
    <3> QED BY <3>1
  <2>3. g[1].llave \in Int
    <3>1. g[1] \in F
      BY <2>1
    <3> QED BY <3>1
  <2>4. \A n \in 1..Len(o) : o[1].llave <= o[n].llave
    <3>1. ASSUME NEW n \in 1..Len(o), 1 < n PROVE o[1].llave <= o[n].llave
      BY <2>1, <3>1 DEF PorLlave
    <3>2. \A n \in 1..Len(o) : n = 1 \/ 1 < n
      OBVIOUS
    <3>3. o[1].llave <= o[1].llave
      BY <2>1, <2>2
    <3> QED BY <3>1, <3>2, <3>3
  <2> QED BY <2>1, <2>2, <2>3, <2>4
<1>2. PICK c : c = Append(h, Head(g))
  OBVIOUS
<1>3. /\ c \in Seq(F) /\ Tail(g) \in Seq(F) /\ PorLlave(c) /\ PorLlave(Tail(g))
      /\ Antecede(c, Tail(g)) /\ Antecede(c, o)
  BY <1>1, <1>2, OrdenPasa
<1>4. PorLlave(c \o o)
  BY <1>3, OrdenUne
<1>5. c \o o \in Seq(F) /\ c \o o # <<>>
  <2>1. /\ c \o o \in Seq(F) /\ Len(c \o o) = Len(c) + Len(o)
        /\ Len(c) \in Nat /\ Len(o) \in Nat \ {0}
    BY <1>3, ConcatProperties
  <2>2. c \o o = <<>> => Len(c \o o) = 0
    OBVIOUS
  <2> QED BY <2>1, <2>2
<1> QED BY <1>2, <1>3, <1>4, <1>5

\* A step of a merge.
LEMMA PasoCompara == InvS /\ Compara => InvS'
<1> SUFFICES ASSUME InvS, Compara PROVE InvS'
  OBVIOUS
<1> USE DEF entrada, recorrido
<1>0. TipoS /\ ArbolS /\ RecorreS /\ OrdenS /\ LlenaS /\ fase = "compara"
  BY DEF InvS, Compara
<1> DEFINE F == Fichas(op)
<1>1. PICK a, b, h : a = f1 /\ b = f2 /\ h = ff
  OBVIOUS
<1>2. /\ a \in Seq(F) /\ b \in Seq(F) /\ h \in Seq(F) /\ a # <<>> /\ b # <<>>
      /\ PorLlave(a) /\ PorLlave(b) /\ PorLlave(h) /\ Antecede(h, a) /\ Antecede(h, b)
  BY <1>0, <1>1 DEF TipoS, OrdenS, LlenaS
<1>3. \A x \in F : x.llave \in Int
  BY DEF Fichas
<1> DEFINE s == Gana(Head(a), Head(b))
<1>5. PICK g, o : g = (IF s THEN b ELSE a) /\ o = (IF s THEN a ELSE b)
  OBVIOUS
<1> HIDE DEF F
<1>6. /\ g \in Seq(F) /\ o \in Seq(F) /\ g # <<>> /\ o # <<>>
      /\ PorLlave(g) /\ PorLlave(o) /\ Antecede(h, g) /\ Antecede(h, o)
  BY <1>2, <1>5
<1>7. g[1].llave <= o[1].llave
  <2>1. Head(a) = a[1] /\ Head(b) = b[1] /\ a[1] \in F /\ b[1] \in F
    BY <1>2
  <2>2. a[1].llave \in Int /\ b[1].llave \in Int
    BY <1>3, <2>1
  <2>3. s => b[1].llave <= a[1].llave
    BY <2>1, <2>2 DEF Gana
  <2>4. ~s => a[1].llave <= b[1].llave
    BY <2>1, <2>2 DEF Gana
  <2> QED BY <1>5, <2>3, <2>4
<1>8. PICK c, t : c = Append(h, Head(g)) /\ t = Tail(g)
  OBVIOUS
<1>9. /\ c \in Seq(F) /\ t \in Seq(F) /\ PorLlave(c) /\ PorLlave(t)
      /\ Antecede(c, t) /\ Antecede(c, o)
      /\ c \o o \in Seq(F) /\ c \o o # <<>> /\ PorLlave(c \o o)
  BY <1>2, <1>3, <1>6, <1>7, <1>8, Mezclada
<1>10. /\ op' = op /\ archivos' = archivos /\ e' = e /\ pos' = pos /\ inbuf' = inbuf
       /\ arbol' = arbol /\ bajando' = bajando /\ sigue' = sigue
       /\ corridas' = corridas /\ pasada' = pasada /\ indice' = indice
  BY DEF Compara
<1>11. CASE t = <<>>
  <2>1. f1' = c \o o /\ f2' = <<>> /\ ff' = <<>> /\ fase' = "mezcla"
    BY <1>1, <1>5, <1>8, <1>11 DEF Compara, Resto
  <2>2. PorLlave(<<>>) /\ Antecede(<<>>, c \o o) /\ Antecede(<<>>, <<>>) /\ <<>> \in Seq(F)
    BY OrdenVacio
  <2>3. TipoS'
    BY <1>0, <1>9, <1>10, <2>1, <2>2 DEF TipoS, Fases, F
  <2>4. ArbolS' /\ RecorreS'
    BY <2>1 DEF ArbolS, RecorreS
  <2>5. OrdenS'
    BY <1>0, <1>9, <1>10, <2>1, <2>2 DEF OrdenS
  <2>6. LlenaS'
    BY <1>0, <1>9, <1>10, <2>1 DEF LlenaS
  <2> QED BY <2>3, <2>4, <2>5, <2>6 DEF InvS
<1>12. CASE t # <<>>
  <2>1. /\ f1' = (IF s THEN a ELSE t) /\ f2' = (IF s THEN t ELSE b) /\ ff' = c
        /\ fase' = "compara"
    BY <1>0, <1>1, <1>5, <1>8, <1>12 DEF Compara
  <2>2. /\ f1' \in Seq(F) /\ f2' \in Seq(F) /\ f1' # <<>> /\ f2' # <<>>
        /\ PorLlave(f1') /\ PorLlave(f2') /\ Antecede(c, f1') /\ Antecede(c, f2')
    BY <1>2, <1>5, <1>9, <1>12, <2>1
  <2>3. TipoS'
    BY <1>0, <1>9, <1>10, <2>1, <2>2 DEF TipoS, Fases, F
  <2>4. ArbolS' /\ RecorreS'
    BY <2>1 DEF ArbolS, RecorreS
  <2>5. OrdenS'
    BY <1>0, <1>9, <1>10, <2>1, <2>2 DEF OrdenS
  <2>6. LlenaS'
    BY <1>0, <1>10, <2>1, <2>2 DEF LlenaS
  <2> QED BY <2>3, <2>4, <2>5, <2>6 DEF InvS
<1> QED BY <1>11, <1>12

\* The records go out, and the program ends.
LEMMA PasoSale == InvS /\ (Saca \/ Sacado \/ Cierra) => InvS'
<1> SUFFICES ASSUME InvS, Saca \/ Sacado \/ Cierra PROVE InvS'
  OBVIOUS
<1> USE DEF entrada, recorrido, mezclado
<1>0. TipoS /\ ArbolS /\ RecorreS /\ OrdenS /\ LlenaS
  BY DEF InvS
<1>1. CASE Saca
  <2>1. fase = "mezcla" /\ fase' \in {"mezcla", "basura"}
    BY <1>1 DEF Saca, Mezclado
  <2>2. TipoS' /\ ArbolS' /\ RecorreS' /\ OrdenS' /\ LlenaS'
    BY <1>0, <1>1, <2>1 DEF Saca, TipoS, ArbolS, RecorreS, OrdenS, LlenaS, Fases, Fallas
  <2> QED BY <2>2 DEF InvS
<1>2. CASE Sacado
  <2>1. fase = "mezcla" /\ fase' \in {"cierra", "roto"}
    BY <1>2 DEF Sacado, Mezclado, AlCerrar
  <2>2. TipoS' /\ ArbolS' /\ RecorreS' /\ OrdenS' /\ LlenaS'
    BY <1>0, <1>2, <2>1 DEF Sacado, TipoS, ArbolS, RecorreS, OrdenS, LlenaS, Fases, Fallas
  <2> QED BY <2>2 DEF InvS
<1>3. CASE Cierra
  <2> DEFINE F == Fichas(op)
  <2>1. fase = "cierra" /\ fase' = "fin" /\ (op.indice = "no" \/ corridas # <<>>)
    BY <1>0, <1>3 DEF Cierra, LlenaS
  <2>2. indice' \in Seq(F) /\ PorLlave(indice')
    <3>1. op.indice = "no" => indice' = <<>>
      BY <1>3 DEF Cierra
    <3>2. op.indice # "no" => indice' = IndiceFinal /\ corridas # <<>>
      BY <1>3, <2>1 DEF Cierra
    <3>3. <<>> \in Seq(F) /\ PorLlave(<<>>)
      BY OrdenVacio
    <3>4. corridas # <<>> => corridas[1] \in Seq(F) /\ PorLlave(corridas[1])
      <4>1. corridas \in Seq(Seq(F))
        BY <1>0 DEF TipoS
      <4>2. corridas # <<>> => 1 \in 1..Len(corridas)
        BY <4>1
      <4> QED BY <1>0, <4>1, <4>2 DEF OrdenS
    <3>5. f1 \in Seq(F) /\ PorLlave(f1)
      BY <1>0 DEF TipoS, OrdenS
    <3> QED BY <3>1, <3>2, <3>3, <3>4, <3>5 DEF IndiceFinal
  <2>3. TipoS' /\ ArbolS' /\ RecorreS' /\ OrdenS' /\ LlenaS'
    BY <1>0, <1>3, <2>1, <2>2 DEF Cierra, TipoS, ArbolS, RecorreS, OrdenS, LlenaS, Fases
  <2> QED BY <2>3 DEF InvS
<1> QED BY <1>1, <1>2, <1>3

\* Every step of the sort keeps its invariant.
LEMMA PasoS == InvS /\ [Next]_vars => InvS'
<1> SUFFICES ASSUME InvS, [Next]_vars PROVE InvS'
  OBVIOUS
<1>1. CASE UNCHANGED vars
  <2>1. /\ op' = op /\ archivos' = archivos /\ e' = e /\ pos' = pos /\ inbuf' = inbuf
        /\ arbol' = arbol /\ nodo' = nodo /\ pila' = pila /\ bajando' = bajando
        /\ corridas' = corridas /\ f1' = f1 /\ f2' = f2 /\ ff' = ff /\ pasada' = pasada
        /\ indice' = indice /\ fase' = fase /\ sigue' = sigue
    BY <1>1 DEF vars
  <2>2. TipoS'
    BY <2>1 DEF InvS, TipoS
  <2>3. ArbolS'
    BY <2>1 DEF InvS, ArbolS
  <2>4. RecorreS'
    BY <2>1 DEF InvS, RecorreS
  <2>5. OrdenS' /\ LlenaS'
    BY <2>1 DEF InvS, OrdenS, LlenaS
  <2> QED BY <2>2, <2>3, <2>4, <2>5 DEF InvS
<1>2. CASE Next
  BY <1>2, PasoAbre, PasoSalta, PasoAcaba, PasoFormKey, PasoBaja, PasoPone, PasoAlFinal,
     PasoMezcla, PasoCompara, PasoSale DEF Next
<1> QED BY <1>1, <1>2

-----------------------------------------------------------------------------
(* The search *)

\* Where a search for k is: the entries before posmin are smaller and those past maxreg
\* greater.  Past the end of the index it compares the last entry, read before.
Buscando(ind, k, b, x) ==
    /\ b.posmin \in Nat /\ b.maxreg \in Nat /\ b.posmin <= b.maxreg
    /\ b.maxreg <= Len(ind)
    /\ b.regread = (b.posmin + b.maxreg) \div 2
    /\ \A m \in 1..Len(ind) : /\ m <= b.posmin => ind[m].llave < k
                              /\ m > b.maxreg + 1 => ind[m].llave > k
    /\ b.posmin = Len(ind) => x = ind[Len(ind)]
AlLado(ind, k, n) ==
    \A m \in 1..Len(ind) : /\ m < n => ind[m].llave <= k
                           /\ m > n => ind[m].llave >= k
Falta(ind, k) == \A m \in 1..Len(ind) : ind[m].llave # k
\* The entry that is compared and its number.
Numero(ind, b) == IF b.regread < Len(ind) THEN b.regread + 1 ELSE b.regread
Leido(ind, b, x) == IF b.regread < Len(ind) THEN ind[b.regread + 1] ELSE x
Seguida(ind, b, y, k) ==
    LET c == Mitad(b, k > y.llave)
    IN  [c EXCEPT !.regread = (c.posmin + c.maxreg) \div 2]

Partes == [activa : BOOLEAN, posmin : Int, maxreg : Int, regread : Int]

\* The middle of two numbers is between them.
LEMMA Medio ==
    ASSUME NEW x \in Nat, NEW y \in Nat, x <= y
    PROVE  (x + y) \div 2 \in Nat /\ x <= (x + y) \div 2 /\ (x + y) \div 2 <= y
<1>1. PICK z : z = x + y /\ z \in Nat
  OBVIOUS
<1>2. z \div 2 \in Int /\ 2 * (z \div 2) <= z /\ z <= 2 * (z \div 2) + 1
  BY <1>1
<1>3. PICK w \in Int : w = z \div 2
  BY <1>2
<1>4. 2 * w <= x + y /\ x + y <= 2 * w + 1
  BY <1>1, <1>2, <1>3
<1>5. w \in Nat /\ x <= w /\ w <= y
  BY <1>4
<1> QED BY <1>1, <1>3, <1>5

\* What one comparison tells of all the entries.
LEMMA Compara1 ==
    ASSUME NEW F, \A x \in F : x.llave \in Int, NEW ind \in Seq(F), PorLlave(ind),
           NEW k \in Int, NEW n \in 1..Len(ind)
    PROVE  /\ ind[n].llave = k => AlLado(ind, k, n)
           /\ ind[n].llave < k => \A m \in 1..Len(ind) : m <= n => ind[m].llave < k
           /\ ind[n].llave > k => \A m \in 1..Len(ind) : m >= n => ind[m].llave > k
<1>1. Len(ind) \in Nat /\ \A m \in 1..Len(ind) : ind[m].llave \in Int
  <2>1. \A m \in 1..Len(ind) : ind[m] \in F
    OBVIOUS
  <2> QED BY <2>1
<1>2. \A m \in 1..Len(ind) : /\ m < n => ind[m].llave <= ind[n].llave
                             /\ m > n => ind[n].llave <= ind[m].llave
  <2>1. DOMAIN ind = 1..Len(ind)
    OBVIOUS
  <2> QED BY <2>1 DEF PorLlave
<1>3. ind[n].llave = k => AlLado(ind, k, n)
  BY <1>1, <1>2 DEF AlLado
<1>4. ind[n].llave < k => \A m \in 1..Len(ind) : m <= n => ind[m].llave < k
  BY <1>1, <1>2
<1>5. ind[n].llave > k => \A m \in 1..Len(ind) : m >= n => ind[m].llave > k
  BY <1>1, <1>2
<1> QED BY <1>3, <1>4, <1>5

\* One step of a search: it finds the key, or goes on in one half, or there is none.
LEMMA UnaPrueba ==
    ASSUME NEW F, \A x \in F : x.llave \in Int, NEW ind \in Seq(F), PorLlave(ind),
           ind # <<>>, NEW k \in Int, NEW b \in Partes, NEW x, Buscando(ind, k, b, x),
           NEW n, n = Numero(ind, b), NEW y, y = Leido(ind, b, x),
           NEW c, c = Seguida(ind, b, y, k)
    PROVE  /\ n \in 1..Len(ind) /\ y = ind[n]
           /\ y.llave = k => AlLado(ind, k, n)
           /\ y.llave # k => IF c.posmin <= c.maxreg THEN Buscando(ind, k, c, y)
                             ELSE AlLado(ind, k, n) /\ Falta(ind, k)
<1> DEFINE L == Len(ind)
<1>1. PICK p, q, rr : p = b.posmin /\ q = b.maxreg /\ rr = b.regread
  OBVIOUS
<1>2. /\ p \in Nat /\ q \in Nat /\ p <= q /\ q <= L /\ L \in Nat \ {0}
      /\ rr = (p + q) \div 2 /\ rr \in Nat /\ p <= rr /\ rr <= q
      /\ p = L => x = ind[L]
  <2>1. p \in Nat /\ q \in Nat /\ p <= q /\ q <= L /\ rr = (p + q) \div 2
        /\ (p = L => x = ind[L])
    BY <1>1 DEF Buscando
  <2>2. rr \in Nat /\ p <= rr /\ rr <= q
    BY <2>1, Medio
  <2> QED BY <2>1, <2>2
<1>3. \A m \in 1..L : /\ ind[m].llave \in Int
                      /\ m <= p => ind[m].llave < k
                      /\ m > q + 1 => ind[m].llave > k
  <2>1. \A m \in 1..L : ind[m] \in F
    OBVIOUS
  <2> QED BY <2>1, <1>1 DEF Buscando
<1>4. rr >= L => p = L /\ q = L /\ rr = L
  <2>1. 2 * rr <= p + q
    <3>1. PICK z : z = p + q /\ z \in Nat
      BY <1>2
    <3>2. 2 * (z \div 2) <= z
      BY <3>1
    <3> QED BY <3>1, <3>2, <1>2
  <2> QED BY <2>1, <1>2
<1>5. n \in 1..L /\ y = ind[n] /\ n = IF rr < L THEN rr + 1 ELSE L
  BY <1>1, <1>2, <1>4 DEF Numero, Leido
<1>6. /\ c.posmin = IF k > y.llave THEN rr + 1 ELSE p
      /\ c.maxreg = IF k > y.llave THEN q ELSE rr - 1
      /\ c.regread = (c.posmin + c.maxreg) \div 2
  BY <1>1 DEF Seguida, Mitad, Partes
<1>7. /\ y.llave \in Int
      /\ y.llave = k => AlLado(ind, k, n)
      /\ y.llave < k => \A m \in 1..L : m <= n => ind[m].llave < k
      /\ y.llave > k => \A m \in 1..L : m >= n => ind[m].llave > k
  BY <1>3, <1>5, Compara1
<1>8. CASE y.llave < k
  <2>1. c.posmin = rr + 1 /\ c.maxreg = q
    BY <1>6, <1>7, <1>8
  <2>2. CASE rr + 1 <= q
    <3>1. n = rr + 1 /\ rr < L
      BY <2>2, <1>2, <1>5
    <3>2. \A m \in 1..L : m <= rr + 1 => ind[m].llave < k
      BY <3>1, <1>7, <1>8
    <3>3. rr + 1 = L => y = ind[L]
      BY <3>1, <1>5
    <3>4. Buscando(ind, k, c, y)
      BY <1>2, <1>3, <1>6, <2>1, <2>2, <3>2, <3>3 DEF Buscando
    <3> QED BY <2>1, <2>2, <3>4, <1>2, <1>5, <1>7, <1>8
  <2>3. CASE ~(rr + 1 <= q)
    <3>1. rr = q
      BY <2>3, <1>2
    <3>2. \A m \in 1..L : m > n => m > q + 1
      BY <3>1, <1>2, <1>5
    <3>3. \A m \in 1..L : m <= n \/ m > n
      BY <1>5
    <3>4. AlLado(ind, k, n) /\ Falta(ind, k)
      BY <1>3, <1>5, <1>7, <1>8, <3>2, <3>3 DEF AlLado, Falta
    <3> QED BY <2>1, <2>3, <3>4, <1>2, <1>5, <1>7, <1>8
  <2> QED BY <2>2, <2>3
<1>9. CASE y.llave > k
  <2>1. c.posmin = p /\ c.maxreg = rr - 1
    BY <1>6, <1>7, <1>9
  <2>2. rr < L /\ n = rr + 1
    <3>1. rr >= L => y.llave < k
      BY <1>2, <1>3, <1>4, <1>5
    <3> QED BY <3>1, <1>2, <1>5, <1>7, <1>9
  <2>3. CASE p <= rr - 1
    <3>1. \A m \in 1..L : m > (rr - 1) + 1 => ind[m].llave > k
      BY <1>2, <1>7, <1>9, <2>2
    <3>2. p # L /\ rr - 1 \in Nat /\ rr - 1 <= L
      BY <1>2, <2>2, <2>3
    <3>3. Buscando(ind, k, c, y)
      BY <1>2, <1>3, <1>6, <2>1, <2>3, <3>1, <3>2 DEF Buscando
    <3> QED BY <2>1, <2>3, <3>3, <1>5, <1>7, <1>9
  <2>4. CASE ~(p <= rr - 1)
    <3>1. rr = p
      BY <2>4, <1>2
    <3>2. \A m \in 1..L : m < n => m <= p
      BY <3>1, <1>2, <2>2
    <3>3. \A m \in 1..L : m < n \/ m >= n
      BY <1>5
    <3>4. AlLado(ind, k, n) /\ Falta(ind, k)
      BY <1>3, <1>5, <1>7, <1>9, <3>2, <3>3 DEF AlLado, Falta
    <3> QED BY <2>1, <2>4, <3>4, <1>5, <1>7, <1>9
  <2> QED BY <2>3, <2>4
<1>10. CASE y.llave = k
  BY <1>5, <1>7, <1>10
<1> QED BY <1>7, <1>8, <1>9, <1>10

\* The types of the index instructions, and a search on its way in an open index.
TipoB ==
    /\ fd \in [Ranuras -> {"nunca", "abierto", "cerrado", "muerto"}]
    /\ off \in [Ranuras -> Int] /\ ai \in Ranuras
    /\ pide.s \in Ranuras /\ pide.k \in Int /\ busca \in Partes
BuscaB ==
    /\ fase # "fin" => pide.que = "nada" /\ busca.activa = FALSE
    /\ busca.activa =>
           /\ fase = "fin" /\ op.junta /\ indice # <<>>
           /\ pide.s = ai /\ pide.que \in {"f", "s"}
           /\ fd[ai] = "abierto" => Buscando(indice, pide.k, busca, ix)

InvB == InvS /\ TipoB /\ BuscaB /\ Busca

\* No index is open yet.
LEMMA InicioB == InitB => InvB
<1> SUFFICES ASSUME InitB PROVE InvB
  OBVIOUS
<1>1. InvS
  BY InicioS DEF InitB
<1>2. ai \in Ranuras
  BY RanurasAssumption DEF InitB
<1>3. TipoB
  BY <1>2 DEF InitB, TipoB, Quieta, Partes
<1>4. pide.que = "nada" /\ busca.activa = FALSE
  BY DEF InitB, Quieta
<1>5. BuscaB /\ Busca
  BY <1>4 DEF BuscaB, Busca, BuscaExacta, BuscaCerca
<1> QED BY <1>1, <1>3, <1>5 DEF InvB

\* The index that is searched.
LEMMA Indice ==
    ASSUME InvS
    PROVE  /\ indice \in Seq(Fichas(op)) /\ PorLlave(indice)
           /\ Len(indice) \in Nat /\ \A x \in Fichas(op) : x.llave \in Int
           /\ op.junta => \A m \in 1..Len(indice) : indice[m].lugar # NoEsta
<1> DEFINE F == Fichas(op)
<1>1. indice \in Seq(F) /\ PorLlave(indice)
  BY DEF InvS, TipoS, OrdenS
<1>2. \A m \in 1..Len(indice) : indice[m] \in F
  BY <1>1
<1>3. \A x \in F : x.llave \in Int /\ (op.junta => x.lugar \in Nat \X Nat)
  BY DEF Fichas
<1>4. \A l \in Nat \X Nat : l # NoEsta
  BY DEF NoEsta
<1> QED BY <1>1, <1>2, <1>3, <1>4

\* A step of the sort leaves the searches as they are: there is none yet.
LEMMA PasoOrdena == InvB /\ Ordena => InvB'
<1> SUFFICES ASSUME InvB, Ordena PROVE InvB'
  OBVIOUS
<1>1. Next /\ fd' = fd /\ off' = off /\ ix' = ix /\ ai' = ai /\ pide' = pide /\ busca' = busca
  BY DEF Ordena
<1>2. InvS'
  BY <1>1, PasoS DEF InvB
<1>3. fase # "fin"
  BY <1>1 DEF Next, Abre, Salta, Acaba, FormKey, Baja, Pone, AlFinal, Mezcla, Compara, Saca,
     Sacado, Mezclado, Cierra
<1>4. pide.que = "nada" /\ busca.activa = FALSE
  BY <1>3 DEF InvB, BuscaB
<1>5. TipoB'
  BY <1>1 DEF InvB, TipoB
<1>6. BuscaB' /\ Busca'
  BY <1>1, <1>4 DEF BuscaB, Busca, BuscaExacta, BuscaCerca
<1> QED BY <1>2, <1>5, <1>6 DEF InvB

\* An instruction that ends at once is not a search.
LEMMA PasoMueve ==
    ASSUME InvB, Listo, UNCHANGED vars, TipoB', busca' = busca, pide'.que \notin {"f", "s"}
    PROVE  InvB'
<1>1. InvS'
  BY PasoS DEF InvB
<1>2. busca'.activa = FALSE /\ fase' = "fin"
  BY DEF Listo, vars, InvB, TipoB, Partes
<1>3. BuscaB' /\ Busca'
  BY <1>2 DEF BuscaB, Busca, BuscaExacta, BuscaCerca
<1> QED BY <1>1, <1>3 DEF InvB

\* The instructions that do not search.
LEMMA PasoOtra ==
    InvB /\ (AbreIx \/ CierraIx({ai}) \/ CierraIx(Ranuras) \/ Siguiente \/ Primera
             \/ Ultima \/ Anterior)
    => InvB'
<1> SUFFICES ASSUME InvB, AbreIx \/ CierraIx({ai}) \/ CierraIx(Ranuras) \/ Siguiente
                          \/ Primera \/ Ultima \/ Anterior
             PROVE  InvB'
  OBVIOUS
<1>0. /\ TipoB /\ Len(indice) \in Nat
      /\ fd \in [Ranuras -> {"nunca", "abierto", "cerrado", "muerto"}]
      /\ off \in [Ranuras -> Int] /\ ai \in Ranuras /\ pide.s \in Ranuras
  BY Indice DEF InvB, TipoB
<1>1. CASE AbreIx
  <2>1. TipoB'
    BY <1>0, <1>1 DEF AbreIx, TipoB, Pide
  <2> QED BY <1>1, <2>1, PasoMueve DEF AbreIx, Pide
<1>2. ASSUME NEW S, CierraIx(S) PROVE InvB'
  <2>1. TipoB'
    BY <1>0, <1>2 DEF CierraIx, TipoB, Pide
  <2> QED BY <1>2, <2>1, PasoMueve DEF CierraIx, Pide
<1>3. ASSUME NEW q \in {"n", "t", "b"}, NEW n \in Int, Mueve(q, n) PROVE InvB'
  <2>1. off' \in [Ranuras -> Int]
    BY <1>0, <1>3 DEF Mueve, LeeLugar, Lee
  <2>2. TipoB'
    BY <1>0, <1>3, <2>1 DEF Mueve, TipoB, Pide
  <2> QED BY <1>3, <2>2, PasoMueve DEF Mueve, Pide
<1>4. N(ai) \in Int /\ off[ai] \in Int
  BY <1>0 DEF N
<1>5. CASE Siguiente \/ Primera \/ Ultima
  BY <1>3, <1>4, <1>5 DEF Siguiente, Primera, Ultima
<1>6. CASE Anterior
  <2>1. off' \in [Ranuras -> Int]
    BY <1>0, <1>4, <1>6 DEF Anterior, LeeLugar, Lee
  <2>2. TipoB'
    BY <1>0, <1>6, <2>1 DEF Anterior, TipoB, Pide
  <2> QED BY <1>6, <2>2, PasoMueve DEF Anterior, Pide
<1> QED BY <1>1, <1>2, <1>5, <1>6

\* Another slot: the last instruction and its answer stay.
LEMMA PasoActiva ==
    ASSUME NEW s \in Ranuras, InvB, Activa(s)
    PROVE  InvB'
<1>1. /\ vars' = vars /\ fd' = fd /\ off' = off /\ lug' = lug /\ pide' = pide
      /\ busca' = busca /\ ai' = s /\ fase = "fin" /\ ~busca.activa
  BY DEF Activa, Listo
<1>2. InvS'
  BY <1>1, PasoS DEF InvB
<1>3. TipoB'
  BY <1>1 DEF InvB, TipoB
<1>4. indice' = indice /\ fase' = "fin"
  BY <1>1 DEF vars
<1>5. BuscaB'
  BY <1>1, <1>4 DEF BuscaB
<1>6. Busca'
  BY <1>1, <1>4 DEF InvB, Busca, BuscaExacta, BuscaCerca, Respondida
<1> QED BY <1>2, <1>3, <1>5, <1>6 DEF InvB

\* A search begins with the whole index.
LEMMA PasoEmpieza ==
    ASSUME NEW q \in {"f", "s"}, NEW k \in 0..(Tope + 1), InvB, Empieza(q, k)
    PROVE  InvB'
<1>0. /\ TipoB /\ Len(indice) \in Nat /\ k \in Int
      /\ fd \in [Ranuras -> {"nunca", "abierto", "cerrado", "muerto"}] /\ ai \in Ranuras
  BY Indice, TopeAssumption DEF InvB, TipoB
<1>1. /\ vars' = vars /\ off' = off /\ ix' = ix /\ ai' = ai /\ lug' = lug
      /\ pide' = [que |-> q, k |-> k, s |-> ai]
      /\ fase = "fin" /\ indice # <<>> /\ op.junta /\ busca.activa = FALSE
  BY <1>0 DEF Empieza, Listo, Pide, TipoB, Partes
<1>2. fase' = "fin" /\ indice' = indice /\ op' = op
  BY <1>1 DEF vars
<1>3. InvS'
  BY <1>1, PasoS DEF InvB
<1>4. pide'.s = ai /\ pide'.que = q /\ pide'.k = k
  BY <1>1
<1>5. CASE fd[ai] = "nunca"
  <2>1. fd' = [fd EXCEPT ![ai] = "muerto"] /\ busca' = busca
    BY <1>5 DEF Empieza
  <2>2. fd'[ai] = "muerto"
    BY <1>0, <2>1
  <2>3. TipoB'
    BY <1>0, <1>1, <1>4, <2>1 DEF TipoB
  <2>4. BuscaB' /\ Busca'
    BY <1>1, <1>2, <1>4, <2>1, <2>2 DEF BuscaB, Busca, BuscaExacta, BuscaCerca, Respondida
  <2> QED BY <1>3, <2>3, <2>4 DEF InvB
<1>6. CASE fd[ai] # "nunca"
  <2> DEFINE b == [activa |-> TRUE, posmin |-> 0, maxreg |-> N(ai), regread |-> N(ai) \div 2]
  <2>1. fd' = fd /\ busca' = b
    BY <1>6 DEF Empieza
  <2>2. N(ai) \in Nat /\ N(ai) \div 2 \in Int
    BY <1>0 DEF N
  <2>3. TipoB'
    BY <1>0, <1>1, <1>4, <2>1, <2>2 DEF TipoB, Partes
  <2>4. busca'.activa = TRUE
    BY <2>1
  <2>5. fd[ai] = "abierto" => Buscando(indice, k, b, ix)
    <3>1. fd[ai] = "abierto" => N(ai) = Len(indice) /\ Len(indice) # 0
      BY <1>0, <1>1 DEF N
    <3>2. \A m \in 1..Len(indice) : ~(m <= 0) /\ ~(m > Len(indice) + 1)
      BY <1>0
    <3> QED BY <1>0, <3>1, <3>2 DEF Buscando
  <2>6. BuscaB'
    BY <1>1, <1>2, <1>4, <2>1, <2>5 DEF BuscaB
  <2>7. Busca'
    BY <2>4 DEF Busca, BuscaExacta, BuscaCerca, Respondida
  <2> QED BY <1>3, <2>3, <2>6, <2>7 DEF InvB
<1> QED BY <1>5, <1>6

\* One comparison of a search.
LEMMA PasoPrueba == InvB /\ Prueba => InvB'
<1> SUFFICES ASSUME InvB, Prueba PROVE InvB'
  OBVIOUS
<1>0. /\ InvS /\ TipoB /\ BuscaB /\ busca.activa /\ Len(indice) \in Nat
      /\ off \in [Ranuras -> Int] /\ ai \in Ranuras /\ pide.k \in Int /\ busca \in Partes
  BY Indice DEF InvB, TipoB, Prueba
<1>1. /\ fase = "fin" /\ op.junta /\ indice # <<>> /\ pide.s = ai /\ pide.que \in {"f", "s"}
      /\ fd[ai] = "abierto" => Buscando(indice, pide.k, busca, ix)
  BY <1>0 DEF BuscaB
<1>2. vars' = vars /\ fd' = fd /\ ai' = ai /\ pide' = pide
  BY DEF Prueba
<1>3. fase' = "fin" /\ indice' = indice /\ op' = op
  BY <1>1, <1>2 DEF vars
<1>4. InvS'
  BY <1>0, <1>2, PasoS
<1> DEFINE k == pide.k
           b == Mitad(busca, k > ix'.llave)
           sigue2 == [b EXCEPT !.regread = (b.posmin + b.maxreg) \div 2]
<1>5. /\ k = ix'.llave => lug' = ix'.lugar /\ busca' = Quieta
      /\ k # ix'.llave /\ b.posmin <= b.maxreg => busca' = sigue2
      /\ k # ix'.llave /\ ~(b.posmin <= b.maxreg) =>
             /\ lug' = IF pide.que = "s" THEN ix'.lugar ELSE NoEsta
             /\ busca' = Quieta
  BY DEF Prueba, Cerca
<1>6. sigue2 \in Partes /\ sigue2.activa = TRUE /\ Quieta \in Partes /\ Quieta.activa = FALSE
  <2>1. busca.activa = TRUE
    BY <1>0 DEF Partes
  <2>2. b \in Partes /\ b.activa = TRUE
    <3>1. CASE k > ix'.llave
      <4>1. b = [busca EXCEPT !.posmin = busca.regread + 1]
        BY <3>1 DEF Mitad
      <4> HIDE DEF b
      <4> QED BY <1>0, <2>1, <4>1 DEF Partes
    <3>2. CASE ~(k > ix'.llave)
      <4>1. b = [busca EXCEPT !.maxreg = busca.regread - 1]
        BY <3>2 DEF Mitad
      <4> HIDE DEF b
      <4> QED BY <1>0, <2>1, <4>1 DEF Partes
    <3> QED BY <3>1, <3>2
  <2>3. sigue2 \in Partes /\ sigue2.activa = TRUE
    <3> HIDE DEF b
    <3> QED BY <2>2 DEF Partes
  <2> QED BY <2>3 DEF Partes, Quieta
<1>7. TipoB'
  <2>1. busca' \in Partes
    BY <1>5, <1>6
  <2>2. off' \in [Ranuras -> Int]
    <3>1. busca.regread \in Int
      BY <1>0 DEF Partes
    <3> QED BY <1>0, <3>1 DEF Prueba, Lee
  <2> QED BY <1>0, <1>2, <2>1, <2>2 DEF TipoB
<1>8. CASE fd[ai] # "abierto"
  <2>1. BuscaB'
    BY <1>1, <1>2, <1>3, <1>8 DEF BuscaB
  <2>2. Busca'
    BY <1>1, <1>2, <1>8 DEF Busca, BuscaExacta, BuscaCerca, Respondida
  <2> QED BY <1>4, <1>7, <2>1, <2>2 DEF InvB
<1>9. CASE fd[ai] = "abierto"
  <2> DEFINE F == Fichas(op)
  <2>1. PICK ind, n, y, c : /\ ind = indice /\ n = Numero(ind, busca)
                            /\ y = Leido(ind, busca, ix) /\ c = Seguida(ind, busca, y, k)
    OBVIOUS
  <2>2. /\ ind \in Seq(F) /\ PorLlave(ind) /\ ind # <<>> /\ \A x \in F : x.llave \in Int
        /\ \A m \in 1..Len(ind) : ind[m].lugar # NoEsta
    BY <1>0, <1>1, <2>1, Indice
  <2> HIDE DEF F
  <2>3. /\ n \in 1..Len(ind) /\ y = ind[n]
        /\ y.llave = k => AlLado(ind, k, n)
        /\ y.llave # k => IF c.posmin <= c.maxreg THEN Buscando(ind, k, c, y)
                          ELSE AlLado(ind, k, n) /\ Falta(ind, k)
    BY <1>0, <1>1, <1>9, <2>1, <2>2, UnaPrueba
  <2>4. ix' = y /\ off'[ai] = n
    <3>1. N(ai) = Len(ind)
      BY <1>9, <2>1 DEF N
    <3> QED BY <1>0, <2>1, <3>1 DEF Prueba, Lee, Numero, Leido
  <2>5. c = sigue2 /\ c.posmin = b.posmin /\ c.maxreg = b.maxreg
    BY <1>0, <2>1, <2>4 DEF Seguida, Mitad, Partes
  <2>6. CASE y.llave # k /\ c.posmin <= c.maxreg
    <3>1. busca' = c
      BY <1>5, <2>4, <2>5, <2>6
    <3>2. busca'.activa = TRUE
      BY <1>6, <2>5, <3>1
    <3>3. Buscando(ind, k, c, y)
      BY <2>3, <2>6
    <3>4. BuscaB'
      BY <1>1, <1>2, <1>3, <2>1, <2>4, <3>1, <3>3 DEF BuscaB
    <3>5. Busca'
      BY <3>2 DEF Busca, BuscaExacta, BuscaCerca, Respondida
    <3> QED BY <1>4, <1>7, <3>4, <3>5 DEF InvB
  <2>7. CASE ~(y.llave # k /\ c.posmin <= c.maxreg)
    <3>1. /\ busca' = Quieta /\ busca'.activa = FALSE /\ AlLado(ind, k, n)
          /\ y.llave = k => lug' = y.lugar
          /\ y.llave # k => Falta(ind, k) /\ lug' = IF pide.que = "s" THEN y.lugar ELSE NoEsta
      BY <1>5, <1>6, <2>3, <2>4, <2>5, <2>7
    <3>2. BuscaB'
      BY <1>3, <3>1 DEF BuscaB
    <3>3. y.lugar # NoEsta /\ DOMAIN ind = 1..Len(ind) /\ y \in ToSet(ind)
      BY <2>2, <2>3 DEF ToSet
    <3>4. BuscaExacta'
      <4> DEFINE con == {x.lugar : x \in {z \in ToSet(ind) : z.llave = k}}
      <4>1. SUFFICES ASSUME pide.que = "f"
                     PROVE  IF con = {} THEN lug' = NoEsta ELSE lug' \in con
        BY <1>2, <1>3, <2>1 DEF BuscaExacta
      <4>2. CASE y.llave = k
        BY <3>1, <3>3, <4>2
      <4>3. CASE y.llave # k
        <5>1. con = {}
          BY <3>1, <3>3, <4>3 DEF Falta, ToSet
        <5>2. lug' = NoEsta
          BY <3>1, <4>1, <4>3
        <5> QED BY <5>1, <5>2
      <4> QED BY <4>2, <4>3
    <3>5. BuscaCerca'
      <4>1. \A m \in 1..Len(ind) : /\ m < n => ind[m].llave <= k
                                   /\ m > n => ind[m].llave >= k
        BY <3>1 DEF AlLado
      <4>2. lug' # NoEsta => lug' = ind[n].lugar
        BY <2>3, <3>1
      <4>3. pide.que = "s" => lug' # NoEsta
        BY <3>1, <3>3
      <4> QED BY <1>1, <1>2, <1>3, <2>1, <2>3, <2>4, <3>3, <4>1, <4>2, <4>3 DEF BuscaCerca
    <3> QED BY <1>4, <1>7, <3>2, <3>4, <3>5 DEF InvB, Busca
  <2> QED BY <2>6, <2>7
<1> QED BY <1>8, <1>9

\* Every instruction keeps the invariant of the searches.
LEMMA PasoB == InvB /\ [NextB]_varsB => InvB'
<1> SUFFICES ASSUME InvB, [NextB]_varsB PROVE InvB'
  OBVIOUS
<1>1. CASE UNCHANGED varsB
  <2>1. /\ vars' = vars /\ fd' = fd /\ off' = off /\ ix' = ix /\ ai' = ai /\ lug' = lug
        /\ pide' = pide /\ busca' = busca
    BY <1>1 DEF varsB
  <2>2. indice' = indice /\ op' = op /\ fase' = fase
    BY <2>1 DEF vars
  <2>3. InvS'
    BY <2>1, PasoS DEF InvB
  <2>4. TipoB' /\ BuscaB' /\ Busca'
    BY <2>1, <2>2 DEF InvB, TipoB, BuscaB, Busca, BuscaExacta, BuscaCerca, Respondida
  <2> QED BY <2>3, <2>4 DEF InvB
<1>2. CASE NextB
  BY <1>2, PasoOrdena, PasoOtra, PasoActiva, PasoEmpieza, PasoPrueba DEF NextB
<1> QED BY <1>1, <1>2

\* What a search of vbsearch.c answers, in every index that vpsort.c leaves: 'f' finds a
\* record with the key if there is one, and wherever 'f' or 's' stops, the entries before
\* are not greater and those after not smaller.
THEOREM BuscaSiempre == SpecB => []Busca
<1>1. InvB => Busca
  BY DEF InvB
<1> QED BY <1>1, InicioB, PasoB, PTL DEF SpecB

-----------------------------------------------------------------------------
(***************************************************************************)
(* That vpsort puts out its input in order, all of it and each record      *)
(* once, for every input, set of options and size of memory.               *)
(*                                                                         *)
(* The files keep the keys of the records, and their places only when the  *)
(* two programs agree on an entry (op.junta).  So the proof goes by the    *)
(* files as they would be with every place: D are the runs, and what the   *)
(* merges left of them, in the order they are merged, and g the result of  *)
(* the merge that is going on.  Each file of the program is the image of   *)
(* one of these (Copia).  Between them they hold what has been read, no    *)
(* record twice: a file holds what was read before what the next one does, *)
(* and the result of a merge goes before what is left of its two files     *)
(* (Ordenadas).  At the end only one file is left, which is then the whole *)
(* input in order, and what goes out is read off it (De).                  *)
(***************************************************************************)

(* The invariant *)

\* An entry with its place; a file that is read as such entries, and what files hold.
Completas == [llave : Int, lugar : Nat \X Nat]
Completa(x) == [llave |-> x.llave, lugar |-> x.lugar]
Copia(o, s, g) ==
    g \in Seq(Completas) /\ Len(s) = Len(g) /\ \A i \in 1..Len(g) : s[i] = FichaDe(o, g[i])
Todas(s) == {s[i] : i \in 1..Len(s)}
EnArbol(a) == {Completa(a[n]) : n \in 1..Len(a)}

\* All of A before all of B: in the order of the output, and in reading order.
Menores(A, B) == \A x \in A : \A y \in B : EnOrden(x, y)
Previas(A, B) == \A x \in A : \A y \in B : Antes(x.lugar, y.lugar)

\* What went out is the start of file g.
De(S, g) == Len(S) <= Len(g) /\ \A i \in 1..Len(S) : S[i] = g[i].lugar

\* The walk of a tree writes a last run that does not count yet.
Cerradas == IF fase = "recorre" /\ sigue # "cierra" THEN Len(corridas) - 1 ELSE Len(corridas)

\* The files in the order they are merged: what is left of both files of a merge, or the
\* last result, is in the places of the runs they came from.
Tira(t) ==
    IF pasada = 0 \/ t > pasada + 1 THEN corridas[t]
    ELSE IF fase = "compara"
         THEN IF t = pasada THEN f1 ELSE IF t = pasada + 1 THEN f2 ELSE <<>>
         ELSE IF t = pasada + 1 THEN f1 ELSE <<>>

\* What all the files hold, the tree a among them, and how they stand to each other when p
\* merges have begun.
Junta(D, g, a) == (UNION {Todas(D[t]) : t \in 1..Len(D)}) \cup Todas(g) \cup EnArbol(a)

Ordenadas(D, g, a, p) ==
    /\ Ordenada(g)
    /\ \A t \in 1..Len(D) : Ordenada(D[t])
    /\ \A t, u \in 1..Len(D) : t < u => Previas(Todas(D[t]), Todas(D[u]))
    /\ \A t \in 1..Len(D) : Previas(Todas(D[t]), EnArbol(a))
    /\ \A t \in 1..Len(D) : IF t <= p + 1 THEN Menores(Todas(g), Todas(D[t]))
                                          ELSE Previas(Todas(g), Todas(D[t]))

\* The program has them in its files, and they are what has been read.
Copiadas(D, g) ==
    /\ D \in Seq(Seq(Completas)) /\ Len(D) = Cerradas
    /\ \A t \in 1..Len(D) : Copia(op, Tira(t), D[t])
    /\ Copia(op, ff, g)

Lleva(D, g) ==
    /\ Copiadas(D, g)
    /\ Ordenadas(D, g, arbol, pasada)
    /\ Leidas = Junta(D, g, arbol)
    /\ sigue # "cierra" /\ salida # <<>> => De(Sacadas, D[Len(D)])

LlevaT ==
    fase \notin Fallas /\ ~ (sigue = "cierra" /\ fase \in {"cierra", "fin"}) =>
        \E D, g : Lleva(D, g)

\* How far it has read, and what the buffer keeps of it.
LeeT ==
    /\ op.forma # "lineas" => \A f \in 1..Len(archivos) : \A n \in 1..Len(archivos[f].regs) :
                                  archivos[f].regs[n].k # Corta
    /\ Leidas \in SUBSET Completas
    /\ fase = "abre" /\ e > 0 => pos > Len(archivos[e].regs)
    /\ op.forma = "fijo" /\ op.salta /\ e > 0 => pos > 1
    /\ op.forma = "lineas" => inbuf = ColumnasAntes(<<e, pos>>)
    /\ fase \notin {"abre", "lee"} /\ ~ (fase = "recorre" /\ sigue = "lee") => Leidas = Leida

\* The course of the program: which files are in use, and what it does next.
Mezclando == fase \in {"mezcla", "compara"} \/ (fase \in {"cierra", "fin"} /\ sigue # "cierra")
FaseT ==
    /\ Len(pila) < op.tokeys
    /\ fase # "compara" => f2 = <<>> /\ ff = <<>>
    /\ pasada = 0 => f1 = <<>> /\ fase # "compara"
    /\ pasada > 0 => /\ pasada + 1 <= Len(corridas)
                     /\ \A t \in 1..pasada+1 : corridas[t] = <<>>
    /\ fase \in {"abre", "lee"} => sigue = "lee"
    /\ fase = "mezcla" => sigue = "mezcla"
    /\ fase = "compara" => sigue = "mezcla"
    /\ Mezclando => arbol = <<>> /\ corridas # <<>>
    /\ fase \in {"cierra", "fin"} /\ sigue # "cierra" => pasada + 1 = Len(corridas)
    /\ (Mezclando \/ (fase = "recorre" /\ sigue = "mezcla")) /\ op.indice = "no" => Len(corridas) > 1
    /\ sigue = "cierra" => corridas = <<>> /\ op.indice = "no"

\* What has gone out: nothing before the last file is whole, and then along it, or along the
\* tree when it is the only one.
SalidaT ==
    /\ salida \in Seq(Nat \X Nat)
    /\ fase \in {"abre", "lee", "compara"} \/ (fase = "recorre" /\ sigue # "cierra") => salida = <<>>
    /\ fase = "mezcla" /\ salida # <<>> => pasada + 1 = Len(corridas)
    /\ fase \in {"cierra", "fin"} /\ sigue # "cierra" =>
           /\ (Larga /\ op.indice # "solo") => Len(Sacadas) = Len(f1)
    /\ fase = "recorre" /\ sigue = "cierra" =>
         \E q, r, desde, hasta, j :
            /\ EsArbol(arbol, q, r, desde, hasta)
            /\ EnRecorrido(arbol, r, desde, hasta, nodo, pila, bajando, j)
            /\ Len(Sacadas) = j /\ \A i \in 1..j : Sacadas[i] = arbol[q[i]].lugar
    /\ fase \in {"cierra", "fin"} /\ sigue = "cierra" =>
         \E s \in Seq(Completas) : /\ Ordenada(s) /\ Todas(s) = Leida
                                   /\ De(Sacadas, s) /\ Len(Sacadas) = Len(s)

\* The index is the last file, and the tree fits in memory.
IndiceT ==
    fase = "fin" /\ op.indice # "no" =>
        \E g : Copia(op, indice, g) /\ Ordenada(g) /\ Todas(g) = Leida
CabeT == Len(arbol) <= op.tokeys

InvT == InvS /\ LeeT /\ FaseT /\ SalidaT /\ LlevaT /\ IndiceT /\ CabeT

-----------------------------------------------------------------------------
(* Files of entries *)

\* A file of entries in order: what comes after is greater.
LEMMA OrdenaNada == Ordenada(<<>>) /\ Todas(<<>>) = {} /\ <<>> \in Seq(Completas)
<1>1. Len(<<>>) = 0 /\ \A i \in DOMAIN <<>> : FALSE
  OBVIOUS
<1>2. Todas(<<>>) = {}
  BY <1>1 DEF Todas
<1> QED BY <1>1, <1>2 DEF Ordenada

\* The first entry of a file goes to the end of another one.
LEMMA PasaCabeza ==
    ASSUME NEW h \in Seq(Completas), NEW g \in Seq(Completas), g # <<>>,
           Ordenada(h), Ordenada(g), Menores(Todas(h), Todas(g)),
           NEW c, c = Append(h, Head(g)), NEW t, t = Tail(g)
    PROVE  /\ c \in Seq(Completas) /\ t \in Seq(Completas) /\ Ordenada(c) /\ Ordenada(t)
           /\ Todas(c) = Todas(h) \cup {Head(g)} /\ Todas(g) = Todas(t) \cup {Head(g)}
           /\ Menores(Todas(c), Todas(t)) /\ Head(g) \in Completas
           /\ Menores({Head(g)}, Todas(t))
<1> DEFINE l == Len(h)
<1>0. PICK x \in Completas : x = Head(g) /\ x = g[1]
  OBVIOUS
<1>1. /\ c \in Seq(Completas) /\ Len(c) = l + 1 /\ c[l + 1] = x /\ l \in Nat
      /\ \A i \in 1..l : c[i] = h[i]
  <2>1. c = Append(h, x)
    BY <1>0
  <2> QED BY <2>1
<1>2. /\ t \in Seq(Completas) /\ Len(t) = Len(g) - 1 /\ Len(g) \in Nat \ {0}
      /\ \A i \in 1..Len(t) : t[i] = g[i + 1]
  BY HeadTailProperties
<1>3. /\ DOMAIN c = 1..Len(c) /\ DOMAIN t = 1..Len(t) /\ DOMAIN g = 1..Len(g)
      /\ DOMAIN h = 1..Len(h)
  BY <1>1, <1>2
<1>4. Todas(c) = Todas(h) \cup {x}
  <2>1. \A i \in 1..l+1 : i \in 1..l \/ i = l + 1
    BY <1>1
  <2>2. \A i \in 1..l : i \in 1..l+1
    BY <1>1
  <2>3. l + 1 \in 1..l+1
    BY <1>1
  <2> QED BY <1>1, <2>1, <2>2, <2>3 DEF Todas
<1>5. Todas(g) = Todas(t) \cup {x}
  <2>1. \A i \in 1..Len(g) : i = 1 \/ (i - 1 \in 1..Len(t) /\ i - 1 + 1 = i)
    BY <1>2
  <2>2. \A i \in 1..Len(t) : i + 1 \in 1..Len(g)
    BY <1>2
  <2>3. 1 \in 1..Len(g)
    BY <1>2
  <2>4. \A y \in Todas(g) : y \in Todas(t) \cup {x}
    <3> SUFFICES ASSUME NEW i \in 1..Len(g) PROVE g[i] \in Todas(t) \cup {x}
      BY DEF Todas
    <3>1. CASE i = 1
      BY <1>0, <3>1
    <3>2. CASE i # 1
      <4>1. PICK k \in 1..Len(t) : k + 1 = i
        BY <2>1, <3>2
      <4>2. t[k] = g[i]
        BY <1>2, <4>1
      <4> QED BY <4>2 DEF Todas
    <3> QED BY <3>1, <3>2
  <2>5. \A y \in Todas(t) : y \in Todas(g)
    BY <1>2, <2>2 DEF Todas
  <2>6. x \in Todas(g)
    BY <1>0, <2>3 DEF Todas
  <2> QED BY <2>4, <2>5, <2>6
<1>6. Ordenada(t)
  <2>1. ASSUME NEW i \in 1..Len(t), NEW j \in 1..Len(t), i < j PROVE EnOrden(t[i], t[j])
    <3>1. i + 1 \in 1..Len(g) /\ j + 1 \in 1..Len(g) /\ i + 1 < j + 1
      BY <1>2, <2>1
    <3> QED BY <3>1, <1>2, <1>3 DEF Ordenada
  <2> QED BY <2>1, <1>3 DEF Ordenada
<1>7. Ordenada(c)
  <2>1. ASSUME NEW i \in 1..Len(c), NEW j \in 1..Len(c), i < j PROVE EnOrden(c[i], c[j])
    <3>1. i \in 1..l /\ c[i] = h[i]
      BY <1>1, <2>1
    <3>2. CASE j = l + 1
      <4>1. x \in Todas(g) /\ h[i] \in Todas(h)
        BY <1>5, <3>1 DEF Todas
      <4> QED BY <3>1, <3>2, <4>1, <1>1 DEF Menores
    <3>3. CASE j # l + 1
      <4>1. j \in 1..l /\ c[j] = h[j]
        BY <3>3, <1>1
      <4> QED BY <3>1, <4>1, <2>1, <1>3 DEF Ordenada
    <3> QED BY <3>2, <3>3
  <2> QED BY <2>1, <1>3 DEF Ordenada
<1>8. Menores({x}, Todas(t))
  <2>1. ASSUME NEW j \in 1..Len(t) PROVE EnOrden(x, t[j])
    <3>1. j + 1 \in 1..Len(g) /\ t[j] = g[j + 1] /\ 1 < j + 1 /\ 1 \in 1..Len(g)
      BY <1>2
    <3> QED BY <3>1, <1>0, <1>3 DEF Ordenada
  <2> QED BY <2>1 DEF Menores, Todas
<1>9. Menores(Todas(c), Todas(t))
  BY <1>4, <1>5, <1>8 DEF Menores
<1> QED BY <1>0, <1>1, <1>2, <1>4, <1>5, <1>6, <1>7, <1>8, <1>9

\* Two files one after the other, when all of the first goes before the second.
LEMMA UneOrdenadas ==
    ASSUME NEW s \in Seq(Completas), NEW u \in Seq(Completas), Ordenada(s), Ordenada(u),
           Menores(Todas(s), Todas(u)), NEW w, w = s \o u
    PROVE  w \in Seq(Completas) /\ Ordenada(w) /\ Todas(w) = Todas(s) \cup Todas(u)
<1>1. /\ w \in Seq(Completas) /\ Len(w) = Len(s) + Len(u) /\ Len(s) \in Nat /\ Len(u) \in Nat
      /\ \A i \in 1..Len(s)+Len(u) : w[i] = IF i <= Len(s) THEN s[i] ELSE u[i - Len(s)]
  BY ConcatProperties
<1>2. DOMAIN w = 1..Len(w) /\ DOMAIN s = 1..Len(s) /\ DOMAIN u = 1..Len(u)
  BY <1>1
<1>3. ASSUME NEW i \in 1..Len(w)
      PROVE  \/ i \in 1..Len(s) /\ w[i] = s[i]
             \/ i > Len(s) /\ i - Len(s) \in 1..Len(u) /\ w[i] = u[i - Len(s)]
  BY <1>1
<1>4. Todas(w) = Todas(s) \cup Todas(u)
  <2>1. \A y \in Todas(w) : y \in Todas(s) \cup Todas(u)
    BY <1>3 DEF Todas
  <2>2. ASSUME NEW i \in 1..Len(s) PROVE s[i] \in Todas(w)
    <3>1. i \in 1..Len(w) /\ w[i] = s[i]
      BY <1>1
    <3> QED BY <3>1 DEF Todas
  <2>3. ASSUME NEW i \in 1..Len(u) PROVE u[i] \in Todas(w)
    <3>1. i + Len(s) \in 1..Len(w) /\ ~ (i + Len(s) <= Len(s)) /\ i + Len(s) - Len(s) = i
      BY <1>1
    <3>2. w[i + Len(s)] = u[i]
      BY <1>1, <3>1
    <3> QED BY <3>1, <3>2 DEF Todas
  <2>4. \A y \in Todas(s) \cup Todas(u) : y \in Todas(w)
    BY <2>2, <2>3 DEF Todas
  <2> QED BY <2>1, <2>4
<1>5. ASSUME NEW i \in 1..Len(w), NEW j \in 1..Len(w), i < j PROVE EnOrden(w[i], w[j])
  <2>1. CASE j <= Len(s)
    <3>1. i \in 1..Len(s) /\ j \in 1..Len(s) /\ w[i] = s[i] /\ w[j] = s[j]
      BY <2>1, <1>1, <1>5
    <3> QED BY <3>1, <1>2, <1>5 DEF Ordenada
  <2>2. CASE i <= Len(s) /\ j > Len(s)
    <3>1. /\ i \in 1..Len(s) /\ j - Len(s) \in 1..Len(u)
          /\ w[i] = s[i] /\ w[j] = u[j - Len(s)]
      BY <2>2, <1>1, <1>5
    <3>2. w[i] \in Todas(s) /\ w[j] \in Todas(u)
      BY <3>1 DEF Todas
    <3> QED BY <3>2 DEF Menores
  <2>3. CASE i > Len(s)
    <3>1. /\ i - Len(s) \in 1..Len(u) /\ j - Len(s) \in 1..Len(u)
          /\ i - Len(s) < j - Len(s)
          /\ w[i] = u[i - Len(s)] /\ w[j] = u[j - Len(s)]
      BY <2>3, <1>1, <1>5
    <3> QED BY <3>1, <1>2 DEF Ordenada
  <2> QED BY <2>1, <2>2, <2>3, <1>1
<1> QED BY <1>1, <1>2, <1>4, <1>5 DEF Ordenada

\* Before an entry of the smallest key of a file goes one of a smaller key, or of the same
\* key and read before it.
LEMMA CabezaMenor ==
    ASSUME NEW x \in Completas, NEW o \in Seq(Completas), o # <<>>, Ordenada(o),
           x.llave <= o[1].llave,
           x.llave < o[1].llave \/ Previas({x}, Todas(o))
    PROVE  Menores({x}, Todas(o))
<1>1. DOMAIN o = 1..Len(o) /\ 1 \in 1..Len(o) /\ \A n \in 1..Len(o) : n = 1 \/ 1 < n
  OBVIOUS
<1>2. x.llave \in Int /\ \A n \in 1..Len(o) : o[n].llave \in Int
  <2>1. \A n \in 1..Len(o) : o[n] \in Completas
    OBVIOUS
  <2> QED BY <2>1 DEF Completas
<1>3. ASSUME NEW n \in 1..Len(o) PROVE EnOrden(x, o[n])
  <2>1. o[1].llave <= o[n].llave
    <3>1. CASE n = 1
      BY <3>1, <1>1, <1>2
    <3>2. CASE 1 < n
      <4>1. EnOrden(o[1], o[n])
        BY <3>2, <1>1 DEF Ordenada
      <4> QED BY <4>1, <1>1, <1>2 DEF EnOrden
    <3> QED BY <3>1, <3>2, <1>1
  <2>2. o[n] \in Todas(o)
    BY DEF Todas
  <2>3. CASE x.llave < o[1].llave
    BY <2>1, <2>3, <1>1, <1>2 DEF EnOrden
  <2>4. CASE Previas({x}, Todas(o))
    <3>1. Antes(x.lugar, o[n].lugar)
      BY <2>2, <2>4 DEF Previas
    <3>2. x.llave <= o[n].llave
      BY <2>1, <1>1, <1>2
    <3> QED BY <3>1, <3>2, <1>2 DEF EnOrden
  <2> QED BY <2>3, <2>4
<1> QED BY <1>3 DEF Menores, Todas

\* A file that is read and written keeps its entries, but for the places when the two
\* programs do not agree on them.
LEMMA CopiaNada == ASSUME NEW o PROVE Copia(o, <<>>, <<>>)
<1>1. <<>> \in Seq(Completas) /\ Len(<<>>) = 0
  OBVIOUS
<1> QED BY <1>1 DEF Copia

\* A file without entries is read as one without them.
LEMMA CopiaVacia ==
    ASSUME NEW o, NEW g, Copia(o, <<>>, g)
    PROVE  g = <<>>
<1>1. g \in Seq(Completas) /\ Len(g) = 0
  BY DEF Copia
<1> QED BY <1>1

\* One more entry at the end.
LEMMA CopiaMas ==
    ASSUME NEW o, NEW h \in Seq(Fichas(o)), NEW k, Copia(o, h, k), NEW x \in Completas,
           NEW y, y = FichaDe(o, x)
    PROVE  Copia(o, Append(h, y), Append(k, x)) /\ y \in Fichas(o)
<1>1. k \in Seq(Completas) /\ Len(h) = Len(k) /\ \A i \in 1..Len(k) : h[i] = FichaDe(o, k[i])
  BY DEF Copia
<1>2. y \in Fichas(o)
  BY DEF Fichas, FichaDe, Completas
<1>3. PICK c, d : c = Append(h, y) /\ d = Append(k, x)
  OBVIOUS
<1>4. /\ d \in Seq(Completas) /\ Len(d) = Len(k) + 1 /\ Len(c) = Len(h) + 1
      /\ c[Len(h) + 1] = y /\ d[Len(k) + 1] = x /\ Len(k) \in Nat
      /\ \A i \in 1..Len(k) : c[i] = h[i] /\ d[i] = k[i]
  <2>1. /\ d \in Seq(Completas) /\ Len(d) = Len(k) + 1 /\ d[Len(k) + 1] = x /\ Len(k) \in Nat
        /\ \A i \in 1..Len(k) : d[i] = k[i]
    BY <1>1, <1>3
  <2>2. /\ Len(c) = Len(h) + 1 /\ c[Len(h) + 1] = y
        /\ \A i \in 1..Len(h) : c[i] = h[i]
    BY <1>2, <1>3
  <2> QED BY <2>1, <2>2, <1>1
<1>5. \A i \in 1..Len(d) : i = Len(k) + 1 \/ i \in 1..Len(k)
  BY <1>4
<1>6. \A i \in 1..Len(d) : c[i] = FichaDe(o, d[i])
  BY <1>1, <1>4, <1>5
<1> QED BY <1>1, <1>2, <1>3, <1>4, <1>6 DEF Copia

\* The first entry of a file, and the rest of it.
LEMMA CopiaCabeza ==
    ASSUME NEW o, NEW s \in Seq(Fichas(o)), s # <<>>, NEW g, Copia(o, s, g)
    PROVE  /\ g \in Seq(Completas) /\ g # <<>> /\ Head(s) = FichaDe(o, Head(g))
           /\ Copia(o, Tail(s), Tail(g)) /\ Tail(s) \in Seq(Fichas(o))
           /\ Head(g) = g[1] /\ g[1] \in Completas /\ Head(s) = s[1] /\ s[1].llave = g[1].llave
<1>1. g \in Seq(Completas) /\ Len(s) = Len(g) /\ \A i \in 1..Len(g) : s[i] = FichaDe(o, g[i])
  BY DEF Copia
<1>2. Len(s) \in Nat \ {0} /\ g # <<>> /\ 1 \in 1..Len(g)
  BY <1>1
<1>3. Head(s) = s[1] /\ Head(g) = g[1] /\ s[1] = FichaDe(o, g[1]) /\ g[1] \in Completas
  BY <1>1, <1>2
<1>4. PICK t, u : t = Tail(s) /\ u = Tail(g)
  OBVIOUS
<1>5. /\ t \in Seq(Fichas(o)) /\ Len(t) = Len(s) - 1 /\ \A i \in 1..Len(t) : t[i] = s[i + 1]
      /\ u \in Seq(Completas) /\ Len(u) = Len(g) - 1 /\ \A i \in 1..Len(u) : u[i] = g[i + 1]
  BY <1>1, <1>2, <1>4, HeadTailProperties
<1>6. \A i \in 1..Len(u) : i + 1 \in 1..Len(g)
  BY <1>1, <1>2, <1>5
<1>7. Copia(o, t, u)
  BY <1>1, <1>5, <1>6 DEF Copia
<1>8. s[1].llave = g[1].llave
  BY <1>3 DEF FichaDe
<1> QED BY <1>1, <1>2, <1>3, <1>4, <1>5, <1>7, <1>8

\* One file after the other.
LEMMA CopiaUne ==
    ASSUME NEW o, NEW s \in Seq(Fichas(o)), NEW u \in Seq(Fichas(o)), NEW g, NEW k,
           Copia(o, s, g), Copia(o, u, k)
    PROVE  Copia(o, s \o u, g \o k)
<1>1. /\ g \in Seq(Completas) /\ Len(s) = Len(g) /\ \A i \in 1..Len(g) : s[i] = FichaDe(o, g[i])
      /\ k \in Seq(Completas) /\ Len(u) = Len(k) /\ \A i \in 1..Len(k) : u[i] = FichaDe(o, k[i])
  BY DEF Copia
<1>2. PICK c, d : c = s \o u /\ d = g \o k
  OBVIOUS
<1>3. /\ Len(c) = Len(s) + Len(u) /\ Len(s) \in Nat /\ Len(u) \in Nat
      /\ \A i \in 1..Len(s)+Len(u) : c[i] = IF i <= Len(s) THEN s[i] ELSE u[i - Len(s)]
  BY <1>2, ConcatProperties
<1>4. /\ d \in Seq(Completas) /\ Len(d) = Len(g) + Len(k)
      /\ \A i \in 1..Len(g)+Len(k) : d[i] = IF i <= Len(g) THEN g[i] ELSE k[i - Len(g)]
  BY <1>1, <1>2, ConcatProperties
<1>5. ASSUME NEW i \in 1..Len(d) PROVE c[i] = FichaDe(o, d[i])
  <2>1. CASE i <= Len(s)
    <3>1. i \in 1..Len(g) /\ c[i] = s[i] /\ d[i] = g[i]
      BY <2>1, <1>1, <1>3, <1>4
    <3> QED BY <3>1, <1>1
  <2>2. CASE ~ (i <= Len(s))
    <3>1. i - Len(s) \in 1..Len(k) /\ c[i] = u[i - Len(s)] /\ d[i] = k[i - Len(s)]
      BY <2>2, <1>1, <1>3, <1>4
    <3> QED BY <3>1, <1>1
  <2> QED BY <2>1, <2>2
<1> QED BY <1>1, <1>2, <1>3, <1>4, <1>5 DEF Copia

-----------------------------------------------------------------------------
(* Reading *)

\* The input, its records and what is read of them, as functions of the options and files.
RegsP(a) == UNION {{f} \X DOMAIN a[f].regs : f \in DOMAIN a}
RegP(a, l) == a[l[1]].regs[l[2]]
NoCuentaP(o, a, f, n) ==
    \/ o.forma = "lineas" /\ a[f].cortado /\ n = Len(a[f].regs)
    \/ o.forma = "fijo" /\ o.salta /\ a[f].regs[n].borrado
LugaresP(o, a) == {l \in RegsP(a) : /\ ~NoCuentaP(o, a, l[1], l[2])
                                    /\ o.forma = "fijo" /\ o.salta => l[2] > 1}
LargasP(a, l) == {m \in RegsP(a) : RegP(a, m).k # Corta /\ Antes(m, l)}
UltimaP(L) == CHOOSE m \in L : \A n \in L : n = m \/ Antes(n, m)
ColumnasP(a, l) == IF LargasP(a, l) = {} THEN 0 ELSE RegP(a, UltimaP(LargasP(a, l))).k
LlaveP(o, b) == IF o.desc THEN Tope - b ELSE b
LeidoP(o, a, l) == [llave |-> LlaveP(o, Columnas(RegP(a, l), ColumnasP(a, l))), lugar |-> l]
LeidaP(o, a) == {LeidoP(o, a, l) : l \in LugaresP(o, a)}
LeidasP(o, a, p) == {x \in LeidaP(o, a) : Antes(x.lugar, p)}

\* What the buffer holds by the definitions of the model.
LEMMA ColumnasEs == ColumnasAntes(<<e, pos>>) = ColumnasP(archivos, <<e, pos>>)
  BY Zenon DEF ColumnasAntes, ColumnasP, LargasP, RegsP, RegP, UltimaP, Registro, Registros

\* And in the next state.
LEMMA ColumnasEsN == (ColumnasAntes(<<e, pos>>))' = ColumnasP(archivos', <<e', pos'>>)
  BY Zenon DEF ColumnasAntes, ColumnasP, LargasP, RegsP, RegP, UltimaP, Registro, Registros

\* What is read by the definitions of the model, and in the next state.
LEMMA LeidaEs == Leida = LeidaP(op, archivos) /\ Leidas = LeidasP(op, archivos, <<e, pos>>)
<1>1. Leida = LeidaP(op, archivos)
  BY Zenon DEF ColumnasAntes, ColumnasP, LargasP, RegsP, RegP, UltimaP, Registro, Registros,
         Leida, LeidaP, LeidoP, Llave, LlaveP, Lugares, LugaresP, NoCuenta, NoCuentaP
<1> QED BY <1>1, Zenon DEF Leidas, LeidasP

\* And in the next state.
LEMMA LeidaEsN ==
    Leida' = LeidaP(op', archivos') /\ Leidas' = LeidasP(op', archivos', <<e', pos'>>)
<1>1. Leida' = LeidaP(op', archivos')
  BY Zenon DEF ColumnasAntes, ColumnasP, LargasP, RegsP, RegP, UltimaP, Registro, Registros,
         Leida, LeidaP, LeidoP, Llave, LlaveP, Lugares, LugaresP, NoCuenta, NoCuentaP
<1> QED BY <1>1, Zenon DEF Leidas, LeidasP

\* The places of the records.
LEMMA RegistrosSon ==
    ASSUME NEW a \in Entradas
    PROVE  /\ Len(a) \in Nat
           /\ \A f \in 1..Len(a) : Len(a[f].regs) \in Nat
           /\ \A l \in RegsP(a) : /\ l[1] \in 1..Len(a) /\ l[2] \in 1..Len(a[l[1]].regs)
                                  /\ l = <<l[1], l[2]>> /\ l \in Nat \X Nat
                                  /\ RegP(a, l).k \in (0..Tope) \cup {Corta}
           /\ \A f \in 1..Len(a) : \A n \in 1..Len(a[f].regs) : <<f, n>> \in RegsP(a)
<1> DEFINE R == [k : (0..Tope) \cup {Corta}, borrado : BOOLEAN]
           A == [regs : Seq(R), cortado : BOOLEAN]
<1>1. a \in Seq(A)
  BY Zenon DEF Entradas
<1>2. \A f \in 1..Len(a) : a[f] \in A
  <2> HIDE DEF A
  <2> QED BY <1>1
<1>3. \A f \in 1..Len(a) : a[f].regs \in Seq(R)
  <2> HIDE DEF R
  <2> QED BY <1>2
<1>4. ASSUME NEW f \in 1..Len(a), NEW n \in 1..Len(a[f].regs)
      PROVE  a[f].regs[n].k \in (0..Tope) \cup {Corta}
  <2>1. a[f].regs[n] \in R
    <3> HIDE DEF R
    <3> QED BY <1>3
  <2> QED BY <2>1
<1>5. /\ DOMAIN a = 1..Len(a) /\ Len(a) \in Nat
      /\ \A f \in 1..Len(a) : Len(a[f].regs) \in Nat /\ DOMAIN a[f].regs = 1..Len(a[f].regs)
  <2>1. DOMAIN a = 1..Len(a) /\ Len(a) \in Nat
    <3> HIDE DEF A
    <3> QED BY <1>1
  <2> QED BY <1>3, <2>1
<1>6. ASSUME NEW l \in RegsP(a)
      PROVE  l[1] \in 1..Len(a) /\ l[2] \in 1..Len(a[l[1]].regs) /\ l = <<l[1], l[2]>>
  <2>1. PICK f \in DOMAIN a : l \in {f} \X DOMAIN a[f].regs
    BY Zenon DEF RegsP
  <2>2. l[1] = f /\ l[2] \in DOMAIN a[f].regs /\ l = <<l[1], l[2]>>
    BY <2>1
  <2> QED BY <2>2, <1>5
<1>7. ASSUME NEW l \in RegsP(a)
      PROVE  l \in Nat \X Nat /\ RegP(a, l).k \in (0..Tope) \cup {Corta}
  BY <1>4, <1>5, <1>6, <1>7 DEF RegP
<1>8. ASSUME NEW f \in 1..Len(a), NEW n \in 1..Len(a[f].regs) PROVE <<f, n>> \in RegsP(a)
  <2>1. <<f, n>> \in {f} \X DOMAIN a[f].regs
    BY <1>5
  <2> QED BY <1>5, <2>1 DEF RegsP
<1> QED BY <1>5, <1>6, <1>7, <1>8

\* Two places with the same records before them.
LEMMA MismasLeidas ==
    ASSUME NEW o, NEW a, NEW p, NEW q, \A l \in LugaresP(o, a) : Antes(l, p) <=> Antes(l, q)
    PROVE  LeidasP(o, a, p) = LeidasP(o, a, q)
<1>1. \A x \in LeidaP(o, a) : Antes(x.lugar, p) <=> Antes(x.lugar, q)
  BY DEF LeidaP, LeidoP
<1> QED BY <1>1 DEF LeidasP

\* The buffer is the same at two such places.
LEMMA MismasColumnas ==
    ASSUME NEW a, NEW p, NEW q, \A l \in RegsP(a) : Antes(l, p) <=> Antes(l, q)
    PROVE  ColumnasP(a, p) = ColumnasP(a, q)
<1>1. LargasP(a, p) = LargasP(a, q)
  BY DEF LargasP
<1> QED BY <1>1 DEF ColumnasP

\* The place of the next record, and the place after it.
LEMMA UnPaso ==
    ASSUME NEW a \in Entradas, NEW f \in 1..Len(a), NEW n \in 1..Len(a[f].regs), NEW l \in RegsP(a)
    PROVE  Antes(l, <<f, n + 1>>) <=> Antes(l, <<f, n>>) \/ l = <<f, n>>
<1>1. /\ l[1] \in Nat /\ l[2] \in Nat /\ f \in Nat /\ n \in Nat /\ l = <<l[1], l[2]>>
  BY RegistrosSon
<1>2. l = <<f, n>> <=> l[1] = f /\ l[2] = n
  BY <1>1
<1> QED BY <1>1, <1>2 DEF Antes

\* One record more is read, when it counts.
LEMMA UnaLeida ==
    ASSUME NEW o, NEW a \in Entradas, NEW f \in 1..Len(a), NEW n \in 1..Len(a[f].regs)
    PROVE  /\ <<f, n>> \in LugaresP(o, a) =>
                  LeidasP(o, a, <<f, n + 1>>) = LeidasP(o, a, <<f, n>>) \cup {LeidoP(o, a, <<f, n>>)}
           /\ <<f, n>> \notin LugaresP(o, a) => LeidasP(o, a, <<f, n + 1>>) = LeidasP(o, a, <<f, n>>)
           /\ ColumnasP(a, <<f, n + 1>>) = Columnas(RegP(a, <<f, n>>), ColumnasP(a, <<f, n>>))
<1>1. \A l \in RegsP(a) : Antes(l, <<f, n + 1>>) <=> Antes(l, <<f, n>>) \/ l = <<f, n>>
  BY UnPaso
<1>2. <<f, n>> \in RegsP(a) /\ \A l \in LugaresP(o, a) : l \in RegsP(a)
  BY RegistrosSon DEF LugaresP
<1>3. ~ Antes(<<f, n>>, <<f, n>>)
  BY RegistrosSon DEF Antes
<1> DEFINE p == <<f, n>>
           q == <<f, n + 1>>
<1> HIDE DEF p, q
<1>4. /\ \A l \in RegsP(a) : Antes(l, q) <=> Antes(l, p) \/ l = p
      /\ p \in RegsP(a) /\ ~ Antes(p, p)
  BY <1>1, <1>2, <1>3 DEF p, q
<1>5. ASSUME p \notin LugaresP(o, a) PROVE LeidasP(o, a, q) = LeidasP(o, a, p)
  BY <1>2, <1>4, <1>5, MismasLeidas
<1>6. ASSUME p \in LugaresP(o, a)
      PROVE  LeidasP(o, a, q) = LeidasP(o, a, p) \cup {LeidoP(o, a, p)}
  <2>1. LeidoP(o, a, p) \in LeidaP(o, a) /\ LeidoP(o, a, p).lugar = p
    BY <1>6 DEF LeidaP, LeidoP
  <2>2. \A x \in LeidaP(o, a) : Antes(x.lugar, q) <=> Antes(x.lugar, p) \/ x = LeidoP(o, a, p)
    <3> SUFFICES ASSUME NEW l \in LugaresP(o, a)
                 PROVE  Antes(l, q) <=> Antes(l, p) \/ LeidoP(o, a, l) = LeidoP(o, a, p)
      BY DEF LeidaP, LeidoP
    <3>1. LeidoP(o, a, l) = LeidoP(o, a, p) => l = p
      BY DEF LeidoP
    <3> QED BY <3>1, <1>2, <1>4
  <2> QED BY <2>1, <2>2, <1>4 DEF LeidasP
<1>7. ColumnasP(a, q) = Columnas(RegP(a, p), ColumnasP(a, p))
  <2>1. CASE RegP(a, p).k = Corta
    <3>1. LargasP(a, q) = LargasP(a, p)
      BY <2>1, <1>4 DEF LargasP
    <3> QED BY <2>1, <3>1 DEF ColumnasP, Columnas
  <2>2. CASE RegP(a, p).k # Corta
    <3>1. p \in LargasP(a, q) /\ \A m \in LargasP(a, q) : m = p \/ Antes(m, p)
      BY <2>2, <1>4 DEF LargasP
    <3>2. UltimaP(LargasP(a, q)) = p
      <4> DEFINE L == LargasP(a, q)
                 u == UltimaP(L)
      <4>1. \E m \in L : \A k \in L : k = m \/ Antes(k, m)
        BY <3>1
      <4>2. u \in L /\ \A k \in L : k = u \/ Antes(k, u)
        <5> HIDE DEF L
        <5> QED BY <4>1 DEF UltimaP
      <4>3. p = u \/ (Antes(p, u) /\ Antes(u, p))
        BY <3>1, <4>2
      <4>4. u \in RegsP(a)
        BY <4>2 DEF LargasP
      <4>5. ~ (Antes(p, u) /\ Antes(u, p))
        <5> HIDE DEF u
        <5>1. u[1] \in Nat /\ u[2] \in Nat /\ p[1] \in Nat /\ p[2] \in Nat
          BY <4>4, <1>4, RegistrosSon
        <5> QED BY <5>1 DEF Antes
      <4> QED BY <4>3, <4>5
    <3>3. LargasP(a, q) # {}
      BY <3>1
    <3> QED BY <2>2, <3>2, <3>3 DEF ColumnasP, Columnas
  <2> QED BY <2>1, <2>2
<1> QED BY <1>5, <1>6, <1>7 DEF p, q

\* The end of a file and the start of the next one.
LEMMA OtroArchivo ==
    ASSUME NEW o \in Opciones, NEW a \in Entradas, NEW f \in 0..Len(a)-1, NEW n \in Nat,
           f > 0 => n > Len(a[f].regs), NEW m \in {1, 2},
           m = 2 => o.forma = "fijo" /\ o.salta
    PROVE  /\ LeidasP(o, a, <<f + 1, m>>) = LeidasP(o, a, <<f, n>>)
           /\ m = 1 => ColumnasP(a, <<f + 1, m>>) = ColumnasP(a, <<f, n>>)
<1>1. ASSUME NEW l \in RegsP(a), m = 2 => l[2] > 1
      PROVE  Antes(l, <<f + 1, m>>) <=> Antes(l, <<f, n>>)
  <2>1. /\ l[1] \in 1..Len(a) /\ l[2] \in 1..Len(a[l[1]].regs)
        /\ Len(a) \in Nat /\ Len(a[l[1]].regs) \in Nat
    BY RegistrosSon
  <2>2. l[1] \in Nat \ {0} /\ l[2] \in Nat \ {0} /\ f \in Nat /\ (l[1] = f => l[2] < n)
    <3>1. l[1] = f => l[2] <= Len(a[f].regs) /\ f > 0
      BY <2>1
    <3> QED BY <2>1, <3>1
  <2>3. ~ (l[2] < m)
    BY <1>1, <2>2
  <2>4. Antes(l, <<f + 1, m>>) <=> l[1] < f + 1
    BY <2>3 DEF Antes
  <2>5. Antes(l, <<f, n>>) <=> l[1] < f + 1
    BY <2>2 DEF Antes
  <2> QED BY <2>4, <2>5
<1>2. \A l \in LugaresP(o, a) : l \in RegsP(a) /\ (m = 2 => l[2] > 1)
  BY DEF LugaresP
<1>3. LeidasP(o, a, <<f + 1, m>>) = LeidasP(o, a, <<f, n>>)
  BY <1>1, <1>2, MismasLeidas
<1>4. m = 1 => ColumnasP(a, <<f + 1, m>>) = ColumnasP(a, <<f, n>>)
  BY <1>1, MismasColumnas
<1> QED BY <1>3, <1>4

\* When the last file has ended everything is read.
LEMMA TodoLeido ==
    ASSUME NEW o, NEW a \in Entradas, NEW n \in Nat,
           Len(a) > 0 => n > Len(a[Len(a)].regs)
    PROVE  LeidasP(o, a, <<Len(a), n>>) = LeidaP(o, a)
<1>1. ASSUME NEW l \in RegsP(a) PROVE Antes(l, <<Len(a), n>>)
  <2>1. /\ l[1] \in 1..Len(a) /\ l[2] \in 1..Len(a[l[1]].regs)
        /\ Len(a) \in Nat /\ Len(a[l[1]].regs) \in Nat
    BY RegistrosSon
  <2>2. l[1] = Len(a) => l[2] < n
    BY <2>1
  <2> QED BY <2>1, <2>2 DEF Antes
<1>2. \A x \in LeidaP(o, a) : Antes(x.lugar, <<Len(a), n>>)
  BY <1>1 DEF LeidaP, LeidoP, LugaresP
<1> QED BY <1>2 DEF LeidasP

-----------------------------------------------------------------------------
(* What has been read *)

Fuera == fase \notin {"abre", "lee"} /\ ~ (fase = "recorre" /\ sigue = "lee")

\* What does not read leaves what has been read as it was.
LEMMA LeeIntacto ==
    ASSUME LeeT, UNCHANGED <<op, archivos, e, pos, inbuf>>, Fuera' => Fuera,
           fase' = "abre" => fase = "abre"
    PROVE  LeeT' /\ Leida' = Leida /\ Leidas' = Leidas
<1>1. Leida' = Leida /\ Leidas' = Leidas
  BY LeidaEs, LeidaEsN
<1>2. (ColumnasAntes(<<e, pos>>))' = ColumnasAntes(<<e, pos>>)
  BY ColumnasEs, ColumnasEsN
<1> QED BY <1>1, <1>2 DEF LeeT, Fuera

\* Opening the next file.
LEMMA LeeAbre == ASSUME InvS, LeeT, Abre PROVE LeeT' /\ Leidas' = Leidas /\ Leida' = Leida
<1>1. /\ op \in Opciones /\ archivos \in Entradas /\ e \in 0..Len(archivos)-1 /\ pos \in Nat
      /\ e > 0 => pos > Len(archivos[e].regs)
  <2>1. op \in Opciones /\ archivos \in Entradas /\ e \in 0..Len(archivos) /\ pos \in Nat
    BY DEF InvS, TipoS
  <2>2. e < Len(archivos) /\ fase = "abre"
    BY DEF Abre
  <2> QED BY <2>1, <2>2 DEF LeeT, Entradas
<1>2. /\ op' = op /\ archivos' = archivos /\ e' = e + 1 /\ inbuf' = inbuf /\ fase' = "lee"
      /\ pos' \in {1, 2} /\ (pos' = 2 <=> op.forma = "fijo" /\ op.salta)
  BY DEF Abre, entrada
<1>3. PICK m : m = pos'
  OBVIOUS
<1>4. /\ LeidasP(op, archivos, <<e + 1, m>>) = LeidasP(op, archivos, <<e, pos>>)
      /\ m = 1 => ColumnasP(archivos, <<e + 1, m>>) = ColumnasP(archivos, <<e, pos>>)
  BY <1>1, <1>2, <1>3, OtroArchivo
<1>5. Leidas' = Leidas /\ Leida' = Leida
  BY <1>2, <1>3, <1>4, LeidaEs, LeidaEsN
<1>6. op.forma = "lineas" => inbuf = (ColumnasAntes(<<e, pos>>))'
  <2>1. op.forma = "lineas" => m = 1
    BY <1>2, <1>3
  <2> QED BY <2>1, <1>2, <1>3, <1>4, ColumnasEs, ColumnasEsN DEF LeeT
<1>7. op.forma = "fijo" /\ op.salta => pos' > 1
  BY <1>2
<1> QED BY <1>2, <1>5, <1>6, <1>7 DEF LeeT

\* The record that is read.
LEMMA LeeUno ==
    ASSUME InvS, LeeT, fase = "lee", pos <= Len(Regs),
           UNCHANGED <<op, archivos, e>>, pos' = pos + 1, inbuf' = Columnas(Regs[pos], inbuf),
           fase' = "lee" \/ (fase' = "recorre" /\ sigue' = "lee")
    PROVE  /\ LeeT' /\ Leida' = Leida
           /\ NoCuenta(e, pos) => Leidas' = Leidas
           /\ ~ NoCuenta(e, pos) =>
                  Leidas' = Leidas \cup {[llave |-> Llave(Columnas(Regs[pos], inbuf)),
                                          lugar |-> <<e, pos>>]}
           /\ \A x \in Leidas : Antes(x.lugar, <<e, pos>>)
<1>1. /\ op \in Opciones /\ archivos \in Entradas /\ e \in 1..Len(archivos)
      /\ pos \in 1..Len(archivos[e].regs)
  <2>1. /\ op \in Opciones /\ archivos \in Entradas /\ e \in 0..Len(archivos) /\ pos \in Nat
        /\ e > 0 /\ pos > 0
    BY DEF InvS, TipoS
  <2>2. e \in 1..Len(archivos)
    BY <2>1 DEF Entradas
  <2>3. Len(archivos[e].regs) \in Nat
    BY <2>1, <2>2, RegistrosSon
  <2> QED BY <2>1, <2>2, <2>3 DEF Regs
<1> DEFINE p == <<e, pos>>
<1>2. Regs[pos] = RegP(archivos, p)
  BY DEF Regs, RegP
<1>3. NoCuentaP(op, archivos, e, pos) <=> NoCuenta(e, pos)
  BY DEF NoCuenta, NoCuentaP
<1>4. p \in LugaresP(op, archivos) <=> ~ NoCuenta(e, pos)
  <2>1. p \in RegsP(archivos) /\ p[1] = e /\ p[2] = pos
    BY <1>1, RegistrosSon
  <2>2. op.forma = "fijo" /\ op.salta => pos > 1
    BY <1>1 DEF LeeT
  <2> QED BY <2>1, <2>2, <1>3 DEF LugaresP
<1>5. /\ p \in LugaresP(op, archivos) =>
             LeidasP(op, archivos, <<e, pos + 1>>) =
                 LeidasP(op, archivos, p) \cup {LeidoP(op, archivos, p)}
      /\ p \notin LugaresP(op, archivos) =>
             LeidasP(op, archivos, <<e, pos + 1>>) = LeidasP(op, archivos, p)
      /\ ColumnasP(archivos, <<e, pos + 1>>) =
             Columnas(RegP(archivos, p), ColumnasP(archivos, p))
  BY <1>1, UnaLeida
<1>6. Columnas(RegP(archivos, p), ColumnasP(archivos, p)) = Columnas(Regs[pos], inbuf)
  <2>1. CASE op.forma = "lineas"
    BY <2>1, <1>2, ColumnasEs DEF LeeT
  <2>2. CASE op.forma # "lineas"
    <3>1. Regs[pos].k # Corta
      BY <2>2, <1>1 DEF Regs, LeeT
    <3> QED BY <3>1, <1>2 DEF Columnas
  <2> QED BY <2>1, <2>2
<1>7. LeidoP(op, archivos, p) = [llave |-> Llave(Columnas(Regs[pos], inbuf)), lugar |-> p]
  BY <1>6 DEF LeidoP, LlaveP, Llave
<1>8. Leida' = Leida /\ Leidas = LeidasP(op, archivos, p)
      /\ Leidas' = LeidasP(op, archivos, <<e, pos + 1>>)
  BY LeidaEs, LeidaEsN
<1>9. /\ NoCuenta(e, pos) => Leidas' = Leidas
      /\ ~ NoCuenta(e, pos) =>
             Leidas' = Leidas \cup {[llave |-> Llave(Columnas(Regs[pos], inbuf)), lugar |-> p]}
  BY <1>4, <1>5, <1>7, <1>8
<1>10. Leidas' \in SUBSET Completas
  <2>1. Llave(Columnas(Regs[pos], inbuf)) \in Int /\ p \in Nat \X Nat
    BY <1>1, LeeRegistro DEF InvS
  <2>2. [llave |-> Llave(Columnas(Regs[pos], inbuf)), lugar |-> p] \in Completas
    BY <2>1 DEF Completas
  <2> HIDE DEF p
  <2> QED BY <1>9, <2>2 DEF LeeT
<1>11. LeeT'
  <2>1. (ColumnasAntes(<<e, pos>>))' = Columnas(Regs[pos], inbuf)
    BY <1>5, <1>6, ColumnasEsN
  <2>2. op.forma = "fijo" /\ op.salta => pos + 1 > 1
    BY <1>1
  <2> QED BY <2>1, <2>2, <1>10 DEF LeeT
<1>12. \A x \in Leidas : Antes(x.lugar, <<e, pos>>)
  BY <1>8 DEF LeidasP
<1> HIDE DEF p
<1> QED BY <1>8, <1>9, <1>11, <1>12 DEF p

\* The end of a file.
LEMMA LeeAcaba == ASSUME LeeT, Acaba PROVE LeeT' /\ Leidas' = Leidas /\ Leida' = Leida
<1>1. /\ op' = op /\ archivos' = archivos /\ e' = e /\ pos' = pos /\ inbuf' = inbuf
      /\ fase' = "abre" /\ pos > Len(archivos[e].regs)
  BY DEF Acaba, entrada, Regs
<1>2. Leida' = Leida /\ Leidas' = Leidas
  BY <1>1, LeidaEs, LeidaEsN
<1>3. (ColumnasAntes(<<e, pos>>))' = ColumnasAntes(<<e, pos>>)
  BY <1>1, ColumnasEs, ColumnasEsN
<1> QED BY <1>1, <1>2, <1>3 DEF LeeT

\* The end of the input: all of it has been read.
LEMMA LeeFinal ==
    ASSUME InvS, LeeT, AlFinal
    PROVE  LeeT' /\ Leidas' = Leidas /\ Leida' = Leida /\ Leidas = Leida
<1>1. /\ op' = op /\ archivos' = archivos /\ e' = e /\ pos' = pos /\ inbuf' = inbuf
      /\ fase = "abre" /\ fase' # "abre" /\ e = Len(archivos)
  BY DEF AlFinal, entrada, Recorrera
<1>2. Leida' = Leida /\ Leidas' = Leidas
  BY <1>1, LeidaEs, LeidaEsN
<1>3. (ColumnasAntes(<<e, pos>>))' = ColumnasAntes(<<e, pos>>)
  BY <1>1, ColumnasEs, ColumnasEsN
<1>4. Leidas = Leida
  <2>1. archivos \in Entradas /\ pos \in Nat
    BY DEF InvS, TipoS
  <2>2. Len(archivos) > 0 => pos > Len(archivos[Len(archivos)].regs)
    BY <1>1 DEF LeeT
  <2>3. LeidasP(op, archivos, <<Len(archivos), pos>>) = LeidaP(op, archivos)
    BY <2>1, <2>2, TodoLeido
  <2> QED BY <2>3, <1>1, LeidaEs
<1> QED BY <1>1, <1>2, <1>3, <1>4 DEF LeeT

\* What is read stays what it was, step by step.
LEMMA PasoLee ==
    ASSUME InvS, LeeT, Next
    PROVE  /\ LeeT' /\ Leida' = Leida
           /\ ~ FormKey => Leidas' = Leidas
<1>1. CASE Abre
  BY <1>1, LeeAbre
<1>2. CASE Salta
  <2>1. /\ fase = "lee" /\ pos <= Len(Regs) /\ NoCuenta(e, pos)
        /\ op' = op /\ archivos' = archivos /\ e' = e
        /\ pos' = pos + 1 /\ inbuf' = Columnas(Regs[pos], inbuf) /\ fase' = "lee"
    BY <1>2 DEF Salta, entrada
  <2> QED BY <2>1, LeeUno
<1>3. CASE Acaba
  BY <1>3, LeeAcaba
<1>4. CASE FormKey
  <2>1. /\ fase = "lee" /\ pos <= Len(Regs) /\ ~NoCuenta(e, pos)
        /\ op' = op /\ archivos' = archivos /\ e' = e
        /\ pos' = pos + 1 /\ inbuf' = Columnas(Regs[pos], inbuf)
    BY <1>4 DEF FormKey, entrada
  <2>2. fase' = "lee" \/ (fase' = "recorre" /\ sigue' = "lee")
    BY <1>4, <2>1 DEF FormKey, Recorrera
  <2> QED BY <1>4, <2>1, <2>2, LeeUno
<1>5. CASE AlFinal
  BY <1>5, LeeFinal
<1>6. CASE Baja
  <2>1. /\ UNCHANGED <<op, archivos, e, pos, inbuf>> /\ fase' = fase /\ sigue' = sigue
    BY <1>6 DEF Baja, entrada
  <2> QED BY <2>1, LeeIntacto DEF Fuera
<1>7. CASE Pone
  <2>1. /\ UNCHANGED <<op, archivos, e, pos, inbuf>> /\ fase = "recorre" /\ sigue' = sigue
        /\ fase' = fase \/ fase' = sigue
    BY <1>7 DEF Pone, entrada
  <2>2. sigue \in {"lee", "mezcla", "cierra"}
    BY DEF InvS, TipoS
  <2> QED BY <2>1, <2>2, LeeIntacto DEF Fuera
<1>8. CASE Mezcla \/ Compara \/ Saca \/ Sacado \/ Cierra
  <2>1. /\ UNCHANGED <<op, archivos, e, pos, inbuf>> /\ fase \in {"mezcla", "compara", "cierra"}
    BY <1>8 DEF Mezcla, Compara, Saca, Sacado, Cierra, Mezclado, entrada
  <2>2. fase' # "abre"
    BY <1>8, <2>1 DEF Mezcla, Compara, Saca, Sacado, Cierra, AlCerrar
  <2> QED BY <2>1, <2>2, LeeIntacto DEF Fuera
<1> QED BY <1>1, <1>2, <1>3, <1>4, <1>5, <1>6, <1>7, <1>8 DEF Next

-----------------------------------------------------------------------------
(* The course of the program *)

\* The stack of a walk is shorter than the tree.
LEMMA PilaCabe == ASSUME InvS', fase' = "recorre" PROVE Len(pila') < op'.tokeys
<1>1. PICK a, x, p, b, o : a = arbol' /\ x = nodo' /\ p = pila' /\ b = bajando' /\ o = op'
  OBVIOUS
<1>2. /\ Len(a) <= o.tokeys
      /\ \E q, r, desde, hasta, j : /\ EsArbol(a, q, r, desde, hasta)
                                    /\ EnRecorrido(a, r, desde, hasta, x, p, b, j)
  BY <1>1 DEF InvS, RecorreS
<1>3. a \in Seq(Nodos) /\ b \in BOOLEAN /\ o.tokeys \in Nat
  BY <1>1 DEF InvS, TipoS, Opciones
<1>4. PICK q, r, desde, hasta, j : /\ EsArbol(a, q, r, desde, hasta)
                                   /\ EnRecorrido(a, r, desde, hasta, x, p, b, j)
  BY <1>2
<1>5. Len(p) < Len(a)
  BY <1>3, <1>4, PilaCorta
<1>6. Len(p) \in Nat /\ Len(a) \in Nat
  BY <1>3, <1>4 DEF EnRecorrido
<1> QED BY <1>1, <1>2, <1>3, <1>5, <1>6

\* The course of the program, at the start and at every step.
LEMMA FaseInicio == ASSUME Init PROVE FaseT
<1>1. PICK t \in Trabajos : op = t.op
  BY DEF Init
<1>2. op.tokeys \in Nat \ {0} /\ Len(<<>>) = 0
  BY <1>1, TrabajosAssumption
<1> QED BY <1>2 DEF Init, FaseT, Mezclando

\* Reading.
LEMMA FaseLee == ASSUME InvS, InvS', FaseT, Abre \/ Salta \/ Acaba \/ FormKey PROVE FaseT'
<1>1. /\ op' = op /\ f1' = f1 /\ f2' = f2 /\ ff' = ff /\ pasada' = pasada
      /\ fase \in {"abre", "lee"}
  BY DEF Abre, Salta, Acaba, FormKey, entrada, mezclado, recorrido
<1>2. pasada = 0 /\ sigue = "lee"
  BY <1>1 DEF InvS, LlenaS, FaseT
<1>3. \/ pila' = pila /\ sigue' = sigue /\ fase' \in {"abre", "lee"}
      \/ fase' = "recorre" /\ sigue' = "lee"
  BY <1>1 DEF Abre, Salta, Acaba, FormKey, entrada, mezclado, recorrido, Recorrera
<1>4. Len(pila') < op'.tokeys
  BY <1>1, <1>3, PilaCabe DEF FaseT
<1> QED BY <1>1, <1>2, <1>3, <1>4 DEF FaseT, Mezclando

\* The end of the input.
LEMMA FaseFinal == ASSUME InvS, InvS', FaseT, AlFinal PROVE FaseT'
<1>1. /\ op' = op /\ f1' = f1 /\ f2' = f2 /\ ff' = ff /\ pasada' = pasada /\ fase = "abre"
  BY DEF AlFinal, entrada, mezclado
<1>2. pasada = 0 /\ sigue = "lee"
  BY <1>1 DEF InvS, LlenaS, FaseT
<1>3. \/ pila' = pila /\ sigue' = sigue /\ fase' \in {"sin_llave", "basura"}
      \/ fase' = "recorre" /\ sigue' \in {"mezcla", "cierra"}
  BY DEF AlFinal, recorrido, Recorrera
<1>4. Len(pila') < op'.tokeys
  BY <1>1, <1>3, PilaCabe DEF FaseT
<1>5. sigue' = "cierra" => corridas' = <<>> /\ op.indice = "no"
  BY <1>2 DEF AlFinal, recorrido, Recorrera
<1>6. sigue' = "mezcla" /\ op.indice = "no" => Len(corridas') > 1
  <2>1. CASE sigue' = "mezcla" /\ op.indice = "no"
    <3>1. corridas # <<>> /\ corridas' = Append(corridas, <<>>)
      BY <1>2, <2>1 DEF AlFinal, recorrido, Recorrera
    <3>2. PICK F : F = Seq(Fichas(op))
      OBVIOUS
    <3>3. corridas \in Seq(F) /\ <<>> \in F
      BY <3>2 DEF InvS, TipoS
    <3> QED BY <3>1, <3>3
  <2> QED BY <2>1
<1> QED BY <1>1, <1>2, <1>3, <1>4, <1>5, <1>6 DEF FaseT, Mezclando

\* Walking the tree.
LEMMA FaseRecorre == ASSUME InvS, InvS', FaseT, Baja \/ Pone PROVE FaseT'
<1>1. /\ op' = op /\ f1' = f1 /\ f2' = f2 /\ ff' = ff /\ pasada' = pasada
      /\ fase = "recorre" /\ sigue' = sigue
  BY DEF Baja, Pone, entrada, mezclado
<1>2. pasada = 0 /\ sigue \in {"lee", "mezcla", "cierra"}
  BY <1>1 DEF InvS, LlenaS, TipoS
<1>3. \/ fase' = "recorre"
      \/ pila' = pila /\ fase' = sigue /\ arbol' = <<>>
  BY <1>1 DEF Baja, Pone
<1>4. Len(pila') < op'.tokeys
  BY <1>1, <1>3, PilaCabe DEF FaseT
<1>5. Len(corridas') = Len(corridas) /\ (sigue = "cierra" => corridas' = corridas)
  <2>1. CASE corridas' = corridas
    BY <2>1
  <2>2. CASE corridas' # corridas
    <3>1. sigue # "cierra" /\ corridas' = [corridas EXCEPT ![Len(corridas)] = Append(@, Ficha(arbol[nodo]))]
      BY <2>2 DEF Baja, Pone
    <3>2. PICK F : F = Seq(Fichas(op))
      OBVIOUS
    <3>3. corridas \in Seq(F) /\ corridas' \in Seq(F)
      BY <1>1, <3>2 DEF InvS, TipoS
    <3>4. DOMAIN corridas' = DOMAIN corridas
      BY <3>1
    <3> QED BY <3>1, <3>3, <3>4
  <2> QED BY <2>1, <2>2
<1>6. fase' = "mezcla" => corridas' # <<>>
  BY DEF InvS, LlenaS
<1> QED BY <1>1, <1>2, <1>3, <1>4, <1>5, <1>6 DEF FaseT, Mezclando

\* Merging.
LEMMA FaseMezcla == ASSUME InvS, InvS', FaseT, Mezcla PROVE FaseT'
<1>1. /\ op' = op /\ pila' = pila /\ sigue' = sigue /\ arbol' = arbol /\ pasada' = pasada + 1
      /\ fase = "mezcla" /\ fase' = "compara" /\ pasada + 1 < Len(corridas)
      /\ corridas' = [corridas EXCEPT ![pasada + 1] = <<>>, ![pasada + 2] = <<>>]
  BY DEF Mezcla, entrada, recorrido
<1>2. PICK F : F = Seq(Fichas(op))
  OBVIOUS
<1>3. corridas \in Seq(F) /\ corridas' \in Seq(F) /\ pasada \in Nat /\ <<>> \in F
  BY <1>1, <1>2 DEF InvS, TipoS
<1>4. DOMAIN corridas' = DOMAIN corridas /\ Len(corridas') = Len(corridas) /\ Len(corridas) \in Nat
  <2>1. DOMAIN corridas' = DOMAIN corridas
    BY <1>1
  <2> QED BY <2>1, <1>3
<1>5. \A t \in 1..Len(corridas) :
          corridas'[t] = IF t \in {pasada + 1, pasada + 2} THEN <<>> ELSE corridas[t]
  BY <1>1, <1>3
<1>6. \A t \in 1..pasada'+1 : corridas'[t] = <<>>
  <2>1. ASSUME NEW t \in 1..pasada'+1 PROVE corridas'[t] = <<>>
    <3>1. t \in 1..Len(corridas)
      BY <1>1, <1>3, <1>4
    <3>2. t \in {pasada + 1, pasada + 2} \/ (pasada > 0 /\ t \in 1..pasada+1)
      BY <1>1, <1>3
    <3> QED BY <3>1, <3>2, <1>5 DEF FaseT
  <2> QED BY <2>1
<1>7. sigue = "mezcla" /\ arbol = <<>> /\ corridas' # <<>> /\ pasada' > 0
      /\ pasada' + 1 <= Len(corridas') /\ (op.indice = "no" => Len(corridas') > 1)
  <2>1. sigue = "mezcla" /\ arbol = <<>> /\ (op.indice = "no" => Len(corridas) > 1)
    BY <1>1 DEF FaseT, Mezclando
  <2>2. corridas' # <<>>
    BY <1>1 DEF InvS, LlenaS
  <2> QED BY <2>1, <2>2, <1>1, <1>3, <1>4
<1>8. Len(pila') < op'.tokeys
  BY <1>1 DEF FaseT
<1> QED BY <1>1, <1>6, <1>7, <1>8 DEF FaseT, Mezclando

\* Putting out, and the end.
LEMMA FaseSale ==
    ASSUME InvS, InvS', FaseT, Compara \/ Saca \/ Sacado \/ Cierra PROVE FaseT'
<1>1. /\ op' = op /\ pila' = pila /\ sigue' = sigue /\ arbol' = arbol /\ pasada' = pasada
      /\ corridas' = corridas /\ pasada \in Nat
  BY DEF Compara, Saca, Sacado, Cierra, entrada, recorrido, mezclado, InvS, TipoS
<1>2. CASE Compara
  <2>1. fase = "compara" /\ fase' \in {"compara", "mezcla"}
        /\ (fase' # "compara" => f2' = <<>> /\ ff' = <<>>)
    BY <1>2 DEF Compara
  <2> QED BY <1>1, <2>1 DEF FaseT, Mezclando
<1>3. CASE Saca \/ Sacado
  <2>1. /\ f1' = f1 /\ f2' = f2 /\ ff' = ff /\ Mezclado
        /\ fase' \in {"mezcla", "cierra", "basura", "roto"}
    BY <1>3 DEF Saca, Sacado, mezclado, AlCerrar, Mezclado
  <2>2. fase = "mezcla" /\ pasada + 1 >= Len(corridas)
    BY <2>1 DEF Mezclado
  <2>3. pasada + 1 = Len(corridas)
    <3>1. PICK F : F = Seq(Fichas(op))
      OBVIOUS
    <3>2. corridas \in Seq(F) /\ corridas # <<>>
      BY <2>2, <3>1 DEF InvS, TipoS, FaseT, Mezclando
    <3>3. Len(corridas) \in Nat \ {0}
      BY <3>2
    <3> QED BY <3>3, <2>2, <1>1 DEF FaseT
  <2> QED BY <1>1, <2>1, <2>2, <2>3 DEF FaseT, Mezclando
<1>4. CASE Cierra
  <2>1. f1' = f1 /\ f2' = f2 /\ ff' = ff /\ fase = "cierra" /\ fase' = "fin"
    BY <1>4 DEF Cierra, mezclado
  <2> QED BY <1>1, <2>1 DEF FaseT, Mezclando
<1> QED BY <1>2, <1>3, <1>4

\* Every step.
LEMMA PasoFase == ASSUME InvS, InvS', FaseT, Next PROVE FaseT'
  BY FaseLee, FaseFinal, FaseRecorre, FaseMezcla, FaseSale DEF Next

-----------------------------------------------------------------------------
(* The entries of what has been read *)

\* At the start nothing has been read.
LEMMA LeeInicio == ASSUME Init PROVE LeeT /\ Leidas = {}
<1>1. PICK t \in Trabajos : op = t.op /\ archivos = Vistos(t)
  BY DEF Init
<1>2. op \in Opciones /\ archivos \in Entradas
  BY <1>1, VistosSon
<1>3. op.forma # "lineas" => \A f \in 1..Len(archivos) : \A n \in 1..Len(archivos[f].regs) :
                                 archivos[f].regs[n].k # Corta
  <2>1. op.forma # "lineas" =>
            \A f \in DOMAIN archivos : \A n \in DOMAIN archivos[f].regs :
                archivos[f].regs[n].k # Corta
    BY <1>1, VistosSon
  <2>2. \A f \in 1..Len(archivos) : \A n \in 1..Len(archivos[f].regs) :
            <<f, n>> \in RegsP(archivos)
    BY <1>2, RegistrosSon
  <2>3. ASSUME NEW f, NEW n, <<f, n>> \in RegsP(archivos)
        PROVE  f \in DOMAIN archivos /\ n \in DOMAIN archivos[f].regs
    <3>1. PICK h \in DOMAIN archivos : <<f, n>> \in {h} \X DOMAIN archivos[h].regs
      BY <2>3, Zenon DEF RegsP
    <3> QED BY <3>1
  <2> QED BY <2>1, <2>2, <2>3
<1>4. \A l \in RegsP(archivos) : ~ Antes(l, <<e, pos>>)
  <2> SUFFICES ASSUME NEW l \in RegsP(archivos) PROVE ~ Antes(l, <<0, 0>>)
    BY DEF Init
  <2>1. l \in Nat \X Nat
    BY <1>2, RegistrosSon
  <2> QED BY <2>1 DEF Antes
<1>5. Leidas = {}
  <2>1. \A l \in LugaresP(op, archivos) : ~ Antes(l, <<e, pos>>)
    BY <1>4 DEF LugaresP
  <2>2. LeidasP(op, archivos, <<e, pos>>) = {}
    BY <2>1 DEF LeidasP, LeidaP, LeidoP
  <2> QED BY <2>2, LeidaEs
<1>6. ColumnasAntes(<<e, pos>>) = 0
  <2>1. LargasP(archivos, <<e, pos>>) = {}
    BY <1>4 DEF LargasP
  <2> QED BY <2>1, ColumnasEs DEF ColumnasP
<1>7. e = 0 /\ inbuf = 0 /\ fase = "abre"
  BY DEF Init
<1> QED BY <1>3, <1>5, <1>6, <1>7 DEF LeeT

\* Entries that stay in their files.
LEMMA LlevaIgual ==
    ASSUME NEW D, NEW g, Copiadas(D, g), Ordenadas(D, g, arbol, pasada'),
           Leidas = Junta(D, g, arbol), op' = op, arbol' = arbol, ff' = ff,
           Leidas' = Leidas, Cerradas' = Cerradas, \A t \in 1..Cerradas : Tira(t)' = Tira(t),
           sigue' # "cierra" /\ salida' # <<>> => De(Sacadas', D[Len(D)])
    PROVE  Lleva(D, g)'
<1>1. Copiadas(D, g)'
  <2>1. Len(D) = Cerradas
    BY DEF Copiadas
  <2> QED BY <2>1 DEF Copiadas
<1> QED BY <1>1 DEF Lleva

\* At the start there is nothing to keep.
LEMMA LlevaInicio == ASSUME Init PROVE LlevaT
<1>1. Leidas = {} /\ <<>> \in Seq(Seq(Completas)) /\ Len(<<>>) = 0
  BY LeeInicio
<1>2. Copiadas(<<>>, <<>>)
  <2>1. Cerradas = 0 /\ ff = <<>>
    BY <1>1 DEF Init, Cerradas
  <2>2. \A t \in 1..Len(<<>>) : FALSE
    BY <1>1
  <2> QED BY <1>1, <2>1, <2>2, CopiaNada DEF Copiadas
<1>3. Ordenadas(<<>>, <<>>, arbol, pasada)
  <2>1. \A t \in 1..Len(<<>>) : FALSE
    BY <1>1
  <2> QED BY <2>1, OrdenaNada DEF Ordenadas
<1>4. Junta(<<>>, <<>>, arbol) = {}
  <2>1. \A t \in 1..Len(<<>>) : FALSE
    BY <1>1
  <2>2. EnArbol(arbol) = {}
    <3>1. arbol = <<>> /\ \A n \in 1..Len(<<>>) : FALSE
      BY <1>1 DEF Init
    <3> QED BY <3>1 DEF EnArbol
  <2> QED BY <2>1, <2>2, OrdenaNada DEF Junta
<1>5. salida = <<>>
  BY DEF Init
<1>6. Lleva(<<>>, <<>>)
  BY <1>1, <1>2, <1>3, <1>4, <1>5 DEF Lleva
<1> QED BY <1>6 DEF LlevaT

\* Nothing is being written, and no file is opened yet.
LEMMA LlevaLee ==
    ASSUME InvS, LeeT, FaseT, SalidaT, LlevaT, Abre \/ Salta \/ Acaba \/ Baja
    PROVE  LlevaT'
<1>1. /\ op' = op /\ arbol' = arbol /\ ff' = ff /\ f1' = f1 /\ f2' = f2 /\ pasada' = pasada
      /\ salida' = salida /\ corridas' = corridas /\ sigue' = sigue
      /\ fase \in {"abre", "lee", "recorre"}
      /\ IF fase = "recorre" THEN fase' = fase ELSE fase' \in {"abre", "lee"}
  BY DEF Abre, Salta, Acaba, Baja, entrada, recorrido, mezclado
<1>2. PICK D, g : Lleva(D, g)
  BY <1>1 DEF LlevaT, Fallas
<1>3. Leidas' = Leidas
  BY PasoLee DEF Next, Abre, Salta, Acaba, Baja, FormKey
<1>4. Cerradas' = Cerradas /\ \A t \in 1..Cerradas : Tira(t)' = Tira(t)
  <2>1. Cerradas' = Cerradas
    BY <1>1 DEF Cerradas
  <2>2. pasada = 0
    BY <1>1 DEF InvS, LlenaS
  <2> QED BY <1>1, <2>1, <2>2 DEF Tira
<1>5. sigue' # "cierra" => salida' = <<>>
  BY <1>1 DEF SalidaT
<1>6. Lleva(D, g)'
  BY <1>1, <1>2, <1>3, <1>4, <1>5, LlevaIgual DEF Lleva
<1> QED BY <1>6 DEF LlevaT

\* The last keys go to a run that does not count yet, or straight out.
LEMMA LlevaFinal == ASSUME InvS, LeeT, FaseT, SalidaT, LlevaT, AlFinal PROVE LlevaT'
<1>1. /\ op' = op /\ arbol' = arbol /\ ff' = ff /\ f1' = f1 /\ f2' = f2 /\ pasada' = pasada
      /\ salida' = salida /\ fase = "abre"
  BY DEF AlFinal, entrada, mezclado
<1>2. PICK D, g : Lleva(D, g)
  BY <1>1 DEF LlevaT, Fallas
<1>3. Leidas' = Leidas
  BY LeeFinal
<1>4. salida = <<>> /\ pasada = 0 /\ Cerradas = Len(corridas)
  BY <1>1 DEF SalidaT, InvS, LlenaS, Cerradas
<1>5. PICK F : F = Seq(Fichas(op))
  OBVIOUS
<1>6. corridas \in Seq(F) /\ <<>> \in F
  BY <1>5 DEF InvS, TipoS
<1>7. CASE fase' \in Fallas
  BY <1>7 DEF LlevaT
<1>8. CASE fase' \notin Fallas
  <2>1. \/ /\ fase' = "recorre" /\ sigue' = "mezcla" /\ corridas' = Append(corridas, <<>>)
        \/ /\ fase' = "recorre" /\ sigue' = "cierra" /\ corridas' = corridas
    BY <1>8 DEF AlFinal, Recorrera, Fallas
  <2>2. Cerradas' = Cerradas /\ \A t \in 1..Len(corridas) : corridas'[t] = corridas[t]
    <3>1. CASE fase' = "recorre" /\ sigue' = "mezcla" /\ corridas' = Append(corridas, <<>>)
      <4>1. PICK c : c = corridas'
        OBVIOUS
      <4>2. /\ Len(c) = Len(corridas) + 1 /\ Len(corridas) \in Nat
            /\ \A t \in 1..Len(corridas) : c[t] = corridas[t]
        BY <1>6, <3>1, <4>1
      <4>3. Cerradas' = Len(c) - 1
        BY <3>1, <4>1 DEF Cerradas
      <4> QED BY <4>1, <4>2, <4>3, <1>4
    <3>2. CASE fase' = "recorre" /\ sigue' = "cierra" /\ corridas' = corridas
      BY <3>2, <1>4 DEF Cerradas
    <3> QED BY <2>1, <3>1, <3>2
  <2>3. \A t \in 1..Cerradas : Tira(t)' = Tira(t)
    BY <1>1, <1>4, <2>2 DEF Tira
  <2>4. Lleva(D, g)'
    BY <1>1, <1>2, <1>3, <1>4, <2>2, <2>3, LlevaIgual DEF Lleva
  <2> QED BY <2>4 DEF LlevaT
<1> QED BY <1>7, <1>8

\* A merge opens its two files.
LEMMA LlevaMezcla ==
    ASSUME InvS, LeeT, FaseT, SalidaT, LlevaT, Mezcla PROVE LlevaT'
<1>1. /\ op' = op /\ arbol' = arbol /\ salida' = salida /\ sigue' = sigue
      /\ fase = "mezcla" /\ fase' = "compara" /\ pasada + 1 < Len(corridas)
      /\ pasada' = pasada + 1
      /\ f1' = (IF pasada = 0 THEN corridas[1] ELSE f1) /\ f2' = corridas[pasada + 2]
      /\ ff' = <<>> /\ f2 = <<>> /\ ff = <<>>
      /\ corridas' = [corridas EXCEPT ![pasada + 1] = <<>>, ![pasada + 2] = <<>>]
  BY DEF Mezcla, entrada, recorrido, FaseT
<1>2. PICK D, g : Lleva(D, g)
  BY <1>1 DEF LlevaT, Fallas
<1>3. Leidas' = Leidas
  BY PasoLee, <1>1 DEF Next, FormKey
<1>4. PICK F : F = Seq(Fichas(op))
  OBVIOUS
<1>5. corridas \in Seq(F) /\ Len(corridas) \in Nat /\ <<>> \in F /\ pasada \in Nat
  BY <1>1, <1>4 DEF InvS, TipoS
<1>6. /\ Len(corridas') = Len(corridas)
      /\ \A t \in 1..Len(corridas) :
             corridas'[t] = IF t \in {pasada + 1, pasada + 2} THEN <<>> ELSE corridas[t]
  <2>1. PICK c : c = corridas'
    OBVIOUS
  <2>2. PICK i, j : i = pasada + 1 /\ j = pasada + 2
    OBVIOUS
  <2>3. i \in Int /\ j \in Int
    BY <1>5, <2>2
  <2>4. PICK d : d = [corridas EXCEPT ![i] = <<>>]
    OBVIOUS
  <2>5. d \in Seq(F) /\ Len(d) = Len(corridas)
    <3>1. corridas \in Seq(F) /\ <<>> \in F
      BY <1>5
    <3>2. i \in 1..Len(corridas)
      BY <1>1, <1>5, <2>2
    <3>3. d \in Seq(F)
      BY <2>4, <3>1, <3>2
    <3>4. DOMAIN d = DOMAIN corridas
      BY <2>4
    <3> QED BY <3>1, <3>3, <3>4
  <2>6. \A t \in 1..Len(corridas) : d[t] = IF t = i THEN <<>> ELSE corridas[t]
    BY <1>5, <2>4
  <2>7. c = [d EXCEPT ![j] = <<>>]
    BY <1>1, <2>1, <2>2, <2>4
  <2>8. Len(c) = Len(d)
    BY <1>5, <2>3, <2>5, <2>7
  <2>9. \A t \in 1..Len(d) : c[t] = IF t = j THEN <<>> ELSE d[t]
    BY <2>5, <2>7
  <2> QED BY <2>1, <2>2, <2>5, <2>6, <2>8, <2>9
<1>7. Cerradas' = Len(corridas) /\ Cerradas = Len(corridas)
  BY <1>1, <1>6 DEF Cerradas
<1>8. ASSUME NEW t \in 1..Len(corridas) PROVE Tira(t)' = Tira(t)
  <2>0. t \in Nat /\ Len(corridas) \in Nat /\ pasada \in Nat
    BY <1>5
  <2>1. CASE t > pasada + 2
    <3>1. t > pasada' + 1 /\ t > pasada + 1 /\ t # pasada + 1 /\ t # pasada + 2
      BY <2>0, <2>1, <1>1
    <3>2. Tira(t)' = corridas'[t] /\ Tira(t) = corridas[t]
      BY <3>1 DEF Tira
    <3> QED BY <3>1, <3>2, <1>6
  <2>2. CASE t = pasada + 2
    <3>1. t > pasada + 1 /\ ~ (t > pasada' + 1) /\ t = pasada' + 1 /\ t # pasada' /\ pasada' # 0
      BY <2>0, <2>2, <1>1
    <3>2. Tira(t)' = f2' /\ Tira(t) = corridas[t]
      BY <3>1, <1>1 DEF Tira
    <3> QED BY <3>2, <2>2, <1>1
  <2>3. CASE t = pasada + 1
    <3>1. ~ (t > pasada' + 1) /\ t = pasada' /\ pasada' # 0 /\ ~ (t > pasada + 1)
      BY <2>0, <2>3, <1>1
    <3>2. Tira(t)' = f1' /\ Tira(t) = IF pasada = 0 THEN corridas[t] ELSE f1
      BY <3>1, <2>3, <1>1 DEF Tira
    <3>3. pasada = 0 => t = 1
      BY <2>3
    <3> QED BY <3>2, <3>3, <1>1
  <2>4. CASE t < pasada + 1
    <3>1. /\ ~ (t > pasada' + 1) /\ t # pasada' /\ pasada' # 0 /\ ~ (t > pasada + 1)
          /\ t # pasada' + 1 /\ t # pasada + 1 /\ pasada # 0
      BY <2>0, <2>4, <1>1
    <3>2. Tira(t)' = <<>> /\ Tira(t) = <<>>
      BY <3>1, <1>1 DEF Tira
    <3> QED BY <3>2
  <2> QED BY <2>0, <2>1, <2>2, <2>3, <2>4
<1>9. g = <<>> /\ Todas(g) = {}
  BY <1>1, <1>2, CopiaVacia, OrdenaNada DEF Lleva, Copiadas
<1>10. Ordenadas(D, g, arbol, pasada')
  <2>1. Ordenadas(D, g, arbol, pasada)
    BY <1>2 DEF Lleva
  <2> QED BY <2>1, <1>9 DEF Ordenadas, Menores, Previas
<1>11. salida = <<>>
  BY <1>1, <1>5 DEF SalidaT
<1>12. Lleva(D, g)'
  BY <1>1, <1>2, <1>3, <1>7, <1>8, <1>10, <1>11, LlevaIgual DEF Lleva
<1> QED BY <1>12 DEF LlevaT

\* The places of the records that count: none is the blank's.
LEMMA LugarDe ==
    ASSUME InvS
    PROVE  \A x \in Leida : /\ x.lugar \in Nat \X Nat /\ x.lugar # Blanco
                            /\ x.lugar \in Lugares
<1>1. op \in Opciones /\ archivos \in Entradas
  BY DEF InvS, TipoS
<1>2. Lugares = LugaresP(op, archivos)
  BY Zenon DEF Lugares, LugaresP, Registros, RegsP, NoCuenta, NoCuentaP
<1>3. ASSUME NEW l \in LugaresP(op, archivos) PROVE l \in Nat \X Nat /\ l # Blanco
  <2>1. l \in RegsP(archivos)
    BY DEF LugaresP
  <2>2. l \in Nat \X Nat /\ l[1] \in 1..Len(archivos) /\ Len(archivos) \in Nat
    BY <1>1, <2>1, RegistrosSon
  <2>3. l[1] # 0 /\ Blanco[1] = 0
    BY <2>2 DEF Blanco
  <2> QED BY <2>2, <2>3
<1> QED BY <1>2, <1>3, LeidaEs DEF LeidaP, LeidoP

\* One more record goes out.
LEMMA SacadaMas ==
    ASSUME salida \in Seq(Nat \X Nat), NEW x, x.lugar \in Nat \X Nat, x.lugar # Blanco,
           salida' = salida \o Sacada(x)
    PROVE  /\ salida' \in Seq(Nat \X Nat) /\ salida' # <<>>
           /\ Sacadas \in Seq(Nat \X Nat) /\ Sacadas' = Append(Sacadas, x.lugar)
<1> DEFINE P == Nat \X Nat
<1>1. PICK s, l : s = salida /\ l = x.lugar
  OBVIOUS
<1>2. s \in Seq(P) /\ l \in P /\ l # Blanco /\ Blanco \in P
  BY <1>1 DEF Blanco
<1> HIDE DEF P
<1>3. CASE s = <<>> /\ Fijo /\ op.salta
  <2>1. Sacada(x) = <<Blanco, l>>
    <3>1. <<Blanco>> \o <<l>> = <<Blanco, l>>
      <4>1. PICK a, b, w : a = <<Blanco>> /\ b = <<l>> /\ w = a \o b
        OBVIOUS
      <4>2. /\ a \in Seq(P) /\ b \in Seq(P) /\ Len(a) = 1 /\ Len(b) = 1
            /\ a[1] = Blanco /\ b[1] = l
        BY <1>2, <4>1
      <4>3. w \in Seq(P) /\ Len(w) = 2 /\ w[1] = Blanco /\ w[2] = l
        BY <4>1, <4>2, ConcatProperties
      <4>4. w = <<w[1], w[2]>>
        BY <4>3
      <4> QED BY <4>1, <4>3, <4>4
    <3>2. Sacada(x) = <<Blanco>> \o <<l>>
      BY <1>1, <1>3 DEF Sacada
    <3> QED BY <3>1, <3>2
  <2>2. PICK u : u = <<Blanco, l>>
    OBVIOUS
  <2>3. salida' = u
    BY <1>1, <1>2, <1>3, <2>1, <2>2
  <2>4. u \in Seq(P) /\ u # <<>> /\ Head(u) = Blanco /\ Tail(u) = <<l>>
    BY <1>2, <2>2
  <2>5. Sacadas = <<>> /\ Sacadas' = <<l>>
    BY <1>1, <1>3, <2>3, <2>4 DEF Sacadas
  <2>6. <<>> \in Seq(P) /\ <<l>> = Append(<<>>, l)
    BY <1>2
  <2> QED BY <1>1, <2>3, <2>4, <2>5, <2>6 DEF P
<1>4. CASE ~ (s = <<>> /\ Fijo /\ op.salta)
  <2>1. Sacada(x) = <<l>>
    <3>1. <<>> \o <<l>> = <<l>>
      BY <1>2
    <3>2. Sacada(x) = <<>> \o <<l>>
      BY <1>1, <1>4 DEF Sacada
    <3> QED BY <3>1, <3>2
  <2>2. PICK u : u = Append(s, l)
    OBVIOUS
  <2>3. salida' = u
    BY <1>1, <1>2, <2>1, <2>2
  <2>4. u \in Seq(P) /\ u # <<>>
    BY <1>2, <2>2
  <2>5. CASE s = <<>>
    <3>1. Head(u) = l
      BY <1>2, <2>2, <2>5
    <3>2. Sacadas = <<>> /\ Sacadas' = u
      BY <1>1, <1>2, <2>3, <2>4, <2>5, <3>1 DEF Sacadas
    <3>3. <<>> \in Seq(P)
      OBVIOUS
    <3> QED BY <1>1, <2>2, <2>3, <2>4, <2>5, <3>2, <3>3 DEF P
  <2>6. CASE s # <<>>
    <3>1. Head(u) = Head(s) /\ Tail(u) = Append(Tail(s), l) /\ Tail(s) \in Seq(P)
      BY <1>2, <2>2, <2>6
    <3>2. Sacadas \in Seq(P) /\ Sacadas' = Append(Sacadas, l)
      <4>1. CASE Head(s) = Blanco
        BY <1>1, <2>3, <2>4, <2>6, <3>1, <4>1 DEF Sacadas
      <4>2. CASE Head(s) # Blanco
        BY <1>1, <1>2, <2>2, <2>3, <2>4, <2>6, <3>1, <4>2 DEF Sacadas
      <4> QED BY <4>1, <4>2
    <3> QED BY <1>1, <2>3, <2>4, <3>2 DEF P
  <2> QED BY <2>5, <2>6
<1> QED BY <1>3, <1>4

\* The last file of the merges is what remains.
LEMMA Mezclados ==
    ASSUME InvS, FaseT, Mezclando, pasada + 1 >= Len(corridas), fase # "compara"
    PROVE  /\ pasada + 1 = Len(corridas) /\ Cerradas = Len(corridas)
           /\ Len(corridas) \in Nat \ {0} /\ pasada \in Nat
           /\ Tira(Len(corridas)) = IndiceFinal
           /\ \A t \in 1..Len(corridas)-1 : Tira(t) = <<>>
<1>1. PICK F : F = Seq(Fichas(op))
  OBVIOUS
<1>2. corridas \in Seq(F) /\ corridas # <<>> /\ pasada \in Nat
  BY <1>1 DEF InvS, TipoS, FaseT
<1>3. Len(corridas) \in Nat \ {0}
  BY <1>2
<1>4. pasada + 1 = Len(corridas)
  BY <1>2, <1>3 DEF FaseT
<1>5. Cerradas = Len(corridas)
  BY DEF Cerradas, Mezclando
<1>6. Tira(Len(corridas)) = IndiceFinal
  <2>1. CASE pasada = 0
    BY <2>1, <1>3, <1>4 DEF Tira, IndiceFinal, Larga
  <2>2. CASE pasada # 0
    <3>1. Larga /\ ~ (Len(corridas) > pasada + 1)
      BY <2>2, <1>2, <1>3, <1>4 DEF Larga
    <3> QED BY <2>2, <3>1, <1>4 DEF Tira, IndiceFinal
  <2> QED BY <2>1, <2>2
<1>7. ASSUME NEW t \in 1..Len(corridas)-1 PROVE Tira(t) = <<>>
  <2>1. pasada # 0 /\ ~ (t > pasada + 1) /\ t # pasada + 1
    BY <1>2, <1>3, <1>4
  <2> QED BY <2>1 DEF Tira
<1> QED BY <1>2, <1>3, <1>4, <1>5, <1>6, <1>7

\* The next entry of the last file is a record's that was read.
LEMMA SacaUno ==
    ASSUME InvS, LeeT, FaseT, SalidaT, Saca, fase' = "mezcla", NEW D, NEW g, Lleva(D, g)
    PROVE  /\ D[Len(D)] \in Seq(Completas) /\ De(Sacadas', D[Len(D)])
           /\ Len(Sacadas') = Len(Sacadas) + 1 /\ Len(Sacadas) \in Nat
           /\ Len(Sacadas') <= Len(f1) /\ Len(f1) = Len(D[Len(D)])
           /\ salida' \in Seq(Nat \X Nat) /\ salida' # <<>>
<1> DEFINE n == Len(Sacadas)
           w == D[Len(D)]
<1>1. /\ fase = "mezcla" /\ pasada + 1 >= Len(corridas) /\ n < Len(PorSacar)
      /\ PorSacar[n + 1].lugar # Perdido /\ salida' = salida \o Sacada(PorSacar[n + 1])
  BY DEF Saca, Mezclado
<1>2. /\ Cerradas = Len(corridas) /\ Len(corridas) \in Nat \ {0}
      /\ Tira(Len(corridas)) = IndiceFinal
  BY <1>1, Mezclados DEF Mezclando
<1>3. PorSacar = f1 /\ Larga
  <2>1. Len(<<>>) = 0 /\ n \in Nat
    <3>1. PICK P : P = Nat \X Nat
      OBVIOUS
    <3>2. salida \in Seq(P)
      BY <3>1 DEF SalidaT
    <3>3. Sacadas \in Seq(P)
      BY <3>2 DEF Sacadas
    <3> QED BY <3>3
  <2>2. PorSacar # <<>>
    BY <1>1, <2>1
  <2> QED BY <2>2 DEF PorSacar
<1>4. w \in Seq(Completas) /\ Copia(op, f1, w) /\ w \in {D[t] : t \in 1..Len(D)}
  <2>1. Len(D) = Len(corridas) /\ Len(D) \in 1..Len(D)
    BY <1>2 DEF Lleva, Copiadas
  <2>2. Copia(op, Tira(Len(corridas)), w)
    BY <2>1 DEF Lleva, Copiadas
  <2>3. Tira(Len(corridas)) = f1
    BY <1>2, <1>3 DEF IndiceFinal
  <2> QED BY <2>1, <2>2, <2>3 DEF Copia
<1>5. sigue = "mezcla" /\ (salida # <<>> => De(Sacadas, w))
  BY <1>1 DEF FaseT, Lleva
<1>6. PICK x, l : x = f1[n + 1] /\ l = x.lugar
  OBVIOUS
<1>7. /\ n \in Nat /\ Len(f1) = Len(w) /\ n + 1 \in 1..Len(w) /\ x = FichaDe(op, w[n + 1])
      /\ Len(w) \in Nat
  <2>1. /\ Len(f1) = Len(w) /\ Len(w) \in Nat
        /\ \A i \in 1..Len(w) : f1[i] = FichaDe(op, w[i])
    BY <1>4 DEF Copia
  <2>2. n \in Nat
    <3>1. PICK P : P = Nat \X Nat
      OBVIOUS
    <3>2. salida \in Seq(P)
      BY <3>1 DEF SalidaT
    <3>3. Sacadas \in Seq(P)
      BY <3>2 DEF Sacadas
    <3> QED BY <3>3
  <2>3. n + 1 \in 1..Len(w)
    BY <1>1, <1>3, <2>1, <2>2
  <2> QED BY <1>6, <2>1, <2>2, <2>3
<1>8. l = w[n + 1].lugar
  <2>1. l # Perdido
    BY <1>1, <1>3, <1>6
  <2> QED BY <2>1, <1>6, <1>7 DEF FichaDe
<1>9. l \in Nat \X Nat /\ l # Blanco
  <2>1. w[n + 1] \in Todas(w)
    BY <1>7 DEF Todas
  <2>2. w[n + 1] \in Junta(D, g, arbol)
    BY <2>1, <1>4 DEF Junta
  <2>3. w[n + 1] \in Leida
    BY <2>2 DEF Lleva, Leidas
  <2> QED BY <2>3, <1>8, LugarDe
<1>10. /\ salida' \in Seq(Nat \X Nat) /\ salida' # <<>>
       /\ Sacadas \in Seq(Nat \X Nat) /\ Sacadas' = Append(Sacadas, l)
  <2>1. salida \in Seq(Nat \X Nat) /\ salida' = salida \o Sacada(x)
    BY <1>1, <1>3, <1>6 DEF SalidaT
  <2>2. x.lugar \in Nat \X Nat /\ x.lugar # Blanco
    BY <1>6, <1>9
  <2> QED BY <1>6, <2>1, <2>2, SacadaMas
<1>11. De(Sacadas, w)
  <2>1. CASE salida = <<>>
    <3>1. Sacadas = <<>> /\ Len(<<>>) = 0 /\ \A i \in 1..0 : FALSE
      BY <2>1 DEF Sacadas
    <3> QED BY <3>1, <1>7 DEF De
  <2>2. CASE salida # <<>>
    BY <2>2, <1>5
  <2> QED BY <2>1, <2>2
<1>12. De(Sacadas', w) /\ Len(Sacadas') = n + 1
  <2>1. PICK S, T, u : S = Sacadas /\ T = Sacadas' /\ u = w
    OBVIOUS
  <2>2. /\ S \in Seq(Nat \X Nat) /\ T = Append(S, l) /\ Len(S) = n
        /\ u \in Seq(Completas) /\ De(S, u)
    BY <2>1, <1>4, <1>10, <1>11
  <2>3. PICK k : k = Len(S) + 1
    OBVIOUS
  <2>4. PICK P : P = Nat \X Nat
    OBVIOUS
  <2>5. /\ S \in Seq(P) /\ l \in P /\ T = Append(S, l) /\ u \in Seq(Completas) /\ De(S, u)
        /\ Len(S) < Len(u) /\ l = u[k].lugar
    BY <2>1, <2>2, <2>3, <2>4, <1>7, <1>8, <1>9
  <2> HIDE DEF w, n
  <2>6. /\ Len(T) = k /\ T[k] = l /\ Len(S) \in Nat /\ Len(u) \in Nat
        /\ \A i \in 1..Len(S) : T[i] = S[i]
    BY <2>3, <2>5
  <2>7. \A i \in 1..k : i = k \/ i \in 1..Len(S)
    BY <2>3, <2>6
  <2>8. \A i \in 1..Len(T) : T[i] = u[i].lugar
    BY <2>5, <2>6, <2>7 DEF De
  <2>9. De(T, u)
    BY <2>3, <2>5, <2>6, <2>8 DEF De
  <2> QED BY <2>1, <2>2, <2>3, <2>6, <2>9
<1>13. n + 1 <= Len(f1)
  BY <1>7
<1> QED BY <1>4, <1>7, <1>10, <1>12, <1>13

\* The entries stay in the last file while the records go out.
LEMMA LlevaSale ==
    ASSUME InvS, LeeT, FaseT, SalidaT, LlevaT, Saca \/ Sacado \/ Cierra PROVE LlevaT'
<1>1. /\ op' = op /\ arbol' = arbol /\ ff' = ff /\ f1' = f1 /\ f2' = f2 /\ pasada' = pasada
      /\ corridas' = corridas /\ sigue' = sigue
      /\ \/ fase = "mezcla" /\ fase' \in {"mezcla", "cierra", "basura", "roto"}
         \/ fase = "cierra" /\ fase' = "fin"
  BY DEF Saca, Sacado, Cierra, entrada, recorrido, mezclado, Mezclado, AlCerrar
<1>2. CASE fase' \in Fallas \/ (sigue = "cierra" /\ fase = "cierra")
  BY <1>1, <1>2 DEF LlevaT
<1>3. CASE fase' \notin Fallas /\ ~ (sigue = "cierra" /\ fase = "cierra")
  <2>1. PICK D, g : Lleva(D, g)
    BY <1>1, <1>3 DEF LlevaT, Fallas
  <2>2. Leidas' = Leidas
    BY PasoLee, <1>1 DEF Next, FormKey
  <2>3. Cerradas' = Cerradas /\ \A t \in 1..Cerradas : Tira(t)' = Tira(t)
    BY <1>1 DEF Cerradas, Tira
  <2>4. sigue # "cierra" /\ salida' # <<>> => De(Sacadas', D[Len(D)])
    <3>1. CASE Saca
      <4>1. fase' = "mezcla"
        BY <3>1, <1>3 DEF Saca, Fallas, Mezclado
      <4> QED BY <3>1, <4>1, <2>1, SacaUno
    <3>2. CASE Sacado \/ Cierra
      <4>1. salida' = salida
        BY <3>2 DEF Sacado, Cierra
      <4>2. Sacadas' = Sacadas
        BY <4>1 DEF Sacadas
      <4> QED BY <4>1, <4>2, <2>1 DEF Lleva
    <3> QED BY <3>1, <3>2
  <2>5. Lleva(D, g)'
    BY <1>1, <2>1, <2>2, <2>3, <2>4, LlevaIgual DEF Lleva
  <2> QED BY <2>5 DEF LlevaT
<1> QED BY <1>2, <1>3

\* The tree with one more node.
LEMMA EnArbolMas ==
    ASSUME NEW a \in Seq(Nodos), NEW c \in Seq(Nodos), NEW nueva \in Nodos,
           Len(c) = Len(a) + 1, c[Len(a) + 1] = nueva,
           \A x \in 1..Len(a) : c[x].llave = a[x].llave /\ c[x].lugar = a[x].lugar
    PROVE  EnArbol(c) = EnArbol(a) \cup {Completa(nueva)}
<1>1. Len(a) \in Nat /\ \A x \in 1..Len(a)+1 : x = Len(a) + 1 \/ x \in 1..Len(a)
  OBVIOUS
<1>2. \A x \in 1..Len(a) : x \in 1..Len(a)+1 /\ Completa(c[x]) = Completa(a[x])
  BY <1>1 DEF Completa
<1>3. Len(a) + 1 \in 1..Len(a)+1
  BY <1>1
<1> QED BY <1>1, <1>2, <1>3 DEF EnArbol

\* The key that is read goes to the tree.
LEMMA LlevaFormKey == ASSUME InvS, LeeT, FaseT, SalidaT, LlevaT, FormKey PROVE LlevaT'
<1> DEFINE b == Columnas(Regs[pos], inbuf)
<1>1. /\ fase = "lee" /\ pos <= Len(Regs) /\ ~NoCuenta(e, pos) /\ op' = op
      /\ archivos' = archivos /\ e' = e /\ pos' = pos + 1 /\ inbuf' = b
      /\ ff' = ff /\ f1' = f1 /\ f2' = f2 /\ pasada' = pasada /\ salida' = salida
  BY DEF FormKey, entrada, mezclado
<1>2. PICK D, g : Lleva(D, g)
  BY <1>1 DEF LlevaT, Fallas
<1>3. salida = <<>> /\ pasada = 0 /\ Cerradas = Len(corridas)
  BY <1>1 DEF SalidaT, InvS, LlenaS, Cerradas
<1>4. PICK nueva : nueva = [llave |-> Llave(b), lugar |-> <<e, pos>>, menor |-> 0, mayor |-> 0]
  OBVIOUS
<1>5. PICK a : a = Cuelga(arbol, nueva)
  OBVIOUS
<1>6. /\ arbol' = a
      /\ IF Lleno(a) THEN corridas' = Append(corridas, <<>>) /\ Recorrera("lee")
                     ELSE corridas' = corridas /\ sigue' = sigue /\ fase' = fase
  BY <1>4, <1>5, Zenon DEF FormKey, recorrido
<1>7. /\ Leidas' = Leidas \cup {[llave |-> Llave(b), lugar |-> <<e, pos>>]}
      /\ \A x \in Leidas : Antes(x.lugar, <<e, pos>>)
  <2>1. fase' = "lee" \/ (fase' = "recorre" /\ sigue' = "lee")
    BY <1>1, <1>6 DEF Recorrera
  <2> QED BY <1>1, <2>1, LeeUno
<1>8. nueva \in Nodos /\ nueva.menor = 0 /\ nueva.mayor = 0 /\ nueva.lugar = <<e, pos>>
  <2>1. Llave(b) \in Int /\ e \in Nat /\ pos \in Nat
    BY <1>1, LeeRegistro DEF InvS
  <2> QED BY <1>4, <2>1 DEF Nodos
<1>9. Completa(nueva) = [llave |-> Llave(b), lugar |-> <<e, pos>>]
  BY <1>4 DEF Completa
<1>10. EnArbol(a) = EnArbol(arbol) \cup {Completa(nueva)}
  <2>1. PICK q, r, desde, hasta : EsArbol(arbol, q, r, desde, hasta)
    BY <1>1 DEF InvS, ArbolS
  <2>2. arbol \in Seq(Nodos) /\ \A x \in 1..Len(arbol) : Antes(arbol[x].lugar, nueva.lugar)
    BY <1>1, <1>8 DEF InvS, TipoS, ArbolS
  <2>3. /\ a \in Seq(Nodos) /\ Len(a) = Len(arbol) + 1 /\ a[Len(arbol) + 1] = nueva
        /\ \A x \in 1..Len(arbol) : a[x].llave = arbol[x].llave /\ a[x].lugar = arbol[x].lugar
    BY <1>5, <1>8, <2>1, <2>2, ArbolMas
  <2> QED BY <1>8, <2>2, <2>3, EnArbolMas, SMTT(30)
<1> HIDE DEF b
<1>11. Leidas' = Junta(D, g, a)
  BY <1>2, <1>7, <1>9, <1>10 DEF Lleva, Junta
<1>12. Ordenadas(D, g, a, pasada)
  <2>1. Ordenadas(D, g, arbol, pasada)
    BY <1>2 DEF Lleva
  <2>2. ASSUME NEW t \in 1..Len(D) PROVE Previas(Todas(D[t]), EnArbol(a))
    <3>1. \A x \in Todas(D[t]) : x \in Leidas
      BY <1>2 DEF Lleva, Junta
    <3>2. \A x \in Todas(D[t]) : Antes(x.lugar, Completa(nueva).lugar)
      BY <3>1, <1>7, <1>9
    <3>3. Previas(Todas(D[t]), EnArbol(arbol))
      BY <2>1 DEF Ordenadas
    <3> QED BY <3>2, <3>3, <1>10 DEF Previas
  <2> QED BY <2>1, <2>2 DEF Ordenadas
<1>13. Cerradas' = Cerradas /\ \A t \in 1..Len(corridas) : corridas'[t] = corridas[t]
  <2>1. CASE ~ Lleno(a)
    BY <2>1, <1>1, <1>6, <1>3 DEF Cerradas
  <2>2. CASE Lleno(a)
    <3>1. PICK c, F : c = corridas' /\ F = Seq(Fichas(op))
      OBVIOUS
    <3>2. corridas \in Seq(F) /\ <<>> \in F
      BY <3>1 DEF InvS, TipoS
    <3>3. /\ Len(c) = Len(corridas) + 1 /\ Len(corridas) \in Nat
          /\ \A t \in 1..Len(corridas) : c[t] = corridas[t]
      BY <1>6, <2>2, <3>1, <3>2
    <3>4. Cerradas' = Len(c) - 1
      BY <1>6, <2>2, <3>1 DEF Cerradas, Recorrera
    <3> QED BY <3>1, <3>3, <3>4, <1>3
  <2> QED BY <2>1, <2>2
<1>14. \A t \in 1..Cerradas : Tira(t)' = Tira(t)
  BY <1>1, <1>3, <1>13 DEF Tira
<1>15. Copiadas(D, g)'
  <2>1. Len(D) = Cerradas /\ Copiadas(D, g)
    BY <1>2 DEF Lleva, Copiadas
  <2> QED BY <2>1, <1>1, <1>13, <1>14 DEF Copiadas
<1>16. Lleva(D, g)'
  BY <1>1, <1>3, <1>6, <1>11, <1>12, <1>15 DEF Lleva
<1> QED BY <1>16 DEF LlevaT

\* A tree that was written out in order.
LEMMA ArbolEscrito ==
    ASSUME NEW a \in Seq(Nodos), NEW q, NEW r, NEW desde, NEW hasta,
           EsArbol(a, q, r, desde, hasta), NEW o, NEW s, Escrita(a, q, Len(a), o, s),
           NEW w, w = [i \in 1..Len(a) |-> Completa(a[q[i]])]
    PROVE  /\ w \in Seq(Completas) /\ Copia(o, s, w) /\ Ordenada(w) /\ Todas(w) = EnArbol(a)
<1>1. /\ Len(a) \in Nat
      /\ \A i \in 1..Len(a) : /\ q[i] \in 1..Len(a) /\ r[i] \in 1..Len(a) /\ q[r[i]] = i
                              /\ a[i] \in Nodos
  BY DelArbol
<1>2. \A i \in 1..Len(a) : w[i] \in Completas /\ w[i] = Completa(a[q[i]])
  BY <1>1 DEF Nodos, Completas, Completa
<1>3. w \in Seq(Completas) /\ Len(w) = Len(a) /\ DOMAIN w = 1..Len(a)
  <2>1. w \in [1..Len(a) -> Completas]
    BY <1>2
  <2> QED BY <1>1, <2>1, LenProperties
<1>4. Copia(o, s, w)
  <2>1. \A i \in 1..Len(a) : s[i] = FichaDe(o, w[i])
    BY <1>2 DEF Escrita, FichaDe, Completa
  <2> QED BY <1>3, <2>1 DEF Copia, Escrita
<1>5. Ordenada(w)
  <2>1. ASSUME NEW i \in 1..Len(a), NEW k \in 1..Len(a), i < k PROVE EnOrden(w[i], w[k])
    <3>1. EnOrden(a[q[i]], a[q[k]])
      BY <2>1 DEF EsArbol, PorRango
    <3> QED BY <3>1, <1>2 DEF EnOrden, Completa
  <2> QED BY <1>3, <2>1 DEF Ordenada
<1>6. Todas(w) = EnArbol(a)
  BY <1>1, <1>2, <1>3 DEF Todas, EnArbol
<1> QED BY <1>3, <1>4, <1>5, <1>6

\* The tree becomes one more file.
Sigue(D, w, g, a, E) ==
    /\ D \in Seq(Seq(Completas)) /\ w \in Seq(Completas) /\ E = Append(D, w)
    /\ Ordenadas(D, g, a, 0) /\ Ordenada(w) /\ Todas(w) = EnArbol(a) /\ Todas(g) = {}
Seguidas(D, w, g, a, E) ==
    /\ E \in Seq(Seq(Completas)) /\ Len(E) = Len(D) + 1 /\ E[Len(D) + 1] = w
    /\ \A t \in 1..Len(D) : E[t] = D[t]
    /\ Ordenadas(E, g, <<>>, 0) /\ Junta(E, g, <<>>) = Junta(D, g, a)

\* The tree's entries are read after those of the runs, so it goes after them.
LEMMA UnaMas ==
    ASSUME NEW D, NEW w, NEW g, NEW a, NEW E, Sigue(D, w, g, a, E)
    PROVE  Seguidas(D, w, g, a, E)
<1> USE DEF Sigue
<1>1. PICK G, l : G = Seq(Completas) /\ l = Len(D)
  OBVIOUS
<1>2. /\ E \in Seq(G) /\ Len(E) = l + 1 /\ E[l + 1] = w /\ l \in Nat
      /\ \A t \in 1..l : E[t] = D[t]
  BY <1>1
<1>3. \A t \in 1..l+1 : t = l + 1 \/ t \in 1..l
  BY <1>2
<1>4. \A t \in 1..l : t \in 1..l+1 /\ t < l + 1 /\ ~ (l + 1 < t)
  BY <1>2
<1>5. EnArbol(<<>>) = {}
  <2>1. \A n \in 1..Len(<<>>) : FALSE
    OBVIOUS
  <2> QED BY <2>1 DEF EnArbol
<1>6. Ordenadas(E, g, <<>>, 0)
  <2>1. Ordenada(g) /\ \A t \in 1..l+1 : Ordenada(E[t])
    BY <1>1, <1>2, <1>3 DEF Ordenadas
  <2>2. ASSUME NEW t \in 1..l+1, NEW u \in 1..l+1, t < u
        PROVE  Previas(Todas(E[t]), Todas(E[u]))
    <3>1. t \in 1..l /\ E[t] = D[t]
      BY <1>2, <2>2
    <3>2. CASE u = l + 1
      BY <3>1, <3>2, <1>1, <1>2 DEF Ordenadas
    <3>3. CASE u # l + 1
      <4>1. u \in 1..l /\ E[u] = D[u]
        BY <1>2, <3>3
      <4> QED BY <3>1, <4>1, <2>2, <1>1 DEF Ordenadas
    <3> QED BY <3>2, <3>3
  <2>3. \A t \in 1..l+1 : Previas(Todas(E[t]), EnArbol(<<>>))
    BY <1>5 DEF Previas
  <2>4. \A t \in 1..l+1 : Menores(Todas(g), Todas(E[t])) /\ Previas(Todas(g), Todas(E[t]))
    BY DEF Menores, Previas
  <2> QED BY <1>2, <2>1, <2>2, <2>3, <2>4 DEF Ordenadas
<1>7. Junta(E, g, <<>>) = Junta(D, g, a)
  <2>1. UNION {Todas(E[t]) : t \in 1..l+1} = (UNION {Todas(D[t]) : t \in 1..l}) \cup Todas(w)
    <3>1. \A t \in 1..l : Todas(E[t]) = Todas(D[t])
      BY <1>2
    <3>2. l + 1 \in 1..l+1 /\ Todas(E[l + 1]) = Todas(w)
      BY <1>2
    <3> QED BY <3>1, <3>2, <1>3, <1>4
  <2> QED BY <2>1, <1>1, <1>2, <1>5 DEF Junta
<1> QED BY <1>1, <1>2, <1>6, <1>7 DEF Seguidas

\* After its last key the tree is one more run.
LEMMA LlevaPone == ASSUME InvS, LeeT, FaseT, SalidaT, LlevaT, Pone PROVE LlevaT'
<1>1. /\ op' = op /\ ff' = ff /\ pasada' = pasada /\ f1' = f1 /\ f2' = f2
      /\ fase = "recorre" /\ sigue' = sigue
      /\ sigue = "cierra" => corridas' = corridas
      /\ sigue # "cierra" => salida' = salida
  BY DEF Pone, entrada, mezclado
<1>2. PICK D, g : Lleva(D, g)
  BY <1>1 DEF LlevaT, Fallas
<1>3. Leidas' = Leidas
  BY PasoLee, <1>1 DEF Next, FormKey
<1>4. pasada = 0 /\ ff = <<>> /\ (sigue # "cierra" => salida = <<>>)
  BY <1>1 DEF InvS, LlenaS, FaseT, SalidaT
<1>5. PICK q, r, desde, hasta, j :
          /\ EsArbol(arbol, q, r, desde, hasta)
          /\ EnRecorrido(arbol, r, desde, hasta, nodo, pila, bajando, j)
          /\ sigue # "cierra" => /\ corridas # <<>>
                                 /\ Escrita(arbol, q, j, op, corridas[Len(corridas)])
  BY <1>1 DEF InvS, RecorreS
<1>6. /\ j \in Nat /\ j + 1 \in 1..Len(arbol) /\ nodo = q[j + 1]
      /\ nodo = Ultimo => j + 1 = Len(arbol) /\ arbol' = <<>> /\ fase' = sigue
      /\ nodo # Ultimo => arbol' = arbol /\ fase' = fase
  BY <1>5, PoneUna
<1>7. PICK d : d = corridas'
  OBVIOUS
<1>8. sigue # "cierra" =>
          /\ d \in Seq(Seq(Fichas(op))) /\ Len(d) = Len(corridas)
          /\ \A t \in 1..Len(d)-1 : d[t] = corridas[t]
          /\ Escrita(arbol, q, j + 1, op, d[Len(d)])
  BY <1>5, <1>6, <1>7, PoneEnCorrida
<1>9. CASE nodo # Ultimo
  <2>1. Cerradas' = Cerradas
    BY <1>1, <1>6, <1>7, <1>8, <1>9 DEF Cerradas
  <2>2. \A t \in 1..Cerradas : Tira(t)' = Tira(t)
    BY <1>1, <1>4, <1>7, <1>8 DEF Tira, Cerradas
  <2>3. Lleva(D, g)'
    BY <1>1, <1>2, <1>3, <1>4, <1>6, <1>9, <2>1, <2>2, LlevaIgual DEF Lleva
  <2> QED BY <2>3 DEF LlevaT
<1>10. CASE nodo = Ultimo /\ sigue = "cierra"
  BY <1>1, <1>6, <1>10 DEF LlevaT
<1>11. CASE nodo = Ultimo /\ sigue # "cierra"
  <2>1. PICK w : w = [i \in 1..Len(arbol) |-> Completa(arbol[q[i]])]
    OBVIOUS
  <2>2. PICK a, s : a = arbol /\ s = d[Len(d)]
    OBVIOUS
  <2>3. /\ w \in Seq(Completas) /\ Copia(op, s, w) /\ Ordenada(w) /\ Todas(w) = EnArbol(a)
    <3>1. a \in Seq(Nodos) /\ Escrita(a, q, Len(a), op, s) /\ EsArbol(a, q, r, desde, hasta)
      BY <1>5, <1>6, <1>8, <1>11, <2>2 DEF InvS, TipoS
    <3> QED BY <2>1, <2>2, <3>1, ArbolEscrito
  <2>4. PICK E : E = Append(D, w)
    OBVIOUS
  <2>5. g = <<>> /\ Todas(g) = {}
    BY <1>2, <1>4, CopiaVacia, OrdenaNada DEF Lleva, Copiadas
  <2>6. /\ E \in Seq(Seq(Completas)) /\ Len(E) = Len(D) + 1 /\ E[Len(D) + 1] = w
        /\ \A t \in 1..Len(D) : E[t] = D[t]
        /\ Ordenadas(E, g, <<>>, 0) /\ Junta(E, g, <<>>) = Junta(D, g, a)
    <3>1. D \in Seq(Seq(Completas)) /\ Ordenadas(D, g, a, 0)
      BY <1>2, <1>4, <2>2 DEF Lleva, Copiadas
    <3>2. Sigue(D, w, g, a, E)
      BY <2>3, <2>4, <2>5, <3>1 DEF Sigue
    <3>3. Seguidas(D, w, g, a, E)
      BY <3>2, UnaMas
    <3> QED BY <3>3 DEF Seguidas
  <2>7. /\ Len(D) = Len(d) - 1 /\ Cerradas = Len(d) - 1 /\ Cerradas' = Len(d)
        /\ Len(d) \in Nat /\ Len(D) \in Nat /\ Len(E) = Len(d)
    <3>1. Len(D) = Cerradas /\ Cerradas = Len(d) - 1
      BY <1>1, <1>2, <1>8, <1>11 DEF Lleva, Copiadas, Cerradas
    <3>2. Cerradas' = Len(d)
      <4>1. sigue \in {"lee", "mezcla", "cierra"}
        BY DEF InvS, TipoS
      <4> QED BY <1>1, <1>6, <1>7, <1>11, <4>1 DEF Cerradas
    <3>3. Len(d) \in Nat /\ Len(D) \in Nat
      <4>1. D \in Seq(Seq(Completas))
        BY <1>2 DEF Lleva, Copiadas
      <4> QED BY <1>8, <1>11, <4>1
    <3> QED BY <2>6, <3>1, <3>2, <3>3
  <2>8. ASSUME NEW t \in 1..Len(E) PROVE Copia(op, Tira(t)', E[t])
    <3>1. Tira(t)' = d[t]
      BY <1>1, <1>4, <1>7 DEF Tira
    <3>2. CASE t = Len(d)
      <4>1. E[t] = w /\ d[t] = s
        BY <2>2, <2>6, <2>7, <3>2
      <4> QED BY <3>1, <4>1, <2>3
    <3>3. CASE t # Len(d)
      <4>1. t \in 1..Len(D) /\ t \in 1..Len(d)-1
        BY <2>7, <3>3
      <4>2. E[t] = D[t] /\ d[t] = corridas[t] /\ Tira(t) = corridas[t]
        BY <4>1, <1>4, <1>8, <1>11, <2>6 DEF Tira
      <4>3. Copia(op, Tira(t), D[t])
        BY <4>1, <1>2 DEF Lleva, Copiadas
      <4> QED BY <3>1, <4>2, <4>3
    <3> QED BY <3>2, <3>3
  <2>9. Copiadas(E, g)'
    <3>1. Copia(op', ff', g)
      BY <1>1, <1>2 DEF Lleva, Copiadas
    <3> QED BY <2>6, <2>7, <2>8, <3>1, <1>1 DEF Copiadas
  <2>10. Lleva(E, g)'
    <3>1. arbol' = <<>> /\ pasada' = 0 /\ salida' = <<>>
      BY <1>1, <1>4, <1>6, <1>11
    <3>2. Leidas = Junta(D, g, a)
      BY <1>2, <2>2 DEF Lleva
    <3> QED BY <1>3, <2>6, <2>9, <3>1, <3>2 DEF Lleva
  <2> QED BY <2>10 DEF LlevaT
<1> QED BY <1>9, <1>10, <1>11

\* Files p and p + 1 are being merged in g, and the next entry is the first one of x.
Cruce(D, g, p, x, y) ==
    /\ D \in Seq(Seq(Completas)) /\ g \in Seq(Completas)
    /\ p \in Nat \ {0} /\ p + 1 \in 1..Len(D) /\ Ordenadas(D, g, <<>>, p)
    /\ (x = p /\ y = p + 1) \/ (x = p + 1 /\ y = p)
    /\ \A t \in 1..p-1 : D[t] = <<>>
    /\ D[x] # <<>> /\ D[y] # <<>> /\ D[x][1].llave <= D[y][1].llave
    /\ x = p + 1 => D[x][1].llave < D[y][1].llave
Pasado(D, g, x, E, k) ==
    /\ E \in Seq(Seq(Completas)) /\ Len(E) = Len(D) /\ E[x] = Tail(D[x])
    /\ \A t \in 1..Len(D) : t # x => E[t] = D[t]
    /\ k = Append(g, Head(D[x]))

\* The smaller of two first entries goes before the rest of both files.
LEMMA Cabeza ==
    ASSUME NEW D, NEW g, NEW p, NEW x, NEW y, NEW E, NEW k,
           Cruce(D, g, p, x, y), Pasado(D, g, x, E, k)
    PROVE  /\ k \in Seq(Completas) /\ Ordenada(k) /\ Ordenada(E[x])
           /\ Menores(Todas(k), Todas(E[x])) /\ Menores(Todas(k), Todas(E[y]))
           /\ \E h \in Completas : /\ Todas(k) = Todas(g) \cup {h}
                                   /\ Todas(D[x]) = Todas(E[x]) \cup {h}
<1>1. PICK G, A, B : G = Seq(Completas) /\ A = D[x] /\ B = D[y]
  OBVIOUS
<1>2. /\ D \in Seq(G) /\ p \in Nat \ {0} /\ x \in 1..Len(D) /\ y \in 1..Len(D) /\ x # y
      /\ x <= p + 1 /\ y <= p + 1
  <2>1. p \in 1..Len(D) /\ p + 1 \in 1..Len(D) /\ D \in Seq(G)
    BY <1>1 DEF Cruce
  <2> QED BY <2>1 DEF Cruce
<1>3. A \in Seq(Completas) /\ B \in Seq(Completas) /\ A # <<>> /\ B # <<>>
  BY <1>1, <1>2 DEF Cruce
<1>4. /\ Ordenada(g) /\ Ordenada(A) /\ Ordenada(B) /\ g \in Seq(Completas)
      /\ Menores(Todas(g), Todas(A)) /\ Menores(Todas(g), Todas(B))
  BY <1>1, <1>2 DEF Cruce, Ordenadas
<1>5. E[y] = B /\ E[x] = Tail(A) /\ k = Append(g, Head(A))
  BY <1>1, <1>2 DEF Pasado
<1>6. PICK t : t = Tail(A)
  OBVIOUS
<1>7. /\ k \in Seq(Completas) /\ t \in Seq(Completas) /\ Ordenada(k) /\ Ordenada(t)
      /\ Todas(k) = Todas(g) \cup {Head(A)} /\ Todas(A) = Todas(t) \cup {Head(A)}
      /\ Menores(Todas(k), Todas(t)) /\ Head(A) \in Completas
  BY <1>3, <1>4, <1>5, <1>6, PasaCabeza
<1>8. PICK h \in Completas : h = Head(A) /\ h = A[1]
  BY <1>3, <1>7
<1>9. Menores({h}, Todas(B))
  <2>1. h.llave <= B[1].llave
    BY <1>1, <1>8 DEF Cruce
  <2>2. h.llave < B[1].llave \/ Previas({h}, Todas(B))
    <3>1. CASE x = p + 1
      BY <1>1, <1>8, <3>1 DEF Cruce
    <3>2. CASE x = p
      <4>1. y = p + 1 /\ x < y
        BY <1>2, <3>2 DEF Cruce
      <4>2. Previas(Todas(A), Todas(B))
        BY <4>1, <1>1, <1>2 DEF Cruce, Ordenadas
      <4>3. h \in Todas(A)
        BY <1>7, <1>8
      <4> QED BY <4>2, <4>3 DEF Previas
    <3> QED BY <3>1, <3>2 DEF Cruce
  <2> QED BY <1>3, <1>4, <2>1, <2>2, CabezaMenor
<1>10. Menores(Todas(k), Todas(B))
  BY <1>4, <1>7, <1>8, <1>9 DEF Menores
<1> QED BY <1>1, <1>5, <1>6, <1>7, <1>8, <1>10

\* It goes to the result, and the files stand to each other as before.
LEMMA Pasa ==
    ASSUME NEW D, NEW g, NEW p, NEW x, NEW y, NEW E, NEW k,
           Cruce(D, g, p, x, y), Pasado(D, g, x, E, k)
    PROVE  /\ k \in Seq(Completas) /\ Ordenadas(E, k, <<>>, p)
           /\ Junta(E, k, <<>>) = Junta(D, g, <<>>)
<1>1. PICK G, l : G = Seq(Completas) /\ l = Len(D)
  OBVIOUS
<1>2. /\ D \in Seq(G) /\ E \in Seq(G) /\ Len(E) = l /\ l \in Nat /\ p \in Nat \ {0}
      /\ p + 1 \in 1..l /\ x \in 1..l /\ y \in 1..l /\ x <= p + 1
      /\ \A t \in 1..l : t # x => E[t] = D[t]
      /\ \A t \in 1..l : t <= p + 1 => t = x \/ t = y \/ t \in 1..p-1
  <2>1. p \in 1..l /\ p + 1 \in 1..l /\ D \in Seq(G) /\ E \in Seq(G) /\ Len(E) = l
    BY <1>1 DEF Cruce, Pasado
  <2>2. p \in Nat \ {0} /\ ((x = p /\ y = p + 1) \/ (x = p + 1 /\ y = p)) /\ l \in Nat
    BY <2>1, <1>1 DEF Cruce
  <2>3. \A t \in 1..l : t # x => E[t] = D[t]
    BY <1>1 DEF Pasado
  <2>4. \A t \in 1..l : t <= p + 1 => t = x \/ t = y \/ t \in 1..p-1
    BY <2>2
  <2> QED BY <2>1, <2>2, <2>3, <2>4
<1>3. PICK h \in Completas : /\ Todas(k) = Todas(g) \cup {h}
                             /\ Todas(D[x]) = Todas(E[x]) \cup {h}
  BY Cabeza
<1>4. /\ k \in Seq(Completas) /\ Ordenada(k) /\ Ordenada(E[x])
      /\ Menores(Todas(k), Todas(E[x])) /\ Menores(Todas(k), Todas(E[y]))
  BY Cabeza
<1>5. Ordenadas(D, g, <<>>, p)
  BY DEF Cruce
<1>6. \A t \in 1..l : Todas(E[t]) \subseteq Todas(D[t])
  BY <1>2, <1>3
<1>7. Ordenadas(E, k, <<>>, p)
  <2>1. \A t \in 1..l : Ordenada(E[t])
    BY <1>1, <1>2, <1>4, <1>5 DEF Ordenadas
  <2>2. ASSUME NEW t \in 1..l, NEW u \in 1..l, t < u PROVE Previas(Todas(E[t]), Todas(E[u]))
    <3>1. Previas(Todas(D[t]), Todas(D[u]))
      BY <1>1, <1>5, <2>2 DEF Ordenadas
    <3> QED BY <3>1, <1>6 DEF Previas
  <2>3. \A t \in 1..l : Previas(Todas(E[t]), EnArbol(<<>>))
    <3>1. \A t \in 1..l : Previas(Todas(D[t]), EnArbol(<<>>))
      BY <1>1, <1>5 DEF Ordenadas
    <3> QED BY <3>1, <1>6 DEF Previas
  <2>4. ASSUME NEW t \in 1..l
        PROVE  IF t <= p + 1 THEN Menores(Todas(k), Todas(E[t]))
                             ELSE Previas(Todas(k), Todas(E[t]))
    <3>1. CASE t <= p + 1
      <4>1. CASE t = x \/ t = y
        BY <4>1, <3>1, <1>4
      <4>2. CASE t \in 1..p-1 /\ t # x
        <5>1. E[t] = <<>>
          BY <4>2, <1>2 DEF Cruce
        <5>2. Todas(E[t]) = {}
          BY <5>1, OrdenaNada
        <5> QED BY <3>1, <5>2 DEF Menores
      <4> QED BY <3>1, <4>1, <4>2, <1>2
    <3>2. CASE ~ (t <= p + 1)
      <4>1. x < t
        BY <3>2, <1>2
      <4>2. Previas(Todas(g), Todas(D[t])) /\ Previas(Todas(D[x]), Todas(D[t]))
        BY <4>1, <3>2, <1>1, <1>2, <1>5 DEF Ordenadas
      <4>3. Previas(Todas(k), Todas(E[t]))
        BY <4>2, <1>3, <1>6 DEF Previas
      <4> QED BY <3>2, <4>3
    <3> QED BY <3>1, <3>2
  <2> QED BY <1>2, <1>4, <2>1, <2>2, <2>3, <2>4 DEF Ordenadas
<1>8. Junta(E, k, <<>>) = Junta(D, g, <<>>)
  <2>1. (UNION {Todas(E[t]) : t \in 1..l}) \cup {h} = (UNION {Todas(D[t]) : t \in 1..l}) \cup {h}
    <3>1. \A t \in 1..l : Todas(D[t]) \subseteq Todas(E[t]) \cup {h}
      BY <1>2, <1>3
    <3> QED BY <3>1, <1>6
  <2>2. h \in UNION {Todas(D[t]) : t \in 1..l}
    BY <1>2, <1>3
  <2> QED BY <2>1, <2>2, <1>1, <1>2, <1>3 DEF Junta
<1> QED BY <1>4, <1>7, <1>8

\* One of the two files ends, and the rest of the other one follows.
Acabada(E, k, p, y) ==
    /\ E \in Seq(Seq(Completas)) /\ k \in Seq(Completas)
    /\ p \in Nat \ {0} /\ p + 1 \in 1..Len(E) /\ y \in {p, p + 1}
    /\ Ordenadas(E, k, <<>>, p)
    /\ \A t \in 1..p+1 : t # y => E[t] = <<>>
Terminado(E, k, p, y, F) ==
    /\ F \in Seq(Seq(Completas)) /\ Len(F) = Len(E) /\ F[p] = <<>> /\ F[p + 1] = k \o E[y]
    /\ \A t \in 1..Len(E) : t # p /\ t # p + 1 => F[t] = E[t]

\* The result and what follows it take the place of the two files.
LEMMA Termina ==
    ASSUME NEW E, NEW k, NEW p, NEW y, NEW F, Acabada(E, k, p, y), Terminado(E, k, p, y, F)
    PROVE  Ordenadas(F, <<>>, <<>>, p) /\ Junta(F, <<>>, <<>>) = Junta(E, k, <<>>)
<1>1. PICK G, l : G = Seq(Completas) /\ l = Len(E)
  OBVIOUS
<1>2. /\ E \in Seq(G) /\ F \in Seq(G) /\ Len(F) = l /\ l \in Nat /\ p \in Nat \ {0}
      /\ p \in 1..l /\ p + 1 \in 1..l /\ y \in 1..l /\ y <= p + 1
      /\ \A t \in 1..l : t # p /\ t # p + 1 => F[t] = E[t]
      /\ \A t \in 1..l : t <= p + 1 => t \in 1..p+1
  <2>1. p \in 1..l /\ p + 1 \in 1..l /\ E \in Seq(G) /\ F \in Seq(G) /\ Len(F) = l
    <3>1. p \in Nat \ {0} /\ p + 1 \in 1..l
      BY <1>1 DEF Acabada
    <3>2. E \in Seq(G) /\ F \in Seq(G) /\ Len(F) = l
      BY <1>1 DEF Acabada, Terminado
    <3>3. l \in Nat
      BY <1>1, <3>2
    <3>4. p \in 1..l
      BY <3>1, <3>3
    <3> QED BY <3>1, <3>2, <3>4
  <2>2. p \in Nat \ {0} /\ y \in {p, p + 1} /\ l \in Nat
    BY <2>1, <1>1 DEF Acabada
  <2>3. \A t \in 1..l : t # p /\ t # p + 1 => F[t] = E[t]
    BY <1>1 DEF Terminado
  <2> QED BY <2>1, <2>2, <2>3
<1>3. Ordenadas(E, k, <<>>, p)
  BY DEF Acabada
<1>4. PICK s, w : s = E[y] /\ w = F[p + 1]
  OBVIOUS
<1>5. w \in Seq(Completas) /\ Ordenada(w) /\ Todas(w) = Todas(k) \cup Todas(s)
  <2>1. s \in Seq(Completas) /\ k \in Seq(Completas) /\ w = k \o s
    BY <1>1, <1>2, <1>4 DEF Acabada, Terminado
  <2>2. Ordenada(k) /\ Ordenada(s) /\ Menores(Todas(k), Todas(s))
    BY <1>1, <1>2, <1>3, <1>4 DEF Ordenadas
  <2> QED BY <2>1, <2>2, UneOrdenadas
<1>6. Todas(<<>>) = {} /\ Ordenada(<<>>)
  BY OrdenaNada
<1>7. \A t \in 1..l : t # p + 1 /\ t <= p + 1 => F[t] = <<>>
  <2>1. ASSUME NEW t \in 1..l, t # p + 1, t <= p + 1, t # p PROVE F[t] = <<>>
    <3>1. t \in 1..p+1 /\ t # y /\ F[t] = E[t]
      BY <2>1, <1>2 DEF Acabada
    <3> QED BY <3>1 DEF Acabada
  <2>2. F[p] = <<>>
    BY DEF Terminado
  <2> QED BY <2>1, <2>2
<1>8. \A t \in 1..l : ~ (t <= p + 1) => F[t] = E[t]
  BY <1>2
<1>9. Ordenadas(F, <<>>, <<>>, p)
  <2>1. ASSUME NEW t \in 1..l PROVE Ordenada(F[t])
    <3>1. CASE ~ (t <= p + 1)
      BY <3>1, <1>1, <1>3, <1>8 DEF Ordenadas
    <3>2. CASE t = p + 1
      BY <3>2, <1>4, <1>5
    <3>3. CASE t # p + 1 /\ t <= p + 1
      BY <3>3, <1>6, <1>7
    <3> QED BY <3>1, <3>2, <3>3
  <2>2. ASSUME NEW t \in 1..l, NEW u \in 1..l, t < u PROVE Previas(Todas(F[t]), Todas(F[u]))
    <3>1. CASE t # p + 1 /\ t <= p + 1
      BY <3>1, <1>6, <1>7 DEF Previas
    <3>2. CASE t = p + 1
      <4>1. ~ (u <= p + 1) /\ y < u
        BY <2>2, <3>2, <1>2
      <4>2. Previas(Todas(k), Todas(E[u])) /\ Previas(Todas(s), Todas(E[u]))
        BY <4>1, <1>1, <1>2, <1>3, <1>4 DEF Ordenadas
      <4> QED BY <3>2, <4>1, <4>2, <1>4, <1>5, <1>8 DEF Previas
    <3>3. CASE ~ (t <= p + 1)
      <4>1. ~ (u <= p + 1)
        BY <2>2, <3>3, <1>2
      <4> QED BY <2>2, <3>3, <4>1, <1>1, <1>3, <1>8 DEF Ordenadas
    <3> QED BY <3>1, <3>2, <3>3
  <2>3. \A t \in 1..l : Previas(Todas(F[t]), EnArbol(<<>>))
    <3>1. EnArbol(<<>>) = {}
      <4>1. \A n \in 1..Len(<<>>) : FALSE
        OBVIOUS
      <4> QED BY <4>1 DEF EnArbol
    <3> QED BY <3>1 DEF Previas
  <2>4. \A t \in 1..l : Menores(Todas(<<>>), Todas(F[t])) /\ Previas(Todas(<<>>), Todas(F[t]))
    BY <1>6 DEF Menores, Previas
  <2> QED BY <1>2, <1>6, <2>1, <2>2, <2>3, <2>4 DEF Ordenadas
<1>10. Junta(F, <<>>, <<>>) = Junta(E, k, <<>>)
  <2>1. \A t \in 1..l : Todas(F[t]) \subseteq Todas(E[t]) \cup Todas(k) \cup Todas(s)
    <3>1. ASSUME NEW t \in 1..l PROVE Todas(F[t]) \subseteq Todas(E[t]) \cup Todas(k) \cup Todas(s)
      <4>1. CASE ~ (t <= p + 1)
        BY <4>1, <1>8
      <4>2. CASE t = p + 1
        BY <4>2, <1>4, <1>5
      <4>3. CASE t # p + 1 /\ t <= p + 1
        BY <4>3, <1>6, <1>7
      <4> QED BY <4>1, <4>2, <4>3
    <3> QED BY <3>1
  <2>2. \A t \in 1..l : Todas(E[t]) \subseteq Todas(F[t]) \cup Todas(w)
    <3>1. ASSUME NEW t \in 1..l PROVE Todas(E[t]) \subseteq Todas(F[t]) \cup Todas(w)
      <4>1. CASE ~ (t <= p + 1)
        BY <4>1, <1>8
      <4>2. CASE t = y
        BY <4>2, <1>4, <1>5
      <4>3. CASE t # y /\ t <= p + 1
        <5>1. t \in 1..p+1
          BY <4>3, <1>2
        <5>2. E[t] = <<>>
          BY <4>3, <5>1 DEF Acabada
        <5> QED BY <5>2, <1>6
      <4> QED BY <4>1, <4>2, <4>3
    <3> QED BY <3>1
  <2>3. /\ Todas(s) = Todas(E[y]) /\ y \in 1..l /\ Todas(w) = Todas(F[p + 1])
        /\ p + 1 \in 1..l
    BY <1>2, <1>4
  <2>4. (UNION {Todas(F[t]) : t \in 1..l}) = (UNION {Todas(E[t]) : t \in 1..l}) \cup Todas(k)
    <3> HIDE <1>2, <1>7, <1>8
    <3>1. \A z \in UNION {Todas(F[t]) : t \in 1..l} :
              z \in (UNION {Todas(E[t]) : t \in 1..l}) \cup Todas(k)
      BY <2>1, <2>3
    <3>2. \A z \in UNION {Todas(E[t]) : t \in 1..l} : z \in UNION {Todas(F[t]) : t \in 1..l}
      BY <2>2, <2>3
    <3>3. \A z \in Todas(k) : z \in UNION {Todas(F[t]) : t \in 1..l}
      BY <1>5, <2>3
    <3> QED BY <3>1, <3>2, <3>3
  <2> QED BY <2>4, <1>1, <1>2, <1>6 DEF Junta
<1> QED BY <1>9, <1>10

\* The two files of a merge, of which g gives the next entry to h, and o is the other one.
Compuesta(o, h, s, g, x) == Copia(o, Append(h, Head(s)), Append(g, Head(x)))

\* The entry that goes over is the same one in the program's files.
LEMMA CopiaPasa ==
    ASSUME NEW o, NEW h \in Seq(Fichas(o)), NEW s \in Seq(Fichas(o)), s # <<>>,
           NEW g, NEW x, Copia(o, h, g), Copia(o, s, x)
    PROVE  Compuesta(o, h, s, g, x) /\ Append(h, Head(s)) \in Seq(Fichas(o))
<1>1. PICK y, z : y = Head(s) /\ z = Head(x)
  OBVIOUS
<1>2. x \in Seq(Completas) /\ x # <<>> /\ y = FichaDe(o, z) /\ z = x[1] /\ x[1] \in Completas
  BY <1>1, CopiaCabeza
<1>3. Copia(o, Append(h, y), Append(g, z)) /\ y \in Fichas(o)
  BY <1>2, CopiaMas
<1>4. Append(h, y) \in Seq(Fichas(o))
  <2>1. PICK F : F = Fichas(o)
    OBVIOUS
  <2> QED BY <1>3, <2>1
<1> QED BY <1>1, <1>3, <1>4 DEF Compuesta

\* One more entry goes to the result of a merge; when its file ends, so does the other.
LEMMA LlevaCompara == ASSUME InvS, LeeT, FaseT, SalidaT, LlevaT, Compara PROVE LlevaT'
<1>1. /\ op' = op /\ arbol' = arbol /\ salida' = salida /\ sigue' = sigue /\ pasada' = pasada
      /\ corridas' = corridas /\ fase = "compara"
  BY DEF Compara, entrada, recorrido
<1>2. PICK D, g : Lleva(D, g)
  BY <1>1 DEF LlevaT, Fallas
<1>3. Leidas' = Leidas
  BY PasoLee, <1>1 DEF Next, FormKey
<1>4. salida = <<>> /\ arbol = <<>>
  BY <1>1 DEF SalidaT, FaseT, Mezclando
<1>5. PICK p, a, b, h : p = pasada /\ a = f1 /\ b = f2 /\ h = ff
  OBVIOUS
<1>6. PICK F : F = Fichas(op)
  OBVIOUS
<1>7. a \in Seq(F) /\ b \in Seq(F) /\ h \in Seq(F) /\ a # <<>> /\ b # <<>>
  BY <1>1, <1>5, <1>6 DEF InvS, TipoS, LlenaS
<1>8. /\ D \in Seq(Seq(Completas)) /\ g \in Seq(Completas) /\ Copia(op, h, g)
      /\ Cerradas = Len(D) /\ Len(D) = Len(corridas)
      /\ Leidas = Junta(D, g, <<>>) /\ Ordenadas(D, g, <<>>, p)
  BY <1>1, <1>2, <1>4, <1>5 DEF Lleva, Copiadas, Copia, Cerradas
<1>9. p \in Nat \ {0} /\ p + 1 \in 1..Len(D) /\ p \in 1..Len(D) /\ Len(D) \in Nat
  <2>1. p \in Nat /\ p # 0 /\ p + 1 <= Len(corridas)
    BY <1>1, <1>5 DEF FaseT, InvS, TipoS
  <2>2. Len(D) \in Nat
    BY <1>8
  <2> QED BY <2>1, <2>2, <1>8
<1>10. \A t \in 1..Len(D) : Copia(op, Tira(t), D[t])
  BY <1>2 DEF Lleva, Copiadas
<1>11. /\ Tira(p) = a /\ Tira(p + 1) = b
       /\ \A t \in 1..p-1 : Tira(t) = <<>>
       /\ \A t \in 1..Len(D) : t > p + 1 => Tira(t) = corridas[t]
  <2>1. p # 0 /\ ~ (p > p + 1) /\ ~ (p + 1 > p + 1) /\ p + 1 # p
    BY <1>9
  <2>2. \A t \in 1..p-1 : ~ (t > p + 1) /\ t # p /\ t # p + 1
    BY <1>9
  <2> QED BY <2>1, <2>2, <1>1, <1>5 DEF Tira
<1>12. /\ Copia(op, a, D[p]) /\ Copia(op, b, D[p + 1])
       /\ \A t \in 1..p-1 : t \in 1..Len(D) /\ D[t] = <<>>
  <2>1. \A t \in 1..p-1 : t \in 1..Len(D)
    BY <1>9
  <2> QED BY <1>9, <1>10, <1>11, <2>1, CopiaVacia
<1>13. PICK s, o, x, y :
           \/ Gana(Head(a), Head(b)) /\ s = b /\ o = a /\ x = p + 1 /\ y = p
           \/ ~ Gana(Head(a), Head(b)) /\ s = a /\ o = b /\ x = p /\ y = p + 1
  <2>1. CASE Gana(Head(a), Head(b))
    BY <2>1
  <2>2. CASE ~ Gana(Head(a), Head(b))
    BY <2>2
  <2> QED BY <2>1, <2>2
<1>14. /\ s \in Seq(F) /\ o \in Seq(F) /\ s # <<>> /\ o # <<>>
       /\ Copia(op, s, D[x]) /\ Copia(op, o, D[y])
       /\ x \in 1..Len(D) /\ y \in 1..Len(D)
       /\ (x = p /\ y = p + 1) \/ (x = p + 1 /\ y = p)
  BY <1>7, <1>9, <1>12, <1>13
<1>15. /\ D[x] \in Seq(Completas) /\ D[x] # <<>> /\ D[y] \in Seq(Completas) /\ D[y] # <<>>
       /\ Head(s) = s[1] /\ Head(o) = o[1] /\ s[1].llave = D[x][1].llave
       /\ o[1].llave = D[y][1].llave
       /\ Tail(s) \in Seq(F) /\ Copia(op, Tail(s), Tail(D[x]))
       /\ Tail(D[x]) \in Seq(Completas) /\ D[x][1] \in Completas /\ D[y][1] \in Completas
  <2>1. /\ D[x] \in Seq(Completas) /\ D[x] # <<>> /\ Head(s) = s[1]
        /\ s[1].llave = D[x][1].llave /\ Tail(s) \in Seq(F) /\ Copia(op, Tail(s), Tail(D[x]))
        /\ D[x][1] \in Completas
    BY <1>6, <1>14, CopiaCabeza
  <2>2. /\ D[y] \in Seq(Completas) /\ D[y] # <<>> /\ Head(o) = o[1]
        /\ o[1].llave = D[y][1].llave /\ D[y][1] \in Completas
    BY <1>6, <1>14, CopiaCabeza
  <2>3. Tail(D[x]) \in Seq(Completas)
    BY <2>1 DEF Copia
  <2> QED BY <2>1, <2>2, <2>3
<1>16. /\ D[x][1].llave <= D[y][1].llave
       /\ x = p + 1 => D[x][1].llave < D[y][1].llave
  <2>1. D[x][1].llave \in Int /\ D[y][1].llave \in Int
    BY <1>15 DEF Completas
  <2>2. CASE Gana(Head(a), Head(b)) /\ s = b /\ o = a
    <3>1. D[y][1].llave > D[x][1].llave
      BY <2>2, <1>15 DEF Gana
    <3> QED BY <2>1, <3>1
  <2>3. CASE ~ Gana(Head(a), Head(b)) /\ s = a /\ o = b /\ x = p
    <3>1. ~ (D[x][1].llave > D[y][1].llave)
      BY <2>3, <1>15 DEF Gana
    <3>2. x # p + 1
      BY <2>3, <1>9
    <3> QED BY <2>1, <3>1, <3>2
  <2> QED BY <2>2, <2>3, <1>13
<1>17. Cruce(D, g, p, x, y)
  BY <1>8, <1>9, <1>12, <1>14, <1>15, <1>16 DEF Cruce
<1>18. PICK u, k, E : u = Tail(D[x]) /\ k = Append(g, Head(D[x])) /\ E = [D EXCEPT ![x] = u]
  OBVIOUS
<1>19. /\ E \in Seq(Seq(Completas)) /\ Len(E) = Len(D) /\ E[x] = u
       /\ \A t \in 1..Len(D) : t # x => E[t] = D[t]
  <2>1. PICK G : G = Seq(Completas)
    OBVIOUS
  <2>2. D \in Seq(G) /\ u \in G /\ x \in 1..Len(D)
    <3>1. D \in Seq(G)
      BY <2>1, <1>8
    <3>2. u \in G
      BY <2>1, <1>15, <1>18
    <3>3. x \in 1..Len(D)
      BY <1>14
    <3> QED BY <3>1, <3>2, <3>3
  <2>3. /\ E \in Seq(G) /\ Len(E) = Len(D) /\ E[x] = u
        /\ \A t \in 1..Len(D) : t # x => E[t] = D[t]
    BY <2>2, <1>18, CambiaUna
  <2> QED BY <2>1, <2>3
<1>20. Pasado(D, g, x, E, k)
  BY <1>18, <1>19 DEF Pasado
<1>21. /\ k \in Seq(Completas) /\ Ordenadas(E, k, <<>>, p)
       /\ Junta(E, k, <<>>) = Junta(D, g, <<>>)
  BY <1>17, <1>20, Pasa
<1>22. PICK c : c = Append(h, Head(s))
  OBVIOUS
<1>23. Copia(op, c, k) /\ c \in Seq(F)
  <2>1. Compuesta(op, h, s, g, D[x]) /\ Append(h, Head(s)) \in Seq(F)
    BY <1>6, <1>7, <1>8, <1>14, CopiaPasa
  <2> QED BY <2>1, <1>18, <1>22 DEF Compuesta
<1>24. /\ fase' # "recorre" /\ Cerradas' = Len(D) /\ op' = op
       /\ pasada' = p /\ corridas' = corridas /\ arbol' = <<>> /\ salida' = <<>>
  <2>1. fase' # "recorre"
    BY <1>1 DEF Compara
  <2> QED BY <2>1, <1>1, <1>4, <1>5, <1>8 DEF Cerradas
<1>25. CASE Tail(s) # <<>>
  <2>1. /\ ff' = c /\ fase' = "compara"
        /\ \/ (s = a /\ o = b /\ x = p /\ y = p + 1 /\ f1' = Tail(s) /\ f2' = o)
           \/ (s = b /\ o = a /\ x = p + 1 /\ y = p /\ f1' = o /\ f2' = Tail(s))
    <3>1. CASE Gana(Head(a), Head(b)) /\ s = b /\ o = a /\ x = p + 1 /\ y = p
      BY <3>1, <1>1, <1>5, <1>22, <1>25 DEF Compara
    <3>2. CASE ~ Gana(Head(a), Head(b)) /\ s = a /\ o = b /\ x = p /\ y = p + 1
      BY <3>2, <1>1, <1>5, <1>22, <1>25 DEF Compara
    <3> QED BY <3>1, <3>2, <1>13
  <2>2. Tira(x)' = Tail(s) /\ Tira(y)' = o
    <3>1. p # 0 /\ ~ (p > p + 1) /\ ~ (p + 1 > p + 1) /\ p + 1 # p
      BY <1>9
    <3>2. CASE x = p /\ y = p + 1 /\ f1' = Tail(s) /\ f2' = o
      BY <3>1, <3>2, <1>24, <2>1 DEF Tira
    <3>3. CASE x = p + 1 /\ y = p /\ f1' = o /\ f2' = Tail(s)
      BY <3>1, <3>3, <1>24, <2>1 DEF Tira
    <3> QED BY <3>2, <3>3, <2>1
  <2>3. ASSUME NEW t \in 1..Len(D), t # x, t # y PROVE Tira(t)' = Tira(t)
    <3>1. t # p /\ t # p + 1
      BY <2>1, <2>3
    <3> QED BY <3>1, <1>1, <1>5, <1>24, <2>1 DEF Tira
  <2>4. \A t \in 1..Len(E) : Copia(op', Tira(t)', E[t])
    <3>1. ASSUME NEW t \in 1..Len(D) PROVE Copia(op, Tira(t)', E[t])
      <4>1. CASE t = x
        BY <4>1, <2>2, <1>15, <1>18, <1>19
      <4>2. CASE t = y
        <5>1. y # x
          BY <1>9, <2>1
        <5> QED BY <4>2, <5>1, <2>2, <1>14, <1>19
      <4>3. CASE t # x /\ t # y
        BY <4>3, <2>3, <1>10, <1>19
      <4> QED BY <4>1, <4>2, <4>3
    <3> QED BY <3>1, <1>19, <1>24
  <2>5. Copiadas(E, k)'
    BY <2>1, <2>4, <1>19, <1>23, <1>24 DEF Copiadas
  <2>6. Lleva(E, k)'
    BY <2>5, <1>3, <1>5, <1>8, <1>21, <1>24 DEF Lleva
  <2> QED BY <2>6 DEF LlevaT
<1>26. CASE Tail(s) = <<>>
  <2>1. ff' = <<>> /\ f2' = <<>> /\ f1' = c \o o /\ fase' = "mezcla"
    <3>1. CASE Gana(Head(a), Head(b)) /\ s = b /\ o = a
      BY <3>1, <1>1, <1>5, <1>22, <1>26 DEF Compara, Resto
    <3>2. CASE ~ Gana(Head(a), Head(b)) /\ s = a /\ o = b
      BY <3>2, <1>1, <1>5, <1>22, <1>26 DEF Compara, Resto
    <3> QED BY <3>1, <3>2, <1>13
  <2>2. E[x] = <<>>
    <3>1. u = <<>>
      BY <1>15, <1>18, <1>26, CopiaVacia
    <3> QED BY <3>1, <1>19
  <2>3. E[y] = D[y]
    BY <1>9, <1>14, <1>19
  <2>4. PICK z, F1, F2 : /\ z = k \o E[y] /\ F1 = [E EXCEPT ![p] = <<>>]
                         /\ F2 = [F1 EXCEPT ![p + 1] = z]
    OBVIOUS
  <2>5. PICK G : G = Seq(Completas)
    OBVIOUS
  <2>6. z \in G
    <3>1. PICK v : v = E[y]
      OBVIOUS
    <3>2. v \in Seq(Completas)
      BY <3>1, <2>3, <1>15
    <3>3. z = k \o v
      BY <2>4, <3>1
    <3> QED BY <3>2, <3>3, <1>21, <2>5, ConcatProperties
  <2>7. /\ F1 \in Seq(G) /\ Len(F1) = Len(E) /\ F1[p] = <<>>
        /\ \A t \in 1..Len(E) : t # p => F1[t] = E[t]
    <3>1. E \in Seq(G) /\ p \in 1..Len(E)
      BY <1>9, <1>19, <2>5
    <3>2. <<>> \in G
      BY <2>5
    <3>3. PICK v : v = <<>>
      OBVIOUS
    <3>4. v \in G /\ F1 = [E EXCEPT ![p] = v]
      BY <3>2, <3>3, <2>4
    <3> QED BY <3>1, <3>3, <3>4, CambiaUna
  <2>8. /\ F2 \in Seq(G) /\ Len(F2) = Len(F1) /\ F2[p + 1] = z
        /\ \A t \in 1..Len(F1) : t # p + 1 => F2[t] = F1[t]
    <3>1. PICK q : q = p + 1
      OBVIOUS
    <3>2. q \in 1..Len(F1)
      BY <3>1, <2>7, <1>9, <1>19
    <3>3. F2 = [F1 EXCEPT ![q] = z] /\ F1 \in Seq(G)
      BY <3>1, <2>4, <2>7
    <3> QED BY <3>1, <3>2, <3>3, <2>6, CambiaUna
  <2>9. Acabada(E, k, p, y)
    <3>1. ASSUME NEW t \in 1..p+1, t # y PROVE E[t] = <<>>
      <4>1. CASE t = x
        BY <4>1, <2>2
      <4>2. CASE t # x
        <5>1. t \in 1..p-1 /\ t \in 1..Len(D)
          BY <4>2, <3>1, <1>9, <1>14
        <5> QED BY <5>1, <4>2, <1>12, <1>19
      <4> QED BY <4>1, <4>2
    <3>2. p + 1 \in 1..Len(E) /\ y \in {p, p + 1}
      BY <1>9, <1>14, <1>19
    <3> QED BY <3>1, <3>2, <1>9, <1>19, <1>21 DEF Acabada
  <2>10. Terminado(E, k, p, y, F2)
    <3>1. F2 \in Seq(Seq(Completas)) /\ Len(F2) = Len(E) /\ F2[p + 1] = k \o E[y]
      BY <2>4, <2>5, <2>7, <2>8
    <3>2. F2[p] = <<>>
      BY <2>7, <2>8, <1>9, <1>19
    <3>3. \A t \in 1..Len(E) : t # p /\ t # p + 1 => F2[t] = E[t]
      BY <2>7, <2>8
    <3> QED BY <3>1, <3>2, <3>3 DEF Terminado
  <2>11. Ordenadas(F2, <<>>, <<>>, p) /\ Junta(F2, <<>>, <<>>) = Junta(E, k, <<>>)
    BY <2>9, <2>10, Termina
  <2>12. Copia(op, f1', z)
    BY <2>1, <2>3, <2>4, <1>6, <1>14, <1>23, CopiaUne
  <2>13. ASSUME NEW t \in 1..Len(D) PROVE Copia(op, Tira(t)', F2[t])
    <3>1. CASE t = p + 1
      <4>1. p # 0 /\ ~ (p + 1 > p + 1)
        BY <1>9
      <4>2. Tira(t)' = f1'
        BY <3>1, <4>1, <2>1, <1>24 DEF Tira
      <4> QED BY <3>1, <4>2, <2>8, <2>12
    <3>2. CASE t # p + 1 /\ ~ (t > p + 1)
      <4>1. Tira(t)' = <<>>
        BY <3>2, <2>1, <1>9, <1>24 DEF Tira
      <4>2. F2[t] = <<>>
        <5>1. CASE t = p
          BY <5>1, <2>10 DEF Terminado
        <5>2. CASE t # p
          <6>1. t \in 1..p+1 /\ t # y /\ t \in 1..Len(E)
            BY <3>2, <5>2, <1>9, <1>14, <1>19
          <6> QED BY <3>2, <5>2, <6>1, <2>9, <2>10 DEF Acabada, Terminado
        <5> QED BY <5>1, <5>2
      <4> QED BY <4>1, <4>2, CopiaNada
    <3>3. CASE t > p + 1
      <4>1. Tira(t)' = Tira(t)
        BY <3>3, <1>11, <1>24 DEF Tira
      <4>2. t # p /\ t # p + 1 /\ t # x /\ t \in 1..Len(E)
        BY <3>3, <1>9, <1>14, <1>19
      <4>3. F2[t] = D[t]
        BY <4>2, <1>19, <2>10 DEF Terminado
      <4> QED BY <4>1, <4>3, <1>10
    <3> QED BY <3>1, <3>2, <3>3
  <2>14. F2 \in Seq(Seq(Completas)) /\ Len(F2) = Len(D)
    BY <2>10, <1>19 DEF Terminado
  <2>15. Copiadas(F2, <<>>)'
    <3>1. Copia(op, ff', <<>>)
      BY <2>1, CopiaNada
    <3> QED BY <3>1, <2>13, <2>14, <1>24 DEF Copiadas
  <2>16. Lleva(F2, <<>>)'
    BY <2>11, <2>15, <1>3, <1>5, <1>8, <1>21, <1>24 DEF Lleva
  <2> QED BY <2>16 DEF LlevaT
<1> QED BY <1>25, <1>26

\* What has been read keeps its entries at every step.
LEMMA PasoLleva == ASSUME InvS, LeeT, FaseT, SalidaT, LlevaT, Next PROVE LlevaT'
  BY LlevaLee, LlevaFormKey, LlevaPone, LlevaFinal, LlevaMezcla, LlevaCompara, LlevaSale DEF Next

-----------------------------------------------------------------------------
(* The records that go out *)

\* At the start nothing has gone out.
LEMMA SalidaInicio == ASSUME Init PROVE SalidaT
<1>1. <<>> \in Seq(Nat \X Nat)
  OBVIOUS
<1> QED BY <1>1 DEF Init, SalidaT

\* Nothing goes out while it reads, merges, or writes a run.
LEMMA SalidaNada ==
    ASSUME salida' = <<>>,
           \/ fase' \in {"abre", "lee", "mezcla", "compara"} \cup Fallas
           \/ fase' = "recorre" /\ sigue' # "cierra"
    PROVE  SalidaT'
<1>1. salida' \in Seq(Nat \X Nat)
  <2>1. <<>> \in Seq(Nat \X Nat)
    OBVIOUS
  <2> QED BY <2>1
<1> QED BY <1>1 DEF SalidaT, Fallas

\* Nor while it reads and merges.
LEMMA SalidaLee ==
    ASSUME InvS, FaseT, SalidaT, Abre \/ Salta \/ Acaba \/ FormKey \/ Mezcla \/ Compara
    PROVE  SalidaT'
<1>1. salida = <<>>
  <2>1. CASE Mezcla
    <3>1. fase = "mezcla" /\ pasada + 1 < Len(corridas)
      BY <2>1 DEF Mezcla
    <3>2. pasada \in Nat /\ Len(corridas) \in Nat
      BY DEF InvS, TipoS
    <3>3. pasada + 1 # Len(corridas)
      BY <3>1, <3>2
    <3> QED BY <3>1, <3>3 DEF SalidaT
  <2>2. CASE Abre \/ Salta \/ Acaba \/ FormKey \/ Compara
    BY <2>2 DEF SalidaT, Abre, Salta, Acaba, FormKey, Compara
  <2> QED BY <2>1, <2>2
<1>2. salida' = salida
  BY DEF Abre, Salta, Acaba, FormKey, Mezcla, Compara
<1>3. \/ fase' \in {"abre", "lee", "mezcla", "compara"}
      \/ fase' = "recorre" /\ sigue' # "cierra"
  BY DEF Abre, Salta, Acaba, FormKey, Mezcla, Compara, Recorrera
<1> QED BY <1>1, <1>2, <1>3, SalidaNada

\* The records go out along the tree when it is the only file.
Saliendo(S, a, x, p, b) ==
    \E q, r, desde, hasta, j :
        /\ EsArbol(a, q, r, desde, hasta) /\ EnRecorrido(a, r, desde, hasta, x, p, b, j)
        /\ Len(S) = j /\ \A i \in 1..j : S[i] = a[q[i]].lugar

\* What holds of the next state when the walk goes on.
LEMMA SalidaArbol ==
    ASSUME salida' \in Seq(Nat \X Nat), fase' = "recorre", sigue' = "cierra",
           Saliendo(Sacadas', arbol', nodo', pila', bajando')
    PROVE  SalidaT'
<1>1. PICK S, a, x, p, b :
          S = Sacadas' /\ a = arbol' /\ x = nodo' /\ p = pila' /\ b = bajando'
  OBVIOUS
<1>2. \E q, r, desde, hasta, j :
        /\ EsArbol(a, q, r, desde, hasta) /\ EnRecorrido(a, r, desde, hasta, x, p, b, j)
        /\ Len(S) = j /\ \A i \in 1..j : S[i] = a[q[i]].lugar
  BY <1>1 DEF Saliendo
<1> QED BY <1>1, <1>2 DEF SalidaT

\* The walk that puts the records out begins.
LEMMA SalidaFinal == ASSUME InvS, SalidaT, AlFinal PROVE SalidaT'
<1>1. salida' = salida /\ salida = <<>> /\ fase = "abre" /\ arbol' = arbol
  BY DEF AlFinal, SalidaT
<1>2. CASE fase' \in Fallas \/ sigue' # "cierra"
  <2>1. fase' \in {"mezcla"} \cup Fallas \/ (fase' = "recorre" /\ sigue' # "cierra")
    BY <1>2 DEF AlFinal, Recorrera, Fallas
  <2> QED BY <1>1, <2>1, SalidaNada
<1>3. CASE fase' \notin Fallas /\ sigue' = "cierra"
  <2>1. /\ fase' = "recorre" /\ nodo' = 1 /\ pila' = <<>> /\ bajando' = TRUE /\ arbol # <<>>
    BY <1>3 DEF AlFinal, Recorrera, Fallas
  <2>2. PICK a : a = arbol
    OBVIOUS
  <2>3. PICK q, r, desde, hasta : EsArbol(a, q, r, desde, hasta)
    BY <1>1, <2>2 DEF InvS, ArbolS
  <2>4. EnRecorrido(a, r, desde, hasta, 1, <<>>, TRUE, 0)
    <3>1. a \in Seq(Nodos) /\ a # <<>>
      BY <2>1, <2>2 DEF InvS, TipoS
    <3> QED BY <2>3, <3>1, RecorridoInicia
  <2>5. Sacadas' = <<>> /\ Len(<<>>) = 0 /\ \A i \in 1..0 : FALSE
    BY <1>1 DEF Sacadas
  <2>6. Saliendo(<<>>, a, 1, <<>>, TRUE)
    BY <2>3, <2>4, <2>5 DEF Saliendo
  <2>7. salida' \in Seq(Nat \X Nat)
    BY <1>1 DEF SalidaT
  <2> QED BY <1>1, <1>3, <2>1, <2>2, <2>5, <2>6, <2>7, SalidaArbol
<1> QED BY <1>2, <1>3

\* On the way down nothing goes out.
LEMMA SalidaBaja == ASSUME InvS, SalidaT, Baja PROVE SalidaT'
<1>1. /\ salida' = salida /\ fase = "recorre" /\ fase' = fase /\ sigue' = sigue
      /\ bajando /\ arbol' = arbol /\ bajando' = bajando
      /\ arbol[nodo].menor # 0 /\ nodo' = arbol[nodo].menor /\ pila' = Append(pila, nodo)
  BY DEF Baja
<1>2. CASE sigue # "cierra"
  BY <1>1, <1>2, SalidaNada DEF SalidaT
<1>3. CASE sigue = "cierra"
  <2>1. PICK a, x, p, S : a = arbol /\ x = nodo /\ p = pila /\ S = Sacadas
    OBVIOUS
  <2>2. a \in Seq(Nodos) /\ bajando = TRUE
    BY <1>1, <2>1 DEF InvS, TipoS
  <2>3. PICK q, r, desde, hasta, j :
            /\ EsArbol(a, q, r, desde, hasta)
            /\ EnRecorrido(a, r, desde, hasta, x, p, TRUE, j)
            /\ Len(S) = j /\ \A i \in 1..j : S[i] = a[q[i]].lugar
    BY <1>1, <1>3, <2>1, <2>2 DEF SalidaT
  <2>4. EnRecorrido(a, r, desde, hasta, a[x].menor, Append(p, x), TRUE, j)
    BY <1>1, <2>1, <2>2, <2>3, RecorridoBaja
  <2>5. Sacadas' = S
    BY <1>1, <2>1 DEF Sacadas
  <2>6. Saliendo(S, a, a[x].menor, Append(p, x), TRUE)
    BY <2>3, <2>4 DEF Saliendo
  <2>7. salida' \in Seq(Nat \X Nat)
    BY <1>1 DEF SalidaT
  <2> QED BY <1>1, <1>3, <2>1, <2>2, <2>5, <2>6, <2>7, SalidaArbol
<1> QED BY <1>2, <1>3

\* When one tree held everything, it is the input.
LEMMA TodoEnArbol ==
    ASSUME InvS, LeeT, FaseT, LlevaT, fase = "recorre", sigue = "cierra"
    PROVE  Leida = EnArbol(arbol)
<1>1. PICK D, g : Lleva(D, g)
  BY DEF LlevaT, Fallas
<1>2. corridas = <<>> /\ ff = <<>> /\ Leidas = Leida
  BY DEF FaseT, LeeT
<1>3. g = <<>> /\ Todas(g) = {}
  BY <1>1, <1>2, CopiaVacia, OrdenaNada DEF Lleva, Copiadas
<1>4. \A t \in 1..Len(D) : FALSE
  <2>1. Len(D) = 0
    BY <1>1, <1>2 DEF Lleva, Copiadas, Cerradas
  <2> QED BY <2>1
<1> QED BY <1>1, <1>2, <1>3, <1>4 DEF Lleva, Junta

\* The record of the next rank goes out.
LEMMA SalidaPone == ASSUME InvS, LeeT, FaseT, SalidaT, LlevaT, Pone PROVE SalidaT'
<1>1. /\ fase = "recorre" /\ sigue' = sigue /\ fase' \in {fase, sigue}
      /\ IF sigue = "cierra" THEN salida' = salida \o Sacada(arbol[nodo])
                             ELSE salida' = salida
      /\ sigue \in {"lee", "mezcla", "cierra"}
  BY DEF Pone, InvS, TipoS
<1>2. CASE sigue # "cierra"
  <2>1. salida' = <<>>
    BY <1>1, <1>2 DEF SalidaT
  <2>2. fase' \in {"lee", "mezcla"} \/ (fase' = "recorre" /\ sigue' # "cierra")
    BY <1>1, <1>2
  <2> QED BY <2>1, <2>2, SalidaNada
<1>3. CASE sigue = "cierra"
  <2>1. PICK a, x, S, T : a = arbol /\ x = a[nodo] /\ S = Sacadas /\ T = Sacadas'
    OBVIOUS
  <2>2. PICK q, r, desde, hasta, j :
            /\ EsArbol(arbol, q, r, desde, hasta)
            /\ EnRecorrido(arbol, r, desde, hasta, nodo, pila, bajando, j)
            /\ Len(S) = j /\ \A i \in 1..j : S[i] = a[q[i]].lugar
    BY <1>1, <1>3, <2>1 DEF SalidaT
  <2>3. /\ j \in Nat /\ j + 1 \in 1..Len(a) /\ nodo = q[j + 1]
        /\ nodo = Ultimo => j + 1 = Len(a) /\ fase' = sigue
        /\ nodo # Ultimo => /\ arbol' = arbol /\ fase' = fase
                            /\ EnRecorrido(arbol, r, desde, hasta, nodo', pila', bajando', j + 1)
    <3>1. /\ EsArbol(arbol, q, r, desde, hasta)
          /\ EnRecorrido(arbol, r, desde, hasta, nodo, pila, bajando, j)
      BY <2>2
    <3>2. Len(arbol) = Len(a)
      BY <2>1
    <3> QED BY <3>1, <3>2, PoneUna
  <2>4. Leida = EnArbol(a)
    BY <1>1, <1>3, <2>1, TodoEnArbol
  <2>5. a \in Seq(Nodos)
    BY <2>1 DEF InvS, TipoS
  <2>6. x.lugar \in Nat \X Nat /\ x.lugar # Blanco
    <3>1. nodo \in 1..Len(a) /\ Completa(x) \in EnArbol(a)
      BY <2>1, <2>2 DEF EnRecorrido, EnArbol
    <3>2. Completa(x) \in Leida
      BY <2>4, <3>1
    <3>3. Completa(x).lugar = x.lugar
      BY DEF Completa
    <3> QED BY <3>2, <3>3, LugarDe
  <2>7. /\ salida' \in Seq(Nat \X Nat) /\ S \in Seq(Nat \X Nat) /\ T = Append(S, x.lugar)
    <3>1. salida \in Seq(Nat \X Nat) /\ salida' = salida \o Sacada(x)
      BY <1>1, <1>3, <2>1 DEF SalidaT
    <3> QED BY <2>1, <2>6, <3>1, SacadaMas
  <2>8. Len(T) = j + 1 /\ \A i \in 1..j+1 : T[i] = a[q[i]].lugar
    <3>1. PICK P, l : P = Nat \X Nat /\ l = x.lugar
      OBVIOUS
    <3>2. S \in Seq(P) /\ l \in P /\ T = Append(S, l) /\ Len(S) = j
      BY <2>2, <2>6, <2>7, <3>1
    <3>3. /\ Len(T) = j + 1 /\ T[j + 1] = l /\ \A i \in 1..j : T[i] = S[i]
      BY <3>2
    <3>4. l = a[q[j + 1]].lugar
      BY <2>1, <2>3, <3>1
    <3>5. \A i \in 1..j+1 : i = j + 1 \/ i \in 1..j
      BY <2>3
    <3> QED BY <2>2, <3>3, <3>4, <3>5
  <2>9. CASE nodo # Ultimo
    <3>1. PICK y, p, b : y = nodo' /\ p = pila' /\ b = bajando'
      OBVIOUS
    <3>2. EsArbol(a, q, r, desde, hasta) /\ EnRecorrido(a, r, desde, hasta, y, p, b, j + 1)
      BY <2>1, <2>2, <2>3, <2>9, <3>1
    <3>3. Saliendo(T, a, y, p, b)
      BY <2>8, <3>2 DEF Saliendo
    <3>4. fase' = "recorre" /\ sigue' = "cierra" /\ arbol' = a
      BY <1>1, <1>3, <2>1, <2>3, <2>9
    <3> QED BY <2>1, <2>7, <3>1, <3>3, <3>4, SalidaArbol
  <2>10. CASE nodo = Ultimo
    <3>1. PICK w : w = [i \in 1..Len(a) |-> Completa(a[q[i]])]
      OBVIOUS
    <3>2. PICK s : s = [i \in 1..Len(a) |-> FichaDe(op, a[q[i]])]
      OBVIOUS
    <3>3. Escrita(a, q, Len(a), op, s)
      <4>1. Len(a) \in Nat
        BY <2>5
      <4>2. Len(s) = Len(a)
        BY <3>2, <4>1, LenProperties
      <4> QED BY <3>2, <4>2 DEF Escrita
    <3>4. w \in Seq(Completas) /\ Ordenada(w) /\ Todas(w) = EnArbol(a)
      <4>1. EsArbol(a, q, r, desde, hasta)
        BY <2>1, <2>2
      <4> QED BY <2>5, <3>1, <3>3, <4>1, ArbolEscrito
    <3>5. Len(w) = Len(a)
      <4>1. Len(a) \in Nat
        BY <2>5
      <4> QED BY <3>1, <4>1, LenProperties
    <3>6. De(T, w) /\ Len(T) = Len(w)
      <4>1. Len(T) = Len(w) /\ Len(a) \in Nat /\ j + 1 = Len(a)
        BY <2>3, <2>5, <2>8, <2>10, <3>5
      <4>2. \A i \in 1..Len(T) : T[i] = w[i].lugar
        BY <2>8, <3>1, <3>5, <4>1 DEF Completa
      <4> QED BY <3>5, <4>1, <4>2 DEF De
    <3>7. Leida' = Leida
      BY PasoLee DEF Next
    <3>8. fase' = "cierra" /\ sigue' = "cierra"
      BY <1>1, <1>3, <2>3, <2>10
    <3>9. \E v \in Seq(Completas) : /\ Ordenada(v) /\ Todas(v) = Leida'
                                    /\ De(T, v) /\ Len(T) = Len(v)
      BY <2>4, <3>4, <3>6, <3>7
    <3> QED BY <2>1, <2>7, <3>8, <3>9 DEF SalidaT
  <2> QED BY <2>9, <2>10
<1> QED BY <1>2, <1>3

\* The records go out along the last file.
LEMMA SalidaSale ==
    ASSUME InvS, LeeT, FaseT, SalidaT, LlevaT, Saca \/ Sacado \/ Cierra PROVE SalidaT'
<1>1. /\ corridas' = corridas /\ f1' = f1 /\ op' = op /\ pasada' = pasada /\ sigue' = sigue
  BY DEF Saca, Sacado, Cierra, entrada, recorrido, mezclado
<1>2. CASE Saca
  <2>1. fase = "mezcla" /\ fase' \in {"mezcla", "basura"} /\ sigue = "mezcla"
    BY <1>2 DEF Saca, Mezclado, FaseT
  <2>2. CASE fase' = "basura"
    <3>1. salida' = salida
      BY <1>2, <2>1, <2>2 DEF Saca
    <3> QED BY <2>2, <3>1 DEF SalidaT
  <2>3. CASE fase' = "mezcla"
    <3>1. PICK D, g : Lleva(D, g)
      BY <2>1 DEF LlevaT, Fallas
    <3>2. salida' \in Seq(Nat \X Nat)
      BY <1>2, <2>3, <3>1, SacaUno
    <3>3. pasada + 1 = Len(corridas)
      <4>1. pasada + 1 >= Len(corridas)
        BY <1>2 DEF Saca, Mezclado
      <4> QED BY <2>1, <4>1, Mezclados DEF Mezclando
    <3> QED BY <1>1, <2>3, <3>2, <3>3 DEF SalidaT
  <2> QED BY <2>1, <2>2, <2>3
<1>3. CASE Sacado
  <2>1. /\ fase = "mezcla" /\ fase' \in {"cierra", "roto"} /\ sigue = "mezcla"
        /\ Len(Sacadas) = Len(PorSacar) /\ salida' = salida
    BY <1>3 DEF Sacado, Mezclado, FaseT, AlCerrar
  <2>2. Sacadas' = Sacadas
    BY <2>1 DEF Sacadas
  <2>3. Larga /\ op.indice # "solo" => Len(Sacadas) = Len(f1)
    BY <2>1 DEF PorSacar
  <2>4. Larga' = Larga
    BY <1>1 DEF Larga
  <2> QED BY <1>1, <2>1, <2>2, <2>3, <2>4 DEF SalidaT
<1>4. CASE Cierra
  <2>1. fase = "cierra" /\ fase' = "fin" /\ salida' = salida
    BY <1>4 DEF Cierra
  <2>2. Sacadas' = Sacadas
    BY <2>1 DEF Sacadas
  <2>3. Larga' = Larga
    BY <1>1 DEF Larga
  <2>4. Leida' = Leida
    BY <1>4, PasoLee DEF Next
  <2> QED BY <1>1, <2>1, <2>2, <2>3, <2>4 DEF SalidaT
<1> QED BY <1>2, <1>3, <1>4

\* What has gone out, at every step.
LEMMA PasoSalida == ASSUME InvS, LeeT, FaseT, SalidaT, LlevaT, Next PROVE SalidaT'
  BY SalidaLee, SalidaFinal, SalidaBaja, SalidaPone, SalidaSale DEF Next

-----------------------------------------------------------------------------
(* The last file *)

\* After the merges the last file is the whole input in order.
Entera(D, w) == /\ w = D[Len(D)] /\ w \in Seq(Completas) /\ Copia(op, IndiceFinal, w)
                /\ Ordenada(w) /\ Todas(w) = Leida

\* So it is when no merge is left to do.
LEMMA UltimaTira ==
    ASSUME InvS, LeeT, FaseT, Mezclando, pasada + 1 >= Len(corridas), fase # "compara",
           NEW D, NEW g, Lleva(D, g)
    PROVE  Entera(D, D[Len(D)])
<1>1. PICK l, w : l = Len(corridas) /\ w = D[l]
  OBVIOUS
<1>2. /\ Cerradas = l /\ l \in Nat \ {0} /\ Tira(l) = IndiceFinal
      /\ \A t \in 1..l-1 : Tira(t) = <<>>
  BY <1>1, Mezclados
<1>3. /\ arbol = <<>> /\ ff = <<>> /\ Leidas = Leida
  BY DEF FaseT, Mezclando, LeeT
<1>4. /\ Len(D) = l /\ Copia(op, ff, g) /\ \A t \in 1..l : Copia(op, Tira(t), D[t])
      /\ Leidas = Junta(D, g, arbol) /\ \A t \in 1..l : Ordenada(D[t])
  BY <1>2 DEF Lleva, Copiadas, Ordenadas
<1>5. l \in 1..l /\ \A t \in 1..l : t = l \/ t \in 1..l-1
  BY <1>2
<1>6. w \in Seq(Completas) /\ Copia(op, IndiceFinal, w) /\ Ordenada(w)
  BY <1>1, <1>2, <1>4, <1>5 DEF Copia
<1>7. Todas(g) = {} /\ EnArbol(arbol) = {}
  <2>1. Todas(g) = {}
    BY <1>3, <1>4, CopiaVacia, OrdenaNada
  <2>2. \A n \in 1..Len(<<>>) : FALSE
    OBVIOUS
  <2> QED BY <1>3, <2>1, <2>2 DEF EnArbol
<1>8. \A t \in 1..l-1 : Todas(D[t]) = {}
  <2>1. \A t \in 1..l-1 : t \in 1..l
    BY <1>2
  <2>2. \A t \in 1..l-1 : D[t] = <<>>
    BY <1>2, <1>4, <2>1, CopiaVacia
  <2> QED BY <2>2, OrdenaNada
<1>9. Todas(w) = UNION {Todas(D[t]) : t \in 1..l}
  <2>1. \A t \in 1..l : Todas(D[t]) \subseteq Todas(w)
    BY <1>1, <1>5, <1>8
  <2> QED BY <2>1, <1>1, <1>5
<1>10. Todas(w) = Leida
  BY <1>3, <1>4, <1>7, <1>9 DEF Junta
<1> QED BY <1>1, <1>4, <1>6, <1>10 DEF Entera

\* The index is made of the last file.
LEMMA PasoIndice ==
    ASSUME InvS, LeeT, FaseT, SalidaT, LlevaT, IndiceT, Next PROVE IndiceT'
<1>1. CASE ~ Cierra
  <2>1. fase' # "fin"
    <3>1. sigue # "fin"
      BY DEF InvS, TipoS
    <3> QED BY <1>1, <3>1 DEF Next, Abre, Salta, Acaba, FormKey, Baja, Pone, AlFinal, Mezcla,
                              Compara, Saca, Sacado, Mezclado, AlCerrar, Recorrera
  <2> QED BY <2>1 DEF IndiceT
<1>2. CASE Cierra
  <2>1. fase = "cierra" /\ op' = op /\ (op.indice # "no" => indice' = IndiceFinal)
    BY <1>2 DEF Cierra, entrada
  <2>2. Leida' = Leida
    BY PasoLee
  <2>3. CASE op.indice = "no"
    BY <2>1, <2>3 DEF IndiceT
  <2>4. CASE op.indice # "no"
    <3>1. sigue # "cierra" /\ Mezclando /\ pasada + 1 = Len(corridas)
      BY <2>1, <2>4 DEF FaseT, Mezclando
    <3>2. PICK D, g : Lleva(D, g)
      BY <2>1, <3>1 DEF LlevaT, Fallas
    <3>3. pasada + 1 >= Len(corridas)
      <4>1. pasada \in Nat
        BY DEF InvS, TipoS
      <4> QED BY <3>1, <4>1
    <3>4. Entera(D, D[Len(D)])
      BY <2>1, <3>1, <3>2, <3>3, UltimaTira
    <3> QED BY <2>1, <2>2, <2>4, <3>4 DEF IndiceT, Entera
  <2> QED BY <2>3, <2>4
<1> QED BY <1>1, <1>2

\* The tree does not grow past the memory.
LEMMA PasoCabe == ASSUME InvS', CabeT, Next PROVE CabeT'
<1>1. CASE fase' \in {"abre", "lee", "recorre"}
  <2>1. PICK a, k : a = arbol' /\ k = op'.tokeys
    OBVIOUS
  <2>2. a \in Seq(Nodos) /\ k \in Nat
    BY <2>1 DEF InvS, TipoS, Opciones
  <2>3. Len(a) < k \/ Len(a) <= k
    BY <1>1, <2>1 DEF InvS, ArbolS, RecorreS
  <2>4. Len(a) <= k
    BY <2>2, <2>3
  <2> QED BY <2>1, <2>4 DEF CabeT
<1>2. CASE fase' \notin {"abre", "lee", "recorre"}
  <2>1. op' = op /\ (arbol' = arbol \/ arbol' = <<>>)
    BY <1>2 DEF Next, Abre, Salta, Acaba, FormKey, Baja, Pone, AlFinal, Mezcla, Compara, Saca,
                Sacado, Cierra, entrada, Recorrera
  <2>2. Len(<<>>) <= op'.tokeys
    <3>1. op'.tokeys \in Nat /\ Len(<<>>) = 0
      BY DEF InvS, TipoS, Opciones
    <3> QED BY <3>1
  <2> QED BY <2>1, <2>2 DEF CabeT
<1> QED BY <1>1, <1>2

\* The invariant holds in every state.
LEMMA InicioT == Init => InvT
<1> SUFFICES ASSUME Init PROVE InvT
  OBVIOUS
<1>1. IndiceT
  BY DEF Init, IndiceT
<1>2. CabeT
  <2>1. op \in Opciones
    BY InicioS DEF InvS, TipoS
  <2>2. op.tokeys \in Nat /\ Len(<<>>) = 0 /\ arbol = <<>>
    BY <2>1 DEF Opciones, Init
  <2> QED BY <2>2 DEF CabeT
<1> QED BY <1>1, <1>2, InicioS, LeeInicio, FaseInicio, SalidaInicio, LlevaInicio DEF InvT

\* And after every step.
LEMMA PasoT == InvT /\ [Next]_vars => InvT'
<1> SUFFICES ASSUME InvT, [Next]_vars PROVE InvT'
  OBVIOUS
<1>1. InvS'
  BY PasoS DEF InvT
<1>2. CASE Next
  BY <1>1, <1>2, PasoLee, PasoFase, PasoSalida, PasoLleva, PasoIndice, PasoCabe DEF InvT
<1>3. CASE UNCHANGED vars
  <2>1. /\ op' = op /\ archivos' = archivos /\ e' = e /\ pos' = pos /\ inbuf' = inbuf
        /\ arbol' = arbol /\ nodo' = nodo /\ pila' = pila /\ bajando' = bajando
        /\ corridas' = corridas /\ f1' = f1 /\ f2' = f2 /\ ff' = ff /\ pasada' = pasada
        /\ salida' = salida /\ indice' = indice /\ fase' = fase /\ sigue' = sigue
    BY <1>3 DEF vars
  <2>2. LeeT' /\ Leida' = Leida /\ Leidas' = Leidas
    BY <2>1, LeeIntacto DEF InvT, Fuera
  <2>3. FaseT'
    BY <2>1 DEF InvT, FaseT, Mezclando
  <2>4. Sacadas' = Sacadas /\ Larga' = Larga
    BY <2>1 DEF Sacadas, Larga
  <2>5. SalidaT'
    BY <2>1, <2>2, <2>4 DEF InvT, SalidaT
  <2>6. LlevaT'
    <3>1. CASE fase \in Fallas \/ (sigue = "cierra" /\ fase \in {"cierra", "fin"})
      BY <2>1, <3>1 DEF LlevaT
    <3>2. CASE fase \notin Fallas /\ ~ (sigue = "cierra" /\ fase \in {"cierra", "fin"})
      <4>1. PICK D, g : Lleva(D, g)
        BY <3>2 DEF InvT, LlevaT
      <4>2. Cerradas' = Cerradas /\ \A t \in 1..Cerradas : Tira(t)' = Tira(t)
        BY <2>1 DEF Cerradas, Tira
      <4>3. Lleva(D, g)'
        BY <2>1, <2>2, <2>4, <4>1, <4>2, LlevaIgual DEF Lleva
      <4> QED BY <4>3 DEF LlevaT
    <3> QED BY <3>1, <3>2
  <2>7. IndiceT' /\ CabeT'
    BY <2>1, <2>2 DEF InvT, IndiceT, CabeT
  <2> QED BY <1>1, <2>2, <2>3, <2>5, <2>6, <2>7 DEF InvT
<1> QED BY <1>2, <1>3

-----------------------------------------------------------------------------
(* The sort is stable and complete *)

\* A record of the input is the only one at its place.
LEMMA UnaPorLugar == \A x, y \in Leida : x.lugar = y.lugar => x = y
<1>1. \A x, y \in LeidaP(op, archivos) : x.lugar = y.lugar => x = y
  BY DEF LeidaP, LeidoP
<1> QED BY <1>1, LeidaEs

\* What went out when it is the start of a file w of the whole input in order.
Dichas == [n \in DOMAIN Sacadas |-> CHOOSE x \in Leida : x.lugar = Sacadas[n]]
Bien == /\ ToSet(Sacadas) \subseteq Lugares
        /\ Ordenada(Dichas)
        /\ \A x \in Leida : x \in ToSet(Dichas) \/ \A n \in DOMAIN Dichas : EnOrden(Dichas[n], x)

\* Then it is stable, and complete when it has the length of w.
LEMMA BienSalidas ==
    ASSUME InvS, Sacadas \in Seq(Nat \X Nat), NEW w \in Seq(Completas), Ordenada(w),
           Todas(w) = Leida, De(Sacadas, w)
    PROVE  Bien /\ (Len(Sacadas) = Len(w) => ToSet(Dichas) = Leida)
<1>1. PICK S, d, P : S = Sacadas /\ d = Dichas /\ P = Nat \X Nat
  OBVIOUS
<1>2. /\ Len(S) \in Nat /\ Len(w) \in Nat /\ DOMAIN S = 1..Len(S) /\ DOMAIN w = 1..Len(w)
      /\ Len(S) <= Len(w) /\ \A n \in 1..Len(S) : n \in 1..Len(w) /\ S[n] = w[n].lugar
  <2>1. S \in Seq(P) /\ De(S, w)
    BY <1>1
  <2>2. Len(S) \in Nat /\ Len(w) \in Nat /\ DOMAIN S = 1..Len(S) /\ DOMAIN w = 1..Len(w)
    BY <2>1
  <2> QED BY <2>1, <2>2 DEF De
<1>3. \A n \in 1..Len(w) : w[n] \in Leida
  BY DEF Todas
<1>4. DOMAIN d = 1..Len(S) /\ \A n \in 1..Len(S) : d[n] = w[n]
  <2>1. DOMAIN d = 1..Len(S)
    BY <1>1, <1>2 DEF Dichas
  <2>2. ASSUME NEW n \in 1..Len(S) PROVE d[n] = w[n]
    <3>1. d[n] = CHOOSE x \in Leida : x.lugar = S[n]
      BY <1>1, <1>2 DEF Dichas
    <3>2. w[n] \in Leida /\ w[n].lugar = S[n]
      BY <1>2, <1>3
    <3>3. d[n] \in Leida /\ d[n].lugar = S[n]
      BY <3>1, <3>2
    <3> QED BY <3>2, <3>3, UnaPorLugar
  <2> QED BY <2>1, <2>2
<1>5. ToSet(S) \subseteq Lugares
  <2>1. \A n \in 1..Len(S) : S[n] \in Lugares
    BY <1>2, <1>3, LugarDe
  <2> QED BY <2>1, <1>2 DEF ToSet
<1>6. Ordenada(d)
  BY <1>2, <1>4 DEF Ordenada
<1>7. ASSUME NEW x \in Leida
      PROVE  x \in ToSet(d) \/ \A n \in 1..Len(S) : EnOrden(d[n], x)
  <2>1. PICK m \in 1..Len(w) : x = w[m]
    BY DEF Todas
  <2>2. CASE m <= Len(S)
    <3>1. m \in 1..Len(S) /\ x = d[m]
      BY <2>1, <2>2, <1>2, <1>4
    <3> QED BY <3>1, <1>4 DEF ToSet
  <2>3. CASE ~ (m <= Len(S))
    <3>1. ASSUME NEW n \in 1..Len(S) PROVE EnOrden(d[n], x)
      <4>1. n < m /\ n \in 1..Len(w) /\ d[n] = w[n]
        BY <2>3, <1>2, <1>4
      <4> QED BY <4>1, <2>1, <1>2 DEF Ordenada
    <3> QED BY <3>1
  <2> QED BY <2>2, <2>3
<1>8. Len(S) = Len(w) => ToSet(d) = Leida
  BY <1>2, <1>4 DEF ToSet, Todas
<1> QED BY <1>1, <1>4, <1>5, <1>6, <1>7, <1>8 DEF Bien

\* Nothing that went out is the start of anything.
LEMMA BienNada == ASSUME Sacadas = <<>> PROVE Bien
<1>1. DOMAIN <<>> = {} /\ \A n \in DOMAIN <<>> : FALSE
  <2>1. Len(<<>>) = 0 /\ DOMAIN <<>> = 1..0
    OBVIOUS
  <2> QED BY <2>1
<1>2. DOMAIN Dichas = {}
  BY <1>1 DEF Dichas
<1> QED BY <1>1, <1>2 DEF Bien, ToSet, Ordenada

\* So what goes out is right at every moment.
LEMMA SalidaBien == InvT => SalidaFiel
<1> SUFFICES ASSUME InvT, fase \notin Fallas
             PROVE  /\ Bien
                    /\ fase = "fin" /\ (op.indice = "no" \/ (op.indice = "si" /\ Larga)) =>
                           ToSet(Dichas) = Leida
  BY Zenon DEF SalidaFiel, Bien, Dichas
<1>1. /\ InvS /\ LeeT /\ FaseT /\ SalidaT /\ LlevaT
  BY DEF InvT
<1>2. Sacadas \in Seq(Nat \X Nat)
  <2>1. PICK P : P = Nat \X Nat
    OBVIOUS
  <2>2. salida \in Seq(P)
    BY <1>1, <2>1 DEF SalidaT
  <2>3. Sacadas \in Seq(P)
    BY <2>2 DEF Sacadas
  <2> QED BY <2>1, <2>3
<1>3. CASE salida = <<>> /\ fase # "fin"
  <2>1. Sacadas = <<>>
    BY <1>3 DEF Sacadas
  <2> QED BY <1>3, <2>1, BienNada
<1>4. CASE fase = "recorre" /\ sigue = "cierra"
  <2>1. PICK a, q, r, desde, hasta, j :
            /\ a = arbol /\ EsArbol(a, q, r, desde, hasta)
            /\ EnRecorrido(a, r, desde, hasta, nodo, pila, bajando, j)
            /\ Len(Sacadas) = j /\ \A i \in 1..j : Sacadas[i] = a[q[i]].lugar
    BY <1>1, <1>4 DEF SalidaT
  <2>2. a \in Seq(Nodos) /\ Len(a) \in Nat /\ j \in 0..Len(a)-1
    BY <1>1, <2>1 DEF InvS, TipoS, EnRecorrido
  <2>3. PICK w, s : /\ w = [i \in 1..Len(a) |-> Completa(a[q[i]])]
                    /\ s = [i \in 1..Len(a) |-> FichaDe(op, a[q[i]])]
    OBVIOUS
  <2>4. Escrita(a, q, Len(a), op, s)
    <3>1. Len(s) = Len(a)
      BY <2>2, <2>3, LenProperties
    <3> QED BY <2>3, <3>1 DEF Escrita
  <2>5. w \in Seq(Completas) /\ Ordenada(w) /\ Todas(w) = EnArbol(a)
    BY <2>1, <2>2, <2>3, <2>4, ArbolEscrito
  <2>6. Leida = EnArbol(a)
    BY <1>1, <1>4, <2>1, TodoEnArbol
  <2>7. De(Sacadas, w)
    <3>1. Len(w) = Len(a)
      BY <2>2, <2>3, LenProperties
    <3>2. j <= Len(w) /\ \A i \in 1..j : i \in 1..Len(a)
      BY <2>2, <3>1
    <3> QED BY <2>1, <2>3, <3>1, <3>2 DEF De, Completa
  <2> QED BY <1>1, <1>2, <1>4, <2>5, <2>6, <2>7, BienSalidas
<1>5. CASE fase \in {"cierra", "fin"} /\ sigue = "cierra"
  <2>1. PICK s \in Seq(Completas) : /\ Ordenada(s) /\ Todas(s) = Leida
                                    /\ De(Sacadas, s) /\ Len(Sacadas) = Len(s)
    BY <1>1, <1>5 DEF SalidaT
  <2> QED BY <1>1, <1>2, <2>1, BienSalidas
<1>6. CASE /\ fase \in {"mezcla", "cierra", "fin"} /\ sigue # "cierra"
           /\ salida # <<>> \/ fase = "fin"
  <2>1. Mezclando /\ pasada + 1 = Len(corridas)
    BY <1>1, <1>6 DEF Mezclando, FaseT, SalidaT
  <2>2. PICK D, g : Lleva(D, g)
    BY <1>1, <1>6 DEF LlevaT, Fallas
  <2>3. PICK w : w = D[Len(D)]
    OBVIOUS
  <2>4. Entera(D, w)
    <3>1. pasada + 1 >= Len(corridas)
      <4>1. pasada \in Nat
        BY <1>1 DEF InvS, TipoS
      <4> QED BY <2>1, <4>1
    <3> QED BY <1>1, <1>6, <2>1, <2>2, <2>3, <3>1, UltimaTira
  <2>5. De(Sacadas, w)
    <3>1. CASE salida = <<>>
      <4>1. Sacadas = <<>> /\ Len(<<>>) = 0 /\ \A i \in 1..0 : FALSE
        BY <3>1 DEF Sacadas
      <4>2. Len(w) \in Nat
        BY <2>4 DEF Entera
      <4> QED BY <4>1, <4>2 DEF De
    <3>2. CASE salida # <<>>
      BY <1>6, <2>2, <2>3, <3>2 DEF Lleva
    <3> QED BY <3>1, <3>2
  <2>6. Bien /\ (Len(Sacadas) = Len(w) => ToSet(Dichas) = Leida)
    BY <1>1, <1>2, <2>4, <2>5, BienSalidas DEF Entera
  <2>7. ASSUME fase = "fin", op.indice = "no" \/ (op.indice = "si" /\ Larga)
        PROVE  Len(Sacadas) = Len(w)
    <3>1. Larga
      BY <1>1, <2>1, <2>7 DEF FaseT, Larga
    <3>2. Len(Sacadas) = Len(f1)
      BY <1>1, <1>6, <2>7, <3>1 DEF SalidaT
    <3>3. Len(f1) = Len(w)
      BY <2>4, <3>1 DEF Entera, IndiceFinal, Copia
    <3> QED BY <3>2, <3>3
  <2> QED BY <2>6, <2>7
<1>7. fase \in {"abre", "lee", "recorre", "mezcla", "compara", "cierra", "fin"}
  <2>1. fase \in Fases
    BY <1>1 DEF InvS, TipoS
  <2> QED BY <2>1, <1>1 DEF Fases, Fallas
<1>8. salida # <<>> => /\ fase \notin {"abre", "lee", "compara"}
                       /\ fase = "recorre" => sigue = "cierra"
                       /\ fase = "mezcla" => sigue # "cierra"
  BY <1>1 DEF SalidaT, FaseT
<1>9. CASE salida # <<>> \/ fase = "fin"
  <2> HIDE <1>1
  <2>1. \/ fase = "recorre" /\ sigue = "cierra"
        \/ fase \in {"cierra", "fin"} /\ sigue = "cierra"
        \/ fase \in {"mezcla", "cierra", "fin"} /\ sigue # "cierra"
    BY <1>7, <1>8, <1>9
  <2> QED BY <1>4, <1>5, <1>6, <1>9, <2>1
<1> QED BY <1>3, <1>9

-----------------------------------------------------------------------------
(* Counting the entries *)

\* Files one after the other or in order have no entry in common.
LEMMA Ajenas ==
    ASSUME NEW A, NEW B, \A x \in A : x.lugar \in Nat \X Nat /\ x.llave \in Int,
           Previas(A, B) \/ Previas(B, A) \/ Menores(A, B) \/ Menores(B, A)
    PROVE  A \cap B = {}
<1> SUFFICES ASSUME NEW x \in A, x \in B PROVE FALSE
  OBVIOUS
<1>1. x.lugar[1] \in Nat /\ x.lugar[2] \in Nat /\ x.llave \in Int
  BY DEF Previas
<1>2. Antes(x.lugar, x.lugar) \/ EnOrden(x, x)
  BY DEF Previas, Menores
<1> QED BY <1>1, <1>2 DEF Antes, EnOrden

SinRepetir(s) == \A i, j \in 1..Len(s) : s[i] = s[j] => i = j

\* A file in order has no entry twice.
LEMMA OrdenadaDistinta ==
    ASSUME NEW s \in Seq(Completas), Ordenada(s)
    PROVE  SinRepetir(s)
<1>1. DOMAIN s = 1..Len(s) /\ \A i \in 1..Len(s) : s[i] \in Completas
  OBVIOUS
<1>2. \A i \in 1..Len(s) : s[i].lugar[1] \in Nat /\ s[i].lugar[2] \in Nat /\ s[i].llave \in Int
  BY <1>1 DEF Completas
<1>3. ASSUME NEW i \in 1..Len(s), NEW j \in 1..Len(s), s[i] = s[j], i < j PROVE FALSE
  <2>1. EnOrden(s[i], s[i])
    BY <1>1, <1>3 DEF Ordenada
  <2> QED BY <2>1, <1>2 DEF EnOrden, Antes
<1>4. ASSUME NEW i \in 1..Len(s), NEW j \in 1..Len(s), s[i] = s[j] PROVE i = j
  <2>1. ~ (i < j) /\ ~ (j < i)
    BY <1>3, <1>4
  <2> QED BY <2>1
<1> QED BY <1>4 DEF SinRepetir

\* Files K, and what is in each as G has it: the entries of all are as many as their squares.
Cuadra(o, m, K, G) ==
    /\ m \in Nat
    /\ \A t \in 1..m : K[t] \in Seq(Fichas(o)) /\ Copia(o, K[t], G[t]) /\ SinRepetir(G[t])
    /\ \A t, u \in 1..m : t # u => Todas(G[t]) \cap Todas(G[u]) = {}
Casas(m, K) == UNION {{t} \X DOMAIN K[t] : t \in 1..m}
Contenido(m, G) == UNION {Todas(G[t]) : t \in 1..m}

Cuentan(o, K, C, T) ==
    /\ Cardinality(C) = Cardinality(T)
    /\ {x.llave : x \in {K[c[1]][c[2]] : c \in C}} = {x.llave : x \in T}
    /\ o.junta => {K[c[1]][c[2]] : c \in C} = T

\* By the square an entry is known, and by the entry its square.
LEMMA CuentaCasas ==
    ASSUME NEW o, NEW m, NEW K, NEW G, Cuadra(o, m, K, G),
           NEW C, C = Casas(m, K), NEW T, T = Contenido(m, G)
    PROVE  Cuentan(o, K, C, T)
<1>1. ASSUME NEW t \in 1..m
      PROVE  /\ DOMAIN K[t] = 1..Len(G[t]) /\ Len(G[t]) \in Nat
             /\ \A i \in 1..Len(G[t]) : G[t][i] \in Completas /\ K[t][i] = FichaDe(o, G[t][i])
  <2>1. PICK k, h : k = K[t] /\ h = G[t]
    OBVIOUS
  <2>2. k \in Seq(Fichas(o)) /\ Copia(o, k, h)
    BY <2>1 DEF Cuadra
  <2>3. DOMAIN k = 1..Len(k)
    BY <2>2
  <2>4. h \in Seq(Completas) /\ Len(k) = Len(h) /\ \A i \in 1..Len(h) : k[i] = FichaDe(o, h[i])
    BY <2>2 DEF Copia
  <2>5. Len(h) \in Nat /\ \A i \in 1..Len(h) : h[i] \in Completas
    BY <2>4
  <2> QED BY <2>1, <2>3, <2>4, <2>5
<1>2. ASSUME NEW c \in C PROVE c[1] \in 1..m /\ c[2] \in 1..Len(G[c[1]]) /\ c = <<c[1], c[2]>>
  <2>1. PICK t \in 1..m : c \in {t} \X DOMAIN K[t]
    BY DEF Casas
  <2>2. c[1] = t /\ c[2] \in DOMAIN K[t] /\ c = <<c[1], c[2]>>
    BY <2>1
  <2> QED BY <1>1, <2>2
<1>3. ASSUME NEW t \in 1..m, NEW i \in 1..Len(G[t]) PROVE <<t, i>> \in C
  <2>1. <<t, i>> \in {t} \X DOMAIN K[t]
    BY <1>1
  <2> QED BY <2>1 DEF Casas
<1>4. IsFiniteSet(C)
  <2> DEFINE X == {{t} \X DOMAIN K[t] : t \in 1..m}
             f == [t \in 1..m |-> {t} \X DOMAIN K[t]]
  <2>1. IsFiniteSet(1..m)
    <3>1. m \in Int /\ 1 \in Int
      BY DEF Cuadra
    <3> QED BY <3>1, FS_Interval
  <2>2. f \in Surjection(1..m, X)
    BY DEF Surjection
  <2>3. IsFiniteSet(X)
    <3> HIDE DEF f, X
    <3> QED BY <2>1, <2>2, FS_Surjection
  <2>4. ASSUME NEW t \in 1..m PROVE IsFiniteSet({t} \X DOMAIN K[t])
    <3>1. PICK S, W : S = {t} /\ W = DOMAIN K[t]
      OBVIOUS
    <3>2. IsFiniteSet(S)
      BY <3>1, FS_Singleton
    <3>3. IsFiniteSet(W)
      <4>1. Len(G[t]) \in Int /\ 1 \in Int /\ W = 1..Len(G[t])
        BY <1>1, <3>1
      <4> QED BY <4>1, FS_Interval
    <3>4. IsFiniteSet(S \X W)
      BY <3>2, <3>3, FS_Product
    <3> QED BY <3>1, <3>4
  <2>5. \A S \in X : IsFiniteSet(S)
    BY <2>4
  <2>6. C = UNION X
    BY DEF Casas
  <2> HIDE DEF X
  <2> QED BY <2>3, <2>5, <2>6, FS_UNION
<1> DEFINE h == [c \in C |-> G[c[1]][c[2]]]
<1>5. \A c \in C : h[c] \in T /\ h[c] \in Completas /\ K[c[1]][c[2]] = FichaDe(o, h[c])
  <2> SUFFICES ASSUME NEW c \in C
               PROVE  h[c] \in T /\ h[c] \in Completas /\ K[c[1]][c[2]] = FichaDe(o, h[c])
    OBVIOUS
  <2>1. c[1] \in 1..m /\ c[2] \in 1..Len(G[c[1]]) /\ h[c] = G[c[1]][c[2]]
    BY <1>2
  <2>2. h[c] \in Todas(G[c[1]])
    BY <2>1 DEF Todas
  <2> QED BY <1>1, <2>1, <2>2 DEF Contenido
<1>6. ASSUME NEW y \in T PROVE \E c \in C : h[c] = y
  <2>1. PICK t \in 1..m : y \in Todas(G[t])
    BY DEF Contenido
  <2>2. PICK i \in 1..Len(G[t]) : y = G[t][i]
    BY <2>1 DEF Todas
  <2>3. PICK c : c = <<t, i>>
    OBVIOUS
  <2>4. c \in C /\ c[1] = t /\ c[2] = i
    BY <1>3, <2>3
  <2> QED BY <2>2, <2>4
<1>7. ASSUME NEW c \in C, NEW d \in C, h[c] = h[d] PROVE c = d
  <2>1. /\ c[1] \in 1..m /\ c[2] \in 1..Len(G[c[1]]) /\ h[c] = G[c[1]][c[2]]
        /\ d[1] \in 1..m /\ d[2] \in 1..Len(G[d[1]]) /\ h[d] = G[d[1]][d[2]]
        /\ c = <<c[1], c[2]>> /\ d = <<d[1], d[2]>>
    BY <1>2
  <2>2. h[c] \in Todas(G[c[1]]) /\ h[d] \in Todas(G[d[1]])
    BY <2>1 DEF Todas
  <2>3. c[1] = d[1]
    BY <1>7, <2>1, <2>2 DEF Cuadra
  <2>4. c[2] = d[2]
    BY <1>7, <2>1, <2>3 DEF Cuadra, SinRepetir
  <2> QED BY <2>1, <2>3, <2>4
<1>8. h \in Surjection(C, T) /\ h \in Injection(C, T)
  <2>1. h \in [C -> T]
    BY <1>5
  <2>2. h \in Surjection(C, T)
    BY <1>6, <2>1 DEF Surjection
  <2>3. IsInjective(h)
    BY <1>7 DEF IsInjective
  <2> QED BY <2>1, <2>2, <2>3 DEF Injection
<1> HIDE DEF h
<1>9. Cardinality(T) = Cardinality(C)
  BY <1>4, <1>8, FS_Surjection
<1>10. {x.llave : x \in {K[c[1]][c[2]] : c \in C}} = {x.llave : x \in T}
  <2>1. ASSUME NEW c \in C PROVE K[c[1]][c[2]].llave = h[c].llave
    <3>1. PICK x, y : x = K[c[1]][c[2]] /\ y = h[c]
      OBVIOUS
    <3>2. x = FichaDe(o, y)
      BY <1>5, <3>1
    <3> QED BY <3>1, <3>2 DEF FichaDe
  <2> QED BY <1>5, <1>6, <2>1
<1>11. ASSUME o.junta PROVE {K[c[1]][c[2]] : c \in C} = T
  <2>1. \A c \in C : K[c[1]][c[2]] = h[c]
    BY <1>5, <1>11 DEF FichaDe, Completas
  <2> QED BY <1>5, <1>6, <2>1
<1> QED BY <1>9, <1>10, <1>11 DEF Cuentan

\* All the files: the runs, the three of a merge, and the tree.
LEMMA LotesSon ==
    ASSUME InvS, NEW l, l = Len(corridas)
    PROVE  /\ l \in Nat /\ DOMAIN Lotes = 1..l+4
           /\ \A t \in 1..l+4 : Lotes[t] \in Seq(Fichas(op))
           /\ \A t \in 1..l : Lotes[t] = corridas[t]
           /\ Lotes[l + 1] = f1 /\ Lotes[l + 2] = f2 /\ Lotes[l + 3] = ff
           /\ Lotes[l + 4] = [n \in DOMAIN arbol |-> Ficha(arbol[n])]
<1>1. PICK F, c, k : /\ F = Seq(Fichas(op)) /\ c = corridas
                     /\ k = [n \in DOMAIN arbol |-> Ficha(arbol[n])]
  OBVIOUS
<1>2. c \in Seq(F) /\ f1 \in F /\ f2 \in F /\ ff \in F /\ arbol \in Seq(Nodos)
  BY <1>1 DEF InvS, TipoS
<1>3. k \in F
  <2>1. \A n \in DOMAIN arbol : Ficha(arbol[n]) \in Fichas(op)
    <3>1. ASSUME NEW n \in DOMAIN arbol PROVE Ficha(arbol[n]) \in Fichas(op)
      <4>1. arbol[n] \in Nodos
        BY <1>2
      <4> QED BY <4>1 DEF Nodos, Ficha, Fichas
    <3> QED BY <3>1
  <2>2. DOMAIN arbol = 1..Len(arbol) /\ Len(arbol) \in Nat
    BY <1>2
  <2>3. PICK R, j : R = Fichas(op) /\ j = Len(arbol)
    OBVIOUS
  <2>4. k \in [1..j -> R] /\ j \in Nat
    BY <1>1, <2>1, <2>2, <2>3
  <2>5. k \in Seq(R)
    BY <2>4, SeqDef
  <2> QED BY <1>1, <2>3, <2>5
<1>4. PICK w, y : w = <<f1, f2, ff, k>> /\ y = c \o w
  OBVIOUS
<1>5. w \in Seq(F) /\ Len(w) = 4 /\ w[1] = f1 /\ w[2] = f2 /\ w[3] = ff /\ w[4] = k
  BY <1>2, <1>3, <1>4
<1>6. l \in Nat /\ l = Len(c)
  BY <1>1, <1>2
<1>7. /\ y \in Seq(F) /\ Len(y) = l + 4
      /\ \A t \in 1..l+4 : y[t] = IF t <= l THEN c[t] ELSE w[t - l]
  BY <1>2, <1>4, <1>5, <1>6, ConcatProperties
<1>8. /\ DOMAIN y = 1..l+4 /\ \A t \in 1..l+4 : y[t] \in F
  BY <1>6, <1>7
<1>9. Lotes = y
  BY <1>1, <1>4, Zenon DEF Lotes
<1>10. \A t \in 1..l : y[t] = c[t]
  BY <1>6, <1>7
<1>11. y[l + 1] = f1 /\ y[l + 2] = f2 /\ y[l + 3] = ff /\ y[l + 4] = k
  <2>1. y[l + 1] = w[1]
    BY <1>6, <1>7
  <2>2. y[l + 2] = w[2]
    BY <1>6, <1>7
  <2>3. y[l + 3] = w[3]
    BY <1>6, <1>7
  <2>4. y[l + 4] = w[4]
    BY <1>6, <1>7
  <2> QED BY <1>5, <2>1, <2>2, <2>3, <2>4
<1> QED BY <1>1, <1>6, <1>8, <1>9, <1>10, <1>11

\* The tree as a file of entries.
LEMMA ArbolDistinto ==
    ASSUME NEW a \in Seq(Nodos), a = <<>> \/ \E q, r, desde, hasta : EsArbol(a, q, r, desde, hasta),
           NEW w, w = [n \in 1..Len(a) |-> Completa(a[n])]
    PROVE  w \in Seq(Completas) /\ Len(w) = Len(a) /\ SinRepetir(w) /\ Todas(w) = EnArbol(a)
<1>1. Len(a) \in Nat /\ \A n \in 1..Len(a) : a[n] \in Nodos
  OBVIOUS
<1>2. \A n \in 1..Len(a) : Completa(a[n]) \in Completas
  BY <1>1 DEF Nodos, Completas, Completa
<1>3. w \in Seq(Completas) /\ Len(w) = Len(a)
  <2>1. w \in [1..Len(a) -> Completas]
    BY <1>2
  <2> QED BY <1>1, <2>1, LenProperties
<1>4. Todas(w) = EnArbol(a)
  BY <1>3 DEF Todas, EnArbol
<1>5. CASE a = <<>>
  <2>1. \A i \in 1..Len(w) : FALSE
    BY <1>3, <1>5
  <2> QED BY <1>3, <1>4, <2>1 DEF SinRepetir
<1>6. CASE a # <<>>
  <2>1. PICK q, r, desde, hasta : EsArbol(a, q, r, desde, hasta)
    BY <1>6
  <2>2. PICK z : z = [i \in 1..Len(a) |-> Completa(a[q[i]])]
    OBVIOUS
  <2>3. PICK o, s : s = [i \in 1..Len(a) |-> FichaDe(o, a[q[i]])]
    OBVIOUS
  <2>4. Escrita(a, q, Len(a), o, s)
    <3>1. Len(s) = Len(a)
      BY <1>1, <2>3, LenProperties
    <3> QED BY <2>3, <3>1 DEF Escrita
  <2>5. z \in Seq(Completas) /\ Ordenada(z)
    BY <2>1, <2>2, <2>4, ArbolEscrito
  <2>6. Len(z) = Len(a) /\ SinRepetir(z)
    BY <1>1, <2>2, <2>5, LenProperties, OrdenadaDistinta
  <2>7. ASSUME NEW i \in 1..Len(a), NEW j \in 1..Len(a), w[i] = w[j] PROVE i = j
    <3>1. r[i] \in 1..Len(a) /\ r[j] \in 1..Len(a) /\ q[r[i]] = i /\ q[r[j]] = j
      BY <2>1, DelArbol
    <3>2. z[r[i]] = w[i] /\ z[r[j]] = w[j]
      BY <2>2, <3>1
    <3>3. r[i] = r[j]
      BY <2>6, <2>7, <3>1, <3>2 DEF SinRepetir
    <3> QED BY <3>1, <3>3
  <2> QED BY <1>3, <1>4, <2>7 DEF SinRepetir
<1> QED BY <1>5, <1>6

\* Which of the merged files (D) each file holds.
Casa(t, v) ==
    \/ t \in 1..Len(corridas) /\ v = t /\ (pasada = 0 \/ t > pasada + 1)
    \/ t = Len(corridas) + 1 /\ pasada > 0 /\ v = IF fase = "compara" THEN pasada ELSE pasada + 1
    \/ t = Len(corridas) + 2 /\ pasada > 0 /\ fase = "compara" /\ v = pasada + 1
Sombra(D, g) ==
    [t \in 1..Len(corridas)+4 |->
        IF t = Len(corridas) + 4 THEN [n \in 1..Len(arbol) |-> Completa(arbol[n])]
        ELSE IF t = Len(corridas) + 3 THEN g
        ELSE IF \E v \in 1..Len(corridas) : Casa(t, v)
             THEN D[CHOOSE v \in 1..Len(corridas) : Casa(t, v)] ELSE <<>>]

\* A file holds one of them, and one is held by one file.
LEMMA UnaCasa ==
    ASSUME InvS, NEW l, l = Len(corridas)
    PROVE  /\ \A t \in 1..l+4, v, u \in 1..l : Casa(t, v) /\ Casa(t, u) => v = u
           /\ \A t, x \in 1..l+4, v \in 1..l : Casa(t, v) /\ Casa(x, v) => t = x
           /\ \A t \in 1..l+4, v \in 1..l : Casa(t, v) => t # l + 3 /\ t # l + 4
<1>1. l \in Nat /\ pasada \in Nat
  <2>1. PICK F : F = Seq(Fichas(op))
    OBVIOUS
  <2>2. corridas \in Seq(F) /\ pasada \in Nat
    BY <2>1 DEF InvS, TipoS
  <2> QED BY <2>2
<1>2. \A t \in 1..l : t # l + 1 /\ t # l + 2 /\ t # l + 3 /\ t # l + 4
  BY <1>1
<1>3. l + 1 # l + 2 /\ l + 1 # l + 3 /\ l + 1 # l + 4 /\ l + 2 # l + 3 /\ l + 2 # l + 4
  BY <1>1
<1>4. /\ pasada # pasada + 1 /\ ~ (pasada > pasada + 1) /\ ~ (pasada + 1 > pasada + 1)
      /\ ~ (pasada > 0 /\ pasada = 0)
  BY <1>1
<1>5. \A t \in 1..l+4, v, u \in 1..l : Casa(t, v) /\ Casa(t, u) => v = u
  BY <1>2, <1>3 DEF Casa
<1>6. \A t, x \in 1..l+4, v \in 1..l : Casa(t, v) /\ Casa(x, v) => t = x
  BY <1>2, <1>3, <1>4 DEF Casa
<1>7. \A t \in 1..l+4, v \in 1..l : Casa(t, v) => t # l + 3 /\ t # l + 4
  BY <1>2, <1>3 DEF Casa
<1> QED BY <1>5, <1>6, <1>7

\* The file of each of them.
LEMMA SombraCopia ==
    ASSUME InvS, FaseT, NEW D, NEW g, Lleva(D, g), NEW l, l = Len(corridas),
           fase \in {"abre", "lee", "mezcla", "compara"}, NEW t \in 1..l+2
    PROVE  \/ \E v \in 1..l : Casa(t, v) /\ Copia(op, Lotes[t], D[v])
           \/ (\A v \in 1..l : ~ Casa(t, v)) /\ Lotes[t] = <<>>
<1>1. /\ l \in Nat /\ pasada \in Nat /\ Len(D) = l /\ (pasada > 0 => pasada + 1 \in 1..l)
      /\ (pasada > 0 => pasada \in 1..l)
  <2>1. PICK F : F = Seq(Fichas(op))
    OBVIOUS
  <2>2. corridas \in Seq(F) /\ pasada \in Nat
    BY <2>1 DEF InvS, TipoS
  <2>3. Len(D) = l
    BY DEF Lleva, Copiadas, Cerradas
  <2>4. pasada > 0 => pasada + 1 <= l
    BY DEF FaseT
  <2> QED BY <2>2, <2>3, <2>4
<1>2. \A v \in 1..l : Copia(op, Tira(v), D[v])
  BY <1>1 DEF Lleva, Copiadas
<1>3. /\ \A v \in 1..l : Lotes[v] = corridas[v]
      /\ Lotes[l + 1] = f1 /\ Lotes[l + 2] = f2
  BY LotesSon
<1>4. CASE t \in 1..l
  <2>1. t # l + 1 /\ t # l + 2
    BY <1>1, <1>4
  <2>2. CASE pasada = 0 \/ t > pasada + 1
    <3>1. Casa(t, t) /\ Tira(t) = corridas[t]
      BY <1>4, <2>2 DEF Casa, Tira
    <3> QED BY <3>1, <1>2, <1>3, <1>4
  <2>3. CASE ~ (pasada = 0 \/ t > pasada + 1)
    <3>1. \A v \in 1..l : ~ Casa(t, v)
      BY <2>1, <2>3 DEF Casa
    <3>2. pasada > 0 /\ t \in 1..pasada+1
      BY <1>1, <1>4, <2>3
    <3>3. corridas[t] = <<>>
      BY <3>2 DEF FaseT
    <3> QED BY <3>1, <3>3, <1>3, <1>4
  <2> QED BY <2>2, <2>3
<1>5. CASE t = l + 1
  <2>1. t \notin 1..l /\ t # l + 2
    BY <1>1, <1>5
  <2>2. CASE pasada = 0
    <3>1. f1 = <<>>
      BY <2>2 DEF FaseT
    <3>2. ~ (pasada > 0)
      BY <2>2
    <3> QED BY <2>1, <3>1, <3>2, <1>3, <1>5 DEF Casa
  <2>3. CASE pasada > 0
    <3>1. ~ (pasada > pasada + 1) /\ ~ (pasada + 1 > pasada + 1) /\ pasada # 0
      BY <1>1, <2>3
    <3>2. CASE fase = "compara"
      <4>1. Casa(t, pasada) /\ Tira(pasada) = f1
        BY <1>5, <2>3, <3>1, <3>2 DEF Casa, Tira
      <4> QED BY <4>1, <1>1, <1>2, <1>3, <1>5, <2>3
    <3>3. CASE fase # "compara"
      <4>1. Casa(t, pasada + 1) /\ Tira(pasada + 1) = f1
        BY <1>5, <2>3, <3>1, <3>3 DEF Casa, Tira
      <4> QED BY <4>1, <1>1, <1>2, <1>3, <1>5, <2>3
    <3> QED BY <3>2, <3>3
  <2> QED BY <1>1, <2>2, <2>3
<1>6. CASE t = l + 2
  <2>1. t \notin 1..l /\ t # l + 1
    BY <1>1, <1>6
  <2>2. CASE fase = "compara"
    <3>1. pasada > 0
      <4>1. pasada # 0
        BY <2>2 DEF FaseT
      <4> QED BY <4>1, <1>1
    <3>2. ~ (pasada + 1 > pasada + 1) /\ pasada # 0 /\ pasada + 1 # pasada
      BY <1>1, <3>1
    <3>3. Casa(t, pasada + 1) /\ Tira(pasada + 1) = f2
      BY <1>6, <2>2, <3>1, <3>2 DEF Casa, Tira
    <3> QED BY <3>1, <3>3, <1>1, <1>2, <1>3, <1>6
  <2>3. CASE fase # "compara"
    <3>1. f2 = <<>>
      BY <2>3 DEF FaseT
    <3> QED BY <2>1, <2>3, <3>1, <1>3, <1>6 DEF Casa
  <2> QED BY <2>2, <2>3
<1> QED BY <1>1, <1>4, <1>5, <1>6

\* What the files hold is what has been read, each entry once.
LEMMA SombraCuadra ==
    ASSUME InvS, FaseT, NEW D, NEW g, Lleva(D, g), NEW l, l = Len(corridas),
           fase \in {"abre", "lee", "mezcla", "compara"}
    PROVE  Cuadra(op, l + 4, Lotes, Sombra(D, g)) /\ Contenido(l + 4, Sombra(D, g)) = Leidas
<1>1. PICK G, w, a : /\ G = Sombra(D, g) /\ w = [n \in 1..Len(arbol) |-> Completa(arbol[n])]
                     /\ a = arbol
  OBVIOUS
<1>2. /\ l \in Nat /\ pasada \in Nat /\ Len(D) = l /\ (pasada > 0 => pasada + 1 \in 1..l)
      /\ (pasada > 0 => pasada \in 1..l)
  <2>1. PICK F : F = Seq(Fichas(op))
    OBVIOUS
  <2>2. corridas \in Seq(F) /\ pasada \in Nat
    BY <2>1 DEF InvS, TipoS
  <2>3. Len(D) = l
    BY DEF Lleva, Copiadas, Cerradas
  <2>4. pasada > 0 => pasada + 1 <= l
    BY DEF FaseT
  <2> QED BY <2>2, <2>3, <2>4
<1>3. /\ Copia(op, ff, g) /\ \A v \in 1..l : Copia(op, Tira(v), D[v])
      /\ Leidas = Junta(D, g, a) /\ Ordenada(g) /\ \A v \in 1..l : Ordenada(D[v])
      /\ \A v, u \in 1..l : v < u => Previas(Todas(D[v]), Todas(D[u]))
      /\ \A v \in 1..l : Previas(Todas(D[v]), EnArbol(a))
      /\ \A v \in 1..l : Menores(Todas(g), Todas(D[v])) \/ Previas(Todas(g), Todas(D[v]))
  BY <1>1, <1>2 DEF Lleva, Copiadas, Ordenadas
<1>4. /\ DOMAIN Lotes = 1..l+4 /\ \A t \in 1..l+4 : Lotes[t] \in Seq(Fichas(op))
      /\ Lotes[l + 3] = ff /\ Lotes[l + 4] = [n \in DOMAIN a |-> Ficha(a[n])]
  BY <1>1, LotesSon
<1>5. w \in Seq(Completas) /\ Len(w) = Len(a) /\ SinRepetir(w) /\ Todas(w) = EnArbol(a)
  <2>1. a \in Seq(Nodos)
    BY <1>1 DEF InvS, TipoS
  <2>2. a = <<>> \/ \E q, r, desde, hasta : EsArbol(a, q, r, desde, hasta)
    <3>1. CASE fase \in {"abre", "lee"}
      BY <1>1, <3>1 DEF InvS, ArbolS
    <3>2. CASE fase \in {"mezcla", "compara"}
      BY <1>1, <3>2 DEF FaseT, Mezclando
    <3> QED BY <3>1, <3>2
  <2> QED BY <1>1, <2>1, <2>2, ArbolDistinto
<1>6. \A v \in 1..l : D[v] \in Seq(Completas) /\ SinRepetir(D[v])
  BY <1>3, OrdenadaDistinta DEF Copia
<1>7. g \in Seq(Completas) /\ SinRepetir(g)
  BY <1>3, OrdenadaDistinta DEF Copia
<1>8. Todas(g) = {} \/ EnArbol(a) = {}
  <2>1. CASE fase = "compara"
    <3>1. a = <<>> /\ \A n \in 1..Len(<<>>) : FALSE
      BY <1>1, <2>1 DEF FaseT, Mezclando
    <3> QED BY <3>1 DEF EnArbol
  <2>2. CASE fase # "compara"
    <3>1. ff = <<>>
      BY <2>2 DEF FaseT
    <3> QED BY <3>1, <1>3, CopiaVacia, OrdenaNada
  <2> QED BY <2>1, <2>2
<1>9. /\ \A t \in 1..l+4, v, u \in 1..l : Casa(t, v) /\ Casa(t, u) => v = u
      /\ \A t, x \in 1..l+4, v \in 1..l : Casa(t, v) /\ Casa(x, v) => t = x
      /\ \A t \in 1..l+4, v \in 1..l : Casa(t, v) => t # l + 3 /\ t # l + 4
  BY UnaCasa
<1>10. /\ \A t \in 1..l+4 : t = l + 4 \/ t = l + 3 \/ t \in 1..l+2
       /\ \A t \in 1..l+2 : t \in 1..l+4 /\ t # l + 4 /\ t # l + 3
       /\ l + 3 \in 1..l+4 /\ l + 4 \in 1..l+4 /\ l + 3 # l + 4
  BY <1>2
<1>11. G[l + 4] = w /\ G[l + 3] = g
  BY <1>1, <1>10 DEF Sombra
<1>12. ASSUME NEW t \in 1..l+2, NEW v \in 1..l, Casa(t, v) PROVE G[t] = D[v]
  <2>1. PICK u : u = CHOOSE z \in 1..l : Casa(t, z)
    OBVIOUS
  <2>2. u = v
    BY <1>9, <1>10, <1>12, <2>1
  <2>3. G[t] = D[u]
    BY <1>1, <1>10, <1>12, <2>1 DEF Sombra
  <2> QED BY <2>2, <2>3
<1>13. ASSUME NEW t \in 1..l+2
       PROVE  \/ \E v \in 1..l : Casa(t, v) /\ Copia(op, Lotes[t], G[t]) /\ G[t] = D[v]
              \/ Lotes[t] = <<>> /\ G[t] = <<>> /\ Copia(op, Lotes[t], G[t])
  <2>1. CASE \E v \in 1..l : Casa(t, v) /\ Copia(op, Lotes[t], D[v])
    BY <2>1, <1>12
  <2>2. CASE (\A v \in 1..l : ~ Casa(t, v)) /\ Lotes[t] = <<>>
    <3>1. G[t] = <<>>
      BY <1>1, <1>10, <2>2 DEF Sombra
    <3> QED BY <2>2, <3>1, CopiaNada
  <2> QED BY <2>1, <2>2, SombraCopia
<1>14. /\ Todas(<<>>) = {} /\ SinRepetir(<<>>)
  <2>1. \A i \in 1..Len(<<>>) : FALSE
    OBVIOUS
  <2> QED BY <2>1, OrdenaNada DEF SinRepetir
<1>15. Copia(op, Lotes[l + 4], w)
  <2>1. PICK k : k = Lotes[l + 4]
    OBVIOUS
  <2>2. k \in Seq(Fichas(op)) /\ DOMAIN a = 1..Len(a) /\ Len(a) \in Nat
    <3>1. a \in Seq(Nodos)
      BY <1>1 DEF InvS, TipoS
    <3> QED BY <2>1, <1>4, <1>10, <3>1
  <2>3. k = [n \in 1..Len(a) |-> Ficha(a[n])]
    BY <1>4, <2>1, <2>2
  <2>4. Len(k) = Len(a)
    BY <2>2, <2>3, LenProperties
  <2>5. \A i \in 1..Len(w) : k[i] = FichaDe(op, w[i])
    BY <1>1, <1>5, <2>3 DEF Ficha, FichaDe, Completa
  <2> QED BY <1>5, <2>1, <2>4, <2>5 DEF Copia
<1>16. ASSUME NEW t \in 1..l+4
       PROVE  Lotes[t] \in Seq(Fichas(op)) /\ Copia(op, Lotes[t], G[t]) /\ SinRepetir(G[t])
  <2>1. CASE t = l + 4
    BY <1>4, <1>5, <1>11, <1>15, <2>1
  <2>2. CASE t = l + 3
    BY <1>3, <1>4, <1>7, <1>11, <2>2
  <2>3. CASE t \in 1..l+2
    BY <1>4, <1>6, <1>13, <1>14, <2>3
  <2> QED BY <1>10, <2>1, <2>2, <2>3
<1>17. ASSUME NEW s \in Seq(Completas), NEW x \in Todas(s)
       PROVE  x.lugar \in Nat \X Nat /\ x.llave \in Int
  <2>1. \A i \in 1..Len(s) : s[i] \in Completas
    OBVIOUS
  <2>2. x \in Completas
    BY <2>1 DEF Todas
  <2> QED BY <2>2 DEF Completas
<1>18. ASSUME NEW v \in 1..l, NEW u \in 1..l, v # u PROVE Todas(D[v]) \cap Todas(D[u]) = {}
  <2>1. Previas(Todas(D[v]), Todas(D[u])) \/ Previas(Todas(D[u]), Todas(D[v]))
    <3>1. v < u \/ u < v
      BY <1>18
    <3> QED BY <3>1, <1>3
  <2>2. \A x \in Todas(D[v]) : x.lugar \in Nat \X Nat /\ x.llave \in Int
    BY <1>6, <1>17
  <2> QED BY <2>1, <2>2, Ajenas
<1>19. ASSUME NEW v \in 1..l
       PROVE  Todas(D[v]) \cap EnArbol(a) = {} /\ Todas(D[v]) \cap Todas(g) = {}
  <2>1. \A x \in Todas(D[v]) : x.lugar \in Nat \X Nat /\ x.llave \in Int
    BY <1>6, <1>17
  <2>2. Todas(D[v]) \cap EnArbol(a) = {}
    BY <1>3, <2>1, Ajenas
  <2>3. Todas(D[v]) \cap Todas(g) = {}
    BY <1>3, <2>1, Ajenas
  <2> QED BY <2>2, <2>3
<1>20. ASSUME NEW t \in 1..l+4, NEW x \in 1..l+4, t < x
       PROVE  Todas(G[t]) \cap Todas(G[x]) = {}
  <2>1. CASE t \in 1..l+2 /\ G[t] = <<>>
    BY <2>1, <1>14
  <2>2. CASE t = l + 3
    <3>1. x = l + 4
      BY <1>2, <1>20, <2>2
    <3> QED BY <1>5, <1>8, <1>11, <2>2, <3>1
  <2>3. CASE t \in 1..l+2 /\ \E v \in 1..l : Casa(t, v) /\ G[t] = D[v]
    <3>1. PICK v \in 1..l : Casa(t, v) /\ G[t] = D[v]
      BY <2>3
    <3>2. CASE x = l + 4
      BY <3>1, <3>2, <1>5, <1>11, <1>19
    <3>3. CASE x = l + 3
      BY <3>1, <3>3, <1>11, <1>19
    <3>4. CASE x \in 1..l+2
      <4>1. CASE G[x] = <<>>
        BY <4>1, <1>14
      <4>2. CASE G[x] # <<>>
        <5>1. PICK u \in 1..l : Casa(x, u) /\ G[x] = D[u]
          BY <1>13, <3>4, <4>2
        <5>2. u # v
          <6>1. t # x
            BY <1>20
          <6> QED BY <3>1, <5>1, <6>1, <1>9
        <5> QED BY <3>1, <5>1, <5>2, <1>18
      <4> QED BY <4>1, <4>2
    <3> QED BY <1>10, <3>2, <3>3, <3>4
  <2>4. t # l + 4
    BY <1>2, <1>20
  <2> QED BY <1>10, <1>13, <2>1, <2>2, <2>3, <2>4
<1>21. Cuadra(op, l + 4, Lotes, G)
  <2>1. ASSUME NEW t \in 1..l+4, NEW x \in 1..l+4, t # x PROVE Todas(G[t]) \cap Todas(G[x]) = {}
    <3>1. t < x \/ x < t
      BY <2>1
    <3> QED BY <3>1, <1>20
  <2>2. l + 4 \in Nat
    BY <1>2
  <2> QED BY <1>16, <2>1, <2>2 DEF Cuadra
<1>22. ASSUME NEW v \in 1..l
       PROVE  D[v] = <<>> \/ \E t \in 1..l+2 : Casa(t, v)
  <2>1. v \in 1..l+2 /\ l + 1 \in 1..l+2 /\ l + 2 \in 1..l+2
    BY <1>2
  <2>2. CASE pasada = 0 \/ v > pasada + 1
    BY <2>1, <2>2 DEF Casa
  <2>3. CASE pasada > 0 /\ v = pasada + 1
    <3>1. CASE fase = "compara"
      <4>1. Casa(l + 2, v)
        BY <2>3, <3>1 DEF Casa
      <4> QED BY <2>1, <4>1
    <3>2. CASE fase # "compara"
      <4>1. Casa(l + 1, v)
        BY <2>3, <3>2 DEF Casa
      <4> QED BY <2>1, <4>1
    <3> QED BY <3>1, <3>2
  <2>4. CASE pasada > 0 /\ v = pasada /\ fase = "compara"
    <3>1. Casa(l + 1, v)
      BY <2>4 DEF Casa
    <3> QED BY <2>1, <3>1
  <2>5. CASE pasada > 0 /\ ~ (v > pasada + 1) /\ v # pasada + 1 /\ (v # pasada \/ fase # "compara")
    <3>1. pasada # 0
      BY <2>5
    <3>2. Tira(v) = <<>>
      BY <2>5, <3>1 DEF Tira
    <3> QED BY <3>2, <1>3, CopiaVacia
  <2>6. pasada = 0 \/ pasada > 0
    BY <1>2
  <2> QED BY <2>2, <2>3, <2>4, <2>5, <2>6
<1>23. Contenido(l + 4, G) = Leidas
  <2> DEFINE U == UNION {Todas(D[v]) : v \in 1..l}
  <2>1. Leidas = U \cup Todas(g) \cup Todas(w)
    BY <1>2, <1>3, <1>5 DEF Junta
  <2>2. ASSUME NEW t \in 1..l+4 PROVE Todas(G[t]) \subseteq U \cup Todas(g) \cup Todas(w)
    <3>1. CASE t \in 1..l+2
      <4>1. CASE G[t] = <<>>
        BY <4>1, <1>14
      <4>2. CASE \E v \in 1..l : G[t] = D[v]
        BY <4>2
      <4> QED BY <3>1, <4>1, <4>2, <1>13
    <3>2. CASE t = l + 3 \/ t = l + 4
      BY <3>2, <1>11
    <3> QED BY <1>10, <3>1, <3>2
  <2>3. ASSUME NEW v \in 1..l PROVE Todas(D[v]) \subseteq Contenido(l + 4, G)
    <3>1. CASE D[v] = <<>>
      BY <3>1, <1>14
    <3>2. CASE \E t \in 1..l+2 : Casa(t, v)
      <4>1. PICK t \in 1..l+2 : Casa(t, v)
        BY <3>2
      <4>2. G[t] = D[v] /\ t \in 1..l+4
        BY <4>1, <1>10, <1>12
      <4> QED BY <4>2 DEF Contenido
    <3> QED BY <3>1, <3>2, <1>22
  <2>4. Todas(g) \subseteq Contenido(l + 4, G) /\ Todas(w) \subseteq Contenido(l + 4, G)
    BY <1>10, <1>11 DEF Contenido
  <2>5. Contenido(l + 4, G) \subseteq U \cup Todas(g) \cup Todas(w)
    <3> HIDE DEF U
    <3> QED BY <2>2 DEF Contenido
  <2>6. U \subseteq Contenido(l + 4, G)
    BY <2>3
  <2> HIDE DEF U
  <2> QED BY <2>1, <2>4, <2>5, <2>6
<1> QED BY <1>1, <1>21, <1>23

\* The index has as many entries as records were read, and those when their places are kept.
LEMMA IndiceBien == ASSUME InvT PROVE IndiceFiel
<1> SUFFICES ASSUME fase = "fin", op.indice # "no"
             PROVE  /\ PorLlave(indice)
                    /\ Len(indice) = Cardinality(Leida)
                    /\ op.junta => ToSet(indice) = Leida
  BY DEF IndiceFiel
<1>1. PorLlave(indice) /\ indice \in Seq(Fichas(op))
  BY DEF InvT, InvS, OrdenS, TipoS
<1>2. PICK g : Copia(op, indice, g) /\ Ordenada(g) /\ Todas(g) = Leida
  BY DEF InvT, IndiceT
<1>3. PICK l : l = Len(g)
  OBVIOUS
<1>4. /\ g \in Seq(Completas) /\ l \in Nat /\ Len(indice) = l /\ DOMAIN indice = 1..l
      /\ \A i \in 1..l : g[i] \in Completas /\ indice[i] = FichaDe(op, g[i])
  BY <1>1, <1>2, <1>3 DEF Copia
<1>5. Cardinality(Leida) = l
  <2> DEFINE h == [i \in 1..l |-> g[i]]
  <2>1. h \in [1..l -> Leida]
    BY <1>2, <1>3 DEF Todas
  <2>2. h \in Surjection(1..l, Leida)
    BY <1>2, <1>3, <2>1 DEF Surjection, Todas
  <2>3. h \in Injection(1..l, Leida)
    <3>1. SinRepetir(g)
      BY <1>2, <1>4, OrdenadaDistinta
    <3> QED BY <1>3, <2>1, <3>1 DEF Injection, IsInjective, SinRepetir
  <2>4. IsFiniteSet(1..l) /\ Cardinality(1..l) = l
    <3>1. l \in Int /\ 1 \in Int
      BY <1>4
    <3>2. IsFiniteSet(1..l) /\ Cardinality(1..l) = IF 1 > l THEN 0 ELSE l - 1 + 1
      BY <3>1, FS_Interval
    <3> QED BY <1>4, <3>2
  <2> HIDE DEF h
  <2> QED BY <2>2, <2>3, <2>4, FS_Surjection
<1>6. op.junta => ToSet(indice) = Leida
  <2>1. op.junta => \A i \in 1..l : indice[i] = g[i]
    BY <1>4 DEF FichaDe, Completas
  <2>2. ToSet(indice) = {indice[i] : i \in 1..l}
    BY <1>4 DEF ToSet
  <2> QED BY <1>2, <1>3, <2>1, <2>2 DEF Todas
<1> QED BY <1>1, <1>4, <1>5, <1>6

\* So nothing is lost or doubled.
LEMMA NadaBien == InvT => NadaSePierde
<1> SUFFICES ASSUME InvT PROVE NadaSePierde
  OBVIOUS
<1>1. Len(arbol) <= op.tokeys /\ Len(pila) < op.tokeys /\ IndiceFiel
  BY IndiceBien DEF InvT, CabeT, FaseT
<1>2. ASSUME fase \in {"abre", "lee", "mezcla", "compara"}
      PROVE  /\ Cardinality(Casillas) = Cardinality(Leidas)
             /\ {x.llave : x \in Guardadas} = {x.llave : x \in Leidas}
             /\ op.junta => Guardadas = Leidas
             /\ \A t \in DOMAIN corridas : PorLlave(corridas[t])
  <2>1. PICK D, g : Lleva(D, g)
    BY <1>2 DEF InvT, LlevaT, Fallas
  <2>2. PICK l, G, K : l = Len(corridas) + 4 /\ G = Sombra(D, g) /\ K = Lotes
    OBVIOUS
  <2>3. Cuadra(op, l, K, G) /\ Contenido(l, G) = Leidas
    BY <1>2, <2>1, <2>2, SombraCuadra DEF InvT
  <2>4. Casillas = Casas(l, K)
    <3>1. DOMAIN Lotes = 1..l
      BY <2>2, LotesSon DEF InvT
    <3> QED BY <2>2, <3>1, Zenon DEF Casillas, Casas
  <2>5. Guardadas = {K[c[1]][c[2]] : c \in Casillas}
    BY <2>2, Zenon DEF Guardadas
  <2>6. PICK C, T : C = Casillas /\ T = Leidas
    OBVIOUS
  <2>7. Cuentan(op, K, C, T)
    <3>1. C = Casas(l, K) /\ T = Contenido(l, G)
      BY <2>3, <2>4, <2>6
    <3> QED BY <2>3, <3>1, CuentaCasas
  <2>8. \A t \in DOMAIN corridas : PorLlave(corridas[t])
    <3>1. PICK F : F = Seq(Fichas(op))
      OBVIOUS
    <3>2. corridas \in Seq(F)
      BY <3>1 DEF InvT, InvS, TipoS
    <3>3. DOMAIN corridas = 1..Len(corridas)
      BY <3>2
    <3> QED BY <3>3 DEF InvT, InvS, OrdenS
  <2> QED BY <2>5, <2>6, <2>7, <2>8 DEF Cuentan
<1> QED BY <1>1, <1>2 DEF NadaSePierde

-----------------------------------------------------------------------------

\* The index instructions leave the sort as it is.
LEMMA PasoTB == InvT /\ [NextB]_varsB => InvT'
<1>1. [NextB]_varsB => [Next]_vars
  BY DEF NextB, varsB, Ordena, Activa, AbreIx, CierraIx, Siguiente, Primera, Ultima, Mueve,
         Anterior, Empieza, Prueba
<1> QED BY <1>1, PasoT

\* It holds at the start of the searches too.
LEMMA InicioTB == InitB => InvT
  BY InicioT DEF InitB

\* vpsort's output is at every moment the start of the sorted records, equal keys in the
\* order they were read, and all of them when it ends: whatever the options, the files and
\* the memory, so for any number of runs and merges.
THEOREM SalidaSiempre == SpecB => []SalidaFiel
<1> QED BY InicioTB, PasoTB, SalidaBien, PTL DEF SpecB

\* No entry is lost or doubled between the tree, the runs, the merges and the index, and the
\* tree and the stack of its walk stay in the memory they were given.
THEOREM NadaSiempre == SpecB => []NadaSePierde
<1> QED BY InicioTB, PasoTB, NadaBien, PTL DEF SpecB
=============================================================================

----------------------------- MODULE VpgRunProofs -----------------------------
(***************************************************************************)
(* What holds of the compiler and of the interpreter for any sources,      *)
(* keys, windows and depth of calls: where the jumps that vp writes go     *)
(* (SaltosFieles), by an invariant of the object of the first tokens and   *)
(* of what its stacks keep, Compilado; what vpg keeps for a field that a   *)
(* function key interrupts (VueltaAlCampo); and that a program stays in    *)
(* its own instructions (SaltoPropio), by an invariant of every number     *)
(* that vpg keeps, IInvR.                                                  *)
(***************************************************************************)
EXTENDS VpgRun, TLAPS, WellFoundedInduction, SequenceTheorems, FiniteSetTheorems

(* Induction: the library has it for predicates, which the provers cannot instantiate; here *)
(* it is for sets of numbers, from the well-foundedness of < alone.                        *)

\* A set of numbers that is not empty has a least one.
LEMMA Minimo ==
    ASSUME NEW T, T \subseteq Nat, T # {}
    PROVE  \E x \in T : \A y \in T : x <= y
<1> DEFINE R == OpToRel(<, Nat)
<1>1. IsWellFoundedOn(R, Nat)
  BY NatLessThanWellFounded, Zenon
<1>2. PICK x \in T : \A y \in T : ~ (<<y, x>> \in R)
  BY <1>1, WFMin, Zenon
<1>3. \A y \in T : y < x => <<y, x>> \in R
  BY Zenon DEF OpToRel
<1>4. \A y \in T : ~ (y < x)
  BY <1>2, <1>3, Zenon
<1> HIDE DEF R
<1>5. \A y \in T : x <= y
  BY <1>4
<1> QED
  BY <1>5


\* A sequence of whatever values.
EsSeq(s) == \E S : s \in Seq(S)

(* What a source says, by counts *)

\* Token j ends the branch that starts after k, and the loop that is around k; token i
\* starts that loop.
FinDeRama(f, k, j) ==
    /\ k < j /\ f[j].op \in {"|", "."} /\ Ifs(f, j - 1) = Ifs(f, k)
    /\ \A i \in k+1..j-1 : ~ (f[i].op \in {"|", "."} /\ Ifs(f, i - 1) = Ifs(f, k))
FinDeLazo(f, k, j) ==
    /\ k < j /\ EsCierra(f[j]) /\ Lazos(f, j - 1) = Lazos(f, k)
    /\ \A i \in k+1..j-1 : ~ (EsCierra(f[i]) /\ Lazos(f, i - 1) = Lazos(f, k))
IniDeLazo(f, k, i) ==
    /\ i < k /\ EsAbre(f[i]) /\ Lazos(f, i) = Lazos(f, k - 1)
    /\ \A j \in i+1..k-1 : ~ (EsAbre(f[j]) /\ Lazos(f, j) = Lazos(f, k - 1))

\* After n tokens, the branch that starts after k is the m-th of the open ones; and the
\* loop around k the m-th of the open loops.
EsRama(f, k) == UltimaBarra(f[k]) \/ f[k].op = "|"
RamaAbierta(f, n, k, m) ==
    /\ EsRama(f, k) /\ Ifs(f, k) = m
    /\ \A i \in k..n : Ifs(f, i) >= m
    /\ \A i \in k+1..n : ~ (f[i].op = "|" /\ Ifs(f, i - 1) = m)
LazoAbierto(f, n, k, m) == Lazos(f, k) = m /\ \A i \in k..n : Lazos(f, i) >= m

\* The count after token k; the place of the jump at the start of a branch; and the tokens
\* that have targets.
FinDe(f, c, k) == c[k] + Cuantas(f[k])
Brinco(f, c, k) ==
    IF f[k].op = "y" THEN <<c[k], 2>> ELSE IF f[k].op = "|" THEN <<c[k], 1>> ELSE <<c[k] + 1, 1>>
Apunta(f, k) == f[k].op \notin SinInstruccion \cup {"|", ")"}
Vale(o, p, v) == o[p[1] + 1].a[p[2]] = v

(* The invariant *)

\* The counts of the first n tokens, and of the labels among them.
Contado(f, c, n) ==
    /\ c \in Seq(Nat) /\ Len(c) = n
    /\ n > 0 => c[1] = 0
    /\ \A k \in 1..n-1 : c[k + 1] = FinDe(f, c, k)
    /\ \A k, j \in 1..n : k < j => FinDe(f, c, k) <= c[j]
Etiquetado(f, c, n, s) ==
    /\ \A k \in 1..n : f[k].op = "[" => f[k].x \in DOMAIN s
    /\ \A l \in DOMAIN s : \E k \in 1..n :
          /\ f[k].op = "[" /\ f[k].x = l /\ s[l] = c[k]
          /\ \A i \in 1..k-1 : ~ (f[i].op = "[" /\ f[i].x = l)

\* What the second pass has written in o for n tokens, with jumps to fill in ifl and lop:
\* the instructions; the branches; the loops; and the targets.
Una(q) == \E v : q = <<v>>
EsObjeto(o) == EsSeq(o) /\ \A q \in 1..Len(o) : \E u, w, z : o[q] = Ins(u, w, z)
Figura(f, c, o, k) ==
    /\ Apunta(f, k) => /\ o[c[k] + 1].op = f[k].op
                       /\ DOMAIN f[k].d \subseteq DOMAIN o[c[k] + 1].a
    /\ UltimaBarra(f[k]) /\ f[k].op = "y" => DOMAIN o[c[k] + 1].a = 1..2
    /\ UltimaBarra(f[k]) /\ f[k].op # "y" => o[c[k] + 2].op = "g" /\ Una(o[c[k] + 2].a)
    /\ f[k].op \in {"|", ")"} => o[c[k] + 1].op = "g" /\ Una(o[c[k] + 1].a)

Ramas(f, c, n, o, ifl) ==
    /\ EsSeq(ifl) /\ Len(ifl) = Ifs(f, n)
    /\ \A m \in 1..Len(ifl) : \E k \in 1..n : RamaAbierta(f, n, k, m) /\ ifl[m] = Brinco(f, c, k)
    /\ \A k \in 1..n : EsRama(f, k) =>
          \/ \E m \in 1..Len(ifl) : RamaAbierta(f, n, k, m) /\ ifl[m] = Brinco(f, c, k)
          \/ \E j \in k+1..n : FinDeRama(f, k, j) /\ Vale(o, Brinco(f, c, k), FinDe(f, c, j))

SalidaDe(f, c, n, m, p) ==
    \E k \in 1..n : \E j \in DOMAIN f[k].d :
        Apunta(f, k) /\ LazoAbierto(f, n, k, m) /\ f[k].d[j] = "+" /\ p = <<c[k], j>>
Vueltas(f, c, n, lop) ==
    /\ EsSeq(lop) /\ Len(lop) = Lazos(f, n)
    /\ \A m \in 1..Len(lop) :
          /\ \E w, S : lop[m] = [ini |-> w, lpos |-> S]
          /\ \E i \in 1..n : EsAbre(f[i]) /\ LazoAbierto(f, n, i, m) /\ lop[m].ini = c[i]
          /\ \A p \in lop[m].lpos : SalidaDe(f, c, n, m, p)

Meta(f, c, n, o, lop, s, k, j) ==
    LET d == f[k].d[j]
        v == o[c[k] + 1].a[j]
    IN  /\ d = "+" => \/ \E m \in 1..Len(lop) : LazoAbierto(f, n, k, m) /\ <<c[k], j>> \in lop[m].lpos
                      \/ \E i \in k+1..n : FinDeLazo(f, k, i) /\ v = FinDe(f, c, i)
        /\ d = "-" => \E i \in 1..k-1 : IniDeLazo(f, k, i) /\ v = c[i]
        /\ d = "|" => v = FinDe(f, c, k)
        /\ d \notin {"+", "-", "|"} => v = (IF d \in DOMAIN s THEN s[d] ELSE 0)
Metas(f, c, n, o, lop, s) ==
    \A k \in 1..n :
        /\ Apunta(f, k) => \A j \in DOMAIN f[k].d : Meta(f, c, n, o, lop, s, k, j)
        /\ f[k].op = ")" => \E i \in 1..k-1 : IniDeLazo(f, k, i) /\ o[c[k] + 1].a[1] = c[i]

Hecho(f, c, s, n, o, ifl, lop) ==
    /\ EsObjeto(o) /\ Len(o) = c[n + 1]
    /\ \A k \in 1..n : Figura(f, c, o, k)
    /\ Ramas(f, c, n, o, ifl)
    /\ Vueltas(f, c, n, lop)
    /\ Metas(f, c, n, o, lop, s)

-----------------------------------------------------------------------------
(* Stacks *)

\* The empty stack is a sequence.
LEMMA VaciaEsSeq == EsSeq(<<>>) /\ Len(<<>>) = 0
<1>1. <<>> \in Seq({})
  OBVIOUS
<1> QED
  BY <1>1 DEF EsSeq

\* A stack with one more has the others where they were.
LEMMA Empuja ==
    ASSUME NEW s, NEW e, EsSeq(s)
    PROVE  /\ EsSeq(Append(s, e)) /\ Len(s) \in Nat
           /\ Len(Append(s, e)) = Len(s) + 1
           /\ \A k \in 1..Len(s) : Append(s, e)[k] = s[k]
           /\ Append(s, e)[Len(s) + 1] = e
<1>1. PICK S : s \in Seq(S)
  BY DEF EsSeq
<1>2. s \in Seq(S \cup {e}) /\ e \in S \cup {e}
  BY <1>1
<1>3. Append(s, e) \in Seq(S \cup {e})
  BY <1>2
<1>4. EsSeq(Append(s, e))
  BY <1>3, Zenon DEF EsSeq
<1> QED
  BY <1>2, <1>4

\* And so has a stack without its last.
LEMMA Saca ==
    ASSUME NEW s, EsSeq(s), s # <<>>
    PROVE  /\ EsSeq(Quita(s)) /\ Len(s) \in Nat \ {0}
           /\ Len(Quita(s)) = Len(s) - 1
           /\ \A k \in 1..Len(s) - 1 : Quita(s)[k] = s[k]
<1>1. PICK S : s \in Seq(S)
  BY DEF EsSeq
<1>2. Len(s) \in Nat \ {0}
  BY <1>1
<1>3. Quita(s) \in Seq(S) /\ Len(Quita(s)) = Len(s) - 1
  <2>1. PICK n \in Nat : n = Len(s) - 1
    BY <1>2
  <2>2. 1 \in Int /\ n \in Int /\ \A i \in 1..n : s[i] \in S
    BY <1>1, <2>1
  <2>3. /\ SubSeq(s, 1, n) \in Seq(S)
        /\ Len(SubSeq(s, 1, n)) = IF 1 <= n THEN n - 1 + 1 ELSE 0
    BY <2>2, SubSeqProperties
  <2>4. (IF 1 <= n THEN n - 1 + 1 ELSE 0) = n
    OBVIOUS
  <2> QED
    BY <2>1, <2>3, <2>4, Zenon DEF Quita
<1>4. \A k \in 1..Len(s) - 1 : Quita(s)[k] = s[k]
  BY <1>1, <1>2 DEF Quita
<1>5. EsSeq(Quita(s))
  BY <1>3, Zenon DEF EsSeq
<1> QED
  BY <1>2, <1>3, <1>4, <1>5

-----------------------------------------------------------------------------
(* Counts *)

\* One more number to count.
LEMMA CuentaMas ==
    ASSUME NEW n \in Nat, NEW T
    PROVE  LET C(m) == Cardinality({k \in 1..m : k \in T})
           IN  C(n) \in Nat /\ C(n + 1) = C(n) + (IF n + 1 \in T THEN 1 ELSE 0)
<1> DEFINE S == {k \in 1..n : k \in T}
<1>1. IsFiniteSet(1..n)
  BY FS_Interval
<1>2. IsFiniteSet(S) /\ Cardinality(S) \in Nat
  BY <1>1, FS_Subset, FS_CardinalityType
<1>3. CASE n + 1 \in T
  <2>1. {k \in 1..n+1 : k \in T} = S \cup {n + 1}
    BY <1>3
  <2>2. n + 1 \notin S
    OBVIOUS
  <2>3. Cardinality(S \cup {n + 1}) = Cardinality(S) + 1
    BY <1>2, <2>2, FS_AddElement
  <2> QED BY <1>2, <1>3, <2>1, <2>3
<1>4. CASE n + 1 \notin T
  <2>1. {k \in 1..n+1 : k \in T} = S
    BY <1>4
  <2> QED BY <1>2, <1>4, <2>1
<1> QED BY <1>3, <1>4

\* None to count.
LEMMA CuentaNada == ASSUME NEW T PROVE Cardinality({k \in 1..0 : k \in T}) = 0
<1>1. {k \in 1..0 : k \in T} = {}
  OBVIOUS
<1> QED BY <1>1, FS_EmptySet

\* A stretch is counted by its ends.
LEMMA CuentaTramo ==
    ASSUME NEW b \in Nat, NEW a \in 1..b+1, NEW T
    PROVE  LET C(m) == Cardinality({k \in 1..m : k \in T})
           IN  /\ C(b) \in Nat /\ C(a - 1) \in Nat
               /\ Cardinality({k \in a..b : k \in T}) = C(b) - C(a - 1)
<1> DEFINE S1 == {k \in 1..a-1 : k \in T}
           S2 == {k \in a..b : k \in T}
<1>1. IsFiniteSet(1..a-1) /\ IsFiniteSet(a..b)
  BY FS_Interval
<1>2. IsFiniteSet(S1) /\ IsFiniteSet(S2)
  BY <1>1, FS_Subset
<1>3. {k \in 1..b : k \in T} = S1 \cup S2 /\ S1 \cap S2 = {}
  OBVIOUS
<1>4. Cardinality(S1) \in Nat /\ Cardinality(S2) \in Nat /\ Cardinality({}) = 0
  BY <1>2, FS_CardinalityType, FS_EmptySet
<1>5. Cardinality(S1 \cup S2) = Cardinality(S1) + Cardinality(S2) - Cardinality(S1 \cap S2)
  BY <1>2, FS_Union
<1>6. PICK x1, x2 \in Nat : x1 = Cardinality(S1) /\ x2 = Cardinality(S2)
  BY <1>4
<1>7. Cardinality({k \in 1..b : k \in T}) = x1 + x2 - 0
  BY <1>3, <1>4, <1>5, <1>6
<1> QED BY <1>6, <1>7

\* How bars and dots, and braces and parentheses, are counted.
LEMMA IfsMas ==
    ASSUME NEW f, NEW n \in Nat
    PROVE  /\ Ifs(f, n) \in Int /\ Ifs(f, 0) = 0
           /\ Ifs(f, n + 1) = Ifs(f, n) + (IF UltimaBarra(f[n + 1]) THEN 1 ELSE 0)
                                        - (IF EsPunto(f[n + 1]) THEN 1 ELSE 0)
<1> DEFINE T == {k \in Nat : UltimaBarra(f[k])}
           U == {k \in Nat : EsPunto(f[k])}
           C(S, m) == Cardinality({k \in 1..m : k \in S})
<1>1. ASSUME NEW m \in Nat PROVE Ifs(f, m) = C(T, m) - C(U, m)
  <2>1. {k \in 1..m : UltimaBarra(f[k])} = {k \in 1..m : k \in T}
    OBVIOUS
  <2>2. {k \in 1..m : EsPunto(f[k])} = {k \in 1..m : k \in U}
    OBVIOUS
  <2> QED BY <2>1, <2>2 DEF Ifs
<1>2. C(T, n) \in Nat /\ C(T, n + 1) = C(T, n) + (IF n + 1 \in T THEN 1 ELSE 0)
  BY CuentaMas
<1>3. C(U, n) \in Nat /\ C(U, n + 1) = C(U, n) + (IF n + 1 \in U THEN 1 ELSE 0)
  BY CuentaMas
<1>4. C(T, 0) = 0 /\ C(U, 0) = 0
  BY CuentaNada
<1>5. n + 1 \in Nat /\ 0 \in Nat
  OBVIOUS
<1>6. Ifs(f, n) = C(T, n) - C(U, n) /\ Ifs(f, n + 1) = C(T, n + 1) - C(U, n + 1)
  BY <1>1, <1>5
<1>7. Ifs(f, 0) = C(T, 0) - C(U, 0)
  BY <1>1, <1>5
<1>8. (n + 1 \in T <=> UltimaBarra(f[n + 1])) /\ (n + 1 \in U <=> EsPunto(f[n + 1]))
  BY <1>5
<1> HIDE DEF T, U, C
<1> QED BY <1>2, <1>3, <1>4, <1>6, <1>7, <1>8

\* And so do the open loops.
LEMMA LazosMas ==
    ASSUME NEW f, NEW n \in Nat
    PROVE  /\ Lazos(f, n) \in Int /\ Lazos(f, 0) = 0
           /\ Lazos(f, n + 1) = Lazos(f, n) + (IF EsAbre(f[n + 1]) THEN 1 ELSE 0)
                                            - (IF EsCierra(f[n + 1]) THEN 1 ELSE 0)
<1> DEFINE T == {k \in Nat : EsAbre(f[k])}
           U == {k \in Nat : EsCierra(f[k])}
           C(S, m) == Cardinality({k \in 1..m : k \in S})
<1>1. ASSUME NEW m \in Nat PROVE Lazos(f, m) = C(T, m) - C(U, m)
  <2>1. {k \in 1..m : EsAbre(f[k])} = {k \in 1..m : k \in T}
    OBVIOUS
  <2>2. {k \in 1..m : EsCierra(f[k])} = {k \in 1..m : k \in U}
    OBVIOUS
  <2> QED BY <2>1, <2>2 DEF Lazos
<1>2. C(T, n) \in Nat /\ C(T, n + 1) = C(T, n) + (IF n + 1 \in T THEN 1 ELSE 0)
  BY CuentaMas
<1>3. C(U, n) \in Nat /\ C(U, n + 1) = C(U, n) + (IF n + 1 \in U THEN 1 ELSE 0)
  BY CuentaMas
<1>4. C(T, 0) = 0 /\ C(U, 0) = 0
  BY CuentaNada
<1>5. n + 1 \in Nat /\ 0 \in Nat
  OBVIOUS
<1>6. Lazos(f, n) = C(T, n) - C(U, n) /\ Lazos(f, n + 1) = C(T, n + 1) - C(U, n + 1)
  BY <1>1, <1>5
<1>7. Lazos(f, 0) = C(T, 0) - C(U, 0)
  BY <1>1, <1>5
<1>8. (n + 1 \in T <=> EsAbre(f[n + 1])) /\ (n + 1 \in U <=> EsCierra(f[n + 1]))
  BY <1>5
<1> HIDE DEF T, U, C
<1> QED BY <1>2, <1>3, <1>4, <1>6, <1>7, <1>8

\* A stretch of a source has as many bars as dots if the counts at its ends agree.
LEMMA Cerrados ==
    ASSUME NEW b \in Nat, NEW a \in 1..b+1
    PROVE  /\ IfsCerrados(a, b) <=> Ifs(src, b) = Ifs(src, a - 1)
           /\ LazosCerrados(a, b) <=> Lazos(src, b) = Lazos(src, a - 1)
<1> DEFINE C(S, m) == Cardinality({k \in 1..m : k \in S})
           E(S) == Cardinality({k \in a..b : k \in S})
<1>1. PICK f : f = src
  OBVIOUS
<1>2. ASSUME NEW S PROVE C(S, b) \in Nat /\ C(S, a - 1) \in Nat /\ E(S) = C(S, b) - C(S, a - 1)
  BY CuentaTramo
<1>3. IfsCerrados(a, b) <=> Ifs(f, b) = Ifs(f, a - 1)
  <2> DEFINE T == {k \in Nat : UltimaBarra(f[k])}
             U == {k \in Nat : EsPunto(f[k])}
  <2>1. Cuantos(a, b, UltimaBarra) = E(T)
    <3>1. {k \in a..b : UltimaBarra(f[k])} = {k \in a..b : k \in T}
      OBVIOUS
    <3> QED BY <1>1, <3>1 DEF Cuantos
  <2>2. Cuantos(a, b, EsPunto) = E(U)
    <3>1. {k \in a..b : EsPunto(f[k])} = {k \in a..b : k \in U}
      OBVIOUS
    <3> QED BY <1>1, <3>1 DEF Cuantos
  <2>3. ASSUME NEW m \in Nat PROVE Ifs(f, m) = C(T, m) - C(U, m)
    <3>1. {k \in 1..m : UltimaBarra(f[k])} = {k \in 1..m : k \in T}
      OBVIOUS
    <3>2. {k \in 1..m : EsPunto(f[k])} = {k \in 1..m : k \in U}
      OBVIOUS
    <3> QED BY <3>1, <3>2 DEF Ifs
  <2>4. /\ C(T, b) \in Nat /\ C(T, a - 1) \in Nat /\ E(T) = C(T, b) - C(T, a - 1)
        /\ C(U, b) \in Nat /\ C(U, a - 1) \in Nat /\ E(U) = C(U, b) - C(U, a - 1)
    BY <1>2
  <2>5. Ifs(f, b) = C(T, b) - C(U, b) /\ Ifs(f, a - 1) = C(T, a - 1) - C(U, a - 1)
    BY <2>3
  <2>6. IfsCerrados(a, b) <=> E(T) = E(U)
    BY <2>1, <2>2 DEF IfsCerrados
  <2> HIDE DEF T, U, C, E
  <2> QED BY <2>4, <2>5, <2>6
<1>4. LazosCerrados(a, b) <=> Lazos(f, b) = Lazos(f, a - 1)
  <2> DEFINE T == {k \in Nat : EsAbre(f[k])}
             U == {k \in Nat : EsCierra(f[k])}
  <2>1. Cuantos(a, b, EsAbre) = E(T)
    <3>1. {k \in a..b : EsAbre(f[k])} = {k \in a..b : k \in T}
      OBVIOUS
    <3> QED BY <1>1, <3>1 DEF Cuantos
  <2>2. Cuantos(a, b, EsCierra) = E(U)
    <3>1. {k \in a..b : EsCierra(f[k])} = {k \in a..b : k \in U}
      OBVIOUS
    <3> QED BY <1>1, <3>1 DEF Cuantos
  <2>3. ASSUME NEW m \in Nat PROVE Lazos(f, m) = C(T, m) - C(U, m)
    <3>1. {k \in 1..m : EsAbre(f[k])} = {k \in 1..m : k \in T}
      OBVIOUS
    <3>2. {k \in 1..m : EsCierra(f[k])} = {k \in 1..m : k \in U}
      OBVIOUS
    <3> QED BY <3>1, <3>2 DEF Lazos
  <2>4. /\ C(T, b) \in Nat /\ C(T, a - 1) \in Nat /\ E(T) = C(T, b) - C(T, a - 1)
        /\ C(U, b) \in Nat /\ C(U, a - 1) \in Nat /\ E(U) = C(U, b) - C(U, a - 1)
    BY <1>2
  <2>5. Lazos(f, b) = C(T, b) - C(U, b) /\ Lazos(f, a - 1) = C(T, a - 1) - C(U, a - 1)
    BY <2>3
  <2>6. LazosCerrados(a, b) <=> E(T) = E(U)
    BY <2>1, <2>2 DEF LazosCerrados
  <2> HIDE DEF T, U, C, E
  <2> QED BY <2>4, <2>5, <2>6
<1> QED BY <1>1, <1>3, <1>4

-----------------------------------------------------------------------------
(* Tokens *)

\* What a token of a source may be.
EsFinal(q) == q.op = "}"
\* A source that is well written has each token as BienEscrita says.
LEMMA Escrita ==
    ASSUME NEW f, BienEscrita(f)
    PROVE  /\ Len(f) \in Nat \ {0} /\ DOMAIN f = 1..Len(f)
           /\ Ifs(f, Len(f)) = 0 /\ Lazos(f, Len(f)) = 0
           /\ \A k \in 1..Len(f) :
                /\ f[k].d \in Seq(STRING)
                /\ EsFinal(f[k]) <=> k = Len(f)
                /\ f[k].op = "y" => Len(f[k].d) = 2 \/ f[k].d = <<"|">>
                /\ \A j \in DOMAIN f[k].d : f[k].d[j] = "|" =>
                       Len(f[k].d) = 1 /\ f[k].op \in MiraBarra \cup {"y"}
                /\ f[k].op = "|" \/ EsPunto(f[k]) => Ifs(f, k - 1) > 0
                /\ EsCierra(f[k]) => Lazos(f, k - 1) > 0
                /\ \A j \in DOMAIN f[k].d : f[k].d[j] \in {"+", "-"} => Lazos(f, k - 1) > 0
<1>1. f # <<>> /\ DOMAIN f = 1..Len(f) /\ Ifs(f, Len(f)) = 0 /\ Lazos(f, Len(f)) = 0
  BY Zenon DEF BienEscrita
<1>2. ASSUME NEW k \in 1..Len(f)
      PROVE  /\ f[k].d \in Seq(STRING)
             /\ EsFinal(f[k]) <=> k = Len(f)
             /\ f[k].op = "y" => Len(f[k].d) = 2 \/ f[k].d = <<"|">>
             /\ \A j \in DOMAIN f[k].d : f[k].d[j] = "|" =>
                    Len(f[k].d) = 1 /\ f[k].op \in MiraBarra \cup {"y"}
             /\ f[k].op = "|" \/ EsPunto(f[k]) => Ifs(f, k - 1) > 0
             /\ EsCierra(f[k]) => Lazos(f, k - 1) > 0
             /\ \A j \in DOMAIN f[k].d : f[k].d[j] \in {"+", "-"} => Lazos(f, k - 1) > 0
  BY <1>1, Zenon DEF BienEscrita, EsFinal, EsPunto, EsCierra
<1>3. Len(f) \in Nat \ {0}
  BY <1>1
<1> QED BY <1>1, <1>2, <1>3

\* How many instructions each token of it makes.
LEMMA Ficha ==
    ASSUME NEW f, BienEscrita(f), NEW k \in 1..Len(f)
    PROVE  /\ f[k].d \in Seq(STRING)
           /\ UltimaBarra(f[k]) => Apunta(f, k) /\ Len(f[k].d) = 1 /\ f[k].d[1] = "|"
                                   /\ f[k].op \in MiraBarra \cup {"y"}
           /\ ~ UltimaBarra(f[k]) => \A j \in DOMAIN f[k].d : f[k].d[j] # "|"
           /\ Apunta(f, k) => /\ ~ EsPunto(f[k]) /\ ~ EsAbre(f[k]) /\ ~ EsCierra(f[k]) /\ f[k].op # "|"
                              /\ Cuantas(f[k]) = IF UltimaBarra(f[k]) /\ f[k].op # "y" THEN 2 ELSE 1
           /\ f[k].op = "|" => /\ ~ EsPunto(f[k]) /\ ~ EsAbre(f[k]) /\ ~ EsCierra(f[k])
                               /\ Cuantas(f[k]) = 1
           /\ EsCierra(f[k]) => /\ ~ EsPunto(f[k]) /\ ~ EsAbre(f[k]) /\ Cuantas(f[k]) = 1
           /\ EsPunto(f[k]) => ~ EsAbre(f[k])
           /\ f[k].op \in SinInstruccion => Cuantas(f[k]) = 0 /\ ~ Apunta(f, k) /\ f[k].op # "|"
                                            /\ ~ EsCierra(f[k])
           /\ EsPunto(f[k]) \/ EsAbre(f[k]) => f[k].op \in SinInstruccion
           /\ f[k].op \in SinInstruccion \/ f[k].op = "|" \/ EsCierra(f[k]) \/ Apunta(f, k)
           /\ Cuantas(f[k]) \in Nat
<1> DEFINE q == f[k]
<1>1. /\ q.d \in Seq(STRING)
      /\ \A j \in DOMAIN q.d : q.d[j] = "|" => Len(q.d) = 1 /\ q.op \in MiraBarra \cup {"y"}
  BY Escrita
<1>2. ASSUME UltimaBarra(q)
      PROVE  Len(q.d) = 1 /\ q.d[1] = "|" /\ q.op \in MiraBarra \cup {"y"}
  <2>1. Len(q.d) \in DOMAIN q.d
    BY <1>1, <1>2 DEF UltimaBarra
  <2> QED BY <1>1, <1>2, <2>1 DEF UltimaBarra
<1>3. ASSUME ~ UltimaBarra(q), NEW j \in DOMAIN q.d PROVE q.d[j] # "|"
  BY <1>1, <1>3 DEF UltimaBarra
<1>4. q.op \in MiraBarra \cup {"y"} => q.op \notin SinInstruccion \cup {"|", ")"}
  BY Zenon DEF MiraBarra, SinInstruccion
<1>5. q.op = "|" \/ q.op = ")" => q.op \notin SinInstruccion /\ q.op \notin MiraBarra
  BY Zenon DEF MiraBarra, SinInstruccion
<1>6. Apunta(f, k) <=> q.op \notin SinInstruccion /\ q.op # "|" /\ q.op # ")"
  BY Zenon DEF Apunta
<1>7. EsPunto(q) \/ EsAbre(q) => q.op \in SinInstruccion
  BY Zenon DEF SinInstruccion, EsPunto, EsAbre
<1>8. EsPunto(q) => ~ EsAbre(q) /\ ~ EsCierra(q)
  BY Zenon DEF EsPunto, EsAbre, EsCierra
<1>9. EsCierra(q) <=> q.op = ")"
  BY DEF EsCierra
<1>10. "y" \notin MiraBarra
  BY Zenon DEF MiraBarra
<1>11. Cuantas(q) = IF q.op \in SinInstruccion THEN 0
                    ELSE IF q.op \in MiraBarra /\ UltimaBarra(q) THEN 2 ELSE 1
  BY Zenon DEF Cuantas
<1>12. UltimaBarra(q) => Apunta(f, k) /\ Len(q.d) = 1 /\ q.d[1] = "|" /\ q.op \in MiraBarra \cup {"y"}
  BY <1>2, <1>4, <1>6
<1>13. q.op \in MiraBarra /\ UltimaBarra(q) <=> UltimaBarra(q) /\ q.op # "y"
  BY <1>10, <1>12
<1> HIDE DEF q
<1>14. Apunta(f, k) => /\ ~ EsPunto(q) /\ ~ EsAbre(q) /\ ~ EsCierra(q) /\ q.op # "|"
                       /\ Cuantas(q) = IF UltimaBarra(q) /\ q.op # "y" THEN 2 ELSE 1
  BY <1>6, <1>7, <1>9, <1>11, <1>13
<1>15. q.op = "|" => ~ EsPunto(q) /\ ~ EsAbre(q) /\ ~ EsCierra(q) /\ Cuantas(q) = 1
  BY <1>5, <1>7, <1>9, <1>11
<1>16. EsCierra(q) => ~ EsPunto(q) /\ ~ EsAbre(q) /\ Cuantas(q) = 1
  BY <1>5, <1>7, <1>9, <1>11
<1>17. q.op \in SinInstruccion => /\ Cuantas(q) = 0 /\ ~ Apunta(f, k) /\ q.op # "|" /\ ~ EsCierra(q)
  BY <1>5, <1>6, <1>9, <1>11
<1>18. Cuantas(q) \in Nat
  BY <1>11
<1>19. q.op \in SinInstruccion \/ q.op = "|" \/ EsCierra(q) \/ Apunta(f, k)
  BY <1>6, <1>9
<1> QED BY <1>1, <1>3, <1>7, <1>8, <1>12, <1>14, <1>15, <1>16, <1>17, <1>18, <1>19, Zenon DEF q

\* What a token does to the counts.
LEMMA Niveles ==
    ASSUME NEW f, BienEscrita(f), NEW n \in 0..Len(f)-1
    PROVE  /\ Ifs(f, n) \in Int /\ Ifs(f, n + 1) \in Int
           /\ UltimaBarra(f[n + 1]) => Ifs(f, n + 1) = Ifs(f, n) + 1
           /\ EsPunto(f[n + 1]) => Ifs(f, n + 1) = Ifs(f, n) - 1 /\ Ifs(f, n) > 0
           /\ f[n + 1].op = "|" => Ifs(f, n + 1) = Ifs(f, n) /\ Ifs(f, n) > 0
           /\ ~ UltimaBarra(f[n + 1]) /\ ~ EsPunto(f[n + 1]) => Ifs(f, n + 1) = Ifs(f, n)
           /\ Lazos(f, n) \in Int /\ Lazos(f, n + 1) \in Int
           /\ EsAbre(f[n + 1]) => Lazos(f, n + 1) = Lazos(f, n) + 1
           /\ EsCierra(f[n + 1]) => Lazos(f, n + 1) = Lazos(f, n) - 1 /\ Lazos(f, n) > 0
           /\ ~ EsAbre(f[n + 1]) /\ ~ EsCierra(f[n + 1]) => Lazos(f, n + 1) = Lazos(f, n)
           /\ \A j \in DOMAIN f[n + 1].d : f[n + 1].d[j] \in {"+", "-"} => Lazos(f, n) > 0
<1>1. Len(f) \in Nat
  BY Escrita
<1>2. n \in Nat /\ n + 1 \in 1..Len(f) /\ n + 1 \in Nat /\ (n + 1) - 1 = n
  BY <1>1
<1>3. PICK k : k = n + 1
  OBVIOUS
<1>4. k \in 1..Len(f) /\ k - 1 = n
  BY <1>2, <1>3
<1>5. /\ f[k].op = "|" \/ EsPunto(f[k]) => Ifs(f, n) > 0
      /\ EsCierra(f[k]) => Lazos(f, n) > 0
      /\ \A j \in DOMAIN f[k].d : f[k].d[j] \in {"+", "-"} => Lazos(f, n) > 0
  BY <1>4, Escrita
<1>6. /\ UltimaBarra(f[k]) => ~ EsPunto(f[k]) /\ f[k].op # "|"
      /\ f[k].op = "|" => ~ EsPunto(f[k])
      /\ EsCierra(f[k]) => ~ EsAbre(f[k])
  BY <1>4, Ficha
<1>7. /\ Ifs(f, n) \in Int /\ Ifs(f, k) \in Int
      /\ Ifs(f, k) = Ifs(f, n) + (IF UltimaBarra(f[k]) THEN 1 ELSE 0) - (IF EsPunto(f[k]) THEN 1 ELSE 0)
  BY <1>2, <1>3, IfsMas
<1>8. /\ Lazos(f, n) \in Int /\ Lazos(f, k) \in Int
      /\ Lazos(f, k) = Lazos(f, n) + (IF EsAbre(f[k]) THEN 1 ELSE 0) - (IF EsCierra(f[k]) THEN 1 ELSE 0)
  BY <1>2, <1>3, LazosMas
<1>9. f[k].op = "|" => ~ UltimaBarra(f[k])
  BY <1>6
<1> QED BY <1>3, <1>5, <1>6, <1>7, <1>8, <1>9

-----------------------------------------------------------------------------
(* Places in the object *)

\* Each token has instructions of its own.
LEMMA Propios ==
    ASSUME NEW f, NEW c, NEW n \in Nat, Contado(f, c, n), NEW k1 \in 1..n, NEW k2 \in 1..n,
           Cuantas(f[k1]) \in Nat, Cuantas(f[k2]) \in Nat,
           NEW e1 \in Nat, NEW e2 \in Nat, e1 < Cuantas(f[k1]), e2 < Cuantas(f[k2]),
           c[k1] + e1 = c[k2] + e2
    PROVE  k1 = k2 /\ e1 = e2
<1>0. c \in Seq(Nat) /\ Len(c) = n
  BY DEF Contado
<1>1. c[k1] \in Nat /\ c[k2] \in Nat
  BY <1>0
<1>2. k1 < k2 => c[k1] + Cuantas(f[k1]) <= c[k2]
  BY DEF Contado, FinDe
<1>3. k2 < k1 => c[k2] + Cuantas(f[k2]) <= c[k1]
  BY DEF Contado, FinDe
<1> QED BY <1>1, <1>2, <1>3

\* And so have their jumps places of their own.
LEMMA LugarDeRama ==
    ASSUME NEW f, BienEscrita(f), NEW c, NEW k \in 1..Len(f), EsRama(f, k), c[k] \in Nat
    PROVE  \E e1 \in Nat : \E i \in 1..2 :
              /\ Brinco(f, c, k) = <<c[k] + e1, i>> /\ e1 < Cuantas(f[k])
              /\ Apunta(f, k) /\ e1 = 0 => i = 2 /\ DOMAIN f[k].d = 1..1
              /\ f[k].op = "y" => Brinco(f, c, k) = <<c[k], 2>>
<1>1. CASE f[k].op = "|"
  <2>1. Brinco(f, c, k) = <<c[k], 1>> /\ Cuantas(f[k]) = 1 /\ ~ Apunta(f, k)
    BY <1>1, Ficha DEF Brinco, Apunta
  <2>2. c[k] + 0 = c[k] /\ 0 \in Nat /\ 1 \in 1..2 /\ 0 < 1 /\ f[k].op # "y"
    BY <1>1
  <2>3. Brinco(f, c, k) = <<c[k] + 0, 1>> /\ 0 < Cuantas(f[k])
    BY <2>1, <2>2
  <2> QED BY <2>1, <2>2, <2>3, Zenon
<1>2. CASE UltimaBarra(f[k]) /\ f[k].op = "y"
  <2>1. Brinco(f, c, k) = <<c[k], 2>> /\ Cuantas(f[k]) = 1 /\ DOMAIN f[k].d = 1..1
    BY <1>2, Ficha DEF Brinco
  <2> QED BY <1>2, <2>1
<1>3. CASE UltimaBarra(f[k]) /\ f[k].op # "y"
  <2>1. Brinco(f, c, k) = <<c[k] + 1, 1>> /\ Cuantas(f[k]) = 2
    BY <1>3, Ficha DEF Brinco
  <2> QED BY <1>3, <2>1
<1> QED BY <1>1, <1>2, <1>3 DEF EsRama

\* No two jumps, nor a jump and a target, have the same place.
LEMMA Distintos ==
    ASSUME NEW f, BienEscrita(f), NEW c, Contado(f, c, Len(f)), NEW k1 \in 1..Len(f), NEW k2 \in 1..Len(f)
    PROVE  /\ EsRama(f, k1) /\ EsRama(f, k2) /\ Brinco(f, c, k1) = Brinco(f, c, k2) => k1 = k2
           /\ \A j \in DOMAIN f[k2].d :
                  EsRama(f, k1) /\ Apunta(f, k2) => Brinco(f, c, k1) # <<c[k2], j>>
           /\ EsRama(f, k1) /\ EsCierra(f[k2]) => Brinco(f, c, k1) # <<c[k2], 1>>
           /\ \A j1, j2 : Apunta(f, k1) /\ Apunta(f, k2) /\ <<c[k1], j1>> = <<c[k2], j2>>
                             => k1 = k2 /\ j1 = j2
           /\ \A j1, j2 : Apunta(f, k1) /\ EsCierra(f[k2]) => <<c[k1], j1>> # <<c[k2], j2>>
<1>1. Len(f) \in Nat
  BY Escrita
<1>2. c \in Seq(Nat) /\ Len(c) = Len(f)
  BY DEF Contado
<1>3. c[k1] \in Nat /\ c[k2] \in Nat
  BY <1>2
<1>4. Cuantas(f[k1]) \in Nat /\ Cuantas(f[k2]) \in Nat
  BY Ficha
<1>5. ASSUME NEW x1 \in Nat, NEW x2 \in Nat, x1 < Cuantas(f[k1]), x2 < Cuantas(f[k2]),
             c[k1] + x1 = c[k2] + x2
      PROVE  k1 = k2 /\ x1 = x2
  BY <1>1, <1>4, <1>5, Propios
<1>6. /\ Apunta(f, k1) \/ EsCierra(f[k1]) => 0 < Cuantas(f[k1])
      /\ Apunta(f, k2) \/ EsCierra(f[k2]) => 0 < Cuantas(f[k2])
      /\ Apunta(f, k1) => ~ EsCierra(f[k1])
      /\ UltimaBarra(f[k1]) \/ f[k1].op = "|" => ~ EsCierra(f[k1])
  BY Ficha
<1>7. c[k1] + 0 = c[k1] /\ c[k2] + 0 = c[k2]
  BY <1>3
<1>8. ASSUME EsRama(f, k1), EsRama(f, k2), Brinco(f, c, k1) = Brinco(f, c, k2) PROVE k1 = k2
  <2>1. PICK x1 \in Nat, i1 \in 1..2 : Brinco(f, c, k1) = <<c[k1] + x1, i1>> /\ x1 < Cuantas(f[k1])
    BY <1>3, <1>8, LugarDeRama
  <2>2. PICK x2 \in Nat, i2 \in 1..2 : Brinco(f, c, k2) = <<c[k2] + x2, i2>> /\ x2 < Cuantas(f[k2])
    BY <1>3, <1>8, LugarDeRama
  <2>3. PICK y1, y2 : y1 = c[k1] + x1 /\ y2 = c[k2] + x2
    OBVIOUS
  <2>4. <<y1, i1>> = <<y2, i2>>
    BY <1>8, <2>1, <2>2, <2>3
  <2>5. c[k1] + x1 = c[k2] + x2
    BY <2>3, <2>4
  <2> QED BY <1>5, <2>1, <2>2, <2>5
<1>9. ASSUME EsRama(f, k1), Apunta(f, k2), NEW j \in DOMAIN f[k2].d, Brinco(f, c, k1) = <<c[k2], j>>
      PROVE  FALSE
  <2>1. PICK x1 \in Nat, i1 \in 1..2 :
            /\ Brinco(f, c, k1) = <<c[k1] + x1, i1>> /\ x1 < Cuantas(f[k1])
            /\ Apunta(f, k1) /\ x1 = 0 => i1 = 2 /\ DOMAIN f[k1].d = 1..1
    BY <1>3, <1>9, LugarDeRama
  <2>2. c[k1] + x1 = c[k2] + 0 /\ i1 = j
    BY <1>7, <1>9, <2>1
  <2>3. k1 = k2 /\ x1 = 0
    BY <1>5, <1>6, <1>9, <2>1, <2>2
  <2> QED BY <1>9, <2>1, <2>2, <2>3
<1>10. ASSUME EsRama(f, k1), EsCierra(f[k2]), Brinco(f, c, k1) = <<c[k2], 1>> PROVE FALSE
  <2>1. PICK x1 \in Nat, i1 \in 1..2 : Brinco(f, c, k1) = <<c[k1] + x1, i1>> /\ x1 < Cuantas(f[k1])
    BY <1>3, <1>10, LugarDeRama
  <2>2. c[k1] + x1 = c[k2] + 0
    BY <1>7, <1>10, <2>1
  <2>3. k1 = k2
    BY <1>5, <1>6, <1>10, <2>1, <2>2
  <2> QED BY <1>6, <1>10, <2>3 DEF EsRama
<1>11. ASSUME NEW j1, NEW j2, Apunta(f, k1), <<c[k1], j1>> = <<c[k2], j2>>, Apunta(f, k2) \/ EsCierra(f[k2])
       PROVE  k1 = k2 /\ j1 = j2 /\ Apunta(f, k2)
  <2>1. c[k1] + 0 = c[k2] + 0 /\ j1 = j2
    BY <1>7, <1>11
  <2>2. k1 = k2
    BY <1>5, <1>6, <1>11, <2>1
  <2> QED BY <1>11, <2>1, <2>2
<1>12. \A j1, j2 : Apunta(f, k1) /\ EsCierra(f[k2]) => <<c[k1], j1>> # <<c[k2], j2>>
  BY <1>6, <1>11
<1>13. \A j1, j2 : Apunta(f, k1) /\ Apunta(f, k2) /\ <<c[k1], j1>> = <<c[k2], j2>> => k1 = k2 /\ j1 = j2
  BY <1>11
<1> QED BY <1>8, <1>9, <1>10, <1>12, <1>13

\* What is changed in an object: v is put at the places in P, and more may come after.
Cambia(o, o2, P, v) ==
    /\ EsObjeto(o2) /\ Len(o2) >= Len(o)
    /\ \A q \in 1..Len(o) :
          /\ o2[q].op = o[q].op /\ DOMAIN o2[q].a = DOMAIN o[q].a
          /\ Una(o[q].a) => Una(o2[q].a)
          /\ \A j \in DOMAIN o[q].a : o2[q].a[j] = IF <<q - 1, j>> \in P THEN v ELSE o[q].a[j]

\* One instruction more changes nothing of the others.
LEMMA ObjetoMas ==
    ASSUME NEW o, EsObjeto(o), NEW u, NEW w, NEW z, NEW P, NEW v,
           \A q \in 1..Len(o) : \A j \in DOMAIN o[q].a : <<q - 1, j>> \notin P
    PROVE  LET o2 == Append(o, Ins(u, w, z))
           IN  /\ Cambia(o, o2, P, v) /\ Len(o2) = Len(o) + 1
               /\ o2[Len(o) + 1].op = u /\ o2[Len(o) + 1].a = w
<1> DEFINE x == Ins(u, w, z)
           o2 == Append(o, x)
<1>1. PICK S : o \in Seq(S)
  BY DEF EsObjeto, EsSeq
<1>2. o \in Seq(S \cup {x}) /\ x \in S \cup {x} /\ Len(o) \in Nat
  BY <1>1
<1> HIDE DEF x
<1>3. /\ o2 \in Seq(S \cup {x}) /\ Len(o2) = Len(o) + 1 /\ o2[Len(o) + 1] = x
      /\ \A q \in 1..Len(o) : o2[q] = o[q]
  BY <1>2
<1>4. \A q \in 1..Len(o2) : \E u1, w1, z1 : o2[q] = Ins(u1, w1, z1)
  <2>1. ASSUME NEW q \in 1..Len(o2) PROVE \E u1, w1, z1 : o2[q] = Ins(u1, w1, z1)
    <3>1. CASE q \in 1..Len(o)
      BY <1>3, <3>1 DEF EsObjeto
    <3>2. CASE q = Len(o) + 1
      <4>1. o2[q] = Ins(u, w, z)
        BY <1>3, <3>2 DEF x
      <4> QED BY <4>1
    <3> QED BY <1>2, <1>3, <3>1, <3>2
  <2> QED BY <2>1
<1>5. EsObjeto(o2)
  <2>1. EsSeq(o2)
    BY <1>3, Zenon DEF EsSeq
  <2> QED BY <1>4, <2>1 DEF EsObjeto
<1>6. x.op = u /\ x.a = w
  BY DEF x, Ins
<1>7. Len(o2) >= Len(o)
  BY <1>2, <1>3
<1>8. \A q \in 1..Len(o) : o2[q].op = o[q].op /\ o2[q].a = o[q].a
  BY <1>3
<1>9. Cambia(o, o2, P, v)
  BY <1>5, <1>7, <1>8 DEF Cambia
<1> QED BY <1>3, <1>6, <1>9 DEF x

Agrega(o, o2, u, w) ==
    /\ Cambia(o, o2, {}, 0) /\ Len(o2) = Len(o) + 1
    /\ o2[Len(o) + 1].op = u /\ o2[Len(o) + 1].a = w
\* An instruction more changes no target of the others.
LEMMA Agregado ==
    ASSUME NEW o, EsObjeto(o), NEW u, NEW w, NEW z, NEW o2, o2 = Append(o, Ins(u, w, z))
    PROVE  Agrega(o, o2, u, w)
<1>1. \A q \in 1..Len(o) : \A j \in DOMAIN o[q].a : <<q - 1, j>> \notin {}
  OBVIOUS
<1> QED BY <1>1, ObjetoMas DEF Agrega

\* Filling places changes the targets at them only.
LEMMA ObjetoLleno ==
    ASSUME NEW o, EsObjeto(o), NEW P, NEW v
    PROVE  Cambia(o, Llena(o, P, v), P, v) /\ Len(Llena(o, P, v)) = Len(o)
<1> DEFINE A(q) == [j \in DOMAIN o[q].a |-> IF <<q - 1, j>> \in P THEN v ELSE o[q].a[j]]
           o2 == [q \in 1..Len(o) |-> Ins(o[q].op, A(q), o[q].x)]
           S == {Ins(o[q].op, A(q), o[q].x) : q \in 1..Len(o)}
<1>1. PICK S1 : o \in Seq(S1)
  BY DEF EsObjeto, EsSeq
<1>2. Len(o) \in Nat /\ DOMAIN o = 1..Len(o)
  BY <1>1
<1>3. ASSUME NEW q \in 1..Len(o) PROVE [o[q] EXCEPT !.a = A(q)] = Ins(o[q].op, A(q), o[q].x)
  <2>1. PICK u, w, z : o[q] = Ins(u, w, z)
    BY DEF EsObjeto
  <2>2. PICK B : B = A(q)
    OBVIOUS
  <2>3. [Ins(u, w, z) EXCEPT !.a = B] = Ins(u, B, z) /\ Ins(u, w, z).op = u /\ Ins(u, w, z).x = z
    BY DEF Ins
  <2> QED BY <2>1, <2>2, <2>3
<1>4. Llena(o, P, v) = [q \in DOMAIN o |-> [o[q] EXCEPT !.a = A(q)]]
  BY DEF Llena
<1>5. Llena(o, P, v) = o2
  BY <1>2, <1>3, <1>4
<1>6. o2 \in Seq(S) /\ Len(o2) = Len(o)
  <2>1. o2 \in [1..Len(o) -> S]
    OBVIOUS
  <2> HIDE DEF o2, S
  <2> QED BY <1>2, <2>1
<1>7. \A q \in 1..Len(o) : o2[q] = Ins(o[q].op, A(q), o[q].x)
  OBVIOUS
<1> HIDE DEF o2
<1>8. EsObjeto(o2)
  <2>1. EsSeq(o2)
    BY <1>6, Zenon DEF EsSeq
  <2>2. \A q \in 1..Len(o2) : \E u, w, z : o2[q] = Ins(u, w, z)
    BY <1>6, <1>7, Zenon
  <2> QED BY <2>1, <2>2 DEF EsObjeto
<1>9. ASSUME NEW q \in 1..Len(o)
      PROVE  /\ o2[q].op = o[q].op /\ DOMAIN o2[q].a = DOMAIN o[q].a
             /\ Una(o[q].a) => Una(o2[q].a)
             /\ \A j \in DOMAIN o[q].a : o2[q].a[j] = IF <<q - 1, j>> \in P THEN v ELSE o[q].a[j]
  <2>1. PICK B : B = A(q)
    OBVIOUS
  <2>2. o2[q] = Ins(o[q].op, B, o[q].x)
    BY <1>7, <2>1
  <2>3. o2[q].op = o[q].op /\ o2[q].a = B
    BY <2>2 DEF Ins
  <2>4. ASSUME NEW x, o[q].a = <<x>> PROVE \E y : B = <<y>>
    <3>1. PICK y : y = IF <<q - 1, 1>> \in P THEN v ELSE x
      OBVIOUS
    <3>2. DOMAIN <<x>> = 1..1 /\ DOMAIN <<x>> = {1} /\ <<x>>[1] = x
      OBVIOUS
    <3>3. B = [j \in {1} |-> y]
      BY <2>1, <2>4, <3>1, <3>2
    <3>4. [j \in {1} |-> y] = <<y>>
      OBVIOUS
    <3> QED BY <3>3, <3>4
  <2>5. Una(o[q].a) => Una(B)
    BY <2>4, Zenon DEF Una
  <2> QED BY <2>1, <2>3, <2>5
<1>10. Len(o2) >= Len(o)
  BY <1>2, <1>6
<1>11. Cambia(o, o2, P, v)
  BY <1>8, <1>9, <1>10, Zenon DEF Cambia
<1> QED BY <1>5, <1>6, <1>11

\* One change after the other.
LEMMA CambiaDos ==
    ASSUME NEW o, NEW o2, NEW o3, EsObjeto(o), NEW P, NEW Q, NEW v, NEW w, Cambia(o, o2, P, v), Cambia(o2, o3, Q, w),
           \A q \in 1..Len(o) : \A j \in DOMAIN o[q].a : <<q - 1, j>> \notin Q
    PROVE  Cambia(o, o3, P, v)
<1>1. Len(o) \in Nat /\ Len(o2) \in Nat /\ Len(o3) \in Nat
  BY DEF EsObjeto, EsSeq, Cambia
<1>2. EsObjeto(o3) /\ Len(o3) >= Len(o)
  BY <1>1 DEF Cambia
<1>3. ASSUME NEW q \in 1..Len(o)
      PROVE  /\ o3[q].op = o[q].op /\ DOMAIN o3[q].a = DOMAIN o[q].a
             /\ Una(o[q].a) => Una(o3[q].a)
             /\ \A j \in DOMAIN o[q].a : o3[q].a[j] = IF <<q - 1, j>> \in P THEN v ELSE o[q].a[j]
  <2>1. q \in 1..Len(o2)
    BY <1>1 DEF Cambia
  <2>2. /\ o2[q].op = o[q].op /\ DOMAIN o2[q].a = DOMAIN o[q].a
        /\ Una(o[q].a) => Una(o2[q].a)
        /\ \A j \in DOMAIN o[q].a : o2[q].a[j] = IF <<q - 1, j>> \in P THEN v ELSE o[q].a[j]
    BY DEF Cambia
  <2>3. /\ o3[q].op = o2[q].op /\ DOMAIN o3[q].a = DOMAIN o2[q].a
        /\ Una(o2[q].a) => Una(o3[q].a)
        /\ \A j \in DOMAIN o2[q].a : o3[q].a[j] = IF <<q - 1, j>> \in Q THEN w ELSE o2[q].a[j]
    BY <2>1 DEF Cambia
  <2> QED BY <2>2, <2>3
<1> QED BY <1>2, <1>3, Zenon DEF Cambia

\* A change after one that only added.
LEMMA CambiaLuego ==
    ASSUME NEW o, NEW o2, NEW o3, EsObjeto(o), NEW P, NEW v, NEW w, Cambia(o, o2, {}, w), Cambia(o2, o3, P, v)
    PROVE  Cambia(o, o3, P, v)
<1>1. Len(o) \in Nat /\ Len(o2) \in Nat /\ Len(o3) \in Nat
  BY DEF EsObjeto, EsSeq, Cambia
<1>2. EsObjeto(o3) /\ Len(o3) >= Len(o)
  BY <1>1 DEF Cambia
<1>3. ASSUME NEW q \in 1..Len(o)
      PROVE  /\ o3[q].op = o[q].op /\ DOMAIN o3[q].a = DOMAIN o[q].a
             /\ Una(o[q].a) => Una(o3[q].a)
             /\ \A j \in DOMAIN o[q].a : o3[q].a[j] = IF <<q - 1, j>> \in P THEN v ELSE o[q].a[j]
  <2>1. q \in 1..Len(o2)
    BY <1>1 DEF Cambia
  <2>2. /\ o2[q].op = o[q].op /\ DOMAIN o2[q].a = DOMAIN o[q].a
        /\ Una(o[q].a) => Una(o2[q].a)
        /\ \A j \in DOMAIN o[q].a : o2[q].a[j] = o[q].a[j]
    BY DEF Cambia
  <2>3. /\ o3[q].op = o2[q].op /\ DOMAIN o3[q].a = DOMAIN o2[q].a
        /\ Una(o2[q].a) => Una(o3[q].a)
        /\ \A j \in DOMAIN o2[q].a : o3[q].a[j] = IF <<q - 1, j>> \in P THEN v ELSE o2[q].a[j]
    BY <2>1 DEF Cambia
  <2> QED BY <2>2, <2>3
<1> QED BY <1>2, <1>3, Zenon DEF Cambia

-----------------------------------------------------------------------------
(* Branches and loops, one token further *)

\* An open branch goes on, or ends; it has not ended before.
LEMMA RamaSigue ==
    ASSUME NEW f, BienEscrita(f), NEW n \in 0..Len(f)-1, NEW k \in 1..n, NEW m, RamaAbierta(f, n, k, m)
    PROVE  /\ Ifs(f, n + 1) >= m /\ ~ (f[n + 1].op = "|" /\ Ifs(f, n) = m) => RamaAbierta(f, n + 1, k, m)
           /\ Ifs(f, n) = m /\ (f[n + 1].op = "|" \/ EsPunto(f[n + 1])) => FinDeRama(f, k, n + 1)
           /\ \A j \in k+1..n : ~ FinDeRama(f, k, j)
           /\ m <= Ifs(f, n) /\ m \in Int
<1>1. Len(f) \in Nat
  BY Escrita
<1>2. /\ EsRama(f, k) /\ Ifs(f, k) = m
      /\ \A i \in k..n : Ifs(f, i) >= m
      /\ \A i \in k+1..n : ~ (f[i].op = "|" /\ Ifs(f, i - 1) = m)
  BY DEF RamaAbierta
<1>3. Ifs(f, k) \in Int
  BY IfsMas
<1>4. ASSUME NEW i \in k+1..n, f[i].op \in {"|", "."}, Ifs(f, i - 1) = m PROVE FALSE
  <2>1. f[i].op = "."
    BY <1>2, <1>4
  <2>2. PICK h \in 0..Len(f)-1 : h = i - 1 /\ h + 1 = i
    BY <1>1
  <2>3. Ifs(f, h + 1) = Ifs(f, h) - 1 /\ Ifs(f, h) \in Int
    BY <2>1, <2>2, Niveles DEF EsPunto
  <2>4. Ifs(f, i) >= m
    BY <1>2
  <2> QED BY <1>3, <1>4, <2>2, <2>3, <2>4
<1>5. ASSUME Ifs(f, n + 1) >= m, ~ (f[n + 1].op = "|" /\ Ifs(f, n) = m) PROVE RamaAbierta(f, n + 1, k, m)
  <2>1. ASSUME NEW i \in k..n+1 PROVE Ifs(f, i) >= m
    BY <1>2, <1>5
  <2>2. ASSUME NEW i \in k+1..n+1 PROVE ~ (f[i].op = "|" /\ Ifs(f, i - 1) = m)
    <3>1. CASE i = n + 1
      <4>1. i - 1 = n
        BY <3>1
      <4> QED BY <1>5, <3>1, <4>1
    <3>2. CASE i \in k+1..n
      BY <1>2, <3>2
    <3> QED BY <3>1, <3>2
  <2> QED BY <1>2, <2>1, <2>2 DEF RamaAbierta
<1>6. ASSUME Ifs(f, n) = m, f[n + 1].op = "|" \/ EsPunto(f[n + 1]) PROVE FinDeRama(f, k, n + 1)
  <2>1. k < n + 1 /\ (n + 1) - 1 = n /\ k+1..(n+1)-1 = k+1..n
    OBVIOUS
  <2>2. f[n + 1].op \in {"|", "."}
    BY <1>6 DEF EsPunto
  <2> QED BY <1>2, <1>4, <1>6, <2>1, <2>2 DEF FinDeRama
<1>7. ASSUME NEW j \in k+1..n, FinDeRama(f, k, j) PROVE FALSE
  BY <1>2, <1>4, <1>7 DEF FinDeRama
<1>8. m <= Ifs(f, n)
  <2>1. n \in k..n /\ Ifs(f, n) \in Int
    BY IfsMas
  <2> QED BY <1>2, <1>3, <2>1
<1> QED BY <1>2, <1>3, <1>5, <1>6, <1>7, <1>8

\* A branch that starts is open.
LEMMA RamaNueva ==
    ASSUME NEW f, NEW k \in Nat \ {0}, EsRama(f, k)
    PROVE  RamaAbierta(f, k, k, Ifs(f, k))
<1>1. k..k = {k} /\ k+1..k = {} /\ Ifs(f, k) \in Int
  BY IfsMas
<1> QED BY <1>1 DEF RamaAbierta

\* The same of loops.
LEMMA LazoSigue ==
    ASSUME NEW f, BienEscrita(f), NEW n \in 0..Len(f)-1, NEW k \in 1..n, NEW m, LazoAbierto(f, n, k, m)
    PROVE  /\ Lazos(f, n + 1) >= m => LazoAbierto(f, n + 1, k, m)
           /\ Lazos(f, n) = m /\ EsCierra(f[n + 1]) => FinDeLazo(f, k, n + 1)
           /\ \A j \in k+1..n : ~ FinDeLazo(f, k, j)
           /\ Lazos(f, n) = m /\ EsAbre(f[k]) => IniDeLazo(f, n + 1, k)
           /\ m <= Lazos(f, n) /\ m \in Int
<1>1. Len(f) \in Nat
  BY Escrita
<1>2. Lazos(f, k) = m /\ \A i \in k..n : Lazos(f, i) >= m
  BY DEF LazoAbierto
<1>3. Lazos(f, k) \in Int
  BY LazosMas
<1>4. ASSUME NEW i \in k+1..n, EsCierra(f[i]), Lazos(f, i - 1) = m PROVE FALSE
  <2>2. PICK h \in 0..Len(f)-1 : h = i - 1 /\ h + 1 = i
    BY <1>1
  <2>3. Lazos(f, h + 1) = Lazos(f, h) - 1 /\ Lazos(f, h) \in Int
    BY <1>4, <2>2, Niveles
  <2>4. Lazos(f, i) >= m
    BY <1>2
  <2> QED BY <1>3, <1>4, <2>2, <2>3, <2>4
<1>5. ASSUME Lazos(f, n + 1) >= m PROVE LazoAbierto(f, n + 1, k, m)
  <2>1. ASSUME NEW i \in k..n+1 PROVE Lazos(f, i) >= m
    BY <1>2, <1>5
  <2> QED BY <1>2, <2>1 DEF LazoAbierto
<1>6. ASSUME Lazos(f, n) = m, EsCierra(f[n + 1]) PROVE FinDeLazo(f, k, n + 1)
  <2>1. k < n + 1 /\ (n + 1) - 1 = n /\ k+1..(n+1)-1 = k+1..n
    OBVIOUS
  <2> QED BY <1>2, <1>4, <1>6, <2>1 DEF FinDeLazo
<1>7. ASSUME NEW j \in k+1..n, FinDeLazo(f, k, j) PROVE FALSE
  BY <1>2, <1>4, <1>7 DEF FinDeLazo
<1>8. ASSUME Lazos(f, n) = m, EsAbre(f[k]) PROVE IniDeLazo(f, n + 1, k)
  <2>1. k < n + 1 /\ (n + 1) - 1 = n
    OBVIOUS
  <2>2. ASSUME NEW j \in k+1..n, EsAbre(f[j]), Lazos(f, j) = m PROVE FALSE
    <3>1. PICK h \in 0..Len(f)-1 : h = j - 1 /\ h + 1 = j
      BY <1>1
    <3>2. Lazos(f, h + 1) = Lazos(f, h) + 1 /\ Lazos(f, h) \in Int
      BY <2>2, <3>1, Niveles
    <3>3. Lazos(f, h) >= m
      BY <1>2, <3>1
    <3> QED BY <1>3, <2>2, <3>1, <3>2, <3>3
  <2> QED BY <1>2, <1>8, <2>1, <2>2 DEF IniDeLazo
<1>9. m <= Lazos(f, n)
  <2>1. n \in k..n /\ Lazos(f, n) \in Int
    BY LazosMas
  <2> QED BY <1>2, <1>3, <2>1
<1> QED BY <1>2, <1>3, <1>5, <1>6, <1>7, <1>8, <1>9

\* A loop that opens at token k is the last of the open ones there.
LEMMA LazoNuevo ==
    ASSUME NEW f, NEW k \in Nat \ {0}
    PROVE  LazoAbierto(f, k, k, Lazos(f, k))
<1>1. k..k = {k} /\ Lazos(f, k) \in Int
  BY LazosMas
<1> QED BY <1>1 DEF LazoAbierto

-----------------------------------------------------------------------------
(* What a change keeps *)

\* The object of n tokens.
Escritos(f, c, n, o) ==
    /\ BienEscrita(f) /\ Contado(f, c, Len(f)) /\ n \in 0..Len(f)-1
    /\ EsObjeto(o) /\ Len(o) = c[n + 1]
    /\ \A k \in 1..n : Figura(f, c, o, k)

\* The instructions of a token are in it.
LEMMA EnObjeto ==
    ASSUME NEW f, NEW c, NEW n, NEW o, Escritos(f, c, n, o), NEW k \in 1..n
    PROVE  /\ k \in 1..Len(f) /\ Len(f) \in Nat /\ Cuantas(f[k]) \in Nat
           /\ c[k] \in Nat /\ c[n + 1] \in Nat
           /\ c[k] + Cuantas(f[k]) <= Len(o)
<1>1. BienEscrita(f) /\ n \in 0..Len(f)-1 /\ Len(o) = c[n + 1]
  BY DEF Escritos
<1>2. Len(f) \in Nat
  BY <1>1, Escrita
<1>3. k \in 1..Len(f) /\ n + 1 \in 1..Len(f) /\ k < n + 1
  BY <1>1, <1>2
<1>4. c \in Seq(Nat) /\ Len(c) = Len(f)
  BY DEF Escritos, Contado
<1>5. c[k] \in Nat /\ c[n + 1] \in Nat
  BY <1>3, <1>4
<1>6. FinDe(f, c, k) <= c[n + 1]
  BY <1>3 DEF Escritos, Contado
<1>7. Cuantas(f[k]) \in Nat
  BY <1>1, <1>3, Ficha
<1> QED BY <1>1, <1>2, <1>3, <1>5, <1>6, <1>7 DEF FinDe

\* The place of a jump is in it, and changes only if it is one of those changed.
LEMMA ValeBrinco ==
    ASSUME NEW f, NEW c, NEW n, NEW o, Escritos(f, c, n, o), NEW k \in 1..n, EsRama(f, k),
           NEW o2, NEW P, NEW v, Cambia(o, o2, P, v)
    PROVE  /\ Brinco(f, c, k) \in P => Vale(o2, Brinco(f, c, k), v)
           /\ \A w : Brinco(f, c, k) \notin P /\ Vale(o, Brinco(f, c, k), w) => Vale(o2, Brinco(f, c, k), w)
<1>1. /\ k \in 1..Len(f) /\ Cuantas(f[k]) \in Nat /\ c[k] \in Nat /\ Len(o) \in Nat
      /\ c[k] + Cuantas(f[k]) <= Len(o)
  BY EnObjeto DEF Escritos
<1>2. BienEscrita(f) /\ Figura(f, c, o, k)
  BY DEF Escritos
<1>3. \E p, i : /\ Brinco(f, c, k) = <<p, i>> /\ p \in Nat /\ p < Len(o)
                /\ i \in DOMAIN o[p + 1].a
  <2>1. CASE f[k].op = "|"
    <3>1. Brinco(f, c, k) = <<c[k], 1>> /\ Cuantas(f[k]) = 1
      BY <1>1, <1>2, <2>1, Ficha DEF Brinco
    <3>2. Una(o[c[k] + 1].a)
      BY <1>2, <2>1 DEF Figura
    <3>3. 1 \in DOMAIN o[c[k] + 1].a
      BY <3>2 DEF Una
    <3> QED BY <1>1, <3>1, <3>3
  <2>2. CASE UltimaBarra(f[k]) /\ f[k].op = "y"
    <3>1. Brinco(f, c, k) = <<c[k], 2>> /\ Cuantas(f[k]) = 1
      BY <1>1, <1>2, <2>2, Ficha DEF Brinco
    <3>2. 2 \in DOMAIN o[c[k] + 1].a
      BY <1>2, <2>2 DEF Figura
    <3> QED BY <1>1, <3>1, <3>2
  <2>3. CASE UltimaBarra(f[k]) /\ f[k].op # "y"
    <3>1. Brinco(f, c, k) = <<c[k] + 1, 1>> /\ Cuantas(f[k]) = 2
      BY <1>1, <1>2, <2>3, Ficha DEF Brinco
    <3>2. Una(o[c[k] + 2].a)
      BY <1>2, <2>3 DEF Figura
    <3>3. 1 \in DOMAIN o[(c[k] + 1) + 1].a
      BY <1>1, <3>2 DEF Una
    <3> QED BY <1>1, <3>1, <3>3
  <2> QED BY <2>1, <2>2, <2>3 DEF EsRama
<1>4. PICK p, i : Brinco(f, c, k) = <<p, i>> /\ p \in Nat /\ p < Len(o) /\ i \in DOMAIN o[p + 1].a
  BY <1>3
<1>5. PICK q : q = p + 1
  OBVIOUS
<1>6. q \in 1..Len(o) /\ q - 1 = p
  BY <1>1, <1>4, <1>5
<1>7. o2[q].a[i] = IF <<p, i>> \in P THEN v ELSE o[q].a[i]
  BY <1>4, <1>5, <1>6 DEF Cambia
<1>8. \A w : (Vale(o, <<p, i>>, w) <=> o[q].a[i] = w) /\ (Vale(o2, <<p, i>>, w) <=> o2[q].a[i] = w)
  BY <1>5 DEF Vale
<1> QED BY <1>4, <1>7, <1>8

\* So does a target, and what each token is.
Sigue(f, c, k, o, o2, P, v) ==
    /\ \A j \in DOMAIN f[k].d : Apunta(f, k) =>
           o2[c[k] + 1].a[j] = IF <<c[k], j>> \in P THEN v ELSE o[c[k] + 1].a[j]
    /\ EsCierra(f[k]) => o2[c[k] + 1].a[1] = IF <<c[k], 1>> \in P THEN v ELSE o[c[k] + 1].a[1]
    /\ Figura(f, c, o2, k)
\* A change moves the targets of a token that it names, and no others.
LEMMA ValeMeta ==
    ASSUME NEW f, NEW c, NEW n, NEW o, Escritos(f, c, n, o), NEW k \in 1..n,
           NEW o2, NEW P, NEW v, Cambia(o, o2, P, v)
    PROVE  Sigue(f, c, k, o, o2, P, v)
<1>1. /\ k \in 1..Len(f) /\ Cuantas(f[k]) \in Nat /\ c[k] \in Nat /\ Len(o) \in Nat
      /\ c[k] + Cuantas(f[k]) <= Len(o)
  BY EnObjeto DEF Escritos
<1>2. BienEscrita(f) /\ Figura(f, c, o, k)
  BY DEF Escritos
<1>3. \A q \in 1..Len(o) :
          /\ o2[q].op = o[q].op /\ DOMAIN o2[q].a = DOMAIN o[q].a
          /\ Una(o[q].a) => Una(o2[q].a)
          /\ \A j \in DOMAIN o[q].a : o2[q].a[j] = IF <<q - 1, j>> \in P THEN v ELSE o[q].a[j]
  BY DEF Cambia
<1>4. PICK q : q = c[k] + 1
  OBVIOUS
<1>5. Cuantas(f[k]) >= 1 => q \in 1..Len(o) /\ q - 1 = c[k]
  BY <1>1, <1>4
<1>6. Cuantas(f[k]) = 2 => c[k] + 2 \in 1..Len(o)
  BY <1>1
<1>7. /\ Apunta(f, k) \/ f[k].op = "|" \/ EsCierra(f[k]) => Cuantas(f[k]) >= 1
      /\ UltimaBarra(f[k]) => Apunta(f, k)
      /\ UltimaBarra(f[k]) /\ f[k].op # "y" => Cuantas(f[k]) = 2
      /\ EsCierra(f[k]) <=> f[k].op = ")"
  BY <1>1, <1>2, Ficha DEF EsCierra
<1>8. ASSUME NEW j \in DOMAIN f[k].d, Apunta(f, k)
      PROVE  o2[q].a[j] = IF <<c[k], j>> \in P THEN v ELSE o[q].a[j]
  <2>1. j \in DOMAIN o[q].a
    BY <1>2, <1>4, <1>8 DEF Figura
  <2> QED BY <1>3, <1>5, <1>7, <1>8, <2>1
<1>9. ASSUME EsCierra(f[k])
      PROVE  o2[q].a[1] = IF <<c[k], 1>> \in P THEN v ELSE o[q].a[1]
  <2>1. Una(o[q].a)
    BY <1>2, <1>4, <1>7, <1>9 DEF Figura
  <2>2. 1 \in DOMAIN o[q].a
    BY <2>1 DEF Una
  <2> QED BY <1>3, <1>5, <1>7, <1>9, <2>2
<1>10. Figura(f, c, o2, k)
  <2>1. Apunta(f, k) => /\ o2[q].op = f[k].op /\ DOMAIN f[k].d \subseteq DOMAIN o2[q].a
    BY <1>2, <1>3, <1>4, <1>5, <1>7 DEF Figura
  <2>2. UltimaBarra(f[k]) /\ f[k].op = "y" => DOMAIN o2[q].a = 1..2
    BY <1>2, <1>3, <1>4, <1>5, <1>7 DEF Figura
  <2>3. UltimaBarra(f[k]) /\ f[k].op # "y" => o2[c[k] + 2].op = "g" /\ Una(o2[c[k] + 2].a)
    BY <1>2, <1>3, <1>6, <1>7 DEF Figura
  <2>4. f[k].op \in {"|", ")"} => o2[q].op = "g" /\ Una(o2[q].a)
    BY <1>2, <1>3, <1>4, <1>5, <1>7 DEF Figura
  <2> QED BY <1>4, <2>1, <2>2, <2>3, <2>4 DEF Figura
<1> QED BY <1>4, <1>8, <1>9, <1>10 DEF Sigue

-----------------------------------------------------------------------------
(* One token *)

\* The stack of branches after token k: what it leaves, and the jump it puts on it.
Resto(f, k, ifl) == IF f[k].op = "|" \/ EsPunto(f[k]) THEN Quita(ifl) ELSE ifl
Apila(f, c, k, ifl) ==
    IF EsRama(f, k) THEN Append(Resto(f, k, ifl), Brinco(f, c, k)) ELSE Resto(f, k, ifl)

Apilada(f, c, k, ifl, r, w) ==
    /\ EsSeq(w) /\ Len(w) = Ifs(f, k) /\ Len(r) \in Nat
    /\ Len(r) = IF f[k].op = "|" \/ EsPunto(f[k]) THEN Len(ifl) - 1 ELSE Len(ifl)
    /\ Len(w) = IF EsRama(f, k) THEN Len(r) + 1 ELSE Len(r)
    /\ \A m \in 1..Len(r) : w[m] = ifl[m]
    /\ EsRama(f, k) => w[Len(r) + 1] = Brinco(f, c, k)

\* What a token does to the open branches: it fills one, opens one, or both.
LEMMA Apilado ==
    ASSUME NEW f, BienEscrita(f), NEW n \in 0..Len(f)-1, NEW ifl, EsSeq(ifl), Len(ifl) = Ifs(f, n), NEW c,
           NEW k, k = n + 1, NEW r, r = Resto(f, k, ifl), NEW w, w = Apila(f, c, k, ifl)
    PROVE  Apilada(f, c, k, ifl, r, w)
<1>2. Len(f) \in Nat /\ k \in 1..Len(f)
  BY Escrita
<1>5. /\ UltimaBarra(f[k]) => ~ EsPunto(f[k]) /\ f[k].op # "|"
      /\ f[k].op = "|" => ~ EsPunto(f[k])
  BY <1>2, Ficha
<1>6. /\ Ifs(f, n) \in Int
      /\ UltimaBarra(f[k]) => Ifs(f, k) = Ifs(f, n) + 1
      /\ EsPunto(f[k]) => Ifs(f, k) = Ifs(f, n) - 1 /\ Ifs(f, n) > 0
      /\ f[k].op = "|" => Ifs(f, k) = Ifs(f, n) /\ Ifs(f, n) > 0
      /\ ~ UltimaBarra(f[k]) /\ ~ EsPunto(f[k]) => Ifs(f, k) = Ifs(f, n)
  BY Niveles
<1>7. /\ EsSeq(r) /\ Len(r) \in Nat /\ \A m \in 1..Len(r) : r[m] = ifl[m]
      /\ Len(r) = IF f[k].op = "|" \/ EsPunto(f[k]) THEN Len(ifl) - 1 ELSE Len(ifl)
  <2>1. CASE f[k].op = "|" \/ EsPunto(f[k])
    <3>1. r = Quita(ifl)
      BY <2>1 DEF Resto
    <3>2. ifl # <<>>
      BY <1>6, <2>1
    <3>3. /\ EsSeq(Quita(ifl)) /\ Len(ifl) \in Nat \ {0}
          /\ Len(Quita(ifl)) = Len(ifl) - 1
          /\ \A m \in 1..Len(ifl) - 1 : Quita(ifl)[m] = ifl[m]
      BY <3>2, Saca
    <3> QED BY <2>1, <3>1, <3>3
  <2>2. CASE ~ (f[k].op = "|" \/ EsPunto(f[k]))
    <3>1. r = ifl
      BY <2>2 DEF Resto
    <3>2. Len(ifl) \in Nat
      BY DEF EsSeq
    <3> QED BY <2>2, <3>1, <3>2
  <2> QED BY <2>1, <2>2
<1>8. /\ EsSeq(w) /\ Len(w) = IF EsRama(f, k) THEN Len(r) + 1 ELSE Len(r)
      /\ \A m \in 1..Len(r) : w[m] = r[m]
      /\ EsRama(f, k) => w[Len(r) + 1] = Brinco(f, c, k)
  <2>1. CASE EsRama(f, k)
    <3>1. w = Append(r, Brinco(f, c, k))
      BY <2>1 DEF Apila
    <3>2. PICK x : x = Brinco(f, c, k)
      OBVIOUS
    <3>3. /\ EsSeq(Append(r, x)) /\ Len(Append(r, x)) = Len(r) + 1
          /\ \A m \in 1..Len(r) : Append(r, x)[m] = r[m]
          /\ Append(r, x)[Len(r) + 1] = x
      BY <1>7, Empuja
    <3> QED BY <2>1, <3>1, <3>2, <3>3
  <2>2. CASE ~ EsRama(f, k)
    <3>1. w = r
      BY <2>2 DEF Apila
    <3> QED BY <1>7, <2>2, <3>1
  <2> QED BY <2>1, <2>2
<1>9. Len(w) = Ifs(f, k)
  <2>1. CASE f[k].op = "|"
    <3>1. EsRama(f, k)
      BY <2>1 DEF EsRama
    <3> QED BY <1>6, <1>7, <1>8, <2>1, <3>1
  <2>2. CASE UltimaBarra(f[k])
    <3>1. EsRama(f, k)
      BY <2>2 DEF EsRama
    <3> QED BY <1>5, <1>6, <1>7, <1>8, <2>2, <3>1
  <2>3. CASE f[k].op # "|" /\ ~ UltimaBarra(f[k])
    <3>1. ~ EsRama(f, k)
      BY <2>3 DEF EsRama
    <3> QED BY <1>6, <1>7, <1>8, <2>3, <3>1
  <2> QED BY <2>1, <2>2, <2>3
<1> QED BY <1>7, <1>8, <1>9 DEF Apilada

\* It fills the jump of the branch that ends at token n + 1, and no other.
Llenas(f, c, n, ifl, P, v) ==
    /\ f[n + 1].op = "|" \/ EsPunto(f[n + 1]) => v = FinDe(f, c, n + 1) /\ ifl[Len(ifl)] \in P
    /\ \A k \in 1..n : EsRama(f, k) /\ Brinco(f, c, k) \in P =>
           (f[n + 1].op = "|" \/ EsPunto(f[n + 1])) /\ Brinco(f, c, k) = ifl[Len(ifl)]

\* With a token more each branch is still on the stack, or filled with its end.
LEMMA RamasPaso ==
    ASSUME NEW f, NEW c, NEW n, NEW o, Escritos(f, c, n, o), NEW ifl, Ramas(f, c, n, o, ifl),
           NEW o2, NEW P, NEW v, Cambia(o, o2, P, v), Llenas(f, c, n, ifl, P, v)
    PROVE  Ramas(f, c, n + 1, o2, Apila(f, c, n + 1, ifl))
<1>1. BienEscrita(f) /\ Contado(f, c, Len(f)) /\ n \in 0..Len(f)-1
  BY DEF Escritos
<1>2. PICK h : h = n + 1
  OBVIOUS
<1>3. Len(f) \in Nat /\ h \in 1..Len(f)
  BY <1>1, <1>2, Escrita
<1>4. /\ EsSeq(ifl) /\ Len(ifl) = Ifs(f, n)
      /\ \A m \in 1..Len(ifl) : \E k \in 1..n : RamaAbierta(f, n, k, m) /\ ifl[m] = Brinco(f, c, k)
      /\ \A k \in 1..n : EsRama(f, k) =>
            \/ \E m \in 1..Len(ifl) : RamaAbierta(f, n, k, m) /\ ifl[m] = Brinco(f, c, k)
            \/ \E j \in k+1..n : FinDeRama(f, k, j) /\ Vale(o, Brinco(f, c, k), FinDe(f, c, j))
  BY DEF Ramas
<1>5. PICK r : r = Len(Resto(f, h, ifl))
  OBVIOUS
<1>6. PICK w : w = Apila(f, c, h, ifl)
  OBVIOUS
<1>7. PICK x : x = Resto(f, h, ifl)
  OBVIOUS
<1>8. /\ EsSeq(w) /\ Len(w) = Ifs(f, h) /\ r \in Nat
      /\ r = IF f[h].op = "|" \/ EsPunto(f[h]) THEN Len(ifl) - 1 ELSE Len(ifl)
      /\ Len(w) = IF EsRama(f, h) THEN r + 1 ELSE r
      /\ \A m \in 1..r : w[m] = ifl[m]
      /\ EsRama(f, h) => w[r + 1] = Brinco(f, c, h)
  <2>1. r = Len(x)
    BY <1>5, <1>7
  <2>2. BienEscrita(f) /\ EsSeq(ifl) /\ Len(ifl) = Ifs(f, n)
    BY <1>1, <1>4
  <2>3. n \in 0..Len(f)-1
    BY <1>1
  <2>4. Apilada(f, c, h, ifl, x, w)
    BY <1>2, <1>6, <1>7, <2>2, <2>3, Apilado, Zenon
  <2> QED BY <2>1, <2>4 DEF Apilada
<1>9. Len(ifl) \in Nat
  BY <1>4 DEF EsSeq
<1>10. ASSUME NEW k \in 1..n, NEW m \in 1..r, RamaAbierta(f, n, k, m) PROVE RamaAbierta(f, h, k, m)
  <2>1. Ifs(f, h) >= m
    BY <1>8
  <2>2. ~ (f[h].op = "|" /\ Ifs(f, n) = m)
    BY <1>4, <1>8, <1>9
  <2> QED BY <1>1, <1>2, <1>10, <2>1, <2>2, RamaSigue
<1>11. ASSUME EsRama(f, h) PROVE RamaAbierta(f, h, h, r + 1) /\ w[r + 1] = Brinco(f, c, h) /\ r + 1 \in 1..Len(w)
  <2>1. RamaAbierta(f, h, h, Ifs(f, h))
    BY <1>3, <1>11, RamaNueva
  <2> QED BY <1>8, <1>11, <2>1
<1>12. ASSUME NEW m \in 1..Len(w)
       PROVE  \E k \in 1..h : RamaAbierta(f, h, k, m) /\ w[m] = Brinco(f, c, k)
  <2>1. CASE m \in 1..r
    <3>1. m \in 1..Len(ifl)
      BY <1>8, <1>9, <2>1
    <3>2. PICK k \in 1..n : RamaAbierta(f, n, k, m) /\ ifl[m] = Brinco(f, c, k)
      BY <1>4, <3>1
    <3>3. RamaAbierta(f, h, k, m)
      BY <1>10, <2>1, <3>2
    <3>4. k \in 1..h
      BY <1>1, <1>2
    <3> QED BY <1>8, <2>1, <3>2, <3>3, <3>4
  <2>2. CASE m \notin 1..r
    <3>1. EsRama(f, h) /\ m = r + 1
      BY <1>8, <2>2
    <3> QED BY <1>3, <1>11, <3>1
  <2> QED BY <2>1, <2>2
<1>13. ASSUME NEW k \in 1..n, EsRama(f, k)
       PROVE  \/ \E m \in 1..Len(w) : RamaAbierta(f, h, k, m) /\ w[m] = Brinco(f, c, k)
              \/ \E j \in k+1..h : FinDeRama(f, k, j) /\ Vale(o2, Brinco(f, c, k), FinDe(f, c, j))
  <2>1. ASSUME NEW m \in 1..r, RamaAbierta(f, n, k, m), ifl[m] = Brinco(f, c, k)
        PROVE  \E q \in 1..Len(w) : RamaAbierta(f, h, k, q) /\ w[q] = Brinco(f, c, k)
    BY <1>8, <1>10, <2>1
  <2>2. ASSUME NEW m \in 1..Len(ifl), m \notin 1..r, RamaAbierta(f, n, k, m), ifl[m] = Brinco(f, c, k)
        PROVE  \E j \in k+1..h : FinDeRama(f, k, j) /\ Vale(o2, Brinco(f, c, k), FinDe(f, c, j))
    <3>1. m = Len(ifl) /\ (f[h].op = "|" \/ EsPunto(f[h]))
      BY <1>8, <1>9, <2>2
    <3>2. FinDeRama(f, k, h)
      BY <1>1, <1>2, <1>4, <2>2, <3>1, RamaSigue
    <3>3. v = FinDe(f, c, h) /\ Brinco(f, c, k) \in P
      BY <1>2, <2>2, <3>1 DEF Llenas
    <3>4. Vale(o2, Brinco(f, c, k), v)
      BY <1>13, <3>3, ValeBrinco
    <3>5. h \in k+1..h
      BY <1>1, <1>2
    <3> QED BY <3>2, <3>3, <3>4, <3>5
  <2>3. ASSUME NEW j \in k+1..n, FinDeRama(f, k, j), Vale(o, Brinco(f, c, k), FinDe(f, c, j))
        PROVE  \E q \in k+1..h : FinDeRama(f, k, q) /\ Vale(o2, Brinco(f, c, k), FinDe(f, c, q))
    <3>1. ASSUME Brinco(f, c, k) \in P PROVE FALSE
      <4>1. (f[h].op = "|" \/ EsPunto(f[h])) /\ Brinco(f, c, k) = ifl[Len(ifl)]
        BY <1>2, <1>13, <3>1 DEF Llenas
      <4>2. Len(ifl) \in 1..Len(ifl)
        BY <1>8, <1>9, <4>1
      <4>3. PICK k0 \in 1..n : RamaAbierta(f, n, k0, Len(ifl)) /\ ifl[Len(ifl)] = Brinco(f, c, k0)
        BY <1>4, <4>2
      <4>4. EsRama(f, k0) /\ k \in 1..Len(f) /\ k0 \in 1..Len(f)
        BY <1>1, <1>3, <4>3 DEF RamaAbierta
      <4>5. k = k0
        BY <1>1, <1>13, <4>1, <4>3, <4>4, Distintos
      <4> QED BY <1>1, <2>3, <4>3, <4>5, RamaSigue
    <3>2. Vale(o2, Brinco(f, c, k), FinDe(f, c, j))
      BY <1>13, <2>3, <3>1, ValeBrinco
    <3>3. j \in k+1..h
      BY <1>1, <1>2
    <3> QED BY <2>3, <3>2, <3>3
  <2> QED BY <1>4, <1>13, <2>1, <2>2, <2>3
<1>14. ASSUME NEW k \in 1..h, EsRama(f, k)
       PROVE  \/ \E m \in 1..Len(w) : RamaAbierta(f, h, k, m) /\ w[m] = Brinco(f, c, k)
              \/ \E j \in k+1..h : FinDeRama(f, k, j) /\ Vale(o2, Brinco(f, c, k), FinDe(f, c, j))
  <2>1. CASE k = h
    BY <1>11, <1>14, <2>1
  <2>2. CASE k \in 1..n
    BY <1>13, <1>14, <2>2
  <2> QED BY <1>1, <1>2, <2>1, <2>2
<1>15. Ramas(f, c, h, o2, w)
  BY <1>8, <1>12, <1>14 DEF Ramas
<1> QED BY <1>2, <1>6, <1>15

\* The stack of loops after token n + 1: a loop more, a loop less, or the jumps out of it.
Salidas(f, c, k) ==
    IF Apunta(f, k) THEN {<<c[k], j>> : j \in {j \in DOMAIN f[k].d : f[k].d[j] = "+"}} ELSE {}
Gira(f, c, k, lop, lop2) ==
    /\ EsAbre(f[k]) => lop2 = Append(lop, [ini |-> c[k], lpos |-> {}])
    /\ EsCierra(f[k]) => lop2 = Quita(lop)
    /\ ~ EsAbre(f[k]) /\ ~ EsCierra(f[k]) =>
          /\ EsSeq(lop2) /\ Len(lop2) = Len(lop)
          /\ \A m \in 1..Len(lop) :
                lop2[m] = [ini |-> lop[m].ini,
                           lpos |-> lop[m].lpos \cup (IF m = Len(lop) THEN Salidas(f, c, k) ELSE {})]

\* A jump out of an open loop is one after the next token.
LEMMA SalidaSigue ==
    ASSUME NEW f, BienEscrita(f), NEW c, NEW n \in 0..Len(f)-1, NEW m, NEW p, SalidaDe(f, c, n, m, p),
           m <= Lazos(f, n + 1), NEW k, k = n + 1
    PROVE  SalidaDe(f, c, k, m, p)
<1>1. PICK i \in 1..n : \E j \in DOMAIN f[i].d :
          Apunta(f, i) /\ LazoAbierto(f, n, i, m) /\ f[i].d[j] = "+" /\ p = <<c[i], j>>
  BY DEF SalidaDe
<1>2. LazoAbierto(f, k, i, m)
  <2>1. m \in Int /\ Lazos(f, n + 1) \in Int
    BY <1>1, LazoSigue, Niveles
  <2>2. Lazos(f, n + 1) >= m
    BY <2>1
  <2> QED BY <1>1, <2>2, LazoSigue
<1>3. i \in 1..k
  OBVIOUS
<1> QED BY <1>1, <1>2, <1>3 DEF SalidaDe

\* With a token more each loop is still on the stack with its start, or filled with it.
LEMMA VueltasPaso ==
    ASSUME NEW f, BienEscrita(f), NEW c, NEW n \in 0..Len(f)-1, NEW lop, Vueltas(f, c, n, lop),
           NEW h, h = n + 1, NEW lop2, Gira(f, c, h, lop, lop2)
    PROVE  Vueltas(f, c, h, lop2)
<1>1. Len(f) \in Nat /\ h \in 1..Len(f) /\ n \in Nat
  BY Escrita
<1>2. /\ EsSeq(lop) /\ Len(lop) = Lazos(f, n)
      /\ \A m \in 1..Len(lop) :
            /\ \E w, S : lop[m] = [ini |-> w, lpos |-> S]
            /\ \E i \in 1..n : EsAbre(f[i]) /\ LazoAbierto(f, n, i, m) /\ lop[m].ini = c[i]
            /\ \A p \in lop[m].lpos : SalidaDe(f, c, n, m, p)
  BY DEF Vueltas
<1>3. Len(lop) \in Nat
  BY <1>2 DEF EsSeq
<1>4. /\ EsAbre(f[h]) => Lazos(f, h) = Len(lop) + 1
      /\ EsCierra(f[h]) => Lazos(f, h) = Len(lop) - 1 /\ Len(lop) > 0
      /\ ~ EsAbre(f[h]) /\ ~ EsCierra(f[h]) => Lazos(f, h) = Len(lop)
  BY <1>2, Niveles
<1>5. ASSUME NEW m \in 1..Len(lop), m <= Lazos(f, h)
      PROVE  /\ \E i \in 1..h : EsAbre(f[i]) /\ LazoAbierto(f, h, i, m) /\ lop[m].ini = c[i]
             /\ \A p \in lop[m].lpos : SalidaDe(f, c, h, m, p)
  <2>1. PICK i \in 1..n : EsAbre(f[i]) /\ LazoAbierto(f, n, i, m) /\ lop[m].ini = c[i]
    BY <1>2
  <2>2. Lazos(f, n + 1) \in Int /\ Lazos(f, n + 1) >= m
    BY <1>5, Niveles
  <2>3. LazoAbierto(f, h, i, m)
    BY <2>1, <2>2, LazoSigue
  <2>4. i \in 1..h
    BY <1>1
  <2>5. ASSUME NEW p \in lop[m].lpos PROVE SalidaDe(f, c, h, m, p)
    BY <1>2, <1>5, SalidaSigue
  <2> QED BY <2>1, <2>3, <2>4, <2>5
<1>6. LazoAbierto(f, h, h, Lazos(f, h)) /\ h \in 1..h
  BY <1>1, LazoNuevo
<1>7. CASE EsAbre(f[h])
  <2>1. PICK x : x = [ini |-> c[h], lpos |-> {}]
    OBVIOUS
  <2>2. lop2 = Append(lop, x)
    BY <1>7, <2>1 DEF Gira
  <2>3. /\ EsSeq(lop2) /\ Len(lop2) = Len(lop) + 1 /\ lop2[Len(lop) + 1] = x
        /\ \A m \in 1..Len(lop) : lop2[m] = lop[m]
    BY <1>2, <2>2, Empuja
  <2>4. ASSUME NEW m \in 1..Len(lop2)
        PROVE  /\ \E w, S : lop2[m] = [ini |-> w, lpos |-> S]
               /\ \E i \in 1..h : EsAbre(f[i]) /\ LazoAbierto(f, h, i, m) /\ lop2[m].ini = c[i]
               /\ \A p \in lop2[m].lpos : SalidaDe(f, c, h, m, p)
    <3>1. CASE m \in 1..Len(lop)
      <4>1. m <= Lazos(f, h)
        BY <1>3, <1>4, <1>7, <3>1
      <4> QED BY <1>2, <1>5, <2>3, <3>1, <4>1
    <3>2. CASE m = Len(lop) + 1
      <4>1. lop2[m] = x /\ x.ini = c[h] /\ x.lpos = {}
        BY <2>1, <2>3, <3>2
      <4>2. LazoAbierto(f, h, h, m)
        BY <1>4, <1>6, <1>7, <3>2
      <4>3. \E i \in 1..h : EsAbre(f[i]) /\ LazoAbierto(f, h, i, m) /\ lop2[m].ini = c[i]
        BY <1>6, <1>7, <4>1, <4>2
      <4> QED BY <2>1, <4>1, <4>3
    <3> QED BY <1>3, <2>3, <3>1, <3>2
  <2> QED BY <1>4, <1>7, <2>3, <2>4 DEF Vueltas
<1>8. CASE EsCierra(f[h])
  <2>1. lop2 = Quita(lop) /\ lop # <<>> /\ ~ EsAbre(f[h])
    BY <1>1, <1>4, <1>8, Ficha DEF Gira
  <2>2. EsSeq(lop2) /\ Len(lop2) = Len(lop) - 1 /\ \A m \in 1..Len(lop)-1 : lop2[m] = lop[m]
    BY <1>2, <2>1, Saca
  <2>3. ASSUME NEW m \in 1..Len(lop2)
        PROVE  /\ \E w, S : lop2[m] = [ini |-> w, lpos |-> S]
               /\ \E i \in 1..h : EsAbre(f[i]) /\ LazoAbierto(f, h, i, m) /\ lop2[m].ini = c[i]
               /\ \A p \in lop2[m].lpos : SalidaDe(f, c, h, m, p)
    <3>1. m \in 1..Len(lop) /\ lop2[m] = lop[m] /\ m <= Lazos(f, h)
      BY <1>3, <1>4, <1>8, <2>2
    <3> QED BY <1>2, <1>5, <3>1
  <2> QED BY <1>4, <1>8, <2>2, <2>3 DEF Vueltas
<1>9. CASE ~ EsAbre(f[h]) /\ ~ EsCierra(f[h])
  <2>1. /\ EsSeq(lop2) /\ Len(lop2) = Len(lop)
        /\ \A m \in 1..Len(lop) :
              lop2[m] = [ini |-> lop[m].ini,
                         lpos |-> lop[m].lpos \cup (IF m = Len(lop) THEN Salidas(f, c, h) ELSE {})]
    BY <1>9 DEF Gira
  <2>2. ASSUME NEW p \in Salidas(f, c, h) PROVE SalidaDe(f, c, h, Len(lop), p)
    <3>1. PICK j \in DOMAIN f[h].d : Apunta(f, h) /\ f[h].d[j] = "+" /\ p = <<c[h], j>>
      BY DEF Salidas
    <3>2. LazoAbierto(f, h, h, Len(lop))
      BY <1>4, <1>6, <1>9
    <3> QED BY <1>6, <3>1, <3>2 DEF SalidaDe
  <2>3. ASSUME NEW m \in 1..Len(lop2)
        PROVE  /\ \E w, S : lop2[m] = [ini |-> w, lpos |-> S]
               /\ \E i \in 1..h : EsAbre(f[i]) /\ LazoAbierto(f, h, i, m) /\ lop2[m].ini = c[i]
               /\ \A p \in lop2[m].lpos : SalidaDe(f, c, h, m, p)
    <3>1. PICK S : S = lop[m].lpos \cup (IF m = Len(lop) THEN Salidas(f, c, h) ELSE {})
      OBVIOUS
    <3>2. m \in 1..Len(lop) /\ lop2[m] = [ini |-> lop[m].ini, lpos |-> S]
      BY <2>1, <3>1
    <3>3. m <= Lazos(f, h)
      BY <1>3, <1>4, <1>9, <3>2
    <3>4. lop2[m].ini = lop[m].ini /\ lop2[m].lpos = S
      BY <3>2
    <3>5. ASSUME NEW p \in S PROVE SalidaDe(f, c, h, m, p)
      BY <1>5, <2>2, <3>1, <3>2, <3>3
    <3> QED BY <1>5, <3>2, <3>3, <3>4, <3>5
  <2> QED BY <1>4, <1>9, <2>1, <2>3 DEF Vueltas
<1> QED BY <1>7, <1>8, <1>9

\* It fills the jumps out of the loop that ends at token n + 1, and no other target; and
\* writes its own targets.
Rellena(f, c, n, lop, P, v) ==
    /\ EsCierra(f[n + 1]) => v = FinDe(f, c, n + 1) /\ lop[Len(lop)].lpos \subseteq P
    /\ \A k \in 1..n : \A j \in DOMAIN f[k].d : Apunta(f, k) /\ <<c[k], j>> \in P =>
           EsCierra(f[n + 1]) /\ <<c[k], j>> \in lop[Len(lop)].lpos
    /\ \A k \in 1..n : EsCierra(f[k]) => <<c[k], 1>> \notin P
Pone(f, c, k, o, lop, s) ==
    /\ Apunta(f, k) => \A j \in DOMAIN f[k].d :
          LET d == f[k].d[j]
              v == o[c[k] + 1].a[j]
          IN  /\ d = "-" => v = lop[Len(lop)].ini
              /\ d = "|" => v = FinDe(f, c, k)
              /\ d \notin {"+", "-", "|"} => v = (IF d \in DOMAIN s THEN s[d] ELSE 0)
    /\ EsCierra(f[k]) => o[c[k] + 1].a[1] = lop[Len(lop)].ini

\* The start of the innermost loop.
LEMMA Inicio ==
    ASSUME NEW f, BienEscrita(f), NEW c, NEW n \in 0..Len(f)-1, NEW lop, Vueltas(f, c, n, lop),
           NEW h, h = n + 1, Lazos(f, n) > 0
    PROVE  \E i \in 1..h-1 : IniDeLazo(f, h, i) /\ lop[Len(lop)].ini = c[i]
<1>1. /\ EsSeq(lop) /\ Len(lop) = Lazos(f, n)
      /\ \A m \in 1..Len(lop) :
             \E i \in 1..n : EsAbre(f[i]) /\ LazoAbierto(f, n, i, m) /\ lop[m].ini = c[i]
  BY DEF Vueltas
<1>2. Len(lop) \in Nat
  BY <1>1 DEF EsSeq
<1>3. Len(lop) \in 1..Len(lop)
  BY <1>1, <1>2
<1>4. PICK i \in 1..n : EsAbre(f[i]) /\ LazoAbierto(f, n, i, Len(lop)) /\ lop[Len(lop)].ini = c[i]
  BY <1>1, <1>3
<1>5. IniDeLazo(f, n + 1, i)
  BY <1>1, <1>4, LazoSigue
<1>6. i \in 1..h-1
  OBVIOUS
<1> QED BY <1>4, <1>5, <1>6

\* With a token more each target is its label, its loop, its bar, or waits in its loop.
LEMMA MetasPaso ==
    ASSUME NEW f, NEW c, NEW n, NEW o, Escritos(f, c, n, o), NEW s, NEW lop, Vueltas(f, c, n, lop),
           Metas(f, c, n, o, lop, s), NEW o2, NEW P, NEW v, Cambia(o, o2, P, v),
           NEW h, h = n + 1, NEW lop2, Gira(f, c, h, lop, lop2),
           Rellena(f, c, n, lop, P, v), Pone(f, c, h, o2, lop, s)
    PROVE  Metas(f, c, h, o2, lop2, s)
<1>1. BienEscrita(f) /\ Contado(f, c, Len(f)) /\ n \in 0..Len(f)-1
  BY DEF Escritos
<1>2. Len(f) \in Nat /\ h \in 1..Len(f) /\ n \in Nat
  BY <1>1, Escrita
<1>3. /\ EsSeq(lop) /\ Len(lop) = Lazos(f, n)
      /\ \A m \in 1..Len(lop) : \A p \in lop[m].lpos : SalidaDe(f, c, n, m, p)
  BY DEF Vueltas
<1>4. Len(lop) \in Nat
  BY <1>3 DEF EsSeq
<1>5. /\ EsAbre(f[h]) => Lazos(f, h) = Len(lop) + 1
      /\ EsCierra(f[h]) => Lazos(f, h) = Len(lop) - 1 /\ Len(lop) > 0 /\ ~ EsAbre(f[h])
      /\ ~ EsAbre(f[h]) /\ ~ EsCierra(f[h]) => Lazos(f, h) = Len(lop)
      /\ \A j \in DOMAIN f[h].d : f[h].d[j] \in {"+", "-"} => Len(lop) > 0
      /\ Lazos(f, n + 1) \in Int
  BY <1>1, <1>2, <1>3, Niveles, Ficha
<1>6. ASSUME NEW m \in 1..Len(lop), m <= Lazos(f, h)
      PROVE  m \in 1..Len(lop2) /\ lop[m].lpos \subseteq lop2[m].lpos
  <2>1. CASE EsAbre(f[h])
    <3>1. PICK x : x = [ini |-> c[h], lpos |-> {}]
      OBVIOUS
    <3>2. lop2 = Append(lop, x)
      BY <2>1, <3>1 DEF Gira
    <3>3. Len(lop2) = Len(lop) + 1 /\ \A i \in 1..Len(lop) : lop2[i] = lop[i]
      BY <1>3, <3>2, Empuja
    <3> QED BY <1>4, <3>3
  <2>2. CASE EsCierra(f[h])
    <3>1. lop2 = Quita(lop) /\ lop # <<>>
      BY <1>5, <2>2 DEF Gira
    <3>2. Len(lop2) = Len(lop) - 1 /\ \A i \in 1..Len(lop)-1 : lop2[i] = lop[i]
      BY <1>3, <3>1, Saca
    <3> QED BY <1>4, <1>5, <1>6, <2>2, <3>2
  <2>3. CASE ~ EsAbre(f[h]) /\ ~ EsCierra(f[h])
    <3>1. PICK S : S = IF m = Len(lop) THEN Salidas(f, c, h) ELSE {}
      OBVIOUS
    <3>2. Len(lop2) = Len(lop) /\ lop2[m] = [ini |-> lop[m].ini, lpos |-> lop[m].lpos \cup S]
      BY <2>3, <3>1 DEF Gira
    <3>3. lop2[m].lpos = lop[m].lpos \cup S
      BY <3>2
    <3> QED BY <3>2, <3>3
  <2> QED BY <2>1, <2>2, <2>3
<1>7. ASSUME NEW k \in 1..n, NEW j \in DOMAIN f[k].d, Apunta(f, k), <<c[k], j>> \in P
      PROVE  f[k].d[j] = "+" /\ LazoAbierto(f, n, k, Len(lop))
  <2>1. EsCierra(f[h]) /\ <<c[k], j>> \in lop[Len(lop)].lpos
    BY <1>7 DEF Rellena
  <2>2. Len(lop) \in 1..Len(lop)
    BY <1>4, <1>5, <2>1
  <2>3. SalidaDe(f, c, n, Len(lop), <<c[k], j>>)
    BY <1>3, <2>1, <2>2
  <2>4. PICK i \in 1..n : \E x \in DOMAIN f[i].d :
            /\ Apunta(f, i) /\ LazoAbierto(f, n, i, Len(lop))
            /\ f[i].d[x] = "+" /\ <<c[k], j>> = <<c[i], x>>
    BY <2>3 DEF SalidaDe
  <2>5. PICK x \in DOMAIN f[i].d : f[i].d[x] = "+" /\ <<c[k], j>> = <<c[i], x>>
    BY <2>4
  <2>6. k \in 1..Len(f) /\ i \in 1..Len(f)
    BY <1>1, <1>2
  <2>7. k = i /\ j = x
    BY <1>1, <1>7, <2>4, <2>5, <2>6, Distintos
  <2> QED BY <2>4, <2>5, <2>7
<1>8. ASSUME NEW k \in 1..n PROVE Sigue(f, c, k, o, o2, P, v)
  BY ValeMeta
<1>9. ASSUME NEW k \in 1..n, NEW j \in DOMAIN f[k].d, Apunta(f, k) PROVE Meta(f, c, h, o2, lop2, s, k, j)
  <2> DEFINE d == f[k].d[j]
             x == o[c[k] + 1].a[j]
             y == o2[c[k] + 1].a[j]
  <2>1. Meta(f, c, n, o, lop, s, k, j)
    BY <1>9 DEF Metas
  <2>2. y = IF <<c[k], j>> \in P THEN v ELSE x
    BY <1>9, <1>8 DEF Sigue
  <2>3. <<c[k], j>> \in P => d = "+"
    BY <1>7, <1>9
  <2>4. ASSUME d = "+"
        PROVE  \/ \E m \in 1..Len(lop2) : LazoAbierto(f, h, k, m) /\ <<c[k], j>> \in lop2[m].lpos
               \/ \E i \in k+1..h : FinDeLazo(f, k, i) /\ y = FinDe(f, c, i)
    <3>1. CASE \E m \in 1..Len(lop) : LazoAbierto(f, n, k, m) /\ <<c[k], j>> \in lop[m].lpos
      <4>1. PICK m \in 1..Len(lop) : LazoAbierto(f, n, k, m) /\ <<c[k], j>> \in lop[m].lpos
        BY <3>1
      <4>2. CASE m <= Lazos(f, h)
        <5>1. LazoAbierto(f, h, k, m)
          <6>1. Lazos(f, n + 1) >= m
            BY <1>5, <4>2
          <6> QED BY <1>1, <4>1, <6>1, LazoSigue
        <5> QED BY <1>6, <4>1, <4>2, <5>1
      <4>3. CASE ~ (m <= Lazos(f, h))
        <5>1. EsCierra(f[h]) /\ m = Len(lop)
          BY <1>4, <1>5, <4>3
        <5>2. FinDeLazo(f, k, n + 1)
          BY <1>1, <1>3, <4>1, <5>1, LazoSigue
        <5>3. <<c[k], j>> \in P /\ v = FinDe(f, c, h)
          BY <4>1, <5>1 DEF Rellena
        <5>4. h \in k+1..h
          BY <1>2
        <5> QED BY <2>2, <5>2, <5>3, <5>4
      <4> QED BY <4>2, <4>3
    <3>2. CASE \E i \in k+1..n : FinDeLazo(f, k, i) /\ x = FinDe(f, c, i)
      <4>1. PICK i \in k+1..n : FinDeLazo(f, k, i) /\ x = FinDe(f, c, i)
        BY <3>2
      <4>2. <<c[k], j>> \notin P
        BY <1>1, <1>7, <1>9, <4>1, LazoSigue
      <4>3. i \in k+1..h
        BY <1>2
      <4> QED BY <2>2, <4>1, <4>2, <4>3
    <3> QED BY <2>1, <2>4, <3>1, <3>2 DEF Meta
  <2>5. d = "-" => \E i \in 1..k-1 : IniDeLazo(f, k, i) /\ y = c[i]
    BY <2>1, <2>2, <2>3 DEF Meta
  <2>6. d = "|" => y = FinDe(f, c, k)
    BY <2>1, <2>2, <2>3 DEF Meta
  <2>7. d \notin {"+", "-", "|"} => y = (IF d \in DOMAIN s THEN s[d] ELSE 0)
    BY <2>1, <2>2, <2>3 DEF Meta
  <2> QED BY <2>4, <2>5, <2>6, <2>7, Zenon DEF Meta
<1>10. ASSUME NEW j \in DOMAIN f[h].d, Apunta(f, h) PROVE Meta(f, c, h, o2, lop2, s, h, j)
  <2> DEFINE d == f[h].d[j]
             y == o2[c[h] + 1].a[j]
  <2>1. /\ d = "-" => y = lop[Len(lop)].ini
        /\ d = "|" => y = FinDe(f, c, h)
        /\ d \notin {"+", "-", "|"} => y = (IF d \in DOMAIN s THEN s[d] ELSE 0)
    BY <1>10 DEF Pone
  <2>2. d = "-" => \E i \in 1..h-1 : IniDeLazo(f, h, i) /\ y = c[i]
    <3>1. SUFFICES ASSUME d = "-" PROVE \E i \in 1..h-1 : IniDeLazo(f, h, i) /\ y = c[i]
      OBVIOUS
    <3>2. Lazos(f, n) > 0
      BY <1>3, <1>5, <1>10, <3>1
    <3> QED BY <1>1, <2>1, <3>1, <3>2, Inicio
  <2>3. ASSUME d = "+"
        PROVE  \E m \in 1..Len(lop2) : LazoAbierto(f, h, h, m) /\ <<c[h], j>> \in lop2[m].lpos
    <3>1. PICK m : m = Len(lop)
      OBVIOUS
    <3>2. ~ EsAbre(f[h]) /\ ~ EsCierra(f[h])
      BY <1>1, <1>2, <1>10, Ficha
    <3>3. m \in 1..Len(lop) /\ Lazos(f, h) = m
      BY <1>4, <1>5, <1>10, <2>3, <3>1, <3>2
    <3>4. <<c[h], j>> \in Salidas(f, c, h)
      BY <1>10, <2>3 DEF Salidas
    <3>5. PICK S : S = Salidas(f, c, h)
      OBVIOUS
    <3>6. Len(lop2) = Len(lop) /\ lop2[m] = [ini |-> lop[m].ini, lpos |-> lop[m].lpos \cup S]
      BY <3>1, <3>2, <3>3, <3>5 DEF Gira
    <3>7. lop2[m].lpos = lop[m].lpos \cup S
      BY <3>6
    <3>8. LazoAbierto(f, h, h, m)
      BY <1>2, <3>3, LazoNuevo
    <3> QED BY <3>3, <3>4, <3>5, <3>6, <3>7, <3>8
  <2> QED BY <2>1, <2>2, <2>3, Zenon DEF Meta
<1>11. ASSUME NEW k \in 1..n, f[k].op = ")"
       PROVE  \E i \in 1..k-1 : IniDeLazo(f, k, i) /\ o2[c[k] + 1].a[1] = c[i]
  <2>1. PICK i \in 1..k-1 : IniDeLazo(f, k, i) /\ o[c[k] + 1].a[1] = c[i]
    BY <1>11 DEF Metas
  <2>2. EsCierra(f[k])
    BY <1>11 DEF EsCierra
  <2>3. <<c[k], 1>> \notin P
    BY <2>2 DEF Rellena
  <2>4. o2[c[k] + 1].a[1] = o[c[k] + 1].a[1]
    BY <1>8, <2>2, <2>3 DEF Sigue
  <2> QED BY <2>1, <2>4
<1>12. ASSUME f[h].op = ")"
       PROVE  \E i \in 1..h-1 : IniDeLazo(f, h, i) /\ o2[c[h] + 1].a[1] = c[i]
  <2>1. EsCierra(f[h])
    BY <1>12 DEF EsCierra
  <2>2. Lazos(f, n) > 0
    BY <1>3, <1>5, <2>1
  <2>3. o2[c[h] + 1].a[1] = lop[Len(lop)].ini
    BY <2>1 DEF Pone
  <2> QED BY <1>1, <2>2, <2>3, Inicio
<1>13. ASSUME NEW k \in 1..h
       PROVE  /\ Apunta(f, k) => \A j \in DOMAIN f[k].d : Meta(f, c, h, o2, lop2, s, k, j)
              /\ f[k].op = ")" => \E i \in 1..k-1 : IniDeLazo(f, k, i) /\ o2[c[k] + 1].a[1] = c[i]
  <2>1. CASE k = h
    BY <1>10, <1>12, <2>1
  <2>2. CASE k \in 1..n
    BY <1>9, <1>11, <2>2
  <2> QED BY <1>2, <2>1, <2>2
<1> QED BY <1>13 DEF Metas

\* The object after one token more. The last is none of those getins reads.
Listo(f, c, s, n, o, ifl, lop) ==
    /\ BienEscrita(f) /\ Contado(f, c, Len(f)) /\ n \in 0..Len(f)-2
    /\ Hecho(f, c, s, n, o, ifl, lop)
Luego(f, c, s, n, o, ifl, lop, o2, ifl2, lop2, P, v) ==
    /\ Cambia(o, o2, P, v) /\ Len(o2) = FinDe(f, c, n + 1) /\ Figura(f, c, o2, n + 1)
    /\ Llenas(f, c, n, ifl, P, v) /\ ifl2 = Apila(f, c, n + 1, ifl)
    /\ Rellena(f, c, n, lop, P, v) /\ Gira(f, c, n + 1, lop, lop2)
    /\ Pone(f, c, n + 1, o2, lop, s)

\* So a token more leaves the object translated up to it.
LEMMA Paso ==
    ASSUME NEW f, NEW c, NEW s, NEW n, NEW o, NEW ifl, NEW lop, Listo(f, c, s, n, o, ifl, lop),
           NEW o2, NEW ifl2, NEW lop2, NEW P, NEW v, Luego(f, c, s, n, o, ifl, lop, o2, ifl2, lop2, P, v)
    PROVE  Hecho(f, c, s, n + 1, o2, ifl2, lop2)
<1>1. PICK h : h = n + 1
  OBVIOUS
<1>2. /\ BienEscrita(f) /\ Contado(f, c, Len(f)) /\ n \in 0..Len(f)-2
      /\ Hecho(f, c, s, n, o, ifl, lop)
  BY DEF Listo
<1>3. /\ EsObjeto(o) /\ Len(o) = c[n + 1]
      /\ \A k \in 1..n : Figura(f, c, o, k)
      /\ Ramas(f, c, n, o, ifl)
      /\ Vueltas(f, c, n, lop)
      /\ Metas(f, c, n, o, lop, s)
  BY <1>2 DEF Hecho
<1>4. Len(f) \in Nat
  BY <1>2, Escrita
<1>5. n \in 0..Len(f)-1 /\ h \in 1..Len(f)-1 /\ n \in Nat
  BY <1>1, <1>2, <1>4
<1>6. Escritos(f, c, n, o)
  BY <1>2, <1>3, <1>5 DEF Escritos
<1>7. /\ Cambia(o, o2, P, v) /\ Len(o2) = FinDe(f, c, h) /\ Figura(f, c, o2, h)
      /\ Llenas(f, c, n, ifl, P, v) /\ ifl2 = Apila(f, c, h, ifl)
      /\ Rellena(f, c, n, lop, P, v) /\ Gira(f, c, h, lop, lop2)
      /\ Pone(f, c, h, o2, lop, s)
  BY <1>1 DEF Luego
<1>8. Ramas(f, c, h, o2, ifl2)
  <2>1. Ramas(f, c, n + 1, o2, Apila(f, c, n + 1, ifl))
    BY <1>3, <1>6, <1>7, RamasPaso
  <2> QED BY <1>1, <1>7, <2>1
<1>9. Vueltas(f, c, h, lop2)
  BY <1>1, <1>2, <1>3, <1>5, <1>7, VueltasPaso
<1>10. Metas(f, c, h, o2, lop2, s)
  BY <1>1, <1>3, <1>6, <1>7, MetasPaso
<1>11. ASSUME NEW k \in 1..h PROVE Figura(f, c, o2, k)
  <2>1. CASE k = h
    BY <1>7, <2>1
  <2>2. CASE k \in 1..n
    BY <1>6, <1>7, <2>2, ValeMeta DEF Sigue
  <2> QED BY <1>1, <1>5, <2>1, <2>2
<1>12. EsObjeto(o2)
  BY <1>7 DEF Cambia
<1>13. c[h + 1] = FinDe(f, c, h)
  BY <1>2, <1>5 DEF Contado
<1>14. Hecho(f, c, s, h, o2, ifl2, lop2)
  BY <1>7, <1>8, <1>9, <1>10, <1>11, <1>12, <1>13 DEF Hecho
<1> QED BY <1>1, <1>14

\* The tokens with targets: w has their values, and a bar leaves a jump.
Valen(f, c, k, w, lop, s) ==
    /\ DOMAIN f[k].d \subseteq DOMAIN w
    /\ \A j \in DOMAIN f[k].d :
          LET d == f[k].d[j]
          IN  /\ d = "-" => w[j] = lop[Len(lop)].ini
              /\ d = "|" => w[j] = FinDe(f, c, k)
              /\ d \notin {"+", "-", "|"} => w[j] = (IF d \in DOMAIN s THEN s[d] ELSE 0)
\* A token with targets: those known are in the instruction, the rest wait.
LEMMA ConMetas ==
    ASSUME NEW f, NEW c, NEW s, NEW n, NEW o, NEW ifl, NEW lop, Listo(f, c, s, n, o, ifl, lop),
           NEW h, h = n + 1, Apunta(f, h), NEW w, Valen(f, c, h, w, lop, s),
           NEW o2, Cambia(o, o2, {}, 0), Len(o2) = FinDe(f, c, h),
           o2[Len(o) + 1].op = f[h].op, o2[Len(o) + 1].a = w,
           UltimaBarra(f[h]) /\ f[h].op = "y" => DOMAIN w = 1..2,
           UltimaBarra(f[h]) /\ f[h].op # "y" => o2[Len(o) + 2].op = "g" /\ o2[Len(o) + 2].a = << 0 >>,
           NEW lop2, Gira(f, c, h, lop, lop2), NEW ifl2,
           ifl2 = IF UltimaBarra(f[h]) THEN Append(ifl, Brinco(f, c, h)) ELSE ifl
    PROVE  Hecho(f, c, s, h, o2, ifl2, lop2)
<1>1. /\ BienEscrita(f) /\ Contado(f, c, Len(f)) /\ n \in 0..Len(f)-2
      /\ Hecho(f, c, s, n, o, ifl, lop)
  BY DEF Listo
<1>2. Len(o) = c[h]
  BY <1>1 DEF Hecho
<1>3. Len(f) \in Nat
  BY <1>1, Escrita
<1>4. h \in 1..Len(f)
  BY <1>1, <1>3
<1>5. ~ EsPunto(f[h]) /\ ~ EsAbre(f[h]) /\ ~ EsCierra(f[h]) /\ f[h].op # "|" /\ f[h].op # ")"
  BY <1>1, <1>4, Ficha DEF EsCierra
<1>6. Figura(f, c, o2, h)
  <2>1. DOMAIN f[h].d \subseteq DOMAIN w
    BY DEF Valen
  <2>2. Una(<<0>>)
    BY DEF Una
  <2> QED BY <1>2, <1>5, <2>1, <2>2 DEF Figura
<1>7. Llenas(f, c, n, ifl, {}, 0)
  BY <1>5 DEF Llenas
<1>8. Rellena(f, c, n, lop, {}, 0)
  BY <1>5 DEF Rellena
<1>9. Pone(f, c, h, o2, lop, s)
  BY <1>2, <1>5 DEF Pone, Valen
<1>10. ifl2 = Apila(f, c, h, ifl)
  BY <1>5 DEF Apila, Resto, EsRama
<1>11. Luego(f, c, s, n, o, ifl, lop, o2, ifl2, lop2, {}, 0)
  BY <1>6, <1>7, <1>8, <1>9, <1>10 DEF Luego
<1> QED BY <1>11, Paso

\* The jump on top of a stack is of its kind.
LEMMA CimaRama ==
    ASSUME NEW f, NEW c, NEW s, NEW n, NEW o, NEW ifl, NEW lop, Listo(f, c, s, n, o, ifl, lop), ifl # <<>>,
           NEW k \in 1..n
    PROVE  /\ \A j \in DOMAIN f[k].d : Apunta(f, k) => <<c[k], j>> # ifl[Len(ifl)]
           /\ EsCierra(f[k]) => <<c[k], 1>> # ifl[Len(ifl)]
<1>1. BienEscrita(f) /\ Contado(f, c, Len(f)) /\ n \in 0..Len(f)-2
  BY DEF Listo
<1>2. /\ EsSeq(ifl)
      /\ \A m \in 1..Len(ifl) : \E i \in 1..n : RamaAbierta(f, n, i, m) /\ ifl[m] = Brinco(f, c, i)
  BY DEF Listo, Hecho, Ramas
<1>3. Len(f) \in Nat
  BY <1>1, Escrita
<1>4. Len(ifl) \in 1..Len(ifl)
  BY <1>2 DEF EsSeq
<1>5. PICK i \in 1..n : EsRama(f, i) /\ ifl[Len(ifl)] = Brinco(f, c, i)
  BY <1>2, <1>4 DEF RamaAbierta
<1>6. i \in 1..Len(f) /\ k \in 1..Len(f)
  BY <1>1, <1>3
<1> QED BY <1>1, <1>5, <1>6, Distintos

\* A jump out of a loop is at no place where a branch or a loop is filled.
LEMMA CimaLazo ==
    ASSUME NEW f, NEW c, NEW s, NEW n, NEW o, NEW ifl, NEW lop, Listo(f, c, s, n, o, ifl, lop), lop # <<>>,
           NEW p \in lop[Len(lop)].lpos, NEW k \in 1..n+1
    PROVE  /\ EsCierra(f[k]) => p # <<c[k], 1>>
           /\ EsRama(f, k) => p # Brinco(f, c, k)
<1>1. BienEscrita(f) /\ Contado(f, c, Len(f)) /\ n \in 0..Len(f)-2
  BY DEF Listo
<1>2. EsSeq(lop) /\ \A m \in 1..Len(lop) : \A q \in lop[m].lpos : SalidaDe(f, c, n, m, q)
  BY DEF Listo, Hecho, Vueltas
<1>3. Len(f) \in Nat
  BY <1>1, Escrita
<1>4. Len(lop) \in 1..Len(lop)
  BY <1>2 DEF EsSeq
<1>5. SalidaDe(f, c, n, Len(lop), p)
  BY <1>2, <1>4
<1>6. PICK i \in 1..n : \E j \in DOMAIN f[i].d : Apunta(f, i) /\ p = <<c[i], j>>
  BY <1>5 DEF SalidaDe
<1>7. PICK j \in DOMAIN f[i].d : Apunta(f, i) /\ p = <<c[i], j>>
  BY <1>6
<1>8. i \in 1..Len(f) /\ k \in 1..Len(f)
  BY <1>1, <1>3
<1> QED BY <1>1, <1>7, <1>8, Distintos

\* The tokens that are no instruction, the dot apart.
LEMMA SinCodigo ==
    ASSUME NEW f, NEW c, NEW s, NEW n, NEW o, NEW ifl, NEW lop, Listo(f, c, s, n, o, ifl, lop),
           NEW h, h = n + 1, f[h].op \in SinInstruccion, ~ EsPunto(f[h]),
           NEW lop2, Gira(f, c, h, lop, lop2)
    PROVE  Hecho(f, c, s, h, o, ifl, lop2)
<1>1. /\ BienEscrita(f) /\ Contado(f, c, Len(f)) /\ n \in 0..Len(f)-2
      /\ EsObjeto(o) /\ Len(o) = c[h]
  BY DEF Listo, Hecho
<1>2. Len(f) \in Nat
  BY <1>1, Escrita
<1>3. h \in 1..Len(f)
  BY <1>1, <1>2
<1>4. /\ ~ Apunta(f, h) /\ f[h].op # "|" /\ ~ EsCierra(f[h]) /\ ~ UltimaBarra(f[h])
      /\ Cuantas(f[h]) = 0 /\ f[h].op # ")"
  BY <1>1, <1>3, Ficha DEF EsCierra
<1>5. Cambia(o, o, {}, 0)
  <2>1. Len(o) \in Nat
    BY <1>1 DEF EsObjeto, EsSeq
  <2> QED BY <1>1, <2>1 DEF Cambia
<1>6. Len(o) = FinDe(f, c, h)
  <2>1. Len(o) \in Nat
    BY <1>1 DEF EsObjeto, EsSeq
  <2> QED BY <1>1, <1>4, <2>1 DEF FinDe
<1>7. Figura(f, c, o, h)
  BY <1>4 DEF Figura
<1>8. Llenas(f, c, n, ifl, {}, 0)
  BY <1>4 DEF Llenas
<1>9. Rellena(f, c, n, lop, {}, 0)
  BY <1>4 DEF Rellena
<1>10. Pone(f, c, h, o, lop, s)
  BY <1>4 DEF Pone
<1>11. ifl = Apila(f, c, h, ifl)
  BY <1>4 DEF Apila, Resto, EsRama
<1>12. Luego(f, c, s, n, o, ifl, lop, o, ifl, lop2, {}, 0)
  BY <1>5, <1>6, <1>7, <1>8, <1>9, <1>10, <1>11 DEF Luego
<1> QED BY <1>12, Paso

\* A loop stack that a token leaves alone.
LEMMA SinGiro ==
    ASSUME NEW f, NEW c, NEW s, NEW n, NEW o, NEW ifl, NEW lop, Listo(f, c, s, n, o, ifl, lop),
           NEW h, ~ EsAbre(f[h]), ~ EsCierra(f[h]), Salidas(f, c, h) = {}
    PROVE  Gira(f, c, h, lop, lop)
<1>1. EsSeq(lop) /\ \A m \in 1..Len(lop) : \E w, S : lop[m] = [ini |-> w, lpos |-> S]
  BY DEF Listo, Hecho, Vueltas
<1>2. ASSUME NEW m \in 1..Len(lop) PROVE lop[m] = [ini |-> lop[m].ini, lpos |-> lop[m].lpos]
  <2>1. PICK w, S : lop[m] = [ini |-> w, lpos |-> S]
    BY <1>1
  <2>2. lop[m].ini = w /\ lop[m].lpos = S
    BY <2>1
  <2> QED BY <2>1, <2>2
<1>3. ASSUME NEW m \in 1..Len(lop)
      PROVE  lop[m] = [ini |-> lop[m].ini,
                       lpos |-> lop[m].lpos \cup (IF m = Len(lop) THEN Salidas(f, c, h) ELSE {})]
  <2>1. lop[m].lpos \cup (IF m = Len(lop) THEN Salidas(f, c, h) ELSE {}) = lop[m].lpos
    OBVIOUS
  <2> QED BY <1>2, <2>1
<1> QED BY <1>1, <1>3 DEF Gira

\* The dot.
LEMMA ConPunto ==
    ASSUME NEW f, NEW c, NEW s, NEW n, NEW o, NEW ifl, NEW lop, Listo(f, c, s, n, o, ifl, lop),
           NEW h, h = n + 1, EsPunto(f[h]), ifl # <<>>,
           NEW v, v = Len(o), NEW o2, o2 = Llena(o, {ifl[Len(ifl)]}, v)
    PROVE  Hecho(f, c, s, h, o2, Quita(ifl), lop)
<1>1. /\ BienEscrita(f) /\ Contado(f, c, Len(f)) /\ n \in 0..Len(f)-2
      /\ EsObjeto(o) /\ Len(o) = c[h]
  BY DEF Listo, Hecho
<1>2. Len(f) \in Nat
  BY <1>1, Escrita
<1>3. h \in 1..Len(f)
  BY <1>1, <1>2
<1>4. f[h].op \in SinInstruccion
  BY <1>1, <1>3, Ficha
<1>5. /\ ~ Apunta(f, h) /\ f[h].op # "|" /\ ~ EsCierra(f[h]) /\ ~ UltimaBarra(f[h])
      /\ Cuantas(f[h]) = 0 /\ f[h].op # ")" /\ ~ EsAbre(f[h])
  BY <1>1, <1>3, <1>4, Ficha DEF EsCierra
<1>6. PICK P : P = {ifl[Len(ifl)]}
  OBVIOUS
<1>7. Cambia(o, o2, P, v) /\ Len(o2) = Len(o)
  BY <1>1, <1>6, ObjetoLleno
<1>8. v = FinDe(f, c, h)
  <2>1. Len(o) \in Nat
    BY <1>1 DEF EsObjeto, EsSeq
  <2> QED BY <1>1, <1>5, <2>1 DEF FinDe
<1>9. Figura(f, c, o2, h)
  BY <1>5 DEF Figura
<1>10. Llenas(f, c, n, ifl, P, v)
  BY <1>6, <1>8 DEF Llenas
<1>11. Rellena(f, c, n, lop, P, v)
  BY <1>5, <1>6, CimaRama DEF Rellena
<1>12. Pone(f, c, h, o2, lop, s)
  BY <1>5 DEF Pone
<1>13. Quita(ifl) = Apila(f, c, h, ifl)
  BY <1>5 DEF Apila, Resto, EsRama
<1>14. Gira(f, c, h, lop, lop)
  BY <1>5, SinGiro DEF Salidas
<1>15. Luego(f, c, s, n, o, ifl, lop, o2, Quita(ifl), lop, P, v)
  BY <1>7, <1>8, <1>9, <1>10, <1>11, <1>12, <1>13, <1>14 DEF Luego
<1> QED BY <1>15, Paso

\* The bar between then and else.
LEMMA ConBarra ==
    ASSUME NEW f, NEW c, NEW s, NEW n, NEW o, NEW ifl, NEW lop, Listo(f, c, s, n, o, ifl, lop),
           NEW h, h = n + 1, f[h].op = "|", ifl # <<>>, NEW v, v = Len(o) + 1,
           NEW o1, o1 = Llena(o, {ifl[Len(ifl)]}, v), NEW o2, o2 = Append(o1, Ins("g", << 0 >>, 0))
    PROVE  Hecho(f, c, s, h, o2, Append(Quita(ifl), <<Len(o), 1>>), lop)
<1>1. /\ BienEscrita(f) /\ Contado(f, c, Len(f)) /\ n \in 0..Len(f)-2
      /\ EsObjeto(o) /\ Len(o) = c[h]
  BY DEF Listo, Hecho
<1>2. Len(f) \in Nat
  BY <1>1, Escrita
<1>3. h \in 1..Len(f)
  BY <1>1, <1>2
<1>4. ~ EsPunto(f[h]) /\ ~ EsAbre(f[h]) /\ ~ EsCierra(f[h]) /\ Cuantas(f[h]) = 1
  BY <1>1, <1>3, Ficha
<1>5. ~ Apunta(f, h) /\ ~ UltimaBarra(f[h]) /\ EsRama(f, h)
  BY <1>1, <1>3, Ficha DEF EsRama
<1>6. PICK P : P = {ifl[Len(ifl)]}
  OBVIOUS
<1>7. Cambia(o, o1, P, v) /\ Len(o1) = Len(o)
  BY <1>1, <1>6, ObjetoLleno
<1>8. EsObjeto(o1)
  BY <1>7 DEF Cambia
<1>9. /\ Cambia(o1, o2, {}, 0) /\ Len(o2) = Len(o1) + 1
      /\ o2[Len(o1) + 1].op = "g" /\ o2[Len(o1) + 1].a = <<0>>
  <2>1. Agrega(o1, o2, "g", <<0>>)
    BY <1>8, Agregado
  <2> QED BY <2>1 DEF Agrega
<1>10. Cambia(o, o2, P, v)
  BY <1>1, <1>7, <1>9, CambiaDos
<1>11. v = FinDe(f, c, h) /\ Len(o2) = FinDe(f, c, h)
  BY <1>1, <1>4, <1>7, <1>9 DEF FinDe
<1>12. Figura(f, c, o2, h)
  <2>1. Una(<<0>>)
    BY DEF Una
  <2>2. o2[c[h] + 1].op = "g" /\ Una(o2[c[h] + 1].a)
    BY <1>1, <1>7, <1>9, <2>1
  <2> QED BY <1>5, <2>2 DEF Figura
<1>13. Llenas(f, c, n, ifl, P, v)
  BY <1>6, <1>11 DEF Llenas
<1>14. Rellena(f, c, n, lop, P, v)
  BY <1>4, <1>6, CimaRama DEF Rellena
<1>15. Pone(f, c, h, o2, lop, s)
  BY <1>4, <1>5 DEF Pone
<1>16. Append(Quita(ifl), <<Len(o), 1>>) = Apila(f, c, h, ifl)
  <2>1. Brinco(f, c, h) = <<Len(o), 1>>
    BY <1>1 DEF Brinco
  <2> QED BY <1>5, <2>1 DEF Apila, Resto
<1>17. Gira(f, c, h, lop, lop)
  BY <1>4, <1>5, SinGiro DEF Salidas
<1>18. Luego(f, c, s, n, o, ifl, lop, o2, Append(Quita(ifl), <<Len(o), 1>>), lop, P, v)
  BY <1>10, <1>11, <1>12, <1>13, <1>14, <1>15, <1>16, <1>17 DEF Luego
<1> QED BY <1>18, Paso

\* The end of a loop.
LEMMA ConCierre ==
    ASSUME NEW f, NEW c, NEW s, NEW n, NEW o, NEW ifl, NEW lop, Listo(f, c, s, n, o, ifl, lop),
           NEW h, h = n + 1, EsCierra(f[h]), lop # <<>>, NEW v, v = Len(o) + 1,
           NEW o1, o1 = Append(o, Ins("g", <<lop[Len(lop)].ini>>, 0)),
           NEW o2, o2 = Llena(o1, lop[Len(lop)].lpos, v)
    PROVE  Hecho(f, c, s, h, o2, ifl, Quita(lop))
<1>1. /\ BienEscrita(f) /\ Contado(f, c, Len(f)) /\ n \in 0..Len(f)-2
      /\ EsObjeto(o) /\ Len(o) = c[h]
  BY DEF Listo, Hecho
<1>2. Len(f) \in Nat /\ n \in Nat
  BY <1>1, Escrita
<1>3. h \in 1..Len(f) /\ h \in 1..n+1 /\ 1..n \subseteq 1..n+1
  BY <1>1, <1>2
<1>4. ~ EsPunto(f[h]) /\ ~ EsAbre(f[h]) /\ Cuantas(f[h]) = 1
  BY <1>1, <1>3, Ficha
<1>5. ~ Apunta(f, h) /\ ~ UltimaBarra(f[h]) /\ f[h].op # "|"
  BY <1>1, <1>3, Ficha
<1>6. PICK P : P = lop[Len(lop)].lpos
  OBVIOUS
<1>7. PICK w : w = <<lop[Len(lop)].ini>>
  OBVIOUS
<1>8. /\ Cambia(o, o1, {}, 0) /\ Len(o1) = Len(o) + 1
      /\ o1[Len(o) + 1].op = "g" /\ o1[Len(o) + 1].a = w
  BY <1>1, <1>7, ObjetoMas
<1>9. EsObjeto(o1)
  BY <1>8 DEF Cambia
<1>10. Cambia(o1, o2, P, v) /\ Len(o2) = Len(o1)
  BY <1>6, <1>9, ObjetoLleno
<1>11. Cambia(o, o2, P, v)
  BY <1>1, <1>8, <1>10, CambiaLuego
<1>12. v = FinDe(f, c, h) /\ Len(o2) = FinDe(f, c, h)
  BY <1>1, <1>4, <1>8, <1>10 DEF FinDe
<1>13. ASSUME NEW k \in 1..n+1
       PROVE  /\ EsCierra(f[k]) => <<c[k], 1>> \notin P
              /\ EsRama(f, k) => Brinco(f, c, k) \notin P
  BY <1>6, CimaLazo
<1>14. PICK q : q = Len(o) + 1
  OBVIOUS
<1>15. q \in 1..Len(o1) /\ q - 1 = c[h] /\ q = c[h] + 1
  <2>1. Len(o) \in Nat
    BY <1>1 DEF EsObjeto, EsSeq
  <2> QED BY <1>1, <1>8, <1>14, <2>1
<1>16. Una(w) /\ 1 \in DOMAIN w /\ w[1] = lop[Len(lop)].ini
  BY <1>7 DEF Una
<1>17. o2[q].op = "g" /\ Una(o2[q].a) /\ o2[q].a[1] = w[1]
  <2>1. /\ o2[q].op = o1[q].op
        /\ Una(o1[q].a) => Una(o2[q].a)
        /\ \A j \in DOMAIN o1[q].a : o2[q].a[j] = IF <<q - 1, j>> \in P THEN v ELSE o1[q].a[j]
    BY <1>10, <1>15 DEF Cambia
  <2>2. <<q - 1, 1>> \notin P
    BY <1>3, <1>13, <1>15
  <2> QED BY <1>8, <1>14, <1>16, <2>1, <2>2
<1>18. Figura(f, c, o2, h)
  BY <1>5, <1>15, <1>17 DEF Figura
<1>19. Llenas(f, c, n, ifl, P, v)
  BY <1>3, <1>4, <1>5, <1>13 DEF Llenas
<1>20. Rellena(f, c, n, lop, P, v)
  BY <1>3, <1>6, <1>12, <1>13 DEF Rellena
<1>21. Pone(f, c, h, o2, lop, s)
  BY <1>5, <1>15, <1>16, <1>17 DEF Pone
<1>22. ifl = Apila(f, c, h, ifl)
  BY <1>4, <1>5 DEF Apila, Resto, EsRama
<1>23. Gira(f, c, h, lop, Quita(lop))
  BY <1>4 DEF Gira
<1>24. Luego(f, c, s, n, o, ifl, lop, o2, ifl, Quita(lop), P, v)
  BY <1>11, <1>12, <1>18, <1>19, <1>20, <1>21, <1>22, <1>23 DEF Luego
<1> QED BY <1>24, Paso

-----------------------------------------------------------------------------
(* The first pass *)

\* One token more is counted,
Cuenta(f, c, n, x, c2) ==
    /\ Contado(f, c2, n + 1) /\ FinDe(f, c2, n + 1) = x + Cuantas(f[n + 1])
    /\ c2[n + 1] = x /\ \A k \in 1..n : c2[k] = c[k]
\* The counts with a token more.
LEMMA ContadoMas ==
    ASSUME NEW f, NEW c, NEW n \in Nat, Contado(f, c, n), \A k \in 1..n+1 : Cuantas(f[k]) \in Nat,
           NEW x, x = IF n = 0 THEN 0 ELSE FinDe(f, c, n), NEW c2, c2 = Append(c, x)
    PROVE  Cuenta(f, c, n, x, c2)
<1>1. /\ c \in Seq(Nat) /\ Len(c) = n
      /\ n > 0 => c[1] = 0
      /\ \A k \in 1..n-1 : c[k + 1] = FinDe(f, c, k)
      /\ \A k, j \in 1..n : k < j => FinDe(f, c, k) <= c[j]
  BY DEF Contado
<1>2. x \in Nat
  <2>1. CASE n = 0
    BY <2>1
  <2>2. CASE n # 0
    <3>1. n \in 1..n /\ c[n] \in Nat /\ Cuantas(f[n]) \in Nat
      BY <1>1, <2>2
    <3> QED BY <2>2, <3>1 DEF FinDe
  <2> QED BY <2>1, <2>2
<1>3. c2 \in Seq(Nat) /\ Len(c2) = n + 1 /\ c2[n + 1] = x /\ \A k \in 1..n : c2[k] = c[k]
  BY <1>1, <1>2
<1>4. \A k \in 1..n : FinDe(f, c2, k) = FinDe(f, c, k) /\ FinDe(f, c, k) \in Nat /\ c[k] \in Nat
  BY <1>1, <1>3 DEF FinDe
<1>5. c2[1] = 0
  <2>1. CASE n = 0
    BY <1>3, <2>1
  <2>2. CASE n # 0
    BY <1>1, <1>3, <2>2
  <2> QED BY <2>1, <2>2
<1>6. ASSUME NEW k \in 1..n PROVE c2[k + 1] = FinDe(f, c2, k)
  <2>1. CASE k = n
    BY <1>3, <1>4, <2>1
  <2>2. CASE k \in 1..n-1
    <3>1. k + 1 \in 1..n
      BY <2>2
    <3> QED BY <1>1, <1>3, <1>4, <2>2, <3>1
  <2>3. k = n \/ k \in 1..n-1
    OBVIOUS
  <2> QED BY <2>1, <2>2, <2>3
<1>7. ASSUME NEW k \in 1..n+1, NEW j \in 1..n+1, k < j PROVE FinDe(f, c2, k) <= c2[j]
  <2>1. k \in 1..n
    BY <1>7
  <2>2. CASE j \in 1..n
    BY <1>1, <1>3, <1>4, <1>7, <2>1, <2>2
  <2>3. CASE j = n + 1
    <3>1. x = FinDe(f, c, n) /\ n \in 1..n
      BY <2>1
    <3>2. CASE k = n
      BY <1>3, <1>4, <2>1, <2>3, <3>1, <3>2
    <3>3. CASE k < n
      <4>1. FinDe(f, c, k) <= c[n]
        BY <1>1, <2>1, <3>1, <3>3
      <4>2. c[n] <= FinDe(f, c, n)
        BY <1>1, <3>1 DEF FinDe
      <4>3. FinDe(f, c, k) \in Nat /\ c[n] \in Nat /\ FinDe(f, c, n) \in Nat
        BY <1>4, <2>1, <3>1
      <4>4. FinDe(f, c, k) <= x
        BY <3>1, <4>1, <4>2, <4>3
      <4> QED BY <1>3, <1>4, <2>1, <2>3, <4>4
    <3>4. k = n \/ k < n
      BY <2>1
    <3> QED BY <3>2, <3>3, <3>4
  <2>4. j \in 1..n \/ j = n + 1
    OBVIOUS
  <2> QED BY <2>2, <2>3, <2>4
<1>8. FinDe(f, c2, n + 1) = x + Cuantas(f[n + 1])
  BY <1>3 DEF FinDe
<1>9. Contado(f, c2, n + 1)
  <2>1. c2 \in Seq(Nat) /\ Len(c2) = n + 1 /\ (n + 1) - 1 = n
    BY <1>3
  <2>2. \A k \in 1..(n + 1) - 1 : c2[k + 1] = FinDe(f, c2, k)
    BY <1>6, <2>1
  <2>3. \A k, j \in 1..n + 1 : k < j => FinDe(f, c2, k) <= c2[j]
    BY <1>7
  <2> QED BY <1>5, <2>1, <2>2, <2>3 DEF Contado
<1> QED BY <1>3, <1>8, <1>9 DEF Cuenta

\* and its label kept, if it is new.
LEMMA EtiquetadoMas ==
    ASSUME NEW f, NEW c, NEW n \in Nat, NEW s, Etiquetado(f, c, n, s), NEW x, NEW c2,
           c2[n + 1] = x, \A k \in 1..n : c2[k] = c[k], NEW s2,
           s2 = IF f[n + 1].op = "[" THEN ConNombre(s, f[n + 1].x, x) ELSE s
    PROVE  Etiquetado(f, c2, n + 1, s2)
<1>1. PICK h : h = n + 1
  OBVIOUS
<1>2. PICK l : l = f[h].x
  OBVIOUS
<1>3. /\ \A k \in 1..n : f[k].op = "[" => f[k].x \in DOMAIN s
      /\ \A m \in DOMAIN s : \E k \in 1..n :
            /\ f[k].op = "[" /\ f[k].x = m /\ s[m] = c[k]
            /\ \A i \in 1..k-1 : ~ (f[i].op = "[" /\ f[i].x = m)
  BY DEF Etiquetado
<1>4. \A m \in DOMAIN s : \E k \in 1..h :
          /\ f[k].op = "[" /\ f[k].x = m /\ s[m] = c2[k]
          /\ \A i \in 1..k-1 : ~ (f[i].op = "[" /\ f[i].x = m)
  <2>1. \A k \in 1..n : k \in 1..h /\ c2[k] = c[k]
    BY <1>1
  <2> QED BY <1>3, <2>1
<1>5. CASE f[h].op = "[" /\ l \notin DOMAIN s
  <2>1. s2 = [m \in DOMAIN s \cup {l} |-> IF m = l THEN x ELSE s[m]]
    BY <1>1, <1>2, <1>5 DEF ConNombre
  <2>2. DOMAIN s2 = DOMAIN s \cup {l} /\ s2[l] = x /\ \A m \in DOMAIN s : s2[m] = s[m]
    BY <1>5, <2>1
  <2>3. ASSUME NEW k \in 1..h, f[k].op = "[" PROVE f[k].x \in DOMAIN s2
    <3>1. k \in 1..n \/ k = h
      BY <1>1
    <3> QED BY <1>2, <1>3, <2>2, <2>3, <3>1
  <2>4. \E k \in 1..h : /\ f[k].op = "[" /\ f[k].x = l /\ s2[l] = c2[k]
                        /\ \A i \in 1..k-1 : ~ (f[i].op = "[" /\ f[i].x = l)
    <3>1. h \in 1..h /\ c2[h] = x /\ h - 1 = n
      BY <1>1
    <3>2. \A i \in 1..n : ~ (f[i].op = "[" /\ f[i].x = l)
      BY <1>3, <1>5
    <3> QED BY <1>2, <1>5, <2>2, <3>1, <3>2
  <2>5. ASSUME NEW m \in DOMAIN s2
        PROVE  \E k \in 1..h : /\ f[k].op = "[" /\ f[k].x = m /\ s2[m] = c2[k]
                               /\ \A i \in 1..k-1 : ~ (f[i].op = "[" /\ f[i].x = m)
    <3>1. CASE m = l
      BY <2>4, <3>1
    <3>2. CASE m \in DOMAIN s
      BY <1>4, <2>2, <3>2
    <3> QED BY <2>2, <3>1, <3>2
  <2> QED BY <1>1, <2>3, <2>5 DEF Etiquetado
<1>6. CASE ~ (f[h].op = "[" /\ l \notin DOMAIN s)
  <2>1. s2 = s
    BY <1>1, <1>2, <1>6 DEF ConNombre
  <2>2. ASSUME NEW k \in 1..h, f[k].op = "[" PROVE f[k].x \in DOMAIN s
    <3>1. k \in 1..n \/ k = h
      BY <1>1
    <3> QED BY <1>2, <1>3, <1>6, <2>2, <3>1
  <2> QED BY <1>1, <1>4, <2>1, <2>2 DEF Etiquetado
<1> QED BY <1>5, <1>6

-----------------------------------------------------------------------------
(* The inductive invariant *)

\* What the first pass has counted of n tokens, and what the second has written of them.
Numerado(f, c, s, n, x) ==
    Contado(f, c, n) /\ Etiquetado(f, c, n, s) /\ x = IF n = 0 THEN 0 ELSE FinDe(f, c, n)
Traducido(f, c, s, n, o, ifl, lop) ==
    Contado(f, c, Len(f)) /\ Etiquetado(f, c, Len(f), s) /\ Hecho(f, c, s, n, o, ifl, lop)

Compilado ==
    /\ trabajo \in Trabajos /\ pase \in {1, 2}
    /\ cual # Nada =>
          /\ cual \in DOMAIN trabajo /\ tok \in 1..Len(src) /\ markif = FALSE
          /\ pase = 1 => Numerado(src, cuenta, sym, tok - 1, instr) /\ cod = <<>> /\ ifloc = <<>> /\ loop = <<>>
          /\ pase = 2 => Traducido(src, cuenta, sym, tok - 1, cod, ifloc, loop)

\* Every source is well written.
LEMMA Fuente ==
    ASSUME Compilado, cual # Nada
    PROVE  BienEscrita(src) /\ Len(src) \in Nat \ {0} /\ tok \in 1..Len(src)
<1>1. trabajo \in Trabajos /\ cual \in DOMAIN trabajo /\ tok \in 1..Len(src)
  BY DEF Compilado
<1>2. BienEscrita(src)
  BY <1>1, FuentesBienEscritas, Zenon DEF src
<1> QED BY <1>1, <1>2, Escrita

\* A source that starts has nothing counted nor written.
LEMMA Empieza ==
    ASSUME NEW f, BienEscrita(f)
    PROVE  /\ Numerado(f, <<>>, NoFunc, 0, 0)
           /\ \A c, s : Contado(f, c, Len(f)) => Hecho(f, c, s, 0, <<>>, <<>>, <<>>)
<1>1. 1..0 = {} /\ <<>> \in Seq(Nat) /\ Len(<<>>) = 0 /\ ~ (0 > 0) /\ 1..0-1 = {}
  OBVIOUS
<1>2. Contado(f, <<>>, 0)
  BY <1>1 DEF Contado
<1>3. Etiquetado(f, <<>>, 0, NoFunc)
  BY <1>1 DEF Etiquetado, NoFunc
<1>4. Ifs(f, 0) = 0 /\ Lazos(f, 0) = 0
  BY IfsMas, LazosMas
<1>5. EsObjeto(<<>>)
  BY <1>1, VaciaEsSeq DEF EsObjeto
<1>6. ASSUME NEW c, NEW s, Contado(f, c, Len(f)) PROVE Hecho(f, c, s, 0, <<>>, <<>>, <<>>)
  <2>1. c[0 + 1] = 0
    BY <1>6, Escrita DEF Contado
  <2>2. Ramas(f, c, 0, <<>>, <<>>)
    BY <1>1, <1>4, VaciaEsSeq DEF Ramas
  <2>3. Vueltas(f, c, 0, <<>>)
    BY <1>1, <1>4, VaciaEsSeq DEF Vueltas
  <2>4. Metas(f, c, 0, <<>>, <<>>, s)
    BY <1>1 DEF Metas
  <2> QED BY <1>1, <1>5, <2>1, <2>2, <2>3, <2>4 DEF Hecho
<1> QED BY <1>2, <1>3, <1>6 DEF Numerado

-----------------------------------------------------------------------------
(* The actions *)

\* A token that getins reads, which is not the last, comes to the lemmas above.
LEMMA Lee ==
    ASSUME Compilado, pase = 2, cual # Nada, ~ EsFinal(t)
    PROVE  /\ Listo(src, cuenta, sym, tok - 1, cod, ifloc, loop)
           /\ tok = (tok - 1) + 1 /\ tok \in 1..Len(src) /\ tok + 1 \in 1..Len(src) /\ BienEscrita(src)
           /\ EsObjeto(cod) /\ pins = cuenta[tok] /\ pins \in Nat /\ markif = FALSE
<1>1. BienEscrita(src) /\ Len(src) \in Nat \ {0} /\ tok \in 1..Len(src)
  BY Fuente
<1>2. markif = FALSE /\ Traducido(src, cuenta, sym, tok - 1, cod, ifloc, loop)
  BY DEF Compilado
<1>3. Contado(src, cuenta, Len(src)) /\ Hecho(src, cuenta, sym, tok - 1, cod, ifloc, loop)
  BY <1>2 DEF Traducido
<1>4. tok # Len(src)
  BY <1>1, Escrita DEF t
<1>5. tok = (tok - 1) + 1 /\ tok + 1 \in 1..Len(src) /\ tok - 1 \in 0..Len(src)-2
  BY <1>1, <1>4
<1>6. Listo(src, cuenta, sym, tok - 1, cod, ifloc, loop)
  BY <1>1, <1>3, <1>5 DEF Listo
<1>7. EsObjeto(cod) /\ Len(cod) = cuenta[tok]
  BY <1>3, <1>5 DEF Hecho
<1>8. Len(cod) \in Nat
  BY <1>7 DEF EsObjeto, EsSeq
<1> QED BY <1>1, <1>2, <1>5, <1>6, <1>7, <1>8 DEF pins

\* And what they say of the next state keeps the invariant.
LEMMA Sigamos ==
    ASSUME Compilado, Pasa2, Sigue2, tok + 1 \in 1..Len(src), markif' = FALSE,
           Hecho(src, cuenta, sym, tok, cod', ifloc', loop')
    PROVE  Compilado'
<1>1. /\ trabajo' = trabajo /\ cual' = cual /\ pase' = 2 /\ pase = 2 /\ sym' = sym /\ cuenta' = cuenta
      /\ tok' = tok + 1 /\ cual # Nada
  BY DEF Pasa2, Sigue2
<1>2. src' = src
  BY <1>1 DEF src
<1>3. trabajo \in Trabajos /\ cual \in DOMAIN trabajo /\ tok \in 1..Len(src)
  BY <1>1 DEF Compilado
<1>4. Contado(src, cuenta, Len(src)) /\ Etiquetado(src, cuenta, Len(src), sym)
  BY <1>1 DEF Compilado, Traducido
<1>5. tok' - 1 = tok
  BY <1>1, <1>3
<1>6. Traducido(src', cuenta', sym', tok' - 1, cod', ifloc', loop')
  BY <1>1, <1>2, <1>4, <1>5 DEF Traducido
<1> QED BY <1>1, <1>2, <1>3, <1>6 DEF Compilado

\* The loops after a token with targets.
LEMMA Giran ==
    ASSUME Compilado, pase = 2, cual # Nada, ~ EsFinal(t), Apunta(src, tok)
    PROVE  Gira(src, cuenta, tok, loop, ConSalidas(t.d))
<1>1. /\ Listo(src, cuenta, sym, tok - 1, cod, ifloc, loop)
      /\ tok \in 1..Len(src) /\ BienEscrita(src) /\ pins = cuenta[tok]
  BY Lee
<1>2. PICK f : f = src
  OBVIOUS
<1>3. PICK c : c = cuenta
  OBVIOUS
<1>4. PICK S : S = Salidas(f, c, tok)
  OBVIOUS
<1>5. Sale(t.d) = S
  BY <1>1, <1>2, <1>3, <1>4 DEF Sale, Salidas, t
<1>6. ~ EsAbre(f[tok]) /\ ~ EsCierra(f[tok])
  BY <1>1, <1>2, Ficha
<1>7. EsSeq(loop) /\ \A m \in 1..Len(loop) : \E w, A : loop[m] = [ini |-> w, lpos |-> A]
  BY <1>1 DEF Listo, Hecho, Vueltas
<1>8. CASE S = {}
  <2>1. ConSalidas(t.d) = loop
    BY <1>5, <1>8 DEF ConSalidas
  <2> QED BY <1>1, <1>2, <1>3, <1>4, <1>6, <1>8, <2>1, SinGiro
<1>9. CASE S # {}
  <2>1. PICK lop : lop = ConSalidas(t.d)
    OBVIOUS
  <2>2. lop = [loop EXCEPT ![Len(loop)].lpos = @ \cup S]
    BY <1>5, <1>9, <2>1 DEF ConSalidas
  <2>3. PICK T : loop \in Seq(T)
    BY <1>7 DEF EsSeq
  <2>4. Len(loop) \in Nat /\ DOMAIN loop = 1..Len(loop)
    BY <2>3
  <2>5. lop = [m \in 1..Len(loop) |->
                 IF m = Len(loop) THEN [loop[m] EXCEPT !.lpos = @ \cup S] ELSE loop[m]]
    BY <2>2, <2>4
  <2>6. ASSUME NEW m \in 1..Len(loop)
        PROVE  lop[m] = [ini |-> loop[m].ini, lpos |-> loop[m].lpos \cup (IF m = Len(loop) THEN S ELSE {})]
    <3>1. PICK w, A : loop[m] = [ini |-> w, lpos |-> A]
      BY <1>7
    <3>2. loop[m].ini = w /\ loop[m].lpos = A
      BY <3>1
    <3>3. lop[m] = IF m = Len(loop) THEN [loop[m] EXCEPT !.lpos = @ \cup S] ELSE loop[m]
      BY <2>5
    <3>4. CASE m = Len(loop)
      <4>1. lop[m] = [ini |-> w, lpos |-> A \cup S]
        <5>1. PICK B : B = A \cup S
          OBVIOUS
        <5>2. [[ini |-> w, lpos |-> A] EXCEPT !.lpos = B] = [ini |-> w, lpos |-> B]
          OBVIOUS
        <5>3. lop[m] = [loop[m] EXCEPT !.lpos = loop[m].lpos \cup S]
          BY <3>3, <3>4
        <5>4. lop[m] = [[ini |-> w, lpos |-> A] EXCEPT !.lpos = B]
          BY <3>1, <3>2, <5>1, <5>3, Zenon
        <5> QED BY <5>1, <5>2, <5>4
      <4> QED BY <3>2, <3>4, <4>1
    <3>5. CASE m # Len(loop)
      <4>1. A \cup {} = A
        OBVIOUS
      <4> QED BY <3>1, <3>2, <3>3, <3>5, <4>1
    <3> QED BY <3>4, <3>5
  <2>7. EsSeq(lop) /\ Len(lop) = Len(loop)
    <3>1. PICK U : U = {lop[m] : m \in 1..Len(loop)}
      OBVIOUS
    <3>2. lop \in [1..Len(loop) -> U]
      BY <2>5, <3>1
    <3>3. lop \in Seq(U) /\ Len(lop) = Len(loop)
      BY <2>4, <3>2
    <3> QED BY <3>3, Zenon DEF EsSeq
  <2>8. Gira(f, c, tok, loop, lop)
    BY <1>4, <1>6, <2>6, <2>7 DEF Gira
  <2> QED BY <1>2, <1>3, <2>1, <2>8
<1> QED BY <1>8, <1>9

\* The value of a target.
LEMMA Valor1 ==
    ASSUME NEW d
    PROVE  /\ d = "-" => Valor(d) = loop[Len(loop)].ini
           /\ d = "|" => Valor(d) = pins + 2
           /\ d \notin {"+", "-", "|"} => Valor(d) = (IF d \in DOMAIN sym THEN sym[d] ELSE 0)
BY DEF Valor

\* Those of a token, when its bar makes a jump.
LEMMA Valores1 ==
    ASSUME Compilado, pase = 2, cual # Nada, ~ EsFinal(t), Apunta(src, tok),
           UltimaBarra(t) => t.op # "y"
    PROVE  Valen(src, cuenta, tok, Valores(t.d), loop, sym)
<1>1. /\ tok \in 1..Len(src) /\ BienEscrita(src) /\ pins = cuenta[tok] /\ pins \in Nat
  BY Lee
<1>2. PICK f : f = src
  OBVIOUS
<1>3. PICK w : w = Valores(t.d)
  OBVIOUS
<1>4. t = f[tok]
  BY <1>2 DEF t
<1>5. DOMAIN w = DOMAIN f[tok].d /\ \A j \in DOMAIN f[tok].d : w[j] = Valor(f[tok].d[j])
  BY <1>3, <1>4 DEF Valores
<1>6. ASSUME NEW j \in DOMAIN f[tok].d, f[tok].d[j] = "|" PROVE FinDe(f, cuenta, tok) = pins + 2
  <2>1. UltimaBarra(f[tok])
    BY <1>1, <1>2, <1>6, Ficha
  <2>2. Cuantas(f[tok]) = 2
    BY <1>1, <1>2, <1>4, <2>1, Ficha
  <2> QED BY <1>1, <2>2 DEF FinDe
<1>7. Valen(f, cuenta, tok, w, loop, sym)
  BY <1>5, <1>6, Valor1 DEF Valen
<1> QED BY <1>2, <1>3, <1>7

\* getins, a jump that never has a bar.
LEMMA SaltoPaso == ASSUME Compilado, GetinsSalto PROVE Compilado'
<1>1. Pasa2 /\ Sigue2 /\ t.op \in PorGlabs /\ markif' = FALSE /\ loop' = ConSalidas(t.d)
  BY DEF GetinsSalto
<1>2. ~ EsFinal(t) /\ t.op \notin SinInstruccion \cup {"|", ")"} /\ t.op # "y"
  BY <1>1, Zenon DEF PorGlabs, MiraBarra, SinInstruccion, EsFinal
<1>3. pase = 2 /\ cual # Nada
  BY <1>1 DEF Pasa2
<1>4. /\ Listo(src, cuenta, sym, tok - 1, cod, ifloc, loop)
      /\ tok = (tok - 1) + 1 /\ tok \in 1..Len(src) /\ tok + 1 \in 1..Len(src) /\ BienEscrita(src)
      /\ EsObjeto(cod) /\ pins = cuenta[tok] /\ pins \in Nat /\ markif = FALSE
  BY <1>2, <1>3, Lee
<1>5. Apunta(src, tok)
  BY <1>2 DEF Apunta, t
<1>6. PICK f : f = src
  OBVIOUS
<1>7. t = f[tok] /\ Apunta(f, tok) /\ BienEscrita(f)
  BY <1>4, <1>5, <1>6 DEF t
<1>8. PICK c : c = cuenta
  OBVIOUS
<1>9. PICK w : w = Valores(t.d)
  OBVIOUS
<1>10. Valen(f, c, tok, w, loop, sym) /\ Gira(f, c, tok, loop, loop')
  BY <1>1, <1>2, <1>3, <1>5, <1>6, <1>8, <1>9, Valores1, Giran
<1>11. PICK o1 : o1 = Append(cod, Ins(t.op, w, t.x))
  OBVIOUS
<1>12. Agrega(cod, o1, f[tok].op, w)
  BY <1>4, <1>7, <1>11, Agregado
<1>13. Cambia(cod, o1, {}, 0) /\ Len(o1) = pins + 1 /\ o1[pins + 1].op = f[tok].op /\ o1[pins + 1].a = w
  BY <1>12 DEF Agrega, pins
<1>14. CASE UltimaBarra(f[tok])
  <2>1. PICK o2 : o2 = Append(o1, Ins("g", <<0>>, 0))
    OBVIOUS
  <2>2. cod' = o2 /\ ifloc' = Append(ifloc, <<pins + 1, 1>>)
    BY <1>7, <1>9, <1>11, <1>14, <2>1 DEF GetinsSalto
  <2>3. EsObjeto(o1)
    BY <1>13 DEF Cambia
  <2>4. Agrega(o1, o2, "g", <<0>>)
    BY <2>1, <2>3, Agregado
  <2>5. /\ Cambia(o1, o2, {}, 0) /\ Len(o2) = Len(o1) + 1
        /\ o2[Len(o1) + 1].op = "g" /\ o2[Len(o1) + 1].a = <<0>>
    BY <2>4 DEF Agrega
  <2>6. Cambia(cod, o2, {}, 0)
    BY <1>4, <1>13, <2>5, CambiaDos
  <2>7. o2[pins + 1].op = o1[pins + 1].op /\ o2[pins + 1].a = o1[pins + 1].a
    <3>1. PICK q : q = pins + 1
      OBVIOUS
    <3>2. q \in 1..Len(o1)
      BY <1>4, <1>13, <3>1
    <3>3. o2[q] = o1[q]
      BY <2>1, <2>3, <3>2 DEF EsObjeto, EsSeq
    <3> QED BY <3>1, <3>3
  <2>8. Cuantas(f[tok]) = 2
    BY <1>2, <1>4, <1>6, <1>7, <1>14, Ficha
  <2>9. Len(o2) = FinDe(f, c, tok) /\ Len(o1) + 1 = pins + 2
    BY <1>4, <1>8, <1>13, <2>5, <2>8 DEF FinDe
  <2>10. Brinco(f, c, tok) = <<pins + 1, 1>>
    BY <1>2, <1>4, <1>7, <1>8 DEF Brinco
  <2>11. Listo(f, c, sym, tok - 1, cod, ifloc, loop)
    BY <1>4, <1>6, <1>8
  <2>12. o2[Len(cod) + 1].op = f[tok].op /\ o2[Len(cod) + 1].a = w
    BY <1>13, <2>7 DEF pins
  <2>13. o2[Len(cod) + 2].op = "g" /\ o2[Len(cod) + 2].a = <<0>>
    BY <2>5, <2>9 DEF pins
  <2>14. f[tok].op # "y" /\ ifloc' = Append(ifloc, Brinco(f, c, tok))
    BY <1>2, <1>7, <2>2, <2>10
  <2>15. Hecho(f, c, sym, tok, o2, ifloc', loop')
    BY <1>4, <1>7, <1>10, <1>14, <2>6, <2>9, <2>11, <2>12, <2>13, <2>14, ConMetas
  <2>16. Hecho(src, cuenta, sym, tok, cod', ifloc', loop')
    BY <1>6, <1>8, <2>2, <2>15
  <2> QED BY <1>1, <1>4, <2>16, Sigamos
<1>15. CASE ~ UltimaBarra(f[tok])
  <2>1. cod' = o1 /\ ifloc' = ifloc
    BY <1>4, <1>7, <1>9, <1>11, <1>15 DEF GetinsSalto
  <2>2. Cuantas(f[tok]) = 1
    BY <1>4, <1>6, <1>7, <1>15, Ficha
  <2>3. Len(o1) = FinDe(f, c, tok)
    BY <1>4, <1>8, <1>13, <2>2 DEF FinDe
  <2>4. Listo(f, c, sym, tok - 1, cod, ifloc, loop)
    BY <1>4, <1>6, <1>8
  <2>5. o1[Len(cod) + 1].op = f[tok].op /\ o1[Len(cod) + 1].a = w
    BY <1>13 DEF pins
  <2>6. Hecho(f, c, sym, tok, o1, ifloc', loop')
    BY <1>4, <1>7, <1>10, <1>13, <1>15, <2>1, <2>3, <2>4, <2>5, ConMetas
  <2>7. Hecho(src, cuenta, sym, tok, cod', ifloc', loop')
    BY <1>6, <1>8, <2>1, <2>6
  <2> QED BY <1>1, <1>4, <2>7, Sigamos
<1> QED BY <1>14, <1>15

\* getins of y, with two targets or a bar.
LEMMA YPaso == ASSUME Compilado, GetinsY PROVE Compilado'
<1>1. Pasa2 /\ Sigue2 /\ t.op = "y"
  BY DEF GetinsY
<1>2. ~ EsFinal(t) /\ t.op \notin SinInstruccion \cup {"|", ")"}
  BY <1>1, Zenon DEF SinInstruccion, EsFinal
<1>3. pase = 2 /\ cual # Nada
  BY <1>1 DEF Pasa2
<1>4. /\ Listo(src, cuenta, sym, tok - 1, cod, ifloc, loop)
      /\ tok = (tok - 1) + 1 /\ tok \in 1..Len(src) /\ tok + 1 \in 1..Len(src) /\ BienEscrita(src)
      /\ EsObjeto(cod) /\ pins = cuenta[tok] /\ pins \in Nat /\ markif = FALSE
  BY <1>2, <1>3, Lee
<1>5. Apunta(src, tok)
  BY <1>2 DEF Apunta, t
<1>6. PICK f : f = src
  OBVIOUS
<1>7. t = f[tok] /\ Apunta(f, tok) /\ BienEscrita(f)
  BY <1>4, <1>5, <1>6 DEF t
<1>8. PICK c : c = cuenta
  OBVIOUS
<1>9. Listo(f, c, sym, tok - 1, cod, ifloc, loop)
  BY <1>4, <1>6, <1>8
<1>10. Gira(f, c, tok, loop, ConSalidas(t.d))
  BY <1>2, <1>3, <1>5, <1>6, <1>8, Giran
<1>11. /\ t.d \in Seq(STRING)
       /\ Len(t.d) = 2 \/ t.d = <<"|">>
       /\ \A j \in DOMAIN t.d : t.d[j] = "|" => Len(t.d) = 1
  BY <1>1, <1>4, <1>6, <1>7, Escrita
<1>12. Cuantas(f[tok]) = 1
  BY <1>1, <1>4, <1>6, <1>7, Ficha
<1>13. CASE t.d[1] = "|"
  <2>1. t.d = <<"|">>
    BY <1>11, <1>13
  <2>2. UltimaBarra(t) /\ <<t.d[1]>> = t.d
    BY <2>1 DEF UltimaBarra
  <2>3. PICK w : w = <<pins + 1, 0>>
    OBVIOUS
  <2>4. PICK o1 : o1 = Append(cod, Ins("y", w, t.x))
    OBVIOUS
  <2>5. /\ cod' = o1 /\ ifloc' = Append(ifloc, <<pins, 2>>) /\ markif' = FALSE
        /\ loop' = ConSalidas(t.d)
    BY <1>13, <2>2, <2>3, <2>4 DEF GetinsY
  <2>6. Agrega(cod, o1, "y", w)
    BY <1>4, <2>4, Agregado
  <2>7. Cambia(cod, o1, {}, 0) /\ Len(o1) = pins + 1 /\ o1[Len(cod) + 1].op = f[tok].op /\ o1[Len(cod) + 1].a = w
    BY <1>1, <1>7, <2>6 DEF Agrega, pins
  <2>8. Len(o1) = FinDe(f, c, tok) /\ pins + 1 = FinDe(f, c, tok)
    BY <1>4, <1>8, <1>12, <2>7 DEF FinDe
  <2>9. DOMAIN w = 1..2 /\ w[1] = pins + 1
    BY <2>3
  <2>10. DOMAIN f[tok].d = {1} /\ f[tok].d[1] = "|"
    BY <1>7, <2>1
  <2>11. Valen(f, c, tok, w, loop, sym)
    BY <2>8, <2>9, <2>10 DEF Valen
  <2>12. Brinco(f, c, tok) = <<pins, 2>>
    BY <1>1, <1>4, <1>7, <1>8 DEF Brinco
  <2>13. UltimaBarra(f[tok]) /\ f[tok].op = "y" /\ ifloc' = Append(ifloc, Brinco(f, c, tok))
    BY <1>1, <1>7, <2>2, <2>5, <2>12
  <2>14. Gira(f, c, tok, loop, loop')
    BY <1>10, <2>5
  <2>15. Hecho(f, c, sym, tok, o1, ifloc', loop')
    BY <1>4, <1>7, <1>9, <2>7, <2>8, <2>9, <2>11, <2>13, <2>14, ConMetas
  <2>16. Hecho(src, cuenta, sym, tok, cod', ifloc', loop')
    BY <1>6, <1>8, <2>5, <2>15
  <2> QED BY <1>1, <1>4, <2>5, <2>16, Sigamos
<1>14. CASE t.d[1] # "|"
  <2>1. Len(t.d) = 2
    BY <1>11, <1>14
  <2>2. ~ UltimaBarra(t)
    BY <1>11, <2>1 DEF UltimaBarra
  <2>3. PICK w : w = Valores(t.d)
    OBVIOUS
  <2>4. PICK o1 : o1 = Append(cod, Ins("y", w, t.x))
    OBVIOUS
  <2>5. cod' = o1 /\ ifloc' = ifloc /\ markif' = FALSE /\ loop' = ConSalidas(t.d)
    BY <1>4, <1>14, <2>2, <2>3, <2>4 DEF GetinsY
  <2>6. Agrega(cod, o1, "y", w)
    BY <1>4, <2>4, Agregado
  <2>7. Cambia(cod, o1, {}, 0) /\ Len(o1) = pins + 1 /\ o1[Len(cod) + 1].op = f[tok].op /\ o1[Len(cod) + 1].a = w
    BY <1>1, <1>7, <2>6 DEF Agrega, pins
  <2>8. Len(o1) = FinDe(f, c, tok)
    BY <1>4, <1>8, <1>12, <2>7 DEF FinDe
  <2>9. Valen(f, c, tok, w, loop, sym)
    BY <1>2, <1>3, <1>5, <1>6, <1>8, <2>2, <2>3, Valores1
  <2>10. Gira(f, c, tok, loop, loop') /\ ~ UltimaBarra(f[tok])
    BY <1>7, <1>10, <2>2, <2>5
  <2>11. Hecho(f, c, sym, tok, o1, ifloc', loop')
    BY <1>4, <1>7, <1>9, <2>5, <2>7, <2>8, <2>9, <2>10, ConMetas
  <2>12. Hecho(src, cuenta, sym, tok, cod', ifloc', loop')
    BY <1>6, <1>8, <2>5, <2>11
  <2> QED BY <1>1, <1>4, <2>5, <2>12, Sigamos
<1> QED BY <1>13, <1>14

\* getins of the rest that ask, with targets or a bar.
LEMMA OtraPaso == ASSUME Compilado, GetinsOtra PROVE Compilado'
<1>1. Pasa2 /\ Sigue2 /\ t.op \notin Otras /\ ifloc' = ifloc
  BY DEF GetinsOtra
<1>2. ~ EsFinal(t) /\ ~ EsPunto(t) /\ ~ EsAbre(t) /\ t.op \notin {"|", ")"} /\ t.op \notin MiraBarra \cup {"y"}
  BY <1>1, Zenon DEF Otras, PorGlabs, EsFinal, EsPunto, EsAbre
<1>3. pase = 2 /\ cual # Nada
  BY <1>1 DEF Pasa2
<1>4. /\ Listo(src, cuenta, sym, tok - 1, cod, ifloc, loop)
      /\ tok = (tok - 1) + 1 /\ tok \in 1..Len(src) /\ tok + 1 \in 1..Len(src) /\ BienEscrita(src)
      /\ EsObjeto(cod) /\ pins = cuenta[tok] /\ pins \in Nat /\ markif = FALSE
  BY <1>2, <1>3, Lee
<1>5. PICK f : f = src
  OBVIOUS
<1>6. t = f[tok] /\ BienEscrita(f)
  BY <1>4, <1>5 DEF t
<1>7. PICK c : c = cuenta
  OBVIOUS
<1>8. Listo(f, c, sym, tok - 1, cod, ifloc, loop)
  BY <1>4, <1>5, <1>7
<1>9. CASE t.op \in SinInstruccion
  <2>1. cod' = cod /\ loop' = loop /\ markif' = markif
    BY <1>9 DEF GetinsOtra
  <2>2. ~ EsCierra(f[tok]) /\ ~ Apunta(f, tok)
    BY <1>4, <1>5, <1>6, <1>9, Ficha
  <2>3. Gira(f, c, tok, loop, loop)
    BY <1>2, <1>6, <1>8, <2>2, SinGiro DEF Salidas
  <2>4. Hecho(f, c, sym, tok, cod, ifloc, loop)
    BY <1>2, <1>4, <1>6, <1>8, <1>9, <2>3, SinCodigo
  <2>5. Hecho(src, cuenta, sym, tok, cod', ifloc', loop')
    BY <1>1, <1>5, <1>7, <2>1, <2>4
  <2> QED BY <1>1, <1>4, <2>1, <2>5, Sigamos
<1>10. CASE t.op \notin SinInstruccion
  <2>1. Apunta(f, tok)
    BY <1>2, <1>6, <1>10 DEF Apunta
  <2>2. ~ UltimaBarra(f[tok])
    BY <1>2, <1>4, <1>5, <1>6, Ficha
  <2>3. \A j \in DOMAIN t.d : t.d[j] # "|"
    BY <1>4, <1>5, <1>6, <2>2, Ficha
  <2>4. PICK w : w = Valores(t.d)
    OBVIOUS
  <2>5. PICK o1 : o1 = Append(cod, Ins(t.op, w, t.x))
    OBVIOUS
  <2>6. cod' = o1 /\ markif' = FALSE /\ loop' = ConSalidas(t.d)
    BY <1>4, <1>10, <2>3, <2>4, <2>5 DEF GetinsOtra
  <2>7. Agrega(cod, o1, f[tok].op, w)
    BY <1>4, <1>6, <2>5, Agregado
  <2>8. Cambia(cod, o1, {}, 0) /\ Len(o1) = pins + 1 /\ o1[Len(cod) + 1].op = f[tok].op /\ o1[Len(cod) + 1].a = w
    BY <2>7 DEF Agrega, pins
  <2>9. Cuantas(f[tok]) = 1
    BY <1>4, <1>5, <1>6, <2>1, <2>2, Ficha
  <2>10. Len(o1) = FinDe(f, c, tok)
    BY <1>4, <1>7, <2>8, <2>9 DEF FinDe
  <2>11. Valen(f, c, tok, w, loop, sym) /\ Gira(f, c, tok, loop, loop')
    BY <1>2, <1>3, <1>5, <1>6, <1>7, <2>1, <2>2, <2>4, <2>6, Valores1, Giran
  <2>12. Hecho(f, c, sym, tok, o1, ifloc', loop')
    BY <1>1, <1>4, <1>6, <1>8, <2>1, <2>2, <2>8, <2>10, <2>11, ConMetas
  <2>13. Hecho(src, cuenta, sym, tok, cod', ifloc', loop')
    BY <1>5, <1>7, <2>6, <2>12
  <2> QED BY <1>1, <1>4, <2>6, <2>13, Sigamos
<1> QED BY <1>9, <1>10

\* getins of |: the branch before it ends here, and another starts.
LEMMA BarraPaso == ASSUME Compilado, GetinsBarra PROVE Compilado'
<1>1. /\ Pasa2 /\ Sigue2 /\ t.op = "|" /\ ifloc # <<>> /\ markif' = FALSE /\ loop' = loop
      /\ ifloc' = Append(Quita(ifloc), <<pins, 1>>)
      /\ cod' = Append(Llena(cod, {Cima(ifloc)}, pins + 1), Ins("g", <<0>>, 0))
  BY DEF GetinsBarra
<1>2. ~ EsFinal(t)
  BY <1>1, Zenon DEF EsFinal
<1>3. pase = 2 /\ cual # Nada
  BY <1>1 DEF Pasa2
<1>4. /\ Listo(src, cuenta, sym, tok - 1, cod, ifloc, loop)
      /\ tok = (tok - 1) + 1 /\ tok + 1 \in 1..Len(src)
  BY <1>2, <1>3, Lee
<1>5. PICK f : f = src
  OBVIOUS
<1>6. PICK c : c = cuenta
  OBVIOUS
<1>7. PICK v : v = pins + 1
  OBVIOUS
<1>8. PICK o1 : o1 = Llena(cod, {Cima(ifloc)}, v)
  OBVIOUS
<1>9. /\ o1 = Llena(cod, {ifloc[Len(ifloc)]}, v) /\ cod' = Append(o1, Ins("g", <<0>>, 0))
      /\ v = Len(cod) + 1 /\ ifloc' = Append(Quita(ifloc), <<Len(cod), 1>>)
  BY <1>1, <1>7, <1>8 DEF Cima, pins
<1>10. PICK o2 : o2 = Append(o1, Ins("g", <<0>>, 0))
  OBVIOUS
<1>11. Listo(f, c, sym, tok - 1, cod, ifloc, loop) /\ f[tok].op = "|"
  BY <1>1, <1>4, <1>5, <1>6 DEF t
<1>12. Hecho(f, c, sym, tok, o2, Append(Quita(ifloc), <<Len(cod), 1>>), loop)
  BY <1>1, <1>4, <1>9, <1>10, <1>11, ConBarra
<1>13. Hecho(src, cuenta, sym, tok, cod', ifloc', loop')
  BY <1>1, <1>5, <1>6, <1>9, <1>10, <1>12
<1> QED BY <1>1, <1>4, <1>13, Sigamos

\* getins of a dot: the last open branch ends here.
LEMMA PuntoPaso == ASSUME Compilado, GetinsPunto PROVE Compilado'
<1>1. /\ Pasa2 /\ Sigue2 /\ t.op = "." /\ ifloc # <<>> /\ markif' = markif /\ loop' = loop
      /\ ifloc' = Quita(ifloc) /\ cod' = Llena(cod, {Cima(ifloc)}, pins)
  BY DEF GetinsPunto
<1>2. ~ EsFinal(t) /\ EsPunto(t)
  BY <1>1, Zenon DEF EsFinal, EsPunto
<1>3. pase = 2 /\ cual # Nada
  BY <1>1 DEF Pasa2
<1>4. /\ Listo(src, cuenta, sym, tok - 1, cod, ifloc, loop) /\ markif = FALSE
      /\ tok = (tok - 1) + 1 /\ tok + 1 \in 1..Len(src)
  BY <1>2, <1>3, Lee
<1>5. PICK f : f = src
  OBVIOUS
<1>6. PICK c : c = cuenta
  OBVIOUS
<1>7. PICK v : v = pins
  OBVIOUS
<1>8. PICK o2 : o2 = Llena(cod, {Cima(ifloc)}, v)
  OBVIOUS
<1>9. o2 = Llena(cod, {ifloc[Len(ifloc)]}, v) /\ cod' = o2 /\ v = Len(cod)
  BY <1>1, <1>7, <1>8 DEF Cima, pins
<1>10. Listo(f, c, sym, tok - 1, cod, ifloc, loop) /\ EsPunto(f[tok])
  BY <1>2, <1>4, <1>5, <1>6 DEF t
<1>11. Hecho(f, c, sym, tok, o2, Quita(ifloc), loop)
  BY <1>1, <1>4, <1>9, <1>10, ConPunto
<1>12. Hecho(src, cuenta, sym, tok, cod', ifloc', loop')
  BY <1>1, <1>5, <1>6, <1>9, <1>11
<1> QED BY <1>1, <1>4, <1>12, Sigamos

\* getins of ): the jumps out of the loop go after it, and it goes to its start.
LEMMA CierraPaso == ASSUME Compilado, GetinsCierra PROVE Compilado'
<1>1. /\ Pasa2 /\ Sigue2 /\ t.op = ")" /\ loop # <<>> /\ markif' = markif /\ ifloc' = ifloc
      /\ loop' = Quita(loop)
      /\ cod' = Llena(Append(cod, Ins("g", <<Cima(loop).ini>>, 0)), Cima(loop).lpos, pins + 1)
  BY DEF GetinsCierra
<1>2. ~ EsFinal(t) /\ EsCierra(t)
  BY <1>1, Zenon DEF EsFinal, EsCierra
<1>3. pase = 2 /\ cual # Nada
  BY <1>1 DEF Pasa2
<1>4. /\ Listo(src, cuenta, sym, tok - 1, cod, ifloc, loop) /\ markif = FALSE
      /\ tok = (tok - 1) + 1 /\ tok + 1 \in 1..Len(src)
  BY <1>2, <1>3, Lee
<1>5. PICK f : f = src
  OBVIOUS
<1>6. PICK c : c = cuenta
  OBVIOUS
<1>7. PICK v : v = pins + 1
  OBVIOUS
<1>8. PICK o1 : o1 = Append(cod, Ins("g", <<Cima(loop).ini>>, 0))
  OBVIOUS
<1>9. PICK o2 : o2 = Llena(o1, Cima(loop).lpos, v)
  OBVIOUS
<1>10. /\ o1 = Append(cod, Ins("g", <<loop[Len(loop)].ini>>, 0))
       /\ o2 = Llena(o1, loop[Len(loop)].lpos, v) /\ cod' = o2 /\ v = Len(cod) + 1
  BY <1>1, <1>7, <1>8, <1>9 DEF Cima, pins
<1>11. Listo(f, c, sym, tok - 1, cod, ifloc, loop) /\ EsCierra(f[tok])
  BY <1>2, <1>4, <1>5, <1>6 DEF t
<1>12. Hecho(f, c, sym, tok, o2, ifloc, Quita(loop))
  BY <1>1, <1>4, <1>10, <1>11, ConCierre
<1>13. Hecho(src, cuenta, sym, tok, cod', ifloc', loop')
  BY <1>1, <1>5, <1>6, <1>10, <1>12
<1> QED BY <1>1, <1>4, <1>13, Sigamos

\* getins of {.
LEMMA AbrePaso == ASSUME Compilado, GetinsAbre PROVE Compilado'
<1>1. /\ Pasa2 /\ Sigue2 /\ EsAbre(t) /\ markif' = markif /\ ifloc' = ifloc /\ cod' = cod
      /\ loop' = Append(loop, [ini |-> pins, lpos |-> {}])
  BY Zenon DEF GetinsAbre, EsAbre
<1>2. ~ EsFinal(t) /\ ~ EsPunto(t) /\ ~ EsCierra(t)
  BY <1>1, Zenon DEF EsFinal, EsPunto, EsAbre, EsCierra
<1>3. pase = 2 /\ cual # Nada
  BY <1>1 DEF Pasa2
<1>4. /\ Listo(src, cuenta, sym, tok - 1, cod, ifloc, loop) /\ markif = FALSE /\ BienEscrita(src)
      /\ tok = (tok - 1) + 1 /\ tok \in 1..Len(src) /\ tok + 1 \in 1..Len(src) /\ pins = cuenta[tok]
  BY <1>2, <1>3, Lee
<1>5. PICK f : f = src
  OBVIOUS
<1>6. PICK c : c = cuenta
  OBVIOUS
<1>7. t = f[tok]
  BY <1>5 DEF t
<1>8. Listo(f, c, sym, tok - 1, cod, ifloc, loop) /\ f[tok].op \in SinInstruccion
  BY <1>1, <1>4, <1>5, <1>6, <1>7, Ficha
<1>9. Gira(f, c, tok, loop, loop')
  BY <1>1, <1>2, <1>4, <1>6, <1>7 DEF Gira
<1>10. Hecho(f, c, sym, tok, cod, ifloc, loop')
  BY <1>2, <1>4, <1>7, <1>8, <1>9, SinCodigo
<1>11. Hecho(src, cuenta, sym, tok, cod', ifloc', loop')
  BY <1>1, <1>5, <1>6, <1>10
<1> QED BY <1>1, <1>4, <1>11, Sigamos

\* The first pass counts a token, and notes the label there.
LEMMA CuentaPaso == ASSUME Compilado, Getsymbols PROVE Compilado'
<1>1. /\ pase = 1 /\ cual # Nada /\ trabajo' = trabajo /\ cual' = cual /\ cod' = cod /\ loop' = loop
      /\ ifloc' = ifloc /\ markif' = markif
      /\ instr' = instr + Cuantas(t) /\ cuenta' = Append(cuenta, instr)
      /\ sym' = IF t.op = "[" THEN ConNombre(sym, t.x, instr) ELSE sym
  BY DEF Getsymbols
<1>2. IF EsFinal(t) THEN pase' = 2 /\ tok' = 1 ELSE pase' = 1 /\ tok' = tok + 1
  BY Zenon DEF Getsymbols, EsFinal
<1>3. BienEscrita(src) /\ Len(src) \in Nat \ {0} /\ tok \in 1..Len(src)
  BY <1>1, Fuente
<1>4. /\ trabajo \in Trabajos /\ cual \in DOMAIN trabajo /\ markif = FALSE
      /\ Numerado(src, cuenta, sym, tok - 1, instr) /\ cod = <<>> /\ ifloc = <<>> /\ loop = <<>>
  BY <1>1 DEF Compilado
<1>5. PICK f : f = src
  OBVIOUS
<1>6. src' = f
  BY <1>1, <1>5 DEF src
<1>7. PICK n : n = tok - 1
  OBVIOUS
<1>8. n \in Nat /\ tok = n + 1 /\ t = f[n + 1]
  BY <1>3, <1>5, <1>7 DEF t
<1>9. PICK c2 : c2 = cuenta'
  OBVIOUS
<1>10. PICK s2 : s2 = sym'
  OBVIOUS
<1>11. PICK c : c = cuenta
  OBVIOUS
<1>12. PICK x : x = instr
  OBVIOUS
<1>13. PICK s : s = sym
  OBVIOUS
<1>14. Contado(f, c, n) /\ Etiquetado(f, c, n, s) /\ x = IF n = 0 THEN 0 ELSE FinDe(f, c, n)
  BY <1>4, <1>5, <1>7, <1>11, <1>12, <1>13 DEF Numerado
<1>15. ASSUME NEW k \in 1..n+1 PROVE Cuantas(f[k]) \in Nat
  <2>1. k \in 1..Len(f)
    BY <1>3, <1>5, <1>8
  <2> QED BY <1>3, <1>5, <2>1, Ficha
<1>16. c2 = Append(c, x) /\ s2 = IF f[n + 1].op = "[" THEN ConNombre(s, f[n + 1].x, x) ELSE s
  BY <1>1, <1>8, <1>9, <1>10, <1>11, <1>12, <1>13
<1>17. Cuenta(f, c, n, x, c2)
  BY <1>8, <1>14, <1>15, <1>16, ContadoMas
<1>18. Contado(f, c2, n + 1) /\ FinDe(f, c2, n + 1) = instr + Cuantas(f[n + 1])
  BY <1>12, <1>17 DEF Cuenta
<1>19. Etiquetado(f, c2, n + 1, s2)
  <2>1. c2[n + 1] = x /\ \A k \in 1..n : c2[k] = c[k]
    BY <1>17 DEF Cuenta
  <2> QED BY <1>8, <1>14, <1>16, <2>1, EtiquetadoMas
<1>20. CASE EsFinal(t)
  <2>1. tok = Len(f)
    BY <1>3, <1>5, <1>20, Escrita DEF t
  <2>2. Contado(f, c2, Len(f)) /\ Etiquetado(f, c2, Len(f), s2)
    BY <1>8, <1>18, <1>19, <2>1
  <2>3. Hecho(f, c2, s2, 0, <<>>, <<>>, <<>>)
    BY <1>3, <1>5, <2>2, Empieza
  <2>4. pase' = 2 /\ tok' = 1 /\ tok' - 1 = 0
    BY <1>2, <1>20
  <2>5. Traducido(f, c2, s2, tok' - 1, cod', ifloc', loop')
    BY <1>1, <1>4, <2>2, <2>3, <2>4 DEF Traducido
  <2>6. Traducido(src', cuenta', sym', tok' - 1, cod', ifloc', loop')
    BY <1>6, <1>9, <1>10, <2>5
  <2>7. tok' \in 1..Len(src')
    BY <1>3, <1>5, <1>6, <2>4
  <2> QED BY <1>1, <1>4, <2>4, <2>6, <2>7 DEF Compilado
<1>21. CASE ~ EsFinal(t)
  <2>1. tok # Len(f)
    BY <1>3, <1>5, <1>21, Escrita DEF t
  <2>2. pase' = 1 /\ tok' = tok + 1 /\ tok' - 1 = n + 1 /\ n + 1 # 0
    BY <1>2, <1>8, <1>21
  <2>3. instr' = FinDe(f, c2, n + 1)
    BY <1>1, <1>8, <1>18
  <2>4. Numerado(f, c2, s2, tok' - 1, instr')
    BY <1>18, <1>19, <2>2, <2>3 DEF Numerado
  <2>5. Numerado(src', cuenta', sym', tok' - 1, instr')
    BY <1>6, <1>9, <1>10, <2>4
  <2>6. tok' \in 1..Len(src')
    BY <1>3, <1>5, <1>6, <2>1, <2>2
  <2> QED BY <1>1, <1>4, <2>2, <2>5, <2>6 DEF Compilado
<1> QED BY <1>20, <1>21

\* A source that starts, the first or another.
LEMMA Comienza ==
    ASSUME NEW T \in Trabajos, NEW x \in DOMAIN T
    PROVE  /\ BienEscrita(T[x]) /\ 1 \in 1..Len(T[x]) /\ Numerado(T[x], <<>>, NoFunc, 1 - 1, 0)
<1>1. BienEscrita(T[x])
  BY FuentesBienEscritas
<1>2. 1 \in 1..Len(T[x])
  BY <1>1, Escrita
<1>3. Numerado(T[x], <<>>, NoFunc, 0, 0)
  BY <1>1, Empieza
<1> QED BY <1>1, <1>2, <1>3

\* What is written stays written.
LEMMA TerminaPaso == ASSUME Compilado, Termina PROVE Compilado'
<1>1. /\ cual' = (IF Faltan = {} THEN Nada ELSE CHOOSE n \in Faltan : TRUE)
      /\ pase' = 1 /\ tok' = 1 /\ instr' = 0
      /\ sym' = NoFunc /\ cod' = <<>> /\ loop' = <<>> /\ ifloc' = <<>>
      /\ markif' = FALSE /\ cuenta' = <<>> /\ trabajo' = trabajo
  BY DEF Termina
<1>2. trabajo \in Trabajos
  BY DEF Compilado
<1>3. ASSUME cual' # Nada
      PROVE  /\ cual' \in DOMAIN trabajo' /\ tok' \in 1..Len(src')
             /\ Numerado(src', cuenta', sym', tok' - 1, instr')
  <2>1. Faltan # {} /\ cual' = CHOOSE n \in Faltan : TRUE
    BY <1>1, <1>3
  <2>2. cual' \in Faltan
    BY <2>1
  <2>3. cual' \in DOMAIN trabajo
    BY <2>2 DEF Faltan
  <2>4. PICK T : T = trabajo
    OBVIOUS
  <2>5. PICK x : x = cual'
    OBVIOUS
  <2>6. src' = T[x]
    BY <1>1, <2>4, <2>5 DEF src
  <2>7. 1 \in 1..Len(T[x]) /\ Numerado(T[x], <<>>, NoFunc, 1 - 1, 0)
    BY <1>2, <2>3, <2>4, <2>5, Comienza
  <2> QED BY <1>1, <2>3, <2>6, <2>7
<1> QED BY <1>1, <1>2, <1>3 DEF Compilado

\* No source is read and nothing is written.
LEMMA InicioCompila == ASSUME InitCompila PROVE Compilado
<1>1. /\ trabajo \in Trabajos /\ cual = (CHOOSE n \in DOMAIN trabajo : TRUE)
      /\ pase = 1 /\ tok = 1 /\ instr = 0
      /\ sym = NoFunc /\ cod = <<>> /\ loop = <<>> /\ ifloc = <<>>
      /\ markif = FALSE /\ cuenta = <<>>
  BY DEF InitCompila
<1>2. DOMAIN trabajo # {}
  BY <1>1, FuentesBienEscritas
<1>3. cual \in DOMAIN trabajo
  BY <1>1, <1>2
<1>4. 1 \in 1..Len(trabajo[cual]) /\ Numerado(trabajo[cual], <<>>, NoFunc, 1 - 1, 0)
  BY <1>1, <1>3, Comienza
<1> QED BY <1>1, <1>3, <1>4 DEF Compilado, src

\* Every step of the compiler keeps it.
LEMMA CompilaPaso == ASSUME Compilado, [Compila]_compila PROVE Compilado'
<1>1. CASE UNCHANGED compila
  <2>1. /\ trabajo' = trabajo /\ cual' = cual /\ pase' = pase /\ tok' = tok /\ instr' = instr /\ sym' = sym
        /\ cod' = cod /\ loop' = loop /\ ifloc' = ifloc /\ markif' = markif /\ cuenta' = cuenta
    BY <1>1 DEF compila
  <2>2. src' = src
    BY <2>1 DEF src
  <2> QED BY <2>1, <2>2 DEF Compilado
<1> QED
  BY <1>1, CuentaPaso, SaltoPaso, YPaso, BarraPaso, PuntoPaso, AbrePaso, CierraPaso, OtraPaso, TerminaPaso
     DEF Compila

-----------------------------------------------------------------------------
(* What the source means *)

\* The end of a branch, and of a loop, and its start, are the tokens the counts say.
LEMMA LaRama ==
    ASSUME Compilado, cual # Nada, NEW k \in 1..Len(src), NEW j \in k+1..Len(src), FinDeRama(src, k, j)
    PROVE  FinRama(k) = j
<1>1. PICK L : L = Len(src)
  OBVIOUS
<1>2. L \in Nat
  BY <1>1, Fuente
<1>3. PICK f : f = src
  OBVIOUS
<1> DEFINE B(i) == f[i].op \in {"|", "."}
           P(i) == B(i) /\ IfsCerrados(k + 1, i - 1) /\ \A x \in k+1..i-1 : ~ (B(x) /\ IfsCerrados(k + 1, x - 1))
<1>4. ASSUME NEW i \in k+1..L PROVE IfsCerrados(k + 1, i - 1) <=> Ifs(f, i - 1) = Ifs(f, k)
  <2>1. i - 1 \in Nat /\ k + 1 \in 1..(i-1)+1 /\ (k + 1) - 1 = k
    BY <1>1, <1>2
  <2> QED BY <1>3, <2>1, Cerrados
<1>5. FinRama(k) = CHOOSE i \in k+1..L : P(i)
  BY <1>1, <1>3, Zenon DEF FinRama
<1>6. j \in k+1..L /\ B(j) /\ Ifs(f, j - 1) = Ifs(f, k)
      /\ \A x \in k+1..j-1 : ~ (B(x) /\ Ifs(f, x - 1) = Ifs(f, k))
  BY <1>1, <1>3 DEF FinDeRama
<1>7. P(j)
  BY <1>1, <1>2, <1>4, <1>6
<1>8. ASSUME NEW i \in k+1..L, P(i) PROVE i = j
  <2>1. ~ (i < j)
    BY <1>1, <1>2, <1>7, <1>8
  <2>2. ~ (j < i)
    BY <1>1, <1>2, <1>7, <1>8
  <2> QED BY <1>1, <1>2, <2>1, <2>2
<1> HIDE DEF P
<1> QED BY <1>5, <1>6, <1>7, <1>8

\* A loop has one end and one start.
LEMMA ElLazo ==
    ASSUME Compilado, cual # Nada, NEW k \in 1..Len(src)
    PROVE  /\ \A j \in k+1..Len(src) : FinDeLazo(src, k, j) => FinLazo(k) = j
           /\ \A j \in 1..k-1 : IniDeLazo(src, k, j) => IniLazo(k) = j
<1>1. PICK L : L = Len(src)
  OBVIOUS
<1>2. L \in Nat
  BY <1>1, Fuente
<1>3. PICK f : f = src
  OBVIOUS
<1>4. ASSUME NEW j \in k+1..L, FinDeLazo(f, k, j) PROVE FinLazo(k) = j
  <2> DEFINE B(i) == EsCierra(f[i])
             P(i) == B(i) /\ LazosCerrados(k + 1, i - 1) /\ \A x \in k+1..i-1 : ~ (B(x) /\ LazosCerrados(k + 1, x - 1))
  <2>1. ASSUME NEW i \in k+1..L PROVE LazosCerrados(k + 1, i - 1) <=> Lazos(f, i - 1) = Lazos(f, k)
    <3>1. i - 1 \in Nat /\ k + 1 \in 1..(i-1)+1 /\ (k + 1) - 1 = k
      BY <1>1, <1>2
    <3> QED BY <1>3, <3>1, Cerrados
  <2>2. FinLazo(k) = CHOOSE i \in k+1..L : P(i)
    BY <1>1, <1>3, Zenon DEF FinLazo, EsCierra
  <2>3. B(j) /\ Lazos(f, j - 1) = Lazos(f, k) /\ \A x \in k+1..j-1 : ~ (B(x) /\ Lazos(f, x - 1) = Lazos(f, k))
    BY <1>4 DEF FinDeLazo
  <2>4. P(j)
    BY <1>1, <1>2, <2>1, <2>3
  <2>5. ASSUME NEW i \in k+1..L, P(i) PROVE i = j
    <3>1. ~ (i < j)
      BY <1>1, <1>2, <2>4, <2>5
    <3>2. ~ (j < i)
      BY <1>1, <1>2, <2>4, <2>5
    <3> QED BY <1>1, <1>2, <3>1, <3>2
  <2> HIDE DEF P
  <2> QED BY <2>2, <2>4, <2>5
<1>5. ASSUME NEW j \in 1..k-1, IniDeLazo(f, k, j) PROVE IniLazo(k) = j
  <2> DEFINE B(i) == EsAbre(f[i])
             P(i) == B(i) /\ LazosCerrados(i + 1, k - 1) /\ \A x \in i+1..k-1 : ~ (B(x) /\ LazosCerrados(x + 1, k - 1))
  <2>1. ASSUME NEW i \in 1..k-1 PROVE LazosCerrados(i + 1, k - 1) <=> Lazos(f, i) = Lazos(f, k - 1)
    <3>1. k - 1 \in Nat /\ i + 1 \in 1..(k-1)+1 /\ (i + 1) - 1 = i
      BY <1>1, <1>2
    <3> QED BY <1>3, <3>1, Cerrados
  <2>2. IniLazo(k) = CHOOSE i \in 1..k-1 : P(i)
    BY <1>3, Zenon DEF IniLazo, EsAbre
  <2>3. B(j) /\ Lazos(f, j) = Lazos(f, k - 1) /\ \A x \in j+1..k-1 : ~ (B(x) /\ Lazos(f, x) = Lazos(f, k - 1))
    BY <1>5 DEF IniDeLazo
  <2>4. P(j)
    BY <1>1, <1>2, <2>1, <2>3
  <2>5. ASSUME NEW i \in 1..k-1, P(i) PROVE i = j
    <3>1. ~ (i < j)
      BY <1>1, <1>2, <2>4, <2>5
    <3>2. ~ (j < i)
      BY <1>1, <1>2, <2>4, <2>5
    <3> QED BY <1>1, <1>2, <3>1, <3>2
  <2> HIDE DEF P
  <2> QED BY <2>2, <2>4, <2>5
<1> QED BY <1>1, <1>3, <1>4, <1>5

\* Where a label is, when all are seen.
EnSym(s, d) == IF d \in DOMAIN s THEN s[d] ELSE 0
LaPrimera(c, D) == IF D = {} THEN 0 ELSE c[CHOOSE j \in D : \A i \in D : j <= i]
\* A label is at its first mark, or at 0 where it has none.
LEMMA LaMarca ==
    ASSUME NEW f, BienEscrita(f), NEW c, NEW s, Etiquetado(f, c, Len(f), s), NEW d,
           NEW D, D = {i \in DOMAIN f : f[i].op = "[" /\ f[i].x = d}
    PROVE  EnSym(s, d) = LaPrimera(c, D)
<1>1. Len(f) \in Nat /\ DOMAIN f = 1..Len(f)
  BY Escrita
<1>2. /\ \A k \in 1..Len(f) : f[k].op = "[" => f[k].x \in DOMAIN s
      /\ \A m \in DOMAIN s : \E k \in 1..Len(f) :
            /\ f[k].op = "[" /\ f[k].x = m /\ s[m] = c[k]
            /\ \A i \in 1..k-1 : ~ (f[i].op = "[" /\ f[i].x = m)
  BY DEF Etiquetado
<1>3. CASE d \in DOMAIN s
  <2>1. PICK k \in 1..Len(f) : /\ f[k].op = "[" /\ f[k].x = d /\ s[d] = c[k]
                               /\ \A i \in 1..k-1 : ~ (f[i].op = "[" /\ f[i].x = d)
    BY <1>2, <1>3
  <2>2. k \in D /\ D \subseteq 1..Len(f)
    BY <1>1, <2>1
  <2>3. ASSUME NEW i \in D PROVE k <= i
    <3>1. i \in 1..Len(f) /\ ~ (i \in 1..k-1)
      BY <1>1, <2>1
    <3> QED BY <1>1, <3>1
  <2>4. ASSUME NEW j \in D, \A i \in D : j <= i PROVE j = k
    <3>1. j <= k /\ k <= j
      BY <2>2, <2>3, <2>4
    <3> QED BY <1>1, <2>2, <3>1
  <2>5. (CHOOSE j \in D : \A i \in D : j <= i) = k
    BY <2>2, <2>3, <2>4
  <2> QED BY <1>3, <2>1, <2>2, <2>5 DEF EnSym, LaPrimera
<1>4. CASE d \notin DOMAIN s
  <2>1. D = {}
    BY <1>1, <1>2, <1>4
  <2> QED BY <1>4, <2>1 DEF EnSym, LaPrimera
<1> QED BY <1>3, <1>4

\* At the end no branch nor loop is open.
LEMMA AlAcabar ==
    ASSUME Compilado, Completo
    PROVE  /\ Traducido(src, cuenta, sym, Len(src) - 1, cod, ifloc, loop) /\ cual # Nada
           /\ BienEscrita(src) /\ Len(src) \in Nat \ {0}
           /\ Len(ifloc) = 0 /\ Len(loop) = 0
<1>1. pase = 2 /\ cual # Nada /\ EsFinal(t)
  BY Zenon DEF Completo, EsFinal
<1>2. BienEscrita(src) /\ Len(src) \in Nat \ {0} /\ tok \in 1..Len(src)
  BY <1>1, Fuente
<1>3. tok = Len(src)
  BY <1>1, <1>2, Escrita DEF t
<1>4. Traducido(src, cuenta, sym, Len(src) - 1, cod, ifloc, loop)
  BY <1>1, <1>3 DEF Compilado
<1>5. PICK f : f = src
  OBVIOUS
<1>6. PICK n : n = Len(f) - 1
  OBVIOUS
<1>7. n \in 0..Len(f)-1 /\ n + 1 = Len(f) /\ BienEscrita(f)
  BY <1>2, <1>5, <1>6
<1>8. ~ EsPunto(f[n + 1]) /\ ~ EsAbre(f[n + 1]) /\ ~ EsCierra(f[n + 1]) /\ f[n + 1].op \notin MiraBarra \cup {"y"}
  BY <1>1, <1>3, <1>5, <1>7, Zenon DEF t, EsFinal, EsPunto, EsAbre, EsCierra, MiraBarra
<1>9. ~ UltimaBarra(f[n + 1])
  <2>1. n + 1 \in 1..Len(f)
    BY <1>2, <1>5, <1>7
  <2> QED BY <1>7, <1>8, <2>1, Ficha
<1>10. Ifs(f, n) = Ifs(f, n + 1) /\ Lazos(f, n) = Lazos(f, n + 1)
  BY <1>7, <1>8, <1>9, Niveles
<1>11. Ifs(f, n) = 0 /\ Lazos(f, n) = 0
  BY <1>7, <1>10, Escrita
<1>12. Len(ifloc) = Ifs(f, n) /\ Len(loop) = Lazos(f, n)
  BY <1>4, <1>5, <1>6 DEF Traducido, Hecho, Ramas, Vueltas
<1> QED BY <1>1, <1>2, <1>4, <1>11, <1>12

\* A branch of a token ends where the source says.
LEMMA RamaFiel ==
    ASSUME Compilado, Completo, NEW k \in 1..Len(src)-1, EsRama(src, k)
    PROVE  Vale(cod, Brinco(src, cuenta, k), Tras(FinRama(k)))
<1>1. /\ Traducido(src, cuenta, sym, Len(src) - 1, cod, ifloc, loop) /\ cual # Nada
      /\ Len(src) \in Nat \ {0} /\ Len(ifloc) = 0
  BY AlAcabar
<1>2. \/ \E m \in 1..Len(ifloc) : /\ RamaAbierta(src, Len(src) - 1, k, m)
                                  /\ ifloc[m] = Brinco(src, cuenta, k)
      \/ \E j \in k+1..Len(src)-1 : /\ FinDeRama(src, k, j)
                                    /\ Vale(cod, Brinco(src, cuenta, k), FinDe(src, cuenta, j))
  BY <1>1 DEF Traducido, Hecho, Ramas
<1>3. PICK j \in k+1..Len(src)-1 : /\ FinDeRama(src, k, j)
                                   /\ Vale(cod, Brinco(src, cuenta, k), FinDe(src, cuenta, j))
  BY <1>1, <1>2
<1>4. k \in 1..Len(src) /\ j \in k+1..Len(src)
  BY <1>1
<1>5. FinRama(k) = j
  BY <1>1, <1>3, <1>4, LaRama
<1> QED BY <1>3, <1>5 DEF Tras, FinDe

\* And so does a target.
LEMMA MetaFiel ==
    ASSUME Compilado, Completo, NEW k \in 1..Len(src)-1, Apunta(src, k), NEW j \in DOMAIN src[k].d
    PROVE  cod[cuenta[k] + 1].a[j] = Destino(k, src[k].d[j])
<1>1. /\ Traducido(src, cuenta, sym, Len(src) - 1, cod, ifloc, loop) /\ cual # Nada
      /\ BienEscrita(src) /\ Len(src) \in Nat \ {0} /\ Len(loop) = 0
  BY AlAcabar
<1>2. Meta(src, cuenta, Len(src) - 1, cod, loop, sym, k, j) /\ Etiquetado(src, cuenta, Len(src), sym)
  BY <1>1 DEF Traducido, Hecho, Metas
<1>3. k \in 1..Len(src)
  BY <1>1
<1>4. PICK d : d = src[k].d[j]
  OBVIOUS
<1>5. PICK v : v = cod[cuenta[k] + 1].a[j]
  OBVIOUS
<1>6. /\ d = "+" => \E i \in k+1..Len(src)-1 : FinDeLazo(src, k, i) /\ v = FinDe(src, cuenta, i)
      /\ d = "-" => \E i \in 1..k-1 : IniDeLazo(src, k, i) /\ v = cuenta[i]
      /\ d = "|" => v = FinDe(src, cuenta, k)
      /\ d \notin {"+", "-", "|"} => v = (IF d \in DOMAIN sym THEN sym[d] ELSE 0)
  BY <1>1, <1>2, <1>4, <1>5 DEF Meta
<1>7. CASE d = "+"
  <2>1. PICK i \in k+1..Len(src)-1 : FinDeLazo(src, k, i) /\ v = FinDe(src, cuenta, i)
    BY <1>6, <1>7
  <2>2. i \in k+1..Len(src)
    BY <1>1
  <2>3. FinLazo(k) = i
    BY <1>1, <1>3, <2>1, <2>2, ElLazo
  <2>4. Destino(k, d) = Tras(FinLazo(k))
    BY <1>7 DEF Destino
  <2> QED BY <1>4, <1>5, <2>1, <2>3, <2>4 DEF Tras, FinDe
<1>8. CASE d = "-"
  <2>1. PICK i \in 1..k-1 : IniDeLazo(src, k, i) /\ v = cuenta[i]
    BY <1>6, <1>8
  <2>2. IniLazo(k) = i
    BY <1>1, <1>3, <2>1, ElLazo
  <2>3. Destino(k, d) = cuenta[IniLazo(k)]
    BY <1>8 DEF Destino
  <2> QED BY <1>4, <1>5, <2>1, <2>2, <2>3
<1>9. CASE d = "|"
  <2>1. Destino(k, d) = Tras(k)
    BY <1>9 DEF Destino
  <2> QED BY <1>4, <1>5, <1>6, <1>9, <2>1 DEF Tras, FinDe
<1>10. CASE d \notin {"+", "-", "|"}
  <2>1. PICK D : D = {i \in DOMAIN src : src[i].op = "[" /\ src[i].x = d}
    OBVIOUS
  <2>2. Destino(k, d) = LaPrimera(cuenta, D)
    BY <1>10, <2>1 DEF Destino, LaPrimera
  <2>3. EnSym(sym, d) = LaPrimera(cuenta, D)
    <3>1. PICK f : f = src
      OBVIOUS
    <3>2. PICK c : c = cuenta
      OBVIOUS
    <3>3. PICK s : s = sym
      OBVIOUS
    <3>4. EnSym(s, d) = LaPrimera(c, D)
      BY <1>1, <1>2, <2>1, <3>1, <3>2, <3>3, LaMarca
    <3> QED BY <3>2, <3>3, <3>4
  <2> QED BY <1>4, <1>5, <1>6, <1>10, <2>2, <2>3 DEF EnSym
<1> QED BY <1>7, <1>8, <1>9, <1>10

\* The start of a loop that a token ends.
LEMMA VueltaFiel ==
    ASSUME Compilado, Completo, NEW k \in 1..Len(src)-1, src[k].op = ")"
    PROVE  Salta(cuenta[k], cuenta[IniLazo(k)])
<1>1. /\ Traducido(src, cuenta, sym, Len(src) - 1, cod, ifloc, loop) /\ cual # Nada
      /\ Len(src) \in Nat \ {0}
  BY AlAcabar
<1>2. PICK i \in 1..k-1 : IniDeLazo(src, k, i) /\ cod[cuenta[k] + 1].a[1] = cuenta[i]
  BY <1>1 DEF Traducido, Hecho, Metas
<1>3. k \in 1..Len(src)
  BY <1>1
<1>4. IniLazo(k) = i
  BY <1>1, <1>2, <1>3, ElLazo
<1>5. Figura(src, cuenta, cod, k)
  BY <1>1 DEF Traducido, Hecho
<1>6. cod[cuenta[k] + 1].op = "g" /\ Una(cod[cuenta[k] + 1].a)
  BY <1>5 DEF Figura
<1>7. PICK v : cod[cuenta[k] + 1].a = <<v>>
  BY <1>6 DEF Una
<1>8. v = cuenta[i]
  BY <1>2, <1>7
<1> QED BY <1>4, <1>6, <1>7, <1>8 DEF Salta

\* So every jump of a source that is compiled goes where the source says.
LEMMA Fieles == ASSUME Compilado PROVE SaltosFieles
<1>1. PasesAcordes
  <2>1. SUFFICES ASSUME pase = 2, cual # Nada PROVE pins = cuenta[tok]
    BY DEF PasesAcordes
  <2>2. tok \in 1..Len(src) /\ Traducido(src, cuenta, sym, tok - 1, cod, ifloc, loop) /\ Len(src) \in Nat
    BY <2>1, Fuente DEF Compilado
  <2>3. Len(cod) = cuenta[(tok - 1) + 1] /\ (tok - 1) + 1 = tok
    BY <2>2 DEF Traducido, Hecho
  <2> QED BY <2>3 DEF pins
<1>2. ASSUME Completo, NEW k \in 1..Len(src) - 1
      PROVE  LET i == cuenta[k] IN
             /\ src[k].op \notin SinInstruccion \cup {"|", ")"} =>
                   /\ cod[i + 1].op = src[k].op
                   /\ \A j \in DOMAIN src[k].d : cod[i + 1].a[j] = Destino(k, src[k].d[j])
             /\ UltimaBarra(src[k]) =>
                   IF src[k].op = "y" THEN cod[i + 1].a[2] = Tras(FinRama(k))
                                      ELSE Salta(i + 1, Tras(FinRama(k)))
             /\ src[k].op = "|" => Salta(i, Tras(FinRama(k)))
             /\ src[k].op = ")" => Salta(i, cuenta[IniLazo(k)])
  <2>1. /\ Traducido(src, cuenta, sym, Len(src) - 1, cod, ifloc, loop) /\ cual # Nada
        /\ BienEscrita(src) /\ Len(src) \in Nat \ {0}
    BY <1>2, AlAcabar
  <2>2. PICK i : i = cuenta[k]
    OBVIOUS
  <2>3. Figura(src, cuenta, cod, k) /\ i \in Nat /\ k \in 1..Len(src)
    BY <2>1, <2>2 DEF Traducido, Hecho, Contado
  <2>4. PICK v : v = Tras(FinRama(k))
    OBVIOUS
  <2>5. Apunta(src, k) => /\ cod[i + 1].op = src[k].op
                          /\ \A j \in DOMAIN src[k].d : cod[i + 1].a[j] = Destino(k, src[k].d[j])
    BY <1>2, <2>2, <2>3, MetaFiel DEF Figura
  <2>6. UltimaBarra(src[k]) /\ src[k].op = "y" => cod[i + 1].a[2] = v
    <3>1. SUFFICES ASSUME UltimaBarra(src[k]), src[k].op = "y" PROVE cod[i + 1].a[2] = v
      OBVIOUS
    <3>2. Vale(cod, Brinco(src, cuenta, k), v)
      BY <1>2, <2>4, <3>1, RamaFiel DEF EsRama
    <3>3. Brinco(src, cuenta, k) = <<i, 2>>
      BY <2>2, <3>1 DEF Brinco
    <3> QED BY <3>2, <3>3 DEF Vale
  <2>7. UltimaBarra(src[k]) /\ src[k].op # "y" => Salta(i + 1, v)
    <3>1. SUFFICES ASSUME UltimaBarra(src[k]), src[k].op # "y" PROVE Salta(i + 1, v)
      OBVIOUS
    <3>2. Vale(cod, Brinco(src, cuenta, k), v)
      BY <1>2, <2>4, <3>1, RamaFiel DEF EsRama
    <3>3. src[k].op # "|"
      BY <2>1, <2>3, <3>1, Ficha
    <3>4. Brinco(src, cuenta, k) = <<i + 1, 1>> /\ (i + 1) + 1 = i + 2
      BY <2>2, <2>3, <3>1, <3>3 DEF Brinco
    <3>5. cod[i + 2].a[1] = v /\ cod[i + 2].op = "g" /\ Una(cod[i + 2].a)
      BY <2>2, <2>3, <3>1, <3>2, <3>4 DEF Vale, Figura
    <3>6. PICK x : cod[i + 2].a = <<x>>
      BY <3>5 DEF Una
    <3> QED BY <3>4, <3>5, <3>6 DEF Salta
  <2>8. src[k].op = "|" => Salta(i, v)
    <3>1. SUFFICES ASSUME src[k].op = "|" PROVE Salta(i, v)
      OBVIOUS
    <3>2. Vale(cod, Brinco(src, cuenta, k), v)
      BY <1>2, <2>4, <3>1, RamaFiel DEF EsRama
    <3>3. Brinco(src, cuenta, k) = <<i, 1>>
      BY <2>2, <3>1 DEF Brinco
    <3>4. cod[i + 1].a[1] = v /\ cod[i + 1].op = "g" /\ Una(cod[i + 1].a)
      BY <2>2, <2>3, <3>1, <3>2, <3>3 DEF Vale, Figura
    <3>5. PICK x : cod[i + 1].a = <<x>>
      BY <3>4 DEF Una
    <3> QED BY <3>4, <3>5 DEF Salta
  <2>9. src[k].op = ")" => Salta(i, cuenta[IniLazo(k)])
    BY <1>2, <2>2, VueltaFiel
  <2> QED BY <2>2, <2>4, <2>5, <2>6, <2>7, <2>8, <2>9 DEF Apunta
<1> QED BY <1>1, <1>2 DEF SaltosFieles
-----------------------------------------------------------------------------
(* The interpreter: its inductive invariant *)

\* The stack of the function keys, and what each interrupted, are as high as one
\* another, and no higher than the places they have in guarda.
Alturas == /\ EsSeq(surk) /\ EsSeq(pila) /\ Len(pila) = Len(surk)
           /\ Len(surk) \in 0..MaxKivo
           /\ guarda = [k \in 0..MaxKivo |-> guarda[k]]

\* While the machine waits, the place of the stack's top has what a key would leave.
Anotado == fase = "espera" => guarda[kivo] = Anota

IInvV == Alturas /\ Anotado /\ VueltaAlCampo

\* Nothing is interrupted at first.
LEMMA InvVInit == ASSUME ConstantesVpg, Init PROVE IInvV
  BY VaciaEsSeq DEF Init, InitCorre, IInvV, Alturas, Anotado, VueltaAlCampo, kivo, ConstantesVpg

\* What leaves the stack, its places and what is noted as they were.
Intacto == UNCHANGED <<surk, pila, guarda, pant, inp, paro>>

\* A step that leaves all of it as it was.
LEMMA InvVIntacto ==
    ASSUME IInvV, UNCHANGED <<surk, pila, guarda>>,
           fase' = "espera" => fase = "espera" /\ UNCHANGED <<pant, inp, paro>>
    PROVE  IInvV'
  BY DEF IInvV, Alturas, Anotado, VueltaAlCampo, kivo, Anota

\* A program that is loaded starts with no function key pending.
LEMMA InvVCarga ==
    ASSUME IInvV, NEW p, Carga(p), fase' # "espera", UNCHANGED guarda
    PROVE  IInvV'
  BY VaciaEsSeq, ConstantesVpg DEF Carga, IInvV, Alturas, Anotado, VueltaAlCampo, kivo, ConstantesVpg

\* The wait notes the field at the top.
LEMMA InvVEspera == ASSUME IInvV, Espera PROVE IInvV'
<1>1. kivo \in 0..MaxKivo /\ kivo' = kivo
  BY DEF Espera, IInvV, Alturas, kivo
<1>2. guarda' = [guarda EXCEPT ![kivo] = Anota] /\ UNCHANGED <<surk, pila, inp, paro, pant>>
  BY DEF Espera
<1>3. Alturas'
  BY <1>1, <1>2 DEF IInvV, Alturas
<1>4. guarda'[kivo] = Anota /\ \A k \in 0..MaxKivo : k # kivo => guarda'[k] = guarda[k]
  BY <1>1, <1>2 DEF IInvV, Alturas
<1>5. Anotado'
  BY <1>1, <1>2, <1>4 DEF Anotado, Anota
<1>6. VueltaAlCampo'
  BY <1>1, <1>2, <1>4 DEF VueltaAlCampo, IInvV, kivo
<1> QED
  BY <1>3, <1>5, <1>6 DEF IInvV

\* A function key leaves what was noted, and puts the field on the stack.
LEMMA InvVTecla == ASSUME IInvV, TeclaFuncion PROVE IInvV'
<1>1. fase = "espera" /\ fase' = "corre" /\ UNCHANGED <<guarda>>
  BY DEF TeclaFuncion, En, Contesta
<1>2. CASE UNCHANGED <<surk, pila>>
  BY <1>1, <1>2, InvVIntacto
<1>3. CASE /\ kivo < MaxKivo
           /\ surk' = Append(surk, lok) /\ pila' = Append(pila, Situacion)
  <2>1. Alturas'
    <3>1. /\ EsSeq(Append(surk, lok)) /\ EsSeq(Append(pila, Situacion))
          /\ Len(Append(surk, lok)) = Len(surk) + 1 /\ Len(Append(pila, Situacion)) = Len(surk) + 1
      BY Empuja DEF IInvV, Alturas
    <3>2. Len(surk) + 1 \in 0..MaxKivo
      BY <1>3, ConstantesVpg DEF IInvV, Alturas, kivo, ConstantesVpg
    <3> QED
      BY <1>1, <1>3, <3>1, <3>2 DEF IInvV, Alturas
  <2>2. Anotado'
    BY <1>1 DEF Anotado
  <2>3. \A k \in 1..kivo : surk'[k] = surk[k] /\ pila'[k] = pila[k]
    BY <1>3, Empuja DEF IInvV, Alturas, kivo
  <2>4. kivo' = kivo + 1 /\ kivo \in Nat
    BY <1>3, Empuja DEF IInvV, Alturas, kivo
  <2>5. surk'[kivo + 1] = lok /\ pila'[kivo + 1] = Situacion
    BY <1>3, Empuja DEF IInvV, Alturas, kivo
  <2>6. guarda[kivo] = Anota
    BY <1>1 DEF IInvV, Anotado
  <2>7. ASSUME NEW k \in 1..kivo'
        PROVE  /\ surk'[k] = pila'[k].ins
               /\ guarda'[k - 1] = [vrow |-> pila'[k].vrow, inp |-> pila'[k].inp,
                                    paro |-> pila'[k].paro]
    <3>1. CASE k \in 1..kivo
      BY <1>1, <2>3, <3>1 DEF IInvV, VueltaAlCampo
    <3>2. CASE k = kivo + 1
      BY <1>1, <2>4, <2>5, <2>6, <3>2 DEF Situacion, Anota
    <3> QED
      BY <2>4, <3>1, <3>2
  <2> QED
    BY <2>1, <2>2, <2>7 DEF IInvV, VueltaAlCampo
<1> QED
  BY <1>2, <1>3 DEF TeclaFuncion

\* And ] takes it off.
LEMMA InvVVuelve == ASSUME IInvV, Vuelve PROVE IInvV'
<1>1. /\ surk # <<>> /\ surk' = Quita(surk) /\ pila' = Quita(pila)
      /\ fase = "corre" /\ UNCHANGED <<guarda, fase>>
  BY DEF Vuelve, Ejecuta
<1>2. pila # <<>>
  BY <1>1, Saca, VaciaEsSeq DEF IInvV, Alturas
<1>3. Alturas'
  <2>1. EsSeq(Quita(surk)) /\ EsSeq(Quita(pila)) /\ Len(Quita(pila)) = Len(Quita(surk))
    BY <1>1, <1>2, Saca DEF IInvV, Alturas
  <2>2. Len(Quita(surk)) \in 0..MaxKivo
    BY <1>1, Saca, ConstantesVpg DEF IInvV, Alturas, ConstantesVpg
  <2> QED
    BY <1>1, <2>1, <2>2 DEF IInvV, Alturas
<1>4. Anotado'
  BY <1>1 DEF Anotado
<1>5. kivo' = kivo - 1 /\ kivo \in Nat \ {0}
  BY <1>1, Saca DEF IInvV, Alturas, kivo
<1>6. \A k \in 1..kivo' : surk'[k] = surk[k] /\ pila'[k] = pila[k]
  BY <1>1, <1>2, <1>5, Saca DEF IInvV, Alturas, kivo
<1>7. VueltaAlCampo'
  BY <1>1, <1>5, <1>6 DEF IInvV, VueltaAlCampo
<1> QED
  BY <1>3, <1>4, <1>7 DEF IInvV

\* Every instruction keeps it.
LEMMA InvVInstruccion == ASSUME IInvV, Instruccion PROVE IInvV'
<1>1. CASE Espera
  BY <1>1, InvVEspera
<1>2. CASE Vuelve
  BY <1>2, InvVVuelve
<1>3. CASE Encadena
  <2>1. PICK p : Carga(p) /\ UNCHANGED <<guarda, fase>> /\ fase = "corre"
    BY <1>3 DEF Encadena, Ejecuta
  <2> QED
    BY <2>1, InvVCarga
<1>4. CASE \/ Dato \/ Goto \/ Compara \/ ComparaLlama \/ Falla \/ Forma \/ LlamaSub \/ LlamaSegun
           \/ Regresa \/ CualquierTecla
  <2>1. fase = "corre" /\ UNCHANGED <<surk, pila, guarda, fase>>
    BY <1>4 DEF Dato, Goto, Compara, ComparaLlama, Falla, Forma, LlamaSub, LlamaSegun, Regresa,
                CualquierTecla, Ejecuta, SoloSalta, SoloLlama
  <2> QED
    BY <2>1, InvVIntacto
<1>5. CASE Programa \/ Cancela \/ PoneInp \/ PoneParo \/ PoneModo
  <2>1. fase = "corre" /\ UNCHANGED <<surk, pila, guarda, fase>>
    BY <1>5 DEF Programa, Cancela, PoneInp, PoneParo, PoneModo, Ejecuta
  <2> QED
    BY <2>1, InvVIntacto
<1>6. CASE Cruda \/ Video \/ AbreVentana \/ QuitaVentana \/ Coloca
  <2>1. fase = "corre" /\ UNCHANGED <<surk, pila, guarda, fase>>
    BY <1>6 DEF Cruda, Video, AbreVentana, QuitaVentana, Coloca, SoloPantalla, Ejecuta
  <2> QED
    BY <2>1, InvVIntacto
<1>7. CASE \/ Canal \/ AbreCanal \/ CierraCanal \/ Reporta \/ Linea \/ Salto12 \/ FinCabecera
           \/ FinPie
  <2>1. fase = "corre" /\ UNCHANGED <<surk, pila, guarda, fase>>
    BY <1>7 DEF Canal, AbreCanal, CierraCanal, Reporta, Linea, Salto12, FinCabecera, FinPie,
                SoloPapel, Ejecuta
  <2> QED
    BY <2>1, InvVIntacto
<1> QED
  BY <1>1, <1>2, <1>3, <1>4, <1>5, <1>6, <1>7 DEF Instruccion

\* And so does every key.
LEMMA InvVUsuario == ASSUME IInvV, Usuario PROVE IInvV'
<1>1. CASE TeclaFuncion
  BY <1>1, InvVTecla
<1>2. CASE SiNo \/ Escoge \/ EscapeMenu
  <2>1. fase' # "espera" /\ UNCHANGED <<surk, pila, guarda>>
    BY <1>2 DEF SiNo, Escoge, EscapeMenu, Contesta
  <2> QED
    BY <2>1, InvVIntacto
<1>3. CASE EscribeCampo \/ MueveCampo \/ AcabaCampo \/ DejaCampo
  <2>1. fase = "espera" /\ UNCHANGED <<surk, pila, guarda, pant, inp, paro>>
    BY <1>3 DEF EscribeCampo, MueveCampo, AcabaCampo, DejaCampo, En, SoloCampo
  <2> QED
    BY <2>1, InvVIntacto
<1>4. CASE Rompe
  <2>1. UNCHANGED <<surk, pila, guarda, pant, inp, paro, fase>>
    BY <1>4 DEF Rompe, terminal
  <2> QED
    BY <2>1, InvVIntacto
<1> QED
  BY <1>1, <1>2, <1>3, <1>4 DEF Usuario

\* Every step of the interpreter, and of the compiler before it, keeps it.
LEMMA InvVPaso == ASSUME IInvV, [Next]_vars PROVE IInvV'
<1>1. CASE Compila /\ UNCHANGED corre
  BY <1>1, InvVIntacto DEF corre, control, terminal
<1>2. CASE Arranca
  BY <1>2, InvVCarga DEF Arranca
<1>3. CASE AtiendeStop \/ Acaba
  <2>1. fase' # "espera" /\ UNCHANGED <<surk, pila, guarda>>
    BY <1>3 DEF AtiendeStop, Acaba
  <2> QED
    BY <2>1, InvVIntacto
<1>4. CASE Instruccion
  BY <1>4, InvVInstruccion
<1>5. CASE Usuario
  BY <1>5, InvVUsuario
<1>6. CASE UNCHANGED vars
  BY <1>6, InvVIntacto DEF vars, corre, control, terminal
<1> QED
  BY <1>1, <1>2, <1>3, <1>4, <1>5, <1>6 DEF Next

\* A K routine gives back the field it interrupted, its row, its escape and its break,
\* in any program, whatever keys and Control-C the user types (chefun3.c, vpg4s.c:568).
THEOREM RegresoAlCampo == Spec => []VueltaAlCampo
<1>1. Init => IInvV
  BY InvVInit, ConstantesVpg
<1>2. IInvV /\ [Next]_vars => IInvV'
  BY InvVPaso
<1>3. IInvV => VueltaAlCampo
  BY DEF IInvV
<1> QED
  BY <1>1, <1>2, <1>3, PTL DEF Spec

\* The interpreter leaves the compiler's state alone.
LEMMA SoloCompila == ASSUME [Next]_vars PROVE [Compila]_compila
<1>1. CASE Compila
  BY <1>1
<1>2. CASE Arranca \/ AtiendeStop \/ Acaba
  BY <1>2 DEF Arranca, Carga, AtiendeStop, Acaba
<1>3. CASE Instruccion
  <2>1. CASE \/ Espera \/ Vuelve \/ Encadena \/ Dato \/ Goto \/ Compara \/ ComparaLlama \/ Falla
             \/ Forma \/ LlamaSub \/ LlamaSegun \/ Regresa \/ CualquierTecla
    BY <2>1 DEF Espera, Vuelve, Encadena, Carga, Dato, Goto, Compara, ComparaLlama, Falla, Forma,
                LlamaSub, LlamaSegun, Regresa, CualquierTecla, SoloSalta, SoloLlama
  <2>2. CASE \/ Programa \/ Cancela \/ PoneInp \/ PoneParo \/ PoneModo \/ Cruda \/ Video
             \/ AbreVentana \/ QuitaVentana \/ Coloca
    BY <2>2 DEF Programa, Cancela, PoneInp, PoneParo, PoneModo, Cruda, Video, AbreVentana,
                QuitaVentana, Coloca, SoloPantalla
  <2>3. CASE \/ Canal \/ AbreCanal \/ CierraCanal \/ Reporta \/ Linea \/ Salto12 \/ FinCabecera
             \/ FinPie
    BY <2>3 DEF Canal, AbreCanal, CierraCanal, Reporta, Linea, Salto12, FinCabecera, FinPie,
                SoloPapel
  <2> QED BY <1>3, <2>1, <2>2, <2>3 DEF Instruccion
<1>4. CASE Usuario
  BY <1>4 DEF Usuario, TeclaFuncion, SiNo, Escoge, EscapeMenu, Contesta, EscribeCampo, MueveCampo,
              AcabaCampo, DejaCampo, Rompe, SoloCampo
<1>5. CASE UNCHANGED vars
  BY <1>5 DEF vars
<1> QED BY <1>1, <1>2, <1>3, <1>4, <1>5 DEF Next

\* In every object that vpg loads, of any sources that are well written, each jump goes
\* where its source says: to a label, to a loop's start or end, to a bar's branches, and
\* to instruction 0 from a label that is not there (vp3.c:88, getins, and 767, getpos).
THEOREM SaltosSiempre == Spec => []SaltosFieles
<1>1. Init => Compilado
  BY InicioCompila DEF Init
<1>2. Compilado /\ [Next]_vars => Compilado'
  BY SoloCompila, CompilaPaso
<1>3. Compilado => SaltosFieles
  BY Fieles
<1> QED BY <1>1, <1>2, <1>3, PTL DEF Spec

-----------------------------------------------------------------------------
(* The objects that run *)

\* Instruction q of an object whose last number is M can run: it is not the end, its
\* targets are numbers of the object, and what it names is there.
Buena(b, q, M) ==
    /\ ~ EsFinal(b)
    /\ \A j \in DOMAIN b.a : b.a[j] \in 0..M
    /\ b.op \in ConMeta => 1 \in DOMAIN b.a
    /\ b.op = "FP" \/ b.op = "y" => 1 \in DOMAIN b.a /\ 2 \in DOMAIN b.a
    /\ b.op = "e" => b.x \in DOMAIN trabajo
    /\ b.op = "Ff" => b.x \in Canales
    /\ b.op = "i" => b.x.n \in Nat
    /\ b.op = "!<" => q + 1 <= M
Buenas(c, M) == \A q \in 1..Len(c) : Buena(c[q], q, M)

\* An object is instructions that can run, and the end.
Sana(c) ==
    /\ EsSeq(c) /\ Len(c) \in Nat \ {0} /\ EsFinal(c[Len(c)])
    /\ \A q \in 1..Len(c)-1 : Buena(c[q], q, Len(c) - 1)
Sanos ==
    /\ \A n \in DOMAIN obj : Sana(obj[n].cod) /\ obj[n].toins = Len(obj[n].cod) + 1
    /\ DOMAIN obj \subseteq DOMAIN trabajo
    /\ cual = Nada => DOMAIN obj = DOMAIN trabajo

\* What is written of one can run too.
Escribe2 ==
    cual # Nada /\ pase = 2 => instr = cuenta[Len(src)] + 1 /\ Buenas(cod, cuenta[Len(src)])
IInvO == Compilado /\ Escribe2 /\ Sanos

-----------------------------------------------------------------------------
(* The instruction numbers that are kept *)

Numeros == 0..Len(obj[nombre].cod)-1
Propio(d) == \E n \in Numeros : d = [n |-> n, de |-> nombre]
NadaOPropio(d) == d.n = 0 \/ Propio(d)
Propias(s) == EsSeq(s) /\ \A k \in 1..Len(s) : Propio(s[k])

\* The label of an escape is none, or the program's own; or the caller's, while the program
\* called has not run its t0, or has been broken before, which ends it.
EscapeSano ==
    \/ NadaOPropio(inp)
    \/ ins.n = 0 /\ I.op = "t0" /\ paro.n = Len(obj[nombre].cod) - 1
    \/ EsFinal(I)

Teclado(f) == f = [k \in Teclas |-> f[k]] /\ \A k \in Teclas : NadaOPropio(f[k])
EsHoja(r) ==
    \E u, l, p, i, x, f, h, b :
        r = [sit |-> u, tlp |-> l, pg |-> p, pies |-> i, lpp |-> x, fl |-> f, lbh |-> h, lbf |-> b]
Hojas == tex = [c \in Canales |-> tex[c]] /\ \A c \in Canales : EsHoja(tex[c])
Reportes == \A c \in Canales : tex[c].sit = 1 => Propio(tex[c].lbh) /\ Propio(tex[c].lbf)
Regder == regder.de \in DOMAIN obj =>
             \E n \in 0..Len(obj[regder.de].cod)-1 : regder = [n |-> n, de |-> regder.de]
Pendientes == \A k \in 1..Len(pila) : NadaOPropio(pila[k].inp) /\ Propio(pila[k].paro)

\* Before it starts, nothing is set.
Parada ==
    /\ inp = Cero /\ regder = Cero /\ tex = [c \in Canales |-> Cerrado]
    /\ dk = [k \in Teclas |-> Cero] /\ fk = [k \in Teclas |-> Cero]
Andando ==
    /\ cual = Nada /\ nombre \in DOMAIN obj
    /\ Propio(ins) /\ Propio(paro) /\ Propias(sur) /\ Propias(surk) /\ Pendientes
    /\ EscapeSano /\ Teclado(dk) /\ Teclado(fk)
    /\ ffaa \in Canales /\ Hojas /\ Reportes /\ Regder
    /\ fase = "espera" => lok = ins /\ I.op \in {"i", "y", "?g", "?G"}
IInvR == IF fase = "inicio" THEN Parada ELSE Andando
IInvS == IInvO /\ IInvV /\ IInvR

-----------------------------------------------------------------------------
(* The compiler writes what can run *)

\* A source is complete.
LEMMA Entera ==
    ASSUME Compilado, cual # Nada
    PROVE  Completa(trabajo, src) /\ DOMAIN src = 1..Len(src) /\ tok \in 1..Len(src) /\ src[tok] = t
<1>1. trabajo \in Trabajos /\ cual \in DOMAIN trabajo
  BY DEF Compilado
<1>2. Completa(trabajo, trabajo[cual])
  BY <1>1, FuentesCompletas
<1>3. BienEscrita(src) /\ tok \in 1..Len(src)
  BY Fuente
<1>4. DOMAIN src = 1..Len(src)
  BY <1>3, Escrita
<1> QED BY <1>2, <1>3, <1>4 DEF src, t

\* The numbers that the passes have are none beyond the last.
NoPasan(f, c, n, s, lop, M) ==
    /\ M \in Nat /\ c[n + 1] \in Nat /\ c[n + 1] + Cuantas(f[n + 1]) <= M
    /\ \A m \in 1..Len(lop) : lop[m].ini \in 0..M
    /\ \A l \in DOMAIN s : s[l] \in 0..M
    /\ \A j \in n+2..Len(f)-1 : Cuantas(f[j]) > 0 => c[n + 1] + Cuantas(f[n + 1]) + 1 <= M
\* They are in range for a token with others after it.
LEMMA Alcance ==
    ASSUME NEW f, NEW c, NEW s, NEW n, NEW o, NEW ifl, NEW lop, Listo(f, c, s, n, o, ifl, lop),
           Etiquetado(f, c, Len(f), s), NEW M, M = c[Len(f)]
    PROVE  NoPasan(f, c, n, s, lop, M)
<1>1. BienEscrita(f) /\ Contado(f, c, Len(f)) /\ n \in 0..Len(f)-2 /\ Hecho(f, c, s, n, o, ifl, lop)
  BY DEF Listo
<1>2. Len(f) \in Nat \ {0} /\ \A k \in 1..Len(f) : Cuantas(f[k]) \in Nat
  BY <1>1, Escrita, Ficha
<1>3. PICK L : L = Len(f)
  OBVIOUS
<1>4. /\ c \in Seq(Nat) /\ Len(c) = L /\ L \in Nat \ {0}
      /\ \A k, j \in 1..L : k < j => FinDe(f, c, k) <= c[j]
  BY <1>1, <1>2, <1>3 DEF Contado
<1>5. \A k \in 1..L : c[k] \in Nat /\ Cuantas(f[k]) \in Nat
  BY <1>2, <1>3, <1>4
<1>6. \A k, j \in 1..L : k < j => c[k] + Cuantas(f[k]) <= c[j]
  BY <1>4 DEF FinDe
<1>7. M \in Nat /\ M = c[L] /\ \A k \in 1..L : c[k] \in 0..M
  <2>1. M \in Nat /\ M = c[L]
    BY <1>3, <1>4, <1>5
  <2>2. ASSUME NEW k \in 1..L PROVE c[k] \in 0..M
    <3>1. CASE k = L
      BY <2>1, <3>1
    <3>2. CASE k # L
      <4>1. k < L /\ L \in 1..L
        BY <1>4, <3>2
      <4> QED BY <1>5, <1>6, <2>1, <4>1
    <3> QED BY <3>1, <3>2
  <2> QED BY <2>1, <2>2
<1>8. n + 1 \in 1..L /\ n + 1 < L /\ L \in 1..L /\ n \in Nat
  BY <1>1, <1>3, <1>4
<1>9. c[n + 1] \in Nat /\ c[n + 1] + Cuantas(f[n + 1]) <= M
  BY <1>5, <1>6, <1>7, <1>8
<1>10. ASSUME NEW m \in 1..Len(lop) PROVE lop[m].ini \in 0..M
  <2>1. PICK i \in 1..n : lop[m].ini = c[i]
    BY <1>1 DEF Hecho, Vueltas
  <2>2. i \in 1..L
    BY <1>8
  <2> QED BY <1>7, <2>1, <2>2
<1>11. ASSUME NEW l \in DOMAIN s PROVE s[l] \in 0..M
  <2>1. PICK k \in 1..L : s[l] = c[k]
    BY <1>3 DEF Etiquetado
  <2> QED BY <1>7, <2>1
<1>12. ASSUME NEW j \in n+2..L-1, Cuantas(f[j]) > 0 PROVE c[n + 1] + Cuantas(f[n + 1]) + 1 <= M
  <2>1. j \in 1..L /\ n + 1 < j /\ j < L
    BY <1>4, <1>8
  <2>2. c[n + 1] + Cuantas(f[n + 1]) <= c[j] /\ c[j] + Cuantas(f[j]) <= M
    BY <1>6, <1>7, <1>8, <2>1
  <2> QED BY <1>5, <1>7, <1>8, <1>12, <2>1, <2>2, SMTT(30)
<1> QED BY <1>3, <1>7, <1>9, <1>10, <1>11, <1>12 DEF NoPasan

\* For the token that getins reads.
LEMMA Alcance2 ==
    ASSUME Compilado, pase = 2, cual # Nada, ~ EsFinal(t), NEW M, M = cuenta[Len(src)]
    PROVE  /\ M \in Nat /\ pins \in Nat /\ pins + Cuantas(t) <= M
           /\ \A m \in 1..Len(loop) : loop[m].ini \in 0..M
           /\ \A l \in DOMAIN sym : sym[l] \in 0..M
           /\ \A j \in tok+1..Len(src)-1 : Cuantas(src[j]) > 0 => pins + Cuantas(t) + 1 <= M
           /\ Len(loop) = Lazos(src, tok - 1)
<1>1. /\ Listo(src, cuenta, sym, tok - 1, cod, ifloc, loop)
      /\ tok = (tok - 1) + 1 /\ tok \in 1..Len(src) /\ pins = cuenta[tok]
  BY Lee
<1>2. Etiquetado(src, cuenta, Len(src), sym)
  BY DEF Compilado, Traducido
<1>3. PICK f : f = src
  OBVIOUS
<1>4. PICK c : c = cuenta
  OBVIOUS
<1>5. PICK n : n = tok - 1
  OBVIOUS
<1>6. PICK s : s = sym
  OBVIOUS
<1>7. PICK lop : lop = loop
  OBVIOUS
<1>8. NoPasan(f, c, n, s, lop, M)
  BY <1>1, <1>2, <1>3, <1>4, <1>5, <1>6, <1>7, Alcance
<1>9. n + 1 = tok /\ n + 2 = tok + 1 /\ t = f[tok] /\ c[n + 1] = pins
  BY <1>1, <1>3, <1>4, <1>5 DEF t
<1>10. Len(lop) = Lazos(f, n)
  BY <1>1, <1>3, <1>5, <1>7 DEF Listo, Hecho, Vueltas
<1> QED BY <1>3, <1>4, <1>5, <1>6, <1>7, <1>8, <1>9, <1>10 DEF NoPasan

\* A target is a number of the object.
LEMMA Destinos ==
    ASSUME Compilado, pase = 2, cual # Nada, ~ EsFinal(t), Apunta(src, tok),
           UltimaBarra(t) => t.op # "y", NEW M, M = cuenta[Len(src)], NEW j \in DOMAIN t.d
    PROVE  Valor(t.d[j]) \in 0..M
<1>1. /\ M \in Nat /\ pins \in Nat /\ pins + Cuantas(t) <= M
      /\ \A m \in 1..Len(loop) : loop[m].ini \in 0..M
      /\ \A l \in DOMAIN sym : sym[l] \in 0..M
      /\ Len(loop) = Lazos(src, tok - 1)
  BY Alcance2
<1>2. BienEscrita(src) /\ tok \in 1..Len(src)
  BY Lee
<1>3. PICK f : f = src
  OBVIOUS
<1>4. t = f[tok] /\ Apunta(f, tok)
  BY <1>3 DEF t
<1>5. PICK d : d = t.d[j]
  OBVIOUS
<1>6. CASE d = "-"
  <2>1. Lazos(f, tok - 1) > 0
    BY <1>2, <1>3, <1>4, <1>5, <1>6, Escrita
  <2>2. Lazos(f, tok - 1) \in Int
    BY <1>2, <1>3, IfsMas, LazosMas
  <2>3. Len(loop) \in 1..Len(loop)
    BY <1>1, <1>3, <2>1, <2>2
  <2> QED BY <1>1, <1>5, <1>6, <2>3, Valor1
<1>7. CASE d = "+"
  BY <1>1, <1>5, <1>7 DEF Valor
<1>8. CASE d = "|"
  <2>1. UltimaBarra(f[tok])
    <3>1. j \in DOMAIN f[tok].d /\ f[tok].d[j] = "|"
      BY <1>4, <1>5, <1>8
    <3>2. BienEscrita(f) /\ tok \in 1..Len(f)
      BY <1>2, <1>3
    <3>3. ~ UltimaBarra(f[tok]) => \A i \in DOMAIN f[tok].d : f[tok].d[i] # "|"
      BY <3>2, Ficha
    <3> QED BY <3>1, <3>3
  <2>2. Cuantas(t) = 2
    BY <1>2, <1>3, <1>4, <2>1, Ficha
  <2> QED BY <1>1, <1>5, <1>8, <2>2, Valor1
<1>9. CASE d \notin {"+", "-", "|"}
  BY <1>1, <1>5, <1>9, Valor1
<1> QED BY <1>6, <1>7, <1>8, <1>9

\* The instruction of a token can run.
LEMMA BuenaFicha ==
    ASSUME Compilado, pase = 2, cual # Nada, ~ EsFinal(t), Apunta(src, tok), NEW M, M = cuenta[Len(src)],
           NEW w, DOMAIN t.d \subseteq DOMAIN w, \A j \in DOMAIN w : w[j] \in 0..M,
           t.op = "y" => 1 \in DOMAIN w /\ 2 \in DOMAIN w, NEW q, q = pins + 1
    PROVE  Buena(Ins(t.op, w, t.x), q, M)
<1>1. /\ M \in Nat /\ pins \in Nat /\ pins + Cuantas(t) <= M
      /\ \A j \in tok+1..Len(src)-1 : Cuantas(src[j]) > 0 => pins + Cuantas(t) + 1 <= M
  BY Alcance2
<1>2. Completa(trabajo, src) /\ DOMAIN src = 1..Len(src) /\ tok \in 1..Len(src) /\ src[tok] = t
  BY Entera
<1>3. BienEscrita(src)
  BY Lee
<1>4. t.d \in Seq(STRING) /\ Cuantas(t) = IF UltimaBarra(t) /\ t.op # "y" THEN 2 ELSE 1
  BY <1>2, <1>3, Ficha
<1>5. DOMAIN t.d = 1..Len(t.d) /\ Len(t.d) \in Nat
  BY <1>4
<1>6. /\ t.op \in ConMeta => Len(t.d) >= 1
      /\ t.op = "FP" => Len(t.d) >= 2
      /\ t.op = "e" => t.x \in DOMAIN trabajo
      /\ t.op = "Ff" => t.x \in Canales
      /\ t.op = "i" => t.x.n \in Nat
      /\ t.op = "!<" => UltimaBarra(t) \/ \E j \in tok+1..Len(src)-1 : Cuantas(src[j]) > 0
  BY <1>2 DEF Completa
<1>7. PICK b : b = Ins(t.op, w, t.x)
  OBVIOUS
<1>8. b.op = t.op /\ b.a = w /\ b.x = t.x
  BY <1>7 DEF Ins
<1>9. ~ EsFinal(b)
  BY <1>8, Zenon DEF EsFinal
<1>10. b.op \in ConMeta => 1 \in DOMAIN b.a
  BY <1>5, <1>6, <1>8
<1>11. b.op = "FP" \/ b.op = "y" => 1 \in DOMAIN b.a /\ 2 \in DOMAIN b.a
  BY <1>5, <1>6, <1>8
<1>12. b.op = "!<" => q + 1 <= M
  BY <1>1, <1>4, <1>6, <1>8
<1> QED BY <1>6, <1>7, <1>8, <1>9, <1>10, <1>11, <1>12 DEF Buena

\* A jump can run.
LEMMA BuenaG ==
    ASSUME NEW M \in Nat, NEW v \in 0..M, NEW q
    PROVE  Buena(Ins("g", <<v>>, 0), q, M)
<1>1. PICK b : b = Ins("g", <<v>>, 0)
  OBVIOUS
<1>2. b.op = "g" /\ b.a = <<v>>
  BY <1>1 DEF Ins
<1>3. ~ EsFinal(b)
  BY <1>2, Zenon DEF EsFinal
<1>4. DOMAIN b.a = {1} /\ b.a[1] = v
  BY <1>2
<1> QED BY <1>1, <1>2, <1>3, <1>4 DEF Buena

\* With one more.
LEMMA BuenasMas ==
    ASSUME NEW o, EsObjeto(o), NEW M, Buenas(o, M), NEW b, NEW q, q = Len(o) + 1, Buena(b, q, M)
    PROVE  Buenas(Append(o, b), M)
<1>1. PICK c : c = Append(o, b)
  OBVIOUS
<1>2. /\ Len(o) \in Nat /\ Len(c) = Len(o) + 1 /\ c[Len(o) + 1] = b
      /\ \A k \in 1..Len(o) : c[k] = o[k]
  BY <1>1, Empuja DEF EsObjeto
<1>3. ASSUME NEW k \in 1..Len(c) PROVE Buena(c[k], k, M)
  <2>1. CASE k \in 1..Len(o)
    BY <1>2, <2>1 DEF Buenas
  <2>2. CASE k = Len(o) + 1
    BY <1>2, <2>2
  <2> QED BY <1>2, <2>1, <2>2
<1> QED BY <1>1, <1>3 DEF Buenas
\* With some places filled.
LEMMA BuenasLlenas ==
    ASSUME NEW o, EsObjeto(o), NEW M \in Nat, NEW v \in 0..M, Buenas(o, M), NEW P
    PROVE  Buenas(Llena(o, P, v), M)
<1>1. PICK c : c = Llena(o, P, v)
  OBVIOUS
<1>2. Cambia(o, c, P, v) /\ Len(c) = Len(o)
  BY <1>1, ObjetoLleno
<1>3. PICK S : o \in Seq(S)
  BY DEF EsObjeto, EsSeq
<1>4. DOMAIN o = 1..Len(o)
  BY <1>3
<1>5. ASSUME NEW q \in 1..Len(c) PROVE Buena(c[q], q, M)
  <2>1. q \in 1..Len(o) /\ Buena(o[q], q, M)
    BY <1>2 DEF Buenas
  <2>2. /\ c[q].op = o[q].op /\ DOMAIN c[q].a = DOMAIN o[q].a
        /\ \A j \in DOMAIN o[q].a : c[q].a[j] = IF <<q - 1, j>> \in P THEN v ELSE o[q].a[j]
    BY <1>2, <2>1 DEF Cambia
  <2>3. c[q].x = o[q].x
    <3>1. PICK A : c[q] = [o[q] EXCEPT !.a = A]
      BY <1>1, <1>4, <2>1 DEF Llena
    <3>2. PICK u, w, z : o[q] = Ins(u, w, z)
      BY <2>1 DEF EsObjeto
    <3> QED BY <3>1, <3>2 DEF Ins
  <2>4. ~ EsFinal(c[q])
    <3>1. ~ EsFinal(o[q])
      BY <2>1 DEF Buena
    <3> QED BY <2>2, <3>1, Zenon DEF EsFinal
  <2>5. \A j \in DOMAIN c[q].a : c[q].a[j] \in 0..M
    BY <2>1, <2>2 DEF Buena
  <2> QED BY <2>1, <2>2, <2>3, <2>4, <2>5 DEF Buena
<1> QED BY <1>1, <1>5 DEF Buenas

\* getins of a jump.
LEMMA SaltoSano ==
    ASSUME Compilado, GetinsSalto, NEW M, M = cuenta[Len(src)], Buenas(cod, M)
    PROVE  Buenas(cod', M)
<1>1. Pasa2 /\ t.op \in PorGlabs
  BY DEF GetinsSalto
<1>2. ~ EsFinal(t) /\ t.op \notin SinInstruccion \cup {"|", ")"} /\ t.op # "y"
  BY <1>1, Zenon DEF PorGlabs, MiraBarra, SinInstruccion, EsFinal
<1>3. pase = 2 /\ cual # Nada
  BY <1>1 DEF Pasa2
<1>4. EsObjeto(cod) /\ pins \in Nat /\ markif = FALSE /\ BienEscrita(src) /\ tok \in 1..Len(src)
  BY <1>2, <1>3, Lee
<1>5. Apunta(src, tok)
  BY <1>2 DEF Apunta, t
<1>6. M \in Nat /\ pins + Cuantas(t) <= M
  BY <1>2, <1>3, Alcance2
<1>7. PICK w : w = Valores(t.d)
  OBVIOUS
<1>8. DOMAIN w = DOMAIN t.d /\ \A j \in DOMAIN t.d : w[j] = Valor(t.d[j])
  BY <1>7 DEF Valores
<1>9. \A j \in DOMAIN w : w[j] \in 0..M
  BY <1>2, <1>3, <1>5, <1>8, Destinos
<1>10. PICK b : b = Ins(t.op, w, t.x)
  OBVIOUS
<1>11. PICK q : q = pins + 1
  OBVIOUS
<1>12. Buena(b, q, M)
  BY <1>2, <1>3, <1>5, <1>8, <1>9, <1>10, <1>11, BuenaFicha
<1>13. PICK o1 : o1 = Append(cod, b)
  OBVIOUS
<1>14. Buenas(o1, M)
  BY <1>4, <1>11, <1>12, <1>13, BuenasMas DEF pins
<1>15. Agrega(cod, o1, t.op, w)
  BY <1>4, <1>10, <1>13, Agregado
<1>16. EsObjeto(o1) /\ Len(o1) = pins + 1
  BY <1>15 DEF Agrega, Cambia, pins
<1>17. CASE UltimaBarra(t)
  <2>1. cod' = Append(o1, Ins("g", << 0 >>, 0))
    BY <1>7, <1>10, <1>13, <1>17 DEF GetinsSalto
  <2>2. PICK r : r = Len(o1) + 1
    OBVIOUS
  <2>3. Buena(Ins("g", << 0 >>, 0), r, M)
    BY <1>6, BuenaG
  <2> QED BY <1>14, <1>16, <2>1, <2>2, <2>3, BuenasMas
<1>18. CASE ~ UltimaBarra(t)
  <2>1. cod' = o1
    BY <1>4, <1>7, <1>10, <1>13, <1>18 DEF GetinsSalto
  <2> QED BY <1>14, <2>1
<1> QED BY <1>17, <1>18

\* getins of y.
LEMMA YSano ==
    ASSUME Compilado, GetinsY, NEW M, M = cuenta[Len(src)], Buenas(cod, M)
    PROVE  Buenas(cod', M)
<1>1. Pasa2 /\ t.op = "y"
  BY DEF GetinsY
<1>2. ~ EsFinal(t) /\ t.op \notin SinInstruccion \cup {"|", ")"}
  BY <1>1, Zenon DEF SinInstruccion, EsFinal
<1>3. pase = 2 /\ cual # Nada
  BY <1>1 DEF Pasa2
<1>4. EsObjeto(cod) /\ pins \in Nat /\ markif = FALSE /\ BienEscrita(src) /\ tok \in 1..Len(src)
  BY <1>2, <1>3, Lee
<1>5. Apunta(src, tok)
  BY <1>2 DEF Apunta, t
<1>6. M \in Nat /\ pins + Cuantas(t) <= M
  BY <1>2, <1>3, Alcance2
<1>7. /\ t.d \in Seq(STRING)
      /\ Len(t.d) = 2 \/ t.d = <<"|">>
      /\ \A j \in DOMAIN t.d : t.d[j] = "|" => Len(t.d) = 1
  BY <1>1, <1>4, Escrita DEF t
<1>8. Cuantas(t) = 1
  BY <1>1, <1>4, <1>5, Ficha DEF t
<1>9. PICK q : q = pins + 1
  OBVIOUS
<1>10. CASE t.d[1] = "|"
  <2>1. PICK w : w = <<pins + 1, 0>>
    OBVIOUS
  <2>2. cod' = Append(cod, Ins(t.op, w, t.x))
    BY <1>1, <1>10, <2>1 DEF GetinsY
  <2>3. DOMAIN w = {1, 2} /\ w[1] = pins + 1 /\ w[2] = 0
    BY <2>1
  <2>4. \A j \in DOMAIN w : w[j] \in 0..M
    BY <1>4, <1>6, <1>8, <2>3
  <2>5. DOMAIN t.d = {1}
    BY <1>7, <1>10
  <2>6. Buena(Ins(t.op, w, t.x), q, M)
    BY <1>2, <1>3, <1>5, <1>9, <2>3, <2>4, <2>5, BuenaFicha
  <2> QED BY <1>4, <1>9, <2>2, <2>6, BuenasMas DEF pins
<1>11. CASE t.d[1] # "|"
  <2>1. Len(t.d) = 2 /\ DOMAIN t.d = {1, 2}
    BY <1>7, <1>11
  <2>2. ~ UltimaBarra(t)
    BY <1>7, <2>1 DEF UltimaBarra
  <2>3. PICK w : w = Valores(t.d)
    OBVIOUS
  <2>4. cod' = Append(cod, Ins(t.op, w, t.x))
    BY <1>1, <1>4, <1>11, <2>3 DEF GetinsY
  <2>5. DOMAIN w = DOMAIN t.d /\ \A j \in DOMAIN t.d : w[j] = Valor(t.d[j])
    BY <2>3 DEF Valores
  <2>6. \A j \in DOMAIN w : w[j] \in 0..M
    BY <1>2, <1>3, <1>5, <2>2, <2>5, Destinos
  <2>7. Buena(Ins(t.op, w, t.x), q, M)
    BY <1>2, <1>3, <1>5, <1>9, <2>1, <2>5, <2>6, BuenaFicha
  <2> QED BY <1>4, <1>9, <2>4, <2>7, BuenasMas DEF pins
<1> QED BY <1>10, <1>11

\* getins of the rest.
LEMMA OtraSana ==
    ASSUME Compilado, GetinsOtra, NEW M, M = cuenta[Len(src)], Buenas(cod, M)
    PROVE  Buenas(cod', M)
<1>1. Pasa2 /\ t.op \notin Otras
  BY DEF GetinsOtra
<1>2. ~ EsFinal(t) /\ t.op \notin {"|", ")"} /\ t.op # "y" /\ t.op \notin MiraBarra \cup {"y"}
  BY <1>1, Zenon DEF Otras, PorGlabs, EsFinal
<1>3. pase = 2 /\ cual # Nada
  BY <1>1 DEF Pasa2
<1>4. EsObjeto(cod) /\ pins \in Nat /\ BienEscrita(src) /\ tok \in 1..Len(src)
  BY <1>2, <1>3, Lee
<1>5. CASE t.op \in SinInstruccion
  BY <1>5 DEF GetinsOtra
<1>6. CASE t.op \notin SinInstruccion
  <2>1. Apunta(src, tok)
    BY <1>2, <1>6 DEF Apunta, t
  <2>2. PICK w : w = Valores(t.d)
    OBVIOUS
  <2>3. cod' = Append(cod, Ins(t.op, w, t.x))
    BY <1>6, <2>2 DEF GetinsOtra
  <2>4. DOMAIN w = DOMAIN t.d /\ \A j \in DOMAIN t.d : w[j] = Valor(t.d[j])
    BY <2>2 DEF Valores
  <2>5. \A j \in DOMAIN w : w[j] \in 0..M
    BY <1>2, <1>3, <2>1, <2>4, Destinos
  <2>6. PICK q : q = pins + 1
    OBVIOUS
  <2>7. Buena(Ins(t.op, w, t.x), q, M)
    BY <1>2, <1>3, <2>1, <2>4, <2>5, <2>6, BuenaFicha
  <2> QED BY <1>4, <2>3, <2>6, <2>7, BuenasMas DEF pins
<1> QED BY <1>5, <1>6

\* getins of |, of a dot and of ): they fill with numbers that are not beyond the last.
LEMMA BarraSana ==
    ASSUME Compilado, GetinsBarra, NEW M, M = cuenta[Len(src)], Buenas(cod, M)
    PROVE  Buenas(cod', M)
<1>1. Pasa2 /\ t.op = "|" /\ cod' = Append(Llena(cod, {Cima(ifloc)}, pins + 1), Ins("g", << 0 >>, 0))
  BY DEF GetinsBarra
<1>2. ~ EsFinal(t)
  BY <1>1, Zenon DEF EsFinal
<1>3. pase = 2 /\ cual # Nada
  BY <1>1 DEF Pasa2
<1>4. EsObjeto(cod) /\ pins \in Nat /\ BienEscrita(src) /\ tok \in 1..Len(src)
  BY <1>2, <1>3, Lee
<1>5. Cuantas(t) = 1
  BY <1>1, <1>4, Ficha DEF t
<1>6. M \in Nat /\ pins + Cuantas(t) <= M
  BY <1>2, <1>3, Alcance2
<1>7. PICK v : v = pins + 1
  OBVIOUS
<1>8. v \in 0..M
  BY <1>4, <1>5, <1>6, <1>7
<1>9. PICK P : P = {Cima(ifloc)}
  OBVIOUS
<1>10. PICK o1 : o1 = Llena(cod, P, v)
  OBVIOUS
<1>11. Buenas(o1, M)
  BY <1>4, <1>6, <1>8, <1>10, BuenasLlenas
<1>12. EsObjeto(o1)
  BY <1>4, <1>10, ObjetoLleno DEF Cambia
<1>13. PICK r : r = Len(o1) + 1
  OBVIOUS
<1>14. Buena(Ins("g", << 0 >>, 0), r, M)
  BY <1>6, BuenaG
<1> QED BY <1>1, <1>7, <1>9, <1>10, <1>11, <1>12, <1>13, <1>14, BuenasMas
\* A dot fills with the number of the next one.
LEMMA PuntoSano ==
    ASSUME Compilado, GetinsPunto, NEW M, M = cuenta[Len(src)], Buenas(cod, M)
    PROVE  Buenas(cod', M)
<1>1. Pasa2 /\ t.op = "." /\ cod' = Llena(cod, {Cima(ifloc)}, pins)
  BY DEF GetinsPunto
<1>2. ~ EsFinal(t) /\ t.op \in SinInstruccion
  BY <1>1, Zenon DEF EsFinal, SinInstruccion
<1>3. pase = 2 /\ cual # Nada
  BY <1>1 DEF Pasa2
<1>4. EsObjeto(cod) /\ pins \in Nat /\ BienEscrita(src) /\ tok \in 1..Len(src)
  BY <1>2, <1>3, Lee
<1>5. Cuantas(t) = 0
  BY <1>2, <1>4, Ficha DEF t
<1>6. M \in Nat /\ pins + Cuantas(t) <= M
  BY <1>2, <1>3, Alcance2
<1>7. PICK v : v = pins
  OBVIOUS
<1>8. v \in 0..M
  BY <1>4, <1>5, <1>6, <1>7
<1> QED BY <1>1, <1>4, <1>6, <1>7, <1>8, BuenasLlenas
\* A ) goes back to the start of its loop, and fills the jumps out of it.
LEMMA CierraSana ==
    ASSUME Compilado, GetinsCierra, NEW M, M = cuenta[Len(src)], Buenas(cod, M)
    PROVE  Buenas(cod', M)
<1>1. /\ Pasa2 /\ t.op = ")" /\ loop # <<>>
      /\ cod' = Llena(Append(cod, Ins("g", <<Cima(loop).ini>>, 0)), Cima(loop).lpos, pins + 1)
  BY DEF GetinsCierra
<1>2. ~ EsFinal(t) /\ EsCierra(t)
  BY <1>1, Zenon DEF EsFinal, EsCierra
<1>3. pase = 2 /\ cual # Nada
  BY <1>1 DEF Pasa2
<1>4. /\ EsObjeto(cod) /\ pins \in Nat /\ BienEscrita(src) /\ tok \in 1..Len(src)
      /\ Listo(src, cuenta, sym, tok - 1, cod, ifloc, loop)
  BY <1>2, <1>3, Lee
<1>5. Cuantas(t) = 1
  BY <1>2, <1>4, Ficha DEF t
<1>6. M \in Nat /\ pins + Cuantas(t) <= M /\ \A m \in 1..Len(loop) : loop[m].ini \in 0..M
  BY <1>2, <1>3, Alcance2
<1>7. EsSeq(loop)
  BY <1>4 DEF Listo, Hecho, Vueltas
<1>8. Len(loop) \in 1..Len(loop)
  BY <1>1, <1>7, Saca
<1>9. PICK i : i = Cima(loop).ini
  OBVIOUS
<1>10. i \in 0..M
  BY <1>6, <1>8, <1>9 DEF Cima
<1>11. PICK v : v = pins + 1
  OBVIOUS
<1>12. v \in 0..M
  BY <1>4, <1>5, <1>6, <1>11
<1>13. PICK b : b = Ins("g", <<i>>, 0)
  OBVIOUS
<1>14. Buena(b, v, M)
  BY <1>6, <1>10, <1>13, BuenaG
<1>15. PICK o1 : o1 = Append(cod, b)
  OBVIOUS
<1>16. Buenas(o1, M)
  BY <1>4, <1>11, <1>14, <1>15, BuenasMas DEF pins
<1>17. EsObjeto(o1)
  BY <1>4, <1>13, <1>15, Agregado DEF Agrega, Cambia
<1> QED BY <1>1, <1>6, <1>9, <1>11, <1>12, <1>13, <1>15, <1>16, <1>17, BuenasLlenas

\* An object that is written is one that can run.
LEMMA Acabada ==
    ASSUME Compilado, cual # Nada, pase = 2, EsFinal(t), Buenas(cod, cuenta[Len(src)]),
           instr = cuenta[Len(src)] + 1
    PROVE  Sana(Acabado.cod) /\ Acabado.toins = Len(Acabado.cod) + 1
<1>1. BienEscrita(src) /\ Len(src) \in Nat \ {0} /\ tok \in 1..Len(src)
  BY Fuente
<1>2. tok = Len(src)
  BY <1>1, Escrita DEF t
<1>3. Hecho(src, cuenta, sym, tok - 1, cod, ifloc, loop)
  BY DEF Compilado, Traducido
<1>4. EsObjeto(cod) /\ Len(cod) = cuenta[(tok - 1) + 1] /\ (tok - 1) + 1 = tok
  BY <1>1, <1>3 DEF Hecho
<1>5. PICK M : M = Len(cod)
  OBVIOUS
<1>6. M = cuenta[Len(src)] /\ Buenas(cod, M) /\ instr = M + 1
  BY <1>2, <1>4, <1>5
<1>7. PICK b : b = Ins("}", <<>>, 0)
  OBVIOUS
<1>8. EsFinal(b)
  <2>1. b.op = "}"
    BY <1>7, Zenon DEF Ins
  <2> QED BY <2>1, Zenon DEF EsFinal
<1>9. PICK c : c = Append(cod, b)
  OBVIOUS
<1>10. /\ EsSeq(c) /\ M \in Nat /\ Len(c) = M + 1 /\ c[M + 1] = b
       /\ \A k \in 1..M : c[k] = cod[k]
  BY <1>4, <1>5, <1>9, Empuja DEF EsObjeto
<1>11. Acabado.cod = c /\ Acabado.toins = M + 2
  <2>1. Acabado = [toins |-> instr + 1, cod |-> c]
    BY <1>7, <1>9, Zenon DEF Acabado
  <2>2. instr + 1 = M + 2
    BY <1>6, <1>10
  <2> QED BY <2>1, <2>2
<1>12. ASSUME NEW q \in 1..Len(c)-1 PROVE Buena(c[q], q, Len(c) - 1)
  <2>1. q \in 1..M /\ Len(c) - 1 = M
    BY <1>10
  <2> QED BY <1>5, <1>6, <1>10, <2>1 DEF Buenas
<1>13. Sana(c)
  BY <1>8, <1>10, <1>12 DEF Sana
<1> QED BY <1>10, <1>11, <1>13

\* The first pass ends with the count that the last of them wants.
LEMMA CuentaSana == ASSUME Compilado, Getsymbols PROVE Escribe2'
<1>1. /\ pase = 1 /\ cual # Nada /\ trabajo' = trabajo /\ cual' = cual /\ cod' = cod
      /\ instr' = instr + Cuantas(t) /\ cuenta' = Append(cuenta, instr)
  BY DEF Getsymbols
<1>2. IF EsFinal(t) THEN pase' = 2 ELSE pase' = 1
  BY Zenon DEF Getsymbols, EsFinal
<1>3. BienEscrita(src) /\ Len(src) \in Nat \ {0} /\ tok \in 1..Len(src)
  BY <1>1, Fuente
<1>4. Numerado(src, cuenta, sym, tok - 1, instr) /\ cod = <<>>
  BY <1>1 DEF Compilado
<1>5. src' = src
  BY <1>1 DEF src
<1>6. CASE pase' = 2
  <2>1. EsFinal(t)
    BY <1>2, <1>6
  <2>2. tok = Len(src)
    BY <1>3, <2>1, Escrita DEF t
  <2>3. cuenta \in Seq(Nat) /\ Len(cuenta) = tok - 1
    BY <1>4 DEF Numerado, Contado
  <2>4. EsSeq(cuenta) /\ Len(cuenta) + 1 = tok
    BY <1>3, <2>3 DEF EsSeq
  <2>5. cuenta'[tok] = instr
    BY <1>1, <2>4, Empuja
  <2>6. Cuantas(t) = 1
    BY <2>1, Zenon DEF Cuantas, EsFinal, SinInstruccion, MiraBarra
  <2>7. instr' = cuenta'[Len(src')] + 1
    BY <1>1, <1>5, <2>2, <2>5, <2>6
  <2>8. cod' = <<>> /\ 1..Len(cod') = {}
    BY <1>1, <1>4
  <2> QED BY <2>7, <2>8 DEF Escribe2, Buenas
<1>7. CASE pase' # 2
  BY <1>7 DEF Escribe2
<1> QED BY <1>6, <1>7

\* An object that is written is there with the others, and then another starts.
LEMMA TerminaSana == ASSUME IInvO, Termina PROVE Escribe2' /\ Sanos'
<1>1. /\ pase = 2 /\ cual # Nada /\ EsFinal(t) /\ obj' = ConObjeto /\ trabajo' = trabajo /\ pase' = 1
      /\ cual' = (IF Faltan = {} THEN Nada ELSE CHOOSE n \in Faltan : TRUE)
  BY Zenon DEF Termina, EsFinal
<1>2. Escribe2'
  BY <1>1 DEF Escribe2
<1>3. trabajo \in Trabajos /\ cual \in DOMAIN trabajo
  BY <1>1 DEF IInvO, Compilado
<1>4. instr = cuenta[Len(src)] + 1 /\ Buenas(cod, cuenta[Len(src)])
  BY <1>1 DEF IInvO, Escribe2
<1>5. Sana(Acabado.cod) /\ Acabado.toins = Len(Acabado.cod) + 1
  BY <1>1, <1>4, Acabada DEF IInvO
<1>6. DOMAIN obj' = DOMAIN obj \cup {cual}
  BY <1>1 DEF ConObjeto
<1>7. ASSUME NEW n \in DOMAIN obj' PROVE Sana(obj'[n].cod) /\ obj'[n].toins = Len(obj'[n].cod) + 1
  <2>1. CASE n = cual
    <3>1. obj'[n] = Acabado
      BY <1>1, <2>1 DEF ConObjeto
    <3> QED BY <1>5, <3>1
  <2>2. CASE n # cual
    <3>1. obj'[n] = obj[n] /\ n \in DOMAIN obj
      BY <1>1, <1>6, <2>2 DEF ConObjeto
    <3> QED BY <3>1 DEF IInvO, Sanos
  <2> QED BY <2>1, <2>2
<1>8. DOMAIN obj' \subseteq DOMAIN trabajo'
  BY <1>1, <1>3, <1>6 DEF IInvO, Sanos
<1>9. ASSUME cual' = Nada PROVE DOMAIN obj' = DOMAIN trabajo'
  <2>1. Nada \notin DOMAIN trabajo
    BY <1>3, FuentesCompletas
  <2>2. Faltan = {}
    <3>1. Nada \notin Faltan
      BY <2>1 DEF Faltan
    <3> QED BY <1>1, <1>9, <3>1
  <2> QED BY <1>1, <1>6, <1>8, <2>2 DEF Faltan
<1>10. Sanos'
  BY <1>1, <1>7, <1>8, <1>9 DEF Sanos, Sana, Buena
<1> QED BY <1>2, <1>10

\* No object is there.
LEMMA InicioSano == ASSUME InitCompila PROVE IInvO
<1>1. /\ trabajo \in Trabajos /\ cual = (CHOOSE n \in DOMAIN trabajo : TRUE)
      /\ pase = 1 /\ obj = NoFunc
  BY DEF InitCompila
<1>2. DOMAIN trabajo # {} /\ Nada \notin DOMAIN trabajo
  BY <1>1, FuentesBienEscritas, FuentesCompletas
<1>3. cual # Nada
  BY <1>1, <1>2
<1>4. DOMAIN obj = {}
  BY <1>1 DEF NoFunc
<1>5. Escribe2 /\ Sanos
  BY <1>1, <1>3, <1>4 DEF Escribe2, Sanos
<1> QED BY <1>5, InicioCompila DEF IInvO

\* Every step of the compiler keeps what is written.
LEMMA EscribePaso == ASSUME IInvO, [Compila]_compila PROVE IInvO'
<1>1. Compilado'
  BY CompilaPaso DEF IInvO
<1>2. CASE UNCHANGED compila
  <2>1. /\ trabajo' = trabajo /\ cual' = cual /\ pase' = pase /\ instr' = instr
        /\ cod' = cod /\ cuenta' = cuenta /\ obj' = obj
    BY <1>2 DEF compila
  <2>2. src' = src
    BY <2>1 DEF src
  <2>3. PICK M : M = cuenta[Len(src)]
    OBVIOUS
  <2>4. cuenta'[Len(src')] = M
    BY <2>1, <2>2, <2>3
  <2>5. Escribe2'
    BY <2>1, <2>3, <2>4 DEF IInvO, Escribe2, Buenas, Buena
  <2>6. Sanos'
    BY <2>1 DEF IInvO, Sanos, Sana, Buena
  <2> QED BY <1>1, <2>5, <2>6 DEF IInvO
<1>3. CASE Getsymbols
  <2>1. obj' = obj /\ trabajo' = trabajo /\ cual' = cual
    BY <1>3 DEF Getsymbols
  <2>2. Sanos'
    BY <2>1 DEF IInvO, Sanos, Sana, Buena
  <2> QED BY <1>1, <1>3, <2>2, CuentaSana DEF IInvO
<1>4. CASE Termina
  BY <1>1, <1>4, TerminaSana DEF IInvO
<1>5. CASE \/ GetinsSalto \/ GetinsY \/ GetinsBarra \/ GetinsPunto \/ GetinsAbre \/ GetinsCierra
           \/ GetinsOtra
  <2>1. Pasa2
    BY <1>5 DEF GetinsSalto, GetinsY, GetinsBarra, GetinsPunto, GetinsAbre, GetinsCierra, GetinsOtra
  <2>2. /\ pase = 2 /\ cual # Nada /\ trabajo' = trabajo /\ cual' = cual /\ pase' = pase
        /\ instr' = instr /\ cuenta' = cuenta /\ obj' = obj
    BY <2>1 DEF Pasa2
  <2>3. PICK M : M = cuenta[Len(src)]
    OBVIOUS
  <2>4. src' = src
    BY <2>2 DEF src
  <2>5. M' = M /\ cuenta'[Len(src')] = M
    BY <2>2, <2>3, <2>4
  <2>6. instr = M + 1 /\ Buenas(cod, M) /\ Compilado
    BY <2>2, <2>3 DEF IInvO, Escribe2
  <2>7. \A q : Buenas(q, M) <=> Buenas(q, M)
    OBVIOUS
  <2>8. PICK c : c = cod'
    OBVIOUS
  <2>9. Buenas(c, M)
    <3>1. CASE GetinsAbre
      <4>1. cod' = cod
        BY <3>1 DEF GetinsAbre
      <4> QED BY <2>6, <2>8, <4>1
    <3>2. CASE ~ GetinsAbre
      <4>1. Buenas(cod', M)
        BY <1>5, <2>3, <2>6, <3>2, SaltoSano, YSano, BarraSana, PuntoSano, CierraSana, OtraSana
      <4> QED BY <2>8, <4>1
    <3> QED BY <3>1, <3>2
  <2>10. Escribe2'
    BY <2>2, <2>5, <2>6, <2>8, <2>9 DEF Escribe2, Buenas, Buena
  <2>11. Sanos'
    BY <2>2 DEF IInvO, Sanos, Sana, Buena
  <2> QED BY <1>1, <2>10, <2>11 DEF IInvO
<1> QED BY <1>2, <1>3, <1>4, <1>5 DEF Compila

-----------------------------------------------------------------------------
(* The interpreter stays in its program *)

\* The instruction that runs has its next one and its targets in its program.
LEMMA Sigo ==
    ASSUME Sanos, Andando, ~ EsFinal(I)
    PROVE  /\ Propio(Despues(ins)) /\ \A j \in DOMAIN I.a : Propio(Dir(I.a[j]))
           /\ Buena(I, ins.n + 1, Len(obj[nombre].cod) - 1)
           /\ I.op = "!<" => Propio(Despues(Despues(ins)))
<1>1. PICK c : c = obj[nombre].cod
  OBVIOUS
<1>2. Sana(c)
  BY <1>1 DEF Sanos, Andando
<1>3. PICK n \in 0..Len(c)-1 : ins = [n |-> n, de |-> nombre]
  BY <1>1 DEF Andando, Propio, Numeros
<1>4. ins.n = n /\ I = c[n + 1]
  BY <1>1, <1>3 DEF I
<1>5. Len(c) \in Nat \ {0} /\ EsFinal(c[Len(c)]) /\ \A q \in 1..Len(c)-1 : Buena(c[q], q, Len(c) - 1)
  BY <1>2 DEF Sana
<1>6. n + 1 # Len(c)
  BY <1>4, <1>5
<1>7. n + 1 \in 1..Len(c)-1 /\ n \in Nat
  BY <1>3, <1>5, <1>6
<1>8. Buena(I, n + 1, Len(c) - 1)
  BY <1>4, <1>5, <1>7
<1>9. Numeros = 0..Len(c)-1
  BY <1>1 DEF Numeros
<1>10. Despues(ins) = [n |-> n + 1, de |-> nombre]
  BY <1>3 DEF Despues
<1>11. Propio(Despues(ins))
  BY <1>5, <1>7, <1>9, <1>10 DEF Propio
<1>12. ASSUME NEW j \in DOMAIN I.a PROVE Propio(Dir(I.a[j]))
  BY <1>8, <1>9 DEF Buena, Propio, Dir
<1>13. ASSUME I.op = "!<" PROVE Propio(Despues(Despues(ins)))
  <2>1. (n + 1) + 1 <= Len(c) - 1
    BY <1>8, <1>13 DEF Buena
  <2>2. n + 2 \in Numeros
    BY <1>5, <1>7, <1>9, <2>1
  <2>3. PICK d : d = Despues(ins)
    OBVIOUS
  <2>4. PICK m : m = n + 1
    OBVIOUS
  <2>5. d = [n |-> m, de |-> nombre]
    BY <1>10, <2>3, <2>4
  <2>6. Despues(d) = [n |-> m + 1, de |-> nombre]
    BY <2>5 DEF Despues
  <2>7. m + 1 \in Numeros
    BY <1>7, <2>2, <2>4
  <2>8. Propio(Despues(d))
    BY <2>6, <2>7 DEF Propio
  <2> QED BY <2>3, <2>8
<1> QED BY <1>1, <1>4, <1>8, <1>11, <1>12, <1>13

\* Calls and returns.
LEMMA PropiasMas == ASSUME NEW s, NEW e, Propias(s), Propio(e) PROVE Propias(Append(s, e))
<1>1. EsSeq(s)
  BY DEF Propias
<1>2. ASSUME NEW k \in 1..Len(Append(s, e)) PROVE Propio(Append(s, e)[k])
  <2>1. k \in 1..Len(s) \/ k = Len(s) + 1
    BY <1>1, Empuja
  <2> QED BY <1>1, <2>1, Empuja DEF Propias
<1> QED BY <1>1, <1>2, Empuja DEF Propias
\* Returns.
LEMMA PropiasMenos == ASSUME NEW s, Propias(s), s # <<>> PROVE Propias(Quita(s)) /\ Propio(Cima(s))
<1>1. EsSeq(s)
  BY DEF Propias
<1>2. Len(s) \in 1..Len(s)
  BY <1>1, Saca
<1>3. ASSUME NEW k \in 1..Len(Quita(s)) PROVE Propio(Quita(s)[k])
  BY <1>1, Saca DEF Propias
<1> QED BY <1>1, <1>2, <1>3, Saca DEF Propias, Cima
\* None.
LEMMA PropiasNada == Propias(<<>>)
  BY VaciaEsSeq DEF Propias

\* A step within the program: what it may leave as it was.
MismoPrograma == UNCHANGED <<compila, nombre>>
MismoFondo == UNCHANGED <<surk, pila, inp, paro, dk, fk>>
MismoPapel == UNCHANGED <<tex, ffaa, regder>>
FondoPropio ==
    /\ Propias(surk) /\ Pendientes /\ Propio(paro) /\ NadaOPropio(inp)
    /\ Teclado(dk) /\ Teclado(fk)
Papel == ffaa \in Canales /\ Hojas /\ Reportes /\ Regder
EnEspera == fase = "espera" => lok = ins /\ I.op \in {"i", "y", "?g", "?G"}

\* What a step within the program has to give.
LEMMA Junta ==
    ASSUME Andando, MismoPrograma, Propio(ins'), Propias(sur'), FondoPropio', Papel', EnEspera',
           fase' # "inicio"
    PROVE  IInvR'
<1>1. nombre' = nombre /\ obj' = obj /\ cual' = cual
  BY DEF MismoPrograma, compila
<1>2. Propio(ins)' /\ Propias(sur)'
  BY <1>1 DEF Propio, Propias, Numeros
<1>3. EscapeSano'
  BY DEF FondoPropio, EscapeSano
<1>4. (cual = Nada /\ nombre \in DOMAIN obj)'
  BY <1>1 DEF Andando
<1>5. Andando'
  BY <1>2, <1>3, <1>4 DEF Andando, FondoPropio, Papel, EnEspera
<1> QED BY <1>5 DEF IInvR

\* What it leaves as it was stays in the program.
LEMMA FondoIgual ==
    ASSUME Andando, MismoPrograma, MismoFondo, NadaOPropio(inp) PROVE FondoPropio'
<1>1. /\ nombre' = nombre /\ obj' = obj /\ surk' = surk /\ pila' = pila /\ inp' = inp
      /\ paro' = paro /\ dk' = dk /\ fk' = fk
  BY DEF MismoPrograma, MismoFondo, compila
<1> QED
  BY <1>1 DEF Andando, FondoPropio, Propias, Pendientes, Propio, Numeros, NadaOPropio, Teclado
\* And so does paper.
LEMMA PapelIgual ==
    ASSUME Andando, MismoPrograma, MismoPapel PROVE Papel'
<1>1. /\ nombre' = nombre /\ obj' = obj /\ tex' = tex /\ ffaa' = ffaa /\ regder' = regder
  BY DEF MismoPrograma, MismoPapel, compila
<1>2. ffaa' \in Canales /\ Hojas'
  <2>1. ffaa \in Canales /\ Hojas
    BY DEF Andando
  <2>2. tex' = [c \in Canales |-> tex'[c]] /\ \A c \in Canales : EsHoja(tex'[c])
    BY <1>1, <2>1 DEF Hojas
  <2> QED BY <1>1, <2>1, <2>2 DEF Hojas, EsHoja
<1>3. Reportes'
  BY <1>1 DEF Andando, Reportes, Propio, Numeros
<1>4. Regder'
  BY <1>1 DEF Andando, Regder
<1> QED BY <1>2, <1>3, <1>4 DEF Papel

\* Steps that only go elsewhere, or call, or come back.
LEMMA Camina ==
    ASSUME Andando, MismoPrograma, MismoFondo, MismoPapel, NadaOPropio(inp), Propio(ins'), Propias(sur'),
           EnEspera', fase' # "inicio"
    PROVE  IInvR'
  BY FondoIgual, PapelIgual, Junta

\* Steps that leave everything but the phase, or the windows, where it was.
Quieto == UNCHANGED <<compila, nombre, ins, sur, surk, inp, paro, lok, dk, fk, pila, tex, ffaa, regder>>
\* Those steps stay in the program.
LEMMA Queda == ASSUME Andando, Quieto, fase' = fase \/ fase' = "fin", fase # "inicio" PROVE IInvR'
<1>1. /\ nombre' = nombre /\ obj' = obj /\ surk' = surk /\ pila' = pila /\ inp' = inp
      /\ paro' = paro /\ dk' = dk /\ fk' = fk /\ ins' = ins /\ sur' = sur /\ cual' = cual /\ lok' = lok
  BY DEF Quieto, compila
<1>2. Papel'
  BY PapelIgual DEF Quieto, MismoPrograma, MismoPapel
<1>3. I' = I
  BY <1>1 DEF I
<1>4. EscapeSano'
  <2>1. CASE NadaOPropio(inp)
    BY <1>1, <2>1 DEF EscapeSano, NadaOPropio, Propio, Numeros
  <2>2. CASE ins.n = 0 /\ I.op = "t0" /\ paro.n = Len(obj[nombre].cod) - 1
    BY <1>1, <1>3, <2>2 DEF EscapeSano
  <2>3. CASE EsFinal(I)
    <3>1. EsFinal(I')
      BY <1>3, <2>3
    <3>2. EsFinal(I)'
      BY <3>1 DEF EsFinal
    <3> QED BY <3>2 DEF EscapeSano
  <2> QED BY <2>1, <2>2, <2>3 DEF Andando, EscapeSano
<1>5. (cual = Nada /\ nombre \in DOMAIN obj /\ Propio(ins) /\ Propio(paro) /\ Propias(sur) /\ Propias(surk)
       /\ Pendientes /\ Teclado(dk) /\ Teclado(fk))'
  BY <1>1 DEF Andando, Propio, Numeros, Propias, Pendientes, Teclado, NadaOPropio
<1>6. EnEspera'
  BY <1>1, <1>3 DEF EnEspera, Andando
<1>7. Andando'
  BY <1>2, <1>4, <1>5, <1>6 DEF Andando, Papel, EnEspera
<1> QED BY <1>7 DEF IInvR

\* Jumps, calls and returns.
Saltos ==
    \/ Dato \/ Goto \/ Compara \/ ComparaLlama \/ Falla \/ Forma \/ LlamaSub \/ LlamaSegun
    \/ Regresa \/ CualquierTecla
\* They go to the next instruction, to a target or to a return number.
LEMMA SaltosPropios == ASSUME Sanos, Andando, Saltos PROVE IInvR'
<1>1. ~ EsFinal(I) /\ I.op # "t0"
  BY Zenon DEF Saltos, Dato, Goto, Compara, ComparaLlama, Falla, Forma, LlamaSub, LlamaSegun, Regresa,
               CualquierTecla, Ejecuta, EsFinal
<1>2. MismoPrograma /\ MismoFondo /\ MismoPapel /\ fase' = "corre"
  BY DEF Saltos, Dato, Goto, Compara, ComparaLlama, Falla, Forma, LlamaSub, LlamaSegun, Regresa,
         CualquierTecla, Ejecuta, SoloSalta, SoloLlama, papel, MismoPrograma, MismoFondo, MismoPapel
<1>3. NadaOPropio(inp) /\ Propias(sur)
  BY <1>1 DEF Andando, EscapeSano
<1>4. /\ Propio(Despues(ins)) /\ \A j \in DOMAIN I.a : Propio(Dir(I.a[j]))
      /\ I.op = "!<" => Propio(Despues(Despues(ins)))
      /\ I.op \in ConMeta => 1 \in DOMAIN I.a
  BY <1>1, Sigo DEF Buena
<1>5. Propio(ins') /\ Propias(sur')
  <2>1. CASE Dato \/ CualquierTecla
    BY <1>3, <1>4, <2>1 DEF Dato, CualquierTecla, Avanza, Va, SoloSalta
  <2>2. CASE Goto \/ Compara \/ Falla
    <3>1. I.op \in ConMeta /\ sur' = sur /\ (Va(Dir(I.a[1])) \/ Avanza)
      BY <2>2 DEF Goto, Compara, Falla, Ejecuta, ConMeta, SoloSalta
    <3> QED BY <1>3, <1>4, <3>1 DEF Avanza, Va
  <2>3. CASE ComparaLlama
    <3>1. I.op \in ConMeta /\ I.op = "!<"
      BY <2>3 DEF ComparaLlama, Ejecuta, ConMeta
    <3>2. \/ ins' = Dir(I.a[1]) /\ sur' = Append(sur, Despues(Despues(ins)))
          \/ ins' = Despues(ins) /\ sur' = sur
      BY <2>3 DEF ComparaLlama, Va, Avanza
    <3> QED BY <1>3, <1>4, <3>1, <3>2, PropiasMas
  <2>4. CASE Forma
    <3>1. sur' = sur /\ ((ins' = inp /\ inp.n # 0) \/ ins' = Despues(ins))
      BY <2>4 DEF Forma, Va, Avanza, SoloSalta
    <3> QED BY <1>3, <1>4, <3>1 DEF NadaOPropio
  <2>5. CASE LlamaSub
    <3>1. I.op \in ConMeta /\ ins' = Dir(I.a[1]) /\ sur' = Append(sur, Despues(ins))
      BY <2>5 DEF LlamaSub, Ejecuta, ConMeta, Va
    <3> QED BY <1>3, <1>4, <3>1, PropiasMas
  <2>6. CASE LlamaSegun
    <3>1. (\E j \in DOMAIN I.a : ins' = Dir(I.a[j])) /\ sur' = Append(sur, Despues(ins))
      BY <2>6 DEF LlamaSegun, Va
    <3> QED BY <1>3, <1>4, <3>1, PropiasMas
  <2>7. CASE Regresa
    <3>1. sur # <<>> /\ ins' = Cima(sur) /\ sur' = Quita(sur)
      BY <2>7 DEF Regresa, Va
    <3> QED BY <1>3, <3>1, PropiasMenos
  <2> QED BY <2>1, <2>2, <2>3, <2>4, <2>5, <2>6, <2>7 DEF Saltos
<1>6. EnEspera' /\ fase' # "inicio"
  BY <1>2 DEF EnEspera
<1> QED BY <1>2, <1>3, <1>5, <1>6, Camina

\* The screen, and the modes of the fields.
Pantallas == PoneModo \/ Cruda \/ Video \/ AbreVentana \/ QuitaVentana \/ Coloca
\* They go to the next one.
LEMMA PantallasPropias == ASSUME Sanos, Andando, Pantallas PROVE IInvR'
<1>1. ~ EsFinal(I) /\ I.op # "t0"
  BY Zenon DEF Pantallas, PoneModo, Cruda, Video, AbreVentana, QuitaVentana, Coloca, Ejecuta, EsFinal
<1>2. /\ MismoPrograma /\ MismoFondo /\ MismoPapel /\ fase' = "corre" /\ sur' = sur
      /\ ins' = Despues(ins)
  BY DEF Pantallas, PoneModo, Cruda, Video, AbreVentana, QuitaVentana, Coloca, Ejecuta, SoloPantalla,
         Avanza, Va, papel, MismoPrograma, MismoFondo, MismoPapel
<1>3. NadaOPropio(inp) /\ Propias(sur)
  BY <1>1 DEF Andando, EscapeSano
<1>4. Propio(Despues(ins))
  BY <1>1, Sigo
<1>5. EnEspera' /\ fase' # "inicio"
  BY <1>2 DEF EnEspera
<1> QED BY <1>2, <1>3, <1>4, <1>5, Camina

\* The wait for a key.
LEMMA EsperaPropia == ASSUME Sanos, Andando, Espera PROVE IInvR'
<1>1. I.op \in {"i", "y", "?g", "?G"}
  BY DEF Espera, Ejecuta
<1>2. ~ EsFinal(I) /\ I.op # "t0"
  BY <1>1, Zenon DEF EsFinal
<1>3. /\ MismoPrograma /\ MismoFondo /\ MismoPapel /\ fase' = "espera" /\ sur' = sur
      /\ ins' = ins /\ lok' = ins
  BY DEF Espera, papel, MismoPrograma, MismoFondo, MismoPapel
<1>4. NadaOPropio(inp) /\ Propias(sur) /\ Propio(ins)
  BY <1>2 DEF Andando, EscapeSano
<1>5. I' = I
  BY <1>3 DEF I, MismoPrograma, compila
<1>6. EnEspera' /\ fase' # "inicio"
  BY <1>1, <1>3, <1>5 DEF EnEspera
<1> QED BY <1>3, <1>4, <1>6, Camina

\* The answers of the user.
Respuestas == SiNo \/ Escoge \/ EscapeMenu \/ EscribeCampo \/ MueveCampo \/ AcabaCampo \/ DejaCampo
\* They go to the next one, to a target, to a return number or to the escape.
LEMMA RespuestasPropias == ASSUME Sanos, Andando, Respuestas PROVE IInvR'
<1>1. fase = "espera" /\ lok = ins /\ I.op \in {"i", "y", "?g", "?G"}
  BY DEF Respuestas, SiNo, Escoge, EscapeMenu, EscribeCampo, MueveCampo, AcabaCampo, DejaCampo, En, Andando
<1>2. ~ EsFinal(I) /\ I.op # "t0"
  BY <1>1, Zenon DEF EsFinal
<1>3. MismoPrograma /\ MismoFondo /\ MismoPapel /\ lok' = lok
  BY DEF Respuestas, SiNo, Escoge, EscapeMenu, EscribeCampo, MueveCampo, AcabaCampo, DejaCampo, SoloCampo,
         papel, MismoPrograma, MismoFondo, MismoPapel
<1>4. NadaOPropio(inp) /\ Propias(sur) /\ Propio(ins)
  BY <1>2 DEF Andando, EscapeSano
<1>5. /\ Propio(Despues(ins)) /\ \A j \in DOMAIN I.a : Propio(Dir(I.a[j]))
      /\ I.op = "y" => 1 \in DOMAIN I.a /\ 2 \in DOMAIN I.a
  BY <1>2, Sigo DEF Buena
<1>6. Propio(ins') /\ Propias(sur') /\ (fase' = "corre" \/ (fase' = fase /\ ins' = ins))
  <2>1. CASE SiNo
    <3>1. I.op = "y" /\ sur' = sur /\ fase' = "corre" /\ \E j \in 1..2 : ins' = Dir(I.a[j])
      BY <2>1 DEF SiNo, En, Contesta, Va
    <3> QED BY <1>4, <1>5, <3>1
  <2>2. CASE Escoge
    <3>1. /\ fase' = "corre" /\ \E j \in DOMAIN I.a : ins' = Dir(I.a[j])
          /\ sur' = Append(sur, Despues(ins)) \/ sur' = sur
      BY <2>2 DEF Escoge, Contesta, Va
    <3> QED BY <1>4, <1>5, <3>1, PropiasMas
  <2>3. CASE EscapeMenu
    <3>1. sur # <<>> /\ fase' = "corre" /\ ins' = Cima(sur) /\ sur' = Quita(sur)
      BY <2>3 DEF EscapeMenu, Contesta, Va
    <3> QED BY <1>4, <3>1, PropiasMenos
  <2>4. CASE EscribeCampo \/ MueveCampo \/ AcabaCampo
    <3>1. sur' = sur /\ ((ins' = Despues(ins) /\ fase' = "corre") \/ (ins' = ins /\ fase' = fase))
      BY <2>4 DEF EscribeCampo, MueveCampo, AcabaCampo, Contesta, Va, SoloCampo
    <3> QED BY <1>4, <1>5, <3>1
  <2>5. CASE DejaCampo
    <3>1. sur' = sur /\ fase' = "corre" /\ ins' = (IF inp.n # 0 THEN inp ELSE Despues(ins))
      BY <2>5 DEF DejaCampo, Contesta, Va, SoloCampo
    <3> QED BY <1>4, <1>5, <3>1 DEF NadaOPropio
  <2> QED BY <2>1, <2>2, <2>3, <2>4, <2>5 DEF Respuestas
<1>7. EnEspera' /\ fase' # "inicio"
  <2>1. CASE fase' = "corre"
    BY <2>1 DEF EnEspera
  <2>2. CASE fase' = fase /\ ins' = ins
    <3>1. I' = I
      BY <1>3, <2>2 DEF I, MismoPrograma, compila
    <3> QED BY <1>1, <1>3, <2>2, <3>1 DEF EnEspera
  <2> QED BY <1>6, <2>1, <2>2
<1> QED BY <1>3, <1>4, <1>6, <1>7, Camina

\* Control-C: its label is the program's own, or its end.
LEMMA StopPropio == ASSUME Sanos, Andando, AtiendeStop PROVE IInvR'
<1>1. ~ EsFinal(I)
  BY Zenon DEF AtiendeStop, EsFinal
<1>2. /\ MismoPrograma /\ MismoFondo /\ MismoPapel /\ fase' = "corre" /\ sur' = sur /\ ins' = paro
  BY DEF AtiendeStop, papel, MismoPrograma, MismoFondo, MismoPapel
<1>3. Propio(paro) /\ Propias(sur)
  BY DEF Andando
<1>4. EnEspera' /\ fase' # "inicio"
  BY <1>2 DEF EnEspera
<1>5. CASE NadaOPropio(inp)
  BY <1>2, <1>3, <1>4, <1>5, Camina
<1>6. CASE ~ NadaOPropio(inp)
  <2>1. paro.n = Len(obj[nombre].cod) - 1
    BY <1>1, <1>6 DEF Andando, EscapeSano
  <2>2. nombre' = nombre /\ obj' = obj /\ cual' = cual /\ paro' = paro /\ surk' = surk /\ pila' = pila
        /\ dk' = dk /\ fk' = fk
    BY <1>2 DEF MismoPrograma, MismoFondo, compila
  <2>3. PICK c : c = obj[nombre].cod
    OBVIOUS
  <2>4. Sana(c)
    BY <2>3 DEF Sanos, Andando
  <2>5. I' = c[(Len(c) - 1) + 1] /\ Len(c) \in Nat \ {0}
    BY <1>2, <2>1, <2>2, <2>3, <2>4 DEF I, Sana
  <2>6. EsFinal(I')
    BY <2>4, <2>5 DEF Sana
  <2>7. EsFinal(I)'
    BY <2>6 DEF EsFinal
  <2>8. (cual = Nada /\ nombre \in DOMAIN obj /\ Propio(ins) /\ Propio(paro) /\ Propias(sur) /\ Propias(surk)
         /\ Pendientes /\ Teclado(dk) /\ Teclado(fk))'
    BY <1>2, <2>2 DEF Andando, Propio, Numeros, Propias, Pendientes, Teclado, NadaOPropio
  <2>9. Papel'
    BY <1>2, PapelIgual
  <2>10. Andando'
    BY <1>4, <2>7, <2>8, <2>9 DEF Andando, EscapeSano, Papel, EnEspera
  <2> QED BY <1>2, <2>10 DEF IInvR
<1> QED BY <1>5, <1>6

\* The labels of keys, of the escape and of Control-C.
Etiquetas == Programa \/ Cancela \/ PoneInp \/ PoneParo
\* A key that gets a label.
LEMMA TeclaPuesta ==
    ASSUME NEW f, Teclado(f), NEW k, NEW d, NadaOPropio(d)
    PROVE  Teclado([f EXCEPT ![k] = d])
  BY DEF Teclado
\* Keys that are cleared.
LEMMA TeclaBorrada == ASSUME NEW f, Teclado(f), NEW k PROVE Teclado(Borra(f, k))
  BY DEF Teclado, Borra, NadaOPropio, Cero
\* They are of the program.
LEMMA EtiquetasPropias == ASSUME Sanos, Andando, Etiquetas PROVE IInvR'
<1>1. ~ EsFinal(I)
  BY Zenon DEF Etiquetas, Programa, Cancela, PoneInp, PoneParo, Ejecuta, EsFinal
<1>2. /\ MismoPrograma /\ MismoPapel /\ fase' = "corre" /\ sur' = sur /\ surk' = surk /\ pila' = pila
      /\ ins' = Despues(ins)
  BY DEF Etiquetas, Programa, Cancela, PoneInp, PoneParo, Ejecuta, Avanza, Va, papel, MismoPrograma,
         MismoPapel
<1>3. /\ Propio(Despues(ins)) /\ \A j \in DOMAIN I.a : Propio(Dir(I.a[j]))
      /\ I.op \in ConMeta => 1 \in DOMAIN I.a
  BY <1>1, Sigo DEF Buena
<1>4. /\ Propias(sur) /\ Propias(surk) /\ Pendientes /\ Propio(paro) /\ Teclado(dk) /\ Teclado(fk)
      /\ I.op = "t0" \/ NadaOPropio(inp)
  BY <1>1 DEF Andando, EscapeSano
<1>5. Teclado(dk') /\ Teclado(fk') /\ Propio(paro') /\ NadaOPropio(inp')
  <2>1. CASE Programa
    <3>1. /\ I.op \in ConMeta /\ I.op # "t0" /\ inp' = inp /\ paro' = paro
          /\ \/ dk' = dk /\ fk' = [fk EXCEPT ![I.x] = Dir(I.a[1])]
             \/ fk' = fk /\ dk' = [dk EXCEPT ![I.x] = Dir(I.a[1])]
      BY <2>1 DEF Programa, Ejecuta, ConMeta
    <3>2. NadaOPropio(Dir(I.a[1]))
      BY <1>3, <3>1 DEF NadaOPropio
    <3> QED BY <1>4, <3>1, <3>2, TeclaPuesta
  <2>2. CASE Cancela
    <3>1. /\ I.op # "t0" /\ inp' = inp /\ paro' = paro
          /\ \/ dk' = dk /\ fk' = Borra(fk, I.x)
             \/ fk' = fk /\ dk' = Borra(dk, I.x)
      BY <2>2 DEF Cancela, Ejecuta
    <3> QED BY <1>4, <3>1, TeclaBorrada
  <2>3. CASE PoneInp
    <3>1. I.op \in ConMeta /\ inp' = Dir(I.a[1]) /\ paro' = paro /\ dk' = dk /\ fk' = fk
      BY <2>3 DEF PoneInp, Ejecuta, ConMeta
    <3> QED BY <1>3, <1>4, <3>1 DEF NadaOPropio
  <2>4. CASE PoneParo
    <3>1. /\ I.op \in ConMeta /\ I.op # "t0" /\ paro' = Dir(I.a[1]) /\ inp' = inp /\ dk' = dk
          /\ fk' = fk
      BY <2>4 DEF PoneParo, Ejecuta, ConMeta
    <3> QED BY <1>3, <1>4, <3>1
  <2> QED BY <2>1, <2>2, <2>3, <2>4 DEF Etiquetas
<1>6. nombre' = nombre /\ obj' = obj
  BY <1>2 DEF MismoPrograma, compila
<1>7. FondoPropio'
  BY <1>2, <1>4, <1>5, <1>6 DEF FondoPropio, Propias, Pendientes, Propio, Numeros, NadaOPropio, Teclado
<1>8. EnEspera' /\ fase' # "inicio"
  BY <1>2 DEF EnEspera
<1> QED BY <1>2, <1>3, <1>4, <1>7, <1>8, PapelIgual, Junta

\* A function key goes to its label, and leaves where it comes back.
LEMMA TeclaPropia == ASSUME Sanos, Andando, IInvV, TeclaFuncion PROVE IInvR'
<1>1. fase = "espera" /\ lok = ins /\ I.op \in {"i", "y", "?g", "?G"}
  BY DEF TeclaFuncion, En, Andando
<1>2. ~ EsFinal(I) /\ I.op # "t0"
  BY <1>1, Zenon DEF EsFinal
<1>3. MismoPrograma /\ MismoPapel /\ UNCHANGED <<sur, inp, paro, dk, fk>> /\ fase' = "corre"
  BY DEF TeclaFuncion, Contesta, papel, MismoPrograma, MismoPapel
<1>4. /\ NadaOPropio(inp) /\ Propias(sur) /\ Propio(ins) /\ Propias(surk) /\ Pendientes /\ Propio(paro)
      /\ Teclado(dk) /\ Teclado(fk)
  BY <1>2 DEF Andando, EscapeSano
<1>5. PICK k \in Teclas :
          \/ dk[k].n # 0 /\ ins' = dk[k] /\ surk' = surk /\ pila' = pila
          \/ /\ fk[k].n # 0 /\ ins' = fk[k]
             /\ surk' = Append(surk, lok) /\ pila' = Append(pila, Situacion)
  BY ConstantesVpg DEF TeclaFuncion, Contesta, Va, ConstantesVpg
<1>6. Propio(ins')
  BY <1>4, <1>5 DEF Teclado, NadaOPropio
<1>7. Propias(surk')
  BY <1>1, <1>4, <1>5, PropiasMas
<1>8. \A m \in 1..Len(pila') : NadaOPropio(pila'[m].inp) /\ Propio(pila'[m].paro)
  <2>1. CASE pila' = pila
    BY <1>4, <2>1 DEF Pendientes
  <2>2. CASE pila' = Append(pila, Situacion)
    <3>1. EsSeq(pila)
      BY DEF IInvV, Alturas
    <3>2. /\ Len(pila') = Len(pila) + 1 /\ Len(pila) \in Nat /\ pila'[Len(pila) + 1] = Situacion
          /\ \A m \in 1..Len(pila) : pila'[m] = pila[m]
      BY <2>2, <3>1, Empuja
    <3>3. NadaOPropio(Situacion.inp) /\ Propio(Situacion.paro)
      BY <1>4 DEF Situacion
    <3>4. ASSUME NEW m \in 1..Len(pila') PROVE NadaOPropio(pila'[m].inp) /\ Propio(pila'[m].paro)
      <4>1. m \in 1..Len(pila) \/ m = Len(pila) + 1
        BY <3>2
      <4> QED BY <1>4, <3>2, <3>3, <4>1 DEF Pendientes
    <3> QED BY <3>4
  <2> QED BY <1>5, <2>1, <2>2
<1>9. /\ nombre' = nombre /\ obj' = obj /\ sur' = sur /\ inp' = inp /\ paro' = paro /\ dk' = dk
      /\ fk' = fk
  BY <1>3 DEF MismoPrograma, compila
<1>10. FondoPropio'
  BY <1>4, <1>7, <1>8, <1>9 DEF FondoPropio, Propias, Pendientes, Propio, Numeros, NadaOPropio, Teclado
<1>11. EnEspera' /\ fase' # "inicio"
  BY <1>3 DEF EnEspera
<1> QED BY <1>3, <1>4, <1>6, <1>9, <1>10, <1>11, PapelIgual, Junta

\* And ] comes back there, with the labels of then.
LEMMA VuelvePropio == ASSUME Sanos, Andando, IInvV, Vuelve PROVE IInvR'
<1>1. surk # <<>> /\ I.op = "]"
  BY DEF Vuelve, Ejecuta
<1>2. ~ EsFinal(I) /\ I.op # "t0"
  BY <1>1, Zenon DEF EsFinal
<1>3. MismoPrograma /\ MismoPapel /\ UNCHANGED <<sur, dk, fk>> /\ fase' = "corre"
  BY DEF Vuelve, Ejecuta, papel, MismoPrograma, MismoPapel
<1>4. /\ Propias(sur) /\ Propias(surk) /\ Pendientes /\ Teclado(dk) /\ Teclado(fk)
  BY DEF Andando
<1>5. /\ inp' = guarda[kivo - 1].inp /\ paro' = guarda[kivo - 1].paro
      /\ ins' = Cima(surk) /\ surk' = Quita(surk) /\ pila' = Quita(pila)
  BY DEF Vuelve, Va
<1>6. EsSeq(surk) /\ EsSeq(pila) /\ Len(pila) = Len(surk) /\ kivo = Len(surk)
  BY DEF IInvV, Alturas, kivo
<1>7. Len(surk) \in 1..Len(surk) /\ pila # <<>>
  BY <1>1, <1>6, Saca, VaciaEsSeq
<1>8. guarda[kivo - 1].inp = pila[kivo].inp /\ guarda[kivo - 1].paro = pila[kivo].paro
  <2>1. PICK k : k = kivo
    OBVIOUS
  <2>2. k \in 1..kivo
    BY <1>6, <1>7, <2>1
  <2>3. guarda[k - 1] = [vrow |-> pila[k].vrow, inp |-> pila[k].inp, paro |-> pila[k].paro]
    BY <2>2 DEF IInvV, VueltaAlCampo
  <2> QED BY <2>1, <2>3
<1>9. NadaOPropio(inp') /\ Propio(paro')
  BY <1>4, <1>5, <1>6, <1>7, <1>8 DEF Pendientes
<1>10. Propio(ins') /\ Propias(surk')
  BY <1>1, <1>4, <1>5, PropiasMenos
<1>11. \A m \in 1..Len(pila') : NadaOPropio(pila'[m].inp) /\ Propio(pila'[m].paro)
  BY <1>4, <1>5, <1>6, <1>7, Saca DEF Pendientes
<1>12. nombre' = nombre /\ obj' = obj /\ sur' = sur /\ dk' = dk /\ fk' = fk
  BY <1>3 DEF MismoPrograma, compila
<1>13. FondoPropio'
  BY <1>4, <1>9, <1>10, <1>11, <1>12 DEF FondoPropio, Propias, Pendientes, Propio, Numeros, NadaOPropio, Teclado
<1>14. EnEspera' /\ fase' # "inicio"
  BY <1>3 DEF EnEspera
<1> QED BY <1>3, <1>4, <1>10, <1>12, <1>13, <1>14, PapelIgual, Junta

\* A text channel that changes, with the routines of a report of the program's own.
PoneHoja(r) == tex' = [c \in Canales |-> IF c = ffaa THEN r ELSE tex[c]]
HojaPropia(r) == EsHoja(r) /\ (r.sit = 1 => Propio(r.lbh) /\ Propio(r.lbf))
\* Such a channel is as it has to be.
LEMMA PapelPuesto ==
    ASSUME Andando, MismoPrograma, ffaa' = ffaa, regder' = regder \/ Propio(regder'),
           NEW r, HojaPropia(r), PoneHoja(r)
    PROVE  Papel'
<1>1. nombre' = nombre /\ obj' = obj
  BY DEF MismoPrograma, compila
<1>2. tex' = [c \in Canales |-> tex'[c]] /\ \A c \in Canales : EsHoja(tex'[c])
  BY DEF PoneHoja, HojaPropia, Andando, Hojas
<1>3. Hojas'
  BY <1>2 DEF Hojas, EsHoja
<1>4. \A c \in Canales : tex'[c].sit = 1 => Propio(tex'[c].lbh) /\ Propio(tex'[c].lbf)
  BY DEF PoneHoja, HojaPropia, Andando, Reportes
<1>5. Reportes'
  BY <1>1, <1>4 DEF Reportes, Propio, Numeros
<1>6. Regder'
  <2>1. CASE regder' = regder
    BY <1>1, <2>1 DEF Andando, Regder
  <2>2. CASE Propio(regder')
    <3>1. PICK n \in 0..Len(obj[nombre].cod)-1 : regder' = [n |-> n, de |-> nombre]
      BY <2>2 DEF Propio, Numeros
    <3>2. regder'.de = nombre
      BY <3>1
    <3> QED BY <1>1, <3>1, <3>2 DEF Regder
  <2> QED BY <2>1, <2>2
<1> QED BY <1>3, <1>5, <1>6 DEF Papel, Andando

\* What a page that starts, or a line, leaves.
LEMMA HojaCambiada ==
    ASSUME NEW r, HojaPropia(r), NEW n, NEW m
    PROVE  /\ HojaPropia([r EXCEPT !.tlp = n, !.pg = m])
           /\ HojaPropia([r EXCEPT !.tlp = n, !.pies = m])
           /\ HojaPropia([r EXCEPT !.tlp = n])
           /\ HojaPropia([r EXCEPT !.sit = 0, !.tlp = 0, !.pg = 0])
           /\ n # 1 => HojaPropia([r EXCEPT !.sit = n])
<1>1. PICK u, l, p, i, x, f, h, b :
          r = [sit |-> u, tlp |-> l, pg |-> p, pies |-> i, lpp |-> x, fl |-> f, lbh |-> h, lbf |-> b]
  BY DEF HojaPropia, EsHoja
<1>2. u = 1 => Propio(h) /\ Propio(b)
  BY <1>1 DEF HojaPropia
<1>3. ASSUME NEW u2, NEW l2, NEW p2, NEW i2, u2 = 1 => Propio(h) /\ Propio(b)
      PROVE  HojaPropia([sit |-> u2, tlp |-> l2, pg |-> p2, pies |-> i2, lpp |-> x, fl |-> f,
                         lbh |-> h, lbf |-> b])
  <2>1. PICK q : q = [sit |-> u2, tlp |-> l2, pg |-> p2, pies |-> i2, lpp |-> x, fl |-> f,
                      lbh |-> h, lbf |-> b]
    OBVIOUS
  <2>2. EsHoja(q)
    BY <2>1 DEF EsHoja
  <2>3. q.sit = u2 /\ q.lbh = h /\ q.lbf = b
    BY <2>1
  <2> QED BY <1>3, <2>1, <2>2, <2>3 DEF HojaPropia
<1>4. [r EXCEPT !.tlp = n]
         = [sit |-> u, tlp |-> n, pg |-> p, pies |-> i, lpp |-> x, fl |-> f, lbh |-> h, lbf |-> b]
  BY <1>1
<1>5. [r EXCEPT !.sit = n]
         = [sit |-> n, tlp |-> l, pg |-> p, pies |-> i, lpp |-> x, fl |-> f, lbh |-> h, lbf |-> b]
  BY <1>1
<1>6. PICK r1 : r1 = [r EXCEPT !.tlp = n]
  OBVIOUS
<1>7. /\ [r1 EXCEPT !.pg = m] = [sit |-> u, tlp |-> n, pg |-> m, pies |-> i, lpp |-> x, fl |-> f, lbh |-> h, lbf |-> b]
      /\ [r1 EXCEPT !.pies = m] = [sit |-> u, tlp |-> n, pg |-> p, pies |-> m, lpp |-> x, fl |-> f, lbh |-> h, lbf |-> b]
  <2>1. r1 = [sit |-> u, tlp |-> n, pg |-> p, pies |-> i, lpp |-> x, fl |-> f, lbh |-> h, lbf |-> b]
    BY <1>4, <1>6
  <2>2. [r1 EXCEPT !.pg = m] = [sit |-> u, tlp |-> n, pg |-> m, pies |-> i, lpp |-> x, fl |-> f, lbh |-> h, lbf |-> b]
    BY <2>1
  <2>3. [r1 EXCEPT !.pies = m] = [sit |-> u, tlp |-> n, pg |-> p, pies |-> m, lpp |-> x, fl |-> f, lbh |-> h, lbf |-> b]
    BY <2>1
  <2> QED BY <2>2, <2>3
<1>8. HojaPropia([r EXCEPT !.tlp = n, !.pg = m]) /\ HojaPropia([r EXCEPT !.tlp = n, !.pies = m])
  <2>1. HojaPropia([r1 EXCEPT !.pg = m]) /\ HojaPropia([r1 EXCEPT !.pies = m])
    BY <1>2, <1>3, <1>7
  <2> QED BY <1>6, <2>1
<1>9. HojaPropia([r EXCEPT !.sit = 0, !.tlp = 0, !.pg = 0])
  <2>1. PICK r2 : r2 = [r EXCEPT !.sit = 0]
    OBVIOUS
  <2>2. r2 = [sit |-> 0, tlp |-> l, pg |-> p, pies |-> i, lpp |-> x, fl |-> f, lbh |-> h, lbf |-> b]
    BY <1>1, <2>1
  <2>3. PICK r3 : r3 = [r2 EXCEPT !.tlp = 0]
    OBVIOUS
  <2>4. r3 = [sit |-> 0, tlp |-> 0, pg |-> p, pies |-> i, lpp |-> x, fl |-> f, lbh |-> h, lbf |-> b]
    BY <2>2, <2>3
  <2>5. [r3 EXCEPT !.pg = 0] = [sit |-> 0, tlp |-> 0, pg |-> 0, pies |-> i, lpp |-> x, fl |-> f, lbh |-> h, lbf |-> b]
    BY <2>4
  <2>6. HojaPropia([r3 EXCEPT !.pg = 0])
    BY <1>3, <2>5
  <2> QED BY <2>1, <2>3, <2>6
<1> QED BY <1>2, <1>3, <1>4, <1>5, <1>8, <1>9

\* Reports.
Papeles ==
    \/ Canal \/ AbreCanal \/ CierraCanal \/ Reporta \/ Linea \/ Salto12 \/ FinCabecera \/ FinPie
\* They go to the next instruction, to a routine of the report or back from it.
LEMMA PapelesPropios == ASSUME Sanos, Andando, Disciplina, Papeles PROVE IInvR'
<1>1. ~ EsFinal(I) /\ I.op # "t0"
  BY Zenon DEF Papeles, Canal, AbreCanal, CierraCanal, Reporta, Linea, Salto12, FinCabecera, FinPie,
               Ejecuta, EsFinal
<1>2. MismoPrograma /\ MismoFondo /\ fase' = "corre" /\ sur' = sur
  BY DEF Papeles, Canal, AbreCanal, CierraCanal, Reporta, Linea, Salto12, FinCabecera, FinPie,
         Ejecuta, SoloPapel, MismoPrograma, MismoFondo
<1>3. NadaOPropio(inp) /\ Propias(sur) /\ ffaa \in Canales /\ Hojas /\ Reportes /\ Regder
  BY <1>1 DEF Andando, EscapeSano
<1>4. /\ Propio(Despues(ins)) /\ \A j \in DOMAIN I.a : Propio(Dir(I.a[j]))
      /\ I.op = "FP" => 1 \in DOMAIN I.a /\ 2 \in DOMAIN I.a
      /\ I.op = "Ff" => I.x \in Canales
  BY <1>1, Sigo DEF Buena
<1>5. HojaPropia(act)
  BY <1>3 DEF HojaPropia, act, Hojas, Reportes
<1>6. FondoPropio' /\ EnEspera' /\ fase' # "inicio"
  BY <1>2, <1>3, FondoIgual DEF EnEspera
<1>7. tex = [c \in Canales |-> tex[c]] /\ act = tex[ffaa]
  BY <1>3 DEF Hojas, act
<1>8. \A r : tex' = [tex EXCEPT ![ffaa] = r] => PoneHoja(r)
  BY <1>7 DEF PoneHoja
<1>9. Propio(ins') /\ Papel'
  <2>1. CASE Canal
    <3>1. I.op = "Ff" /\ ffaa' = I.x /\ ins' = Despues(ins) /\ tex' = tex /\ regder' = regder
      BY <2>1 DEF Canal, Ejecuta, Avanza, Va, SoloPapel
    <3>2. nombre' = nombre /\ obj' = obj
      BY <1>2 DEF MismoPrograma, compila
    <3>3. Hojas'
      <4>1. tex' = [c \in Canales |-> tex'[c]] /\ \A c \in Canales : EsHoja(tex'[c])
        BY <1>3, <3>1 DEF Hojas
      <4> QED BY <4>1 DEF Hojas, EsHoja
    <3>4. Reportes'
      BY <1>3, <3>1, <3>2 DEF Reportes, Propio, Numeros
    <3>5. Regder'
      BY <1>3, <3>1, <3>2 DEF Regder
    <3> QED BY <1>4, <3>1, <3>3, <3>4, <3>5 DEF Papel
  <2>2. CASE AbreCanal
    <3>1. ins' = Despues(ins) /\ ffaa' = ffaa /\ regder' = regder
      BY <2>2 DEF AbreCanal, Avanza, Va, SoloPapel
    <3>2. PICK v : v # 1 /\ tex' = [tex EXCEPT ![ffaa].sit = v]
      <4>1. tex' = [tex EXCEPT ![ffaa].sit = IF I.x = "r" THEN 2 ELSE 0]
        BY <2>2 DEF AbreCanal
      <4>2. PICK w : w = IF I.x = "r" THEN 2 ELSE 0
        OBVIOUS
      <4>3. w # 1
        BY <4>2
      <4> QED BY <4>1, <4>2, <4>3
    <3>3. PICK r : r = [act EXCEPT !.sit = v]
      OBVIOUS
    <3>4. HojaPropia(r)
      BY <1>5, <3>2, <3>3, HojaCambiada
    <3>5. PoneHoja(r)
      BY <1>7, <3>2, <3>3 DEF PoneHoja
    <3> QED BY <1>2, <1>4, <3>1, <3>4, <3>5, PapelPuesto
  <2>3. CASE CierraCanal
    <3>1. ins' = Despues(ins) /\ ffaa' = ffaa /\ regder' = regder
      BY <2>3 DEF CierraCanal, Avanza, Va, SoloPapel
    <3>2. PICK r : r = [act EXCEPT !.sit = 0, !.tlp = 0, !.pg = 0]
      OBVIOUS
    <3>3. HojaPropia(r)
      BY <1>5, <3>2, HojaCambiada
    <3>4. PoneHoja(r)
      BY <1>3, <1>7, <2>3, <3>2 DEF PoneHoja, CierraCanal
    <3> QED BY <1>2, <1>4, <3>1, <3>3, <3>4, PapelPuesto
  <2>4. CASE Reporta
    <3>1. I.op = "FP" /\ ffaa' = ffaa /\ regder' = Despues(ins)
      BY <2>4 DEF Reporta, Ejecuta, SoloPapel
    <3>2. PICK h, b : h = Dir(I.a[1]) /\ b = Dir(I.a[2])
      OBVIOUS
    <3>3. Propio(h) /\ Propio(b)
      BY <1>4, <3>1, <3>2
    <3>4. PICK r : r = [sit |-> 1, lpp |-> I.x.lpp, fl |-> I.x.fl, tlp |-> 0, pg |-> 0, pies |-> 0,
                        lbh |-> h, lbf |-> b]
      OBVIOUS
    <3>5. HojaPropia(r)
      BY <3>3, <3>4 DEF HojaPropia, EsHoja
    <3>6. tex' = [tex EXCEPT ![ffaa] = Encabeza(r)] /\ ins' = h
      BY <2>4, <3>2, <3>4 DEF Reporta, Va
    <3>7. HojaPropia(Encabeza(r))
      BY <3>5, HojaCambiada DEF Encabeza
    <3> QED BY <1>2, <1>4, <1>8, <3>1, <3>3, <3>6, <3>7, PapelPuesto
  <2>5. CASE Linea
    <3>1. ffaa' = ffaa
      BY <2>5 DEF Linea, SoloPapel
    <3>2. CASE act.sit # 1
      <4>1. ins' = Despues(ins) /\ tex' = tex /\ regder' = regder
        BY <2>5, <3>2 DEF Linea, Avanza, Va
      <4> QED BY <1>2, <1>4, <3>1, <4>1, PapelIgual DEF MismoPapel
    <3>3. CASE act.sit = 1 /\ act.tlp + 1 = act.fl
      <4>1. /\ tex' = [tex EXCEPT ![ffaa].tlp = @ + 1, ![ffaa].pies = @ + 1]
            /\ ins' = act.lbf /\ regder' = Despues(ins)
        BY <2>5, <3>3 DEF Linea, Va
      <4>2. PICK r : r = [act EXCEPT !.tlp = act.tlp + 1, !.pies = act.pies + 1]
        OBVIOUS
      <4>3. HojaPropia(r)
        BY <1>5, <4>2, HojaCambiada
      <4>4. PoneHoja(r)
        <5>1. PICK a : a = act
          OBVIOUS
        <5>2. tex' = [tex EXCEPT ![ffaa] = [a EXCEPT !.tlp = a.tlp + 1, !.pies = a.pies + 1]]
          BY <1>3, <1>5, <1>7, <4>1, <5>1 DEF HojaPropia, EsHoja
        <5> QED BY <1>8, <4>2, <5>1, <5>2
      <4>5. Propio(ins')
        BY <1>5, <3>3, <4>1 DEF HojaPropia
      <4> QED BY <1>2, <1>4, <3>1, <4>1, <4>3, <4>4, <4>5, PapelPuesto
    <3>4. CASE act.sit = 1 /\ act.tlp + 1 # act.fl
      <4>1. tex' = [tex EXCEPT ![ffaa].tlp = @ + 1] /\ ins' = Despues(ins) /\ regder' = regder
        BY <2>5, <3>4 DEF Linea, Avanza, Va
      <4>2. PICK r : r = [act EXCEPT !.tlp = act.tlp + 1]
        OBVIOUS
      <4>3. HojaPropia(r)
        BY <1>5, <4>2, HojaCambiada
      <4>4. PoneHoja(r)
        BY <1>3, <1>7, <4>1, <4>2 DEF PoneHoja
      <4> QED BY <1>2, <1>4, <3>1, <4>1, <4>3, <4>4, PapelPuesto
    <3> QED BY <3>2, <3>3, <3>4
  <2>6. CASE Salto12
    <3>1. ffaa' = ffaa
      BY <2>6 DEF Salto12, SoloPapel
    <3>2. \/ /\ act.sit = 1 /\ tex' = [tex EXCEPT ![ffaa] = Encabeza(act)]
             /\ ins' = act.lbh /\ regder' = Despues(ins)
          \/ ins' = Despues(ins) /\ tex' = tex /\ regder' = regder
      BY <1>7, <2>6 DEF Salto12, Va, Avanza
    <3>3. CASE tex' = tex /\ ins' = Despues(ins) /\ regder' = regder
      BY <1>2, <1>4, <3>1, <3>3, PapelIgual DEF MismoPapel
    <3>4. CASE /\ act.sit = 1 /\ tex' = [tex EXCEPT ![ffaa] = Encabeza(act)]
               /\ ins' = act.lbh /\ regder' = Despues(ins)
      <4>1. HojaPropia(Encabeza(act))
        BY <1>5, HojaCambiada DEF Encabeza
      <4>2. Propio(ins')
        BY <1>5, <3>4 DEF HojaPropia
      <4> QED BY <1>2, <1>4, <1>8, <3>1, <3>4, <4>1, <4>2, PapelPuesto
    <3> QED BY <3>2, <3>3, <3>4
  <2>7. CASE FinCabecera
    <3>1. ins' = regder /\ tex' = tex /\ ffaa' = ffaa /\ regder' = regder /\ Ejecuta({"Ft"})
      BY <2>7 DEF FinCabecera, Va, SoloPapel
    <3>2. regder.de = nombre /\ nombre \in DOMAIN obj
      BY <3>1 DEF Disciplina, Andando
    <3>3. Propio(regder)
      BY <1>3, <3>2 DEF Regder, Propio, Numeros
    <3> QED BY <1>2, <3>1, <3>3, PapelIgual DEF MismoPapel
  <2>8. CASE FinPie
    <3>1. ins' = act.lbh /\ ffaa' = ffaa /\ regder' = regder /\ Ejecuta({"Fe"})
      BY <2>8 DEF FinPie, Va, SoloPapel
    <3>2. act.sit = 1
      BY <3>1 DEF Disciplina
    <3>3. tex' = [tex EXCEPT ![ffaa] = Encabeza(act)]
      BY <1>7, <2>8 DEF FinPie
    <3>4. HojaPropia(Encabeza(act))
      BY <1>5, HojaCambiada DEF Encabeza
    <3>5. Propio(ins')
      BY <1>5, <3>1, <3>2 DEF HojaPropia
    <3> QED BY <1>2, <1>8, <3>1, <3>3, <3>4, <3>5, PapelPuesto
  <2> QED BY <2>1, <2>2, <2>3, <2>4, <2>5, <2>6, <2>7, <2>8 DEF Papeles
<1>10. Propias(sur')
  BY <1>2, <1>3
<1> QED BY <1>2, <1>6, <1>9, <1>10, Junta

\* A program that is loaded: nothing of another's is left that diverts it.
SinTeclas == \A k \in Altas : dk[k].n = 0 /\ fk[k].n = 0
SinReportes == \A c \in Canales : EsHoja(tex[c]) /\ tex[c].sit # 1
\* It starts at its own first instruction, with its end for Control-C.
LEMMA CargaPropia ==
    ASSUME Sanos, cual = Nada, NEW p \in DOMAIN obj, Carga(p), UNCHANGED <<compila, inp, regder>>,
           fase' = "corre", SinTeclas, inp.n = 0 \/ obj[p].cod[1].op = "t0", Regder,
           tex' = [c \in Canales |-> tex'[c]], SinReportes'
    PROVE  IInvR'
<1>1. /\ nombre' = p /\ ins' = [n |-> 0, de |-> p] /\ paro' = [n |-> obj[p].toins - 2, de |-> p]
      /\ sur' = <<>> /\ surk' = <<>> /\ pila' = <<>> /\ dk' = Limpia(dk) /\ fk' = Limpia(fk)
      /\ ffaa' = 1
  BY DEF Carga
<1>2. obj' = obj /\ cual' = cual /\ inp' = inp /\ regder' = regder
  BY DEF compila
<1>3. PICK c : c = obj[p].cod
  OBVIOUS
<1>4. Sana(c) /\ obj[p].toins = Len(c) + 1
  BY <1>3 DEF Sanos
<1>5. Len(c) \in Nat \ {0} /\ obj[p].toins - 2 = Len(c) - 1
  BY <1>4 DEF Sana
<1>6. Numeros' = 0..Len(c)-1
  BY <1>1, <1>2, <1>3 DEF Numeros
<1>7. Propio(ins)' /\ Propio(paro)'
  <2>1. 0 \in 0..Len(c)-1 /\ Len(c) - 1 \in 0..Len(c)-1
    BY <1>5
  <2>2. paro' = [n |-> Len(c) - 1, de |-> p]
    BY <1>1, <1>5
  <2> QED BY <1>1, <1>6, <2>1, <2>2 DEF Propio
<1>8. Propias(sur)' /\ Propias(surk)' /\ Pendientes'
  BY <1>1, VaciaEsSeq DEF Propias, Pendientes
<1>9. Teclado(dk)' /\ Teclado(fk)'
  <2>1. dk' = [k \in Teclas |-> dk'[k]] /\ fk' = [k \in Teclas |-> fk'[k]]
    BY <1>1 DEF Limpia
  <2>2. \A k \in Teclas : dk'[k].n = 0 /\ fk'[k].n = 0
    BY <1>1 DEF Limpia, SinTeclas, Cero
  <2> QED BY <2>1, <2>2 DEF Teclado, NadaOPropio
<1>10. EscapeSano'
  <2>1. CASE inp.n = 0
    BY <1>2, <2>1 DEF EscapeSano, NadaOPropio
  <2>2. CASE obj[p].cod[1].op = "t0"
    <3>1. I' = obj[p].cod[1] /\ (ins.n = 0)'
      BY <1>1, <1>2 DEF I
    <3>2. (paro.n = Len(obj[nombre].cod) - 1)'
      BY <1>1, <1>2, <1>3, <1>5
    <3>3. (I.op = "t0")'
      BY <2>2, <3>1
    <3> QED BY <3>1, <3>2, <3>3 DEF EscapeSano
  <2> QED BY <2>1, <2>2
<1>11. ffaa' \in Canales
  BY <1>1 DEF Canales
<1>12. Hojas' /\ Reportes'
  BY DEF Hojas, Reportes, SinReportes
<1>13. Regder'
  BY <1>2 DEF Regder
<1>14. Andando'
  BY <1>1, <1>2, <1>7, <1>8, <1>9, <1>10, <1>11, <1>12, <1>13 DEF Andando
<1> QED BY <1>14 DEF IInvR

\* A channel that is closed has no report.
LEMMA HojaCerrada == EsHoja(Cerrado) /\ Cerrado.sit # 1
<1>1. EsHoja(Cerrado)
  BY Zenon DEF EsHoja, Cerrado
<1>2. Cerrado.sit # 1
  BY DEF Cerrado
<1> QED BY <1>1, <1>2

\* The first one.
LEMMA ArrancaPropia == ASSUME IInvO, IInvR, Arranca PROVE IInvR'
<1>1. /\ cual = Nada /\ fase = "inicio" /\ Carga(Primero) /\ fase' = "corre" /\ tex' = tex
      /\ UNCHANGED <<compila, inp, regder>>
  BY DEF Arranca
<1>2. /\ inp = Cero /\ regder = Cero /\ tex = [c \in Canales |-> Cerrado]
      /\ dk = [k \in Teclas |-> Cero] /\ fk = [k \in Teclas |-> Cero]
  BY <1>1 DEF IInvR, Parada
<1>3. trabajo \in Trabajos /\ DOMAIN obj = DOMAIN trabajo /\ Sanos
  BY <1>1 DEF IInvO, Compilado, Sanos
<1>4. Primero \in DOMAIN obj /\ Nada \notin DOMAIN obj
  BY <1>3, FuentesCompletas
<1>5. SinTeclas
  BY <1>2, ConstantesVpg DEF SinTeclas, Cero, ConstantesVpg
<1>6. inp.n = 0 /\ Regder
  BY <1>2, <1>4 DEF Cero, Regder
<1>7. EsHoja(Cerrado) /\ Cerrado.sit # 1
  BY HojaCerrada
<1>8. tex' = [c \in Canales |-> tex'[c]] /\ \A c \in Canales : tex'[c] = Cerrado
  BY <1>1, <1>2
<1>9. \A c \in Canales : EsHoja(tex'[c]) /\ tex'[c].sit # 1
  BY <1>7, <1>8
<1>10. SinReportes'
  BY <1>9 DEF SinReportes, EsHoja
<1> QED BY <1>1, <1>3, <1>4, <1>5, <1>6, <1>8, <1>10, CargaPropia

\* And the one that another calls, which has put away what the load keeps.
LEMMA EncadenaPropia == ASSUME IInvO, Andando, Disciplina, Encadena PROVE IInvR'
<1>1. /\ Ejecuta({"e"}) /\ I.op = "e" /\ Carga(I.x) /\ fase' = "corre" /\ tex' = CierraTextos
      /\ UNCHANGED <<compila, inp, regder>>
  BY DEF Encadena, Ejecuta
<1>2. ~ EsFinal(I)
  BY <1>1, Zenon DEF EsFinal
<1>3. cual = Nada /\ Sanos /\ DOMAIN obj = DOMAIN trabajo
  BY DEF Andando, IInvO, Sanos
<1>4. I.x \in DOMAIN obj
  BY <1>1, <1>2, <1>3, Sigo DEF Buena
<1>5. /\ inp.n = 0 \/ obj[I.x].cod[1].op = "t0"
      /\ SinTeclas /\ \A c \in 0..2 : tex[c].sit # 1
  BY <1>1 DEF Disciplina, SinTeclas
<1>6. Hojas /\ Regder
  BY DEF Andando
<1>7. tex' = [c \in Canales |-> tex'[c]]
  BY <1>1 DEF CierraTextos
<1>8. ASSUME NEW c \in Canales PROVE EsHoja(tex'[c]) /\ tex'[c].sit # 1
  <2>1. CASE c >= 3
    <3>1. tex'[c] = Cerrado
      BY <1>1, <2>1 DEF CierraTextos
    <3> QED BY <3>1, HojaCerrada
  <2>2. CASE c = 1
    <3>1. tex'[c] = [tex[1] EXCEPT !.tlp = 0, !.pg = 0]
      BY <1>1, <2>2 DEF CierraTextos
    <3>2. PICK u, l, p, i, x, f, h, b :
              tex[1] = [sit |-> u, tlp |-> l, pg |-> p, pies |-> i, lpp |-> x, fl |-> f, lbh |-> h, lbf |-> b]
      BY <1>6, <2>2 DEF Hojas, EsHoja
    <3>3. PICK r : r = [tex[1] EXCEPT !.tlp = 0]
      OBVIOUS
    <3>4. r = [sit |-> u, tlp |-> 0, pg |-> p, pies |-> i, lpp |-> x, fl |-> f, lbh |-> h, lbf |-> b]
      BY <3>2, <3>3
    <3>5. [r EXCEPT !.pg = 0]
             = [sit |-> u, tlp |-> 0, pg |-> 0, pies |-> i, lpp |-> x, fl |-> f, lbh |-> h, lbf |-> b]
      BY <3>4
    <3>6. tex'[c] = [r EXCEPT !.pg = 0]
      BY <3>1, <3>3
    <3>7. u # 1
      BY <1>5, <3>2
    <3>8. EsHoja(tex'[c])
      BY <3>5, <3>6 DEF EsHoja
    <3>9. tex'[c].sit = u
      BY <3>5, <3>6
    <3> QED BY <3>7, <3>8, <3>9
  <2>3. CASE c = 0 \/ c = 2
    <3>1. tex'[c] = tex[c] /\ c \in 0..2
      BY <1>1, <2>3 DEF CierraTextos
    <3> QED BY <1>5, <1>6, <3>1 DEF Hojas
  <2>4. c >= 3 \/ c = 1 \/ c = 0 \/ c = 2
    BY DEF Canales
  <2> QED BY <2>1, <2>2, <2>3, <2>4
<1>9. SinReportes'
  BY <1>8 DEF SinReportes, EsHoja
<1>10. PICK q : q = I.x
  OBVIOUS
<1>11. q \in DOMAIN obj /\ Carga(q) /\ (inp.n = 0 \/ obj[q].cod[1].op = "t0")
  BY <1>1, <1>4, <1>5, <1>10
<1> QED BY <1>1, <1>3, <1>5, <1>6, <1>7, <1>9, <1>11, CargaPropia

\* Nothing is loaded.
LEMMA InicioPropio == ASSUME Init PROVE IInvS
<1>1. InitCompila /\ InitCorre
  BY DEF Init
<1>2. IInvR
  BY <1>1 DEF InitCorre, IInvR, Parada
<1> QED BY <1>1, <1>2, InicioSano, InvVInit, ConstantesVpg DEF IInvS

\* Every step keeps it, if what runs does what it has to for the calls it makes.
LEMMA CorrePropio == ASSUME IInvS, Disciplina, Instruccion \/ Usuario \/ AtiendeStop \/ Acaba PROVE IInvR'
<1>1. IInvO /\ IInvV /\ IInvR /\ Sanos
  BY DEF IInvS, IInvO
<1>2. fase \in {"corre", "espera"}
  <2>1. CASE \/ Dato \/ Goto \/ Compara \/ ComparaLlama \/ Falla \/ Forma \/ LlamaSub \/ LlamaSegun
             \/ Regresa \/ CualquierTecla \/ Programa \/ Cancela \/ PoneInp \/ PoneParo \/ PoneModo
             \/ Espera \/ Vuelve \/ Encadena
    BY <2>1 DEF Dato, Goto, Compara, ComparaLlama, Falla, Forma, LlamaSub, LlamaSegun, Regresa,
                CualquierTecla, Programa, Cancela, PoneInp, PoneParo, PoneModo, Espera, Vuelve, Encadena,
                Ejecuta
  <2>2. CASE \/ Cruda \/ Video \/ AbreVentana \/ QuitaVentana \/ Coloca \/ Canal \/ AbreCanal
             \/ CierraCanal \/ Reporta \/ Linea \/ Salto12 \/ FinCabecera \/ FinPie
    BY <2>2 DEF Cruda, Video, AbreVentana, QuitaVentana, Coloca, Canal, AbreCanal, CierraCanal,
                Reporta, Linea, Salto12, FinCabecera, FinPie, Ejecuta
  <2>3. CASE Usuario \/ AtiendeStop \/ Acaba
    BY <2>3 DEF Usuario, TeclaFuncion, SiNo, Escoge, EscapeMenu, EscribeCampo, MueveCampo, AcabaCampo,
                DejaCampo, Rompe, AtiendeStop, Acaba, En
  <2> QED BY <2>1, <2>2, <2>3 DEF Instruccion
<1>3. Andando /\ fase # "inicio"
  BY <1>1, <1>2 DEF IInvR
<1>4. CASE Instruccion
  <2>1. Saltos \/ Pantallas \/ Espera \/ Etiquetas \/ Vuelve \/ Papeles \/ Encadena
    BY <1>4 DEF Instruccion, Saltos, Pantallas, Etiquetas, Papeles
  <2> QED
    BY <1>1, <1>3, <2>1, SaltosPropios, PantallasPropias, EsperaPropia, EtiquetasPropias, VuelvePropio,
       PapelesPropios, EncadenaPropia
<1>5. CASE Usuario
  <2>1. CASE Rompe
    <3>1. Quieto /\ fase' = fase
      BY <2>1 DEF Rompe, Quieto, papel
    <3> QED BY <1>3, <3>1, Queda
  <2>2. TeclaFuncion \/ Respuestas \/ Rompe
    BY <1>5 DEF Usuario, Respuestas
  <2> QED BY <1>1, <1>3, <2>1, <2>2, TeclaPropia, RespuestasPropias
<1>6. CASE AtiendeStop
  BY <1>1, <1>3, <1>6, StopPropio
<1>7. CASE Acaba
  <2>1. Quieto /\ fase' = "fin"
    BY <1>7 DEF Acaba, Quieto, papel
  <2> QED BY <1>3, <2>1, Queda
<1> QED BY <1>4, <1>5, <1>6, <1>7

\* And so do the compiler's.
LEMMA PropioPaso == ASSUME IInvS, Disciplina, [Next]_vars PROVE IInvS'
<1>1. IInvO'
  BY SoloCompila, EscribePaso DEF IInvS
<1>2. IInvV'
  BY InvVPaso DEF IInvS
<1>3. IInvO /\ IInvR
  BY DEF IInvS
<1>4. IInvR'
  <2>1. CASE (Compila /\ UNCHANGED corre) \/ UNCHANGED vars
    <3>1. UNCHANGED corre
      BY <2>1 DEF vars
    <3>2. CASE fase = "inicio"
      <4>1. Parada'
        BY <1>3, <3>1, <3>2 DEF IInvR, Parada, corre, control, papel
      <4>2. fase' = "inicio"
        BY <3>1, <3>2 DEF corre, control
      <4> QED BY <4>1, <4>2 DEF IInvR
    <3>3. CASE fase # "inicio"
      <4>1. Andando /\ cual = Nada
        BY <1>3, <3>3 DEF IInvR, Andando
      <4>2. UNCHANGED vars
        BY <2>1, <4>1 DEF Compila, Getsymbols, GetinsSalto, GetinsY, GetinsBarra, GetinsPunto, GetinsAbre,
                          GetinsCierra, GetinsOtra, Termina, Pasa2
      <4>3. Quieto /\ fase' = fase
        BY <4>2 DEF vars, corre, control, papel, Quieto
      <4> QED BY <3>3, <4>1, <4>3, Queda
    <3> QED BY <3>2, <3>3
  <2>2. CASE Arranca
    BY <1>3, <2>2, ArrancaPropia
  <2>3. CASE Instruccion \/ Usuario \/ AtiendeStop \/ Acaba
    BY <2>3, CorrePropio
  <2> QED BY <2>1, <2>2, <2>3 DEF Next
<1> QED BY <1>1, <1>2, <1>4 DEF IInvS

\* Programs that put away what the call of another keeps never run an instruction whose
\* number another program gave: whatever the jumps, calls, keys, Control-C and reports
\* (vpg4s.c:207, 1256, chefun3.c:16).
THEOREM SaltosPropiosSiempre == Spec /\ []Disciplina => []SaltoPropio
<1>1. Init => IInvS
  BY InicioPropio
<1>2. IInvS /\ Disciplina /\ [Next]_vars => IInvS'
  BY PropioPaso
<1>3. IInvS => SaltoPropio
  <2>1. ASSUME IInvS, fase # "inicio" PROVE ins.de = nombre /\ ins.n \in 0..Len(obj[nombre].cod) - 1
    <3>1. Propio(ins)
      BY <2>1 DEF IInvS, IInvR, Andando
    <3> QED BY <3>1 DEF Propio, Numeros
  <2> QED BY <2>1 DEF SaltoPropio
<1> QED BY <1>1, <1>2, <1>3, PTL DEF Spec

-----------------------------------------------------------------------------
(* The field in edition *)

\* What a field has written: m characters, its n and, if it is not a number's, what
\* was written past them.
Texto(s, n, m, num) ==
    /\ EsSeq(s) /\ Len(s) = m
    /\ n <= m /\ (num => m = n)
    /\ num => \A k \in 1..n : s[k] \in {Digito, Blanco}
    /\ \A k \in n+1..m : s[k] \in {Acento, Blanco}
EsCampo(e) ==
    \E s, i, n, m, num :
        /\ e = [s |-> s, i |-> i, n |-> n, num |-> num]
        /\ n \in Nat /\ m \in Nat /\ i \in 0..m /\ Texto(s, n, m, num)

\* What its places say is a text.
LEMMA TextoDe ==
    ASSUME NEW n \in Nat, NEW m \in Nat, NEW s, s = [k \in 1..m |-> s[k]], NEW num,
           n <= m, num => m = n,
           num => \A k \in 1..n : s[k] \in {Digito, Blanco},
           \A k \in n+1..m : s[k] \in {Acento, Blanco}
    PROVE  Texto(s, n, m, num)
<1>1. PICK V : V = {s[k] : k \in 1..m}
  OBVIOUS
<1>2. s \in [1..m -> V]
  BY <1>1
<1>3. s \in Seq(V)
  BY <1>2
<1>4. Len(s) = m
  BY <1>2, <1>3
<1> QED BY <1>3, <1>4 DEF Texto, EsSeq

\* And a text is what its places say.
LEMMA DeTexto ==
    ASSUME NEW n \in Nat, NEW m \in Nat, NEW s, NEW num, Texto(s, n, m, num)
    PROVE  s = [k \in 1..m |-> s[k]] /\ DOMAIN s = 1..m
<1>1. PICK V : s \in Seq(V)
  BY DEF Texto, EsSeq
<1> QED BY <1>1 DEF Texto

\* A character that is put in a place that was written.
LEMMA TextoPuesto ==
    ASSUME NEW n \in Nat, NEW m \in Nat, NEW s, NEW num, Texto(s, n, m, num), NEW j \in 1..m, NEW c,
           num => c \in {Digito, Blanco}, j > n => c \in {Acento, Blanco}
    PROVE  Texto([s EXCEPT ![j] = c], n, m, num)
<1>1. PICK r : r = [s EXCEPT ![j] = c]
  OBVIOUS
<1>2. s = [k \in 1..m |-> s[k]]
  BY DeTexto
<1>3. r = [k \in 1..m |-> r[k]] /\ \A k \in 1..m : r[k] = IF k = j THEN c ELSE s[k]
  BY <1>1, <1>2
<1>4. n <= m /\ (num => m = n)
  BY DEF Texto
<1>5. num => \A k \in 1..n : r[k] \in {Digito, Blanco}
  BY <1>3, <1>4 DEF Texto
<1>6. \A k \in n+1..m : r[k] \in {Acento, Blanco}
  <2>1. ASSUME NEW k \in n+1..m PROVE k \in 1..m /\ k > n
    BY <2>1
  <2> QED BY <1>3, <2>1 DEF Texto
<1> QED BY <1>1, <1>3, <1>4, <1>5, <1>6, TextoDe

\* And in the first that was not.
LEMMA TextoSeguido ==
    ASSUME NEW n \in Nat, NEW m \in Nat, NEW s, NEW num, Texto(s, n, m, num), ~ num, NEW c,
           c \in {Acento, Blanco}
    PROVE  Texto(Append(s, c), n, m + 1, num)
<1>1. PICK V : s \in Seq(V)
  BY DEF Texto, EsSeq
<1>2. PICK W : W = V \cup {c}
  OBVIOUS
<1>3. s \in Seq(W) /\ c \in W /\ Len(s) = m
  BY <1>1, <1>2 DEF Texto
<1>4. PICK r : r = Append(s, c)
  OBVIOUS
<1>5. /\ r \in Seq(W) /\ Len(r) = m + 1
      /\ \A k \in 1..m : r[k] = s[k]
      /\ r[m + 1] = c
  BY <1>3, <1>4, AppendProperties
<1>6. \A k \in n+1..m+1 : r[k] \in {Acento, Blanco}
  <2>1. ASSUME NEW k \in n+1..m+1 PROVE k = m + 1 \/ (k \in n+1..m /\ k \in 1..m)
    BY <2>1
  <2> QED BY <1>5, <2>1 DEF Texto
<1>7. n <= m + 1
  BY DEF Texto
<1> QED BY <1>4, <1>5, <1>6, <1>7 DEF Texto, EsSeq

\* A field that changes in its text and its cursor.
LEMMA CampoDe ==
    ASSUME NEW n \in Nat, NEW m \in Nat, NEW s, NEW num, Texto(s, n, m, num), NEW i \in 0..m
    PROVE  EsCampo([s |-> s, i |-> i, n |-> n, num |-> num])
<1>1. PICK e : e = [s |-> s, i |-> i, n |-> n, num |-> num]
  OBVIOUS
<1> QED BY <1>1, Zenon DEF EsCampo

\* The field is opened with what the buffer has.
LEMMA CampoAbierto ==
    ASSUME NEW b, NEW n \in Nat, NEW num, num => \A k \in 1..n : b[k] \in {Digito, Blanco}
    PROVE  EsCampo(Abre(b, n, num))
<1>1. PICK e : e = Abre(b, n, num)
  OBVIOUS
<1>2. PICK s : s = e.s
  OBVIOUS
<1>3. e = [s |-> s, i |-> 0, n |-> n, num |-> num]
  BY <1>1, <1>2 DEF Abre
<1>4. s = [k \in 1..n |-> s[k]] /\ \A k \in 1..n : s[k] = b[k] \/ s[k] = Blanco
  BY <1>1, <1>2 DEF Abre
<1>5. num => \A k \in 1..n : s[k] \in {Digito, Blanco}
  BY <1>4
<1>6. Texto(s, n, n, num)
  BY <1>4, <1>5, TextoDe
<1> QED BY <1>1, <1>3, <1>6, CampoDe

\* A key that goes into it.
LEMMA CampoEscrito ==
    ASSUME NEW e, EsCampo(e), NEW c, NEW caps PROVE EsCampo(Escribe(e, c, caps))
<1>1. PICK s, i, n, m, num :
          /\ e = [s |-> s, i |-> i, n |-> n, num |-> num]
          /\ n \in Nat /\ m \in Nat /\ i \in 0..m /\ Texto(s, n, m, num)
  BY DEF EsCampo
<1>2. e.s = s /\ e.i = i /\ e.n = n /\ e.num = num /\ Len(s) = m /\ n <= m
  BY <1>1 DEF Texto
<1>3. CASE ~ Toma(e, c)
  BY <1>3 DEF Escribe
<1>4. CASE Toma(e, c)
  <2>1. (c = Acento \/ i < n) /\ (num => c \in {Digito, Blanco})
    BY <1>2, <1>4 DEF Toma
  <2>2. PICK g : g = Guardado(c, caps)
    OBVIOUS
  <2>3. (num => g \in {Digito, Blanco}) /\ (c = Acento => g = c)
    BY <2>1, <2>2 DEF Guardado, Minus, Digito, Blanco, Acento
  <2>4. PICK j : j = i + 1
    OBVIOUS
  <2>5. PICK r : r = Puesto(s, j, g)
    OBVIOUS
  <2>6. PICK e1 : e1 = [e EXCEPT !.s = r]
    OBVIOUS
  <2>7. e1 = [s |-> r, i |-> i, n |-> n, num |-> num]
    BY <1>1, <2>6
  <2>8. Escribe(e, c, caps) = [s |-> r, i |-> j, n |-> n, num |-> num]
    <3>1. Escribe(e, c, caps) = [e1 EXCEPT !.i = @ + 1]
      BY <1>2, <1>4, <2>2, <2>4, <2>5, <2>6 DEF Escribe
    <3> QED BY <2>4, <2>7, <3>1
  <2>9. CASE i < m
    <3>1. j \in 1..m /\ j \in 0..m /\ (j > n => g \in {Acento, Blanco})
      BY <1>1, <2>1, <2>3, <2>4, <2>9
    <3>2. r = [s EXCEPT ![j] = g]
      BY <1>2, <2>5, <3>1 DEF Puesto
    <3>3. Texto(r, n, m, num)
      BY <1>1, <2>3, <3>1, <3>2, TextoPuesto
    <3> QED BY <1>1, <2>8, <3>1, <3>3, CampoDe
  <2>10. CASE ~ (i < m)
    <3>1. j = m + 1 /\ j \in 0..m+1 /\ m + 1 \in Nat /\ ~ (i < n)
      BY <1>1, <1>2, <2>4, <2>10
    <3>2. c = Acento /\ ~ num /\ g \in {Acento, Blanco}
      BY <2>1, <2>3, <3>1 DEF Acento, Digito, Blanco
    <3>3. r = Append(s, g)
      BY <1>2, <2>5, <3>1 DEF Puesto
    <3>4. Texto(r, n, m + 1, num)
      BY <1>1, <3>2, <3>3, TextoSeguido
    <3> QED BY <1>1, <2>8, <3>1, <3>4, CampoDe
  <2> QED BY <2>9, <2>10
<1> QED BY <1>3, <1>4

\* A character taken from before the cursor.
LEMMA CampoAtras == ASSUME NEW e, EsCampo(e) PROVE EsCampo(Atras(e))
<1>1. PICK s, i, n, m, num :
          /\ e = [s |-> s, i |-> i, n |-> n, num |-> num]
          /\ n \in Nat /\ m \in Nat /\ i \in 0..m /\ Texto(s, n, m, num)
  BY DEF EsCampo
<1>2. e.i = i
  BY <1>1
<1>3. CASE ~ (i > 0)
  BY <1>2, <1>3 DEF Atras
<1>4. CASE i > 0
  <2>1. i \in 1..m /\ i - 1 \in 0..m
    BY <1>1, <1>4
  <2>2. PICK r : r = [s EXCEPT ![i] = Blanco]
    OBVIOUS
  <2>3. Texto(r, n, m, num)
    BY <1>1, <2>1, <2>2, TextoPuesto
  <2>4. PICK e1 : e1 = [e EXCEPT !.s[e.i] = Blanco]
    OBVIOUS
  <2>5. e1 = [s |-> r, i |-> i, n |-> n, num |-> num]
    BY <1>1, <1>2, <2>2, <2>4
  <2>6. Atras(e) = [e1 EXCEPT !.i = @ - 1]
    BY <1>2, <1>4, <2>4 DEF Atras
  <2>7. [e1 EXCEPT !.i = @ - 1] = [s |-> r, i |-> i - 1, n |-> n, num |-> num]
    BY <2>5
  <2> QED BY <1>1, <2>1, <2>3, <2>6, <2>7, CampoDe
<1> QED BY <1>3, <1>4

\* Where KEY_END goes is a place of the field, or its start.
LEMMA FinDeTexto == ASSUME NEW n \in Nat, NEW s, Len(s) = n PROVE UltimoLleno(s) \in 0..n
<1>1. PICK T : T = {k \in 0..n : \A j \in k+1..n : s[j] = Blanco}
  OBVIOUS
<1>2. n \in T /\ T \subseteq Nat
  BY <1>1
<1>3. PICK x \in T : \A y \in T : x <= y
  BY <1>2, Minimo
<1>4. x = 0 \/ s[x] # Blanco
  <2>1. ASSUME x # 0, s[x] = Blanco PROVE FALSE
    <3>1. x - 1 \in 0..n /\ x - 1 \in Nat
      BY <1>1, <2>1
    <3>2. \A j \in (x - 1)+1..n : j = x \/ j \in x+1..n
      BY <1>1
    <3>3. x - 1 \in T
      BY <1>1, <2>1, <3>1, <3>2
    <3> QED BY <1>1, <1>3, <3>1, <3>3
  <2> QED BY <2>1
<1>5. x \in 0..n /\ \A j \in x+1..n : s[j] = Blanco
  BY <1>1
<1>6. \E k \in 0..n : (k = 0 \/ s[k] # Blanco) /\ \A j \in k+1..n : s[j] = Blanco
  BY <1>4, <1>5
<1> QED BY <1>6 DEF UltimoLleno

\* A place put in the field or taken out of it.
LEMMA TextoCorrido ==
    ASSUME NEW n \in Nat, NEW m \in Nat, NEW s, NEW num, Texto(s, n, m, num), NEW i \in 0..n, i < n
    PROVE  Texto(Corrido(s, i, n), n, m, num) /\ Texto(Recogido(s, i, n), n, m, num)
<1>1. DOMAIN s = 1..m /\ n <= m /\ (num => m = n)
  BY DeTexto DEF Texto
<1>2. PICK r, q : r = Corrido(s, i, n) /\ q = Recogido(s, i, n)
  OBVIOUS
<1>3. /\ r = [k \in 1..m |-> r[k]]
      /\ \A k \in 1..m : r[k] = CASE k = i + 1   -> Blanco
                                 [] k \in i+2..n -> s[k - 1]
                                 [] OTHER        -> s[k]
  BY <1>1, <1>2 DEF Corrido
<1>4. /\ q = [k \in 1..m |-> q[k]]
      /\ \A k \in 1..m : q[k] = CASE k \in i+1..n-1 -> s[k + 1]
                                 [] k = n           -> Blanco
                                 [] OTHER           -> s[k]
  BY <1>1, <1>2 DEF Recogido
<1>5. ASSUME NEW k \in n+1..m PROVE r[k] \in {Acento, Blanco} /\ q[k] \in {Acento, Blanco}
  <2>1. k \in 1..m /\ k # i + 1 /\ k \notin i+2..n /\ k \notin i+1..n-1 /\ k # n
    BY <1>5
  <2>2. r[k] = s[k] /\ q[k] = s[k]
    BY <1>3, <1>4, <2>1
  <2> QED BY <1>5, <2>2 DEF Texto
<1>6. ASSUME num, NEW k \in 1..n PROVE r[k] \in {Digito, Blanco} /\ q[k] \in {Digito, Blanco}
  <2>1. \A j \in 1..n : s[j] \in {Digito, Blanco}
    BY <1>6 DEF Texto
  <2>2. k \in 1..m
    BY <1>1, <1>6
  <2>3. r[k] \in {Digito, Blanco}
    <3>1. k \in i+2..n => k - 1 \in 1..n
      BY <1>6
    <3> QED BY <1>3, <1>6, <2>1, <2>2, <3>1
  <2>4. q[k] \in {Digito, Blanco}
    <3>1. k \in i+1..n-1 => k + 1 \in 1..n
      BY <1>6
    <3> QED BY <1>4, <1>6, <2>1, <2>2, <3>1
  <2> QED BY <2>3, <2>4
<1>7. Texto(r, n, m, num)
  BY <1>1, <1>3, <1>5, <1>6, TextoDe
<1>8. Texto(q, n, m, num)
  BY <1>1, <1>4, <1>5, <1>6, TextoDe
<1> QED BY <1>2, <1>7, <1>8

\* A key that moves in it, puts a place in or takes one out.
LEMMA CampoMovido == ASSUME NEW e, EsCampo(e), NEW m \in Mandos PROVE EsCampo(Mando(e, m))
<1>1. PICK s, i, n, l, num :
          /\ e = [s |-> s, i |-> i, n |-> n, num |-> num]
          /\ n \in Nat /\ l \in Nat /\ i \in 0..l /\ Texto(s, n, l, num)
  BY DEF EsCampo
<1>2. e.s = s /\ e.i = i /\ e.n = n /\ e.num = num /\ Len(s) = l /\ n <= l /\ DOMAIN s = 1..l
  BY <1>1, DeTexto DEF Texto
<1>3. CASE m \in {"atras", "del"}
  BY <1>3, CampoAtras DEF Mando, MandoControl, MandoFuncion, Controles
<1>4. CASE m \in {"izq", "der", "ini", "fin"}
  <2>1. PICK j : Mando(e, m) = [e EXCEPT !.i = j] /\ j \in 0..l
    <3>1. CASE m = "izq"
      <4>1. PICK j : j = IF i > 0 THEN i - 1 ELSE i
        OBVIOUS
      <4>2. j \in 0..l
        BY <1>1, <4>1
      <4>3. Mando(e, m) = [e EXCEPT !.i = j]
        BY <1>2, <3>1, <4>1 DEF Mando, MandoFuncion, Controles
      <4> QED BY <4>2, <4>3
    <3>2. CASE m = "der"
      <4>1. PICK j : j = IF i < n THEN i + 1 ELSE i
        OBVIOUS
      <4>2. j \in 0..l
        BY <1>1, <1>2, <4>1
      <4>3. Mando(e, m) = [e EXCEPT !.i = j]
        BY <1>2, <3>2, <4>1 DEF Mando, MandoFuncion, Controles
      <4> QED BY <4>2, <4>3
    <3>3. CASE m = "ini"
      <4>1. Mando(e, m) = [e EXCEPT !.i = 0] /\ 0 \in 0..l
        BY <1>1, <3>3 DEF Mando, MandoFuncion, Controles
      <4> QED BY <4>1
    <3>4. CASE m = "fin"
      <4>1. PICK j : j = UltimoLleno(s)
        OBVIOUS
      <4>2. j \in 0..l
        BY <1>1, <1>2, <4>1, FinDeTexto
      <4>3. Mando(e, m) = [e EXCEPT !.i = j]
        BY <1>2, <3>4, <4>1 DEF Mando, MandoFuncion, Controles
      <4> QED BY <4>2, <4>3
    <3> QED BY <1>4, <3>1, <3>2, <3>3, <3>4
  <2>2. Mando(e, m) = [s |-> s, i |-> j, n |-> n, num |-> num]
    BY <1>1, <2>1
  <2> QED BY <1>1, <2>1, <2>2, CampoDe
<1>5. CASE m \in {"ins", "sup"}
  <2>1. PICK r : /\ Mando(e, m) = [e EXCEPT !.s = r]
                 /\ r = s \/ (i < n /\ (r = Corrido(s, i, n) \/ r = Recogido(s, i, n)))
    <3>1. CASE m = "ins"
      <4>1. PICK r : r = IF i < n THEN Corrido(s, i, n) ELSE s
        OBVIOUS
      <4> QED BY <1>2, <3>1, <4>1 DEF Mando, MandoFuncion, Controles
    <3>2. CASE m = "sup"
      <4>1. PICK r : r = IF i < n THEN Recogido(s, i, n) ELSE s
        OBVIOUS
      <4> QED BY <1>2, <3>2, <4>1 DEF Mando, MandoFuncion, Controles
    <3> QED BY <1>5, <3>1, <3>2
  <2>2. Texto(r, n, l, num)
    <3>1. i < n => i \in 0..n
      BY <1>1
    <3> QED BY <1>1, <2>1, <3>1, TextoCorrido
  <2>3. Mando(e, m) = [s |-> r, i |-> i, n |-> n, num |-> num]
    BY <1>1, <2>1
  <2> QED BY <1>1, <2>2, <2>3, CampoDe
<1>6. CASE m = "ctrlx"
  <2>1. PICK r : r = [k \in 1..l |-> IF k <= n THEN Blanco ELSE s[k]]
    OBVIOUS
  <2>2. /\ r = [k \in 1..l |-> r[k]]
        /\ \A k \in 1..n : r[k] \in {Digito, Blanco}
    BY <1>1, <1>2, <2>1
  <2>3. \A k \in n+1..l : r[k] \in {Acento, Blanco}
    <3>1. ASSUME NEW k \in n+1..l PROVE k \in 1..l /\ ~ (k <= n)
      BY <1>1, <3>1
    <3> QED BY <1>1, <2>1, <3>1 DEF Texto
  <2>4. Texto(r, n, l, num)
    <3>1. num => l = n
      BY <1>1 DEF Texto
    <3> QED BY <1>1, <1>2, <2>2, <2>3, <3>1, TextoDe
  <2>5. PICK e1 : e1 = [e EXCEPT !.s = r]
    OBVIOUS
  <2>6. e1 = [s |-> r, i |-> i, n |-> n, num |-> num]
    BY <1>1, <2>5
  <2>7. Mando(e, m) = [e1 EXCEPT !.i = 0]
    BY <1>2, <1>6, <2>1, <2>5 DEF Mando, MandoControl, Controles
  <2>8. [e1 EXCEPT !.i = 0] = [s |-> r, i |-> 0, n |-> n, num |-> num]
    BY <2>6
  <2>9. 0 \in 0..l
    BY <1>1
  <2> QED BY <1>1, <2>4, <2>7, <2>8, <2>9, CampoDe
<1> QED BY <1>3, <1>4, <1>5, <1>6 DEF Mandos

\* No field is in edition.
LEMMA CampoNinguno == EsCampo(SinCampo)
<1>1. Texto(<<>>, 0, 0, FALSE)
  BY VaciaEsSeq DEF Texto
<1>2. PICK s, i, n, num : s = <<>> /\ i = 0 /\ n = 0 /\ num = FALSE
  OBVIOUS
<1>3. n \in Nat /\ i \in 0..n
  BY <1>2
<1>4. Texto(s, n, n, num)
  BY <1>1, <1>2, Zenon
<1>5. EsCampo([s |-> s, i |-> i, n |-> n, num |-> num])
  BY <1>3, <1>4, CampoDe
<1>6. SinCampo = [s |-> s, i |-> i, n |-> n, num |-> num]
  BY <1>2, Zenon DEF SinCampo
<1> QED BY <1>5, <1>6, Zenon

\* Every step leaves a field that is whole, while the program stays in its own.
LEMMA CampoPaso == ASSUME IInvS, EsCampo(campo), [Next]_vars PROVE EsCampo(campo')
<1>1. CASE UNCHANGED campo
  BY <1>1
<1>2. CASE campo' = SinCampo
  BY <1>2, CampoNinguno
<1>3. CASE Espera
  <2>1. CASE I.op = "i"
    <3>1. fase = "corre"
      BY <1>3 DEF Espera, Ejecuta
    <3>2. Andando /\ Sanos
      BY <3>1 DEF IInvS, IInvO, IInvR
    <3>3. ~ EsFinal(I)
      BY <2>1, Zenon DEF EsFinal
    <3>4. I.x.n \in Nat
      BY <2>1, <3>2, <3>3, Sigo DEF Buena
    <3>5. PICK n, num : n = I.x.n /\ num = I.x.num
      OBVIOUS
    <3>6. PICK b : /\ campo' = Abre(b, n, num)
                   /\ num => b \in [1..n -> {Digito, Blanco}]
      BY <1>3, <2>1, <3>5 DEF Espera
    <3> QED BY <3>4, <3>5, <3>6, CampoAbierto
  <2>2. CASE I.op # "i"
    BY <1>3, <2>2, CampoNinguno DEF Espera
  <2> QED BY <2>1, <2>2
<1>4. CASE EscribeCampo
  <2>1. campo' = SinCampo \/ \E c \in Letras : campo' = Escribe(campo, c, modo.caps)
    BY <1>4 DEF EscribeCampo, Contesta
  <2> QED BY <1>2, <2>1, CampoEscrito
<1>5. CASE MueveCampo
  <2>1. \E m \in Mandos : campo' = Mando(campo, m)
    BY <1>5 DEF MueveCampo
  <2> QED BY <2>1, CampoMovido
<1>6. CASE Usuario
  <2>1. \/ campo' = SinCampo \/ EscribeCampo \/ MueveCampo \/ UNCHANGED campo
    BY <1>6 DEF Usuario, TeclaFuncion, SiNo, Escoge, EscapeMenu, AcabaCampo, DejaCampo, Rompe, Contesta,
                terminal
  <2> QED BY <1>1, <1>2, <1>4, <1>5, <2>1
<1>7. CASE Instruccion
  <2>1. Saltos \/ Pantallas \/ Espera \/ Etiquetas \/ Vuelve \/ Papeles \/ Encadena
    BY <1>7 DEF Instruccion, Saltos, Pantallas, Etiquetas, Papeles
  <2>2. CASE Saltos
    BY <2>2 DEF Saltos, Dato, Goto, Compara, ComparaLlama, Falla, Forma, LlamaSub, LlamaSegun, Regresa,
                CualquierTecla, SoloSalta, SoloLlama, terminal
  <2>3. CASE Pantallas \/ Etiquetas \/ Vuelve \/ Encadena
    BY <2>3 DEF Pantallas, PoneModo, Cruda, Video, AbreVentana, QuitaVentana, Coloca, SoloPantalla,
                Etiquetas, Programa, Cancela, PoneInp, PoneParo, Vuelve, Encadena, terminal
  <2>4. CASE Papeles
    BY <2>4 DEF Papeles, Canal, AbreCanal, CierraCanal, Reporta, Linea, Salto12, FinCabecera, FinPie,
                SoloPapel
  <2> QED BY <1>3, <2>1, <2>2, <2>3, <2>4
<1>8. CASE (Compila /\ UNCHANGED corre) \/ UNCHANGED vars \/ Arranca \/ AtiendeStop \/ Acaba
  BY <1>8 DEF vars, corre, terminal, Arranca, AtiendeStop, Acaba
<1> QED BY <1>6, <1>7, <1>8 DEF Next

\* Whatever keys come to the editor of a field of any length, the next one goes to a place
\* that was written or to the one after the last; a number's field keeps its length, with
\* digits only, and only accented characters and blanks are ever written past the end of
\* another (inpq.c:46-223).
THEOREM CamposVivos == Spec /\ []Disciplina => []CampoVivo
<1>1. Init => IInvS /\ EsCampo(campo)
  BY InicioPropio, CampoNinguno DEF Init, InitCorre
<1>2. IInvS /\ EsCampo(campo) /\ Disciplina /\ [Next]_vars => IInvS' /\ EsCampo(campo)'
  <2>1. ASSUME IInvS, EsCampo(campo), Disciplina, [Next]_vars PROVE IInvS' /\ EsCampo(campo)'
    <3>1. EsCampo(campo')
      BY <2>1, CampoPaso
    <3>2. EsCampo(campo)'
      BY <3>1 DEF EsCampo, Texto, EsSeq
    <3> QED BY <2>1, <3>2, PropioPaso
  <2> QED BY <2>1
<1>3. EsCampo(campo) => CampoVivo
  <2>1. ASSUME EsCampo(campo) PROVE CampoVivo
    <3>1. PICK s, i, n, m, num :
              /\ campo = [s |-> s, i |-> i, n |-> n, num |-> num]
              /\ n \in Nat /\ m \in Nat /\ i \in 0..m /\ Texto(s, n, m, num)
      BY <2>1 DEF EsCampo
    <3>2. campo.s = s /\ campo.i = i /\ campo.n = n /\ campo.num = num /\ Len(s) = m
      BY <3>1 DEF Texto
    <3>3. ASSUME NEW k \in n+1..m PROVE ~ num /\ s[k] \in {Acento, Blanco}
      BY <3>1, <3>3 DEF Texto
    <3> QED BY <3>1, <3>2, <3>3 DEF Texto, CampoVivo
  <2> QED BY <2>1
<1> QED BY <1>1, <1>2, <1>3, PTL DEF Spec
=============================================================================

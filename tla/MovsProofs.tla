----------------------------- MODULE MovsProofs -----------------------------
(***************************************************************************)
(* The chains of the movements and the free list of a flat file, for any   *)
(* processes, principals, places of the file and deaths.                   *)
(*                                                                         *)
(* The invariant says, for each place of an instruction, how far the chain *)
(* of its principal is from a whole one and what its buffers hold (Forma). *)
(* Whole means that there are ranks f that go up along the links (Cadena); *)
(* while vdlink works it is the chain without the new movement, and while  *)
(* vdunlink works the chain that the links will make once the neighbours   *)
(* are joined (Junta, Final).  What an instruction knows is about records  *)
(* of its own (Mios): those of its principal, which no other instruction   *)
(* has, and the one it unlinks.  The free list is a set of deleted records *)
(* with ranks of its own (ListaDe), short of what is in the hands of a     *)
(* process or was lost with a killed one.                                  *)
(***************************************************************************)
EXTENDS Movs, TLAPS, WellFoundedInduction, FiniteSetTheorems

(* Induction: the library has it for predicates, which the provers cannot instantiate; here *)
(* it is for sets of numbers, from the well-foundedness of < alone.                        *)

\* A set of numbers that is not empty has a least one.
LEMMA Minimo ==
    ASSUME NEW T, T \subseteq Nat, T # {}
    PROVE  \E x \in T : \A y \in T : x <= y
<1> DEFINE R == OpToRel(<, Nat)
<1>1. IsWellFoundedOn(R, Nat)
  BY NatLessThanWellFounded, Zenon
<1>2. PICK x \in T : \A y \in T : ~ (<<y, x>> \in R)
  BY <1>1, WFMin, Zenon
<1>3. \A y \in T : y < x => <<y, x>> \in R
  BY Zenon DEF OpToRel
<1>4. \A y \in T : ~ (y < x)
  BY <1>2, <1>3, Zenon
<1> HIDE DEF R
<1>5. \A y \in T : x <= y
  BY <1>4
<1> QED
  BY <1>5

\* A set with 0, and with k + 1 when it has k, has all numbers up to n.
LEMMA Hasta ==
    ASSUME NEW n \in Nat, NEW S, 0 \in S, \A k \in 0..n-1 : k \in S => k + 1 \in S
    PROVE  \A k \in 0..n : k \in S
<1> DEFINE T == {k \in 0..n : k \notin S}
<1> SUFFICES ASSUME T # {} PROVE FALSE
  BY Zenon
<1>1. PICK x \in T : \A y \in T : x <= y
  <2>1. T \subseteq Nat
    OBVIOUS
  <2> HIDE DEF T
  <2> QED BY <2>1, Minimo
<1>2. x # 0 /\ x \in 0..n /\ x - 1 \in 0..n-1 /\ x - 1 + 1 = x
  OBVIOUS
<1>3. x - 1 \notin T
  BY <1>1, <1>2
<1>4. x - 1 \in S /\ x \notin S
  BY <1>2, <1>3
<1> QED
  BY <1>2, <1>4

\* The walk from x, place by place.
LEMMA DesdeEs ==
    ASSUME NEW N \in Nat, NEW x, NEW sig
    PROVE  LET S == Desde(x, sig, N)
           IN  /\ S[0] = x /\ DOMAIN S = 0..N
               /\ \A n \in 0..N-1 : S[n + 1] = IF S[n] = 0 THEN 0 ELSE sig[S[n]]
<1>0. N \in Nat
  OBVIOUS
<1> DEFINE Bueno(m, S) ==
               S = [n \in 0..m |-> IF n = 0 THEN x
                                   ELSE IF S[n - 1] = 0 THEN 0 ELSE sig[S[n - 1]]]
           Hay == {m \in 0..N : \E S : Bueno(m, S)}
<1>1. N \in Hay
  <2>1. 0 \in Hay
    <3> DEFINE S == [n \in 0..0 |-> x]
    <3>1. Bueno(0, S)
      OBVIOUS
    <3> HIDE DEF S, Bueno
    <3> QED BY <3>1, <1>0
  <2>2. ASSUME NEW k \in 0..N-1, k \in Hay PROVE k + 1 \in Hay
    <3>0. k + 1 \in 0..N /\ k \in Nat
      BY <1>0
    <3>1. PICK S : Bueno(k, S)
      BY <2>2
    <3> DEFINE nx == IF S[k] = 0 THEN 0 ELSE sig[S[k]]
               T == [n \in 0..k+1 |-> IF n = k + 1 THEN nx ELSE S[n]]
    <3>2. \A n \in 0..k : T[n] = S[n]
      BY <3>0
    <3>3. T[k + 1] = nx
      BY <3>0
    <3>4. \A n \in 0..k : S[n] = IF n = 0 THEN x
                                 ELSE IF S[n - 1] = 0 THEN 0 ELSE sig[S[n - 1]]
      BY <3>1
    <3>5. \A n \in 0..k+1 : T[n] = IF n = 0 THEN x
                                   ELSE IF T[n - 1] = 0 THEN 0 ELSE sig[T[n - 1]]
      <4> TAKE n \in 0..k+1
      <4>1. CASE n = k + 1
        <5>1. n # 0 /\ n - 1 = k /\ k \in 0..k
          BY <4>1, <3>0
        <5> HIDE DEF T
        <5> QED BY <4>1, <5>1, <3>2, <3>3
      <4>2. CASE n # k + 1
        <5>1. n \in 0..k /\ (n # 0 => n - 1 \in 0..k)
          BY <4>2, <3>0
        <5> HIDE DEF T
        <5> QED BY <5>1, <3>2, <3>4
      <4> QED BY <4>1, <4>2
    <3>6. Bueno(k + 1, T)
      <4> DEFINE U == [n \in 0..k+1 |-> IF n = 0 THEN x
                                        ELSE IF T[n - 1] = 0 THEN 0 ELSE sig[T[n - 1]]]
      <4>1. DOMAIN T = 0..k+1 /\ T = [n \in 0..k+1 |-> T[n]]
        OBVIOUS
      <4> HIDE DEF T
      <4>2. T = U
        BY <3>5, <4>1
      <4> QED BY <4>2
    <3> HIDE DEF Bueno, T
    <3> QED BY <3>6, <3>0
  <2> HIDE DEF Hay
  <2> QED BY <2>1, <2>2, <1>0, Hasta
<1> DEFINE S == Desde(x, sig, N)
<1>2. Bueno(N, S)
  <2>1. PICK T : Bueno(N, T)
    BY <1>1
  <2> DEFINE V == CHOOSE S1 : Bueno(N, S1)
  <2>2. S = V
    BY DEF Desde
  <2> HIDE DEF Bueno
  <2>3. Bueno(N, V)
    BY <2>1
  <2> QED BY <2>2, <2>3
<1> HIDE DEF Hay, S
<1>3. /\ S[0] = x /\ DOMAIN S = 0..N
      /\ \A n \in 0..N-1 : S[n + 1] = IF S[n] = 0 THEN 0 ELSE sig[S[n]]
  <2>1. S[0] = x /\ DOMAIN S = 0..N
    BY <1>2, <1>0
  <2>2. ASSUME NEW n \in 0..N-1
        PROVE  S[n + 1] = IF S[n] = 0 THEN 0 ELSE sig[S[n]]
    <3>1. n + 1 \in 0..N /\ n + 1 # 0 /\ (n + 1) - 1 = n
      BY <1>0
    <3>2. \A m \in 0..N : S[m] = IF m = 0 THEN x
                                       ELSE IF S[m - 1] = 0 THEN 0 ELSE sig[S[m - 1]]
      BY <1>2
    <3> HIDE DEF Bueno
    <3>3. S[n + 1] = IF n + 1 = 0 THEN x
                     ELSE IF S[(n + 1) - 1] = 0 THEN 0 ELSE sig[S[(n + 1) - 1]]
      BY <3>1, <3>2
    <3> QED BY <3>1, <3>3
  <2> QED BY <2>1, <2>2
<1> QED BY <1>3 DEF S

\* The walk along a chain of places with ranks that go up gives them all, each once, and
\* ends.
LEMMA Recorrido ==
    ASSUME NEW N \in Nat, NEW L, IsFiniteSet(L), Cardinality(L) <= N, 0 \notin L,
           NEW x \in L \cup {0}, NEW sig, NEW g, \A y \in L : g[y] \in Nat,
           x = 0 => L = {},
           \A y \in L : /\ sig[y] \in L \cup {0}
                        /\ sig[y] # 0 => g[y] < g[sig[y]]
                        /\ y # x => \E z \in L : sig[z] = y
    PROVE  LET S == Desde(x, sig, N)
           IN  /\ Alcanza(S) = L /\ DOMAIN S = 0..N /\ S[N] = 0
               /\ \A m, n \in 0..N : m < n /\ S[n] # 0 => S[m] # 0 /\ g[S[m]] < g[S[n]]
<1>0. N \in Nat /\ 0 \notin L /\ \A y \in L : g[y] \in Nat
  OBVIOUS
<1> DEFINE S == Desde(x, sig, N)
<1>3. /\ S[0] = x /\ DOMAIN S = 0..N
      /\ \A n \in 0..N-1 : S[n + 1] = IF S[n] = 0 THEN 0 ELSE sig[S[n]]
  BY DesdeEs
<1> HIDE DEF S
<1>4. \A n \in 0..N : S[n] \in L \cup {0}
  <2> DEFINE E == {n \in 0..N : S[n] \in L \cup {0}}
  <2>1. 0 \in E
    BY <1>3, <1>0
  <2>2. ASSUME NEW k \in 0..N-1, k \in E PROVE k + 1 \in E
    BY <2>2, <1>3, <1>0
  <2> HIDE DEF E
  <2>3. \A k \in 0..N : k \in E
    BY <2>1, <2>2, <1>0, Hasta
  <2> QED BY <2>3 DEF E
<1>5. \A n \in 0..N : S[n] # 0 =>
          \A m \in 0..n-1 : S[m] # 0 /\ g[S[m]] < g[S[n]]
  <2> DEFINE E == {n \in 0..N : S[n] # 0 =>
                       \A m \in 0..n-1 : S[m] # 0 /\ g[S[m]] < g[S[n]]}
  <2>1. 0 \in E
    BY <1>0
  <2>2. ASSUME NEW k \in 0..N-1, k \in E PROVE k + 1 \in E
    <3>0. k + 1 \in 0..N /\ k \in 0..N /\ k \in Nat
      BY <1>0
    <3>1. SUFFICES ASSUME S[k + 1] # 0, NEW m \in 0..(k + 1)-1
                   PROVE  S[m] # 0 /\ g[S[m]] < g[S[k + 1]]
      BY <3>0
    <3>2. S[k] # 0 /\ S[k + 1] = sig[S[k]] /\ S[k] \in L /\ S[k + 1] \in L
      BY <1>3, <1>4, <3>0, <3>1
    <3>3. g[S[k]] < g[S[k + 1]]
      BY <3>1, <3>2
    <3>4. m = k \/ m \in 0..k-1
      BY <3>0, <3>1
    <3>5. CASE m \in 0..k-1
      <4>1. S[m] # 0 /\ g[S[m]] < g[S[k]]
        BY <3>5, <2>2, <3>2
      <4>2. S[m] \in L
        <5>1. m \in 0..N
          BY <3>0, <3>5, <1>0
        <5> QED BY <5>1, <4>1, <1>4
      <4> QED BY <4>1, <4>2, <3>2, <3>3, <1>0
    <3> QED BY <3>2, <3>3, <3>4, <3>5
  <2> HIDE DEF E
  <2>3. \A k \in 0..N : k \in E
    BY <2>1, <2>2, <1>0, Hasta
  <2> QED BY <2>3 DEF E
<1>6. S[N] = 0
  <2> SUFFICES ASSUME S[N] # 0 PROVE FALSE
    OBVIOUS
  <2>1. \A n \in 0..N : S[n] \in L
    <3> TAKE n \in 0..N
    <3>1. (n = N \/ n \in 0..N-1) /\ N \in 0..N
      BY <1>0
    <3>2. S[n] # 0
      BY <3>1, <1>5
    <3> QED BY <3>2, <1>4
  <2>2. \A m, n \in 0..N : m < n => S[m] # S[n]
    <3> TAKE m, n \in 0..N
    <3>1. m < n => m \in 0..n-1
      BY <1>0
    <3>2. m < n => g[S[m]] < g[S[n]]
      BY <3>1, <1>5, <2>1, <1>0
    <3> QED BY <3>2, <2>1, <1>0
  <2> DEFINE A == 0..N
             h == [n \in A |-> S[n]]
  <2>3. IsFiniteSet(A) /\ Cardinality(A) = N + 1
    <3>1. IsFiniteSet(0..N)
          /\ Cardinality(0..N) = IF 0 > N THEN 0 ELSE N - 0 + 1
      BY <1>0, FS_Interval
    <3> QED BY <3>1, <1>0
  <2>4. h \in [A -> L]
    BY <2>1
  <2>c. Cardinality(L) \in Nat
    BY FS_CardinalityType
  <2> HIDE DEF A, h
  <2>d. Cardinality(L) < Cardinality(A)
    BY <2>3, <2>c, <1>0
  <2>5. \E a, b \in A : a # b /\ h[a] = h[b]
    BY <2>3, <2>4, <2>d, FS_PigeonHole
  <2>6. PICK a, b \in A : a # b /\ h[a] = h[b]
    BY <2>5
  <2>7. S[a] = S[b] /\ a \in 0..N /\ b \in 0..N
    BY <2>6 DEF h, A
  <2> QED BY <2>2, <2>6, <2>7, <1>0
<1>7. ASSUME NEW y0 \in L, \A n \in 0..N : S[n] # y0 PROVE FALSE
  <2> DEFINE T == {y \in L : \A n \in 0..N : S[n] # y}
             R == {g[y] : y \in T}
  <2>1. PICK t \in R : \A u \in R : t <= u
    <3>1. R \subseteq Nat /\ R # {}
      BY <1>0, <1>7
    <3> HIDE DEF R
    <3> QED BY <3>1, Minimo
  <2>2. PICK y \in T : g[y] = t
    OBVIOUS
  <2>3. y # x
    BY <1>3, <1>0
  <2>4. PICK z \in L : sig[z] = y
    BY <2>3
  <2>5. y # 0 /\ y \in L /\ g[z] < g[y]
    BY <2>4, <1>0
  <2>6. z \notin T
    <3> SUFFICES ASSUME z \in T PROVE FALSE
      OBVIOUS
    <3>1. g[z] \in R
      OBVIOUS
    <3>2. t <= g[z]
      BY <2>1, <3>1
    <3>3. g[z] \in Nat /\ g[y] \in Nat
      BY <2>5, <1>0
    <3> QED BY <2>2, <2>5, <3>2, <3>3
  <2>7. PICK n \in 0..N : S[n] = z
    BY <2>6
  <2>8. n # N /\ n \in 0..N-1 /\ n + 1 \in 0..N
    BY <2>7, <1>6, <1>0
  <2>9. S[n + 1] = y
    BY <2>7, <2>8, <1>3, <1>0, <2>4
  <2> QED BY <2>8, <2>9
<1>8. Alcanza(S) = L
  <2>1. Alcanza(S) = {S[n] : n \in 0..N} \ {0}
    BY <1>3 DEF Alcanza
  <2>2. \A y \in L : \E n \in 0..N : S[n] = y
    BY <1>7
  <2> QED BY <2>1, <2>2, <1>4, <1>0
<1>9. \A m, n \in 0..N : m < n /\ S[n] # 0 => S[m] # 0 /\ g[S[m]] < g[S[n]]
  <2> TAKE m, n \in 0..N
  <2>1. m < n => m \in 0..n-1
    BY <1>0
  <2> QED BY <2>1, <1>5
<1> QED BY <1>3, <1>6, <1>8, <1>9 DEF S


\* The places where an instruction holds the lock of the flat file's first record.
ConCab == {"A_saca", "A_escribe",
           "L_padre", "L_mov", "L_solo1", "L_solo2",
           "L_ult1", "L_ult2", "L_ult3", "L_ult4", "L_fin",
           "U_padre", "U_mov", "U_ant1", "U_ant2", "U_ant3",
           "U_sig", "U_sig1", "U_sig2", "U_fin1", "U_fin2",
           "D_enlaza", "D_inicio"}

\* The parts of the instructions: vdadd; vdlink; vdunlink before it writes, while the chain
\* is being joined, and after; vddel; and where the chain of the principal is whole.
Agregan  == {"A_cab", "A_saca", "A_escribe"}
Ligan    == {"L_cab", "L_padre", "L_mov", "L_ult1", "L_ult2", "L_ult3"}
Solos    == {"L_solo1", "L_solo2"}
Leen     == {"U_cab", "U_padre", "U_mov"}
Juntan   == {"U_ant1", "U_ant2", "U_ant3", "U_sig", "U_sig1", "U_sig2", "U_fin1"}
Limpian  == {"U_fin2", "U_fin3"}
Borran   == {"D_cab", "D_enlaza", "D_inicio"}
Desligan == Leen \cup Juntan \cup Limpian \cup Borran
Enteras  == Agregan \cup {"L_fin", "escribe"} \cup Limpian \cup Borran
Pcs == ConCab \cup Agregan \cup Ligan \cup Desligan \cup {"libre", "muerto", "pisado", "escribe"}
Ops == {"LN", "LL", "LU", "LD"}

\* Places, and the records of the files and of the processes.
Pos0 == 0..MaxMovs
RegP == [pri : Pos0, ult : Pos0]
RegM == [pri : Pos0, ult : Pos0, borrado : BOOLEAN, sig : Pos0]
RegR == [pc : Pcs, op : Ops, r : Padres, x : Pos0, b1 : RegP, b2 : RegM,
         lug : Pos0, anter : Pos0, proxi : Pos0]

\* The type invariant.
Tipos ==
    /\ padre \in [Padres -> RegP]
    /\ mov \in [Movs -> RegM]
    /\ libre \in Pos0 /\ fin \in Pos0
    /\ de \in [Movs -> Padres \cup Procs \cup {Nadie}]
    /\ pr \in [Procs -> RegR]
    /\ blo \in [Procs -> {"fuera", "espera", "dentro"}]

\* p is inside an instruction, and the movement that it is about.
Activo(p) == pr[p].pc \notin {"libre", "muerto", "pisado"}
Suyo(q) == IF q.pc \in {"L_ult2", "L_ult3", "U_ant1", "U_ant2", "U_sig1", "U_sig2",
                        "U_fin1"}
           THEN q.lug ELSE q.x

\* Who may be where: the lock of the first record, and the block.
Turno ==
    /\ \A p \in Procs : pr[p].pc \in ConCab => cab = p
    /\ \A p \in Procs : Activo(p) =>
          DuenoDe[pr[p].r] = p \/ (DuenoDe[pr[p].r] = Todos /\ blo[p] = "dentro")
    /\ \A p, q \in Procs : blo[p] = "dentro" /\ blo[q] = "dentro" => p = q

\* What is linked is in the file and not deleted; what is loose is of one process; what is
\* being deleted is of one instruction.
Borrando(p) == pr[p].op = "LD" /\ pr[p].pc \in Desligan
Propios ==
    /\ \A x \in Movs : de[x] # Nadie => x <= fin /\ ~mov[x].borrado
    /\ \A p \in Procs :
          /\ pr[p].pc \in Agregan => pr[p].op = "LN"
          /\ pr[p].pc \in Ligan \cup Solos \cup {"L_ult4", "L_fin"} => pr[p].op \in {"LN", "LL"}
          /\ pr[p].pc \in Desligan => pr[p].op \in {"LU", "LD"} /\ Suyo(pr[p]) # 0
          /\ pr[p].pc \in Borran => pr[p].op = "LD"
          /\ pr[p].op = "LU" /\ pr[p].pc \in Desligan \cup {"escribe"} =>
                Suyo(pr[p]) # 0 /\ de[Suyo(pr[p])] = p
          /\ Borrando(p) => /\ de[Suyo(pr[p])] = Nadie
                            /\ Suyo(pr[p]) <= fin
                            /\ mov[Suyo(pr[p])].borrado <=> pr[p].pc = "D_inicio"
    /\ \A p, q \in Procs : Borrando(p) /\ Borrando(q) /\ Suyo(pr[p]) = Suyo(pr[q]) => p = q

\* The movements of principal r.
De(d, r) == {x \in Movs : d[x] = r}

\* M is linked both ways from P.pri to P.ult, with ranks f that go up.
Cadena(P, mv, M, f) ==
    /\ P.pri \in M \cup {0} /\ P.ult \in M \cup {0}
    /\ P.pri = 0 <=> M = {}
    /\ P.ult = 0 <=> M = {}
    /\ \A x \in M :
          /\ mv[x].pri = 0 <=> x = P.pri
          /\ mv[x].ult = 0 <=> x = P.ult
          /\ mv[x].pri # 0 => /\ mv[x].pri \in M /\ f[mv[x].pri] < f[x]
                              /\ mv[mv[x].pri].ult = x
          /\ mv[x].ult # 0 => /\ mv[x].ult \in M /\ f[x] < f[mv[x].ult]
                              /\ mv[mv[x].ult].pri = x

\* The principal and the movements once what is between a and z is taken out.
Final(P, a, z) == [pri |-> IF a = 0 THEN z ELSE P.pri, ult |-> IF z = 0 THEN a ELSE P.ult]
Junta(mv, a, z) ==
    [y \in Movs |-> [mv[y] EXCEPT !.ult = IF y = a THEN z ELSE @,
                                  !.pri = IF y = z THEN a ELSE @]]
AlFin(b, u) == [b EXCEPT !.pri = u, !.ult = 0]

\* What vdlink at place q knows of its principal P, of its movements D and of its buffers.
FormaLiga(q, P, D, mv, f) ==
    LET y == Suyo(q)
    IN  /\ q.pc \in Ligan => y \in D /\ Cadena(P, mv, D \ {y}, f)
        /\ q.pc = "L_mov" => q.b1 = P
        /\ q.pc \in Solos => /\ D = {y} /\ q.b1 = [pri |-> y, ult |-> y]
                             /\ q.b2 = AlFin(mv[y], 0)
        /\ q.pc = "L_solo2" => P = q.b1
        /\ q.pc \in {"L_ult1", "L_ult2", "L_ult3"} => q.b1 = P /\ P.ult # 0
        /\ q.pc = "L_ult1" => q.b2 = AlFin(mv[y], P.ult)
        /\ q.pc \in {"L_ult2", "L_ult3"} =>
               q.x = P.ult /\ mv[y].pri = P.ult /\ mv[y].ult = 0
        /\ q.pc = "L_ult3" => q.b2 = [mv[q.x] EXCEPT !.ult = y]
        /\ q.pc = "L_ult4" => y \in D /\ Cadena(q.b1, mv, D, f)

\* The same of vdunlink.
FormaDesliga(q, P, D, mv, f) ==
    LET y == Suyo(q)  F == Final(P, q.anter, q.proxi)
    IN  /\ q.pc \in Leen => Cadena(P, mv, D \cup {y}, f)
        /\ q.pc = "U_mov" => q.b1 = P
        /\ q.pc \in Juntan => /\ q.anter \in D \cup {0} /\ q.proxi \in D \cup {0}
                              /\ Cadena(F, Junta(mv, q.anter, q.proxi), D, f)
                              /\ q.b1.pri = F.pri
        /\ q.pc \in {"U_ant1", "U_ant2", "U_ant3"} => q.anter # 0 /\ mv[y].pri = q.anter
        /\ q.pc \in {"U_ant1", "U_ant2", "U_ant3", "U_sig"} => q.b1.ult = P.ult
        /\ q.pc \in {"U_ant1", "U_ant2"} => q.x = q.anter
        /\ q.pc = "U_ant2" => q.b2 = [mv[q.x] EXCEPT !.ult = q.proxi]
        /\ q.pc \in {"U_ant3", "U_sig"} => q.lug = q.x
        /\ q.pc = "U_sig" => q.b2.pri = q.anter
        /\ q.pc \in {"U_ant3", "U_sig", "U_sig1", "U_sig2", "U_fin1"} =>
               (q.anter # 0 => mv[q.anter].ult = q.proxi)
        /\ q.pc \in {"U_sig1", "U_sig2"} => q.proxi # 0 /\ q.x = q.proxi
        /\ q.pc = "U_sig2" => q.b2 = [mv[q.x] EXCEPT !.pri = q.anter]
        /\ q.pc \in {"U_sig1", "U_sig2", "U_fin1"} => q.b1 = F
        /\ q.pc = "U_fin1" => (q.proxi # 0 => mv[q.proxi].pri = q.anter)

\* The places where the chain of the principal is whole.
FormaEntera(q, P, D, mv, f) ==
    LET y == Suyo(q)
    IN  /\ q.pc \in Enteras => Cadena(P, mv, D, f)
        /\ q.pc \in Enteras \ Agregan => q.b1 = P
        /\ q.pc = "L_fin" => y \in D
        /\ q.pc = "U_fin3" => q.b2 = AlFin(mv[y], 0)
        /\ q.pc = "escribe" /\ q.op # "LD" => q.b2 = mv[q.x]
        /\ q.pc = "escribe" /\ q.op \in {"LN", "LL"} => q.x \in D

Forma(q, P, D, mv, f) ==
    FormaLiga(q, P, D, mv, f) /\ FormaDesliga(q, P, D, mv, f) /\ FormaEntera(q, P, D, mv, f)

Formas(f) ==
    /\ \A r \in Padres : EnPaz(r) => Cadena(padre[r], mov, De(de, r), f)
    /\ \A p \in Procs : Forma(pr[p], padre[pr[p].r], De(de, pr[p].r), mov, f)

\* The records in the hands of a process, and the free list: the set L with ranks g.
EnCurso == {pr[p].x : p \in {q \in Procs : pr[q].pc \in {"A_escribe", "D_inicio"}}}
Borrados == {x \in 1..fin : mov[x].borrado}
ListaDe(L, g) ==
    /\ L \subseteq Borrados /\ libre \in L \cup {0} /\ (libre = 0 => L = {})
    /\ \A y \in L : /\ mov[y].sig \in L \cup {0}
                    /\ mov[y].sig # 0 => g[y] < g[mov[y].sig]
                    /\ y # libre => \E z \in L : mov[z].sig = y
    /\ \A p \in Procs :
         /\ pr[p].pc = "A_escribe" => /\ pr[p].x \notin L /\ pr[p].x \in Movs
                                      /\ pr[p].x \in Borrados \cup {fin + 1}
         /\ pr[p].pc = "D_inicio" => /\ pr[p].x \notin L /\ pr[p].x \in Movs
                                     /\ mov[pr[p].x].sig = libre
    /\ Cardinality((Borrados \ L) \ EnCurso) <= Cardinality(Muertos)

-----------------------------------------------------------------------------
(* Chains. *)

\* A chain depends on the links and the ranks of its own movements only.
LEMMA Congruente ==
    ASSUME NEW P, NEW mv, NEW mv2, NEW M \in SUBSET Movs, NEW f, NEW f2,
           Cadena(P, mv, M, f),
           \A x \in M : mv2[x].pri = mv[x].pri /\ mv2[x].ult = mv[x].ult /\ f2[x] = f[x]
    PROVE  Cadena(P, mv2, M, f2)
<1>1. \A x \in M : mv[x].pri # 0 => mv[x].pri \in M
  BY DEF Cadena
<1>2. \A x \in M : mv[x].ult # 0 => mv[x].ult \in M
  BY DEF Cadena
<1>3. \A x \in M : mv2[x].pri # 0 => /\ mv2[x].pri \in M /\ f2[mv2[x].pri] < f2[x]
                                     /\ mv2[mv2[x].pri].ult = x
  BY <1>1 DEF Cadena
<1>4. \A x \in M : mv2[x].ult # 0 => /\ mv2[x].ult \in M /\ f2[x] < f2[mv2[x].ult]
                                     /\ mv2[mv2[x].ult].pri = x
  BY <1>2 DEF Cadena
<1>5. \A x \in M : (mv2[x].pri = 0 <=> x = P.pri) /\ (mv2[x].ult = 0 <=> x = P.ult)
  BY DEF Cadena
<1>6. /\ P.pri \in M \cup {0} /\ P.ult \in M \cup {0}
      /\ P.pri = 0 <=> M = {}
      /\ P.ult = 0 <=> M = {}
  BY DEF Cadena
<1> QED BY <1>3, <1>4, <1>5, <1>6, Zenon DEF Cadena

\* A movement with no link either way is a chain of one (vdlink of the first one).
LEMMA Sola ==
    ASSUME NEW mv, NEW x \in Movs, NEW f, mv[x].pri = 0, mv[x].ult = 0
    PROVE  Cadena([pri |-> x, ult |-> x], mv, {x}, f)
  BY ConstantesMovs DEF Cadena, Movs, ConstantesMovs

\* A chain without one of its movements, once its neighbours are joined, is a chain
\* (vdunlink).
LEMMA Quitada ==
    ASSUME NEW P \in RegP, NEW mv \in [Movs -> RegM], NEW M \in SUBSET Movs,
           NEW f \in [Movs -> Nat], NEW x \in M, Cadena(P, mv, M, f)
    PROVE  LET a == mv[x].pri  z == mv[x].ult  D == M \ {x}
           IN  /\ a \in D \cup {0} /\ z \in D \cup {0}
               /\ Cadena(Final(P, a, z), Junta(mv, a, z), D, f)
<1> DEFINE a == mv[x].pri  z == mv[x].ult  D == M \ {x}
           F == Final(P, a, z)  J == Junta(mv, a, z)
<1>0. MaxMovs \in Nat /\ 0 \notin M /\ \A y \in M : y \in Movs /\ f[y] \in Nat
  BY ConstantesMovs DEF ConstantesMovs, Movs
<1>1. a \in D \cup {0} /\ z \in D \cup {0}
  BY <1>0 DEF Cadena
<1>2. \A y \in Movs : /\ J[y].pri = IF y = z THEN a ELSE mv[y].pri
                      /\ J[y].ult = IF y = a THEN z ELSE mv[y].ult
  BY DEF Junta, RegM
<1>3. F.pri = (IF a = 0 THEN z ELSE P.pri) /\ F.ult = (IF z = 0 THEN a ELSE P.ult)
  BY DEF Final
<1>c. /\ P.pri \in M \cup {0} /\ P.ult \in M \cup {0}
      /\ P.pri # 0 /\ P.ult # 0
      /\ \A y \in M :
          /\ mv[y].pri = 0 <=> y = P.pri
          /\ mv[y].ult = 0 <=> y = P.ult
          /\ mv[y].pri # 0 => /\ mv[y].pri \in M /\ f[mv[y].pri] < f[y]
                              /\ mv[mv[y].pri].ult = y
          /\ mv[y].ult # 0 => /\ mv[y].ult \in M /\ f[y] < f[mv[y].ult]
                              /\ mv[mv[y].ult].pri = y
  BY DEF Cadena
<1> HIDE DEF F, J
<1>4. F.pri \in D \cup {0} /\ F.ult \in D \cup {0}
  BY <1>0, <1>1, <1>3, <1>c
<1>5. (F.pri = 0 <=> D = {}) /\ (F.ult = 0 <=> D = {})
  <2>1. D = {} => F.pri = 0 /\ F.ult = 0
    BY <1>4
  <2>2. F.pri = 0 => x = P.pri /\ x = P.ult
    BY <1>1, <1>3, <1>c
  <2>3. F.ult = 0 => x = P.pri /\ x = P.ult
    BY <1>1, <1>3, <1>c
  <2>4. ASSUME x = P.pri, x = P.ult, D # {} PROVE FALSE
    <3> DEFINE T == {f[y] : y \in D}
    <3>1. PICK t \in T : \A u \in T : t <= u
      <4>1. T \subseteq Nat /\ T # {}
        BY <1>0, <2>4
      <4> HIDE DEF T
      <4> QED BY <4>1, Minimo
    <3>2. PICK y \in D : f[y] = t
      OBVIOUS
    <3>3. \A u \in D : f[y] <= f[u]
      BY <3>1, <3>2
    <3>4. mv[y].pri # 0 /\ mv[y].pri \in M /\ f[mv[y].pri] < f[y]
          /\ mv[mv[y].pri].ult = y
      BY <1>c, <2>4, <3>2
    <3>5. mv[y].pri = x
      BY <3>3, <3>4, <1>0
    <3> QED BY <1>0, <1>c, <2>4, <3>4, <3>5
  <2> QED BY <2>1, <2>2, <2>3, <2>4
<1>6. ASSUME NEW y \in D
      PROVE  /\ J[y].pri = 0 <=> y = F.pri
             /\ J[y].ult = 0 <=> y = F.ult
             /\ J[y].pri # 0 => /\ J[y].pri \in D /\ f[J[y].pri] < f[y]
                                /\ J[J[y].pri].ult = y
             /\ J[y].ult # 0 => /\ J[y].ult \in D /\ f[y] < f[J[y].ult]
                                /\ J[J[y].ult].pri = y
  <2>1. /\ y \in M /\ y \in Movs /\ x \in Movs /\ y # x /\ y # 0
        /\ f[y] \in Nat /\ f[x] \in Nat
    BY <1>0
  <2>2. J[y].pri = 0 <=> y = F.pri
    <3>1. CASE y = z
      <4>0. mv[x].ult = y /\ mv[y].pri = x
        BY <3>1, <1>c, <2>1
      <4>1. J[y].pri = a /\ mv[y].pri = x /\ y # P.pri
        BY <4>0, <3>1, <1>2, <1>c, <2>1, <1>0
      <4> QED BY <3>1, <4>1, <1>3, <2>1
    <3>2. CASE y # z /\ a = 0
      <4>1. J[y].pri = mv[y].pri /\ x = P.pri /\ F.pri = z
        BY <3>2, <1>2, <1>3, <1>c, <2>1
      <4> QED BY <3>2, <4>1, <1>c, <2>1
    <3>3. CASE y # z /\ a # 0
      BY <3>3, <1>2, <1>3, <1>c, <2>1
    <3> QED BY <3>1, <3>2, <3>3
  <2>3. J[y].ult = 0 <=> y = F.ult
    <3>1. CASE y = a
      <4>0. mv[x].pri = y /\ mv[y].ult = x
        BY <3>1, <1>c, <2>1
      <4>1. J[y].ult = z /\ mv[y].ult = x /\ y # P.ult
        BY <4>0, <3>1, <1>2, <1>c, <2>1, <1>0
      <4> QED BY <3>1, <4>1, <1>3, <2>1
    <3>2. CASE y # a /\ z = 0
      <4>1. J[y].ult = mv[y].ult /\ x = P.ult /\ F.ult = a
        BY <3>2, <1>2, <1>3, <1>c, <2>1
      <4> QED BY <3>2, <4>1, <1>c, <2>1
    <3>3. CASE y # a /\ z # 0
      BY <3>3, <1>2, <1>3, <1>c, <2>1
    <3> QED BY <3>1, <3>2, <3>3
  <2>4. ASSUME J[y].pri # 0
        PROVE  J[y].pri \in D /\ f[J[y].pri] < f[y] /\ J[J[y].pri].ult = y
    <3>1. CASE y = z
      <4>1. J[y].pri = a /\ a \in D /\ a \in Movs /\ f[a] \in Nat
        BY <3>1, <1>2, <2>1, <2>4, <1>1, <1>0
      <4>2. f[a] < f[x] /\ f[x] < f[z]
        BY <1>c, <3>1, <4>1, <2>1
      <4>3. J[a].ult = z
        BY <1>2, <4>1
      <4> QED BY <3>1, <4>1, <4>2, <4>3, <2>1
    <3>2. CASE y # z
      <4>1. J[y].pri = mv[y].pri /\ mv[y].pri \in M /\ f[mv[y].pri] < f[y]
            /\ mv[mv[y].pri].ult = y
        BY <3>2, <1>2, <2>1, <2>4, <1>c
      <4>2. mv[y].pri # x
        BY <4>1, <3>2
      <4>3. mv[y].pri # a
        BY <4>1, <1>c, <1>1, <2>1, <1>0
      <4> QED BY <4>1, <4>2, <4>3, <1>2, <1>0
    <3> QED BY <3>1, <3>2
  <2>5. ASSUME J[y].ult # 0
        PROVE  J[y].ult \in D /\ f[y] < f[J[y].ult] /\ J[J[y].ult].pri = y
    <3>1. CASE y = a
      <4>1. J[y].ult = z /\ z \in D /\ z \in Movs /\ f[z] \in Nat
        BY <3>1, <1>2, <2>1, <2>5, <1>1, <1>0
      <4>2. f[a] < f[x] /\ f[x] < f[z]
        BY <1>c, <3>1, <4>1, <2>1
      <4>3. J[z].pri = a
        BY <1>2, <4>1
      <4> QED BY <3>1, <4>1, <4>2, <4>3, <2>1
    <3>2. CASE y # a
      <4>1. J[y].ult = mv[y].ult /\ mv[y].ult \in M /\ f[y] < f[mv[y].ult]
            /\ mv[mv[y].ult].pri = y
        BY <3>2, <1>2, <2>1, <2>5, <1>c
      <4>2. mv[y].ult # x
        BY <4>1, <3>2
      <4>3. mv[y].ult # z
        BY <4>1, <1>c, <1>1, <2>1, <1>0
      <4> QED BY <4>1, <4>2, <4>3, <1>2, <1>0
    <3> QED BY <3>1, <3>2
  <2> QED BY <2>2, <2>3, <2>4, <2>5
<1> QED BY <1>1, <1>4, <1>5, <1>6 DEF Cadena, F, J

\* The movement that vdlink puts after the last one makes a chain with it.
LEMMA Agregada ==
    ASSUME NEW P, NEW Q, NEW mv, NEW mv2, NEW M \in SUBSET Movs,
           NEW f \in [Movs -> Nat], NEW g, NEW x \in Movs, x \notin M, Cadena(P, mv, M, f),
           P.ult # 0, mv2[x].pri = P.ult, mv2[x].ult = 0, mv2[P.ult].ult = x,
           \A y \in M : mv2[y].pri = mv[y].pri,
           \A y \in M \ {P.ult} : mv2[y].ult = mv[y].ult,
           Q.pri = P.pri, Q.ult = x,
           g[x] = f[P.ult] + 1, \A y \in M : g[y] = f[y]
    PROVE  Cadena(Q, mv2, M \cup {x}, g)
<1> DEFINE N == M \cup {x}
<1>0. MaxMovs \in Nat /\ 0 \notin M /\ x # 0 /\ \A y \in M : y \in Movs /\ f[y] \in Nat
  BY ConstantesMovs DEF ConstantesMovs, Movs
<1>1. Q.pri = P.pri /\ Q.ult = x
  OBVIOUS
<1>3. g[x] = f[P.ult] + 1 /\ \A y \in M : g[y] = f[y]
  OBVIOUS
<1>2. /\ P.pri \in M /\ P.ult \in M
      /\ \A y \in M :
          /\ mv[y].pri = 0 <=> y = P.pri
          /\ mv[y].ult = 0 <=> y = P.ult
          /\ mv[y].pri # 0 => /\ mv[y].pri \in M /\ f[mv[y].pri] < f[y]
                              /\ mv[mv[y].pri].ult = y
          /\ mv[y].ult # 0 => /\ mv[y].ult \in M /\ f[y] < f[mv[y].ult]
                              /\ mv[mv[y].ult].pri = y
  BY DEF Cadena
<1>4. ASSUME NEW y \in N
      PROVE  /\ mv2[y].pri = 0 <=> y = Q.pri
             /\ mv2[y].ult = 0 <=> y = Q.ult
             /\ mv2[y].pri # 0 => /\ mv2[y].pri \in N /\ g[mv2[y].pri] < g[y]
                                  /\ mv2[mv2[y].pri].ult = y
             /\ mv2[y].ult # 0 => /\ mv2[y].ult \in N /\ g[y] < g[mv2[y].ult]
                                  /\ mv2[mv2[y].ult].pri = y
  <2>1. CASE y = x
    BY <2>1, <1>0, <1>1, <1>2, <1>3
  <2>2. CASE y = P.ult
    <3>1. y # x /\ y \in M /\ mv[y].ult = 0 /\ mv2[y].pri = mv[y].pri /\ mv2[y].ult = x
      BY <2>2, <1>2
    <3>2. mv[y].pri # 0 => /\ mv[y].pri # P.ult /\ mv[y].pri \in M
                           /\ mv2[mv[y].pri].ult = y /\ g[mv[y].pri] < g[y]
      BY <3>1, <1>0, <1>2, <1>3
    <3>3. g[y] < g[x]
      BY <1>0, <1>3, <2>2, <3>1
    <3> QED BY <2>2, <3>1, <3>2, <3>3, <1>0, <1>1, <1>2
  <2>3. CASE y # x /\ y # P.ult
    <3>1. y \in M /\ mv2[y].pri = mv[y].pri /\ mv2[y].ult = mv[y].ult /\ mv[y].ult # 0
      BY <2>3, <1>2
    <3>2. mv[y].pri # 0 => /\ mv[y].pri # P.ult /\ mv[y].pri \in M
                           /\ mv2[mv[y].pri].ult = y /\ g[mv[y].pri] < g[y]
      BY <3>1, <1>0, <1>2, <1>3
    <3>3. mv[y].ult \in M /\ g[y] < g[mv[y].ult] /\ mv2[mv[y].ult].pri = y
      BY <3>1, <1>0, <1>2, <1>3
    <3> QED BY <2>3, <3>1, <3>2, <3>3, <1>0, <1>1, <1>2
  <2> QED BY <2>1, <2>2, <2>3
<1>5. /\ Q.pri \in N \cup {0} /\ Q.ult \in N \cup {0}
      /\ Q.pri = 0 <=> N = {}
      /\ Q.ult = 0 <=> N = {}
  BY <1>0, <1>1, <1>2
<1> QED BY <1>4, <1>5, Zenon DEF Cadena

\* The walk along a chain of places of the file.
LEMMA RecorridoMovs ==
    ASSUME NEW sig, NEW L \in SUBSET Movs, NEW x \in L \cup {0}, NEW g \in [Movs -> Nat],
           x = 0 => L = {},
           \A y \in L : /\ sig[y] \in L \cup {0}
                        /\ sig[y] # 0 => g[y] < g[sig[y]]
                        /\ y # x => \E z \in L : sig[z] = y
    PROVE  Alcanza(Desde(x, sig, MaxMovs)) = L /\ Desde(x, sig, MaxMovs)[MaxMovs] = 0
<1>1. MaxMovs \in Nat /\ 0 \notin L /\ \A y \in L : g[y] \in Nat
  BY ConstantesMovs DEF ConstantesMovs, Movs
<1>2. IsFiniteSet(Movs) /\ Cardinality(Movs) = MaxMovs
  <2>1. IsFiniteSet(1..MaxMovs)
        /\ Cardinality(1..MaxMovs) = IF 1 > MaxMovs THEN 0 ELSE MaxMovs - 1 + 1
    BY <1>1, FS_Interval
  <2> QED BY <2>1, <1>1 DEF Movs
<1>3. IsFiniteSet(L) /\ Cardinality(L) <= MaxMovs
  BY <1>2, FS_Subset
<1> QED BY <1>1, <1>3, Recorrido

-----------------------------------------------------------------------------
(* What a step keeps. *)

\* Two instructions on one principal are one: it is its process's own, or in the block.
LEMMA Exclusivo ==
    ASSUME Tipos, Turno, NEW p \in Procs, NEW q \in Procs, Activo(p), Activo(q),
           pr[p].r = pr[q].r
    PROVE  p = q
<1>1. Todos \notin Procs
  BY ConstantesMovs DEF ConstantesMovs
<1> QED BY <1>1 DEF Turno

\* The movements that p may write.
Mios(p) ==
    {y \in Movs : \/ de[y] \in {pr[p].r, p}
                  \/ /\ de[y] = Nadie
                     /\ \A q \in Procs \ {p} : Borrando(q) => Suyo(pr[q]) # y}

\* The movements that the place of a process is about.
Toca(q) == IF q.pc \in Desligan \/ (q.pc = "escribe" /\ q.op = "LU")
           THEN {Suyo(q)} ELSE {}

\* What an instruction knows of its records holds as long as they are as they were.
LEMMA MarcoDe ==
    ASSUME NEW q \in RegR, NEW P, NEW D \in SUBSET Movs, NEW f, NEW f2, NEW mv, NEW mv2,
           mv \in [Movs -> RegM], mv2 \in [Movs -> RegM],
           Toca(q) \subseteq Movs, Forma(q, P, D, mv, f),
           \A y \in D \cup Toca(q) : mv2[y] = mv[y] /\ f2[y] = f[y]
    PROVE  Forma(q, P, D, mv2, f2)
<1> DEFINE y == Suyo(q)
<1>0. MaxMovs \in Nat /\ 0 \notin Movs
  BY ConstantesMovs DEF ConstantesMovs, Movs
<1>1. \A M \in SUBSET (D \cup Toca(q)) : \A Q :
          Cadena(Q, mv, M, f) => Cadena(Q, mv2, M, f2)
  <2> TAKE M \in SUBSET (D \cup Toca(q))
  <2> TAKE Q
  <2>1. M \in SUBSET Movs /\ \A u \in M : mv2[u] = mv[u] /\ f2[u] = f[u]
    OBVIOUS
  <2> QED BY <2>1, Congruente
<1>2. FormaLiga(q, P, D, mv2, f2)
  <2>0. FormaLiga(q, P, D, mv, f)
    BY DEF Forma
  <2>1. q.pc \in Ligan => y \in D /\ Cadena(P, mv2, D \ {y}, f2)
    BY <2>0, <1>1 DEF FormaLiga
  <2>2. q.pc \in {"L_ult1", "L_ult2", "L_ult3"} => P.ult \in D
    <3>1. q.pc \in {"L_ult1", "L_ult2", "L_ult3"} => q.pc \in Ligan /\ P.ult # 0
      BY <2>0 DEF FormaLiga, Ligan
    <3> QED BY <3>1, <2>0 DEF FormaLiga, Cadena
  <2>3. q.pc \in {"L_ult1", "L_ult2", "L_ult3"} => y \in D
    BY <2>1 DEF Ligan
  <2>4. q.pc = "L_ult4" => y \in D /\ Cadena(q.b1, mv2, D, f2)
    BY <2>0, <1>1 DEF FormaLiga
  <2>5. q.pc \in Solos => /\ D = {y} /\ q.b1 = [pri |-> y, ult |-> y]
                          /\ q.b2 = AlFin(mv2[y], 0)
    BY <2>0 DEF FormaLiga
  <2>6. /\ q.pc = "L_mov" => q.b1 = P
        /\ q.pc = "L_solo2" => P = q.b1
        /\ q.pc \in {"L_ult1", "L_ult2", "L_ult3"} => q.b1 = P /\ P.ult # 0
    BY <2>0 DEF FormaLiga
  <2>7. /\ q.pc = "L_ult1" => q.b2 = AlFin(mv2[y], P.ult)
        /\ q.pc \in {"L_ult2", "L_ult3"} =>
               q.x = P.ult /\ mv2[y].pri = P.ult /\ mv2[y].ult = 0
        /\ q.pc = "L_ult3" => q.b2 = [mv2[q.x] EXCEPT !.ult = y]
    BY <2>0, <2>2, <2>3 DEF FormaLiga
  <2> QED BY <2>1, <2>4, <2>5, <2>6, <2>7 DEF FormaLiga
<1>3. FormaDesliga(q, P, D, mv2, f2)
  <2>0. FormaDesliga(q, P, D, mv, f)
    BY DEF Forma
  <2>1. q.pc \in Leen => Cadena(P, mv2, D \cup {y}, f2)
    <3>1. q.pc \in Leen => y \in Toca(q)
      BY DEF Toca, Desligan
    <3>2. q.pc \in Leen => Cadena(P, mv, D \cup {y}, f)
      BY <2>0 DEF FormaDesliga
    <3> QED BY <3>1, <3>2, <1>1
  <2>2. q.pc \in Juntan => q.anter \in D \cup {0} /\ q.proxi \in D \cup {0} /\ y \in Toca(q)
    BY <2>0 DEF FormaDesliga, Toca, Desligan
  <2>3. q.pc \in Juntan => /\ Cadena(Final(P, q.anter, q.proxi),
                                     Junta(mv2, q.anter, q.proxi), D, f2)
                           /\ q.b1.pri = Final(P, q.anter, q.proxi).pri
    <3> DEFINE J == Junta(mv, q.anter, q.proxi)  J2 == Junta(mv2, q.anter, q.proxi)
    <3>1. \A u \in D : J2[u].pri = J[u].pri /\ J2[u].ult = J[u].ult /\ f2[u] = f[u]
      BY DEF Junta
    <3>2. q.pc \in Juntan => /\ Cadena(Final(P, q.anter, q.proxi), J, D, f)
                             /\ q.b1.pri = Final(P, q.anter, q.proxi).pri
      BY <2>0 DEF FormaDesliga
    <3> HIDE DEF J, J2
    <3>3. q.pc \in Juntan => Cadena(Final(P, q.anter, q.proxi), J2, D, f2)
      BY <3>1, <3>2, Congruente
    <3> QED BY <3>2, <3>3 DEF J2
  <2>4. /\ q.pc = "U_mov" => q.b1 = P
        /\ q.pc \in {"U_ant1", "U_ant2", "U_ant3", "U_sig"} => q.b1.ult = P.ult
        /\ q.pc \in {"U_ant1", "U_ant2"} => q.x = q.anter
        /\ q.pc \in {"U_ant3", "U_sig"} => q.lug = q.x
        /\ q.pc = "U_sig" => q.b2.pri = q.anter
        /\ q.pc \in {"U_sig1", "U_sig2"} => q.proxi # 0 /\ q.x = q.proxi
        /\ q.pc \in {"U_sig1", "U_sig2", "U_fin1"} => q.b1 = Final(P, q.anter, q.proxi)
    BY <2>0 DEF FormaDesliga
  <2>5. q.pc \in {"U_ant1", "U_ant2", "U_ant3"} => q.anter # 0 /\ mv2[y].pri = q.anter
    BY <2>0, <2>2 DEF FormaDesliga, Juntan
  <2>6. q.pc = "U_ant2" => q.b2 = [mv2[q.x] EXCEPT !.ult = q.proxi]
    BY <2>0, <2>2, <2>4, <2>5 DEF FormaDesliga, Juntan
  <2>7. q.pc \in {"U_ant3", "U_sig", "U_sig1", "U_sig2", "U_fin1"} =>
            (q.anter # 0 => mv2[q.anter].ult = q.proxi)
    BY <2>0, <2>2 DEF FormaDesliga, Juntan
  <2>8. /\ q.pc = "U_sig2" => q.b2 = [mv2[q.x] EXCEPT !.pri = q.anter]
        /\ q.pc = "U_fin1" => (q.proxi # 0 => mv2[q.proxi].pri = q.anter)
    BY <2>0, <2>2, <2>4 DEF FormaDesliga, Juntan
  <2> QED BY <2>1, <2>2, <2>3, <2>4, <2>5, <2>6, <2>7, <2>8 DEF FormaDesliga
<1>4. FormaEntera(q, P, D, mv2, f2)
  <2>0. FormaEntera(q, P, D, mv, f)
    BY DEF Forma
  <2>1. q.pc \in Enteras => Cadena(P, mv2, D, f2)
    BY <2>0, <1>1 DEF FormaEntera
  <2>2. q.pc = "U_fin3" => q.b2 = AlFin(mv2[y], 0)
    BY <2>0 DEF FormaEntera, Toca, Desligan, Limpian
  <2>3. q.pc = "escribe" /\ q.op # "LD" => q.b2 = mv2[q.x]
    <3>1. q.pc = "escribe" /\ q.op = "LU" => q.x \in Toca(q)
      BY DEF Toca, Suyo
    <3>2. q.op \in {"LN", "LL", "LU", "LD"}
      BY DEF RegR, Ops
    <3> QED BY <2>0, <3>1, <3>2 DEF FormaEntera
  <2> QED BY <2>0, <2>1, <2>2, <2>3 DEF FormaEntera
<1> QED BY <1>2, <1>3, <1>4 DEF Forma

\* The chains' part of the invariant.
Inv(f) == Tipos /\ Turno /\ Propios /\ Formas(f)

\* The movement that is being unlinked is a place of the file.
LEMMA TocaMovs ==
    ASSUME Tipos, Propios, NEW p \in Procs
    PROVE  Toca(pr[p]) \subseteq Movs
<1>1. MaxMovs \in Nat /\ pr[p] \in RegR /\ Suyo(pr[p]) \in Pos0
  BY ConstantesMovs DEF ConstantesMovs, Tipos, RegR, Suyo
<1>2. Toca(pr[p]) # {} => Toca(pr[p]) = {Suyo(pr[p])} /\ Suyo(pr[p]) # 0
  BY DEF Toca, Propios
<1> QED BY <1>1, <1>2 DEF Pos0, Movs

\* A process that is in no instruction is about nothing.
LEMMA FormaOciosa ==
    ASSUME NEW q, NEW P, NEW D, NEW mv, NEW f, q.pc \in {"libre", "muerto", "pisado"}
    PROVE  Forma(q, P, D, mv, f)
  BY DEF Forma, FormaLiga, FormaDesliga, FormaEntera, Ligan, Solos, Leen, Juntan,
         Limpian, Borran, Enteras, Agregan

\* A step of p that changes only the principal and the movements of p keeps what all
\* the other instructions know.
LEMMA PasoFormas ==
    ASSUME NEW f \in [Movs -> Nat], NEW f2, Inv(f), Tipos', NEW p \in Procs, Activo(p),
           \A q \in Procs \ {p} : pr'[q] = pr[q],
           pr'[p].r = pr[p].r,
           \A r \in Padres \ {pr[p].r} : padre'[r] = padre[r],
           \A y \in Movs \ Mios(p) : mov'[y] = mov[y] /\ f2[y] = f[y] /\ de'[y] = de[y],
           \A y \in Mios(p) : de'[y] \in {pr[p].r, p, Nadie},
           Forma(pr'[p], padre'[pr[p].r], De(de', pr[p].r), mov', f2),
           pr'[p].pc = "libre" => Cadena(padre'[pr[p].r], mov', De(de', pr[p].r), f2)
    PROVE  Formas(f2)'
<1> DEFINE r0 == pr[p].r
<1>0. /\ Tipos /\ Turno /\ Propios /\ Formas(f)
      /\ pr \in [Procs -> RegR] /\ mov \in [Movs -> RegM] /\ mov' \in [Movs -> RegM]
      /\ Padres \cap Procs = {} /\ Nadie \notin Padres /\ Nadie \notin Procs
      /\ r0 \in Padres
  BY ConstantesMovs DEF Inv, Tipos, ConstantesMovs, RegR
<1>1. ASSUME NEW r \in Padres \ {r0}
      PROVE  De(de', r) = De(de, r) /\ \A y \in De(de, r) : y \in Movs \ Mios(p)
  <2>1. \A y \in De(de, r) : y \in Movs \ Mios(p)
    BY <1>0 DEF De, Mios
  <2>2. \A y \in Movs : de'[y] = r => y \notin Mios(p)
    BY <1>0
  <2> QED BY <2>1, <2>2 DEF De
<1>2. ASSUME NEW q \in Procs \ {p}
      PROVE  Forma(pr'[q], padre'[pr'[q].r], De(de', pr'[q].r), mov', f2)
  <2>1. CASE Activo(q)
    <3>1. pr[q].r # r0 /\ pr[q].r \in Padres /\ pr[q] \in RegR
      BY <2>1, <1>0, Exclusivo DEF RegR
    <3>2. Toca(pr[q]) \subseteq Movs \ Mios(p)
      <4>1. SUFFICES ASSUME NEW y \in Toca(pr[q]) PROVE y \in Movs /\ y \notin Mios(p)
        OBVIOUS
      <4>2. y \in Movs
        BY <1>0, TocaMovs
      <4>3. y = Suyo(pr[q]) /\ (pr[q].pc \in Desligan \/ (pr[q].pc = "escribe" /\ pr[q].op = "LU"))
        BY DEF Toca
      <4>4. CASE pr[q].op = "LU"
        <5>1. de[y] = q
          BY <4>3, <4>4, <1>0 DEF Propios
        <5> QED BY <5>1, <4>2, <1>0 DEF Mios
      <4>5. CASE pr[q].op # "LU"
        <5>1. Borrando(q)
          BY <4>3, <4>5, <1>0 DEF Propios, Borrando
        <5>2. de[y] = Nadie
          BY <5>1, <4>3, <1>0 DEF Propios
        <5> QED BY <5>1, <5>2, <4>2, <4>3, <1>0 DEF Mios
      <4> QED BY <4>4, <4>5
    <3>3. Forma(pr[q], padre[pr[q].r], De(de, pr[q].r), mov, f)
      BY <1>0 DEF Formas
    <3>4. De(de, pr[q].r) \in SUBSET Movs /\ Toca(pr[q]) \subseteq Movs
      BY <3>2 DEF De
    <3>5. \A y \in De(de, pr[q].r) \cup Toca(pr[q]) : mov'[y] = mov[y] /\ f2[y] = f[y]
      BY <3>1, <3>2, <1>1
    <3>6. Forma(pr[q], padre[pr[q].r], De(de, pr[q].r), mov', f2)
      BY <3>1, <3>3, <3>4, <3>5, <1>0, MarcoDe
    <3> QED BY <3>1, <3>6, <1>1
  <2>2. CASE ~Activo(q)
    BY <2>2, FormaOciosa DEF Activo
  <2> QED BY <2>1, <2>2
<1>3. ASSUME NEW r \in Padres, EnPaz(r)'
      PROVE  Cadena(padre'[r], mov', De(de', r), f2)
  <2>1. CASE r = r0
    BY <1>3, <2>1 DEF EnPaz
  <2>2. CASE r # r0
    <3>1. EnPaz(r)
      BY <1>3, <2>2 DEF EnPaz
    <3>2. Cadena(padre[r], mov, De(de, r), f)
      BY <3>1, <1>0 DEF Formas
    <3>3. De(de, r) \in SUBSET Movs
      BY DEF De
    <3>4. \A y \in De(de, r) : mov'[y] = mov[y] /\ f2[y] = f[y]
      BY <2>2, <1>1
    <3>5. Cadena(padre[r], mov', De(de, r), f2)
      BY <3>2, <3>3, <3>4, Congruente
    <3> QED BY <3>5, <2>2, <1>1
  <2> QED BY <2>1, <2>2
<1>4. Forma(pr'[p], padre'[pr'[p].r], De(de', pr'[p].r), mov', f2)
  OBVIOUS
<1> QED BY <1>2, <1>3, <1>4 DEF Formas

\* A step that takes the lock of the first record only for itself keeps the turns.
LEMMA PasoTurno ==
    ASSUME Tipos, Turno, NEW p \in Procs, Activo(p),
           \A q \in Procs \ {p} : pr'[q] = pr[q],
           pr'[p].r = pr[p].r, blo' = blo,
           pr'[p].pc \in ConCab => cab' = p,
           cab' = cab \/ cab = Nadie \/ cab = p
    PROVE  Turno'
<1>0. Nadie \notin Procs
  BY ConstantesMovs DEF ConstantesMovs
<1>1. \A q \in Procs : pr'[q].pc \in ConCab => cab' = q
  <2> SUFFICES ASSUME NEW q \in Procs, pr'[q].pc \in ConCab PROVE cab' = q
    OBVIOUS
  <2>1. CASE q = p
    BY <2>1
  <2>2. CASE q # p
    BY <2>2, <1>0 DEF Turno
  <2> QED BY <2>1, <2>2
<1>2. \A q \in Procs : Activo(q)' =>
          DuenoDe[pr'[q].r] = q \/ (DuenoDe[pr'[q].r] = Todos /\ blo'[q] = "dentro")
  BY DEF Turno, Activo
<1> QED BY <1>1, <1>2 DEF Turno

\* A step that changes no owner and no deleted mark keeps the owners.
LEMMA PasoPropios ==
    ASSUME Tipos, Propios, NEW p \in Procs,
           \A q \in Procs \ {p} : pr'[q] = pr[q],
           de' = de, fin' = fin,
           \A y \in Movs : mov'[y].borrado = mov[y].borrado,
           pr'[p].op = pr[p].op \/ pr'[p].pc \in {"libre", "muerto"},
           Suyo(pr'[p]) = Suyo(pr[p]) \/ pr'[p].pc \notin Desligan \cup {"escribe"},
           pr'[p].pc \in Agregan => pr[p].pc \in Agregan,
           pr'[p].pc \in Ligan \cup Solos \cup {"L_ult4", "L_fin"} =>
               pr[p].pc \in Ligan \cup Solos \cup {"L_ult4"},
           pr'[p].pc \in Desligan => pr[p].pc \in Desligan,
           pr'[p].pc \in Borran => pr[p].op = "LD",
           pr'[p].pc \in Desligan => (pr'[p].pc = "D_inicio" <=> pr[p].pc = "D_inicio"),
           pr'[p].pc = "escribe" => pr[p].pc \in Desligan \/ pr[p].op # "LU"
    PROVE  Propios'
<1>0. pr \in [Procs -> RegR] /\ mov \in [Movs -> RegM]
      /\ {"libre", "muerto"} \cap (Desligan \cup Agregan \cup Ligan \cup Solos \cup Borran
                                   \cup {"L_ult4", "L_fin", "escribe", "D_inicio"}) = {}
  BY DEF Tipos, Desligan, Agregan, Ligan, Solos, Borran, Leen, Juntan, Limpian
<1>1. ASSUME NEW q \in Procs, Borrando(q)'
      PROVE  Borrando(q) /\ Suyo(pr'[q]) = Suyo(pr[q])
             /\ (pr'[q].pc = "D_inicio" <=> pr[q].pc = "D_inicio")
  BY <1>0, <1>1 DEF Borrando
<1>2. ASSUME NEW q \in Procs, Borrando(q) PROVE Suyo(pr[q]) \in Movs
  BY <1>2, TocaMovs DEF Toca, Borrando
<1>3. \A q \in Procs : Borrando(q)' =>
          /\ de'[Suyo(pr'[q])] = Nadie
          /\ Suyo(pr'[q]) <= fin'
          /\ mov'[Suyo(pr'[q])].borrado <=> pr'[q].pc = "D_inicio"
  <2> SUFFICES ASSUME NEW q \in Procs, Borrando(q)'
               PROVE  /\ de'[Suyo(pr'[q])] = Nadie
                      /\ Suyo(pr'[q]) <= fin'
                      /\ mov'[Suyo(pr'[q])].borrado <=> pr'[q].pc = "D_inicio"
    OBVIOUS
  <2>1. Borrando(q) /\ Suyo(pr'[q]) = Suyo(pr[q]) /\ Suyo(pr[q]) \in Movs
        /\ (pr'[q].pc = "D_inicio" <=> pr[q].pc = "D_inicio")
    BY <1>1, <1>2
  <2> QED BY <2>1 DEF Propios
<1>4. \A q1, q2 \in Procs :
          Borrando(q1)' /\ Borrando(q2)' /\ Suyo(pr'[q1]) = Suyo(pr'[q2]) => q1 = q2
  BY <1>1 DEF Propios
<1>5. \A x \in Movs : de'[x] # Nadie => x <= fin' /\ ~mov'[x].borrado
  BY DEF Propios
<1>6. ASSUME NEW q \in Procs
      PROVE  /\ pr'[q].pc \in Agregan => pr'[q].op = "LN"
             /\ pr'[q].pc \in Ligan \cup Solos \cup {"L_ult4", "L_fin"} =>
                    pr'[q].op \in {"LN", "LL"}
             /\ pr'[q].pc \in Desligan => pr'[q].op \in {"LU", "LD"} /\ Suyo(pr'[q]) # 0
             /\ pr'[q].pc \in Borran => pr'[q].op = "LD"
             /\ pr'[q].op = "LU" /\ pr'[q].pc \in Desligan \cup {"escribe"} =>
                   Suyo(pr'[q]) # 0 /\ de'[Suyo(pr'[q])] = q
  <2>1. CASE q # p
    BY <2>1 DEF Propios
  <2>2. CASE q = p
    BY <2>2, <1>0 DEF Propios
  <2> QED BY <2>1, <2>2
<1> QED BY <1>3, <1>4, <1>5, <1>6 DEF Propios

\* The movements of the principal, and the one that is unlinked, are the process's own.
LEMMA MiosSon ==
    ASSUME Tipos, Propios, NEW p \in Procs
    PROVE  De(de, pr[p].r) \cup Toca(pr[p]) \subseteq Mios(p)
<1>1. De(de, pr[p].r) \subseteq Mios(p)
  BY DEF De, Mios
<1>2. ASSUME NEW y \in Toca(pr[p]) PROVE y \in Mios(p)
  <2>1. y \in Movs /\ y = Suyo(pr[p])
        /\ (pr[p].pc \in Desligan \/ (pr[p].pc = "escribe" /\ pr[p].op = "LU"))
    BY TocaMovs DEF Toca
  <2>2. CASE pr[p].op = "LU"
    <3>1. de[y] = p
      BY <2>1, <2>2 DEF Propios
    <3> QED BY <2>1, <3>1 DEF Mios
  <2>3. CASE pr[p].op # "LU"
    <3>1. Borrando(p)
      BY <2>1, <2>3 DEF Propios, Borrando
    <3>2. de[y] = Nadie /\ \A q \in Procs \ {p} : Borrando(q) => Suyo(pr[q]) # y
      BY <2>1, <3>1 DEF Propios
    <3> QED BY <2>1, <3>2 DEF Mios
  <2> QED BY <2>2, <2>3
<1> QED BY <1>1, <1>2

\* The place q is one that an instruction goes to from place c.
Despues_de(c, q) ==
    /\ q.pc \in Agregan => c.pc \in Agregan
    /\ q.pc \in Ligan \cup Solos \cup {"L_ult4", "L_fin"} =>
           c.pc \in Ligan \cup Solos \cup {"L_ult4"}
    /\ q.pc \in Desligan => c.pc \in Desligan
    /\ q.pc \in Borran => c.op = "LD"
    /\ q.pc \in Desligan => (q.pc = "D_inicio" <=> c.pc = "D_inicio")
    /\ q.pc = "escribe" => c.pc \in Desligan \/ c.op # "LU"
    /\ Suyo(q) = Suyo(c) \/ q.pc \notin Desligan \cup {"escribe"}

\* A step inside an instruction that writes only records of its own.
LEMMA PasoInv ==
    ASSUME NEW f \in [Movs -> Nat], NEW f2 \in [Movs -> Nat], Inv(f),
           NEW p \in Procs, Activo(p), NEW q \in RegR, pr' = [pr EXCEPT ![p] = q],
           q.r = pr[p].r, q.op = pr[p].op \/ q.pc \in {"libre", "muerto"},
           Despues_de(pr[p], q),
           blo' = blo, de' = de, fin' = fin, libre' \in Pos0,
           padre' \in [Padres -> RegP], \A r \in Padres \ {q.r} : padre'[r] = padre[r],
           mov' \in [Movs -> RegM], \A y \in Movs : mov'[y].borrado = mov[y].borrado,
           \A y \in Movs \ Mios(p) : mov'[y] = mov[y] /\ f2[y] = f[y],
           q.pc \in ConCab => cab' = p,
           cab' = cab \/ cab = Nadie \/ cab = p,
           Forma(q, padre'[q.r], De(de, q.r), mov', f2),
           q.pc = "libre" => Cadena(padre'[q.r], mov', De(de, q.r), f2)
    PROVE  Inv(f2)'
<1>0. Tipos /\ Turno /\ Propios
  BY DEF Inv
<1>1. Tipos'
  BY <1>0 DEF Tipos
<1>2. pr'[p] = q /\ \A q2 \in Procs \ {p} : pr'[q2] = pr[q2]
  BY <1>0 DEF Tipos
<1>3. Turno'
  BY <1>0, <1>2, PasoTurno
<1>4. Propios'
  BY <1>0, <1>2, PasoPropios DEF Despues_de
<1>5. \A y \in Mios(p) : de'[y] \in {pr[p].r, p, Nadie}
  BY DEF Mios
<1>6. Formas(f2)'
  BY <1>1, <1>2, <1>5, PasoFormas
<1> QED BY <1>1, <1>3, <1>4, <1>6 DEF Inv

\* A step that writes nothing.
LEMMA PasoLee ==
    ASSUME NEW f \in [Movs -> Nat], Inv(f),
           NEW p \in Procs, Activo(p), NEW q \in RegR, pr' = [pr EXCEPT ![p] = q],
           q.r = pr[p].r, q.op = pr[p].op \/ q.pc \in {"libre", "muerto"},
           Despues_de(pr[p], q),
           blo' = blo, de' = de, fin' = fin, libre' \in Pos0, padre' = padre, mov' = mov,
           q.pc \in ConCab => cab' = p,
           cab' = cab \/ cab = Nadie \/ cab = p,
           Forma(q, padre[q.r], De(de, q.r), mov, f),
           q.pc = "libre" => Cadena(padre[q.r], mov, De(de, q.r), f)
    PROVE  Inv(f)'
<1>1. padre \in [Padres -> RegP] /\ mov \in [Movs -> RegM]
  BY DEF Inv, Tipos
<1> QED BY <1>1, PasoInv

\* What the places of the instructions have.
LEMMA Tengo ==
    ASSUME NEW f \in [Movs -> Nat], Inv(f), NEW p \in Procs
    PROVE  /\ pr[p] \in RegR /\ pr[p].r \in Padres /\ padre[pr[p].r] \in RegP
           /\ mov \in [Movs -> RegM] /\ padre \in [Padres -> RegP] /\ libre \in Pos0
           /\ De(de, pr[p].r) \in SUBSET Movs
           /\ 0 \notin Movs /\ Movs \subseteq Pos0 /\ Movs = Pos0 \ {0}
           /\ Forma(pr[p], padre[pr[p].r], De(de, pr[p].r), mov, f)
           /\ pr[p].pc \in ConCab => cab = p
           /\ pr[p].pc \in Agregan => pr[p].op = "LN"
           /\ pr[p].pc \in Ligan \cup Solos \cup {"L_ult4", "L_fin"} =>
                  pr[p].op \in {"LN", "LL"}
           /\ pr[p].pc \in Desligan => pr[p].op \in {"LU", "LD"} /\ Suyo(pr[p]) \in Movs
           /\ pr[p].op = "LU" /\ pr[p].pc \in Desligan \cup {"escribe"} =>
                  Suyo(pr[p]) \in Movs
           /\ pr[p].pc \in Borran => pr[p].op = "LD"
<1>1. Tipos /\ Turno /\ Propios /\ Formas(f) /\ MaxMovs \in Nat
  BY ConstantesMovs DEF Inv, ConstantesMovs
<1>2. pr[p] \in RegR /\ pr[p].r \in Padres /\ padre[pr[p].r] \in RegP
      /\ mov \in [Movs -> RegM] /\ padre \in [Padres -> RegP] /\ libre \in Pos0
  BY <1>1 DEF Tipos, RegR
<1>3. De(de, pr[p].r) \in SUBSET Movs
  BY DEF De
<1>4. 0 \notin Movs /\ Movs \subseteq Pos0 /\ Movs = Pos0 \ {0}
  BY <1>1 DEF Movs, Pos0
<1>5. Suyo(pr[p]) \in Pos0
  BY <1>2 DEF Suyo, RegR
<1>6. Forma(pr[p], padre[pr[p].r], De(de, pr[p].r), mov, f)
  BY <1>1 DEF Formas
<1> QED BY <1>1, <1>2, <1>3, <1>4, <1>5, <1>6 DEF Propios, Turno

\* The buffers of the writes.
LEMMA Registros ==
    ASSUME NEW b \in RegM, NEW u \in Pos0, 0 \in Pos0
    PROVE  /\ AlFin(b, u) \in RegM
           /\ AlFin(b, u).pri = u /\ AlFin(b, u).ult = 0
           /\ AlFin(b, u).borrado = b.borrado /\ AlFin(b, u).sig = b.sig
           /\ [b EXCEPT !.ult = u] \in RegM
           /\ [b EXCEPT !.ult = u].pri = b.pri /\ [b EXCEPT !.ult = u].ult = u
           /\ [b EXCEPT !.ult = u].borrado = b.borrado /\ [b EXCEPT !.ult = u].sig = b.sig
           /\ [b EXCEPT !.pri = u] \in RegM
           /\ [b EXCEPT !.pri = u].pri = u /\ [b EXCEPT !.pri = u].ult = b.ult
           /\ [b EXCEPT !.pri = u].borrado = b.borrado /\ [b EXCEPT !.pri = u].sig = b.sig
  BY DEF RegM, AlFin

\* The links after the two neighbours of a movement are joined.
LEMMA Juntada ==
    ASSUME NEW mv \in [Movs -> RegM], NEW a, NEW z, NEW u \in Movs
    PROVE  /\ Junta(mv, a, z)[u].pri = IF u = z THEN a ELSE mv[u].pri
           /\ Junta(mv, a, z)[u].ult = IF u = a THEN z ELSE mv[u].ult
  BY DEF Junta, RegM

\* fuplock of the first record, in vdadd, vdlink, vdunlink and vddel.
LEMMA PasoTomaCab ==
    ASSUME NEW f \in [Movs -> Nat], Inv(f), NEW p \in Procs, UNCHANGED blo,
           \/ TomaCab(p, "A_cab", "A_saca")
           \/ TomaCab(p, "L_cab", "L_padre")
           \/ TomaCab(p, "U_cab", "U_padre")
           \/ TomaCab(p, "D_cab", "D_enlaza")
    PROVE  Inv(f)'
<1>0. PICK a \in {"A_saca", "L_padre", "U_padre", "D_enlaza"} :
        /\ <<pr[p].pc, a>> \in {<<"A_cab", "A_saca">>, <<"L_cab", "L_padre">>,
                                <<"U_cab", "U_padre">>, <<"D_cab", "D_enlaza">>}
        /\ pr' = [pr EXCEPT ![p] = [pr[p] EXCEPT !.pc = a]]
        /\ cab = Nadie /\ cab' = p /\ UNCHANGED <<archivos, de>>
  BY DEF TomaCab, En, Va
<1> DEFINE q == [pr[p] EXCEPT !.pc = a]
<1>1. q \in RegR /\ q.r = pr[p].r /\ q.op = pr[p].op /\ q.x = pr[p].x /\ q.pc = a
      /\ q.b1 = pr[p].b1
  BY Tengo DEF RegR, Pcs, ConCab
<1>2. Despues_de(pr[p], q)
  BY <1>0, <1>1, Tengo DEF Despues_de, Agregan, Ligan, Solos, Desligan, Leen, Juntan, Limpian,
     Borran, Suyo
<1>3. Forma(q, padre[q.r], De(de, q.r), mov, f)
  <2>1. Forma(pr[p], padre[q.r], De(de, q.r), mov, f)
    BY <1>1, Tengo
  <2>2. Suyo(q) = Suyo(pr[p])
    BY <1>0, <1>1 DEF Suyo
  <2> HIDE DEF q
  <2> QED BY <2>1, <2>2, <1>0, <1>1 DEF Forma, FormaLiga, FormaDesliga, FormaEntera, Ligan, Solos, Leen,
     Juntan, Limpian, Borran, Enteras, Agregan
<1>4. Activo(p) /\ q.pc # "libre"
  BY <1>0, <1>1 DEF Activo
<1> HIDE DEF q
<1>5. pr' = [pr EXCEPT ![p] = q] /\ libre' \in Pos0
  BY <1>0, Tengo DEF archivos, q
<1> QED BY <1>0, <1>1, <1>2, <1>3, <1>4, <1>5, PasoLee DEF archivos

\* vdlread of the principal: the buffer b1 is the record.
LEMMA PasoPadre ==
    ASSUME NEW f \in [Movs -> Nat], Inv(f), NEW p \in Procs, UNCHANGED blo,
           \/ Padre(p, "L_padre", [pr[p] EXCEPT !.pc = "L_mov", !.b1 = b1(p)])
           \/ Padre(p, "U_padre", [pr[p] EXCEPT !.pc = "U_mov", !.b1 = b1(p)])
    PROVE  Inv(f)'
<1>c. PICK c \in {"L_padre", "U_padre"}, a \in {"L_mov", "U_mov"} :
        /\ <<c, a>> \in {<<"L_padre", "L_mov">>, <<"U_padre", "U_mov">>}
        /\ Padre(p, c, [pr[p] EXCEPT !.pc = a, !.b1 = b1(p)])
  OBVIOUS
<1> DEFINE q == [pr[p] EXCEPT !.pc = a, !.b1 = b1(p)]
<1>0. /\ pr[p].pc = c /\ pr' = [pr EXCEPT ![p] = q]
      /\ UNCHANGED <<padre, mov, libre, fin, cab, de>>
  BY <1>c DEF Padre, En, Va, archivos
<1>1. q \in RegR /\ q.r = pr[p].r /\ q.op = pr[p].op /\ q.x = pr[p].x /\ q.pc = a
      /\ q.b1 = padre[q.r]
  BY <1>c, Tengo, ZenonT(40) DEF RegR, Pcs, ConCab, b1
<1> HIDE DEF q
<1>2. Despues_de(pr[p], q)
  BY <1>c, <1>0, <1>1, Tengo DEF Despues_de, Agregan, Ligan, Solos, Desligan, Leen, Juntan, Limpian,
     Borran, Suyo
<1>3. Forma(q, padre[q.r], De(de, q.r), mov, f)
  <2>1. Forma(pr[p], padre[q.r], De(de, q.r), mov, f)
    BY <1>1, Tengo
  <2>2. Suyo(q) = Suyo(pr[p])
    BY <1>c, <1>0, <1>1 DEF Suyo
  <2> QED BY <2>1, <2>2, <1>c, <1>0, <1>1 DEF Forma, FormaLiga, FormaDesliga, FormaEntera,
     Ligan, Solos, Leen, Juntan, Limpian, Borran, Enteras, Agregan
<1>4. Activo(p) /\ q.pc # "libre" /\ cab = p
  BY <1>c, <1>0, <1>1, Tengo DEF Activo, ConCab
<1> QED BY <1>c, <1>0, <1>1, <1>2, <1>3, <1>4, Tengo, PasoLee

\* vdlink reads the movement and makes the buffers of the links.
LEMMA PasoLMov ==
    ASSUME NEW f \in [Movs -> Nat], Inv(f), NEW p \in Procs, UNCHANGED blo,
           Mov(p, "L_mov",
               [pr[p] EXCEPT
                   !.pc = IF pr[p].b1.ult = 0 THEN "L_solo1" ELSE "L_ult1",
                   !.b1 = IF @.ult = 0 THEN [pri |-> pr[p].x, ult |-> pr[p].x] ELSE @,
                   !.b2 = [b2(p) EXCEPT !.pri = pr[p].b1.ult, !.ult = 0]])
    PROVE  Inv(f)'
<1> DEFINE q == [pr[p] EXCEPT
                   !.pc = IF pr[p].b1.ult = 0 THEN "L_solo1" ELSE "L_ult1",
                   !.b1 = IF @.ult = 0 THEN [pri |-> pr[p].x, ult |-> pr[p].x] ELSE @,
                   !.b2 = [b2(p) EXCEPT !.pri = pr[p].b1.ult, !.ult = 0]]
           P == padre[pr[p].r]  D == De(de, pr[p].r)
<1>0. /\ pr[p].pc = "L_mov" /\ pr' = [pr EXCEPT ![p] = q]
      /\ UNCHANGED <<padre, mov, libre, fin, cab, de>>
  BY DEF Mov, En, Va, archivos
<1>1. /\ Suyo(pr[p]) = pr[p].x /\ pr[p].x \in D /\ pr[p].x \in Movs
      /\ pr[p].b1 = P /\ P \in RegP /\ Cadena(P, mov, D \ {pr[p].x}, f)
  BY <1>0, Tengo DEF Forma, FormaLiga, Suyo, Ligan
<1>2. mov[pr[p].x] \in RegM /\ b2(p) = mov[pr[p].x]
  BY <1>1, Tengo DEF b2
<1>3. /\ q \in RegR /\ q.r = pr[p].r /\ q.op = pr[p].op /\ q.x = pr[p].x
      /\ q.pc = IF P.ult = 0 THEN "L_solo1" ELSE "L_ult1"
      /\ q.b1 = IF P.ult = 0 THEN [pri |-> q.x, ult |-> q.x] ELSE P
      /\ q.b2 = AlFin(mov[q.x], P.ult)
  <2> DEFINE b == AlFin(mov[pr[p].x], P.ult)
             w == IF P.ult = 0 THEN [pri |-> pr[p].x, ult |-> pr[p].x] ELSE P
             pc == IF P.ult = 0 THEN "L_solo1" ELSE "L_ult1"
  <2>1. P.ult \in Pos0 /\ 0 \in Pos0 /\ pr[p].x \in Pos0 /\ pr[p] \in RegR
    BY <1>1, Tengo, ConstantesMovs DEF RegP, Pos0, ConstantesMovs
  <2>2. b \in RegM /\ w \in RegP /\ pc \in Pcs
    BY <2>1, <1>1, <1>2, Registros DEF RegP, Pcs, ConCab
  <2>3. q = [pr[p] EXCEPT !.pc = pc, !.b1 = w, !.b2 = b]
    BY <2>1, <1>1, <1>2 DEF RegR, AlFin
  <2> HIDE DEF q, b, w, pc
  <2>4. /\ q \in RegR /\ q.r = pr[p].r /\ q.op = pr[p].op /\ q.x = pr[p].x
        /\ q.pc = pc /\ q.b1 = w /\ q.b2 = b
    BY <2>1, <2>2, <2>3 DEF RegR
  <2> QED BY <2>4 DEF b, w, pc
<1> HIDE DEF q
<1>4. Despues_de(pr[p], q)
  BY <1>0, <1>3 DEF Despues_de, Agregan, Ligan, Solos, Desligan, Leen, Juntan, Limpian,
     Borran, Suyo
<1>5. Forma(q, P, D, mov, f)
  <2>1. P.ult = 0 => D = {q.x}
    BY <1>1, <1>3 DEF Cadena
  <2>2. Suyo(q) = q.x
    BY <1>3 DEF Suyo
  <2> QED BY <2>1, <2>2, <1>1, <1>3 DEF Forma, FormaLiga, FormaDesliga, FormaEntera,
     Ligan, Solos, Leen, Juntan, Limpian, Borran, Enteras, Agregan
<1>6. Activo(p) /\ q.pc # "libre" /\ cab = p
  BY <1>0, <1>3, Tengo DEF Activo, ConCab
<1> QED BY <1>0, <1>3, <1>4, <1>5, <1>6, Tengo, PasoLee

\* vdlink reads the movement that was last.
LEMMA PasoLUlt2 ==
    ASSUME NEW f \in [Movs -> Nat], Inv(f), NEW p \in Procs, UNCHANGED blo,
           Mov(p, "L_ult2", Despues(p, b2(p)))
    PROVE  Inv(f)'
<1> DEFINE q == Despues(p, b2(p))
           P == padre[pr[p].r]  D == De(de, pr[p].r)  y == pr[p].lug
<1>0. /\ pr[p].pc = "L_ult2" /\ pr' = [pr EXCEPT ![p] = q]
      /\ UNCHANGED <<padre, mov, libre, fin, cab, de>>
  BY DEF Mov, En, Va, archivos
<1>1. /\ Suyo(pr[p]) = y /\ y \in D /\ pr[p].x = P.ult /\ P.ult # 0
      /\ pr[p].b1 = P /\ P \in RegP /\ Cadena(P, mov, D \ {y}, f)
      /\ mov[y].pri = P.ult /\ mov[y].ult = 0
  BY <1>0, Tengo DEF Forma, FormaLiga, Suyo, Ligan
<1>2. pr[p].x \in Movs /\ mov[pr[p].x] \in RegM /\ b2(p) = mov[pr[p].x]
  BY <1>1, Tengo DEF b2, RegP
<1>3. /\ q \in RegR /\ q.r = pr[p].r /\ q.op = pr[p].op /\ q.x = pr[p].x /\ q.lug = y
      /\ q.pc = "L_ult3" /\ q.b1 = P
      /\ q.b2 = [mov[q.x] EXCEPT !.ult = y]
  <2> DEFINE b == [mov[pr[p].x] EXCEPT !.ult = y]
  <2>1. 0 \in Pos0 /\ y \in Pos0 /\ pr[p] \in RegR
    BY Tengo, ConstantesMovs DEF Pos0, RegR, ConstantesMovs
  <2>2. b \in RegM /\ "L_ult3" \in Pcs
    BY <2>1, <1>2, Registros DEF Pcs, ConCab
  <2>3. q = [pr[p] EXCEPT !.pc = "L_ult3", !.b2 = b]
    BY <1>2 DEF Despues
  <2> HIDE DEF q, b
  <2>4. /\ q \in RegR /\ q.r = pr[p].r /\ q.op = pr[p].op /\ q.x = pr[p].x /\ q.lug = y
        /\ q.pc = "L_ult3" /\ q.b1 = pr[p].b1 /\ q.b2 = b
    BY <2>1, <2>2, <2>3 DEF RegR
  <2> QED BY <2>4, <1>1 DEF b
<1> HIDE DEF q
<1>4. Despues_de(pr[p], q)
  BY <1>0, <1>3 DEF Despues_de, Agregan, Ligan, Solos, Desligan, Leen, Juntan, Limpian,
     Borran, Suyo
<1>5. Forma(q, P, D, mov, f)
  <2>2. Suyo(q) = y
    BY <1>3 DEF Suyo
  <2> QED BY <2>2, <1>1, <1>3 DEF Forma, FormaLiga, FormaDesliga, FormaEntera,
     Ligan, Solos, Leen, Juntan, Limpian, Borran, Enteras, Agregan
<1>6. Activo(p) /\ q.pc # "libre" /\ cab = p
  BY <1>0, <1>3, Tengo DEF Activo, ConCab
<1> QED BY <1>0, <1>3, <1>4, <1>5, <1>6, Tengo, PasoLee

\* vdunlink reads the movement and goes for the one before it, if there is one.
LEMMA PasoUMov ==
    ASSUME NEW f \in [Movs -> Nat], Inv(f), NEW p \in Procs, UNCHANGED blo,
           Mov(p, "U_mov",
               ConAnter([pr[p] EXCEPT !.b2 = b2(p), !.anter = b2(p).pri,
                                      !.proxi = b2(p).ult, !.lug = pr[p].x]))
    PROVE  Inv(f)'
<1> DEFINE x == pr[p].x  a == mov[x].pri  z == mov[x].ult
           q == ConAnter([pr[p] EXCEPT !.b2 = b2(p), !.anter = b2(p).pri,
                                       !.proxi = b2(p).ult, !.lug = pr[p].x])
           P == padre[pr[p].r]  D == De(de, pr[p].r)
<1>0. /\ pr[p].pc = "U_mov" /\ pr' = [pr EXCEPT ![p] = q]
      /\ UNCHANGED <<padre, mov, libre, fin, cab, de>>
  BY DEF Mov, En, Va, archivos
<1>1. /\ Suyo(pr[p]) = x /\ x \in Movs
      /\ pr[p].b1 = P /\ P \in RegP /\ Cadena(P, mov, D \cup {x}, f)
  BY <1>0, Tengo DEF Forma, FormaDesliga, Suyo, Leen, Desligan
<1>2. mov[x] \in RegM /\ b2(p) = mov[x] /\ a \in Pos0 /\ z \in Pos0
  BY <1>1, Tengo DEF b2, RegM
<1>3. /\ q \in RegR /\ q.r = pr[p].r /\ q.op = pr[p].op /\ q.lug = x
      /\ q.anter = a /\ q.proxi = z /\ q.b2 = mov[x]
      /\ q.pc = IF a = 0 THEN "U_sig" ELSE "U_ant1"
      /\ q.x = IF a = 0 THEN x ELSE a
      /\ q.b1.pri = (IF a = 0 THEN z ELSE P.pri) /\ q.b1.ult = P.ult
  <2> DEFINE c == [pr[p] EXCEPT !.b2 = b2(p), !.anter = b2(p).pri,
                                !.proxi = b2(p).ult, !.lug = pr[p].x]
  <2>1. /\ c \in RegR /\ c.r = pr[p].r /\ c.op = pr[p].op /\ c.lug = x /\ c.anter = a
        /\ c.proxi = z /\ c.b2 = mov[x] /\ c.x = x /\ c.b1 = P
    BY <1>1, <1>2, Tengo DEF RegR
  <2>2. q = ConAnter(c) /\ "U_sig" \in Pcs /\ "U_ant1" \in Pcs
    BY DEF Pcs, ConCab
  <2> HIDE DEF c, q
  <2>3. CASE a = 0
    <3>1. q = [c EXCEPT !.pc = "U_sig", !.b1.pri = z]
      BY <2>1, <2>2, <2>3 DEF ConAnter
    <3>2. [P EXCEPT !.pri = z] \in RegP /\ [P EXCEPT !.pri = z].pri = z
          /\ [P EXCEPT !.pri = z].ult = P.ult
      BY <1>1, <1>2 DEF RegP
    <3>3. q = [c EXCEPT !.pc = "U_sig", !.b1 = [P EXCEPT !.pri = z]]
      BY <3>1, <2>1 DEF RegR
    <3> QED BY <2>1, <2>2, <2>3, <3>2, <3>3 DEF RegR
  <2>4. CASE a # 0
    <3>1. q = [c EXCEPT !.pc = "U_ant1", !.x = a]
      BY <2>1, <2>2, <2>4 DEF ConAnter
    <3> QED BY <2>1, <2>2, <2>4, <3>1, <1>2 DEF RegR
  <2> QED BY <2>3, <2>4
<1> HIDE DEF q
<1>4. Despues_de(pr[p], q)
  BY <1>0, <1>3, Tengo DEF Despues_de, Agregan, Ligan, Solos, Desligan, Leen, Juntan, Limpian,
     Borran, Suyo
<1>d. x \notin D
  <2>1. pr[p].op \in {"LU", "LD"} /\ (pr[p].op = "LD" => Borrando(p))
    BY <1>0, Tengo DEF Desligan, Leen, Borrando
  <2>2. de[x] \in {p, Nadie}
    BY <1>0, <1>1, <2>1 DEF Inv, Propios, Desligan, Leen
  <2>3. pr[p].r \in Padres /\ p \notin Padres /\ Nadie \notin Padres
    BY Tengo, ConstantesMovs DEF ConstantesMovs
  <2> QED BY <2>2, <2>3 DEF De
<1>5. Forma(q, P, D, mov, f)
  <2>2. Suyo(q) = x
    BY <1>3 DEF Suyo
  <2>3. (D \cup {x}) \ {x} = D /\ D \cup {x} \in SUBSET Movs
    BY <1>d, <1>1, Tengo
  <2>4. /\ a \in D \cup {0} /\ z \in D \cup {0}
        /\ Cadena(Final(P, a, z), Junta(mov, a, z), D, f)
    <3> DEFINE M == D \cup {x}
    <3>1. M \in SUBSET Movs /\ x \in M /\ Cadena(P, mov, M, f) /\ M \ {x} = D
      BY <1>1, <2>3
    <3> HIDE DEF M
    <3>2. /\ a \in (M \ {x}) \cup {0} /\ z \in (M \ {x}) \cup {0}
          /\ Cadena(Final(P, a, z), Junta(mov, a, z), M \ {x}, f)
      BY <3>1, <1>1, Tengo, Quitada
    <3> QED BY <3>1, <3>2
  <2>5. q.b1.pri = Final(P, a, z).pri
    BY <1>3 DEF Final
  <2> QED BY <2>2, <2>4, <2>5, <1>1, <1>3 DEF Forma, FormaLiga, FormaDesliga, FormaEntera,
     Ligan, Solos, Leen, Juntan, Limpian, Borran, Enteras, Agregan
<1>6. Activo(p) /\ q.pc # "libre" /\ cab = p
  BY <1>0, <1>3, Tengo DEF Activo, ConCab
<1> QED BY <1>0, <1>3, <1>4, <1>5, <1>6, Tengo, PasoLee

\* vdunlink reads the movement before.
LEMMA PasoUAnt1 ==
    ASSUME NEW f \in [Movs -> Nat], Inv(f), NEW p \in Procs, UNCHANGED blo,
           Mov(p, "U_ant1", [pr[p] EXCEPT !.pc = "U_ant2",
                                          !.b2 = [b2(p) EXCEPT !.ult = pr[p].proxi]])
    PROVE  Inv(f)'
<1> DEFINE b == [b2(p) EXCEPT !.ult = pr[p].proxi]
           q == [pr[p] EXCEPT !.pc = "U_ant2", !.b2 = b]
           P == padre[pr[p].r]  D == De(de, pr[p].r)
<1>0. /\ pr[p].pc = "U_ant1" /\ pr' = [pr EXCEPT ![p] = q]
      /\ UNCHANGED <<padre, mov, libre, fin, cab, de>>
  BY DEF Mov, En, Va, archivos
<1>1. pr[p].x = pr[p].anter /\ pr[p].anter \in D /\ pr[p].x \in Movs
  BY <1>0, Tengo DEF Forma, FormaDesliga, Juntan
<1>2. b \in RegM /\ "U_ant2" \in Pcs /\ pr[p] \in RegR
  <2>1. mov[pr[p].x] \in RegM /\ b2(p) = mov[pr[p].x] /\ pr[p].proxi \in Pos0 /\ 0 \in Pos0
    BY <1>1, Tengo, ConstantesMovs DEF b2, RegR, Pos0, ConstantesMovs
  <2> QED BY <2>1, Tengo, Registros DEF Pcs, ConCab
<1>3. b = [mov[pr[p].x] EXCEPT !.ult = pr[p].proxi]
  BY DEF b2
<1> HIDE DEF b
<1>4. /\ q \in RegR /\ q.r = pr[p].r /\ q.op = pr[p].op /\ q.x = pr[p].x
      /\ q.lug = pr[p].lug /\ q.anter = pr[p].anter /\ q.proxi = pr[p].proxi
      /\ q.pc = "U_ant2" /\ q.b1 = pr[p].b1 /\ q.b2 = b
  BY <1>2 DEF RegR
<1> HIDE DEF q
<1>5. Despues_de(pr[p], q)
  BY <1>0, <1>4, Tengo DEF Despues_de, Agregan, Ligan, Solos, Desligan, Leen, Juntan, Limpian,
     Borran, Suyo
<1>6. Forma(q, P, D, mov, f)
  <2>1. Forma(pr[p], P, D, mov, f)
    BY Tengo
  <2>2. Suyo(q) = Suyo(pr[p])
    BY <1>0, <1>4 DEF Suyo
  <2> QED BY <2>1, <2>2, <1>0, <1>3, <1>4 DEF Forma, FormaLiga, FormaDesliga, FormaEntera,
     Ligan, Solos, Leen, Juntan, Limpian, Borran, Enteras, Agregan
<1>7. Activo(p) /\ q.pc # "libre" /\ cab = p
  BY <1>0, <1>4, Tengo DEF Activo, ConCab
<1> QED BY <1>0, <1>4, <1>5, <1>6, <1>7, Tengo, PasoLee

\* vdunlink reads its own movement again.
LEMMA PasoUAnt3 ==
    ASSUME NEW f \in [Movs -> Nat], Inv(f), NEW p \in Procs, UNCHANGED blo,
           Mov(p, "U_ant3", [pr[p] EXCEPT !.pc = "U_sig", !.b2 = b2(p)])
    PROVE  Inv(f)'
<1> DEFINE b == b2(p)
           q == [pr[p] EXCEPT !.pc = "U_sig", !.b2 = b]
           P == padre[pr[p].r]  D == De(de, pr[p].r)
<1>0. /\ pr[p].pc = "U_ant3" /\ pr' = [pr EXCEPT ![p] = q]
      /\ UNCHANGED <<padre, mov, libre, fin, cab, de>>
  BY DEF Mov, En, Va, archivos
<1>1. Suyo(pr[p]) = pr[p].x /\ pr[p].x \in Movs /\ mov[pr[p].x].pri = pr[p].anter
  BY <1>0, Tengo DEF Forma, FormaDesliga, Juntan, Desligan, Suyo
<1>2. b \in RegM /\ "U_sig" \in Pcs /\ pr[p] \in RegR /\ b.pri = pr[p].anter
  BY <1>1, Tengo DEF b2, Pcs, ConCab
<1> HIDE DEF b
<1>4. /\ q \in RegR /\ q.r = pr[p].r /\ q.op = pr[p].op /\ q.x = pr[p].x
      /\ q.lug = pr[p].lug /\ q.anter = pr[p].anter /\ q.proxi = pr[p].proxi
      /\ q.pc = "U_sig" /\ q.b1 = pr[p].b1 /\ q.b2 = b
  BY <1>2 DEF RegR
<1> HIDE DEF q
<1>5. Despues_de(pr[p], q)
  BY <1>0, <1>4, Tengo DEF Despues_de, Agregan, Ligan, Solos, Desligan, Leen, Juntan, Limpian,
     Borran, Suyo
<1>6. Forma(q, P, D, mov, f)
  <2>1. Forma(pr[p], P, D, mov, f)
    BY Tengo
  <2>2. Suyo(q) = Suyo(pr[p])
    BY <1>0, <1>4 DEF Suyo
  <2> QED BY <2>1, <2>2, <1>0, <1>2, <1>4 DEF Forma, FormaLiga, FormaDesliga, FormaEntera,
     Ligan, Solos, Leen, Juntan, Limpian, Borran, Enteras, Agregan
<1>7. Activo(p) /\ q.pc # "libre" /\ cab = p
  BY <1>0, <1>4, Tengo DEF Activo, ConCab
<1> QED BY <1>0, <1>4, <1>5, <1>6, <1>7, Tengo, PasoLee

\* vdunlink goes for the movement after, or for the principal's last one.
LEMMA PasoUSig ==
    ASSUME NEW f \in [Movs -> Nat], Inv(f), NEW p \in Procs, UNCHANGED blo,
           En(p, "U_sig"), Va(p, ConProxi(pr[p])), UNCHANGED <<archivos, candados, de>>
    PROVE  Inv(f)'
<1> DEFINE q == ConProxi(pr[p])
           P == padre[pr[p].r]  D == De(de, pr[p].r)
           F == Final(P, pr[p].anter, pr[p].proxi)
<1>0. /\ pr[p].pc = "U_sig" /\ pr' = [pr EXCEPT ![p] = q]
      /\ UNCHANGED <<padre, mov, libre, fin, cab, de>>
  BY DEF En, Va, archivos, candados
<1>1. /\ Suyo(pr[p]) = pr[p].x /\ pr[p] \in RegR /\ pr[p].b1 \in RegP
      /\ pr[p].b1.pri = F.pri /\ pr[p].b1.ult = P.ult /\ pr[p].b2.pri = pr[p].anter
      /\ pr[p].anter \in Pos0 /\ pr[p].proxi \in Pos0
      /\ pr[p].anter \in D \cup {0} /\ pr[p].proxi \in D \cup {0} /\ pr[p].lug = pr[p].x
  BY <1>0, Tengo DEF Forma, FormaDesliga, Juntan, Suyo, RegR
<1>2. "U_sig1" \in Pcs /\ "U_fin1" \in Pcs
  BY DEF Pcs, ConCab
<1>3. F.ult = (IF pr[p].proxi = 0 THEN pr[p].anter ELSE P.ult) /\ F = [pri |-> F.pri, ult |-> F.ult]
  BY DEF Final
<1>p. Suyo(pr[p]) \in Movs
  BY <1>0, Tengo DEF Desligan, Juntan
<1> HIDE DEF F
<1>4. /\ q \in RegR /\ q.r = pr[p].r /\ q.op = pr[p].op
      /\ q.lug = pr[p].lug /\ q.anter = pr[p].anter /\ q.proxi = pr[p].proxi
      /\ q.pc = (IF pr[p].proxi = 0 THEN "U_fin1" ELSE "U_sig1")
      /\ (pr[p].proxi # 0 => q.x = pr[p].proxi) /\ q.b1 = F /\ q.b2 = pr[p].b2
  <2>1. CASE pr[p].proxi = 0
    <3>1. q = [pr[p] EXCEPT !.pc = "U_fin1", !.b1 = [pr[p].b1 EXCEPT !.ult = pr[p].anter]]
      BY <2>1, <1>1 DEF ConProxi, RegR
    <3>2. [pr[p].b1 EXCEPT !.ult = pr[p].anter] = F
          /\ [pr[p].b1 EXCEPT !.ult = pr[p].anter] \in RegP
      BY <2>1, <1>1, <1>3 DEF RegP
    <3> HIDE DEF q
    <3> QED BY <2>1, <3>1, <3>2, <1>1, <1>2 DEF RegR
  <2>2. CASE pr[p].proxi # 0
    <3>1. q = [pr[p] EXCEPT !.pc = "U_sig1", !.x = pr[p].proxi]
      BY <2>2 DEF ConProxi
    <3>2. pr[p].b1 = F
      BY <2>2, <1>1, <1>3 DEF RegP
    <3> HIDE DEF q
    <3> QED BY <2>2, <3>1, <3>2, <1>1, <1>2 DEF RegR
  <2> QED BY <2>1, <2>2
<1> HIDE DEF q
<1>u. Suyo(q) = Suyo(pr[p])
  BY <1>1, <1>4 DEF Suyo
<1>5. Despues_de(pr[p], q)
  BY <1>0, <1>4, <1>u, Tengo DEF Despues_de, Agregan, Ligan, Solos, Desligan, Leen, Juntan,
     Limpian, Borran
<1>6. Forma(q, P, D, mov, f)
  <2>1. Forma(pr[p], P, D, mov, f)
    BY Tengo
  <2> QED BY <2>1, <1>u, <1>0, <1>1, <1>4 DEF Forma, FormaLiga, FormaDesliga, FormaEntera,
     Ligan, Solos, Leen, Juntan, Limpian, Borran, Enteras, Agregan, F
<1>7. Activo(p) /\ q.pc # "libre" /\ cab = p
  BY <1>0, <1>4, Tengo DEF Activo, ConCab
<1> QED BY <1>0, <1>4, <1>5, <1>6, <1>7, Tengo, PasoLee

\* vdunlink reads the movement after.
LEMMA PasoUSig1 ==
    ASSUME NEW f \in [Movs -> Nat], Inv(f), NEW p \in Procs, UNCHANGED blo,
           Mov(p, "U_sig1", [pr[p] EXCEPT !.pc = "U_sig2",
                                          !.b2 = [b2(p) EXCEPT !.pri = pr[p].anter]])
    PROVE  Inv(f)'
<1> DEFINE b == [b2(p) EXCEPT !.pri = pr[p].anter]
           q == [pr[p] EXCEPT !.pc = "U_sig2", !.b2 = b]
           P == padre[pr[p].r]  D == De(de, pr[p].r)
<1>0. /\ pr[p].pc = "U_sig1" /\ pr' = [pr EXCEPT ![p] = q]
      /\ UNCHANGED <<padre, mov, libre, fin, cab, de>>
  BY DEF Mov, En, Va, archivos
<1>1. pr[p].x = pr[p].proxi /\ pr[p].proxi \in D /\ pr[p].x \in Movs
  BY <1>0, Tengo DEF Forma, FormaDesliga, Juntan
<1>2. b \in RegM /\ "U_sig2" \in Pcs /\ pr[p] \in RegR
  <2>1. mov[pr[p].x] \in RegM /\ b2(p) = mov[pr[p].x] /\ pr[p].anter \in Pos0 /\ 0 \in Pos0
    BY <1>1, Tengo, ConstantesMovs DEF b2, RegR, Pos0, ConstantesMovs
  <2> QED BY <2>1, Tengo, Registros DEF Pcs, ConCab
<1>3. b = [mov[pr[p].x] EXCEPT !.pri = pr[p].anter]
  BY DEF b2
<1> HIDE DEF b
<1>4. /\ q \in RegR /\ q.r = pr[p].r /\ q.op = pr[p].op /\ q.x = pr[p].x
      /\ q.lug = pr[p].lug /\ q.anter = pr[p].anter /\ q.proxi = pr[p].proxi
      /\ q.pc = "U_sig2" /\ q.b1 = pr[p].b1 /\ q.b2 = b
  BY <1>2 DEF RegR
<1> HIDE DEF q
<1>5. Despues_de(pr[p], q)
  BY <1>0, <1>4, Tengo DEF Despues_de, Agregan, Ligan, Solos, Desligan, Leen, Juntan, Limpian,
     Borran, Suyo
<1>6. Forma(q, P, D, mov, f)
  <2>1. Forma(pr[p], P, D, mov, f)
    BY Tengo
  <2>2. Suyo(q) = Suyo(pr[p])
    BY <1>0, <1>4 DEF Suyo
  <2> QED BY <2>1, <2>2, <1>0, <1>3, <1>4 DEF Forma, FormaLiga, FormaDesliga, FormaEntera,
     Ligan, Solos, Leen, Juntan, Limpian, Borran, Enteras, Agregan
<1>7. Activo(p) /\ q.pc # "libre" /\ cab = p
  BY <1>0, <1>4, Tengo DEF Activo, ConCab
<1> QED BY <1>0, <1>4, <1>5, <1>6, <1>7, Tengo, PasoLee

\* vdunlink lets go of the first record and reads its movement with the links cleared.
LEMMA PasoUFin2 ==
    ASSUME NEW f \in [Movs -> Nat], Inv(f), NEW p \in Procs, UNCHANGED blo,
           En(p, "U_fin2"), cab' = CabezaLibre(p),
           Va(p, [pr[p] EXCEPT !.pc = "U_fin3",
                               !.b2 = [mov[pr[p].x] EXCEPT !.pri = 0, !.ult = 0]]),
           UNCHANGED <<archivos, candP, de>>
    PROVE  Inv(f)'
<1> DEFINE b == [mov[pr[p].x] EXCEPT !.pri = 0, !.ult = 0]
           q == [pr[p] EXCEPT !.pc = "U_fin3", !.b2 = b]
           P == padre[pr[p].r]  D == De(de, pr[p].r)
<1>0. /\ pr[p].pc = "U_fin2" /\ pr' = [pr EXCEPT ![p] = q]
      /\ UNCHANGED <<padre, mov, libre, fin, de>>
  BY DEF En, Va, archivos
<1>1. pr[p].x = Suyo(pr[p]) /\ pr[p].x \in Movs
  BY <1>0, Tengo DEF Limpian, Desligan, Suyo
<1>2. b \in RegM /\ "U_fin3" \in Pcs /\ pr[p] \in RegR /\ b = AlFin(mov[pr[p].x], 0)
  <2>1. mov[pr[p].x] \in RegM /\ 0 \in Pos0
    BY <1>1, Tengo, ConstantesMovs DEF Pos0, ConstantesMovs
  <2>2. b = AlFin(mov[pr[p].x], 0)
    BY DEF AlFin
  <2> QED BY <2>1, <2>2, Tengo, Registros DEF Pcs, Desligan, Limpian
<1> HIDE DEF b
<1>4. /\ q \in RegR /\ q.r = pr[p].r /\ q.op = pr[p].op /\ q.x = pr[p].x
      /\ q.pc = "U_fin3" /\ q.b1 = pr[p].b1 /\ q.b2 = b
  BY <1>2 DEF RegR
<1> HIDE DEF q
<1>u. Suyo(q) = Suyo(pr[p])
  BY <1>0, <1>4 DEF Suyo
<1>5. Despues_de(pr[p], q)
  BY <1>0, <1>4, <1>u, Tengo DEF Despues_de, Agregan, Ligan, Solos, Desligan, Leen, Juntan,
     Limpian, Borran
<1>6. Forma(q, P, D, mov, f)
  <2>1. Forma(pr[p], P, D, mov, f)
    BY Tengo
  <2> QED BY <2>1, <1>u, <1>0, <1>1, <1>2, <1>4 DEF Forma, FormaLiga, FormaDesliga, FormaEntera,
     Ligan, Solos, Leen, Juntan, Limpian, Borran, Enteras, Agregan
<1>7. Activo(p) /\ q.pc # "libre" /\ cab = p /\ q.pc \notin ConCab
  BY <1>0, <1>4, Tengo DEF Activo, ConCab
<1> QED BY <1>0, <1>4, <1>5, <1>6, <1>7, Tengo, PasoLee

\* vdlink ends.
LEMMA PasoLFin ==
    ASSUME NEW f \in [Movs -> Nat], Inv(f), NEW p \in Procs, UNCHANGED blo, Liga3(p)
    PROVE  Inv(f)'
<1> DEFINE b == mov[pr[p].x]
           q == [pr[p] EXCEPT !.pc = "escribe", !.b2 = b]
           P == padre[pr[p].r]  D == De(de, pr[p].r)
<1>0. /\ pr[p].pc = "L_fin" /\ pr' = [pr EXCEPT ![p] = q]
      /\ UNCHANGED <<padre, mov, libre, fin, de>>
  BY DEF Liga3, En, Va, archivos
<1>1. pr[p].x = Suyo(pr[p]) /\ pr[p].x \in D /\ pr[p].x \in Movs
  BY <1>0, Tengo DEF Forma, FormaEntera, Suyo
<1>2. b \in RegM /\ "escribe" \in Pcs /\ pr[p] \in RegR
  BY <1>1, Tengo DEF Pcs
<1> HIDE DEF b
<1>4. /\ q \in RegR /\ q.r = pr[p].r /\ q.op = pr[p].op /\ q.x = pr[p].x
      /\ q.pc = "escribe" /\ q.b1 = pr[p].b1 /\ q.b2 = b
  BY <1>2 DEF RegR
<1> HIDE DEF q
<1>u. Suyo(q) = Suyo(pr[p])
  BY <1>0, <1>4 DEF Suyo
<1>5. Despues_de(pr[p], q)
  BY <1>0, <1>4, <1>u, Tengo DEF Despues_de, Agregan, Ligan, Solos, Desligan, Leen, Juntan,
     Limpian, Borran
<1>6. Forma(q, P, D, mov, f)
  <2>1. Forma(pr[p], P, D, mov, f)
    BY Tengo
  <2> QED BY <2>1, <1>u, <1>0, <1>1, <1>4 DEF Forma, FormaLiga, FormaDesliga, FormaEntera,
     Ligan, Solos, Leen, Juntan, Limpian, Borran, Enteras, Agregan, b
<1>7. Activo(p) /\ q.pc # "libre" /\ cab = p /\ q.pc \notin ConCab
  BY <1>0, <1>4, Tengo DEF Activo, ConCab
<1> QED BY <1>0, <1>4, <1>5, <1>6, <1>7, Tengo, PasoLee

\* movfrsp takes the first of the free list: no chain has it.
LEMMA PasoSaca ==
    ASSUME NEW f \in [Movs -> Nat], Inv(f), NEW p \in Procs, UNCHANGED blo, SacaLibre(p)
    PROVE  Inv(f)'
<1> DEFINE x == IF libre = 0 THEN fin + 1 ELSE libre
           q == [pr[p] EXCEPT !.pc = "A_escribe", !.x = x]
           P == padre[pr[p].r]  D == De(de, pr[p].r)
<1>0. /\ pr[p].pc = "A_saca" /\ pr' = [pr EXCEPT ![p] = q] /\ x <= MaxMovs
      /\ libre' = IF libre = 0 THEN 0 ELSE mov[libre].sig
      /\ UNCHANGED <<padre, mov, fin, cab, de>>
  BY DEF SacaLibre, SiguienteLibre, En, Va, candados
<1>1. libre \in Pos0 /\ fin \in Pos0 /\ MaxMovs \in Nat /\ mov \in [Movs -> RegM]
  BY ConstantesMovs DEF Inv, Tipos, ConstantesMovs
<1>2. x \in Pos0 /\ libre' \in Pos0 /\ "A_escribe" \in Pcs /\ pr[p] \in RegR
  <2>1. libre # 0 => libre \in Movs
    BY <1>1, Tengo
  <2>2. libre # 0 => mov[libre].sig \in Pos0
    BY <1>1, <2>1 DEF RegM
  <2> QED BY <1>0, <1>1, <2>2, Tengo DEF Pos0, Pcs, ConCab
<1> HIDE DEF x
<1>4. /\ q \in RegR /\ q.r = pr[p].r /\ q.op = pr[p].op /\ q.x = x
      /\ q.pc = "A_escribe" /\ q.b1 = pr[p].b1
  BY <1>2 DEF RegR
<1> HIDE DEF q
<1>5. Despues_de(pr[p], q)
  BY <1>0, <1>4 DEF Despues_de, Agregan, Ligan, Solos, Desligan, Leen, Juntan,
     Limpian, Borran
<1>6. Forma(q, P, D, mov, f)
  <2>1. Forma(pr[p], P, D, mov, f)
    BY Tengo
  <2> QED BY <2>1, <1>0, <1>4 DEF Forma, FormaLiga, FormaDesliga, FormaEntera,
     Ligan, Solos, Leen, Juntan, Limpian, Borran, Enteras, Agregan
<1>7. Activo(p) /\ q.pc # "libre" /\ cab = p
  BY <1>0, <1>4, Tengo DEF Activo, ConCab
<1> QED BY <1>0, <1>2, <1>4, <1>5, <1>6, <1>7, Tengo, PasoLee

\* The instruction ends without writing, or writes a buffer that is still what the record
\* has: no process has written to it since.
LEMMA PasoEscribe ==
    ASSUME NEW f \in [Movs -> Nat], Inv(f), NEW p \in Procs, UNCHANGED blo, Escribe(p)
    PROVE  Inv(f)' /\ mov' = mov /\ padre' = padre /\ UNCHANGED <<libre, fin>>
<1> DEFINE q == Ocioso(pr[p].r)  P == padre[pr[p].r]  D == De(de, pr[p].r)
<1>0. /\ pr[p].pc = "escribe" /\ pr' = [pr EXCEPT ![p] = q]
      /\ UNCHANGED <<libre, fin, cab, de>>
      /\ padre' = padre \/ padre' = [padre EXCEPT ![pr[p].r] = pr[p].b1]
      /\ mov' = mov \/ (EnSuLugar(p) /\ mov' = [mov EXCEPT ![pr[p].x] = pr[p].b2])
  BY DEF Escribe, EscribePadre, EscribeMov, En, Va, archivos, candados
<1>1. Cadena(P, mov, D, f) /\ pr[p].b1 = P /\ (pr[p].op # "LD" => pr[p].b2 = mov[pr[p].x])
  BY <1>0, Tengo DEF Forma, FormaEntera, Enteras, Agregan
<1>2. padre' = padre /\ mov' = mov
  BY <1>0, <1>1, Tengo DEF EnSuLugar
<1>3. Cero \in RegP /\ Vacio \in RegM /\ 0 \in Pos0
  BY ConstantesMovs DEF Cero, Vacio, RegP, RegM, Pos0, ConstantesMovs
<1>4. q.r = pr[p].r /\ q.pc = "libre" /\ q \in RegR
  BY <1>3, Tengo DEF Ocioso, Pcs, Ops, RegR
<1> HIDE DEF q
<1>5. Despues_de(pr[p], q)
  BY <1>0, <1>4 DEF Despues_de, Agregan, Ligan, Solos, Desligan, Leen, Juntan, Limpian, Borran
<1>6. Forma(q, P, D, mov, f)
  BY <1>4, FormaOciosa
<1>7. Activo(p) /\ q.pc \notin ConCab
  BY <1>0, <1>4 DEF Activo, ConCab
<1>8. Inv(f)'
  BY <1>0, <1>1, <1>2, <1>4, <1>5, <1>6, <1>7, Tengo, PasoLee
<1> QED BY <1>0, <1>2, <1>8

\* The places where a movement is written, and what the buffer has: the record as it is,
\* but for its links.
\* The places that write a movement.
EscribenMov == {"L_solo2", "L_ult1", "L_ult3", "U_ant2", "U_sig2", "U_fin3"}
\* What an instruction is about to write is a record of its own, with the mark and the
\* link of the free list that the record has: no write loses a deletion.
LEMMA BufferFiel ==
    ASSUME NEW f \in [Movs -> Nat], Inv(f), NEW p \in Procs, pr[p].pc \in EscribenMov
    PROVE  LET x == pr[p].x  b == pr[p].b2
           IN  /\ x \in Movs /\ x \in Mios(p) /\ b \in RegM
               /\ b.borrado = mov[x].borrado /\ b.sig = mov[x].sig
<1> DEFINE q == pr[p]  P == padre[q.r]  D == De(de, q.r)  y == Suyo(q)
<1>0. /\ Forma(q, P, D, mov, f) /\ D \subseteq Movs /\ q \in RegR /\ P \in RegP
      /\ mov \in [Movs -> RegM] /\ 0 \in Pos0 /\ 0 \notin Movs
      /\ (q.pc \in Desligan => y \in Movs)
  BY Tengo, ConstantesMovs DEF Pos0, ConstantesMovs
<1>1. D \cup Toca(q) \subseteq Mios(p) /\ (q.pc \in Desligan => y \in Mios(p))
  BY MiosSon DEF Inv, Toca
<1>2. q.x \in Mios(p) /\ q.x \in Movs
  <2>1. CASE q.pc \in {"L_solo2", "L_ult1"}
    <3>1. q.x \in D
      BY <1>0, <2>1 DEF Forma, FormaLiga, Ligan, Solos, Suyo
    <3> QED BY <3>1, <1>0, <1>1
  <2>2. CASE q.pc = "L_ult3"
    <3>1. q.x = P.ult /\ P.ult # 0 /\ Cadena(P, mov, D \ {y}, f)
      BY <1>0, <2>2 DEF Forma, FormaLiga, Ligan
    <3>2. q.x \in D
      BY <3>1 DEF Cadena
    <3> QED BY <3>2, <1>0, <1>1
  <2>3. CASE q.pc \in {"U_ant2", "U_sig2"}
    <3>1. q.x \in D
      BY <1>0, <2>3 DEF Forma, FormaDesliga, Juntan
    <3> QED BY <3>1, <1>0, <1>1
  <2>4. CASE q.pc = "U_fin3"
    <3>1. q.x = y /\ q.pc \in Desligan
      BY <2>4 DEF Suyo, Desligan, Limpian
    <3> QED BY <3>1, <1>0, <1>1
  <2> QED BY <2>1, <2>2, <2>3, <2>4 DEF EscribenMov
<1>3. q.b2 \in RegM /\ mov[q.x] \in RegM /\ q.proxi \in Pos0 /\ q.anter \in Pos0
      /\ y \in Pos0 /\ P.ult \in Pos0
  BY <1>0, <1>2 DEF RegR, RegP, Suyo
<1>4. \E u \in Pos0 : q.b2 \in {AlFin(mov[q.x], u), [mov[q.x] EXCEPT !.ult = u],
                                [mov[q.x] EXCEPT !.pri = u]}
  <2>1. CASE q.pc \in {"L_solo2", "L_ult1", "L_ult3"}
    <3>1. q.b2 \in {AlFin(mov[q.x], 0), AlFin(mov[q.x], P.ult), [mov[q.x] EXCEPT !.ult = y]}
      BY <1>0, <2>1 DEF Forma, FormaLiga, Solos, Suyo
    <3> QED BY <3>1, <1>0, <1>3
  <2>2. CASE q.pc \in {"U_ant2", "U_sig2"}
    <3>1. q.b2 \in {[mov[q.x] EXCEPT !.ult = q.proxi], [mov[q.x] EXCEPT !.pri = q.anter]}
      BY <1>0, <2>2 DEF Forma, FormaDesliga
    <3> QED BY <3>1, <1>3
  <2>3. CASE q.pc = "U_fin3"
    <3>1. q.b2 = AlFin(mov[q.x], 0)
      BY <1>0, <2>3 DEF Forma, FormaEntera, Suyo
    <3> QED BY <3>1, <1>0
  <2> QED BY <2>1, <2>2, <2>3 DEF EscribenMov
<1>5. q.b2.borrado = mov[q.x].borrado /\ q.b2.sig = mov[q.x].sig
  <2>1. PICK u \in Pos0 : q.b2 \in {AlFin(mov[q.x], u), [mov[q.x] EXCEPT !.ult = u],
                                    [mov[q.x] EXCEPT !.pri = u]}
    BY <1>4
  <2> DEFINE m == mov[q.x]
  <2>2. /\ AlFin(m, u).borrado = m.borrado /\ AlFin(m, u).sig = m.sig
        /\ [m EXCEPT !.ult = u].borrado = m.borrado /\ [m EXCEPT !.ult = u].sig = m.sig
        /\ [m EXCEPT !.pri = u].borrado = m.borrado /\ [m EXCEPT !.pri = u].sig = m.sig
    <3>1. m \in RegM /\ 0 \in Pos0
      BY <1>0, <1>3
    <3> HIDE DEF m
    <3> QED BY <3>1, Registros
  <2> QED BY <2>1, <2>2
<1> QED BY <1>2, <1>3, <1>5

\* A write of a movement, and one of the principal.
LEMMA PasoMov ==
    ASSUME NEW f \in [Movs -> Nat], NEW f2 \in [Movs -> Nat], Inv(f), NEW p \in Procs,
           pr[p].pc \in EscribenMov, NEW c, NEW q \in RegR, EscribeMov(p, c, q),
           UNCHANGED blo, \A y \in Movs \ Mios(p) : f2[y] = f[y],
           q.r = pr[p].r, q.op = pr[p].op, Despues_de(pr[p], q), q.pc # "libre",
           q.pc \in ConCab => pr[p].pc \in ConCab,
           Forma(q, padre[q.r], De(de, q.r), [mov EXCEPT ![pr[p].x] = pr[p].b2], f2)
    PROVE  Inv(f2)' /\ UNCHANGED <<libre, fin>>
           /\ \A y \in Movs : mov'[y].borrado = mov[y].borrado /\ mov'[y].sig = mov[y].sig
<1> DEFINE x == pr[p].x  b == pr[p].b2
<1>1. /\ mov' = [mov EXCEPT ![x] = b] /\ pr' = [pr EXCEPT ![p] = q]
      /\ UNCHANGED <<padre, libre, fin, cab, de>>
  BY DEF EscribeMov, Va
<1>2. /\ x \in Movs /\ x \in Mios(p) /\ b \in RegM
      /\ b.borrado = mov[x].borrado /\ b.sig = mov[x].sig
  BY BufferFiel
<1>3. mov \in [Movs -> RegM] /\ padre \in [Padres -> RegP] /\ libre \in Pos0
      /\ (pr[p].pc \in ConCab => cab = p)
  BY Tengo
<1> HIDE DEF x, b
<1>4. /\ mov' \in [Movs -> RegM] /\ \A y \in Movs \ {x} : mov'[y] = mov[y]
      /\ mov'[x] = b
  BY <1>1, <1>2, <1>3
<1>5. \A y \in Movs : mov'[y].borrado = mov[y].borrado /\ mov'[y].sig = mov[y].sig
  BY <1>2, <1>4
<1>6. \A y \in Movs \ Mios(p) : mov'[y] = mov[y] /\ f2[y] = f[y]
  BY <1>2, <1>4
<1>7. Activo(p)
  BY DEF Activo, EscribenMov
<1>8. Forma(q, padre'[q.r], De(de, q.r), mov', f2)
  BY <1>1 DEF x, b
<1>9. Inv(f2)'
  BY <1>1, <1>3, <1>4, <1>5, <1>6, <1>7, <1>8, PasoInv
<1> QED BY <1>1, <1>5, <1>9

\* A write of the principal, which nobody else has.
LEMMA PasoPad ==
    ASSUME NEW f \in [Movs -> Nat], Inv(f), NEW p \in Procs, Activo(p),
           NEW c, NEW q \in RegR, EscribePadre(p, c, q), UNCHANGED blo,
           q.r = pr[p].r, q.op = pr[p].op, Despues_de(pr[p], q), q.pc # "libre",
           q.pc \in ConCab => pr[p].pc \in ConCab,
           Forma(q, pr[p].b1, De(de, q.r), mov, f)
    PROVE  Inv(f)' /\ UNCHANGED <<mov, libre, fin>>
<1>1. /\ padre' = [padre EXCEPT ![q.r] = pr[p].b1] /\ pr' = [pr EXCEPT ![p] = q]
      /\ UNCHANGED <<mov, libre, fin, cab, de>>
  BY DEF EscribePadre, Va
<1>2. /\ mov \in [Movs -> RegM] /\ padre \in [Padres -> RegP] /\ libre \in Pos0
      /\ (pr[p].pc \in ConCab => cab = p) /\ pr[p].b1 \in RegP /\ q.r \in Padres
  BY Tengo DEF RegR
<1>3. padre' \in [Padres -> RegP] /\ padre'[q.r] = pr[p].b1
      /\ \A r \in Padres \ {q.r} : padre'[r] = padre[r]
  BY <1>1, <1>2
<1>4. Inv(f)'
  BY <1>1, <1>2, <1>3, PasoInv
<1> QED BY <1>1, <1>4

\* The movement that is unlinked is not of the principal any more.
LEMMA NoDe ==
    ASSUME NEW f, Inv(f), NEW p \in Procs, pr[p].pc \in Desligan
    PROVE  Suyo(pr[p]) \notin De(de, pr[p].r)
<1>1. pr[p].op \in {"LU", "LD"} /\ (pr[p].op = "LD" => Borrando(p))
  BY DEF Inv, Propios, Borrando
<1>2. de[Suyo(pr[p])] \in {p, Nadie}
  BY <1>1 DEF Inv, Propios
<1>3. pr[p].r \in Padres /\ p \notin Padres /\ Nadie \notin Padres
  BY ConstantesMovs DEF ConstantesMovs, Inv, Tipos, RegR
<1> QED BY <1>2, <1>3 DEF De

\* vdlink of the only movement: the principal.
LEMMA PasoLSolo1 ==
    ASSUME NEW f \in [Movs -> Nat], Inv(f), NEW p \in Procs, UNCHANGED blo,
           EscribePadre(p, "L_solo1", [pr[p] EXCEPT !.pc = "L_solo2"])
    PROVE  Inv(f)' /\ UNCHANGED <<mov, libre, fin>>
<1> DEFINE q == [pr[p] EXCEPT !.pc = "L_solo2"]
<1>0. pr[p].pc = "L_solo1"
  BY DEF EscribePadre, En
<1>1. pr[p] \in RegR /\ "L_solo2" \in Pcs
  BY Tengo DEF Pcs, ConCab
<1>2. /\ q \in RegR /\ q.r = pr[p].r /\ q.op = pr[p].op /\ q.x = pr[p].x
      /\ q.pc = "L_solo2" /\ q.b1 = pr[p].b1 /\ q.b2 = pr[p].b2
  BY <1>1 DEF RegR
<1> HIDE DEF q
<1>u. Suyo(q) = q.x /\ Suyo(pr[p]) = q.x
  BY <1>0, <1>2 DEF Suyo
<1>3. Despues_de(pr[p], q)
  BY <1>0, <1>2, <1>u DEF Despues_de, Agregan, Ligan, Solos, Desligan, Leen, Juntan, Limpian,
     Borran
<1>4. Forma(q, pr[p].b1, De(de, q.r), mov, f)
  <2>1. Forma(pr[p], padre[q.r], De(de, q.r), mov, f)
    BY <1>2, Tengo
  <2> QED BY <2>1, <1>0, <1>2, <1>u DEF Forma, FormaLiga, FormaDesliga, FormaEntera,
     Ligan, Solos, Leen, Juntan, Limpian, Borran, Enteras, Agregan
<1>5. Activo(p) /\ q.pc # "libre" /\ pr[p].pc \in ConCab
  BY <1>0, <1>2 DEF Activo, ConCab
<1> QED BY <1>2, <1>3, <1>4, <1>5, PasoPad DEF q

\* vdlink of the only movement: the movement.
LEMMA PasoLSolo2 ==
    ASSUME NEW f \in [Movs -> Nat], Inv(f), NEW p \in Procs, UNCHANGED blo,
           EscribeMov(p, "L_solo2", [pr[p] EXCEPT !.pc = "L_fin"])
    PROVE  Inv(f)' /\ UNCHANGED <<libre, fin>>
           /\ \A y \in Movs : mov'[y].borrado = mov[y].borrado /\ mov'[y].sig = mov[y].sig
<1> DEFINE q == [pr[p] EXCEPT !.pc = "L_fin"]
           P == padre[pr[p].r]  D == De(de, pr[p].r)
           mv2 == [mov EXCEPT ![pr[p].x] = pr[p].b2]
<1>0. pr[p].pc = "L_solo2"
  BY DEF EscribeMov, En
<1>1. pr[p] \in RegR /\ "L_fin" \in Pcs
  BY Tengo DEF Pcs, ConCab
<1>2. /\ q \in RegR /\ q.r = pr[p].r /\ q.op = pr[p].op /\ q.x = pr[p].x
      /\ q.pc = "L_fin" /\ q.b1 = pr[p].b1 /\ q.b2 = pr[p].b2
  BY <1>1 DEF RegR
<1> HIDE DEF q
<1>u. Suyo(q) = q.x /\ Suyo(pr[p]) = q.x
  BY <1>0, <1>2 DEF Suyo
<1>3. Despues_de(pr[p], q)
  BY <1>0, <1>2, <1>u DEF Despues_de, Agregan, Ligan, Solos, Desligan, Leen, Juntan, Limpian,
     Borran
<1>m. /\ D = {q.x} /\ q.b1 = [pri |-> q.x, ult |-> q.x] /\ P = q.b1 /\ q.x \in Movs
      /\ q.b2 = AlFin(mov[q.x], 0) /\ mov \in [Movs -> RegM] /\ 0 \in Pos0
  <2>1. Forma(pr[p], P, D, mov, f) /\ D \subseteq Movs
    BY Tengo
  <2>2. 0 \in Pos0 /\ mov \in [Movs -> RegM]
    BY Tengo, ConstantesMovs DEF Pos0, ConstantesMovs
  <2> QED BY <2>1, <2>2, <1>0, <1>2, <1>u DEF Forma, FormaLiga, Solos
<1>4. Forma(q, P, D, mv2, f)
  <2>1. mv2[q.x].pri = 0 /\ mv2[q.x].ult = 0
    <3>1. mv2[q.x] = AlFin(mov[q.x], 0) /\ mov[q.x] \in RegM
      BY <1>m, <1>2
    <3> QED BY <3>1, <1>m DEF AlFin, RegM
  <2> HIDE DEF mv2
  <2>2. Cadena(P, mv2, D, f)
    BY <2>1, <1>m, Sola
  <2> QED BY <2>2, <1>m, <1>2, <1>u DEF Forma, FormaLiga, FormaDesliga, FormaEntera,
     Ligan, Solos, Leen, Juntan, Limpian, Borran, Enteras, Agregan
<1>5. q.pc # "libre" /\ pr[p].pc \in ConCab /\ pr[p].pc \in EscribenMov
  BY <1>0, <1>2 DEF ConCab, EscribenMov
<1> QED BY <1>2, <1>3, <1>4, <1>5, PasoMov DEF q

\* vdlink after the last: the new movement.
LEMMA PasoLUlt1 ==
    ASSUME NEW f \in [Movs -> Nat], Inv(f), NEW p \in Procs, UNCHANGED blo,
           EscribeMov(p, "L_ult1", [pr[p] EXCEPT !.pc = "L_ult2", !.lug = pr[p].x,
                                                 !.x = pr[p].b1.ult])
    PROVE  Inv(f)' /\ UNCHANGED <<libre, fin>>
           /\ \A y \in Movs : mov'[y].borrado = mov[y].borrado /\ mov'[y].sig = mov[y].sig
<1> DEFINE q == [pr[p] EXCEPT !.pc = "L_ult2", !.lug = pr[p].x, !.x = pr[p].b1.ult]
           P == padre[pr[p].r]  D == De(de, pr[p].r)  y == pr[p].x
           mv2 == [mov EXCEPT ![pr[p].x] = pr[p].b2]
<1>0. pr[p].pc = "L_ult1"
  BY DEF EscribeMov, En
<1>1. pr[p] \in RegR /\ "L_ult2" \in Pcs /\ pr[p].b1.ult \in Pos0
  BY Tengo DEF Pcs, ConCab, RegR, RegP
<1>2. /\ q \in RegR /\ q.r = pr[p].r /\ q.op = pr[p].op /\ q.x = pr[p].b1.ult
      /\ q.lug = y /\ q.pc = "L_ult2" /\ q.b1 = pr[p].b1 /\ q.b2 = pr[p].b2
  BY <1>1 DEF RegR
<1> HIDE DEF q
<1>u. Suyo(q) = y /\ Suyo(pr[p]) = y
  BY <1>0, <1>2 DEF Suyo
<1>3. Despues_de(pr[p], q)
  BY <1>0, <1>2, <1>u DEF Despues_de, Agregan, Ligan, Solos, Desligan, Leen, Juntan, Limpian,
     Borran
<1>m. /\ y \in D /\ Cadena(P, mov, D \ {y}, f) /\ pr[p].b1 = P /\ P.ult # 0
      /\ pr[p].b2 = AlFin(mov[y], P.ult)
      /\ mov \in [Movs -> RegM] /\ D \in SUBSET Movs /\ y \in Movs
  <2>1. Forma(pr[p], P, D, mov, f) /\ D \in SUBSET Movs /\ mov \in [Movs -> RegM]
    BY Tengo
  <2> QED BY <2>1, <1>0, <1>u DEF Forma, FormaLiga, Ligan
<1>4. Forma(q, P, D, mv2, f)
  <2>0. \A u \in Movs \ {y} : mv2[u] = mov[u]
    BY <1>m
  <2>1. mv2[y].pri = P.ult /\ mv2[y].ult = 0
    <3>1. mv2[y] = AlFin(mov[y], P.ult) /\ mov[y] \in RegM
      BY <1>m
    <3> QED BY <3>1 DEF AlFin, RegM
  <2> HIDE DEF mv2
  <2>2. Cadena(P, mv2, D \ {y}, f)
    <3>1. D \ {y} \in SUBSET Movs /\ \A u \in D \ {y} : mv2[u] = mov[u]
      BY <2>0, <1>m
    <3> QED BY <3>1, <1>m, Congruente
  <2> QED BY <2>1, <2>2, <1>m, <1>2, <1>u DEF Forma, FormaLiga, FormaDesliga, FormaEntera,
     Ligan, Solos, Leen, Juntan, Limpian, Borran, Enteras, Agregan
<1>5. q.pc # "libre" /\ pr[p].pc \in ConCab /\ pr[p].pc \in EscribenMov
  BY <1>0, <1>2 DEF ConCab, EscribenMov
<1> QED BY <1>2, <1>3, <1>4, <1>5, PasoMov DEF q

\* The last of the chain gets the new one behind it: from here on the chain has it, and its
\* rank is the next one.
LEMMA PasoLUlt3 ==
    ASSUME NEW f \in [Movs -> Nat], Inv(f), NEW p \in Procs, UNCHANGED blo,
           EscribeMov(p, "L_ult3", [pr[p] EXCEPT !.pc = "L_ult4", !.x = pr[p].lug,
                                                 !.b1.ult = pr[p].lug])
    PROVE  /\ \E f2 \in [Movs -> Nat] : Inv(f2)'
           /\ UNCHANGED <<libre, fin>>
           /\ \A y \in Movs : mov'[y].borrado = mov[y].borrado /\ mov'[y].sig = mov[y].sig
<1> DEFINE P == padre[pr[p].r]  D == De(de, pr[p].r)  y == pr[p].lug  x == pr[p].x
           w == [pr[p].b1 EXCEPT !.ult = y]
           q == [pr[p] EXCEPT !.pc = "L_ult4", !.x = pr[p].lug, !.b1.ult = pr[p].lug]
           mv2 == [mov EXCEPT ![pr[p].x] = pr[p].b2]
           f2 == [f EXCEPT ![y] = f[P.ult] + 1]
<1>0. pr[p].pc = "L_ult3"
  BY DEF EscribeMov, En
<1>1. pr[p] \in RegR /\ "L_ult4" \in Pcs /\ pr[p].b1 \in RegP /\ y \in Pos0 /\ w \in RegP
  BY Tengo DEF Pcs, ConCab, RegR, RegP
<1>2. /\ q \in RegR /\ q.r = pr[p].r /\ q.op = pr[p].op /\ q.x = y
      /\ q.pc = "L_ult4" /\ q.b1 = w /\ q.b2 = pr[p].b2
  <2>1. q = [pr[p] EXCEPT !.pc = "L_ult4", !.x = y, !.b1 = w]
    BY <1>1 DEF RegR
  <2> HIDE DEF q, w
  <2> QED BY <2>1, <1>1 DEF RegR
<1>e. EscribeMov(p, "L_ult3", q)
  OBVIOUS
<1> HIDE DEF q
<1>u. Suyo(q) = y /\ Suyo(pr[p]) = y
  BY <1>0, <1>2 DEF Suyo
<1>3. Despues_de(pr[p], q)
  BY <1>0, <1>2, <1>u DEF Despues_de, Agregan, Ligan, Solos, Desligan, Leen, Juntan, Limpian,
     Borran
<1>m. /\ y \in D /\ Cadena(P, mov, D \ {y}, f) /\ pr[p].b1 = P /\ P.ult # 0 /\ x = P.ult
      /\ mov[y].pri = P.ult /\ mov[y].ult = 0
      /\ pr[p].b2 = [mov[x] EXCEPT !.ult = y]
      /\ mov \in [Movs -> RegM] /\ D \in SUBSET Movs /\ y \in Movs /\ P \in RegP
  <2>1. Forma(pr[p], P, D, mov, f) /\ D \in SUBSET Movs /\ mov \in [Movs -> RegM] /\ P \in RegP
    BY Tengo
  <2> QED BY <2>1, <1>0, <1>u DEF Forma, FormaLiga, Ligan
<1>n. x \in D \ {y} /\ x \in Movs /\ f[x] \in Nat
  <2>1. x \in D \ {y}
    BY <1>m DEF Cadena
  <2> QED BY <2>1, <1>m
<1>f. f2 \in [Movs -> Nat] /\ \A u \in Movs \ Mios(p) : f2[u] = f[u]
  <2>1. y \in Mios(p)
    BY <1>m, MiosSon DEF Inv
  <2>2. f[P.ult] + 1 \in Nat /\ y \in Movs
    BY <1>m, <1>n
  <2>3. \A u \in Movs \ {y} : f2[u] = f[u]
    OBVIOUS
  <2>4. f2 \in [Movs -> Nat]
    BY <2>2
  <2> QED BY <2>1, <2>3, <2>4
<1>4. Forma(q, P, D, mv2, f2)
  <2>0. \A u \in Movs \ {x} : mv2[u] = mov[u]
    BY <1>m
  <2>1. mv2[x].ult = y /\ mv2[x].pri = mov[x].pri
    <3>1. mv2[x] = [mov[x] EXCEPT !.ult = y] /\ mov[x] \in RegM
      BY <1>m, <1>n
    <3> QED BY <3>1 DEF RegM
  <2>2. \A u \in D \ {y} : mv2[u].pri = mov[u].pri
    BY <2>0, <2>1, <1>m
  <2>3. \A u \in (D \ {y}) \ {P.ult} : mv2[u].ult = mov[u].ult
    BY <2>0, <1>m
  <2>4. mv2[y].pri = P.ult /\ mv2[y].ult = 0 /\ mv2[P.ult].ult = y
    BY <2>0, <2>1, <1>m, <1>n
  <2>5. D \ {y} \in SUBSET Movs /\ y \notin D \ {y} /\ (D \ {y}) \cup {y} = D
    BY <1>m
  <2> HIDE DEF mv2
  <2>6. Cadena(q.b1, mv2, (D \ {y}) \cup {y}, f2)
    <3> DEFINE C == D \ {y}
    <3>1. C \in SUBSET Movs /\ y \notin C /\ Cadena(P, mov, C, f)
      BY <2>5, <1>m
    <3>2. /\ \A u \in C : mv2[u].pri = mov[u].pri
          /\ \A u \in C \ {P.ult} : mv2[u].ult = mov[u].ult
      BY <2>2, <2>3
    <3>3. q.b1.pri = P.pri /\ q.b1.ult = y
      BY <1>2, <1>m DEF RegP
    <3>4. f2[y] = f[P.ult] + 1 /\ \A u \in C : f2[u] = f[u]
      BY <1>m
    <3> HIDE DEF C, f2
    <3>5. Cadena(q.b1, mv2, C \cup {y}, f2)
      <4>1. P.ult # 0 /\ y \in Movs /\ P \in RegP /\ mov \in [Movs -> RegM]
        BY <1>m
      <4> QED BY <3>1, <3>2, <3>3, <3>4, <2>4, <4>1, Agregada
    <3> QED BY <3>5 DEF C
  <2>7. Cadena(q.b1, mv2, D, f2)
    BY <2>5, <2>6
  <2> HIDE DEF f2
  <2> QED BY <2>7, <1>m, <1>2, <1>u DEF Forma, FormaLiga, FormaDesliga, FormaEntera,
     Ligan, Solos, Leen, Juntan, Limpian, Borran, Enteras, Agregan
<1>5. q.pc # "libre" /\ pr[p].pc \in ConCab /\ pr[p].pc \in EscribenMov
  BY <1>0, <1>2 DEF ConCab, EscribenMov
<1>6. PICK g \in [Movs -> Nat] : g = f2
  BY <1>f
<1>7. Forma(q, padre[q.r], De(de, q.r), mv2, g) /\ \A u \in Movs \ Mios(p) : g[u] = f[u]
  BY <1>2, <1>4, <1>6, <1>f
<1> HIDE DEF f2
<1>8. /\ Inv(g)' /\ UNCHANGED <<libre, fin>>
      /\ \A u \in Movs : mov'[u].borrado = mov[u].borrado /\ mov'[u].sig = mov[u].sig
  BY <1>e, <1>2, <1>3, <1>5, <1>7, PasoMov
<1> QED BY <1>8

\* vdlink after the last: the principal, and the chain is whole again.
LEMMA PasoLUlt4 ==
    ASSUME NEW f \in [Movs -> Nat], Inv(f), NEW p \in Procs, UNCHANGED blo,
           EscribePadre(p, "L_ult4", [pr[p] EXCEPT !.pc = "L_fin"])
    PROVE  Inv(f)' /\ UNCHANGED <<mov, libre, fin>>
<1> DEFINE q == [pr[p] EXCEPT !.pc = "L_fin"]
<1>0. pr[p].pc = "L_ult4"
  BY DEF EscribePadre, En
<1>1. pr[p] \in RegR /\ "L_fin" \in Pcs
  BY Tengo DEF Pcs, ConCab
<1>2. /\ q \in RegR /\ q.r = pr[p].r /\ q.op = pr[p].op /\ q.x = pr[p].x
      /\ q.pc = "L_fin" /\ q.b1 = pr[p].b1 /\ q.b2 = pr[p].b2
  BY <1>1 DEF RegR
<1> HIDE DEF q
<1>u. Suyo(q) = q.x /\ Suyo(pr[p]) = q.x
  BY <1>0, <1>2 DEF Suyo
<1>3. Despues_de(pr[p], q)
  BY <1>0, <1>2, <1>u DEF Despues_de, Agregan, Ligan, Solos, Desligan, Leen, Juntan, Limpian,
     Borran
<1>4. Forma(q, pr[p].b1, De(de, q.r), mov, f)
  <2>1. Forma(pr[p], padre[q.r], De(de, q.r), mov, f)
    BY <1>2, Tengo
  <2> QED BY <2>1, <1>0, <1>2, <1>u DEF Forma, FormaLiga, FormaDesliga, FormaEntera,
     Ligan, Solos, Leen, Juntan, Limpian, Borran, Enteras, Agregan
<1>5. Activo(p) /\ q.pc # "libre" /\ pr[p].pc \in ConCab
  BY <1>0, <1>2 DEF Activo, ConCab
<1> QED BY <1>2, <1>3, <1>4, <1>5, PasoPad DEF q

\* vdunlink writes the movement before: joined to the one after.
LEMMA PasoUAnt2 ==
    ASSUME NEW f \in [Movs -> Nat], Inv(f), NEW p \in Procs, UNCHANGED blo,
           EscribeMov(p, "U_ant2", [pr[p] EXCEPT !.pc = "U_ant3", !.x = pr[p].lug])
    PROVE  Inv(f)' /\ UNCHANGED <<libre, fin>>
           /\ \A y \in Movs : mov'[y].borrado = mov[y].borrado /\ mov'[y].sig = mov[y].sig
<1> DEFINE q == [pr[p] EXCEPT !.pc = "U_ant3", !.x = pr[p].lug]
           P == padre[pr[p].r]  D == De(de, pr[p].r)  y == pr[p].lug
           a == pr[p].anter  z == pr[p].proxi
           mv2 == [mov EXCEPT ![pr[p].x] = pr[p].b2]
<1>0. pr[p].pc = "U_ant2"
  BY DEF EscribeMov, En
<1>1. pr[p] \in RegR /\ "U_ant3" \in Pcs /\ y \in Pos0
  BY Tengo DEF Pcs, ConCab, RegR, RegP
<1>2. /\ q \in RegR /\ q.r = pr[p].r /\ q.op = pr[p].op /\ q.x = y /\ q.anter = a
      /\ q.proxi = z /\ q.lug = y /\ q.pc = "U_ant3" /\ q.b1 = pr[p].b1 /\ q.b2 = pr[p].b2
  BY <1>1 DEF RegR
<1> HIDE DEF q
<1>u. Suyo(q) = y /\ Suyo(pr[p]) = y
  BY <1>0, <1>2 DEF Suyo
<1>3. Despues_de(pr[p], q)
  BY <1>0, <1>2, <1>u, Tengo DEF Despues_de, Agregan, Ligan, Solos, Desligan, Leen, Juntan,
     Limpian, Borran
<1>m. /\ pr[p].x = a /\ a \in D /\ a # 0 /\ z \in D \cup {0} /\ y \notin D /\ y \in Movs
      /\ mov[y].pri = a /\ pr[p].b2 = [mov[a] EXCEPT !.ult = z]
      /\ Cadena(Final(P, a, z), Junta(mov, a, z), D, f)
      /\ mov \in [Movs -> RegM] /\ D \in SUBSET Movs
  <2>1. Forma(pr[p], P, D, mov, f) /\ D \in SUBSET Movs /\ mov \in [Movs -> RegM]
    BY Tengo
  <2>2. y \notin D /\ y \in Movs
    BY <1>0, <1>u, NoDe, Tengo DEF Desligan, Juntan
  <2> QED BY <2>1, <2>2, <1>0, <1>u DEF Forma, FormaDesliga, Juntan
<1>4. Forma(q, P, D, mv2, f)
  <2>0. \A u \in Movs \ {a} : mv2[u] = mov[u]
    BY <1>m
  <2>1. mv2[a].ult = z /\ mv2[a].pri = mov[a].pri
    <3>1. mv2[a] = [mov[a] EXCEPT !.ult = z] /\ mov[a] \in RegM
      BY <1>m
    <3> QED BY <3>1 DEF RegM
  <2>2. mv2 \in [Movs -> RegM]
    <3>1. pr[p].b2 \in RegM
      BY <1>1 DEF RegR
    <3> QED BY <3>1, <1>m
  <2> HIDE DEF mv2
  <2>3. \A u \in D : /\ Junta(mv2, a, z)[u].pri = Junta(mov, a, z)[u].pri
                     /\ Junta(mv2, a, z)[u].ult = Junta(mov, a, z)[u].ult
    <3> TAKE u \in D
    <3>1. u \in Movs
      BY <1>m
    <3> QED BY <3>1, <2>0, <2>1, <2>2, <1>m, Juntada
  <2>4. Cadena(Final(P, a, z), Junta(mv2, a, z), D, f)
    <3> DEFINE J == Junta(mv2, a, z)  J1 == Junta(mov, a, z)  F == Final(P, a, z)
    <3>1. \A u \in D : J[u].pri = J1[u].pri /\ J[u].ult = J1[u].ult
      BY <2>3
    <3>2. Cadena(F, J1, D, f) /\ D \in SUBSET Movs
      BY <1>m
    <3> HIDE DEF J, J1, F
    <3>3. Cadena(F, J, D, f)
      BY <3>1, <3>2, Congruente
    <3> QED BY <3>3 DEF J, F
  <2>5. mv2[y].pri = a
    BY <2>0, <1>m
  <2>6. Forma(pr[p], P, D, mov, f)
    BY Tengo
  <2> QED BY <2>1, <2>4, <2>5, <2>6, <1>m, <1>0, <1>2, <1>u DEF Forma, FormaLiga, FormaDesliga,
     FormaEntera, Ligan, Solos, Leen, Juntan, Limpian, Borran, Enteras, Agregan
<1>5. q.pc # "libre" /\ pr[p].pc \in ConCab /\ pr[p].pc \in EscribenMov
  BY <1>0, <1>2 DEF ConCab, EscribenMov
<1> QED BY <1>2, <1>3, <1>4, <1>5, PasoMov DEF q

\* vdunlink writes the movement after: joined to the one before.
LEMMA PasoUSig2 ==
    ASSUME NEW f \in [Movs -> Nat], Inv(f), NEW p \in Procs, UNCHANGED blo,
           EscribeMov(p, "U_sig2", [pr[p] EXCEPT !.pc = "U_fin1"])
    PROVE  Inv(f)' /\ UNCHANGED <<libre, fin>>
           /\ \A y \in Movs : mov'[y].borrado = mov[y].borrado /\ mov'[y].sig = mov[y].sig
<1> DEFINE q == [pr[p] EXCEPT !.pc = "U_fin1"]
           P == padre[pr[p].r]  D == De(de, pr[p].r)  y == pr[p].lug
           a == pr[p].anter  z == pr[p].proxi
           mv2 == [mov EXCEPT ![pr[p].x] = pr[p].b2]
<1>0. pr[p].pc = "U_sig2"
  BY DEF EscribeMov, En
<1>1. pr[p] \in RegR /\ "U_fin1" \in Pcs
  BY Tengo DEF Pcs, ConCab
<1>2. /\ q \in RegR /\ q.r = pr[p].r /\ q.op = pr[p].op /\ q.anter = a
      /\ q.proxi = z /\ q.lug = y /\ q.pc = "U_fin1" /\ q.b1 = pr[p].b1 /\ q.b2 = pr[p].b2
  BY <1>1 DEF RegR
<1> HIDE DEF q
<1>u. Suyo(q) = y /\ Suyo(pr[p]) = y
  BY <1>0, <1>2 DEF Suyo
<1>3. Despues_de(pr[p], q)
  BY <1>0, <1>2, <1>u, Tengo DEF Despues_de, Agregan, Ligan, Solos, Desligan, Leen, Juntan,
     Limpian, Borran
<1>m. /\ pr[p].x = z /\ a \in D \cup {0} /\ z # 0 /\ z \in D
      /\ (a # 0 => mov[a].ult = z) /\ pr[p].b2 = [mov[z] EXCEPT !.pri = a]
      /\ Cadena(Final(P, a, z), Junta(mov, a, z), D, f)
      /\ mov \in [Movs -> RegM] /\ D \in SUBSET Movs /\ 0 \notin Movs
  <2>1. Forma(pr[p], P, D, mov, f) /\ D \in SUBSET Movs /\ mov \in [Movs -> RegM]
        /\ 0 \notin Movs
    BY Tengo
  <2> QED BY <2>1, <1>0, <1>u DEF Forma, FormaDesliga, Juntan
<1>4. Forma(q, P, D, mv2, f)
  <2>0. \A u \in Movs \ {z} : mv2[u] = mov[u]
    BY <1>m
  <2>1. mv2[z].pri = a /\ mv2[z].ult = mov[z].ult
    <3>1. mv2[z] = [mov[z] EXCEPT !.pri = a] /\ mov[z] \in RegM
      BY <1>m
    <3> QED BY <3>1 DEF RegM
  <2>2. mv2 \in [Movs -> RegM]
    <3>1. pr[p].b2 \in RegM
      BY <1>1 DEF RegR
    <3> QED BY <3>1, <1>m
  <2> HIDE DEF mv2
  <2>3. \A u \in D : /\ Junta(mv2, a, z)[u].pri = Junta(mov, a, z)[u].pri
                     /\ Junta(mv2, a, z)[u].ult = Junta(mov, a, z)[u].ult
    <3> TAKE u \in D
    <3>1. u \in Movs
      BY <1>m
    <3> QED BY <3>1, <2>0, <2>1, <2>2, <1>m, Juntada
  <2>4. Cadena(Final(P, a, z), Junta(mv2, a, z), D, f)
    <3> DEFINE J == Junta(mv2, a, z)  J1 == Junta(mov, a, z)  F == Final(P, a, z)
    <3>1. \A u \in D : J[u].pri = J1[u].pri /\ J[u].ult = J1[u].ult
      BY <2>3
    <3>2. Cadena(F, J1, D, f) /\ D \in SUBSET Movs
      BY <1>m
    <3> HIDE DEF J, J1, F
    <3>3. Cadena(F, J, D, f)
      BY <3>1, <3>2, Congruente
    <3> QED BY <3>3 DEF J, F
  <2>5. a # 0 => mv2[a].ult = z
    BY <2>0, <2>1, <1>m
  <2>6. Forma(pr[p], P, D, mov, f)
    BY Tengo
  <2> QED BY <2>1, <2>4, <2>5, <2>6, <1>m, <1>0, <1>2, <1>u DEF Forma, FormaLiga, FormaDesliga,
     FormaEntera, Ligan, Solos, Leen, Juntan, Limpian, Borran, Enteras, Agregan
<1>5. q.pc # "libre" /\ pr[p].pc \in ConCab /\ pr[p].pc \in EscribenMov
  BY <1>0, <1>2 DEF ConCab, EscribenMov
<1> QED BY <1>2, <1>3, <1>4, <1>5, PasoMov DEF q

\* The principal is mended last: the chain without the movement is whole.
LEMMA PasoUFin1 ==
    ASSUME NEW f \in [Movs -> Nat], Inv(f), NEW p \in Procs, UNCHANGED blo,
           EscribePadre(p, "U_fin1", [pr[p] EXCEPT !.pc = "U_fin2", !.x = pr[p].lug])
    PROVE  Inv(f)' /\ UNCHANGED <<mov, libre, fin>>
<1> DEFINE q == [pr[p] EXCEPT !.pc = "U_fin2", !.x = pr[p].lug]
           P == padre[pr[p].r]  D == De(de, pr[p].r)  y == pr[p].lug
           a == pr[p].anter  z == pr[p].proxi
<1>0. pr[p].pc = "U_fin1"
  BY DEF EscribePadre, En
<1>1. pr[p] \in RegR /\ "U_fin2" \in Pcs /\ y \in Pos0
  BY Tengo DEF Pcs, ConCab, RegR
<1>2. /\ q \in RegR /\ q.r = pr[p].r /\ q.op = pr[p].op /\ q.x = y
      /\ q.pc = "U_fin2" /\ q.b1 = pr[p].b1
  BY <1>1 DEF RegR
<1> HIDE DEF q
<1>u. Suyo(q) = y /\ Suyo(pr[p]) = y
  BY <1>0, <1>2 DEF Suyo
<1>3. Despues_de(pr[p], q)
  BY <1>0, <1>2, <1>u, Tengo DEF Despues_de, Agregan, Ligan, Solos, Desligan, Leen, Juntan,
     Limpian, Borran
<1>m. /\ a \in D \cup {0} /\ z \in D \cup {0}
      /\ (a # 0 => mov[a].ult = z) /\ (z # 0 => mov[z].pri = a)
      /\ Cadena(Final(P, a, z), Junta(mov, a, z), D, f) /\ pr[p].b1 = Final(P, a, z)
      /\ mov \in [Movs -> RegM] /\ D \in SUBSET Movs /\ 0 \notin Movs
  <2>1. Forma(pr[p], P, D, mov, f) /\ D \in SUBSET Movs /\ mov \in [Movs -> RegM]
        /\ 0 \notin Movs
    BY Tengo
  <2> QED BY <2>1, <1>0, <1>u DEF Forma, FormaDesliga, Juntan
<1>4. Forma(q, pr[p].b1, De(de, q.r), mov, f)
  <2>1. \A u \in D : /\ mov[u].pri = Junta(mov, a, z)[u].pri
                     /\ mov[u].ult = Junta(mov, a, z)[u].ult
    <3> TAKE u \in D
    <3>1. u \in Movs /\ u # 0
      BY <1>m
    <3> QED BY <3>1, <1>m, Juntada
  <2>2. Cadena(pr[p].b1, mov, D, f)
    <3> DEFINE J == Junta(mov, a, z)  F == Final(P, a, z)
    <3>1. \A u \in D : mov[u].pri = J[u].pri /\ mov[u].ult = J[u].ult
      BY <2>1
    <3>2. Cadena(F, J, D, f) /\ D \in SUBSET Movs /\ pr[p].b1 = F
      BY <1>m
    <3> HIDE DEF J, F
    <3> QED BY <3>1, <3>2, Congruente
  <2> QED BY <2>2, <1>2 DEF Forma, FormaLiga, FormaDesliga, FormaEntera,
     Ligan, Solos, Leen, Juntan, Limpian, Borran, Enteras, Agregan
<1>5. Activo(p) /\ q.pc # "libre" /\ pr[p].pc \in ConCab
  BY <1>0, <1>2 DEF Activo, ConCab
<1> QED BY <1>2, <1>3, <1>4, <1>5, PasoPad DEF q

\* vdunlink clears the links of the movement, which is in no chain any more.
LEMMA PasoUFin3 ==
    ASSUME NEW f \in [Movs -> Nat], Inv(f), NEW p \in Procs, UNCHANGED blo,
           EscribeMov(p, "U_fin3",
                      [pr[p] EXCEPT !.pc = IF pr[p].op = "LD" THEN "D_cab" ELSE "escribe"])
    PROVE  Inv(f)' /\ UNCHANGED <<libre, fin>>
           /\ \A y \in Movs : mov'[y].borrado = mov[y].borrado /\ mov'[y].sig = mov[y].sig
<1> DEFINE c == IF pr[p].op = "LD" THEN "D_cab" ELSE "escribe"
           q == [pr[p] EXCEPT !.pc = c]
           P == padre[pr[p].r]  D == De(de, pr[p].r)  y == pr[p].x
           mv2 == [mov EXCEPT ![pr[p].x] = pr[p].b2]
<1>0. pr[p].pc = "U_fin3"
  BY DEF EscribeMov, En
<1>1. pr[p] \in RegR /\ c \in Pcs
  BY Tengo DEF Pcs, Desligan, Borran
<1>2. /\ q \in RegR /\ q.r = pr[p].r /\ q.op = pr[p].op /\ q.x = y
      /\ q.pc = c /\ q.b1 = pr[p].b1 /\ q.b2 = pr[p].b2
  BY <1>1 DEF RegR
<1> HIDE DEF q
<1>u. Suyo(q) = y /\ Suyo(pr[p]) = y
  BY <1>0, <1>2 DEF Suyo
<1>o. pr[p].op \in {"LU", "LD"}
  BY <1>0, Tengo DEF Desligan, Limpian
<1>3. Despues_de(pr[p], q)
  BY <1>0, <1>2, <1>u, <1>o DEF Despues_de, Agregan, Ligan, Solos, Desligan, Leen, Juntan,
     Limpian, Borran
<1>m. /\ Cadena(P, mov, D, f) /\ pr[p].b1 = P /\ y \in Movs /\ y \notin D
      /\ mov \in [Movs -> RegM] /\ D \in SUBSET Movs
  <2>1. Forma(pr[p], P, D, mov, f) /\ D \in SUBSET Movs /\ mov \in [Movs -> RegM]
    BY Tengo
  <2>2. y \notin D /\ y \in Movs
    BY <1>0, <1>u, NoDe, Tengo DEF Desligan, Limpian
  <2> QED BY <2>1, <2>2, <1>0 DEF Forma, FormaEntera, Enteras, Limpian, Agregan
<1>4. Forma(q, P, D, mv2, f)
  <2>0. \A u \in D : mv2[u] = mov[u]
    BY <1>m
  <2>1. mv2[y] = pr[p].b2
    BY <1>m
  <2> HIDE DEF mv2
  <2>2. Cadena(P, mv2, D, f)
    BY <2>0, <1>m, Congruente
  <2> QED BY <2>1, <2>2, <1>m, <1>2, <1>u, <1>o DEF Forma, FormaLiga, FormaDesliga, FormaEntera,
     Ligan, Solos, Leen, Juntan, Limpian, Borran, Enteras, Agregan
<1>5. q.pc # "libre" /\ q.pc \notin ConCab /\ pr[p].pc \in EscribenMov
  BY <1>0, <1>2 DEF ConCab, EscribenMov
<1> QED BY <1>2, <1>3, <1>4, <1>5, PasoMov DEF q

\* vddel: the list starts at the deleted record; no chain changes.
LEMMA PasoDInicio ==
    ASSUME NEW f \in [Movs -> Nat], Inv(f), NEW p \in Procs, UNCHANGED blo,
           En(p, "D_inicio"), libre' = pr[p].x, cab' = Nadie,
           Va(p, [pr[p] EXCEPT !.pc = "escribe", !.b2 = mov[pr[p].x]]),
           UNCHANGED <<padre, mov, fin, candP, candM, de>>
    PROVE  Inv(f)'
<1> DEFINE b == mov[pr[p].x]
           q == [pr[p] EXCEPT !.pc = "escribe", !.b2 = b]
           P == padre[pr[p].r]  D == De(de, pr[p].r)
<1>0. /\ pr[p].pc = "D_inicio" /\ pr' = [pr EXCEPT ![p] = q]
  BY DEF En, Va
<1>1. pr[p].x = Suyo(pr[p]) /\ pr[p].x \in Movs /\ pr[p].op = "LD"
  BY <1>0, Tengo DEF Suyo, Desligan, Borran
<1>2. b \in RegM /\ "escribe" \in Pcs /\ pr[p] \in RegR /\ libre' \in Pos0
  BY <1>1, Tengo DEF Pcs
<1> HIDE DEF b
<1>4. /\ q \in RegR /\ q.r = pr[p].r /\ q.op = pr[p].op /\ q.x = pr[p].x
      /\ q.pc = "escribe" /\ q.b1 = pr[p].b1 /\ q.b2 = b
  BY <1>2 DEF RegR
<1> HIDE DEF q
<1>u. Suyo(q) = Suyo(pr[p])
  BY <1>0, <1>4 DEF Suyo
<1>5. Despues_de(pr[p], q)
  BY <1>0, <1>4, <1>u, <1>1 DEF Despues_de, Agregan, Ligan, Solos, Desligan, Leen, Juntan,
     Limpian, Borran
<1>6. Forma(q, P, D, mov, f)
  <2>1. Forma(pr[p], P, D, mov, f)
    BY Tengo
  <2> QED BY <2>1, <1>u, <1>0, <1>1, <1>4 DEF Forma, FormaLiga, FormaDesliga, FormaEntera,
     Ligan, Solos, Leen, Juntan, Limpian, Borran, Enteras, Agregan
<1>7. Activo(p) /\ q.pc # "libre" /\ cab = p /\ q.pc \notin ConCab
  BY <1>0, <1>4, Tengo DEF Activo, ConCab
<1> QED BY <1>0, <1>2, <1>4, <1>5, <1>6, <1>7, Tengo, PasoLee

\* vddel marks the record: no chain has it.
LEMMA PasoDEnlaza ==
    ASSUME NEW f \in [Movs -> Nat], Inv(f), NEW p \in Procs, UNCHANGED blo,
           En(p, "D_enlaza"), mov' = Enlazado(pr[p].x),
           Va(p, [pr[p] EXCEPT !.pc = "D_inicio"]),
           UNCHANGED <<padre, libre, fin, candados, de>>
    PROVE  Inv(f)'
<1> DEFINE q == [pr[p] EXCEPT !.pc = "D_inicio"]  x == pr[p].x
           P == padre[pr[p].r]  D == De(de, pr[p].r)
<1>0. /\ pr[p].pc = "D_enlaza" /\ pr' = [pr EXCEPT ![p] = q] /\ cab' = cab
  BY DEF En, Va, candados
<1>1. x = Suyo(pr[p]) /\ x \in Movs /\ pr[p].op = "LD" /\ Borrando(p) /\ x \notin D
      /\ x \in Mios(p)
  <2>1. pr[p].pc \in Desligan /\ Suyo(pr[p]) = x /\ pr[p].pc \in Borran
    BY <1>0 DEF Suyo, Desligan, Borran
  <2>2. x \in Mios(p)
    BY <2>1, MiosSon DEF Inv, Toca
  <2> QED BY <2>1, <2>2, Tengo, NoDe DEF Borrando
<1>2. pr[p] \in RegR /\ "D_inicio" \in Pcs /\ Tipos /\ Turno /\ Propios /\ Formas(f)
  BY Tengo DEF Inv, Pcs, ConCab
<1>3. /\ q \in RegR /\ q.r = pr[p].r /\ q.op = pr[p].op /\ q.x = pr[p].x
      /\ q.pc = "D_inicio" /\ q.b1 = pr[p].b1
  BY <1>2 DEF RegR
<1> HIDE DEF q
<1>4. pr'[p] = q /\ pr' \in [Procs -> RegR] /\ \A s \in Procs \ {p} : pr'[s] = pr[s]
  BY <1>0, <1>2, <1>3 DEF Tipos
<1>5. /\ mov' \in [Movs -> RegM] /\ mov'[x].borrado /\ \A u \in Movs \ {x} : mov'[u] = mov[u]
  <2>1. mov \in [Movs -> RegM] /\ libre \in Pos0
    BY <1>2 DEF Tipos
  <2> QED BY <2>1, <1>1 DEF Enlazado, RegM
<1>6. Tipos'
  BY <1>2, <1>4, <1>5 DEF Tipos
<1>7. Turno'
  BY <1>0, <1>2, <1>3, <1>4, PasoTurno DEF Activo, ConCab, Turno
<1>8. Propios'
  <2>1. \A u \in Movs : de'[u] # Nadie => u <= fin' /\ ~mov'[u].borrado
    <3>1. de[x] = Nadie
      BY <1>1, <1>2 DEF Propios
    <3> QED BY <3>1, <1>2, <1>5 DEF Propios
  <2>2. Suyo(q) = x
    BY <1>3 DEF Suyo
  <2>3. \A s \in Procs : /\ Suyo(pr'[s]) = Suyo(pr[s]) /\ pr'[s].op = pr[s].op
                         /\ Borrando(s)' <=> Borrando(s)
    BY <1>0, <1>1, <1>3, <1>4, <2>2 DEF Borrando, Desligan, Borran
  <2>4. \A s, t \in Procs :
            Borrando(s)' /\ Borrando(t)' /\ Suyo(pr'[s]) = Suyo(pr'[t]) => s = t
    BY <2>3, <1>2 DEF Propios
  <2>5. ASSUME NEW s \in Procs
        PROVE  /\ pr'[s].pc \in Agregan => pr'[s].op = "LN"
               /\ pr'[s].pc \in Ligan \cup Solos \cup {"L_ult4", "L_fin"} =>
                      pr'[s].op \in {"LN", "LL"}
               /\ pr'[s].pc \in Desligan => pr'[s].op \in {"LU", "LD"} /\ Suyo(pr'[s]) # 0
               /\ pr'[s].pc \in Borran => pr'[s].op = "LD"
               /\ pr'[s].op = "LU" /\ pr'[s].pc \in Desligan \cup {"escribe"} =>
                     Suyo(pr'[s]) # 0 /\ de'[Suyo(pr'[s])] = s
               /\ Borrando(s)' =>
                     /\ de'[Suyo(pr'[s])] = Nadie
                     /\ Suyo(pr'[s]) <= fin'
                     /\ mov'[Suyo(pr'[s])].borrado <=> pr'[s].pc = "D_inicio"
    <3>1. CASE s = p
      <4>1. x <= fin /\ de[x] = Nadie /\ x # 0
        BY <1>1, <1>2, Tengo DEF Propios
      <4> QED BY <3>1, <4>1, <1>1, <1>3, <1>4, <1>5, <2>2 DEF Agregan, Ligan, Solos, Desligan, Borran
    <3>2. CASE s # p
      <4>1. Borrando(s) => Suyo(pr[s]) # x /\ Suyo(pr[s]) \in Movs
        BY <3>2, <1>1, <1>2, Tengo DEF Propios, Borrando
      <4>2. pr'[s] = pr[s]
        BY <3>2, <1>4
      <4> QED BY <4>1, <4>2, <2>3, <1>2, <1>5 DEF Propios
    <3> QED BY <3>1, <3>2
  <2> QED BY <2>1, <2>4, <2>5 DEF Propios
<1>9. Formas(f)'
  <2>1. Forma(q, padre'[pr[p].r], De(de', pr[p].r), mov', f)
    <3>1. Forma(pr[p], P, D, mov, f) /\ D \in SUBSET Movs
      BY Tengo
    <3>2. Cadena(P, mov, D, f) /\ pr[p].b1 = P
      BY <3>1, <1>0 DEF Forma, FormaEntera, Enteras, Borran, Agregan
    <3>3. Cadena(P, mov', D, f)
      BY <3>1, <3>2, <1>1, <1>5, Congruente
    <3> QED BY <3>2, <3>3, <1>3 DEF Forma, FormaLiga, FormaDesliga, FormaEntera,
     Ligan, Solos, Leen, Juntan, Limpian, Borran, Enteras, Agregan
  <2>2. \A y \in Mios(p) : de'[y] \in {pr[p].r, p, Nadie}
    BY DEF Mios
  <2>3. Activo(p) /\ pr'[p].pc # "libre" /\ pr'[p].r = pr[p].r
    BY <1>0, <1>3, <1>4 DEF Activo
  <2>4. \A y \in Movs \ Mios(p) : mov'[y] = mov[y] /\ f[y] = f[y] /\ de'[y] = de[y]
    BY <1>1, <1>5
  <2> QED BY <2>1, <2>2, <2>3, <2>4, <1>4, <1>6, PasoFormas
<1> QED BY <1>6, <1>7, <1>8, <1>9 DEF Inv

\* A record that nobody has: deleted and in no list, or the one after the last.
LEMMA PasoNuevo ==
    ASSUME NEW f \in [Movs -> Nat], Inv(f), NEW p \in Procs, UNCHANGED blo, EscribeNuevo(p),
           pr[p].x \in Borrados \cup {fin + 1}, pr[p].x \in Movs
    PROVE  Inv(f)'
<1> DEFINE q == [pr[p] EXCEPT !.pc = "L_cab", !.b2 = Vacio]  x == pr[p].x  r == pr[p].r
           P == padre[pr[p].r]  D == De(de, pr[p].r)
<1>0. /\ pr[p].pc = "A_escribe" /\ pr' = [pr EXCEPT ![p] = q] /\ cab' = Nadie
      /\ mov' = [mov EXCEPT ![x] = Vacio] /\ fin' = FinCon(x) /\ de' = [de EXCEPT ![x] = r]
      /\ UNCHANGED <<padre, libre>>
  BY DEF En, Va, EscribeNuevo
<1>2. /\ pr[p] \in RegR /\ "L_cab" \in Pcs /\ Tipos /\ Turno /\ Propios /\ Formas(f)
      /\ Vacio \in RegM /\ ~Vacio.borrado /\ cab = p /\ pr[p].op = "LN" /\ r \in Padres
      /\ fin \in Nat /\ MaxMovs \in Nat
  BY <1>0, Tengo, ConstantesMovs
     DEF Inv, Pcs, Ligan, Vacio, RegM, Pos0, ConstantesMovs, ConCab, Agregan, Tipos
<1>3. /\ q \in RegR /\ q.r = pr[p].r /\ q.op = pr[p].op /\ q.x = pr[p].x
      /\ q.pc = "L_cab" /\ q.b1 = pr[p].b1
  BY <1>2 DEF RegR
<1> HIDE DEF q
<1>4. pr'[p] = q /\ pr' \in [Procs -> RegR] /\ \A s \in Procs \ {p} : pr'[s] = pr[s]
  BY <1>0, <1>2, <1>3 DEF Tipos
<1>5. /\ mov' \in [Movs -> RegM] /\ mov'[x] = Vacio /\ \A u \in Movs \ {x} : mov'[u] = mov[u]
      /\ de' \in [Movs -> Padres \cup Procs \cup {Nadie}] /\ de'[x] = r
      /\ \A u \in Movs \ {x} : de'[u] = de[u]
  BY <1>0, <1>2 DEF Tipos
<1>f. fin' \in Nat /\ fin <= fin' /\ x <= fin' /\ fin' \in Pos0
  <2>1. x \in Nat /\ fin \in Pos0 /\ x \in Pos0
    BY <1>2 DEF Movs, Pos0, Tipos
  <2> QED BY <2>1, <1>0, <1>2 DEF FinCon, Pos0
<1>6. Tipos'
  BY <1>0, <1>2, <1>4, <1>5, <1>f DEF Tipos
<1>7. Turno'
  BY <1>0, <1>2, <1>3, <1>4, PasoTurno DEF Activo, ConCab, Turno
<1>n. de[x] = Nadie /\ \A s \in Procs : Borrando(s) => Suyo(pr[s]) # x
  <2>1. x = fin + 1 \/ (x <= fin /\ mov[x].borrado)
    BY DEF Borrados
  <2>2. de[x] = Nadie
    BY <2>1, <1>2 DEF Propios
  <2>3. ASSUME NEW s \in Procs, Borrando(s), Suyo(pr[s]) = x PROVE FALSE
    <3>1. x <= fin /\ (mov[x].borrado <=> pr[s].pc = "D_inicio")
      BY <2>3, <1>2 DEF Propios
    <3>2. pr[s].pc = "D_inicio"
      BY <3>1, <2>1, <1>2
    <3>3. s = p
      BY <3>2, <1>2 DEF Turno, ConCab
    <3> QED BY <3>2, <3>3, <1>0
  <2> QED BY <2>2, <2>3
<1>8. Propios'
  <2>1. \A u \in Movs : de'[u] # Nadie => u <= fin' /\ ~mov'[u].borrado
    <3> TAKE u \in Movs
    <3>1. u \in Nat
      BY <1>2 DEF Movs
    <3> QED BY <3>1, <1>2, <1>5, <1>f DEF Propios
  <2>3. \A s \in Procs : /\ Borrando(s)' <=> Borrando(s)
                         /\ Borrando(s) => Suyo(pr'[s]) = Suyo(pr[s])
    BY <1>0, <1>2, <1>3, <1>4 DEF Borrando, Desligan, Borran, Leen, Juntan, Limpian
  <2>4. \A s, t \in Procs :
            Borrando(s)' /\ Borrando(t)' /\ Suyo(pr'[s]) = Suyo(pr'[t]) => s = t
    BY <2>3, <1>2 DEF Propios
  <2>5. ASSUME NEW s \in Procs
        PROVE  /\ pr'[s].pc \in Agregan => pr'[s].op = "LN"
               /\ pr'[s].pc \in Ligan \cup Solos \cup {"L_ult4", "L_fin"} =>
                      pr'[s].op \in {"LN", "LL"}
               /\ pr'[s].pc \in Desligan => pr'[s].op \in {"LU", "LD"} /\ Suyo(pr'[s]) # 0
               /\ pr'[s].pc \in Borran => pr'[s].op = "LD"
               /\ pr'[s].op = "LU" /\ pr'[s].pc \in Desligan \cup {"escribe"} =>
                     Suyo(pr'[s]) # 0 /\ de'[Suyo(pr'[s])] = s
               /\ Borrando(s)' =>
                     /\ de'[Suyo(pr'[s])] = Nadie
                     /\ Suyo(pr'[s]) <= fin'
                     /\ mov'[Suyo(pr'[s])].borrado <=> pr'[s].pc = "D_inicio"
    <3>1. CASE s = p
      BY <3>1, <1>2, <1>3, <1>4 DEF Agregan, Ligan, Solos, Desligan, Borran, Leen, Juntan,
         Limpian, Borrando
    <3>2. CASE s # p
      <4>1. Borrando(s) => Suyo(pr[s]) # x /\ Suyo(pr[s]) \in Movs /\ Suyo(pr[s]) \in Nat
        BY <1>n, <1>2, Tengo DEF Borrando, Movs
      <4>2. pr'[s] = pr[s]
        BY <3>2, <1>4
      <4>3. pr[s].op = "LU" /\ pr[s].pc \in Desligan \cup {"escribe"} =>
                Suyo(pr[s]) # x /\ Suyo(pr[s]) \in Movs
        <5>1. Nadie \notin Procs
          BY ConstantesMovs DEF ConstantesMovs
        <5> QED BY <5>1, <1>n, <1>2, Tengo DEF Propios
      <4> QED BY <4>1, <4>2, <4>3, <2>3, <1>2, <1>5, <1>f DEF Propios
    <3> QED BY <3>1, <3>2
  <2> QED BY <2>1, <2>4, <2>5 DEF Propios
<1>9. Formas(f)'
  <2>0. x \notin D /\ De(de', r) \ {x} = D /\ x \in De(de', r) /\ x \in Mios(p)
    <3>1. r # Nadie
      BY <1>2, ConstantesMovs DEF ConstantesMovs
    <3> QED BY <3>1, <1>5, <1>n DEF De, Mios
  <2>1. Forma(q, padre'[pr[p].r], De(de', pr[p].r), mov', f)
    <3>1. Forma(pr[p], P, D, mov, f) /\ D \in SUBSET Movs
      BY Tengo
    <3>2. Cadena(P, mov, D, f)
      BY <3>1, <1>0 DEF Forma, FormaEntera, Enteras, Agregan
    <3>3. Cadena(P, mov', D, f)
      BY <3>1, <3>2, <2>0, <1>5, Congruente
    <3>4. Suyo(q) = x
      BY <1>3 DEF Suyo
    <3> QED BY <3>3, <3>4, <2>0, <1>0, <1>3 DEF Forma, FormaLiga, FormaDesliga, FormaEntera,
     Ligan, Solos, Leen, Juntan, Limpian, Borran, Enteras, Agregan
  <2>2. \A y \in Mios(p) : de'[y] \in {pr[p].r, p, Nadie}
    BY <1>5 DEF Mios
  <2>3. Activo(p) /\ pr'[p].pc # "libre" /\ pr'[p].r = pr[p].r
    BY <1>0, <1>3, <1>4 DEF Activo
  <2>4. \A y \in Movs \ Mios(p) : mov'[y] = mov[y] /\ f[y] = f[y] /\ de'[y] = de[y]
    BY <2>0, <1>5
  <2>5. \A s \in Padres \ {pr[p].r} : padre'[s] = padre[s]
    BY <1>0
  <2> QED BY <2>1, <2>2, <2>3, <2>4, <2>5, <1>4, <1>6, PasoFormas
<1> QED BY <1>6, <1>7, <1>8, <1>9 DEF Inv

\* A program starts an instruction: only what its process owns changes hands.
LEMMA PasoEmpieza ==
    ASSUME NEW f \in [Movs -> Nat], Inv(f), NEW p \in Procs,
           NEW o \in {"LN", "LL", "LU", "LD"}, NEW r \in Padres, NEW x \in {0} \cup Movs,
           Empieza(p, o, r, x), ~Pisado
    PROVE  Inv(f)'
<1> DEFINE c == CASE o = "LN" -> "A_cab" [] o = "LL" -> "L_cab" [] OTHER -> "U_cab"
           q == [pr[p] EXCEPT !.pc = c, !.op = o, !.r = r, !.x = x]
           D == De(de, r)
<1>0. /\ pr[p].pc = "libre" /\ pr' = [pr EXCEPT ![p] = q] /\ x \in Movibles(p, o, r)
      /\ DuenoDe[r] = p \/ (DuenoDe[r] = Todos /\ blo[p] = "dentro")
      /\ \A s \in Procs : pr[s].pc = "muerto" => pr[s].r # r
      /\ de' = CASE o = "LN" -> de
                 [] o = "LL" -> [de EXCEPT ![x] = r]
                 [] o = "LU" -> [de EXCEPT ![x] = p]
                 [] o = "LD" -> [de EXCEPT ![x] = Nadie]
      /\ UNCHANGED <<padre, mov, libre, fin, cab, blo>>
  BY DEF Empieza, En, Va, archivos, candados
<1>1. /\ Tipos /\ Turno /\ Propios /\ Formas(f) /\ pr[p] \in RegR
      /\ p \notin Padres /\ Nadie \notin Padres /\ Nadie \notin Procs
      /\ Padres \cap Procs = {}
      /\ 0 \notin Movs /\ Movs \subseteq Pos0 /\ 0 \in Pos0
  BY Tengo, ConstantesMovs DEF Inv, ConstantesMovs, Pos0
<1>2. c \in Pcs /\ c \in {"A_cab", "L_cab", "U_cab"} /\ o \in Ops
      /\ (o = "LN" => c = "A_cab") /\ (o = "LL" => c = "L_cab")
      /\ (o \in {"LU", "LD"} => c = "U_cab")
  BY DEF Pcs, Agregan, Ligan, Desligan, Leen, Ops
<1> HIDE DEF c
<1>3. q \in RegR /\ q.pc = c /\ q.op = o /\ q.r = r /\ q.x = x
  BY <1>1, <1>2 DEF RegR
<1> HIDE DEF q
<1>4. pr'[p] = q /\ pr' \in [Procs -> RegR] /\ \A s \in Procs \ {p} : pr'[s] = pr[s]
  BY <1>0, <1>1, <1>3 DEF Tipos
<1>5. /\ o = "LN" => de' = de
      /\ o = "LL" => x \in Movs /\ de[x] = p /\ de' = [de EXCEPT ![x] = r]
      /\ o = "LU" => x \in Movs /\ de[x] = r /\ de' = [de EXCEPT ![x] = p]
      /\ o = "LD" => x \in Movs /\ de[x] = r /\ de' = [de EXCEPT ![x] = Nadie]
  BY <1>0 DEF Movibles
<1>d. /\ de' \in [Movs -> Padres \cup Procs \cup {Nadie}]
      /\ \A u \in Movs \ {x} : de'[u] = de[u]
      /\ o = "LL" => de'[x] = r
      /\ o = "LU" => de'[x] = p
      /\ o = "LD" => de'[x] = Nadie
      /\ o # "LN" => de[x] \in {p, r}
  BY <1>1, <1>5 DEF Tipos
<1>6. Tipos'
  BY <1>0, <1>1, <1>4, <1>d DEF Tipos
<1>7. Turno'
  <2>1. \A s \in Procs : pr'[s].pc \in ConCab => cab' = s
    BY <1>0, <1>1, <1>2, <1>3, <1>4 DEF Turno, ConCab
  <2>2. \A s \in Procs : Activo(s)' =>
           DuenoDe[pr'[s].r] = s \/ (DuenoDe[pr'[s].r] = Todos /\ blo'[s] = "dentro")
    BY <1>0, <1>1, <1>2, <1>3, <1>4 DEF Turno, Activo
  <2> QED BY <2>1, <2>2, <1>0, <1>1 DEF Turno
<1>u. Suyo(q) = x
  BY <1>2, <1>3 DEF Suyo
<1>v. o \in {"LL", "LU", "LD"} => x \in Movs /\ x <= fin /\ ~mov[x].borrado /\ x # 0
  <2>1. o \in {"LL", "LU", "LD"} => x \in Movs /\ de[x] # Nadie
    BY <1>1, <1>5, <1>d
  <2> QED BY <2>1, <1>1 DEF Propios
<1>8. Propios'
  <2>1. \A u \in Movs : de'[u] # Nadie => u <= fin' /\ ~mov'[u].borrado
    BY <1>0, <1>1, <1>5, <1>d, <1>v DEF Propios
  <2>2. \A s \in Procs \ {p} : /\ Suyo(pr'[s]) = Suyo(pr[s]) /\ pr'[s] = pr[s]
                               /\ Borrando(s)' <=> Borrando(s)
    BY <1>4 DEF Borrando
  <2>3. \A s \in Procs \ {p} : Borrando(s) => Suyo(pr[s]) \in Movs /\ de[Suyo(pr[s])] = Nadie
    BY <1>1, Tengo DEF Propios, Borrando
  <2>4. \A s \in Procs \ {p} : Borrando(s) => ~(o # "LN" /\ Suyo(pr[s]) = x)
    BY <2>3, <1>1, <1>d
  <2>5. Borrando(p)' <=> o = "LD"
    BY <1>2, <1>3, <1>4 DEF Borrando, Desligan, Leen, Juntan, Limpian, Borran
  <2>6. \A s, t \in Procs :
            Borrando(s)' /\ Borrando(t)' /\ Suyo(pr'[s]) = Suyo(pr'[t]) => s = t
    <3> TAKE s, t \in Procs
    <3>1. CASE s = p \/ t = p
      BY <3>1, <2>2, <2>4, <2>5, <1>4, <1>u
    <3>2. CASE s # p /\ t # p
      BY <3>2, <2>2, <1>1 DEF Propios
    <3> QED BY <3>1, <3>2
  <2>7. ASSUME NEW s \in Procs
        PROVE  /\ pr'[s].pc \in Agregan => pr'[s].op = "LN"
               /\ pr'[s].pc \in Ligan \cup Solos \cup {"L_ult4", "L_fin"} =>
                      pr'[s].op \in {"LN", "LL"}
               /\ pr'[s].pc \in Desligan => pr'[s].op \in {"LU", "LD"} /\ Suyo(pr'[s]) # 0
               /\ pr'[s].pc \in Borran => pr'[s].op = "LD"
               /\ pr'[s].op = "LU" /\ pr'[s].pc \in Desligan \cup {"escribe"} =>
                     Suyo(pr'[s]) # 0 /\ de'[Suyo(pr'[s])] = s
               /\ Borrando(s)' =>
                     /\ de'[Suyo(pr'[s])] = Nadie
                     /\ Suyo(pr'[s]) <= fin'
                     /\ mov'[Suyo(pr'[s])].borrado <=> pr'[s].pc = "D_inicio"
    <3>1. CASE s = p
      BY <3>1, <2>5, <1>0, <1>2, <1>3, <1>4, <1>d, <1>u, <1>v DEF Agregan, Ligan, Solos, Desligan, Borran,
         Leen, Juntan, Limpian
    <3>2. CASE s # p
      <4>1. pr[s].op = "LU" /\ pr[s].pc \in Desligan \cup {"escribe"} =>
               Suyo(pr[s]) \in Movs /\ de[Suyo(pr[s])] = s /\ ~(o # "LN" /\ Suyo(pr[s]) = x)
        BY <3>2, <1>1, <1>d, Tengo DEF Propios
      <4>2. pr[s].op = "LU" /\ pr[s].pc \in Desligan \cup {"escribe"} =>
               de'[Suyo(pr[s])] = s
        BY <4>1, <1>5, <1>d
      <4>3. Borrando(s) => de'[Suyo(pr[s])] = Nadie
        BY <2>3, <2>4, <3>2, <1>5, <1>d
      <4> QED BY <3>2, <4>2, <4>3, <2>2, <1>0, <1>1 DEF Propios
    <3> QED BY <3>1, <3>2
  <2> QED BY <2>1, <2>6, <2>7 DEF Propios
<1>p. EnPaz(r)
  <2> SUFFICES ASSUME NEW s \in Procs, pr[s].r = r, s # p, pr[s].pc # "libre" PROVE FALSE
    BY <1>0 DEF EnPaz
  <2>1. pr[s].pc \notin {"muerto", "pisado"}
    BY <1>0 DEF Pisado
  <2>2. Activo(s)' /\ Activo(p)' /\ pr'[s].r = pr'[p].r
    BY <2>1, <1>2, <1>3, <1>4 DEF Activo
  <2>3. Todos \notin Procs
    BY ConstantesMovs DEF ConstantesMovs
  <2> QED BY <2>2, <2>3, <1>7 DEF Turno
<1>9. Formas(f)'
  <2>1. Cadena(padre[r], mov, D, f)
    BY <1>1, <1>p DEF Formas
  <2>2. \A s \in Padres \ {r} : De(de', s) = De(de, s)
    BY <1>1, <1>5, <1>d DEF De
  <2>3. Forma(q, padre[r], De(de', r), mov, f)
    <3>1. CASE o = "LN"
      BY <3>1, <2>1, <1>2, <1>3, <1>5 DEF Forma, FormaLiga, FormaDesliga, FormaEntera, Ligan, Solos,
         Leen, Juntan, Limpian, Borran, Enteras, Agregan
    <3>2. CASE o = "LL"
      <4>1. De(de', r) \ {x} = D /\ x \in De(de', r)
        BY <3>2, <1>1, <1>5, <1>d DEF De
      <4> QED BY <3>2, <4>1, <2>1, <1>2, <1>3, <1>u DEF Forma, FormaLiga, FormaDesliga, FormaEntera,
         Ligan, Solos, Leen, Juntan, Limpian, Borran, Enteras, Agregan
    <3>3. CASE o \in {"LU", "LD"}
      <4>1. De(de', r) \cup {x} = D
        BY <3>3, <1>1, <1>5, <1>d DEF De
      <4> QED BY <3>3, <4>1, <2>1, <1>2, <1>3, <1>u DEF Forma, FormaLiga, FormaDesliga, FormaEntera,
         Ligan, Solos, Leen, Juntan, Limpian, Borran, Enteras, Agregan
    <3> QED BY <3>1, <3>2, <3>3
  <2>4. \A s \in Padres : EnPaz(s)' => Cadena(padre'[s], mov', De(de', s), f)
    <3> SUFFICES ASSUME NEW s \in Padres, EnPaz(s)'
                 PROVE  Cadena(padre'[s], mov', De(de', s), f)
      OBVIOUS
    <3>1. s # r
      BY <1>2, <1>3, <1>4 DEF EnPaz
    <3>2. EnPaz(s)
      BY <1>0, <1>4 DEF EnPaz
    <3> QED BY <3>1, <3>2, <2>2, <1>0, <1>1 DEF Formas
  <2>5. \A s \in Procs : Forma(pr'[s], padre'[pr'[s].r], De(de', pr'[s].r), mov', f)
    <3> SUFFICES ASSUME NEW s \in Procs
                 PROVE  Forma(pr'[s], padre'[pr'[s].r], De(de', pr'[s].r), mov', f)
      OBVIOUS
    <3>1. CASE s = p
      BY <3>1, <2>3, <1>0, <1>3, <1>4
    <3>2. CASE s # p /\ ~Activo(s)
      BY <3>2, <1>4, FormaOciosa DEF Activo
    <3>3. CASE s # p /\ Activo(s)
      <4>1. pr[s].r # r /\ pr[s].r \in Padres
        BY <3>3, <1>p, <1>1 DEF EnPaz, Activo, Tipos, RegR
      <4> QED BY <4>1, <3>3, <2>2, <1>0, <1>1, <1>4 DEF Formas
    <3> QED BY <3>1, <3>2, <3>3
  <2> QED BY <2>4, <2>5 DEF Formas
<1> QED BY <1>6, <1>7, <1>8, <1>9 DEF Inv

\* A killed process leaves the chains of the other principals whole.
LEMMA PasoMuere ==
    ASSUME NEW f \in [Movs -> Nat], Inv(f), NEW p \in Procs, Muere(p)
    PROVE  Inv(f)'
<1> DEFINE q == [Ocioso(pr[p].r) EXCEPT !.pc = "muerto"]
<1>0. /\ pr' = [pr EXCEPT ![p] = q] /\ cab' = (IF cab = p THEN Nadie ELSE cab)
      /\ blo' = [blo EXCEPT ![p] = "fuera"]
      /\ UNCHANGED <<padre, mov, libre, fin, de>>
  BY DEF Muere, Va, archivos
<1>1. Tipos /\ Turno /\ Propios /\ Formas(f) /\ pr[p] \in RegR /\ pr[p].r \in Padres
  BY Tengo DEF Inv
<1>2. q \in RegR /\ q.pc = "muerto" /\ q.r = pr[p].r
  <2>1. Cero \in RegP /\ Vacio \in RegM /\ 0 \in Pos0 /\ "muerto" \in Pcs /\ "LN" \in Ops
    BY ConstantesMovs DEF Cero, Vacio, RegP, RegM, Pos0, ConstantesMovs, Pcs, Ops
  <2> QED BY <2>1, <1>1 DEF Ocioso, RegR
<1> HIDE DEF q
<1>4. pr'[p] = q /\ pr' \in [Procs -> RegR] /\ \A s \in Procs \ {p} : pr'[s] = pr[s]
  BY <1>0, <1>1, <1>2 DEF Tipos
<1>b. /\ blo' \in [Procs -> {"fuera", "espera", "dentro"}] /\ blo'[p] = "fuera"
      /\ \A s \in Procs \ {p} : blo'[s] = blo[s]
  BY <1>0, <1>1 DEF Tipos
<1>6. Tipos'
  BY <1>0, <1>1, <1>4, <1>b DEF Tipos
<1>7. Turno'
  <2>1. \A s \in Procs : pr'[s].pc \in ConCab => cab' = s
    BY <1>0, <1>1, <1>2, <1>4 DEF Turno, ConCab
  <2>2. \A s \in Procs : Activo(s)' =>
           DuenoDe[pr'[s].r] = s \/ (DuenoDe[pr'[s].r] = Todos /\ blo'[s] = "dentro")
    BY <1>1, <1>2, <1>4, <1>b DEF Turno, Activo
  <2> QED BY <2>1, <2>2, <1>1, <1>b DEF Turno
<1>8. Propios'
  BY <1>0, <1>1, <1>2, <1>4, PasoPropios
     DEF Desligan, Agregan, Ligan, Solos, Borran, Leen, Juntan, Limpian
<1>9. Formas(f)'
  <2>1. \A s \in Padres : EnPaz(s)' => EnPaz(s)
    <3> SUFFICES ASSUME NEW s \in Padres, EnPaz(s)', NEW t \in Procs, pr[t].r = s
                 PROVE  pr[t].pc = "libre"
      BY DEF EnPaz
    <3>1. t # p
      BY <1>2, <1>4 DEF EnPaz
    <3> QED BY <3>1, <1>4 DEF EnPaz
  <2>2. \A s \in Procs : Forma(pr'[s], padre'[pr'[s].r], De(de', pr'[s].r), mov', f)
    <3> SUFFICES ASSUME NEW s \in Procs
                 PROVE  Forma(pr'[s], padre'[pr'[s].r], De(de', pr'[s].r), mov', f)
      OBVIOUS
    <3>1. CASE s = p
      BY <3>1, <1>2, <1>4, FormaOciosa
    <3>2. CASE s # p
      BY <3>2, <1>0, <1>1, <1>4 DEF Formas
    <3> QED BY <3>1, <3>2
  <2> QED BY <2>1, <2>2, <1>0, <1>1 DEF Formas
<1> QED BY <1>6, <1>7, <1>8, <1>9 DEF Inv

\* The B instructions, and a step that does nothing.
LEMMA PasoBloque ==
    ASSUME NEW f \in [Movs -> Nat], Inv(f), NEW p \in Procs,
           PideB(p) \/ TomaB(p) \/ SueltaB(p) \/ UNCHANGED vars
    PROVE  Inv(f)'
<1>0. /\ UNCHANGED <<padre, mov, libre, fin, de, cab, pr>>
      /\ \/ blo' = blo
         \/ /\ pr[p].pc = "libre"
            /\ \E a \in {"fuera", "espera"} : blo' = [blo EXCEPT ![p] = a]
         \/ /\ pr[p].pc = "libre" /\ blo' = [blo EXCEPT ![p] = "dentro"]
            /\ \A q \in Procs : blo[q] # "dentro"
  BY DEF PideB, TomaB, SueltaB, Camina, En, Paso, vars, archivos, candados
<1>1. Tipos /\ Turno /\ Propios /\ Formas(f)
  BY DEF Inv
<1>2. Tipos'
  BY <1>0, <1>1 DEF Tipos
<1>3. Turno'
  <2>1. \A s \in Procs : pr'[s].pc \in ConCab => cab' = s
    BY <1>0, <1>1 DEF Turno
  <2>2. \A s \in Procs : Activo(s)' =>
           DuenoDe[pr'[s].r] = s \/ (DuenoDe[pr'[s].r] = Todos /\ blo'[s] = "dentro")
    BY <1>0, <1>1 DEF Turno, Activo, Tipos
  <2>3. \A s, t \in Procs : blo'[s] = "dentro" /\ blo'[t] = "dentro" => s = t
    BY <1>0, <1>1 DEF Turno, Tipos
  <2> QED BY <2>1, <2>2, <2>3 DEF Turno
<1>4. Propios'
  BY <1>0, <1>1 DEF Propios, Borrando
<1>5. Formas(f)'
  BY <1>0, <1>1 DEF Formas, EnPaz
<1> QED BY <1>2, <1>3, <1>4, <1>5 DEF Inv

\* The empty files.
LEMMA InvInicial ==
    ASSUME Init
    PROVE  \E f \in [Movs -> Nat] : Inv(f)
<1>0. PICK f \in [Movs -> Nat] : f = [x \in Movs |-> 0]
  OBVIOUS
<1>1. \A p \in Procs : pr[p] \in RegR /\ pr[p].pc = "libre"
  <2> SUFFICES ASSUME NEW p \in Procs PROVE pr[p] \in RegR /\ pr[p].pc = "libre"
    OBVIOUS
  <2> DEFINE r == CHOOSE r \in Padres : DuenoDe[r] \in {p, Todos}
  <2>1. r \in Padres
    BY ConstantesMovs DEF ConstantesMovs
  <2>2. pr[p] = Ocioso(r)
    BY DEF Init
  <2>3. Cero \in RegP /\ Vacio \in RegM /\ 0 \in Pos0 /\ "libre" \in Pcs /\ "LN" \in Ops
    BY ConstantesMovs DEF Cero, Vacio, RegP, RegM, Pos0, ConstantesMovs, Pcs, Ops
  <2> HIDE DEF r
  <2> QED BY <2>1, <2>2, <2>3 DEF Ocioso, RegR
<1>2. Tipos
  <2>1. Cero \in RegP /\ Vacio \in RegM /\ 0 \in Pos0
    BY ConstantesMovs DEF Cero, Vacio, RegP, RegM, Pos0, ConstantesMovs
  <2>2. pr \in [Procs -> RegR]
    <3>1. \E S : pr = [p \in Procs |-> S[p]]
      <4> DEFINE S == [p \in Procs |-> Ocioso(CHOOSE r \in Padres : DuenoDe[r] \in {p, Todos})]
      <4>1. pr = S
        BY DEF Init
      <4>2. S = [p \in Procs |-> S[p]]
        OBVIOUS
      <4> HIDE DEF S
      <4> QED BY <4>1, <4>2
    <3> QED BY <3>1, <1>1
  <2> QED BY <2>1, <2>2 DEF Tipos, Init
<1>3. Turno
  BY <1>1 DEF Turno, Init, ConCab, Activo
<1>4. Propios
  BY <1>1 DEF Propios, Init, Borrando, Agregan, Ligan, Solos, Desligan, Leen, Juntan, Limpian,
     Borran
<1>5. Formas(f)
  <2>1. \A r \in Padres : De(de, r) = {} /\ padre[r].pri = 0 /\ padre[r].ult = 0
    BY ConstantesMovs DEF Init, De, Cero, ConstantesMovs
  <2>2. \A r \in Padres : Cadena(padre[r], mov, De(de, r), f)
    BY <2>1 DEF Cadena
  <2> QED BY <2>2, <1>1, FormaOciosa DEF Formas
<1> QED BY <1>2, <1>3, <1>4, <1>5 DEF Inv

\* The head of the free list has the least rank.
LEMMA Cabeza ==
    ASSUME NEW L \in SUBSET Movs, NEW g \in [Movs -> Nat], NEW h \in L, NEW sig,
           \A y \in L : y # h => \E z \in L : sig[z] = y /\ g[z] < g[y]
    PROVE  \A y \in L : g[h] <= g[y]
<1> DEFINE R == {g[y] : y \in L}
<1>0. \A y \in L : g[y] \in Nat
  OBVIOUS
<1>1. PICK t \in R : \A u \in R : t <= u
  <2>1. R \subseteq Nat /\ R # {}
    BY <1>0
  <2> HIDE DEF R
  <2> QED BY <2>1, Minimo
<1>2. PICK y \in L : g[y] = t
  OBVIOUS
<1>3. \A z \in L : g[y] <= g[z]
  BY <1>1, <1>2
<1>4. y = h
  BY <1>0, <1>3
<1> QED BY <1>3, <1>4

\* p has a record of the free list in its hands.
Mano(p) == pr[p].pc \in {"A_escribe", "D_inicio"}

\* A step that neither takes a record nor leaves one.
LEMMA ListaIgual ==
    ASSUME NEW L \in SUBSET Movs, NEW g, ListaDe(L, g), NEW p \in Procs,
           Tipos, Tipos',
           \A q \in Procs \ {p} : pr'[q] = pr[q], fin' = fin, libre' = libre,
           \A y \in Movs : mov'[y].borrado = mov[y].borrado /\ mov'[y].sig = mov[y].sig,
           ~Mano(p), ~Mano(p)', pr[p].pc = "muerto" <=> pr'[p].pc = "muerto"
    PROVE  ListaDe(L, g)'
<1>1. \A q \in Procs : (Mano(q) <=> Mano(q)') /\ (Mano(q) => pr'[q] = pr[q])
  BY DEF Mano
<1>2. EnCurso' = EnCurso
  BY <1>1 DEF EnCurso, Mano
<1>3. 1..fin \subseteq Movs
  BY ConstantesMovs DEF Tipos, Pos0, Movs, ConstantesMovs
<1>4. Borrados' = Borrados
  BY <1>3 DEF Borrados
<1>5. Muertos' = Muertos
  BY DEF Muertos
<1>6. \A y \in L : /\ mov'[y].sig \in L \cup {0}
                   /\ mov'[y].sig # 0 => g[y] < g[mov'[y].sig]
                   /\ y # libre' => \E z \in L : mov'[z].sig = y
  BY DEF ListaDe
<1>7. ASSUME NEW q \in Procs
      PROVE  /\ pr'[q].pc = "A_escribe" => /\ pr'[q].x \notin L /\ pr'[q].x \in Movs
                                           /\ pr'[q].x \in Borrados' \cup {fin' + 1}
             /\ pr'[q].pc = "D_inicio" => pr'[q].x \notin L /\ mov'[pr'[q].x].sig = libre'
                                          /\ pr'[q].x \in Movs
  BY <1>1, <1>4 DEF ListaDe, Mano
<1> QED BY <1>2, <1>4, <1>5, <1>6, <1>7 DEF ListaDe

\* movfrsp takes the first of the list: the rest is the list.
LEMMA ListaSaca ==
    ASSUME NEW f, Inv(f), Inv(f)', NEW L \in SUBSET Movs, NEW g \in [Movs -> Nat], ListaDe(L, g),
           NEW p \in Procs, SacaLibre(p)
    PROVE  \E L2 \in SUBSET Movs : ListaDe(L2, g)'
<1> DEFINE x == IF libre = 0 THEN fin + 1 ELSE libre  L2 == L \ {libre}
<1>0. /\ pr[p].pc = "A_saca" /\ x <= MaxMovs
      /\ pr' = [pr EXCEPT ![p] = [pr[p] EXCEPT !.pc = "A_escribe", !.x = x]]
      /\ libre' = IF libre = 0 THEN 0 ELSE mov[libre].sig
      /\ UNCHANGED <<padre, mov, fin, cab, de>>
  BY DEF SacaLibre, SiguienteLibre, En, Va, candados
<1>1. Tipos /\ Turno /\ Turno' /\ cab = p /\ fin \in Nat /\ MaxMovs \in Nat /\ libre \in Nat
      /\ pr[p] \in RegR
  BY <1>0, ConstantesMovs DEF Inv, Turno, ConCab, Tipos, Pos0, ConstantesMovs
<1>2. pr'[p].pc = "A_escribe" /\ pr'[p].x = x /\ \A q \in Procs \ {p} : pr'[q] = pr[q]
  BY <1>0, <1>1 DEF Tipos, RegR
<1>3. \A q \in Procs : ~Mano(q) /\ (Mano(q)' <=> q = p)
  BY <1>0, <1>1, <1>2 DEF Turno, ConCab, Mano
<1>4. EnCurso = {} /\ EnCurso' = {x}
  BY <1>2, <1>3 DEF EnCurso, Mano
<1>5. Borrados' = Borrados /\ Muertos' = Muertos
  BY <1>0, <1>2 DEF Borrados, Muertos
<1>l. /\ L \subseteq Borrados /\ libre \in L \cup {0} /\ (libre = 0 => L = {})
      /\ \A y \in L : /\ mov[y].sig \in L \cup {0}
                      /\ mov[y].sig # 0 => g[y] < g[mov[y].sig]
                      /\ y # libre => \E z \in L : mov[z].sig = y
      /\ Cardinality((Borrados \ L) \ EnCurso) <= Cardinality(Muertos)
  BY DEF ListaDe
<1>6. \A y \in L : y \in Movs /\ g[y] \in Nat /\ y # 0
  BY <1>1 DEF Movs
<1>7. \A y \in L : g[libre] <= g[y]
  <2>1. CASE L = {}
    BY <2>1
  <2>2. CASE L # {}
    <3>1. libre \in L
      BY <2>2, <1>l
    <3> DEFINE sig == [y \in Movs |-> mov[y].sig]
    <3>2. \A y \in L : y # libre => \E z \in L : sig[z] = y /\ g[z] < g[y]
      BY <1>l, <1>6
    <3> HIDE DEF sig
    <3> QED BY <3>1, <3>2, Cabeza, ZenonT(40)
  <2> QED BY <2>1, <2>2
<1>x. x \notin L2 /\ x \in Movs /\ x \in Borrados \cup {fin + 1}
  <2>1. CASE libre = 0
    BY <2>1, <1>0, <1>1, <1>l DEF Movs
  <2>2. CASE libre # 0
    BY <2>2, <1>l, <1>6
  <2> QED BY <2>1, <2>2
<1>8. \A y \in L2 : /\ mov'[y].sig \in L2 \cup {0}
                    /\ mov'[y].sig # 0 => g[y] < g[mov'[y].sig]
                    /\ y # libre' => \E z \in L2 : mov'[z].sig = y
  <2> TAKE y \in L2
  <2>1. y \in L /\ y # libre /\ libre # 0 /\ libre \in L /\ libre' = mov[libre].sig
    BY <1>0, <1>l
  <2>2. mov[y].sig # libre
    BY <2>1, <1>6, <1>7, <1>l
  <2>3. y # libre' => \E z \in L2 : mov[z].sig = y
    BY <2>1, <1>l
  <2> QED BY <2>1, <2>2, <2>3, <1>l, <1>0
<1>9. libre' \in L2 \cup {0} /\ (libre' = 0 => L2 = {})
  <2>1. CASE libre = 0
    BY <2>1, <1>0, <1>l
  <2>2. CASE libre # 0
    <3>1. libre \in L /\ libre' = mov[libre].sig /\ libre' \in L \cup {0}
      BY <2>2, <1>0, <1>l
    <3>2. libre' # 0 => libre' # libre
      BY <3>1, <1>6, <1>l
    <3>3. ASSUME libre' = 0, L2 # {} PROVE FALSE
      <4> DEFINE R == {g[y] : y \in L2}
      <4>1. PICK t \in R : \A u \in R : t <= u
        <5>1. R \subseteq Nat /\ R # {}
          BY <1>6, <3>3
        <5> HIDE DEF R
        <5> QED BY <5>1, Minimo
      <4>2. PICK y \in L2 : g[y] = t
        OBVIOUS
      <4>3. PICK z \in L2 : mov[z].sig = y
        BY <1>8, <3>3, <1>0, <4>2, <1>6
      <4>4. g[z] < g[y]
        BY <4>3, <1>l, <1>6
      <4> QED BY <4>1, <4>2, <4>3, <4>4, <1>6
    <3> QED BY <3>1, <3>2, <3>3
  <2> QED BY <2>1, <2>2
<1>10. (Borrados \ L2) \ {x} = (Borrados \ L) \ {}
  <2>1. CASE libre = 0
    BY <2>1, <1>l, <1>1 DEF Borrados
  <2>2. CASE libre # 0
    BY <2>2, <1>l
  <2> QED BY <2>1, <2>2
<1>11. Cardinality((Borrados' \ L2) \ EnCurso') <= Cardinality(Muertos')
  BY <1>4, <1>5, <1>10, <1>l
<1>12. \A q \in Procs :
         /\ pr'[q].pc = "A_escribe" => /\ pr'[q].x \notin L2 /\ pr'[q].x \in Movs
                                       /\ pr'[q].x \in Borrados' \cup {fin' + 1}
         /\ pr'[q].pc = "D_inicio" => /\ pr'[q].x \notin L2 /\ pr'[q].x \in Movs
                                      /\ mov'[pr'[q].x].sig = libre'
  BY <1>0, <1>2, <1>3, <1>5, <1>x DEF Mano
<1>13. PICK K \in SUBSET Movs : K = L2
  OBVIOUS
<1>14. L2 \subseteq Borrados'
  BY <1>5, <1>l
<1> HIDE DEF L2, x
<1>15. ListaDe(K, g)'
  BY <1>8, <1>9, <1>11, <1>12, <1>13, <1>14 DEF ListaDe
<1> QED BY <1>15

\* vdadd writes the record it took: it is deleted no more.
LEMMA ListaNuevo ==
    ASSUME NEW f, Inv(f), Inv(f)', NEW L \in SUBSET Movs, NEW g \in [Movs -> Nat], ListaDe(L, g),
           NEW p \in Procs, EscribeNuevo(p)
    PROVE  ListaDe(L, g)'
<1> DEFINE x == pr[p].x
<1>0. /\ pr[p].pc = "A_escribe" /\ cab' = Nadie
      /\ mov' = [mov EXCEPT ![x] = Vacio] /\ fin' = FinCon(x)
      /\ pr' = [pr EXCEPT ![p] = [pr[p] EXCEPT !.pc = "L_cab", !.b2 = Vacio]]
      /\ UNCHANGED <<padre, libre>>
  BY DEF En, Va, EscribeNuevo
<1>1. Tipos /\ Tipos' /\ Turno /\ Turno' /\ cab = p /\ fin \in Nat /\ MaxMovs \in Nat
      /\ Nadie \notin Procs /\ pr[p] \in RegR /\ mov \in [Movs -> RegM]
  BY <1>0, ConstantesMovs DEF Inv, Turno, ConCab, Tipos, Pos0, ConstantesMovs
<1>2. pr'[p].pc = "L_cab" /\ \A q \in Procs \ {p} : pr'[q] = pr[q]
  BY <1>0, <1>1 DEF Tipos, RegR
<1>3. \A q \in Procs : ~Mano(q)' /\ (Mano(q) <=> q = p)
  BY <1>0, <1>1, <1>2 DEF Turno, ConCab, Mano
<1>4. EnCurso = {x} /\ EnCurso' = {}
  BY <1>3 DEF EnCurso, Mano
<1>l. /\ L \subseteq Borrados /\ libre \in L \cup {0} /\ (libre = 0 => L = {})
      /\ \A y \in L : /\ mov[y].sig \in L \cup {0}
                      /\ mov[y].sig # 0 => g[y] < g[mov[y].sig]
                      /\ y # libre => \E z \in L : mov[z].sig = y
      /\ Cardinality((Borrados \ L) \ EnCurso) <= Cardinality(Muertos)
      /\ x \notin L /\ x \in Movs /\ x \in Borrados \cup {fin + 1}
  BY <1>0 DEF ListaDe
<1>5. mov'[x] = Vacio /\ ~Vacio.borrado /\ \A y \in Movs \ {x} : mov'[y] = mov[y]
  BY <1>0, <1>1, <1>l DEF Vacio
<1>6. Borrados' = Borrados \ {x}
  <2>1. fin' = IF x > fin THEN x ELSE fin
    BY <1>0 DEF FinCon
  <2>2. x \in Nat /\ x <= fin + 1 /\ 1..fin \subseteq Movs /\ 1..fin' \subseteq Movs
    BY <1>1, <1>l DEF Movs, Borrados, Tipos, Pos0
  <2>3. \A y \in Movs \ {x} : y \in 1..fin' <=> y \in 1..fin
    BY <2>1, <2>2, <1>1 DEF Movs
  <2> QED BY <2>2, <2>3, <1>5 DEF Borrados
<1>7. Muertos' = Muertos
  BY <1>0, <1>2 DEF Muertos
<1>8. \A y \in L : mov'[y] = mov[y]
  BY <1>5, <1>l
<1>9. \A y \in L : /\ mov'[y].sig \in L \cup {0}
                   /\ mov'[y].sig # 0 => g[y] < g[mov'[y].sig]
                   /\ y # libre' => \E z \in L : mov'[z].sig = y
  BY <1>8, <1>l, <1>0
<1>10. (Borrados' \ L) \ EnCurso' = (Borrados \ L) \ EnCurso
  BY <1>4, <1>6
<1> QED BY <1>0, <1>3, <1>6, <1>7, <1>9, <1>10, <1>l DEF ListaDe, Mano

\* vddel links the record to the list, which does not start at it yet.
LEMMA ListaEnlaza ==
    ASSUME NEW f, Inv(f), Inv(f)', NEW L \in SUBSET Movs, NEW g \in [Movs -> Nat], ListaDe(L, g),
           NEW p \in Procs, En(p, "D_enlaza"), mov' = Enlazado(pr[p].x),
           Va(p, [pr[p] EXCEPT !.pc = "D_inicio"]),
           UNCHANGED <<padre, libre, fin, candados, de>>
    PROVE  ListaDe(L, g)'
<1> DEFINE x == pr[p].x
<1>0. /\ pr[p].pc = "D_enlaza" /\ cab' = cab
      /\ mov' = [mov EXCEPT ![x].sig = libre, ![x].borrado = TRUE]
      /\ pr' = [pr EXCEPT ![p] = [pr[p] EXCEPT !.pc = "D_inicio"]]
      /\ UNCHANGED <<padre, libre, fin>>
  BY DEF En, Va, Enlazado, candados
<1>1. Tipos /\ Tipos' /\ Turno /\ Turno' /\ cab = p /\ fin \in Nat /\ MaxMovs \in Nat
      /\ pr[p] \in RegR /\ mov \in [Movs -> RegM] /\ Propios
  BY <1>0, ConstantesMovs DEF Inv, Turno, ConCab, Tipos, Pos0, ConstantesMovs
<1>2. pr'[p].pc = "D_inicio" /\ pr'[p].x = x /\ \A q \in Procs \ {p} : pr'[q] = pr[q]
  BY <1>0, <1>1 DEF Tipos, RegR
<1>3. \A q \in Procs : ~Mano(q) /\ (Mano(q)' <=> q = p)
  BY <1>0, <1>1, <1>2 DEF Turno, ConCab, Mano
<1>4. EnCurso = {} /\ EnCurso' = {x}
  BY <1>2, <1>3 DEF EnCurso, Mano
<1>l. /\ L \subseteq Borrados /\ libre \in L \cup {0} /\ (libre = 0 => L = {})
      /\ \A y \in L : /\ mov[y].sig \in L \cup {0}
                      /\ mov[y].sig # 0 => g[y] < g[mov[y].sig]
                      /\ y # libre => \E z \in L : mov[z].sig = y
      /\ Cardinality((Borrados \ L) \ EnCurso) <= Cardinality(Muertos)
  BY DEF ListaDe
<1>x. x \in Movs /\ x <= fin /\ x \notin Borrados
  <2>1. Borrando(p) /\ Suyo(pr[p]) = x
    BY <1>0, <1>1 DEF Propios, Borrando, Desligan, Borran, Suyo
  <2>2. x <= fin /\ ~mov[x].borrado /\ x # 0
    BY <2>1, <1>0, <1>1 DEF Propios, Borrando
  <2> QED BY <2>2, <1>1 DEF Borrados, Movs, RegR, Pos0
<1>5. mov'[x].borrado /\ mov'[x].sig = libre /\ \A y \in Movs \ {x} : mov'[y] = mov[y]
  BY <1>0, <1>1, <1>x DEF RegM
<1>6. Borrados' = Borrados \cup {x}
  <2>1. 1..fin \subseteq Movs /\ x \in 1..fin
    BY <1>1, <1>x DEF Movs, Tipos, Pos0
  <2> QED BY <2>1, <1>0, <1>5 DEF Borrados
<1>7. Muertos' = Muertos
  BY <1>0, <1>2 DEF Muertos
<1>8. \A y \in L : mov'[y] = mov[y]
  BY <1>5, <1>l, <1>x
<1>9. \A y \in L : /\ mov'[y].sig \in L \cup {0}
                   /\ mov'[y].sig # 0 => g[y] < g[mov'[y].sig]
                   /\ y # libre' => \E z \in L : mov'[z].sig = y
  BY <1>8, <1>l, <1>0
<1>10. (Borrados' \ L) \ EnCurso' = (Borrados \ L) \ EnCurso
  BY <1>4, <1>6, <1>x
<1> QED BY <1>0, <1>2, <1>3, <1>5, <1>6, <1>7, <1>9, <1>10, <1>l, <1>x, ZenonT(40) DEF ListaDe, Mano

\* vddel makes the list start at the deleted record.
LEMMA ListaInicio ==
    ASSUME NEW f, Inv(f), Inv(f)', NEW L \in SUBSET Movs, NEW g \in [Movs -> Nat], ListaDe(L, g),
           NEW p \in Procs, En(p, "D_inicio"), libre' = pr[p].x, cab' = Nadie,
           Va(p, [pr[p] EXCEPT !.pc = "escribe", !.b2 = mov[pr[p].x]]),
           UNCHANGED <<padre, mov, fin, candP, candM, de>>
    PROVE  \E L2 \in SUBSET Movs, g2 \in [Movs -> Nat] : ListaDe(L2, g2)'
<1> DEFINE x == pr[p].x  L2 == L \cup {x}
           g2 == [y \in Movs |-> IF y = x THEN 0 ELSE g[y] + 1]
<1>0. /\ pr[p].pc = "D_inicio"
      /\ pr' = [pr EXCEPT ![p] = [pr[p] EXCEPT !.pc = "escribe", !.b2 = mov[pr[p].x]]]
  BY DEF En, Va
<1>1. Tipos /\ Tipos' /\ Turno /\ Turno' /\ cab = p /\ fin \in Nat /\ MaxMovs \in Nat
      /\ Nadie \notin Procs /\ pr[p] \in RegR /\ mov \in [Movs -> RegM] /\ Propios
  BY <1>0, ConstantesMovs DEF Inv, Turno, ConCab, Tipos, Pos0, ConstantesMovs
<1>2. pr'[p].pc = "escribe" /\ \A q \in Procs \ {p} : pr'[q] = pr[q]
  BY <1>0, <1>1 DEF Tipos, RegR
<1>3. \A q \in Procs : ~Mano(q)' /\ (Mano(q) <=> q = p)
  BY <1>0, <1>1, <1>2 DEF Turno, ConCab, Mano
<1>4. EnCurso = {x} /\ EnCurso' = {}
  BY <1>3 DEF EnCurso, Mano
<1>l. /\ L \subseteq Borrados /\ libre \in L \cup {0} /\ (libre = 0 => L = {})
      /\ \A y \in L : /\ mov[y].sig \in L \cup {0}
                      /\ mov[y].sig # 0 => g[y] < g[mov[y].sig]
                      /\ y # libre => \E z \in L : mov[z].sig = y
      /\ Cardinality((Borrados \ L) \ EnCurso) <= Cardinality(Muertos)
      /\ x \notin L /\ x \in Movs /\ mov[x].sig = libre
  BY <1>0 DEF ListaDe
<1>x. x \in Borrados /\ x # 0
  <2>1. Borrando(p) /\ Suyo(pr[p]) = x
    BY <1>0, <1>1 DEF Propios, Borrando, Desligan, Borran, Suyo
  <2>2. x <= fin /\ mov[x].borrado /\ x # 0
    BY <2>1, <1>0, <1>1 DEF Propios, Borrando
  <2> QED BY <2>2, <1>l, <1>1 DEF Borrados, Movs
<1>5. Borrados' = Borrados /\ Muertos' = Muertos
  BY <1>0, <1>2 DEF Borrados, Muertos
<1>6. /\ g2 \in [Movs -> Nat] /\ g2[x] = 0
      /\ \A y \in L : y \in Movs /\ y # 0 /\ y # x /\ g[y] \in Nat /\ g2[y] = g[y] + 1
  BY <1>l, <1>1 DEF Movs
<1> HIDE DEF g2
<1>7. \A y \in L2 : /\ mov'[y].sig \in L2 \cup {0}
                    /\ mov'[y].sig # 0 => g2[y] < g2[mov'[y].sig]
                    /\ y # libre' => \E z \in L2 : mov'[z].sig = y
  <2> TAKE y \in L2
  <2>1. CASE y = x
    BY <2>1, <1>l, <1>6
  <2>2. CASE y # x
    <3>1. y \in L
      BY <2>2
    <3>2. \E z \in L2 : mov[z].sig = y
      <4>1. CASE y = libre
        BY <4>1, <1>l
      <4>2. CASE y # libre
        BY <4>2, <3>1, <1>l
      <4> QED BY <4>1, <4>2
    <3>3. mov[y].sig # 0 => g2[y] < g2[mov[y].sig]
      BY <3>1, <1>l, <1>6
    <3> QED BY <3>1, <3>2, <3>3, <1>l
  <2> QED BY <2>1, <2>2
<1>8. (Borrados' \ L2) \ EnCurso' = (Borrados \ L) \ EnCurso
  BY <1>4, <1>5
<1>9. L2 \subseteq Borrados' /\ L2 \in SUBSET Movs
  BY <1>5, <1>l, <1>x
<1>10. PICK K \in SUBSET Movs, h \in [Movs -> Nat] : K = L2 /\ h = g2
  BY <1>6, <1>9
<1>11. ListaDe(K, h)'
  <2>1. libre' \in L2 \cup {0} /\ (libre' = 0 => L2 = {})
    BY <1>x
  <2>2. \A q \in Procs : pr'[q].pc \notin {"A_escribe", "D_inicio"}
    BY <1>3 DEF Mano
  <2> HIDE DEF L2
  <2>3. Cardinality((Borrados' \ L2) \ EnCurso') <= Cardinality(Muertos')
    BY <1>5, <1>8, <1>l
  <2> QED BY <2>1, <2>2, <2>3, <1>7, <1>9, <1>10 DEF ListaDe
<1> QED BY <1>11

\* A step that leaves the files and the places of the processes alone.
LEMMA ListaQuieta ==
    ASSUME NEW L, NEW g, ListaDe(L, g), pr' = pr, mov' = mov, fin' = fin, libre' = libre
    PROVE  ListaDe(L, g)'
<1>1. EnCurso' = EnCurso /\ Borrados' = Borrados /\ Muertos' = Muertos
  BY DEF EnCurso, Borrados, Muertos
<1> QED BY <1>1 DEF ListaDe

\* A killed process may leave one deleted record that is in no list.
LEMMA ListaMuere ==
    ASSUME NEW f, Inv(f), NEW L \in SUBSET Movs, NEW g \in [Movs -> Nat], ListaDe(L, g),
           NEW p \in Procs, Muere(p)
    PROVE  ListaDe(L, g)'
<1> DEFINE x == pr[p].x
           perdidos == (Borrados \ L) \ EnCurso
<1>0. /\ p \notin Muertos /\ UNCHANGED archivos
      /\ pr' = [pr EXCEPT ![p] = [Ocioso(pr[p].r) EXCEPT !.pc = "muerto"]]
  BY DEF Muere, Va
<1>1. Tipos /\ MaxMovs \in Nat /\ IsFiniteSet(Procs) /\ fin \in Nat
  BY ConstantesMovs DEF Inv, Tipos, ConstantesMovs, Pos0
<1>2. pr'[p].pc = "muerto" /\ \A q \in Procs \ {p} : pr'[q] = pr[q]
  BY <1>0, <1>1 DEF Tipos, Ocioso
<1>3. mov' = mov /\ fin' = fin /\ libre' = libre
  BY <1>0 DEF archivos
<1>4. Borrados' = Borrados /\ Muertos' = Muertos \cup {p}
  BY <1>2, <1>3 DEF Borrados, Muertos
<1>5. (Borrados' \ L) \ EnCurso' \subseteq perdidos \cup {x}
  BY <1>2, <1>4 DEF EnCurso
<1>6. IsFiniteSet(perdidos) /\ IsFiniteSet(Muertos)
  <2>1. IsFiniteSet(1..fin)
    BY <1>1, FS_Interval
  <2>2. perdidos \in SUBSET (1..fin) /\ Muertos \in SUBSET Procs
    BY DEF Borrados, Muertos
  <2> QED BY <2>1, <2>2, <1>1, FS_Subset
<1> HIDE DEF perdidos
<1>7. Cardinality(Muertos') = Cardinality(Muertos) + 1
  BY <1>0, <1>4, <1>6, FS_AddElement
<1>8. /\ IsFiniteSet(perdidos \cup {x})
      /\ Cardinality(perdidos \cup {x}) <= Cardinality(perdidos) + 1
  <2>1. /\ IsFiniteSet(perdidos \cup {x})
        /\ Cardinality(perdidos \cup {x}) =
             IF x \in perdidos THEN Cardinality(perdidos) ELSE Cardinality(perdidos) + 1
    BY <1>6, FS_AddElement
  <2>2. Cardinality(perdidos) \in Nat
    BY <1>6, FS_CardinalityType
  <2> QED BY <2>1, <2>2
<1>9. Cardinality((Borrados' \ L) \ EnCurso') <= Cardinality(perdidos \cup {x})
  BY <1>5, <1>8, FS_Subset
<1>10. IsFiniteSet((Borrados' \ L) \ EnCurso')
  BY <1>5, <1>8, FS_Subset
<1>11. Cardinality(perdidos) <= Cardinality(Muertos)
  BY DEF ListaDe, perdidos
<1>12. Cardinality((Borrados' \ L) \ EnCurso') <= Cardinality(Muertos')
  <2>1. /\ Cardinality(perdidos) \in Nat /\ Cardinality(Muertos) \in Nat
        /\ Cardinality(perdidos \cup {x}) \in Nat
        /\ Cardinality((Borrados' \ L) \ EnCurso') \in Nat
    BY <1>6, <1>8, <1>10, FS_CardinalityType
  <2> QED BY <2>1, <1>7, <1>8, <1>9, <1>11
<1>13. \A q \in Procs :
         /\ pr'[q].pc = "A_escribe" => /\ pr'[q].x \notin L /\ pr'[q].x \in Movs
                                       /\ pr'[q].x \in Borrados' \cup {fin' + 1}
         /\ pr'[q].pc = "D_inicio" => /\ pr'[q].x \notin L /\ pr'[q].x \in Movs
                                      /\ mov'[pr'[q].x].sig = libre'
  BY <1>2, <1>3, <1>4 DEF ListaDe
<1> QED BY <1>3, <1>4, <1>12, <1>13 DEF ListaDe

-----------------------------------------------------------------------------
(* The inductive invariant. *)

Lista == \E L \in SUBSET Movs, g \in [Movs -> Nat] : ListaDe(L, g)
IInv  == (\E f \in [Movs -> Nat] : Inv(f)) /\ Lista

\* The empty files and the empty list.
LEMMA InicioIInv ==
    ASSUME Init
    PROVE  IInv
<1>1. \E f \in [Movs -> Nat] : Inv(f)
  BY InvInicial
<1> DEFINE g == [y \in Movs |-> 0]
<1>2. g \in [Movs -> Nat]
  OBVIOUS
<1> HIDE DEF g
<1>3. ListaDe({}, g)
  <2>1. Borrados = {}
    BY DEF Init, Borrados
  <2>2. \A q \in Procs : pr[q].pc = "libre"
    BY DEF Init, Ocioso
  <2>3. Muertos = {}
    BY <2>2 DEF Muertos
  <2>4. libre = 0
    BY DEF Init
  <2>5. Cardinality({}) <= Cardinality({})
    BY FS_EmptySet
  <2>6. (Borrados \ {}) \ EnCurso = {}
    BY <2>1
  <2> QED BY <2>1, <2>2, <2>3, <2>4, <2>5, <2>6 DEF ListaDe
<1> QED BY <1>1, <1>2, <1>3 DEF IInv, Lista

\* A step of p from a place to another where it has no record of the list in its hands.
LEMMA ListaSigue ==
    ASSUME NEW f, Inv(f), NEW f2 \in [Movs -> Nat], Inv(f2)', Lista,
           NEW p \in Procs, NEW q, pr' = [pr EXCEPT ![p] = q], fin' = fin, libre' = libre,
           \A y \in Movs : mov'[y].borrado = mov[y].borrado /\ mov'[y].sig = mov[y].sig,
           pr[p].pc \notin {"A_escribe", "D_inicio", "muerto"},
           q.pc \notin {"A_escribe", "D_inicio", "muerto"}
    PROVE  IInv'
<1>1. PICK L \in SUBSET Movs, g \in [Movs -> Nat] : ListaDe(L, g)
  BY DEF Lista
<1>2. Tipos /\ Tipos'
  BY DEF Inv
<1>3. pr'[p] = q /\ \A s \in Procs \ {p} : pr'[s] = pr[s]
  BY <1>2 DEF Tipos
<1>4. ListaDe(L, g)'
  BY <1>1, <1>2, <1>3, ListaIgual DEF Mano
<1> QED BY <1>4 DEF IInv, Lista

\* The steps of vdadd.
LEMMA PasoAgrega ==
    ASSUME IInv, NEW p \in Procs, UNCHANGED blo, Agrega(p)
    PROVE  IInv'
<1>1. PICK f \in [Movs -> Nat] : Inv(f)
  BY DEF IInv
<1>2. PICK L \in SUBSET Movs, g \in [Movs -> Nat] : ListaDe(L, g)
  BY DEF IInv, Lista
<1>r. pr[p] \in RegR
  BY <1>1, Tengo
<1>3. CASE TomaCab(p, "A_cab", "A_saca")
  <2> DEFINE q == [pr[p] EXCEPT !.pc = "A_saca"]
  <2>1. /\ pr[p].pc = "A_cab" /\ pr' = [pr EXCEPT ![p] = q]
        /\ mov' = mov /\ fin' = fin /\ libre' = libre
    BY <1>3 DEF TomaCab, En, Va, archivos
  <2>2. q.pc = "A_saca"
    BY <1>r DEF RegR
  <2>3. Inv(f)'
    BY <1>1, <1>3, PasoTomaCab
  <2> HIDE DEF q
  <2> QED BY <1>1, <2>1, <2>2, <2>3, ListaSigue DEF IInv
<1>4. CASE SacaLibre(p)
  <2>1. Inv(f)'
    BY <1>1, <1>4, PasoSaca
  <2>2. \E L2 \in SUBSET Movs : ListaDe(L2, g)'
    BY <1>1, <1>2, <1>4, <2>1, ListaSaca
  <2> QED BY <2>1, <2>2 DEF IInv, Lista
<1>5. CASE EscribeNuevo(p)
  <2>1. pr[p].x \in Borrados \cup {fin + 1} /\ pr[p].x \in Movs
    BY <1>2, <1>5 DEF ListaDe, EscribeNuevo, En
  <2>2. Inv(f)'
    BY <1>1, <1>5, <2>1, PasoNuevo
  <2>3. ListaDe(L, g)'
    BY <1>1, <1>2, <1>5, <2>2, ListaNuevo
  <2> QED BY <2>2, <2>3 DEF IInv, Lista
<1> QED BY <1>3, <1>4, <1>5 DEF Agrega

\* Which step of vdlink and vdunlink it is does not matter to the free list.
LEMMA Lugares ==
    ASSUME NEW q \in RegR
    PROVE  /\ \A c : [q EXCEPT !.pc = c].pc = c
           /\ \A c, b : [q EXCEPT !.pc = c, !.b1 = b].pc = c
           /\ \A c, b : [q EXCEPT !.pc = c, !.b2 = b].pc = c
           /\ \A c, x : [q EXCEPT !.pc = c, !.x = x].pc = c
           /\ \A c, x, b : [q EXCEPT !.pc = c, !.b1 = x, !.b2 = b].pc = c
           /\ \A c, l, x : [q EXCEPT !.pc = c, !.lug = l, !.x = x].pc = c
           /\ \A c, x, l : [q EXCEPT !.pc = c, !.x = x, !.b1.ult = l].pc = c
           /\ \A c, b, a, z, l : [q EXCEPT !.b2 = b, !.anter = a, !.proxi = z, !.lug = l].pc = q.pc
  BY DEF RegR

\* The reads of vdlink.
LEMMA PasoLiga1 ==
    ASSUME IInv, NEW p \in Procs, UNCHANGED blo, Liga1(p)
    PROVE  IInv'
<1>1. PICK f \in [Movs -> Nat] : Inv(f)
  BY DEF IInv
<1>r. pr[p] \in RegR /\ Lista
  BY <1>1, Tengo DEF IInv
<1>2. CASE TomaCab(p, "L_cab", "L_padre")
  <2>1. Inv(f)'
    BY <1>1, <1>2, PasoTomaCab
  <2> DEFINE q == [pr[p] EXCEPT !.pc = "L_padre"]
  <2>2. /\ pr[p].pc = "L_cab" /\ pr' = [pr EXCEPT ![p] = q]
        /\ mov' = mov /\ fin' = fin /\ libre' = libre /\ q.pc = "L_padre"
    BY <1>2, <1>r, Lugares DEF TomaCab, En, Va, archivos
  <2> HIDE DEF q
  <2> QED BY <1>1, <1>r, <2>1, <2>2, ListaSigue
<1>3. CASE Padre(p, "L_padre", [pr[p] EXCEPT !.pc = "L_mov", !.b1 = b1(p)])
  <2>1. Inv(f)'
    BY <1>1, <1>3, PasoPadre
  <2> DEFINE q == [pr[p] EXCEPT !.pc = "L_mov", !.b1 = b1(p)]
  <2>2. /\ pr[p].pc = "L_padre" /\ pr' = [pr EXCEPT ![p] = q]
        /\ mov' = mov /\ fin' = fin /\ libre' = libre /\ q.pc = "L_mov"
    BY <1>3, <1>r, Lugares DEF Padre, En, Va, archivos
  <2> HIDE DEF q
  <2> QED BY <1>1, <1>r, <2>1, <2>2, ListaSigue
<1>4. CASE Mov(p, "L_mov",
               [pr[p] EXCEPT
                   !.pc = IF pr[p].b1.ult = 0 THEN "L_solo1" ELSE "L_ult1",
                   !.b1 = IF @.ult = 0 THEN [pri |-> pr[p].x, ult |-> pr[p].x] ELSE @,
                   !.b2 = [b2(p) EXCEPT !.pri = pr[p].b1.ult, !.ult = 0]])
  <2>1. Inv(f)'
    BY <1>1, <1>4, PasoLMov
  <2> DEFINE q == [pr[p] EXCEPT
                   !.pc = IF pr[p].b1.ult = 0 THEN "L_solo1" ELSE "L_ult1",
                   !.b1 = IF @.ult = 0 THEN [pri |-> pr[p].x, ult |-> pr[p].x] ELSE @,
                   !.b2 = [b2(p) EXCEPT !.pri = pr[p].b1.ult, !.ult = 0]]
  <2>2. /\ pr[p].pc = "L_mov" /\ pr' = [pr EXCEPT ![p] = q]
        /\ mov' = mov /\ fin' = fin /\ libre' = libre
    BY <1>4 DEF Mov, En, Va, archivos
  <2>3. q.pc \in {"L_solo1", "L_ult1"}
    BY <1>r DEF RegR
  <2> HIDE DEF q
  <2> QED BY <1>1, <1>r, <2>1, <2>2, <2>3, ListaSigue
<1> QED BY <1>2, <1>3, <1>4 DEF Liga1

\* The writes of vdlink.
LEMMA PasoLiga2 ==
    ASSUME IInv, NEW p \in Procs, UNCHANGED blo, Liga2(p)
    PROVE  IInv'
<1>1. PICK f \in [Movs -> Nat] : Inv(f)
  BY DEF IInv
<1>r. pr[p] \in RegR /\ Lista
  BY <1>1, Tengo DEF IInv
<1>2. CASE EscribePadre(p, "L_solo1", [pr[p] EXCEPT !.pc = "L_solo2"])
  <2>1. Inv(f)' /\ fin' = fin /\ libre' = libre /\ mov' = mov
    BY <1>1, <1>2, PasoLSolo1
  <2> DEFINE q == [pr[p] EXCEPT !.pc = "L_solo2"]
  <2>2. pr[p].pc = "L_solo1" /\ pr' = [pr EXCEPT ![p] = q]
    BY <1>2 DEF EscribePadre, En, Va
  <2>3. q.pc = "L_solo2"
    BY <1>r, Lugares DEF RegR
  <2> HIDE DEF q
  <2> QED BY <1>1, <1>r, <2>1, <2>2, <2>3, ListaSigue
<1>3. CASE EscribeMov(p, "L_solo2", [pr[p] EXCEPT !.pc = "L_fin"])
  <2>1. /\ Inv(f)' /\ fin' = fin /\ libre' = libre
        /\ \A y \in Movs : mov'[y].borrado = mov[y].borrado /\ mov'[y].sig = mov[y].sig
    BY <1>1, <1>3, PasoLSolo2
  <2> DEFINE q == [pr[p] EXCEPT !.pc = "L_fin"]
  <2>2. pr[p].pc = "L_solo2" /\ pr' = [pr EXCEPT ![p] = q]
    BY <1>3 DEF EscribeMov, En, Va
  <2>3. q.pc = "L_fin"
    BY <1>r, Lugares DEF RegR
  <2> HIDE DEF q
  <2> QED BY <1>1, <1>r, <2>1, <2>2, <2>3, ListaSigue
<1>4. CASE EscribeMov(p, "L_ult1", [pr[p] EXCEPT !.pc = "L_ult2", !.lug = pr[p].x,
                                                 !.x = pr[p].b1.ult])
  <2>1. /\ Inv(f)' /\ fin' = fin /\ libre' = libre
        /\ \A y \in Movs : mov'[y].borrado = mov[y].borrado /\ mov'[y].sig = mov[y].sig
    BY <1>1, <1>4, PasoLUlt1
  <2> DEFINE q == [pr[p] EXCEPT !.pc = "L_ult2", !.lug = pr[p].x, !.x = pr[p].b1.ult]
  <2>2. pr[p].pc = "L_ult1" /\ pr' = [pr EXCEPT ![p] = q]
    BY <1>4 DEF EscribeMov, En, Va
  <2>3. q.pc = "L_ult2"
    BY <1>r, Lugares DEF RegR
  <2> HIDE DEF q
  <2> QED BY <1>1, <1>r, <2>1, <2>2, <2>3, ListaSigue
<1>5. CASE Mov(p, "L_ult2", Despues(p, b2(p)))
  <2>1. Inv(f)'
    BY <1>1, <1>5, PasoLUlt2
  <2> DEFINE q == Despues(p, b2(p))
  <2>2. /\ pr[p].pc = "L_ult2" /\ pr' = [pr EXCEPT ![p] = q]
        /\ mov' = mov /\ fin' = fin /\ libre' = libre
    BY <1>5 DEF Mov, En, Va, archivos
  <2>3. q.pc = "L_ult3"
    BY <1>r DEF RegR, Despues
  <2> HIDE DEF q
  <2> QED BY <1>1, <1>r, <2>1, <2>2, <2>3, ListaSigue
<1>6. CASE EscribeMov(p, "L_ult3", [pr[p] EXCEPT !.pc = "L_ult4", !.x = pr[p].lug,
                                                 !.b1.ult = pr[p].lug])
  <2>1. /\ \E f2 \in [Movs -> Nat] : Inv(f2)'
        /\ fin' = fin /\ libre' = libre
        /\ \A y \in Movs : mov'[y].borrado = mov[y].borrado /\ mov'[y].sig = mov[y].sig
    BY <1>1, <1>6, PasoLUlt3
  <2> DEFINE q == [pr[p] EXCEPT !.pc = "L_ult4", !.x = pr[p].lug, !.b1.ult = pr[p].lug]
  <2>2. pr[p].pc = "L_ult3" /\ pr' = [pr EXCEPT ![p] = q]
    BY <1>6 DEF EscribeMov, En, Va
  <2>3. q.pc = "L_ult4"
    BY <1>r, Lugares DEF RegR
  <2> HIDE DEF q
  <2> QED BY <1>1, <1>r, <2>1, <2>2, <2>3, ListaSigue
<1>7. CASE EscribePadre(p, "L_ult4", [pr[p] EXCEPT !.pc = "L_fin"])
  <2>1. Inv(f)' /\ fin' = fin /\ libre' = libre /\ mov' = mov
    BY <1>1, <1>7, PasoLUlt4
  <2> DEFINE q == [pr[p] EXCEPT !.pc = "L_fin"]
  <2>2. pr[p].pc = "L_ult4" /\ pr' = [pr EXCEPT ![p] = q]
    BY <1>7 DEF EscribePadre, En, Va
  <2>3. q.pc = "L_fin"
    BY <1>r, Lugares DEF RegR
  <2> HIDE DEF q
  <2> QED BY <1>1, <1>r, <2>1, <2>2, <2>3, ListaSigue
<1> QED BY <1>2, <1>3, <1>4, <1>5, <1>6, <1>7 DEF Liga2

\* The end of vdlink.
LEMMA PasoLiga3 ==
    ASSUME IInv, NEW p \in Procs, UNCHANGED blo, Liga3(p)
    PROVE  IInv'
<1>1. PICK f \in [Movs -> Nat] : Inv(f)
  BY DEF IInv
<1>r. pr[p] \in RegR /\ Lista
  BY <1>1, Tengo DEF IInv
<1> DEFINE q == [pr[p] EXCEPT !.pc = "escribe", !.b2 = mov[pr[p].x]]
<1>2. /\ pr[p].pc = "L_fin" /\ pr' = [pr EXCEPT ![p] = q]
      /\ mov' = mov /\ fin' = fin /\ libre' = libre
  BY DEF Liga3, En, Va, archivos
<1>3. q.pc = "escribe"
  BY <1>r, Lugares
<1>4. Inv(f)'
  BY <1>1, PasoLFin
<1> HIDE DEF q
<1> QED BY <1>1, <1>r, <1>2, <1>3, <1>4, ListaSigue

\* The steps of vdunlink up to the movement before.
LEMMA PasoDesliga1 ==
    ASSUME IInv, NEW p \in Procs, UNCHANGED blo, Desliga1(p)
    PROVE  IInv'
<1>1. PICK f \in [Movs -> Nat] : Inv(f)
  BY DEF IInv
<1>r. pr[p] \in RegR /\ Lista
  BY <1>1, Tengo DEF IInv
<1>2. CASE TomaCab(p, "U_cab", "U_padre")
  <2>1. Inv(f)'
    BY <1>1, <1>2, PasoTomaCab
  <2> DEFINE q == [pr[p] EXCEPT !.pc = "U_padre"]
  <2>2. /\ pr[p].pc = "U_cab" /\ pr' = [pr EXCEPT ![p] = q]
        /\ mov' = mov /\ fin' = fin /\ libre' = libre
    BY <1>2 DEF TomaCab, En, Va, archivos
  <2>3. q.pc = "U_padre"
    BY <1>r, Lugares
  <2> HIDE DEF q
  <2> QED BY <1>1, <1>r, <2>1, <2>2, <2>3, ListaSigue
<1>3. CASE Padre(p, "U_padre", [pr[p] EXCEPT !.pc = "U_mov", !.b1 = b1(p)])
  <2>1. Inv(f)'
    BY <1>1, <1>3, PasoPadre
  <2> DEFINE q == [pr[p] EXCEPT !.pc = "U_mov", !.b1 = b1(p)]
  <2>2. /\ pr[p].pc = "U_padre" /\ pr' = [pr EXCEPT ![p] = q]
        /\ mov' = mov /\ fin' = fin /\ libre' = libre
    BY <1>3 DEF Padre, En, Va, archivos
  <2>3. q.pc = "U_mov"
    BY <1>r, Lugares
  <2> HIDE DEF q
  <2> QED BY <1>1, <1>r, <2>1, <2>2, <2>3, ListaSigue
<1>4. CASE Mov(p, "U_mov", ConAnter([pr[p] EXCEPT !.b2 = b2(p), !.anter = b2(p).pri,
                                                  !.proxi = b2(p).ult,
        !.lug = pr[p].x]))
  <2>1. Inv(f)'
    BY <1>1, <1>4, PasoUMov
  <2> DEFINE q == ConAnter([pr[p] EXCEPT !.b2 = b2(p), !.anter = b2(p).pri,
                                         !.proxi = b2(p).ult, !.lug = pr[p].x])
  <2>2. /\ pr[p].pc = "U_mov" /\ pr' = [pr EXCEPT ![p] = q]
        /\ mov' = mov /\ fin' = fin /\ libre' = libre
    BY <1>4 DEF Mov, En, Va, archivos
  <2>3. q.pc \in {"U_sig", "U_ant1"}
    BY <1>r DEF RegR, ConAnter
  <2> HIDE DEF q
  <2> QED BY <1>1, <1>r, <2>1, <2>2, <2>3, ListaSigue
<1>5. CASE Mov(p, "U_ant1", [pr[p] EXCEPT !.pc = "U_ant2", !.b2 = [b2(p) EXCEPT
                                          !.ult = pr[p].proxi]])
  <2>1. Inv(f)'
    BY <1>1, <1>5, PasoUAnt1
  <2> DEFINE q == [pr[p] EXCEPT !.pc = "U_ant2", !.b2 = [b2(p) EXCEPT
                                !.ult = pr[p].proxi]]
  <2>2. /\ pr[p].pc = "U_ant1" /\ pr' = [pr EXCEPT ![p] = q]
        /\ mov' = mov /\ fin' = fin /\ libre' = libre
    BY <1>5 DEF Mov, En, Va, archivos
  <2>3. q.pc = "U_ant2"
    BY <1>r, Lugares DEF RegR
  <2> HIDE DEF q
  <2> QED BY <1>1, <1>r, <2>1, <2>2, <2>3, ListaSigue
<1>6. CASE EscribeMov(p, "U_ant2", [pr[p] EXCEPT !.pc = "U_ant3", !.x = pr[p].lug])
  <2>1. /\ Inv(f)' /\ fin' = fin /\ libre' = libre
        /\ \A y \in Movs : mov'[y].borrado = mov[y].borrado /\ mov'[y].sig = mov[y].sig
    BY <1>1, <1>6, PasoUAnt2
  <2> DEFINE q == [pr[p] EXCEPT !.pc = "U_ant3", !.x = pr[p].lug]
  <2>2. pr[p].pc = "U_ant2" /\ pr' = [pr EXCEPT ![p] = q]
    BY <1>6 DEF EscribeMov, En, Va
  <2>3. q.pc = "U_ant3"
    BY <1>r, Lugares DEF RegR
  <2> HIDE DEF q
  <2> QED BY <1>1, <1>r, <2>1, <2>2, <2>3, ListaSigue
<1>7. CASE Mov(p, "U_ant3", [pr[p] EXCEPT !.pc = "U_sig", !.b2 = b2(p)])
  <2>1. Inv(f)'
    BY <1>1, <1>7, PasoUAnt3
  <2> DEFINE q == [pr[p] EXCEPT !.pc = "U_sig", !.b2 = b2(p)]
  <2>2. /\ pr[p].pc = "U_ant3" /\ pr' = [pr EXCEPT ![p] = q]
        /\ mov' = mov /\ fin' = fin /\ libre' = libre
    BY <1>7 DEF Mov, En, Va, archivos
  <2>3. q.pc = "U_sig"
    BY <1>r, Lugares DEF RegR
  <2> HIDE DEF q
  <2> QED BY <1>1, <1>r, <2>1, <2>2, <2>3, ListaSigue
<1> QED BY <1>2, <1>3, <1>4, <1>5, <1>6, <1>7 DEF Desliga1

\* The steps of vdunlink from the movement after to the cleared links.
LEMMA PasoDesliga2 ==
    ASSUME IInv, NEW p \in Procs, UNCHANGED blo, Desliga2(p)
    PROVE  IInv'
<1>1. PICK f \in [Movs -> Nat] : Inv(f)
  BY DEF IInv
<1>r. pr[p] \in RegR /\ Lista
  BY <1>1, Tengo DEF IInv
<1>2. CASE /\ En(p, "U_sig") /\ Va(p, ConProxi(pr[p]))
           /\ UNCHANGED <<archivos, candados, de>>
  <2>1. Inv(f)'
    BY <1>1, <1>2, PasoUSig
  <2> DEFINE q == ConProxi(pr[p])
  <2>2. /\ pr[p].pc = "U_sig" /\ pr' = [pr EXCEPT ![p] = q]
        /\ mov' = mov /\ fin' = fin /\ libre' = libre
    BY <1>2 DEF En, Va, archivos
  <2>3. q.pc \in {"U_fin1", "U_sig1"}
    BY <1>r DEF RegR, ConProxi
  <2> HIDE DEF q
  <2> QED BY <1>1, <1>r, <2>1, <2>2, <2>3, ListaSigue
<1>3. CASE Mov(p, "U_sig1", [pr[p] EXCEPT !.pc = "U_sig2", !.b2 = [b2(p) EXCEPT
                                          !.pri = pr[p].anter]])
  <2>1. Inv(f)'
    BY <1>1, <1>3, PasoUSig1
  <2> DEFINE q == [pr[p] EXCEPT !.pc = "U_sig2", !.b2 = [b2(p) EXCEPT
                                !.pri = pr[p].anter]]
  <2>2. /\ pr[p].pc = "U_sig1" /\ pr' = [pr EXCEPT ![p] = q]
        /\ mov' = mov /\ fin' = fin /\ libre' = libre
    BY <1>3 DEF Mov, En, Va, archivos
  <2>3. q.pc = "U_sig2"
    BY <1>r, Lugares DEF RegR
  <2> HIDE DEF q
  <2> QED BY <1>1, <1>r, <2>1, <2>2, <2>3, ListaSigue
<1>4. CASE EscribeMov(p, "U_sig2", [pr[p] EXCEPT !.pc = "U_fin1"])
  <2>1. /\ Inv(f)' /\ fin' = fin /\ libre' = libre
        /\ \A y \in Movs : mov'[y].borrado = mov[y].borrado /\ mov'[y].sig = mov[y].sig
    BY <1>1, <1>4, PasoUSig2
  <2> DEFINE q == [pr[p] EXCEPT !.pc = "U_fin1"]
  <2>2. pr[p].pc = "U_sig2" /\ pr' = [pr EXCEPT ![p] = q]
    BY <1>4 DEF EscribeMov, En, Va
  <2>3. q.pc = "U_fin1"
    BY <1>r, Lugares DEF RegR
  <2> HIDE DEF q
  <2> QED BY <1>1, <1>r, <2>1, <2>2, <2>3, ListaSigue
<1>5. CASE EscribePadre(p, "U_fin1", [pr[p] EXCEPT !.pc = "U_fin2", !.x = pr[p].lug])
  <2>1. Inv(f)' /\ fin' = fin /\ libre' = libre /\ mov' = mov
    BY <1>1, <1>5, PasoUFin1
  <2> DEFINE q == [pr[p] EXCEPT !.pc = "U_fin2", !.x = pr[p].lug]
  <2>2. pr[p].pc = "U_fin1" /\ pr' = [pr EXCEPT ![p] = q]
    BY <1>5 DEF EscribePadre, En, Va
  <2>3. q.pc = "U_fin2"
    BY <1>r, Lugares DEF RegR
  <2> HIDE DEF q
  <2> QED BY <1>1, <1>r, <2>1, <2>2, <2>3, ListaSigue
<1>6. CASE /\ En(p, "U_fin2") /\ candM[pr[p].x] \in {Nadie, p}
           /\ candM' = [candM EXCEPT ![pr[p].x] = p]
           /\ cab' = CabezaLibre(p)
           /\ Va(p, [pr[p] EXCEPT !.pc = "U_fin3",
                                  !.b2 = [mov[pr[p].x] EXCEPT !.pri = 0, !.ult = 0]])
           /\ UNCHANGED <<archivos, candP, de>>
  <2>1. Inv(f)'
    BY <1>1, <1>6, PasoUFin2
  <2> DEFINE q == [pr[p] EXCEPT !.pc = "U_fin3",
                                !.b2 = [mov[pr[p].x] EXCEPT !.pri = 0, !.ult = 0]]
  <2>2. /\ pr[p].pc = "U_fin2" /\ pr' = [pr EXCEPT ![p] = q]
        /\ mov' = mov /\ fin' = fin /\ libre' = libre
    BY <1>6 DEF En, Va, archivos
  <2>3. q.pc = "U_fin3"
    BY <1>r, Lugares
  <2> HIDE DEF q
  <2> QED BY <1>1, <1>r, <2>1, <2>2, <2>3, ListaSigue
<1>7. CASE EscribeMov(p, "U_fin3", [pr[p] EXCEPT

        !.pc = IF pr[p].op = "LD" THEN "D_cab" ELSE "escribe"])
  <2>1. /\ Inv(f)' /\ fin' = fin /\ libre' = libre
        /\ \A y \in Movs : mov'[y].borrado = mov[y].borrado /\ mov'[y].sig = mov[y].sig
    BY <1>1, <1>7, PasoUFin3
  <2> DEFINE q == [pr[p] EXCEPT !.pc = IF pr[p].op = "LD" THEN "D_cab" ELSE "escribe"]
  <2>2. pr[p].pc = "U_fin3" /\ pr' = [pr EXCEPT ![p] = q]
    BY <1>7 DEF EscribeMov, En, Va
  <2>3. q.pc \in {"D_cab", "escribe"}
    BY <1>r DEF RegR
  <2> HIDE DEF q
  <2> QED BY <1>1, <1>r, <2>1, <2>2, <2>3, ListaSigue
<1> QED BY <1>2, <1>3, <1>4, <1>5, <1>6, <1>7 DEF Desliga2

\* The steps of vddel.
LEMMA PasoBorra ==
    ASSUME IInv, NEW p \in Procs, UNCHANGED blo, Borra(p)
    PROVE  IInv'
<1>1. PICK f \in [Movs -> Nat] : Inv(f)
  BY DEF IInv
<1>r. pr[p] \in RegR /\ Lista
  BY <1>1, Tengo DEF IInv
<1>g. PICK L \in SUBSET Movs, g \in [Movs -> Nat] : ListaDe(L, g)
  BY <1>r DEF Lista
<1>2. CASE TomaCab(p, "D_cab", "D_enlaza")
  <2>1. Inv(f)'
    BY <1>1, <1>2, PasoTomaCab
  <2> DEFINE q == [pr[p] EXCEPT !.pc = "D_enlaza"]
  <2>2. /\ pr[p].pc = "D_cab" /\ pr' = [pr EXCEPT ![p] = q]
        /\ mov' = mov /\ fin' = fin /\ libre' = libre
    BY <1>2 DEF TomaCab, En, Va, archivos
  <2>3. q.pc = "D_enlaza"
    BY <1>r, Lugares
  <2> HIDE DEF q
  <2> QED BY <1>1, <1>r, <2>1, <2>2, <2>3, ListaSigue
<1>3. CASE /\ En(p, "D_enlaza")
           /\ mov' = Enlazado(pr[p].x)
           /\ Va(p, [pr[p] EXCEPT !.pc = "D_inicio"])
           /\ UNCHANGED <<padre, libre, fin, candados, de>>
  <2>1. Inv(f)'
    BY <1>1, <1>3, PasoDEnlaza
  <2>2. ListaDe(L, g)'
    BY <1>1, <1>g, <1>3, <2>1, ListaEnlaza
  <2> QED BY <2>1, <2>2 DEF IInv, Lista
<1>4. CASE /\ En(p, "D_inicio")
           /\ libre' = pr[p].x
           /\ cab' = Nadie
           /\ Va(p, [pr[p] EXCEPT !.pc = "escribe", !.b2 = mov[pr[p].x]])
           /\ UNCHANGED <<padre, mov, fin, candP, candM, de>>
  <2>1. Inv(f)'
    BY <1>1, <1>4, PasoDInicio
  <2>2. \E L2 \in SUBSET Movs, g2 \in [Movs -> Nat] : ListaDe(L2, g2)'
    BY <1>1, <1>g, <1>4, <2>1, ListaInicio
  <2> QED BY <2>1, <2>2 DEF IInv, Lista
<1> QED BY <1>2, <1>3, <1>4 DEF Borra

\* The last write of the active file.
LEMMA PasoFinal ==
    ASSUME IInv, NEW p \in Procs, UNCHANGED blo, Escribe(p)
    PROVE  IInv'
<1>1. PICK f \in [Movs -> Nat] : Inv(f)
  BY DEF IInv
<1>r. pr[p] \in RegR /\ Lista
  BY <1>1, Tengo DEF IInv
<1>2. Inv(f)' /\ mov' = mov /\ fin' = fin /\ libre' = libre
  BY <1>1, PasoEscribe
<1> DEFINE q == Ocioso(pr[p].r)
<1>3. pr[p].pc = "escribe" /\ pr' = [pr EXCEPT ![p] = q]
  BY DEF Escribe, EscribePadre, EscribeMov, En, Va
<1>4. q.pc = "libre"
  BY DEF Ocioso
<1> HIDE DEF q
<1> QED BY <1>1, <1>r, <1>2, <1>3, <1>4, ListaSigue

\* Every step keeps the invariant, but for the write of LD over a place that was taken.
LEMMA PasoIInv ==
    ASSUME IInv, ~Pisado, [Next]_vars, \A p \in Procs : ~Pisa(p)
    PROVE  IInv'
<1>1. PICK f \in [Movs -> Nat] : Inv(f)
  BY DEF IInv
<1>2. PICK L \in SUBSET Movs, g \in [Movs -> Nat] : ListaDe(L, g)
  BY DEF IInv, Lista
<1>3. ASSUME NEW p \in Procs, NEW o \in {"LN", "LL", "LU", "LD"}, NEW r \in Padres,
             NEW x \in {0} \cup Movs, Empieza(p, o, r, x)
      PROVE  IInv'
  <2>1. Inv(f)'
    BY <1>1, <1>3, PasoEmpieza
  <2> DEFINE c == CASE o = "LN" -> "A_cab" [] o = "LL" -> "L_cab" [] OTHER -> "U_cab"
             q == [pr[p] EXCEPT !.pc = c, !.op = o, !.r = r, !.x = x]
  <2>2. /\ pr[p].pc = "libre" /\ pr' = [pr EXCEPT ![p] = q]
        /\ mov' = mov /\ fin' = fin /\ libre' = libre
    BY <1>3 DEF Empieza, En, Va, archivos
  <2>3. c \in {"A_cab", "L_cab", "U_cab"}
    OBVIOUS
  <2> HIDE DEF c
  <2>4. q.pc = c
    BY <1>1, Tengo DEF RegR
  <2> HIDE DEF q
  <2> QED BY <1>1, <2>1, <2>2, <2>3, <2>4, ListaSigue DEF IInv
<1>4. ASSUME NEW p \in Procs, Sigue(p) PROVE IInv'
  BY <1>4, PasoAgrega, PasoLiga1, PasoLiga2, PasoLiga3, PasoDesliga1, PasoDesliga2,
     PasoBorra, PasoFinal DEF Sigue
<1>5. ASSUME NEW p \in Procs, Muere(p) PROVE IInv'
  BY <1>1, <1>2, <1>5, PasoMuere, ListaMuere DEF IInv, Lista
<1>6. ASSUME NEW p \in Procs, PideB(p) \/ TomaB(p) \/ SueltaB(p) \/ UNCHANGED vars
      PROVE  IInv'
  <2>1. Inv(f)'
    BY <1>1, <1>6, PasoBloque
  <2>2. pr' = pr /\ mov' = mov /\ fin' = fin /\ libre' = libre
    BY <1>6 DEF PideB, TomaB, SueltaB, Camina, vars, archivos
  <2> QED BY <1>2, <2>1, <2>2, ListaQuieta DEF IInv, Lista
<1>7. CASE UNCHANGED vars
  <2>1. Inv(f)'
    BY <1>1, <1>7 DEF vars, archivos, candados, Inv, Tipos, Turno, Propios, Formas,
        EnPaz, Borrando,
       Activo
  <2>2. pr' = pr /\ mov' = mov /\ fin' = fin /\ libre' = libre
    BY <1>7 DEF vars, archivos
  <2> QED BY <1>2, <2>1, <2>2, ListaQuieta DEF IInv, Lista
<1> QED BY <1>3, <1>4, <1>5, <1>6, <1>7 DEF Next

\* After it nobody goes on.
Abandonado == Tipos /\ Turno /\ (\E p \in Procs : TRUE) /\ \A p \in Procs : pr[p].pc = "pisado"

\* The write of LD over a taken place leaves every process there, with its types.
LEMMA PasoPisa ==
    ASSUME IInv, NEW p \in Procs, Pisa(p)
    PROVE  Abandonado'
<1>1. Tipos
  BY DEF IInv, Inv
<1>2. /\ mov' = [mov EXCEPT ![pr[p].x] = pr[p].b2]
      /\ pr' = [q \in Procs |-> [Ocioso(pr[q].r) EXCEPT !.pc = "pisado"]]
      /\ blo' = [q \in Procs |-> "fuera"] /\ UNCHANGED <<padre, libre, fin, de>>
  BY DEF Pisa
<1>3. pr[p].b2 \in RegM
  BY <1>1 DEF Tipos, RegR
<1>4. ASSUME NEW q \in Procs PROVE pr'[q] \in RegR /\ pr'[q].pc = "pisado"
  <2>1. Cero \in RegP /\ Vacio \in RegM /\ 0 \in Pos0 /\ "pisado" \in Pcs /\ "LN" \in Ops
    BY ConstantesMovs DEF Cero, Vacio, RegP, RegM, Pos0, ConstantesMovs, Pcs, Ops
  <2>2. pr[q].r \in Padres /\ pr'[q] = [Ocioso(pr[q].r) EXCEPT !.pc = "pisado"]
    BY <1>1, <1>2 DEF Tipos, RegR
  <2> QED BY <2>1, <2>2 DEF Ocioso, RegR
<1>5. Tipos'
  BY <1>1, <1>2, <1>3, <1>4 DEF Tipos
<1>6. Turno'
  BY <1>2, <1>4 DEF Turno, ConCab, Activo
<1> QED BY <1>4, <1>5, <1>6 DEF Abandonado

\* Nothing happens any more once an LD has written over a taken place.
LEMMA PasoAbandonado ==
    ASSUME Abandonado, [Next]_vars
    PROVE  Abandonado'
<1>1. ASSUME NEW p \in Procs, NEW o \in {"LN", "LL", "LU", "LD"}, NEW r \in Padres,
             NEW x \in {0} \cup Movs, Empieza(p, o, r, x)
      PROVE  FALSE
  BY <1>1 DEF Empieza, En, Abandonado
<1>2. ASSUME NEW p \in Procs, Sigue(p) PROVE FALSE
  BY <1>2 DEF Sigue, Agrega, Liga1, Liga2, Liga3, Desliga1, Desliga2, Borra, Escribe, TomaCab, Padre,
     Mov, EscribePadre, EscribeMov, SacaLibre, EscribeNuevo, En, Abandonado
<1>3. ASSUME NEW p \in Procs, Pisa(p) \/ Muere(p) \/ PideB(p) \/ TomaB(p) \/ SueltaB(p) PROVE FALSE
  BY <1>3 DEF Pisa, Muere, PideB, TomaB, SueltaB, Camina, En, Abandonado
<1>4. UNCHANGED vars
  BY <1>1, <1>2, <1>3 DEF Next
<1> QED BY <1>4 DEF vars, archivos, candados, Abandonado, Tipos, Turno, Activo

\* No other step leaves a process there.
LEMMA SinPisar ==
    ASSUME Tipos, ~Pisado, [Next]_vars, \A p \in Procs : ~Pisa(p)
    PROVE  ~Pisado'
<1>1. \A s \in Procs : pr[s] \in RegR /\ pr[s].pc # "pisado"
  BY DEF Tipos, Pisado
<1>2. ASSUME NEW p \in Procs, NEW q, pr' = [pr EXCEPT ![p] = q], q.pc # "pisado"
      PROVE  ~Pisado'
  BY <1>1, <1>2 DEF Pisado, Tipos
<1>3. ASSUME NEW p \in Procs, NEW o \in {"LN", "LL", "LU", "LD"}, NEW r \in Padres,
             NEW x \in {0} \cup Movs, Empieza(p, o, r, x)
      PROVE  ~Pisado'
  <2> DEFINE c == CASE o = "LN" -> "A_cab" [] o = "LL" -> "L_cab" [] OTHER -> "U_cab"
             q == [pr[p] EXCEPT !.pc = c, !.op = o, !.r = r, !.x = x]
  <2>1. pr' = [pr EXCEPT ![p] = q]
    BY <1>3 DEF Empieza, Va
  <2>2. c \in {"A_cab", "L_cab", "U_cab"}
    OBVIOUS
  <2> HIDE DEF c
  <2>3. q.pc # "pisado"
    BY <1>1, <2>2 DEF RegR
  <2> HIDE DEF q
  <2> QED BY <2>1, <2>3, <1>2
<1>4. ASSUME NEW p \in Procs, Sigue(p) PROVE ~Pisado'
  <2> SUFFICES ASSUME NEW s \in Procs, pr'[s].pc = "pisado" PROVE FALSE
    BY DEF Pisado
  <2>1. pr[p] \in RegR /\ pr \in [Procs -> RegR] /\ pr[s].pc # "pisado"
    BY <1>1 DEF Tipos
  <2>a. /\ \A d, q : EscribePadre(p, d, q) \/ EscribeMov(p, d, q) \/ Mov(p, d, q) =>
                        pr' = [pr EXCEPT ![p] = q]
        /\ \A q : pr' = [pr EXCEPT ![p] = q] => q = pr'[p]
        /\ p # s => pr'[s] = pr[s] \/ \A q : pr' # [pr EXCEPT ![p] = q]
    BY <2>1 DEF EscribePadre, EscribeMov, Mov, Va
  <2>2. CASE Agrega(p)
    BY <2>1, <2>2 DEF Agrega, TomaCab, SacaLibre, EscribeNuevo, Va, RegR
  <2>3. CASE Liga1(p)
    <3> DEFINE u == [pr[p] EXCEPT !.pc = IF pr[p].b1.ult = 0 THEN "L_solo1" ELSE "L_ult1",
                                  !.b1 = IF @.ult = 0 THEN [pri |-> pr[p].x, ult |-> pr[p].x] ELSE @,
                                  !.b2 = [b2(p) EXCEPT !.pri = pr[p].b1.ult, !.ult = 0]]
    <3>1. CASE TomaCab(p, "L_cab", "L_padre")
      BY <2>1, <3>1 DEF TomaCab, Va, RegR
    <3>2. CASE Padre(p, "L_padre", [pr[p] EXCEPT !.pc = "L_mov", !.b1 = b1(p)])
      BY <2>1, <3>2 DEF Padre, Va, RegR
    <3>3. CASE Mov(p, "L_mov", u)
      <4>1. u.pc # "pisado"
        BY <2>1 DEF RegR
      <4> HIDE DEF u
      <4> QED BY <4>1, <2>1, <2>a, <3>3
    <3> QED BY <2>3, <3>1, <3>2, <3>3 DEF Liga1
  <2>4. CASE Liga2(p)
    <3>1. /\ [pr[p] EXCEPT !.pc = "L_solo2"].pc # "pisado"
          /\ [pr[p] EXCEPT !.pc = "L_fin"].pc # "pisado"
          /\ [pr[p] EXCEPT !.pc = "L_ult2", !.lug = pr[p].x, !.x = pr[p].b1.ult].pc # "pisado"
          /\ [pr[p] EXCEPT !.pc = "L_ult4", !.x = pr[p].lug, !.b1.ult = pr[p].lug].pc # "pisado"
          /\ Despues(p, b2(p)).pc # "pisado"
      BY <2>1 DEF RegR, Despues
    <3> QED BY <2>4, <3>1, <2>a, <2>1 DEF Liga2
  <2>5. CASE Liga3(p)
    BY <2>1, <2>5 DEF Liga3, Va, RegR
  <2>6. CASE Desliga1(p)
    <3>1. /\ ConAnter([pr[p] EXCEPT !.b2 = b2(p), !.anter = b2(p).pri, !.proxi = b2(p).ult,
                                  !.lug = pr[p].x]).pc # "pisado"
          /\ [pr[p] EXCEPT !.pc = "U_ant2", !.b2 = [b2(p) EXCEPT !.ult = pr[p].proxi]].pc # "pisado"
          /\ [pr[p] EXCEPT !.pc = "U_ant3", !.x = pr[p].lug].pc # "pisado"
          /\ [pr[p] EXCEPT !.pc = "U_sig", !.b2 = b2(p)].pc # "pisado"
      BY <2>1 DEF RegR, ConAnter
    <3>2. CASE TomaCab(p, "U_cab", "U_padre") \/ Padre(p, "U_padre", [pr[p] EXCEPT !.pc = "U_mov", !.b1 = b1(p)])
      BY <2>1, <3>2 DEF TomaCab, Padre, Va, RegR
    <3> QED BY <2>6, <3>1, <3>2, <2>a, <2>1 DEF Desliga1
  <2>7. CASE Desliga2(p)
    <3>1. /\ ConProxi(pr[p]).pc # "pisado"
          /\ [pr[p] EXCEPT !.pc = "U_sig2", !.b2 = [b2(p) EXCEPT !.pri = pr[p].anter]].pc # "pisado"
          /\ [pr[p] EXCEPT !.pc = "U_fin1"].pc # "pisado"
          /\ [pr[p] EXCEPT !.pc = "U_fin2", !.x = pr[p].lug].pc # "pisado"
          /\ [pr[p] EXCEPT !.pc = "U_fin3", !.b2 = [mov[pr[p].x] EXCEPT !.pri = 0, !.ult = 0]].pc # "pisado"
          /\ [pr[p] EXCEPT !.pc = IF pr[p].op = "LD" THEN "D_cab" ELSE "escribe"].pc # "pisado"
      BY <2>1 DEF RegR, ConProxi
    <3> QED BY <2>7, <3>1, <2>a, <2>1 DEF Desliga2, Va
  <2>8. CASE Borra(p)
    BY <2>1, <2>8 DEF Borra, TomaCab, Va, RegR
  <2>9. CASE Escribe(p)
    BY <2>1, <2>9 DEF Escribe, EscribePadre, EscribeMov, Ocioso, Va, RegR
  <2> QED BY <1>4, <2>2, <2>3, <2>4, <2>5, <2>6, <2>7, <2>8, <2>9 DEF Sigue
<1>5. ASSUME NEW p \in Procs, Muere(p) PROVE ~Pisado'
  <2>1. /\ [Ocioso(pr[p].r) EXCEPT !.pc = "muerto"].pc # "pisado"
        /\ pr' = [pr EXCEPT ![p] = [Ocioso(pr[p].r) EXCEPT !.pc = "muerto"]]
    BY <1>5 DEF Muere, Va, Ocioso
  <2> QED BY <2>1, <1>2
<1>6. ASSUME NEW p \in Procs, PideB(p) \/ TomaB(p) \/ SueltaB(p) PROVE ~Pisado'
  BY <1>1, <1>6 DEF PideB, TomaB, SueltaB, Camina, Pisado
<1>7. CASE UNCHANGED vars
  BY <1>1, <1>7 DEF vars, Pisado
<1> QED BY <1>3, <1>4, <1>5, <1>6, <1>7 DEF Next

\* So every step keeps one or the other.
Seguro == (IInv /\ ~Pisado) \/ Abandonado

\* The invariant as long as no LD has written over a taken place, or nobody goes on.
LEMMA PasoSeguro == Seguro /\ [Next]_vars => Seguro'
<1>1. ASSUME IInv, ~Pisado, [Next]_vars PROVE Seguro'
  <2>1. CASE \A p \in Procs : ~Pisa(p)
    <3>1. Tipos
      BY <1>1 DEF IInv, Inv
    <3> QED BY <1>1, <2>1, <3>1, PasoIInv, SinPisar DEF Seguro
  <2>2. CASE \E p \in Procs : Pisa(p)
    BY <1>1, <2>2, PasoPisa DEF Seguro
  <2> QED BY <2>1, <2>2
<1>2. ASSUME Abandonado, [Next]_vars PROVE Seguro'
  BY <1>2, PasoAbandonado DEF Seguro
<1> QED BY <1>1, <1>2 DEF Seguro

\* Nobody is there at the start.
LEMMA InicioSano ==
    ASSUME Init
    PROVE  ~Pisado
  BY DEF Init, Ocioso, Pisado

\* A principal at peace has its chain: the walk from pri goes over all its movements.
LEMMA IInvCadenas ==
    ASSUME IInv
    PROVE  Cadenas
<1>1. PICK f \in [Movs -> Nat] : Inv(f)
  BY DEF IInv
<1> SUFFICES ASSUME NEW r \in Padres, EnPaz(r)
             PROVE  LET S == Desde(padre[r].pri, [x \in Movs |-> mov[x].ult], MaxMovs)
                        D == Alcanza(S)
                    IN  /\ D = {x \in Movs : de[x] = r} /\ D \subseteq Vivos
                        /\ S[MaxMovs] = 0
                        /\ padre[r].ult = 0 <=> D = {}
                        /\ \A x \in D : /\ mov[x].pri = 0 <=> x = padre[r].pri
                                        /\ mov[x].ult = 0 <=> x = padre[r].ult
                                        /\ mov[x].ult # 0 => mov[mov[x].ult].pri = x
  BY DEF Cadenas
<1> DEFINE sig == [x \in Movs |-> mov[x].ult]
           D == De(de, r)
           P == padre[r]
<1>2. Cadena(P, mov, D, f) /\ Tipos /\ Propios /\ MaxMovs \in Nat
      /\ Nadie \notin Padres
  BY <1>1, ConstantesMovs DEF Inv, Formas, ConstantesMovs
<1>3. D \in SUBSET Movs /\ D = {x \in Movs : de[x] = r} /\ 0 \notin Movs
  BY <1>2 DEF De, Movs
<1>4. D \subseteq Vivos
  <2> SUFFICES ASSUME NEW x \in D PROVE x \in Vivos
    OBVIOUS
  <2>1. x \in Movs /\ de[x] # Nadie
    BY <1>2, <1>3
  <2>2. x <= fin /\ ~mov[x].borrado /\ fin \in Nat
    BY <1>2, <2>1 DEF Propios, Tipos, Pos0
  <2> QED BY <1>2, <2>1, <2>2 DEF Vivos, Movs
<1> HIDE DEF D
<1>5. /\ P.pri \in D \cup {0}
      /\ P.pri = 0 <=> D = {}
      /\ P.ult = 0 <=> D = {}
      /\ \A x \in D :
            /\ mov[x].pri = 0 <=> x = P.pri
            /\ mov[x].ult = 0 <=> x = P.ult
            /\ mov[x].pri # 0 => /\ mov[x].pri \in D /\ f[mov[x].pri] < f[x]
                                 /\ mov[mov[x].pri].ult = x
            /\ mov[x].ult # 0 => /\ mov[x].ult \in D /\ f[x] < f[mov[x].ult]
                                 /\ mov[mov[x].ult].pri = x
  BY <1>2, Zenon DEF Cadena
<1>6. \A y \in Movs : sig[y] = mov[y].ult
  OBVIOUS
<1> HIDE DEF sig, P
<1>7. \A y \in D : /\ sig[y] \in D \cup {0}
                   /\ sig[y] # 0 => f[y] < f[sig[y]]
                   /\ y # P.pri => \E z \in D : sig[z] = y
  BY <1>3, <1>5, <1>6
<1>8. Alcanza(Desde(P.pri, sig, MaxMovs)) = D /\ Desde(P.pri, sig, MaxMovs)[MaxMovs] = 0
  <2>1. D \in SUBSET Movs /\ P.pri \in D \cup {0} /\ (P.pri = 0 => D = {})
        /\ f \in [Movs -> Nat]
    BY <1>3, <1>5
  <2> QED BY <2>1, <1>7, RecorridoMovs
<1> QED BY <1>3, <1>4, <1>5, <1>8 DEF P, sig

\* When nobody holds the first record the free list is whole.
LEMMA IInvLibres ==
    ASSUME IInv
    PROVE  LibresFiel
<1>1. PICK f \in [Movs -> Nat] : Inv(f)
  BY DEF IInv
<1>2. PICK L \in SUBSET Movs, g \in [Movs -> Nat] : ListaDe(L, g)
  BY DEF IInv, Lista
<1> SUFFICES ASSUME cab = Nadie
             PROVE  /\ Libres[MaxMovs] = 0
                    /\ \A x \in Alcanza(Libres) : mov[x].borrado
                    /\ Cardinality({x \in 1..fin : mov[x].borrado} \ Alcanza(Libres))
                         <= Cardinality(Muertos)
  BY DEF LibresFiel
<1> DEFINE sig == [x \in Movs |-> mov[x].sig]
<1>3. EnCurso = {}
  BY <1>1, ConstantesMovs DEF Inv, Turno, ConCab, EnCurso, ConstantesMovs
<1>4. /\ L \subseteq Borrados /\ libre \in L \cup {0} /\ (libre = 0 => L = {})
      /\ \A y \in L : /\ mov[y].sig \in L \cup {0}
                      /\ mov[y].sig # 0 => g[y] < g[mov[y].sig]
                      /\ y # libre => \E z \in L : mov[z].sig = y
      /\ Cardinality(Borrados \ L) <= Cardinality(Muertos)
  BY <1>2, <1>3 DEF ListaDe
<1>5. \A y \in Movs : sig[y] = mov[y].sig
  OBVIOUS
<1>6. Libres = Desde(libre, sig, MaxMovs)
  BY DEF Libres
<1> HIDE DEF sig
<1>7. \A y \in L : /\ sig[y] \in L \cup {0}
                   /\ sig[y] # 0 => g[y] < g[sig[y]]
                   /\ y # libre => \E z \in L : sig[z] = y
  BY <1>4, <1>5
<1>8. Alcanza(Libres) = L /\ Libres[MaxMovs] = 0
  <2>1. Alcanza(Desde(libre, sig, MaxMovs)) = L /\ Desde(libre, sig, MaxMovs)[MaxMovs] = 0
    <3>1. libre \in L \cup {0} /\ (libre = 0 => L = {})
      BY <1>4
    <3> QED BY <3>1, <1>7, RecorridoMovs
  <2> QED BY <2>1, <1>6
<1> QED BY <1>4, <1>8 DEF Borrados

-----------------------------------------------------------------------------
(* The theorems. *)

\* The records, the free list, the owners and the buffers keep their types.
THEOREM TipoMovs == Spec => []Tipos
<1>1. Seguro => Tipos
  BY DEF Seguro, Abandonado, IInv, Inv
<1>2. Init => Seguro
  BY InicioIInv, InicioSano DEF Seguro
<1> QED BY <1>1, <1>2, PasoSeguro, PTL DEF Spec

\* Who is inside vdadd, vdlink, vdunlink or vddel has the lock of the first record, and
\* who works on a principal of all is the only one inside the block.
THEOREM TurnoMovs == Spec => []Turno
<1>1. Seguro => Turno
  BY DEF Seguro, Abandonado, IInv, Inv
<1>2. Init => Seguro
  BY InicioIInv, InicioSano DEF Seguro
<1> QED BY <1>1, <1>2, PasoSeguro, PTL DEF Spec

\* The movements of a principal at peace are linked both ways from pri to ult, for any
\* processes, principals, places and deaths, and whatever files are active, until an LD
\* with the movements' file active writes over a place that was taken meanwhile.
THEOREM CadenasSiempre == Spec => []Cadenas
<1>1. Seguro => Cadenas
  <2>1. Abandonado => Pisado
    BY DEF Abandonado, Pisado
  <2> QED BY <2>1, IInvCadenas DEF Seguro, Cadenas
<1>2. Init => Seguro
  BY InicioIInv, InicioSano DEF Seguro
<1> QED BY <1>1, <1>2, PasoSeguro, PTL DEF Spec

\* The free list has no circle, only deleted records, and loses at most one for each
\* killed process, until an LD writes over a place that was taken.
THEOREM LibresSiempre == Spec => []LibresFiel
<1>1. Seguro => LibresFiel
  <2>1. Abandonado => Pisado
    BY DEF Abandonado, Pisado
  <2> QED BY <2>1, IInvLibres DEF Seguro, LibresFiel
<1>2. Init => Seguro
  BY InicioIInv, InicioSano DEF Seguro
<1> QED BY <1>1, <1>2, PasoSeguro, PTL DEF Spec

=============================================================================

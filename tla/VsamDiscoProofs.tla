--------------------------- MODULE VsamDiscoProofs ---------------------------
(***************************************************************************)
(* The blocks, the trees and the records of a VSAM file, and that inclu    *)
(* and vdel implement VsamFile with them, for any number of keys, values   *)
(* and blocks.                                                             *)
(*                                                                         *)
(* The invariant has two parts.  Bien is about the blocks: there is a tree *)
(* for each key (T) such that the clusters of all of them, the records and *)
(* the free chain share out the file, and every slot names a record        *)
(* (Fichero).  The other, Arch!IInv, is the invariant of VsamFile seen     *)
(* through the refinement mapping: the chains and the stacks of the        *)
(* records.  Neither goes without the other: busca leads inclu to the      *)
(* right neighbours because the tree separates its keys, and the records   *)
(* it names are the ones whose pointers change because VsamFile's chain    *)
(* has them side by side.                                                  *)
(*                                                                         *)
(* inclu and vdel go key by key, in any order of the keys: what a key has  *)
(* entered or left stays while the next one does.  What the record does to *)
(* the file as VsamFile sees it is then EnAlta and EnBaja, and those are   *)
(* steps of VsamFile.                                                      *)
(***************************************************************************)
EXTENDS VsamDisco, VsamArbolProofs

-----------------------------------------------------------------------------
(* Deletion of a key *)

\* The leftmost way down from cluster y.
Rama(D, G, y, ls) ==
    /\ ls \in Seq(G.C) /\ Len(ls) \in Nat \ {0} /\ ls[1] = y
    /\ \A j \in 1..Len(ls) : /\ ls[j] \in G.C /\ G.h[ls[j]] = G.h[y] - j + 1
                             /\ G.lo[ls[j]] = G.lo[y]
                             /\ \A k \in Nat : Dentro(G, ls[j], k) => Dentro(G, y, k)
    /\ \A j \in 1..Len(ls)-1 : D[ls[j]].ant = ls[j + 1]
    /\ Last(ls) = ls[Len(ls)] /\ G.h[ls[Len(ls)]] = 0

\* Descenso is it.
LEMMA DescensoEs ==
    ASSUME NEW f, NEW X, NEW G, Disco(f, X), Arbol(f.dsk, G), G.C \subseteq X, NEW y \in G.C
    PROVE  Rama(f.dsk, G, y, Descenso(f, y))
<1> DEFINE D == f.dsk
           N == Len(D)
           sig == [q \in DOMAIN D |-> D[q].ant]
           T == {q \in G.C : G.lo[q] = G.lo[y] /\ \A k \in Nat : Dentro(G, q, k) => Dentro(G, y, k)}
           ls == Huella(y, sig, N)
           g == G.h
<1>2. PICK Z : D \in Seq(Z)
  BY DEF Disco
<1>3. N \in Nat /\ DOMAIN D = 1..N /\ G.C \subseteq 1..N
  <2>1. X \subseteq 1..N
    BY DEF Disco
  <2> HIDE DEF D
  <2> QED BY <1>2, <2>1, LenProperties
<1>p. Puntos(D, G)
  BY DePuntos
<1>4. /\ 0 \notin G.C /\ G.r \in G.C /\ \A q \in G.C : G.h[q] \in Nat
      /\ \A q \in G.C \ {G.r} : G.h[q] < G.h[G.r]
  BY <1>p DEF Puntos
<1>5. 0 \notin T /\ y \in T
  BY <1>4
<1>6. g[y] < N
  <2>1. G.h[G.r] < N
    <3> HIDE DEF N
    <3> QED BY <1>3, Altura
  <2> HIDE DEF N
  <2> QED BY <2>1, <1>3, <1>4
<1>7. \A q \in G.C : sig[q] = D[q].ant
  BY <1>3
<1> HIDE DEF sig, N
<1>8. ASSUME NEW q \in T
      PROVE  /\ g[q] \in Nat
             /\ sig[q] = 0 \/ (sig[q] \in T /\ g[sig[q]] = g[q] - 1)
             /\ sig[q] = 0 => g[q] = 0
  <2> DEFINE c == D[q]
             l == Len(c.ll)
             x == c.ant
  <2>0. q \in G.C /\ G.lo[q] = G.lo[y] /\ \A k \in Nat : Dentro(G, q, k) => Dentro(G, y, k)
    OBVIOUS
  <2>1. Sabido(G, c, l, q)
    BY <2>0, DeNodo
  <2>2. Hijo(c, 0) = x
    BY DEF Hijo
  <2>3. sig[q] = x
    BY <1>7, <2>0
  <2> HIDE DEF c, l, x
  <2>4. g[q] = 0 => x = 0
    BY <2>1, <2>2 DEF Sabido
  <2>5. CASE g[q] # 0
    <3>1. Cotas(G, c, q, 0)
      BY <2>1, <2>5 DEF Sabido
    <3>2. x \in G.C /\ g[x] = g[q] - 1 /\ G.P[x] = q /\ G.lo[x] = G.lo[q]
      BY <2>2, <3>1 DEF Cotas
    <3>3. x \in G.C \ {G.r}
      BY <3>2, <2>0, <1>4, <1>p DEF Puntos
    <3>4. \A k \in Nat : Dentro(G, x, k) => Dentro(G, G.P[x], k)
      BY <3>3, Padre
    <3>5. x \in T
      BY <3>2, <3>4, <2>0
    <3>6. x # 0
      BY <3>2, <1>4
    <3> QED BY <3>2, <3>5, <3>6, <2>0, <2>3, <1>4
  <2> QED BY <2>0, <2>3, <2>4, <2>5, <1>4
<1>9. /\ ls \in Seq(T) /\ Len(ls) \in 1..N /\ ls[1] = y
      /\ \A j \in 1..Len(ls) : ls[j] \in T /\ g[ls[j]] = g[y] - j + 1
      /\ \A j \in 1..Len(ls)-1 : sig[ls[j]] = ls[j + 1]
      /\ sig[ls[Len(ls)]] = 0
  <2>2. N \in Nat /\ 0 \notin T /\ y \in T /\ g[y] < N
        /\ \A z \in T : g[z] \in Nat /\ (sig[z] = 0 \/ (sig[z] \in T /\ g[sig[z]] = g[z] - 1))
    BY <1>3, <1>5, <1>6, <1>8
  <2> HIDE DEF T, g
  <2>3. LET H == Huella(y, sig, N)
        IN  /\ H \in Seq(T) /\ Len(H) \in 1..N /\ H[1] = y
            /\ \A j \in 1..Len(H) : H[j] \in T /\ g[H[j]] = g[y] - j + 1
            /\ \A j \in 1..Len(H)-1 : sig[H[j]] = H[j + 1]
            /\ sig[H[Len(H)]] = 0
    BY <2>2, HuellaEs
  <2> QED BY <2>3
<1>10. Descenso(f, y) = ls
  BY DEF Descenso, sig, N
<1>11. Last(ls) = ls[Len(ls)]
  BY DEF Last
<1>12. g[ls[Len(ls)]] = 0 /\ Len(ls) \in Nat \ {0}
  <2>1. Len(ls) \in Nat \ {0} /\ Len(ls) \in 1..Len(ls)
    BY <1>9, <1>3
  <2> QED BY <2>1, <1>8, <1>9
<1> HIDE DEF ls
<1>13. ls \in Seq(G.C)
  <2>1. T \subseteq G.C
    OBVIOUS
  <2> HIDE DEF T
  <2>2. \A j \in 1..Len(ls) : ls[j] \in G.C
    BY <2>1, <1>9
  <2>3. ls \in [1..Len(ls) -> T]
    BY <1>9, LenProperties
  <2>4. ls \in [1..Len(ls) -> G.C]
    BY <2>2, <2>3
  <2> QED BY <2>4, <1>12
<1>14. \A j \in 1..Len(ls)-1 : D[ls[j]].ant = ls[j + 1]
  <2> TAKE j \in 1..Len(ls)-1
  <2>1. j \in 1..Len(ls)
    BY <1>12
  <2> QED BY <2>1, <1>7, <1>9
<1>15. Rama(D, G, y, ls)
  BY <1>9, <1>11, <1>12, <1>13, <1>14 DEF Rama
<1> QED BY <1>10, <1>15

\* A cluster without one of its slots.
LEMMA ExcluEs ==
    ASSUME NEW c, NEW l \in Nat, NEW k \in 1..l, c = Klug(c.ant, c.ll), c.ll \in Seq(Casillas),
           l = Len(c.ll)
    PROVE  /\ Exclu(c, k) = Klug(c.ant, RemoveAt(c.ll, k)) /\ ~EsLibre(Exclu(c, k))
           /\ Len(RemoveAt(c.ll, k)) = l - 1
<1>1. Exclu(c, k) = Klug(c.ant, RemoveAt(c.ll, k))
  BY DEF Exclu, Klug
<1>2. ~EsLibre(Exclu(c, k))
  BY <1>1, KlugEs
<1> DEFINE u == c.ll
<1>3. u \in Seq(Casillas) /\ k \in 1..Len(u) /\ l = Len(u)
  OBVIOUS
<1> HIDE DEF u
<1>4. /\ RemoveAt(u, k) \in Seq(Casillas)
      /\ Len(RemoveAt(u, k)) = Len(u) - 1
      /\ \A n \in 1..Len(u)-1 : RemoveAt(u, k)[n] = IF n < k THEN u[n] ELSE u[n + 1]
  BY <1>3, Sacado
<1> QED BY <1>1, <1>2, <1>3, <1>4 DEF u

\* The records without one.
SinUno(N, x) == [k \in DOMAIN N \ {x} |-> N[k]]

\* A key is out of its cluster: the way cl down to the leaf g.dsk[cl[Len(cl)]] that lost a slot.
Quitado(f, X, G, g, cl, k1, key, I) ==
    /\ Resto(f, g, X, G, I) /\ g.kpos = f.kpos /\ I.N = SinUno(G.N, key) /\ I.r = G.r /\ I.C = G.C
    /\ Arbol(g.dsk, I) /\ Ruta(g.dsk, I, cl, k1) /\ I.h[cl[Len(cl)]] = 0
    /\ Debe(g, X, I, cl, Len(cl), g, I)

\* How the file g with the tree I came from f and G.
Quitando(f, X, G, g, cl, k1, key, I) ==
    /\ Disco(g, X) /\ G.C \subseteq X /\ \A y \in X \ G.C : g.dsk[y] = f.dsk[y]
    /\ g.vpk = f.vpk /\ g.kpos = f.kpos
    /\ I.N = SinUno(G.N, key) /\ I.r = G.r /\ I.C = G.C /\ I.h = G.h
    /\ Arbol(g.dsk, I) /\ Ruta(g.dsk, I, cl, k1) /\ I.h[cl[Len(cl)]] = 0
    /\ \A y \in G.C \ {cl[Len(cl)]} : Len(g.dsk[y].ll) = Len(f.dsk[y].ll)
    /\ Len(f.dsk[cl[Len(cl)]].ll) \in Nat \ {0}
    /\ Len(g.dsk[cl[Len(cl)]].ll) = Len(f.dsk[cl[Len(cl)]].ll) - 1

\* It is what vdel starts to mend from.
LEMMA QuitadoEs ==
    ASSUME NEW f, NEW X, NEW G, NEW g, NEW cl, NEW k1, NEW key, NEW I,
           Quitando(f, X, G, g, cl, k1, key, I), Llena(f.dsk, G)
    PROVE  Quitado(f, X, G, g, cl, k1, key, I)
<1> DEFINE n == Len(cl)
           z == cl[n]
           lz == Len(f.dsk[z].ll)
           D == f.dsk
           E == g.dsk
<1>1. /\ Disco(g, X) /\ G.C \subseteq X /\ \A y \in X \ G.C : E[y] = D[y]
      /\ g.vpk = f.vpk /\ g.kpos = f.kpos
      /\ I.N = SinUno(G.N, key) /\ I.r = G.r /\ I.C = G.C /\ I.h = G.h
      /\ Arbol(E, I) /\ Ruta(E, I, cl, k1) /\ I.h[z] = 0
      /\ \A y \in G.C \ {z} : Len(E[y].ll) = Len(D[y].ll)
      /\ lz \in Nat \ {0} /\ Len(E[z].ll) = lz - 1
  BY DEF Quitando
<1>2. /\ n \in Nat \ {0} /\ cl[1] = I.r
      /\ \A l \in 1..n : cl[l] \in I.C
      /\ \A l, m \in 1..n : cl[l] = cl[m] => l = m
  <2> HIDE DEF E
  <2>1. /\ Len(cl) \in Nat \ {0} /\ cl[1] = I.r
        /\ \A l \in 1..Len(cl) : cl[l] \in I.C
        /\ \A l, m \in 1..Len(cl) : cl[l] = cl[m] => l = m
    BY <1>1, RutaEs
  <2> QED BY <2>1
<1>3. \A y \in G.C : Buena(D, G, y)
  BY DEF Llena
<1> HIDE DEF D, E
<1>4. Resto(f, g, X, G, I) /\ Resto(g, g, X, I, I)
  <2>1. (X \ G.C) \cup I.C = X /\ (X \ I.C) \cup I.C = X /\ (X \ G.C) \cap I.C = {} /\ (X \ I.C) \cap I.C = {}
    BY <1>1
  <2> QED BY <2>1, <1>1 DEF Resto, D, E
<1>5. \A y \in I.C \ {z} : Buena(E, I, y)
  <2> TAKE y \in I.C \ {z}
  <2>1. Len(E[y].ll) = Len(D[y].ll) /\ I.h[y] = G.h[y] /\ I.r = G.r /\ Buena(D, G, y)
    BY <1>1, <1>3
  <2> QED BY <2>1 DEF Buena
<1>6. Len(E[z].ll) <= TK /\ (n > 1 => Len(E[z].ll) >= 1)
  <2>1. z \in I.C /\ (n > 1 => z # I.r)
    <3>1. n \in 1..n /\ 1 \in 1..n
      BY <1>2
    <3> QED BY <3>1, <1>2
  <2>2. lz <= TK /\ (n > 1 => lz >= 2)
    BY <2>1, <1>1, <1>3 DEF Buena, D
  <2>3. TK = 4
    BY DEF TK
  <2> HIDE DEF lz
  <2> QED BY <2>2, <2>3, <1>1
<1>7. Debe(g, X, I, cl, n, g, I)
  <2>1. \A l \in 1..n : cl[l] \in I.C
    BY <1>2
  <2>2. I.h[z] = 0 /\ Arbol(g.dsk, I)
    BY <1>1 DEF E
  <2> HIDE DEF n
  <2> QED BY <2>1, <2>2, <1>4, <1>5, <1>6 DEF Debe, E, z
<1> QED BY <1>1, <1>4, <1>7 DEF Quitado, E

\* A key in a leaf.
LEMMA QuitaDeHoja ==
    ASSUME NEW f, NEW X, NEW i, NEW G, NEW key \in Nat, NEW b, NEW z, NEW k,
           Raiz(f, X, i, G), Llena(f.dsk, G), Hallado(f, G, b, key), key \in DOMAIN G.N,
           z = Last(b.clusan), k = b.k2, G.h[z] = 0
    PROVE  Quitado(f, X, G, Renu(f, z, Exclu(f.dsk[z], k)), b.clusan, b.k1, key, SinLlave(G, key))
<1> DEFINE D == f.dsk
           c == D[z]
           l == Len(c.ll)
           bz == Exclu(c, k)
           g == Renu(f, z, bz)
           cl == b.clusan
           k1 == b.k1
           n == Len(cl)
           I == SinLlave(G, key)
           E == g.dsk
<1>1. Disco(f, X) /\ Arbol(D, G) /\ G.C \subseteq X
  BY DEF Raiz
<1>2. /\ Ruta(D, G, cl, k1) /\ z = cl[n] /\ z \in G.C /\ k \in 1..l /\ c.ll[k].k = key /\ k = k1[n]
  BY DEF Hallado
<1>3. Sabido(G, c, l, z)
  BY <1>1, <1>2, DeNodo
<1>4. c = Klug(c.ant, c.ll) /\ c.ll \in Seq(Casillas) /\ l \in Nat /\ l = Len(c.ll)
  BY <1>3 DEF Sabido
<1>h. I.h = G.h /\ I.C = G.C /\ I.r = G.r /\ I.N = SinUno(G.N, key) /\ G.h[z] = 0
  BY DEF SinLlave, SinUno
<1>d. D = f.dsk /\ E = g.dsk /\ g = Renu(f, z, bz) /\ bz = Exclu(c, k) /\ c = D[z] /\ l = Len(c.ll)
      /\ n = Len(cl) /\ cl = b.clusan /\ k1 = b.k1
  OBVIOUS
<1> HIDE DEF D, c, l, bz, g, cl, k1, n, I, E
<1>5. bz = Klug(c.ant, RemoveAt(c.ll, k)) /\ ~EsLibre(bz) /\ Len(RemoveAt(c.ll, k)) = l - 1
  <2>1. k \in 1..l
    BY <1>2
  <2> QED BY <2>1, <1>4, <1>d, ExcluEs
<1>6. Escrito(f, g, X, z, bz)
  BY <1>1, <1>2, <1>5, <1>d, RenuEs
<1>7. /\ Disco(g, X) /\ E[z] = bz /\ (\A y \in X \ {z} : E[y] = D[y])
      /\ g.kpos = f.kpos /\ g.vpk = f.vpk
  BY <1>6, <1>d DEF Escrito
<1>8. Arbol(E, I)
  <2>1. Arbol(E, SinLlave(G, D[z].ll[k].k))
    <3>1. k \in 1..Len(D[z].ll) /\ E[z] = Klug(D[z].ant, RemoveAt(D[z].ll, k))
          /\ \A y \in G.C \ {z} : E[y] = D[y]
      BY <1>1, <1>2, <1>5, <1>7, <1>d
    <3> QED BY <3>1, <1>1, <1>2, <1>h, QuitaHoja
  <2> QED BY <2>1, <1>2, <1>d DEF I
<1>9. Len(E[z].ll) = l - 1
  BY <1>5, <1>7 DEF Klug
<1>10. /\ n \in Nat \ {0} /\ cl[1] = G.r
       /\ \A j \in 1..n : cl[j] \in G.C
       /\ \A j, m \in 1..n : cl[j] = cl[m] => j = m
  <2>1. /\ Len(cl) \in Nat \ {0} /\ cl[1] = G.r
        /\ \A j \in 1..Len(cl) : cl[j] \in G.C
        /\ \A j, m \in 1..Len(cl) : cl[j] = cl[m] => j = m
    BY <1>1, <1>2, RutaEs
  <2> QED BY <2>1, <1>d
<1>11. Ruta(E, I, cl, k1)
  <2>1. /\ cl \in Seq(G.C) /\ k1 \in Seq(Nat) /\ Len(k1) = n
        /\ \A j \in 1..n : cl[j] \in G.C /\ G.h[cl[j]] = G.h[G.r] - j + 1
        /\ \A j \in 1..n : k1[j] \in 1..Len(D[cl[j]].ll)+1
        /\ \A j \in 1..n-1 : Hijo(D[cl[j]], k1[j] - 1) = cl[j + 1]
    BY <1>2, <1>d DEF Ruta
  <2>2. \A j \in 1..n-1 : E[cl[j]] = D[cl[j]]
    <3> TAKE j \in 1..n-1
    <3>1. j \in 1..n /\ n \in 1..n /\ j # n
      BY <1>10
    <3>2. cl[j] \in X \ {z}
      BY <3>1, <1>10, <1>1, <1>2
    <3> QED BY <3>2, <1>7
  <2>3. \A j \in 1..n : k1[j] \in 1..Len(E[cl[j]].ll)+1
    <3> TAKE j \in 1..n
    <3>1. CASE j = n
      <4>1. k1[j] \in 1..l /\ cl[j] = z
        BY <3>1, <1>2
      <4> QED BY <4>1, <1>9, <1>4
    <3>2. CASE j # n
      <4>1. j \in 1..n-1
        BY <3>2, <1>10
      <4> QED BY <4>1, <2>1, <2>2
    <3> QED BY <3>1, <3>2
  <2>4. \A j \in 1..n-1 : Hijo(E[cl[j]], k1[j] - 1) = cl[j + 1]
    BY <2>1, <2>2
  <2> QED BY <2>1, <2>3, <2>4, <1>10, <1>h, <1>d DEF Ruta
<1>12. Quitando(f, X, G, g, cl, k1, key, I)
  <2>1. \A y \in X \ G.C : E[y] = D[y]
    BY <1>2, <1>7
  <2>2. \A y \in G.C \ {z} : Len(E[y].ll) = Len(D[y].ll)
    BY <1>1, <1>7
  <2>3. Len(D[z].ll) \in Nat \ {0} /\ Len(E[z].ll) = Len(D[z].ll) - 1
    <3>1. l \in Nat \ {0}
      BY <1>2, <1>4
    <3> QED BY <3>1, <1>9, <1>d
  <2> QED BY <2>1, <2>2, <2>3, <1>1, <1>2, <1>7, <1>8, <1>11, <1>h, <1>d DEF Quitando
<1>13. Quitado(f, X, G, g, cl, k1, key, I)
  BY <1>12, QuitadoEs
<1> QED BY <1>13, <1>d DEF I

\* One sequence after another.
EnSerie(S, u, v, w) ==
    /\ w \in Seq(S) /\ Len(w) = Len(u) + Len(v)
    /\ \A j \in 1..Len(u) : w[j] = u[j]
    /\ \A j \in 1..Len(v) : w[Len(u) + j] = v[j]

\* What a concatenation is.
LEMMA Serie ==
    ASSUME NEW S, NEW u \in Seq(S), NEW v \in Seq(S)
    PROVE  EnSerie(S, u, v, u \o v)
<1> DEFINE w == u \o v
           n == Len(u)
           m == Len(v)
<1>1. /\ w \in Seq(S) /\ Len(w) = n + m
      /\ \A i \in 1..n+m : w[i] = IF i <= n THEN u[i] ELSE v[i - n]
  BY ConcatProperties
<1>2. n \in Nat /\ m \in Nat
  BY LenProperties
<1>d. n = Len(u) /\ m = Len(v)
  OBVIOUS
<1> HIDE DEF n, m, w
<1>3. \A j \in 1..n : w[j] = u[j]
  <2> TAKE j \in 1..n
  <2>1. j \in 1..n+m /\ j <= n
    BY <1>2
  <2> QED BY <2>1, <1>1
<1>4. \A j \in 1..m : w[n + j] = v[j]
  <2> TAKE j \in 1..m
  <2>1. n + j \in 1..n+m /\ ~(n + j <= n) /\ (n + j) - n = j
    BY <1>2
  <2> QED BY <2>1, <1>1
<1>5. EnSerie(S, u, v, w)
  BY <1>1, <1>3, <1>4, <1>d DEF EnSerie
<1> QED BY <1>5 DEF w

\* The slots taken on a way that goes on through slot x - 1 of its last cluster and then
\* always left.
Alargado(u, x, m, w) ==
    /\ w \in Seq(Nat) /\ Len(w) = Len(u) + m
    /\ \A j \in 1..Len(u)-1 : w[j] = u[j]
    /\ w[Len(u)] = x /\ \A j \in 1..m : w[Len(u) + j] = 1

\* They are.
LEMMA Alarga ==
    ASSUME NEW u \in Seq(Nat), Len(u) \in Nat \ {0}, NEW x \in Nat, NEW m \in Nat
    PROVE  Alargado(u, x, m, Front(u) \o <<x>> \o [i \in 1..m |-> 1])
<1> DEFINE n == Len(u)
           a == Front(u)
           e == <<x>>
           d == [i \in 1..m |-> 1]
           b == a \o e
           w == b \o d
<1>1. /\ n \in Nat \ {0} /\ n = Len(u) /\ \A j \in 1..n : u[j] \in Nat
  BY ElementOfSeq
<1>2. a = [j \in 1..n-1 |-> u[j]]
  BY DEF Front
<1>3. a \in Seq(Nat) /\ Len(a) = n - 1
  <2> HIDE DEF n, a
  <2>1. n - 1 \in Nat /\ \A j \in 1..n-1 : u[j] \in Nat
    BY <1>1
  <2>2. a \in [1..n-1 -> Nat]
    BY <1>2, <2>1
  <2> QED BY <2>1, <2>2, <1>2
<1>4. e \in Seq(Nat) /\ Len(e) = 1 /\ e[1] = x
  OBVIOUS
<1>5. d \in Seq(Nat) /\ Len(d) = m /\ \A j \in 1..m : d[j] = 1
  <2>1. d \in [1..m -> Nat]
    OBVIOUS
  <2> QED BY <2>1
<1> HIDE DEF n, a, e, d
<1>6. EnSerie(Nat, a, e, b)
  BY <1>3, <1>4, Serie
<1>7. b \in Seq(Nat) /\ Len(b) = n /\ b[n] = x /\ \A j \in 1..n-1 : b[j] = u[j]
  <2>1. /\ b \in Seq(Nat) /\ Len(b) = (n - 1) + 1
        /\ \A j \in 1..n-1 : b[j] = a[j]
        /\ b[(n - 1) + 1] = e[1]
    <3>1. 1 \in 1..Len(e)
      BY <1>4
    <3> QED BY <1>6, <1>3, <1>4, <3>1 DEF EnSerie
  <2>2. (n - 1) + 1 = n
    BY <1>1
  <2> HIDE DEF b
  <2> QED BY <2>1, <2>2, <1>2, <1>4
<1> HIDE DEF b
<1>8. EnSerie(Nat, b, d, w)
  BY <1>5, <1>7, Serie
<1> HIDE DEF w
<1>9. /\ w \in Seq(Nat) /\ Len(w) = n + m
      /\ \A j \in 1..n : w[j] = b[j]
      /\ \A j \in 1..m : w[n + j] = d[j]
  BY <1>8, <1>5, <1>7 DEF EnSerie
<1>10. n \in 1..n /\ \A j \in 1..n-1 : j \in 1..n
  BY <1>1
<1>11. Alargado(u, x, m, w)
  BY <1>1, <1>5, <1>7, <1>9, <1>10 DEF Alargado
<1> QED BY <1>11 DEF w, b, a, e, d

\* The way down to a cluster, and on to the leaf after one of its slots.
LEMMA AlargaRuta ==
    ASSUME NEW D, NEW G, NEW E, NEW I, NEW cl, NEW k1, NEW k, NEW y, NEW ls, NEW z,
           Ruta(D, G, cl, k1), I.C = G.C /\ I.h = G.h /\ I.r = G.r, z = cl[Len(cl)],
           k \in 1..Len(E[z].ll), Len(E[z].ll) \in Nat, y = Hijo(E[z], k), Rama(D, G, y, ls),
           G.h[y] = G.h[z] - 1, \A q \in G.C : G.h[q] \in Nat,
           \A j \in 1..Len(cl)-1 : E[cl[j]] = D[cl[j]],
           \A j \in 1..Len(ls) : Len(E[ls[j]].ll) \in Nat /\ E[ls[j]].ant = D[ls[j]].ant
    PROVE  Ruta(E, I, cl \o ls, Front(k1) \o <<k + 1>> \o [i \in 1..Len(ls) |-> 1])
<1> DEFINE n == Len(cl)
           m == Len(ls)
           w == cl \o ls
           k2 == Front(k1) \o <<k + 1>> \o [i \in 1..m |-> 1]
<1>1. /\ cl \in Seq(G.C) /\ n \in Nat \ {0} /\ cl[1] = G.r
      /\ k1 \in Seq(Nat) /\ Len(k1) = n
      /\ \A j \in 1..n : cl[j] \in G.C /\ G.h[cl[j]] = G.h[G.r] - j + 1
      /\ \A j \in 1..n : k1[j] \in 1..Len(D[cl[j]].ll)+1
      /\ \A j \in 1..n-1 : Hijo(D[cl[j]], k1[j] - 1) = cl[j + 1]
  BY DEF Ruta
<1>2. /\ ls \in Seq(G.C) /\ m \in Nat \ {0} /\ ls[1] = y
      /\ \A j \in 1..m : ls[j] \in G.C /\ G.h[ls[j]] = G.h[y] - j + 1
      /\ \A j \in 1..m-1 : D[ls[j]].ant = ls[j + 1]
  BY DEF Rama
<1>3. EnSerie(G.C, cl, ls, w)
  BY <1>1, <1>2, Serie
<1>4. Alargado(k1, k + 1, m, k2)
  <2>1. Len(k1) \in Nat \ {0} /\ k + 1 \in Nat /\ m \in Nat
    BY <1>1, <1>2
  <2> HIDE DEF m
  <2> QED BY <2>1, <1>1, Alarga
<1> HIDE DEF w, k2
<1>5. /\ w \in Seq(G.C) /\ Len(w) = n + m
      /\ \A j \in 1..n : w[j] = cl[j]
      /\ \A j \in 1..m : w[n + j] = ls[j]
  BY <1>3 DEF EnSerie
<1>6. /\ k2 \in Seq(Nat) /\ Len(k2) = n + m
      /\ \A j \in 1..n-1 : k2[j] = k1[j]
      /\ k2[n] = k + 1 /\ \A j \in 1..m : k2[n + j] = 1
  BY <1>1, <1>4 DEF Alargado, n
<1>7. y \in G.C /\ z \in G.C /\ G.h[z] = G.h[G.r] - n + 1 /\ G.r \in G.C
  <2>1. 1 \in 1..m /\ n \in 1..n /\ 1 \in 1..n
    BY <1>1, <1>2
  <2> QED BY <2>1, <1>1, <1>2
<1>t. n \in Nat \ {0} /\ m \in Nat \ {0}
  BY <1>1, <1>2
<1>u. /\ \A j \in 1..m : Len(E[ls[j]].ll) \in Nat /\ E[ls[j]].ant = D[ls[j]].ant
      /\ \A j \in 1..n-1 : E[cl[j]] = D[cl[j]]
      /\ z = cl[n]
  OBVIOUS
<1> HIDE DEF n, m
<1>8. ASSUME NEW j \in 1..n+m
      PROVE  /\ w[j] \in G.C /\ G.h[w[j]] = G.h[G.r] - j + 1
             /\ k2[j] \in 1..Len(E[w[j]].ll)+1
             /\ j # n + m => Hijo(E[w[j]], k2[j] - 1) = w[j + 1]
  <2>1. CASE j \in 1..n-1
    <3>1. j \in 1..n /\ j + 1 \in 1..n
      BY <2>1, <1>t
    <3>2. w[j] = cl[j] /\ w[j + 1] = cl[j + 1] /\ k2[j] = k1[j] /\ E[cl[j]] = D[cl[j]]
      BY <2>1, <3>1, <1>5, <1>6, <1>u
    <3>3. Hijo(D[cl[j]], k1[j] - 1) = cl[j + 1]
      BY <2>1, <1>1
    <3> QED BY <3>1, <3>2, <3>3, <1>1
  <2>2. CASE j = n
    <3>1. w[j] = z /\ k2[j] = k + 1
      <4>1. n \in 1..n
        BY <1>t
      <4> QED BY <4>1, <2>2, <1>5, <1>6, <1>u
    <3>2. w[j + 1] = y
      <4>1. 1 \in 1..m
        BY <1>t
      <4> QED BY <4>1, <2>2, <1>5, <1>2
    <3>3. k + 1 \in 1..Len(E[z].ll)+1 /\ (k + 1) - 1 = k
      <4> DEFINE lz == Len(E[z].ll)
      <4>1. k \in 1..lz /\ lz \in Nat
        OBVIOUS
      <4> HIDE DEF lz
      <4>2. k + 1 \in 1..lz+1 /\ (k + 1) - 1 = k
        BY <4>1
      <4> QED BY <4>2 DEF lz
    <3> QED BY <2>2, <3>1, <3>2, <3>3, <1>7
  <2>3. CASE j \in n+1..n+m
    <3> DEFINE t == j - n
    <3>1. t \in 1..m /\ n + t = j
      BY <2>3, <1>t
    <3> HIDE DEF t
    <3>2. w[j] = ls[t] /\ k2[j] = 1 /\ ls[t] \in G.C /\ G.h[ls[t]] = G.h[y] - t + 1
      BY <3>1, <1>2, <1>5, <1>6
    <3>3. G.h[w[j]] = G.h[G.r] - j + 1
      <4>1. G.h[w[j]] = (G.h[z] - 1) - t + 1
        BY <3>2
      <4> DEFINE R == G.h[G.r]
      <4>2. G.h[z] = R - n + 1 /\ R \in Nat
        BY <1>7
      <4> HIDE DEF R
      <4>3. (((R - n + 1) - 1) - t) + 1 = R - j + 1
        BY <3>1, <4>2, <1>t, <2>3
      <4> QED BY <4>1, <4>2, <4>3 DEF R
    <3>4. k2[j] \in 1..Len(E[w[j]].ll)+1
      <4> DEFINE lz == Len(E[w[j]].ll)
      <4>1. lz \in Nat
        BY <3>1, <3>2, <1>u
      <4> HIDE DEF lz
      <4>2. k2[j] \in 1..lz+1
        BY <4>1, <3>2
      <4> QED BY <4>2 DEF lz
    <3>5. ASSUME j # n + m PROVE Hijo(E[w[j]], k2[j] - 1) = w[j + 1]
      <4>1. t \in 1..m-1 /\ t + 1 \in 1..m /\ n + (t + 1) = j + 1
        BY <3>1, <3>5, <1>t, <2>3
      <4>2. w[j + 1] = ls[t + 1] /\ D[ls[t]].ant = ls[t + 1]
        <5>1. w[n + (t + 1)] = ls[t + 1]
          BY <4>1, <1>5
        <5>2. D[ls[t]].ant = ls[t + 1]
          BY <4>1, <1>2
        <5> QED BY <4>1, <5>1, <5>2
      <4>3. E[ls[t]].ant = D[ls[t]].ant
        BY <3>1, <1>u
      <4>4. Hijo(E[w[j]], 0) = E[w[j]].ant /\ k2[j] - 1 = 0
        BY <3>2 DEF Hijo
      <4> QED BY <3>2, <4>2, <4>3, <4>4
    <3> QED BY <3>2, <3>3, <3>4, <3>5
  <2>4. j \in 1..n-1 \/ j = n \/ j \in n+1..n+m
    BY <1>t
  <2> QED BY <2>1, <2>2, <2>3, <2>4
<1>9. w[1] = G.r
  <2>1. 1 \in 1..n
    BY <1>t
  <2> QED BY <2>1, <1>1, <1>5
<1>10. Ruta(E, I, w, k2)
  <2>1. n + m \in Nat \ {0} /\ \A j \in 1..(n + m)-1 : j \in 1..n+m /\ j # n + m
    BY <1>t
  <2> QED BY <2>1, <1>5, <1>6, <1>8, <1>9 DEF Ruta
<1> QED BY <1>10 DEF w, k2, m, n

\* A slot with another key.
Separado(c, k, s, b) ==
    /\ b = Klug(c.ant, [c.ll EXCEPT ![k] = Ranura(s.k, s.nm, @.may)]) /\ ~EsLibre(b)
    /\ Len(b.ll) = Len(c.ll) /\ b.ant = c.ant /\ b.ll[k].may = c.ll[k].may

\* Separa gives one.
LEMMA SeparaEs ==
    ASSUME NEW c, NEW k, NEW s, c = Klug(c.ant, c.ll), c.ll \in Seq(Casillas), k \in 1..Len(c.ll)
    PROVE  Separado(c, k, s, Separa(c, k, s))
<1> DEFINE u == c.ll
           r == Ranura(s.k, s.nm, u[k].may)
           w == [u EXCEPT ![k] = r]
           b == Separa(c, k, s)
<1>1. b = [c EXCEPT !.ll[k] = Ranura(s.k, s.nm, @.may)]
  BY DEF Separa
<1>2. c = Klug(c.ant, u) /\ k \in DOMAIN u /\ DOMAIN u = 1..Len(u) /\ Len(u) \in Nat
  BY LenProperties
<1>3. [c EXCEPT !.ll[k] = Ranura(s.k, s.nm, @.may)] = [c EXCEPT !.ll = [u EXCEPT ![k] = r]]
  OBVIOUS
<1>4. [c EXCEPT !.ll = w] = Klug(c.ant, w)
  <2> HIDE DEF w
  <2> QED BY <1>2 DEF Klug
<1>5. w = [c.ll EXCEPT ![k] = Ranura(s.k, s.nm, @.may)]
  OBVIOUS
<1>6. Len(w) = Len(u) /\ w[k] = r
  <2>1. DOMAIN w = 1..Len(u) /\ w[k] = r
    BY <1>2
  <2>2. \E S : w \in Seq(S)
    <3>1. w = [n \in 1..Len(u) |-> w[n]]
      BY <2>1, <1>2
    <3> DEFINE S == {w[n] : n \in 1..Len(u)}
    <3>2. w \in [1..Len(u) -> S]
      <4> HIDE DEF w
      <4> QED BY <3>1
    <3>3. w \in Seq(S)
      <4> HIDE DEF w, S
      <4> QED BY <3>2, <1>2
    <3> QED BY <3>3
  <2> HIDE DEF w
  <2> QED BY <2>1, <2>2, <1>2, LenProperties
<1>7. r.may = u[k].may
  BY DEF Ranura
<1>8. b = Klug(c.ant, w)
  BY <1>1, <1>3, <1>4
<1> HIDE DEF w, b, r
<1>9. b.ll = w /\ b.ant = c.ant
  BY <1>8 DEF Klug
<1>10. ~EsLibre(b)
  BY <1>8, KlugEs
<1> QED BY <1>5, <1>6, <1>7, <1>8, <1>9, <1>10 DEF b, Separado

\* The key of slot k of z, the way ls down to the leaf h after it, and its first slot s.
Siguiente(f, b, z, k, ls, h, s) ==
    /\ z = Last(b.clusan) /\ k = b.k2
    /\ ls = Descenso(f, f.dsk[z].ll[k].may) /\ h = Last(ls) /\ s = f.dsk[h].ll[1]

\* A key in a cluster with others under it: the first slot of the leaf after it is moved.
LEMMA QuitaDeDentro ==
    ASSUME NEW f, NEW X, NEW i, NEW G, NEW key \in Nat, NEW b, NEW z, NEW k, NEW ls, NEW h, NEW s,
           Raiz(f, X, i, G), Llena(f.dsk, G), Hallado(f, G, b, key), key \in DOMAIN G.N,
           Siguiente(f, b, z, k, ls, h, s), G.h[z] # 0
    PROVE  Quitado(f, X, G,
                   Renu(Renu(f, h, Exclu(f.dsk[h], 1)), z, Separa(f.dsk[z], k, s)),
                   b.clusan \o ls, Front(b.k1) \o <<k + 1>> \o [j \in 1..Len(ls) |-> 1],
                   key, Relevado(G, z, key, s.k))
<1> DEFINE D == f.dsk
           c == D[z]
           l == Len(c.ll)
           y == c.ll[k].may
           d == D[h]
           L == Len(d.ll)
           bh == Exclu(d, 1)
           g1 == Renu(f, h, bh)
           bz == Separa(c, k, s)
           g == Renu(g1, z, bz)
           cl == b.clusan
           k1 == b.k1
           n == Len(cl)
           I == Relevado(G, z, key, s.k)
           E == g.dsk
           w == cl \o ls
           k2 == Front(k1) \o <<k + 1>> \o [j \in 1..Len(ls) |-> 1]
<1>1. Disco(f, X) /\ Arbol(D, G) /\ G.C \subseteq X
  BY DEF Raiz
<1>2. /\ Ruta(D, G, cl, k1) /\ z = cl[n] /\ z \in G.C /\ k \in 1..l /\ c.ll[k].k = key
  <2>1. z = Last(b.clusan) /\ k = b.k2
    BY DEF Siguiente
  <2> QED BY <2>1 DEF Hallado
<1>3. Sabido(G, c, l, z)
  BY <1>1, <1>2, DeNodo
<1>4. c = Klug(c.ant, c.ll) /\ c.ll \in Seq(Casillas) /\ l \in Nat /\ l = Len(c.ll) /\ G.h[z] \in Nat
  BY <1>3 DEF Sabido
<1>h. I.h = G.h /\ I.C = G.C /\ I.r = G.r /\ I.N = SinUno(G.N, key) /\ G.h[z] # 0
  BY DEF Relevado, SinUno
<1>d. /\ D = f.dsk /\ E = g.dsk /\ g1 = Renu(f, h, bh) /\ g = Renu(g1, z, bz) /\ bh = Exclu(d, 1)
      /\ bz = Separa(c, k, s) /\ c = D[z] /\ l = Len(c.ll) /\ d = D[h] /\ L = Len(d.ll)
      /\ n = Len(cl) /\ cl = b.clusan /\ k1 = b.k1 /\ y = c.ll[k].may /\ s = d.ll[1]
      /\ ls = Descenso(f, y) /\ h = Last(ls)
  BY DEF Siguiente
<1>b. \A q \in G.C \ {G.r} : Len(D[q].ll) >= 2
  BY DEF Llena, Buena
<1> DEFINE m == Len(ls)
<1> HIDE DEF D, c, l, bz, g, cl, k1, n, I, E, y, d, L, bh, g1, w, k2, m
<1>k. k \in 1..l /\ l \in Nat
  BY <1>2, <1>4
<1>y. Hijo(c, k) = y
  <2>1. k # 0
    BY <1>k
  <2> QED BY <2>1, <1>d DEF Hijo
<1>p. Puntos(D, G)
  BY <1>1, DePuntos
<1>q. \A q \in G.C : G.h[q] \in Nat
  BY <1>p DEF Puntos
<1>5. /\ Cotas(G, c, z, k) /\ y # G.r
      /\ k < l => c.ll[k + 1].k \in Nat
      /\ c.ll[k].k \in Nat /\ G.hi[z] \in Nat \cup {-1}
  <2>1. k \in 0..l /\ (k < l => k + 1 \in 1..l)
    BY <1>k
  <2> QED BY <1>2, <1>3, <1>h, <1>y, <2>1 DEF Sabido
<1>6. /\ y \in G.C /\ G.h[y] = G.h[z] - 1 /\ G.P[y] = z /\ G.lo[y] = key
      /\ G.hi[y] = IF k = l THEN G.hi[z] ELSE c.ll[k + 1].k
  <2>1. k # 0
    BY <1>k
  <2> QED BY <2>1, <1>2, <1>4, <1>5, <1>y DEF Cotas
<1>7. Rama(D, G, y, ls)
  <2>1. Rama(f.dsk, G, y, Descenso(f, y))
    BY <1>1, <1>6, <1>d, DescensoEs
  <2> QED BY <2>1, <1>d
<1>8. /\ h \in G.C /\ G.h[h] = 0 /\ G.lo[h] = key
      /\ \A q \in Nat : Dentro(G, h, q) => Dentro(G, y, q)
      /\ h = ls[m] /\ m \in Nat \ {0} /\ m \in 1..m
      /\ \A j \in 1..m : ls[j] \in G.C /\ G.h[ls[j]] = G.h[y] - j + 1
  <2>1. /\ m \in Nat \ {0} /\ Last(ls) = ls[m] /\ G.h[ls[m]] = 0
        /\ \A j \in 1..m : /\ ls[j] \in G.C /\ G.h[ls[j]] = G.h[y] - j + 1
                           /\ G.lo[ls[j]] = G.lo[y]
                           /\ \A q \in Nat : Dentro(G, ls[j], q) => Dentro(G, y, q)
    BY <1>7 DEF Rama, m
  <2>2. m \in 1..m
    BY <2>1
  <2>3. h = ls[m]
    BY <2>1, <1>d
  <2> QED BY <2>1, <2>2, <2>3, <1>6
<1>9. h # z /\ h # G.r
  <2>1. h # z
    BY <1>8, <1>h
  <2>2. h # G.r
    <3>1. G.r = z \/ G.h[z] < G.h[G.r]
      BY <1>2, <1>p DEF Puntos
    <3>2. G.h[z] \in Nat /\ G.h[z] # 0
      BY <1>h, <1>4
    <3>3. G.h[G.r] # 0
      BY <3>1, <3>2
    <3> QED BY <3>3, <1>8
  <2> QED BY <2>1, <2>2
<1>10. Sabido(G, d, L, h) /\ L \in Nat /\ L >= 2 /\ 1 \in 1..L
  <2>1. Sabido(G, d, L, h)
    BY <1>1, <1>8, <1>d, DeNodo
  <2>2. L \in Nat
    BY <2>1 DEF Sabido
  <2>3. L >= 2
    BY <1>8, <1>9, <1>b, <1>d
  <2>4. 1 \in 1..L
    BY <2>2, <2>3
  <2> QED BY <2>1, <2>2, <2>3, <2>4
<1>11. /\ d = Klug(d.ant, d.ll) /\ d.ll \in Seq(Casillas) /\ L = Len(d.ll)
       /\ s.k \in Nat /\ Dentro(G, h, s.k)
  BY <1>10, <1>d DEF Sabido, Dentro
<1>12. Dentro(G, y, s.k) /\ Dentro(G, z, s.k)
  <2>1. Dentro(G, y, s.k)
    BY <1>8, <1>11
  <2>2. y \in G.C \ {G.r}
    BY <1>5, <1>6
  <2>3. \A q \in Nat : Dentro(G, y, q) => Dentro(G, G.P[y], q)
    BY <2>2, <1>1, Padre
  <2> QED BY <2>1, <2>3, <1>6, <1>11
<1>13. ASSUME k < l PROVE s.k < c.ll[k + 1].k
  <2>1. k # l
    BY <1>13, <1>k
  <2>2. G.hi[y] = c.ll[k + 1].k /\ c.ll[k + 1].k \in Nat
    BY <2>1, <1>5, <1>6, <1>13
  <2>3. G.hi[y] # -1
    BY <2>2
  <2> QED BY <2>2, <2>3, <1>12 DEF Dentro, Bajo0
<1>14. bh = Klug(d.ant, RemoveAt(d.ll, 1)) /\ ~EsLibre(bh) /\ Len(RemoveAt(d.ll, 1)) = L - 1
  <2>1. L \in Nat /\ 1 \in 1..L /\ d = Klug(d.ant, d.ll) /\ d.ll \in Seq(Casillas) /\ L = Len(d.ll)
    BY <1>10, <1>11
  <2>2. /\ Exclu(d, 1) = Klug(d.ant, RemoveAt(d.ll, 1)) /\ ~EsLibre(Exclu(d, 1))
        /\ Len(RemoveAt(d.ll, 1)) = L - 1
    BY <2>1, ExcluEs
  <2> QED BY <2>2 DEF bh
<1>15. /\ bz = Klug(c.ant, [c.ll EXCEPT ![k] = Ranura(s.k, s.nm, @.may)]) /\ ~EsLibre(bz)
       /\ Len(bz.ll) = l /\ bz.ant = c.ant /\ bz.ll[k].may = y
  <2>1. k \in 1..Len(c.ll)
    BY <1>2, <1>4
  <2>2. Separado(c, k, s, Separa(c, k, s))
    BY <2>1, <1>4, SeparaEs
  <2>3. Separado(c, k, s, bz)
    BY <2>2, <1>d
  <2>4. l = Len(c.ll) /\ y = c.ll[k].may
    BY <1>d
  <2> QED BY <2>3, <2>4 DEF Separado
<1>16. Escrito(f, g1, X, h, bh)
  BY <1>1, <1>8, <1>14, <1>d, RenuEs
<1>17. Escrito(g1, g, X, z, bz)
  <2>1. Disco(g1, X) /\ z \in X
    BY <1>1, <1>2, <1>16 DEF Escrito
  <2> QED BY <2>1, <1>15, <1>d, RenuEs
<1>18. /\ Disco(g, X) /\ E[z] = bz /\ E[h] = bh /\ (\A q \in X \ {z, h} : E[q] = D[q])
       /\ g.kpos = f.kpos /\ g.vpk = f.vpk
  <2>1. /\ g1.dsk[h] = bh /\ (\A q \in X \ {h} : g1.dsk[q] = D[q])
        /\ g1.kpos = f.kpos /\ g1.vpk = f.vpk
    BY <1>16, <1>d DEF Escrito
  <2>2. /\ Disco(g, X) /\ E[z] = bz /\ (\A q \in X \ {z} : E[q] = g1.dsk[q])
        /\ g.kpos = g1.kpos /\ g.vpk = g1.vpk
    BY <1>17, <1>d DEF Escrito
  <2>3. E[h] = bh
    BY <2>1, <2>2, <1>1, <1>8, <1>9
  <2>4. \A q \in X \ {z, h} : E[q] = D[q]
    BY <2>1, <2>2
  <2> QED BY <2>1, <2>2, <2>3, <2>4
<1>19. Arbol(E, I)
  <2>1. Relevo(D, E, G, z, k, h)
    <3>1. /\ z \in G.C /\ G.h[z] # 0 /\ k \in 1..Len(D[z].ll)
          /\ h \in G.C /\ G.h[h] = 0 /\ G.lo[h] = D[z].ll[k].k /\ 1 <= Len(D[h].ll)
      <4>1. 1 <= L
        BY <1>10
      <4>2. L = Len(D[h].ll) /\ l = Len(D[z].ll) /\ c = D[z]
        BY <1>d
      <4> QED BY <4>1, <4>2, <1>2, <1>8, <1>h
    <3>2. k < Len(D[z].ll) => D[h].ll[1].k < D[z].ll[k + 1].k
      BY <1>13, <1>d
    <3>3. Dentro(G, z, D[h].ll[1].k)
      BY <1>12, <1>d
    <3>4. /\ E[z] = Klug(D[z].ant, [D[z].ll EXCEPT ![k] = Ranura(D[h].ll[1].k, D[h].ll[1].nm, @.may)])
          /\ E[h] = Klug(D[h].ant, RemoveAt(D[h].ll, 1))
      BY <1>14, <1>15, <1>18, <1>d
    <3>5. \A q \in G.C \ {z, h} : E[q] = D[q]
      BY <1>1, <1>18
    <3> QED BY <3>1, <3>2, <3>3, <3>4, <3>5 DEF Relevo
  <2>2. Arbol(E, Relevado(G, z, D[z].ll[k].k, D[h].ll[1].k))
    BY <2>1, <1>1, Sustituye
  <2> QED BY <2>2, <1>2, <1>d DEF I
<1>20. Len(E[h].ll) = L - 1 /\ E[h].ant = D[h].ant /\ Len(E[h].ll) \in Nat
  <2>1. E[h] = Klug(d.ant, RemoveAt(d.ll, 1)) /\ d = D[h]
    BY <1>14, <1>18, <1>d
  <2>2. E[h].ll = RemoveAt(d.ll, 1) /\ E[h].ant = D[h].ant
    BY <2>1 DEF Klug
  <2>3. L - 1 \in Nat
    BY <1>10
  <2> QED BY <2>2, <2>3, <1>14
<1>21. Ruta(E, I, w, k2)
  <2>1. \A j \in 1..n-1 : E[cl[j]] = D[cl[j]]
    <3>1. n \in Nat \ {0} /\ \A t \in 1..n : cl[t] \in G.C /\ G.h[cl[t]] = G.h[G.r] - t + 1
      BY <1>2 DEF Ruta, n
    <3> TAKE j \in 1..n-1
    <3>2. j \in 1..n /\ n \in 1..n /\ j < n
      BY <3>1
    <3> DEFINE R == G.h[G.r]
               hj == G.h[cl[j]]
               hz == G.h[z]
    <3>3. cl[j] \in G.C /\ hj = R - j + 1 /\ hz = R - n + 1 /\ hz \in Nat /\ R \in Nat
      BY <3>1, <3>2, <1>2, <1>4, <1>p DEF Puntos
    <3>4. hj # hz /\ hj # 0
      <4> HIDE DEF R, hj, hz
      <4> QED BY <3>1, <3>2, <3>3
    <3>5. cl[j] # z /\ cl[j] # h
      BY <3>4, <1>8
    <3> QED BY <3>3, <3>5, <1>1, <1>18
  <2>2. \A j \in 1..m : Len(E[ls[j]].ll) \in Nat /\ E[ls[j]].ant = D[ls[j]].ant
    <3> TAKE j \in 1..m
    <3> DEFINE hy == G.h[y]
    <3>1. ls[j] \in G.C /\ G.h[ls[j]] = hy - j + 1 /\ hy = G.h[z] - 1 /\ hy \in Nat /\ G.h[z] \in Nat
      BY <1>8, <1>6, <1>q, <1>4
    <3>2. ls[j] # z
      <4> HIDE DEF hy
      <4>1. G.h[ls[j]] # G.h[z]
        BY <3>1, <1>8
      <4> QED BY <4>1
    <3>3. CASE ls[j] = h
      BY <3>3, <1>20
    <3>4. CASE ls[j] # h
      <4>1. E[ls[j]] = D[ls[j]]
        BY <3>1, <3>2, <3>4, <1>1, <1>18
      <4>2. Sabido(G, D[ls[j]], Len(D[ls[j]].ll), ls[j])
        BY <3>1, <1>1, DeNodo
      <4>3. Len(D[ls[j]].ll) \in Nat
        BY <4>2 DEF Sabido
      <4> QED BY <4>1, <4>3
    <3> QED BY <3>3, <3>4
  <2>3. /\ I.C = G.C /\ I.h = G.h /\ I.r = G.r
    BY <1>h
  <2>4. z = cl[Len(cl)] /\ k \in 1..Len(E[z].ll) /\ Len(E[z].ll) \in Nat /\ y = Hijo(E[z], k)
    <3>0. k # 0
      BY <1>k
    <3>1. Hijo(bz, k) = bz.ll[k].may
      BY <3>0 DEF Hijo
    <3>2. E[z] = bz /\ Len(bz.ll) = l
      BY <1>15, <1>18
    <3>3. k \in 1..Len(E[z].ll) /\ Len(E[z].ll) \in Nat
      BY <3>2, <1>k
    <3> QED BY <3>1, <3>2, <3>3, <1>2, <1>15, <1>d
  <2>6. /\ \A j \in 1..Len(cl)-1 : E[cl[j]] = D[cl[j]]
        /\ \A j \in 1..Len(ls) : Len(E[ls[j]].ll) \in Nat /\ E[ls[j]].ant = D[ls[j]].ant
    BY <2>1, <2>2 DEF n, m
  <2>7. Ruta(D, G, cl, k1) /\ Rama(D, G, y, ls) /\ G.h[y] = G.h[z] - 1
    BY <1>2, <1>6, <1>7
  <2>5. Ruta(E, I, cl \o ls, Front(k1) \o <<k + 1>> \o [j \in 1..Len(ls) |-> 1])
    BY <2>3, <2>4, <2>6, <2>7, <1>q, AlargaRuta
  <2> QED BY <2>5 DEF w, k2
<1>22. w[Len(w)] = h
  <2>1. EnSerie(G.C, cl, ls, w)
    <3>1. cl \in Seq(G.C) /\ ls \in Seq(G.C)
      BY <1>2, <1>7 DEF Ruta, Rama
    <3>2. EnSerie(G.C, cl, ls, cl \o ls)
      BY <3>1, Serie
    <3> QED BY <3>2 DEF w
  <2>2. Len(w) = n + m /\ \A j \in 1..m : w[n + j] = ls[j]
    BY <2>1 DEF EnSerie, n, m
  <2> QED BY <2>2, <1>8
<1>23. Quitando(f, X, G, g, w, k2, key, I)
  <2>1. \A q \in X \ G.C : E[q] = D[q]
    BY <1>2, <1>8, <1>18
  <2>2. \A q \in G.C \ {h} : Len(E[q].ll) = Len(D[q].ll)
    BY <1>1, <1>15, <1>18, <1>d
  <2>3. Len(D[h].ll) \in Nat \ {0} /\ Len(E[h].ll) = Len(D[h].ll) - 1
    <3>1. L \in Nat \ {0}
      BY <1>10
    <3>2. L = Len(D[h].ll)
      BY <1>d
    <3> QED BY <3>1, <3>2, <1>20
  <2>4. I.h[w[Len(w)]] = 0
    BY <1>8, <1>22, <1>h
  <2> QED BY <2>1, <2>2, <2>3, <2>4, <1>1, <1>18, <1>19, <1>21, <1>22, <1>h, <1>d DEF Quitando
<1>24. Quitado(f, X, G, g, w, k2, key, I)
  BY <1>23, QuitadoEs
<1> QED BY <1>24, <1>d DEF I, w, k2, bz, bh, g, g1, cl, k1, c, d, D

\* The fields of what busca answers.
EsBusca(b) == b = [rec |-> b.rec, clusan |-> b.clusan, k1 |-> b.k1, k2 |-> b.k2,
                   menor |-> b.menor, mayor |-> b.mayor]

\* They are those.
LEMMA BuscaForma == ASSUME NEW f, NEW i, NEW key PROVE EsBusca(Busca(f, i, key))
<1> DEFINE cl == Huella(f.kpos[i], Baja(f, key), Len(f.dsk))
           k1 == [j \in DOMAIN cl |-> Menores(f.dsk[cl[j]], key) + 1]
           c == f.dsk[Last(cl)]
           m == Menores(c, key)
           b == Busca(f, i, key)
<1>1. b = IF Halla(c, key)
          THEN [rec |-> c.ll[m + 1].nm, clusan |-> cl, k1 |-> k1, k2 |-> m + 1,
                menor |-> 0, mayor |-> 0]
          ELSE [rec |-> -1, clusan |-> cl, k1 |-> k1, k2 |-> 0,
                menor |-> IF m = 0 THEN 0 ELSE c.ll[m].nm, mayor |-> MayorDe(c, m)]
  BY DEF Busca, Llega
<1> HIDE DEF cl, k1, c, m, b
<1>2. EsBusca(b)
  <2>1. CASE Halla(c, key)
    <3>1. b = [rec |-> c.ll[m + 1].nm, clusan |-> cl, k1 |-> k1, k2 |-> m + 1,
               menor |-> 0, mayor |-> 0]
      BY <1>1, <2>1
    <3> QED BY <3>1 DEF EsBusca
  <2>2. CASE ~Halla(c, key)
    <3>1. b = [rec |-> -1, clusan |-> cl, k1 |-> k1, k2 |-> 0,
               menor |-> IF m = 0 THEN 0 ELSE c.ll[m].nm, mayor |-> MayorDe(c, m)]
      BY <1>1, <2>2
    <3> QED BY <3>1 DEF EsBusca
  <2> QED BY <2>1, <2>2
<1> QED BY <1>2 DEF b

\* baja takes the key out of its cluster.
LEMMA QuitaEs ==
    ASSUME NEW f, NEW X, NEW i, NEW G, NEW key \in Nat, NEW b, EsBusca(b),
           Raiz(f, X, i, G), Llena(f.dsk, G), Hallado(f, G, b, key), key \in DOMAIN G.N
    PROVE  \E I : Quitado(f, X, G, Quita(f, b).f, Quita(f, b).b.clusan, Quita(f, b).b.k1, key, I)
<1> DEFINE z == Last(b.clusan)
           k == b.k2
           c == f.dsk[z]
           ls == Descenso(f, c.ll[k].may)
           h == Last(ls)
           s == f.dsk[h].ll[1]
           g1 == Renu(f, h, Exclu(f.dsk[h], 1))
           fa == Renu(f, z, Exclu(c, k))
           fb == Renu(g1, z, Separa(c, k, s))
           w == b.clusan \o ls
           k2 == Front(b.k1) \o <<k + 1>> \o [j \in 1..Len(ls) |-> 1]
           q == Quita(f, b)
<1>1. q = IF c.ll[k].may = 0 THEN [f |-> fa, b |-> b]
          ELSE [f |-> fb, b |-> [b EXCEPT !.clusan = w, !.k1 = k2]]
  BY DEF Quita
<1>2. z \in G.C /\ k \in 1..Len(c.ll)
  BY DEF Hallado
<1>3. Sabido(G, c, Len(c.ll), z) /\ 0 \notin G.C
  <2>1. Arbol(f.dsk, G)
    BY DEF Raiz
  <2>2. Sabido(G, c, Len(c.ll), z)
    BY <1>2, <2>1, DeNodo
  <2>3. Puntos(f.dsk, G)
    BY <2>1, DePuntos
  <2> QED BY <2>2, <2>3 DEF Puntos
<1>4. c.ll[k].may = 0 <=> G.h[z] = 0
  <2> DEFINE l == Len(c.ll)
             x == c.ll[k].may
  <2>1. k \in 1..l /\ Sabido(G, c, l, z)
    BY <1>2, <1>3
  <2> HIDE DEF c, l, x, k, z
  <2>2. l \in Nat
    BY <2>1 DEF Sabido
  <2>3. k \in 0..l /\ k # 0
    BY <2>1, <2>2
  <2>4. Hijo(c, k) = x
    BY <2>3 DEF Hijo, x
  <2>5. G.h[z] = 0 => x = 0
    BY <2>1, <2>3, <2>4 DEF Sabido
  <2>6. G.h[z] # 0 => x # 0
    <3>1. G.h[z] # 0 => Cotas(G, c, z, k)
      BY <2>1, <2>3 DEF Sabido
    <3>2. G.h[z] # 0 => x \in G.C
      BY <3>1, <2>4 DEF Cotas
    <3> QED BY <3>2, <1>3
  <2> QED BY <2>5, <2>6 DEF x
<1>5. CASE G.h[z] = 0
  <2>1. Quitado(f, X, G, fa, b.clusan, b.k1, key, SinLlave(G, key))
    BY <1>5, QuitaDeHoja
  <2>2. q = [f |-> fa, b |-> b]
    BY <1>1, <1>4, <1>5
  <2> HIDE DEF q, fa
  <2>3. q.f = fa /\ q.b = b
    BY <2>2
  <2>4. Quitado(f, X, G, q.f, q.b.clusan, q.b.k1, key, SinLlave(G, key))
    BY <2>1, <2>3
  <2> QED BY <2>4 DEF q
<1>6. CASE G.h[z] # 0
  <2>1. Siguiente(f, b, z, k, ls, h, s)
    BY DEF Siguiente
  <2>d. w = b.clusan \o ls /\ k2 = Front(b.k1) \o <<k + 1>> \o [j \in 1..Len(ls) |-> 1]
        /\ fb = Renu(Renu(f, h, Exclu(f.dsk[h], 1)), z, Separa(f.dsk[z], k, s))
    OBVIOUS
  <2>2. q = [f |-> fb, b |-> [b EXCEPT !.clusan = w, !.k1 = k2]]
    BY <1>1, <1>4, <1>6
  <2>3. G.h[z] # 0
    BY <1>6
  <2> HIDE DEF q, fb, w, k2, z, k, ls, h, s, c, g1
  <2>4. Quitado(f, X, G, fb, w, k2, key, Relevado(G, z, key, s.k))
    <3>1. Quitado(f, X, G,
                   Renu(Renu(f, h, Exclu(f.dsk[h], 1)), z, Separa(f.dsk[z], k, s)),
                   b.clusan \o ls, Front(b.k1) \o <<k + 1>> \o [j \in 1..Len(ls) |-> 1],
                   key, Relevado(G, z, key, s.k))
      BY <2>1, <2>3, QuitaDeDentro
    <3> QED BY <3>1, <2>d
  <2>5. q.f = fb /\ q.b.clusan = w /\ q.b.k1 = k2
    <3> DEFINE b2 == [b EXCEPT !.clusan = w, !.k1 = k2]
    <3>1. b2.clusan = w /\ b2.k1 = k2
      BY DEF EsBusca
    <3> HIDE DEF b2
    <3>2. q.f = fb /\ q.b = b2
      BY <2>2 DEF b2
    <3> QED BY <3>1, <3>2
  <2>6. Quitado(f, X, G, q.f, q.b.clusan, q.b.k1, key, Relevado(G, z, key, s.k))
    BY <2>4, <2>5
  <2> QED BY <2>6 DEF q
<1> QED BY <1>5, <1>6

\* Where vdel stands when it has gone up to level n of the way: e is what forma answered last.
Van(f, X, G, cl, n, e, a) ==
    \/ e.r = 0 /\ \E I : Debe(f, X, G, cl, n, e.f, I)
    \/ n = 1 /\ e.r = 1 /\ \E I : Bajado(f, X, G, e.f, a, I)

\* The end of it, where no cluster has too few slots.
LEMMA Acaba ==
    ASSUME NEW f, NEW X, NEW G, NEW f1, NEW J, NEW cl, NEW k1, NEW n \in Nat, NEW e, NEW a, NEW key,
           NEW i \in Llaves, f.kpos \in [Llaves -> Nat], G.r = f.kpos[i],
           Quitado(f, X, G, f1, cl, k1, key, J), n \in 1..Len(cl), Van(f1, X, J, cl, n, e, a),
           n = 1 \/ ~Debil(e.f.dsk[cl[n]])
    PROVE  \E I : Puesto(f, IF n = 1 /\ e.r = 1 THEN [e.f EXCEPT !.kpos[i] = a] ELSE e.f,
                         X, G, SinUno(G.N, key), i, I)
<1>1. /\ Resto(f, f1, X, G, J) /\ f1.kpos = f.kpos /\ J.N = SinUno(G.N, key) /\ J.r = G.r /\ J.C = G.C
      /\ Arbol(f1.dsk, J) /\ Ruta(f1.dsk, J, cl, k1)
  BY DEF Quitado
<1>2. cl[1] = J.r /\ Len(cl) \in Nat \ {0}
  BY <1>1 DEF Ruta
<1>3. ASSUME NEW g, NEW I, Resto(f1, g, X, J, I)
      PROVE  Resto(f, g, X, G, I)
  BY <1>1, <1>3 DEF Resto
<1>4. CASE e.r = 0 /\ \E I : Debe(f1, X, J, cl, n, e.f, I)
  <2> DEFINE g == e.f
             z == cl[n]
             l == Len(g.dsk[z].ll)
  <2>1. PICK I : Debe(f1, X, J, cl, n, g, I)
    BY <1>4
  <2>2. /\ Resto(f1, g, X, J, I) /\ g.kpos = f1.kpos /\ Arbol(g.dsk, I)
        /\ I.N = J.N /\ I.r = J.r
        /\ \A y \in I.C \ {z} : Buena(g.dsk, I, y)
        /\ l <= TK /\ (I.h[z] # 0 => l >= 1) /\ z \in I.C
  <3>1. n \in 1..n
    BY <1>2
  <3> QED BY <2>1, <3>1 DEF Debe
  <2>3. n # 1 => l >= 2
    <3>1. l \in Nat
      BY <2>2, DeNodo DEF Sabido
    <3>2. n # 1 => ~(l < 2)
      BY DEF Debil
    <3> HIDE DEF l
    <3> QED BY <3>1, <3>2
  <2>4. Buena(g.dsk, I, z)
    <3>1. z # I.r => n # 1
      BY <1>2, <2>2
    <3> QED BY <3>1, <2>2, <2>3 DEF Buena
  <2>5. Llena(g.dsk, I)
    BY <2>2, <2>4 DEF Llena
  <2>6. g.kpos = [f.kpos EXCEPT ![i] = I.r]
    <3>1. I.r = f.kpos[i]
      BY <1>1, <2>2
    <3> QED BY <3>1, <1>1, <2>2
  <2>7. Puesto(f, g, X, G, SinUno(G.N, key), i, I)
    BY <1>1, <1>3, <2>2, <2>5, <2>6 DEF Puesto
  <2>8. (IF n = 1 /\ e.r = 1 THEN [e.f EXCEPT !.kpos[i] = a] ELSE e.f) = g
    BY <1>4
  <2> QED BY <2>7, <2>8
<1>5. CASE n = 1 /\ e.r = 1 /\ \E I : Bajado(f1, X, J, e.f, a, I)
  <2> DEFINE h == e.f
             g == [h EXCEPT !.kpos[i] = a]
  <2>1. PICK I : Bajado(f1, X, J, h, a, I)
    BY <1>5
  <2>2. /\ Resto(f1, h, X, J, I) /\ h.kpos = f1.kpos /\ Arbol(h.dsk, I) /\ Llena(h.dsk, I)
        /\ I.N = J.N /\ I.r = a
    BY <2>1 DEF Bajado
  <2>3. /\ Disco(h, (X \ J.C) \cup I.C) /\ (X \ J.C) \cap I.C = {}
        /\ \A y \in X \ J.C : h.dsk[y] = f1.dsk[y]
        /\ h.vpk = f1.vpk
    BY <2>2 DEF Resto
  <2>4. (IF n = 1 /\ e.r = 1 THEN [e.f EXCEPT !.kpos[i] = a] ELSE e.f) = g
    BY <1>5
  <2> HIDE DEF h
  <2>5. /\ Disco(g, (X \ J.C) \cup I.C) /\ g.dsk = h.dsk /\ g.vpk = h.vpk
        /\ g.kpos = [h.kpos EXCEPT ![i] = a]
    BY <2>3, OtraKpos, SMTT(30)
  <2> HIDE DEF g
  <2>6. Resto(f1, g, X, J, I)
    BY <2>3, <2>5 DEF Resto
  <2>7. Puesto(f, g, X, G, SinUno(G.N, key), i, I)
    BY <1>1, <1>3, <2>2, <2>5, <2>6 DEF Puesto
  <2> QED BY <2>4, <2>7
<1>6. (e.r = 0 /\ \E I : Debe(f1, X, J, cl, n, e.f, I))
      \/ (n = 1 /\ e.r = 1 /\ \E I : Bajado(f1, X, J, e.f, a, I))
  BY DEF Van
<1> QED BY <1>4, <1>5, <1>6

\* baja takes the key out of the tree, which stays one.
LEMMA BajaLlaveEs ==
    ASSUME NEW f, NEW X, NEW i \in Llaves, NEW G, NEW key \in Nat, NEW b, EsBusca(b),
           Raiz(f, X, i, G), Llena(f.dsk, G), Hallado(f, G, b, key), key \in DOMAIN G.N,
           f.kpos \in [Llaves -> Nat]
    PROVE  \E I : Puesto(f, BajaLlave(f, i, b), X, G, SinUno(G.N, key), i, I)
<1> DEFINE q == Quita(f, b)
           f1 == q.f
           cl == q.b.clusan
           k1 == q.b.k1
           n == Len(cl)
           tam == TamK[i]
           base == [f |-> f1, r |-> 0]
           z == n - 1
<1>1. PICK J : Quitado(f, X, G, f1, cl, k1, key, J)
  BY QuitaEs
<1>2. /\ Arbol(f1.dsk, J) /\ Ruta(f1.dsk, J, cl, k1) /\ J.h[cl[n]] = 0
      /\ Debe(f1, X, J, cl, n, f1, J)
  BY <1>1 DEF Quitado
<1>3. n \in Nat \ {0}
  BY <1>2 DEF Ruta
<1>4. G.r = f.kpos[i]
  BY DEF Raiz
<1> DEFINE Bueno(t, e) == e = [j \in 0..t |-> IF j = 0 THEN base
                                 ELSE Remienda(e[j - 1].f, tam, q.b, n - j + 1)]
           Hay == {t \in 0..z : \E e : Bueno(t, e)}
<1> HIDE DEF q, f1, cl, k1, n, base, tam
<1>5. z \in Hay
  <2>1. 0 \in Hay
    <3> DEFINE e == [j \in 0..0 |-> base]
    <3>1. Bueno(0, e)
      OBVIOUS
    <3> HIDE DEF e, Bueno
    <3> QED BY <3>1, <1>3
  <2>2. ASSUME NEW k \in 0..z-1, k \in Hay PROVE k + 1 \in Hay
    <3>0. k + 1 \in 0..z /\ k \in Nat
      BY <1>3
    <3>1. PICK S : Bueno(k, S)
      BY <2>2
    <3> DEFINE F(e, j) == Remienda(e[j - 1].f, tam, q.b, n - j + 1)
               nx == F(S, k + 1)
               T == [j \in 0..k+1 |-> IF j = k + 1 THEN nx ELSE S[j]]
    <3>2. \A j \in 0..k : T[j] = S[j]
      BY <3>0
    <3>3. T[k + 1] = nx
      BY <3>0
    <3>4. \A j \in 0..k : S[j] = IF j = 0 THEN base ELSE F(S, j)
      BY <3>1
    <3>5. \A j \in 0..k+1 : T[j] = IF j = 0 THEN base ELSE F(T, j)
      <4> TAKE j \in 0..k+1
      <4>0. j - 1 \in 0..k => T[j - 1] = S[j - 1]
        BY <3>2
      <4>f. j - 1 \in 0..k => F(T, j) = F(S, j)
        <5> HIDE DEF T
        <5> QED BY <4>0
      <4> HIDE DEF F, T
      <4>1. CASE j = k + 1
        <5>1. j # 0 /\ j - 1 \in 0..k
          BY <4>1, <3>0
        <5> QED BY <4>1, <5>1, <3>3, <4>f
      <4>2. CASE j # k + 1
        <5>1. j \in 0..k /\ (j # 0 => j - 1 \in 0..k)
          BY <4>2, <3>0
        <5> QED BY <5>1, <3>2, <3>4, <4>f
      <4> QED BY <4>1, <4>2
    <3>6. Bueno(k + 1, T)
      <4>1. DOMAIN T = 0..k+1 /\ T = [j \in 0..k+1 |-> T[j]]
        OBVIOUS
      <4> HIDE DEF T
      <4>2. T = [j \in 0..k+1 |-> IF j = 0 THEN base ELSE F(T, j)]
        <5> HIDE DEF F
        <5> QED BY <3>5, <4>1
      <4> QED BY <4>2
    <3> HIDE DEF Bueno, T
    <3> QED BY <3>6, <3>0
  <2>3. z \in Nat /\ z \in 0..z
    BY <1>3
  <2> HIDE DEF Hay, z
  <2>4. \A k \in 0..z : k \in Hay
    BY <2>1, <2>2, <2>3, Hasta
  <2> QED BY <2>3, <2>4
<1> DEFINE e == CHOOSE e : Bueno(z, e)
           basta(j) == j = n - 1 \/ ~Debil(e[j].f.dsk[cl[n - j]])
           m == CHOOSE m \in 0..n - 1 : basta(m) /\ \A j \in 0..m - 1 : ~basta(j)
           w == IF m = n - 1 /\ e[m].r = 1
                THEN [e[m].f EXCEPT !.kpos[i] = e[m - 1].f.dsk[cl[1]].ant] ELSE e[m].f
<1>6. BajaLlave(f, i, b) = w
  BY DEF BajaLlave, Repara, q, f1, cl, n, base, tam
<1>7. Bueno(z, e)
  <2>1. PICK S : Bueno(z, S)
    BY <1>5
  <2> HIDE DEF Bueno
  <2> QED BY <2>1
<1> HIDE DEF e, Hay
<1>8. /\ e[0] = base
      /\ \A j \in 1..n-1 : e[j] = Remienda(e[j - 1].f, tam, q.b, n - j + 1)
  <2>1. \A j \in 0..z : e[j] = IF j = 0 THEN base ELSE Remienda(e[j - 1].f, tam, q.b, n - j + 1)
    BY <1>7
  <2> HIDE DEF Bueno
  <2>2. 0 \in 0..z /\ \A j \in 1..n-1 : j \in 0..z /\ j # 0
    BY <1>3
  <2> QED BY <2>1, <2>2
<1> HIDE DEF Bueno
<1>9. /\ m \in 0..n-1 /\ (m = n - 1 \/ ~Debil(e[m].f.dsk[cl[n - m]]))
      /\ \A j \in 0..m-1 : j # n - 1 /\ Debil(e[j].f.dsk[cl[n - j]])
  <2> DEFINE Z == {j \in 0..n-1 : basta(j)}
  <2>1. Z \subseteq Nat /\ n - 1 \in Z
    BY <1>3
  <2>2. PICK t \in Z : \A y \in Z : t <= y
    <3> HIDE DEF Z
    <3> QED BY <2>1, Minimo
  <2>3. t \in 0..n-1 /\ basta(t)
    BY <2>2
  <2>4. ASSUME NEW j \in 0..t-1 PROVE ~basta(j)
    <3>1. j \in 0..n-1 /\ ~(t <= j)
      BY <2>3, <1>3
    <3>2. j \notin Z
      BY <3>1, <2>2
    <3> HIDE DEF basta
    <3> QED BY <3>1, <3>2
  <2> HIDE DEF basta
  <2>5. m \in 0..n-1 /\ basta(m) /\ \A j \in 0..m-1 : ~basta(j)
    BY <2>3, <2>4
  <2> HIDE DEF m
  <2> QED BY <2>5 DEF basta

\* While vdel goes up.
<1> DEFINE a(j) == e[j - 1].f.dsk[cl[1]].ant
           Va == {j \in 0..m : Van(f1, X, J, cl, n - j, e[j], a(j))}
<1> HIDE DEF m, w
<1>10. m \in Va
  <2>1. 0 \in Va
    <3>1. n - 0 = n /\ 0 \in 0..m
      BY <1>3, <1>9
    <3>2. base.r = 0 /\ base.f = f1
      BY DEF base
    <3>3. Van(f1, X, J, cl, n, e[0], a(0))
      BY <3>2, <1>2, <1>8 DEF Van
    <3> QED BY <3>1, <3>3
  <2>2. ASSUME NEW j \in 0..m-1, j \in Va PROVE j + 1 \in Va
    <3>1. j + 1 \in 0..m /\ j + 1 \in 1..n-1 /\ (j + 1) - 1 = j /\ n - (j + 1) + 1 = n - j
          /\ n - (j + 1) = (n - j) - 1 /\ n - j \in 2..n /\ n - j # 1
      BY <1>3, <1>9
    <3> DEFINE l == n - j
               g == e[j].f
               v == e[j + 1]
    <3>2. Debil(g.dsk[cl[l]])
      BY <1>9
    <3>3. PICK H : Debe(f1, X, J, cl, l, g, H)
      BY <2>2, <3>1 DEF Van
    <3>4. v = Remienda(g, tam, q.b, l)
      BY <1>8, <3>1
    <3>5. a(j + 1) = g.dsk[cl[1]].ant
      BY <3>1
    <3>6. l \in 2..Len(cl) /\ l \in Nat /\ n - (j + 1) = l - 1 /\ J.h[cl[Len(cl)]] = 0
      <4>1. l \in 2..n /\ l \in Nat /\ n - (j + 1) = l - 1
        BY <3>1, <1>3
      <4>2. n = Len(cl)
        BY DEF n
      <4> HIDE DEF l
      <4> QED BY <4>1, <4>2, <1>2
    <3>7. q.b.clusan = cl /\ q.b.k1 = k1
      BY DEF cl, k1
    <3> HIDE DEF l, g, v, a
    <3>8. Sube(f1, X, J, cl, l, g, Remienda(g, tam, q.b, l))
      BY <1>2, <3>2, <3>3, <3>6, <3>7, RemiendaEs
    <3>9. Van(f1, X, J, cl, l - 1, v, a(j + 1))
      <4>1. Sube(f1, X, J, cl, l, g, v)
        BY <3>4, <3>8
      <4>2. CASE v.r = 0 /\ \E I : Debe(f1, X, J, cl, l - 1, v.f, I)
        BY <4>2 DEF Van
      <4>3. CASE v.r = 1 /\ l = 2 /\ \E I : Bajado(f1, X, J, v.f, g.dsk[cl[1]].ant, I)
        <5>1. l - 1 = 1
          BY <4>3
        <5> QED BY <4>3, <5>1, <3>5 DEF Van
      <4> QED BY <4>1, <4>2, <4>3 DEF Sube
    <3> QED BY <3>1, <3>6, <3>9 DEF v
  <2>3. m \in Nat /\ m \in 0..m
    BY <1>9, <1>3
  <2> HIDE DEF Va
  <2>4. \A j \in 0..m : j \in Va
    BY <2>1, <2>2, <2>3, Hasta
  <2> QED BY <2>3, <2>4
<1> DEFINE l == n - m
           v == e[m]
           x == a(m)
<1>11. l \in 1..Len(cl) /\ l \in Nat /\ (l = 1 <=> m = n - 1)
  BY <1>3, <1>9 DEF n
<1>12. Van(f1, X, J, cl, l, v, x) /\ (l = 1 \/ ~Debil(v.f.dsk[cl[l]]))
  BY <1>9, <1>10, <1>11
<1>13. w = IF l = 1 /\ v.r = 1 THEN [v.f EXCEPT !.kpos[i] = x] ELSE v.f
  <2> HIDE DEF l
  <2> QED BY <1>11 DEF w
<1> HIDE DEF l, v, x
<1>14. \E I : Puesto(f, IF l = 1 /\ v.r = 1 THEN [v.f EXCEPT !.kpos[i] = x] ELSE v.f,
                     X, G, SinUno(G.N, key), i, I)
  BY <1>1, <1>4, <1>11, <1>12, Acaba
<1> QED BY <1>6, <1>13, <1>14

-----------------------------------------------------------------------------
(* The file *)

\* The pointers of a record for a key, a record, and the values a key can have.
Apuntes    == [anter : Nat, proxi : Nat, cuant : Nat]
Ficha(b)   == /\ b = Registro(b.val, b.ap)
              /\ b.val \in Datos /\ b.ap \in [Llaves -> Apuntes]
Dominio(i) == IF i = Unica THEN Claves ELSE Valores

\* The blocks in use in a file with the trees T and the records R, and such a file: its
\* trees do not share blocks and name records.
Usados(T, R) == (UNION {T[i].C : i \in Llaves}) \cup R
Nombra(G, R, i) == \A k \in DOMAIN G.N : k \in Dominio(i) /\ G.N[k] \in R
Fichero(f, R, T) ==
    /\ Disco(f, Usados(T, R)) /\ f.kpos \in [Llaves -> Nat] /\ DOMAIN T = Llaves
    /\ \A i \in Llaves : /\ Arbol(f.dsk, T[i]) /\ Llena(f.dsk, T[i]) /\ T[i].r = f.kpos[i]
                         /\ T[i].C \cap R = {} /\ Nombra(T[i], R, i)
    /\ \A i, j \in Llaves : i # j => T[i].C \cap T[j].C = {}
    /\ \A p \in R : Ficha(f.dsk[p])

\* The tree of a key is where the header says.
LEMMA FicheroRaiz ==
    ASSUME NEW f, NEW R, NEW T, Fichero(f, R, T), NEW i \in Llaves
    PROVE  Raiz(f, Usados(T, R), i, T[i]) /\ Llena(f.dsk, T[i]) /\ f.kpos \in [Llaves -> Nat]
  BY DEF Fichero, Raiz, Usados

\* A tree is as full in other blocks where its clusters are the same.
LEMMA OtraLlena ==
    ASSUME NEW D, NEW E, NEW G, Llena(D, G), \A q \in G.C : E[q] = D[q]
    PROVE  Llena(E, G)
  BY DEF Llena, Buena

\* The tree of a key is another.
Cambia(T, i, I) == [T EXCEPT ![i] = I]

\* A tree is changed for another.
Cambio(f, g, R, T, N2, i, I) == Puesto(f, g, Usados(T, R), T[i], N2, i, I) /\ Nombra(I, R, i)
Cambiada(f, g, R, T, N2, i, I) ==
    /\ Fichero(g, R, Cambia(T, i, I))
    /\ \A p \in R : g.dsk[p] = f.dsk[p]
    /\ g.vpk = f.vpk /\ I.N = N2

\* The rest of the file stays as it was.
LEMMA CambiaArbol ==
    ASSUME NEW f, NEW R, NEW T, Fichero(f, R, T), NEW i \in Llaves, NEW g, NEW N2, NEW I,
           Cambio(f, g, R, T, N2, i, I)
    PROVE  Cambiada(f, g, R, T, N2, i, I)
<1> DEFINE X  == Usados(T, R)
           X2 == (X \ T[i].C) \cup I.C
           T2 == Cambia(T, i, I)
<1>1. /\ Disco(g, X2) /\ (X \ T[i].C) \cap I.C = {}
      /\ \A y \in X \ T[i].C : g.dsk[y] = f.dsk[y]
      /\ g.vpk = f.vpk /\ Arbol(g.dsk, I) /\ Llena(g.dsk, I) /\ I.N = N2
      /\ g.kpos = [f.kpos EXCEPT ![i] = I.r] /\ Nombra(I, R, i)
  BY DEF Cambio, Puesto, Resto
<1>2. /\ f.kpos \in [Llaves -> Nat] /\ DOMAIN T = Llaves
      /\ \A j \in Llaves : /\ Arbol(f.dsk, T[j]) /\ Llena(f.dsk, T[j]) /\ T[j].r = f.kpos[j]
                           /\ T[j].C \cap R = {} /\ Nombra(T[j], R, j)
      /\ \A j, k \in Llaves : j # k => T[j].C \cap T[k].C = {}
      /\ \A p \in R : Ficha(f.dsk[p])
  BY DEF Fichero
<1>3. DOMAIN T2 = Llaves /\ T2[i] = I /\ \A j \in Llaves \ {i} : T2[j] = T[j]
  BY <1>2 DEF Cambia
<1> HIDE DEF T2
<1>4. /\ R \subseteq X \ T[i].C
      /\ \A j \in Llaves \ {i} : T[j].C \subseteq X \ T[i].C
  <2>1. T[i].C \cap R = {} /\ \A j \in Llaves \ {i} : T[j].C \cap T[i].C = {}
    BY <1>2
  <2>2. R \subseteq X /\ \A j \in Llaves : T[j].C \subseteq X
    BY DEF Usados
  <2> QED BY <2>1, <2>2
<1>5. X2 = Usados(T2, R)
  <2>1. ASSUME NEW p \in X2 PROVE p \in Usados(T2, R)
    <3>1. CASE p \in I.C
      BY <3>1, <1>3 DEF Usados
    <3>2. CASE p \in R
      BY <3>2 DEF Usados
    <3>3. CASE p \notin I.C /\ p \notin R
      <4>1. PICK j \in Llaves : p \in T[j].C
        BY <3>3 DEF Usados
      <4>2. j # i
        BY <4>1, <3>3
      <4> QED BY <4>1, <4>2, <1>3 DEF Usados
    <3> QED BY <3>1, <3>2, <3>3
  <2>2. ASSUME NEW p \in Usados(T2, R) PROVE p \in X2
    <3>1. CASE p \in R
      BY <3>1, <1>4
    <3>2. CASE p \notin R
      <4>1. PICK j \in Llaves : p \in T2[j].C
        BY <3>2 DEF Usados
      <4> QED BY <4>1, <1>3, <1>4
    <3> QED BY <3>1, <3>2
  <2> QED BY <2>1, <2>2
<1>6. \A j \in Llaves \ {i} : \A q \in T[j].C : g.dsk[q] = f.dsk[q]
  BY <1>4, <1>1
<1>7. \A p \in R : g.dsk[p] = f.dsk[p]
  BY <1>4, <1>1
<1>8. I.r \in Nat
  BY <1>1 DEF Arbol, Forma0
<1>9. g.kpos \in [Llaves -> Nat] /\ g.kpos[i] = I.r /\ \A j \in Llaves \ {i} : g.kpos[j] = f.kpos[j]
  BY <1>1, <1>2, <1>8
<1>10. I.C \cap R = {} /\ \A j \in Llaves \ {i} : T[j].C \cap I.C = {}
  BY <1>4, <1>1
<1> HIDE DEF X, X2
<1>11. ASSUME NEW j \in Llaves
       PROVE  /\ Arbol(g.dsk, T2[j]) /\ Llena(g.dsk, T2[j]) /\ T2[j].r = g.kpos[j]
              /\ T2[j].C \cap R = {} /\ Nombra(T2[j], R, j)
  <2>1. CASE j = i
    BY <2>1, <1>1, <1>3, <1>9, <1>10
  <2>2. CASE j # i
    <3>1. Arbol(f.dsk, T[j]) /\ Llena(f.dsk, T[j]) /\ \A q \in T[j].C : g.dsk[q] = f.dsk[q]
      BY <2>2, <1>2, <1>6
    <3>2. Arbol(g.dsk, T[j]) /\ Llena(g.dsk, T[j])
      BY <3>1, OtroDisco, OtraLlena
    <3> QED BY <2>2, <3>2, <1>2, <1>3, <1>9
  <2> QED BY <2>1, <2>2
<1>12. \A j, k \in Llaves : j # k => T2[j].C \cap T2[k].C = {}
  <2> SUFFICES ASSUME NEW j \in Llaves, NEW k \in Llaves, j # k PROVE T2[j].C \cap T2[k].C = {}
    OBVIOUS
  <2>1. CASE j = i
    BY <2>1, <1>3, <1>10
  <2>2. CASE k = i
    BY <2>2, <1>3, <1>10
  <2>3. CASE j # i /\ k # i
    BY <2>3, <1>3, <1>2
  <2> QED BY <2>1, <2>2, <2>3
<1>13. \A p \in R : Ficha(g.dsk[p])
  BY <1>7, <1>2
<1>14. Fichero(g, R, T2)
  BY <1>1, <1>3, <1>5, <1>9, <1>11, <1>12, <1>13 DEF Fichero
<1> QED BY <1>14, <1>7, <1>1 DEF T2, Cambiada

\* What a file keeps when it names other pointers for a record, a, for key i.
Fijado(f, g, R, T, p, i, a) ==
    /\ Fichero(g, R, T) /\ g.vpk = f.vpk /\ g.kpos = f.kpos
    /\ g.dsk[p] = Registro(f.dsk[p].val, [f.dsk[p].ap EXCEPT ![i] = a])
    /\ \A q \in Usados(T, R) \ {p} : g.dsk[q] = f.dsk[q]
Fija(f, p, i, a) ==
    [f EXCEPT !.dsk = [f.dsk EXCEPT ![p] = Registro(f.dsk[p].val, [f.dsk[p].ap EXCEPT ![i] = a])]]

\* A record gets them.
LEMMA FijaEs ==
    ASSUME NEW f, NEW R, NEW T, Fichero(f, R, T), NEW p \in R, NEW i \in Llaves, NEW a \in Apuntes
    PROVE  Fijado(f, Fija(f, p, i, a), R, T, p, i, a)
<1> DEFINE X == Usados(T, R)
           b == Registro(f.dsk[p].val, [f.dsk[p].ap EXCEPT ![i] = a])
           g == Renu(f, p, b)
<1>1. p \in X /\ Disco(f, X) /\ Ficha(f.dsk[p])
  BY DEF Fichero, Usados
<1>2. ~EsLibre(b) /\ b.val = f.dsk[p].val /\ b.ap = [f.dsk[p].ap EXCEPT ![i] = a]
  BY DEF EsLibre, Registro
<1>3. Ficha(b)
  <2>1. b = Registro(b.val, b.ap)
    BY DEF Registro
  <2>2. f.dsk[p].val \in Datos /\ f.dsk[p].ap \in [Llaves -> Apuntes]
    BY <1>1 DEF Ficha
  <2>3. [f.dsk[p].ap EXCEPT ![i] = a] \in [Llaves -> Apuntes]
    BY <2>2
  <2> QED BY <2>1, <2>2, <2>3, <1>2 DEF Ficha
<1> HIDE DEF b
<1>4. Escrito(f, g, X, p, b)
  BY <1>1, <1>2, RenuEs
<1>5. p # Len(f.dsk) + 1
  BY <1>1 DEF Disco
<1>6. g = Fija(f, p, i, a)
  BY <1>5 DEF Renu, Fija, b
<1> HIDE DEF X, g
<1>7. /\ Disco(g, X) /\ g.dsk[p] = b /\ \A q \in X \ {p} : g.dsk[q] = f.dsk[q]
      /\ g.kpos = f.kpos /\ g.vpk = f.vpk
  BY <1>4 DEF Escrito
<1>8. Fichero(g, R, T)
  <2>1. /\ f.kpos \in [Llaves -> Nat] /\ DOMAIN T = Llaves
        /\ \A j \in Llaves : /\ Arbol(f.dsk, T[j]) /\ Llena(f.dsk, T[j]) /\ T[j].r = f.kpos[j]
                             /\ T[j].C \cap R = {} /\ Nombra(T[j], R, j)
        /\ \A j, k \in Llaves : j # k => T[j].C \cap T[k].C = {}
        /\ \A q \in R : Ficha(f.dsk[q])
    BY DEF Fichero
  <2>2. \A j \in Llaves : \A q \in T[j].C : q \in X \ {p}
    BY <2>1 DEF Usados, X
  <2>3. \A j \in Llaves : \A q \in T[j].C : g.dsk[q] = f.dsk[q]
    BY <2>2, <1>7
  <2>4. \A j \in Llaves : Arbol(g.dsk, T[j]) /\ Llena(g.dsk, T[j])
    BY <2>1, <2>3, OtroDisco, OtraLlena
  <2>5. \A q \in R : Ficha(g.dsk[q])
    BY <2>1, <1>7, <1>3 DEF Usados, X
  <2> QED BY <2>1, <2>4, <2>5, <1>7 DEF Fichero, X
<1> QED BY <1>6, <1>7, <1>8 DEF Fijado, b, X

\* leerec and ponap change one pointer of a record, if there is one.
LEMMA FijaUno ==
    ASSUME NEW f, NEW R, NEW T, Fichero(f, R, T), NEW p \in R, NEW i \in Llaves, NEW x \in Nat
    PROVE  LET a == f.dsk[p].ap[i]
           IN  /\ PonAnter(f, p, i, x) = Fija(f, p, i, Apuns(x, a.proxi, a.cuant))
               /\ PonProxi(f, p, i, x) = Fija(f, p, i, Apuns(a.anter, x, a.cuant))
               /\ a \in Apuntes /\ Apuns(x, a.proxi, a.cuant) \in Apuntes
               /\ Apuns(a.anter, x, a.cuant) \in Apuntes
               /\ \A c \in Apuntes : [f EXCEPT !.dsk[p].ap[i] = c] = Fija(f, p, i, c)
<1> DEFINE c == f.dsk[p]
           a == c.ap[i]
<1>1. p # 0 /\ p \in DOMAIN f.dsk
  <2>1. Disco(f, Usados(T, R)) /\ p \in Usados(T, R)
    BY DEF Fichero, Usados
  <2>2. p \in 1..Len(f.dsk) /\ \E S : f.dsk \in Seq(S)
    BY <2>1 DEF Disco
  <2> QED BY <2>2
<1>2. /\ c = [val |-> c.val, ap |-> c.ap] /\ c.ap \in [Llaves -> Apuntes]
  BY DEF Fichero, Ficha, Registro
<1>3. a \in Apuntes /\ a = [anter |-> a.anter, proxi |-> a.proxi, cuant |-> a.cuant]
  BY <1>2 DEF Apuntes
<1>4. a.anter \in Nat /\ a.proxi \in Nat /\ a.cuant \in Nat
  BY <1>3 DEF Apuntes
<1>5. Apuns(x, a.proxi, a.cuant) \in Apuntes /\ Apuns(a.anter, x, a.cuant) \in Apuntes
  BY <1>4 DEF Apuntes, Apuns
<1>6. ASSUME NEW e PROVE [c EXCEPT !.ap = e] = Registro(c.val, e)
  BY <1>2 DEF Registro
<1>7. [a EXCEPT !.anter = x] = Apuns(x, a.proxi, a.cuant) /\ [a EXCEPT !.proxi = x] = Apuns(a.anter, x, a.cuant)
  BY <1>3 DEF Apuns
<1>8. PonAnter(f, p, i, x) = [f EXCEPT !.dsk = [f.dsk EXCEPT ![p] = [c EXCEPT !.ap = [c.ap EXCEPT ![i] = [a EXCEPT !.anter = x]]]]]
  BY <1>1 DEF PonAnter
<1>9. PonProxi(f, p, i, x) = [f EXCEPT !.dsk = [f.dsk EXCEPT ![p] = [c EXCEPT !.ap = [c.ap EXCEPT ![i] = [a EXCEPT !.proxi = x]]]]]
  BY <1>1 DEF PonProxi
<1>10. ASSUME NEW e \in Apuntes
       PROVE  [f EXCEPT !.dsk[p].ap[i] = e] = [f EXCEPT !.dsk = [f.dsk EXCEPT ![p] = [c EXCEPT !.ap = [c.ap EXCEPT ![i] = e]]]]
  OBVIOUS
<1> HIDE DEF a
<1>11. \A e \in Apuntes : [f EXCEPT !.dsk[p].ap[i] = e] = Fija(f, p, i, e)
  BY <1>6, <1>10 DEF Fija
<1>12. PonAnter(f, p, i, x) = Fija(f, p, i, Apuns(x, a.proxi, a.cuant))
  BY <1>6, <1>7, <1>8 DEF Fija
<1>13. PonProxi(f, p, i, x) = Fija(f, p, i, Apuns(a.anter, x, a.cuant))
  BY <1>6, <1>7, <1>9 DEF Fija
<1> QED BY <1>3, <1>5, <1>11, <1>12, <1>13 DEF a

\* The records of the file are those.
LEMMA RegistrosEs ==
    ASSUME NEW f, NEW R, NEW T, Fichero(f, R, T)
    PROVE  /\ Registros(f) = R /\ R \subseteq 1..Len(f.dsk) /\ DOMAIN f.dsk = 1..Len(f.dsk)
           /\ Len(f.dsk) \in Nat /\ R \subseteq Nat \ {0}
           /\ f = [dsk |-> f.dsk, pad1 |-> f.pad1, kpos |-> f.kpos, vpk |-> f.vpk]
<1> DEFINE X == Usados(T, R)
<1>1. /\ Disco(f, X) /\ \A p \in R : Ficha(f.dsk[p])
      /\ \A i \in Llaves : Arbol(f.dsk, T[i])
  BY DEF Fichero
<1>2. /\ X \subseteq 1..Len(f.dsk) /\ Len(f.dsk) \in Nat /\ DOMAIN f.dsk = 1..Len(f.dsk)
      /\ f = [dsk |-> f.dsk, pad1 |-> f.pad1, kpos |-> f.kpos, vpk |-> f.vpk]
  <2>1. PICK S : f.dsk \in Seq(S)
    BY <1>1 DEF Disco
  <2> QED BY <2>1, <1>1, LenProperties DEF Disco
<1>3. R \subseteq X
  BY DEF Usados
<1>4. ASSUME NEW p \in 1..Len(f.dsk), p \notin X PROVE ~EsRegistro(f.dsk[p])
  <2>1. f.dsk[p] = Libre(f.dsk[p].sig, f.dsk[p].tam)
    BY <1>1, <1>4 DEF Disco, LibreEn
  <2> QED BY <2>1 DEF Libre, EsRegistro
<1>5. ASSUME NEW p \in X, p \notin R PROVE ~EsRegistro(f.dsk[p])
  <2>1. PICK i \in Llaves : p \in T[i].C
    BY <1>5 DEF Usados
  <2>2. f.dsk[p] = Klug(f.dsk[p].ant, f.dsk[p].ll)
    BY <2>1, <1>1 DEF Arbol, Nodo, EsKlug
  <2> QED BY <2>2, KlugEs
<1>6. ASSUME NEW p \in R PROVE EsRegistro(f.dsk[p])
  <2>1. f.dsk[p] = Registro(f.dsk[p].val, f.dsk[p].ap)
    BY <1>1 DEF Ficha
  <2> QED BY <2>1 DEF Registro, EsRegistro
<1>7. Registros(f) = R
  BY <1>2, <1>3, <1>4, <1>5, <1>6 DEF Registros
<1> QED BY <1>2, <1>3, <1>7

\* A record of values val without neighbours is written where frsp says.
LEMMA NuevaFicha ==
    ASSUME NEW f, NEW R, NEW T, Fichero(f, R, T), NEW val \in Datos
    PROVE  LET r == Frsp(f, TamR)
               b == Registro(val, [i \in Llaves |-> Apuns(0, 0, 0)])
               g == Renu(r.f, r.lug, b)
           IN  /\ r.lug \in Nat \ {0} /\ r.lug \notin R
               /\ Fichero(g, R \cup {r.lug}, T) /\ g.dsk[r.lug] = b
               /\ \A p \in R : g.dsk[p] = f.dsk[p]
               /\ g.vpk = f.vpk
<1> DEFINE X == Usados(T, R)
           r == Frsp(f, TamR)
           b == Registro(val, [i \in Llaves |-> Apuns(0, 0, 0)])
           g == Renu(r.f, r.lug, b)
           p == r.lug
<1>1. ~EsLibre(b) /\ Ficha(b)
  <2>1. \A i \in Llaves : Apuns(0, 0, 0) \in Apuntes
    BY DEF Apuns, Apuntes
  <2>2. b.val = val /\ b.ap = [i \in Llaves |-> Apuns(0, 0, 0)] /\ ~EsLibre(b)
    BY DEF Registro, EsLibre
  <2> QED BY <2>1, <2>2 DEF Ficha
<1>2. Disco(f, X)
  BY DEF Fichero
<1>3. Tomado(f, g, X, p, b)
  BY <1>1, <1>2, FrspEs
<1> HIDE DEF r, b, g, p
<1>4. /\ p \in Nat \ {0} /\ p \notin X
      /\ Disco(g, X \cup {p}) /\ g.dsk[p] = b /\ \A q \in X : g.dsk[q] = f.dsk[q]
      /\ g.kpos = f.kpos /\ g.vpk = f.vpk
  BY <1>3 DEF Tomado
<1>5. X \cup {p} = Usados(T, R \cup {p})
  BY DEF Usados
<1>6. /\ f.kpos \in [Llaves -> Nat] /\ DOMAIN T = Llaves
      /\ \A j \in Llaves : /\ Arbol(f.dsk, T[j]) /\ Llena(f.dsk, T[j]) /\ T[j].r = f.kpos[j]
                           /\ T[j].C \cap R = {} /\ Nombra(T[j], R, j)
      /\ \A j, k \in Llaves : j # k => T[j].C \cap T[k].C = {}
      /\ \A q \in R : Ficha(f.dsk[q])
  BY DEF Fichero
<1>7. R \subseteq X /\ \A j \in Llaves : T[j].C \subseteq X
  BY DEF Usados
<1>8. \A j \in Llaves : Arbol(g.dsk, T[j]) /\ Llena(g.dsk, T[j])
  <2>1. \A j \in Llaves : \A q \in T[j].C : g.dsk[q] = f.dsk[q]
    BY <1>7, <1>4
  <2> QED BY <2>1, <1>6, OtroDisco, OtraLlena
<1> HIDE DEF X
<1>9. \A j \in Llaves : T[j].C \cap (R \cup {p}) = {} /\ Nombra(T[j], R \cup {p}, j)
  BY <1>4, <1>6, <1>7 DEF Nombra
<1>10. \A q \in R \cup {p} : Ficha(g.dsk[q])
  BY <1>1, <1>4, <1>6, <1>7
<1>11. Fichero(g, R \cup {p}, T)
  BY <1>4, <1>5, <1>6, <1>8, <1>9, <1>10 DEF Fichero
<1> QED BY <1>4, <1>7, <1>11 DEF r, b, g, p

\* The block of a record that no tree names becomes free.
LEMMA SueltaFicha ==
    ASSUME NEW f, NEW R, NEW T, Fichero(f, R, T), NEW p \in R,
           \A i \in Llaves : Nombra(T[i], R \ {p}, i)
    PROVE  LET g == Libera(f, TamR, p)
           IN  /\ Fichero(g, R \ {p}, T)
               /\ \A q \in R \ {p} : g.dsk[q] = f.dsk[q]
               /\ g.vpk = f.vpk
<1> DEFINE X == Usados(T, R)
           g == Libera(f, TamR, p)
<1>1. Disco(f, X) /\ p \in X
  BY DEF Fichero, Usados
<1>2. Suelto(f, g, X, p)
  BY <1>1, LiberaEs
<1> HIDE DEF g
<1>4. /\ Disco(g, X \ {p}) /\ \A q \in X \ {p} : g.dsk[q] = f.dsk[q]
      /\ g.kpos = f.kpos /\ g.vpk = f.vpk
  BY <1>2 DEF Suelto
<1>6. /\ f.kpos \in [Llaves -> Nat] /\ DOMAIN T = Llaves
      /\ \A j \in Llaves : /\ Arbol(f.dsk, T[j]) /\ Llena(f.dsk, T[j]) /\ T[j].r = f.kpos[j]
                           /\ T[j].C \cap R = {} /\ Nombra(T[j], R, j)
      /\ \A j, k \in Llaves : j # k => T[j].C \cap T[k].C = {}
      /\ \A q \in R : Ficha(f.dsk[q])
  BY DEF Fichero
<1>7. R \subseteq X /\ \A j \in Llaves : T[j].C \subseteq X
  BY DEF Usados
<1>5. X \ {p} = Usados(T, R \ {p})
  <2>1. \A j \in Llaves : p \notin T[j].C
    BY <1>6
  <2> QED BY <2>1 DEF Usados
<1> HIDE DEF X
<1>8. \A j \in Llaves : Arbol(g.dsk, T[j]) /\ Llena(g.dsk, T[j])
  <2>1. \A j \in Llaves : \A q \in T[j].C : q \in X \ {p}
    BY <1>7, <1>6
  <2>2. \A j \in Llaves : \A q \in T[j].C : g.dsk[q] = f.dsk[q]
    BY <2>1, <1>4
  <2> QED BY <2>2, <1>6, OtroDisco, OtraLlena
<1>10. \A q \in R \ {p} : Ficha(g.dsk[q])
  BY <1>4, <1>6, <1>7
<1>11. Fichero(g, R \ {p}, T)
  BY <1>4, <1>5, <1>6, <1>8, <1>10 DEF Fichero
<1> QED BY <1>4, <1>7, <1>11 DEF g

\* The slot of a key that busca found names another record.
LEMMA RenombraEs ==
    ASSUME NEW f, NEW X, NEW i \in Llaves, NEW G, NEW b, NEW key \in Nat, NEW nw \in Nat,
           Raiz(f, X, i, G), Llena(f.dsk, G), Hallado(f, G, b, key), key \in DOMAIN G.N,
           f.kpos \in [Llaves -> Nat]
    PROVE  Puesto(f, Renombra(f, b, nw), X, G, [G.N EXCEPT ![key] = nw], i, Rotulado(G, key, nw))
<1> DEFINE z == Last(b.clusan)
           k == b.k2
           c == f.dsk[z]
           e == [c EXCEPT !.ll[k].nm = nw]
           g == Renu(f, z, e)
           I == Rotulado(G, key, nw)
<1>1. z \in G.C /\ k \in 1..Len(c.ll) /\ c.ll[k].k = key
  BY DEF Hallado
<1>2. Disco(f, X) /\ Arbol(f.dsk, G) /\ G.C \subseteq X /\ G.r = f.kpos[i]
  BY DEF Raiz
<1> HIDE DEF z, k
<1>3. z \in X /\ z # Len(f.dsk) + 1
  BY <1>1, <1>2 DEF Disco
<1>4. c = Klug(c.ant, c.ll) /\ c.ll \in Seq(Casillas)
  BY <1>1, <1>2 DEF Arbol, Nodo, EsKlug
<1>5. DOMAIN e = DOMAIN c /\ e.ll = [c.ll EXCEPT ![k].nm = nw]
  BY <1>4 DEF Klug
<1>6. ~EsLibre(e)
  <2>1. ~EsLibre(c)
    BY <1>4, KlugEs
  <2> QED BY <2>1, <1>5 DEF EsLibre
<1>7. Len(e.ll) = Len(c.ll)
  BY <1>4, <1>5
<1> HIDE DEF e
<1>8. Escrito(f, g, X, z, e)
  BY <1>2, <1>3, <1>6, RenuEs
<1>9. g = Renombra(f, b, nw)
  BY <1>3 DEF Renu, Renombra, z, k, e
<1> HIDE DEF g
<1>10. /\ Disco(g, X) /\ g.dsk[z] = e /\ \A q \in X \ {z} : g.dsk[q] = f.dsk[q]
       /\ g.kpos = f.kpos /\ g.vpk = f.vpk
  BY <1>8 DEF Escrito
<1>11. \A y \in G.C \ {z} : g.dsk[y] = f.dsk[y]
  BY <1>10, <1>2
<1>12. Arbol(g.dsk, I)
  <2>1. g.dsk[z] = [f.dsk[z] EXCEPT !.ll[k].nm = nw]
    BY <1>10 DEF e
  <2>2. Arbol(g.dsk, Rotulado(G, f.dsk[z].ll[k].k, nw))
    BY <2>1, <1>1, <1>2, <1>11, Rotula
  <2> QED BY <2>2, <1>1
<1>13. I.C = G.C /\ I.r = G.r /\ I.h = G.h /\ I.N = [G.N EXCEPT ![key] = nw]
  BY DEF Rotulado
<1> HIDE DEF I
<1>14. Llena(g.dsk, I)
  <2>1. ASSUME NEW q \in I.C PROVE Buena(g.dsk, I, q)
    <3>1. Buena(f.dsk, G, q) /\ q \in G.C
      BY <2>1, <1>13 DEF Llena
    <3>2. Len(g.dsk[q].ll) = Len(f.dsk[q].ll)
      BY <3>1, <1>7, <1>10, <1>11
    <3> QED BY <3>1, <3>2, <1>13 DEF Buena
  <2> QED BY <2>1 DEF Llena
<1>15. (X \ G.C) \cup I.C = X /\ (X \ G.C) \cap I.C = {}
  BY <1>2, <1>13
<1>16. Resto(f, g, X, G, I)
  BY <1>1, <1>10, <1>15 DEF Resto
<1>17. g.kpos = [f.kpos EXCEPT ![i] = I.r]
  BY <1>2, <1>10, <1>13
<1>18. Puesto(f, g, X, G, [G.N EXCEPT ![key] = nw], i, I)
  BY <1>12, <1>13, <1>14, <1>16, <1>17 DEF Puesto
<1> QED BY <1>9, <1>18 DEF I

\* What busca answers does not depend on the other blocks.
LEMMA OtroHallado ==
    ASSUME NEW f, NEW g, NEW X, NEW G, NEW b, NEW key, Hallado(f, G, b, key),
           \A q \in G.C : g.dsk[q] = f.dsk[q]
    PROVE  Hallado(g, G, b, key)
<1> DEFINE z == Last(b.clusan)
           n == Len(b.clusan)
<1>1. /\ Ruta(f.dsk, G, b.clusan, b.k1) /\ z = b.clusan[n] /\ z \in G.C
      /\ \A j \in 1..n : /\ Dentro(G, b.clusan[j], key)
                         /\ b.k1[j] = Menores(f.dsk[b.clusan[j]], key) + 1
      /\ IF key \in DOMAIN G.N
           THEN /\ b.rec = G.N[key] /\ z = G.W[key]
                /\ b.k2 \in 1..Len(f.dsk[z].ll) /\ f.dsk[z].ll[b.k2].k = key
                /\ b.k2 = b.k1[n]
           ELSE /\ b.rec = -1 /\ G.h[z] = 0
                /\ b.menor = IF Menores(f.dsk[z], key) = 0 THEN 0
                             ELSE f.dsk[z].ll[Menores(f.dsk[z], key)].nm
                /\ b.mayor = MayorDe(f.dsk[z], Menores(f.dsk[z], key))
  BY DEF Hallado
<1>2. g.dsk[z] = f.dsk[z]
  BY <1>1
<1>3. \A j \in 1..n : b.clusan[j] \in G.C /\ g.dsk[b.clusan[j]] = f.dsk[b.clusan[j]]
  BY <1>1 DEF Ruta
<1>4. Ruta(g.dsk, G, b.clusan, b.k1)
  <2>1. \A j \in 1..n-1 : j \in 1..n
    BY <1>1 DEF Ruta
  <2> QED BY <2>1, <1>1, <1>3 DEF Ruta
<1> QED BY <1>1, <1>2, <1>3, <1>4 DEF Hallado

-----------------------------------------------------------------------------
(* The neighbours of a key *)

\* The names of records N that busca gives for a key that is not among them.
Contiguas(N, b, key) ==
    /\ b.rec = -1
    /\ b.menor # 0 => \E c \in DOMAIN N : /\ N[c] = b.menor /\ c < key
                                          /\ \A d \in DOMAIN N : ~(c < d /\ d < key)
    /\ b.mayor # 0 => \E c \in DOMAIN N : /\ N[c] = b.mayor /\ key < c
                                          /\ \A d \in DOMAIN N : ~(key < d /\ d < c)
    /\ (\A k \in DOMAIN N : N[k] # 0) /\ DOMAIN N # {} => b.menor # 0 \/ b.mayor # 0

\* They are those of the slots before and after it in the leaf where it belongs.
LEMMA ContiguasEs ==
    ASSUME NEW f, NEW X, NEW i \in Llaves, NEW G, NEW b, NEW key \in Nat,
           Raiz(f, X, i, G), Llena(f.dsk, G), Hallado(f, G, b, key), key \notin DOMAIN G.N
    PROVE  Contiguas(G.N, b, key)
<1> DEFINE z == Last(b.clusan)
           c == f.dsk[z]
           l == Len(c.ll)
           m == Menores(c, key)
<1>1. /\ z \in G.C /\ G.h[z] = 0 /\ b.rec = -1 /\ Dentro(G, z, key)
      /\ b.menor = IF m = 0 THEN 0 ELSE c.ll[m].nm
      /\ b.mayor = MayorDe(c, m)
  <2>1. Ruta(f.dsk, G, b.clusan, b.k1)
    BY DEF Hallado
  <2>2. Len(b.clusan) \in 1..Len(b.clusan)
    BY <2>1 DEF Ruta
  <2>3. /\ z = b.clusan[Len(b.clusan)] /\ z \in G.C
        /\ \A j \in 1..Len(b.clusan) : Dentro(G, b.clusan[j], key)
        /\ b.rec = -1 /\ G.h[z] = 0
        /\ b.menor = IF m = 0 THEN 0 ELSE c.ll[m].nm
        /\ b.mayor = MayorDe(c, m)
    BY DEF Hallado
  <2> QED BY <2>2, <2>3
<1>2. Arbol(f.dsk, G)
  BY DEF Raiz
<1> HIDE DEF z
<1>3. Sabido(G, c, l, z)
  BY <1>1, <1>2, DeNodo
<1> HIDE DEF c, l
<1>4. /\ m \in 0..l
      /\ \A j \in 1..m : c.ll[j].k < key
      /\ \A j \in m+1..l : key <= c.ll[j].k
  BY <1>3, MenoresEs
<1>5. /\ l \in Nat /\ G.lo[z] \in Nat \cup {-1} /\ G.hi[z] \in Nat \cup {-1}
      /\ \A n \in 1..l : /\ c.ll[n].k \in Nat /\ c.ll[n].k \in DOMAIN G.N
                         /\ G.N[c.ll[n].k] = c.ll[n].nm
                         /\ G.lo[z] < c.ll[n].k /\ Bajo0(c.ll[n].k, G.hi[z])
      /\ \A n, o \in 1..l : n < o => c.ll[n].k < c.ll[o].k
      /\ \A k \in DOMAIN G.N : G.lo[z] < k /\ Bajo0(k, G.hi[z]) => G.W[k] = z
  BY <1>1, <1>3 DEF Sabido
<1>6. G.lo[z] < key /\ Bajo0(key, G.hi[z])
  BY <1>1 DEF Dentro
<1>7. /\ DOMAIN G.N \subseteq Nat
      /\ \A k \in DOMAIN G.N : \E n \in 1..Len(f.dsk[G.W[k]].ll) : f.dsk[G.W[k]].ll[n].k = k
  BY <1>2 DEF Arbol, Forma0
<1>8. ASSUME NEW k \in DOMAIN G.N, G.lo[z] < k, Bajo0(k, G.hi[z])
      PROVE  \E n \in 1..l : c.ll[n].k = k
  BY <1>5, <1>7, <1>8 DEF c, l
<1>9. \A n \in 1..l : c.ll[n].k # key
  BY <1>5
<1>10. m < l => b.mayor = c.ll[m + 1].nm
  BY <1>1 DEF MayorDe, l
<1>11. ~(m < l) => b.mayor = 0
  BY <1>1 DEF MayorDe, l
<1> HIDE DEF m
<1>12. ASSUME b.menor # 0
       PROVE  \E x \in DOMAIN G.N : /\ G.N[x] = b.menor /\ x < key
                                    /\ \A d \in DOMAIN G.N : ~(x < d /\ d < key)
  <2>1. m \in 1..l /\ b.menor = c.ll[m].nm
    BY <1>12, <1>1, <1>4, <1>5
  <2>2. /\ c.ll[m].k \in DOMAIN G.N /\ c.ll[m].k < key /\ G.N[c.ll[m].k] = b.menor
        /\ c.ll[m].k \in Nat /\ G.lo[z] < c.ll[m].k
    BY <2>1, <1>4, <1>5
  <2>3. ASSUME NEW d \in DOMAIN G.N, c.ll[m].k < d, d < key PROVE FALSE
    <3>1. d \in Nat /\ G.lo[z] < d /\ Bajo0(d, G.hi[z])
      BY <2>2, <2>3, <1>5, <1>6, <1>7 DEF Bajo0
    <3>2. PICK n \in 1..l : c.ll[n].k = d
      BY <3>1, <1>8
    <3>3. ~(n <= m)
      <4>1. n < m \/ n = m => c.ll[n].k <= c.ll[m].k
        BY <2>1, <2>2, <1>5
      <4> QED BY <4>1, <3>1, <3>2, <2>2, <2>3, <2>1, <1>5
    <3>4. n \in m+1..l
      BY <3>3, <1>4, <1>5
    <3> QED BY <3>4, <3>2, <1>4, <2>3, <3>1
  <2> QED BY <2>2, <2>3
<1>13. ASSUME b.mayor # 0
       PROVE  \E x \in DOMAIN G.N : /\ G.N[x] = b.mayor /\ key < x
                                    /\ \A d \in DOMAIN G.N : ~(key < d /\ d < x)
  <2>1. m + 1 \in 1..l /\ m + 1 \in m+1..l /\ b.mayor = c.ll[m + 1].nm
    BY <1>13, <1>10, <1>11, <1>4, <1>5
  <2> DEFINE y == c.ll[m + 1].k
  <2>2. /\ y \in DOMAIN G.N /\ key <= y /\ key # y /\ G.N[y] = b.mayor
        /\ y \in Nat /\ Bajo0(y, G.hi[z])
    BY <2>1, <1>4, <1>5, <1>9
  <2> HIDE DEF y
  <2>3. ASSUME NEW d \in DOMAIN G.N, key < d, d < y PROVE FALSE
    <3>1. d \in Nat /\ G.lo[z] < d /\ Bajo0(d, G.hi[z])
      BY <2>2, <2>3, <1>5, <1>6, <1>7 DEF Bajo0
    <3>2. PICK n \in 1..l : c.ll[n].k = d
      BY <3>1, <1>8
    <3>3. n > m
      BY <3>2, <1>4, <1>5, <2>3, <3>1
    <3>4. n = m + 1 \/ m + 1 < n
      BY <3>3, <1>4, <1>5
    <3>5. d = y \/ y < d
      BY <3>4, <3>2, <1>5, <2>1 DEF y
    <3> QED BY <3>5, <2>3, <2>2, <3>1
  <2>4. key < y
    BY <2>2
  <2> QED BY <2>2, <2>3, <2>4
<1>14. ASSUME \A k \in DOMAIN G.N : G.N[k] # 0, DOMAIN G.N # {} PROVE b.menor # 0 \/ b.mayor # 0
  <2>1. l # 0
    <3> SUFFICES ASSUME l = 0 PROVE FALSE
      OBVIOUS
    <3>1. z = G.r
      BY <1>1, <1>5 DEF Llena, Buena, l, c
    <3>2. G.C = {G.r}
      BY <3>1, <1>1, <1>2 DEF Arbol, Forma0
    <3>3. PICK k \in DOMAIN G.N : TRUE
      BY <1>14
    <3>4. G.W[k] = G.r
      BY <3>2, <1>2 DEF Arbol, Forma0
    <3>5. \E n \in 1..Len(f.dsk[z].ll) : f.dsk[z].ll[n].k = k
      BY <3>4, <3>1, <1>7
    <3> QED BY <3>5, <1>5 DEF l, c
  <2>2. CASE m = 0
    <3>1. m < l /\ m + 1 \in 1..l
      BY <2>1, <2>2, <1>5
    <3>2. b.mayor = c.ll[m + 1].nm
      BY <3>1, <1>10
    <3> QED BY <3>1, <3>2, <1>5, <1>14
  <2>3. CASE m # 0
    <3>1. m \in 1..l
      BY <2>3, <1>4, <1>5
    <3>2. b.menor = c.ll[m].nm
      BY <2>3, <1>1
    <3> QED BY <3>1, <3>2, <1>5, <1>14
  <2> QED BY <2>2, <2>3
<1> QED BY <1>1, <1>12, <1>13, <1>14 DEF Contiguas

-----------------------------------------------------------------------------
(* Pointers *)

\* The records keep their values and their pointers for the keys other than i.
Cambiado(f, g, R, i) ==
    \A p \in R : /\ g.dsk[p].val = f.dsk[p].val
                 /\ \A j \in Llaves \ {i} : g.dsk[p].ap[j] = f.dsk[p].ap[j]

\* The pointers for key i of the record p become a, and nothing else changes.
Apuntado(f, g, R, T, p, i, a) ==
    /\ Fichero(g, R, T) /\ g.vpk = f.vpk /\ g.kpos = f.kpos /\ Cambiado(f, g, R, i)
    /\ \A j \in Llaves : \A q \in T[j].C : g.dsk[q] = f.dsk[q]
    /\ \A q \in R : g.dsk[q].ap[i] = IF q = p THEN a ELSE f.dsk[q].ap[i]

\* That is what Fija does.
LEMMA FijaApunta ==
    ASSUME NEW f, NEW R, NEW T, Fichero(f, R, T), NEW p \in R, NEW i \in Llaves, NEW a \in Apuntes
    PROVE  Apuntado(f, Fija(f, p, i, a), R, T, p, i, a)
<1> DEFINE g == Fija(f, p, i, a)
<1>1. Fijado(f, g, R, T, p, i, a)
  BY FijaEs
<1> HIDE DEF g
<1>2. /\ Fichero(g, R, T) /\ g.vpk = f.vpk /\ g.kpos = f.kpos
      /\ g.dsk[p] = Registro(f.dsk[p].val, [f.dsk[p].ap EXCEPT ![i] = a])
      /\ \A q \in Usados(T, R) \ {p} : g.dsk[q] = f.dsk[q]
  BY <1>1 DEF Fijado
<1>3. /\ \A q \in R : f.dsk[q].ap \in [Llaves -> Apuntes]
      /\ \A j \in Llaves : T[j].C \cap R = {}
  BY DEF Fichero, Ficha
<1>4. \A j \in Llaves : \A q \in T[j].C : q \in Usados(T, R) \ {p}
  BY <1>3 DEF Usados
<1>5. \A q \in R \ {p} : q \in Usados(T, R) \ {p}
  BY DEF Usados
<1>6. g.dsk[p].val = f.dsk[p].val /\ g.dsk[p].ap = [f.dsk[p].ap EXCEPT ![i] = a]
  BY <1>2 DEF Registro
<1>7. g.dsk[p].ap[i] = a /\ \A j \in Llaves \ {i} : g.dsk[p].ap[j] = f.dsk[p].ap[j]
  BY <1>3, <1>6
<1>8. \A q \in R \ {p} : g.dsk[q] = f.dsk[q]
  BY <1>2, <1>5
<1>9. Cambiado(f, g, R, i)
  BY <1>6, <1>7, <1>8 DEF Cambiado
<1>10. \A j \in Llaves : \A q \in T[j].C : g.dsk[q] = f.dsk[q]
  BY <1>2, <1>4
<1> QED BY <1>2, <1>7, <1>8, <1>9, <1>10 DEF Apuntado, g

\* Position 0 is no record's.
LEMMA NadaApunta ==
    ASSUME NEW f, NEW R, NEW T, Fichero(f, R, T), NEW i \in Llaves, NEW a
    PROVE  Apuntado(f, f, R, T, 0, i, a)
<1>1. 0 \notin R
  BY RegistrosEs
<1> QED BY <1>1 DEF Apuntado, Cambiado

\* What PonAnter and PonProxi do.
LEMMA PonEs ==
    ASSUME NEW f, NEW R, NEW T, Fichero(f, R, T), NEW p \in R \cup {0}, NEW i \in Llaves, NEW x \in Nat
    PROVE  LET a == f.dsk[p].ap[i]
           IN  /\ Apuntado(f, PonAnter(f, p, i, x), R, T, p, i, Apuns(x, a.proxi, a.cuant))
               /\ Apuntado(f, PonProxi(f, p, i, x), R, T, p, i, Apuns(a.anter, x, a.cuant))
<1> DEFINE a == f.dsk[p].ap[i]
<1>1. CASE p = 0
  <2>1. PonAnter(f, p, i, x) = f /\ PonProxi(f, p, i, x) = f
    BY <1>1 DEF PonAnter, PonProxi
  <2> HIDE DEF a
  <2>2. ASSUME NEW e PROVE Apuntado(f, f, R, T, p, i, e)
    BY <1>1, NadaApunta
  <2> QED BY <2>1, <2>2 DEF a
<1>2. CASE p # 0
  <2>0. p \in R
    BY <1>2
  <2>1. /\ PonAnter(f, p, i, x) = Fija(f, p, i, Apuns(x, a.proxi, a.cuant))
        /\ PonProxi(f, p, i, x) = Fija(f, p, i, Apuns(a.anter, x, a.cuant))
        /\ Apuns(x, a.proxi, a.cuant) \in Apuntes
        /\ Apuns(a.anter, x, a.cuant) \in Apuntes
    BY <2>0, FijaUno
  <2> HIDE DEF a
  <2> QED BY <2>0, <2>1, FijaApunta DEF a
<1> QED BY <1>1, <1>2

\* The header names another first record.
LEMMA OtroVpk ==
    ASSUME NEW f, NEW R, NEW T, Fichero(f, R, T), NEW x
    PROVE  LET g == [f EXCEPT !.vpk = x]
           IN  Fichero(g, R, T) /\ g.dsk = f.dsk /\ g.vpk = x /\ g.kpos = f.kpos
<1> DEFINE X == Usados(T, R)
           g == [dsk |-> f.dsk, pad1 |-> f.pad1, kpos |-> f.kpos, vpk |-> x]
<1>1. Disco(f, X)
  BY DEF Fichero
<1>2. f = [dsk |-> f.dsk, pad1 |-> f.pad1, kpos |-> f.kpos, vpk |-> f.vpk]
  BY <1>1 DEF Disco
<1>3. [f EXCEPT !.vpk = x] = g
  BY <1>2
<1>4. Disco(g, X)
  BY <1>1, DiscoOtro
<1>5. g.dsk = f.dsk /\ g.vpk = x /\ g.kpos = f.kpos
  OBVIOUS
<1> HIDE DEF g, X
<1>6. Fichero(g, R, T)
  BY <1>4, <1>5 DEF Fichero, X
<1> QED BY <1>3, <1>5, <1>6

\* The fields of the pointers of a key.
LEMMA ApunsEs ==
    /\ \A x, y, n : Apuns(x, y, n).anter = x /\ Apuns(x, y, n).proxi = y /\ Apuns(x, y, n).cuant = n
    /\ \A x, y, n \in Nat : Apuns(x, y, n) \in Apuntes
    /\ \A a \in Apuntes : /\ a = Apuns(a.anter, a.proxi, a.cuant)
                          /\ a.anter \in Nat /\ a.proxi \in Nat /\ a.cuant \in Nat
  BY DEF Apuns, Apuntes

\* The clusters of the trees stay.
Quietos(f, g, T) == \A j \in Llaves : \A q \in T[j].C : g.dsk[q] = f.dsk[q]

\* The record nw is between a and s in the chain of the unique key.
Encadenado(f, g, R, nw, a, s) ==
    /\ \A p \in R :
         LET x == f.dsk[p].ap[Unica]
             y == g.dsk[p].ap[Unica]
         IN  /\ y.anter = IF p = nw THEN a ELSE IF p = s THEN nw ELSE x.anter
             /\ y.proxi = IF p = nw THEN s ELSE IF p = a THEN nw ELSE x.proxi
    /\ g.vpk = IF a = 0 THEN nw ELSE f.vpk

\* Encadena puts it there.
LEMMA EncadenaEs ==
    ASSUME NEW f, NEW R, NEW T, Fichero(f, R, T), NEW nw \in R,
           NEW a \in (R \ {nw}) \cup {0}, NEW s \in (R \ {nw}) \cup {0}
    PROVE  LET g == Encadena(f, nw, a, s)
           IN  /\ Fichero(g, R, T) /\ Quietos(f, g, T) /\ Cambiado(f, g, R, Unica)
               /\ Encadenado(f, g, R, nw, a, s)
<1> DEFINE f1 == [f EXCEPT !.dsk[nw].ap[Unica] = Apuns(a, s, 0)]
           f2 == PonProxi(f1, a, Unica, nw)
           f3 == PonAnter(f2, s, Unica, nw)
           g  == IF a = 0 THEN [f3 EXCEPT !.vpk = nw] ELSE f3
<1>0. Unica \in Llaves /\ 0 \notin R /\ R \subseteq Nat
  BY ConstantesArbol, RegistrosEs
<1>1. a \in Nat /\ s \in Nat /\ nw \in Nat /\ Apuns(a, s, 0) \in Apuntes
  BY <1>0, ApunsEs
<1>2. Apuntado(f, f1, R, T, nw, Unica, Apuns(a, s, 0))
  <2>1. f1 = Fija(f, nw, Unica, Apuns(a, s, 0))
    BY <1>0, <1>1, FijaUno
  <2> HIDE DEF f1
  <2> QED BY <2>1, <1>0, <1>1, FijaApunta
<1> HIDE DEF f1
<1>3. Fichero(f1, R, T)
  BY <1>2 DEF Apuntado
<1>4. Apuntado(f1, f2, R, T, a, Unica, Apuns(f1.dsk[a].ap[Unica].anter, nw, f1.dsk[a].ap[Unica].cuant))
  BY <1>0, <1>1, <1>3, PonEs
<1> HIDE DEF f2
<1>5. Fichero(f2, R, T)
  BY <1>4 DEF Apuntado
<1>6. Apuntado(f2, f3, R, T, s, Unica, Apuns(nw, f2.dsk[s].ap[Unica].proxi, f2.dsk[s].ap[Unica].cuant))
  BY <1>0, <1>1, <1>5, PonEs
<1> HIDE DEF f3
<1>7. Fichero(f3, R, T)
  BY <1>6 DEF Apuntado
<1>8. Fichero(g, R, T) /\ g.dsk = f3.dsk /\ g.vpk = IF a = 0 THEN nw ELSE f3.vpk
  BY <1>7, OtroVpk
<1>9. g = Encadena(f, nw, a, s)
  BY DEF Encadena, f1, f2, f3
<1> HIDE DEF g
<1>10. Quietos(f, g, T)
  BY <1>2, <1>4, <1>6, <1>8 DEF Quietos, Apuntado
<1>11. Cambiado(f, g, R, Unica)
  BY <1>2, <1>4, <1>6, <1>8 DEF Cambiado, Apuntado
<1>12. f3.vpk = f.vpk
  BY <1>2, <1>4, <1>6 DEF Apuntado
<1>13. ASSUME NEW p \in R
       PROVE  /\ g.dsk[p].ap[Unica].anter = IF p = nw THEN a ELSE IF p = s THEN nw ELSE f.dsk[p].ap[Unica].anter
              /\ g.dsk[p].ap[Unica].proxi = IF p = nw THEN s ELSE IF p = a THEN nw ELSE f.dsk[p].ap[Unica].proxi
  <2> DEFINE x0 == f.dsk[p].ap[Unica]
             x1 == f1.dsk[p].ap[Unica]
             x2 == f2.dsk[p].ap[Unica]
             x3 == f3.dsk[p].ap[Unica]
  <2>1. x1 = IF p = nw THEN Apuns(a, s, 0) ELSE x0
    BY <1>2 DEF Apuntado
  <2>2. x2 = IF p = a THEN Apuns(x1.anter, nw, x1.cuant) ELSE x1
    BY <1>4 DEF Apuntado
  <2>3. x3 = IF p = s THEN Apuns(nw, x2.proxi, x2.cuant) ELSE x2
    BY <1>6 DEF Apuntado
  <2>4. g.dsk[p].ap[Unica] = x3
    BY <1>8
  <2> HIDE DEF x0, x1, x2, x3
  <2>5. nw # a /\ nw # s
    BY <1>0
  <2>6. x1.anter = (IF p = nw THEN a ELSE x0.anter) /\ x1.proxi = (IF p = nw THEN s ELSE x0.proxi)
    BY <2>1, ApunsEs
  <2>7. x2.anter = x1.anter /\ x2.proxi = (IF p = a THEN nw ELSE x1.proxi)
    BY <2>2, ApunsEs
  <2>8. x3.anter = (IF p = s THEN nw ELSE x2.anter) /\ x3.proxi = x2.proxi
    BY <2>3, ApunsEs
  <2> QED BY <2>4, <2>5, <2>6, <2>7, <2>8 DEF x0
<1>14. Encadenado(f, g, R, nw, a, s)
  BY <1>8, <1>12, <1>13 DEF Encadenado
<1> QED BY <1>8, <1>9, <1>10, <1>11, <1>14

-----------------------------------------------------------------------------
(* inclu *)

\* The values of a record are numbers.
LEMMA ValorEs ==
    ASSUME NEW f, NEW R, NEW T, Fichero(f, R, T), NEW p \in R, NEW i \in Llaves
    PROVE  f.dsk[p].val[i] \in Dominio(i) /\ f.dsk[p].val[i] \in Nat /\ f.dsk[p].val \in Datos
<1>1. f.dsk[p].val \in Datos
  BY DEF Fichero, Ficha
<1>2. f.dsk[p].val[i] \in Dominio(i)
  BY <1>1 DEF Datos, Dominio, Reps
<1> QED BY <1>1, <1>2, ConstantesDisco DEF Dominio

\* A tree with one more key names records if the new one is a record.
LEMMA NombraCon1 ==
    ASSUME NEW G, NEW R, NEW i, Nombra(G, R, i), NEW I, NEW key \in Dominio(i), NEW nw \in R,
           I.N = Con1(G.N, key, nw)
    PROVE  Nombra(I, R, i)
  BY DEF Nombra, Con1

\* The neighbours that are not of key i are of records.
Apunta(f, R, i, p) == f.dsk[p].ap[i].anter \in R \cup {0} /\ f.dsk[p].ap[i].proxi \in R \cup {0}

\* What the chain of the unique key and its index have to be for a new record nw.
ListaUnica(f, R, T, nw) ==
    /\ nw \in R /\ f.dsk[nw].val[Unica] \notin DOMAIN T[Unica].N
    /\ Nombra(T[Unica], R \ {nw}, Unica)
    /\ \A p \in R \ {nw} : Apunta(f, R \ {nw}, Unica, p)

\* And what they are when it is in.
EntradaUnica(f, g, R, T, nw, b, I) ==
    LET key == f.dsk[nw].val[Unica]
    IN  /\ Contiguas(T[Unica].N, b, key)
        /\ I.N = Con1(T[Unica].N, key, nw)
        /\ Fichero(g, R, Cambia(T, Unica, I)) /\ Cambiado(f, g, R, Unica)
        /\ Encadenado(f, g, R, nw, Vecindad(f, b).a, Vecindad(f, b).s)
        /\ b.menor \in (R \ {nw}) \cup {0} /\ b.mayor \in (R \ {nw}) \cup {0}

\* inclu puts the record in the tree and in the chain of the unique key.
LEMMA EntraUnica ==
    ASSUME NEW f, NEW R, NEW T, Fichero(f, R, T), NEW nw, ListaUnica(f, R, T, nw)
    PROVE  \E b, I : EntradaUnica(f, Entra(f, nw, Unica), R, T, nw, b, I)
<1> DEFINE key == f.dsk[nw].val[Unica]
           G   == T[Unica]
           b   == Busca(f, Unica, key)
           g1  == Inserta(f, Unica, b, key, nw)
           X   == Usados(T, R)
<1>0. Unica \in Llaves /\ nw \in R /\ nw \in Nat
  BY ConstantesArbol, RegistrosEs DEF ListaUnica
<1>1. /\ key \notin DOMAIN G.N /\ Nombra(G, R \ {nw}, Unica)
      /\ \A p \in R \ {nw} : Apunta(f, R \ {nw}, Unica, p)
  BY DEF ListaUnica
<1>2. key \in Nat /\ key \in Dominio(Unica)
  BY <1>0, ValorEs
<1> HIDE DEF key
<1>3. Raiz(f, X, Unica, G) /\ Llena(f.dsk, G) /\ f.kpos \in [Llaves -> Nat]
  BY <1>0, FicheroRaiz
<1> HIDE DEF G, X
<1>4. Hallado(f, G, b, key)
  BY <1>2, <1>3, BuscaEs
<1> HIDE DEF b
<1>5. Contiguas(G.N, b, key)
  BY <1>0, <1>1, <1>2, <1>3, <1>4, ContiguasEs
<1>6. b.rec = -1
  BY <1>5 DEF Contiguas
<1>7. \E I : Puesto(f, g1, X, G, Con1(G.N, key, nw), Unica, I)
  BY <1>0, <1>1, <1>2, <1>3, <1>4, InsertaEs
<1> HIDE DEF g1
<1>8. PICK I : Puesto(f, g1, X, G, Con1(G.N, key, nw), Unica, I)
  BY <1>7
<1>9. I.N = Con1(G.N, key, nw)
  BY <1>8 DEF Puesto
<1>10. Nombra(G, R, Unica)
  BY <1>1 DEF Nombra
<1>11. Nombra(I, R, Unica)
  BY <1>0, <1>2, <1>9, <1>10, NombraCon1
<1> DEFINE T2 == Cambia(T, Unica, I)
<1>12. /\ Fichero(g1, R, T2) /\ \A p \in R : g1.dsk[p] = f.dsk[p]
       /\ g1.vpk = f.vpk
  <2>1. Cambio(f, g1, R, T, Con1(G.N, key, nw), Unica, I)
    BY <1>8, <1>11 DEF G, X, Cambio
  <2>2. Cambiada(f, g1, R, T, Con1(G.N, key, nw), Unica, I)
    BY <1>0, <2>1, CambiaArbol
  <2> QED BY <2>2 DEF Cambiada
<1> HIDE DEF T2
<1>13. b.menor \in (R \ {nw}) \cup {0} /\ b.mayor \in (R \ {nw}) \cup {0}
  BY <1>1, <1>5 DEF Contiguas, Nombra
<1> DEFINE v == Vecindad(f, b)
<1>14. Vecindad(g1, b) = v
  BY <1>12, <1>13 DEF Vecindad
<1>15. v.a \in (R \ {nw}) \cup {0} /\ v.s \in (R \ {nw}) \cup {0}
  BY <1>1, <1>13 DEF Vecindad, Apunta
<1> HIDE DEF v
<1> DEFINE g == Encadena(g1, nw, v.a, v.s)
<1>16. Entra(f, nw, Unica) = g
  BY <1>6, <1>14 DEF Entra, b, g1, key
<1>17. /\ Fichero(g, R, T2) /\ Cambiado(g1, g, R, Unica)
       /\ Encadenado(g1, g, R, nw, v.a, v.s)
  BY <1>0, <1>12, <1>15, EncadenaEs
<1> HIDE DEF g
<1>18. Cambiado(f, g, R, Unica)
  BY <1>12, <1>17 DEF Cambiado
<1>19. Encadenado(f, g, R, nw, v.a, v.s)
  BY <1>12, <1>17 DEF Encadenado
<1>20. EntradaUnica(f, g, R, T, nw, b, I)
  BY <1>5, <1>9, <1>13, <1>17, <1>18, <1>19 DEF EntradaUnica, T2, v, G, key
<1> QED BY <1>16, <1>20

\* What the stacks of key i and its index have to be for a new record nw.
ListaRep(f, R, T, nw, i) ==
    /\ nw \in R /\ i \in Reps /\ f.dsk[nw].ap[i] = Apuns(0, 0, 0)
    /\ Nombra(T[i], R \ {nw}, i)

\* The top of a stack, and what the stacks are when the record is in.
TopeDe(N, key) == IF key \in DOMAIN N THEN N[key] ELSE 0
Apilado(f, g, R, nw, i, t) ==
    \A p \in R :
      LET x == f.dsk[p].ap[i]
      IN  g.dsk[p].ap[i] =
            IF p = nw THEN Apuns(0, t, IF t = 0 THEN 0 ELSE f.dsk[t].ap[i].cuant + 1)
            ELSE IF p = t THEN Apuns(nw, x.proxi, x.cuant) ELSE x
EntradaRep(f, g, R, T, nw, i, I) ==
    LET key == f.dsk[nw].val[i]
    IN  /\ I.N = Con1(T[i].N, key, nw)
        /\ Fichero(g, R, Cambia(T, i, I)) /\ Cambiado(f, g, R, i) /\ g.vpk = f.vpk
        /\ Apilado(f, g, R, nw, i, TopeDe(T[i].N, key))

\* busca finds a key, or not, in the tree.
LEMMA HalladoEs ==
    ASSUME NEW f, NEW R, NEW T, Fichero(f, R, T), NEW i \in Llaves, NEW key \in Nat
    PROVE  Hallado(f, T[i], Busca(f, i, key), key)
<1>1. Raiz(f, Usados(T, R), i, T[i]) /\ Llena(f.dsk, T[i])
  BY FicheroRaiz
<1> QED BY <1>1, BuscaEs

\* The slot of a key names a record.
LEMMA RenombraFichero ==
    ASSUME NEW f, NEW R, NEW T, Fichero(f, R, T), NEW i \in Llaves, NEW key, NEW nw \in R,
           key \in DOMAIN T[i].N, NEW b, Hallado(f, T[i], b, key)
    PROVE  LET g == Renombra(f, b, nw)
               I == Rotulado(T[i], key, nw)
           IN  /\ b.rec = T[i].N[key]
               /\ Fichero(g, R, Cambia(T, i, I))
               /\ \A p \in R : g.dsk[p] = f.dsk[p]
               /\ g.vpk = f.vpk /\ I.N = [T[i].N EXCEPT ![key] = nw]
<1> DEFINE G == T[i]
           g == Renombra(f, b, nw)
           I == Rotulado(G, key, nw)
           X == Usados(T, R)
<1>1. Raiz(f, X, i, G) /\ Llena(f.dsk, G) /\ f.kpos \in [Llaves -> Nat]
  BY FicheroRaiz
<1>2. Nombra(G, R, i) /\ Arbol(f.dsk, G)
  BY DEF Fichero
<1>3. key \in Nat /\ key \in DOMAIN G.N
  BY <1>2 DEF Arbol, Forma0
<1>4. nw \in Nat
  BY RegistrosEs
<1>5. Hallado(f, G, b, key)
  OBVIOUS
<1> HIDE DEF G, X
<1>6. b.rec = G.N[key]
  BY <1>3, <1>5 DEF Hallado
<1>7. Puesto(f, g, X, G, [G.N EXCEPT ![key] = nw], i, I)
  BY <1>1, <1>3, <1>4, <1>5, RenombraEs
<1>8. I.N = [G.N EXCEPT ![key] = nw]
  BY DEF Rotulado
<1> HIDE DEF I, g
<1>9. Nombra(I, R, i)
  BY <1>2, <1>8 DEF Nombra
<1> DEFINE N2 == [G.N EXCEPT ![key] = nw]
<1>10. Cambio(f, g, R, T, N2, i, I)
  BY <1>7, <1>9 DEF G, X, Cambio
<1> HIDE DEF N2
<1>11. /\ Fichero(g, R, Cambia(T, i, I)) /\ \A p \in R : g.dsk[p] = f.dsk[p]
       /\ g.vpk = f.vpk
  <2>1. Cambiada(f, g, R, T, N2, i, I)
    BY <1>10, CambiaArbol
  <2> QED BY <2>1 DEF Cambiada
<1> QED BY <1>6, <1>8, <1>11 DEF G, g, I

\* inclu puts the record in the tree of a repeated key and on top of its stack.
LEMMA EntraRep ==
    ASSUME NEW f, NEW R, NEW T, Fichero(f, R, T), NEW nw, NEW i, ListaRep(f, R, T, nw, i)
    PROVE  \E I : EntradaRep(f, Entra(f, nw, i), R, T, nw, i, I)
<1> DEFINE key == f.dsk[nw].val[i]
           N   == T[i].N
           b   == Busca(f, i, key)
           t   == TopeDe(N, key)
<1>0. i \in Llaves /\ i # Unica /\ nw \in R /\ nw \in Nat /\ 0 \notin R /\ -1 \notin R
  BY RegistrosEs DEF ListaRep, Reps
<1>1. f.dsk[nw].ap[i] = Apuns(0, 0, 0) /\ Nombra(T[i], R \ {nw}, i)
  BY DEF ListaRep
<1>2. key \in Nat /\ key \in Dominio(i)
  BY <1>0, ValorEs
<1> HIDE DEF key
<1>3. /\ Raiz(f, Usados(T, R), i, T[i]) /\ Llena(f.dsk, T[i]) /\ f.kpos \in [Llaves -> Nat]
  BY <1>0, FicheroRaiz
<1>4. Hallado(f, T[i], b, key)
  BY <1>2, <1>3, BuscaEs
<1>5. key \in DOMAIN N => b.rec = N[key] /\ N[key] \in R \ {nw} /\ t = N[key]
  BY <1>1, <1>4 DEF Hallado, Nombra, TopeDe
<1>6. key \notin DOMAIN N => b.rec = -1 /\ t = 0
  BY <1>4 DEF Hallado, TopeDe
<1>7. Nombra(T[i], R, i)
  BY <1>1 DEF Nombra
<1>8. CASE key \notin DOMAIN N
  <2> DEFINE g1 == Inserta(f, i, b, key, nw)
  <2>1. b.rec = -1 /\ t = 0
    BY <1>8, <1>6
  <2>2. \E I : Puesto(f, g1, Usados(T, R), T[i], Con1(T[i].N, key, nw), i, I)
    BY <1>0, <1>2, <1>3, <1>4, <1>8, InsertaEs
  <2> HIDE DEF g1
  <2>3. PICK I1 : Puesto(f, g1, Usados(T, R), T[i], Con1(T[i].N, key, nw), i, I1)
    BY <2>2
  <2>4. I1.N = Con1(T[i].N, key, nw)
    BY <2>3 DEF Puesto
  <2>5. Nombra(I1, R, i)
    BY <1>0, <1>2, <1>7, <2>4, NombraCon1
  <2>6. Cambio(f, g1, R, T, Con1(T[i].N, key, nw), i, I1)
    BY <2>3, <2>5 DEF Cambio
  <2>7. Cambiada(f, g1, R, T, Con1(T[i].N, key, nw), i, I1)
    BY <1>0, <2>6, CambiaArbol
  <2> DEFINE T2 == Cambia(T, i, I1)
             b2 == Busca(g1, i, key)
             g2 == Renombra(g1, b2, nw)
             I2 == Rotulado(T2[i], key, nw)
  <2>8. Fichero(g1, R, T2) /\ (\A p \in R : g1.dsk[p] = f.dsk[p]) /\ g1.vpk = f.vpk
    BY <2>7 DEF Cambiada
  <2>9. T2[i] = I1
    BY <1>0 DEF Cambia, Fichero
  <2>10. key \in DOMAIN T2[i].N /\ T2[i].N[key] = nw
    BY <2>4, <2>9 DEF Con1
  <2>11. /\ b2.rec = nw /\ Fichero(g2, R, Cambia(T2, i, I2))
         /\ \A p \in R : g2.dsk[p] = g1.dsk[p]
         /\ g2.vpk = g1.vpk /\ I2.N = [T2[i].N EXCEPT ![key] = nw]
    <3> HIDE DEF T2
    <3>0. Hallado(g1, T2[i], b2, key)
      BY <1>0, <1>2, <2>8, HalladoEs
    <3> HIDE DEF b2
    <3>1. /\ b2.rec = T2[i].N[key]
          /\ Fichero(g2, R, Cambia(T2, i, I2))
          /\ \A p \in R : g2.dsk[p] = g1.dsk[p]
          /\ g2.vpk = g1.vpk /\ I2.N = [T2[i].N EXCEPT ![key] = nw]
      BY <1>0, <3>0, <2>8, <2>10, RenombraFichero
    <3> QED BY <3>1, <2>10
  <2>12. Entra(f, nw, i) = g2
    <3>1. g1.dsk[nw].val[i] = key
      BY <2>8, <1>0 DEF key
    <3>2. Apila(g1, nw, i) = g2
      BY <3>1, <2>11 DEF Apila
    <3> QED BY <3>2, <2>1, <1>0 DEF Entra, g1, b, key
  <2> HIDE DEF b2, g2, I2
  <2>13. Cambia(T2, i, I2) = Cambia(T, i, I2)
    BY DEF Cambia
  <2>14. I2.N = Con1(N, key, nw)
    BY <2>4, <2>9, <2>11 DEF Con1
  <2>15. \A p \in R : g2.dsk[p] = f.dsk[p]
    BY <2>8, <2>11
  <2>16. Cambiado(f, g2, R, i)
    BY <2>15 DEF Cambiado
  <2>17. Apilado(f, g2, R, nw, i, t)
    BY <2>15, <2>1, <1>0, <1>1 DEF Apilado
  <2>18. EntradaRep(f, g2, R, T, nw, i, I2)
    BY <2>8, <2>11, <2>13, <2>14, <2>16, <2>17 DEF EntradaRep, key
  <2> QED BY <2>12, <2>18
<1>9. CASE key \in DOMAIN N
  <2> DEFINE g2 == Renombra(f, b, nw)
             I2 == Rotulado(T[i], key, nw)
             g3 == PonAnter(g2, t, i, nw)
             c  == Apuns(0, t, g2.dsk[t].ap[i].cuant + 1)
             g4 == [g3 EXCEPT !.dsk[nw].ap[i] = c]
             T2 == Cambia(T, i, I2)
  <2>1. b.rec = t /\ t \in R /\ t # nw /\ t # 0 /\ t # -1
    BY <1>9, <1>5, <1>0
  <2>2. /\ Fichero(g2, R, T2)
        /\ \A p \in R : g2.dsk[p] = f.dsk[p]
        /\ g2.vpk = f.vpk /\ I2.N = [N EXCEPT ![key] = nw]
    BY <1>0, <1>4, <1>9, RenombraFichero
  <2> HIDE DEF g2, I2, T2, t
  <2>3. Apuntado(g2, g3, R, T2, t, i, Apuns(nw, g2.dsk[t].ap[i].proxi, g2.dsk[t].ap[i].cuant))
    BY <1>0, <2>1, <2>2, PonEs
  <2> HIDE DEF g3
  <2>4. Fichero(g3, R, T2)
    BY <2>3 DEF Apuntado
  <2>5. f.dsk[t].ap[i].cuant \in Nat
    BY <2>1, <1>0, ApunsEs DEF Fichero, Ficha
  <2>6. c \in Apuntes /\ c = Apuns(0, t, f.dsk[t].ap[i].cuant + 1)
    <3>1. c = Apuns(0, t, f.dsk[t].ap[i].cuant + 1)
      BY <2>1, <2>2
    <3>2. f.dsk[t].ap[i].cuant + 1 \in Nat /\ t \in Nat /\ 0 \in Nat
      BY <2>5, <2>1, RegistrosEs
    <3> QED BY <3>1, <3>2, ApunsEs
  <2> HIDE DEF c
  <2>7. Apuntado(g3, g4, R, T2, nw, i, c)
    <3>0. \A e \in Apuntes : [g3 EXCEPT !.dsk[nw].ap[i] = e] = Fija(g3, nw, i, e)
      BY <1>0, <2>4, FijaUno
    <3>1. g4 = Fija(g3, nw, i, c)
      BY <3>0, <2>6
    <3> HIDE DEF g4
    <3> QED BY <3>1, <1>0, <2>4, <2>6, FijaApunta
  <2>8. Entra(f, nw, i) = g4
    <3>1. Apila(f, nw, i) = g4
      BY <2>1 DEF Apila, b, key, g2, g3, c
    <3> QED BY <3>1, <2>1, <1>0 DEF Entra, b, key
  <2> HIDE DEF g4
  <2>9. Cambiado(f, g4, R, i)
    BY <2>2, <2>3, <2>7 DEF Cambiado, Apuntado
  <2>10. Apilado(f, g4, R, nw, i, t)
    BY <2>1, <2>2, <2>3, <2>6, <2>7 DEF Apilado, Apuntado
  <2>11. I2.N = Con1(N, key, nw)
    BY <2>2, <1>9 DEF Con1
  <2>12. Fichero(g4, R, T2) /\ g4.vpk = f.vpk
    BY <2>2, <2>3, <2>7 DEF Apuntado
  <2>13. EntradaRep(f, g4, R, T, nw, i, I2)
    BY <2>9, <2>10, <2>11, <2>12 DEF EntradaRep, key, T2, t
  <2> QED BY <2>8, <2>13
<1> QED BY <1>8, <1>9

\* A file g with the record nw written and no key of it entered.
Escrita(g, R, T, nw) ==
    /\ Fichero(g, R, T) /\ nw \in R
    /\ g.dsk[nw].val[Unica] \notin DOMAIN T[Unica].N
    /\ \A i \in Llaves : Nombra(T[i], R \ {nw}, i)
    /\ \A i \in Reps : g.dsk[nw].ap[i] = Apuns(0, 0, 0)
    /\ \A p \in R \ {nw} : Apunta(g, R \ {nw}, Unica, p)

\* The chain of key i has it in file h.
Enlazada(g, h, R, T, nw, i) ==
    IF i = Unica
    THEN \E b : /\ Contiguas(T[Unica].N, b, g.dsk[nw].val[Unica])
                /\ b.menor \in (R \ {nw}) \cup {0} /\ b.mayor \in (R \ {nw}) \cup {0}
                /\ Encadenado(g, h, R, nw, Vecindad(g, b).a, Vecindad(g, b).s)
    ELSE Apilado(g, h, R, nw, i, TopeDe(T[i].N, g.dsk[nw].val[i]))

\* The keys of P have been entered, in file h with trees U.
EnCurso(g, h, R, T, U, nw, P) ==
    /\ Fichero(h, R, U)
    /\ \A p \in R : h.dsk[p].val = g.dsk[p].val
    /\ \A i \in P : /\ U[i].N = Con1(T[i].N, g.dsk[nw].val[i], nw)
                    /\ Enlazada(g, h, R, T, nw, i)
    /\ \A i \in Llaves \ P : /\ U[i] = T[i]
                             /\ \A p \in R : h.dsk[p].ap[i] = g.dsk[p].ap[i]
    /\ Unica \notin P => h.vpk = g.vpk

\* What other keys have of the record stays when one enters.
LEMMA SigueEnlazada ==
    ASSUME NEW g, NEW h, NEW k, NEW R, NEW T, NEW nw, NEW i \in Llaves, NEW j \in Llaves \ {i},
           Enlazada(g, h, R, T, nw, j), Cambiado(h, k, R, i), j = Unica => k.vpk = h.vpk
    PROVE  Enlazada(g, k, R, T, nw, j)
<1>1. \A p \in R : k.dsk[p].ap[j] = h.dsk[p].ap[j]
  BY DEF Cambiado
<1>2. CASE j = Unica
  <2>1. PICK b : /\ Contiguas(T[Unica].N, b, g.dsk[nw].val[Unica])
                 /\ b.menor \in (R \ {nw}) \cup {0} /\ b.mayor \in (R \ {nw}) \cup {0}
                 /\ Encadenado(g, h, R, nw, Vecindad(g, b).a, Vecindad(g, b).s)
    BY <1>2 DEF Enlazada
  <2>2. Encadenado(g, k, R, nw, Vecindad(g, b).a, Vecindad(g, b).s)
    BY <1>1, <1>2, <2>1 DEF Encadenado
  <2> QED BY <1>2, <2>1, <2>2 DEF Enlazada
<1>3. CASE j # Unica
  <2>1. Apilado(g, h, R, nw, j, TopeDe(T[j].N, g.dsk[nw].val[j]))
    BY <1>3 DEF Enlazada
  <2>2. Apilado(g, k, R, nw, j, TopeDe(T[j].N, g.dsk[nw].val[j]))
    BY <1>1, <2>1 DEF Apilado
  <2> QED BY <1>3, <2>2 DEF Enlazada
<1> QED BY <1>2, <1>3

\* One key more is entered, and the others stay.
LEMMA SigueEnCurso ==
    ASSUME NEW g, NEW h, NEW k, NEW R, NEW T, NEW U, NEW nw, NEW P, NEW i \in Llaves \ P, NEW I,
           P \subseteq Llaves, EnCurso(g, h, R, T, U, nw, P), Fichero(k, R, Cambia(U, i, I)),
           Cambiado(h, k, R, i), i # Unica => k.vpk = h.vpk,
           I.N = Con1(T[i].N, g.dsk[nw].val[i], nw), Enlazada(g, k, R, T, nw, i)
    PROVE  EnCurso(g, k, R, T, Cambia(U, i, I), nw, P \cup {i})
<1> DEFINE U2 == Cambia(U, i, I)
<1>1. U2[i] = I /\ \A j \in Llaves \ {i} : U2[j] = U[j]
  BY DEF Cambia, EnCurso, Fichero
<1> HIDE DEF U2
<1>2. \A p \in R : k.dsk[p].val = g.dsk[p].val
  BY DEF Cambiado, EnCurso
<1>3. ASSUME NEW j \in P
      PROVE  U2[j].N = Con1(T[j].N, g.dsk[nw].val[j], nw) /\ Enlazada(g, k, R, T, nw, j)
  <2>1. j \in Llaves \ {i} /\ Enlazada(g, h, R, T, nw, j) /\ U[j].N = Con1(T[j].N, g.dsk[nw].val[j], nw)
    BY DEF EnCurso
  <2>2. j = Unica => k.vpk = h.vpk
    BY <2>1
  <2>3. Enlazada(g, k, R, T, nw, j)
    BY <2>1, <2>2, SigueEnlazada
  <2> QED BY <1>1, <2>1, <2>3
<1>4. ASSUME NEW j \in Llaves \ (P \cup {i})
      PROVE  U2[j] = T[j] /\ \A p \in R : k.dsk[p].ap[j] = g.dsk[p].ap[j]
  BY <1>1, <1>4 DEF EnCurso, Cambiado
<1>5. Unica \notin P \cup {i} => k.vpk = g.vpk
  BY DEF EnCurso
<1>6. Fichero(k, R, U2)
  BY DEF U2
<1> QED BY <1>1, <1>2, <1>3, <1>4, <1>5, <1>6 DEF EnCurso, U2

\* A key enters.
LEMMA PasoEntra ==
    ASSUME NEW g, NEW h, NEW R, NEW T, NEW U, NEW nw, NEW P, NEW i \in Llaves \ P,
           P \subseteq Llaves, Escrita(g, R, T, nw), EnCurso(g, h, R, T, U, nw, P)
    PROVE  \E V : EnCurso(g, Entra(h, nw, i), R, T, V, nw, P \cup {i})
<1> DEFINE k == Entra(h, nw, i)
<1>1. /\ Fichero(h, R, U) /\ nw \in R /\ U[i] = T[i] /\ h.dsk[nw].val = g.dsk[nw].val
      /\ \A p \in R : h.dsk[p].ap[i] = g.dsk[p].ap[i]
      /\ Nombra(T[i], R \ {nw}, i)
  BY DEF EnCurso, Escrita
<1>2. CASE i = Unica
  <2>0. Unica \in Llaves /\ Unica \notin P
    BY <1>2
  <2>1. ListaUnica(h, R, U, nw)
    BY <1>1, <1>2 DEF ListaUnica, Escrita, Apunta
  <2>2. PICK b, I : EntradaUnica(h, Entra(h, nw, Unica), R, U, nw, b, I)
    BY <1>1, <2>1, EntraUnica
  <2>3. EntradaUnica(h, k, R, U, nw, b, I)
    BY <1>2, <2>2
  <2> HIDE DEF k
  <2>4. /\ Contiguas(T[Unica].N, b, g.dsk[nw].val[Unica])
        /\ I.N = Con1(T[Unica].N, g.dsk[nw].val[Unica], nw)
        /\ Fichero(k, R, Cambia(U, Unica, I)) /\ Cambiado(h, k, R, Unica)
        /\ Encadenado(h, k, R, nw, Vecindad(h, b).a, Vecindad(h, b).s)
        /\ b.menor \in (R \ {nw}) \cup {0} /\ b.mayor \in (R \ {nw}) \cup {0}
    BY <1>1, <1>2, <2>3 DEF EntradaUnica
  <2>5. Vecindad(h, b) = Vecindad(g, b)
    BY <1>1, <1>2, <2>4 DEF Vecindad
  <2>6. h.vpk = g.vpk
    BY <2>0 DEF EnCurso
  <2>7. Encadenado(g, k, R, nw, Vecindad(g, b).a, Vecindad(g, b).s)
    BY <1>1, <1>2, <2>4, <2>5, <2>6 DEF Encadenado
  <2>8. Enlazada(g, k, R, T, nw, Unica)
    BY <2>4, <2>7 DEF Enlazada
  <2>9. EnCurso(g, k, R, T, Cambia(U, i, I), nw, P \cup {i})
    BY <1>2, <2>4, <2>8, SigueEnCurso
  <2> QED BY <2>9 DEF k
<1>3. CASE i # Unica
  <2>0. i \in Reps
    BY <1>3 DEF Reps
  <2>1. ListaRep(h, R, U, nw, i)
    BY <1>1, <2>0 DEF ListaRep, Escrita
  <2>2. PICK I : EntradaRep(h, k, R, U, nw, i, I)
    BY <1>1, <2>1, EntraRep
  <2> HIDE DEF k
  <2>3. /\ I.N = Con1(T[i].N, g.dsk[nw].val[i], nw)
        /\ Fichero(k, R, Cambia(U, i, I)) /\ Cambiado(h, k, R, i) /\ k.vpk = h.vpk
        /\ Apilado(h, k, R, nw, i, TopeDe(T[i].N, g.dsk[nw].val[i]))
    BY <1>1, <2>2 DEF EntradaRep
  <2> DEFINE t == TopeDe(T[i].N, g.dsk[nw].val[i])
  <2>4. t \in R \cup {0}
    BY <1>1 DEF TopeDe, Nombra
  <2> HIDE DEF t
  <2>5. Apilado(h, k, R, nw, i, t)
    BY <2>3 DEF t
  <2>6. Apilado(g, k, R, nw, i, t)
    BY <1>1, <2>4, <2>5 DEF Apilado
  <2>7. Enlazada(g, k, R, T, nw, i)
    BY <1>3, <2>6 DEF Enlazada, t
  <2>8. EnCurso(g, k, R, T, Cambia(U, i, I), nw, P \cup {i})
    BY <2>3, <2>7, SigueEnCurso
  <2> QED BY <2>8 DEF k
<1> QED BY <1>2, <1>3

\* The keys up to the n-th of the file.
Hechas(n) == {Orden[m] : m \in 1..n}

\* Each comes once.
LEMMA HechasEs ==
    /\ Len(Orden) \in Nat /\ Hechas(0) = {} /\ Hechas(Len(Orden)) = Llaves
    /\ \A n \in 0..Len(Orden)-1 : /\ Orden[n + 1] \in Llaves \ Hechas(n) /\ Hechas(n) \subseteq Llaves
                                  /\ Hechas(n + 1) = Hechas(n) \cup {Orden[n + 1]}
<1> DEFINE L == Len(Orden)
<1>1. /\ Orden \in Seq(Llaves) /\ \A m, n \in DOMAIN Orden : Orden[m] = Orden[n] => m = n
  BY ConstantesArbol
<1>2. L \in Nat /\ DOMAIN Orden = 1..L /\ \A n \in 1..L : Orden[n] \in Llaves
  BY <1>1, LenProperties, ElementOfSeq
<1>3. Llaves = {Orden[m] : m \in DOMAIN Orden}
  BY DEF Llaves, ToSet
<1> HIDE DEF L
<1>4. Hechas(0) = {}
  BY DEF Hechas
<1>5. Hechas(L) = Llaves
  BY <1>2, <1>3 DEF Hechas
<1>6. ASSUME NEW n \in 0..L-1
      PROVE  /\ Orden[n + 1] \in Llaves \ Hechas(n) /\ Hechas(n) \subseteq Llaves
             /\ Hechas(n + 1) = Hechas(n) \cup {Orden[n + 1]}
  <2>1. n + 1 \in 1..L /\ 1..n+1 = (1..n) \cup {n + 1} /\ 1..n \subseteq 1..L /\ n + 1 \notin 1..n
    BY <1>2
  <2>2. Orden[n + 1] \in Llaves
    BY <1>2, <2>1
  <2>3. Orden[n + 1] \notin Hechas(n)
    BY <1>1, <1>2, <2>1 DEF Hechas
  <2>4. Hechas(n) \subseteq Llaves
    BY <1>2, <2>1 DEF Hechas
  <2>5. Hechas(n + 1) = Hechas(n) \cup {Orden[n + 1]}
    BY <2>1 DEF Hechas
  <2> QED BY <2>2, <2>3, <2>4, <2>5
<1> QED BY <1>2, <1>4, <1>5, <1>6 DEF L

\* What the file is once inclu has put a record of values val at nw: k, with trees U.
Incluido(f, k, R, T, U, val, nw, g) ==
    /\ nw \in Nat \ {0} /\ nw \notin R
    /\ Escrita(g, R \cup {nw}, T, nw) /\ g.vpk = f.vpk
    /\ g.dsk[nw].val = val /\ \A p \in R : g.dsk[p] = f.dsk[p]
    /\ EnCurso(g, k, R \cup {nw}, T, U, nw, Llaves)

\* inclu writes the record and enters its keys, one by one.
LEMMA IncluyeEs ==
    ASSUME NEW f, NEW R, NEW T, Fichero(f, R, T), NEW val \in Datos,
           val[Unica] \notin DOMAIN T[Unica].N, \A p \in R : Apunta(f, R, Unica, p)
    PROVE  \E U, nw, g : Incluido(f, Incluye(f, val), R, T, U, val, nw, g)
<1> DEFINE r  == Frsp(f, TamR)
           b0 == Registro(val, [i \in Llaves |-> Apuns(0, 0, 0)])
           g  == Renu(r.f, r.lug, b0)
           nw == r.lug
           R2 == R \cup {nw}
           L  == Len(Orden)
<1>0. b0.val = val /\ b0.ap = [i \in Llaves |-> Apuns(0, 0, 0)]
  BY DEF Registro
<1>1. /\ nw \in Nat \ {0} /\ nw \notin R
      /\ Fichero(g, R2, T) /\ g.dsk[nw] = b0
      /\ \A p \in R : g.dsk[p] = f.dsk[p]
      /\ g.vpk = f.vpk
  BY NuevaFicha
<1> HIDE DEF r, b0, g, nw
<1>2. g.dsk[nw].val = val /\ \A i \in Llaves : g.dsk[nw].ap[i] = Apuns(0, 0, 0)
  BY <1>0, <1>1
<1>3. R2 \ {nw} = R /\ nw \in R2
  BY <1>1
<1>4. \A i \in Llaves : Nombra(T[i], R, i)
  BY DEF Fichero
<1>5. Escrita(g, R2, T, nw)
  BY <1>1, <1>2, <1>3, <1>4 DEF Escrita, Apunta, Reps
<1> HIDE DEF R2
<1>6. EnCurso(g, g, R2, T, T, nw, {})
  BY <1>1 DEF EnCurso
<1>7. L \in Nat
  BY HechasEs
<1> HIDE DEF L
<1> DEFINE Bueno(z, h) == h = [n \in 0..z |-> IF n = 0 THEN g ELSE Entra(h[n - 1], nw, Orden[n])]
           Hay == {z \in 0..L : \E h : Bueno(z, h)}
<1>8. L \in Hay
  <2>1. 0 \in Hay
    <3> DEFINE h == [j \in 0..0 |-> g]
    <3>1. Bueno(0, h)
      OBVIOUS
    <3> HIDE DEF h, Bueno
    <3> QED BY <3>1, <1>7
  <2>2. ASSUME NEW k \in 0..L-1, k \in Hay PROVE k + 1 \in Hay
    <3>0. k + 1 \in 0..L /\ k \in Nat
      BY <1>7
    <3>1. PICK S : Bueno(k, S)
      BY <2>2
    <3> DEFINE F(h, j) == Entra(h[j - 1], nw, Orden[j])
               nx == F(S, k + 1)
               Z == [j \in 0..k+1 |-> IF j = k + 1 THEN nx ELSE S[j]]
    <3>2. \A j \in 0..k : Z[j] = S[j]
      BY <3>0
    <3>3. Z[k + 1] = nx
      BY <3>0
    <3>4. \A j \in 0..k : S[j] = IF j = 0 THEN g ELSE F(S, j)
      BY <3>1
    <3>5. \A j \in 0..k+1 : Z[j] = IF j = 0 THEN g ELSE F(Z, j)
      <4> TAKE j \in 0..k+1
      <4>0. j - 1 \in 0..k => Z[j - 1] = S[j - 1]
        BY <3>2
      <4>f. j - 1 \in 0..k => F(Z, j) = F(S, j)
        <5> HIDE DEF Z
        <5> QED BY <4>0
      <4> HIDE DEF F, Z
      <4>1. CASE j = k + 1
        <5>1. j # 0 /\ j - 1 \in 0..k
          BY <4>1, <3>0
        <5> QED BY <4>1, <5>1, <3>3, <4>f
      <4>2. CASE j # k + 1
        <5>1. j \in 0..k /\ (j # 0 => j - 1 \in 0..k)
          BY <4>2, <3>0
        <5> QED BY <5>1, <3>2, <3>4, <4>f
      <4> QED BY <4>1, <4>2
    <3>6. Bueno(k + 1, Z)
      <4>1. DOMAIN Z = 0..k+1 /\ Z = [j \in 0..k+1 |-> Z[j]]
        OBVIOUS
      <4> HIDE DEF Z
      <4>2. Z = [j \in 0..k+1 |-> IF j = 0 THEN g ELSE F(Z, j)]
        <5> HIDE DEF F
        <5> QED BY <3>5, <4>1
      <4> QED BY <4>2
    <3> HIDE DEF Bueno, Z
    <3> QED BY <3>6, <3>0
  <2>3. L \in 0..L
    BY <1>7
  <2> HIDE DEF Hay
  <2>4. \A k \in 0..L : k \in Hay
    BY <2>1, <2>2, <1>7, Hasta
  <2> QED BY <2>3, <2>4
<1> DEFINE h == CHOOSE h : Bueno(L, h)
<1>9. Incluye(f, val) = h[L]
  BY DEF Incluye, r, b0, g, nw, L
<1>10. Bueno(L, h)
  <2>1. PICK S : Bueno(L, S)
    BY <1>8
  <2> HIDE DEF Bueno
  <2> QED BY <2>1
<1> HIDE DEF h, Hay
<1>11. h[0] = g /\ \A n \in 1..L : h[n] = Entra(h[n - 1], nw, Orden[n])
  <2>1. \A n \in 0..L : h[n] = IF n = 0 THEN g ELSE Entra(h[n - 1], nw, Orden[n])
    BY <1>10
  <2> HIDE DEF Bueno
  <2>2. 0 \in 0..L /\ \A n \in 1..L : n \in 0..L /\ n # 0
    BY <1>7
  <2> QED BY <2>1, <2>2
<1> HIDE DEF Bueno
<1> DEFINE Va == {n \in 0..L : \E U : EnCurso(g, h[n], R2, T, U, nw, Hechas(n))}
<1>12. \A n \in 0..L : n \in Va
  <2>1. 0 \in Va
    <3>1. Hechas(0) = {} /\ 0 \in 0..L
      BY <1>7, HechasEs
    <3>2. EnCurso(g, h[0], R2, T, T, nw, Hechas(0))
      BY <3>1, <1>6, <1>11
    <3> QED BY <3>1, <3>2
  <2>2. ASSUME NEW n \in 0..L-1, n \in Va PROVE n + 1 \in Va
    <3>1. n + 1 \in 0..L /\ n + 1 \in 1..L /\ (n + 1) - 1 = n
      BY <1>7
    <3>2. PICK U : EnCurso(g, h[n], R2, T, U, nw, Hechas(n))
      BY <2>2
    <3> DEFINE i == Orden[n + 1]
    <3>3. /\ i \in Llaves \ Hechas(n) /\ Hechas(n) \subseteq Llaves
          /\ Hechas(n + 1) = Hechas(n) \cup {i}
      BY HechasEs DEF L
    <3>4. h[n + 1] = Entra(h[n], nw, i)
      BY <1>11, <3>1
    <3> HIDE DEF i
    <3>5. \E V : EnCurso(g, Entra(h[n], nw, i), R2, T, V, nw, Hechas(n) \cup {i})
      BY <1>5, <3>2, <3>3, PasoEntra
    <3> QED BY <3>1, <3>3, <3>4, <3>5
  <2> HIDE DEF Va
  <2> QED BY <2>1, <2>2, <1>7, Hasta
<1>13. PICK U : EnCurso(g, h[L], R2, T, U, nw, Llaves)
  BY <1>7, <1>12, HechasEs DEF L
<1>14. Incluido(f, h[L], R, T, U, val, nw, g)
  BY <1>1, <1>2, <1>5, <1>13 DEF Incluido, R2
<1> QED BY <1>9, <1>14

-----------------------------------------------------------------------------
(* vdel *)

\* What a record's pointers for key i and its index have to be for it to leave.
ListaBaja(f, R, T, lug, i) ==
    /\ i \in Llaves /\ lug \in R /\ Apunta(f, R, i, lug)
    /\ f.dsk[lug].val[i] \in DOMAIN T[i].N

\* Its neighbours for key i are joined.
Soltado(f, g, R, lug, i) ==
    LET a == f.dsk[lug].ap[i].anter
        s == f.dsk[lug].ap[i].proxi
    IN  \A p \in R :
          /\ g.dsk[p].ap[i].anter = IF p = s THEN a ELSE f.dsk[p].ap[i].anter
          /\ g.dsk[p].ap[i].proxi = IF p = a THEN s ELSE f.dsk[p].ap[i].proxi
          /\ g.dsk[p].ap[i].cuant = f.dsk[p].ap[i].cuant

\* The index of key i then: it forgets the value, or names the next record.
Queda(f, N, lug, i) ==
    LET a == f.dsk[lug].ap[i].anter
        s == f.dsk[lug].ap[i].proxi
        key == f.dsk[lug].val[i]
    IN  IF i # Unica /\ a # 0 THEN N
        ELSE IF i # Unica /\ s # 0 THEN [N EXCEPT ![key] = s]
        ELSE SinUno(N, key)
SalidaDe(f, g, R, T, lug, i, I) ==
    /\ I.N = Queda(f, T[i].N, lug, i)
    /\ Fichero(g, R, Cambia(T, i, I)) /\ Cambiado(f, g, R, i) /\ Soltado(f, g, R, lug, i)
    /\ g.vpk = IF i = Unica /\ f.dsk[lug].ap[i].anter = 0 THEN f.dsk[lug].ap[i].proxi ELSE f.vpk

\* The neighbours of a record get each other's names.
LEMMA SoltadoEs ==
    ASSUME NEW f, NEW R, NEW T, Fichero(f, R, T), NEW i \in Llaves, NEW lug \in R, Apunta(f, R, i, lug)
    PROVE  LET a == f.dsk[lug].ap[i].anter
               s == f.dsk[lug].ap[i].proxi
               g == PonProxi(PonAnter(f, s, i, a), a, i, s)
           IN  /\ Fichero(g, R, T) /\ Cambiado(f, g, R, i) /\ Soltado(f, g, R, lug, i)
               /\ g.vpk = f.vpk /\ Quietos(f, g, T)
<1> DEFINE a == f.dsk[lug].ap[i].anter
           s == f.dsk[lug].ap[i].proxi
           f1 == PonAnter(f, s, i, a)
           g  == PonProxi(f1, a, i, s)
<1>1. a \in R \cup {0} /\ s \in R \cup {0} /\ a \in Nat /\ s \in Nat
  BY RegistrosEs DEF Apunta
<1> HIDE DEF a, s
<1>2. Apuntado(f, f1, R, T, s, i, Apuns(a, f.dsk[s].ap[i].proxi, f.dsk[s].ap[i].cuant))
  BY <1>1, PonEs
<1> HIDE DEF f1
<1>3. Fichero(f1, R, T)
  BY <1>2 DEF Apuntado
<1>4. Apuntado(f1, g, R, T, a, i, Apuns(f1.dsk[a].ap[i].anter, s, f1.dsk[a].ap[i].cuant))
  BY <1>1, <1>3, PonEs
<1> HIDE DEF g
<1>5. Quietos(f, g, T) /\ Cambiado(f, g, R, i) /\ g.vpk = f.vpk /\ Fichero(g, R, T)
  BY <1>2, <1>4 DEF Quietos, Cambiado, Apuntado
<1>6. ASSUME NEW p \in R
      PROVE  /\ g.dsk[p].ap[i].anter = IF p = s THEN a ELSE f.dsk[p].ap[i].anter
             /\ g.dsk[p].ap[i].proxi = IF p = a THEN s ELSE f.dsk[p].ap[i].proxi
             /\ g.dsk[p].ap[i].cuant = f.dsk[p].ap[i].cuant
  <2> DEFINE x0 == f.dsk[p].ap[i]
             x1 == f1.dsk[p].ap[i]
             x2 == g.dsk[p].ap[i]
  <2>1. x1 = IF p = s THEN Apuns(a, x0.proxi, x0.cuant) ELSE x0
    BY <1>2 DEF Apuntado
  <2>2. x2 = IF p = a THEN Apuns(x1.anter, s, x1.cuant) ELSE x1
    BY <1>4 DEF Apuntado
  <2> HIDE DEF x0, x1, x2
  <2>3. x1.anter = (IF p = s THEN a ELSE x0.anter) /\ x1.proxi = x0.proxi /\ x1.cuant = x0.cuant
    BY <2>1, ApunsEs
  <2>4. x2.anter = x1.anter /\ x2.proxi = (IF p = a THEN s ELSE x1.proxi) /\ x2.cuant = x1.cuant
    BY <2>2, ApunsEs
  <2> QED BY <2>3, <2>4 DEF x0, x2
<1>7. Soltado(f, g, R, lug, i)
  BY <1>6 DEF Soltado, a, s
<1> QED BY <1>5, <1>7 DEF f1, g, a, s

\* The same trees, one of them named again.
LEMMA MismaCambia ==
    ASSUME NEW f, NEW R, NEW T, Fichero(f, R, T), NEW i \in Llaves
    PROVE  Fichero(f, R, Cambia(T, i, T[i]))
<1> DEFINE T2 == Cambia(T, i, T[i])
<1>1. DOMAIN T2 = Llaves /\ \A j \in Llaves : T2[j] = T[j]
  BY DEF Cambia, Fichero
<1> HIDE DEF T2
<1>2. Usados(T2, R) = Usados(T, R)
  BY <1>1 DEF Usados
<1>3. Fichero(f, R, T2)
  BY <1>1, <1>2 DEF Fichero
<1> QED BY <1>3 DEF T2

\* A key that busca found leaves the tree.
LEMMA BajaFichero ==
    ASSUME NEW f, NEW R, NEW T, Fichero(f, R, T), NEW i \in Llaves, NEW key \in DOMAIN T[i].N,
           NEW b, Hallado(f, T[i], b, key), EsBusca(b)
    PROVE  LET g == BajaLlave(f, i, b)
           IN  /\ \E I : Fichero(g, R, Cambia(T, i, I)) /\ I.N = SinUno(T[i].N, key)
               /\ \A p \in R : g.dsk[p] = f.dsk[p]
               /\ g.vpk = f.vpk
<1> DEFINE g == BajaLlave(f, i, b)
           N2 == SinUno(T[i].N, key)
<1>1. Raiz(f, Usados(T, R), i, T[i]) /\ Llena(f.dsk, T[i]) /\ f.kpos \in [Llaves -> Nat]
  BY FicheroRaiz
<1>2. Nombra(T[i], R, i) /\ key \in Nat
  BY DEF Fichero, Arbol, Forma0
<1>3. \E I : Puesto(f, g, Usados(T, R), T[i], N2, i, I)
  BY <1>1, <1>2, BajaLlaveEs
<1> HIDE DEF g
<1>4. PICK I : Puesto(f, g, Usados(T, R), T[i], N2, i, I)
  BY <1>3
<1>5. I.N = N2
  BY <1>4 DEF Puesto
<1>6. Nombra(I, R, i)
  BY <1>2, <1>5 DEF Nombra, SinUno
<1>7. Cambio(f, g, R, T, N2, i, I)
  BY <1>4, <1>6 DEF Cambio
<1>8. Cambiada(f, g, R, T, N2, i, I)
  BY <1>7, CambiaArbol
<1> QED BY <1>8 DEF Cambiada, g

\* vdel takes the record out of the chain of a key, and the value out of the tree if no
\* other record has it.
LEMMA SaleEs ==
    ASSUME NEW f, NEW R, NEW T, Fichero(f, R, T), NEW lug, NEW i, ListaBaja(f, R, T, lug, i)
    PROVE  \E I : SalidaDe(f, Sale(f, lug, i), R, T, lug, i, I)
<1> DEFINE ap  == f.dsk[lug].ap[i]
           a   == ap.anter
           s   == ap.proxi
           key == f.dsk[lug].val[i]
           b   == Busca(f, i, key)
           g   == PonProxi(PonAnter(f, s, i, a), a, i, s)
           g0  == IF a = 0 THEN [g EXCEPT !.vpk = s] ELSE g
           k   == Sale(f, lug, i)
           N   == T[i].N
<1>1. /\ i \in Llaves /\ lug \in R /\ Apunta(f, R, i, lug) /\ key \in DOMAIN N
  BY DEF ListaBaja
<1>2. key \in Nat /\ a \in R \cup {0} /\ s \in R \cup {0} /\ 0 \notin R
  BY <1>1, ValorEs, RegistrosEs DEF Apunta
<1>3. Hallado(f, T[i], b, key)
  <2> HIDE DEF key
  <2> QED BY <1>1, <1>2, HalladoEs
<1>4. EsBusca(b)
  BY BuscaForma
<1>5. /\ Fichero(g, R, T) /\ Cambiado(f, g, R, i) /\ Soltado(f, g, R, lug, i)
      /\ g.vpk = f.vpk /\ Quietos(f, g, T)
  BY <1>1, SoltadoEs
<1>6. k = IF i = Unica THEN BajaLlave(g0, i, b)
          ELSE IF a # 0 THEN g ELSE IF s # 0 THEN Renombra(g, b, s) ELSE BajaLlave(g, i, b)
  BY DEF Sale
<1> HIDE DEF g, k, b
<1>7. Hallado(g, T[i], b, key)
  BY <1>1, <1>3, <1>5, OtroHallado DEF Quietos
<1> HIDE DEF a, s, key, N
<1> DEFINE Vale(e, I) == /\ Fichero(e, R, Cambia(T, i, I)) /\ \A p \in R : e.dsk[p] = g.dsk[p]
                         /\ I.N = Queda(f, T[i].N, lug, i) /\ e = k
                         /\ e.vpk = IF i = Unica /\ a = 0 THEN s ELSE f.vpk
<1>8. ASSUME NEW e, NEW I, Vale(e, I)
      PROVE  \E J : SalidaDe(f, k, R, T, lug, i, J)
  <2>1. Cambiado(f, e, R, i)
    BY <1>5, <1>8 DEF Cambiado
  <2>2. Soltado(f, e, R, lug, i)
    BY <1>5, <1>8 DEF Soltado
  <2>3. SalidaDe(f, e, R, T, lug, i, I)
    BY <1>8, <2>1, <2>2 DEF SalidaDe, a, s
  <2> QED BY <1>8, <2>3
<1>9. CASE i = Unica
  <2>1. Fichero(g0, R, T) /\ g0.dsk = g.dsk /\ g0.vpk = IF a = 0 THEN s ELSE f.vpk
    <3> DEFINE g1 == [g EXCEPT !.vpk = s]
    <3>1. Fichero(g1, R, T) /\ g1.dsk = g.dsk /\ g1.vpk = s
      BY <1>5, OtroVpk
    <3> HIDE DEF g1
    <3>2. g0 = IF a = 0 THEN g1 ELSE g
      BY DEF g1
    <3> HIDE DEF g0
    <3> QED BY <1>5, <3>1, <3>2
  <2> HIDE DEF g0
  <2>2. Hallado(g0, T[i], b, key)
    BY <1>7, <2>1, OtroHallado
  <2> DEFINE e == BajaLlave(g0, i, b)
  <2>3. /\ \E I : Fichero(e, R, Cambia(T, i, I)) /\ I.N = SinUno(T[i].N, key)
        /\ \A p \in R : e.dsk[p] = g0.dsk[p]
        /\ e.vpk = g0.vpk
    BY <1>1, <1>4, <2>1, <2>2, BajaFichero DEF N
  <2>4. e = k
    BY <1>6, <1>9
  <2> HIDE DEF e
  <2>5. PICK I : Fichero(e, R, Cambia(T, i, I)) /\ I.N = SinUno(T[i].N, key)
    BY <2>3
  <2>6. I.N = Queda(f, T[i].N, lug, i)
    BY <1>9, <2>5 DEF Queda, key
  <2>7. Vale(e, I)
    BY <1>9, <2>1, <2>3, <2>4, <2>5, <2>6
  <2> HIDE DEF Vale
  <2> QED BY <1>8, <2>7 DEF k
<1>10. CASE i # Unica /\ a # 0
  <2>1. k = g
    BY <1>6, <1>10
  <2>2. T[i].N = Queda(f, T[i].N, lug, i)
    BY <1>10 DEF Queda, a
  <2>3. Fichero(g, R, Cambia(T, i, T[i]))
    BY <1>1, <1>5, MismaCambia
  <2>4. Vale(g, T[i])
    BY <1>5, <1>10, <2>1, <2>2, <2>3
  <2> HIDE DEF Vale
  <2> QED BY <1>8, <2>4 DEF k
<1>11. CASE i # Unica /\ a = 0 /\ s # 0
  <2> DEFINE e == Renombra(g, b, s)
             I == Rotulado(T[i], key, s)
  <2>1. k = e
    BY <1>6, <1>11
  <2>2. s \in R /\ key \in DOMAIN T[i].N
    BY <1>1, <1>2, <1>11 DEF N
  <2>3. I.N = Queda(f, T[i].N, lug, i)
    <3>1. I.N = [T[i].N EXCEPT ![key] = s]
      BY DEF Rotulado
    <3> HIDE DEF I
    <3> QED BY <3>1, <1>11 DEF Queda, a, s, key
  <2>4. /\ b.rec = T[i].N[key]
        /\ Fichero(e, R, Cambia(T, i, I))
        /\ \A p \in R : e.dsk[p] = g.dsk[p]
        /\ e.vpk = g.vpk /\ I.N = [T[i].N EXCEPT ![key] = s]
    BY <1>1, <1>5, <1>7, <2>2, RenombraFichero
  <2> HIDE DEF e, I
  <2>5. Vale(e, I)
    BY <1>5, <1>11, <2>1, <2>3, <2>4
  <2> HIDE DEF Vale
  <2> QED BY <1>8, <2>5 DEF k
<1>12. CASE i # Unica /\ a = 0 /\ s = 0
  <2> DEFINE e == BajaLlave(g, i, b)
  <2>1. k = e
    BY <1>6, <1>12
  <2>3. /\ \E I : Fichero(e, R, Cambia(T, i, I)) /\ I.N = SinUno(T[i].N, key)
        /\ \A p \in R : e.dsk[p] = g.dsk[p]
        /\ e.vpk = g.vpk
    BY <1>1, <1>4, <1>5, <1>7, BajaFichero DEF N
  <2> HIDE DEF e
  <2>5. PICK I : Fichero(e, R, Cambia(T, i, I)) /\ I.N = SinUno(T[i].N, key)
    BY <2>3
  <2>6. I.N = Queda(f, T[i].N, lug, i)
    BY <1>12, <2>5 DEF Queda, key, a, s
  <2>7. Vale(e, I)
    BY <1>5, <1>12, <2>1, <2>3, <2>5, <2>6
  <2> HIDE DEF Vale
  <2> QED BY <1>8, <2>7 DEF k
<1> QED BY <1>9, <1>10, <1>11, <1>12 DEF k

\* The keys of P have been left by the record lug, in file h with trees U.
BajaEnCurso(f, h, R, T, U, lug, P) ==
    /\ Fichero(h, R, U)
    /\ \A p \in R : h.dsk[p].val = f.dsk[p].val
    /\ \A i \in P : U[i].N = Queda(f, T[i].N, lug, i) /\ Soltado(f, h, R, lug, i)
    /\ \A i \in Llaves \ P : /\ U[i] = T[i]
                             /\ \A p \in R : h.dsk[p].ap[i] = f.dsk[p].ap[i]
    /\ h.vpk = IF Unica \in P /\ f.dsk[lug].ap[Unica].anter = 0
               THEN f.dsk[lug].ap[Unica].proxi ELSE f.vpk

\* It leaves one more.
LEMMA PasoSale ==
    ASSUME NEW f, NEW h, NEW R, NEW T, NEW U, NEW lug, NEW P, NEW i \in Llaves \ P,
           P \subseteq Llaves, ListaBaja(f, R, T, lug, i), BajaEnCurso(f, h, R, T, U, lug, P)
    PROVE  \E V : BajaEnCurso(f, Sale(h, lug, i), R, T, V, lug, P \cup {i})
<1> DEFINE k == Sale(h, lug, i)
<1>1. /\ Fichero(h, R, U) /\ U[i] = T[i] /\ \A p \in R : h.dsk[p].val = f.dsk[p].val
      /\ \A p \in R : h.dsk[p].ap[i] = f.dsk[p].ap[i]
  BY DEF BajaEnCurso
<1>2. lug \in R
  BY DEF ListaBaja
<1>3. ListaBaja(h, R, U, lug, i)
  BY <1>1, <1>2 DEF ListaBaja, Apunta
<1>4. PICK I : SalidaDe(h, k, R, U, lug, i, I)
  BY <1>1, <1>3, SaleEs
<1> HIDE DEF k
<1>5. /\ I.N = Queda(h, U[i].N, lug, i) /\ Fichero(k, R, Cambia(U, i, I)) /\ Cambiado(h, k, R, i)
      /\ Soltado(h, k, R, lug, i)
      /\ k.vpk = IF i = Unica /\ h.dsk[lug].ap[i].anter = 0 THEN h.dsk[lug].ap[i].proxi ELSE h.vpk
  BY <1>4 DEF SalidaDe
<1>6. I.N = Queda(f, T[i].N, lug, i)
  BY <1>1, <1>2, <1>5 DEF Queda
<1>7. Soltado(f, k, R, lug, i)
  BY <1>1, <1>2, <1>5 DEF Soltado
<1> DEFINE V == Cambia(U, i, I)
<1>8. V[i] = I /\ \A j \in Llaves \ {i} : V[j] = U[j]
  BY <1>1 DEF Cambia, Fichero
<1>9. Fichero(k, R, V)
  BY <1>5
<1> HIDE DEF V
<1>10. \A p \in R : k.dsk[p].val = f.dsk[p].val
  BY <1>1, <1>5 DEF Cambiado
<1>11. ASSUME NEW j \in P \cup {i}
       PROVE  V[j].N = Queda(f, T[j].N, lug, j) /\ Soltado(f, k, R, lug, j)
  <2>1. CASE j = i
    BY <1>6, <1>7, <1>8, <2>1
  <2>2. CASE j # i
    <3>1. /\ j \in Llaves \ {i} /\ U[j].N = Queda(f, T[j].N, lug, j) /\ Soltado(f, h, R, lug, j)
      BY <2>2 DEF BajaEnCurso
    <3>2. \A p \in R : k.dsk[p].ap[j] = h.dsk[p].ap[j]
      BY <1>5, <3>1 DEF Cambiado
    <3>3. Soltado(f, k, R, lug, j)
      BY <3>1, <3>2 DEF Soltado
    <3> QED BY <1>8, <3>1, <3>3
  <2> QED BY <2>1, <2>2
<1>12. ASSUME NEW j \in Llaves \ (P \cup {i})
       PROVE  V[j] = T[j] /\ \A p \in R : k.dsk[p].ap[j] = f.dsk[p].ap[j]
  BY <1>5, <1>8 DEF BajaEnCurso, Cambiado
<1>13. k.vpk = IF Unica \in P \cup {i} /\ f.dsk[lug].ap[Unica].anter = 0
               THEN f.dsk[lug].ap[Unica].proxi ELSE f.vpk
  BY <1>1, <1>2, <1>5 DEF BajaEnCurso
<1>14. BajaEnCurso(f, k, R, T, V, lug, P \cup {i})
  BY <1>9, <1>10, <1>11, <1>12, <1>13 DEF BajaEnCurso
<1> QED BY <1>14 DEF k

\* The index of each key without the record names others.
SinRastro(f, R, T, lug) ==
    \A i \in Llaves : /\ ListaBaja(f, R, T, lug, i)
                      /\ \A k \in DOMAIN Queda(f, T[i].N, lug, i) :
                           Queda(f, T[i].N, lug, i)[k] # lug

\* What the file is once vdel has taken the record lug out: h has all but the block freed.
Borrado(f, k, R, T, U, lug, h) ==
    /\ BajaEnCurso(f, h, R, T, U, lug, Llaves)
    /\ Fichero(k, R \ {lug}, U) /\ k.vpk = h.vpk
    /\ \A p \in R \ {lug} : k.dsk[p] = h.dsk[p]

\* vdel leaves the keys, one by one, and frees the block.
LEMMA BorraEs ==
    ASSUME NEW f, NEW R, NEW T, Fichero(f, R, T), NEW lug \in R, SinRastro(f, R, T, lug)
    PROVE  \E U, h : Borrado(f, Borra(f, lug), R, T, U, lug, h)
<1> DEFINE L == Len(Orden)
<1>6. BajaEnCurso(f, f, R, T, T, lug, {})
  BY DEF BajaEnCurso
<1>7. L \in Nat
  BY HechasEs
<1> HIDE DEF L
<1> DEFINE Bueno(z, h) == h = [n \in 0..z |-> IF n = 0 THEN f ELSE Sale(h[n - 1], lug, Orden[n])]
           Hay == {z \in 0..L : \E h : Bueno(z, h)}
<1>8. L \in Hay
  <2>1. 0 \in Hay
    <3> DEFINE h == [j \in 0..0 |-> f]
    <3>1. Bueno(0, h)
      OBVIOUS
    <3> HIDE DEF h, Bueno
    <3> QED BY <3>1, <1>7
  <2>2. ASSUME NEW k \in 0..L-1, k \in Hay PROVE k + 1 \in Hay
    <3>0. k + 1 \in 0..L /\ k \in Nat
      BY <1>7
    <3>1. PICK S : Bueno(k, S)
      BY <2>2
    <3> DEFINE F(h, j) == Sale(h[j - 1], lug, Orden[j])
               nx == F(S, k + 1)
               Z == [j \in 0..k+1 |-> IF j = k + 1 THEN nx ELSE S[j]]
    <3>2. \A j \in 0..k : Z[j] = S[j]
      BY <3>0
    <3>3. Z[k + 1] = nx
      BY <3>0
    <3>4. \A j \in 0..k : S[j] = IF j = 0 THEN f ELSE F(S, j)
      BY <3>1
    <3>5. \A j \in 0..k+1 : Z[j] = IF j = 0 THEN f ELSE F(Z, j)
      <4> TAKE j \in 0..k+1
      <4>0. j - 1 \in 0..k => Z[j - 1] = S[j - 1]
        BY <3>2
      <4>f. j - 1 \in 0..k => F(Z, j) = F(S, j)
        <5> HIDE DEF Z
        <5> QED BY <4>0
      <4> HIDE DEF F, Z
      <4>1. CASE j = k + 1
        <5>1. j # 0 /\ j - 1 \in 0..k
          BY <4>1, <3>0
        <5> QED BY <4>1, <5>1, <3>3, <4>f
      <4>2. CASE j # k + 1
        <5>1. j \in 0..k /\ (j # 0 => j - 1 \in 0..k)
          BY <4>2, <3>0
        <5> QED BY <5>1, <3>2, <3>4, <4>f
      <4> QED BY <4>1, <4>2
    <3>6. Bueno(k + 1, Z)
      <4>1. DOMAIN Z = 0..k+1 /\ Z = [j \in 0..k+1 |-> Z[j]]
        OBVIOUS
      <4> HIDE DEF Z
      <4>2. Z = [j \in 0..k+1 |-> IF j = 0 THEN f ELSE F(Z, j)]
        <5> HIDE DEF F
        <5> QED BY <3>5, <4>1
      <4> QED BY <4>2
    <3> HIDE DEF Bueno, Z
    <3> QED BY <3>6, <3>0
  <2>3. L \in 0..L
    BY <1>7
  <2> HIDE DEF Hay
  <2>4. \A k \in 0..L : k \in Hay
    BY <2>1, <2>2, <1>7, Hasta
  <2> QED BY <2>3, <2>4
<1> DEFINE h == CHOOSE h : Bueno(L, h)
<1>9. Borra(f, lug) = Libera(h[L], TamR, lug)
  BY DEF Borra, L
<1>10. Bueno(L, h)
  <2>1. PICK S : Bueno(L, S)
    BY <1>8
  <2> HIDE DEF Bueno
  <2> QED BY <2>1
<1> HIDE DEF h, Hay
<1>11. h[0] = f /\ \A n \in 1..L : h[n] = Sale(h[n - 1], lug, Orden[n])
  <2>1. \A n \in 0..L : h[n] = IF n = 0 THEN f ELSE Sale(h[n - 1], lug, Orden[n])
    BY <1>10
  <2> HIDE DEF Bueno
  <2>2. 0 \in 0..L /\ \A n \in 1..L : n \in 0..L /\ n # 0
    BY <1>7
  <2> QED BY <2>1, <2>2
<1> HIDE DEF Bueno
<1> DEFINE Va == {n \in 0..L : \E U : BajaEnCurso(f, h[n], R, T, U, lug, Hechas(n))}
<1>12. \A n \in 0..L : n \in Va
  <2>1. 0 \in Va
    <3>1. Hechas(0) = {} /\ 0 \in 0..L
      BY <1>7, HechasEs
    <3>2. BajaEnCurso(f, h[0], R, T, T, lug, Hechas(0))
      BY <3>1, <1>6, <1>11
    <3> QED BY <3>1, <3>2
  <2>2. ASSUME NEW n \in 0..L-1, n \in Va PROVE n + 1 \in Va
    <3>1. n + 1 \in 0..L /\ n + 1 \in 1..L /\ (n + 1) - 1 = n
      BY <1>7
    <3>2. PICK U : BajaEnCurso(f, h[n], R, T, U, lug, Hechas(n))
      BY <2>2
    <3> DEFINE i == Orden[n + 1]
    <3>3. /\ i \in Llaves \ Hechas(n) /\ Hechas(n) \subseteq Llaves
          /\ Hechas(n + 1) = Hechas(n) \cup {i}
      BY HechasEs DEF L
    <3>4. h[n + 1] = Sale(h[n], lug, i)
      BY <1>11, <3>1
    <3> HIDE DEF i
    <3>5. ListaBaja(f, R, T, lug, i)
      BY <3>3 DEF SinRastro
    <3>6. \E V : BajaEnCurso(f, Sale(h[n], lug, i), R, T, V, lug, Hechas(n) \cup {i})
      BY <3>2, <3>3, <3>5, PasoSale
    <3> QED BY <3>1, <3>3, <3>4, <3>6
  <2> HIDE DEF Va
  <2> QED BY <2>1, <2>2, <1>7, Hasta
<1>13. PICK U : BajaEnCurso(f, h[L], R, T, U, lug, Llaves)
  BY <1>7, <1>12, HechasEs DEF L
<1> DEFINE e == h[L]
<1>14. BajaEnCurso(f, e, R, T, U, lug, Llaves) /\ Borra(f, lug) = Libera(e, TamR, lug)
  BY <1>9, <1>13
<1> HIDE DEF e
<1>15. Fichero(e, R, U)
  BY <1>14 DEF BajaEnCurso
<1>16. ASSUME NEW i \in Llaves PROVE Nombra(U[i], R \ {lug}, i)
  <2>1. Nombra(U[i], R, i)
    BY <1>15 DEF Fichero
  <2>2. \A k \in DOMAIN U[i].N : U[i].N[k] # lug
    BY <1>14 DEF BajaEnCurso, SinRastro
  <2> QED BY <2>1, <2>2 DEF Nombra
<1>17. LET k == Libera(e, TamR, lug)
       IN  /\ Fichero(k, R \ {lug}, U)
           /\ \A q \in R \ {lug} : k.dsk[q] = e.dsk[q]
           /\ k.vpk = e.vpk
  BY <1>15, <1>16, SueltaFicha
<1>18. Borrado(f, Borra(f, lug), R, T, U, lug, e)
  BY <1>14, <1>17 DEF Borrado
<1> QED BY <1>18

-----------------------------------------------------------------------------
(* The levels of a tree *)

\* The levels below cluster x of a tree: the heights and the bounds of what is in each,
\* and for the root all clusters are.
EsNiveles(G, x, N) ==
    /\ DOMAIN N = 0..G.h[x]
    /\ \A n \in 0..G.h[x] : \A q \in N[n] :
          /\ q \in G.C /\ G.h[q] = G.h[x] - n
          /\ \A k \in Nat : Dentro(G, q, k) => Dentro(G, x, k)
    /\ x = G.r => \A n \in 0..G.h[x] : \A q \in G.C : G.h[q] = G.h[x] - n => q \in N[n]

\* The children of a cluster are one level down and between its bounds.
LEMMA HijosEs ==
    ASSUME NEW D, NEW G, Arbol(D, G), NEW q \in G.C
    PROVE  /\ G.h[q] = 0 => Hijos(D[q]) = {}
           /\ \A x \in Hijos(D[q]) : /\ x \in G.C \ {G.r} /\ G.h[x] = G.h[q] - 1 /\ G.P[x] = q
                                     /\ \A k \in Nat : Dentro(G, x, k) => Dentro(G, q, k)
<1> DEFINE c == D[q]
           l == Len(c.ll)
<1>1. Sabido(G, c, l, q)
  BY DeNodo
<1>2. Hijos(c) = {Hijo(c, n) : n \in 0..l} \ {0}
  BY DEF Hijos
<1> HIDE DEF c, l
<1>3. G.h[q] = 0 => Hijos(c) = {}
  BY <1>1, <1>2 DEF Sabido
<1>4. ASSUME NEW x \in Hijos(c)
      PROVE  /\ x \in G.C \ {G.r} /\ G.h[x] = G.h[q] - 1 /\ G.P[x] = q
             /\ \A k \in Nat : Dentro(G, x, k) => Dentro(G, q, k)
  <2>1. PICK n \in 0..l : x = Hijo(c, n)
    BY <1>2
  <2>2. G.h[q] # 0
    BY <1>3
  <2>3. Cotas(G, c, q, n) /\ Hijo(c, n) # G.r
    BY <1>1, <2>2 DEF Sabido
  <2>4. x \in G.C \ {G.r} /\ G.h[x] = G.h[q] - 1 /\ G.P[x] = q
    BY <2>1, <2>3 DEF Cotas
  <2>5. \A k \in Nat : Dentro(G, x, k) => Dentro(G, q, k)
    BY <2>4, Padre
  <2> QED BY <2>4, <2>5
<1> QED BY <1>3, <1>4 DEF c

\* Niveles finds them.
LEMMA NivelesEs ==
    ASSUME NEW f, NEW X, NEW G, Disco(f, X), Arbol(f.dsk, G), G.C \subseteq X, NEW x \in G.C
    PROVE  EsNiveles(G, x, Niveles(f, x))
<1> DEFINE ls == Descenso(f, x)
           H == G.h[x]
           Nv(S) == UNION {Hijos(f.dsk[q]) : q \in S}
<1>1. Rama(f.dsk, G, x, ls)
  BY DescensoEs
<1>2. H \in Nat /\ \A q \in G.C : G.h[q] \in Nat /\ q # 0
  BY DEF Arbol, Forma0
<1>3. Len(ls) - 1 = H
  <2> DEFINE l == Len(ls)
             z == ls[l]
  <2>1. l \in Nat \ {0} /\ G.h[z] = H - l + 1 /\ G.h[z] = 0
    BY <1>1 DEF Rama
  <2> HIDE DEF z, ls
  <2>2. l - 1 = H
    <3> HIDE DEF l, H
    <3> QED BY <2>1, <1>2
  <2> QED BY <2>2
<1> DEFINE N == Niveles(f, x)
           M == CHOOSE S : S = [n \in 0..H |-> IF n = 0 THEN {x} ELSE Nv(S[n - 1])]
<1>4. N = M
  BY <1>3 DEF Niveles
<1> HIDE DEF N, ls, H, Nv
<1> DEFINE Bueno(m, S) == S = [n \in 0..m |-> IF n = 0 THEN {x} ELSE Nv(S[n - 1])]
           Hay == {m \in 0..H : \E S : Bueno(m, S)}
<1>5. H \in Hay
  <2>1. 0 \in Hay
    <3> DEFINE S == [n \in 0..0 |-> {x}]
    <3>1. Bueno(0, S)
      OBVIOUS
    <3> HIDE DEF S, Bueno
    <3> QED BY <3>1, <1>2
  <2>2. ASSUME NEW k \in 0..H-1, k \in Hay PROVE k + 1 \in Hay
    <3>0. k + 1 \in 0..H /\ k \in Nat
      BY <1>2
    <3>1. PICK S : Bueno(k, S)
      BY <2>2
    <3> DEFINE nx == Nv(S[k])
               Z == [n \in 0..k+1 |-> IF n = k + 1 THEN nx ELSE S[n]]
    <3>2. \A n \in 0..k : Z[n] = S[n]
      BY <3>0
    <3>3. Z[k + 1] = nx
      BY <3>0
    <3>4. \A n \in 0..k : S[n] = IF n = 0 THEN {x} ELSE Nv(S[n - 1])
      BY <3>1
    <3> HIDE DEF nx
    <3>5. \A n \in 0..k+1 : Z[n] = IF n = 0 THEN {x} ELSE Nv(Z[n - 1])
      <4> HIDE DEF Z
      <4> TAKE n \in 0..k+1
      <4>1. CASE n = k + 1
        <5>1. n # 0 /\ n - 1 = k /\ k \in 0..k
          BY <4>1, <3>0
        <5> QED BY <4>1, <5>1, <3>2, <3>3 DEF nx
      <4>2. CASE n # k + 1
        <5>1. n \in 0..k /\ (n # 0 => n - 1 \in 0..k)
          BY <4>2, <3>0
        <5> QED BY <5>1, <3>2, <3>4
      <4> QED BY <4>1, <4>2
    <3>6. Bueno(k + 1, Z)
      <4>1. DOMAIN Z = 0..k+1 /\ Z = [n \in 0..k+1 |-> Z[n]]
        OBVIOUS
      <4> HIDE DEF Z
      <4> QED BY <3>5, <4>1
    <3> HIDE DEF Bueno, Z
    <3> QED BY <3>6, <3>0
  <2>3. H \in 0..H
    BY <1>2
  <2> HIDE DEF Hay
  <2>4. \A k \in 0..H : k \in Hay
    BY <2>1, <2>2, <1>2, Hasta
  <2> QED BY <2>3, <2>4
<1>6. Bueno(H, M)
  <2>1. PICK S : Bueno(H, S)
    BY <1>5
  <2> QED BY <2>1
<1> HIDE DEF M, Hay
<1>7. DOMAIN N = 0..H /\ N[0] = {x} /\ \A n \in 0..H-1 : N[n + 1] = Nv(N[n])
  <2>1. \A n \in 0..H : M[n] = IF n = 0 THEN {x} ELSE Nv(M[n - 1])
    BY <1>6
  <2>2. \A n \in 0..H-1 : n + 1 \in 0..H /\ n + 1 # 0 /\ (n + 1) - 1 = n
    BY <1>2
  <2>3. DOMAIN M = 0..H
    BY <1>6
  <2> HIDE DEF Bueno
  <2> QED BY <1>2, <1>4, <2>1, <2>2, <2>3
<1> HIDE DEF Bueno
<1> DEFINE Den(q, y) == \A k \in Nat : Dentro(G, q, k) => Dentro(G, y, k)
<1>8. \A q \in G.C : \A y \in Hijos(f.dsk[q]) : /\ y \in G.C /\ G.h[y] = G.h[q] - 1 /\ Den(y, q)
  BY HijosEs
<1>9. \A q, y : q \in G.C /\ Den(q, x) /\ Den(y, q) => Den(y, x)
  OBVIOUS
<1>10. Den(x, x)
  OBVIOUS
<1> HIDE DEF Den
<1> DEFINE Va == {n \in 0..H : \A q \in N[n] : q \in G.C /\ G.h[q] = H - n /\ Den(q, x)}
<1>11. \A n \in 0..H : n \in Va
  <2>1. 0 \in Va
    BY <1>2, <1>7, <1>10 DEF H
  <2>2. ASSUME NEW n \in 0..H-1, n \in Va PROVE n + 1 \in Va
    <3>1. n + 1 \in 0..H
      BY <1>2
    <3>2. ASSUME NEW y \in N[n + 1] PROVE y \in G.C /\ G.h[y] = H - (n + 1) /\ Den(y, x)
      <4>1. PICK q \in N[n] : y \in Hijos(f.dsk[q])
        BY <1>7 DEF Nv
      <4>2. q \in G.C /\ G.h[q] = H - n /\ Den(q, x)
        BY <2>2
      <4> QED BY <1>2, <1>8, <1>9, <4>1, <4>2
    <3> QED BY <3>1, <3>2
  <2> HIDE DEF Va
  <2> QED BY <2>1, <2>2, <1>2, Hasta
<1>12. ASSUME x = G.r
       PROVE  \A n \in 0..H : \A q \in G.C : G.h[q] = H - n => q \in N[n]
  <2>0. \A q \in G.C \ {x} : G.h[q] < H
    BY <1>12 DEF Arbol, Forma0, H
  <2> DEFINE Vb == {n \in 0..H : \A q \in G.C : G.h[q] = H - n => q \in N[n]}
  <2>1. 0 \in Vb
    BY <1>2, <1>7, <2>0
  <2>2. ASSUME NEW n \in 0..H-1, n \in Vb PROVE n + 1 \in Vb
    <3>1. n + 1 \in 0..H
      BY <1>2
    <3>2. ASSUME NEW q \in G.C, G.h[q] = H - (n + 1) PROVE q \in N[n + 1]
      <4>1. q # x
        BY <1>2, <3>2 DEF H
      <4> DEFINE z == G.P[q]
      <4>2. /\ z \in G.C /\ G.h[z] = G.h[q] + 1
            /\ \E m \in 0..Len(f.dsk[z].ll) : Hijo(f.dsk[z], m) = q
        BY <1>12, <4>1, Padre
      <4> HIDE DEF z
      <4>3. q \in Hijos(f.dsk[z])
        BY <1>2, <4>2 DEF Hijos
      <4>4. G.h[z] = H - n
        BY <1>2, <3>2, <4>2
      <4>5. z \in N[n]
        BY <2>2, <4>2, <4>4
      <4> QED BY <1>7, <4>3, <4>5 DEF Nv
    <3> QED BY <3>1, <3>2
  <2>3. \A n \in 0..H : n \in Vb
    <3> HIDE DEF Vb
    <3> QED BY <2>1, <2>2, <1>2, Hasta
  <2> QED BY <2>3
<1>13. \A n \in 0..H : \A q \in N[n] : q \in G.C /\ G.h[q] = H - n /\ Den(q, x)
  BY <1>11
<1> QED BY <1>7, <1>12, <1>13 DEF EsNiveles, N, H, Den

\* Below a cluster there are clusters of its tree, between its bounds.
LEMMA BajoEs ==
    ASSUME NEW f, NEW X, NEW G, Disco(f, X), Arbol(f.dsk, G), G.C \subseteq X, NEW x \in G.C
    PROVE  /\ \A q \in Bajo(f, x) : /\ q \in G.C
                                    /\ \A k \in Nat : Dentro(G, q, k) => Dentro(G, x, k)
           /\ x = G.r => Bajo(f, x) = G.C
<1> DEFINE N == Niveles(f, x)
<1>1. EsNiveles(G, x, N)
  BY NivelesEs
<1>2. Bajo(f, x) = UNION {N[n] : n \in DOMAIN N}
  BY DEF Bajo
<1> HIDE DEF N
<1>3. \A q \in Bajo(f, x) : /\ q \in G.C
                            /\ \A k \in Nat : Dentro(G, q, k) => Dentro(G, x, k)
  BY <1>1, <1>2 DEF EsNiveles
<1>4. ASSUME x = G.r, NEW q \in G.C PROVE q \in Bajo(f, x)
  <2>0. G.h \in [G.C -> Nat] /\ \A y \in G.C \ {G.r} : G.h[y] < G.h[G.r]
    BY DEF Arbol, Forma0
  <2>1. G.h[q] \in Nat /\ G.h[x] \in Nat /\ G.h[q] <= G.h[x]
    BY <1>4, <2>0
  <2> DEFINE n == G.h[x] - G.h[q]
  <2>2. n \in 0..G.h[x] /\ G.h[q] = G.h[x] - n
    BY <2>1
  <2> HIDE DEF n
  <2>3. q \in N[n] /\ n \in DOMAIN N
    BY <1>1, <1>4, <2>2 DEF EsNiveles
  <2> QED BY <1>2, <2>3
<1> QED BY <1>3, <1>4

\* The clusters of a key are those of its tree.
LEMMA ClustersEs ==
    ASSUME NEW f, NEW R, NEW T, Fichero(f, R, T), NEW i \in Llaves
    PROVE  Clusters(f, i) = T[i].C
<1> DEFINE G == T[i]
           X == Usados(T, R)
<1>0. Raiz(f, X, i, G)
  BY FicheroRaiz
<1> HIDE DEF G, X
<1>1. Disco(f, X) /\ Arbol(f.dsk, G) /\ G.C \subseteq X /\ G.r = f.kpos[i] /\ G.r \in G.C
  BY <1>0 DEF Raiz, Arbol, Forma0
<1>2. Bajo(f, G.r) = G.C
  BY <1>1, BajoEs
<1> QED BY <1>1, <1>2 DEF Clusters, G

\* And its slots have the keys of the tree, each with its record.
LEMMA RanurasEs ==
    ASSUME NEW f, NEW R, NEW T, Fichero(f, R, T), NEW i \in Llaves
    PROVE  /\ \A s \in Ranuras(f, i) : /\ s.k \in Nat /\ s.k \in DOMAIN T[i].N
                                       /\ s.nm = T[i].N[s.k]
           /\ \A k \in DOMAIN T[i].N : \E s \in Ranuras(f, i) : s.k = k
<1> DEFINE G == T[i]
<1>1. Arbol(f.dsk, G)
  BY DEF Fichero
<1>2. Ranuras(f, i) = UNION {ToSet(f.dsk[q].ll) : q \in G.C}
  BY ClustersEs DEF Ranuras
<1> HIDE DEF G
<1>3. ASSUME NEW s \in Ranuras(f, i)
      PROVE  s.k \in Nat /\ s.k \in DOMAIN G.N /\ s.nm = G.N[s.k]
  <2>1. PICK q \in G.C : s \in ToSet(f.dsk[q].ll)
    BY <1>2
  <2> DEFINE l == Len(f.dsk[q].ll)
  <2>2. Sabido(G, f.dsk[q], l, q)
    BY <1>1, DeNodo
  <2>3. DOMAIN f.dsk[q].ll = 1..l
    BY <2>2, LenProperties DEF Sabido
  <2> HIDE DEF l
  <2>4. PICK n \in 1..l : s = f.dsk[q].ll[n]
    BY <2>1, <2>3 DEF ToSet
  <2> QED BY <2>2, <2>4 DEF Sabido
<1>4. ASSUME NEW k \in DOMAIN G.N PROVE \E s \in Ranuras(f, i) : s.k = k
  <2> DEFINE q == G.W[k]
             l == Len(f.dsk[q].ll)
  <2>1. q \in G.C
    BY <1>1 DEF Arbol, Forma0
  <2>2. \E n \in 1..l : f.dsk[q].ll[n].k = k
    BY <1>1 DEF Arbol
  <2> HIDE DEF q
  <2>3. DOMAIN f.dsk[q].ll = 1..l
    BY <1>1, <2>1, DeNodo, LenProperties DEF Sabido
  <2> HIDE DEF l
  <2>4. PICK n \in 1..l : f.dsk[q].ll[n].k = k
    BY <2>2
  <2>5. f.dsk[q].ll[n] \in ToSet(f.dsk[q].ll)
    BY <2>3 DEF ToSet
  <2> QED BY <1>2, <2>1, <2>4, <2>5
<1> QED BY <1>3, <1>4 DEF G

\* The index that the trees make.
LEMMA IndiceEs ==
    ASSUME NEW f, NEW R, NEW T, Fichero(f, R, T), NEW i \in Llaves, NEW dom
    PROVE  Indice(f, i, dom) = [k \in dom |-> TopeDe(T[i].N, k)]
<1> DEFINE E == Ranuras(f, i)
           N == T[i].N
<1>1. /\ \A s \in E : s.k \in DOMAIN N /\ s.nm = N[s.k]
      /\ \A k \in DOMAIN N : \E s \in E : s.k = k
  BY RanurasEs
<1>2. Indice(f, i, dom) = [k \in dom |-> IF \E s \in E : s.k = k THEN (CHOOSE s \in E : s.k = k).nm
                                         ELSE 0]
  BY DEF Indice
<1> HIDE DEF E, N
<1>3. ASSUME NEW k
      PROVE  (IF \E s \in E : s.k = k THEN (CHOOSE s \in E : s.k = k).nm ELSE 0) = TopeDe(N, k)
  <2>1. CASE \E s \in E : s.k = k
    <3> DEFINE s == CHOOSE s \in E : s.k = k
    <3>1. s \in E /\ s.k = k
      BY <2>1
    <3> HIDE DEF s
    <3>2. s.nm = N[k] /\ k \in DOMAIN N
      BY <1>1, <3>1
    <3>3. TopeDe(N, k) = s.nm
      BY <3>2 DEF TopeDe
    <3> QED BY <2>1, <3>3 DEF s
  <2>2. CASE ~\E s \in E : s.k = k
    BY <1>1, <2>2 DEF TopeDe
  <2> QED BY <2>1, <2>2
<1> QED BY <1>2, <1>3 DEF N

-----------------------------------------------------------------------------
(* What it is to be such a file *)

\* The values below a child are between the slots at its sides.
LEMMA EntreRanuras ==
    ASSUME NEW f, NEW X, NEW G, Disco(f, X), Arbol(f.dsk, G), G.C \subseteq X, NEW q \in G.C,
           NEW n \in 1..Len(f.dsk[q].ll)
    PROVE  LET c == f.dsk[q]
           IN  /\ n > 1 => c.ll[n - 1].k < c.ll[n].k
               /\ c.ant # 0 =>
                    /\ \A p \in Bajo(f, Hijo(c, n - 1)) : \A s \in ToSet(f.dsk[p].ll) : s.k < c.ll[n].k
                    /\ \A p \in Bajo(f, Hijo(c, n)) : \A s \in ToSet(f.dsk[p].ll) : c.ll[n].k < s.k
<1> DEFINE c == f.dsk[q]
           l == Len(c.ll)
<1>1. Sabido(G, c, l, q) /\ n \in 1..l
  BY DeNodo
<1> HIDE DEF c, l
<1>2. l \in Nat /\ n - 1 \in 0..l /\ n \in 0..l /\ n - 1 # l /\ n # 0 /\ (n - 1) + 1 = n
  BY <1>1 DEF Sabido
<1>3. n > 1 => c.ll[n - 1].k < c.ll[n].k
  BY <1>1, <1>2 DEF Sabido
<1>4. ASSUME NEW p \in G.C, NEW s \in ToSet(f.dsk[p].ll)
      PROVE  s.k \in Nat /\ Dentro(G, p, s.k)
  <2> DEFINE m == Len(f.dsk[p].ll)
  <2>1. Sabido(G, f.dsk[p], m, p)
    BY DeNodo
  <2>2. DOMAIN f.dsk[p].ll = 1..m
    BY <2>1, LenProperties DEF Sabido
  <2> HIDE DEF m
  <2>3. PICK j \in 1..m : s = f.dsk[p].ll[j]
    BY <2>2 DEF ToSet
  <2> QED BY <2>1, <2>3 DEF Sabido, Dentro
<1>5. ASSUME c.ant # 0, NEW p \in Bajo(f, Hijo(c, n - 1)), NEW s \in ToSet(f.dsk[p].ll)
      PROVE  s.k < c.ll[n].k
  <2>1. G.h[q] # 0
    BY <1>1, <1>2, <1>5 DEF Sabido, Hijo
  <2>2. Cotas(G, c, q, n - 1)
    BY <1>1, <1>2, <2>1 DEF Sabido
  <2> DEFINE x == Hijo(c, n - 1)
  <2>3. x \in G.C /\ G.hi[x] = c.ll[n].k /\ c.ll[n].k \in Nat
    <3>1. Len(c.ll) = l
      BY DEF l
    <3> QED BY <1>1, <1>2, <2>2, <3>1 DEF Cotas, Sabido
  <2>4. p \in Bajo(f, x)
    BY <1>5
  <2> HIDE DEF x
  <2>5. p \in G.C /\ \A k \in Nat : Dentro(G, p, k) => Dentro(G, x, k)
    BY <2>3, <2>4, BajoEs
  <2>6. s.k \in Nat /\ Dentro(G, x, s.k)
    BY <1>4, <1>5, <2>5
  <2> QED BY <2>3, <2>6 DEF Dentro, Bajo0
<1>6. ASSUME c.ant # 0, NEW p \in Bajo(f, Hijo(c, n)), NEW s \in ToSet(f.dsk[p].ll)
      PROVE  c.ll[n].k < s.k
  <2>1. G.h[q] # 0
    BY <1>1, <1>2, <1>6 DEF Sabido, Hijo
  <2>2. Cotas(G, c, q, n)
    BY <1>1, <1>2, <2>1 DEF Sabido
  <2> DEFINE x == Hijo(c, n)
  <2>3. x \in G.C /\ G.lo[x] = c.ll[n].k
    BY <1>2, <2>2 DEF Cotas
  <2>4. p \in Bajo(f, x)
    BY <1>6
  <2> HIDE DEF x
  <2>5. p \in G.C /\ \A k \in Nat : Dentro(G, p, k) => Dentro(G, x, k)
    BY <2>3, <2>4, BajoEs
  <2>6. s.k \in Nat /\ Dentro(G, x, s.k)
    BY <1>4, <1>6, <2>5
  <2> QED BY <2>3, <2>6 DEF Dentro
<1> QED BY <1>3, <1>5, <1>6 DEF c

\* Each tree separates, is balanced and fits in its blocks.
LEMMA ArbolBEs ==
    ASSUME NEW R, NEW T, Fichero(archivo, R, T)
    PROVE  ArbolB
<1> DEFINE f == archivo
<1>0. f.dsk = dsk /\ f.kpos = kpos
  BY DEF archivo
<1> HIDE DEF f
<1>1. ASSUME NEW i \in Llaves
      PROVE  /\ Disco(f, Usados(T, R)) /\ Arbol(f.dsk, T[i]) /\ T[i].C \subseteq Usados(T, R)
             /\ Llena(f.dsk, T[i]) /\ T[i].r = f.kpos[i] /\ Clusters(f, i) = T[i].C
  BY FicheroRaiz, ClustersEs DEF Raiz, f
<1>2. EnOrden
  <2> SUFFICES ASSUME NEW i \in Llaves, NEW q \in T[i].C, NEW n \in 1..Len(f.dsk[q].ll)
               PROVE  LET c == f.dsk[q]
                      IN  /\ n > 1 => c.ll[n - 1].k < c.ll[n].k
                          /\ c.ant # 0 =>
                               /\ \A p \in Bajo(f, Hijo(c, n - 1)) : \A s \in ToSet(f.dsk[p].ll) : s.k < c.ll[n].k
                               /\ \A p \in Bajo(f, Hijo(c, n)) : \A s \in ToSet(f.dsk[p].ll) : c.ll[n].k < s.k
    BY <1>0, <1>1 DEF EnOrden, f
  <2> DEFINE G == T[i]
  <2>1. Disco(f, Usados(T, R)) /\ Arbol(f.dsk, G) /\ G.C \subseteq Usados(T, R) /\ q \in G.C
    BY <1>1
  <2> HIDE DEF G
  <2> QED BY <2>1, EntreRanuras
<1>3. Equilibrio
  <2> SUFFICES ASSUME NEW i \in Llaves, NEW n \in DOMAIN Niveles(f, f.kpos[i]),
                      NEW p \in Niveles(f, f.kpos[i])[n]
               PROVE  /\ p # f.kpos[i] => Len(f.dsk[p].ll) >= 2
                      /\ IF n + 1 \notin DOMAIN Niveles(f, f.kpos[i]) THEN Hijos(f.dsk[p]) = {}
                         ELSE Len(f.dsk[p].ll) > 0 /\ \A m \in 0..Len(f.dsk[p].ll) : Hijo(f.dsk[p], m) # 0
    BY <1>0 DEF Equilibrio, f
  <2> DEFINE G == T[i]
             N == Niveles(f, f.kpos[i])
             H == G.h[G.r]
             c == f.dsk[p]
             l == Len(c.ll)
  <2>1. Disco(f, Usados(T, R)) /\ Arbol(f.dsk, G) /\ G.C \subseteq Usados(T, R) /\ Llena(f.dsk, G)
        /\ G.r = f.kpos[i]
    BY <1>1
  <2> HIDE DEF G
  <2>2. G.r \in G.C /\ H \in Nat /\ G.C \subseteq Nat \ {0}
    BY <2>1 DEF Arbol, Forma0
  <2>3. EsNiveles(G, G.r, N)
    BY <2>1, <2>2, NivelesEs
  <2> HIDE DEF N, H
  <2>4. n \in 0..H /\ p \in G.C /\ G.h[p] = H - n /\ DOMAIN N = 0..H
    BY <2>3 DEF EsNiveles, H, N
  <2>5. Sabido(G, c, l, p) /\ Buena(f.dsk, G, p)
    BY <2>1, <2>4, DeNodo DEF Llena
  <2> HIDE DEF l, c
  <2>6. (p # G.r => l >= 2) /\ (G.h[p] # 0 => l >= 1) /\ l \in Nat
    BY <2>5 DEF Buena, l, c, Sabido
  <2>7. CASE n + 1 \notin DOMAIN N
    <3>1. G.h[p] = 0
      BY <2>2, <2>4, <2>7
    <3>2. Hijos(c) = {}
      BY <2>1, <2>4, <3>1, HijosEs DEF c
    <3> QED BY <2>1, <2>6, <2>7, <3>2 DEF N, c, l
  <2>8. CASE n + 1 \in DOMAIN N
    <3>1. G.h[p] # 0
      BY <2>2, <2>4, <2>8
    <3>2. \A m \in 0..l : Hijo(c, m) \in G.C
      BY <2>5, <3>1 DEF Sabido, Cotas
    <3>3. l > 0 /\ \A m \in 0..l : Hijo(c, m) # 0
      BY <2>2, <2>6, <3>1, <3>2
    <3> QED BY <2>1, <2>6, <2>8, <3>3 DEF N, c, l
  <2> QED BY <2>7, <2>8
<1>4. \A i \in Llaves : \A p \in Clusters(archivo, i) : Len(dsk[p].ll) <= TK
  BY <1>0, <1>1 DEF f, Llena, Buena
<1> QED BY <1>2, <1>3, <1>4 DEF ArbolB

\* A cluster that is not a root hangs from one slot of its tree, and a root from none.
LEMMA CuelgaEs ==
    ASSUME NEW f, NEW R, NEW T, Fichero(f, R, T), NEW i \in Llaves, NEW p \in T[i].C
    PROVE  /\ \A j \in Llaves : \A q \in T[j].C : \A n \in 0..Len(f.dsk[q].ll) :
                Hijo(f.dsk[q], n) = p => j = i /\ p # T[i].r /\ q = T[i].P[p]
           /\ p # T[i].r =>
                LET z == T[i].P[p]
                IN  z \in T[i].C /\ \E n \in 0..Len(f.dsk[z].ll) :
                      /\ Hijo(f.dsk[z], n) = p
                      /\ \A m \in 0..Len(f.dsk[z].ll) : Hijo(f.dsk[z], m) = p => m = n
<1>1. \A j \in Llaves : Arbol(f.dsk, T[j]) /\ (j # i => T[j].C \cap T[i].C = {})
  BY DEF Fichero
<1>2. \A j \in Llaves : T[j].C \subseteq Nat \ {0}
  BY <1>1 DEF Arbol, Forma0
<1>3. ASSUME NEW j \in Llaves, NEW q \in T[j].C, NEW n \in 0..Len(f.dsk[q].ll), Hijo(f.dsk[q], n) = p
      PROVE  j = i /\ p # T[i].r /\ q = T[i].P[p]
  <2> DEFINE G == T[j]
             c == f.dsk[q]
             l == Len(c.ll)
  <2>1. Sabido(G, c, l, q) /\ n \in 0..l /\ Hijo(c, n) = p
    BY <1>1, <1>3, DeNodo
  <2>2. p # 0
    BY <1>2
  <2> HIDE DEF G, c, l
  <2>3. G.h[q] # 0
    BY <2>1, <2>2 DEF Sabido
  <2>4. p \in G.C /\ G.P[p] = q /\ p # G.r
    BY <2>1, <2>3 DEF Sabido, Cotas
  <2>5. j = i
    BY <1>1, <2>4 DEF G
  <2> QED BY <2>4, <2>5 DEF G
<1>4. ASSUME p # T[i].r
      PROVE  LET z == T[i].P[p]
             IN  z \in T[i].C /\ \E n \in 0..Len(f.dsk[z].ll) :
                   /\ Hijo(f.dsk[z], n) = p
                   /\ \A m \in 0..Len(f.dsk[z].ll) : Hijo(f.dsk[z], m) = p => m = n
  <2> DEFINE G == T[i]
             z == G.P[p]
             c == f.dsk[z]
             l == Len(c.ll)
  <2>1. Arbol(f.dsk, G) /\ p \in G.C \ {G.r}
    BY <1>1, <1>4
  <2> HIDE DEF G
  <2>2. z \in G.C /\ G.h[z] = G.h[p] + 1 /\ \E n \in 0..l : Hijo(c, n) = p
    BY <2>1, Padre
  <2>3. G.h[p] \in Nat
    BY <2>1 DEF Arbol, Forma0
  <2> HIDE DEF z
  <2>4. Sabido(G, c, l, z) /\ G.h[z] # 0
    BY <2>1, <2>2, <2>3, DeNodo
  <2> HIDE DEF c, l
  <2>5. PICK n \in 0..l : Hijo(c, n) = p
    BY <2>2
  <2>6. \A m \in 0..l : Hijo(c, m) = p => m = n
    BY <2>4, <2>5 DEF Sabido
  <2> QED BY <2>2, <2>5, <2>6 DEF c, l, z, G
<1> QED BY <1>3, <1>4

\* Each block has one use.
LEMMA SinFugasEs ==
    ASSUME NEW R, NEW T, Fichero(archivo, R, T)
    PROVE  SinFugas
<1> DEFINE f == archivo
           de == [i \in Llaves |-> Clusters(f, i)]
           us == UNION {de[i] : i \in Llaves}
           li == Alcanza(Libres(f))
           cuelgan(p) == {x \in us \X (0..TK) :
                            x[2] <= Len(f.dsk[x[1]].ll) /\ Hijo(f.dsk[x[1]], x[2]) = p}
           X == Usados(T, R)
<1>0. f.dsk = dsk /\ f.kpos = kpos
  BY DEF archivo
<1>1. Fichero(f, R, T)
  OBVIOUS
<1> SUFFICES /\ \A p \in us : ~EsLibre(f.dsk[p]) /\ ~EsRegistro(f.dsk[p])
             /\ \A p \in li : EsLibre(f.dsk[p])
             /\ Libres(f)[Len(f.dsk)] = 0
             /\ us \cup li \cup Registros(f) = DOMAIN f.dsk
             /\ \A i, j \in Llaves : i # j => de[i] \cap de[j] = {}
             /\ \A p \in us : IF \E i \in Llaves : p = f.kpos[i] THEN cuelgan(p) = {}
                              ELSE \E x \in cuelgan(p) : cuelgan(p) = {x}
  BY <1>0, SMTT(30) DEF SinFugas
<1> HIDE DEF f
<1>2. \A i \in Llaves : de[i] = T[i].C
  BY <1>1, ClustersEs
<1> HIDE DEF de
<1>3. us = UNION {T[i].C : i \in Llaves}
  BY <1>2
<1>3a. \A p : p \in us <=> \E i \in Llaves : p \in T[i].C
  BY <1>3
<1> HIDE DEF us
<1>4. \A i \in Llaves : /\ Arbol(f.dsk, T[i]) /\ Llena(f.dsk, T[i]) /\ T[i].r = f.kpos[i]
                        /\ \A j \in Llaves : i # j => T[i].C \cap T[j].C = {}
  BY <1>1 DEF Fichero
<1>5. Disco(f, X) /\ X = us \cup R
  BY <1>1, <1>3 DEF Fichero, Usados
<1>6. Registros(f) = R /\ DOMAIN f.dsk = 1..Len(f.dsk)
  BY <1>1, RegistrosEs
<1> HIDE DEF X
<1>7. \A p \in us : ~EsLibre(f.dsk[p]) /\ ~EsRegistro(f.dsk[p])
  <2> TAKE p \in us
  <2>1. PICK i \in Llaves : p \in T[i].C
    BY <1>3a
  <2>2. f.dsk[p] = Klug(f.dsk[p].ant, f.dsk[p].ll)
    BY <1>4, <2>1, DeNodo DEF Sabido
  <2> QED BY <2>2, KlugEs
<1>8. li = (1..Len(f.dsk)) \ X /\ Libres(f)[Len(f.dsk)] = 0
  BY <1>5, LibresEs
<1>9. \A p \in li : EsLibre(f.dsk[p])
  <2>1. \A p \in (1..Len(f.dsk)) \ X : f.dsk[p] = Libre(f.dsk[p].sig, f.dsk[p].tam)
    BY <1>5 DEF Disco, LibreEn
  <2>2. \A a, b : EsLibre(Libre(a, b))
    BY DEF EsLibre, Libre
  <2> QED BY <1>8, <2>1, <2>2
<1> HIDE DEF li
<1>10. us \cup li \cup Registros(f) = DOMAIN f.dsk
  <2>1. X \subseteq 1..Len(f.dsk)
    BY <1>5 DEF Disco
  <2> QED BY <1>5, <1>6, <1>8, <2>1
<1>11. \A i, j \in Llaves : i # j => de[i] \cap de[j] = {}
  BY <1>2, <1>4
<1>12. ASSUME NEW p \in us
       PROVE  IF \E i \in Llaves : p = f.kpos[i] THEN cuelgan(p) = {}
              ELSE \E x \in cuelgan(p) : cuelgan(p) = {x}
  <2>1. PICK i \in Llaves : p \in T[i].C
    BY <1>3a
  <2> DEFINE z == T[i].P[p]
  <2>2. /\ \A j \in Llaves : \A q \in T[j].C : \A n \in 0..Len(f.dsk[q].ll) :
             Hijo(f.dsk[q], n) = p => j = i /\ p # T[i].r /\ q = z
        /\ p # T[i].r =>
             z \in T[i].C /\ \E n \in 0..Len(f.dsk[z].ll) :
               /\ Hijo(f.dsk[z], n) = p
               /\ \A m \in 0..Len(f.dsk[z].ll) : Hijo(f.dsk[z], m) = p => m = n
    BY <1>1, <2>1, CuelgaEs
  <2> HIDE DEF z
  <2>3. \A x \in cuelgan(p) : /\ p # T[i].r /\ x[1] = z /\ x = <<x[1], x[2]>>
                              /\ x[2] \in 0..Len(f.dsk[x[1]].ll) /\ Hijo(f.dsk[x[1]], x[2]) = p
    <3> TAKE x \in cuelgan(p)
    <3>1. x[1] \in us /\ x[2] \in 0..TK /\ x = <<x[1], x[2]>> /\ x[2] <= Len(f.dsk[x[1]].ll)
          /\ Hijo(f.dsk[x[1]], x[2]) = p
      OBVIOUS
    <3>2. PICK j \in Llaves : x[1] \in T[j].C
      BY <1>3a, <3>1
    <3> DEFINE q == x[1]
               n == x[2]
    <3>3. Len(f.dsk[q].ll) \in Nat
      BY <1>4, <3>2, DeNodo DEF Sabido
    <3> HIDE DEF q, n
    <3>4. n \in 0..Len(f.dsk[q].ll)
      BY <3>1, <3>3 DEF q, n, TK
    <3> QED BY <2>2, <3>1, <3>2, <3>4 DEF q, n
  <2>4. CASE \E j \in Llaves : p = f.kpos[j]
    <3>1. PICK j \in Llaves : p = f.kpos[j]
      BY <2>4
    <3>2. p = T[j].r /\ T[j].r \in T[j].C
      BY <1>4, <3>1 DEF Arbol, Forma0
    <3>3. j = i
      BY <1>4, <2>1, <3>2
    <3> HIDE DEF cuelgan
    <3> QED BY <2>3, <2>4, <3>2, <3>3
  <2>5. CASE ~\E j \in Llaves : p = f.kpos[j]
    <3>1. p # T[i].r
      BY <1>4, <2>5
    <3>2. PICK n \in 0..Len(f.dsk[z].ll) :
               /\ Hijo(f.dsk[z], n) = p
               /\ \A m \in 0..Len(f.dsk[z].ll) : Hijo(f.dsk[z], m) = p => m = n
      BY <2>2, <3>1
    <3>3. z \in us /\ z \in T[i].C
      BY <1>3a, <2>2, <3>1
    <3>4. Len(f.dsk[z].ll) <= TK /\ Len(f.dsk[z].ll) \in Nat /\ TK \in Nat
      BY <1>4, <3>3, DeNodo DEF Llena, Buena, Sabido, TK
    <3>5. n \in 0..TK /\ n <= Len(f.dsk[z].ll)
      BY <3>4
    <3> DEFINE x == <<z, n>>
    <3>6. x \in cuelgan(p)
      BY <3>2, <3>3, <3>5
    <3>7. \A y \in cuelgan(p) : y = x
      BY <2>3, <3>2
    <3> HIDE DEF x, cuelgan
    <3>8. cuelgan(p) = {x}
      BY <3>6, <3>7
    <3> QED BY <2>5, <3>6, <3>8
  <2> QED BY <2>4, <2>5
<1> QED BY <1>7, <1>8, <1>9, <1>10, <1>11, <1>12

\* busca names a value's record or those of its neighbours.
LEMMA BuscaVecinosEs ==
    ASSUME NEW R, NEW T, Fichero(archivo, R, T)
    PROVE  BuscaVecinos
<1> DEFINE f == archivo
<1>1. Fichero(f, R, T)
  OBVIOUS
<1> SUFFICES ASSUME NEW i \in Llaves, NEW k \in Dominio(i)
             PROVE  LET E == Ranuras(f, i)
                        b == Busca(f, i, k)
                        nadie(x, y) == \A s \in E : ~(x < s.k /\ s.k < y)
                    IN  IF \E s \in E : s.k = k
                        THEN \E s \in E : s.k = k /\ b.rec = s.nm
                        ELSE /\ b.rec = -1
                             /\ b.menor # 0 => \E s \in E : s.nm = b.menor /\ s.k < k /\ nadie(s.k, k)
                             /\ b.mayor # 0 => \E s \in E : s.nm = b.mayor /\ k < s.k /\ nadie(k, s.k)
                             /\ E # {} => b.menor # 0 \/ b.mayor # 0
  BY DEF BuscaVecinos, Dominio
<1> HIDE DEF f
<1> DEFINE E == Ranuras(f, i)
           b == Busca(f, i, k)
           N == T[i].N
<1>2. k \in Nat
  BY ConstantesDisco DEF Dominio
<1>3. /\ \A s \in E : s.k \in Nat /\ s.k \in DOMAIN N /\ s.nm = N[s.k]
      /\ \A c \in DOMAIN N : \E s \in E : s.k = c
  BY <1>1, RanurasEs
<1>4. Hallado(f, T[i], b, k)
  BY <1>1, <1>2, HalladoEs
<1>5. \A c \in DOMAIN N : N[c] # 0
  BY <1>1, RegistrosEs DEF Fichero, Nombra
<1>6. k \in DOMAIN N => b.rec = N[k]
  BY <1>4 DEF Hallado
<1>7. k \notin DOMAIN N => Contiguas(N, b, k)
  <2> DEFINE G == T[i]
             X == Usados(T, R)
  <2>1. Raiz(f, X, i, G) /\ Llena(f.dsk, G)
    BY <1>1, FicheroRaiz
  <2>2. Hallado(f, G, b, k)
    BY <1>4
  <2> HIDE DEF G, X, b
  <2> QED BY <1>2, <2>1, <2>2, ContiguasEs DEF G
<1> HIDE DEF E, b, N
<1>8. CASE \E s \in E : s.k = k
  <2>1. PICK s \in E : s.k = k
    BY <1>8
  <2>2. b.rec = s.nm
    BY <1>3, <1>6, <2>1
  <2> QED BY <1>8, <2>1, <2>2 DEF E, b
<1>9. CASE ~\E s \in E : s.k = k
  <2>1. Contiguas(N, b, k)
    BY <1>3, <1>7, <1>9
  <2>2. b.rec = -1
    BY <2>1 DEF Contiguas
  <2>3. ASSUME b.menor # 0
        PROVE  \E s \in E : s.nm = b.menor /\ s.k < k /\ \A u \in E : ~(s.k < u.k /\ u.k < k)
    BY <1>3, <2>1, <2>3 DEF Contiguas
  <2>4. ASSUME b.mayor # 0
        PROVE  \E s \in E : s.nm = b.mayor /\ k < s.k /\ \A u \in E : ~(k < u.k /\ u.k < s.k)
    BY <1>3, <2>1, <2>4 DEF Contiguas
  <2>5. E # {} => b.menor # 0 \/ b.mayor # 0
    <3>1. E # {} => DOMAIN N # {}
      BY <1>3
    <3> QED BY <1>5, <2>1, <3>1 DEF Contiguas
  <2> QED BY <1>9, <2>2, <2>3, <2>4, <2>5 DEF E, b
<1> QED BY <1>8, <1>9

-----------------------------------------------------------------------------
(* The file just created *)

\* A tree of one cluster without keys.
Brote(n) == [r |-> n, C |-> {n}, h |-> [q \in {n} |-> 0], lo |-> [q \in {n} |-> -1],
             hi |-> [q \in {n} |-> -1], P |-> [q \in {n} |-> 0], W |-> [k \in {} |-> n],
             N |-> [k \in {} |-> n]]

\* It is one, and it is full enough.
LEMMA BroteEs ==
    ASSUME NEW D, NEW n \in Nat \ {0}, D[n] = Klug(0, <<>>)
    PROVE  Arbol(D, Brote(n)) /\ Llena(D, Brote(n))
<1> DEFINE G == Brote(n)
           c == D[n]
<1>1. /\ G = [r |-> G.r, C |-> G.C, h |-> G.h, lo |-> G.lo, hi |-> G.hi, P |-> G.P,
              W |-> G.W, N |-> G.N]
      /\ G.r = n /\ G.C = {n} /\ G.h = [q \in {n} |-> 0] /\ G.lo = [q \in {n} |-> -1]
      /\ G.hi = [q \in {n} |-> -1] /\ G.P = [q \in {n} |-> 0] /\ G.W = [k \in {} |-> n]
      /\ G.N = [k \in {} |-> n]
  BY DEF Brote
<1>2. c.ant = 0 /\ c.ll = <<>> /\ c = Klug(c.ant, c.ll) /\ Len(c.ll) = 0
  BY DEF Klug
<1> HIDE DEF G, c
<1>3. <<>> \in Seq(Casillas)
  BY EmptySeq
<1>4. DOMAIN G.N = {} /\ G.h[n] = 0
  BY <1>1
<1>5. Forma0(G)
  BY <1>1, <1>4 DEF Forma0
<1>6. Nodo(G, c, n)
  <2>1. EsKlug(c)
    BY <1>2, <1>3 DEF EsKlug
  <2>2. \A j \in 0..Len(c.ll) : Hijo(c, j) = 0
    BY <1>2 DEF Hijo
  <2> QED BY <1>2, <1>4, <2>1, <2>2 DEF Nodo
<1>7. Arbol(D, G)
  BY <1>1, <1>4, <1>5, <1>6 DEF Arbol, c
<1>8. Llena(D, G)
  BY <1>1, <1>2, <1>4 DEF Llena, Buena, TK, c
<1> QED BY <1>7, <1>8 DEF G

\* The file that 'O' creates has one for each key.
LEMMA FicheroInicial ==
    ASSUME Init
    PROVE  /\ \E T : Fichero(archivo, {}, T) /\ \A i \in Llaves : DOMAIN T[i].N = {}
<1> DEFINE f == archivo
           L == Len(Orden)
           T == [i \in Llaves |-> Brote(f.kpos[i])]
           X == Usados(T, {})
<1>1. /\ f = [dsk |-> f.dsk, pad1 |-> f.pad1, kpos |-> f.kpos, vpk |-> f.vpk]
      /\ f.dsk = [n \in 1..L |-> Klug(0, <<>>)] /\ f.pad1 = 0
      /\ f.kpos = [i \in Llaves |-> CHOOSE n \in 1..L : Orden[n] = i]
  BY DEF Init, archivo
<1> HIDE DEF f
<1>2. L \in Nat /\ Orden \in Seq(Llaves) /\ DOMAIN Orden = 1..L
  BY ConstantesArbol, LenProperties
<1>3. Llaves = {Orden[m] : m \in 1..L}
  BY <1>2 DEF Llaves, ToSet
<1>4. \A m, n \in 1..L : Orden[m] = Orden[n] => m = n
  BY <1>2, ConstantesArbol
<1> HIDE DEF L
<1>5. \A i \in Llaves : f.kpos[i] \in 1..L /\ Orden[f.kpos[i]] = i
  <2> TAKE i \in Llaves
  <2>1. \E n \in 1..L : Orden[n] = i
    BY <1>3
  <2> QED BY <1>1, <2>1
<1>6. \A n \in 1..L : Orden[n] \in Llaves /\ f.kpos[Orden[n]] = n
  BY <1>3, <1>4, <1>5
<1>7. \A i \in Llaves : /\ T[i] = Brote(f.kpos[i]) /\ T[i].r = f.kpos[i]
                        /\ T[i].C = {f.kpos[i]} /\ DOMAIN T[i].N = {}
  BY DEF Brote
<1>8. DOMAIN T = Llaves
  OBVIOUS
<1> HIDE DEF T
<1>9. X = 1..L
  BY <1>5, <1>6, <1>7 DEF Usados
<1> HIDE DEF X
<1>10. Len(f.dsk) = L /\ f.dsk \in Seq({Klug(0, <<>>)})
  <2>1. f.dsk \in [1..L -> {Klug(0, <<>>)}]
    BY <1>1
  <2>2. f.dsk \in Seq({Klug(0, <<>>)})
    BY <1>2, <2>1, SeqDef
  <2>3. DOMAIN f.dsk = 1..L
    BY <1>1
  <2> QED BY <1>2, <2>2, <2>3, LenProperties
<1>11. Disco(f, X)
  <2>1. \A p \in X : ~EsLibre(f.dsk[p])
    BY <1>1, <1>9, KlugEs
  <2>2. LibreEn(f, (1..L) \ X, [p \in {} |-> 0])
    BY <1>1, <1>9 DEF LibreEn
  <2> QED BY <1>1, <1>9, <1>10, <2>1, <2>2 DEF Disco
<1>12. f.kpos \in [Llaves -> Nat]
  BY <1>1, <1>2, <1>5
<1>13. ASSUME NEW i \in Llaves
       PROVE  Arbol(f.dsk, T[i]) /\ Llena(f.dsk, T[i]) /\ Nombra(T[i], {}, i)
  <2> DEFINE n == f.kpos[i]
  <2>1. n \in Nat \ {0} /\ f.dsk[n] = Klug(0, <<>>)
    BY <1>1, <1>2, <1>5
  <2> HIDE DEF n
  <2>2. Arbol(f.dsk, Brote(n)) /\ Llena(f.dsk, Brote(n))
    BY <2>1, BroteEs
  <2> QED BY <1>7, <2>2 DEF n, Nombra
<1>14. \A i, j \in Llaves : i # j => T[i].C \cap T[j].C = {}
  BY <1>5, <1>7
<1>15. Fichero(f, {}, T)
  BY <1>7, <1>8, <1>11, <1>12, <1>13, <1>14 DEF Fichero, X
<1> QED BY <1>7, <1>15 DEF f

-----------------------------------------------------------------------------
(* The file as VsamFile sees it *)

\* VsamFile's inductive invariant, of this file.
Arch == INSTANCE VsamFileProofs WITH
    Pos   <- 1..Bloques,
    vivo  <- Registros(archivo),
    clave <- Valor(archivo, Unica),
    valor <- [i \in Reps |-> Valor(archivo, i)],
    anter <- [i \in Llaves |-> Columna(archivo, i, "anter")],
    proxi <- [i \in Llaves |-> Columna(archivo, i, "proxi")],
    cuant <- [i \in Reps |-> Columna(archivo, i, "cuant")],
    idxu  <- Indice(archivo, Unica, Claves),
    idxr  <- [i \in Reps |-> Indice(archivo, i, Valores)]

\* The records, their keys, their pointers and the indexes of a file.
Vista(f, R, T) ==
    /\ Registros(f) = R
    /\ \A i \in Llaves : /\ Valor(f, i) = [p \in R |-> f.dsk[p].val[i]]
                         /\ Columna(f, i, "anter") = [p \in R |-> f.dsk[p].ap[i].anter]
                         /\ Columna(f, i, "proxi") = [p \in R |-> f.dsk[p].ap[i].proxi]
                         /\ Columna(f, i, "cuant") = [p \in R |-> f.dsk[p].ap[i].cuant]
    /\ Indice(f, Unica, Claves) = [k \in Claves |-> TopeDe(T[Unica].N, k)]
    /\ \A i \in Reps : Indice(f, i, Valores) = [k \in Valores |-> TopeDe(T[i].N, k)]

\* They are those of the blocks and the trees.
LEMMA VistaEs ==
    ASSUME NEW f, NEW R, NEW T, Fichero(f, R, T)
    PROVE  Vista(f, R, T)
<1>1. Registros(f) = R
  BY RegistrosEs
<1>2. Unica \in Llaves /\ Reps \subseteq Llaves
  BY ConstantesArbol DEF Reps
<1>3. \A i \in Llaves : /\ Valor(f, i) = [p \in R |-> f.dsk[p].val[i]]
                        /\ Columna(f, i, "anter") = [p \in R |-> f.dsk[p].ap[i].anter]
                        /\ Columna(f, i, "proxi") = [p \in R |-> f.dsk[p].ap[i].proxi]
                        /\ Columna(f, i, "cuant") = [p \in R |-> f.dsk[p].ap[i].cuant]
  BY <1>1 DEF Valor, Columna
<1>4. Indice(f, Unica, Claves) = [k \in Claves |-> TopeDe(T[Unica].N, k)]
  BY <1>2, IndiceEs
<1>5. \A i \in Reps : Indice(f, i, Valores) = [k \in Valores |-> TopeDe(T[i].N, k)]
  BY <1>2, IndiceEs
<1> QED BY <1>1, <1>3, <1>4, <1>5 DEF Vista

\* What is known of the chain of the unique key and of its index.
SanaUnica(f, R, N) ==
    /\ \A p \in R : /\ Apunta(f, R, Unica, p)
                    /\ f.dsk[p].val[Unica] \in Claves => TopeDe(N, f.dsk[p].val[Unica]) = p
    /\ \A c \in Claves : TopeDe(N, c) # 0 => f.dsk[TopeDe(N, c)].val[Unica] = c

\* And of the stacks of a repeated key.
SanaRep(f, R, N, i) ==
    /\ \A p \in R :
         LET b == f.dsk[p].ap[i]
             x == f.dsk[p].val[i]
         IN  /\ Apunta(f, R, i, p)
             /\ b.cuant \in 0..MaxCuant
             /\ b.anter = 0 /\ x \in Valores => TopeDe(N, x) = p
             /\ b.anter # 0 => f.dsk[b.anter].val[i] = x /\ f.dsk[b.anter].ap[i].proxi = p
             /\ b.proxi # 0 => f.dsk[b.proxi].ap[i].cuant < b.cuant
    /\ \A x \in Valores : TopeDe(N, x) # 0 =>
         /\ TopeDe(N, x) \in R /\ f.dsk[TopeDe(N, x)].val[i] = x
         /\ f.dsk[TopeDe(N, x)].ap[i].anter = 0

\* It follows from the invariant.
LEMMA SanaUnicaEs ==
    ASSUME NEW R, NEW T, Vista(archivo, R, T), Arch!IInv
    PROVE  SanaUnica(archivo, R, T[Unica].N)
<1> DEFINE f == archivo
           N == T[Unica].N
           An(p) == f.dsk[p].ap[Unica].anter
           Pr(p) == f.dsk[p].ap[Unica].proxi
<1>0. Unica \in Llaves
  BY ConstantesArbol
<1>1. /\ Registros(archivo) = R
      /\ Valor(archivo, Unica) = [p \in R |-> f.dsk[p].val[Unica]]
      /\ Columna(archivo, Unica, "anter") = [p \in R |-> An(p)]
      /\ Columna(archivo, Unica, "proxi") = [p \in R |-> Pr(p)]
      /\ Indice(archivo, Unica, Claves) = [k \in Claves |-> TopeDe(N, k)]
  BY <1>0 DEF Vista
<1>2. /\ [i \in Llaves |-> Columna(archivo, i, "anter")][Unica] = [p \in R |-> An(p)]
      /\ [i \in Llaves |-> Columna(archivo, i, "proxi")][Unica] = [p \in R |-> Pr(p)]
  BY <1>0, <1>1
<1>3. \A p \in R : (An(p) # 0 => An(p) \in R) /\ (Pr(p) # 0 => Pr(p) \in R)
  <2> HIDE DEF An, Pr, f
  <2>1. \A p \in Registros(archivo) : Arch!Eslabon(p)
    BY DEF Arch!IInv, Arch!Cadena
  <2> TAKE p \in R
  <2>2. Arch!Eslabon(p)
    BY <1>1, <2>1
  <2> QED BY <1>1, <1>2, <2>2 DEF Arch!Eslabon
<1>4. /\ \A p \in R : Indice(archivo, Unica, Claves)[Valor(archivo, Unica)[p]] = p
      /\ \A c \in Claves : Indice(archivo, Unica, Claves)[c] # 0 =>
            Valor(archivo, Unica)[Indice(archivo, Unica, Claves)[c]] = c
            /\ Indice(archivo, Unica, Claves)[c] \in R
  BY <1>1 DEF Arch!IInv, Arch!IndiceFiel
<1>5. \A p \in R : f.dsk[p].val[Unica] \in Claves => TopeDe(N, f.dsk[p].val[Unica]) = p
  <2> HIDE DEF f, N
  <2> QED BY <1>1, <1>4
<1>6. ASSUME NEW c \in Claves, TopeDe(N, c) # 0 PROVE f.dsk[TopeDe(N, c)].val[Unica] = c
  <2> DEFINE t == Indice(archivo, Unica, Claves)[c]
  <2>1. t = TopeDe(N, c)
    BY <1>1
  <2> HIDE DEF f, N
  <2>2. Valor(archivo, Unica)[t] = c /\ t \in R
    BY <1>4, <1>6, <2>1
  <2> HIDE DEF t
  <2>3. f.dsk[t].val[Unica] = c
    BY <1>1, <2>2
  <2> QED BY <2>1, <2>3
<1>7. \A p \in R : Apunta(f, R, Unica, p)
  BY <1>3 DEF Apunta
<1> QED BY <1>5, <1>6, <1>7 DEF SanaUnica

\* So does this.
LEMMA SanaRepEs ==
    ASSUME NEW R, NEW T, Vista(archivo, R, T), Arch!IInv, NEW i \in Reps
    PROVE  SanaRep(archivo, R, T[i].N, i)
<1> DEFINE f == archivo
           N == T[i].N
           An(p) == f.dsk[p].ap[i].anter
           Pr(p) == f.dsk[p].ap[i].proxi
           Cu(p) == f.dsk[p].ap[i].cuant
           Va(p) == f.dsk[p].val[i]
<1>0. i \in Llaves
  BY DEF Reps
<1>1. /\ Registros(archivo) = R
      /\ Valor(archivo, i) = [p \in R |-> Va(p)]
      /\ Columna(archivo, i, "anter") = [p \in R |-> An(p)]
      /\ Columna(archivo, i, "proxi") = [p \in R |-> Pr(p)]
      /\ Columna(archivo, i, "cuant") = [p \in R |-> Cu(p)]
      /\ Indice(archivo, i, Valores) = [k \in Valores |-> TopeDe(N, k)]
  BY <1>0 DEF Vista
<1> HIDE DEF An, Pr, Cu, Va, f, N
<1>2. /\ [j \in Llaves |-> Columna(archivo, j, "anter")][i] = [p \in R |-> An(p)]
      /\ [j \in Llaves |-> Columna(archivo, j, "proxi")][i] = [p \in R |-> Pr(p)]
      /\ [j \in Reps |-> Columna(archivo, j, "cuant")][i] = [p \in R |-> Cu(p)]
      /\ [j \in Reps |-> Valor(archivo, j)][i] = [p \in R |-> Va(p)]
      /\ [j \in Reps |-> Indice(archivo, j, Valores)][i] = [k \in Valores |-> TopeDe(N, k)]
  BY <1>0, <1>1
<1>3. /\ \A p \in R : Arch!Apilado(i, p)
      /\ \A x \in Valores : Arch!Tope(i, x)
  BY <1>1 DEF Arch!IInv, Arch!Pilas
<1>4. ASSUME NEW p \in R
      PROVE  /\ An(p) # 0 => An(p) \in R /\ Pr(An(p)) = p /\ Va(An(p)) = Va(p)
             /\ An(p) = 0 /\ Va(p) \in Valores => TopeDe(N, Va(p)) = p
             /\ Pr(p) # 0 => Pr(p) \in R /\ Cu(Pr(p)) < Cu(p)
  <2>1. Arch!Apilado(i, p)
    BY <1>3
  <2> QED BY <1>1, <1>2, <2>1 DEF Arch!Apilado
<1>5. ASSUME NEW x \in Valores, TopeDe(N, x) # 0
      PROVE  TopeDe(N, x) \in R /\ Va(TopeDe(N, x)) = x /\ An(TopeDe(N, x)) = 0
  <2>1. Arch!Tope(i, x)
    BY <1>3
  <2> QED BY <1>1, <1>2, <1>5, <2>1 DEF Arch!Tope
<1>6. \A p \in R : Cu(p) \in 0..MaxCuant
  <2>1. [j \in Reps |-> Columna(archivo, j, "cuant")] \in [Reps -> [Registros(archivo) -> 0..MaxCuant]]
    BY DEF Arch!IInv, Arch!TypeOK
  <2>2. [p \in R |-> Cu(p)] \in [R -> 0..MaxCuant]
    BY <1>1, <1>2, <2>1
  <2> QED BY <2>2
<1>7. \A p \in R : Apunta(f, R, i, p)
  BY <1>4 DEF Apunta, An, Pr
<1> QED BY <1>4, <1>5, <1>6, <1>7 DEF SanaRep, An, Pr, Cu, Va, f, N

\* A value that some record has is in the tree: the record over all others of its stack is
\* the top.
LEMMA PilaConTope ==
    ASSUME NEW f, NEW R, NEW N, NEW i, SanaRep(f, R, N, i), R \subseteq Nat \ {0}, NEW lug \in R,
           f.dsk[lug].val[i] \in Valores
    PROVE  f.dsk[lug].val[i] \in DOMAIN N
<1> DEFINE x == f.dsk[lug].val[i]
           Cu(p) == f.dsk[p].ap[i].cuant
           An(p) == f.dsk[p].ap[i].anter
           Pr(p) == f.dsk[p].ap[i].proxi
           S == {p \in R : f.dsk[p].val[i] = x}
           Q == {MaxCuant - Cu(p) : p \in S}
<1>1. MaxCuant \in Nat
  BY ConstantesDisco
<1>2. \A p \in S : /\ Cu(p) \in 0..MaxCuant
                   /\ An(p) = 0 => TopeDe(N, x) = p
                   /\ An(p) # 0 => An(p) \in S /\ Pr(An(p)) = p
                   /\ Pr(p) # 0 => Cu(Pr(p)) < Cu(p)
  BY DEF SanaRep, Apunta
<1>3. lug \in S /\ S \subseteq Nat \ {0}
  OBVIOUS
<1> HIDE DEF S, Cu, An, Pr, x
<1>4. Q \subseteq Nat /\ Q # {}
  BY <1>1, <1>2, <1>3
<1>5. PICK m \in Q : \A n \in Q : m <= n
  <2> HIDE DEF Q
  <2> QED BY <1>4, Minimo
<1>6. PICK p \in S : m = MaxCuant - Cu(p)
  OBVIOUS
<1>7. \A q \in S : Cu(q) <= Cu(p)
  <2> TAKE q \in S
  <2>1. MaxCuant - Cu(q) \in Q
    OBVIOUS
  <2>2. m <= MaxCuant - Cu(q)
    BY <1>5, <2>1
  <2> QED BY <1>1, <1>2, <1>6, <2>2
<1>8. An(p) = 0
  <2> SUFFICES ASSUME An(p) # 0 PROVE FALSE
    OBVIOUS
  <2>1. An(p) \in S /\ Pr(An(p)) = p /\ p # 0
    BY <1>2, <1>3
  <2>2. Cu(p) < Cu(An(p)) /\ Cu(An(p)) \in Nat /\ Cu(p) \in Nat
    BY <1>2, <2>1
  <2>3. Cu(An(p)) <= Cu(p)
    BY <1>7, <2>1
  <2> QED BY <2>2, <2>3
<1>9. TopeDe(N, x) # 0
  BY <1>2, <1>3, <1>8
<1> QED BY <1>9 DEF TopeDe, x

\* Everything vdel relies on holds of a record of such a file.
LEMMA SinRastroEs ==
    ASSUME NEW f, NEW R, NEW T, Fichero(f, R, T), SanaUnica(f, R, T[Unica].N),
           \A i \in Reps : SanaRep(f, R, T[i].N, i), NEW lug \in R
    PROVE  SinRastro(f, R, T, lug)
<1>0. Unica \in Llaves /\ R \subseteq Nat \ {0} /\ lug # 0
  BY ConstantesArbol, RegistrosEs
<1> SUFFICES ASSUME NEW i \in Llaves
             PROVE  /\ ListaBaja(f, R, T, lug, i)
                    /\ \A k \in DOMAIN Queda(f, T[i].N, lug, i) :
                         Queda(f, T[i].N, lug, i)[k] # lug
  BY DEF SinRastro
<1> DEFINE N == T[i].N
           a == f.dsk[lug].ap[i].anter
           s == f.dsk[lug].ap[i].proxi
           key == f.dsk[lug].val[i]
<1>1. key \in Dominio(i)
  BY ValorEs
<1>2. \A k \in DOMAIN N : k \in Dominio(i) /\ N[k] \in R /\ TopeDe(N, k) = N[k] /\ N[k] # 0
  BY <1>0 DEF Fichero, Nombra, TopeDe
<1>3. Queda(f, N, lug, i) = IF i # Unica /\ a # 0 THEN N
                            ELSE IF i # Unica /\ s # 0 THEN [N EXCEPT ![key] = s]
                            ELSE SinUno(N, key)
  BY DEF Queda
<1>4. CASE i = Unica
  <2> HIDE DEF N, a, s, key
  <2>1. /\ Apunta(f, R, i, lug) /\ (key \in Claves => TopeDe(N, key) = lug)
        /\ \A c \in Claves : TopeDe(N, c) # 0 => f.dsk[TopeDe(N, c)].val[i] = c
    BY <1>4 DEF SanaUnica, N, key
  <2>2. key \in Claves /\ \A k \in DOMAIN N : k \in Claves
    BY <1>1, <1>2, <1>4 DEF Dominio
  <2>3. key \in DOMAIN N
    BY <1>0, <2>1, <2>2 DEF TopeDe
  <2>4. \A k \in DOMAIN N : N[k] = lug => k = key
    BY <1>0, <1>2, <2>1, <2>2 DEF key
  <2>5. Queda(f, N, lug, i) = SinUno(N, key)
    BY <1>3, <1>4
  <2>6. \A k \in DOMAIN Queda(f, N, lug, i) : Queda(f, N, lug, i)[k] # lug
    BY <2>4, <2>5 DEF SinUno
  <2> QED BY <2>1, <2>3, <2>6 DEF ListaBaja, N, key
<1>5. CASE i # Unica
  <2>0. i \in Reps
    BY <1>5 DEF Reps
  <2> HIDE DEF N
  <2>1. SanaRep(f, R, N, i)
    BY <2>0 DEF N
  <2>2. key \in Valores /\ \A k \in DOMAIN N : k \in Valores
    BY <1>1, <1>2, <1>5 DEF Dominio
  <2>3. key \in DOMAIN N
    BY <1>0, <2>1, <2>2, PilaConTope
  <2>4. Apunta(f, R, i, lug) /\ (s # 0 => s # lug) /\ (a # 0 => \A k \in DOMAIN N : N[k] # lug)
        /\ \A k \in DOMAIN N : N[k] = lug => k = key
    <3>1. Apunta(f, R, i, lug)
      BY <2>1 DEF SanaRep
    <3> DEFINE Cu(p) == f.dsk[p].ap[i].cuant
    <3>2. Cu(lug) \in 0..MaxCuant /\ (s # 0 => Cu(s) < Cu(lug))
      BY <2>1 DEF SanaRep
    <3>a. \A x \in Valores : TopeDe(N, x) = lug => key = x /\ a = 0
      <4>1. \A x \in Valores : TopeDe(N, x) # 0 =>
              f.dsk[TopeDe(N, x)].val[i] = x /\ f.dsk[TopeDe(N, x)].ap[i].anter = 0
        BY <2>1 DEF SanaRep
      <4> QED BY <1>0, <4>1
    <3> HIDE DEF a, s, key, Cu
    <3>3. s # 0 => s # lug
      BY <3>2, ConstantesDisco
    <3>4. \A k \in DOMAIN N : N[k] = lug => key = k /\ a = 0
      BY <1>2, <2>2, <3>a
    <3> QED BY <3>1, <3>3, <3>4
  <2> HIDE DEF a, s, key
  <2>5. \A k \in DOMAIN Queda(f, N, lug, i) : Queda(f, N, lug, i)[k] # lug
    <3>1. CASE a # 0
      BY <1>3, <1>5, <2>4, <3>1
    <3>2. CASE a = 0 /\ s # 0
      <4>1. Queda(f, N, lug, i) = [N EXCEPT ![key] = s]
        BY <1>3, <1>5, <3>2
      <4> QED BY <2>4, <3>2, <4>1
    <3>3. CASE a = 0 /\ s = 0
      <4>1. Queda(f, N, lug, i) = SinUno(N, key)
        BY <1>3, <3>3
      <4> QED BY <2>4, <4>1 DEF SinUno
    <3> QED BY <3>1, <3>2, <3>3
  <2> QED BY <2>3, <2>4, <2>5 DEF ListaBaja, N, key
<1> QED BY <1>4, <1>5

\* A function without lug, and with y for p.
Quitada(F, lug, p, y) == [q \in DOMAIN F \ {lug} |-> IF q = p THEN y ELSE F[q]]

\* What the record lug leaves behind in a file k that was f, as VsamFile sees it.
EnBaja(f, k, lug) ==
    /\ lug \in Registros(f) /\ Registros(k) = Registros(f) \ {lug}
    /\ \A i \in Llaves :
         LET an == Columna(f, i, "anter")
             pr == Columna(f, i, "proxi")
         IN  /\ Valor(k, i) = Quitada(Valor(f, i), lug, 0, 0)
             /\ Columna(k, i, "anter") = Quitada(an, lug, pr[lug], an[lug])
             /\ Columna(k, i, "proxi") = Quitada(pr, lug, an[lug], pr[lug])
             /\ Columna(k, i, "cuant") = Quitada(Columna(f, i, "cuant"), lug, 0, 0)
    /\ k.vpk = IF Columna(f, Unica, "anter")[lug] = 0 THEN Columna(f, Unica, "proxi")[lug] ELSE f.vpk
    /\ Indice(k, Unica, Claves) = [Indice(f, Unica, Claves) EXCEPT ![Valor(f, Unica)[lug]] = 0]
    /\ \A i \in Reps :
         Indice(k, i, Valores) =
           IF Columna(f, i, "anter")[lug] = 0
           THEN [Indice(f, i, Valores) EXCEPT ![Valor(f, i)[lug]] = Columna(f, i, "proxi")[lug]]
           ELSE Indice(f, i, Valores)

\* vdel does it.
LEMMA EnBajaEs ==
    ASSUME NEW f, NEW R, NEW T, Fichero(f, R, T), NEW lug \in R, SinRastro(f, R, T, lug),
           NEW k, NEW U, NEW h, Borrado(f, k, R, T, U, lug, h)
    PROVE  EnBaja(f, k, lug)
<1> DEFINE Q == R \ {lug}
           An(g, i, p) == g.dsk[p].ap[i].anter
           Pr(g, i, p) == g.dsk[p].ap[i].proxi
           Cu(g, i, p) == g.dsk[p].ap[i].cuant
           Va(g, i, p) == g.dsk[p].val[i]
<1>0. Unica \in Llaves /\ Reps \subseteq Llaves /\ R \subseteq Nat \ {0}
  BY ConstantesArbol, RegistrosEs DEF Reps
<1>1. Vista(f, R, T)
  BY VistaEs
<1>2. Fichero(k, Q, U) /\ BajaEnCurso(f, h, R, T, U, lug, Llaves)
      /\ k.vpk = h.vpk /\ \A p \in Q : k.dsk[p] = h.dsk[p]
  BY DEF Borrado
<1>3. Vista(k, Q, U)
  BY <1>2, VistaEs
<1>4. /\ Registros(f) = R
      /\ \A i \in Llaves : /\ Valor(f, i) = [p \in R |-> Va(f, i, p)]
                           /\ Columna(f, i, "anter") = [p \in R |-> An(f, i, p)]
                           /\ Columna(f, i, "proxi") = [p \in R |-> Pr(f, i, p)]
                           /\ Columna(f, i, "cuant") = [p \in R |-> Cu(f, i, p)]
  BY <1>1 DEF Vista
<1>5. /\ Registros(k) = Q
      /\ \A i \in Llaves : /\ Valor(k, i) = [p \in Q |-> Va(k, i, p)]
                           /\ Columna(k, i, "anter") = [p \in Q |-> An(k, i, p)]
                           /\ Columna(k, i, "proxi") = [p \in Q |-> Pr(k, i, p)]
                           /\ Columna(k, i, "cuant") = [p \in Q |-> Cu(k, i, p)]
  BY <1>3 DEF Vista
<1>6. \A i \in Llaves : \A p \in Q :
         /\ Va(k, i, p) = Va(f, i, p)
         /\ An(k, i, p) = IF p = Pr(f, i, lug) THEN An(f, i, lug) ELSE An(f, i, p)
         /\ Pr(k, i, p) = IF p = An(f, i, lug) THEN Pr(f, i, lug) ELSE Pr(f, i, p)
         /\ Cu(k, i, p) = Cu(f, i, p)
  <2> TAKE i \in Llaves
  <2> TAKE p \in Q
  <2>1. k.dsk[p] = h.dsk[p] /\ p \in R /\ h.dsk[p].val = f.dsk[p].val /\ Soltado(f, h, R, lug, i)
    BY <1>2 DEF BajaEnCurso
  <2> QED BY <2>1 DEF Soltado
<1>7. k.vpk = IF An(f, Unica, lug) = 0 THEN Pr(f, Unica, lug) ELSE f.vpk
  BY <1>0, <1>2 DEF BajaEnCurso
<1>8. \A i \in Llaves : U[i].N = Queda(f, T[i].N, lug, i) /\ Va(f, i, lug) \in DOMAIN T[i].N
  BY <1>2 DEF BajaEnCurso, SinRastro, ListaBaja
<1>9. \A i \in Llaves :
         U[i].N = IF i # Unica /\ An(f, i, lug) # 0 THEN T[i].N
                  ELSE IF i # Unica /\ Pr(f, i, lug) # 0
                       THEN [T[i].N EXCEPT ![Va(f, i, lug)] = Pr(f, i, lug)]
                       ELSE SinUno(T[i].N, Va(f, i, lug))
  BY <1>8 DEF Queda
<1> HIDE DEF An, Pr, Cu, Va
<1>10. ASSUME NEW i \in Llaves
       PROVE  /\ Valor(k, i) = Quitada(Valor(f, i), lug, 0, 0)
              /\ Columna(k, i, "anter") = Quitada(Columna(f, i, "anter"), lug,
                      Columna(f, i, "proxi")[lug], Columna(f, i, "anter")[lug])
              /\ Columna(k, i, "proxi") = Quitada(Columna(f, i, "proxi"), lug,
                      Columna(f, i, "anter")[lug], Columna(f, i, "proxi")[lug])
              /\ Columna(k, i, "cuant") = Quitada(Columna(f, i, "cuant"), lug, 0, 0)
  <2>1. \A p \in Q : p # 0
    BY <1>0
  <2>2. Valor(k, i) = Quitada(Valor(f, i), lug, 0, 0)
    BY <1>4, <1>5, <1>6, <2>1 DEF Quitada
  <2>3. Columna(k, i, "cuant") = Quitada(Columna(f, i, "cuant"), lug, 0, 0)
    BY <1>4, <1>5, <1>6, <2>1 DEF Quitada
  <2>4. Columna(f, i, "anter")[lug] = An(f, i, lug) /\ Columna(f, i, "proxi")[lug] = Pr(f, i, lug)
    BY <1>4
  <2>5. Columna(k, i, "anter") = Quitada(Columna(f, i, "anter"), lug, Pr(f, i, lug), An(f, i, lug))
    <3> DEFINE F == Columna(f, i, "anter")
               x == Pr(f, i, lug)
               y == An(f, i, lug)
    <3>1. F = [p \in R |-> An(f, i, p)] /\ Columna(k, i, "anter") = [p \in Q |-> An(k, i, p)]
      BY <1>4, <1>5
    <3>2. \A p \in Q : An(k, i, p) = IF p = x THEN y ELSE An(f, i, p)
      BY <1>6
    <3> HIDE DEF F, x, y
    <3>3. Quitada(F, lug, x, y) = [q \in Q |-> IF q = x THEN y ELSE F[q]]
      BY <3>1 DEF Quitada
    <3>4. \A q \in Q : An(k, i, q) = IF q = x THEN y ELSE F[q]
      BY <3>1, <3>2
    <3>5. Columna(k, i, "anter") = Quitada(F, lug, x, y)
      BY <3>1, <3>3, <3>4
    <3> QED BY <3>5 DEF F, x, y
  <2>6. Columna(k, i, "proxi") = Quitada(Columna(f, i, "proxi"), lug, An(f, i, lug), Pr(f, i, lug))
    <3> DEFINE F == Columna(f, i, "proxi")
               x == An(f, i, lug)
               y == Pr(f, i, lug)
    <3>1. F = [p \in R |-> Pr(f, i, p)] /\ Columna(k, i, "proxi") = [p \in Q |-> Pr(k, i, p)]
      BY <1>4, <1>5
    <3>2. \A p \in Q : Pr(k, i, p) = IF p = x THEN y ELSE Pr(f, i, p)
      BY <1>6
    <3> HIDE DEF F, x, y
    <3>3. Quitada(F, lug, x, y) = [q \in Q |-> IF q = x THEN y ELSE F[q]]
      BY <3>1 DEF Quitada
    <3>4. \A q \in Q : Pr(k, i, q) = IF q = x THEN y ELSE F[q]
      BY <3>1, <3>2
    <3>5. Columna(k, i, "proxi") = Quitada(F, lug, x, y)
      BY <3>1, <3>3, <3>4
    <3> QED BY <3>5 DEF F, x, y
  <2> QED BY <2>2, <2>3, <2>4, <2>5, <2>6
<1>11. \A i \in Llaves : /\ Columna(f, i, "anter")[lug] = An(f, i, lug)
                         /\ Columna(f, i, "proxi")[lug] = Pr(f, i, lug)
                         /\ Valor(f, i)[lug] = Va(f, i, lug)
  BY <1>4
<1>12. \A N, c, x, y : /\ TopeDe(SinUno(N, x), c) = IF c = x THEN 0 ELSE TopeDe(N, c)
                       /\ x \in DOMAIN N => TopeDe([N EXCEPT ![x] = y], c)
                                              = IF c = x THEN y ELSE TopeDe(N, c)
  BY DEF TopeDe, SinUno
<1>13. Indice(k, Unica, Claves) = [Indice(f, Unica, Claves) EXCEPT ![Valor(f, Unica)[lug]] = 0]
  <2>1. Indice(f, Unica, Claves) = [c \in Claves |-> TopeDe(T[Unica].N, c)]
    BY <1>1 DEF Vista
  <2>2. Indice(k, Unica, Claves) = [c \in Claves |-> TopeDe(U[Unica].N, c)]
    BY <1>3 DEF Vista
  <2>3. U[Unica].N = SinUno(T[Unica].N, Va(f, Unica, lug))
    BY <1>0, <1>9
  <2>4. \A c \in Claves : TopeDe(U[Unica].N, c) = IF c = Va(f, Unica, lug) THEN 0 ELSE TopeDe(T[Unica].N, c)
    BY <1>12, <2>3
  <2> QED BY <1>0, <1>11, <2>1, <2>2, <2>4
<1>14. ASSUME NEW i \in Reps
       PROVE  Indice(k, i, Valores) =
                IF Columna(f, i, "anter")[lug] = 0
                THEN [Indice(f, i, Valores) EXCEPT ![Valor(f, i)[lug]] = Columna(f, i, "proxi")[lug]]
                ELSE Indice(f, i, Valores)
  <2>0. i \in Llaves /\ i # Unica
    BY DEF Reps
  <2>1. Indice(f, i, Valores) = [c \in Valores |-> TopeDe(T[i].N, c)]
    BY <1>1 DEF Vista
  <2>2. Indice(k, i, Valores) = [c \in Valores |-> TopeDe(U[i].N, c)]
    BY <1>3 DEF Vista
  <2>3. \A c \in Valores : TopeDe(U[i].N, c) =
           IF An(f, i, lug) = 0 /\ c = Va(f, i, lug) THEN Pr(f, i, lug) ELSE TopeDe(T[i].N, c)
    <3>1. CASE An(f, i, lug) # 0
      BY <1>9, <2>0, <3>1
    <3>2. CASE An(f, i, lug) = 0 /\ Pr(f, i, lug) # 0
      <4>1. U[i].N = [T[i].N EXCEPT ![Va(f, i, lug)] = Pr(f, i, lug)]
        BY <1>9, <2>0, <3>2
      <4>2. Va(f, i, lug) \in DOMAIN T[i].N
        BY <1>8, <2>0 DEF Va
      <4> DEFINE x == Va(f, i, lug)
                 y == Pr(f, i, lug)
                 N == T[i].N
      <4>3. \A c : TopeDe([N EXCEPT ![x] = y], c) = IF c = x THEN y ELSE TopeDe(N, c)
        <5> HIDE DEF x, y, N
        <5>1. x \in DOMAIN N
          BY <4>2 DEF x, N
        <5> QED BY <5>1 DEF TopeDe
      <4>4. U[i].N = [N EXCEPT ![x] = y]
        BY <4>1
      <4> HIDE DEF x, y, N
      <4>5. \A c \in Valores : TopeDe(U[i].N, c) = IF c = x THEN y ELSE TopeDe(N, c)
        BY <4>3, <4>4
      <4> QED BY <3>2, <4>5 DEF x, y, N
    <3>3. CASE An(f, i, lug) = 0 /\ Pr(f, i, lug) = 0
      <4>1. U[i].N = SinUno(T[i].N, Va(f, i, lug))
        BY <1>9, <2>0, <3>3
      <4> QED BY <1>12, <3>3, <4>1
    <3> QED BY <3>1, <3>2, <3>3
  <2> QED BY <1>11, <2>0, <2>1, <2>2, <2>3
<1>15. k.vpk = IF Columna(f, Unica, "anter")[lug] = 0 THEN Columna(f, Unica, "proxi")[lug] ELSE f.vpk
  BY <1>0, <1>7, <1>11
<1> QED BY <1>4, <1>5, <1>10, <1>13, <1>14, <1>15 DEF EnBaja

\* A function with x for nw, and with y for p.
Inscrita(F, nw, x, p, y) ==
    [q \in DOMAIN F \cup {nw} |-> IF q = nw THEN x ELSE IF q = p THEN y ELSE F[q]]

\* The records of the keys before and after k in an index.
Previas(ix, k)     == {ix[c] : c \in {c \in Claves : /\ c < k /\ ix[c] # 0
                                        /\ \A d \in Claves : c < d /\ d < k => ix[d] = 0}}
Siguientes(ix, k) == {ix[c] : c \in {c \in Claves : /\ k < c /\ ix[c] # 0
                                        /\ \A d \in Claves : k < d /\ d < c => ix[d] = 0}}

\* The neighbours of a new record in the chain of the unique key.
EnHueco(f, key, menor, mayor, a, s) ==
    LET ix == Indice(f, Unica, Claves)
    IN  /\ ix[key] = 0
        /\ menor \in Previas(ix, key) \cup {0} /\ mayor \in Siguientes(ix, key) \cup {0}
        /\ menor = 0 /\ mayor = 0 => \A c \in Claves : ix[c] = 0
        /\ a = IF mayor # 0 THEN Columna(f, Unica, "anter")[mayor] ELSE menor
        /\ s = IF mayor # 0 THEN mayor
               ELSE IF menor # 0 THEN Columna(f, Unica, "proxi")[menor] ELSE 0

\* What a new record nw of values val changes in a file k that was f, as VsamFile sees it.
EnAlta(f, k, nw, val, a, s) ==
    /\ nw \notin Registros(f) /\ Registros(k) = Registros(f) \cup {nw}
    /\ \A i \in Llaves : Valor(k, i) = Inscrita(Valor(f, i), nw, val[i], 0, 0)
    /\ Columna(k, Unica, "anter") = Inscrita(Columna(f, Unica, "anter"), nw, a, s, nw)
    /\ Columna(k, Unica, "proxi") = Inscrita(Columna(f, Unica, "proxi"), nw, s, a, nw)
    /\ k.vpk = IF a = 0 THEN nw ELSE f.vpk
    /\ Indice(k, Unica, Claves) = [Indice(f, Unica, Claves) EXCEPT ![val[Unica]] = nw]
    /\ \A i \in Reps :
         LET t == Indice(f, i, Valores)[val[i]]
             n == IF t = 0 THEN 0 ELSE Columna(f, i, "cuant")[t] + 1
         IN  /\ Columna(k, i, "anter") = Inscrita(Columna(f, i, "anter"), nw, 0, t, nw)
             /\ Columna(k, i, "proxi") = Inscrita(Columna(f, i, "proxi"), nw, t, 0, 0)
             /\ Columna(k, i, "cuant") = Inscrita(Columna(f, i, "cuant"), nw, n, 0, 0)
             /\ Indice(k, i, Valores) = [Indice(f, i, Valores) EXCEPT ![val[i]] = nw]

\* The neighbours busca names are those of the index.
LEMMA EnHuecoEs ==
    ASSUME NEW f, NEW R, NEW T, Fichero(f, R, T), NEW key \in Claves, key \notin DOMAIN T[Unica].N,
           NEW b, Contiguas(T[Unica].N, b, key), b.menor \in R \cup {0}, b.mayor \in R \cup {0},
           NEW g, \A p \in R : g.dsk[p] = f.dsk[p]
    PROVE  EnHueco(f, key, b.menor, b.mayor, Vecindad(g, b).a, Vecindad(g, b).s)
<1> DEFINE N == T[Unica].N
           ix == Indice(f, Unica, Claves)
<1>1. Unica \in Llaves /\ R \subseteq Nat \ {0} /\ Vista(f, R, T)
  BY ConstantesArbol, RegistrosEs, VistaEs
<1>2. ix = [c \in Claves |-> TopeDe(N, c)]
  BY <1>1 DEF Vista
<1>3. \A c \in DOMAIN N : c \in Claves /\ N[c] \in R /\ N[c] # 0
  BY <1>1 DEF Fichero, Nombra, Dominio
<1>4. \A c \in Claves : ix[c] = IF c \in DOMAIN N THEN N[c] ELSE 0
  BY <1>2 DEF TopeDe
<1>5. key \notin DOMAIN N /\ Contiguas(N, b, key)
  OBVIOUS
<1> HIDE DEF N, ix
<1>6. \A c \in Claves : ix[c] # 0 <=> c \in DOMAIN N
  BY <1>3, <1>4
<1>7. ix[key] = 0
  BY <1>4, <1>5
<1>8. b.menor \in Previas(ix, key) \cup {0}
  <2>1. CASE b.menor # 0
    <3>1. PICK c \in DOMAIN N : /\ N[c] = b.menor /\ c < key
                                /\ \A d \in DOMAIN N : ~(c < d /\ d < key)
      BY <1>5, <2>1 DEF Contiguas
    <3>2. c \in Claves /\ ix[c] = b.menor
      BY <1>3, <1>4, <3>1
    <3>3. \A d \in Claves : c < d /\ d < key => ix[d] = 0
      BY <1>6, <3>1
    <3> QED BY <2>1, <3>1, <3>2, <3>3 DEF Previas
  <2>2. CASE b.menor = 0
    BY <2>2
  <2> QED BY <2>1, <2>2
<1>9. b.mayor \in Siguientes(ix, key) \cup {0}
  <2>1. CASE b.mayor # 0
    <3>1. PICK c \in DOMAIN N : /\ N[c] = b.mayor /\ key < c
                                /\ \A d \in DOMAIN N : ~(key < d /\ d < c)
      BY <1>5, <2>1 DEF Contiguas
    <3>2. c \in Claves /\ ix[c] = b.mayor
      BY <1>3, <1>4, <3>1
    <3>3. \A d \in Claves : key < d /\ d < c => ix[d] = 0
      BY <1>6, <3>1
    <3> QED BY <2>1, <3>1, <3>2, <3>3 DEF Siguientes
  <2>2. CASE b.mayor = 0
    BY <2>2
  <2> QED BY <2>1, <2>2
<1>10. b.menor = 0 /\ b.mayor = 0 => \A c \in Claves : ix[c] = 0
  BY <1>3, <1>4, <1>5 DEF Contiguas
<1> DEFINE a == Vecindad(g, b).a
           s == Vecindad(g, b).s
<1>11. \A p \in R : /\ Columna(f, Unica, "anter")[p] = g.dsk[p].ap[Unica].anter
                    /\ Columna(f, Unica, "proxi")[p] = g.dsk[p].ap[Unica].proxi
  BY <1>1 DEF Vista
<1>12. a = IF b.mayor # 0 THEN Columna(f, Unica, "anter")[b.mayor] ELSE b.menor
  <2>1. CASE b.mayor # 0
    <3>1. a = g.dsk[b.mayor].ap[Unica].anter
      BY <2>1 DEF Vecindad
    <3> HIDE DEF a
    <3> QED BY <1>11, <2>1, <3>1
  <2>2. CASE b.mayor = 0
    BY <2>2 DEF Vecindad
  <2> QED BY <2>1, <2>2
<1>13. s = IF b.mayor # 0 THEN b.mayor
           ELSE IF b.menor # 0 THEN Columna(f, Unica, "proxi")[b.menor] ELSE 0
  <2>1. CASE b.mayor # 0
    BY <2>1 DEF Vecindad
  <2>2. CASE b.mayor = 0 /\ b.menor = 0
    BY <2>2 DEF Vecindad
  <2>3. CASE b.mayor = 0 /\ b.menor # 0
    <3>1. s = g.dsk[b.menor].ap[Unica].proxi
      BY <2>3 DEF Vecindad
    <3> HIDE DEF s
    <3> QED BY <1>11, <2>3, <3>1
  <2> QED BY <2>1, <2>2, <2>3
<1> QED BY <1>7, <1>8, <1>9, <1>10, <1>12, <1>13 DEF EnHueco, ix

\* inclu puts the record among its neighbours and on top of the stacks of its values.
LEMMA EnAltaEs ==
    ASSUME NEW f, NEW R, NEW T, Fichero(f, R, T), NEW val \in Datos, NEW k, NEW U, NEW nw, NEW g,
           Incluido(f, k, R, T, U, val, nw, g)
    PROVE  \E menor, mayor, a, s : /\ EnHueco(f, val[Unica], menor, mayor, a, s)
                                   /\ EnAlta(f, k, nw, val, a, s)
<1> DEFINE Q == R \cup {nw}
           An(h, i, p) == h.dsk[p].ap[i].anter
           Pr(h, i, p) == h.dsk[p].ap[i].proxi
           Cu(h, i, p) == h.dsk[p].ap[i].cuant
           Va(h, i, p) == h.dsk[p].val[i]
           key == val[Unica]
<1>0. Unica \in Llaves /\ Reps \subseteq Llaves /\ R \subseteq Nat \ {0} /\ Unica \notin Reps
  BY ConstantesArbol, RegistrosEs DEF Reps
<1>1. /\ nw \in Nat \ {0} /\ nw \notin R
      /\ Escrita(g, Q, T, nw) /\ g.vpk = f.vpk
      /\ g.dsk[nw].val = val /\ \A p \in R : g.dsk[p] = f.dsk[p]
      /\ EnCurso(g, k, Q, T, U, nw, Llaves)
  BY DEF Incluido
<1>2. /\ Fichero(k, Q, U)
      /\ \A p \in Q : k.dsk[p].val = g.dsk[p].val
      /\ \A i \in Llaves : U[i].N = Con1(T[i].N, val[i], nw) /\ Enlazada(g, k, Q, T, nw, i)
  BY <1>1 DEF EnCurso
<1>3. Vista(f, R, T) /\ Vista(k, Q, U) /\ Q \ {nw} = R
  BY <1>1, <1>2, VistaEs
<1>4. /\ Registros(f) = R
      /\ \A i \in Llaves : /\ Valor(f, i) = [p \in R |-> Va(f, i, p)]
                           /\ Columna(f, i, "anter") = [p \in R |-> An(f, i, p)]
                           /\ Columna(f, i, "proxi") = [p \in R |-> Pr(f, i, p)]
                           /\ Columna(f, i, "cuant") = [p \in R |-> Cu(f, i, p)]
  BY <1>3 DEF Vista
<1>5. /\ Registros(k) = Q
      /\ \A i \in Llaves : /\ Valor(k, i) = [p \in Q |-> Va(k, i, p)]
                           /\ Columna(k, i, "anter") = [p \in Q |-> An(k, i, p)]
                           /\ Columna(k, i, "proxi") = [p \in Q |-> Pr(k, i, p)]
                           /\ Columna(k, i, "cuant") = [p \in Q |-> Cu(k, i, p)]
  BY <1>3 DEF Vista
<1>6. key \in Claves /\ key \notin DOMAIN T[Unica].N /\ \A i \in Reps : val[i] \in Valores
  BY <1>1 DEF Escrita, Datos
<1>7. \A N, c, x : TopeDe(Con1(N, x, nw), c) = IF c = x THEN nw ELSE TopeDe(N, c)
  BY DEF TopeDe, Con1
<1>8. \A i \in Llaves : Valor(k, i) = Inscrita(Valor(f, i), nw, val[i], 0, 0)
  <2> TAKE i \in Llaves
  <2>1. \A p \in R : Va(k, i, p) = Va(f, i, p) /\ p # 0
    BY <1>0, <1>1, <1>2
  <2>2. Va(k, i, nw) = val[i]
    BY <1>1, <1>2
  <2> DEFINE F == Valor(f, i)
             x == val[i]
  <2>3. F = [p \in R |-> Va(f, i, p)] /\ Valor(k, i) = [p \in Q |-> Va(k, i, p)]
    BY <1>4, <1>5
  <2> HIDE DEF Va, F, x
  <2>4. Inscrita(F, nw, x, 0, 0) = [p \in Q |-> IF p = nw THEN x ELSE IF p = 0 THEN 0 ELSE F[p]]
    BY <2>3 DEF Inscrita
  <2>5. \A p \in Q : Va(k, i, p) = IF p = nw THEN x ELSE IF p = 0 THEN 0 ELSE F[p]
    BY <2>1, <2>2, <2>3 DEF x
  <2> QED BY <2>3, <2>4, <2>5 DEF F, x
<1>9. Indice(k, Unica, Claves) = [Indice(f, Unica, Claves) EXCEPT ![key] = nw]
  <2>1. Indice(f, Unica, Claves) = [c \in Claves |-> TopeDe(T[Unica].N, c)]
    BY <1>3 DEF Vista
  <2>2. Indice(k, Unica, Claves) = [c \in Claves |-> TopeDe(U[Unica].N, c)]
    BY <1>3 DEF Vista
  <2>3. U[Unica].N = Con1(T[Unica].N, key, nw)
    BY <1>0, <1>2
  <2>4. \A c \in Claves : TopeDe(U[Unica].N, c) = IF c = key THEN nw ELSE TopeDe(T[Unica].N, c)
    BY <1>7, <2>3
  <2> HIDE DEF key
  <2> QED BY <2>1, <2>2, <2>4
<1>10. PICK b : /\ Contiguas(T[Unica].N, b, key)
                /\ b.menor \in R \cup {0} /\ b.mayor \in R \cup {0}
                /\ Encadenado(g, k, Q, nw, Vecindad(g, b).a, Vecindad(g, b).s)
  BY <1>0, <1>1, <1>2, <1>3 DEF Enlazada
<1> DEFINE a == Vecindad(g, b).a
           s == Vecindad(g, b).s
<1>11. EnHueco(f, key, b.menor, b.mayor, a, s)
  BY <1>1, <1>6, <1>10, EnHuecoEs
<1> HIDE DEF a, s
<1>12. /\ \A p \in Q : /\ An(k, Unica, p) = IF p = nw THEN a ELSE IF p = s THEN nw ELSE An(g, Unica, p)
                       /\ Pr(k, Unica, p) = IF p = nw THEN s ELSE IF p = a THEN nw ELSE Pr(g, Unica, p)
       /\ k.vpk = IF a = 0 THEN nw ELSE f.vpk
  BY <1>1, <1>10 DEF Encadenado, a, s
<1>13. \A i \in Llaves : \A p \in R : /\ An(g, i, p) = An(f, i, p) /\ Pr(g, i, p) = Pr(f, i, p)
                                      /\ Cu(g, i, p) = Cu(f, i, p)
  BY <1>1
<1>14. ASSUME NEW i \in Reps
       PROVE  LET t == TopeDe(T[i].N, val[i])
              IN  /\ t \in R \cup {0}
                  /\ \A p \in Q :
                       /\ An(k, i, p) = IF p = nw THEN 0 ELSE IF p = t THEN nw ELSE An(g, i, p)
                       /\ Pr(k, i, p) = IF p = nw THEN t ELSE Pr(g, i, p)
                       /\ Cu(k, i, p) = IF p = nw THEN (IF t = 0 THEN 0 ELSE Cu(g, i, t) + 1)
                                        ELSE Cu(g, i, p)
  <2> DEFINE t == TopeDe(T[i].N, val[i])
  <2>1. i \in Llaves /\ i # Unica
    BY <1>0
  <2>2. t \in R \cup {0}
    BY <2>1 DEF Fichero, Nombra, TopeDe
  <2>3. Apilado(g, k, Q, nw, i, t)
    BY <1>1, <1>2, <2>1 DEF Enlazada
  <2> HIDE DEF t
  <2>4. ASSUME NEW p \in Q
        PROVE  k.dsk[p].ap[i] =
                 IF p = nw THEN Apuns(0, t, IF t = 0 THEN 0 ELSE g.dsk[t].ap[i].cuant + 1)
                 ELSE IF p = t THEN Apuns(nw, Pr(g, i, p), Cu(g, i, p)) ELSE g.dsk[p].ap[i]
    BY <2>3 DEF Apilado
  <2>5. \A p \in Q :
          /\ An(k, i, p) = IF p = nw THEN 0 ELSE IF p = t THEN nw ELSE An(g, i, p)
          /\ Pr(k, i, p) = IF p = nw THEN t ELSE Pr(g, i, p)
          /\ Cu(k, i, p) = IF p = nw THEN (IF t = 0 THEN 0 ELSE Cu(g, i, t) + 1) ELSE Cu(g, i, p)
    <3> TAKE p \in Q
    <3>1. CASE p = nw
      BY <2>4, <3>1, ApunsEs
    <3>2. CASE p # nw /\ p = t
      BY <2>4, <3>2, ApunsEs
    <3>3. CASE p # nw /\ p # t
      BY <2>4, <3>3
    <3> QED BY <3>1, <3>2, <3>3
  <2> HIDE DEF An, Pr, Cu
  <2> QED BY <2>2, <2>5 DEF t
<1> HIDE DEF An, Pr, Cu, Va, key
<1>15. Columna(k, Unica, "anter") = Inscrita(Columna(f, Unica, "anter"), nw, a, s, nw)
  <2> DEFINE F == Columna(f, Unica, "anter")
  <2>1. F = [p \in R |-> An(f, Unica, p)] /\ Columna(k, Unica, "anter") = [p \in Q |-> An(k, Unica, p)]
    BY <1>0, <1>4, <1>5
  <2>2. \A p \in Q : An(k, Unica, p) = IF p = nw THEN a ELSE IF p = s THEN nw ELSE An(f, Unica, p)
    BY <1>0, <1>12, <1>13
  <2> HIDE DEF F
  <2>3. Inscrita(F, nw, a, s, nw) = [p \in Q |-> IF p = nw THEN a ELSE IF p = s THEN nw ELSE F[p]]
    BY <2>1 DEF Inscrita
  <2>4. \A p \in Q : An(k, Unica, p) = IF p = nw THEN a ELSE IF p = s THEN nw ELSE F[p]
    BY <2>1, <2>2
  <2> QED BY <2>1, <2>3, <2>4 DEF F
<1>16. Columna(k, Unica, "proxi") = Inscrita(Columna(f, Unica, "proxi"), nw, s, a, nw)
  <2> DEFINE F == Columna(f, Unica, "proxi")
  <2>1. F = [p \in R |-> Pr(f, Unica, p)] /\ Columna(k, Unica, "proxi") = [p \in Q |-> Pr(k, Unica, p)]
    BY <1>0, <1>4, <1>5
  <2>2. \A p \in Q : Pr(k, Unica, p) = IF p = nw THEN s ELSE IF p = a THEN nw ELSE Pr(f, Unica, p)
    BY <1>0, <1>12, <1>13
  <2> HIDE DEF F
  <2>3. Inscrita(F, nw, s, a, nw) = [p \in Q |-> IF p = nw THEN s ELSE IF p = a THEN nw ELSE F[p]]
    BY <2>1 DEF Inscrita
  <2>4. \A p \in Q : Pr(k, Unica, p) = IF p = nw THEN s ELSE IF p = a THEN nw ELSE F[p]
    BY <2>1, <2>2
  <2> QED BY <2>1, <2>3, <2>4 DEF F
<1>17. ASSUME NEW i \in Reps
       PROVE  LET t == Indice(f, i, Valores)[val[i]]
                  n == IF t = 0 THEN 0 ELSE Columna(f, i, "cuant")[t] + 1
              IN  /\ Columna(k, i, "anter") = Inscrita(Columna(f, i, "anter"), nw, 0, t, nw)
                  /\ Columna(k, i, "proxi") = Inscrita(Columna(f, i, "proxi"), nw, t, 0, 0)
                  /\ Columna(k, i, "cuant") = Inscrita(Columna(f, i, "cuant"), nw, n, 0, 0)
                  /\ Indice(k, i, Valores) = [Indice(f, i, Valores) EXCEPT ![val[i]] = nw]
  <2> DEFINE x == val[i]
             t == Indice(f, i, Valores)[x]
             n == IF t = 0 THEN 0 ELSE Columna(f, i, "cuant")[t] + 1
             A == Columna(f, i, "anter")
             P == Columna(f, i, "proxi")
             C == Columna(f, i, "cuant")
             I == Indice(f, i, Valores)
  <2>0. i \in Llaves /\ x \in Valores
    BY <1>0, <1>6
  <2>1. I = [c \in Valores |-> TopeDe(T[i].N, c)] /\ Indice(k, i, Valores) = [c \in Valores |-> TopeDe(U[i].N, c)]
    BY <1>3 DEF Vista
  <2>2. t = TopeDe(T[i].N, x)
    BY <2>0, <2>1
  <2>3. A = [p \in R |-> An(f, i, p)] /\ P = [p \in R |-> Pr(f, i, p)] /\ C = [p \in R |-> Cu(f, i, p)]
    BY <1>4, <2>0
  <2>4. /\ Columna(k, i, "anter") = [p \in Q |-> An(k, i, p)]
        /\ Columna(k, i, "proxi") = [p \in Q |-> Pr(k, i, p)]
        /\ Columna(k, i, "cuant") = [p \in Q |-> Cu(k, i, p)]
    BY <1>5, <2>0
  <2> HIDE DEF t
  <2>5. /\ t \in R \cup {0}
        /\ \A p \in Q :
              /\ An(k, i, p) = IF p = nw THEN 0 ELSE IF p = t THEN nw ELSE An(g, i, p)
              /\ Pr(k, i, p) = IF p = nw THEN t ELSE Pr(g, i, p)
              /\ Cu(k, i, p) = IF p = nw THEN (IF t = 0 THEN 0 ELSE Cu(g, i, t) + 1) ELSE Cu(g, i, p)
    BY <1>14, <2>2
  <2> HIDE DEF A, P, C
  <2>6. n = IF t = 0 THEN 0 ELSE Cu(g, i, t) + 1
    BY <1>13, <2>0, <2>3, <2>5 DEF C
  <2> HIDE DEF n, I, x
  <2>7. \A p \in R : p # 0 /\ p # nw
    BY <1>0, <1>1
  <2>8. \A p \in Q : /\ An(k, i, p) = IF p = nw THEN 0 ELSE IF p = t THEN nw ELSE A[p]
                     /\ Pr(k, i, p) = IF p = nw THEN t ELSE IF p = 0 THEN 0 ELSE P[p]
                     /\ Cu(k, i, p) = IF p = nw THEN n ELSE IF p = 0 THEN 0 ELSE C[p]
    <3> TAKE p \in Q
    <3>1. CASE p = nw
      BY <2>5, <2>6, <3>1
    <3>2. CASE p # nw
      <4>1. p \in R /\ p # 0 /\ A[p] = An(g, i, p) /\ P[p] = Pr(g, i, p) /\ C[p] = Cu(g, i, p)
        BY <1>13, <2>0, <2>3, <2>7, <3>2
      <4> QED BY <2>5, <3>2, <4>1
    <3> QED BY <3>1, <3>2
  <2>9. Columna(k, i, "anter") = Inscrita(A, nw, 0, t, nw)
    BY <2>3, <2>4, <2>8 DEF Inscrita
  <2>10. Columna(k, i, "proxi") = Inscrita(P, nw, t, 0, 0)
    BY <2>3, <2>4, <2>8 DEF Inscrita
  <2>11. Columna(k, i, "cuant") = Inscrita(C, nw, n, 0, 0)
    BY <2>3, <2>4, <2>8 DEF Inscrita
  <2>12. Indice(k, i, Valores) = [I EXCEPT ![x] = nw]
    <3>1. \A c \in Valores : TopeDe(U[i].N, c) = IF c = x THEN nw ELSE TopeDe(T[i].N, c)
      BY <1>2, <1>7, <2>0 DEF x
    <3> QED BY <2>1, <3>1
  <2> QED BY <2>9, <2>10, <2>11, <2>12 DEF A, P, C, I, t, n, x
<1>18. EnAlta(f, k, nw, val, a, s)
  BY <1>1, <1>4, <1>5, <1>8, <1>9, <1>12, <1>15, <1>16, <1>17 DEF EnAlta, key
<1> QED BY <1>11, <1>18 DEF key

\* A record that has its place in the file is VsamFile's new record.
LEMMA AltaAbstracta ==
    ASSUME NEW k, archivo' = k, NEW val \in Datos, NEW nw, NEW menor, NEW mayor, NEW a, NEW s,
           EnHueco(archivo, val[Unica], menor, mayor, a, s), EnAlta(archivo, k, nw, val, a, s),
           \A i \in Reps : Columna(k, i, "cuant")[nw] <= MaxCuant
    PROVE  Arch!Inclu(nw) /\ Archivo!Inclu(nw)
<1> DEFINE key == val[Unica]
           v == [i \in Reps |-> val[i]]
           ix == Indice(archivo, Unica, Claves)
           An == [i \in Llaves |-> Columna(archivo, i, "anter")]
           Pr == [i \in Llaves |-> Columna(archivo, i, "proxi")]
           Cu == [i \in Reps |-> Columna(archivo, i, "cuant")]
           Va == [i \in Reps |-> Valor(archivo, i)]
           Ix == [i \in Reps |-> Indice(archivo, i, Valores)]
           t(i) == Ix[i][v[i]]
           n(i) == IF t(i) = 0 THEN 0 ELSE Cu[i][t(i)] + 1
<1>0. Unica \in Llaves /\ Reps \subseteq Llaves /\ Unica \notin Reps /\ Llaves = Reps \cup {Unica}
  BY ConstantesArbol DEF Reps
<1>1. key \in Claves /\ v \in [Reps -> Valores]
  BY DEF Datos
<1>2. vpk' = k.vpk /\ vpk = archivo.vpk
  BY DEF archivo
<1>3. /\ nw \notin Registros(archivo) /\ Registros(k) = Registros(archivo) \cup {nw}
      /\ \A i \in Llaves : Valor(k, i) = Inscrita(Valor(archivo, i), nw, val[i], 0, 0)
      /\ Columna(k, Unica, "anter") = Inscrita(Columna(archivo, Unica, "anter"), nw, a, s, nw)
      /\ Columna(k, Unica, "proxi") = Inscrita(Columna(archivo, Unica, "proxi"), nw, s, a, nw)
      /\ k.vpk = IF a = 0 THEN nw ELSE archivo.vpk
      /\ Indice(k, Unica, Claves) = [ix EXCEPT ![key] = nw]
  BY DEF EnAlta
<1>4. ASSUME NEW i \in Reps
      PROVE  /\ Columna(k, i, "anter") = Inscrita(An[i], nw, 0, t(i), nw)
             /\ Columna(k, i, "proxi") = Inscrita(Pr[i], nw, t(i), 0, 0)
             /\ Columna(k, i, "cuant") = Inscrita(Cu[i], nw, n(i), 0, 0)
             /\ Indice(k, i, Valores) = [Ix[i] EXCEPT ![v[i]] = nw]
             /\ Valor(k, i) = Inscrita(Va[i], nw, v[i], 0, 0)
  <2>1. /\ An[i] = Columna(archivo, i, "anter") /\ Pr[i] = Columna(archivo, i, "proxi")
        /\ Cu[i] = Columna(archivo, i, "cuant") /\ Va[i] = Valor(archivo, i)
        /\ Ix[i] = Indice(archivo, i, Valores) /\ v[i] = val[i]
    BY <1>0
  <2> HIDE DEF An, Pr, Cu, Va, Ix, v
  <2>2. LET u == Indice(archivo, i, Valores)[val[i]]
            m == IF u = 0 THEN 0 ELSE Columna(archivo, i, "cuant")[u] + 1
        IN  /\ Columna(k, i, "anter") = Inscrita(Columna(archivo, i, "anter"), nw, 0, u, nw)
            /\ Columna(k, i, "proxi") = Inscrita(Columna(archivo, i, "proxi"), nw, u, 0, 0)
            /\ Columna(k, i, "cuant") = Inscrita(Columna(archivo, i, "cuant"), nw, m, 0, 0)
            /\ Indice(k, i, Valores) = [Indice(archivo, i, Valores) EXCEPT ![val[i]] = nw]
    BY DEF EnAlta
  <2> QED BY <1>0, <1>3, <2>1, <2>2
<1>5. /\ ix[key] = 0
      /\ menor \in Previas(ix, key) \cup {0} /\ mayor \in Siguientes(ix, key) \cup {0}
      /\ menor = 0 /\ mayor = 0 => \A c \in Claves : ix[c] = 0
      /\ a = IF mayor # 0 THEN An[Unica][mayor] ELSE menor
      /\ s = IF mayor # 0 THEN mayor ELSE IF menor # 0 THEN Pr[Unica][menor] ELSE 0
  BY <1>0 DEF EnHueco
<1>6. \A i \in Reps : n(i) <= MaxCuant
  <2> TAKE i \in Reps
  <2>1. Columna(k, i, "cuant")[nw] = n(i)
    BY <1>4 DEF Inscrita
  <2> QED BY <2>1
<1>7. /\ Columna(k, Unica, "anter") = Inscrita(An[Unica], nw, a, s, nw)
      /\ Columna(k, Unica, "proxi") = Inscrita(Pr[Unica], nw, s, a, nw)
      /\ Valor(k, Unica) = Inscrita(Valor(archivo, Unica), nw, key, 0, 0)
  BY <1>0, <1>3
<1>8. Arch!Inclu(nw)
  <2>1. \A F, p, y, x : Arch!Con(F, nw, x, p, y) = Inscrita(F, nw, x, p, y)
    BY DEF Arch!Con, Inscrita
  <2>2. Arch!Escribe(nw, key, v)
    <3>1. Valor(archivo, Unica)' = Arch!Con(Valor(archivo, Unica), nw, key, 0, 0)
      BY <1>7, <2>1
    <3>2. [i \in Reps |-> Valor(archivo, i)]' = [i \in Reps |-> Arch!Con(Va[i], nw, v[i], 0, 0)]
      <4>1. \A i \in Reps : Valor(k, i) = Arch!Con(Va[i], nw, v[i], 0, 0)
        <5> HIDE DEF Va, v, An, Pr, Cu, Ix, t, n
        <5> QED BY <1>4, <2>1
      <4>2. [i \in Reps |-> Valor(archivo, i)]' = [i \in Reps |-> Valor(k, i)]
        OBVIOUS
      <4> HIDE DEF Va, v
      <4> QED BY <4>1, <4>2
    <3> QED BY <3>1, <3>2 DEF Arch!Escribe
  <2>3. \A i \in Reps : Arch!Altura(i, v[i]) = n(i)
    BY DEF Arch!Altura
  <2>4. Arch!Enlaza(nw, key, v, a, s)
    <3>1. vpk' = IF a = 0 THEN nw ELSE vpk
      BY <1>2, <1>3
    <3>2. [i \in Llaves |-> Columna(archivo, i, "anter")]' =
            [i \in Arch!Llaves |-> IF i = Unica THEN Arch!Con(An[i], nw, a, s, nw)
                                 ELSE Arch!Con(An[i], nw, 0, t(i), nw)]
      <4>1. Arch!Llaves = Llaves
        BY <1>0 DEF Arch!Llaves
      <4>2. \A i \in Llaves : Columna(k, i, "anter") = IF i = Unica THEN Arch!Con(An[i], nw, a, s, nw)
                                                       ELSE Arch!Con(An[i], nw, 0, t(i), nw)
        BY <1>0, <1>4, <1>7, <2>1
      <4> QED BY <4>1, <4>2
    <3>3. [i \in Llaves |-> Columna(archivo, i, "proxi")]' =
            [i \in Arch!Llaves |-> IF i = Unica THEN Arch!Con(Pr[i], nw, s, a, nw)
                                 ELSE Arch!Con(Pr[i], nw, t(i), 0, 0)]
      <4>1. Arch!Llaves = Llaves
        BY <1>0 DEF Arch!Llaves
      <4>2. \A i \in Llaves : Columna(k, i, "proxi") = IF i = Unica THEN Arch!Con(Pr[i], nw, s, a, nw)
                                                       ELSE Arch!Con(Pr[i], nw, t(i), 0, 0)
        BY <1>0, <1>4, <1>7, <2>1
      <4> QED BY <4>1, <4>2
    <3>4. [i \in Reps |-> Columna(archivo, i, "cuant")]' =
            [i \in Reps |-> Arch!Con(Cu[i], nw, Arch!Altura(i, v[i]), 0, 0)]
      <4>1. \A i \in Reps : Columna(k, i, "cuant") = Arch!Con(Cu[i], nw, Arch!Altura(i, v[i]), 0, 0)
        <5> HIDE DEF Va, v, An, Pr, Cu, Ix, t, n
        <5> QED BY <1>4, <2>1, <2>3
      <4>2. [i \in Reps |-> Columna(archivo, i, "cuant")]' = [i \in Reps |-> Columna(k, i, "cuant")]
        OBVIOUS
      <4> HIDE DEF Cu, v
      <4> QED BY <4>1, <4>2
    <3>5. Indice(archivo, Unica, Claves)' = [ix EXCEPT ![key] = nw]
      BY <1>3
    <3>6. [i \in Reps |-> Indice(archivo, i, Valores)]' =
            [i \in Reps |-> [Ix[i] EXCEPT ![v[i]] = nw]]
      BY <1>4
    <3> QED BY <3>1, <3>2, <3>3, <3>4, <3>5, <3>6 DEF Arch!Enlaza
  <2>5. menor \in Arch!Menores(ix, key) \cup {0} /\ mayor \in Arch!Mayores(ix, key) \cup {0}
    BY <1>5 DEF Arch!Menores, Arch!Mayores, Previas, Siguientes
  <2>6. Arch!Vecindad(key, menor, mayor)
    BY <1>5 DEF Arch!Vecindad
  <2>7. Arch!Izq(menor, mayor) = a /\ Arch!Der(menor, mayor) = s
    BY <1>5 DEF Arch!Izq, Arch!Der
  <2>8. Registros(archivo)' = Registros(archivo) \cup {nw} /\ nw \notin Registros(archivo)
    BY <1>3
  <2>9. Arch!Enlaza(nw, key, v, Arch!Izq(menor, mayor), Arch!Der(menor, mayor))
    BY <2>4, <2>7
  <2>10. \A i \in Reps : Arch!Altura(i, v[i]) <= MaxCuant
    BY <1>6, <2>3
  <2> HIDE DEF key, v
  <2> QED BY <1>1, <1>5, <2>2, <2>5, <2>6, <2>8, <2>9, <2>10 DEF Arch!Inclu
<1>9. Archivo!Inclu(nw)
  <2>1. \A F, p, y, x : Archivo!Con(F, nw, x, p, y) = Inscrita(F, nw, x, p, y)
    BY DEF Archivo!Con, Inscrita
  <2>2. Archivo!Escribe(nw, key, v)
    <3>1. Valor(archivo, Unica)' = Archivo!Con(Valor(archivo, Unica), nw, key, 0, 0)
      BY <1>7, <2>1
    <3>2. [i \in Reps |-> Valor(archivo, i)]' = [i \in Reps |-> Archivo!Con(Va[i], nw, v[i], 0, 0)]
      <4>1. \A i \in Reps : Valor(k, i) = Archivo!Con(Va[i], nw, v[i], 0, 0)
        <5> HIDE DEF Va, v, An, Pr, Cu, Ix, t, n
        <5> QED BY <1>4, <2>1
      <4>2. [i \in Reps |-> Valor(archivo, i)]' = [i \in Reps |-> Valor(k, i)]
        OBVIOUS
      <4> HIDE DEF Va, v
      <4> QED BY <4>1, <4>2
    <3> QED BY <3>1, <3>2 DEF Archivo!Escribe
  <2>3. \A i \in Reps : Archivo!Altura(i, v[i]) = n(i)
    BY DEF Archivo!Altura
  <2>4. Archivo!Enlaza(nw, key, v, a, s)
    <3>1. vpk' = IF a = 0 THEN nw ELSE vpk
      BY <1>2, <1>3
    <3>2. [i \in Llaves |-> Columna(archivo, i, "anter")]' =
            [i \in Archivo!Llaves |-> IF i = Unica THEN Archivo!Con(An[i], nw, a, s, nw)
                                 ELSE Archivo!Con(An[i], nw, 0, t(i), nw)]
      <4>1. Archivo!Llaves = Llaves
        BY <1>0 DEF Archivo!Llaves
      <4>2. \A i \in Llaves : Columna(k, i, "anter") = IF i = Unica THEN Archivo!Con(An[i], nw, a, s, nw)
                                                       ELSE Archivo!Con(An[i], nw, 0, t(i), nw)
        BY <1>0, <1>4, <1>7, <2>1
      <4> QED BY <4>1, <4>2
    <3>3. [i \in Llaves |-> Columna(archivo, i, "proxi")]' =
            [i \in Archivo!Llaves |-> IF i = Unica THEN Archivo!Con(Pr[i], nw, s, a, nw)
                                 ELSE Archivo!Con(Pr[i], nw, t(i), 0, 0)]
      <4>1. Archivo!Llaves = Llaves
        BY <1>0 DEF Archivo!Llaves
      <4>2. \A i \in Llaves : Columna(k, i, "proxi") = IF i = Unica THEN Archivo!Con(Pr[i], nw, s, a, nw)
                                                       ELSE Archivo!Con(Pr[i], nw, t(i), 0, 0)
        BY <1>0, <1>4, <1>7, <2>1
      <4> QED BY <4>1, <4>2
    <3>4. [i \in Reps |-> Columna(archivo, i, "cuant")]' =
            [i \in Reps |-> Archivo!Con(Cu[i], nw, Archivo!Altura(i, v[i]), 0, 0)]
      <4>1. \A i \in Reps : Columna(k, i, "cuant") = Archivo!Con(Cu[i], nw, Archivo!Altura(i, v[i]), 0, 0)
        <5> HIDE DEF Va, v, An, Pr, Cu, Ix, t, n
        <5> QED BY <1>4, <2>1, <2>3
      <4>2. [i \in Reps |-> Columna(archivo, i, "cuant")]' = [i \in Reps |-> Columna(k, i, "cuant")]
        OBVIOUS
      <4> HIDE DEF Cu, v
      <4> QED BY <4>1, <4>2
    <3>5. Indice(archivo, Unica, Claves)' = [ix EXCEPT ![key] = nw]
      BY <1>3
    <3>6. [i \in Reps |-> Indice(archivo, i, Valores)]' =
            [i \in Reps |-> [Ix[i] EXCEPT ![v[i]] = nw]]
      BY <1>4
    <3> QED BY <3>1, <3>2, <3>3, <3>4, <3>5, <3>6 DEF Archivo!Enlaza
  <2>5. menor \in Archivo!Menores(ix, key) \cup {0} /\ mayor \in Archivo!Mayores(ix, key) \cup {0}
    BY <1>5 DEF Archivo!Menores, Archivo!Mayores, Previas, Siguientes
  <2>6. Archivo!Vecindad(key, menor, mayor)
    BY <1>5 DEF Archivo!Vecindad
  <2>7. Archivo!Izq(menor, mayor) = a /\ Archivo!Der(menor, mayor) = s
    BY <1>5 DEF Archivo!Izq, Archivo!Der
  <2>8. Registros(archivo)' = Registros(archivo) \cup {nw} /\ nw \notin Registros(archivo)
    BY <1>3
  <2>9. Archivo!Enlaza(nw, key, v, Archivo!Izq(menor, mayor), Archivo!Der(menor, mayor))
    BY <2>4, <2>7
  <2>10. \A i \in Reps : Archivo!Altura(i, v[i]) <= MaxCuant
    BY <1>6, <2>3
  <2> HIDE DEF key, v
  <2> QED BY <1>1, <1>5, <2>2, <2>5, <2>6, <2>8, <2>9, <2>10 DEF Archivo!Inclu
<1> QED BY <1>8, <1>9

\* And what a record leaves behind is what VsamFile's deleted record does.
LEMMA BajaAbstracta ==
    ASSUME NEW k, archivo' = k, NEW lug, EnBaja(archivo, k, lug)
    PROVE  Arch!Vdel(lug) /\ Archivo!Vdel(lug)
<1> DEFINE ix == Indice(archivo, Unica, Claves)
           key == Valor(archivo, Unica)[lug]
           An == [i \in Llaves |-> Columna(archivo, i, "anter")]
           Pr == [i \in Llaves |-> Columna(archivo, i, "proxi")]
           Cu == [i \in Reps |-> Columna(archivo, i, "cuant")]
           Va == [i \in Reps |-> Valor(archivo, i)]
           Ix == [i \in Reps |-> Indice(archivo, i, Valores)]
<1>0. Unica \in Llaves /\ Reps \subseteq Llaves /\ Unica \notin Reps /\ Llaves = Reps \cup {Unica}
  BY ConstantesArbol DEF Reps
<1>1. vpk' = k.vpk /\ vpk = archivo.vpk
  BY DEF archivo
<1>2. /\ \A i \in Llaves : An[i] = Columna(archivo, i, "anter") /\ Pr[i] = Columna(archivo, i, "proxi")
      /\ \A i \in Reps : /\ Cu[i] = Columna(archivo, i, "cuant") /\ Va[i] = Valor(archivo, i)
                          /\ Ix[i] = Indice(archivo, i, Valores)
  OBVIOUS
<1>3. /\ lug \in Registros(archivo) /\ Registros(k) = Registros(archivo) \ {lug}
      /\ \A i \in Llaves :
           LET an == Columna(archivo, i, "anter")
               pr == Columna(archivo, i, "proxi")
           IN  /\ Valor(k, i) = Quitada(Valor(archivo, i), lug, 0, 0)
               /\ Columna(k, i, "anter") = Quitada(an, lug, pr[lug], an[lug])
               /\ Columna(k, i, "proxi") = Quitada(pr, lug, an[lug], pr[lug])
               /\ Columna(k, i, "cuant") = Quitada(Columna(archivo, i, "cuant"), lug, 0, 0)
      /\ k.vpk = IF Columna(archivo, Unica, "anter")[lug] = 0 THEN Columna(archivo, Unica, "proxi")[lug]
                 ELSE archivo.vpk
      /\ Indice(k, Unica, Claves) = [ix EXCEPT ![key] = 0]
      /\ \A i \in Reps :
           Indice(k, i, Valores) =
             IF Columna(archivo, i, "anter")[lug] = 0
             THEN [Indice(archivo, i, Valores) EXCEPT
                     ![Valor(archivo, i)[lug]] = Columna(archivo, i, "proxi")[lug]]
             ELSE Indice(archivo, i, Valores)
  BY DEF EnBaja
<1> HIDE DEF ix, key, An, Pr, Cu, Va, Ix
<1>4. ASSUME NEW i \in Llaves
      PROVE  /\ Columna(k, i, "anter") = Quitada(An[i], lug, Pr[i][lug], An[i][lug])
             /\ Columna(k, i, "proxi") = Quitada(Pr[i], lug, An[i][lug], Pr[i][lug])
  BY <1>2, <1>3
<1>5. ASSUME NEW i \in Reps
      PROVE  /\ Columna(k, i, "cuant") = Quitada(Cu[i], lug, 0, 0)
             /\ Valor(k, i) = Quitada(Va[i], lug, 0, 0)
             /\ Indice(k, i, Valores) = IF An[i][lug] = 0 THEN [Ix[i] EXCEPT ![Va[i][lug]] = Pr[i][lug]]
                                        ELSE Ix[i]
  BY <1>0, <1>2, <1>3
<1>6. /\ Valor(k, Unica) = Quitada(Valor(archivo, Unica), lug, 0, 0)
      /\ k.vpk = IF An[Unica][lug] = 0 THEN Pr[Unica][lug] ELSE vpk
      /\ Indice(k, Unica, Claves) = [ix EXCEPT ![key] = 0]
  BY <1>0, <1>1, <1>2, <1>3
<1>7. Arch!Vdel(lug)
  <2>1. \A F, p, y : Arch!Sin(F, lug, p, y) = Quitada(F, lug, p, y)
    BY DEF Arch!Sin, Quitada
  <2>2. Arch!Llaves = Llaves
    BY <1>0 DEF Arch!Llaves
  <2>3. Registros(archivo)' = Registros(archivo) \ {lug} /\ lug \in Registros(archivo)
    BY <1>3
  <2>4. Valor(archivo, Unica)' = Arch!Sin(Valor(archivo, Unica), lug, 0, 0)
    BY <1>6, <2>1
  <2>5. [i \in Reps |-> Valor(archivo, i)]' = [i \in Reps |-> Arch!Sin(Va[i], lug, 0, 0)]
    <3>1. \A i \in Reps : Valor(k, i) = Arch!Sin(Va[i], lug, 0, 0)
      BY <1>5, <2>1
    <3>2. [i \in Reps |-> Valor(archivo, i)]' = [i \in Reps |-> Valor(k, i)]
      OBVIOUS
    <3> QED BY <3>1, <3>2
  <2>6. [i \in Reps |-> Columna(archivo, i, "cuant")]' = [i \in Reps |-> Arch!Sin(Cu[i], lug, 0, 0)]
    <3>1. \A i \in Reps : Columna(k, i, "cuant") = Arch!Sin(Cu[i], lug, 0, 0)
      BY <1>5, <2>1
    <3>2. [i \in Reps |-> Columna(archivo, i, "cuant")]' = [i \in Reps |-> Columna(k, i, "cuant")]
      OBVIOUS
    <3> QED BY <3>1, <3>2
  <2>7. [i \in Llaves |-> Columna(archivo, i, "anter")]' =
          [i \in Arch!Llaves |-> Arch!Sin(An[i], lug, Pr[i][lug], An[i][lug])]
    <3>1. \A i \in Llaves : Columna(k, i, "anter") = Arch!Sin(An[i], lug, Pr[i][lug], An[i][lug])
      BY <1>4, <2>1
    <3>2. [i \in Llaves |-> Columna(archivo, i, "anter")]' = [i \in Llaves |-> Columna(k, i, "anter")]
      OBVIOUS
    <3> QED BY <2>2, <3>1, <3>2
  <2>8. [i \in Llaves |-> Columna(archivo, i, "proxi")]' =
          [i \in Arch!Llaves |-> Arch!Sin(Pr[i], lug, An[i][lug], Pr[i][lug])]
    <3>1. \A i \in Llaves : Columna(k, i, "proxi") = Arch!Sin(Pr[i], lug, An[i][lug], Pr[i][lug])
      BY <1>4, <2>1
    <3>2. [i \in Llaves |-> Columna(archivo, i, "proxi")]' = [i \in Llaves |-> Columna(k, i, "proxi")]
      OBVIOUS
    <3> QED BY <2>2, <3>1, <3>2
  <2>9. vpk' = Arch!Primero(lug)
    BY <1>1, <1>6 DEF Arch!Primero, An, Pr
  <2>10. Indice(archivo, Unica, Claves)' = Arch!Olvida(lug)
    BY <1>6 DEF Arch!Olvida, ix, key
  <2>11. [i \in Reps |-> Indice(archivo, i, Valores)]' = [i \in Reps |-> Arch!Topes(i, lug)]
    <3>1. \A i \in Reps : Arch!Topes(i, lug) = IF An[i][lug] = 0 THEN [Ix[i] EXCEPT ![Va[i][lug]] = Pr[i][lug]]
                                            ELSE Ix[i]
      BY DEF Arch!Topes, An, Ix, Va, Pr
    <3>2. \A i \in Reps : Indice(k, i, Valores) = Arch!Topes(i, lug)
      BY <1>5, <3>1
    <3>3. [i \in Reps |-> Indice(archivo, i, Valores)]' = [i \in Reps |-> Indice(k, i, Valores)]
      OBVIOUS
    <3> QED BY <3>2, <3>3
  <2> QED BY <2>3, <2>4, <2>5, <2>6, <2>7, <2>8, <2>9, <2>10, <2>11 DEF Arch!Vdel, An, Pr, Cu, Va
<1>8. Archivo!Vdel(lug)
  <2>1. \A F, p, y : Archivo!Sin(F, lug, p, y) = Quitada(F, lug, p, y)
    BY DEF Archivo!Sin, Quitada
  <2>2. Archivo!Llaves = Llaves
    BY <1>0 DEF Archivo!Llaves
  <2>3. Registros(archivo)' = Registros(archivo) \ {lug} /\ lug \in Registros(archivo)
    BY <1>3
  <2>4. Valor(archivo, Unica)' = Archivo!Sin(Valor(archivo, Unica), lug, 0, 0)
    BY <1>6, <2>1
  <2>5. [i \in Reps |-> Valor(archivo, i)]' = [i \in Reps |-> Archivo!Sin(Va[i], lug, 0, 0)]
    <3>1. \A i \in Reps : Valor(k, i) = Archivo!Sin(Va[i], lug, 0, 0)
      BY <1>5, <2>1
    <3>2. [i \in Reps |-> Valor(archivo, i)]' = [i \in Reps |-> Valor(k, i)]
      OBVIOUS
    <3> QED BY <3>1, <3>2
  <2>6. [i \in Reps |-> Columna(archivo, i, "cuant")]' = [i \in Reps |-> Archivo!Sin(Cu[i], lug, 0, 0)]
    <3>1. \A i \in Reps : Columna(k, i, "cuant") = Archivo!Sin(Cu[i], lug, 0, 0)
      BY <1>5, <2>1
    <3>2. [i \in Reps |-> Columna(archivo, i, "cuant")]' = [i \in Reps |-> Columna(k, i, "cuant")]
      OBVIOUS
    <3> QED BY <3>1, <3>2
  <2>7. [i \in Llaves |-> Columna(archivo, i, "anter")]' =
          [i \in Archivo!Llaves |-> Archivo!Sin(An[i], lug, Pr[i][lug], An[i][lug])]
    <3>1. \A i \in Llaves : Columna(k, i, "anter") = Archivo!Sin(An[i], lug, Pr[i][lug], An[i][lug])
      BY <1>4, <2>1
    <3>2. [i \in Llaves |-> Columna(archivo, i, "anter")]' = [i \in Llaves |-> Columna(k, i, "anter")]
      OBVIOUS
    <3> QED BY <2>2, <3>1, <3>2
  <2>8. [i \in Llaves |-> Columna(archivo, i, "proxi")]' =
          [i \in Archivo!Llaves |-> Archivo!Sin(Pr[i], lug, An[i][lug], Pr[i][lug])]
    <3>1. \A i \in Llaves : Columna(k, i, "proxi") = Archivo!Sin(Pr[i], lug, An[i][lug], Pr[i][lug])
      BY <1>4, <2>1
    <3>2. [i \in Llaves |-> Columna(archivo, i, "proxi")]' = [i \in Llaves |-> Columna(k, i, "proxi")]
      OBVIOUS
    <3> QED BY <2>2, <3>1, <3>2
  <2>9. vpk' = Archivo!Primero(lug)
    BY <1>1, <1>6 DEF Archivo!Primero, An, Pr
  <2>10. Indice(archivo, Unica, Claves)' = Archivo!Olvida(lug)
    BY <1>6 DEF Archivo!Olvida, ix, key
  <2>11. [i \in Reps |-> Indice(archivo, i, Valores)]' = [i \in Reps |-> Archivo!Topes(i, lug)]
    <3>1. \A i \in Reps : Archivo!Topes(i, lug) = IF An[i][lug] = 0 THEN [Ix[i] EXCEPT ![Va[i][lug]] = Pr[i][lug]]
                                            ELSE Ix[i]
      BY DEF Archivo!Topes, An, Ix, Va, Pr
    <3>2. \A i \in Reps : Indice(k, i, Valores) = Archivo!Topes(i, lug)
      BY <1>5, <3>1
    <3>3. [i \in Reps |-> Indice(archivo, i, Valores)]' = [i \in Reps |-> Indice(k, i, Valores)]
      OBVIOUS
    <3> QED BY <3>2, <3>3
  <2> QED BY <2>3, <2>4, <2>5, <2>6, <2>7, <2>8, <2>9, <2>10, <2>11 DEF Archivo!Vdel, An, Pr, Cu, Va
<1> QED BY <1>7, <1>8

-----------------------------------------------------------------------------
(* The invariant *)

\* The file has its trees, and what VsamFile's invariant says of its records.
Bien    == \E T : Fichero(archivo, Registros(archivo), T)
IDisco  == Bien /\ Arch!IInv

\* The assumptions of VsamFile hold of what VsamDisco gives it.
LEMMA ConstantesDeArchivo ==
    /\ Claves \subseteq Nat /\ Unica \notin Reps /\ 1..Bloques \subseteq Nat \ {0} /\ MaxCuant \in Nat
  BY ConstantesDisco DEF Reps

\* The file that 'O' creates is as it should be.
LEMMA IDiscoInicial ==
    ASSUME Init
    PROVE  IDisco /\ Archivo!Init
<1>1. PICK T : Fichero(archivo, {}, T) /\ \A i \in Llaves : DOMAIN T[i].N = {}
  BY FicheroInicial
<1>2. Vista(archivo, {}, T)
  BY <1>1, VistaEs
<1>3. Unica \in Llaves /\ Reps \subseteq Llaves /\ Llaves = Reps \cup {Unica} /\ vpk = 0
  BY ConstantesArbol DEF Reps, Init
<1>4. Registros(archivo) = {}
  BY <1>2 DEF Vista
<1>5. /\ \A i \in Llaves : /\ Valor(archivo, i) = [p \in {} |-> 0]
                           /\ Columna(archivo, i, "anter") = [p \in {} |-> 0]
                           /\ Columna(archivo, i, "proxi") = [p \in {} |-> 0]
                           /\ Columna(archivo, i, "cuant") = [p \in {} |-> 0]
  BY <1>4 DEF Valor, Columna
<1>6. /\ Indice(archivo, Unica, Claves) = [c \in Claves |-> 0]
      /\ \A i \in Reps : Indice(archivo, i, Valores) = [c \in Valores |-> 0]
  BY <1>1, <1>2, <1>3 DEF Vista, TopeDe
<1>7. Arch!Init
  BY <1>3, <1>4, <1>5, <1>6 DEF Arch!Init, Arch!Llaves
<1>8. Archivo!Init
  BY <1>3, <1>4, <1>5, <1>6 DEF Archivo!Init, Archivo!Llaves
<1>9. Arch!IInv
  BY <1>7, Arch!InvInicial, ConstantesDeArchivo
<1> QED BY <1>1, <1>4, <1>8, <1>9 DEF IDisco, Bien

\* A new record keeps the file so, and is one of VsamFile's.
LEMMA PasoInclu ==
    ASSUME IDisco, NEW val \in Datos, Busca(archivo, Unica, val[Unica]).rec = -1,
           Cupo(Incluye(archivo, val)), Guarda(Incluye(archivo, val))
    PROVE  Bien' /\ \E nw \in 1..Bloques : Arch!Inclu(nw) /\ Archivo!Inclu(nw)
<1> DEFINE f == archivo
           R == Registros(f)
           k == Incluye(f, val)
           key == val[Unica]
<1>1. PICK T : Fichero(f, R, T)
  BY DEF IDisco, Bien
<1>2. Unica \in Llaves /\ key \in Claves /\ key \in Nat
  BY ConstantesArbol, ConstantesDisco DEF Datos
<1>3. SanaUnica(f, R, T[Unica].N)
  BY <1>1, VistaEs, SanaUnicaEs DEF IDisco
<1>4. \A p \in R : Apunta(f, R, Unica, p)
  BY <1>3 DEF SanaUnica
<1>5. key \notin DOMAIN T[Unica].N
  <2> SUFFICES ASSUME key \in DOMAIN T[Unica].N PROVE FALSE
    OBVIOUS
  <2>1. Hallado(f, T[Unica], Busca(f, Unica, key), key)
    BY <1>1, <1>2, HalladoEs
  <2>2. Busca(f, Unica, key).rec = T[Unica].N[key]
    BY <2>1 DEF Hallado
  <2>3. T[Unica].N[key] \in R /\ R \subseteq Nat \ {0}
    BY <1>1, <1>2, RegistrosEs DEF Fichero, Nombra
  <2> QED BY <2>2, <2>3
<1>6. Cupo(k) /\ dsk' = k.dsk /\ pad1' = k.pad1 /\ kpos' = k.kpos /\ vpk' = k.vpk
  BY DEF Guarda
<1> HIDE DEF f, R
<1>7. \E U, nw, g : Incluido(f, k, R, T, U, val, nw, g)
  BY <1>1, <1>4, <1>5, IncluyeEs
<1> HIDE DEF k
<1>8. PICK U, nw, g : Incluido(f, k, R, T, U, val, nw, g)
  BY <1>7
<1>9. Fichero(k, R \cup {nw}, U) /\ nw \in R \cup {nw}
  BY <1>8 DEF Incluido, EnCurso
<1>10. /\ Registros(k) = R \cup {nw} /\ R \cup {nw} \subseteq 1..Len(k.dsk) /\ Len(k.dsk) \in Nat
       /\ k = [dsk |-> k.dsk, pad1 |-> k.pad1, kpos |-> k.kpos, vpk |-> k.vpk]
  BY <1>9, RegistrosEs
<1>11. archivo' = k
  BY <1>6, <1>10 DEF archivo
<1>12. nw \in 1..Bloques
  <2>1. Len(k.dsk) <= Bloques
    BY <1>6 DEF Cupo
  <2> QED BY <1>9, <1>10, <2>1, ConstantesDisco
<1>13. PICK menor, mayor, a, s : /\ EnHueco(f, key, menor, mayor, a, s)
                                 /\ EnAlta(f, k, nw, val, a, s)
  BY <1>1, <1>8, EnAltaEs
<1>14. \A i \in Reps : Columna(k, i, "cuant")[nw] <= MaxCuant
  <2>1. \A i \in Reps : Columna(k, i, "cuant")[nw] = k.dsk[nw].ap[i].cuant
    BY <1>9, VistaEs DEF Vista, Reps
  <2> QED BY <1>6, <1>9, <1>10, <2>1 DEF Cupo
<1>15. Arch!Inclu(nw) /\ Archivo!Inclu(nw)
  BY <1>11, <1>13, <1>14, AltaAbstracta DEF f
<1>16. Bien'
  <2>1. Fichero(k, Registros(k), U)
    BY <1>9, <1>10
  <2> QED BY <1>11, <2>1 DEF Bien
<1> QED BY <1>12, <1>15, <1>16

\* So does a deleted one.
LEMMA PasoVdel ==
    ASSUME IDisco, NEW lug \in Registros(archivo), Guarda(Borra(archivo, lug))
    PROVE  Bien' /\ lug \in 1..Bloques /\ Arch!Vdel(lug) /\ Archivo!Vdel(lug)
<1> DEFINE f == archivo
           R == Registros(f)
           k == Borra(f, lug)
<1>1. PICK T : Fichero(f, R, T)
  BY DEF IDisco, Bien
<1>2. Vista(f, R, T) /\ Arch!IInv
  BY <1>1, VistaEs DEF IDisco
<1>3. SanaUnica(f, R, T[Unica].N) /\ \A i \in Reps : SanaRep(f, R, T[i].N, i)
  BY <1>2, SanaUnicaEs, SanaRepEs
<1>4. lug \in R /\ dsk' = k.dsk /\ pad1' = k.pad1 /\ kpos' = k.kpos /\ vpk' = k.vpk
  BY DEF Guarda
<1>5. lug \in 1..Bloques
  BY <1>2 DEF Arch!IInv, Arch!TypeOK
<1> HIDE DEF f, R
<1>6. SinRastro(f, R, T, lug)
  BY <1>1, <1>3, <1>4, SinRastroEs
<1>7. \E U, h : Borrado(f, k, R, T, U, lug, h)
  BY <1>1, <1>4, <1>6, BorraEs
<1> HIDE DEF k
<1>8. PICK U, h : Borrado(f, k, R, T, U, lug, h)
  BY <1>7
<1>9. Fichero(k, R \ {lug}, U)
  BY <1>8 DEF Borrado
<1>10. /\ Registros(k) = R \ {lug}
       /\ k = [dsk |-> k.dsk, pad1 |-> k.pad1, kpos |-> k.kpos, vpk |-> k.vpk]
  BY <1>9, RegistrosEs
<1>11. archivo' = k
  BY <1>4, <1>10 DEF archivo
<1>12. EnBaja(f, k, lug)
  BY <1>1, <1>4, <1>6, <1>8, EnBajaEs
<1>13. Arch!Vdel(lug) /\ Archivo!Vdel(lug)
  BY <1>11, <1>12, BajaAbstracta DEF f
<1>14. Bien'
  <2>1. Fichero(k, Registros(k), U)
    BY <1>9, <1>10
  <2> QED BY <1>11, <2>1 DEF Bien
<1> QED BY <1>5, <1>13, <1>14

\* Every step keeps the file so, and is a step of VsamFile or changes nothing there.
LEMMA PasoDisco ==
    ASSUME IDisco, [Next]_vars
    PROVE  IDisco' /\ [Archivo!Next]_(Archivo!vars)
<1>1. ASSUME NEW val, Inclu(val) PROVE IDisco' /\ [Archivo!Next]_(Archivo!vars)
  <2>1. Bien' /\ \E nw \in 1..Bloques : Arch!Inclu(nw) /\ Archivo!Inclu(nw)
    BY <1>1, PasoInclu DEF Inclu
  <2>2. Arch!Next /\ Archivo!Next
    BY <2>1 DEF Arch!Next, Archivo!Next
  <2>3. Arch!IInv'
    BY <2>2, Arch!InvPaso, ConstantesDeArchivo DEF IDisco
  <2> QED BY <2>1, <2>2, <2>3 DEF IDisco
<1>2. ASSUME NEW lug \in DOMAIN dsk, Vdel(lug) PROVE IDisco' /\ [Archivo!Next]_(Archivo!vars)
  <2>0. lug \in Registros(archivo)
    BY <1>2 DEF Vdel, Registros, archivo
  <2>1. Bien' /\ lug \in 1..Bloques /\ Arch!Vdel(lug) /\ Archivo!Vdel(lug)
    BY <1>2, <2>0, PasoVdel DEF Vdel
  <2>2. Arch!Next /\ Archivo!Next
    BY <2>1 DEF Arch!Next, Archivo!Next
  <2>3. Arch!IInv'
    BY <2>2, Arch!InvPaso, ConstantesDeArchivo DEF IDisco
  <2> QED BY <2>1, <2>2, <2>3 DEF IDisco
<1>3. ASSUME UNCHANGED vars PROVE IDisco' /\ [Archivo!Next]_(Archivo!vars)
  <2>1. archivo' = archivo /\ vpk' = vpk
    BY <1>3 DEF vars, archivo
  <2>2. UNCHANGED Archivo!vars
    BY <2>1 DEF Archivo!vars
  <2>3. UNCHANGED Arch!vars
    BY <2>1 DEF Arch!vars
  <2>4. Arch!IInv'
    BY <2>3, Arch!InvPaso, ConstantesDeArchivo DEF IDisco
  <2>5. Bien'
    BY <2>1 DEF IDisco, Bien
  <2> QED BY <2>2, <2>4, <2>5 DEF IDisco
<1> QED BY <1>1, <1>2, <1>3 DEF Next

\* The inductive invariant of the file on disk: blocks, trees, chains and stacks, whatever
\* inclu and vdel do to it.
THEOREM InvarianteDisco == Spec => []IDisco
<1>1. Init => IDisco
  BY IDiscoInicial
<1>2. IDisco /\ [Next]_vars => IDisco'
  BY PasoDisco
<1> QED BY <1>1, <1>2, PTL DEF Spec

\* Splits, loans and merges always leave trees that separate, balanced and half full
\* (vsamfun.c, inserta, baja and forma).
THEOREM ArbolSiempreB == Spec => []ArbolB
<1>1. IDisco => ArbolB
  BY ArbolBEs DEF IDisco, Bien
<1> QED BY <1>1, InvarianteDisco, PTL

\* No block is ever lost or used twice (frsp and libera).
THEOREM SinFugasNunca == Spec => []SinFugas
<1>1. IDisco => SinFugas
  BY SinFugasEs DEF IDisco, Bien
<1> QED BY <1>1, InvarianteDisco, PTL

\* busca always finds each value with its record, and the neighbours of any other.
THEOREM BuscaSiempreVecinos == Spec => []BuscaVecinos
<1>1. IDisco => BuscaVecinos
  BY BuscaVecinosEs DEF IDisco, Bien
<1> QED BY <1>1, InvarianteDisco, PTL

\* inclu and vdel, with all their blocks and trees, do what VsamFile says and no more.
THEOREM DiscoImplementaArchivo == Spec => ImplementaArchivo
<1>1. Init => Archivo!Init
  BY IDiscoInicial
<1>2. IDisco /\ [Next]_vars => [Archivo!Next]_(Archivo!vars)
  BY PasoDisco
<1> QED BY <1>1, <1>2, InvarianteDisco, PTL DEF Spec, ImplementaArchivo, Archivo!Spec
=============================================================================

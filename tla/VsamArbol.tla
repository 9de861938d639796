----------------------------- MODULE VsamArbol -----------------------------
(***************************************************************************)
(* The blocks of a VSAM file and the B-tree of each key (vsamfun.c).       *)
(*                                                                         *)
(* A file f has the header's pointers, pad1 (the free chain), kpos (the    *)
(* root cluster of each key) and vpk, and the blocks: dsk[p] is the block  *)
(* at position p.  A block is a cluster (struct klug with its slots), a    *)
(* record with the pointers of each key (struct apuns), or free.  A        *)
(* cluster holds up to four slots [k, nm, may]: a key, its record and the  *)
(* child holding greater keys; ant is the leftmost child (nantl), nkeys is *)
(* Len(ll).  Positions are block numbers: 0 is the null position and the   *)
(* end of the file is Len(dsk) + 1; since frsp reuses a block for one of   *)
(* the same size only, a block never overlaps another.                     *)
(***************************************************************************)
EXTENDS Paseo, Integers, Sequences, SequencesExt, FiniteSets

CONSTANTS Orden,   \* the keys of the file, in the order of the header (strk)
          Unica,   \* the one without repetition (rep = 0)
          TamK,    \* TamK[i]: size of the clusters of key i
          TamR     \* size of the records

Llaves == ToSet(Orden)
Reps   == Llaves \ {Unica}

ASSUME ConstantesArbol ==
    /\ Orden \in Seq(Llaves) /\ Unica \in Llaves
    /\ \A m, n \in DOMAIN Orden : Orden[m] = Orden[n] => m = n
    /\ DOMAIN TamK = Llaves

TK == 4                                 \* slots of a cluster
\* A cluster without room for a slot, and one with too few.
Lleno(c) == Len(c.ll) = TK
Debil(c) == Len(c.ll) < 2

Ranura(k, nm, may)  == [k |-> k, nm |-> nm, may |-> may]
Klug(ant, ll)       == [ant |-> ant, ll |-> ll]
Apuns(a, s, n)      == [anter |-> a, proxi |-> s, cuant |-> n]
Registro(val, ap)   == [val |-> val, ap |-> ap]
Libre(sig, tam)     == [sig |-> sig, tam |-> tam]
EsLibre(b)          == "sig" \in DOMAIN b
EsRegistro(b)       == "val" \in DOMAIN b

-----------------------------------------------------------------------------
(* Blocks *)

\* renu, and the write of a record: at the end of the file if frsp sent it there.
Renu(f, lug, b) ==
    [f EXCEPT !.dsk = IF lug = Len(f.dsk) + 1 THEN Append(f.dsk, b)
                                              ELSE [f.dsk EXCEPT ![lug] = b]]

\* The free chain of a file: the positions that frsp visits, from pad1 on.
Libres(f) ==
    Desde(f.pad1, [p \in {p \in DOMAIN f.dsk : EsLibre(f.dsk[p])} |-> f.dsk[p].sig], Len(f.dsk))

\* A wrong unlinking of a block from the middle of the chain: what followed it
\* stays behind.
SacaCorta(f, na, lug) == IF na = 0 THEN [f EXCEPT !.pad1 = f.dsk[lug].sig]
                         ELSE [f EXCEPT !.dsk[na].sig = 0]
\* frsp takes lug, which follows na, out of the chain.
Saca(f, na, lug) == IF na = 0 THEN [f EXCEPT !.pad1 = f.dsk[lug].sig]
                    ELSE [f EXCEPT !.dsk[na].sig = f.dsk[lug].sig]

\* The first of the places S whose block has size tam leaves the chain; if there is none,
\* the end of the file.
Toma(f, S, tam) ==
    LET buenos == {m \in DOMAIN S : S[m] # 0 /\ f.dsk[S[m]].tam = tam}
        n == CHOOSE n \in buenos : \A m \in buenos : n <= m
    IN  IF buenos = {} THEN [lug |-> Len(f.dsk) + 1, f |-> f]
        ELSE [lug |-> S[n], f |-> Saca(f, IF n = 0 THEN 0 ELSE S[n - 1], S[n])]
\* frsp: a block for something of size tam.
Frsp(f, tam) == Toma(f, Libres(f), tam)

\* A wrong libera, which drops the rest of the chain.
LiberaSuelta(f, tam, lug) == [f EXCEPT !.dsk[lug] = Libre(0, tam), !.pad1 = lug]
\* libera: the block becomes the head of the free chain.
Libera(f, tam, lug) == [f EXCEPT !.dsk[lug] = Libre(f.pad1, tam), !.pad1 = lug]

-----------------------------------------------------------------------------
(* Search *)

Hijo(c, i) == IF i = 0 THEN c.ant ELSE c.ll[i].may
\* The record of the slot after child i, if the cluster has one; a wrong one that
\* skips it.
MayorSalta(c, i) == IF i + 1 < Len(c.ll) THEN c.ll[i + 2].nm ELSE 0
MayorDe(c, i)    == IF i < Len(c.ll) THEN c.ll[i + 1].nm ELSE 0
\* The slots that the search passes in a cluster: it stops at the first one that is not
\* smaller than the key.
Para(c, key, i)  == /\ \A j \in 1..i : c.ll[j].k < key
                    /\ i < Len(c.ll) => key <= c.ll[i + 1].k
Menores(c, key)  == CHOOSE i \in 0..Len(c.ll) : Para(c, key, i)
Halla(c, key) == LET i == Menores(c, key)
                 IN  i < Len(c.ll) /\ c.ll[i + 1].k = key

\* The cluster where the search for a key goes on from each cluster, or 0.
Baja(f, key) ==
    [p \in DOMAIN f.dsk |->
        LET c == f.dsk[p]
        IN  IF Halla(c, key) \/ Len(c.ll) = 0 THEN 0 ELSE Hijo(c, Menores(c, key))]

\* What the clusters of a way down say of the key.  rec is the record, or -1; clusan and
\* k1 are the clusters visited and the slot taken in each (child number plus one);
\* k2 is the slot of a key that was found; menor and mayor are the records of
\* the keys next to a key that was not found, as far as the leaf shows them.
Llega(f, clusan, key) ==
    LET k1 == [j \in DOMAIN clusan |-> Menores(f.dsk[clusan[j]], key) + 1]
        c == f.dsk[Last(clusan)]
        i == Menores(c, key)
    IN  IF Halla(c, key)
        THEN [rec |-> c.ll[i + 1].nm, clusan |-> clusan, k1 |-> k1, k2 |-> i + 1,
              menor |-> 0, mayor |-> 0]
        ELSE [rec |-> -1, clusan |-> clusan, k1 |-> k1, k2 |-> 0,
              menor |-> IF i = 0 THEN 0 ELSE c.ll[i].nm, mayor |-> MayorDe(c, i)]
\* busca: the way down from the root.
Busca(f, lla, key) == Llega(f, Huella(f.kpos[lla], Baja(f, key), Len(f.dsk)), key)

-----------------------------------------------------------------------------
(* Insertion *)

\* A full cluster p takes the slot that came up as number k and is split: two slots stay,
\* two go to a new cluster, the middle one goes up (insef).
Parte(s, tam, p, k, hoja) ==
    LET c == s.f.dsk[p]
        t == InsertAt(c.ll, k, s.sube)
        r == Frsp(Renu(s.f, p, Klug(c.ant, SubSeq(t, 1, 2))), tam)
        der == Klug(IF hoja THEN 0 ELSE t[3].may, SubSeq(t, 4, 5))
    IN  [f |-> Renu(r.f, r.lug, der), sube |-> Ranura(t[3].k, t[3].nm, r.lug)]

\* The cluster p takes it, and there is room.
Mete(f, p, k, sube) == Renu(f, p, Klug(f.dsk[p].ant, InsertAt(f.dsk[p].ll, k, sube)))

\* The root was split: the tree grows a level.
OtraRaiz(f, lla, raiz, sube) ==
    LET r == Frsp(f, TamK[lla])
    IN  [Renu(r.f, r.lug, Klug(raiz, <<sube>>)) EXCEPT !.kpos[lla] = r.lug]

\* The clusters that are full along a path, from the leaf up to the first with room.
Repleta(f, clusan, m) ==
    LET n == Len(clusan)
    IN  /\ \A j \in 0..m - 1 : Lleno(f.dsk[clusan[n - j]])
        /\ m < n => ~Lleno(f.dsk[clusan[n - m]])
Llenos(f, clusan) == CHOOSE m \in 0..Len(clusan) : Repleta(f, clusan, m)

\* inserta: enter key with record nw along the path b that Busca returned.
Inserta(f, lla, b, key, nw) ==
    LET n == Len(b.clusan)
        m == Llenos(f, b.clusan)
        e[j \in 0..m] == IF j = 0 THEN [f |-> f, sube |-> Ranura(key, nw, 0)]
                         ELSE Parte(e[j - 1], TamK[lla], b.clusan[n - j + 1],
                                    b.k1[n - j + 1], j = 1)
    IN  IF m < n THEN Mete(e[m].f, b.clusan[n - m], b.k1[n - m], e[m].sube)
        ELSE OtraRaiz(e[m].f, lla, b.clusan[1], e[m].sube)

-----------------------------------------------------------------------------
(* Deletion *)

Ult(c)      == c.ll[Len(c.ll)]
Exclu(c, i) == [c EXCEPT !.ll = RemoveAt(@, i)]
\* A slot moved into a cluster: among leaves its child is 0 and stays so.
Mueve(s, may, hoja) == Ranura(s.k, s.nm, IF hoja THEN 0 ELSE may)
\* Wrong ways to replace a slot: not at all, or the key without the record.
SeparaNada(c, i, s)  == c
SeparaClave(c, i, s) == [c EXCEPT !.ll[i].k = s.k]
\* Slot i of a cluster takes the key and the record of s and keeps its child.
Separa(c, i, s) == [c EXCEPT !.ll[i] = Ranura(s.k, s.nm, @.may)]

\* What comes down from slot sep of c2 to the clusters c1 and c3 at its sides.
DeArriba(f, c2, c3, sep, hoja) == Mueve(f.dsk[c2].ll[sep], f.dsk[c3].ant, hoja)
\* The last slot of c1 goes up, the separator down to c3.
PrestaIzq(f, c1, c2, c3, sep, hoja) ==
    LET a == f.dsk[c1]  c == f.dsk[c3]
    IN  Renu(Renu(Renu(f,
          c3, Klug(IF hoja THEN c.ant ELSE Ult(a).may,
                   <<DeArriba(f, c2, c3, sep, hoja)>> \o c.ll)),
          c1, Klug(a.ant, Front(a.ll))),
          c2, Separa(f.dsk[c2], sep, Ult(a)))
\* The first slot of c3 goes up, the separator down to c1.
PrestaDer(f, c1, c2, c3, sep, hoja) ==
    LET a == f.dsk[c1]  c == f.dsk[c3]
    IN  Renu(Renu(Renu(f,
          c1, Klug(a.ant, Append(a.ll, DeArriba(f, c2, c3, sep, hoja)))),
          c3, Klug(IF hoja THEN c.ant ELSE c.ll[1].may, Tail(c.ll))),
          c2, Separa(f.dsk[c2], sep, c.ll[1]))
\* c3 is put into c1.
Une(f, c1, c2, c3, sep, hoja) ==
    Renu(f, c1, Klug(f.dsk[c1].ant,
                     Append(f.dsk[c1].ll, DeArriba(f, c2, c3, sep, hoja)) \o f.dsk[c3].ll))

\* forma: c1 and c3 are neighbours under c2 and one of them has a single key.
\* sep is the slot of c2 between them.  Either a slot is borrowed through c2,
\* or c3 is merged into c1; when that takes the last key of c2, which is then
\* the root, both c2 and c3 are freed and r = 1 tells baja that the tree has
\* lost a level.
Forma(f, tam, c1, c2, c3, sep, hoja) ==
    LET a == f.dsk[c1]  p == f.dsk[c2]  c == f.dsk[c3]
        junta == Une(f, c1, c2, c3, sep, hoja)
    IN  IF Len(a.ll) >= 3 THEN [f |-> PrestaIzq(f, c1, c2, c3, sep, hoja), r |-> 0]
        ELSE IF Len(a.ll) = 1 /\ Len(c.ll) > 2
        THEN [f |-> PrestaDer(f, c1, c2, c3, sep, hoja), r |-> 0]
        ELSE IF Len(p.ll) = 1
        THEN [f |-> Libera(Libera(junta, tam, c2), tam, c3), r |-> 1]
        ELSE [f |-> Libera(Renu(junta, c2, Exclu(p, sep)), tam, c3), r |-> 0]

\* Which neighbour helps the cluster at child number k - 1 of p, and the slot
\* between the two: the left one when the cluster is the last child, or the
\* second of two; the right one otherwise.
Vecinos(f, b, i) ==
    LET p == f.dsk[b.clusan[i - 1]]
        k == b.k1[i - 1]
    IN  IF k > Len(p.ll) /\ Len(p.ll) > 1
        THEN [c1 |-> Hijo(p, k - 2), c3 |-> b.clusan[i], sep |-> k - 1]
        ELSE IF k = 1 \/ (k = 2 /\ Len(p.ll) = 1)
        THEN [c1 |-> p.ant, c3 |-> p.ll[1].may, sep |-> 1]
        ELSE [c1 |-> b.clusan[i], c3 |-> Hijo(p, k), sep |-> k]

\* The leftmost way down from child p: the clusters to the leaf.
Descenso(f, p) == Huella(p, [q \in DOMAIN f.dsk |-> f.dsk[q].ant], Len(f.dsk))

\* baja, first half: take the key that Busca found out of its cluster.  In an
\* inner cluster its successor, the first slot of the leaf below, replaces it.
\* The result is the file and the path down to the leaf that lost a slot.
Quita(f, b) ==
    LET c  == f.dsk[Last(b.clusan)]
        ls == Descenso(f, c.ll[b.k2].may)
        h  == Last(ls)
        s  == f.dsk[h].ll[1]
        g  == Renu(f, h, Exclu(f.dsk[h], 1))
    IN  IF c.ll[b.k2].may = 0
        THEN [f |-> Renu(f, Last(b.clusan), Exclu(c, b.k2)), b |-> b]
        ELSE [f |-> Renu(g, Last(b.clusan), Separa(c, b.k2, s)),
              b |-> [b EXCEPT !.clusan = @ \o ls, !.k1 = Front(@) \o <<b.k2 + 1>>
                                                   \o [i \in 1..Len(ls) |-> 1]]]

\* The cluster at level i of the path has one key.
Remienda(f, tam, b, i) ==
    LET v == Vecinos(f, b, i)
    IN  Forma(f, tam, v.c1, b.clusan[i - 1], v.c3, v.sep, i = Len(b.clusan))

\* baja, second half: mend every cluster of a path left with one key, from the
\* leaf up; a tree whose root was merged away starts at its leftmost child.
Repara(f, lla, b) ==
    LET n == Len(b.clusan)
        e[j \in 0..n - 1] == IF j = 0 THEN [f |-> f, r |-> 0]
                             ELSE Remienda(e[j - 1].f, TamK[lla], b, n - j + 1)
        basta(j) == j = n - 1 \/ ~Debil(e[j].f.dsk[b.clusan[n - j]])
        m == CHOOSE m \in 0..n - 1 : basta(m) /\ \A j \in 0..m - 1 : ~basta(j)
    IN  IF m = n - 1 /\ e[m].r = 1
        THEN [e[m].f EXCEPT !.kpos[lla] = e[m - 1].f.dsk[b.clusan[1]].ant]
        ELSE e[m].f
BajaLlave(f, lla, b) == LET q == Quita(f, b) IN Repara(q.f, lla, q.b)
-----------------------------------------------------------------------------
(* What a tree has *)

Hijos(c) == {Hijo(c, n) : n \in 0..Len(c.ll)} \ {0}

\* The levels from cluster p down, and the clusters in them: as many as the leftmost way
\* down has.
Niveles(f, p) ==
    LET N[n \in 0..Len(Descenso(f, p)) - 1] ==
          IF n = 0 THEN {p} ELSE UNION {Hijos(f.dsk[q]) : q \in N[n - 1]}
    IN  N
Bajo(f, p) == LET N == Niveles(f, p)
              IN  UNION {N[n] : n \in DOMAIN N}

\* The clusters of the tree of key i, and its slots.
Clusters(f, i) == Bajo(f, f.kpos[i])
Ranuras(f, i) == UNION {ToSet(f.dsk[q].ll) : q \in Clusters(f, i)}
=============================================================================

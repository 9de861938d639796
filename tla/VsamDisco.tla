----------------------------- MODULE VsamDisco -----------------------------
(***************************************************************************)
(* A VSAM file on disk: inclu and vdel of vsamfun.c, down to the blocks.   *)
(*                                                                         *)
(* inclu takes a block for the record and, key by key, enters its value in *)
(* the key's tree and links the record to its neighbours; vdel unlinks it  *)
(* key by key, takes out the values no record has any more and frees the   *)
(* block.  Trees, records and the free chain share the file, and a block   *)
(* goes from one use to another of the same size.                          *)
(*                                                                         *)
(* Both operations run under the header lock that vdadd and vddel take, so *)
(* each is one step here.  The module implements VsamFile, which says what *)
(* they promise without trees or blocks.                                   *)
(***************************************************************************)
EXTENDS VsamArbol

CONSTANTS Claves,    \* values of the unique key, ordered as naturals
          Valores,   \* values of the other keys
          Bloques,   \* bounds: the blocks of the file, the highest cuant,
          MaxCuant,
          Guiones    \* and what a behaviour first includes, in order, how many
                     \* operations it does then, and what those include and delete

\* The values for each key of a record.
Datos == {v \in [Llaves -> Claves \cup Valores] :
             v[Unica] \in Claves /\ \A i \in Reps : v[i] \in Valores}

ASSUME ConstantesDisco ==
    /\ Claves \cup Valores \subseteq Nat
    /\ Bloques \in Nat /\ MaxCuant \in Nat
    /\ \A g \in Guiones : g.ops \in Nat

VARIABLES dsk,    \* the blocks of the file
          pad1,   \* head of the free chain
          kpos,   \* kpos[i]: root cluster of key i
          vpk,    \* first record in the chain of the unique key
          guion   \* what is left of the behaviour's bound

vars == <<dsk, pad1, kpos, vpk, guion>>

\* The records of a file.
Registros(f) == {p \in DOMAIN f.dsk : EsRegistro(f.dsk[p])}

archivo   == [dsk |-> dsk, pad1 |-> pad1, kpos |-> kpos, vpk |-> vpk]
Guarda(f) == dsk' = f.dsk /\ pad1' = f.pad1 /\ kpos' = f.kpos /\ vpk' = f.vpk

-----------------------------------------------------------------------------
(* inclu *)

\* What leerec and ponap change in the pointers of record p for key i; 0 is no
\* record.
PonAnter(f, p, i, x) == IF p = 0 THEN f ELSE [f EXCEPT !.dsk[p].ap[i].anter = x]
PonProxi(f, p, i, x) == IF p = 0 THEN f ELSE [f EXCEPT !.dsk[p].ap[i].proxi = x]

\* A wrong way to link a record to its neighbours, which leaves vpk alone.
EncadenaSinVpk(f, nw, a, s) ==
    PonAnter(PonProxi([f EXCEPT !.dsk[nw].ap[Unica] = Apuns(a, s, 0)], a, Unica, nw),
             s, Unica, nw)
\* The record nw between a and s in the chain of the unique key.
Encadena(f, nw, a, s) ==
    LET g == PonAnter(PonProxi([f EXCEPT !.dsk[nw].ap[Unica] = Apuns(a, s, 0)],
                               a, Unica, nw), s, Unica, nw)
    IN  IF a = 0 THEN [g EXCEPT !.vpk = nw] ELSE g

\* The neighbours a search that failed leads to: the record goes before mayor if
\* the leaf shows it, else after menor.
Vecindad(f, b) ==
    IF b.mayor # 0 THEN [a |-> f.dsk[b.mayor].ap[Unica].anter, s |-> b.mayor]
    ELSE [a |-> b.menor,
          s |-> IF b.menor = 0 THEN 0 ELSE f.dsk[b.menor].ap[Unica].proxi]

\* The slot that a search found names record nw.
Renombra(f, b, nw) == [f EXCEPT !.dsk[Last(b.clusan)].ll[b.k2].nm = nw]

\* The record nw on top of the stack of its value for key i.
Apila(f, nw, i) ==
    LET b == Busca(f, i, f.dsk[nw].val[i])
        g == Renombra(f, b, nw)
        n == g.dsk[b.rec].ap[i].cuant
    IN  IF b.rec = nw THEN g
        ELSE [PonAnter(g, b.rec, i, nw) EXCEPT !.dsk[nw].ap[i] = Apuns(0, b.rec, n + 1)]

\* Key i of the record at nw: its value enters the tree if it is not there, and
\* the record is linked.
Entra(f, nw, i) ==
    LET key == f.dsk[nw].val[i]
        b == Busca(f, i, key)
        g == IF b.rec = -1 THEN Inserta(f, i, b, key, nw) ELSE f
        v == Vecindad(g, b)
    IN  IF i = Unica THEN Encadena(g, nw, v.a, v.s) ELSE Apila(g, nw, i)

\* The file with a new record of values val.
Incluye(f, val) ==
    LET r == Frsp(f, TamR)
        g == Renu(r.f, r.lug, Registro(val, [i \in Llaves |-> Apuns(0, 0, 0)]))
        h[n \in 0..Len(Orden)] == IF n = 0 THEN g ELSE Entra(h[n - 1], r.lug, Orden[n])
    IN  h[Len(Orden)]

-----------------------------------------------------------------------------
(* vdel *)

\* Key i of the record at lug: its neighbours are joined, the top of a stack is
\* renamed, and a value nobody has leaves the tree.
Sale(f, lug, i) ==
    LET ap == f.dsk[lug].ap[i]
        b  == Busca(f, i, f.dsk[lug].val[i])
        g  == PonProxi(PonAnter(f, ap.proxi, i, ap.anter), ap.anter, i, ap.proxi)
    IN  IF i = Unica
        THEN BajaLlave(IF ap.anter = 0 THEN [g EXCEPT !.vpk = ap.proxi] ELSE g, i, b)
        ELSE IF ap.anter # 0 THEN g
        ELSE IF ap.proxi # 0 THEN Renombra(g, b, ap.proxi)
        ELSE BajaLlave(g, i, b)

Borra(f, lug) ==
    LET h[n \in 0..Len(Orden)] == IF n = 0 THEN f ELSE Sale(h[n - 1], lug, Orden[n])
    IN  Libera(h[Len(Orden)], TamR, lug)

-----------------------------------------------------------------------------
(* Operations *)

\* The bound: first the load, then as many operations as are left.
Cargando == guion.carga # <<>>
Carga(val)      == /\ Cargando /\ val = Head(guion.carga)
                   /\ guion' = [guion EXCEPT !.carga = Tail(@)]
Libremente      == /\ ~Cargando /\ guion.ops > 0
                   /\ guion' = [guion EXCEPT !.ops = @ - 1]

\* The bounds on the file.
Cupo(f) == /\ Len(f.dsk) <= Bloques
           /\ \A p \in Registros(f), i \in Reps : f.dsk[p].ap[i].cuant <= MaxCuant

\* inclu refuses a value of the unique key that the file has.
Inclu(val) ==
    /\ Carga(val) \/ (Libremente /\ val \in guion.datos)
    /\ val \in Datos
    /\ Busca(archivo, Unica, val[Unica]).rec = -1
    /\ Cupo(Incluye(archivo, val))
    /\ Guarda(Incluye(archivo, val))

Vdel(lug) ==
    /\ EsRegistro(dsk[lug])
    /\ Libremente /\ dsk[lug].val[Unica] \in guion.bajas
    /\ Guarda(Borra(archivo, lug))

\* A file just created ('O'): the header and a cluster without keys for each key.
Init == /\ dsk = [n \in 1..Len(Orden) |-> Klug(0, <<>>)]
        /\ kpos = [i \in Llaves |-> CHOOSE n \in 1..Len(Orden) : Orden[n] = i]
        /\ pad1 = 0
        /\ vpk = 0
        /\ guion \in Guiones

Next == \/ \E val \in guion.datos \cup ToSet(guion.carga) : Inclu(val)
        \/ \E lug \in DOMAIN dsk : Vdel(lug)

Spec == Init /\ [][Next]_vars

-----------------------------------------------------------------------------
(* Properties *)

\* Each cluster separates what hangs from it: the values below the child before a slot
\* are smaller, those below the child after it greater, and its own ascend, whatever
\* splits, loans and merges have moved (inserta, baja, forma).
EnOrden ==
    \A i \in Llaves : \A q \in Clusters(archivo, i) :
        LET c == dsk[q]
        IN  \A n \in 1..Len(c.ll) :
              /\ n > 1 => c.ll[n - 1].k < c.ll[n].k
              /\ c.ant # 0 =>
                   /\ \A p \in Bajo(archivo, Hijo(c, n - 1)) : \A s \in ToSet(dsk[p].ll) : s.k < c.ll[n].k
                   /\ \A p \in Bajo(archivo, Hijo(c, n)) : \A s \in ToSet(dsk[p].ll) : c.ll[n].k < s.k

\* Every cluster but a root is at least half full, leaves have no children, and
\* all leaves of a tree are at one depth: what makes busca's cost logarithmic
\* and its path arrays of 255 entries enough.
Equilibrio ==
    \A i \in Llaves :
        LET N == Niveles(archivo, kpos[i])
        IN  \A n \in DOMAIN N : \A p \in N[n] :
              /\ p # kpos[i] => Len(dsk[p].ll) >= 2
              /\ IF n + 1 \notin DOMAIN N THEN Hijos(dsk[p]) = {}
                 ELSE Len(dsk[p].ll) > 0 /\ \A m \in 0..Len(dsk[p].ll) : Hijo(dsk[p], m) # 0

\* A tree stays a search tree that busca can rely on, and no cluster outgrows its block.
ArbolB == /\ EnOrden /\ Equilibrio
          /\ \A i \in Llaves : \A p \in Clusters(archivo, i) : Len(dsk[p].ll) <= TK

\* No block is lost and none is used twice: each is a record, a free block on
\* the chain, which ends, or a cluster that hangs from one slot of one tree (frsp, libera).
SinFugas ==
    LET de == [i \in Llaves |-> Clusters(archivo, i)]
        usados == UNION {de[i] : i \in Llaves}
        libres == Alcanza(Libres(archivo))
        cuelgan(p) == {x \in usados \X (0..TK) :
                         x[2] <= Len(dsk[x[1]].ll) /\ Hijo(dsk[x[1]], x[2]) = p}
    IN  /\ \A p \in usados : ~EsLibre(dsk[p]) /\ ~EsRegistro(dsk[p])
        /\ \A p \in libres : EsLibre(dsk[p])
        /\ Libres(archivo)[Len(dsk)] = 0
        /\ usados \cup libres \cup Registros(archivo) = DOMAIN dsk
        /\ \A i, j \in Llaves : i # j => de[i] \cap de[j] = {}
        /\ \A p \in usados : IF \E i \in Llaves : p = kpos[i] THEN cuelgan(p) = {}
                             ELSE \E x \in cuelgan(p) : cuelgan(p) = {x}

\* busca finds every value in the tree with its record; for any other value it
\* names the record of the value before, of the one after, or of both, and of
\* at least one when there is a value.  inclu hangs a new record on its chain
\* by these names.
BuscaVecinos ==
    \A i \in Llaves :
        LET E == Ranuras(archivo, i)
        IN  \A k \in IF i = Unica THEN Claves ELSE Valores :
              LET b == Busca(archivo, i, k)
                  nadie(x, y) == \A s \in E : ~(x < s.k /\ s.k < y)
              IN  IF \E s \in E : s.k = k
                  THEN \E s \in E : s.k = k /\ b.rec = s.nm
                  ELSE /\ b.rec = -1
                       /\ b.menor # 0 => \E s \in E : s.nm = b.menor /\ s.k < k /\ nadie(s.k, k)
                       /\ b.mayor # 0 => \E s \in E : s.nm = b.mayor /\ k < s.k /\ nadie(k, s.k)
                       /\ E # {} => b.menor # 0 \/ b.mayor # 0

\* inclu and vdel do to the file what they promise: a record appears or goes, it
\* takes its place in the chain and the stacks or leaves it, and every other
\* record keeps its keys and its neighbours.
Columna(f, i, campo) == [p \in Registros(f) |-> f.dsk[p].ap[i][campo]]
Valor(f, i) == [p \in Registros(f) |-> f.dsk[p].val[i]]
Indice(f, i, dom) ==
    LET E == Ranuras(f, i)
    IN  [k \in dom |-> IF \E s \in E : s.k = k THEN (CHOOSE s \in E : s.k = k).nm ELSE 0]
Archivo == INSTANCE VsamFile WITH
    Pos   <- 1..Bloques,
    vivo  <- Registros(archivo),
    clave <- Valor(archivo, Unica),
    valor <- [i \in Reps |-> Valor(archivo, i)],
    anter <- [i \in Llaves |-> Columna(archivo, i, "anter")],
    proxi <- [i \in Llaves |-> Columna(archivo, i, "proxi")],
    cuant <- [i \in Reps |-> Columna(archivo, i, "cuant")],
    idxu  <- Indice(archivo, Unica, Claves),
    idxr  <- [i \in Reps |-> Indice(archivo, i, Valores)]
ImplementaArchivo == Archivo!Spec
=============================================================================

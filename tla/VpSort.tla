------------------------------- MODULE VpSort -------------------------------
(***************************************************************************)
(* vpsort: sorts the records of one or more files by a key.  Keys go into  *)
(* a binary tree in memory (inskey); a full tree is written to a run, a    *)
(* temporary file, in order (outsorteda); the runs are merged two by two   *)
(* (merge, passmerge); and the records are fetched from the input by the   *)
(* places that the sorted entries keep (outmerge, putout).  With +i the    *)
(* entries are left as an index file, which VbSearch reads.                *)
(*                                                                         *)
(* A record is its key, as it is taken from the input, and whether it is   *)
(* marked as deleted.  A line can be too short to reach the key's columns  *)
(* (Corta), and the last one of a file can lack its end.  The places of a  *)
(* file are its records in reading order: by position, or along the chain  *)
(* of a key in a VSAM file.                                                *)
(*                                                                         *)
(* An entry is written from the middle of a struct key, as the bytes that  *)
(* follow fl (putout), and read as fl, place, key (getkey).  The two agree *)
(* only when the compiler leaves no gap after fl: op.junta.  With a gap    *)
(* the place is lost, the key is not.                                      *)
(***************************************************************************)
EXTENDS Paseo, Integers, Sequences, FiniteSets, SequencesExt

CONSTANTS Tope,       \* the keys are 1..Tope; 0 is a blank buffer's
          Trabajos    \* the options and files of a run: [op, archivos]

Corta == -1
Forma == {"fijo", "lineas", "vsam"}

ASSUME TopeAssumption == Tope \in Nat \ {0}

\* vsamread moves the start of the key on by the size of a record's mark and pointers,
\* and does so once more for every VSAM file it opens: of the f-th one the key is what
\* lies f - 1 times that size past its columns.
Despl(o, f) == IF o.forma = "vsam" THEN f ELSE 1

\* The memory has room for a key (getmem), and only a line can be short.  cols[d] is
\* what the key's columns hold when they are looked for d - 1 times that size too far.
ASSUME TrabajosAssumption ==
    \A t \in Trabajos :
        /\ t.op \in [forma : Forma, salta : BOOLEAN, indice : {"no", "si", "solo"},
                     desc : BOOLEAN, tokeys : Nat \ {0}, junta : BOOLEAN]
        /\ t.archivos \in Seq([regs : Seq([cols : Seq((0..Tope) \cup {Corta}),
                                          borrado : BOOLEAN]), cortado : BOOLEAN])
        /\ \A f \in DOMAIN t.archivos : \A n \in DOMAIN t.archivos[f].regs :
               /\ Despl(t.op, f) \in DOMAIN t.archivos[f].regs[n].cols
               /\ t.op.forma # "lineas" =>
                      t.archivos[f].regs[n].cols[Despl(t.op, f)] # Corta

VARIABLES op,        \* [forma, salta (+S), indice (+i), desc (:d), tokeys, junta]
          archivos,  \* the input as the program sees it: [regs, cortado] per file
          e,         \* files opened
          pos,       \* the next record of the file that is open
          inbuf,     \* the key's columns in the input buffer
          arbol,     \* the keys in memory; a node names its children (menor, mayor)
          nodo,      \* where the walk of the tree is (vthis)
          pila,      \* the nodes it has to come back to (ars, lev)
          bajando,   \* the walk goes down to the smallest key
          corridas,  \* the temporary files
          f1, f2, ff, \* the two files in a merge, from the next key on, and the result
          pasada,    \* number of the merge
          salida,    \* places of the records that were written out
          indice,    \* the index file
          fase, sigue \* what the program does, and what it does after a walk

vars == <<op, archivos, e, pos, inbuf, arbol, nodo, pila, bajando, corridas,
          f1, f2, ff, pasada, salida, indice, fase, sigue>>
entrada == <<op, archivos>>
recorrido == <<nodo, pila, bajando, sigue>>
mezclado == <<f1, f2, ff, pasada>>

Blanco == <<0, 0>>   \* the blank record that +S puts before the others

\* A fixed or VSAM file, for which fs stays NULL.
Fijo == op.forma # "lineas"

\* How the program can fail: it writes a key that is not there, writes a record
\* that is not there (a line that is not there has no end), closes a file twice.
Fallas == {"sin_llave", "basura", "roto"}
Fases == {"abre", "lee", "recorre", "mezcla", "compara", "cierra", "fin"} \cup Fallas

\* The records with the key that is taken of them.
Visto(r, d) == [k |-> r.cols[d], borrado |-> r.borrado]
Vistos(t) ==
    [f \in DOMAIN t.archivos |->
        [regs    |-> [n \in DOMAIN t.archivos[f].regs |->
                         Visto(t.archivos[f].regs[n], Despl(t.op, f))],
         cortado |-> t.archivos[f].cortado]]

Init ==
    /\ \E t \in Trabajos : op = t.op /\ archivos = Vistos(t)
    /\ e = 0 /\ pos = 0 /\ inbuf = 0
    /\ arbol = <<>> /\ nodo = 0 /\ pila = <<>> /\ bajando = FALSE
    /\ corridas = <<>> /\ f1 = <<>> /\ f2 = <<>> /\ ff = <<>> /\ pasada = 0
    /\ salida = <<>> /\ indice = <<>>
    /\ fase = "abre" /\ sigue = "lee"

-----------------------------------------------------------------------------
(* Reading the input *)

\* do_sortf and do_sortv; +S passes over the first record of a flat file.  What vsamread
\* does to the key's columns is in archivos (Despl).
Abre ==
    /\ fase = "abre" /\ e < Len(archivos)
    /\ e' = e + 1
    /\ pos' = IF op.forma = "fijo" /\ op.salta THEN 2 ELSE 1
    /\ fase' = "lee"
    /\ UNCHANGED <<entrada, inbuf, arbol, recorrido, corridas, mezclado, salida, indice>>

Regs == archivos[e].regs

\* What the key's columns of the buffer hold after a record was read: bringcars
\* ends a short line, and what was in the buffer past its end stays there.
Columnas(r, b) == IF r.k = Corta THEN b ELSE r.k

\* descend complements the bytes of a descending field.
Llave(b) == IF op.desc THEN Tope - b ELSE b

\* A last line without an end is no record (bringcars), nor is, with +S, a flat
\* file's record that is marked as deleted (do_sortf).
NoCuenta(f, n) ==
    \/ op.forma = "lineas" /\ archivos[f].cortado /\ n = Len(archivos[f].regs)
    \/ op.forma = "fijo" /\ op.salta /\ archivos[f].regs[n].borrado

Salta ==
    /\ fase = "lee" /\ pos <= Len(Regs) /\ NoCuenta(e, pos)
    /\ inbuf' = Columnas(Regs[pos], inbuf)
    /\ pos' = pos + 1
    /\ UNCHANGED <<entrada, e, arbol, recorrido, corridas, mezclado, salida, indice, fase>>

Acaba ==
    /\ fase = "lee" /\ pos > Len(Regs)
    /\ fase' = "abre"
    /\ UNCHANGED <<entrada, e, pos, inbuf, arbol, recorrido, corridas, mezclado,
                   salida, indice>>

\* inskey: key k goes to the smaller side of h; an equal one goes to the other, and
\* in a wrong one to the smaller.
MenorIgual(k, h) == k <= h
Menor(k, h)      == k < h
Hijo(x, k)       == IF Menor(k, x.llave) THEN x.menor ELSE x.mayor
Cuelga(a, nueva) ==
    LET k == nueva.llave
        n == Len(a) + 1
        Padre == Fondo([x \in DOMAIN a |-> Hijo(a[x], k)])
    IN  IF a = <<>> THEN <<nueva>>
        ELSE Append([a EXCEPT ![Padre[1]] =
                        IF Menor(k, @.llave) THEN [@ EXCEPT !.menor = n]
                                             ELSE [@ EXCEPT !.mayor = n]], nueva)

\* A walk of the tree starts at its first key.
Recorrera(luego) ==
    /\ nodo' = 1 /\ pila' = <<>> /\ bajando' = TRUE
    /\ fase' = "recorre" /\ sigue' = luego

\* formkey: one more key in the tree; a full tree goes to a run of its own.
Lleno(a) == Len(a) = op.tokeys
FormKey ==
    LET b  == Columnas(Regs[pos], inbuf)
        a  == Cuelga(arbol, [llave |-> Llave(b), lugar |-> <<e, pos>>,
                             menor |-> 0, mayor |-> 0])
    IN  /\ fase = "lee" /\ pos <= Len(Regs) /\ ~NoCuenta(e, pos)
        /\ inbuf' = b
        /\ arbol' = a
        /\ pos' = pos + 1
        /\ IF Lleno(a)
           THEN corridas' = Append(corridas, <<>>) /\ Recorrera("lee")
           ELSE UNCHANGED <<corridas, recorrido, fase>>
        /\ UNCHANGED <<entrada, e, mezclado, salida, indice>>

-----------------------------------------------------------------------------
(* Walking the tree *)

\* What is read back of an entry that putout wrote in a run.
Perdido == <<-1, -1>>
Ficha(x) == [llave |-> x.llave, lugar |-> IF op.junta THEN x.lugar ELSE Perdido]

\* putout of a record: before the first of a fixed file +S puts a blank one.
Sacada(x) == (IF Fijo /\ op.salta /\ salida = <<>> THEN <<Blanco>> ELSE <<>>) \o <<x.lugar>>

\* outsorteda: down by the smaller keys.
Baja ==
    /\ fase = "recorre" /\ bajando /\ arbol[nodo].menor # 0
    /\ pila' = Append(pila, nodo)
    /\ nodo' = arbol[nodo].menor
    /\ UNCHANGED <<entrada, e, pos, inbuf, arbol, bajando, sigue, corridas, mezclado,
                   salida, indice, fase>>

\* The greatest key, where the walk ends (anter).
Ultimo == Fondo([x \in DOMAIN arbol |-> arbol[x].mayor])[1]

\* outsorteda: out with this key, and on to the greater ones or back to the last
\* node passed.  After the last key of a full tree the memory is cleared (clearall).
Pone ==
    LET x == arbol[nodo]
    IN  /\ fase = "recorre" /\ (bajando => x.menor = 0)
        /\ IF sigue = "cierra"
           THEN salida' = salida \o Sacada(x) /\ UNCHANGED corridas
           ELSE /\ corridas' = [corridas EXCEPT ![Len(corridas)] = Append(@, Ficha(x))]
                /\ UNCHANGED salida
        /\ \/ /\ nodo = Ultimo
              /\ arbol' = <<>> /\ nodo' = 0 /\ bajando' = FALSE /\ fase' = sigue
              /\ UNCHANGED pila
           \/ /\ nodo # Ultimo /\ x.mayor # 0
              /\ nodo' = x.mayor /\ bajando' = TRUE
              /\ UNCHANGED <<arbol, pila, fase>>
           \/ /\ nodo # Ultimo /\ x.mayor = 0
              /\ nodo' = Last(pila) /\ pila' = Front(pila) /\ bajando' = FALSE
              /\ UNCHANGED <<arbol, fase>>
        /\ UNCHANGED <<entrada, e, pos, inbuf, sigue, mezclado, indice>>

\* The end of main: with a run or an index to make the last keys go to one more
\* run, even when there is none left; otherwise the records go out straight from the
\* tree, whose first node is blank when nothing was read.
AlFinal ==
    /\ fase = "abre" /\ e = Len(archivos)
    /\ IF corridas # <<>> \/ op.indice # "no"
       THEN /\ corridas' = Append(corridas, <<>>)
            /\ IF arbol = <<>> THEN fase' = "sin_llave" /\ UNCHANGED recorrido
                               ELSE Recorrera("mezcla")
       ELSE /\ IF arbol = <<>> THEN fase' = "basura" /\ UNCHANGED recorrido
                               ELSE Recorrera("cierra")
            /\ UNCHANGED corridas
    /\ UNCHANGED <<entrada, e, pos, inbuf, arbol, mezclado, salida, indice>>

-----------------------------------------------------------------------------
(* Merging *)

\* merge: the first run, or the last merge, with the next run.  A run is not read
\* again, and is cut to nothing after its merge.
Mezcla ==
    /\ fase = "mezcla" /\ pasada + 1 < Len(corridas)
    /\ pasada' = pasada + 1
    /\ f1' = IF pasada = 0 THEN corridas[1] ELSE f1
    /\ f2' = corridas[pasada + 2]
    /\ ff' = <<>>
    /\ corridas' = [corridas EXCEPT ![pasada + 1] = <<>>, ![pasada + 2] = <<>>]
    /\ fase' = "compara"
    /\ UNCHANGED <<entrada, e, pos, inbuf, arbol, recorrido, salida, indice>>

\* comp: the key of the second file goes first; in a wrong one also when equal.
GanaIgual(a, b) == a.llave >= b.llave
Gana(a, b)      == a.llave > b.llave

\* The file that is left when the other one ends: its key in memory and the rest
\* of it (putmerge, addtomerge); a wrong one forgets the key in memory.
RestoCorto(f) == Tail(f)
Resto(f)      == f

\* passmerge: one more key to the new file; when its file ends, the rest of the other.
Compara ==
    /\ fase = "compara"
    /\ LET segundo == Gana(Head(f1), Head(f2))
           g == IF segundo THEN f2 ELSE f1      \* the file the key comes from
           o == IF segundo THEN f1 ELSE f2      \* the other
           h == Append(ff, Head(g))
       IN  IF Tail(g) = <<>>
           THEN /\ f1' = h \o Resto(o) /\ f2' = <<>> /\ ff' = <<>>
                /\ fase' = "mezcla"
           ELSE /\ f1' = IF segundo THEN f1 ELSE Tail(f1)
                /\ f2' = IF segundo THEN Tail(f2) ELSE f2
                /\ ff' = h
                /\ UNCHANGED fase
    /\ UNCHANGED <<entrada, e, pos, inbuf, arbol, recorrido, corridas, pasada, salida,
                   indice>>

\* The merges are over.  With one run only there was none, and its entries stay
\* where they are.  outmerge and then main close the same file; when a fixed or
\* VSAM file fits in memory it was never opened.
Larga == Len(corridas) > 1
Mezclado == fase = "mezcla" /\ pasada + 1 >= Len(corridas)
PorSacar == IF op.indice = "solo" \/ ~Larga THEN <<>> ELSE f1
Sacadas == IF salida # <<>> /\ Head(salida) = Blanco THEN Tail(salida) ELSE salida
AlCerrar == IF ~Larga /\ Fijo THEN {"roto"}
            ELSE IF op.indice = "solo" THEN {"cierra"} ELSE {"cierra", "roto"}

\* outmerge: the record at the place of the next entry.
Saca ==
    LET n == Len(Sacadas)
    IN  /\ Mezclado /\ n < Len(PorSacar)
        /\ IF PorSacar[n + 1].lugar = Perdido
           THEN fase' = "basura" /\ UNCHANGED salida
           ELSE salida' = salida \o Sacada(PorSacar[n + 1]) /\ UNCHANGED fase
        /\ UNCHANGED <<entrada, e, pos, inbuf, arbol, recorrido, corridas, mezclado,
                       indice>>
Sacado ==
    /\ Mezclado /\ Len(Sacadas) = Len(PorSacar)
    /\ fase' \in AlCerrar
    /\ UNCHANGED <<entrada, e, pos, inbuf, arbol, recorrido, corridas, mezclado,
                   salida, indice>>

\* The last file of the merges becomes the index.
IndiceFinal == IF Larga THEN f1 ELSE corridas[1]
Cierra ==
    /\ fase = "cierra"
    /\ indice' = IF op.indice = "no" THEN <<>> ELSE IndiceFinal
    /\ fase' = "fin"
    /\ UNCHANGED <<entrada, e, pos, inbuf, arbol, recorrido, corridas, mezclado, salida>>

Next == \/ Abre \/ Salta \/ Acaba \/ FormKey \/ Baja \/ Pone \/ AlFinal
        \/ Mezcla \/ Compara \/ Saca \/ Sacado \/ Cierra

Spec == Init /\ [][Next]_vars /\ WF_vars(Next)

-----------------------------------------------------------------------------
(* Properties *)

\* The records of the input by place, and those that count.
Registros == UNION {{f} \X DOMAIN archivos[f].regs : f \in DOMAIN archivos}
Registro(l) == archivos[l[1]].regs[l[2]]
Lugares == {l \in Registros : /\ ~NoCuenta(l[1], l[2])
                              /\ op.forma = "fijo" /\ op.salta => l[2] > 1}
Antes(l, m) == l[1] < m[1] \/ (l[1] = m[1] /\ l[2] < m[2])

\* What is in the key's columns when all that comes before a place has been read: the
\* last record that was long enough left it there.
ColumnasAntes(l) ==
    LET largas == {m \in Registros : Registro(m).k # Corta /\ Antes(m, l)}
    IN  IF largas = {} THEN 0
        ELSE Registro(CHOOSE m \in largas : \A n \in largas : n = m \/ Antes(n, m)).k

\* The input as it has to come out, and what has been read of it.
Leida == {[llave |-> Llave(Columnas(Registro(l), ColumnasAntes(l))), lugar |-> l] :
             l \in Lugares}
Leidas == {x \in Leida : Antes(x.lugar, <<e, pos>>)}

\* By key, and equal keys in the order they were read.
EnOrden(a, b) == a.llave < b.llave \/ (a.llave = b.llave /\ Antes(a.lugar, b.lugar))
Ordenada(s) == \A m, n \in DOMAIN s : m < n => EnOrden(s[m], s[n])
PorLlave(s) == \A m, n \in DOMAIN s : m < n => s[m].llave <= s[n].llave

\* The sort is stable and complete, by the key as it is taken (of the second VSAM file
\* and the later ones not that of its columns, Despl): what is written out (putout) is at every moment
\* the start of the records by key, equal keys in reading order, and is all of them
\* when the program ends (vpsort.c's outsorteda, passmerge and outmerge together).
\* With +i there is output only if there was more than one run.
SalidaFiel ==
    LET s == [n \in DOMAIN Sacadas |-> CHOOSE x \in Leida : x.lugar = Sacadas[n]]
    IN  fase \notin Fallas =>
        /\ ToSet(Sacadas) \subseteq Lugares
        /\ Ordenada(s)
        /\ \A x \in Leida : x \in ToSet(s) \/ \A n \in DOMAIN s : EnOrden(s[n], x)
        /\ fase = "fin" /\ (op.indice = "no" \/ (op.indice = "si" /\ Larga)) =>
               ToSet(s) = Leida

\* The index that +i leaves has every key, in order: what vbsearch.c searches.
IndiceFiel ==
    fase = "fin" /\ op.indice # "no" =>
        /\ PorLlave(indice)
        /\ Len(indice) = Cardinality(Leida)
        /\ op.junta => ToSet(indice) = Leida

\* All the files of entries, the tree among them, and the entries in them.
Lotes == corridas \o <<f1, f2, ff, [n \in DOMAIN arbol |-> Ficha(arbol[n])]>>
Casillas == UNION {{t} \X DOMAIN Lotes[t] : t \in DOMAIN Lotes}
Guardadas == {Lotes[c[1]][c[2]] : c \in Casillas}

\* No key is lost or written twice on its way from the tree to the last merge and, with
\* +i, to the index: at every moment between two walks each record read so far has one
\* entry, in files that are in order (inskey, outsorteda, passmerge); and the tree never
\* grows past the memory for tokeys entries, nor the stack of a walk past tokeys levels
\* (vpsort.c:471).
NadaSePierde ==
    /\ Len(arbol) <= op.tokeys /\ Len(pila) < op.tokeys
    /\ IndiceFiel
    /\ fase \in {"abre", "lee", "mezcla", "compara"} =>
           /\ Cardinality(Casillas) = Cardinality(Leidas)
           /\ {x.llave : x \in Guardadas} = {x.llave : x \in Leidas}
           /\ op.junta => Guardadas = Leidas
           /\ \A t \in DOMAIN corridas : PorLlave(corridas[t])

\* "program to sort input of any size in any quantity" (vpsort.c:1-2): whatever the
\* number of records, but none, it never writes a key that is not there.
CualquierCantidad == fase = "sin_llave" => Leida = {}
=============================================================================

------------------------------ MODULE VsamFile ------------------------------
(***************************************************************************)
(* What a VSAM file is to the programs that use it: records linked by key  *)
(* (inclu and vdel of vsamfun.c).                                          *)
(*                                                                         *)
(* Every record carries, for each key of the file, the positions of its    *)
(* neighbours (struct apuns).  Exactly one key is unique ('O' in           *)
(* vsamrun.c): its chain runs through all records in key order and starts  *)
(* at vpk, in the header.  For each other key the records that share a     *)
(* value form a stack whose top is the record the index names.             *)
(*                                                                         *)
(* Here the indexes are maps and a new record goes to any position that    *)
(* holds none; VsamDisco has the clusters and the free chain behind them   *)
(* and implements this module.  busca tells inclu a neighbour of a new     *)
(* key, but not always both: which ones depends on the clusters and is     *)
(* left open.  Both operations run under the header lock: one step each.   *)
(***************************************************************************)
EXTENDS Paseo, Naturals, Sequences, FiniteSets

CONSTANTS Claves,   \* values of the unique key, ordered as naturals
          Reps,     \* the keys that admit repetition
          Valores,  \* their values
          Unica,    \* the unique key
          Pos,      \* positions a record can have, naturals other than 0
          MaxCuant  \* bound on cuant

ASSUME ConstantesArchivo ==
    /\ Claves \subseteq Nat
    /\ Unica \notin Reps
    /\ Pos \subseteq Nat \ {0}
    /\ MaxCuant \in Nat

Llaves == Reps \cup {Unica}
Pos0   == Pos \cup {0}       \* 0 is the null position

VARIABLES vivo,    \* positions that hold a record
          clave,   \* clave[p]: unique key of the record at p
          valor,   \* valor[i][p]: its value for key i
          anter,   \* anter[i][p], proxi[i][p]: its neighbours for key i,
          proxi,   \*   toward vpk or the top of the stack, and away from it
          cuant,   \* cuant[i][p]: one more than that of the record it was put over
          vpk,     \* first record of the unique key's chain
          idxu,    \* index of the unique key: the record of each value, or 0
          idxr     \* idxr[i]: index of key i: the top record of each value, or 0

vars == <<vivo, clave, valor, anter, proxi, cuant, vpk, idxu, idxr>>

Init ==
    /\ vivo = {}
    /\ vpk = 0
    /\ clave = [p \in {} |-> 0]
    /\ valor = [i \in Reps |-> [p \in {} |-> 0]]
    /\ anter = [i \in Llaves |-> [p \in {} |-> 0]]
    /\ proxi = [i \in Llaves |-> [p \in {} |-> 0]]
    /\ cuant = [i \in Reps |-> [p \in {} |-> 0]]
    /\ idxu = [c \in Claves |-> 0]
    /\ idxr = [i \in Reps |-> [x \in Valores |-> 0]]

-----------------------------------------------------------------------------
(* busca *)

\* The record index ix names for the key right before k, and right after it.
Menores(ix, k) == {ix[c] : c \in {c \in Claves :
                     /\ c < k /\ ix[c] # 0
                     /\ \A d \in Claves : c < d /\ d < k => ix[d] = 0}}
Mayores(ix, k) == {ix[c] : c \in {c \in Claves :
                     /\ k < c /\ ix[c] # 0
                     /\ \A d \in Claves : k < d /\ d < c => ix[d] = 0}}

\* What busca can leave in menor and mayor when it does not find k.
Vecindad(k, menor, mayor) ==
    menor = 0 /\ mayor = 0 => \A c \in Claves : idxu[c] = 0

-----------------------------------------------------------------------------
(* Pointers.  Position 0 is no record's: what is written there is not. *)

\* f with x for the new position nw and y for position p; f without lug, and a
\* wrong one that keeps it.
Con(f, nw, x, p, y) == [q \in DOMAIN f \cup {nw} |->
                           IF q = nw THEN x ELSE IF q = p THEN y ELSE f[q]]
SinNada(f, lug, p, y) == [q \in DOMAIN f |-> IF q = p THEN y ELSE f[q]]
Sin(f, lug, p, y)     == [q \in DOMAIN f \ {lug} |-> IF q = p THEN y ELSE f[q]]

\* The neighbours a new record gets: it goes before mayor, if busca saw it, and
\* otherwise after menor.
Izq(menor, mayor) == IF mayor # 0 THEN anter[Unica][mayor] ELSE menor
\* A wrong one, which forgets what followed menor.
DerSinProxi(menor, mayor) == mayor
Der(menor, mayor) == IF mayor # 0 THEN mayor
                     ELSE IF menor # 0 THEN proxi[Unica][menor] ELSE 0

\* cuant of a record put on the stack of value x, and a wrong one.
AlturaIgual(i, x) == IF idxr[i][x] = 0 THEN 0 ELSE cuant[i][idxr[i][x]]
Altura(i, x)      == IF idxr[i][x] = 0 THEN 0 ELSE cuant[i][idxr[i][x]] + 1

\* A record with key k and values v is written at nw.
Escribe(nw, k, v) ==
    /\ clave' = Con(clave, nw, k, 0, 0)
    /\ valor' = [i \in Reps |-> Con(valor[i], nw, v[i], 0, 0)]

\* It is linked between a and s in the chain, and for each other key it is put
\* on top of the stack of its value.
Enlaza(nw, k, v, a, s) ==
    LET tope(i) == idxr[i][v[i]]
    IN  /\ vpk' = IF a = 0 THEN nw ELSE vpk
        /\ anter' = [i \in Llaves |-> IF i = Unica THEN Con(anter[i], nw, a, s, nw)
                                      ELSE Con(anter[i], nw, 0, tope(i), nw)]
        /\ proxi' = [i \in Llaves |-> IF i = Unica THEN Con(proxi[i], nw, s, a, nw)
                                      ELSE Con(proxi[i], nw, tope(i), 0, 0)]
        /\ cuant' = [i \in Reps |-> Con(cuant[i], nw, Altura(i, v[i]), 0, 0)]
        /\ idxu' = [idxu EXCEPT ![k] = nw]
        /\ idxr' = [i \in Reps |-> [idxr[i] EXCEPT ![v[i]] = nw]]

\* inclu: a key that is taken is refused; otherwise the record goes where none is.
Inclu(nw) ==
    /\ nw \notin vivo
    /\ vivo' = vivo \cup {nw}
    /\ \E k \in Claves, v \in [Reps -> Valores] :
         /\ Escribe(nw, k, v)
         /\ idxu[k] = 0
         /\ \A i \in Reps : Altura(i, v[i]) <= MaxCuant       \* the bound
         /\ \E menor \in Menores(idxu, k) \cup {0},
               mayor \in Mayores(idxu, k) \cup {0} :
              /\ Vecindad(k, menor, mayor)
              /\ Enlaza(nw, k, v, Izq(menor, mayor), Der(menor, mayor))

\* The first record of the chain and the tops of the stacks of key i once the
\* record at lug is out of them, and a wrong one that forgets it was the first.
PrimeroIgual(lug) == vpk
Primero(lug)      == IF anter[Unica][lug] = 0 THEN proxi[Unica][lug] ELSE vpk
Topes(i, lug) == IF anter[i][lug] = 0
                 THEN [idxr[i] EXCEPT ![valor[i][lug]] = proxi[i][lug]]
                 ELSE idxr[i]

\* A wrong entry for the key of a deleted record: it stays.
OlvidaNada(lug) == idxu
Olvida(lug)     == [idxu EXCEPT ![clave[lug]] = 0]

\* vdel: the record at lug leaves the chain and the stacks.  The header, or the
\* index of a repeated key, names the next one when the record was the first.
Vdel(lug) ==
    /\ lug \in vivo
    /\ vivo' = vivo \ {lug}
    /\ clave' = Sin(clave, lug, 0, 0)
    /\ valor' = [i \in Reps |-> Sin(valor[i], lug, 0, 0)]
    /\ cuant' = [i \in Reps |-> Sin(cuant[i], lug, 0, 0)]
    /\ anter' = [i \in Llaves |-> Sin(anter[i], lug, proxi[i][lug], anter[i][lug])]
    /\ proxi' = [i \in Llaves |-> Sin(proxi[i], lug, anter[i][lug], proxi[i][lug])]
    /\ vpk' = Primero(lug)
    /\ idxu' = Olvida(lug)
    /\ idxr' = [i \in Reps |-> Topes(i, lug)]

Next == \E p \in Pos : Inclu(p) \/ Vdel(p)

Spec == Init /\ [][Next]_vars

-----------------------------------------------------------------------------
(* Properties *)

\* Every record has its key, its values and its neighbours, and nothing else has.
TypeOK ==
    /\ vivo \subseteq Pos
    /\ clave \in [vivo -> Claves]
    /\ valor \in [Reps -> [vivo -> Valores]]
    /\ anter \in [Llaves -> [vivo -> Pos0]]
    /\ proxi \in [Llaves -> [vivo -> Pos0]]
    /\ cuant \in [Reps -> [vivo -> 0..MaxCuant]]
    /\ vpk \in Pos0
    /\ idxu \in [Claves -> Pos0]
    /\ idxr \in [Reps -> [Valores -> Pos0]]

\* The unique index names exactly the records of the file, each by its key: no
\* record is lost to busca and no entry outlives its record.
IndiceFiel ==
    /\ \A p \in vivo : idxu[clave[p]] = p
    /\ \A c \in Claves : idxu[c] # 0 => idxu[c] \in vivo /\ clave[idxu[c]] = c

\* The chain of the unique key: from each record proxi leads to the next key of
\* the file and anter back, and vpk is the record of the smallest key.
Primera == /\ vpk = 0 <=> vivo = {}
           /\ vpk # 0 => vpk \in vivo /\ anter[Unica][vpk] = 0
Eslabon(p) ==
    LET a == anter[Unica][p]
        s == proxi[Unica][p]
    IN  /\ a = 0 => p = vpk /\ \A q \in vivo : clave[p] <= clave[q]
        /\ a # 0 => a \in vivo /\ proxi[Unica][a] = p
        /\ s = 0 => \A q \in vivo : clave[q] <= clave[p]
        /\ s # 0 => /\ s \in vivo /\ anter[Unica][s] = p /\ clave[p] < clave[s]
                    /\ \A q \in vivo : clave[q] <= clave[p] \/ clave[s] <= clave[q]
Cadena == Primera /\ \A p \in vivo : Eslabon(p)

\* The stacks of key i: the index names the top of each, pointers agree in both
\* directions and never leave the value, and cuant falls from the top down, so
\* that no stack runs in a circle.
Tope(i, x) == idxr[i][x] # 0 =>
    idxr[i][x] \in vivo /\ valor[i][idxr[i][x]] = x /\ anter[i][idxr[i][x]] = 0
Apilado(i, p) ==
    LET a == anter[i][p]
        s == proxi[i][p]
    IN  /\ a = 0 => idxr[i][valor[i][p]] = p
        /\ a # 0 => a \in vivo /\ proxi[i][a] = p /\ valor[i][a] = valor[i][p]
        /\ s # 0 => /\ s \in vivo /\ anter[i][s] = p
                    /\ valor[i][s] = valor[i][p] /\ cuant[i][s] < cuant[i][p]
Pilas == \A i \in Reps : /\ \A x \in Valores : Tope(i, x)
                         /\ \A p \in vivo : Apilado(i, p)

\* The walk along the chain of key i from p, as many steps as there are records.
Siguientes(i) == [q \in Pos |-> IF q \in vivo THEN proxi[i][q] ELSE 0]
Camino(i, p)  == Desde(p, Siguientes(i), Cardinality(vivo))

\* A program that starts at vpk ('T') and advances ('a') until it reads nothing
\* sees every record once, in key order: what the unload programs parcar and
\* cblfi depend on.
RecorreTodo ==
    LET S == Camino(Unica, vpk)
    IN  /\ Alcanza(S) = vivo
        /\ \A m, n \in DOMAIN S : m < n /\ S[n] # 0 => clave[S[m]] < clave[S[n]]

\* A program that picks a value of a repeated key ('P') and advances sees every
\* record with that value once, and no other.
RecorrePilas ==
    \A i \in Reps, x \in Valores :
        LET S == Camino(i, idxr[i][x])
        IN  /\ Alcanza(S) = {p \in vivo : valor[i][p] = x}
            /\ \A m, n \in DOMAIN S : S[m] = S[n] /\ S[n] # 0 => m = n

\* What a program that walks the file sees, by the unique key or along a value.
Recorre == RecorreTodo /\ RecorrePilas
=============================================================================

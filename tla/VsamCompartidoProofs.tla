------------------------- MODULE VsamCompartidoProofs -------------------------
(***************************************************************************)
(* What the locks of VsamCompartido guarantee, for any number of           *)
(* processes, records and data.                                            *)
(*                                                                         *)
(* IInvL holds whatever the programs do.  Its core is the exclusion at the *)
(* header (Cabecera): who is inside vdadd or vddel is alone there, so that *)
(* the copy of the header stays the file's until it is written back.       *)
(*                                                                         *)
(* IInvO needs every process to keep the discipline.  A lock is then at    *)
(* its holder's position and nobody waits for a record or enters vdadd     *)
(* holding one (Candados), and 'D' is only given with the record's lock    *)
(* (Leidos): nobody else can have locked the record when vddel asks for it *)
(* again, and nobody else can have changed it.                             *)
(*                                                                         *)
(* The lemmas go by groups of steps that disturb the same parts: Aparte    *)
(* away from the header, then one by one in vdadd and vddel for IInvL; and *)
(* who lets go of a record, who takes or frees none, who has it for IInvO. *)
(***************************************************************************)
EXTENDS VsamCompartido, VsamFileProofs, FiniteSetTheorems, SequenceTheorems

\* The process inside vdadd or vddel, if any, is the one that has the header.
Cabecera == \A p \in Procs : pc[p] \in ConCab <=> cab = p

\* The processes that wait to include a record: their keys are keys, and there
\* is a position for each.
PorIncluir  == {q \in Procs : pc[q] \in {"I_espera", "I_dentro"}}
IncluyeBien == \A p \in PorIncluir : buf[p].clave \in Claves
Cabe == Cardinality(vivo) + Cardinality(PorIncluir) <= Cardinality(Pos)

\* Who reads, writes or deletes a record has a position.
EnSitio == \A p \in Procs :
    /\ pc[p] \in {"N_espera", "D_espera", "D_dentro", "D_marca", "D_sale", "I_lee"}
         => lug[p] \in Pos
    /\ pc[p] = "I_sale" => lug[p] \in Pos0

IInvL == /\ IInv /\ TypeOKC
         /\ Cabecera /\ CabezaFresca /\ LibresFiel /\ IncluyeBien /\ Cabe /\ EnSitio

\* A process holds at most the lock of the record at its position, and none while
\* it waits for a record or includes one.
Candados == \A p \in Procs, x \in Pos : cand[x] = p =>
    lug[p] = x /\ pc[p] \in {"libre", "D_espera", "D_dentro", "D_marca"}

\* Who has read a record under its lock has the lock and what the file has; who
\* deletes has read; nobody includes a marked record.
Leido(p) ==
    /\ lug[p] \in Pos /\ cand[lug[p]] = p /\ buf[p] = datos[lug[p]]
    /\ lug[p] \in vivo \/ pc[p] = "D_marca"
Leidos == \A p \in Procs :
    /\ leido[p] => Leido(p)
    /\ pc[p] \in {"D_espera", "D_dentro", "D_marca"} => leido[p]
    /\ pc[p] \in {"I_espera", "I_dentro"} => buf[p].dato # Marca
    /\ pc[p] = "D_marca" => lug[p] \in 1..fin \ vivo

\* MarcaFiel, and nothing past the end of the file.
Marcas == MarcaFiel /\ \A x \in Pos : x > fin => datos[x].dato = Marca

IInvO == IInvL /\ Candados /\ Leidos /\ Marcas

Ficha == [clave : Claves \cup {0}, dato : Datos \cup {Marca}]
Cabezas == [vpk : Pos0, libres : Seq(Pos)]

-----------------------------------------------------------------------------
(* The free chain as a sequence *)

Elementos(s)  == {s[n] : n \in DOMAIN s}
SinRepetir(s) == \A m, n \in DOMAIN s : s[m] = s[n] => m = n

LEMMA SinElementos == Elementos(<<>>) = {} /\ SinRepetir(<<>>) /\ <<>> \in Seq(Pos)
<1>1. <<>> \in Seq(Pos) /\ DOMAIN <<>> = 1..0
  BY EmptySeq, LenProperties
<1> QED
  BY <1>1 DEF Elementos, SinRepetir

\* Without its head, the chain has all its positions but the first.
LEMMA ElementosDeCola ==
  ASSUME NEW s \in Seq(Pos), s # <<>>, SinRepetir(s)
  PROVE  /\ Tail(s) \in Seq(Pos) /\ Head(s) \in Pos /\ Head(s) \in Elementos(s)
         /\ Elementos(Tail(s)) = Elementos(s) \ {Head(s)}
         /\ SinRepetir(Tail(s))
<1>1. Len(s) \in Nat /\ Len(s) > 0 /\ DOMAIN s = 1..Len(s) /\ Head(s) = s[1]
  BY EmptySeq, LenProperties
<1>2. /\ Tail(s) \in Seq(Pos) /\ Head(s) \in Pos
      /\ DOMAIN Tail(s) = 1..(Len(s) - 1)
      /\ \A n \in 1..(Len(s) - 1) : Tail(s)[n] = s[n + 1]
  BY HeadTailProperties, LenProperties
<1>3. Head(s) \in Elementos(s)
  BY <1>1 DEF Elementos
<1>4. ASSUME NEW x \in Elementos(s), x # Head(s) PROVE x \in Elementos(Tail(s))
  <2>1. PICK n \in 1..Len(s) : x = s[n]
    BY <1>1 DEF Elementos
  <2>2. n - 1 \in 1..(Len(s) - 1) /\ Tail(s)[n - 1] = x
    BY <1>1, <1>2, <1>4, <2>1
  <2> QED
    BY <1>2, <2>2 DEF Elementos
<1>5. ASSUME NEW x \in Elementos(Tail(s)) PROVE x \in Elementos(s) /\ x # Head(s)
  <2>1. PICK n \in 1..(Len(s) - 1) : x = Tail(s)[n]
    BY <1>2 DEF Elementos
  <2>2. n + 1 \in 1..Len(s) /\ x = s[n + 1] /\ n + 1 # 1 /\ 1 \in 1..Len(s)
    BY <1>1, <1>2, <2>1
  <2> QED
    BY <1>1, <2>2 DEF Elementos, SinRepetir
<1>6. SinRepetir(Tail(s))
  <2>1. ASSUME NEW m \in 1..(Len(s) - 1), NEW n \in 1..(Len(s) - 1),
               Tail(s)[m] = Tail(s)[n]
        PROVE  m = n
    <3>1. m + 1 \in 1..Len(s) /\ n + 1 \in 1..Len(s) /\ s[m + 1] = s[n + 1]
      BY <1>1, <1>2, <2>1
    <3>2. m + 1 = n + 1
      BY <1>1, <3>1 DEF SinRepetir
    <3> QED
      BY <3>2
  <2> QED
    BY <1>2, <2>1 DEF SinRepetir
<1> QED
  BY <1>2, <1>3, <1>4, <1>5, <1>6

\* A position put before a chain that lacks it.
LEMMA ElementosAntepuesto ==
  ASSUME NEW s \in Seq(Pos), SinRepetir(s), NEW x \in Pos, x \notin Elementos(s)
  PROVE  /\ <<x>> \o s \in Seq(Pos)
         /\ Elementos(<<x>> \o s) = Elementos(s) \cup {x}
         /\ SinRepetir(<<x>> \o s)
<1> DEFINE t == <<x>> \o s
<1>1. Len(s) \in Nat /\ DOMAIN s = 1..Len(s)
  BY LenProperties
<1>2. <<x>> \in Seq(Pos) /\ Len(<<x>>) = 1 /\ <<x>>[1] = x
  OBVIOUS
<1>3. /\ t \in Seq(Pos) /\ DOMAIN t = 1..(Len(s) + 1)
      /\ \A n \in 1..(Len(s) + 1) : t[n] = IF n <= 1 THEN <<x>>[n] ELSE s[n - 1]
  <2>1. /\ t \in Seq(Pos) /\ Len(t) = Len(<<x>>) + Len(s)
        /\ \A n \in 1..(Len(<<x>>) + Len(s)) :
             t[n] = IF n <= Len(<<x>>) THEN <<x>>[n] ELSE s[n - Len(<<x>>)]
    BY <1>2, ConcatProperties
  <2>2. DOMAIN t = 1..Len(t)
    BY <2>1, LenProperties
  <2> QED
    BY <1>1, <1>2, <2>1, <2>2
<1>4. t[1] = x /\ 1 \in DOMAIN t
  BY <1>1, <1>2, <1>3
<1>5. \A n \in 1..(Len(s) + 1) : n # 1 => n - 1 \in 1..Len(s) /\ t[n] = s[n - 1]
  BY <1>1, <1>3
<1>6. \A n \in 1..Len(s) : n + 1 \in 1..(Len(s) + 1) /\ t[n + 1] = s[n]
  BY <1>1, <1>3
<1> HIDE DEF t
<1>7. Elementos(t) = Elementos(s) \cup {x}
  <2>1. ASSUME NEW y \in Elementos(t) PROVE y \in Elementos(s) \cup {x}
    BY <1>1, <1>3, <1>4, <1>5 DEF Elementos
  <2>2. ASSUME NEW y \in Elementos(s) PROVE y \in Elementos(t)
    BY <1>1, <1>3, <1>6, SMTT(30) DEF Elementos
  <2>3. x \in Elementos(t)
    BY <1>4 DEF Elementos
  <2> QED
    BY <2>1, <2>2, <2>3
<1>8. SinRepetir(t)
  <2>1. \A n \in 1..Len(s) : s[n] # x
    BY <1>1 DEF Elementos
  <2>2. ASSUME NEW m \in 1..(Len(s) + 1), NEW n \in 1..(Len(s) + 1), t[m] = t[n]
        PROVE  m = n
    <3>1. CASE m = 1 \/ n = 1
      BY <3>1, <2>1, <2>2, <1>4, <1>5
    <3>2. CASE m # 1 /\ n # 1
      <4>1. m - 1 \in 1..Len(s) /\ n - 1 \in 1..Len(s) /\ s[m - 1] = s[n - 1]
        BY <3>2, <2>2, <1>5
      <4>2. m - 1 = n - 1
        BY <4>1, <1>1 DEF SinRepetir
      <4> QED
        BY <4>2
    <3> QED
      BY <3>1, <3>2
  <2> QED
    BY <1>3, <2>2 DEF SinRepetir
<1> QED
  BY <1>3, <1>7, <1>8 DEF t

-----------------------------------------------------------------------------
(* The file and the number of its records *)

\* Pos is an interval that starts at 1.
LEMMA Posiciones ==
  /\ Cardinality(Pos) \in Nat
  /\ \A x : x \in Pos <=> x \in Nat /\ 1 <= x /\ x <= Cardinality(Pos)
<1>1. Cardinality(Pos) \in Nat
  BY ConstantesCompartido, FS_CardinalityType
<1> QED
  BY <1>1, ConstantesCompartido

\* inclu adds the record nw with its key and leaves the keys of the others.
LEMMA IncluAnade ==
  ASSUME IInv, NEW nw \in Pos, Inclu(nw)
  PROVE  /\ nw \notin vivo /\ vivo' = vivo \cup {nw}
         /\ \A q \in vivo : clave'[q] = clave[q]
         /\ clave'[nw] \in Claves
<1>1. PICK k \in Claves, v \in [Reps -> Valores] : Escribe(nw, k, v)
  BY DEF Inclu
<1>2. nw \notin vivo /\ vivo' = vivo \cup {nw}
  BY DEF Inclu
<1>3. DOMAIN clave = vivo /\ nw # 0 /\ \A q \in vivo : q # 0
  BY ConstantesArchivo DEF IInv, TypeOK
<1>4. clave' = Con(clave, nw, k, 0, 0)
  BY <1>1 DEF Escribe
<1> QED
  BY <1>2, <1>3, <1>4 DEF Con

\* vdel takes away the record lug and leaves the keys of the others.
LEMMA VdelQuita ==
  ASSUME IInv, NEW x \in vivo, Vdel(x)
  PROVE  /\ vivo' = vivo \ {x}
         /\ \A q \in vivo \ {x} : clave'[q] = clave[q]
<1>1. DOMAIN clave = vivo /\ \A q \in vivo : q # 0
  BY ConstantesArchivo DEF IInv, TypeOK
<1> QED
  BY <1>1 DEF Vdel, Sin

\* The records and the processes that include are finitely many.
LEMMA Finitos ==
  ASSUME IInvL
  PROVE  /\ IsFiniteSet(vivo) /\ Cardinality(vivo) \in Nat
         /\ IsFiniteSet(PorIncluir) /\ Cardinality(PorIncluir) \in Nat
<1>1. vivo \in SUBSET Pos /\ PorIncluir \in SUBSET Procs
  BY DEF IInvL, IInv, TypeOK, PorIncluir
<1> QED
  BY <1>1, ConstantesCompartido, FS_Subset, FS_CardinalityType

\* frsp always has a position to give to who includes: one of the file, without
\* a record.
LEMMA HayEspacio ==
  ASSUME IInvL, NEW p \in Procs, pc[p] = "I_dentro"
  PROVE  /\ Espacio(p) \in Pos /\ Espacio(p) \notin vivo
         /\ hdr[p].libres = libres /\ cab = p
<1>1. hdr[p] = [vpk |-> vpk, libres |-> libres] /\ cab = p
  BY DEF IInvL, CabezaFresca, Cabeza
<1>2. hdr[p].libres = libres
  BY <1>1
<1>3. libres \in Seq(Pos) /\ Elementos(libres) = 1..fin \ vivo /\ SinRepetir(libres)
  BY DEF IInvL, TypeOKC, LibresFiel, Elementos, SinRepetir
<1>4. fin \in Nat /\ vivo \subseteq 1..fin
  BY Posiciones DEF IInvL, TypeOKC, LibresFiel
<1>5. CASE libres = <<>>
  <2>1. Espacio(p) = fin + 1
    BY <1>2, <1>5 DEF Espacio
  <2>2. vivo = 1..fin
    BY <1>3, <1>4, <1>5, SinElementos
  <2>3. Cardinality(1..fin) = fin
    <3>1. 1 \in Int /\ fin \in Int
      BY <1>4
    <3>2. Cardinality(1..fin) = IF 1 > fin THEN 0 ELSE fin - 1 + 1
      BY <3>1, FS_Interval
    <3> QED
      BY <1>4, <3>2
  <2>4. Cardinality(PorIncluir) \in Nat /\ Cardinality(PorIncluir) # 0
    <3>1. p \in PorIncluir
      BY DEF PorIncluir
    <3> QED
      BY <3>1, Finitos, FS_EmptySet
  <2>5. Cardinality(1..fin) + Cardinality(PorIncluir) <= Cardinality(Pos)
    BY <2>2 DEF IInvL, Cabe
  <2>6. fin + 1 <= Cardinality(Pos)
    BY <1>4, <2>3, <2>4, <2>5, Posiciones
  <2>7. fin + 1 \in Pos /\ fin + 1 \notin 1..fin
    BY <1>4, <2>6, Posiciones
  <2> QED
    BY <1>1, <1>2, <2>1, <2>2, <2>7
<1>6. CASE libres # <<>>
  <2>1. Head(libres) \in Pos /\ Head(libres) \in Elementos(libres)
    BY <1>3, <1>6, ElementosDeCola
  <2> QED
    BY <1>1, <1>2, <1>3, <1>6, <2>1 DEF Espacio
<1> QED
  BY <1>5, <1>6

-----------------------------------------------------------------------------
(* Steps that leave the file and its header alone *)

\* A position of the file is none or a record's, and so is where busca goes.
LEMMA Destinos ==
  ASSUME IInvL
  PROVE  /\ 0..fin \subseteq Pos0
         /\ \A k \in Claves : Encuentra(k) \subseteq Pos0 \cup {-1}
<1>1. fin \in Nat /\ fin <= Cardinality(Pos)
  BY Posiciones DEF IInvL, TypeOKC
<1>2. ASSUME NEW x \in 0..fin PROVE x \in Pos0
  BY <1>1, <1>2, Posiciones DEF Pos0
<1>3. ASSUME NEW x \in -1..fin PROVE x \in Pos0 \cup {-1}
  BY <1>1, <1>2, <1>3
<1>4. ASSUME NEW k \in Claves
      PROVE  idxu[k] \in Pos0 /\ Menores(idxu, k) \subseteq Pos0 /\ Mayores(idxu, k) \subseteq Pos0
  BY DEF IInvL, IInv, TypeOK, Menores, Mayores
<1>5. 0 \in Pos0
  BY DEF Pos0
<1> QED
  BY <1>2, <1>3, <1>4, <1>5 DEF Encuentra

\* The header and its copies have the type of one.
LEMMA CabezasBien == IInvL => Cabeza \in Cabezas /\ Copia \in Cabezas
  BY SinElementos DEF IInvL, IInv, TypeOK, TypeOKC, Cabeza, Copia, Cabezas

LEMMA TipoLectura ==
  ASSUME IInvL, NEW p \in Procs, Reads(p) \/ PideN(p) \/ TomaN(p) \/ LeeSinCandado(p) \/ LeeNuevo(p)
  PROVE  TypeOKC'
<1>1. lug[p] \in Pos
  BY DEF IInvL, EnSitio, Reads, PideN, TomaN, LeeSinCandado, LeeNuevo
<1>2. /\ datos \in [Pos -> Ficha] /\ buf \in [Procs -> Ficha]
      /\ pc \in [Procs -> Lugares] /\ leido \in [Procs -> BOOLEAN]
      /\ cand \in [Pos -> Procs \cup {Nadie}]
  BY DEF IInvL, TypeOKC, Ficha
<1>3. /\ buf' \in [Procs -> Ficha] /\ leido' \in [Procs -> BOOLEAN]
      /\ cand' \in [Pos -> Procs \cup {Nadie}]
  <2>1. datos[lug[p]] \in Ficha /\ (datos[lug[p]].dato # Marca) \in BOOLEAN
    BY <1>1, <1>2
  <2>2. /\ buf' = buf \/ buf' = [buf EXCEPT ![p] = datos[lug[p]]]
        /\ leido' = leido \/ leido' = [leido EXCEPT ![p] = datos[lug[p]].dato # Marca]
        /\ cand' = cand \/ cand' = [cand EXCEPT ![lug[p]] = p]
    BY DEF Reads, PideN, TomaN, LeeSinCandado, LeeNuevo, LeeConCandado
  <2>3. buf' \in [Procs -> Ficha]
    BY <1>2, <2>1, <2>2
  <2>4. leido' \in [Procs -> BOOLEAN]
    BY <1>2, <2>1, <2>2
  <2>5. cand' \in [Pos -> Procs \cup {Nadie}]
    BY <1>1, <1>2, <2>2
  <2> QED
    BY <2>3, <2>4, <2>5
<1>4. pc' \in [Procs -> Lugares]
  BY <1>2 DEF Reads, PideN, TomaN, LeeSinCandado, LeeNuevo, LeeConCandado,
              Lugares, EsperaRec
<1>5. UNCHANGED <<datos, libres, fin, cab, lug, hdr>>
  BY DEF Reads, PideN, TomaN, LeeSinCandado, LeeNuevo
<1> QED
  BY <1>3, <1>4, <1>5 DEF IInvL, TypeOKC, Ficha

LEMMA SueltoBien ==
  ASSUME IInvL, NEW p \in Procs
  PROVE  Suelto(p) \in [Pos -> Procs \cup {Nadie}]
<1>1. cand \in [Pos -> Procs \cup {Nadie}]
  BY DEF IInvL, TypeOKC
<1> QED
  BY <1>1 DEF Suelto

LEMMA TipoMovimiento ==
  ASSUME IInvL, NEW p \in Procs,
         \/ Principio(p) \/ Suelta(p)
         \/ \E k \in Claves : Busca(p, k)
         \/ \E x \in Pos0 : Avanza(p, x)
  PROVE  TypeOKC'
<1>1. /\ lug \in [Procs -> Pos0 \cup {-1}] /\ hdr \in [Procs -> Cabezas]
      /\ leido \in [Procs -> BOOLEAN] /\ cand \in [Pos -> Procs \cup {Nadie}]
  BY DEF IInvL, TypeOKC, Cabezas
<1>2. leido' \in [Procs -> BOOLEAN] /\ cand' \in [Pos -> Procs \cup {Nadie}]
  BY <1>1, SueltoBien DEF Principio, Suelta, Busca, Avanza, Mueve
<1>3. hdr' \in [Procs -> Cabezas]
  BY <1>1, CabezasBien DEF Principio, Suelta, Busca, Avanza
<1>4. lug' \in [Procs -> Pos0 \cup {-1}]
  <2>1. hdr[p].vpk \in Pos0
    BY <1>1 DEF Cabezas
  <2> QED
    BY <1>1, <2>1, Destinos DEF Principio, Suelta, Busca, Avanza, Mueve
<1>5. UNCHANGED <<datos, libres, fin, cab, buf, pc>>
  BY DEF Principio, Suelta, Busca, Avanza
<1> QED
  BY <1>2, <1>3, <1>4, <1>5 DEF IInvL, TypeOKC, Cabezas

LEMMA TipoEscritura ==
  ASSUME IInvL, NEW p \in Procs,
         \/ PideD(p)
         \/ \E d \in Datos : Graba(p, d)
         \/ \E d \in Datos \cup {Marca} : \E k \in Claves : PideI(p, k, d)
  PROVE  TypeOKC'
<1>1. /\ datos \in [Pos -> Ficha] /\ buf \in [Procs -> Ficha]
      /\ pc \in [Procs -> Lugares] /\ leido \in [Procs -> BOOLEAN]
      /\ cand \in [Pos -> Procs \cup {Nadie}]
  BY DEF IInvL, TypeOKC, Ficha
<1>2. leido' \in [Procs -> BOOLEAN] /\ cand' \in [Pos -> Procs \cup {Nadie}]
  BY <1>1, SueltoBien DEF PideD, Graba, PideI, RetieneAlPedir
<1>3. datos' \in [Pos -> Ficha] /\ buf' \in [Procs -> Ficha]
  <2>1. CASE PideD(p)
    BY <2>1, <1>1 DEF PideD
  <2>2. ASSUME NEW d \in Datos, Graba(p, d)
        PROVE  datos' \in [Pos -> Ficha] /\ buf' \in [Procs -> Ficha]
    <3>1. \A f \in Ficha : [f EXCEPT !.dato = d] \in Ficha
      BY DEF Ficha
    <3>2. /\ lug[p] \in Pos
          /\ datos' = [datos EXCEPT ![lug[p]] = [datos[lug[p]] EXCEPT !.dato = d]]
          /\ buf' = [buf EXCEPT ![p] = [buf[p] EXCEPT !.dato = d]]
      BY <2>2 DEF Graba
    <3>3. /\ [datos[lug[p]] EXCEPT !.dato = d] \in Ficha
          /\ [buf[p] EXCEPT !.dato = d] \in Ficha
      BY <1>1, <3>1, <3>2
    <3> QED
      BY <1>1, <3>2, <3>3
  <2>3. ASSUME NEW d \in Datos \cup {Marca}, NEW k \in Claves, PideI(p, k, d)
        PROVE  datos' \in [Pos -> Ficha] /\ buf' \in [Procs -> Ficha]
    <3>1. [clave |-> k, dato |-> d] \in Ficha
      BY DEF Ficha
    <3> QED
      BY <1>1, <2>3, <3>1 DEF PideI
  <2> QED
    BY <2>1, <2>2, <2>3
<1>4. pc' \in [Procs -> Lugares]
  BY <1>1 DEF PideD, Graba, PideI, Lugares, EsperaCab
<1>5. UNCHANGED <<libres, fin, cab, lug, hdr>>
  BY DEF PideD, Graba, PideI
<1> QED
  BY <1>2, <1>3, <1>4, <1>5 DEF IInvL, TypeOKC, Ficha

LEMMA TipoApertura ==
  ASSUME IInvL, NEW p \in Procs, Abre(p)
  PROVE  TypeOKC'
<1>1. /\ lug \in [Procs -> Pos0 \cup {-1}] /\ hdr \in [Procs -> Cabezas]
      /\ pc \in [Procs -> Lugares] /\ vpk \in Pos0
  BY DEF IInvL, IInv, TypeOK, TypeOKC, Cabezas
<1>2. lug' \in [Procs -> Pos0 \cup {-1}] /\ hdr' \in [Procs -> Cabezas]
  BY <1>1, CabezasBien DEF Abre
<1>3. pc' \in [Procs -> Lugares]
  BY <1>1 DEF Abre, Lugares
<1>4. UNCHANGED <<datos, libres, fin, cab, cand, buf, leido>>
  BY DEF Abre
<1> QED
  BY <1>2, <1>3, <1>4 DEF IInvL, TypeOKC, Cabezas

\* A step of p away from the header and out of the queue to include.
Aparte(p) ==
    /\ UNCHANGED <<archivo, libres, fin, cab>>
    /\ pc[p] \notin ConCab \cup {"I_espera"}
    /\ pc'[p] \in {"libre", "N_espera", "D_espera"}
    /\ pc'[p] = "libre" \/ lug'[p] \in Pos
    /\ \A q \in Procs \ {p} : /\ pc'[q] = pc[q] /\ hdr'[q] = hdr[q]
                              /\ lug'[q] = lug[q] /\ buf'[q] = buf[q]

LEMMA InvAparte ==
  ASSUME IInvL, NEW p \in Procs, Aparte(p), TypeOKC'
  PROVE  IInvL'
<1>1. UNCHANGED vars /\ libres' = libres /\ fin' = fin /\ cab' = cab
  BY DEF Aparte, archivo
<1>2. \A q \in Procs : q # p => /\ pc'[q] = pc[q] /\ hdr'[q] = hdr[q]
                                /\ lug'[q] = lug[q] /\ buf'[q] = buf[q]
  BY DEF Aparte
<1>3. /\ pc[p] \notin ConCab /\ pc'[p] \notin ConCab
      /\ pc[p] \notin {"I_espera", "I_dentro"} /\ pc'[p] \notin {"I_espera", "I_dentro"}
      /\ pc[p] \notin {"I_dentro", "D_dentro"} /\ pc'[p] \notin {"I_dentro", "D_dentro"}
      /\ pc'[p] # "I_sale" /\ (pc'[p] = "libre" \/ lug'[p] \in Pos)
  BY DEF Aparte, ConCab
<1>4. IInv'
  BY <1>1, InvQuieto DEF IInvL
<1>5. Cabecera'
  BY <1>1, <1>2, <1>3 DEF IInvL, Cabecera
<1>6. CabezaFresca'
  <2>1. Cabeza' = Cabeza
    BY <1>1 DEF Cabeza, vars
  <2> QED
    BY <1>1, <1>2, <1>3, <2>1 DEF IInvL, CabezaFresca
<1>7. LibresFiel'
  BY <1>1 DEF IInvL, LibresFiel, vars
<1>8. PorIncluir' = PorIncluir
  BY <1>2, <1>3 DEF PorIncluir
<1>9. IncluyeBien'
  <2>1. p \notin PorIncluir
    BY <1>3 DEF PorIncluir
  <2>2. \A q \in PorIncluir : q \in Procs
    BY DEF PorIncluir
  <2> QED
    BY <1>2, <1>8, <2>1, <2>2 DEF IInvL, IncluyeBien
<1>10. Cabe'
  BY <1>1, <1>8 DEF IInvL, Cabe, vars
<1>11. EnSitio'
  BY <1>2, <1>3 DEF IInvL, EnSitio, Aparte
<1> QED
  BY <1>4, <1>5, <1>6, <1>7, <1>9, <1>10, <1>11 DEF IInvL

\* The reads, the moves, 'w', 'O' and the wait of 'D' are such steps.
Callado(p) ==
    \/ Reads(p) \/ PideN(p) \/ TomaN(p) \/ LeeSinCandado(p) \/ LeeNuevo(p)
    \/ Principio(p) \/ Suelta(p)
    \/ \E k \in Claves : Busca(p, k)
    \/ \E x \in Pos0 : Avanza(p, x)
    \/ PideD(p) \/ Abre(p) \/ \E d \in Datos : Graba(p, d)

LEMMA CalladoAparte ==
  ASSUME IInvL, NEW p \in Procs, Callado(p)
  PROVE  Aparte(p)
<1>1. pc \in [Procs -> Lugares] /\ lug \in [Procs -> Pos0 \cup {-1}]
      /\ hdr \in [Procs -> Cabezas] /\ buf \in [Procs -> Ficha]
  BY DEF IInvL, TypeOKC, Cabezas, Ficha
<1>2. CASE Reads(p) \/ PideN(p) \/ TomaN(p) \/ LeeSinCandado(p) \/ LeeNuevo(p)
  BY <1>1, <1>2 DEF Aparte, Reads, PideN, TomaN, LeeSinCandado, LeeNuevo, LeeConCandado,
     EnLibre, ConCab
<1>3. CASE Principio(p) \/ Suelta(p)
  BY <1>1, <1>3 DEF Aparte, Principio, Suelta, Mueve, EnLibre, ConCab
<1>4. CASE \E k \in Claves : Busca(p, k)
  BY <1>1, <1>4 DEF Aparte, Busca, Mueve, EnLibre, ConCab
<1>5. CASE \E x \in Pos0 : Avanza(p, x)
  BY <1>1, <1>5 DEF Aparte, Avanza, Mueve, EnLibre, ConCab
<1>6. CASE PideD(p) \/ Abre(p)
  BY <1>1, <1>6 DEF Aparte, PideD, Abre, EnLibre, ConCab
<1>7. CASE \E d \in Datos : Graba(p, d)
  BY <1>1, <1>7 DEF Aparte, Graba, EnLibre, ConCab
<1> QED
  BY <1>2, <1>3, <1>4, <1>5, <1>6, <1>7 DEF Callado

LEMMA InvCallado ==
  ASSUME IInvL, NEW p \in Procs, Callado(p)
  PROVE  IInvL'
<1>1. Aparte(p)
  BY CalladoAparte
<1>2. TypeOKC'
  BY TipoLectura, TipoMovimiento, TipoEscritura, TipoApertura DEF Callado
<1> QED
  BY <1>1, <1>2, InvAparte

-----------------------------------------------------------------------------
(* vdadd and vddel *)

\* Who is inside vdadd or vddel is alone there.
LEMMA Solo ==
  ASSUME IInvL, NEW p \in Procs, pc[p] \in ConCab
  PROVE  cab = p /\ \A q \in Procs : q # p => pc[q] \notin ConCab
BY DEF IInvL, Cabecera

\* Steps of p inside vdadd or vddel, or to get there, leave the others as they are.
Otros(p) == \A q \in Procs : q # p => /\ pc'[q] = pc[q] /\ hdr'[q] = hdr[q]
                                      /\ lug'[q] = lug[q] /\ buf'[q] = buf[q]

LEMMA InvPideI ==
  ASSUME IInvL, NEW p \in Procs, NEW k \in Claves, NEW d \in Datos \cup {Marca},
         PideI(p, k, d)
  PROVE  IInvL'
<1>1. UNCHANGED vars /\ libres' = libres /\ fin' = fin /\ cab' = cab
  BY DEF PideI, archivo
<1>2. /\ pc \in [Procs -> Lugares] /\ buf \in [Procs -> Ficha]
      /\ pc[p] = "libre" /\ pc' = [pc EXCEPT ![p] = "I_espera"]
      /\ buf' = [buf EXCEPT ![p] = [clave |-> k, dato |-> d]] /\ hdr' = hdr /\ lug' = lug
  BY DEF PideI, EnLibre, IInvL, TypeOKC, Ficha
<1>3. pc'[p] = "I_espera" /\ buf'[p].clave = k /\ Otros(p)
  BY <1>2 DEF Otros
<1>4. IInv'
  BY <1>1, InvQuieto DEF IInvL
<1>5. TypeOKC'
  BY TipoEscritura
<1>6. Cabecera'
  BY <1>1, <1>2, <1>3 DEF IInvL, Cabecera, Otros, ConCab
<1>7. CabezaFresca'
  <2>1. Cabeza' = Cabeza
    BY <1>1 DEF Cabeza, vars
  <2> QED
    BY <1>1, <1>2, <1>3, <2>1 DEF IInvL, CabezaFresca, Otros
<1>8. LibresFiel'
  BY <1>1 DEF IInvL, LibresFiel, vars
<1>9. p \notin PorIncluir /\ PorIncluir' = PorIncluir \cup {p}
  BY <1>2, <1>3 DEF PorIncluir, Otros
<1>10. IncluyeBien'
  <2>1. \A q \in PorIncluir : q \in Procs
    BY DEF PorIncluir
  <2> QED
    BY <1>3, <1>9, <2>1 DEF IInvL, IncluyeBien, Otros
<1>11. Cabe'
  <2>1. Cardinality(PorIncluir') = Cardinality(PorIncluir) + 1
    BY <1>9, Finitos, FS_AddElement
  <2>2. ~ (Cardinality(vivo) + Cardinality(PorIncluir) >= Cardinality(Pos))
    BY DEF PideI, Lleno, PorIncluir
  <2>3. vivo' = vivo
    BY <1>1 DEF vars
  <2>4. Cardinality(vivo) \in Nat /\ Cardinality(PorIncluir) \in Nat
    BY Finitos
  <2>5. Cardinality(vivo) + (Cardinality(PorIncluir) + 1) <= Cardinality(Pos)
    BY <2>2, <2>4, Posiciones
  <2> QED
    BY <2>1, <2>3, <2>5 DEF Cabe
<1>12. EnSitio'
  BY <1>2, <1>3 DEF IInvL, EnSitio, Otros
<1> QED
  BY <1>4, <1>5, <1>6, <1>7, <1>8, <1>10, <1>11, <1>12 DEF IInvL

LEMMA InvTomaCab ==
  ASSUME IInvL, NEW p \in Procs, TomaCab(p)
  PROVE  IInvL'
<1> DEFINE sigue == IF pc[p] = "I_espera" THEN "I_dentro" ELSE "D_dentro"
<1>1. UNCHANGED vars /\ UNCHANGED <<datos, libres, fin, cand, lug, buf, leido>>
  BY DEF TomaCab, archivo
<1>2. /\ pc \in [Procs -> Lugares] /\ hdr \in [Procs -> Cabezas]
      /\ pc[p] \in {"I_espera", "D_espera"} /\ cab = Nadie /\ cab' = p
      /\ pc' = [pc EXCEPT ![p] = sigue] /\ hdr' = [hdr EXCEPT ![p] = Cabeza]
  BY DEF TomaCab, EsperaCab, CabezaDisponible, IInvL, TypeOKC, Cabezas
<1>3. pc'[p] = sigue /\ hdr'[p] = Cabeza /\ Otros(p)
  BY <1>1, <1>2 DEF Otros
<1>4. sigue \in {"I_dentro", "D_dentro"} /\ sigue \in ConCab /\ sigue \in Lugares
      /\ (sigue = "I_dentro" <=> pc[p] = "I_espera")
      /\ (sigue = "D_dentro" => pc[p] = "D_espera")
  BY <1>2 DEF ConCab, Lugares
<1> HIDE DEF sigue
<1>5. Cabeza' = Cabeza
  BY <1>1 DEF Cabeza, vars
<1>6. IInv'
  BY <1>1, InvQuieto DEF IInvL
<1>7. TypeOKC'
  <2>1. hdr' \in [Procs -> Cabezas] /\ pc' \in [Procs -> Lugares]
    BY <1>2, <1>4, CabezasBien
  <2>2. cab' \in Procs \cup {Nadie}
    BY <1>2
  <2> QED
    BY <1>1, <2>1, <2>2 DEF IInvL, TypeOKC, Cabezas
<1>8. \A q \in Procs : pc[q] \notin ConCab
  BY <1>2, ConstantesCompartido DEF IInvL, Cabecera
<1>9. Cabecera'
  BY <1>2, <1>3, <1>4, <1>8 DEF Cabecera, Otros
<1>10. CabezaFresca'
  <2>1. \A q \in Procs : q # p => pc'[q] \notin {"I_dentro", "D_dentro"}
    BY <1>3, <1>8 DEF Otros, ConCab
  <2> QED
    BY <1>2, <1>3, <1>5, <2>1 DEF CabezaFresca
<1>11. LibresFiel'
  BY <1>1 DEF IInvL, LibresFiel, vars
<1>12. PorIncluir' = PorIncluir
  BY <1>2, <1>3, <1>4 DEF PorIncluir, Otros
<1>13. IncluyeBien' /\ Cabe'
  BY <1>1, <1>12 DEF IInvL, IncluyeBien, Cabe, vars
<1>14. EnSitio'
  BY <1>1, <1>3, <1>4 DEF IInvL, EnSitio, Otros
<1> QED
  BY <1>6, <1>7, <1>9, <1>10, <1>11, <1>13, <1>14 DEF IInvL

LEMMA InvSueltaCab ==
  ASSUME IInvL, NEW p \in Procs, SueltaCab(p)
  PROVE  IInvL'
<1> DEFINE sigue == IF pc[p] = "I_sale" /\ lug[p] # 0 THEN "I_lee" ELSE "libre"
<1>1. UNCHANGED vars /\ UNCHANGED <<datos, libres, fin, cand, lug, buf, leido>>
  BY DEF SueltaCab, archivo
<1>2. /\ pc \in [Procs -> Lugares] /\ hdr \in [Procs -> Cabezas]
      /\ pc[p] \in {"I_sale", "D_sale"} /\ cab' = Nadie
      /\ pc' = [pc EXCEPT ![p] = sigue] /\ hdr' = [hdr EXCEPT ![p] = Copia]
  BY DEF SueltaCab, CabezaLibre, IInvL, TypeOKC, Cabezas
<1>3. pc'[p] = sigue /\ Otros(p)
  BY <1>1, <1>2 DEF Otros
<1>4. sigue \in {"I_lee", "libre"} /\ (sigue = "I_lee" => pc[p] = "I_sale" /\ lug[p] # 0)
  OBVIOUS
<1> HIDE DEF sigue
<1>5. cab = p /\ \A q \in Procs : q # p => pc[q] \notin ConCab
  BY <1>2, Solo DEF ConCab
<1>6. IInv'
  BY <1>1, InvQuieto DEF IInvL
<1>7. TypeOKC'
  <2>1. sigue \in Lugares
    BY <1>4 DEF Lugares
  <2>2. hdr' \in [Procs -> Cabezas] /\ pc' \in [Procs -> Lugares]
    BY <1>2, <2>1, CabezasBien
  <2>3. cab' \in Procs \cup {Nadie}
    BY <1>2
  <2> QED
    BY <1>1, <2>2, <2>3 DEF IInvL, TypeOKC, Cabezas
<1>8. \A q \in Procs : pc'[q] \notin ConCab
  BY <1>3, <1>4, <1>5 DEF Otros, ConCab
<1>9. Cabecera'
  BY <1>2, <1>8, ConstantesCompartido DEF Cabecera
<1>10. CabezaFresca'
  BY <1>8 DEF CabezaFresca, ConCab
<1>11. LibresFiel'
  BY <1>1 DEF IInvL, LibresFiel, vars
<1>12. PorIncluir' = PorIncluir
  BY <1>2, <1>3, <1>4 DEF PorIncluir, Otros
<1>13. IncluyeBien' /\ Cabe'
  BY <1>1, <1>12 DEF IInvL, IncluyeBien, Cabe, vars
<1>14. EnSitio'
  <2>1. pc[p] = "I_sale" => lug[p] \in Pos0
    BY DEF IInvL, EnSitio
  <2>2. pc'[p] = "I_lee" => lug'[p] \in Pos
    BY <1>1, <1>3, <1>4, <2>1 DEF Pos0
  <2> QED
    BY <1>1, <1>3, <1>4, <2>2 DEF IInvL, EnSitio, Otros
<1> QED
  BY <1>6, <1>7, <1>9, <1>10, <1>11, <1>13, <1>14 DEF IInvL

\* What the rest of the chain and the end of the file are once p has included a
\* record: every position of the file still has a record or is in the chain.
LEMMA RestoBien ==
  ASSUME IInvL, NEW p \in Procs, pc[p] = "I_dentro"
  PROVE  LET nw == Espacio(p)
             f  == IF nw > fin THEN nw ELSE fin
         IN  /\ Resto(p) \in Seq(Pos) /\ SinRepetir(Resto(p))
             /\ Elementos(Resto(p)) = 1..f \ (vivo \cup {nw})
             /\ f \in 0..Cardinality(Pos) /\ vivo \cup {nw} \subseteq 1..f
<1> DEFINE nw == Espacio(p)
           f  == IF nw > fin THEN nw ELSE fin
<1>1. nw \in Pos /\ nw \notin vivo /\ hdr[p].libres = libres
  BY HayEspacio
<1>2. libres \in Seq(Pos) /\ Elementos(libres) = 1..fin \ vivo /\ SinRepetir(libres)
  BY DEF IInvL, TypeOKC, LibresFiel, Elementos, SinRepetir
<1>3. /\ fin \in Nat /\ fin <= Cardinality(Pos) /\ vivo \subseteq 1..fin
      /\ nw \in Nat /\ 1 <= nw /\ nw <= Cardinality(Pos) /\ Cardinality(Pos) \in Nat
  BY <1>1, Posiciones DEF IInvL, TypeOKC, LibresFiel
<1>4. CASE libres = <<>>
  <2>1. nw = fin + 1 /\ Resto(p) = <<>>
    BY <1>1, <1>4 DEF Espacio, Resto
  <2>2. f = fin + 1
    BY <1>3, <2>1
  <2>3. vivo = 1..fin
    BY <1>2, <1>3, <1>4, SinElementos
  <2>4. vivo \cup {nw} = 1..f
    <3>1. \A x : x \in 1..(fin + 1) <=> x \in 1..fin \/ x = fin + 1
      BY <1>3
    <3> QED
      BY <2>1, <2>2, <2>3, <3>1
  <2>5. f \in 0..Cardinality(Pos)
    BY <1>3
  <2> QED
    BY <2>1, <2>4, <2>5, SinElementos
<1>5. CASE libres # <<>>
  <2>1. nw = Head(libres) /\ Resto(p) = Tail(libres)
    BY <1>1, <1>5 DEF Espacio, Resto
  <2>2. /\ Tail(libres) \in Seq(Pos) /\ Head(libres) \in Elementos(libres)
        /\ Elementos(Tail(libres)) = Elementos(libres) \ {Head(libres)}
        /\ SinRepetir(Tail(libres))
    BY <1>2, <1>5, ElementosDeCola
  <2>3. nw \in 1..fin
    BY <1>2, <2>1, <2>2
  <2>4. f = fin
    BY <1>3, <2>3
  <2>5. f \in 0..Cardinality(Pos)
    BY <1>3, <2>4
  <2>6. Elementos(Resto(p)) = 1..fin \ (vivo \cup {nw})
    BY <1>2, <2>1, <2>2
  <2> HIDE DEF nw, f
  <2> QED
    BY <1>3, <2>1, <2>2, <2>3, <2>4, <2>5, <2>6 DEF nw, f
<1> QED
  BY <1>4, <1>5

\* inclu refuses the key, or enters the record in the position frsp gave it.
LEMMA IncluyePasos ==
  ASSUME IInvL, NEW p \in Procs, Incluye(p)
  PROVE  /\ pc[p] = "I_dentro" /\ pc' = [pc EXCEPT ![p] = "I_sale"]
         /\ UNCHANGED <<cab, cand, buf, hdr, leido>>
         /\ \/ /\ lug' = [lug EXCEPT ![p] = 0]
               /\ UNCHANGED <<vars, datos, libres, fin>>
            \/ /\ Inclu(Espacio(p)) /\ clave'[Espacio(p)] = buf[p].clave
               /\ datos' = [datos EXCEPT ![Espacio(p)] = buf[p]]
               /\ lug' = [lug EXCEPT ![p] = Espacio(p)]
               /\ libres' = Resto(p)
               /\ fin' = IF Espacio(p) > fin THEN Espacio(p) ELSE fin
BY DEF Incluye, archivo

LEMMA InvIncluye ==
  ASSUME IInvL, NEW p \in Procs, Incluye(p)
  PROVE  IInvL'
<1> DEFINE nw == Espacio(p)
<1>1. /\ pc \in [Procs -> Lugares] /\ lug \in [Procs -> Pos0 \cup {-1}]
      /\ buf \in [Procs -> Ficha] /\ datos \in [Pos -> Ficha]
  BY DEF IInvL, TypeOKC, Ficha
<1>2. /\ pc[p] = "I_dentro" /\ pc' = [pc EXCEPT ![p] = "I_sale"]
      /\ UNCHANGED <<cab, cand, buf, hdr, leido>>
      /\ \/ /\ lug' = [lug EXCEPT ![p] = 0]
            /\ UNCHANGED <<vars, datos, libres, fin>>
         \/ /\ Inclu(nw) /\ datos' = [datos EXCEPT ![nw] = buf[p]]
            /\ lug' = [lug EXCEPT ![p] = nw]
            /\ libres' = Resto(p) /\ fin' = IF nw > fin THEN nw ELSE fin
  BY IncluyePasos
<1>3. nw \in Pos /\ nw \notin vivo /\ nw \in Pos0
  BY <1>2, HayEspacio DEF Pos0
<1>4. cab = p /\ \A q \in Procs : q # p => pc[q] \notin ConCab
  BY <1>2, Solo DEF ConCab
<1> HIDE DEF nw
<1>5. pc'[p] = "I_sale" /\ lug'[p] \in Pos0 /\ Otros(p)
  BY <1>1, <1>2, <1>3 DEF Otros, Pos0
<1>6. IInv'
  BY <1>2, <1>3, InvInclu, InvQuieto DEF IInvL
<1>7. TypeOKC'
  <2>1. libres' \in Seq(Pos) /\ fin' \in 0..Cardinality(Pos)
    <3>1. libres \in Seq(Pos) /\ fin \in 0..Cardinality(Pos)
      BY DEF IInvL, TypeOKC
    <3> QED
      BY <1>2, <3>1, RestoBien DEF nw
  <2>2. datos' \in [Pos -> Ficha] /\ lug' \in [Procs -> Pos0 \cup {-1}]
    BY <1>1, <1>2, <1>3 DEF Pos0
  <2>3. pc' \in [Procs -> Lugares]
    BY <1>1, <1>2 DEF Lugares, ConCab
  <2> QED
    BY <1>2, <2>1, <2>2, <2>3 DEF IInvL, TypeOKC, Ficha
<1>8. Cabecera'
  BY <1>2, <1>4, <1>5 DEF Cabecera, Otros, ConCab
<1>9. CabezaFresca'
  <2>1. \A q \in Procs : pc'[q] \notin {"I_dentro", "D_dentro"}
    BY <1>4, <1>5 DEF Otros, ConCab
  <2> QED
    BY <2>1 DEF CabezaFresca
<1>10. LibresFiel'
  <2>1. CASE UNCHANGED <<vars, datos, libres, fin>>
    BY <2>1 DEF IInvL, LibresFiel, vars
  <2>2. CASE Inclu(nw) /\ libres' = Resto(p) /\ fin' = IF nw > fin THEN nw ELSE fin
    <3>1. vivo' = vivo \cup {nw}
      BY <2>2 DEF Inclu
    <3>2. /\ SinRepetir(libres') /\ Elementos(libres') = 1..fin' \ vivo'
          /\ vivo' \subseteq 1..fin'
      BY <1>2, <2>2, <3>1, RestoBien DEF nw
    <3> QED
      BY <3>2 DEF LibresFiel, SinRepetir, Elementos
  <2> QED
    BY <1>2, <2>1, <2>2
<1>11. p \in PorIncluir /\ PorIncluir' = PorIncluir \ {p}
  BY <1>2, <1>5 DEF PorIncluir, Otros
<1>12. IncluyeBien'
  BY <1>2, <1>11 DEF IInvL, IncluyeBien
<1>13. Cabe'
  <2>1. Cardinality(PorIncluir') = Cardinality(PorIncluir) - 1
    BY <1>11, Finitos, FS_RemoveElement
  <2>2. Cardinality(vivo') = Cardinality(vivo) \/ Cardinality(vivo') = Cardinality(vivo) + 1
    <3>1. vivo' = vivo \/ vivo' = vivo \cup {nw}
      BY <1>2 DEF vars, Inclu
    <3> QED
      BY <1>3, <3>1, Finitos, FS_AddElement
  <2>3. Cardinality(vivo) \in Nat /\ Cardinality(PorIncluir) \in Nat
    BY Finitos
  <2>4. Cardinality(vivo) + Cardinality(PorIncluir) <= Cardinality(Pos)
    BY DEF IInvL, Cabe
  <2>5. Cardinality(vivo') + Cardinality(PorIncluir') <= Cardinality(Pos)
    BY <2>1, <2>2, <2>3, <2>4, Posiciones
  <2> QED
    BY <2>5 DEF Cabe
<1>14. EnSitio'
  BY <1>5 DEF IInvL, EnSitio, Otros
<1> QED
  BY <1>6, <1>7, <1>8, <1>9, <1>10, <1>12, <1>13, <1>14 DEF IInvL

LEMMA InvBorra ==
  ASSUME IInvL, NEW p \in Procs, Borra(p)
  PROVE  IInvL'
<1> DEFINE x == lug[p]
<1>1. UNCHANGED <<datos, fin, cab, cand, lug, buf, hdr, leido>>
  BY DEF Borra
<1>2. /\ pc \in [Procs -> Lugares] /\ pc[p] = "D_dentro" /\ pc' = [pc EXCEPT ![p] = "D_marca"]
      /\ x \in vivo /\ Vdel(x) /\ x \in Pos
  BY DEF Borra, IInvL, TypeOKC, IInv, TypeOK
<1>3. hdr[p] = [vpk |-> vpk, libres |-> libres]
  BY <1>2 DEF IInvL, CabezaFresca, Cabeza
<1>4. libres' = <<x>> \o libres
  BY <1>3 DEF Borra
<1>5. cab = p /\ \A q \in Procs : q # p => pc[q] \notin ConCab
  BY <1>2, Solo DEF ConCab
<1>6. pc'[p] = "D_marca" /\ Otros(p)
  BY <1>1, <1>2 DEF Otros
<1>7. vivo' = vivo \ {x}
  BY <1>2 DEF Vdel
<1>8. IInv'
  BY <1>2, VdelTipo, VdelIndice, VdelCadena, VdelPilas DEF IInvL, IInv
<1> HIDE DEF x
<1>9. /\ libres \in Seq(Pos) /\ Elementos(libres) = 1..fin \ vivo /\ SinRepetir(libres)
      /\ vivo \subseteq 1..fin
  BY DEF IInvL, TypeOKC, LibresFiel, Elementos, SinRepetir
<1>10. /\ libres' \in Seq(Pos) /\ SinRepetir(libres')
       /\ Elementos(libres') = Elementos(libres) \cup {x}
  BY <1>2, <1>4, <1>9, ElementosAntepuesto
<1>11. TypeOKC'
  <2>1. pc' \in [Procs -> Lugares]
    BY <1>2 DEF Lugares, ConCab
  <2> QED
    BY <1>1, <1>10, <2>1 DEF IInvL, TypeOKC
<1>12. Cabecera'
  BY <1>1, <1>5, <1>6 DEF Cabecera, Otros, ConCab
<1>13. CabezaFresca'
  <2>1. \A q \in Procs : pc'[q] \notin {"I_dentro", "D_dentro"}
    BY <1>5, <1>6 DEF Otros, ConCab
  <2> QED
    BY <2>1 DEF CabezaFresca
<1>14. LibresFiel'
  <2>1. Elementos(libres') = 1..fin \ vivo' /\ vivo' \subseteq 1..fin /\ fin' = fin
    BY <1>1, <1>2, <1>7, <1>9, <1>10
  <2> QED
    BY <1>10, <2>1 DEF LibresFiel, SinRepetir, Elementos
<1>15. PorIncluir' = PorIncluir
  BY <1>2, <1>6 DEF PorIncluir, Otros
<1>16. IncluyeBien'
  BY <1>1, <1>15 DEF IInvL, IncluyeBien
<1>17. Cabe'
  <2>1. Cardinality(vivo') = Cardinality(vivo) - 1
    BY <1>2, <1>7, Finitos, FS_RemoveElement
  <2>2. Cardinality(vivo) \in Nat /\ Cardinality(PorIncluir) \in Nat
    BY Finitos
  <2>3. Cardinality(vivo) + Cardinality(PorIncluir) <= Cardinality(Pos)
    BY DEF IInvL, Cabe
  <2>4. Cardinality(vivo') + Cardinality(PorIncluir) <= Cardinality(Pos)
    BY <2>1, <2>2, <2>3, Posiciones
  <2> QED
    BY <1>15, <2>4 DEF Cabe
<1>18. EnSitio'
  <2>1. lug'[p] \in Pos
    BY <1>1, <1>2 DEF x
  <2> QED
    BY <1>6, <2>1 DEF IInvL, EnSitio, Otros
<1> QED
  BY <1>8, <1>11, <1>12, <1>13, <1>14, <1>16, <1>17, <1>18 DEF IInvL

LEMMA InvMarcaRegistro ==
  ASSUME IInvL, NEW p \in Procs, MarcaRegistro(p)
  PROVE  IInvL'
<1> DEFINE f == [datos[lug[p]] EXCEPT !.dato = Marca]
<1>1. UNCHANGED vars /\ UNCHANGED <<libres, fin, cab, lug, hdr>>
  BY DEF MarcaRegistro, archivo
<1>2. /\ pc \in [Procs -> Lugares] /\ buf \in [Procs -> Ficha]
      /\ datos \in [Pos -> Ficha] /\ leido \in [Procs -> BOOLEAN]
      /\ cand \in [Pos -> Procs \cup {Nadie}]
      /\ pc[p] = "D_marca" /\ pc' = [pc EXCEPT ![p] = "D_sale"]
  BY DEF MarcaRegistro, IInvL, TypeOKC, Ficha
<1>3. lug[p] \in Pos
  BY <1>2 DEF IInvL, EnSitio
<1>4. datos' = [datos EXCEPT ![lug[p]] = f] /\ buf' = [buf EXCEPT ![p] = f]
      /\ leido' = [leido EXCEPT ![p] = FALSE]
      /\ cand' = [cand EXCEPT ![lug[p]] = IF @ = p THEN Nadie ELSE @]
  BY DEF MarcaRegistro, MarcaBaja
<1>5. f \in Ficha
  BY <1>2, <1>3 DEF Ficha
<1> HIDE DEF f
<1>6. TypeOKC'
  <2>1. datos' \in [Pos -> Ficha] /\ buf' \in [Procs -> Ficha]
    BY <1>2, <1>4, <1>5
  <2>2. leido' \in [Procs -> BOOLEAN] /\ cand' \in [Pos -> Procs \cup {Nadie}]
    BY <1>2, <1>4
  <2>3. pc' \in [Procs -> Lugares]
    BY <1>2 DEF Lugares, ConCab
  <2> QED
    BY <1>1, <2>1, <2>2, <2>3 DEF IInvL, TypeOKC, Ficha
<1>7. pc'[p] = "D_sale" /\ Otros(p)
  BY <1>1, <1>2, <1>4 DEF Otros
<1>8. cab = p /\ \A q \in Procs : q # p => pc[q] \notin ConCab
  BY <1>2, Solo DEF ConCab
<1>9. IInv'
  BY <1>1, InvQuieto DEF IInvL
<1>10. Cabecera'
  BY <1>1, <1>7, <1>8 DEF Cabecera, Otros, ConCab
<1>11. CabezaFresca'
  <2>1. \A q \in Procs : pc'[q] \notin {"I_dentro", "D_dentro"}
    BY <1>7, <1>8 DEF Otros, ConCab
  <2> QED
    BY <2>1 DEF CabezaFresca
<1>12. LibresFiel'
  BY <1>1 DEF IInvL, LibresFiel, vars
<1>13. p \notin PorIncluir /\ PorIncluir' = PorIncluir
  BY <1>2, <1>7 DEF PorIncluir, Otros
<1>14. IncluyeBien'
  <2>1. \A q \in PorIncluir : q \in Procs
    BY DEF PorIncluir
  <2> QED
    BY <1>7, <1>13, <2>1 DEF IInvL, IncluyeBien, Otros
<1>15. Cabe'
  BY <1>1, <1>13 DEF IInvL, Cabe, vars
<1>16. EnSitio'
  BY <1>1, <1>3, <1>7 DEF IInvL, EnSitio, Otros
<1> QED
  BY <1>6, <1>9, <1>10, <1>11, <1>12, <1>14, <1>15, <1>16 DEF IInvL

\* A process that ends was between instructions, or found no record to delete.
LEMMA InvMuere ==
  ASSUME IInvL, NEW p \in Procs, pc[p] \in {"libre", "D_dentro"}, Muere(p)
  PROVE  IInvL'
<1>1. UNCHANGED vars /\ UNCHANGED <<datos, libres, fin>>
  BY DEF Muere, archivo
<1>2. /\ pc \in [Procs -> Lugares] /\ buf \in [Procs -> Ficha]
      /\ lug \in [Procs -> Pos0 \cup {-1}] /\ leido \in [Procs -> BOOLEAN]
      /\ cand \in [Pos -> Procs \cup {Nadie}] /\ hdr \in [Procs -> Cabezas]
      /\ cab \in Procs \cup {Nadie}
  BY DEF IInvL, TypeOKC, Ficha, Cabezas
<1>3. pc'[p] = "muerto" /\ Otros(p) /\ cab' = IF cab = p THEN Nadie ELSE cab
  BY <1>2 DEF Muere, Otros
<1>4. Ninguno \in Ficha /\ 0 \in Pos0 /\ "muerto" \in Lugares
  BY DEF Ninguno, Ficha, Pos0, Lugares
<1>5. TypeOKC'
  <2>1. buf' \in [Procs -> Ficha] /\ lug' \in [Procs -> Pos0 \cup {-1}]
    BY <1>2, <1>4 DEF Muere
  <2>2. leido' \in [Procs -> BOOLEAN] /\ cand' \in [Pos -> Procs \cup {Nadie}]
    BY <1>2 DEF Muere
  <2>3. pc' \in [Procs -> Lugares] /\ hdr' \in [Procs -> Cabezas]
    BY <1>2, <1>4, CabezasBien DEF Muere
  <2>4. cab' \in Procs \cup {Nadie}
    BY <1>2, <1>3
  <2> QED
    BY <1>1, <2>1, <2>2, <2>3, <2>4 DEF IInvL, TypeOKC, Ficha, Cabezas
<1>6. IInv'
  BY <1>1, InvQuieto DEF IInvL
<1>7. Cabecera'
  <2>1. \A q \in Procs : pc[q] \in ConCab <=> cab = q
    BY DEF IInvL, Cabecera
  <2>2. \A q \in Procs : q # Nadie
    BY ConstantesCompartido
  <2>3. "muerto" \notin ConCab
    BY DEF ConCab
  <2> QED
    BY <1>3, <2>1, <2>2, <2>3 DEF Cabecera, Otros
<1>8. CabezaFresca'
  <2>1. Cabeza' = Cabeza
    BY <1>1 DEF Cabeza, vars
  <2> QED
    BY <1>3, <2>1 DEF IInvL, CabezaFresca, Otros
<1>9. LibresFiel'
  BY <1>1 DEF IInvL, LibresFiel, vars
<1>10. p \notin PorIncluir /\ PorIncluir' = PorIncluir
  BY <1>3 DEF PorIncluir, Otros
<1>11. IncluyeBien'
  <2>1. \A q \in PorIncluir : q \in Procs
    BY DEF PorIncluir
  <2> QED
    BY <1>3, <1>10, <2>1 DEF IInvL, IncluyeBien, Otros
<1>12. Cabe'
  BY <1>1, <1>10 DEF IInvL, Cabe, vars
<1>13. EnSitio'
  BY <1>3 DEF IInvL, EnSitio, Otros
<1> QED
  BY <1>5, <1>6, <1>7, <1>8, <1>9, <1>11, <1>12, <1>13 DEF IInvL

-----------------------------------------------------------------------------
(* Whatever the programs do *)

LEMMA InvLInicial == InitC => IInvL
<1> SUFFICES ASSUME InitC PROVE IInvL
  OBVIOUS
<1>1. IInv
  BY InvInicial DEF InitC
<1>2. vivo = {} /\ vpk = 0
  BY DEF InitC, Init
<1>3. /\ libres = <<>> /\ fin = 0 /\ cab = Nadie
      /\ pc = [p \in Procs |-> "libre"]
  BY DEF InitC
<1>4. TypeOKC
  <2>1. Ninguno \in Ficha /\ 0 \in Pos0 /\ "libre" \in Lugares
    BY DEF Ninguno, Ficha, Pos0, Lugares
  <2>2. Copia \in Cabezas
    BY <1>2, <2>1, SinElementos DEF Copia, Cabezas
  <2>3. libres \in Seq(Pos) /\ fin \in 0..Cardinality(Pos)
    BY <1>3, SinElementos, Posiciones
  <2> QED
    BY <2>1, <2>2, <2>3 DEF InitC, TypeOKC, Ficha, Cabezas
<1>5. Cabecera
  BY <1>3, ConstantesCompartido DEF Cabecera, ConCab
<1>6. CabezaFresca /\ EnSitio
  BY <1>3 DEF CabezaFresca, EnSitio
<1>7. LibresFiel
  <2>1. Elementos(libres) = 1..fin \ vivo /\ SinRepetir(libres) /\ vivo \subseteq 1..fin
    BY <1>2, <1>3, SinElementos
  <2> QED
    BY <2>1 DEF LibresFiel, Elementos, SinRepetir
<1>8. PorIncluir = {}
  BY <1>3 DEF PorIncluir
<1>9. IncluyeBien
  BY <1>8 DEF IncluyeBien
<1>10. Cabe
  BY <1>2, <1>8, FS_EmptySet, Posiciones DEF Cabe
<1> QED
  BY <1>1, <1>4, <1>5, <1>6, <1>7, <1>9, <1>10 DEF IInvL

\* A step that changes nothing.
LEMMA InvLQuieto == IInvL /\ UNCHANGED varsC => IInvL'
<1> SUFFICES ASSUME IInvL, UNCHANGED varsC PROVE IInvL'
  OBVIOUS
<1>1. UNCHANGED vars /\ UNCHANGED <<datos, libres, fin, cab, cand, lug, buf, hdr, leido, pc>>
  BY DEF varsC, archivo, procesos
<1>2. IInv'
  BY <1>1, InvQuieto DEF IInvL
<1>3. TypeOKC' /\ Cabecera' /\ EnSitio'
  BY <1>1 DEF IInvL, TypeOKC, Cabecera, EnSitio
<1>4. CabezaFresca' /\ LibresFiel'
  BY <1>1 DEF IInvL, CabezaFresca, Cabeza, LibresFiel, vars
<1>5. IncluyeBien' /\ Cabe'
  BY <1>1 DEF IInvL, IncluyeBien, Cabe, PorIncluir, vars
<1> QED
  BY <1>2, <1>3, <1>4, <1>5 DEF IInvL

\* The steps of a process.
LEMMA Pasos ==
  ASSUME NEW p \in Procs, Sigue(p) \/ Empieza(p)
  PROVE  \/ Callado(p)
         \/ \E d \in Datos \cup {Marca}, k \in Claves : PideI(p, k, d)
         \/ TomaCab(p) \/ Incluye(p) \/ SueltaCab(p) \/ Borra(p) \/ MarcaRegistro(p)
         \/ pc[p] \in {"libre", "D_dentro"} /\ Muere(p)
BY DEF Sigue, Empieza, Callado, Termina, GrabaFuera, Cierra, EnLibre

LEMMA InvLPaso == IInvL /\ [NextC]_varsC => IInvL'
<1> SUFFICES ASSUME IInvL, [NextC]_varsC PROVE IInvL'
  OBVIOUS
<1>1. ASSUME NEW p \in Procs, Sigue(p) \/ Empieza(p) PROVE IInvL'
  BY <1>1, Pasos, InvCallado, InvPideI, InvTomaCab, InvIncluye, InvSueltaCab,
     InvBorra, InvMarcaRegistro, InvMuere
<1> QED
  BY <1>1, InvLQuieto DEF NextC

\* In every reachable state the header belongs to who is inside vdadd or vddel,
\* the file is linked and the free chain is right, whatever the programs do.
THEOREM InvarianteL == SpecC => []IInvL
<1> QED
  BY InvLInicial, InvLPaso, PTL DEF SpecC

\* Nobody writes back a header that somebody else has changed.
THEOREM Cabeceras == SpecC => []CabezaFresca
<1>1. IInvL => CabezaFresca
  BY DEF IInvL
<1> QED
  BY <1>1, InvarianteL, PTL

\* No block is lost from the free chain of a shared file nor is in it twice.
THEOREM CadenaLibre == SpecC => []LibresFiel
<1>1. IInvL => LibresFiel
  BY DEF IInvL
<1> QED
  BY <1>1, InvarianteL, PTL

\* Locks, positions and copies always have the values their types say.
THEOREM TipoC == SpecC => []TypeOKC
<1>1. IInvL => TypeOKC
  BY DEF IInvL
<1> QED
  BY <1>1, InvarianteL, PTL

\* The interleaving of the processes is a run of the file: each of them changes it
\* by a whole inclu or vdel at a position it may use.
THEOREM CompartidoImplementaArchivo == SpecC => Spec
<1>1. InitC => Init
  BY DEF InitC
<1>2. IInvL /\ [NextC]_varsC => [Next]_vars
  <2> SUFFICES ASSUME IInvL, [NextC]_varsC PROVE [Next]_vars
    OBVIOUS
  <2>1. ASSUME NEW p \in Procs, Sigue(p) \/ Empieza(p) PROVE [Next]_vars
    <3>1. CASE Callado(p)
      BY <3>1, CalladoAparte DEF Aparte, archivo
    <3>2. CASE Incluye(p)
      <4>1. Espacio(p) \in Pos
        BY <3>2, IncluyePasos, HayEspacio
      <4> QED
        BY <3>2, <4>1, IncluyePasos DEF Next
    <3>3. CASE Borra(p)
      <4>1. lug[p] \in Pos /\ Vdel(lug[p])
        BY <3>3 DEF Borra, IInvL, IInv, TypeOK
      <4> QED
        BY <4>1 DEF Next
    <3>4. CASE \/ \E d \in Datos \cup {Marca}, k \in Claves : PideI(p, k, d)
               \/ TomaCab(p) \/ SueltaCab(p) \/ MarcaRegistro(p) \/ Muere(p)
      BY <3>4 DEF PideI, TomaCab, SueltaCab, MarcaRegistro, Muere, archivo
    <3> QED
      BY <2>1, <3>1, <3>2, <3>3, <3>4, Pasos
  <2> QED
    BY <2>1 DEF NextC, varsC, archivo
<1> QED
  BY <1>1, <1>2, InvarianteL, PTL DEF SpecC, Spec

-----------------------------------------------------------------------------
(* When every program keeps the discipline *)

\* vunlock lets go of all that the process holds.
LEMMA SueltoTodo ==
  ASSUME IInvO, NEW p \in Procs
  PROVE  \A x \in Pos : Suelto(p)[x] = IF cand[x] = p THEN Nadie ELSE cand[x]
<1>1. cand \in [Pos -> Procs \cup {Nadie}] /\ \A x \in Pos : cand[x] = p => lug[p] = x
  BY DEF IInvO, IInvL, TypeOKC, Candados
<1> QED
  BY <1>1 DEF Suelto

\* The marks stay right while neither the file nor the deletion of a record moves.
LEMMA MarcasIgual ==
  ASSUME IInvO, UNCHANGED <<vars, datos, fin>>,
         \A q \in Procs : pc[q] = "D_marca" => pc'[q] = "D_marca" /\ lug'[q] = lug[q]
  PROVE  Marcas'
<1>1. vivo' = vivo /\ clave' = clave /\ datos' = datos /\ fin' = fin
  BY DEF vars
<1> QED
  BY <1>1 DEF IInvO, Marcas, MarcaFiel

\* A record whose lock can be had and whose data are not marked is in the file: who
\* is deleting it would have the lock.
LEMMA LeidoVivo ==
  ASSUME IInvO, NEW p \in Procs, pc[p] # "D_marca", lug[p] \in Pos,
         Permiso(p), datos[lug[p]].dato # Marca
  PROVE  lug[p] \in vivo
<1>1. lug[p] \in 1..fin
  <2>1. ~ (lug[p] > fin) /\ fin \in Nat
    BY Posiciones DEF IInvO, IInvL, TypeOKC, Marcas
  <2>2. lug[p] \in Nat /\ 1 <= lug[p]
    BY Posiciones
  <2> QED
    BY <2>1, <2>2
<1>2. ASSUME NEW q \in Procs, pc[q] = "D_marca", lug[q] = lug[p] PROVE FALSE
  <2>1. cand[lug[q]] = q
    BY <1>2 DEF IInvO, Leidos, Leido
  <2> QED
    BY <1>2, <2>1, ConstantesCompartido DEF Permiso
<1> QED
  BY <1>1, <1>2 DEF IInvO, Marcas, MarcaFiel

\* 'r' and 'N' give the record and its lock together.
LEMMA InvOLectura ==
  ASSUME IInvO, NEW p \in Procs, Reads(p) \/ TomaN(p)
  PROVE  Candados' /\ Leidos' /\ Marcas'
<1>1. /\ lug[p] \in Pos /\ pc[p] \in {"libre", "N_espera"} /\ Permiso(p)
      /\ UNCHANGED <<vars, datos, libres, fin, cab, lug, hdr>>
      /\ cand' = [cand EXCEPT ![lug[p]] = p] /\ buf' = [buf EXCEPT ![p] = datos[lug[p]]]
      /\ leido' = [leido EXCEPT ![p] = datos[lug[p]].dato # Marca]
      /\ pc' = [pc EXCEPT ![p] = "libre"]
  BY DEF Reads, TomaN, LeeConCandado, EnLibre, archivo, IInvO, IInvL, EnSitio
<1>2. /\ pc \in [Procs -> Lugares] /\ buf \in [Procs -> Ficha]
      /\ leido \in [Procs -> BOOLEAN] /\ cand \in [Pos -> Procs \cup {Nadie}]
  BY DEF IInvO, IInvL, TypeOKC, Ficha
<1>3. /\ pc'[p] = "libre" /\ buf'[p] = datos[lug[p]]
      /\ leido'[p] <=> datos[lug[p]].dato # Marca
      /\ \A q \in Procs : q # p => pc'[q] = pc[q] /\ buf'[q] = buf[q] /\ leido'[q] = leido[q]
      /\ \A x \in Pos : cand'[x] = IF x = lug[p] THEN p ELSE cand[x]
  BY <1>1, <1>2
<1>4. Candados'
  BY <1>1, <1>3 DEF IInvO, Candados
<1>5. \A q \in Procs : q # p /\ lug[q] \in Pos /\ cand[lug[q]] = q => cand'[lug[q]] = q
  BY <1>1, <1>3, ConstantesCompartido DEF Permiso
<1>6. leido'[p] => Leido(p)'
  BY <1>1, <1>3, LeidoVivo DEF Leido, vars
<1>7. ASSUME NEW q \in Procs, q # p, leido[q] PROVE Leido(q)'
  BY <1>1, <1>3, <1>5, <1>7 DEF IInvO, Leidos, Leido, vars
<1>8. Leidos'
  BY <1>1, <1>3, <1>6, <1>7 DEF IInvO, Leidos, vars
<1>9. Marcas'
  BY <1>1, <1>3, MarcasIgual
<1> QED
  BY <1>4, <1>8, <1>9

\* The moves, 'u' and 'I' let go of the record, and 'T' goes to the top without one.
Deja(p) == \/ Principio(p) \/ Suelta(p)
           \/ \E k \in Claves : Busca(p, k)
           \/ \E x \in Pos0 : Avanza(p, x)
           \/ \E d \in Datos \cup {Marca}, k \in Claves : PideI(p, k, d)

LEMMA InvODeja ==
  ASSUME Ordenados = Procs, IInvO, NEW p \in Procs, Deja(p)
  PROVE  Candados' /\ Leidos' /\ Marcas'
<1>1. UNCHANGED <<vars, datos, fin>> /\ pc[p] = "libre"
  BY DEF Deja, Principio, Suelta, Busca, Avanza, PideI, EnLibre, archivo
<1>2. /\ pc \in [Procs -> Lugares] /\ buf \in [Procs -> Ficha] /\ leido \in [Procs -> BOOLEAN]
      /\ lug \in [Procs -> Pos0 \cup {-1}] /\ cand \in [Pos -> Procs \cup {Nadie}]
  BY DEF IInvO, IInvL, TypeOKC, Ficha
<1>3. \A q \in Procs : q # p => /\ pc'[q] = pc[q] /\ buf'[q] = buf[q]
                                /\ leido'[q] = leido[q] /\ lug'[q] = lug[q]
  BY <1>2 DEF Deja, Principio, Suelta, Busca, Avanza, PideI, Mueve
<1>4. ~ leido'[p]
  BY <1>2 DEF Deja, Principio, Suelta, Busca, Avanza, PideI, Mueve
<1>5. \A x \in Pos : cand'[x] = IF cand[x] = p THEN Nadie ELSE cand[x]
  <2>1. CASE Principio(p)
    <3>1. \A x \in Pos : cand[x] # p
      BY <2>1 DEF Principio, Sostiene
    <3> QED
      BY <2>1, <3>1 DEF Principio
  <2>2. CASE ~Principio(p)
    <3>1. cand' = Suelto(p)
      BY <2>2 DEF Deja, Suelta, Busca, Avanza, PideI
    <3> QED
      BY <3>1, SueltoTodo
  <2> QED
    BY <2>1, <2>2
<1>6. /\ pc'[p] = "libre" \/ pc'[p] = "I_espera"
      /\ pc'[p] = "I_espera" => buf'[p].dato # Marca
  <2>1. ASSUME NEW d \in Datos \cup {Marca}, NEW k \in Claves, PideI(p, k, d)
        PROVE  pc'[p] = "I_espera" /\ buf'[p].dato # Marca
    BY <1>2, <2>1 DEF PideI
  <2>2. CASE \/ Principio(p) \/ Suelta(p) \/ \E k \in Claves : Busca(p, k)
             \/ \E x \in Pos0 : Avanza(p, x)
    BY <1>1, <2>2 DEF Principio, Suelta, Busca, Avanza
  <2> QED
    BY <2>1, <2>2 DEF Deja
<1>7. \A x \in Pos, q \in Procs : cand'[x] = q <=> q # p /\ cand[x] = q
  BY <1>5, ConstantesCompartido
<1>8. Candados'
  BY <1>3, <1>7 DEF IInvO, Candados
<1>9. ASSUME NEW q \in Procs, q # p, leido[q] PROVE Leido(q)'
  BY <1>1, <1>3, <1>7, <1>9 DEF IInvO, Leidos, Leido, vars
<1>10. Leidos'
  BY <1>1, <1>3, <1>4, <1>6, <1>9 DEF IInvO, Leidos, vars
<1>11. Marcas'
  BY <1>1, <1>3, MarcasIgual
<1> QED
  BY <1>8, <1>10, <1>11

\* The steps that take or free no record and change none: p reads or waits, or takes
\* or frees the header.
SinRegistro(p) == \/ PideN(p) \/ LeeSinCandado(p) \/ LeeNuevo(p) \/ PideD(p)
              \/ TomaCab(p) \/ SueltaCab(p)

LEMMA InvOSinRegistro ==
  ASSUME Ordenados = Procs, IInvO, NEW p \in Procs, SinRegistro(p)
  PROVE  Candados' /\ Leidos' /\ Marcas'
<1>1. UNCHANGED <<vars, datos, fin, cand, lug, leido>>
  BY DEF SinRegistro, PideN, LeeSinCandado, LeeNuevo, PideD, TomaCab, SueltaCab,
         RetieneAlPedir, archivo
<1>2. pc \in [Procs -> Lugares] /\ buf \in [Procs -> Ficha]
  BY DEF IInvO, IInvL, TypeOKC, Ficha
<1>3. \A q \in Procs : q # p => pc'[q] = pc[q] /\ buf'[q] = buf[q]
  BY <1>2 DEF SinRegistro, PideN, LeeSinCandado, LeeNuevo, PideD, TomaCab, SueltaCab
<1>4. leido[p] => Leido(p) /\ pc[p] \in {"libre", "D_espera", "D_dentro", "D_marca"}
  BY DEF IInvO, Leidos, Leido, Candados
<1>5. buf'[p] = buf[p] \/ buf'[p] = datos[lug[p]]
  BY <1>2 DEF SinRegistro, PideN, LeeSinCandado, LeeNuevo, PideD, TomaCab, SueltaCab
<1>6. pc[p] # "D_marca" /\ pc'[p] # "D_marca"
  BY <1>2 DEF SinRegistro, PideN, LeeSinCandado, LeeNuevo, PideD, TomaCab, SueltaCab,
              EnLibre, EsperaCab
<1>7. \A x \in Pos : cand[x] = p => pc'[p] \in {"libre", "D_espera", "D_dentro"}
  <2> SUFFICES ASSUME NEW x \in Pos, cand[x] = p
               PROVE  pc'[p] \in {"libre", "D_espera", "D_dentro"}
    OBVIOUS
  <2>1. lug[p] = x /\ pc[p] \in {"libre", "D_espera", "D_dentro", "D_marca"}
    BY DEF IInvO, Candados
  <2>2. ~ PideN(p)
    BY <2>1 DEF PideN, Permiso
  <2> QED
    BY <1>2, <2>1, <2>2 DEF SinRegistro, LeeSinCandado, LeeNuevo, PideD, TomaCab, SueltaCab,
                            EnLibre, EsperaCab
<1>8. Candados'
  BY <1>1, <1>3, <1>7 DEF IInvO, Candados
<1>9. ASSUME NEW q \in Procs, leido[q] PROVE Leido(q)'
  <2>1. Leido(q)
    BY <1>9 DEF IInvO, Leidos
  <2>2. buf'[q] = datos[lug[q]]
    BY <2>1, <1>3, <1>5 DEF Leido
  <2>3. pc'[q] = "D_marca" <=> pc[q] = "D_marca"
    BY <1>3, <1>6
  <2> QED
    BY <1>1, <2>1, <2>2, <2>3 DEF Leido, vars
<1>10. /\ pc'[p] \in {"D_espera", "D_dentro"} => leido[p]
       /\ pc'[p] \in {"I_espera", "I_dentro"} => buf'[p].dato # Marca
  <2>1. /\ pc[p] \in {"D_espera", "D_dentro"} => leido[p]
        /\ pc[p] \in {"I_espera", "I_dentro"} => buf[p].dato # Marca
    BY DEF IInvO, Leidos
  <2>2. CASE PideN(p) \/ LeeSinCandado(p) \/ LeeNuevo(p) \/ SueltaCab(p)
    BY <1>2, <2>2 DEF PideN, LeeSinCandado, LeeNuevo, SueltaCab, EnLibre
  <2>3. CASE PideD(p)
    BY <1>2, <2>3 DEF PideD
  <2>4. CASE TomaCab(p)
    BY <1>2, <2>1, <2>4 DEF TomaCab, EsperaCab
  <2> QED
    BY <2>2, <2>3, <2>4 DEF SinRegistro
<1>11. Leidos'
  BY <1>1, <1>3, <1>6, <1>9, <1>10 DEF IInvO, Leidos, vars
<1>12. Marcas'
  BY <1>1, <1>3, <1>6, MarcasIgual
<1> QED
  BY <1>8, <1>11, <1>12

\* 'w' changes a record that only its writer has.
LEMMA InvOGraba ==
  ASSUME Ordenados = Procs, IInvO, NEW p \in Procs, NEW d \in Datos, Graba(p, d)
  PROVE  Candados' /\ Leidos' /\ Marcas'
<1>1. /\ UNCHANGED <<vars, fin, lug, pc>> /\ pc[p] = "libre" /\ lug[p] \in Pos /\ leido[p]
      /\ datos' = [datos EXCEPT ![lug[p]] = [datos[lug[p]] EXCEPT !.dato = d]]
      /\ buf' = [buf EXCEPT ![p] = [buf[p] EXCEPT !.dato = d]]
      /\ leido' = [leido EXCEPT ![p] = FALSE] /\ cand' = Suelto(p)
  BY DEF Graba, EnLibre, archivo
<1>2. /\ datos \in [Pos -> Ficha] /\ buf \in [Procs -> Ficha] /\ leido \in [Procs -> BOOLEAN]
  BY DEF IInvO, IInvL, TypeOKC, Ficha
<1>3. Leido(p) /\ lug[p] \in vivo /\ d # Marca
  BY <1>1, ConstantesCompartido DEF IInvO, Leidos, Leido
<1>4. \A x \in Pos, q \in Procs : cand'[x] = q <=> q # p /\ cand[x] = q
  BY <1>1, SueltoTodo, ConstantesCompartido
<1>5. /\ \A q \in Procs : q # p => buf'[q] = buf[q] /\ leido'[q] = leido[q]
      /\ ~ leido'[p]
      /\ \A x \in Pos : /\ x # lug[p] => datos'[x] = datos[x]
                        /\ datos'[lug[p]].clave = datos[lug[p]].clave
                        /\ datos'[lug[p]].dato = d
  BY <1>1, <1>2 DEF Ficha
<1>6. Candados'
  BY <1>1, <1>4 DEF IInvO, Candados
<1>7. ASSUME NEW q \in Procs, q # p, leido[q] PROVE Leido(q)'
  <2>1. Leido(q) /\ lug[q] # lug[p]
    BY <1>3, <1>7 DEF IInvO, Leidos, Leido
  <2> QED
    BY <1>1, <1>4, <1>5, <1>7, <2>1 DEF Leido, vars
<1>8. Leidos'
  BY <1>1, <1>5, <1>7 DEF IInvO, Leidos, vars
<1>9. Marcas'
  <2>1. /\ fin' = fin /\ vivo' = vivo /\ clave' = clave /\ lug' = lug /\ pc' = pc
        /\ vivo \subseteq 1..fin /\ fin \in Nat /\ \A x \in 1..fin : x \in Pos
    BY <1>1, Posiciones DEF vars, IInvO, IInvL, LibresFiel, TypeOKC
  <2>2. MarcaFiel /\ \A x \in Pos : x > fin => datos[x].dato = Marca
    BY DEF IInvO, Marcas
  <2>3. ASSUME NEW x \in 1..fin
        PROVE  /\ x \in vivo => datos'[x].dato # Marca /\ datos'[x].clave = clave[x]
               /\ x \notin vivo => datos'[x].dato = Marca
                                   \/ \E q \in Procs : pc[q] = "D_marca" /\ lug[q] = x
    <3>1. CASE x = lug[p]
      BY <1>1, <1>3, <1>5, <2>2, <3>1 DEF MarcaFiel
    <3>2. CASE x # lug[p]
      <4>1. datos'[x] = datos[x]
        BY <1>5, <2>1, <3>2
      <4> QED
        BY <2>2, <4>1 DEF MarcaFiel
    <3> QED
      BY <3>1, <3>2
  <2>4. ASSUME NEW x \in Pos, x > fin PROVE datos'[x].dato = Marca
    <3>1. x # lug[p]
      <4>1. lug[p] \in 1..fin
        BY <1>3, <2>1
      <4>2. \A y \in 1..fin : ~ (y > fin)
        BY <2>1
      <4> QED
        BY <2>4, <4>1, <4>2
    <3> QED
      BY <1>5, <2>2, <2>4, <3>1
  <2> QED
    BY <2>1, <2>3, <2>4 DEF Marcas, MarcaFiel
<1> QED
  BY <1>6, <1>8, <1>9

\* inclu uses a position that nobody has read and that nobody is deleting.
LEMMA InvOIncluye ==
  ASSUME IInvO, NEW p \in Procs, Incluye(p)
  PROVE  Candados' /\ Leidos' /\ Marcas'
<1> DEFINE nw == Espacio(p)
<1>1. /\ IInvL /\ pc[p] = "I_dentro" /\ pc' = [pc EXCEPT ![p] = "I_sale"]
      /\ UNCHANGED <<cand, buf, leido>>
      /\ \/ lug' = [lug EXCEPT ![p] = 0] /\ UNCHANGED <<vars, datos, fin>>
         \/ /\ Inclu(nw) /\ clave'[nw] = buf[p].clave
            /\ datos' = [datos EXCEPT ![nw] = buf[p]]
            /\ lug' = [lug EXCEPT ![p] = nw]
            /\ fin' = IF nw > fin THEN nw ELSE fin
  BY IncluyePasos DEF IInvO
<1>2. nw \in Pos /\ nw \notin vivo
  BY <1>1, HayEspacio
<1>3. \A q \in Procs : q # p => pc[q] \notin ConCab
  BY <1>1, Solo DEF ConCab
<1> HIDE DEF nw
<1>4. \A q \in Procs : pc[q] # "D_marca"
  BY <1>1, <1>3 DEF ConCab
<1>5. /\ pc \in [Procs -> Lugares] /\ datos \in [Pos -> Ficha]
      /\ lug \in [Procs -> Pos0 \cup {-1}]
  BY <1>1 DEF IInvL, TypeOKC, Ficha
<1>6. /\ pc'[p] = "I_sale"
      /\ \A q \in Procs : q # p => pc'[q] = pc[q] /\ lug'[q] = lug[q]
  BY <1>1, <1>5
<1>7. \A x \in Pos : cand[x] # p
  BY <1>1 DEF IInvO, Candados
<1>8. Candados'
  BY <1>1, <1>6, <1>7 DEF IInvO, Candados
<1>9. ~ leido[p]
  BY <1>7 DEF IInvO, Leidos, Leido
<1>10. buf[p].dato # Marca
  BY <1>1 DEF IInvO, Leidos
<1>11. CASE UNCHANGED <<vars, datos, fin>>
  <2>1. ASSUME NEW q \in Procs, q # p, leido[q] PROVE Leido(q)'
    BY <1>1, <1>6, <1>11, <2>1 DEF IInvO, Leidos, Leido, vars
  <2>2. Leidos'
    BY <1>1, <1>4, <1>6, <1>9, <2>1 DEF IInvO, Leidos
  <2>3. Marcas'
    BY <1>4, <1>11, MarcasIgual
  <2> QED
    BY <1>8, <2>2, <2>3
<1>12. CASE /\ Inclu(nw) /\ clave'[nw] = buf[p].clave
            /\ datos' = [datos EXCEPT ![nw] = buf[p]]
            /\ fin' = IF nw > fin THEN nw ELSE fin
  <2>1. /\ vivo' = vivo \cup {nw}
        /\ \A q \in vivo : clave'[q] = clave[q]
    BY <1>1, <1>2, <1>12, IncluAnade DEF IInvL
  <2>2. /\ datos'[nw] = buf[p]
        /\ \A x \in Pos : x # nw => datos'[x] = datos[x]
    BY <1>2, <1>5, <1>12
  <2>3. ASSUME NEW q \in Procs, q # p, leido[q] PROVE Leido(q)'
    <3>1. Leido(q) /\ lug[q] \in vivo
      BY <1>4, <2>3 DEF IInvO, Leidos, Leido
    <3> QED
      BY <1>1, <1>2, <1>6, <2>1, <2>2, <2>3, <3>1 DEF Leido
  <2>4. Leidos'
    BY <1>1, <1>4, <1>6, <1>9, <2>3 DEF IInvO, Leidos
  <2>5. /\ fin \in Nat /\ nw \in Nat /\ vivo \subseteq 1..fin
        /\ \A x \in 1..fin' : x \in Pos
    <3>1. fin \in 0..Cardinality(Pos)
      BY <1>1 DEF IInvL, TypeOKC
    <3>2. fin' <= Cardinality(Pos) /\ fin' \in Nat
      BY <1>2, <1>12, <3>1, Posiciones
    <3> QED
      BY <1>1, <1>2, <3>1, <3>2, Posiciones DEF IInvL, LibresFiel
  <2>6. /\ \A x \in 1..fin : /\ x \in vivo => datos[x].dato # Marca /\ datos[x].clave = clave[x]
                             /\ x \notin vivo => datos[x].dato = Marca
        /\ \A x \in Pos : x > fin => datos[x].dato = Marca
    BY <1>4 DEF IInvO, Marcas, MarcaFiel
  <2>7. ASSUME NEW x \in 1..fin'
        PROVE  /\ x \in vivo' => datos'[x].dato # Marca /\ datos'[x].clave = clave'[x]
               /\ x \notin vivo' => datos'[x].dato = Marca
    <3>1. CASE x = nw
      BY <1>10, <1>12, <2>1, <2>2, <3>1
    <3>2. CASE x # nw
      <4>1. datos'[x] = datos[x] /\ (x \in vivo' <=> x \in vivo)
        BY <2>1, <2>2, <2>5, <3>2
      <4>2. x \in 1..fin \/ x > fin
        BY <2>5
      <4>3. CASE x \in 1..fin
        BY <2>1, <2>6, <4>1, <4>3
      <4>4. CASE x > fin
        <5>1. x \notin vivo
          BY <2>5, <4>4
        <5> QED
          BY <2>5, <2>6, <4>1, <4>4, <5>1
      <4> QED
        BY <4>2, <4>3, <4>4
    <3> QED
      BY <3>1, <3>2
  <2>8. ASSUME NEW x \in Pos, x > fin' PROVE datos'[x].dato = Marca
    <3>1. x > fin /\ x # nw
      <4>1. x \in Nat
        BY Posiciones
      <4> QED
        BY <1>12, <2>5, <2>8, <4>1
    <3> QED
      BY <2>2, <2>6, <3>1
  <2>9. Marcas'
    BY <2>7, <2>8 DEF Marcas, MarcaFiel
  <2> QED
    BY <1>8, <2>4, <2>9
<1> QED
  BY <1>1, <1>11, <1>12

\* vdel takes a record that its process has locked out of the file, and its data
\* wait for the mark.
LEMMA InvOBorra ==
  ASSUME IInvO, NEW p \in Procs, Borra(p)
  PROVE  Candados' /\ Leidos' /\ Marcas'
<1>1. /\ IInvL /\ pc[p] = "D_dentro" /\ pc' = [pc EXCEPT ![p] = "D_marca"]
      /\ UNCHANGED <<datos, fin, cand, lug, buf, leido>> /\ lug[p] \in vivo /\ Vdel(lug[p])
  BY DEF Borra, IInvO
<1>2. vivo' = vivo \ {lug[p]} /\ \A x \in vivo \ {lug[p]} : clave'[x] = clave[x]
  BY <1>1, VdelQuita DEF IInvL
<1>3. /\ pc'[p] = "D_marca" /\ \A q \in Procs : q # p => pc'[q] = pc[q]
  BY <1>1 DEF IInvL, TypeOKC
<1>4. \A q \in Procs : pc[q] # "D_marca"
  BY <1>1, Solo DEF ConCab
<1>5. Leido(p) /\ leido[p] /\ lug[p] \in 1..fin
  BY <1>1 DEF IInvO, Leidos, IInvL, LibresFiel
<1>6. Candados'
  BY <1>1, <1>3 DEF IInvO, Candados
<1>7. ASSUME NEW q \in Procs, q # p, leido[q] PROVE Leido(q)'
  <2>1. Leido(q) /\ lug[q] \in vivo /\ lug[q] # lug[p]
    BY <1>4, <1>5, <1>7 DEF IInvO, Leidos, Leido
  <2> QED
    BY <1>1, <1>2, <2>1 DEF Leido
<1>8. Leido(p)'
  BY <1>1, <1>3, <1>5 DEF Leido
<1>9. Leidos'
  BY <1>1, <1>2, <1>3, <1>4, <1>5, <1>7, <1>8 DEF IInvO, Leidos
<1>10. Marcas'
  BY <1>1, <1>2, <1>3, <1>4 DEF IInvO, Marcas, MarcaFiel
<1> QED
  BY <1>6, <1>9, <1>10

\* vddel marks the record it has deleted, which nobody else has.
LEMMA InvOMarcaRegistro ==
  ASSUME IInvO, NEW p \in Procs, MarcaRegistro(p)
  PROVE  Candados' /\ Leidos' /\ Marcas'
<1>1. /\ UNCHANGED <<vars, fin, lug>> /\ pc[p] = "D_marca"
      /\ pc' = [pc EXCEPT ![p] = "D_sale"]
      /\ datos' = [datos EXCEPT ![lug[p]] = [datos[lug[p]] EXCEPT !.dato = Marca]]
      /\ buf' = [buf EXCEPT ![p] = [datos[lug[p]] EXCEPT !.dato = Marca]]
      /\ leido' = [leido EXCEPT ![p] = FALSE]
      /\ cand' = [cand EXCEPT ![lug[p]] = IF @ = p THEN Nadie ELSE @]
  BY DEF MarcaRegistro, MarcaBaja, archivo
<1>2. /\ pc \in [Procs -> Lugares] /\ datos \in [Pos -> Ficha] /\ buf \in [Procs -> Ficha]
      /\ leido \in [Procs -> BOOLEAN] /\ cand \in [Pos -> Procs \cup {Nadie}]
  BY DEF IInvO, IInvL, TypeOKC, Ficha
<1>3. Leido(p) /\ lug[p] \in Pos /\ cand[lug[p]] = p /\ lug[p] \in 1..fin \ vivo
  BY <1>1 DEF IInvO, Leidos, Leido
<1>4. \A q \in Procs : q # p => pc[q] # "D_marca"
  BY <1>1, Solo DEF ConCab, IInvO
<1>5. /\ pc'[p] = "D_sale" /\ ~ leido'[p] /\ datos'[lug[p]].dato = Marca
      /\ \A q \in Procs : q # p => pc'[q] = pc[q] /\ buf'[q] = buf[q] /\ leido'[q] = leido[q]
      /\ \A x \in Pos : x # lug[p] => datos'[x] = datos[x] /\ cand'[x] = cand[x]
      /\ cand'[lug[p]] = Nadie
  BY <1>1, <1>2, <1>3 DEF Ficha
<1>6. \A x \in Pos : cand[x] = p => x = lug[p]
  BY DEF IInvO, Candados
<1>7. \A x \in Pos, q \in Procs : cand'[x] = q <=> q # p /\ cand[x] = q
  BY <1>3, <1>5, <1>6, ConstantesCompartido
<1>8. Candados'
  BY <1>1, <1>5, <1>7 DEF IInvO, Candados
<1>9. ASSUME NEW q \in Procs, q # p, leido[q] PROVE Leido(q)'
  <2>1. Leido(q) /\ lug[q] # lug[p]
    BY <1>3, <1>9 DEF IInvO, Leidos, Leido
  <2> QED
    BY <1>1, <1>5, <1>7, <1>9, <2>1 DEF Leido, vars
<1>10. Leidos'
  BY <1>1, <1>4, <1>5, <1>9 DEF IInvO, Leidos, vars
<1>11. Marcas'
  <2>1. /\ fin' = fin /\ vivo' = vivo /\ clave' = clave
        /\ fin \in Nat /\ \A x \in 1..fin : x \in Pos
    BY <1>1, Posiciones DEF vars, IInvO, IInvL, TypeOKC
  <2>2. /\ \A x \in 1..fin : /\ x \in vivo => datos[x].dato # Marca /\ datos[x].clave = clave[x]
                             /\ x \notin vivo => datos[x].dato = Marca \/ x = lug[p]
        /\ \A x \in Pos : x > fin => datos[x].dato = Marca
    BY <1>4 DEF IInvO, Marcas, MarcaFiel
  <2>3. \A x \in vivo : x # lug[p]
    BY <1>3
  <2>4. ASSUME NEW x \in 1..fin
        PROVE  /\ x \in vivo => datos'[x].dato # Marca /\ datos'[x].clave = clave[x]
               /\ x \notin vivo => datos'[x].dato = Marca
    BY <1>5, <2>1, <2>2, <2>3
  <2>5. ASSUME NEW x \in Pos, x > fin PROVE datos'[x].dato = Marca
    BY <1>5, <2>2, <2>5
  <2> QED
    BY <2>1, <2>4, <2>5 DEF Marcas, MarcaFiel
<1> QED
  BY <1>8, <1>10, <1>11

\* 'C' frees the locks of a process that was between instructions.
LEMMA InvOCierra ==
  ASSUME IInvO, NEW p \in Procs, Cierra(p)
  PROVE  Candados' /\ Leidos' /\ Marcas'
<1>1. UNCHANGED <<vars, datos, fin>> /\ pc[p] = "libre"
  BY DEF Cierra, Muere, EnLibre, archivo
<1>2. /\ pc \in [Procs -> Lugares] /\ buf \in [Procs -> Ficha] /\ leido \in [Procs -> BOOLEAN]
      /\ lug \in [Procs -> Pos0 \cup {-1}] /\ cand \in [Pos -> Procs \cup {Nadie}]
  BY DEF IInvO, IInvL, TypeOKC, Ficha
<1>3. /\ pc'[p] = "muerto" /\ ~ leido'[p]
      /\ \A q \in Procs : q # p => /\ pc'[q] = pc[q] /\ buf'[q] = buf[q]
                                  /\ leido'[q] = leido[q] /\ lug'[q] = lug[q]
  BY <1>2 DEF Cierra, Muere
<1>4. \A x \in Pos, q \in Procs : cand'[x] = q <=> q # p /\ cand[x] = q
  BY <1>2, ConstantesCompartido DEF Cierra, Muere
<1>5. Candados'
  BY <1>3, <1>4 DEF IInvO, Candados
<1>6. ASSUME NEW q \in Procs, q # p, leido[q] PROVE Leido(q)'
  BY <1>1, <1>3, <1>4, <1>6 DEF IInvO, Leidos, Leido, vars
<1>7. Leidos'
  BY <1>1, <1>3, <1>6 DEF IInvO, Leidos, vars
<1>8. Marcas'
  BY <1>1, <1>3, MarcasIgual
<1> QED
  BY <1>5, <1>7, <1>8

\* 'O' takes no lock.
LEMMA InvOAbre ==
  ASSUME IInvO, NEW p \in Procs, Abre(p)
  PROVE  Candados' /\ Leidos' /\ Marcas'
<1>1. UNCHANGED <<vars, datos, fin, cand, buf, leido>> /\ pc[p] = "muerto"
  BY DEF Abre, archivo
<1>2. pc \in [Procs -> Lugares] /\ lug \in [Procs -> Pos0 \cup {-1}]
  BY DEF IInvO, IInvL, TypeOKC
<1>3. /\ pc'[p] = "libre"
      /\ \A q \in Procs : q # p => pc'[q] = pc[q] /\ lug'[q] = lug[q]
  BY <1>2 DEF Abre
<1>4. \A x \in Pos : cand[x] # p
  BY <1>1 DEF IInvO, Candados
<1>5. ~ leido[p]
  BY <1>4 DEF IInvO, Leidos, Leido
<1>6. Candados'
  BY <1>1, <1>3, <1>4 DEF IInvO, Candados
<1>7. ASSUME NEW q \in Procs, q # p, leido[q] PROVE Leido(q)'
  BY <1>1, <1>3, <1>7 DEF IInvO, Leidos, Leido, vars
<1>8. Leidos'
  BY <1>1, <1>3, <1>5, <1>7 DEF IInvO, Leidos, vars
<1>9. Marcas'
  BY <1>1, <1>3, MarcasIgual
<1> QED
  BY <1>6, <1>8, <1>9

LEMMA InvOInicial == InitC => IInvO
<1> SUFFICES ASSUME InitC PROVE IInvO
  OBVIOUS
<1>1. IInvL
  BY InvLInicial
<1>2. /\ datos = [x \in Pos |-> Ninguno] /\ fin = 0 /\ cand = [x \in Pos |-> Nadie]
      /\ leido = [p \in Procs |-> FALSE] /\ pc = [p \in Procs |-> "libre"]
  BY DEF InitC
<1>3. Candados
  BY <1>2, ConstantesCompartido DEF Candados
<1>4. Leidos
  BY <1>2 DEF Leidos
<1>5. Marcas
  BY <1>2 DEF Marcas, MarcaFiel, Ninguno
<1> QED
  BY <1>1, <1>3, <1>4, <1>5 DEF IInvO

\* No program that keeps the discipline meets a corrupt record or writes outside
\* the file.
LEMMA NadieMuere ==
  ASSUME Ordenados = Procs, IInvO, NEW p \in Procs
  PROVE  ~ Termina(p) /\ ~ GrabaFuera(p)
<1>1. pc[p] = "D_dentro" => lug[p] \in vivo
  BY DEF IInvO, Leidos, Leido
<1> QED
  BY <1>1 DEF Termina, GrabaFuera

LEMMA PasosOrdenados ==
  ASSUME Ordenados = Procs, IInvO, NEW p \in Procs, Sigue(p) \/ Empieza(p)
  PROVE  \/ Reads(p) \/ TomaN(p) \/ Deja(p) \/ SinRegistro(p)
         \/ \E d \in Datos : Graba(p, d)
         \/ Incluye(p) \/ Borra(p) \/ MarcaRegistro(p) \/ Cierra(p) \/ Abre(p)
BY NadieMuere DEF Sigue, Empieza, Deja, SinRegistro

LEMMA InvOPaso == Ordenados = Procs /\ IInvO /\ [NextC]_varsC => IInvO'
<1> SUFFICES ASSUME Ordenados = Procs, IInvO, [NextC]_varsC PROVE IInvO'
  OBVIOUS
<1>1. IInvL'
  BY InvLPaso DEF IInvO
<1>2. ASSUME NEW p \in Procs, Sigue(p) \/ Empieza(p)
      PROVE  Candados' /\ Leidos' /\ Marcas'
  BY <1>2, PasosOrdenados, InvOLectura, InvODeja, InvOSinRegistro, InvOGraba,
     InvOIncluye, InvOBorra, InvOMarcaRegistro, InvOCierra, InvOAbre
<1>3. ASSUME UNCHANGED varsC PROVE Candados' /\ Leidos' /\ Marcas'
  <2>1. UNCHANGED <<vars, datos, libres, fin, cab, cand, lug, buf, hdr, leido, pc>>
    BY <1>3 DEF varsC, archivo, procesos
  <2>2. Candados' /\ Leidos'
    BY <2>1 DEF IInvO, Candados, Leidos, Leido, vars
  <2>3. Marcas'
    BY <2>1, MarcasIgual
  <2> QED
    BY <2>2, <2>3
<1>4. Candados' /\ Leidos' /\ Marcas'
  BY <1>2, <1>3 DEF NextC
<1> QED
  BY <1>1, <1>4 DEF IInvO

\* With the discipline, the locks are where their holders are and the copies under
\* them are the file's.
THEOREM InvarianteO == ASSUME Ordenados = Procs PROVE SpecC => []IInvO
<1>1. InitC => IInvO
  BY InvOInicial
<1>2. IInvO /\ [NextC]_varsC => IInvO'
  BY InvOPaso
<1> QED
  BY <1>1, <1>2, PTL DEF SpecC

\* With the discipline, what a program read under its lock is what the file has
\* until it lets go of it.
THEOREM LecturaVigente == ASSUME Ordenados = Procs PROVE SpecC => []LeidoVigente
<1>1. IInvO => LeidoVigente
  BY DEF IInvO, Leidos, Leido, LeidoVigente
<1> QED
  BY <1>1, InvarianteO, PTL

\* With the discipline, a record read with the mark has been deleted, and one read
\* without it is in the file.
THEOREM MarcasFieles == ASSUME Ordenados = Procs PROVE SpecC => []MarcaFiel
<1>1. IInvO => MarcaFiel
  BY DEF IInvO, Marcas
<1> QED
  BY <1>1, InvarianteO, PTL

\* With the discipline, 'D' deletes the record that its program read, however long
\* it waits for the header.
THEOREM BajasSeguras == ASSUME Ordenados = Procs PROVE SpecC => []BajaSegura
<1>1. ASSUME IInvO PROVE BajaSegura
  <2> SUFFICES ASSUME NEW p \in Procs, pc[p] \in {"D_espera", "D_dentro"}
               PROVE  lug[p] \in vivo /\ clave[lug[p]] = buf[p].clave
    BY DEF BajaSegura
  <2>1. lug[p] \in vivo /\ buf[p] = datos[lug[p]]
    BY <1>1 DEF IInvO, Leidos, Leido
  <2>2. lug[p] \in 1..fin
    BY <1>1, <2>1 DEF IInvO, IInvL, LibresFiel
  <2> QED
    BY <1>1, <2>1, <2>2 DEF IInvO, Marcas, MarcaFiel
<1> QED
  BY <1>1, InvarianteO, PTL

\* With the discipline, any number of processes never wait in a circle: who is at the
\* header has the record it asks for, who waits for the header waits for none else,
\* and nobody has a record that waits for another.
THEOREM NuncaAbrazo == ASSUME Ordenados = Procs PROVE SpecC => []SinAbrazo
<1>1. ASSUME IInvO PROVE SinAbrazo
  <2>1. ASSUME NEW p \in Procs, pc[p] \in ConCab, NEW q \in Procs PROVE ~Espera(p, q)
    <3>1. pc[p] = "D_marca" => cand[lug[p]] = p
      BY <1>1 DEF IInvO, Leidos, Leido
    <3> QED
      BY <2>1, <3>1 DEF Espera, EsperaCab, EsperaRec, ConCab
  <2>2. ASSUME NEW p \in Procs, NEW q \in Procs, Espera(p, q)
        PROVE  q \in Procs /\ (pc[q] \in ConCab \/ \E x \in Pos : cand[x] = q)
    BY <1>1, <2>2 DEF Espera, IInvO, IInvL, Cabecera
  <2>3. ASSUME NEW p \in Procs, NEW q \in Procs, Espera(p, q), \E x \in Pos : cand[x] = p
        PROVE  pc[q] \in ConCab
    <3>1. pc[p] \in {"libre", "D_espera", "D_dentro", "D_marca"}
      BY <1>1, <2>3 DEF IInvO, Candados
    <3>2. pc[p] = "D_marca" => FALSE
      BY <2>1, <2>3 DEF ConCab
    <3>3. cab = q
      BY <2>3, <3>1, <3>2 DEF Espera, EsperaCab, EsperaRec
    <3> QED
      BY <1>1, <3>3 DEF IInvO, IInvL, Cabecera
  <2> SUFFICES ASSUME NEW S \in (SUBSET Procs) \ {{}}
               PROVE  \E p \in S : \A q \in S : ~Espera(p, q)
    BY DEF SinAbrazo
  <2> SUFFICES ASSUME \A p \in S : \E q \in S : Espera(p, q)
               PROVE  FALSE
    OBVIOUS
  <2>4. (\A p \in S : p \in Procs) /\ \E p : p \in S
    OBVIOUS
  <2>5. PICK p \in S, q \in S : Espera(p, q)
    BY <2>4
  <2>6. PICK r \in S : Espera(q, r)
    BY <2>5
  <2>7. PICK s \in S : Espera(r, s)
    BY <2>6
  <2>8. pc[q] \notin ConCab /\ pc[r] \notin ConCab
    BY <2>1, <2>4, <2>6, <2>7
  <2>9. \E x \in Pos : cand[x] = q
    BY <2>2, <2>4, <2>5, <2>8
  <2> QED
    BY <2>3, <2>4, <2>6, <2>8, <2>9
<1> QED
  BY <1>1, InvarianteO, PTL
=============================================================================

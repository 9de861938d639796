--------------------------- MODULE VsamCompartido ---------------------------
(***************************************************************************)
(* One VSAM file used by several processes: the file instructions of the   *)
(* VPG interpreter (vsamrun.c) over the locks of vplib.c.                  *)
(*                                                                         *)
(* Two kinds of fcntl lock protect a file: the header's, which vdadd and   *)
(* vddel take around inclu and vdel, and one per record, over its data.    *)
(* busca and the reads take neither, unless the program asks for the       *)
(* record's lock.  A process keeps a position (a_lug), a copy of the       *)
(* record there (a_buf) and a copy of the header (a_vsam).  What inclu and *)
(* vdel do to the file is VsamFile's Inclu and Vdel.                       *)
(*                                                                         *)
(* A VPG program may run its instructions in any order.  Ordenados are the *)
(* processes whose programs keep a discipline that the interpreter does    *)
(* not enforce: write or delete only a record that they read under its     *)
(* lock and hold, go to the top of the file holding none, and include no   *)
(* record with the mark of a deleted one.                                  *)
(***************************************************************************)
EXTENDS VsamFile, Integers

CONSTANTS Procs,       \* the processes
          Ordenados,   \* those that keep the discipline
          Datos        \* contents of a record's data

Nadie == "nadie"    \* the holder of a free lock
Marca == "borrado"  \* what vddel leaves in the data of a deleted record (-1)

ASSUME ConstantesCompartido ==
    /\ IsFiniteSet(Procs) /\ Nadie \notin Procs
    /\ Ordenados \subseteq Procs
    /\ Marca \notin Datos
    /\ IsFiniteSet(Pos) /\ Pos = 1..Cardinality(Pos)

VARIABLES datos,    \* datos[x]: key and data at position x, deleted or not
          libres,   \* the free chain, as the records' positions frsp will reuse
          fin,      \* end of the file: positions up to fin have held a record
          cab,      \* the process that holds the header's lock, or Nadie
          cand,     \* cand[x]: the process that holds the lock of record x, or Nadie
          lug,      \* lug[p]: the position of process p (a_lug); -1 is not found
          buf,      \* buf[p]: its copy of the record (a_buf)
          hdr,      \* hdr[p]: its copy of the header (a_vsam)
          leido,    \* leido[p]: p read the record at lug[p] with its lock and has it
          pc        \* pc[p]: where p is in its instruction

archivo == vars
procesos == <<lug, buf, hdr, leido, pc>>
varsC == <<archivo, datos, libres, fin, cab, cand, procesos>>

Ninguno == [clave |-> 0, dato |-> Marca]    \* no record
\* The header; and a copy of it, of which only vpk is used outside vdadd and vddel.
Cabeza == [vpk |-> vpk, libres |-> libres]
Copia  == [vpk |-> vpk, libres |-> <<>>]
\* Where a process can be: between instructions, waiting for a lock (vdlread, or
\* fuplock in vdadd and vddel), with the header in vdadd or vddel, or without the file.
EsperaCab == {"I_espera", "D_espera"}
EsperaRec == {"N_espera", "D_marca"}
ConCab    == {"I_dentro", "I_sale", "D_dentro", "D_marca", "D_sale"}
Lugares   == {"libre", "I_lee", "muerto"} \cup EsperaCab \cup EsperaRec \cup ConCab

InitC ==
    /\ Init
    /\ datos = [x \in Pos |-> Ninguno]
    /\ libres = <<>>
    /\ fin = 0
    /\ cab = Nadie
    /\ cand = [x \in Pos |-> Nadie]
    /\ lug = [p \in Procs |-> 0]
    /\ buf = [p \in Procs |-> Ninguno]
    /\ hdr = [p \in Procs |-> Copia]
    /\ leido = [p \in Procs |-> FALSE]
    /\ pc = [p \in Procs |-> "libre"]

-----------------------------------------------------------------------------
(* Reading *)

\* vunlock: p lets go of the record at its position; a wrong one frees nothing.
SueltoNada(p) == cand
Suelto(p) == IF lug[p] \in Pos /\ cand[lug[p]] = p
             THEN [cand EXCEPT ![lug[p]] = Nadie] ELSE cand

EnLibre(p) == pc[p] = "libre"
Sostiene(p) == \E x \in Pos : cand[x] = p

\* fcntl grants p the record; a wrong one grants it to everybody.
PermisoSiempre(p) == TRUE
Permiso(p)        == cand[lug[p]] \in {Nadie, p}

\* The read of r and N (vdacread) once the lock is granted: a record marked as
\* deleted is not a success, but its lock stays.
LeeConCandado(p) ==
    /\ Permiso(p)
    /\ cand' = [cand EXCEPT ![lug[p]] = p]
    /\ buf' = [buf EXCEPT ![p] = datos[lug[p]]]
    /\ leido' = [leido EXCEPT ![p] = datos[lug[p]].dato # Marca]
    /\ pc' = [pc EXCEPT ![p] = "libre"]

\* 'r' (vdreadl): does nothing if somebody else has the record.
Reads(p) ==
    /\ EnLibre(p) /\ lug[p] \in Pos
    /\ LeeConCandado(p)
    /\ UNCHANGED <<archivo, datos, libres, fin, cab, lug, hdr>>

\* 'N' (vdlread): waits for the record.
PideN(p) ==
    /\ EnLibre(p) /\ lug[p] \in Pos
    /\ ~Permiso(p)
    /\ pc' = [pc EXCEPT ![p] = "N_espera"]
    /\ UNCHANGED <<archivo, datos, libres, fin, cab, cand, lug, buf, hdr, leido>>
TomaN(p) ==
    /\ pc[p] = "N_espera"
    /\ LeeConCandado(p)
    /\ UNCHANGED <<archivo, datos, libres, fin, cab, lug, hdr>>

\* 'n' (vdread): takes no lock.
LeeSinCandado(p) ==
    /\ EnLibre(p) /\ lug[p] \in Pos
    /\ buf' = [buf EXCEPT ![p] = datos[lug[p]]]
    /\ UNCHANGED <<archivo, datos, libres, fin, cab, cand, lug, hdr, leido, pc>>

-----------------------------------------------------------------------------
(* Moving.  Every move but 'T' lets go of the record first. *)

Mueve(p, x) == /\ lug' = [lug EXCEPT ![p] = x]
               /\ leido' = [leido EXCEPT ![p] = FALSE]

\* 'P' and 'S': busca reads the trees without a lock.  While somebody is inside
\* inclu or vdel it can miss the key or be led to any record; otherwise 'P' finds
\* the key or nothing, and 'S' falls back on a neighbour.
Encuentra(k) == IF cab # Nadie THEN -1..fin
                ELSE IF idxu[k] # 0 THEN {idxu[k]}
                ELSE {-1} \cup (IF vivo = {} THEN {0}
                               ELSE Menores(idxu, k) \cup Mayores(idxu, k))
Busca(p, k) ==
    /\ EnLibre(p)
    /\ cand' = Suelto(p)
    /\ hdr' = [hdr EXCEPT ![p] = Copia]
    /\ \E x \in Encuentra(k) : Mueve(p, x)
    /\ UNCHANGED <<archivo, datos, libres, fin, cab, buf, pc>>

\* 'a' and 'b', by the pointers of the copy, and 'A', to a position the program
\* kept.  Either can be old and lead to any position that has been a record's.
Avanza(p, x) ==
    /\ EnLibre(p) /\ x \in 0..fin
    /\ cand' = Suelto(p)
    /\ Mueve(p, x)
    /\ UNCHANGED <<archivo, datos, libres, fin, cab, buf, hdr, pc>>

\* 'T': by the copy of the header, and no lock is let go.
Principio(p) ==
    /\ EnLibre(p)
    /\ p \in Ordenados => ~Sostiene(p)
    /\ Mueve(p, hdr[p].vpk)
    /\ UNCHANGED <<archivo, datos, libres, fin, cab, cand, buf, hdr, pc>>

\* 'u': let go of the record.
Suelta(p) ==
    /\ EnLibre(p) /\ Suelto(p) # cand
    /\ cand' = Suelto(p)
    /\ leido' = [leido EXCEPT ![p] = FALSE]
    /\ UNCHANGED <<archivo, datos, libres, fin, cab, lug, buf, hdr, pc>>

-----------------------------------------------------------------------------
(* Writing *)

\* 'w' (vdwrite): new data for the record, and its lock is let go.  The programs
\* change no field of the key, which 'w' would write without a change of the index.
Graba(p, d) ==
    /\ EnLibre(p) /\ lug[p] \in Pos
    /\ p \in Ordenados => leido[p]
    /\ buf[p].clave = datos[lug[p]].clave
    /\ datos' = [datos EXCEPT ![lug[p]].dato = d]
    /\ buf' = [buf EXCEPT ![p].dato = d]
    /\ cand' = Suelto(p)
    /\ leido' = [leido EXCEPT ![p] = FALSE]
    /\ UNCHANGED <<archivo, libres, fin, cab, lug, hdr, pc>>

\* 'I' lets go of the record and waits for the header (vdadd, fuplock).  The
\* bound: there is a position for every record that waits to be included.
Lleno == Cardinality(vivo)
         + Cardinality({q \in Procs : pc[q] \in {"I_espera", "I_dentro"}})
         >= Cardinality(Pos)
PideI(p, k, d) ==
    /\ EnLibre(p) /\ ~Lleno
    /\ p \in Ordenados => d # Marca
    /\ cand' = Suelto(p)
    /\ leido' = [leido EXCEPT ![p] = FALSE]
    /\ buf' = [buf EXCEPT ![p] = [clave |-> k, dato |-> d]]
    /\ pc' = [pc EXCEPT ![p] = "I_espera"]
    /\ UNCHANGED <<archivo, datos, libres, fin, cab, lug, hdr>>

\* 'D' waits for the header (vddel, fuplock) and keeps the locks it has; a wrong
\* one lets go of the record, as 'I' does.
SueltaAlPedir(p)  == Suelto(p)
RetieneAlPedir(p) == cand
PideD(p) ==
    /\ EnLibre(p) /\ lug[p] \in Pos
    /\ p \in Ordenados => leido[p]
    /\ cand' = RetieneAlPedir(p)
    /\ pc' = [pc EXCEPT ![p] = "D_espera"]
    /\ UNCHANGED <<archivo, datos, libres, fin, cab, lug, buf, hdr, leido>>

\* fuplock, and a wrong one that does not wait; then the header is read.
CabezaSuelta    == TRUE
CabezaDisponible == cab = Nadie
TomaCab(p) ==
    /\ pc[p] \in EsperaCab
    /\ CabezaDisponible
    /\ cab' = p
    /\ hdr' = [hdr EXCEPT ![p] = Cabeza]
    /\ pc' = [pc EXCEPT ![p] = IF @ = "I_espera" THEN "I_dentro" ELSE "D_dentro"]
    /\ UNCHANGED <<archivo, datos, libres, fin, cand, lug, buf, leido>>

\* frsp by the copy of the header: the block of the new record and what is left
\* of the free chain; a wrong one leaves it in the chain.
Espacio(p)      == IF hdr[p].libres = <<>> THEN fin + 1 ELSE Head(hdr[p].libres)
RestoIgual(p)   == hdr[p].libres
Resto(p)        == IF hdr[p].libres = <<>> THEN <<>> ELSE Tail(hdr[p].libres)

\* inclu; the key may be refused.
Incluye(p) ==
    LET k  == buf[p].clave
        nw == Espacio(p)
    IN  /\ pc[p] = "I_dentro"
        /\ IF idxu[k] # 0
           THEN /\ lug' = [lug EXCEPT ![p] = 0]
                /\ UNCHANGED <<archivo, datos, libres, fin>>
           ELSE /\ Inclu(nw) /\ clave'[nw] = k
                /\ datos' = [datos EXCEPT ![nw] = buf[p]]
                /\ lug' = [lug EXCEPT ![p] = nw]
                /\ libres' = Resto(p)
                /\ fin' = IF nw > fin THEN nw ELSE fin
        /\ pc' = [pc EXCEPT ![p] = "I_sale"]
        /\ UNCHANGED <<cab, cand, buf, hdr, leido>>

\* fulock; vdadd reads the record it has just included without a lock, after it.
CabezaLibre == Nadie
SueltaCab(p) ==
    /\ pc[p] \in {"I_sale", "D_sale"}
    /\ cab' = CabezaLibre
    /\ hdr' = [hdr EXCEPT ![p] = Copia]
    /\ pc' = [pc EXCEPT ![p] = IF @ = "I_sale" /\ lug[p] # 0 THEN "I_lee" ELSE "libre"]
    /\ UNCHANGED <<archivo, datos, libres, fin, cand, lug, buf, leido>>
LeeNuevo(p) ==
    /\ pc[p] = "I_lee"
    /\ buf' = [buf EXCEPT ![p] = datos[lug[p]]]
    /\ pc' = [pc EXCEPT ![p] = "libre"]
    /\ UNCHANGED <<archivo, datos, libres, fin, cab, cand, lug, hdr, leido>>

\* vdel.  A record that is not there any more is reported as corrupt and the
\* process ends, which frees its locks (leerec): the kernel frees all that a
\* process has on a file that it closes.
Borra(p) ==
    /\ pc[p] = "D_dentro" /\ lug[p] \in vivo
    /\ Vdel(lug[p])
    /\ libres' = <<lug[p]>> \o hdr[p].libres
    /\ pc' = [pc EXCEPT ![p] = "D_marca"]
    /\ UNCHANGED <<datos, fin, cab, cand, lug, buf, hdr, leido>>
Muere(p) ==
    /\ cab' = IF cab = p THEN Nadie ELSE cab
    /\ cand' = [x \in Pos |-> IF cand[x] = p THEN Nadie ELSE cand[x]]
    /\ pc' = [pc EXCEPT ![p] = "muerto"]
    /\ leido' = [leido EXCEPT ![p] = FALSE]
    /\ lug' = [lug EXCEPT ![p] = 0]
    /\ buf' = [buf EXCEPT ![p] = Ninguno]
    /\ hdr' = [hdr EXCEPT ![p] = Copia]
    /\ UNCHANGED <<archivo, datos, libres, fin>>
Termina(p) == pc[p] = "D_dentro" /\ lug[p] \notin vivo /\ Muere(p)

\* vddel goes on, with the header still locked: it waits for the record, marks
\* its data and lets go of it.  A wrong one writes the data as they were.
MarcaNada(p) == datos[lug[p]].dato
MarcaBaja(p) == Marca
MarcaRegistro(p) ==
    /\ pc[p] = "D_marca"
    /\ Permiso(p)
    /\ datos' = [datos EXCEPT ![lug[p]].dato = MarcaBaja(p)]
    /\ buf' = [buf EXCEPT ![p] = [datos[lug[p]] EXCEPT !.dato = MarcaBaja(p)]]
    /\ cand' = [cand EXCEPT ![lug[p]] = IF @ = p THEN Nadie ELSE @]
    /\ leido' = [leido EXCEPT ![p] = FALSE]
    /\ pc' = [pc EXCEPT ![p] = "D_sale"]
    /\ UNCHANGED <<archivo, libres, fin, cab, lug, hdr>>

\* A 'w' outside the file ends the process too (vdwrite).
GrabaFuera(p) == EnLibre(p) /\ p \notin Ordenados /\ lug[p] \notin Pos /\ Muere(p)

\* 'C', and the end of a program; and 'O', which reads the header without a lock.
Cierra(p) == EnLibre(p) /\ Muere(p)
Abre(p) ==
    /\ pc[p] = "muerto"
    /\ hdr' = [hdr EXCEPT ![p] = Copia]
    /\ lug' = [lug EXCEPT ![p] = vpk]
    /\ pc' = [pc EXCEPT ![p] = "libre"]
    /\ UNCHANGED <<archivo, datos, libres, fin, cab, cand, buf, leido>>

-----------------------------------------------------------------------------

\* A step inside an instruction, and one that starts an instruction.
Sigue(p) == \/ TomaN(p) \/ TomaCab(p) \/ Incluye(p) \/ SueltaCab(p) \/ LeeNuevo(p)
            \/ Borra(p) \/ Termina(p) \/ MarcaRegistro(p)
Empieza(p) ==
    \/ Reads(p) \/ PideN(p) \/ LeeSinCandado(p) \/ Principio(p) \/ Suelta(p)
    \/ \E k \in Claves : Busca(p, k) \/ \E d \in Datos \cup {Marca} : PideI(p, k, d)
    \/ \E x \in Pos0 : Avanza(p, x)
    \/ \E d \in Datos : Graba(p, d)
    \/ GrabaFuera(p) \/ PideD(p) \/ Cierra(p) \/ Abre(p)

NextC == \E p \in Procs : Sigue(p) \/ Empieza(p)

SpecC == InitC /\ [][NextC]_varsC

\* A process ends the instruction it is in; a lock that is free again and again
\* is granted; and a program that holds a record lets go of it at last.
Equidad ==
    \A p \in Procs : /\ SF_varsC(Sigue(p))
                     /\ WF_varsC(Suelta(p))
SpecJusta == SpecC /\ Equidad

-----------------------------------------------------------------------------
(* Properties *)

\* Each lock has a holder or none, and every position a process keeps is one of
\* the file or none.
TypeOKC ==
    /\ datos \in [Pos -> [clave : Claves \cup {0}, dato : Datos \cup {Marca}]]
    /\ libres \in Seq(Pos) /\ fin \in 0..Cardinality(Pos)
    /\ cab \in Procs \cup {Nadie}
    /\ cand \in [Pos -> Procs \cup {Nadie}]
    /\ lug \in [Procs -> Pos0 \cup {-1}]
    /\ buf \in [Procs -> [clave : Claves \cup {0}, dato : Datos \cup {Marca}]]
    /\ hdr \in [Procs -> [vpk : Pos0, libres : Seq(Pos)]]
    /\ leido \in [Procs -> BOOLEAN]
    /\ pc \in [Procs -> Lugares]

\* The header a process is about to write back inside vdadd or vddel is the
\* file's: nobody's free chain or first record is written over with an old one.
CabezaFresca ==
    \A p \in Procs : pc[p] \in {"I_dentro", "D_dentro"} => hdr[p] = Cabeza /\ cab = p

\* Every position that held a record and does not any more is on the free chain,
\* once.
LibresFiel ==
    /\ {libres[n] : n \in DOMAIN libres} = 1..fin \ vivo
    /\ \A m, n \in DOMAIN libres : libres[m] = libres[n] => m = n
    /\ vivo \subseteq 1..fin

\* A program that read a record under its lock and holds it has what the file
\* has: nobody else writes it, deletes it or puts another record in its place.
LeidoVigente ==
    \A p \in Procs : leido[p] =>
        /\ cand[lug[p]] = p
        /\ buf[p].clave = datos[lug[p]].clave /\ buf[p].dato = datos[lug[p]].dato
        /\ lug[p] \in vivo \/ pc[p] = "D_marca"

\* The mark in the data tells deleted records from the others, but for the one a
\* process is deleting.
MarcaFiel ==
    \A x \in 1..fin :
        /\ x \in vivo => datos[x].dato # Marca /\ datos[x].clave = clave[x]
        /\ x \notin vivo => \/ datos[x].dato = Marca
                            \/ \E q \in Procs : pc[q] = "D_marca" /\ lug[q] = x

\* 'D' deletes the record that its program read, even if it waited for the header.
BajaSegura ==
    \A p \in Procs : pc[p] \in {"D_espera", "D_dentro"} =>
        lug[p] \in vivo /\ clave[lug[p]] = buf[p].clave

\* p waits for a lock that q has.
Espera(p, q) ==
    /\ p # q
    /\ \/ pc[p] \in EsperaCab /\ cab = q
       \/ pc[p] \in EsperaRec /\ lug[p] \in Pos /\ cand[lug[p]] = q
Trabados(p, q) == Espera(p, q) /\ Espera(q, p)

\* Processes never wait in a circle: in any group somebody waits for none of it.
SinAbrazo == \A S \in (SUBSET Procs) \ {{}} : \E p \in S : \A q \in S : ~Espera(p, q)

\* A process that waits for a lock gets it.
Atiende ==
    \A p \in Procs : pc[p] \in EsperaCab \cup EsperaRec
                     ~> pc[p] \notin EsperaCab \cup EsperaRec

\* fcntl reports the lock that would close a circle and vdlread says "Avoiding a
\* deadlock...": two processes that wait for each other do not do so for ever.
EvitaAbrazo == \A p, q \in Procs : Trabados(p, q) ~> ~Trabados(p, q)
=============================================================================

-------------------------------- MODULE Movs --------------------------------
(***************************************************************************)
(* Flat files and linked movements (vplib.c): the L instructions of VPG,   *)
(* and the B instructions that programs put around them (vblo.c).          *)
(*                                                                         *)
(* A principal record keeps the first and the last of its movements, and   *)
(* each movement, a record of a flat file, the ones before and after it    *)
(* (struct apmov: pri and ult in both).  Deleted records of the flat file  *)
(* are a free list through their first bytes, from the first bytes of the  *)
(* file.  vdlink and vdunlink read and write the records one by one, under *)
(* their locks, with the lock of the flat file's first record around.      *)
(*                                                                         *)
(* The instruction ends with a write of the active file's buffer (vdwrite  *)
(* (aa)), when no lock is held any more: what another process has written  *)
(* to that record since is lost.  A program that shares a principal with   *)
(* others works on it between Bb and Bu, "complex disk access code": the   *)
(* lock of a file that all the processes have, and nothing else.           *)
(***************************************************************************)
EXTENDS Paseo, Integers, Sequences, FiniteSets

CONSTANTS Procs,       \* the processes
          Padres,      \* the principal records
          DuenoDe,     \* DuenoDe[r]: the process whose program uses principal r, or Todos
          Activas,     \* the active files of the programs: "padre", "mov" or "otro"
          MaxMovs,     \* the places of the movements' file, a bound
          MaxCaidas    \* how many processes may be killed, a bound

Nadie == "nadie"
Todos == "todos"

ASSUME ConstantesMovs ==
    /\ IsFiniteSet(Procs) /\ {Nadie, Todos} \cap Procs = {}
    /\ Padres \cap (Procs \cup {Nadie}) = {}
    /\ DuenoDe \in [Padres -> Procs \cup {Todos}]
    /\ \A p \in Procs : \E r \in Padres : DuenoDe[r] \in {p, Todos}
    /\ Activas \subseteq {"padre", "mov", "otro"}
    /\ MaxMovs \in Nat /\ MaxCaidas \in Nat

VARIABLES padre,   \* padre[r]: [pri, ult] of a principal record
          mov,     \* mov[x]: [pri, ult, borrado, sig] of the record at place x
          libre,   \* the first record of the free list, or 0
          fin,     \* the records of the flat file
          cab,     \* who holds the lock of the flat file's first record
          candP,   \* candP[r]: who holds the lock of principal r
          candM,   \* candM[x]: who holds the lock of movement x
          de,      \* de[x]: the principal its program linked x to, or the process
                   \* that has it loose, or Nadie
          pr,      \* pr[p]: the process: its place in an instruction and its buffers
          blo      \* blo[p]: what p has done with the blocking file (vblo.c)

archivos == <<padre, mov, libre, fin>>
candados == <<cab, candP, candM>>
vars == <<archivos, candados, de, pr, blo>>

Movs == 1..MaxMovs
Cero == [pri |-> 0, ult |-> 0]
Vacio == [pri |-> 0, ult |-> 0, borrado |-> FALSE, sig |-> 0]

\* A process between instructions: r and x are a_lug of the two files, b1 and b2 the
\* buffers, lug, anter and proxi what vdlink and vdunlink keep.
Ocioso(r) == [pc |-> "libre", op |-> "LN", r |-> r, x |-> 0,
              b1 |-> Cero, b2 |-> Vacio, lug |-> 0, anter |-> 0, proxi |-> 0]

Init ==
    /\ padre = [r \in Padres |-> Cero]
    /\ mov = [x \in Movs |-> Vacio]
    /\ libre = 0 /\ fin = 0
    /\ cab = Nadie
    /\ candP = [r \in Padres |-> Nadie]
    /\ candM = [x \in Movs |-> Nadie]
    /\ de = [x \in Movs |-> Nadie]
    /\ pr = [p \in Procs |-> Ocioso(CHOOSE r \in Padres : DuenoDe[r] \in {p, Todos})]
    /\ blo = [p \in Procs |-> "fuera"]

Vivos == {x \in 1..fin : ~mov[x].borrado}

-----------------------------------------------------------------------------
(* Locks, reads and writes.  A step goes from one pc to another. *)

En(p, donde) == pr[p].pc = donde
Va(p, q) == pr' = [pr EXCEPT ![p] = q]

\* fuplock.
TomaCab(p, desde, a) ==
    /\ En(p, desde) /\ cab = Nadie
    /\ cab' = p
    /\ Va(p, [pr[p] EXCEPT !.pc = a])
    /\ UNCHANGED <<archivos, candP, candM, de>>

\* vdlread of the principal: the record (b1) under its lock.
b1(p) == padre[pr[p].r]
Padre(p, desde, q) ==
    /\ En(p, desde) /\ candP[pr[p].r] \in {Nadie, p}
    /\ candP' = [candP EXCEPT ![pr[p].r] = p]
    /\ Va(p, q)
    /\ UNCHANGED <<archivos, cab, candM, de>>

\* vdlread of a movement (b2).
b2(p) == mov[pr[p].x]
Mov(p, desde, q) ==
    /\ En(p, desde) /\ candM[pr[p].x] \in {Nadie, p}
    /\ candM' = [candM EXCEPT ![pr[p].x] = p]
    /\ Va(p, q)
    /\ UNCHANGED <<archivos, cab, candP, de>>

\* vdwrite of each: the buffer, whoever has the lock, and lets go of it (vunlock).
EscribePadre(p, desde, q) ==
    /\ En(p, desde)
    /\ padre' = [padre EXCEPT ![pr[p].r] = pr[p].b1]
    /\ candP' = [candP EXCEPT ![pr[p].r] = IF @ = p THEN Nadie ELSE @]
    /\ Va(p, q)
    /\ UNCHANGED <<mov, libre, fin, cab, candM, de>>
EscribeMov(p, desde, q) ==
    /\ En(p, desde)
    /\ mov' = [mov EXCEPT ![pr[p].x] = pr[p].b2]
    /\ candM' = [candM EXCEPT ![pr[p].x] = IF @ = p THEN Nadie ELSE @]
    /\ Va(p, q)
    /\ UNCHANGED <<padre, libre, fin, cab, candP, de>>

-----------------------------------------------------------------------------
(* The B instructions, between the others. *)

Camina(p, desde, a) == /\ En(p, "libre") /\ blo[p] \in desde
                       /\ blo' = [blo EXCEPT ![p] = a]
                       /\ UNCHANGED <<archivos, candados, de, pr>>

\* Ba opens the file and Bc closes it, which lets go of its lock, as vpg's e does: without
\* the lock, open and closed are one here ("fuera").  Bb waits for the lock; a wrong one
\* gets it at once.  Before Ba it ends the process (as Muere does).
PasoSiempre == TRUE
Paso        == \A q \in Procs : blo[q] # "dentro"
PideB(p)   == Camina(p, {"fuera"}, "espera")
TomaB(p)   == Paso /\ Camina(p, {"espera"}, "dentro")
SueltaB(p) == Camina(p, {"dentro"}, "fuera")          \* Bu, Bc

-----------------------------------------------------------------------------
(* The instructions.  The program picks a principal of its own, or one of all
   inside a block, and for all but LN a movement: a loose one of its own for LL,
   one linked to the principal for LU and LD.  A principal that a killed process
   was at is left alone: nothing tells the others that its chain may be broken, and
   they would spread it. *)

Movibles(p, o, r) ==
    CASE o = "LN" -> {0}
      [] o = "LL" -> {x \in Movs : de[x] = p}
      [] OTHER    -> {x \in Movs : de[x] = r}

\* The free list.
Libres == Desde(libre, [x \in Movs |-> mov[x].sig], MaxMovs)

\* The bound: there is a place for every program that is inside LN.
Pedidos == Cardinality({q \in Procs : pr[q].pc \in {"A_cab", "A_saca", "A_escribe"}})
Cabe == Pedidos < Cardinality(Alcanza(Libres)) + MaxMovs - fin

Empieza(p, o, r, x) ==
    /\ En(p, "libre") /\ blo[p] # "espera" /\ x \in Movibles(p, o, r)
    /\ DuenoDe[r] = p \/ (DuenoDe[r] = Todos /\ blo[p] = "dentro")
    /\ \A q \in Procs : pr[q].pc = "muerto" => pr[q].r # r
    /\ o = "LN" => Cabe
    /\ Va(p, [pr[p] EXCEPT !.pc = CASE o = "LN" -> "A_cab" [] o = "LL" -> "L_cab"
                                   [] OTHER -> "U_cab",
                           !.op = o, !.r = r, !.x = x])
    /\ de' = CASE o = "LN" -> de
               [] o = "LL" -> [de EXCEPT ![x] = r]
               [] o = "LU" -> [de EXCEPT ![x] = p]
               [] o = "LD" -> [de EXCEPT ![x] = Nadie]
    /\ UNCHANGED <<archivos, candados, blo>>

\* movfrsp: the first free record, or the end of the file; a wrong one leaves the
\* record in the list.
SiguienteIgual(x) == x
SiguienteLibre(x) == mov[x].sig
SacaLibre(p) ==
    LET x == IF libre = 0 THEN fin + 1 ELSE libre
    IN  /\ En(p, "A_saca") /\ x <= MaxMovs
        /\ libre' = IF libre = 0 THEN 0 ELSE SiguienteLibre(libre)
        /\ Va(p, [pr[p] EXCEPT !.pc = "A_escribe", !.x = x])
        /\ UNCHANGED <<padre, mov, fin, candados, de>>

\* vdadd ends: the buffer goes to its place, fulock and vdread.  A record put at the
\* end makes the file longer.
FinCon(x) == IF x > fin THEN x ELSE fin
EscribeNuevo(p) ==
    LET x == pr[p].x
    IN  /\ En(p, "A_escribe")
        /\ mov' = [mov EXCEPT ![x] = Vacio]
        /\ fin' = FinCon(x)
        /\ cab' = Nadie
        /\ de' = [de EXCEPT ![x] = pr[p].r]
        /\ Va(p, [pr[p] EXCEPT !.pc = "L_cab", !.b2 = Vacio])
        /\ UNCHANGED <<padre, libre, candP, candM>>

Agrega(p) == TomaCab(p, "A_cab", "A_saca") \/ SacaLibre(p) \/ EscribeNuevo(p)

\* vdlink up to the last read of the two records: st2 is cleared.
Liga1(p) ==
    \/ TomaCab(p, "L_cab", "L_padre")
    \/ Padre(p, "L_padre", [pr[p] EXCEPT !.pc = "L_mov", !.b1 = b1(p)])
    \/ Mov(p, "L_mov",
           [pr[p] EXCEPT !.pc = IF pr[p].b1.ult = 0 THEN "L_solo1" ELSE "L_ult1",
                         !.b1 = IF @.ult = 0 THEN [pri |-> pr[p].x, ult |-> pr[p].x] ELSE @,
                         !.b2 = [b2(p) EXCEPT !.pri = pr[p].b1.ult, !.ult = 0]])

\* vdlink of the only movement, and of one after the last: the new one, then the one
\* that was last, then the principal.  A wrong one forgets who comes before.
DespuesNada(p, b) == [pr[p] EXCEPT !.pc = "L_ult3", !.b2 = b]
Despues(p, b)     == [pr[p] EXCEPT !.pc = "L_ult3", !.b2 = [b EXCEPT !.ult = pr[p].lug]]
Liga2(p) ==
    LET q == pr[p]
    IN  \/ EscribePadre(p, "L_solo1", [q EXCEPT !.pc = "L_solo2"])
        \/ EscribeMov(p, "L_solo2", [q EXCEPT !.pc = "L_fin"])
        \/ EscribeMov(p, "L_ult1", [q EXCEPT !.pc = "L_ult2", !.lug = q.x, !.x = q.b1.ult])
        \/ Mov(p, "L_ult2", Despues(p, b2(p)))
        \/ EscribeMov(p, "L_ult3", [q EXCEPT !.pc = "L_ult4", !.x = q.lug,
                                             !.b1.ult = q.lug])
        \/ EscribePadre(p, "L_ult4", [q EXCEPT !.pc = "L_fin"])

\* vdlink ends: vdread, fulock; a wrong one forgets fulock.
CabezaRetenida(p) == cab
CabezaLibre(p)    == Nadie
Liga3(p) ==
    /\ En(p, "L_fin")
    /\ cab' = CabezaLibre(p)
    /\ Va(p, [pr[p] EXCEPT !.pc = "escribe", !.b2 = mov[pr[p].x]])
    /\ UNCHANGED <<archivos, candP, candM, de>>

\* vdunlink: reads the two records, mends the neighbours, then the principal, and
\* last clears the links of the record, with the first record's lock let go of.
ConAnter(q) == IF q.anter = 0 THEN [q EXCEPT !.pc = "U_sig", !.b1.pri = q.proxi]
                              ELSE [q EXCEPT !.pc = "U_ant1", !.x = q.anter]
Desliga1(p) ==
    LET q == pr[p]
    IN  \/ TomaCab(p, "U_cab", "U_padre")
        \/ Padre(p, "U_padre", [q EXCEPT !.pc = "U_mov", !.b1 = b1(p)])
        \/ Mov(p, "U_mov",
               ConAnter([q EXCEPT !.b2 = b2(p), !.anter = b2(p).pri, !.proxi = b2(p).ult,
                                  !.lug = q.x]))
        \/ Mov(p, "U_ant1",
               [q EXCEPT !.pc = "U_ant2", !.b2 = [b2(p) EXCEPT !.ult = q.proxi]])
        \/ EscribeMov(p, "U_ant2", [q EXCEPT !.pc = "U_ant3", !.x = q.lug])
        \/ Mov(p, "U_ant3", [q EXCEPT !.pc = "U_sig", !.b2 = b2(p)])

ConProxi(q) == IF q.proxi = 0 THEN [q EXCEPT !.pc = "U_fin1", !.b1.ult = q.b2.pri]
                              ELSE [q EXCEPT !.pc = "U_sig1", !.x = q.proxi]
Desliga2(p) ==
    LET q == pr[p]
    IN  \/ /\ En(p, "U_sig") /\ Va(p, ConProxi(q))
           /\ UNCHANGED <<archivos, candados, de>>
        \/ Mov(p, "U_sig1",
               [q EXCEPT !.pc = "U_sig2", !.b2 = [b2(p) EXCEPT !.pri = q.anter]])
        \/ EscribeMov(p, "U_sig2", [q EXCEPT !.pc = "U_fin1"])
        \/ EscribePadre(p, "U_fin1", [q EXCEPT !.pc = "U_fin2", !.x = q.lug])
        \/ /\ En(p, "U_fin2") /\ candM[q.x] \in {Nadie, p}
           /\ candM' = [candM EXCEPT ![q.x] = p]
           /\ cab' = CabezaLibre(p)
           /\ Va(p, [q EXCEPT !.pc = "U_fin3",
                              !.b2 = [mov[q.x] EXCEPT !.pri = 0, !.ult = 0]])
           /\ UNCHANGED <<archivos, candP, de>>
        \/ EscribeMov(p, "U_fin3",
               [q EXCEPT !.pc = IF q.op = "LD" THEN "D_cab" ELSE "escribe"])

\* vddel of a flat file's record (movlib): it is linked to the list and marked, and
\* then the list starts at it.  A wrong one does not link it.
Suelto(x)   == [mov EXCEPT ![x].borrado = TRUE]
Enlazado(x) == [mov EXCEPT ![x].sig = libre, ![x].borrado = TRUE]
Borra(p) ==
    \/ TomaCab(p, "D_cab", "D_enlaza")
    \/ /\ En(p, "D_enlaza")
       /\ mov' = Enlazado(pr[p].x)
       /\ Va(p, [pr[p] EXCEPT !.pc = "D_inicio"])
       /\ UNCHANGED <<padre, libre, fin, candados, de>>
    \/ /\ En(p, "D_inicio")
       /\ libre' = pr[p].x
       /\ cab' = Nadie
       /\ Va(p, [pr[p] EXCEPT !.pc = "escribe", !.b2 = mov[pr[p].x]])
       /\ UNCHANGED <<padre, mov, fin, candP, candM, de>>

\* The instruction ends: vdwrite of the active file (aa), any that the program may have.
\* After LD the record of the movements' file is in the free list, and nobody has its lock.
EnSuLugar(p) == pr[p].op = "LD" => mov[pr[p].x] = pr[p].b2
Escribe(p) ==
    LET q == Ocioso(pr[p].r)
    IN  \E aa \in Activas :
        \/ /\ aa = "otro" /\ En(p, "escribe") /\ Va(p, q)
           /\ UNCHANGED <<archivos, candados, de>>
        \/ aa = "padre" /\ EscribePadre(p, "escribe", q)
        \/ aa = "mov" /\ EnSuLugar(p) /\ EscribeMov(p, "escribe", q)

\* With the movements' file active, LD puts the deleted record back over what another
\* process has put in its place.  From there on the programs are not followed.
Pisa(p) ==
    /\ En(p, "escribe") /\ "mov" \in Activas /\ ~EnSuLugar(p)
    /\ mov' = [mov EXCEPT ![pr[p].x] = pr[p].b2]
    /\ pr' = [q \in Procs |-> [Ocioso(pr[q].r) EXCEPT !.pc = "pisado"]]
    /\ cab' = Nadie
    /\ candP' = [r \in Padres |-> Nadie] /\ candM' = [x \in Movs |-> Nadie]
    /\ blo' = [q \in Procs |-> "fuera"]
    /\ UNCHANGED <<padre, libre, fin, de>>
Pisado == \E p \in Procs : pr[p].pc = "pisado"

Sigue(p) == /\ \/ Agrega(p) \/ Liga1(p) \/ Liga2(p) \/ Liga3(p) \/ Desliga1(p)
               \/ Desliga2(p) \/ Borra(p) \/ Escribe(p)
            /\ UNCHANGED blo

\* A process is killed anywhere: the kernel frees its locks, and what it had not
\* written is not written.
Muertos == {p \in Procs : pr[p].pc = "muerto"}
Muere(p) ==
    /\ p \notin Muertos /\ ~En(p, "pisado") /\ Cardinality(Muertos) < MaxCaidas
    /\ cab' = IF cab = p THEN Nadie ELSE cab
    /\ candP' = [r \in Padres |-> IF candP[r] = p THEN Nadie ELSE candP[r]]
    /\ candM' = [x \in Movs |-> IF candM[x] = p THEN Nadie ELSE candM[x]]
    /\ Va(p, [Ocioso(pr[p].r) EXCEPT !.pc = "muerto"])
    /\ blo' = [blo EXCEPT ![p] = "fuera"]
    /\ UNCHANGED <<archivos, de>>

Next == \E p \in Procs :
           \/ \E o \in {"LN", "LL", "LU", "LD"}, r \in Padres, x \in {0} \cup Movs :
                  Empieza(p, o, r, x)
           \/ Sigue(p) \/ Pisa(p) \/ Muere(p)
           \/ PideB(p) \/ TomaB(p) \/ SueltaB(p)

\* A process goes on with its instruction, a lock that is free again and again is granted
\* (fcntl, F_SETLKW), and a program that is in its block leaves it at last.
Spec == Init /\ [][Next]_vars
        /\ \A p \in Procs : SF_vars(Sigue(p) \/ Pisa(p) \/ TomaB(p)) /\ SF_vars(SueltaB(p))

-----------------------------------------------------------------------------
(* Properties *)

\* The movements of a principal that no instruction is changing and no killed process
\* left in the middle of one: those the programs linked to it, linked both ways from pri
\* to ult (vdlink and vdunlink among all the other processes' and the deletions, and the
\* last write of an old buffer, vsamrun.c:140, that of LD included while nobody has taken the
\* place of what it deleted).
EnPaz(r) == \A p \in Procs : pr[p].r = r => pr[p].pc = "libre"
Cadenas == Pisado \/
    \A r \in {q \in Padres : EnPaz(q)} :
        LET S == Desde(padre[r].pri, [x \in Movs |-> mov[x].ult], MaxMovs)
            D == Alcanza(S)
        IN  /\ D = {x \in Movs : de[x] = r} /\ D \subseteq Vivos
            /\ S[MaxMovs] = 0
            /\ padre[r].ult = 0 <=> D = {}
            /\ \A x \in D : /\ mov[x].pri = 0 <=> x = padre[r].pri
                            /\ mov[x].ult = 0 <=> x = padre[r].ult
                            /\ mov[x].ult # 0 => mov[mov[x].ult].pri = x

\* The free list has no circle and only deleted records, each once, whenever it may be
\* used; and all of them, but for one that a killed process was taking or leaving.  Like
\* Cadenas, as long as no LD has written over a place that was taken (Pisado).
LibresFiel ==
    LET perdidos == {x \in 1..fin : mov[x].borrado} \ Alcanza(Libres)
    IN  cab = Nadie /\ ~Pisado =>
        /\ Libres[MaxMovs] = 0
        /\ \A x \in Alcanza(Libres) : mov[x].borrado
        /\ Cardinality(perdidos) <= Cardinality(Muertos)

\* An instruction ends, whatever the other processes lock (fuplock, vdlread and Bb wait
\* without a limit), unless its process is killed.
Espera(p) == pr[p].pc \notin {"libre", "muerto", "pisado"} \/ blo[p] = "espera"
Acaba == \A p \in Procs : Espera(p) ~> ~Espera(p)
=============================================================================

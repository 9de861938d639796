------------------------------- MODULE Archivos -------------------------------
(***************************************************************************)
(* The instructions of a VPG program that read and write text files and    *)
(* keep places in them (vpg4s.c: F), look for a record in a damaged file   *)
(* (recup.c: tsr tsP), and ask the system what it is (vpg4s.c: $ tt).      *)
(*                                                                         *)
(* One text file is open at a time, a sequence of bytes with no nulls      *)
(* (VpgRun has the table of them); none is 0, which what reads or places   *)
(* one does not ask, and what writes a line to a window does not need.     *)
(* The operand of FO is the name of the file, a number, and its letter the *)
(* mode.  An instruction that may go on *)
(* at a label has the instruction to go on at in its letters, as ir.       *)
(***************************************************************************)
EXTENDS Salida

CONSTANTS ArchivosDeTexto, \* the files there are: a sequence of sequences of bytes
          Maestro,         \* the bytes of the damaged file
          Renglon,         \* the characters asked of a line, its null among them (254)
          Bloque,          \* the bytes recup reads at a time (512)
          Entorno          \* [args, pid, maxx, maxy, usuario]

VARIABLE arch         \* [txt, nom, modo, pos, x_s, lug]: the files, the one open, how,
                      \* where it is read next, the line read, and a_lug of the damaged one

Marca == 30
NuevaLinea == 10
abierto == arch.txt[arch.nom]
\* What asks the C library for the file.
DelArchivo == {"FG", "Fr", "Fw", "FT", "FE", "FS", "FL"}
HayArchivo == op \in DelArchivo => arch.nom # 0
Hace(c) == Sigue /\ op = c /\ HayArchivo /\ UNCHANGED <<aa, tam, reloj, sale>>
VaA(n) == pc' = n /\ UNCHANGED compila
-----------------------------------------------------------------------------
(* Text files *)

\* A file that cannot be opened is told to the user (err, whose exit is commented out) and
\* the program goes on without one.
Falta == x = "r" /\ o(1).v \notin DOMAIN arch.txt
NombreAbierto == IF Falta THEN 0 ELSE o(1).v
AbreTexto ==
    /\ Sigue /\ op = "FO"
    /\ arch' = [arch EXCEPT !.nom = NombreAbierto, !.modo = x,
                            !.txt = IF x = "w" \/ (~Falta /\ o(1).v \notin DOMAIN @)
                                    THEN o(1).v :> <<>> @@ @ ELSE @,
                            !.pos = 0,
                            !.x_s = IF x = "r" THEN [k \in 1..Renglon + 2 |-> 0] ELSE @]
    /\ UNCHANGED <<aa, mem, tam, reloj, sale>>

\* A file that is none, asked of the C library.
SinArchivo ==
    /\ fase = "corre" /\ pc <= Len(obj) /\ op \in DelArchivo /\ arch.nom = 0
    /\ fase' = "roto"
    /\ UNCHANGED <<cual, tok, instr, g, nsym, tabla, generr, obj, corre, sale, arch>>

\* fgets: to the end of the line, or as many characters as fit before the null.
Fgets(t, p) ==
    LET r == Desde(t, p)
        k == SelectInSeq(r, LAMBDA c : c = NuevaLinea)
    IN  Primeros(IF k = 0 THEN r ELSE SubSeq(r, 1, k), Renglon - 1)

\* FG: the last character of what was read is dropped, a new line or not.
LeeRenglon ==
    /\ fase = "corre" /\ pc <= Len(obj) /\ op = "FG" /\ HayArchivo
    /\ LET r == Fgets(abierto, arch.pos)
       IN  IF r = <<>> THEN VaA(x.ir) /\ UNCHANGED arch
           ELSE /\ VaA(pc + 1)
                /\ arch' = [arch EXCEPT !.pos = @ + Len(r),
                                        !.x_s = Front(r) \o <<0, 0>> \o Desde(@, Len(r) + 1)]
    /\ UNCHANGED <<aa, mem, tam, reloj, sale>>

Strlen(bs) == SelectInSeq(bs, LAMBDA c : c = 0) - 1
Leido == Primeros(arch.x_s, Strlen(arch.x_s))

CopiaRenglon ==
    /\ Hace("Fk")
    /\ Escribe(Getad(o(1)), Primeros(arch.x_s, IF o(2).k = "l" THEN Strlen(arch.x_s) ELSE Valu(o(2))))
    /\ UNCHANGED arch

\* F!: on at the label if the line is the text.
EsTexto ==
    /\ fase = "corre" /\ pc <= Len(obj) /\ op = "F!"
    /\ VaA(IF Leido = CadenaDe(o(1)) THEN x.ir ELSE pc + 1)
    /\ UNCHANGED <<aa, mem, tam, reloj, sale, arch>>

\* Fr: all the bytes or none, says the code that goes on at the label, but those there
\* were are in memory.
LeeBytes ==
    /\ fase = "corre" /\ pc <= Len(obj) /\ op = "Fr" /\ HayArchivo
    /\ LET n == Valu(o(2))
           r == Primeros(Desde(abierto, arch.pos), n)
       IN  /\ VaA(IF Len(r) < n THEN x.ir ELSE pc + 1)
           /\ Escribe(Getad(o(1)), r)
           /\ arch' = [arch EXCEPT !.pos = @ + Len(r)]
    /\ UNCHANGED <<aa, tam, reloj, sale>>

EscribeBytes ==
    /\ Hace("Fw")
    /\ LET bs == Leer(Getad(o(1)), Valu(o(2)))
       IN  arch' = [arch EXCEPT !.txt[arch.nom] = Primeros(@, arch.pos) \o bs \o Desde(@, arch.pos + Len(bs)),
                                !.pos = @ + Len(bs)]
    /\ UNCHANGED mem

MuestraRenglon ==
    /\ Sigue /\ op = "FW"
    /\ sale' = Leido
    /\ UNCHANGED arch /\ SinEscribir

\* Fc: half the blanks that are left before the text.
Centra ==
    /\ Sigue /\ op = "Fc"
    /\ LET t == IF o(2).k = "txt" THEN CadenaDe(o(2)) ELSE Leido
       IN  sale' = Produ(Blanco, (Valu(o(1)) - Len(t)) \div 2) \o t
    /\ UNCHANGED arch /\ SinEscribir

Rebobina ==
    /\ Hace("FT")
    /\ arch' = [arch EXCEPT !.pos = 0]
    /\ UNCHANGED mem

AlFinal ==
    /\ Hace("FE")
    /\ arch' = [arch EXCEPT !.pos = Len(abierto)]
    /\ UNCHANGED mem

\* FS and FL: to the place that a variable has, and the place to a variable.
DesdeAqui(p) == arch.pos + p
DesdeElPrincipio(p) == p
Busca ==
    /\ Hace("FS")
    /\ arch' = [arch EXCEPT !.pos = DesdeElPrincipio(Long(Getad(o(1))))]
    /\ UNCHANGED mem

Anota ==
    /\ Hace("FL")
    /\ Escribe(Getad(o(1)), EnBytes(arch.pos, Largo))
    /\ UNCHANGED arch
-----------------------------------------------------------------------------
(* recup: the next record of a damaged file *)

Menor0(S) == CHOOSE i \in S : \A k \in S : i <= k

\* The bytes to skip: the record found before.
SinSaltar(lug, sz) == lug
DesdeDonde(lug, sz) == IF lug # 0 THEN lug + sz ELSE lug

Leidos(lug) == Primeros(Desde(Maestro, lug), Bloque)
Tamano(buf, i) == Entero(<<buf[i + 3], buf[i + 4]>>)
Sirve(buf, i, sz) == buf[i + 1] = Marca /\ i <= Len(buf) - 4 /\ Tamano(buf, i) = sz
Cortada(buf, i) == buf[i + 1] = Marca /\ i > Len(buf) - 4

\* Block after block: the mark of a record of that size; one so near the end of the block
\* that its size is not in it moves the next block as far beyond the block after.
Recup(lug0, sz) ==
    LET recup[lug \in 0..Len(Maestro) + 2 * Bloque] ==
            LET buf == Leidos(lug)
                paran == {i \in 0..Len(buf) - 1 : Sirve(buf, i, sz) \/ Cortada(buf, i)}
                i == Menor0(paran)
            IN  IF buf = <<>> THEN 0
                ELSE IF paran = {} THEN recup[lug + Bloque]
                ELSE IF Sirve(buf, i, sz) THEN lug + i
                ELSE recup[lug + i + Bloque]
    IN  recup[lug0]

Recupera ==
    /\ Hace("tsr")
    /\ arch' = [arch EXCEPT !.lug = Recup(DesdeDonde(@, tam[aa]), tam[aa])]
    /\ UNCHANGED mem

MideArchivo ==
    /\ Hace("tsP")
    /\ Escribe(Getad(o(1)), EnBytes(Len(Maestro), Largo))
    /\ UNCHANGED arch
-----------------------------------------------------------------------------
(* What the system says *)

CuantosArgs ==
    /\ Hace("$i")
    /\ Escribe(Getad(o(1)), EnBytes(Len(Entorno.args), 2))
    /\ UNCHANGED arch

Argumento ==
    /\ Hace("$s")
    /\ Escribe(Getad(o(2)), Entorno.args[Valu(o(1)) + 1] \o <<0>>)
    /\ UNCHANGED arch

\* tt: the number of the process in a short, the last column and row and one more, and
\* the user's name.
Sistema ==
    /\ Hace("tt")
    /\ Escribe(Getad(o(1)),
               CASE x = "t" -> EnBytes(Entorno.pid, 2)
                 [] x = "c" -> EnBytes(Entorno.maxx + 1, 2)
                 [] x = "r" -> EnBytes(Entorno.maxy + 1, 2)
                 [] x = "u" -> Entorno.usuario \o <<0>>)
    /\ UNCHANGED arch

InitArchivos == arch = [txt |-> ArchivosDeTexto, nom |-> 0, modo |-> "", pos |-> 0,
                        x_s |-> [k \in 1..Renglon + 2 |-> 0], lug |-> 0]

NextArchivos ==
    \/ AbreTexto \/ SinArchivo \/ LeeRenglon \/ CopiaRenglon \/ EsTexto \/ LeeBytes \/ EscribeBytes
    \/ MuestraRenglon \/ Centra \/ Rebobina \/ AlFinal \/ Busca \/ Anota
    \/ Recupera \/ MideArchivo \/ CuantosArgs \/ Argumento \/ Sistema
-----------------------------------------------------------------------------
(* Properties *)

\* Lines no longer than FG asks for; the last of a file may have no end.
Inicios(t) == {p \in 0..Len(t) - 1 : p = 0 \/ t[p] = NuevaLinea}
FinDe(t, p) == LET k == SelectInSeq(Desde(t, p), LAMBDA c : c = NuevaLinea) IN IF k = 0 THEN Len(t) ELSE p + k
EnRenglones(t) == \A p \in Inicios(t) : FinDe(t, p) - p < Renglon

\* A program that goes from line to line, back to the first, or to a place it had noted
\* in a variable, always reads whole lines, each as it is in the file without its last
\* character: the end of the line, or a character lost of a last line that has none
\* (vpg4s.c:961, 966, 1022, 1028, 1032).
RenglonFiel ==
    [][fase = "corre" /\ pc <= Len(obj) /\ op = "FG" /\ HayArchivo /\ EnRenglones(abierto) =>
          /\ arch.pos \in Inicios(abierto) \cup {Len(abierto)}
          /\ arch.pos < Len(abierto) =>
                Primeros(arch'.x_s, Strlen(arch'.x_s))
                   = SubSeq(abierto, arch.pos + 1, FinDe(abierto, arch.pos) - 1)]_<<pc, arch>>

\* The records of size sz in the damaged file from lug on, and the blocks read from lug.
Registros(lug, sz) == {p \in lug..Len(Maestro) - 4 : Sirve(Desde(Maestro, p), 0, sz)}
BienLeida(lug, hasta) ==
    \A k \in 0..Len(Maestro) \div Bloque :
        LET buf == Leidos(lug + k * Bloque)
        IN  \A i \in DOMAIN buf : lug + k * Bloque + i - 1 <= hasta => ~Cortada(buf, i - 1)

\* A file is recovered record by record: each call finds the first record after the one
\* before, and zero says there is none; only behind a mark that lies across two of the
\* blocks read are records passed over, and never is a place that is no record found
\* (recup.c:14, 24, 29).
RecuperaFiel ==
    [][fase = "corre" /\ pc <= Len(obj) /\ op = "tsr" /\ pc' = pc + 1 =>
          LET sz == tam[aa]
              lug == IF arch.lug = 0 THEN 0 ELSE arch.lug + sz
              hay == Registros(lug, sz)
              pasados == {p \in hay : arch'.lug = 0 \/ p < arch'.lug}
          IN  /\ arch'.lug \in hay \cup {0}
              /\ \A p \in pasados : ~BienLeida(lug, p)]_<<pc, arch>>
=============================================================================

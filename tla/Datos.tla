--------------------------------- MODULE Datos ---------------------------------
(***************************************************************************)
(* The instructions of vpg4 that change the bytes of a program's buffers   *)
(* (vpg4s.c: f m z ( > ; vstrings.c: Fs; tida.c: &), run over the object   *)
(* VpMemoria has written.                                                  *)
(*                                                                         *)
(* mem[f] is what lies from the start of buffer f on: an operand is an     *)
(* address, the code checks no length, and what an instruction writes past *)
(* its variable is in the next one.  Integers are bytes, the lowest first. *)
(* Numbers of type d and f and the operators on them are left out, as is   *)
(* memory beyond Tope bytes; sums and products stay small.  What the code  *)
(* does once it overruns its memory nothing says: the program is "roto".   *)
(***************************************************************************)
EXTENDS VpMemoria, Fechas

CONSTANTS Buffers,    \* their numbers
          Tope,       \* bytes of memory seen from the start of each
          Horas       \* what the clock may say

VARIABLES pc,         \* the instruction to run
          aa,         \* the active buffer
          mem,        \* mem[f][p], bytes
          tam,        \* tam[f]: the bytes asked for (a_sz), which only VSAMD keeps
          reloj       \* [actual, hora, usf] of tida.c

corre == <<pc, aa, mem, tam, reloj>>

Blanco == 32
Menos == 45
op == obj[pc].op
x == obj[pc].x
o(n) == obj[pc].a[n]
-----------------------------------------------------------------------------
(* Reading and writing memory *)

LeerEn(m, d, n) == [k \in 1..n |-> m[d.f][d.p + k - 1]]
Leer(d, n) == LeerEn(mem, d, n)

Entero(bs) ==
    LET n == Len(bs)
    IN  FoldLeft(LAMBDA y, k : 256 * y + bs[n - k], ((bs[n] + 128) % 256) - 128,
                 [k \in 1..n - 1 |-> k])
EnBytes(v, n) == [k \in 1..n |-> (v \div <<1, 256, 65536, 16777216>>[k]) % 256]

Corto(d) == Entero(Leer(d, 2))
EnteroEn(d) == Entero(Leer(d, 4))
Long(d) == Entero(Leer(d, Largo))

\* getad: an index is a number or a short in memory, counted from the start of the
\* buffer.
RECURSIVE Getad(_)
Getad(w) == [f |-> w.ar,
             p |-> IF w.k = "ref" THEN w.v
                   ELSE IF w.v.k \in {"num", "cte"} THEN w.v.v ELSE Corto(Getad(w.v))]

Valu(w) == IF w.k \in {"num", "cte"} THEN w.v ELSE Corto(Getad(w))

\* Memory m with bytes bs from d on.
Puesto(m, d, bs) ==
    [m EXCEPT ![d.f] = [p \in DOMAIN @ |->
                          IF p \in d.p..d.p + Len(bs) - 1 THEN bs[p - d.p + 1] ELSE @[p]]]
Escribe(d, bs) == mem' = Puesto(mem, d, bs)

\* A number of the type of operand w, there.
TamTipo(ty) == TamDe(ty, 2)
EscribeNum(w, v) == Escribe(Getad(w), EnBytes(v, TamTipo(w.ty)))
LeeNum(w) == Entero(Leer(Getad(w), TamTipo(w.ty)))

\* The string at d, up to its null.
CadenaEn(m, d) ==
    LET n == CHOOSE n \in 0..Tope - 1 - d.p :
                 m[d.f][d.p + n] = 0 /\ \A k \in 0..n - 1 : m[d.f][d.p + k] # 0
    IN  LeerEn(m, d, n)
Cadena(d) == CadenaEn(mem, d)
CadenaDe(w) == IF w.k = "txt" THEN SubSeq(w.v, 1, SelectInSeq(w.v, LAMBDA c : c = 0) - 1)
               ELSE Cadena(Getad(w))

\* The bytes at an operand: text of the program or memory.
BytesDe(w, n) == IF w.k = "txt" THEN SubSeq(w.v, 1, n) ELSE Leer(Getad(w), n)

\* n characters, with blanks after those of bs.
Cortar(bs, n) == SubSeq(bs \o [k \in 1..n |-> Blanco], 1, n)

Sigue == /\ fase = "corre" /\ pc <= Len(obj)
         /\ pc' = pc + 1
         /\ UNCHANGED compila
-----------------------------------------------------------------------------
(* Buffers *)

Carga ==
    /\ fase = "getins" /\ s.t = "fin"
    /\ fase' = "corre" /\ tok' = 1 /\ instr' = 0 /\ g' = SinNada /\ nsym' = <<>> /\ tabla' = <<>>
    /\ UNCHANGED <<cual, generr, obj>>
    /\ UNCHANGED corre

Activa ==
    /\ Sigue /\ op = "f"
    /\ aa' = o(1).v
    /\ UNCHANGED <<mem, tam, reloj>>

Separa ==
    /\ Sigue /\ op = "m"
    /\ mem' = [mem EXCEPT ![aa] = [p \in DOMAIN @ |-> IF p < o(1).v THEN 0 ELSE @[p]]]
    /\ tam' = IF maquina.vsamd THEN [tam EXCEPT ![aa] = o(1).v] ELSE tam
    /\ UNCHANGED <<aa, reloj>>

\* The letter l, for which the code takes any operand of type l.
EsL(w) == w.k = "l" \/ (w.k \in {"ref", "arr"} /\ w.ty = "l")

\* z: so many bytes, or as many as are left of what m asked for.
LargoLlena == IF EsL(o(3)) THEN tam[Getad(o(2)).f] - Getad(o(2)).p ELSE Valu(o(3))
Llena ==
    /\ Sigue /\ op = "z" /\ LargoLlena >= 0
    /\ Escribe(Getad(o(2)), [k \in 1..LargoLlena |-> Valu(o(1)) % 256])
    /\ UNCHANGED <<aa, tam, reloj>>
-----------------------------------------------------------------------------
(* Assignments *)

\* The length of a string assignment: of the operands in memory only one of type i is
\* read, and atoi makes 0 of the letter of any other.
LargoCopia ==
    IF EsL(o(3)) THEN Len(CadenaDe(o(2)))
    ELSE IF o(3).k \notin {"ref", "arr"} THEN o(3).v
    ELSE IF o(3).ty = "i" THEN Corto(Getad(o(3))) ELSE 0
CopiaConNulo ==
    /\ Sigue /\ op = "(" /\ o(1).ty = "s" /\ LargoCopia >= 0
    /\ Escribe(Getad(o(1)), BytesDe(o(2), LargoCopia) \o <<0>>)
    /\ UNCHANGED <<aa, tam, reloj>>
Copia ==
    /\ Sigue /\ op = "(" /\ o(1).ty = "s" /\ LargoCopia >= 0
    /\ Escribe(Getad(o(1)), BytesDe(o(2), LargoCopia))
    /\ UNCHANGED <<aa, tam, reloj>>

\* Both count down to zero, and from less than zero never come to it.
SinFin ==
    \/ op = "z" /\ LargoLlena < 0
    \/ op = "(" /\ o(1).ty = "s" /\ LargoCopia < 0
Rompe ==
    /\ fase = "corre" /\ pc <= Len(obj) /\ SinFin
    /\ fase' = "roto"
    /\ UNCHANGED <<cual, tok, instr, g, nsym, tabla, generr, obj, corre>>

\* calcd: values and the signs that follow them, on a stack.
Opera(y, z, signo) ==
    CASE signo = "+" -> y + z
      [] signo = "-" -> y - z
      [] signo = "*" -> y * z
Calcd(a) ==
    FoldLeft(LAMBDA pila, w :
                 IF w.k = "op"
                 THEN Append(Front(Front(pila)), Opera(Last(Front(pila)), Last(pila), w.v))
                 ELSE Append(pila, IF w.k \in {"num", "cte"} THEN w.v ELSE LeeNum(w)),
             <<>>, a)[1]

Calcula ==
    /\ Sigue /\ op = "(" /\ o(1).ty # "s"
    /\ EscribeNum(o(1), Calcd(Tail(obj[pc].a)))
    /\ UNCHANGED <<aa, tam, reloj>>

\* What atoi reads: blanks, a sign, digits.
AtoiB(bs) ==
    LET k == SelectInSeq(bs, LAMBDA c : c # Blanco)
        r == IF k = 0 THEN <<>> ELSE SubSeq(bs, k, Len(bs))
    IN  IF r # <<>> /\ r[1] = Menos THEN -Atoi(Tail(r)) ELSE Atoi(r)

TextoANumero ==
    /\ Sigue /\ op = ">" /\ x[1] = "s"
    /\ Escribe(Getad(o(3)), EnBytes(AtoiB(BytesDe(o(1), Valu(o(2)))), TamTipo(x[2])))
    /\ UNCHANGED <<aa, tam, reloj>>

\* A number as %nd writes it, of which n characters are moved.
Abs(v) == IF v < 0 THEN -v ELSE v
Cifras(v) == 1 + Cardinality({k \in 1..9 : Abs(v) >= Potencia(k)})
Formato(v, n) ==
    LET t == (IF v < 0 THEN <<Menos>> ELSE <<>>) \o Texto(Abs(v), Cifras(v))
    IN  IF Len(t) >= n THEN SubSeq(t, 1, n)
        ELSE [k \in 1..n - Len(t) |-> Blanco] \o t

NumeroATexto ==
    /\ Sigue /\ op = ">" /\ x[1] # "s"
    /\ Escribe(Getad(o(2)), Formato(Entero(Leer(Getad(o(1)), TamTipo(x[1]))), o(3).v))
    /\ UNCHANGED <<aa, tam, reloj>>
-----------------------------------------------------------------------------
(* Strings *)

Concatena ==
    /\ Sigue /\ op = "Fs" /\ x = "c"
    /\ LET d == Getad(o(1))
           n == Len(Cadena(d))
       IN  Escribe([d EXCEPT !.p = @ + n], CadenaDe(o(2)) \o <<0>>)
    /\ UNCHANGED <<aa, tam, reloj>>

\* exten: n less one for every blank before d; a string of blanks to its start looks at
\* the byte before it.
Exten(d, n) ==
    LET b == CHOOSE b \in 0..n + 1 :
                 /\ \A k \in 1..b : d.p - k >= 0 /\ mem[d.f][d.p - k] = Blanco
                 /\ b = n + 1 \/ d.p - b - 1 < 0 \/ mem[d.f][d.p - b - 1] # Blanco
    IN  n - b
Extiende ==
    /\ Sigue /\ op = "Fs" /\ x = "e"
    /\ LET d == Getad(o(1))
           n == Valu(o(2))
       IN  Escribe(Getad(o(3)), EnBytes(Exten([d EXCEPT !.p = @ + n], n), 2))
    /\ UNCHANGED <<aa, tam, reloj>>

Mide ==
    /\ Sigue /\ op = "Fs" /\ x = "l"
    /\ Escribe(Getad(o(1)), EnBytes(Len(Cadena(Getad(o(2)))), 2))
    /\ UNCHANGED <<aa, tam, reloj>>
-----------------------------------------------------------------------------
(* Dates *)

PoneFormato ==
    /\ Sigue /\ op = "&f"
    /\ reloj' = [reloj EXCEPT !.usf = x = "1"]
    /\ UNCHANGED <<aa, mem, tam>>

EntreFechas ==
    /\ Sigue /\ op = "&d"
    /\ Escribe(Getad(o(1)), EnBytes(Tidis(Long(Getad(o(2))), Long(Getad(o(3)))), Largo))
    /\ UNCHANGED <<aa, tam, reloj>>

LeeFecha ==
    /\ Sigue /\ op = "&l"
    /\ Escribe(Getad(o(2)), EnBytes(Totsec(Leer(Getad(o(1)), 8), reloj.usf), Largo))
    /\ UNCHANGED <<aa, tam, reloj>>

\* The days are a short of the program and an int of this code.
SumaDias ==
    /\ Sigue /\ op \in {"&+", "&-"}
    /\ LET t == Long(Getad(o(2)))
           n == EnteroEn(Getad(o(3)))
       IN  Escribe(Getad(o(1)), EnBytes(IF op = "&+" THEN Futdate(t, n) ELSE Pasdate(t, n), Largo))
    /\ UNCHANGED <<aa, tam, reloj>>

SumaTiempo ==
    /\ Sigue /\ op = "&s"
    /\ LET d == Getad(o(1))
       IN  Escribe(d, EnBytes(AddTime(x, Long(d), Valu(o(2))), Largo))
    /\ UNCHANGED <<aa, tam, reloj>>

HoraActual ==
    /\ Sigue /\ op = "&a"
    /\ reloj' = [reloj EXCEPT !.actual = TRUE]
    /\ UNCHANGED <<aa, mem, tam>>

HoraDe ==
    /\ Sigue /\ op = "&b"
    /\ reloj' = [reloj EXCEPT !.actual = FALSE, !.hora = Long(Getad(o(1)))]
    /\ UNCHANGED <<aa, mem, tam>>

PoneHora ==
    /\ Sigue /\ op = "&p"
    /\ \E h \in Horas :
          /\ reloj' = IF reloj.actual THEN [reloj EXCEPT !.hora = h] ELSE reloj
          /\ Escribe(Getad(o(1)), Putdate(reloj'.hora, x))
    /\ UNCHANGED <<aa, tam>>

Ahora ==
    /\ Sigue /\ op = "&c"
    /\ \E h \in Horas : Escribe(Getad(o(1)), EnBytes(h, Largo))
    /\ UNCHANGED <<aa, tam, reloj>>

InitDatos ==
    /\ InitMemoria /\ maquina \in Maquinas[cual]
    /\ pc = 1 /\ aa = 0
    /\ mem = [f \in Buffers |-> [p \in 0..Tope - 1 |-> 0]]
    /\ tam = [f \in Buffers |-> 0]
    /\ reloj = [actual |-> TRUE, hora |-> 0, usf |-> FALSE]

Instruccion ==
    \/ Activa \/ Separa \/ Llena \/ Copia \/ Rompe \/ Calcula \/ TextoANumero \/ NumeroATexto
    \/ Concatena \/ Extiende \/ Mide
    \/ PoneFormato \/ EntreFechas \/ LeeFecha \/ SumaDias \/ SumaTiempo
    \/ HoraActual \/ HoraDe \/ PoneHora \/ Ahora
-----------------------------------------------------------------------------
(* Properties *)

\* A day of the calendar n months after t: that of the month, or the month's last.
MesDespues(t, n) ==
    LET tm == Localtime(t)
        m == 12 * tm.tm_year + tm.tm_mon + n
        a == 1900 + m \div 12
        mes == (m % 12) + 1
    IN  DiasHasta(a, mes) + (IF tm.tm_mday > DiasDeMes(mes, a) THEN DiasDeMes(mes, a) ELSE tm.tm_mday) - 1
DiaLocal(t) == (t - Zona) \div DIA
LargoLuego(w) == Entero(LeerEn(mem', Getad(w), Largo))

\* A date through the code: the day typed (totsec) is the day shown (localtime) west of
\* Greenwich, and the one before it elsewhere; months or years added to a day that every
\* month has, the 28th not among them for the code, change the month alone, and added to
\* a later one end within three days of the calendar's, or a month beyond them.  Days added
\* from a short are the days between exactly when the two bytes after it, read with it as
\* an int, are but its sign, or a multiple of 512 away, whose seconds are lost
\* (misce.c:72, 92, 265; tida.c:38).
FechaFiel ==
    [][fase = "corre" /\ pc <= Len(obj) /\ pc' = pc + 1 =>
         /\ op = "&l" /\ LargoLuego(o(2)) # -1 =>
              LET c == Leer(Getad(o(1)), 8)
                  siglo == IF c[7] < 55 THEN <<50, 48>> ELSE <<49, 57>>
              IN  \E dia \in {DiaTecleado(LargoLuego(o(2)))} :
                     EnCampo(dia, reloj.usf) = SubSeq(c, 1, 6) \o siglo \o SubSeq(c, 7, 8)
         /\ op = "&s" /\ x \in {"M", "Y"} =>
              LET t == Long(Getad(o(1)))
                  n == IF x = "Y" THEN 12 * Valu(o(2)) ELSE Valu(o(2))
                  yerra == DiaLocal(LargoLuego(o(1))) - MesDespues(t, n)
              IN  yerra \in IF Localtime(t).tm_mday <= 27 THEN {0} ELSE -3..3 \cup 28..30
         /\ op = "&+" =>
              LET dias == Corto(Getad(o(3)))
                  vecino == Alto(EnteroEn(Getad(o(3)))) - Alto(dias)
              IN  Tidis(LargoLuego(o(1)), Long(Getad(o(2)))) = dias <=> vecino % 512 = 0]_<<pc, mem>>
=============================================================================

-------------------------------- MODULE Fechas --------------------------------
(***************************************************************************)
(* Dates and times (misce.c): what the instruction & and the fields of     *)
(* forms compute with.                                                     *)
(*                                                                         *)
(* A time is the number of seconds since 1970.  localtime and mktime are   *)
(* the C library's, here without summer time: the machine's zone is the    *)
(* seconds that local time is behind, less than none east of Greenwich.  A *)
(* tm has tm_year from 1900 and tm_mon from 0, which the month arithmetic  *)
(* of the code takes as from 1.  Texts are sequences of character codes.   *)
(* A long has 32 bits, so years are 1901 to 2038.                          *)
(***************************************************************************)
EXTENDS Integers, Sequences, SequencesExt

CONSTANT Maquinas     \* the machines that each source runs on: a sequence of their sets

VARIABLE maquina      \* [zona, vsamd]: where the program runs, and whether its
                      \* interpreter is the one for VSAM files (VSAMD) or for MySQL

ASSUME MaquinasSupuestas ==
    \A c \in DOMAIN Maquinas : Maquinas[c] \subseteq [zona : -50400..43200, vsamd : BOOLEAN]

Zona == maquina.zona
DIA == 86400
-----------------------------------------------------------------------------
(* The C library *)

Bisiesto(a) == a % 4 = 0
MesesAntes == <<0, 31, 59, 90, 120, 151, 181, 212, 243, 273, 304, 334>>

\* Days from 1970 to the first of month m (from 1) of year a.
DiasHasta(a, m) ==
    365 * (a - 1970) + ((a - 1969) \div 4) + MesesAntes[m]
    + (IF Bisiesto(a) /\ m > 2 THEN 1 ELSE 0)

\* The day and the hour of l seconds since 1970.
Gmtime(l) ==
    LET d == l \div DIA
        a == CHOOSE a \in 1901..2038 : DiasHasta(a, 1) <= d /\ d < DiasHasta(a + 1, 1)
        m == CHOOSE m \in 1..12 : /\ DiasHasta(a, m) <= d
                                  /\ m = 12 \/ d < DiasHasta(a, m + 1)
    IN  [tm_year |-> a - 1900, tm_mon |-> m - 1, tm_mday |-> d - DiasHasta(a, m) + 1,
         seg |-> l % DIA]
Localtime(t) == Gmtime(t - Zona)

\* Months out of the year and days out of the month count on.
Mktime(tm) ==
    DIA * (DiasHasta(1900 + tm.tm_year + (tm.tm_mon \div 12), (tm.tm_mon % 12) + 1) + tm.tm_mday - 1)
    + tm.seg + Zona

\* Numbers as texts: what atoi reads, and n digits of %0nd.
Digitos == 48..57
Atoi(cs) ==
    LET fin == SelectInSeq(cs, LAMBDA c : c \notin Digitos)
        d == IF fin = 0 THEN cs ELSE SubSeq(cs, 1, fin - 1)
    IN  FoldLeft(LAMBDA x, c : 10 * x + (c - 48), 0, d)
Potencia(n) == <<1, 10, 100, 1000, 10000, 100000, 1000000, 10000000, 100000000, 1000000000>>[n + 1]
Texto(v, n) == [k \in 1..n |-> 48 + ((v \div Potencia(n - k)) % 10)]
-----------------------------------------------------------------------------
(* Months and years *)

C_Div(x, y) == IF x >= 0 THEN x \div y ELSE -((-x) \div y)

\* The last day of the month, as the code sees it.
DiasMes(tm) ==
    IF tm.tm_mon \in {1, 3, 5, 7, 8, 10, 12} THEN 31
    ELSE IF tm.tm_mon \in {4, 6, 9, 11} THEN 30
    ELSE IF tm.tm_year % 4 # 0 THEN 29 ELSE 28

Recorta(tm) ==
    IF tm.tm_mon \in {2, 4, 6, 9, 11} /\ tm.tm_mday > DiasMes(tm)
    THEN [tm EXCEPT !.tm_mday = DiasMes(tm)] ELSE tm

IncMonth(t, inc) ==
    LET anus == C_Div(inc, 12)
    IN  Mktime(Recorta([Localtime(t) EXCEPT !.tm_mon = @ + (inc - anus * 12), !.tm_year = @ + anus]))

IncYear(t, inc) == Mktime(Recorta([Localtime(t) EXCEPT !.tm_year = @ + inc]))

\* January is 0 and in none of the cases.
IsLastOfMonth(t) ==
    LET tm == Localtime(t) IN tm.tm_mon # 0 /\ tm.tm_mday = DiasMes(tm)
LastOfMonth(t) ==
    LET tm == Localtime(t)
    IN  Mktime(IF tm.tm_mon = 0 THEN tm ELSE [tm EXCEPT !.tm_mday = DiasMes(tm)])

AddTime(ty, t, inc) ==
    CASE ty = "s" -> t + inc
      [] ty = "m" -> t + 60 * inc
      [] ty = "h" -> t + 3600 * inc
      [] ty = "d" -> t + DIA * inc
      [] ty = "W" -> t + DIA * 7 * inc
      [] ty = "M" -> LET x == IncMonth(t, inc)
                     IN  IF IsLastOfMonth(t) THEN LastOfMonth(x) ELSE x
      [] ty = "Y" -> LET x == IncYear(t, inc)
                     IN  IF IsLastOfMonth(t) THEN LastOfMonth(x) ELSE x
      [] OTHER -> t

\* Sums, differences and products of longs, whose upper bits are lost: halves of 16 bits,
\* and 86400 is 128 times 675.
Alto(v) == v \div 65536
Bajo(v) == v % 65536
ConSigno(v, m) == ((v + m \div 2) % m) - m \div 2
DeMitades(alto, bajo) == 65536 * ConSigno(alto + Alto(bajo), 65536) + Bajo(bajo)
SumaLong(v, w) == DeMitades(Alto(v) + Alto(w), Bajo(v) + Bajo(w))
RestaLong(v, w) == DeMitades(Alto(v) - Alto(w), Bajo(v) - Bajo(w))
EnSegundos(dias) == 128 * ConSigno(65536 * ((675 * Alto(dias)) % 512) + 675 * Bajo(dias), 33554432)

Futdate(t, dias) == SumaLong(t, EnSegundos(dias))
Pasdate(t, dias) == RestaLong(t, EnSegundos(dias))
Tidis(t1, t2) == C_Div(RestaLong(t1, t2), DIA)
-----------------------------------------------------------------------------
(* Texts of dates *)

Barra == 47
Espacio == 32
DosPuntos == 58
Dias3 == <<<<68, 111, 109>>, <<76, 117, 110>>, <<77, 97, 114>>, <<77, 105, 101>>, <<74, 117, 101>>,
           <<86, 105, 101>>, <<83, 97, 98>>>>
Meses3 == <<<<69, 110, 101>>, <<70, 101, 98>>, <<77, 122, 111>>, <<65, 98, 114>>, <<77, 97, 121>>, <<74, 117, 110>>,
            <<74, 117, 108>>, <<65, 103, 111>>, <<83, 101, 112>>, <<79, 99, 116>>, <<78, 111, 118>>, <<68, 105, 99>>>>
Semana(t) == ((t - Zona) \div DIA + 4) % 7
Hora(t) == LET g1 == Localtime(t).seg
           IN  Texto(g1 \div 3600, 2) \o <<DosPuntos>> \o Texto((g1 \div 60) % 60, 2)
               \o <<DosPuntos>> \o Texto(g1 % 60, 2)

\* Formats 1 and 2 have a year of two digits; 3, with the names of the day and the month,
\* ends in a null.
Putdate(t, f) ==
    LET tm == Localtime(t)
        yr == IF tm.tm_year >= 100 THEN tm.tm_year - 100 ELSE tm.tm_year
        mes == Texto(tm.tm_mon + 1, 2)
        dia == Texto(tm.tm_mday, 2)
    IN  CASE f = 1 -> Texto(yr, 2) \o mes \o dia
          [] f = 2 -> mes \o dia \o Texto(yr, 2)
          [] f = 3 -> Dias3[Semana(t) + 1] \o <<Espacio>> \o Meses3[tm.tm_mon + 1] \o <<Espacio>>
                      \o (IF tm.tm_mday < 10 THEN <<Espacio>> \o Texto(tm.tm_mday, 1) ELSE dia)
                      \o <<Espacio>> \o Texto(tm.tm_year + 1900, 4) \o <<Espacio>> \o Hora(t) \o <<0>>
          [] f = 4 -> Texto(tm.tm_year + 1900, 4) \o mes \o dia
          [] f = 5 -> Hora(t)

\* A date in a field of a form.
EnCampo(t, usf) ==
    LET tm == Localtime(t)
        mes == Texto(tm.tm_mon + 1, 2)
        dia == Texto(tm.tm_mday, 2)
    IN  (IF usf THEN mes \o <<Barra>> \o dia ELSE dia \o <<Barra>> \o mes)
        \o <<Barra>> \o Texto(tm.tm_year + 1900, 4)

\* DD/MM/YY or MM/DD/YY, the year of two digits or of four, to a time; -1 when it is no
\* date.  The first of January 1970 is day 1: the times are midnight of the day after, in
\* Greenwich, which is the day meant only to its west (DiaTecleado).
Dias(a) == FoldLeft(LAMBDA d, y : d + (IF y % 4 = 0 THEN 366 ELSE 365), 0,
                    [k \in 1..(a - 1970) |-> 1969 + k])
DiasDeMesComun(m, a) == IF m \in {4, 6, 9, 11} THEN 30 ELSE IF m = 2 THEN 28 ELSE 31
DiasDeMes(m, a) == IF m \in {4, 6, 9, 11} THEN 30
                   ELSE IF m = 2 THEN (IF a % 4 = 0 THEN 29 ELSE 28) ELSE 31
Totsec(cs, usf) ==
    LET x == Atoi(cs)
        y == Atoi(SubSeq(cs, 4, Len(cs)))
        z == Atoi(SubSeq(cs, 7, Len(cs)))
        mm == IF usf THEN x ELSE y
        dd == IF usf THEN y ELSE x
        yy == IF z < 70 THEN z + 2000 ELSE IF z < 100 THEN z + 1900 ELSE z
    IN  IF mm \notin 1..12 \/ dd < 1 \/ dd > DiasDeMes(mm, yy) THEN -1
        ELSE DIA * (Dias(yy) + dd
                    + FoldLeft(LAMBDA d, m : d + DiasDeMes(m, yy), 0, [k \in 1..(mm - 1) |-> k]))

\* A time of the day that was typed, of what totsec made of it.
DiaTecleado(t) == IF Zona > 0 THEN t ELSE RestaLong(t, DIA)
=============================================================================

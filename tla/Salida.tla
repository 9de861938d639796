-------------------------------- MODULE Salida --------------------------------
(***************************************************************************)
(* What a VPG program writes of its variables: the instructions p, c, s    *)
(* and \ of reports and screens (impfs.c, comma.c, misce.c), and the texts *)
(* and dates that the MySQL programs put together (vsqrun.c: q+ qu qr qD). *)
(*                                                                         *)
(* sale is the text written last, to a report or a window all the same.    *)
(* Formats are [n, coma]: the n of %nd, with a comma after the % when the  *)
(* number is to have commas.                                               *)
(***************************************************************************)
EXTENDS Condicion

VARIABLE sale

Punto == 46
Coma == 44
Guion == 45
EsDigito(c) == c \in Digitos

\* %nd: at least n characters; with a space in the flags, one for the sign.
Escrito(v, n, espacio) ==
    LET t == (IF v < 0 THEN <<Menos>> ELSE IF espacio THEN <<Blanco>> ELSE <<>>) \o Texto(Abs(v), Cifras(v))
    IN  [k \in 1..(IF n > Len(t) THEN n - Len(t) ELSE 0) |-> Blanco] \o t

\* coma: from the last digit before the point to the left, a comma before every third
\* that has a digit before it; p and q are the places read and written, and what would
\* be written before the text is lost.
TerceraSiempre(s1, e) == e.i = 2
Tercera(s1, e) == e.i = 2 /\ e.p > 1 /\ EsDigito(s1[e.p - 1])
Lleva(s1) == {k \in DOMAIN s1 : s1[k] = Punto}
PoneComas(s1) ==
    LET ultimo == IF Lleva(s1) = {} THEN Len(s1) ELSE Mayor(Lleva(s1)) - 1
        En(t, q, c) == IF q >= 1 THEN [t EXCEPT ![q] = c] ELSE t
        Digito(k) == k >= 1 /\ EsDigito(s1[k])
        Paso(e, k) ==
            IF e.fin THEN e
            ELSE LET t == En(e.t, e.q, s1[e.p])
                     lleno == Tercera(s1, e)
                     u == IF lleno THEN En(t, e.q - 1, Coma) ELSE t
                     q == IF lleno THEN e.q - 2 ELSE e.q - 1
                 IN  [t |-> u, p |-> e.p - 1, q |-> q, i |-> IF lleno THEN 0 ELSE e.i + 1,
                      fin |-> ~Digito(e.p - 1)]
        f == FoldLeft(Paso, [t |-> s1, p |-> ultimo, q |-> ultimo, i |-> 0, fin |-> FALSE],
                      [k \in 1..Len(s1) |-> k])
    IN  IF f.p >= 1 /\ s1[f.p] # Blanco THEN En(f.t, f.q, s1[f.p]) ELSE f.t

\* putval: a number, a date, or the hour and the day of the week.
Putval(w, fmt) ==
    CASE w.ty = "D" -> EnCampo(LeeNum(w), reloj.usf)
      [] w.ty = "H" -> Hora(Long(Getad(w))) \o <<Blanco>> \o Dias3[Semana(Long(Getad(w))) + 1]
      [] fmt.coma -> PoneComas(Escrito(LeeNum(w), fmt.n, TRUE))
      [] OTHER -> Escrito(LeeNum(w), fmt.n, FALSE)

\* impf: a text is cut, or filled with blanks, to the characters asked for; 0 is all.
Impf(w, fmt) ==
    IF w.ty # "s" THEN Putval(w, fmt)
    ELSE LET c == Cadena(Getad(w))
             n == IF fmt.n = 0 THEN Len(c) ELSE fmt.n
         IN  Cortar(c, n)

SinEscribir == UNCHANGED <<aa, mem, tam, reloj>>

Imprime ==
    /\ Sigue /\ op = "p"
    /\ sale' = Impf(o(1), x)
    /\ SinEscribir

\* produ: so many times the same character.
Produ(c, n) == [k \in 1..n |-> c]
Repite ==
    /\ Sigue /\ op = "c"
    /\ sale' = Produ(x, Valu(o(1)))
    /\ SinEscribir

Espacia ==
    /\ Sigue /\ op = "s"
    /\ sale' = Produ(Blanco, Valu(o(1)))
    /\ SinEscribir

Rotula ==
    /\ Sigue /\ op = "\\"
    /\ sale' = x
    /\ SinEscribir
-----------------------------------------------------------------------------
(* The texts of the MySQL programs *)

Anchos == [i |-> 6, l |-> 11, e |-> 11, c |-> 4]

\* vRetString; a character is taken without its sign.
Cuerda(w) ==
    CASE w.k = "txt" -> CadenaDe(w)
      [] w.ty = "s" -> Cadena(Getad(w))
      [] w.ty = "D" -> EnCampo(LeeNum(w), reloj.usf)
      [] w.ty = "c" -> Escrito(Leer(Getad(w), 1)[1], Anchos.c, FALSE)
      [] OTHER -> Escrito(LeeNum(w), Anchos[w.ty], FALSE)

Pega ==
    /\ Sigue /\ op = "q+"
    /\ LET d == Getad(o(1))
           Mas(m, w) == LET n == Len(CadenaEn(m, d))
                        IN  Puesto(m, [d EXCEPT !.p = @ + n], Cuerda(w) \o <<0>>)
       IN  mem' = FoldLeft(Mas, mem, Tail(obj[pc].a))
    /\ UNCHANGED <<aa, tam, reloj, sale>>

Mayuscula(c) == IF c \in 97..122 THEN c - 32 ELSE c
Mayusculas ==
    /\ Sigue /\ op = "qu"
    /\ LET d == Getad(o(1)) IN Escribe(d, [k \in DOMAIN Cadena(d) |-> Mayuscula(Cadena(d)[k])])
    /\ UNCHANGED <<aa, tam, reloj, sale>>

Reemplaza ==
    /\ Sigue /\ op = "qr"
    /\ LET d == Getad(o(1))
           viejo == BytesDe(o(2), 1)[1]
           nuevo == BytesDe(o(3), 1)[1]
           c == Cadena(d)
       IN  Escribe(d, [k \in DOMAIN c |-> IF c[k] = viejo THEN nuevo ELSE c[k]])
    /\ UNCHANGED <<aa, tam, reloj, sale>>

\* qD: the k-th short of a date of MySQL: year, month, day, hour, minutes, seconds.
Parte(d, k) == Corto([d EXCEPT !.p = @ + 2 * (k - 1)])
Segundos(d) == 3600 * Parte(d, 4) + 60 * Parte(d, 5) + Parte(d, 6)
DeSql(d, hora) ==
    Mktime([tm_year |-> Parte(d, 1) - 1900, tm_mon |-> Parte(d, 2) - 1, tm_mday |-> Parte(d, 3),
            seg |-> IF hora THEN Segundos(d) ELSE 0])
ASql(t, hora) ==
    LET tm == Localtime(t)
    IN  EnBytes(tm.tm_year + 1900, 2) \o EnBytes(tm.tm_mon + 1, 2) \o EnBytes(tm.tm_mday, 2)
        \o (IF hora THEN EnBytes(tm.seg \div 3600, 2) \o EnBytes((tm.seg \div 60) % 60, 2)
                         \o EnBytes(tm.seg % 60, 2)
            ELSE <<>>)
Guiones(d) == Texto(Parte(d, 1), 4) \o <<Guion>> \o Texto(Parte(d, 2), 2) \o <<Guion>> \o Texto(Parte(d, 3), 2)
TextoSql(d, f) ==
    CASE f = 5 -> Guiones(d)
      [] f = 6 -> Guiones(d) \o <<Blanco>> \o Texto(Parte(d, 4), 2) \o <<DosPuntos>>
                  \o Texto(Parte(d, 5), 2) \o <<DosPuntos>> \o Texto(Parte(d, 6), 2)
      [] f = 7 -> Texto(Parte(d, 1), 4) \o Texto(Parte(d, 2), 2) \o Texto(Parte(d, 3), 2)
      [] f = 8 -> Texto(Parte(d, 3), 2) \o <<Guion>> \o Meses3[Parte(d, 2)] \o <<Guion>> \o Texto(Parte(d, 1), 4)

PasaFecha ==
    /\ Sigue /\ op = "qD"
    /\ LET d1 == Getad(o(2))
           d2 == Getad(o(3))
           f == o(1).v
       IN  CASE f \in {1, 3} -> Escribe(d2, EnBytes(DeSql(d1, f = 3), Largo))
             [] f \in {2, 4} -> Escribe(d1, ASql(Long(d2), f = 4))
             [] f \in 5..8 -> Escribe(d2, TextoSql(d1, f) \o <<0>>)
    /\ UNCHANGED <<aa, tam, reloj, sale>>

Escribiente == Imprime \/ Repite \/ Espacia \/ Rotula \/ Pega \/ Mayusculas \/ Reemplaza \/ PasaFecha
-----------------------------------------------------------------------------
(* Properties *)

\* The number a text shows: its digits, whatever blanks and commas are between.
NumeroDe(t) ==
    LET d == SelectSeq(t, EsDigito)
        v == FoldLeft(LAMBDA y, c : 10 * y + (c - 48), 0, d)
    IN  IF \E k \in DOMAIN t : t[k] = Menos THEN -v ELSE v

\* A number with its sign, and a comma before every three of its digits but the first.
ConComas(v) ==
    LET t == Texto(Abs(v), Cifras(v))
    IN  (IF v < 0 THEN <<Menos>> ELSE <<>>)
        \o FlattenSeq([k \in DOMAIN t |-> IF k > 1 /\ (Len(t) - k) % 3 = 2 THEN <<Coma, t[k]>> ELSE <<t[k]>>])
Ultimos(bs, n) == SubSeq(bs, Len(bs) - n + 1, Len(bs))

\* What a report shows of a variable reads back as what the variable holds: a number with
\* its sign; a date and an hour as those of the clock; a text as its characters.  A number
\* with commas keeps the room of the same without them: what there is no place for, its
\* sign or first digits, is lost (impfs.c:19, 51; comma.c:8, 23).
ImprimeFiel ==
    [][fase = "corre" /\ pc <= Len(obj) /\ op = "p" /\ pc' = pc + 1 =>
        LET w == o(1)
        IN  CASE w.ty = "s" -> /\ x.n # 0 => Len(sale') = x.n
                               /\ \A k \in DOMAIN sale' :
                                     sale'[k] = IF k <= Len(Cadena(Getad(w))) THEN Cadena(Getad(w))[k] ELSE Blanco
              [] w.ty = "D" -> LET c == sale'
                                   n1 == Atoi(c)
                                   n2 == Atoi(SubSeq(c, 4, 5))
                               IN  /\ Localtime(LeeNum(w)).tm_mday = (IF reloj.usf THEN n2 ELSE n1)
                                   /\ Localtime(LeeNum(w)).tm_mon + 1 = (IF reloj.usf THEN n1 ELSE n2)
              [] w.ty = "H" -> 3600 * Atoi(sale') + 60 * Atoi(SubSeq(sale', 4, 5)) + Atoi(SubSeq(sale', 7, 8))
                               = (Long(Getad(w)) - Zona) % DIA
              [] x.coma -> LET n == Len(sale')
                           IN  /\ n = Mayor({x.n, Cifras(LeeNum(w)) + 1})
                               /\ sale' = Ultimos(Produ(Blanco, n) \o ConComas(LeeNum(w)), n)
              [] OTHER -> NumeroDe(sale') = LeeNum(w) /\ Len(sale') >= x.n]_<<pc, sale>>
=============================================================================

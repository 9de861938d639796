-------------------------------- MODULE Descarga --------------------------------
(***************************************************************************)
(* The programs that unload a file into text for other systems: parcar and *)
(* parcar9 take a VSAM file, parcar1, parcar19 and parcar1a a flat one.  A *)
(* VPG program runs them with x and waits for their end.  A catalogue says *)
(* what the records hold, field by field: the sources agree in nearly all  *)
(* but each has its own list of types that it knows.                       *)
(*                                                                         *)
(* The instruction's x is [prog, cat, q, p, d, regs]: the options -q and   *)
(* -p, the character of -d, the catalogue as a sequence of [typ, n], and a *)
(* file: [dat, vpk, proxi, vivos], the data of its records, the header's   *)
(* of a flat file among them, the chain of the unique key and the records  *)
(* that are no header.  Fields of types f and d are left out, as are the   *)
(* programs' messages.  sobra is what the last bytes of three arrays of    *)
(* the stack hold, and crec, which nothing sets before they are read.      *)
(***************************************************************************)
EXTENDS Salida

VARIABLE desc         \* [fil, lug, leidos, linea, sobra]: the fields of the catalogue, the
                      \* record read next, those read, and the text written of the last

Tabulador == 9
FinLinea == 10

TamComoInt(typ) == Largo
TamFijo(typ) == IF typ = "i" THEN 2 ELSE Largo

\* What a catalogue says: each field's size, by its type one given (dados) or fixed
\* (fijos), else zero, and its offset, the sizes before it.
Catalogo(cat, dados, fijos) ==
    FoldLeft(LAMBDA f, c :
                 LET sz == IF c.typ \in dados THEN c.n
                           ELSE IF c.typ \in fijos THEN TamFijo(c.typ) ELSE 0
                     u == IF f = <<>> THEN 0 ELSE Last(f).offset + Last(f).sz
                 IN  Append(f, [typ |-> c.typ, sz |-> sz, offset |-> u]),
             <<>>, cat)
CatalogoParcar(cat)   == Catalogo(cat, {"s", "n", "F"}, {"i", "l", "D", "T"})
CatalogoParcar1(cat)  == Catalogo(cat, {"s", "n", "F"}, {"i", "l", "D", "T"})
CatalogoParcar9(cat)  == Catalogo(cat, {"s", "n"}, {"i", "l", "D", "T"})
CatalogoParcar19(cat) == Catalogo(cat, {"s", "n"}, {"i", "l", "D", "T"})
CatalogoParcar1a(cat) == Catalogo(cat, {"s", "n"}, {"i", "l", "D"})
-----------------------------------------------------------------------------
(* A record as text *)

DatoEn(dat, c) == [k \in 1..c.sz |-> IF c.offset + k <= Len(dat) THEN dat[c.offset + k] ELSE 0]

\* A text without the blanks at its end, as far as its null.
Recortado(bs) ==
    LET j == SelectLastInSeq(bs, LAMBDA c : c # Blanco)
        n == SelectInSeq(SubSeq(bs, 1, j), LAMBDA c : c = 0)
    IN  SubSeq(bs, 1, IF n = 0 THEN j ELSE n - 1)

ConGuiones(a, m, d) == Texto(a, 4) \o <<Guion>> \o Texto(m, 2) \o <<Guion>> \o Texto(d, 2)
DiaDe(t) == LET tm == Localtime(t) IN ConGuiones(tm.tm_year + 1900, tm.tm_mon + 1, tm.tm_mday)
DiaHoraDe(t) == DiaDe(t) \o <<Blanco>> \o Hora(t)

\* fecha_valida
FechaValida(anu, mes, dia) ==
    /\ dia \in 1..31 /\ mes \in 1..12 /\ anu \in 1900..2050
    /\ mes \in {4, 6, 9, 11} => dia <= 30
    /\ mes = 2 => dia <= 29 /\ (anu % 4 # 0 => dia <= 28)

\* A date kept as a text, yyyymmdd; atoi goes on into the byte after the digits.
FechaTexto(bs, sobra) ==
    LET a == Atoi(SubSeq(bs, 1, 4) \o <<sobra[1]>>)
        m == Atoi(SubSeq(bs, 5, 6) \o <<sobra[2]>>)
        d == Atoi(SubSeq(bs, 7, 8) \o <<sobra[3]>>)
    IN  IF FechaValida(a, m, d) THEN ConGuiones(a, m, d) ELSE ConGuiones(2003, 1, 1)

\* mas is what is added to times.
Convertida(c, bs, mas, sobra) ==
    CASE c.typ = "s" -> Recortado(bs)
      [] c.typ \in {"i", "l"} -> Escrito(Entero(bs), 0, FALSE)
      [] c.typ = "T" -> DiaHoraDe(Entero(bs) + mas)
      [] c.typ = "D" -> DiaDe(Entero(bs) + mas)
      [] c.typ = "F" -> FechaTexto(bs, sobra)
      [] OTHER -> <<>>

MAS10(q) == IF q THEN 315468000 ELSE 0
MAS10a(q) == IF q THEN 315532800 ELSE 0

\* Fields between marks: abre before each, cierra after each but the last, fin after the
\* last.  One of type n is passed over.
Delimitado(fil, dat, abre, cierra, fin, mas, sobra) ==
    FoldLeft(LAMBDA s1, i :
                 LET ultimo == i = Len(fil)
                 IN  IF fil[i].typ = "n" THEN s1 \o (IF ultimo THEN <<FinLinea>> ELSE <<>>)
                     ELSE s1 \o abre \o Convertida(fil[i], DatoEn(dat, fil[i]), mas, sobra)
                             \o (IF ultimo THEN fin \o <<FinLinea>> ELSE cierra),
             <<>>, [i \in DOMAIN fil |-> i])

Gendat(fil, dat, q, d, sobra) ==
    Delimitado(fil, dat, <<d>>, <<d, Coma>>, <<d>>, DIA + MAS10(q), sobra)
Gendat1(fil, dat, q, d, sobra) ==
    Delimitado(fil, dat, <<d>>, <<d, Coma>>, <<d>>, DIA + MAS10(q), sobra)
Gendat9(fil, dat, q) ==
    Delimitado(fil, dat, <<>>, <<Tabulador>>, <<>>, DIA + MAS10(q), <<>>)
Gendat19(fil, dat, q) ==
    Delimitado(fil, dat, <<>>, <<Tabulador>>, <<>>, DIA + MAS10(q), <<>>)
Gendat1a(fil, dat, q, d) ==
    Delimitado(fil, dat, <<d>>, <<d, Coma>>, <<d>>, MAS10a(q), <<>>)

\* Fields one after another, each of the width of its type, and no end of line.  A date
\* that is a text takes the width of the field before it, and the first of all what the
\* stack held (crec).
Limpias == <<0, 0, 0, 0>>
Izquierda(bs, n) == [k \in 1..n |-> IF k <= Len(bs) THEN bs[k] ELSE Blanco]
ConNulos(bs, n) == [k \in 1..n |-> IF k <= Len(bs) THEN bs[k] ELSE 0]
AnchoFijo(c, antes) ==
    CASE c.typ = "s" -> c.sz
      [] c.typ = "i" -> 6
      [] c.typ = "l" -> 11
      [] c.typ = "T" -> 19
      [] c.typ = "D" -> 10
      [] OTHER -> antes
Fijado(fil, dat, mas, sobra) ==
    FoldLeft(LAMBDA e, c :
                 LET crec == AnchoFijo(c, e.crec)
                     bs == DatoEn(dat, c)
                     s2 == CASE c.typ = "s" -> bs
                             [] c.typ \in {"i", "l"} -> Izquierda(Convertida(c, bs, 0, <<>>), crec)
                             [] OTHER -> Convertida(c, bs, mas, sobra)
                 IN  [s |-> IF c.typ = "n" THEN e.s ELSE e.s \o ConNulos(s2, crec), crec |-> crec],
             [s |-> <<>>, crec |-> sobra[4]], fil).s

Gendat2(fil, dat, q, sobra)  == Fijado(fil, dat, MAS10(q), sobra)
Gendat21(fil, dat, q, sobra) == Fijado(fil, dat, MAS10(q), sobra)
Gendat29(fil, dat, q)        == Fijado(fil, dat, MAS10(q), Limpias)
Gendat219(fil, dat, q)       == Fijado(fil, dat, MAS10(q), Limpias)
-----------------------------------------------------------------------------
(* The programs *)

\* Bytes that end the digits before them or follow on; a width.
Sobras == {<<a, m, d, ancho>> : a, m, d \in {0, 50}, ancho \in {0, 12}}

\* The first record of a flat file is skipped.
Lanza ==
    /\ fase = "corre" /\ pc <= Len(obj) /\ op = "x"
    /\ fase' = "descarga"
    /\ desc' = [fil |-> CASE x.prog = "parcar" -> CatalogoParcar(x.cat)
                          [] x.prog = "parcar1" -> CatalogoParcar1(x.cat)
                          [] x.prog = "parcar9" -> CatalogoParcar9(x.cat)
                          [] x.prog = "parcar19" -> CatalogoParcar19(x.cat)
                          [] x.prog = "parcar1a" -> CatalogoParcar1a(x.cat),
                lug |-> IF x.prog \in {"parcar", "parcar9"} THEN x.regs.vpk ELSE 2,
                leidos |-> <<>>, linea |-> <<>>, sobra |-> Limpias]
    /\ UNCHANGED <<cual, tok, instr, g, nsym, tabla, generr, obj, corre, sale>>

Lee(texto, sobra, sigue) ==
    /\ desc' = [desc EXCEPT !.linea = texto, !.sobra = sobra, !.leidos = Append(@, desc.lug), !.lug = sigue]
    /\ UNCHANGED <<compila, corre, sale>>

Hay(prog) == fase = "descarga" /\ x.prog = prog /\ desc.lug \in DOMAIN x.regs.dat
Reg == x.regs.dat[desc.lug]

RecorreParcar ==
    /\ Hay("parcar")
    /\ \E sobra \in Sobras :
          Lee(IF x.p THEN Gendat2(desc.fil, Reg, x.q, sobra) ELSE Gendat(desc.fil, Reg, x.q, x.d, sobra),
              sobra, x.regs.proxi[desc.lug])
RecorreParcar9 ==
    /\ Hay("parcar9")
    /\ Lee(IF x.p THEN Gendat29(desc.fil, Reg, x.q) ELSE Gendat9(desc.fil, Reg, x.q),
           Limpias, x.regs.proxi[desc.lug])
RecorreParcar1 ==
    /\ Hay("parcar1")
    /\ \E sobra \in Sobras :
          Lee(IF x.p THEN Gendat21(desc.fil, Reg, x.q, sobra) ELSE Gendat1(desc.fil, Reg, x.q, x.d, sobra),
              sobra, desc.lug + 1)
RecorreParcar19 ==
    /\ Hay("parcar19")
    /\ Lee(IF x.p THEN Gendat219(desc.fil, Reg, x.q) ELSE Gendat19(desc.fil, Reg, x.q),
           Limpias, desc.lug + 1)
RecorreParcar1a ==
    /\ Hay("parcar1a")
    /\ Lee(Gendat1a(desc.fil, Reg, x.q, x.d), Limpias, desc.lug + 1)

Apaga == [fil |-> <<>>, lug |-> 0, leidos |-> <<>>, linea |-> <<>>, sobra |-> Limpias]
Termina ==
    /\ fase = "descarga" /\ desc.lug \notin DOMAIN x.regs.dat
    /\ fase' = "corre" /\ pc' = pc + 1 /\ desc' = Apaga
    /\ UNCHANGED <<cual, tok, instr, g, nsym, tabla, generr, obj, aa, mem, tam, reloj, sale>>

NextDescarga ==
    \/ Lanza \/ RecorreParcar \/ RecorreParcar9 \/ RecorreParcar1 \/ RecorreParcar19
    \/ RecorreParcar1a \/ Termina
-----------------------------------------------------------------------------
(* Properties *)

\* Where a record keeps field k of its catalogue, by the sizes its VPG program declared.
TamVpg(c) == IF c.typ \in {"s", "n", "F"} THEN c.n ELSE IF c.typ = "i" THEN 2 ELSE Largo
DesdeVpg(cat, k) == FoldLeft(LAMBDA y, c : y + TamVpg(c), 0, SubSeq(cat, 1, k - 1))
Guardado2(cat, k, dat) == SubSeq(dat, DesdeVpg(cat, k) + 1, DesdeVpg(cat, k) + TamVpg(cat[k]))

Salen(cat) == SelectSeq([k \in DOMAIN cat |-> k], LAMBDA k : cat[k].typ # "n")

\* A line taken apart by who loads it: between pairs of marks, between tabs, or by widths.
\* After a last field that is passed over there is a tab too many.
Trozos(t, marca) ==
    FoldLeft(LAMBDA e, c : IF c = marca THEN Append(e, <<>>)
                           ELSE [e EXCEPT ![Len(e)] = Append(@, c)], <<<<>>>>, t)
EntreMarcas(t, d) == LET f == Trozos(t, d) IN [k \in 1..Len(f) \div 2 |-> f[2 * k]]
EntreTabs(t, cat) ==
    LET f == Trozos(SelectSeq(t, LAMBDA c : c # FinLinea), Tabulador)
    IN  IF Last(cat).typ = "n" /\ Last(f) = <<>> THEN Front(f) ELSE f
\* A date that is a text has the width of the last field before it that has one, or one
\* that nobody can tell.
ConAncho(cat, k) == {j \in 1..k : cat[j].typ \notin {"n", "F"}}
AnchoCarga(cat, k) ==
    IF ConAncho(cat, k) = {} THEN desc'.sobra[4]
    ELSE LET c == cat[Mayor(ConAncho(cat, k))]
         IN  IF c.typ = "s" THEN c.n ELSE [i |-> 6, l |-> 11, D |-> 10, T |-> 19][c.typ]
PorAnchos(t, cat) ==
    FoldLeft(LAMBDA e, k : LET n == AnchoCarga(cat, k)
                           IN  [van |-> e.van + n, campos |-> Append(e.campos, SubSeq(t, e.van + 1, e.van + n))],
             [van |-> 0, campos |-> <<>>], Salen(cat)).campos

Limpio(bs) == Recortado(Recortado(bs))

\* A text that is a date of the calendar, yyyy-mm-dd.
Fechada(t) ==
    /\ Len(t) = 10 /\ t[5] = Guion /\ t[8] = Guion
    /\ \A k \in DOMAIN t \ {5, 8} : EsDigito(t[k])
    /\ Atoi(SubSeq(t, 6, 7)) \in 1..12
    /\ Atoi(SubSeq(t, 9, 10)) \in 1..DiasDeMes(Atoi(SubSeq(t, 6, 7)), Atoi(SubSeq(t, 1, 4)))

\* The date that a text bs of eight digits says, or the one that stands for none.
FechaDe(bs) ==
    LET a == Atoi(SubSeq(bs, 1, 4))
        m == Atoi(SubSeq(bs, 5, 6))
        d == Atoi(SubSeq(bs, 7, 8))
    IN  IF a \in 1900..2050 /\ m \in 1..12 /\ d \in 1..DiasDeMes(m, a)
        THEN SubSeq(bs, 1, 4) \o <<Guion>> \o SubSeq(bs, 5, 6) \o <<Guion>> \o SubSeq(bs, 7, 8)
        ELSE ConGuiones(2003, 1, 1)
SinSobras == \A k \in 1..3 : desc'.sobra[k] = 0

\* What field k of catalogue cat, of bytes bs, says, and whether text t says it.  The times
\* of -q are of another clock; without -p the programs but parcar1a write the next day's date.
Dice(cat, k, bs, t) ==
    LET c == cat[k]
    IN  CASE c.typ = "s" -> Limpio(t) = Limpio(bs)
          [] c.typ \in {"i", "l"} -> AtoiB(t) = Entero(bs)
          [] c.typ \in {"D", "T"} ->
                LET tm == Localtime(Entero(bs) + (IF x.p \/ x.prog = "parcar1a" THEN 0 ELSE DIA))
                IN  ~x.q => /\ Atoi(t) = tm.tm_year + 1900
                            /\ Atoi(SubSeq(t, 6, 7)) = tm.tm_mon + 1
                            /\ Atoi(SubSeq(t, 9, 10)) = tm.tm_mday
          [] c.typ = "F" ->
                LET ancho == IF x.p THEN AnchoCarga(cat, k) ELSE 10
                IN  /\ SinSobras => t = ConNulos(FechaDe(bs), ancho)
                    /\ ancho >= 10 => Fechada(SubSeq(t, 1, 10))

\* What is unloaded can be loaded: taken apart again, the line of a record says what the
\* record holds in each of its fields, for every program and both formats; and the
\* records are unloaded once each, all of them.  A date kept as a text is one of the
\* calendar, the one it says unless digits left on the stack are read on into it, and
\* with -p it is cut to, or filled up to, the width of the field before it, or one that
\* nobody set (parcar.c:83, 118, 130, 189, 209, 262).
DescargaFiel ==
    [][/\ fase = "descarga" /\ fase' = "descarga" =>
            LET dat == x.regs.dat[Last(desc'.leidos)]
                ks == Salen(x.cat)
                t == desc'.linea
            IN  \E campos \in {IF x.p THEN PorAnchos(t, x.cat)
                              ELSE IF x.prog \in {"parcar9", "parcar19"} THEN EntreTabs(t, x.cat)
                              ELSE EntreMarcas(t, x.d)} :
                /\ Len(campos) = Len(ks)
                /\ x.p => \A j \in DOMAIN ks : Len(campos[j]) = AnchoCarga(x.cat, ks[j])
                /\ \A j \in DOMAIN ks : Dice(x.cat, ks[j], Guardado2(x.cat, ks[j], dat), campos[j])
       /\ fase = "descarga" /\ fase' = "corre" =>
            Len(desc.leidos) = Cardinality(x.regs.vivos) /\ ToSet(desc.leidos) = x.regs.vivos]_<<fase, desc>>
=============================================================================

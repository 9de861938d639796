---------------------------------- MODULE Cgi ----------------------------------
(***************************************************************************)
(* The instruction H of a VPG program called by a web server (vcgi2.c):    *)
(* Hi takes the request apart into fields of a name and a content, Hc and  *)
(* HC move the content of a field to a variable of the program, by number  *)
(* and by name, Hk its name, and Hp and HP write them; Hf, HF, HI, HT and  *)
(* Hs write HTML around what the program gives them.  A tag is written as  *)
(* one character beyond those of a text, its attributes' values after it.  *)
(*                                                                         *)
(* The request is the text a browser sends, GET or POST alike; Pedidos are *)
(* the fields a user may have filled in, as pairs of texts.                *)
(***************************************************************************)
EXTENDS Salida

CONSTANTS Pedidos

VARIABLE cgi          \* [hnf, vhinf, pedido]: the fields counted, those taken apart, by
                      \* number from 0, and the pairs they came from

Igual == 61
Ampersand == 38
Porciento == 37
Mas == 43
-----------------------------------------------------------------------------
(* The browser *)

Hex == <<48, 49, 50, 51, 52, 53, 54, 55, 56, 57, 65, 66, 67, 68, 69, 70>>
Libre(c) == c \in Digitos \cup 65..90 \cup 97..122
Cifrado(c) == IF Libre(c) THEN <<c>> ELSE IF c = Blanco THEN <<Mas>>
              ELSE <<Porciento, Hex[(c \div 16) + 1], Hex[(c % 16) + 1]>>
Manda(bs) == FlattenSeq([k \in DOMAIN bs |-> Cifrado(bs[k])])
Peticion(pares) ==
    FlattenSeq([k \in DOMAIN pares |->
        (IF k = 1 THEN <<>> ELSE <<Ampersand>>) \o Manda(pares[k][1]) \o <<Igual>> \o Manda(pares[k][2])])
-----------------------------------------------------------------------------
(* vHinput *)

ValorHex(c) == IF c \in Digitos THEN c - 48 ELSE IF c >= 97 THEN c - 87 ELSE c - 55

\* The name of the field being read ends at =, its content at &; a % takes two more.
SinMas(e, c) == [e EXCEPT !.s = Append(@, c)]
Comun(e, c) == [e EXCEPT !.s = Append(@, IF c = Mas THEN Blanco ELSE c)]
Paso(e, c) ==
    IF e.hex # <<>>
    THEN IF Len(e.hex) = 1 THEN [e EXCEPT !.hex = <<0, c>>]
         ELSE [e EXCEPT !.s = Append(@, 16 * ValorHex(e.hex[2]) + ValorHex(c)), !.hex = <<>>]
    ELSE CASE c = Igual -> [e EXCEPT !.fname = e.s, !.s = <<>>]
           [] c = Ampersand -> [e EXCEPT !.f = Append(@, [fname |-> e.fname, fcont |-> e.s]),
                                         !.fname = <<>>, !.s = <<>>]
           [] c = Porciento -> [e EXCEPT !.hex = <<0>>]
           [] OTHER -> Comun(e, c)
Campos(buf) ==
    LET e == FoldLeft(Paso, [f |-> <<>>, fname |-> <<>>, s |-> <<>>, hex |-> <<>>], buf)
    IN  Append(e.f, [fname |-> e.fname, fcont |-> e.s])

\* Hi: an empty request leaves the variable and the fields as they were.
Hinput ==
    /\ Sigue /\ op = "Hi"
    /\ \E p \in Pedidos :
          LET buf == Peticion(p)
              n == cgi.hnf + Cardinality({k \in DOMAIN buf : buf[k] = Igual})
          IN  IF buf = <<>> THEN UNCHANGED <<mem, cgi>>
              ELSE /\ Escribe(Getad(o(1)), EnBytes(n, 4))
                   /\ cgi' = [hnf |-> n, vhinf |-> Campos(buf), pedido |-> p]
    /\ UNCHANGED <<aa, tam, reloj, sale>>
-----------------------------------------------------------------------------
(* vHopts *)

Campo(n) == cgi.vhinf[n + 1]

\* strncpy: cut, or with nulls after it.
Strncpy(bs, max) == [k \in 1..max |-> IF k <= Len(bs) THEN bs[k] ELSE 0]

\* A short of the program is written as an int.
Convertido(ty, bs, max) ==
    CASE ty = "s" -> Strncpy(bs, max)
      [] ty \in {"i", "l"} -> EnBytes(AtoiB(bs), 4)
      [] ty = "D" -> EnBytes(Totsec(bs, reloj.usf), Largo)

Hopt(c) == Sigue /\ op = c /\ UNCHANGED <<aa, tam, reloj, cgi>>

HayCampo(n) == n < Len(cgi.vhinf)

CopiaCampo ==
    /\ Hopt("Hc") /\ HayCampo(Valu(o(3)))
    /\ Escribe(Getad(o(1)), Convertido(o(1).ty, Campo(Valu(o(3))).fcont, o(2).v))
    /\ UNCHANGED sale

\* The first field of that name.
Llamado(nombre) == {n \in 0..Len(cgi.vhinf) - 1 : Campo(n).fname = nombre}
Primera(S) == CHOOSE n \in S : \A k \in S : n <= k
CopiaNombrado ==
    /\ Hopt("HC") /\ Llamado(CadenaDe(o(3))) # {}
    /\ Escribe(Getad(o(1)), Convertido(o(1).ty, Campo(Primera(Llamado(CadenaDe(o(3))))).fcont, o(2).v))
    /\ UNCHANGED sale

CopiaTitulo ==
    /\ Hopt("Hk") /\ HayCampo(Valu(o(1)))
    /\ Escribe(Getad(o(2)), Strncpy(Campo(Valu(o(1))).fname, Valu(o(3))))
    /\ UNCHANGED sale

EscribeCampo ==
    /\ Hopt("Hp") /\ HayCampo(Valu(o(2)))
    /\ sale' = IF o(1).v = 0 THEN Campo(Valu(o(2))).fname ELSE Campo(Valu(o(2))).fcont
    /\ UNCHANGED mem

EscribeNombrado ==
    /\ Hopt("HP") /\ Llamado(CadenaDe(o(1))) # {}
    /\ sale' = Campo(Primera(Llamado(CadenaDe(o(1))))).fcont
    /\ UNCHANGED mem

-----------------------------------------------------------------------------
(* The page written *)

Tags == <<"p", "br", "H1", "H2", "H3", "/H1", "/H2", "/H3", "pre", "/pre", "hr",
          "b", "/b", "i", "/i", "u", "/u", "FORM action", "method", "/FORM",
          "INPUT text maxlength", "INPUT text size", "INPUT password maxlength", "INPUT password size",
          "name", "INPUT radio", "INPUT checkbox", "INPUT submit", "INPUT reset", "value", "text",
          "TEXTAREA", "rows", "cols", "wrap", "/TEXTAREA", "SELECT", "MULTIPLE", "OPTION", "/SELECT">>
Tag(t) == <<256 + CHOOSE k \in DOMAIN Tags : Tags[k] = t>>
ConTexto(t, w) == Tag(t) \o CadenaDe(w)
ConNum(t, w) == Tag(t) \o Texto(Valu(w), Cifras(Valu(w)))
Varios(P(_), desde) == FlattenSeq([k \in 1..Len(obj[pc].a) - desde + 1 |-> P(o(desde + k - 1))])
EscribePagina(t) == sale' = t /\ UNCHANGED mem

\* Hf: a tag, by its letter.
Letras == [p |-> "p", r |-> "br", uno |-> "H1", dos |-> "H2", tres |-> "H3",
           seis |-> "/H1", siete |-> "/H2", ocho |-> "/H3", e |-> "pre", E |-> "/pre", h |-> "hr",
           b |-> "b", B |-> "/b", i |-> "i", I |-> "/i", u |-> "u", U |-> "/u"]
Formatea == Hopt("Hf") /\ x \in DOMAIN Letras /\ EscribePagina(Tag(Letras[x]))

\* HF: a form begins, or ends.
FormaHtml ==
    /\ Hopt("HF")
    /\ EscribePagina(IF x = "1" THEN ConTexto("FORM action", o(1)) \o ConTexto("method", o(2)) ELSE Tag("/FORM"))

\* HI: a field for text, with its size or the characters it takes; buttons of one name,
\* one for each value; and the two buttons of a form.
CampoHtml ==
    /\ Hopt("HI")
    /\ LET Boton(t, w) == ConTexto(t, o(1)) \o ConTexto("value", w)
       IN  EscribePagina(
             CASE x = "t" -> ConNum(IF o(2).v = 1 THEN "INPUT text maxlength" ELSE "INPUT text size", o(1))
                             \o ConTexto("name", o(3))
               [] x = "p" -> ConNum(IF o(2).v = 1 THEN "INPUT password maxlength" ELSE "INPUT password size", o(1))
                             \o ConTexto("name", o(3))
               [] x = "r" -> Varios(LAMBDA w : Boton("INPUT radio", w) \o ConTexto("text", w), 2)
               [] x = "c" -> Varios(LAMBDA w : Boton("INPUT checkbox", w) \o ConTexto("text", w), 2)
               [] x = "b" -> Boton("INPUT submit", o(1))
               [] x = "B" -> Boton("INPUT reset", o(1)))

\* HT: a text of several lines begins, or ends.
TextoHtml ==
    /\ Hopt("HT")
    /\ EscribePagina(IF x = "B" THEN Tag("/TEXTAREA")
                     ELSE ConTexto("TEXTAREA", o(1)) \o ConNum("rows", o(2)) \o ConNum("cols", o(3))
                          \o (IF o(4).v = 1 THEN Tag("wrap") ELSE <<>>))

\* Hs: a list to choose from, of many or one, with what it offers if the program gives it;
\* and its end.
ListaHtml ==
    /\ Hopt("Hs")
    /\ EscribePagina(IF x = "B" THEN Tag("/SELECT")
                     ELSE ConTexto("SELECT", o(2)) \o (IF o(1).v = 1 THEN Tag("MULTIPLE") ELSE <<>>)
                          \o (IF o(3).v = 0 THEN Varios(LAMBDA w : ConTexto("OPTION", w), 4) ELSE <<>>))

Servicio ==
    \/ Hinput \/ CopiaCampo \/ CopiaNombrado \/ CopiaTitulo \/ EscribeCampo \/ EscribeNombrado
    \/ Formatea \/ FormaHtml \/ CampoHtml \/ TextoHtml \/ ListaHtml
-----------------------------------------------------------------------------
(* Properties *)

\* The program gets the fields as the user filled them in: as many, in their order, with
\* every character that the browser had to write otherwise back in its place
\* (vcgi2.c:79, 89).
CgiFiel ==
    cgi.pedido # <<>> =>
        /\ cgi.hnf = Len(cgi.pedido)
        /\ cgi.vhinf = [k \in DOMAIN cgi.pedido |-> [fname |-> cgi.pedido[k][1], fcont |-> cgi.pedido[k][2]]]
=============================================================================

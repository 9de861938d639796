------------------------------ MODULE VpMemoria ------------------------------
(***************************************************************************)
(* vp, the compiler of VPG programs (vp3.c): the symbols of the data.      *)
(*                                                                         *)
(* A program names the bytes of its buffers.  "f2;" makes buffer 2 the     *)
(* active one and "M a i,b s6,..;" names what lies in it, from its first   *)
(* byte on; braces give a name to several neighbours, digits make an       *)
(* array.  getsymbols, the first pass, gives every name its place and      *)
(* size; getins, the second, writes the operands of the instructions as    *)
(* type, buffer and position ("i2:4").  Both keep what they know in the    *)
(* same few globals (pos, siz, memo, typ, arre, tamvar), which survive     *)
(* from one symbol to the next and from one pass to the other.             *)
(*                                                                         *)
(* A source is a sequence of tokens: [t |-> "f", n], [t |-> "m", n] (get n *)
(* bytes), [t |-> "M"] and its [t |-> "dato", id, ty, n], "{", "}"; labels *)
(* "["; texts "#d"; and instructions [t |-> "ins", op, x, a], with operands a and the letters x written as they are. *)
(* An operand of the source is [f, id, v]: a symbol ("sim"), its position  *)
(* ("pos", id&), its size ("tam", id#), a bare "#", an array with the      *)
(* symbol of its index ("ind", id[v]), or what is written as it is: a      *)
(* number ("cte"), a text ("txt"), a letter or sign ("l", "op").  One of   *)
(* the object is [k, ty, ar, v]: "ref" and "arr" lie in a buffer, "num" is *)
(* a number, the others the same as in the source.                         *)
(***************************************************************************)
EXTENDS Integers, Sequences, FiniteSets, TLC, SequencesExt

CONSTANTS Fuentes     \* the sources, a sequence of sequences of tokens

SinMemo == 255        \* memo: no buffer (0xff)
Largo == 4            \* sizeof(long)

VARIABLES cual,       \* the source compiled
          fase,       \* "getsymbols", "getins", "corre", "forma", "fin"
          tok,        \* the token read next
          instr,      \* the instructions counted
          g,          \* the globals of both passes
          nsym,       \* the open braces: [id, suma], suma its ssiz
          tabla,      \* the symbols by name: [pos, siz, typ, arr, bfn, val]
          generr,     \* errors found
          obj         \* the instructions written: [op, x, a]

compila == <<cual, fase, tok, instr, g, nsym, tabla, generr, obj>>

fuente == Fuentes[cual]
s == fuente[tok]
-----------------------------------------------------------------------------
(* The first pass *)

\* The size a type letter gives; one the switch does not know keeps the last size.
TamDe(ty, siz) ==
    CASE ty \in {"c", "C"} -> 1
      [] ty = "i" -> 2
      [] ty \in {"e", "f"} -> 4
      [] ty \in {"D", "l"} -> Largo
      [] ty = "d" -> 8
      [] ty = "m" -> 0
      [] OTHER -> siz

\* The buffer of a symbol is kept in a char.
Char(n) == IF n > 127 THEN n - 256 ELSE n

\* getmem: a symbol is what the globals are.
Getmem(h, val) == [pos |-> h.pos, siz |-> h.siz, typ |-> h.typ, arr |-> h.arre,
                   bfn |-> Char(h.memo), val |-> val]

\* A name that is there already stays as it was, but for the text that a #d gives it.
AddSym(id, h, val) ==
    IF id \in DOMAIN tabla
    THEN /\ generr' = generr + 1
         /\ tabla' = IF val = <<>> THEN tabla ELSE [tabla EXCEPT ![id].val = val]
    ELSE tabla' = id :> Getmem(h, val) @@ tabla /\ UNCHANGED generr

Avanza == tok' = tok + 1 /\ UNCHANGED <<cual, fase, obj>>

PasaArchivo ==
    /\ fase = "getsymbols" /\ s.t = "f"
    /\ g' = [g EXCEPT !.memo = s.n]
    /\ instr' = instr + 1 /\ Avanza /\ UNCHANGED <<nsym, tabla, generr>>

\* Labels and the names of texts: their position is an instruction number, and their
\* buffer none, until another f.
Letrero ==
    /\ fase = "getsymbols" /\ s.t \in {"[", "#d"}
    /\ LET h == [g EXCEPT !.memo = SinMemo, !.pos = instr,
                          !.typ = IF s.t = "[" THEN "m" ELSE @]
       IN  g' = h /\ AddSym(s.id, h, IF s.t = "#d" THEN <<s.v>> ELSE <<>>)
    /\ Avanza /\ UNCHANGED <<nsym, instr>>

EmpiezaM ==
    /\ fase = "getsymbols" /\ s.t = "M"
    /\ g' = [g EXCEPT !.pos = 0, !.typ = ""]
    /\ Avanza /\ UNCHANGED <<nsym, tabla, instr, generr>>

\* The size goes to the innermost brace.
SumaFuera(pila, n) == IF pila = <<>> THEN pila ELSE [pila EXCEPT ![1].suma = @ + n]
Suma(pila, n) == IF pila = <<>> THEN pila ELSE [pila EXCEPT ![Len(pila)].suma = @ + n]

Dato ==
    /\ fase = "getsymbols" /\ s.t = "dato"
    /\ LET siz == IF s.ty = "s" THEN s.n
                  ELSE TamDe(s.ty, g.siz) * (IF s.n = 0 THEN 1 ELSE s.n)
           h == [g EXCEPT !.siz = siz, !.typ = s.ty, !.arre = s.ty # "s" /\ s.n # 0]
       IN  /\ AddSym(s.id, h, <<>>)
           /\ g' = [h EXCEPT !.pos = @ + siz]
           /\ nsym' = Suma(nsym, siz)
    /\ Avanza /\ UNCHANGED instr

AbreGrupo ==
    /\ fase = "getsymbols" /\ s.t = "{"
    /\ LET h == [g EXCEPT !.siz = 0, !.typ = "{", !.arre = FALSE]
       IN  AddSym(s.id, h, <<>>) /\ g' = h
    /\ nsym' = Append(nsym, [id |-> s.id, suma |-> 0])
    /\ Avanza /\ UNCHANGED instr

\* The symbol of the brace, or the older one of the same name, gets the sum as its size.
CierraGrupo ==
    /\ fase = "getsymbols" /\ s.t = "}"
    /\ LET n == Last(nsym)
       IN  /\ tabla' = [tabla EXCEPT ![n.id].siz = n.suma, ![n.id].typ = "s"]
           /\ nsym' = Suma(Front(nsym), n.suma)
    /\ g' = [g EXCEPT !.siz = 0, !.arre = FALSE]
    /\ Avanza /\ UNCHANGED <<instr, generr>>

CuentaInstruccion ==
    /\ fase = "getsymbols" /\ s.t \in {"m", "ins"}
    /\ instr' = instr + 1
    /\ Avanza /\ UNCHANGED <<g, nsym, tabla, generr>>

Segunda ==
    /\ fase = "getsymbols" /\ s.t = "fin"
    /\ fase' = "getins" /\ tok' = 1
    /\ UNCHANGED <<cual, instr, g, nsym, tabla, generr, obj>>
-----------------------------------------------------------------------------
(* The second pass *)

Literal == {"cte", "txt", "l", "op"}
Num(v) == [k |-> "num", ty |-> "", ar |-> 0, v |-> v]

\* intsym2: what the lookup of operand o leaves in the globals h, and the value it
\* returns; <<>> when it has written the operand itself.
Intsym2(o, h) ==
    IF o.f \in Literal \/ (o.f # "#" /\ o.id \in DOMAIN tabla /\ tabla[o.id].val # <<>>)
    THEN [h |-> IF o.f = "tam" THEN [h EXCEPT !.tamvar = TRUE] ELSE h, val |-> <<>>, err |-> 0]
    ELSE IF o.f = "#" THEN [h |-> [h EXCEPT !.memo = SinMemo], val |-> <<h.siz>>, err |-> 0]
    ELSE LET j == IF o.f = "tam" THEN [h EXCEPT !.tamvar = TRUE] ELSE h
         IN  IF o.id \notin DOMAIN tabla THEN [h |-> j, val |-> <<0>>, err |-> 1]
             ELSE LET y == tabla[o.id]
                  IN  [h |-> [j EXCEPT !.siz = y.siz, !.typ = y.typ,
                                       !.arre = y.arr /\ o.f # "pos",
                                       !.memo = IF o.f = "pos" THEN SinMemo ELSE y.bfn],
                       val |-> <<y.pos>>, err |-> 0]

\* putaval: the operand as written, and the globals after it.
Putaval(o, h) ==
    LET r == Intsym2(o, h)
        j == r.h
    IN  IF r.val = <<>>
        THEN [h |-> j, err |-> 0, o |-> IF o.f \in Literal
                                     THEN [k |-> o.f, ty |-> "", ar |-> 0, v |-> o.v]
                                     ELSE [k |-> "txt", ty |-> "", ar |-> 0, v |-> tabla[o.id].val[1]]]
        ELSE IF j.arre
        THEN [h |-> [j EXCEPT !.arre = FALSE], err |-> r.err,
              o |-> [k |-> "arr", ty |-> IF j.typ = "C" THEN "s" ELSE j.typ, ar |-> j.memo, v |-> Num(0)]]
        ELSE IF j.tamvar
        THEN [h |-> [j EXCEPT !.tamvar = FALSE], err |-> r.err, o |-> Num(j.siz)]
        ELSE IF j.typ # "m" /\ j.memo # SinMemo
        THEN [h |-> j, err |-> r.err, o |-> [k |-> "ref", ty |-> j.typ, ar |-> j.memo, v |-> r.val[1]]]
        ELSE [h |-> j, err |-> r.err, o |-> Num(r.val[1])]

\* An operand after the others of acc, the index of an array after the array.
Siguiente(acc, o) ==
    LET p == Putaval(o, acc.h)
        q == IF o.f = "ind" THEN Putaval(o.v, p.h) ELSE p
    IN  [h |-> q.h, err |-> acc.err + p.err + (IF o.f = "ind" THEN q.err ELSE 0),
         a |-> Append(acc.a, IF o.f = "ind" /\ p.o.k = "arr" THEN [p.o EXCEPT !.v = q.o] ELSE p.o)]
Ninguno(h) == [h |-> h, err |-> 0, a |-> <<>>]

\* extsym3: the operands of an instruction from left to right.
Extsym3(a, h) == FoldLeft(Siguiente, Ninguno(h), a)

\* extsym4: one operand, as far as its comma.
Extsym4(o, acc) == Siguiente(acc, o)

Pone(e) ==
    /\ g' = e.h /\ generr' = generr + e.err
    /\ obj' = Append(obj, [op |-> s.op, x |-> s.x, a |-> e.a])
    /\ tok' = tok + 1 /\ UNCHANGED <<cual, fase, instr, nsym, tabla>>

DeArchivo == {"FO", "FG", "Fk", "F!", "Fr", "Fw", "FW", "Fc", "FT", "FE", "FS", "FL"}

EscribeInstruccion ==
    /\ fase = "getins" /\ s.t = "ins" /\ s.op \notin DeArchivo \cup {"!", "!v"}
    /\ Pone(Extsym3(s.a, g))

\* The instructions F have one operand after the other, some of them up to a label or a
\* text that is written as it is.
EscribeDeArchivo ==
    /\ fase = "getins" /\ s.t = "ins" /\ s.op \in DeArchivo
    /\ Pone(IF s.op \in {"Fk", "FS", "FL"} THEN Extsym3(s.a, g)
            ELSE FoldLeft(LAMBDA acc, o : Extsym4(o, acc), Ninguno(g), s.a))

\* A comparison: before the length of a pair of texts, its third operand, no buffer.
Empiezan == {c.n : c \in {c \in ToSet(s.x.pares) : c.c = "cmp"}}
EsLargo(n) == n - 2 \in Empiezan /\ n \notin Empiezan
Pares(a, h) ==
    FoldLeft(LAMBDA acc, n : Siguiente(IF EsLargo(n) THEN [acc EXCEPT !.h.memo = SinMemo] ELSE acc, a[n]),
             Ninguno(h), [n \in DOMAIN a |-> n])
EscribeComparacion ==
    /\ fase = "getins" /\ s.t = "ins" /\ s.op \in {"!", "!v"}
    /\ Pone(Pares(s.a, g))

EscribeMemoria ==
    /\ fase = "getins" /\ s.t \in {"f", "m"}
    /\ obj' = Append(obj, [op |-> s.t, x |-> "", a |-> <<Num(s.n)>>])
    /\ tok' = tok + 1 /\ UNCHANGED <<cual, fase, instr, g, nsym, tabla, generr>>

\* What the first pass has dealt with (tomins).
Salta ==
    /\ fase = "getins" /\ s.t \notin {"f", "m", "ins", "fin"}
    /\ tok' = tok + 1 /\ UNCHANGED <<cual, fase, instr, g, nsym, tabla, generr, obj>>

SinNada == [pos |-> 0, siz |-> 0, memo |-> 0, typ |-> "", arre |-> FALSE, tamvar |-> FALSE]

InitMemoria ==
    /\ cual \in DOMAIN Fuentes /\ fase = "getsymbols" /\ tok = 1 /\ instr = 0
    /\ g = SinNada /\ nsym = <<>> /\ tabla = <<>> /\ generr = 0 /\ obj = <<>>

NextMemoria ==
    \/ PasaArchivo \/ Letrero \/ EmpiezaM \/ Dato \/ AbreGrupo \/ CierraGrupo
    \/ CuentaInstruccion \/ Segunda \/ EscribeInstruccion \/ EscribeDeArchivo \/ EscribeComparacion
    \/ EscribeMemoria \/ Salta
-----------------------------------------------------------------------------
(* Properties *)

\* What a program says of its data, token by token, whatever the passes do with it.
Declara(k) == fuente[k].t \in {"dato", "{"}
AntesDe(k, x) == {j \in 1..k - 1 : fuente[j].t = x}
Mayor(S) == CHOOSE x \in S : \A y \in S : y <= x
Bytes(k) == IF fuente[k].ty = "s" THEN fuente[k].n
            ELSE TamDe(fuente[k].ty, 0) * (IF fuente[k].n = 0 THEN 1 ELSE fuente[k].n)
SumaBytes(S) == FoldLeft(LAMBDA x, k : x + Bytes(k), 0, SetToSeq(S))
Datos(a, b) == {j \in a..b : fuente[j].t = "dato"}

\* The brace that closes the one at k.
Cierre(k) ==
    LET Abiertas(j) == Cardinality({x \in k..j : fuente[x].t = "{"})
                       - Cardinality({x \in k..j : fuente[x].t = "}"})
    IN  CHOOSE j \in k..Len(fuente) : Abiertas(j) = 0 /\ \A x \in k..j - 1 : Abiertas(x) > 0

\* The bytes declared at k: after all those of its M before it, in the buffer of the f
\* before that M.
Lugar(k) == [ar |-> fuente[Mayor(AntesDe(k, "f"))].n,
             p |-> SumaBytes(Datos(Mayor(AntesDe(k, "M")), k - 1)),
             n |-> IF fuente[k].t = "dato" THEN Bytes(k) ELSE SumaBytes(Datos(k, Cierre(k))),
             ty |-> IF fuente[k].t = "{" THEN "s" ELSE fuente[k].ty]
Declarado(id) == {k \in DOMAIN fuente : Declara(k) /\ fuente[k].id = id}
LugarDe(id) == Lugar(CHOOSE k \in Declarado(id) : \A j \in Declarado(id) : k <= j)

\* The symbols looked up for operands a, in their order: an index after its array.
Busca1(w) == IF w.f \in Literal THEN <<>>
             ELSE IF w.f = "ind" /\ w.v.f \notin Literal THEN <<w, w.v>> ELSE <<w>>
Buscados(a) == FoldLeft(LAMBDA acc, w : acc \o Busca1(w), <<>>, a)

\* Those of the source up to the token being read.
Consultas == FoldLeft(LAMBDA acc, k : acc \o IF fuente[k].t = "ins" THEN Buscados(fuente[k].a) ELSE <<>>,
                   <<>>, [k \in 1..tok |-> k])

\* A name may be that of a text: the last #d with it.
TextosDe(id) == {k \in DOMAIN fuente : fuente[k].t = "#d" /\ fuente[k].id = id}
EsDeTexto(w) == w.f # "#" /\ TextosDe(w.id) # {}
EsArreglo(w) == /\ w.f \notin {"#", "pos"} /\ Declarado(w.id) # {} /\ TextosDe(w.id) = {}
                /\ LET k == CHOOSE k \in Declarado(w.id) : \A j \in Declarado(w.id) : k <= j
                   IN  fuente[k].t = "dato" /\ fuente[k].ty # "s" /\ fuente[k].n # 0

\* The symbol a bare # speaks of: the one looked up before it, in whichever instruction.
Anterior(R, k) == R[Mayor({j \in 1..k - 1 : R[j].f # "#" /\ ~EsDeTexto(R[j]) /\ Declarado(R[j].id) # {}})].id

\* A size asked of an array, or of a text, is not written there: the next operand that is
\* neither is.
Pendiente(R, k) ==
    LET Toma(j) == ~EsDeTexto(R[j]) /\ ~EsArreglo(R[j])
    IN  \E j \in 1..k - 1 : R[j].f = "tam" /\ ~Toma(j) /\ \A i \in j + 1..k - 1 : ~Toma(i)

\* The instruction of the source the x-th of the object was written for.
Instrucciones == {"f", "m", "ins"}
FuenteDe(x) ==
    fuente[CHOOSE k \in DOMAIN fuente :
              /\ fuente[k].t \in Instrucciones
              /\ Cardinality({j \in 1..k : fuente[j].t \in Instrucciones}) = x]

\* Lookup k of R, written as w.
Conduce(R, k, w) ==
    LET y == R[k]
        l == LugarDe(y.id)
    IN  IF EsDeTexto(y) THEN w.k = "txt" /\ w.v = fuente[Mayor(TextosDe(y.id))].v
        ELSE IF y.f = "#" THEN w = Num(LugarDe(Anterior(R, k)).n)
        ELSE IF Declarado(y.id) = {} THEN TRUE
        ELSE IF EsArreglo(y) THEN w.k = "arr" /\ w.ar = l.ar
        ELSE IF y.f = "tam" \/ Pendiente(R, k) THEN w = Num(l.n)
        ELSE IF y.f = "pos" THEN w = Num(l.p)
        ELSE w = [k |-> "ref", ty |-> l.ty, ar |-> l.ar, v |-> l.p]

\* What was written for them, in the order of Buscados.
Escritos(a, w) ==
    FoldLeft(LAMBDA acc, n : acc \o IF Len(Busca1(a[n])) = 2 THEN <<w[n], w[n].v>>
                                   ELSE SubSeq(<<w[n]>>, 1, Len(Busca1(a[n]))),
             <<>>, [n \in DOMAIN a |-> n])

\* Every operand written leads to the bytes its symbol was declared with, however many
\* buffers, braces, arrays and labels come between: the position is the sum of what
\* precedes it, the buffer that of its f, a # the size of the symbol looked up before it,
\* though that be the index of an array.  A size asked of an array is written for the next
\* operand that is none, of another instruction perhaps (vp3.c:444, 463, 468, 528, 622, 712).
ReferenciaFiel ==
    [][s.t = "ins" /\ obj' # obj =>
          LET E == Escritos(s.a, Last(obj').a)
          IN  \A n \in DOMAIN E : Conduce(Consultas, Len(Consultas) - Len(E) + n, E[n])]_obj
=============================================================================

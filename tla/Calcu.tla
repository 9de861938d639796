--------------------------------- MODULE Calcu ---------------------------------
(***************************************************************************)
(* The calculator that a program calls up with ttl (calcu.c): an adding    *)
(* machine that applies, at each sign, the sign before it to its total and *)
(* the number typed since.  The program waits until it is closed.          *)
(*                                                                         *)
(* Numbers are doubles in the code: here the point, and quotients that are *)
(* no integers, are left out, and no more than MaxTeclas keys are typed.   *)
(* Windows and what they show are left out.  The number typed is an array  *)
(* of the stack that nothing clears before the first sign or C: Basuras is *)
(* what may lie there.                                                     *)
(***************************************************************************)
EXTENDS Datos

CONSTANTS Teclas,     \* the keys pressed
          MaxTeclas,
          Basuras     \* sequences of MaxTeclas digits or nulls

VARIABLE calc         \* [val1, valtec, ncar, lastop, teclas, basura]; the keys typed and
                      \* what the array held are kept to state the property

Nulo == ""
Cifra == [c \in {"0", "1", "2", "3", "4", "5", "6", "7", "8", "9"} |->
            CHOOSE n \in 0..9 : ToString(n) = c]
Signos == {"+", "-", "*", "/"}
Limpia == [k \in 1..MaxTeclas |-> Nulo]
Apagada == [val1 |-> 0, valtec |-> Limpia, ncar |-> 0, lastop |-> "+",
            teclas |-> <<>>, basura |-> Limpia]

\* atof: the digits up to the first null.
Atof(cs) ==
    LET n == SelectInSeq(cs, LAMBDA c : c = Nulo)
    IN  FoldLeft(LAMBDA v, c : 10 * v + Cifra[c], 0, IF n = 0 THEN cs ELSE SubSeq(cs, 1, n - 1))

Calculado(y, z, oper) ==
    CASE oper = "+" -> y + z
      [] oper = "-" -> y - z
      [] oper = "*" -> y * z
      [] oper = "/" -> y \div z
Exacto(y, z, oper) == oper = "/" => z > 0 /\ y % z = 0

LlamaCalcu ==
    /\ fase = "corre" /\ pc <= Len(obj) /\ op = "ttl"
    /\ fase' = "calcu"
    /\ \E b \in Basuras : calc' = [Apagada EXCEPT !.valtec = b, !.basura = b]
    /\ UNCHANGED <<cual, tok, instr, g, nsym, tabla, generr, obj, corre>>

Pulsa(t) == /\ fase = "calcu" /\ t \in Teclas /\ Len(calc.teclas) < MaxTeclas
            /\ UNCHANGED <<compila, corre>>

\* A digit goes where the next is due, over what lay there.
TecleaCifra ==
    \E t \in DOMAIN Cifra :
        /\ Pulsa(t)
        /\ calc' = [calc EXCEPT !.valtec[calc.ncar + 1] = t, !.ncar = @ + 1,
                                !.teclas = Append(@, t)]

BorraCifra ==
    /\ Pulsa("D")
    /\ calc' = [calc EXCEPT !.valtec = IF calc.ncar > 0 THEN [@ EXCEPT ![calc.ncar] = Nulo] ELSE @,
                            !.ncar = IF @ > 0 THEN @ - 1 ELSE 0,
                            !.teclas = Append(@, "D")]

LimpiaTodo ==
    /\ Pulsa("C")
    /\ calc' = [Apagada EXCEPT !.teclas = Append(calc.teclas, "C")]

\* A sign, or =, after which the machine adds.
IgualQueda(t) == IF t = "=" THEN calc.lastop ELSE t
SignoSiguiente(t) == IF t = "=" THEN "+" ELSE t
TecleaSigno ==
    \E t \in Signos \cup {"="} :
        /\ Pulsa(t) /\ Exacto(calc.val1, Atof(calc.valtec), calc.lastop)
        /\ calc' = [calc EXCEPT !.val1 = Calculado(@, Atof(calc.valtec), calc.lastop),
                                !.lastop = SignoSiguiente(t), !.valtec = Limpia, !.ncar = 0,
                                !.teclas = Append(@, t)]

CierraCalcu ==
    /\ fase = "calcu"
    /\ fase' = "corre" /\ pc' = pc + 1 /\ calc' = Apagada
    /\ UNCHANGED <<cual, tok, instr, g, nsym, tabla, generr, obj, aa, mem, tam, reloj>>

InitCalcu == calc = Apagada
NextCalcu == LlamaCalcu \/ TecleaCifra \/ BorraCifra \/ LimpiaTodo \/ TecleaSigno \/ CierraCalcu
-----------------------------------------------------------------------------
(* Properties *)

\* The account that was typed since the last C: numbers, without the digits taken back,
\* each with the sign before it; = closes an account and what follows is added to it.
Vigentes == LET n == SelectLastInSeq(calc.teclas, LAMBDA t : t = "C")
            IN  SubSeq(calc.teclas, n + 1, Len(calc.teclas))
Renglones(ts) ==
    FoldLeft(LAMBDA e, t :
                 CASE t \in DOMAIN Cifra -> [e EXCEPT !.n = Append(@, t)]
                   [] t = "D" -> [e EXCEPT !.n = IF @ = <<>> THEN @ ELSE Front(@)]
                   [] OTHER -> [r |-> Append(e.r, <<e.s, Atof(e.n)>>), n |-> <<>>,
                                s |-> IF t = "=" THEN "+" ELSE t],
             [r |-> <<>>, n |-> <<>>, s |-> "+"], ts)
Cuenta(ts) == FoldLeft(LAMBDA v, r : Calculado(v, r[2], r[1]), 0, Renglones(ts).r)

\* The total is that of the account typed, and the number being typed is the one whose
\* digits were typed and not taken back, once something has cleared the array where
\* they are put (calcu.c:90, 106, 125): before that the first number may have any digits
\* after it.
Aclarada == \E k \in DOMAIN calc.teclas : calc.teclas[k] \in Signos \cup {"=", "C"}
BasuraSumada == calc.basura # Limpia /\ ~\E k \in DOMAIN calc.teclas : calc.teclas[k] = "C"
CuentaFiel ==
    fase = "calcu" =>
        /\ ~BasuraSumada => calc.val1 = Cuenta(Vigentes)
        /\ Aclarada => Atof(calc.valtec) = Atof(Renglones(Vigentes).n)
=============================================================================

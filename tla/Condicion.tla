------------------------------- MODULE Condicion -------------------------------
(***************************************************************************)
(* The comparison ! of a VPG program: values of the memory, or texts,      *)
(* compared two by two and joined by signs; the program goes on at a label *)
(* when the whole is true.  The interpreter for MySQL has cmp3.c, where a  *)
(* sign comes after the pairs it joins (!); that for VSAM has cmp2.c,      *)
(* where it comes between them (!v).                                       *)
(*                                                                         *)
(* A comparison's letters x say [c |-> "cmp", cm, n] for the pair of the   *)
(* operands n and n + 1, cm being the digit written between them, and      *)
(* "&" or "|" for the signs; ir is the instruction to go on at and arbol   *)
(* what the program means, to state the property with.                     *)
(***************************************************************************)
EXTENDS Datos

Menor(a, b) == IF a < b THEN a ELSE b
Primeros(bs, n) == SubSeq(bs, 1, Menor(n, Len(bs)))
Desde(bs, k) == SubSeq(bs, k + 1, Len(bs))

\* strncmp: -1, 0 or 1.
Strncmp(a, b, n) ==
    LET p == Primeros(a, n)
        q == Primeros(b, n)
        d == {k \in 1..Menor(Len(p), Len(q)) : p[k] # q[k]}
    IN  IF d = {} THEN (IF Len(p) = Len(q) THEN 0 ELSE IF Len(p) < Len(q) THEN -1 ELSE 1)
        ELSE LET k == CHOOSE k \in d : \A j \in d : k <= j
             IN  IF p[k] < q[k] THEN -1 ELSE 1

\* instr: whether text b comes up in a, from one of its first n - Len(b) characters on.
Instr(a, b, n) ==
    \E k \in 0..Len(a) : /\ Primeros(Desde(a, k), Len(b)) = b
                         /\ n - Len(b) > 0 => k < n - Len(b)

Cumple(cm, signo) ==
    CASE signo = 0 -> cm \in {0, 3, 4}
      [] signo > 0 -> cm \in {1, 3, 5}
      [] OTHER -> cm \in {2, 4, 5}

\* The text of an operand.  A constant is not ended by a null: what follows it in the
\* program is part of it.
Texto2(w) == IF w.k = "txt" THEN w.v ELSE Cadena(Getad(w))

ComoNumero == {"i", "l", "D", "c"}

\* A pair: al stands for the sign found with a value that no case of the code sets.
ComparaNumeros(cm, w1, w2, al) ==
    Cumple(cm, IF w1.ty \notin ComoNumero \/ (w2.k \in {"ref", "arr"} /\ w2.ty \notin ComoNumero \ {"D"})
               THEN al
               ELSE LeeNum(w1) - (IF w2.k \in {"num", "cte"} THEN w2.v ELSE LeeNum(w2)))

ComparaTextos(cm, w1, w2, w3) ==
    LET s1 == Texto2(w1)
        s2 == Texto2(w2)
        f == IF EsL(w3) THEN Len(s2) ELSE Valu(w3)
    IN  IF cm = 6 THEN Instr(s2, s1, f) ELSE Cumple(cm, Strncmp(s1, s2, f))

Cmp2(c, al) ==
    IF o(c.n).ty = "s" THEN ComparaTextos(c.cm, o(c.n), o(c.n + 1), o(c.n + 2))
    ELSE ComparaNumeros(c.cm, o(c.n), o(c.n + 1), al)

\* cmp: the results of the pairs on a stack, from which a sign takes two.
SoloElPrimero(y, z, signo) == IF signo = "&" THEN y /\ z ELSE y
Junta(y, z, signo) == IF signo = "&" THEN y /\ z ELSE y \/ z
Cmp(al) ==
    FoldLeft(LAMBDA res, c :
                 IF c.c = "cmp" THEN Append(res, Cmp2(c, al))
                 ELSE Append(Front(Front(res)), Junta(Last(Front(res)), Last(res), c.c)),
             <<>>, x.pares)[1]

\* cmp of cmp2.c: from left to right, each sign with the pair that follows it.
CmpSeguido(al) ==
    LET p(k) == x.pares[2 * k + 1]
    IN  FoldLeft(LAMBDA res, k : Junta(res, Cmp2(p(k), al), x.pares[2 * k].c),
                 Cmp2(p(0), al), [k \in 1..Len(x.pares) \div 2 |-> k])

Comparaciones == {"!", "!v"}
Compara ==
    /\ fase = "corre" /\ pc <= Len(obj) /\ op \in Comparaciones
    /\ \E al \in {-1, 0, 1} :
           pc' = IF (IF op = "!" THEN Cmp(al) ELSE CmpSeguido(al)) THEN x.ir ELSE pc + 1
    /\ UNCHANGED compila
    /\ UNCHANGED <<aa, mem, tam, reloj>>
-----------------------------------------------------------------------------
(* Properties *)

\* The characters compared: l is as many as the second text has.
Cuantos(c) == IF o(c.n + 2).k = "l" THEN Len(Texto2(o(c.n + 1))) ELSE Valu(o(c.n + 2))

\* What a pair means.  "6" is "comes up in", but at the last place where there is room for
\* it, which the code does not look at (instr); without any room it is either.
Sabido(c) == /\ o(c.n).ty = "s" \/ (o(c.n).ty \in ComoNumero /\ o(c.n + 1).ty \in {"", "i", "l", "c"})
             /\ o(c.n).ty = "s" => ~(o(c.n + 2).k = "ref" /\ o(c.n + 2).ty = "l")
             /\ c.cm = 6 => Cuantos(c) > Len(Texto2(o(c.n)))
Significa(c) ==
    LET w1 == o(c.n)
        w2 == o(c.n + 1)
    IN  IF w1.ty # "s"
        THEN LET d == LeeNum(w1) - (IF w2.k = "cte" THEN w2.v ELSE LeeNum(w2))
             IN  <<d = 0, d > 0, d < 0, d >= 0, d <= 0, d # 0>>[c.cm + 1]
        ELSE LET n == Cuantos(c)
                 a == Texto2(w1)
                 b == Texto2(w2)
                 igual == Primeros(a, n) = Primeros(b, n)
             IN  CASE c.cm = 0 -> igual
                   [] c.cm = 5 -> ~igual
                   [] c.cm = 6 -> \E k \in 0..n - Len(a) - 1 : Primeros(Desde(b, k), Len(a)) = a
                   [] OTHER -> LET s1 == Strncmp(a, b, n) IN Cumple(c.cm, s1)

RECURSIVE Verdad(_)
Verdad(t) == CASE t.c = "cmp" -> Significa(t)
               [] t.c = "&" -> Verdad(t.y) /\ Verdad(t.z)
               [] t.c = "|" -> Verdad(t.y) \/ Verdad(t.z)

\* A comparison goes on at its label exactly when what the program wrote is true, however
\* many pairs it joins and in whatever order the signs take them (cmp3.c:15, 31, 88;
\* cmp2.c:9).
ComparaFiel ==
    [][fase = "corre" /\ pc <= Len(obj) /\ op \in Comparaciones
       /\ (\A j \in DOMAIN x.pares : x.pares[j].c = "cmp" => Sabido(x.pares[j])) =>
              pc' = IF Verdad(x.arbol) THEN x.ir ELSE pc + 1]_pc
=============================================================================

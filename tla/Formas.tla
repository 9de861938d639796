-------------------------------- MODULE Formas --------------------------------
(***************************************************************************)
(* Forms (vform.c): the instruction qf shows variables of the program in   *)
(* the fields of a form, lets the user go about them, and stores what they *)
(* hold when the user ends with ENTER; ESC leaves without storing.         *)
(*                                                                         *)
(* The fields themselves are the form library's: a key edits the field the *)
(* cursor is in or moves the cursor, and a field gives its text back with  *)
(* blanks up to its width.  Tecleos says what a user may make of a field   *)
(* of each type.  Labels, colours and the options that only tell the       *)
(* library what it accepts are left out.  The operands of q are pairs: a   *)
(* variable and the width of its field.                                    *)
(***************************************************************************)
EXTENDS Datos

CONSTANTS Tecleos     \* Tecleos[ty]: texts a user may leave in a field

VARIABLES forma,      \* the fields: [w, xx, s]: the operand, the width, the text
          en,         \* the field the cursor is in
          retu,       \* what qf returned: 0, or -1 after ESC
          antes       \* the memory when the form was shown (kept to state properties)

pantalla == <<forma, en, retu, antes>>

-----------------------------------------------------------------------------
\* The width of field k: a string keeps a byte for its null; none is as long as the text.
Ancho(k) ==
    LET n == Valu(o(2 * k))
        xx == IF o(2 * k - 1).ty = "s" THEN n - 1 ELSE n
    IN  IF xx = 0 THEN Len(Cadena(Getad(o(2 * k - 1)))) ELSE xx

\* A date that is zero is set to the time of now, in the variable.
Vacias == {k \in 1..Len(obj[pc].a) \div 2 :
             o(2 * k - 1).ty = "D" /\ Long(Getad(o(2 * k - 1))) = 0}

\* The text of a field, of the memory m.
Muestra(m, k) ==
    LET w == o(2 * k - 1)
        d == Getad(w)
    IN  CASE w.ty = "s" -> CadenaEn(m, d)
          [] w.ty \in {"i", "l"} -> Formato(Entero(LeerEn(m, d, TamTipo(w.ty))), Ancho(k))
          [] w.ty = "D" -> EnCampo(Entero(LeerEn(m, d, Largo)), reloj.usf)

AbreForma ==
    /\ fase = "corre" /\ pc <= Len(obj) /\ op = "qf"
    /\ \E h \in Horas :
          mem' = FoldLeft(LAMBDA m, k : Puesto(m, Getad(o(2 * k - 1)), EnBytes(h, Largo)),
                          mem, SetToSeq(Vacias))
    /\ forma' = [k \in 1..Len(obj[pc].a) \div 2 |->
                   [w |-> o(2 * k - 1), xx |-> Ancho(k), s |-> Cortar(Muestra(mem', k), Ancho(k))]]
    /\ en' = 1 /\ retu' = 0 /\ antes' = mem /\ fase' = "forma"
    /\ UNCHANGED <<cual, tok, instr, g, nsym, tabla, generr, obj, pc, aa, tam, reloj>>

Teclea ==
    /\ fase = "forma"
    /\ \E t \in Tecleos[forma[en].w.ty] :
          forma' = [forma EXCEPT ![en].s = Cortar(t, forma[en].xx)]
    /\ UNCHANGED <<en, retu, antes, compila, corre>>

OtroCampo ==
    /\ fase = "forma"
    /\ en' = IF en = Len(forma) THEN 1 ELSE en + 1
    /\ UNCHANGED <<forma, retu, antes, compila, corre>>

\* What ENTER stores of field k over memory m.
SinBlancos(bs) ==
    LET n == CHOOSE n \in 0..Len(bs) :
                 /\ \A j \in n + 1..Len(bs) : bs[j] \in {0, Blanco}
                 /\ n = 0 \/ bs[n] \notin {0, Blanco}
    IN  [j \in DOMAIN bs |-> IF j > n THEN 0 ELSE bs[j]]

TiempoFijo(s1) == Totsec(s1, TRUE)
Tiempo(s1) == Totsec(s1, reloj.usf)

Guarda(m, k) ==
    LET c == forma[k]
        d == Getad(c.w)
    IN  CASE c.w.ty = "s" -> Puesto(m, d, SinBlancos(c.s))
          [] c.w.ty = "l" -> Puesto(m, d, EnBytes(AtoiB(c.s), Largo))
          [] c.w.ty = "i" -> Puesto(m, d, EnBytes(AtoiB(c.s), 4))
          [] c.w.ty = "D" -> Puesto(m, d, EnBytes(Tiempo(c.s), Largo))

Deja == /\ fase' = "corre" /\ pc' = pc + 1
        /\ UNCHANGED <<cual, tok, instr, g, nsym, tabla, generr, obj, forma, en, antes, aa, tam, reloj>>

\* The fields are stored in their order.
Acepta ==
    /\ fase = "forma"
    /\ mem' = FoldLeft(Guarda, mem, [k \in DOMAIN forma |-> k])
    /\ UNCHANGED retu /\ Deja

Escapa ==
    /\ fase = "forma"
    /\ retu' = -1
    /\ UNCHANGED mem /\ Deja
-----------------------------------------------------------------------------
InitForma == forma = <<>> /\ en = 0 /\ retu = 0 /\ antes = mem
NextForma == AbreForma \/ Teclea \/ OtroCampo \/ Acepta \/ Escapa
-----------------------------------------------------------------------------
(* Properties *)

\* What a form stores is what its fields showed.  ENTER leaves every variable as the
\* user left its field: the texts with nulls for the blanks at their end, the numbers,
\* and the dates, which shown again are the same, or east of Greenwich the day after.  ESC
\* leaves the memory as it was when the form came up, but for the dates that were zero.  A
\* short stored later into the two bytes before a variable is what may undo it
\* (vform.c:158, 208, 235).
Pisado(k) == \E j \in k + 1..Len(forma) :
                 /\ forma[j].w.ty = "i"
                 /\ forma[j].w.ar = forma[k].w.ar
                 /\ Getad(forma[k].w).p \in Getad(forma[j].w).p + 1..Getad(forma[j].w).p + 3
Guardado(m, k) ==
    LET c == forma[k]
        d == Getad(c.w)
        v == Entero(LeerEn(m, d, TamTipo(c.w.ty)))
    IN  CASE c.w.ty = "s" -> \A j \in 1..c.xx :
                              m[d.f][d.p + j - 1] \in {c.s[j]} \cup (IF c.s[j] = Blanco THEN {0} ELSE {})
          [] c.w.ty \in {"i", "l"} -> v = AtoiB(c.s)
          [] c.w.ty = "D" -> v = -1 \/ \E dia \in {DiaTecleado(v)} : EnCampo(dia, reloj.usf) = c.s
FormaFiel ==
    [][fase = "forma" /\ fase' = "corre" =>
          IF retu' = 0 THEN \A k \in DOMAIN forma : Guardado(mem', k) \/ Pisado(k)
          ELSE
             \A b \in Buffers, p \in 0..Tope - 1 :
                mem'[b][p] # antes[b][p] =>
                   \E k \in DOMAIN forma : /\ forma[k].w.ty = "D"
                                          /\ b = forma[k].w.ar
                                          /\ p \in forma[k].w.v..forma[k].w.v + 3]_<<compila, corre, pantalla>>
=============================================================================

------------------------------ MODULE Entrada ------------------------------
(***************************************************************************)
(* The line editor of an input field (takein, inpq.c).                     *)
(*                                                                         *)
(* A field in edition is [s, i, n, num]: what is written of takein's own   *)
(* array, the cursor (0 to the length of s), the length of the field, and  *)
(* whether it takes numbers only.  s is the n characters of the field and  *)
(* whatever was written past them.  A character is one of a class: a       *)
(* digit, a small or a capital letter, an accented one (128 to 255), a     *)
(* blank, or the null that ends a string (ts0).  The buffer of the field's *)
(* variable changes only when the edition ends with ENTER or KEY_DOWN.     *)
(***************************************************************************)
EXTENDS Integers, Sequences

CONSTANT MaxCar    \* MAXCAR, the places of takein's array (256)

ASSUME ConstantesEntrada == MaxCar \in Nat

Digito == "1"
Minus  == "a"
Mayus  == "A"
Acento == "~"
Blanco == " "
Nulo   == "0"

Letras == {Digito, Minus, Mayus, Acento, Blanco}
Mandos == {"izq", "der", "ini", "fin", "atras", "ins", "sup", "del", "ctrlx"}
Acaban == {"enter", "abajo"}
Dejan  == {"esc", "arriba"}

\* takein copies the buffer and blanks what follows its first null.
Abre(buf, n, num) ==
    LET vivo(k) == \A j \in 1..k : buf[j] # Nulo
    IN [s |-> [k \in 1..n |-> IF vivo(k) THEN buf[k] ELSE Blanco], i |-> 0, n |-> n, num |-> num]

\* A character over the cursor: not past the end of the field, and not if the field is for
\* numbers (numin: digits, the point, the minus and the blank).  An accented character is
\* not a code of ASCII, is no key of curses, and jumps over the test of the end (accented).
\* MaxCar bounds it here, where what the code would write past its array is undefined.
Toma(e, c) ==
    /\ e.i < IF c = Acento THEN MaxCar ELSE e.n
    /\ e.num => c \in {Digito, Blanco}

Guardado(c, caps) == IF caps /\ c = Minus THEN Mayus ELSE c

Puesto(s, j, c) == IF j <= Len(s) THEN [s EXCEPT ![j] = c] ELSE Append(s, c)

Escribe(e, c, caps) ==
    IF Toma(e, c) THEN [e EXCEPT !.s = Puesto(@, e.i + 1, Guardado(c, caps)), !.i = @ + 1] ELSE e

\* With ts4 the field ends by itself when it is full.
Llenado(e, c, reb) == reb /\ Toma(e, c) /\ e.i + 1 = e.n

\* KEY_END goes after the last character that is not a blank, of the field or past it.
\* (In a blank field the code goes on before the array, to the first byte that is not one.)
UltimoLleno(s) == CHOOSE k \in 0..Len(s) :
    /\ k = 0 \/ s[k] # Blanco
    /\ \A j \in k+1..Len(s) : s[j] = Blanco

Atras(e) == IF e.i > 0 THEN [e EXCEPT !.s[e.i] = Blanco, !.i = @ - 1] ELSE e

\* A place is put before place i or taken out of it, within the n of the field.
Corrido(s, i, n) ==
    [k \in DOMAIN s |-> CASE k = i + 1       -> Blanco
                          [] k \in i+2..n     -> s[k - 1]
                          [] OTHER            -> s[k]]
Recogido(s, i, n) ==
    [k \in DOMAIN s |-> CASE k \in i+1..n-1   -> s[k + 1]
                          [] k = n            -> Blanco
                          [] OTHER            -> s[k]]

\* The keys of function.
MandoFuncion(e, m) ==
    CASE m = "izq"   -> [e EXCEPT !.i = IF @ > 0 THEN @ - 1 ELSE @]
      [] m = "der"   -> [e EXCEPT !.i = IF @ < e.n THEN @ + 1 ELSE @]
      [] m = "ini"   -> [e EXCEPT !.i = 0]
      [] m = "fin"   -> [e EXCEPT !.i = UltimoLleno(e.s)]
      [] m = "atras" -> Atras(e)
      [] m = "ins"   -> [e EXCEPT !.s = IF e.i < e.n THEN Corrido(@, e.i, e.n) ELSE @]
      [] m = "sup"   -> [e EXCEPT !.s = IF e.i < e.n THEN Recogido(@, e.i, e.n) ELSE @]

\* The control characters: DEL, and ctrl-X that clears the field and not what is past it.
Controles == {"del", "ctrlx"}
MandoControl(e, m) ==
    IF m = "del" THEN Atras(e)
    ELSE [e EXCEPT !.s = [k \in DOMAIN @ |-> IF k <= e.n THEN Blanco ELSE @[k]], !.i = 0]

Mando(e, m) == IF m \in Controles THEN MandoControl(e, m) ELSE MandoFuncion(e, m)

\* What the buffer gets, the n characters of the field: with ts0 the blanks at the end are
\* nulls.
Entregado(e, tin) ==
    [k \in 1..e.n |-> IF ~tin /\ \A j \in k..e.n : e.s[j] = Blanco THEN Nulo ELSE e.s[k]]
=============================================================================

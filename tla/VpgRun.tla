------------------------------- MODULE VpgRun -------------------------------
(***************************************************************************)
(* The VPG interpreter (vpg4s.c): the loop over the instructions of an     *)
(* object, its stacks, the keys that divert it, Control-C, windows and     *)
(* paginated reports, and the call of another program (e).                 *)
(*                                                                         *)
(* An instruction number is kept as [n, de]: de is the program that gave   *)
(* it, which the interpreter does not know; the number 0 means none.  What *)
(* an instruction does to data, files of records and the look of the       *)
(* screen is left out: the values of a test, of a search in a file or of a *)
(* read are any.                                                           *)
(***************************************************************************)
EXTENDS VpCompile, Entrada

CONSTANTS Primero,     \* the program given to vpg
          Teclas,      \* the keys of the user that are not of the editor
          Altas,       \* the keys whose code is 256 or more, all of curses' own
          Ventanas,    \* the windows, 0 is the screen
          Alto,        \* the rows of the screen
          MaxNivo,     \* calls at a time, a bound (sur has 256)
          MaxKivo,     \* function keys at a time, a bound (surk has 256)
          MaxPag       \* pages of a report, a bound

ASSUME ConstantesVpg ==
    /\ Altas \subseteq Teclas
    /\ Teclas \cap (Letras \cup Mandos \cup Acaban \cup Dejan) = {}
    /\ 0 \in Ventanas /\ Alto \in Nat \ {0}
    /\ MaxNivo \in Nat /\ MaxKivo \in Nat /\ MaxPag \in Nat

Canales == 0..9

\* What runs of a source as the manual has it: its jumps have targets, a program and a
\* channel that it names are there, a field fits in takein's array, and after a call on a comparison
\* there are two instructions, for it comes back past the first.
ConMeta == {"g", "G", "!", "!<", "FG", "Fr", "F!", "r", "n", "N", "h", "K", "<", "t0", "tb"}
Completa(fuentes, f) ==
    \A k \in DOMAIN f :
        /\ f[k].op \in ConMeta => Len(f[k].d) >= 1
        /\ f[k].op = "FP" => Len(f[k].d) >= 2
        /\ f[k].op = "e" => f[k].x \in DOMAIN fuentes
        /\ f[k].op = "Ff" => f[k].x \in Canales
        /\ f[k].op = "i" => f[k].x.n \in 0..MaxCar
        /\ f[k].op = "!<" => UltimaBarra(f[k]) \/ \E j \in k+1..Len(f)-1 : Cuantas(f[j]) > 0

ASSUME FuentesCompletas ==
    \A fuentes \in Trabajos :
        /\ Primero \in DOMAIN fuentes /\ Nada \notin DOMAIN fuentes
        /\ \A n \in DOMAIN fuentes : Completa(fuentes, fuentes[n])

VARIABLES nombre,   \* the program that runs
          ins,      \* the instruction
          sur,      \* the return numbers of G, sur[nivo-1] the last
          surk,     \* the instructions to return to of the function keys, kivo long
          guarda,   \* krow, tzgo and tbgo
          inp,      \* where an escape goes
          paro,     \* where Control-C goes
          lok,      \* the last instruction that waited for a key
          dk, fk,   \* where each key goes: < keys and K keys
          stop,     \* a Control-C not seen yet
          senal,    \* what SIGINT calls: "handle" or "nada"
          fase,     \* "corre", "espera" a key, or "fin"
          pant,     \* [vwa, vido, vrow, sH, win, curses]: the windows
          tex,      \* tex[c]: the text channels; pies, the footers of a report, is kept
                    \* to state a property
          ffaa,     \* the active one
          regder,   \* where Ft goes
          campo,    \* the field in edition
          buf,      \* the variable of the fields
          modo,     \* [tin, reb, caps]: ts0/1, ts3/4, tu0/1
          pila      \* what each function key interrupted (kept to state a property)

control == <<nombre, ins, sur, surk, guarda, inp, paro, lok, dk, fk, stop, senal, fase, pila>>
terminal == <<pant, campo, buf, modo>>
papel == <<tex, ffaa, regder>>
corre == <<control, terminal, papel>>
vars == <<compila, corre>>

Dir(n) == [n |-> n, de |-> nombre]
Cero == [n |-> 0, de |-> Nada]
I == obj[nombre].cod[ins.n + 1]
Despues(d) == [d EXCEPT !.n = @ + 1]
Cerrado == [sit |-> 0, tlp |-> 0, pg |-> 0, pies |-> 0, lpp |-> 0, fl |-> 0, lbh |-> Cero, lbf |-> Cero]
SinCampo == [s |-> <<>>, i |-> 0, n |-> 0, num |-> FALSE]
-----------------------------------------------------------------------------
(* Loading a program, and the head of the loop *)

\* The load clears 256 places of dk, fk: they have more.
Limpia(f) == [k \in Teclas |-> IF k \in Altas THEN f[k] ELSE Cero]

Carga(p) ==
    /\ nombre' = p
    /\ ins' = [n |-> 0, de |-> p]
    /\ paro' = [n |-> obj[p].toins - 2, de |-> p]
    /\ sur' = <<>> /\ surk' = <<>> /\ pila' = <<>>
    /\ dk' = Limpia(dk) /\ fk' = Limpia(fk)
    /\ stop' = FALSE /\ senal' = "handle"
    /\ modo' = [modo EXCEPT !.tin = TRUE]
    /\ ffaa' = 1

Arranca ==
    /\ cual = Nada /\ fase = "inicio"
    /\ Carga(Primero)
    /\ fase' = "corre"
    /\ UNCHANGED <<compila, guarda, inp, lok, pant, tex, regder, campo, buf>>

\* The signal: handle sets stop, nada clears it.
Rompe ==
    /\ fase \in {"corre", "espera"}
    /\ stop' = (senal = "handle")
    /\ UNCHANGED <<compila, nombre, ins, sur, surk, guarda, inp, paro, lok, dk, fk, senal, fase,
                   pila, terminal, papel>>

AtiendeStop ==
    /\ fase = "corre" /\ stop /\ I.op # "}"
    /\ stop' = FALSE
    /\ ins' = paro
    /\ UNCHANGED <<compila, nombre, sur, surk, guarda, inp, paro, lok, dk, fk, senal, fase,
                   pila, terminal, papel>>

Acaba ==
    /\ fase = "corre" /\ I.op = "}"
    /\ fase' = "fin"
    /\ UNCHANGED <<compila, nombre, ins, sur, surk, guarda, inp, paro, lok, dk, fk, stop, senal,
                   pila, terminal, papel>>

Ejecuta(ops) == fase = "corre" /\ ~stop /\ I.op \in ops
-----------------------------------------------------------------------------
(* Jumps and subroutines *)

Va(d) == ins' = d
Avanza == Va(Despues(ins))
SoloSalta ==
    UNCHANGED <<compila, nombre, sur, surk, guarda, inp, paro, lok, dk, fk, stop, senal, fase,
                pila, terminal, papel>>
SoloLlama ==
    UNCHANGED <<compila, nombre, surk, guarda, inp, paro, lok, dk, fk, stop, senal, fase,
                pila, terminal, papel>>

\* What only moves data or writes: ( @ p s c \ z m > & x Z $ ^ H J and the rest of F and t.
Dato == Ejecuta({"dato"}) /\ Avanza /\ SoloSalta

Goto == Ejecuta({"g"}) /\ Va(Dir(I.a[1])) /\ SoloSalta

Compara ==
    /\ Ejecuta({"!"})
    /\ Va(Dir(I.a[1])) \/ Avanza
    /\ SoloSalta

\* A true !...< calls, and comes back after the instruction that follows it.
ComparaLlama ==
    /\ Ejecuta({"!<"}) /\ Len(sur) < MaxNivo
    /\ \/ Va(Dir(I.a[1])) /\ sur' = Append(sur, Despues(Despues(ins)))
       \/ Avanza /\ UNCHANGED sur
    /\ SoloLlama

\* FG and Fr at the end of the file, F! when equal, r n N h when the record is not there.
Falla ==
    /\ Ejecuta({"FG", "Fr", "F!", "r", "n", "N", "h"})
    /\ Va(Dir(I.a[1])) \/ Avanza
    /\ SoloSalta

\* q: a form left with escape goes where an escape of a field does.
Forma ==
    /\ Ejecuta({"q"})
    /\ (inp.n # 0 /\ Va(inp)) \/ Avanza
    /\ SoloSalta

LlamaSub ==
    /\ Ejecuta({"G"}) /\ Len(sur) < MaxNivo
    /\ Va(Dir(I.a[1])) /\ sur' = Append(sur, Despues(ins))
    /\ SoloLlama

\* ?b: a call chosen by a value (rout); one of the table is equal to it.
LlamaSegun ==
    /\ Ejecuta({"?b"}) /\ Len(sur) < MaxNivo
    /\ \E j \in DOMAIN I.a : Va(Dir(I.a[j]))
    /\ sur' = Append(sur, Despues(ins))
    /\ SoloLlama

Regresa ==
    /\ Ejecuta({"R"}) /\ sur # <<>>
    /\ Va(Cima(sur)) /\ sur' = Quita(sur)
    /\ SoloLlama
-----------------------------------------------------------------------------
(* Keys *)

\* K and <: each key of the list and its label.
Programa ==
    /\ Ejecuta({"K", "<"})
    /\ IF I.op = "K" THEN fk' = [fk EXCEPT ![I.x] = Dir(I.a[1])] /\ UNCHANGED dk
                     ELSE dk' = [dk EXCEPT ![I.x] = Dir(I.a[1])] /\ UNCHANGED fk
    /\ Avanza
    /\ UNCHANGED <<compila, nombre, sur, surk, guarda, inp, paro, lok, stop, senal, fase,
                   pila, terminal, papel>>

\* EK and E<, of the keys of a list; with a 0, of all.
BorraBajas(f, k) == [j \in Teclas |-> IF (k = "0" /\ j \notin Altas) \/ k = j THEN Cero ELSE f[j]]
Borra(f, k) == [j \in Teclas |-> IF k = "0" \/ k = j THEN Cero ELSE f[j]]

Cancela ==
    /\ Ejecuta({"EK", "E<"})
    /\ IF I.op = "EK" THEN fk' = Borra(fk, I.x) /\ UNCHANGED dk
                      ELSE dk' = Borra(dk, I.x) /\ UNCHANGED fk
    /\ Avanza
    /\ UNCHANGED <<compila, nombre, sur, surk, guarda, inp, paro, lok, stop, senal, fase,
                   pila, terminal, papel>>

\* t0: where an escape goes.
PoneInp ==
    /\ Ejecuta({"t0"})
    /\ inp' = Dir(I.a[1]) /\ Avanza
    /\ UNCHANGED <<compila, nombre, sur, surk, guarda, paro, lok, dk, fk, stop, senal, fase,
                   pila, terminal, papel>>

\* tb: where Control-C goes; with a 0 it is not attended any more.
PoneParo ==
    /\ Ejecuta({"tb"})
    /\ paro' = Dir(I.a[1])
    /\ senal' = IF I.a[1] = 0 THEN "nada" ELSE senal
    /\ Avanza
    /\ UNCHANGED <<compila, nombre, sur, surk, guarda, inp, lok, dk, fk, stop, fase,
                   pila, terminal, papel>>

\* ts0 ts1 ts3 ts4 tu0 tu1
PoneModo ==
    /\ Ejecuta({"ts0", "ts1", "ts3", "ts4", "tu0", "tu1"})
    /\ modo' = CASE I.op \in {"ts0", "ts1"} -> [modo EXCEPT !.tin = (I.op = "ts1")]
                 [] I.op \in {"ts3", "ts4"} -> [modo EXCEPT !.reb = (I.op = "ts4")]
                 [] OTHER                   -> [modo EXCEPT !.caps = (I.op = "tu1")]
    /\ Avanza
    /\ UNCHANGED <<compila, nombre, sur, surk, guarda, inp, paro, lok, dk, fk, stop, senal, fase,
                   pila, pant, campo, buf, papel>>

\* i, y, ?g and ?G note where they are, and wait.
kivo == Len(surk)
AnotaSinEscape == [vrow |-> pant.vrow, inp |-> guarda[kivo].inp, paro |-> paro]
Anota == [vrow |-> pant.vrow, inp |-> inp, paro |-> paro]

Espera ==
    /\ Ejecuta({"i", "y", "?g", "?G"})
    /\ lok' = ins
    /\ guarda' = [guarda EXCEPT ![kivo] = Anota]
    /\ IF I.op # "i" THEN campo' = SinCampo
       ELSE \E b \in (IF I.x.num THEN [1..I.x.n -> {Digito, Blanco}] ELSE {buf}) :
                campo' = Abre(b, I.x.n, I.x.num)
    /\ fase' = "espera"
    /\ UNCHANGED <<compila, nombre, ins, sur, surk, inp, paro, dk, fk, stop, senal,
                   pila, pant, buf, modo, papel>>

\* W: any key.
CualquierTecla == Ejecuta({"W"}) /\ Avanza /\ SoloSalta

En(ops) == fase = "espera" /\ I.op \in ops
Contesta(d) == Va(d) /\ fase' = "corre" /\ campo' = SinCampo

\* chefun: a key of < diverts, a key of K calls.  A field asks for the keys of curses
\* only, the others for any.
Situacion == [ins |-> lok, vrow |-> pant.vrow, inp |-> inp, paro |-> paro]

TeclaFuncion ==
    /\ En({"i", "y", "?g", "?G"})
    /\ \E k \in (IF I.op = "i" THEN Altas ELSE Teclas) :
          \/ /\ dk[k].n # 0
             /\ Contesta(dk[k]) /\ UNCHANGED <<surk, pila>>
          \/ /\ dk[k].n = 0 /\ fk[k].n # 0 /\ kivo < MaxKivo
             /\ Contesta(fk[k])
             /\ surk' = Append(surk, lok) /\ pila' = Append(pila, Situacion)
    /\ UNCHANGED <<compila, nombre, sur, guarda, inp, paro, lok, dk, fk, stop, senal,
                   pant, buf, modo, papel>>

\* The guard of ] is that a K key is pending: without one it takes surk[-1].
Vuelve ==
    /\ Ejecuta({"]"}) /\ surk # <<>>
    /\ LET g == guarda[kivo - 1]
       IN /\ pant' = [pant EXCEPT !.vrow = g.vrow]
          /\ inp' = g.inp /\ paro' = g.paro
    /\ Va(Cima(surk)) /\ surk' = Quita(surk) /\ pila' = Quita(pila)
    /\ UNCHANGED <<compila, nombre, sur, guarda, lok, dk, fk, stop, senal, fase, campo, buf,
                   modo, papel>>

\* y: yes and no; any other key only beeps.
SiNo ==
    /\ En({"y"})
    /\ \E j \in 1..2 : Contesta(Dir(I.a[j]))
    /\ UNCHANGED <<compila, nombre, sur, surk, guarda, inp, paro, lok, dk, fk, stop, senal,
                   pila, pant, buf, modo, papel>>

\* ?g and ?G: a key of the table.
Escoge ==
    /\ En({"?g", "?G"}) /\ Len(sur) < MaxNivo
    /\ \E j \in DOMAIN I.a : Contesta(Dir(I.a[j]))
    /\ sur' = IF I.op = "?G" THEN Append(sur, Despues(ins)) ELSE sur
    /\ UNCHANGED <<compila, nombre, surk, guarda, inp, paro, lok, dk, fk, stop, senal,
                   pila, pant, buf, modo, papel>>

\* An escape at ?G is the R of the subroutine it is in.
EscapeMenu ==
    /\ En({"?G"}) /\ sur # <<>>
    /\ Contesta(Cima(sur)) /\ sur' = Quita(sur)
    /\ UNCHANGED <<compila, nombre, surk, guarda, inp, paro, lok, dk, fk, stop, senal,
                   pila, pant, buf, modo, papel>>

\* A number goes to its variable, a string to the first places of its buffer.
Recibe(e) == IF e.num THEN buf ELSE Entregado(e, modo.tin) \o SubSeq(buf, e.n + 1, Len(buf))

SoloCampo ==
    UNCHANGED <<compila, nombre, sur, surk, guarda, inp, paro, lok, dk, fk, stop, senal, pila,
                pant, modo, papel>>

EscribeCampo ==
    /\ En({"i"})
    /\ \E c \in Letras :
          IF Llenado(campo, c, modo.reb)
          THEN /\ buf' = Recibe(Escribe(campo, c, modo.caps))
               /\ Contesta(Despues(ins))
          ELSE /\ campo' = Escribe(campo, c, modo.caps)
               /\ UNCHANGED <<ins, fase, buf>>
    /\ SoloCampo

MueveCampo ==
    /\ En({"i"})
    /\ \E m \in Mandos : campo' = Mando(campo, m)
    /\ UNCHANGED <<ins, fase, buf>>
    /\ SoloCampo

AcabaCampo ==
    /\ En({"i"})
    /\ buf' = Recibe(campo)
    /\ Contesta(Despues(ins))
    /\ SoloCampo

\* ESC and KEY_UP leave the buffer as it was.
DejaCampo ==
    /\ En({"i"})
    /\ Contesta(IF inp.n # 0 THEN inp ELSE Despues(ins))
    /\ UNCHANGED buf
    /\ SoloCampo
-----------------------------------------------------------------------------
(* Windows *)

SoloPantalla ==
    UNCHANGED <<compila, nombre, sur, surk, guarda, inp, paro, lok, dk, fk, stop, senal, fase,
                pila, campo, buf, modo, papel>>

\* tr: the first starts curses, the others come back from tc.
Cruda ==
    /\ Ejecuta({"tr"})
    /\ pant' = IF pant.curses THEN [pant EXCEPT !.vido = TRUE]
               ELSE [pant EXCEPT !.curses = TRUE, !.vido = TRUE, !.vwa = 0,
                                 !.win[0] = Alto, !.sH = Alto]
    /\ Avanza /\ SoloPantalla

\* tc and tv0, tv1.
Video ==
    /\ Ejecuta({"tc", "tv0", "tv1"})
    /\ pant' = [pant EXCEPT !.vido = (I.op = "tv1")]
    /\ Avanza /\ SoloPantalla

\* tS: the window is made the active one, and created if it is not there.
Abierta(v, alto) == IF pant.win[v] # 0 THEN pant.win[v] ELSE alto
AbreVentana ==
    /\ Ejecuta({"tS"})
    /\ LET h == Abierta(I.x.v, I.x.alto)
       IN pant' = [pant EXCEPT !.vwa = I.x.v, !.win[I.x.v] = h, !.sH = h, !.vido = TRUE]
    /\ Avanza /\ SoloPantalla

\* tR: the window is deleted, and stays the active one.
QuitaVentana ==
    /\ Ejecuta({"tR"})
    /\ pant' = IF I.x = 0 \/ pant.win[I.x] = 0 THEN [pant EXCEPT !.vwa = I.x]
               ELSE [pant EXCEPT !.vwa = I.x, !.win[I.x] = 0, !.vido = FALSE]
    /\ Avanza /\ SoloPantalla

Coloca ==
    /\ Ejecuta({"t@"})
    /\ pant' = [pant EXCEPT !.vrow = I.x]
    /\ Avanza /\ SoloPantalla
-----------------------------------------------------------------------------
(* Text channels and reports *)

act == tex[ffaa]
SoloPapel(q) ==
    /\ UNCHANGED <<compila, nombre, sur, surk, guarda, inp, paro, lok, dk, fk, stop, senal, fase,
                   pila, campo, buf, modo>>
    /\ q

Canal ==
    /\ Ejecuta({"Ff"})
    /\ ffaa' = I.x /\ Avanza
    /\ SoloPapel(UNCHANGED <<pant, tex, regder>>)

AbreCanal ==
    /\ Ejecuta({"FO"})
    /\ tex' = [tex EXCEPT ![ffaa].sit = IF I.x = "r" THEN 2 ELSE 0]
    /\ Avanza
    /\ SoloPapel(UNCHANGED <<pant, ffaa, regder>>)

CierraCanal ==
    /\ Ejecuta({"FC"})
    /\ tex' = [tex EXCEPT ![ffaa].sit = 0, ![ffaa].tlp = 0, ![ffaa].pg = 0]
    /\ Avanza
    /\ SoloPapel(UNCHANGED <<pant, ffaa, regder>>)

\* header: a page starts, and the routine of the header runs.
EncabezaSinCuenta(r) == [r EXCEPT !.pg = @ + 1]
Encabeza(r) == [r EXCEPT !.tlp = 0, !.pg = @ + 1]

Reporta ==
    /\ Ejecuta({"FP"})
    /\ LET r == [sit |-> 1, lpp |-> I.x.lpp, fl |-> I.x.fl, tlp |-> 0, pg |-> 0, pies |-> 0,
                 lbh |-> Dir(I.a[1]), lbf |-> Dir(I.a[2])]
       IN tex' = [tex EXCEPT ![ffaa] = Encabeza(r)] /\ Va(r.lbh)
    /\ regder' = Despues(ins)
    /\ SoloPapel(UNCHANGED <<pant, ffaa>>)

\* l: a line, on the window or on the channel; at line x_fl of a report, the footer.
BajaSinTope == pant.vrow + 1
Baja == IF pant.vrow + 1 = pant.sH THEN pant.sH - 1 ELSE pant.vrow + 1

Linea ==
    /\ Ejecuta({"l"})
    /\ pant' = IF pant.vido THEN [pant EXCEPT !.vrow = Baja] ELSE pant
    /\ IF act.sit # 1 THEN Avanza /\ UNCHANGED <<tex, regder>>
       ELSE IF act.tlp + 1 = act.fl
            THEN /\ tex' = [tex EXCEPT ![ffaa].tlp = @ + 1, ![ffaa].pies = @ + 1]
                 /\ Va(act.lbf) /\ regder' = Despues(ins)
            ELSE /\ tex' = [tex EXCEPT ![ffaa].tlp = @ + 1]
                 /\ Avanza /\ UNCHANGED regder
    /\ SoloPapel(UNCHANGED ffaa)

\* ` with a 12 (c12) in a report: the next page, with no footer.
Salto12 ==
    /\ Ejecuta({"c12"})
    /\ IF ~pant.vido /\ act.sit = 1 /\ act.pg < MaxPag
       THEN /\ tex' = [tex EXCEPT ![ffaa] = Encabeza(@)]
            /\ Va(act.lbh) /\ regder' = Despues(ins)
       ELSE (pant.vido \/ act.sit # 1) /\ Avanza /\ UNCHANGED <<tex, regder>>
    /\ SoloPapel(UNCHANGED <<pant, ffaa>>)

FinCabecera ==
    /\ Ejecuta({"Ft"})
    /\ Va(regder)
    /\ SoloPapel(UNCHANGED <<pant, tex, ffaa, regder>>)

FinPie ==
    /\ Ejecuta({"Fe"}) /\ act.pg < MaxPag
    /\ tex' = [tex EXCEPT ![ffaa] = Encabeza(@)]
    /\ Va(act.lbh)
    /\ SoloPapel(UNCHANGED <<pant, ffaa, regder>>)
-----------------------------------------------------------------------------
(* The call of another program: it starts as a first program does, but for what the
   interpreter keeps: t0, the keys of 256 or more, the windows, channels 1 and 2. *)

CierraTextos == [c \in Canales |->
    IF c >= 3 THEN Cerrado
    ELSE IF c = 1 THEN [tex[1] EXCEPT !.tlp = 0, !.pg = 0] ELSE tex[c]]

Encadena ==
    /\ Ejecuta({"e"})
    /\ Carga(I.x)
    /\ tex' = CierraTextos
    /\ UNCHANGED <<compila, guarda, inp, lok, fase, pant, regder, campo, buf>>

InitCorre ==
    /\ nombre = Nada /\ fase = "inicio"
    /\ ins = Cero /\ inp = Cero /\ paro = Cero /\ lok = Cero /\ regder = Cero
    /\ sur = <<>> /\ surk = <<>> /\ pila = <<>>
    /\ guarda = [k \in 0..MaxKivo |-> [vrow |-> 0, inp |-> Cero, paro |-> Cero]]
    /\ dk = [k \in Teclas |-> Cero] /\ fk = [k \in Teclas |-> Cero]
    /\ stop = FALSE /\ senal = "handle"
    /\ pant = [vwa |-> 0, vido |-> FALSE, vrow |-> 0, sH |-> 0,
               win |-> [v \in Ventanas |-> 0], curses |-> FALSE]
    /\ tex = [c \in Canales |-> Cerrado] /\ ffaa = 1
    /\ campo = SinCampo /\ buf = <<Nulo, Nulo>>
    /\ modo = [tin |-> TRUE, reb |-> FALSE, caps |-> FALSE]

Init == InitCompila /\ InitCorre

Instruccion ==
    \/ Dato \/ Goto \/ Compara \/ ComparaLlama \/ Falla \/ Forma \/ LlamaSub \/ LlamaSegun
    \/ Regresa \/ Programa \/ Cancela \/ PoneInp \/ PoneParo \/ PoneModo \/ Espera
    \/ CualquierTecla \/ Vuelve \/ Cruda \/ Video \/ AbreVentana \/ QuitaVentana \/ Coloca
    \/ Canal \/ AbreCanal \/ CierraCanal \/ Reporta \/ Linea \/ Salto12 \/ FinCabecera \/ FinPie
    \/ Encadena

Usuario ==
    \/ TeclaFuncion \/ SiNo \/ Escoge \/ EscapeMenu \/ EscribeCampo \/ MueveCampo
    \/ AcabaCampo \/ DejaCampo \/ Rompe

Next ==
    \/ Compila /\ UNCHANGED corre
    \/ Arranca \/ AtiendeStop \/ Acaba
    \/ Instruccion
    \/ Usuario

Spec == Init /\ [][Next]_vars
-----------------------------------------------------------------------------
(* Properties *)

\* The interpreter never runs an instruction whose number another program gave it: what
\* survives a chain (t0, keys of 256 or more, the footer of channel 1, regder) does not
\* divert the program that was called, which goes on within its own instructions
\* (vpg4s.c:207, 1256, chefun3.c:16).
SaltoPropio == fase # "inicio" => ins.de = nombre /\ ins.n \in 0..Len(obj[nombre].cod) - 1

\* What a program has to do, for what the call of another keeps: the one called sets t0
\* first if a label of the caller's is there, the caller has no key of 256 or more set,
\* nor a report open in a channel that is not closed; and a routine of a report (Ft, Fe)
\* runs for a report of the program's own.
Disciplina ==
    /\ Ejecuta({"e"}) =>
          /\ inp.n = 0 \/ obj[I.x].cod[1].op = "t0"
          /\ \A k \in Altas : dk[k].n = 0 /\ fk[k].n = 0
          /\ \A c \in 0..2 : tex[c].sit # 1
    /\ Ejecuta({"Ft"}) => regder.de = nombre
    /\ Ejecuta({"Fe"}) => act.sit = 1

\* A K routine comes back to the field it interrupted, at its row, and with the escape and
\* break labels of then, whatever keys, fields and breaks came between (chefun3.c:19,
\* vpg4s.c:568; doc/manvpg.htm:243).
VueltaAlCampo ==
    \A k \in 1..kivo : /\ surk[k] = pila[k].ins
                       /\ guarda[k - 1] = [vrow |-> pila[k].vrow, inp |-> pila[k].inp,
                                           paro |-> pila[k].paro]

\* Whatever the keys, the next one goes to a place that was written or to the one after
\* the last, which is past the field only if accented characters took it there: past the
\* field there is nothing else (doc/manvpg.htm:1312 says that it takes up to # characters),
\* and a numeric field ends where it should, with nothing but digits in it
\* (inpq.c:46-223).
CampoVivo ==
    /\ campo.n <= Len(campo.s) /\ campo.i \in 0..Len(campo.s)
    /\ \A k \in campo.n+1..Len(campo.s) : ~campo.num /\ campo.s[k] \in {Acento, Blanco}
    /\ campo.num => \A k \in 1..campo.n : campo.s[k] \in {Digito, Blanco}

\* When the machine waits for a key the active window is there and the cursor is in it:
\* tR leaves a window that is not there, tS and tR another height, ] the row of before
\* (vpg4s.c:596, 575, 351); and of the field in edition CampoVivo holds.
VentanaViva ==
    fase = "espera" => /\ pant.win[pant.vwa] # 0 /\ pant.sH = pant.win[pant.vwa]
                       /\ pant.vrow < pant.sH
                       /\ CampoVivo

\* No page of a report has more lines than x_lpp, its header, its footer and Control-C
\* included: x_fl is compared by equality once (vpg4s.c:346).
PaginaCabe == \A c \in Canales : tex[c].sit = 1 => tex[c].tlp <= tex[c].lpp

\* A page of a report ends with its footer: every page begun after the first had one
\* before it (doc/manvpg.htm:1240).
PieEnCadaPagina == \A c \in Canales : tex[c].sit = 1 => tex[c].pies >= tex[c].pg - 1
=============================================================================

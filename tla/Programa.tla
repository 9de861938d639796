-------------------------------- MODULE Programa --------------------------------
(***************************************************************************)
(* A VPG program from its source to its end: compiled in two passes        *)
(* (VpMemoria) and run instruction by instruction, on its memory (Datos),  *)
(* comparing (Condicion), writing (Salida), reading files (Archivos), as   *)
(* the server of a form of the web (Cgi) or of a socket (Enchufes), with   *)
(* forms on the screen (Formas), the calculator (Calcu) and the unloading  *)
(* of files (Descarga).                                                    *)
(***************************************************************************)
EXTENDS Formas, Cgi, Calcu, Descarga, Enchufes, Archivos

todo == <<maquina, compila, corre, pantalla, sale, cgi, calc, desc, red, arch>>

Init ==
    /\ InitDatos /\ InitForma /\ InitCalcu /\ InitEnchufes /\ InitArchivos
    /\ sale = <<>> /\ cgi = [hnf |-> 0, vhinf |-> <<>>, pedido |-> <<>>] /\ desc = Apaga

PasoDelPrograma ==
    \/ (NextMemoria \/ Carga) /\ UNCHANGED <<corre, pantalla, sale, cgi, calc, desc, red, arch>>
    \/ (Instruccion \/ Compara) /\ UNCHANGED <<pantalla, sale, cgi, calc, desc, red, arch>>
    \/ Escribiente /\ UNCHANGED <<pantalla, cgi, calc, desc, red, arch>>
    \/ Servicio /\ UNCHANGED <<pantalla, calc, desc, red, arch>>
    \/ NextEnchufes /\ UNCHANGED <<pantalla, sale, cgi, calc, desc, arch>>
    \/ NextForma /\ UNCHANGED <<sale, cgi, calc, desc, red, arch>>
    \/ NextCalcu /\ UNCHANGED <<pantalla, sale, cgi, desc, red, arch>>
    \/ NextDescarga /\ UNCHANGED <<pantalla, cgi, calc, red, arch>>
    \/ NextArchivos /\ UNCHANGED <<pantalla, cgi, calc, desc, red>>

Next == PasoDelPrograma /\ UNCHANGED maquina

Spec == Init /\ [][Next]_todo
-----------------------------------------------------------------------------
(* Properties *)

\* The bytes of the program's variable a[n] of the instruction being run.
Suyos(a, n) ==
    LET l == LugarDe(a[n].id) IN {<<l.ar, p>> : p \in l.p..l.p + l.n - 1}

\* The variables an instruction is said to change.
Destinos(t, a) ==
    CASE t.op \in {"z", "&l", "Hk", "$s"} -> {2}
      [] t.op = ">" -> {IF t.x[1] = "s" THEN 3 ELSE 2}
      [] t.op = "Fs" -> {IF t.x = "e" THEN 3 ELSE 1}
      [] t.op = "qf" -> {n \in DOMAIN a : n % 2 = 1}
      [] t.op = "qD" -> {IF a[1].v \in {2, 4} THEN 2 ELSE 3}
      [] t.op = "JA" -> {2}
      [] t.op = "Jr" -> {2, 4}
      [] t.op = "Jw" -> {4}
      [] t.op \in {"&f", "&a", "&b", "!", "!v", "p", "c", "s", "\\", "Hp", "HP", "Jb", "Jl", "Jc", "JC", "ttl", "x",
                   "FO", "FG", "F!", "Fw", "FW", "Fc", "FT", "FE", "FS", "tsr",
                   "Hf", "HF", "HI", "HT", "Hs"} -> {}
      [] OTHER -> {1}

\* The bytes it may change besides: a z with an l those to the end of the buffer, and
\* what stores a number from a field of a form or a request in a short, the next two,
\* which its sign makes 0 or 255.
Cortos == {"qf", "Hi", "Hc", "HC"}
HastaElFin(t, a) ==
    IF t.op = "z" /\ a[3].f = "l"
    THEN LET l == LugarDe(a[2].id) IN {<<l.ar, p>> : p \in l.p..tam[l.ar] - 1}
    ELSE {}
Signo(b, p, t, a) ==
    /\ t.op \in Cortos
    /\ \E n \in Destinos(t, a) :
          LET l == LugarDe(a[n].id)
          IN  /\ l.ty = "i" /\ l.ar = b /\ p \in l.p + 2..l.p + 3
              /\ mem'[b][p] \in {0, 255}

\* An instruction changes no byte but those of the variables it names to be changed, those
\* that its l says, and the two bytes after a short that a form or a request stores, which
\* the sign of the number makes 0 or 255, from the declaration of the data through both passes of
\* the compiler to the byte the interpreter writes (vp3.c:712, getad.c:34, vpg4s.c:242,
\* 402, 410, 1169, vstrings.c:16, tida.c:20, vform.c:233, 248, vcgi2.c:141, vsqrun.c:423,
\* vcliser.c:107, recup.c:41).
EscribeLoSuyo ==
    [][mem' # mem /\ FuenteDe(pc).t = "ins" =>
          LET t == FuenteDe(pc)
              suyos == HastaElFin(t, t.a) \cup UNION {Suyos(t.a, n) : n \in Destinos(t, t.a)}
          IN  \A b \in Buffers : \A p \in 0..Tope - 1 :
                 mem'[b][p] # mem[b][p] => <<b, p>> \in suyos \/ Signo(b, p, t, t.a)]_todo
=============================================================================

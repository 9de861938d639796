----------------------------- MODULE VpCompile -----------------------------
(***************************************************************************)
(* vp, the compiler of VPG programs (vp3.c).                               *)
(*                                                                         *)
(* A source is read twice.  getsymbols counts instructions and gives every *)
(* label the count it finds it at; getins writes the instructions, and     *)
(* jumps with the counts of the first pass.  The two decide with rules of  *)
(* their own how many instructions a piece of source makes.  Loops and     *)
(* if-then-else need instruction numbers that come later: getins leaves    *)
(* their places on stacks (lpos, ifloc) and goes back to fill them.        *)
(*                                                                         *)
(* A source is a sequence of tokens [op, d, x]: the instruction, the       *)
(* labels of its jumps ("+", "-" and "|" have the meaning of the source),  *)
(* and what else the interpreter needs.  The object is a sequence of       *)
(* instructions [op, a, x] with a the instruction numbers; the first is    *)
(* instruction 0.  Sources nest their loops and ifs (BienEscrita): a ")"   *)
(* or a "." too many takes places from before the arrays.                  *)
(***************************************************************************)
EXTENDS Integers, Sequences, FiniteSets

CONSTANTS Trabajos    \* sets of sources to compile: functions from names to sources

LEVELS == 30          \* loops inside loops
POSITIONS == 40       \* jumps out of one loop

VARIABLES trabajo,  \* the sources
          cual,     \* the name of the source being compiled, or Nada
          pase,     \* 1 getsymbols, 2 getins
          tok,      \* the token read next
          instr,    \* the count of getsymbols
          sym,      \* sym[l]: the instruction of label l, of those seen
          cod,      \* what getins has written
          loop,     \* the open loops: [ini, lpos], lpos the set of jumps out to fill
          ifloc,    \* the open ifs: the jumps to fill
          markif,   \* a "|" was read as a target
          generr,   \* errors found
          cuenta,   \* cuenta[k]: instr before token k (kept to state properties)
          obj       \* obj[n]: the object of source n, once compiled

compila == <<trabajo, cual, pase, tok, instr, sym, cod, loop, ifloc, markif, generr,
             cuenta, obj>>

Nada == "nada"
NoFunc == [n \in {} |-> 0]
pins == Len(cod)
src == trabajo[cual]
t == src[tok]
-----------------------------------------------------------------------------
(* The first pass *)

\* The instructions getsymbols stops at chk1 for: their last character may be a bar.
MiraBarra == {"g", "G", "r", "n", "N", "Q", "!", "!<", "h", "FG", "t0", "tk"}

\* What is no instruction: labels, definitions, and the signs that only getins uses.
SinInstruccion == {"[", "#d", "M", "{", "."}

UltimaBarra(k) == k.d # <<>> /\ k.d[Len(k.d)] = "|"

Cuantas(k) ==
    IF k.op \in SinInstruccion THEN 0
    ELSE IF k.op \in MiraBarra /\ UltimaBarra(k) THEN 2 ELSE 1

\* A source as the manual has them: it ends at its "}"; a bar is the only target of its
\* instruction, one that asks; and bars and dots, braces and parentheses nest, with every
\* "+" and "-" in a loop.  The compiler checks the last only at the end (vp3.c:82-83).
EsPunto(k)  == k.op = "."
EsAbre(k)   == k.op = "{"
EsCierra(k) == k.op = ")"
Ifs(f, n)   == Cardinality({k \in 1..n : UltimaBarra(f[k])}) - Cardinality({k \in 1..n : EsPunto(f[k])})
Lazos(f, n) == Cardinality({k \in 1..n : EsAbre(f[k])}) - Cardinality({k \in 1..n : EsCierra(f[k])})

BienEscrita(f) ==
    /\ f # <<>> /\ DOMAIN f = 1..Len(f)
    /\ \A k \in DOMAIN f :
          LET d == f[k].d IN
          /\ d \in Seq(STRING)
          /\ f[k].op = "}" <=> k = Len(f)
          /\ f[k].op = "y" => Len(d) = 2 \/ d = <<"|">>
          /\ (\E j \in DOMAIN d : d[j] = "|") => Len(d) = 1 /\ f[k].op \in MiraBarra \cup {"y"}
          /\ f[k].op \in {"|", "."} => Ifs(f, k - 1) > 0
          /\ (f[k].op = ")" \/ \E j \in DOMAIN d : d[j] \in {"+", "-"}) => Lazos(f, k - 1) > 0
    /\ Ifs(f, Len(f)) = 0 /\ Lazos(f, Len(f)) = 0

ASSUME FuentesBienEscritas ==
    \A fuentes \in Trabajos :
        /\ DOMAIN fuentes # {}
        /\ \A n \in DOMAIN fuentes : BienEscrita(fuentes[n])

\* addsym of a name that is there already leaves it as it was.
ConNombre(f, l, v) == IF l \in DOMAIN f THEN f ELSE [m \in DOMAIN f \cup {l} |-> IF m = l THEN v ELSE f[m]]

Getsymbols ==
    /\ pase = 1
    /\ cual # Nada
    /\ tok <= Len(src)
    /\ instr' = instr + Cuantas(t)
    /\ cuenta' = Append(cuenta, instr)
    /\ sym' = IF t.op = "[" THEN ConNombre(sym, t.x, instr) ELSE sym
    /\ generr' = IF t.op = "[" /\ t.x \in DOMAIN sym THEN generr + 1 ELSE generr
    /\ IF t.op = "}"
       THEN pase' = 2 /\ tok' = 1
       ELSE pase' = 1 /\ tok' = tok + 1
    /\ UNCHANGED <<trabajo, cual, cod, loop, ifloc, markif, obj>>
-----------------------------------------------------------------------------
(* The second pass *)

\* A bar that goes on at the jump placed for the else.
ValorCorto(d) ==
    CASE d = "-" -> loop[Len(loop)].ini
      [] d = "+" -> 0
      [] d = "|" -> pins + 1
      [] OTHER   -> IF d \in DOMAIN sym THEN sym[d] ELSE 0

\* The value of a target as intsym returns it, once the instruction is numbered.
Valor(d) ==
    CASE d = "-" -> loop[Len(loop)].ini
      [] d = "+" -> 0
      [] d = "|" -> pins + 2
      [] OTHER   -> IF d \in DOMAIN sym THEN sym[d] ELSE 0

Valores(ds) == [j \in DOMAIN ds |-> Valor(ds[j])]

Cima(s) == s[Len(s)]
Quita(s) == SubSeq(s, 1, Len(s) - 1)

\* getpos keeps the place of each jump out of the innermost loop.
Sale(ds) == {<<pins, j>> : j \in {j \in DOMAIN ds : ds[j] = "+"}}
ConSalidas(ds) ==
    IF Sale(ds) = {} THEN loop
    ELSE [loop EXCEPT ![Len(loop)].lpos = @ \cup Sale(ds)]

Caben(ds) == IF Sale(ds) = {} THEN TRUE ELSE Cardinality(Cima(loop).lpos \cup Sale(ds)) <= POSITIONS

SinDefinir(ds) == {j \in DOMAIN ds : ds[j] \notin {"+", "-", "|"} \cup DOMAIN sym}

\* Fills the targets at the places in lugares with v (repos, and fseek to ifloc).
Llena(c, lugares, v) ==
    [k \in DOMAIN c |->
        [c[k] EXCEPT !.a = [j \in DOMAIN c[k].a |->
            IF <<k - 1, j>> \in lugares THEN v ELSE c[k].a[j]]]]

Ins(op, a, x) == [op |-> op, a |-> a, x |-> x]

\* What comes to glabs: after its target, a bar makes a jump with its place on ifloc.
PorGlabs == MiraBarra \cup {"tb"}

Pasa2 ==
    /\ pase = 2
    /\ cual # Nada
    /\ UNCHANGED <<trabajo, cual, pase, instr, sym, cuenta, obj>>

Sigue2 == tok' = tok + 1

\* A jump: g G r n N Q ! h FG t0 tk tb.
GetinsSalto ==
    /\ Pasa2 /\ t.op \in PorGlabs /\ Caben(t.d)
    /\ LET bar == markif \/ UltimaBarra(t)
           c   == Append(cod, Ins(t.op, Valores(t.d), t.x))
       IN /\ cod' = IF bar THEN Append(c, Ins("g", <<0>>, 0)) ELSE c
          /\ ifloc' = IF bar THEN Append(ifloc, <<pins + 1, 1>>) ELSE ifloc
    /\ markif' = FALSE
    /\ loop' = ConSalidas(t.d)
    /\ generr' = generr + Cardinality(SinDefinir(t.d))
    /\ Sigue2

\* y: with a bar the yes goes on and the no is filled later, with no instruction more.
GetinsY ==
    /\ Pasa2 /\ t.op = "y" /\ Caben(t.d)
    /\ LET bar == markif \/ t.d[1] = "|"
       IN /\ cod' = Append(cod, Ins("y", IF bar THEN <<pins + 1, 0>> ELSE Valores(t.d), t.x))
          /\ ifloc' = IF bar THEN Append(ifloc, <<pins, 2>>) ELSE ifloc
          /\ markif' = (~bar /\ UltimaBarra(t))
          /\ loop' = ConSalidas(IF bar THEN <<t.d[1]>> ELSE t.d)
          /\ generr' = generr + Cardinality(SinDefinir(IF bar THEN <<t.d[1]>> ELSE t.d))
    /\ Sigue2

\* The bar between then and else: ends the first with a jump, starts the second.
GetinsBarra ==
    /\ Pasa2 /\ t.op = "|" /\ ifloc # <<>>
    /\ cod' = Append(Llena(cod, {Cima(ifloc)}, pins + 1), Ins("g", <<0>>, 0))
    /\ ifloc' = Append(Quita(ifloc), <<pins, 1>>)
    /\ markif' = FALSE
    /\ Sigue2
    /\ UNCHANGED <<loop, generr>>

GetinsPunto ==
    /\ Pasa2 /\ t.op = "." /\ ifloc # <<>>
    /\ cod' = Llena(cod, {Cima(ifloc)}, pins)
    /\ ifloc' = Quita(ifloc)
    /\ Sigue2
    /\ UNCHANGED <<loop, markif, generr>>

GetinsAbre ==
    /\ Pasa2 /\ t.op = "{" /\ Len(loop) < LEVELS
    /\ loop' = Append(loop, [ini |-> pins, lpos |-> {}])
    /\ Sigue2
    /\ UNCHANGED <<cod, ifloc, markif, generr>>

GetinsCierra ==
    /\ Pasa2 /\ t.op = ")" /\ loop # <<>>
    /\ cod' = Llena(Append(cod, Ins("g", <<Cima(loop).ini>>, 0)),
                    Cima(loop).lpos, pins + 1)
    /\ loop' = Quita(loop)
    /\ Sigue2
    /\ UNCHANGED <<ifloc, markif, generr>>

\* Any other instruction: one, with the labels it names (FP, K, <, ?).
Otras == {"{", ")", "|", ".", "y", "}"} \cup PorGlabs
GetinsOtra ==
    /\ Pasa2 /\ t.op \notin Otras /\ Caben(t.d)
    /\ IF t.op \in SinInstruccion
       THEN UNCHANGED <<cod, loop, markif, generr>>
       ELSE /\ cod' = Append(cod, Ins(t.op, Valores(t.d), t.x))
            /\ loop' = ConSalidas(t.d)
            /\ markif' = (markif \/ \E j \in DOMAIN t.d : t.d[j] = "|")
            /\ generr' = generr + Cardinality(SinDefinir(t.d))
    /\ Sigue2
    /\ UNCHANGED ifloc

\* The end: main writes instr + 1 as the number of instructions, and the object is there.
Acabado == [toins |-> instr + 1, cod |-> Append(cod, Ins("}", <<>>, 0))]
ConObjeto == [n \in DOMAIN obj \cup {cual} |-> IF n = cual THEN Acabado ELSE obj[n]]
Faltan == DOMAIN trabajo \ (DOMAIN obj \cup {cual})

Termina ==
    /\ pase = 2 /\ cual # Nada /\ t.op = "}"
    /\ obj' = ConObjeto
    /\ cual' = IF Faltan = {} THEN Nada ELSE CHOOSE n \in Faltan : TRUE
    /\ pase' = 1 /\ tok' = 1 /\ instr' = 0
    /\ sym' = NoFunc /\ cod' = <<>> /\ loop' = <<>> /\ ifloc' = <<>>
    /\ markif' = FALSE /\ cuenta' = <<>>
    /\ UNCHANGED <<trabajo, generr>>

InitCompila ==
    /\ trabajo \in Trabajos
    /\ cual = (CHOOSE n \in DOMAIN trabajo : TRUE)
    /\ pase = 1 /\ tok = 1 /\ instr = 0
    /\ sym = NoFunc /\ cod = <<>> /\ loop = <<>> /\ ifloc = <<>>
    /\ markif = FALSE /\ generr = 0 /\ cuenta = <<>>
    /\ obj = NoFunc

Compila == \/ Getsymbols \/ GetinsSalto \/ GetinsY \/ GetinsBarra \/ GetinsPunto
           \/ GetinsAbre \/ GetinsCierra \/ GetinsOtra \/ Termina

SpecCompila == InitCompila /\ [][Compila]_compila
-----------------------------------------------------------------------------
(* What a source means, read with no stacks *)

Completo == pase = 2 /\ cual # Nada /\ t.op = "}"

Cuantos(a, b, P(_)) == Cardinality({k \in a..b : P(src[k])})

IfsCerrados(a, b)  == Cuantos(a, b, UltimaBarra) = Cuantos(a, b, EsPunto)
LazosCerrados(a, b) == Cuantos(a, b, EsAbre) = Cuantos(a, b, EsCierra)

\* Where the branch that starts after token k ends: its bar or its dot.
FinRama(k) == CHOOSE j \in k+1..Len(src) :
    /\ src[j].op \in {"|", "."} /\ IfsCerrados(k + 1, j - 1)
    /\ \A i \in k+1..j-1 : ~(src[i].op \in {"|", "."} /\ IfsCerrados(k + 1, i - 1))

\* The ends of the innermost loop around token k.
FinLazo(k) == CHOOSE j \in k+1..Len(src) :
    /\ src[j].op = ")" /\ LazosCerrados(k + 1, j - 1)
    /\ \A i \in k+1..j-1 : ~(src[i].op = ")" /\ LazosCerrados(k + 1, i - 1))
IniLazo(k) == CHOOSE j \in 1..k-1 :
    /\ src[j].op = "{" /\ LazosCerrados(j + 1, k - 1)
    /\ \A i \in j+1..k-1 : ~(src[i].op = "{" /\ LazosCerrados(i + 1, k - 1))

Tras(k) == cuenta[k] + Cuantas(src[k])

Destino(k, d) ==
    CASE d = "+" -> Tras(FinLazo(k))
      [] d = "-" -> cuenta[IniLazo(k)]
      [] d = "|" -> Tras(k)
      [] OTHER   -> LET defs == {j \in DOMAIN src : src[j].op = "[" /\ src[j].x = d}
                    IN IF defs = {} THEN 0 ELSE cuenta[CHOOSE j \in defs : \A i \in defs : j <= i]

Salta(i, v) == cod[i + 1].op = "g" /\ cod[i + 1].a = <<v>>
-----------------------------------------------------------------------------
(* Properties *)

\* The two passes agree: getins writes each instruction at the number getsymbols
\* gave it, so that a label is the instruction after it (vp3.c:88-104, 572-661).
PasesAcordes == pase = 2 /\ cual # Nada => pins = cuenta[tok]

\* In the object every jump goes where the source says: a label to the instruction
\* after it, "-" and "+" to the start and past the end of the innermost loop, a bar to
\* the next instruction when true, and past the bar or the dot that match it when
\* not; a loop ends with a jump to its start (vp3.c:137-140, 224-254, 530-553,
\* 767-788). It needs the two passes to count alike.
SaltosFieles ==
    /\ PasesAcordes
    /\ Completo =>
        \A k \in 1..Len(src) - 1 :
            LET i == cuenta[k] IN
            /\ src[k].op \notin SinInstruccion \cup {"|", ")"} =>
                  /\ cod[i + 1].op = src[k].op
                  /\ \A j \in DOMAIN src[k].d : cod[i + 1].a[j] = Destino(k, src[k].d[j])
            /\ UltimaBarra(src[k]) =>
                  IF src[k].op = "y" THEN cod[i + 1].a[2] = Tras(FinRama(k))
                                     ELSE Salta(i + 1, Tras(FinRama(k)))
            /\ src[k].op = "|" => Salta(i, Tras(FinRama(k)))
            /\ src[k].op = ")" => Salta(i, cuenta[IniLazo(k)])
=============================================================================

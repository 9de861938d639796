------------------------------ MODULE MCVpgRun ------------------------------
EXTENDS VpgRun

T(op, d, x) == [op |-> op, d |-> d, x |-> x]
N(op)    == T(op, <<>>, "")
D(op, l) == T(op, <<l>>, "")
L(l)     == T("[", <<>>, l)
X(op, x) == T(op, <<>>, x)
Fin == N("}")

-----------------------------------------------------------------------------
(* Small sources: all the ways to nest the pieces below, up to MaxPiezas of them, with
   the label in the middle. *)
CONSTANT MaxPiezas

Piezas == <<N("{"), N(")"), N("|"), N("."), D("g", "+"), D("!", "-"), D("!", "|"),
            D("y", "|"), T("y", <<"+", "L">>, ""), N("dato"), D("G", "L")>>

RECURSIVE Anida(_, _, _, _)
Anida(s, k, lazos, ifs) ==
    IF k > Len(s) THEN lazos = 0 /\ ifs = <<>>
    ELSE LET p == Piezas[s[k]] IN
         CASE p.op = "{" -> Anida(s, k + 1, lazos + 1, ifs)
           [] p.op = ")" -> lazos > 0 /\ Anida(s, k + 1, lazos - 1, ifs)
           [] p.op = "|" -> ifs # <<>> /\ ifs[1] = "si" /\ Anida(s, k + 1, lazos, <<"no">> \o Tail(ifs))
           [] p.op = "." -> ifs # <<>> /\ Anida(s, k + 1, lazos, Tail(ifs))
           [] OTHER -> /\ \A j \in DOMAIN p.d : p.d[j] \in {"+", "-"} => lazos > 0
                       /\ Anida(s, k + 1, lazos, IF UltimaBarra(p) THEN <<"si">> \o ifs ELSE ifs)

Anidados == UNION {{f \in [1..n -> 1..Len(Piezas)] : Anida(f, 1, 0, <<>>)} : n \in 0..MaxPiezas}
Fuente(f) == LET k == Len(f) \div 2
                 c == [i \in DOMAIN f |-> Piezas[f[i]]]
             IN <<N("tr")>> \o SubSeq(c, 1, k) \o <<L("L")>> \o SubSeq(c, k + 1, Len(f)) \o <<Fin>>
-----------------------------------------------------------------------------
(* A program with a menu, a field, help in a window of its own, and a report; it calls
   another, which also has fields.  What it does before a chain, after a break and
   around a window is what a program has to do. *)
Principal == <<
    N("tr"), T("K", <<"Ayuda">>, "F1"), T("<", <<"Inicio">>, "tab"),
    D("t0", "Sal"), D("tb", "Inicio"),
  L("Inicio"),
    N("tv1"), X("tR", 1), X("tS", [v |-> 0, alto |-> 3]), X("t@", 0),
    X("Ff", 3), N("FC"), X("Ff", 1),
  N("{"),
    T("?G", <<"Captura", "Lista">>, ""),
    D("!", "+"),
  N(")"),
  L("Sal"),
    X("EK", "0"), X("E<", "0"), X("e", "b"),
  L("Captura"),
    T("i", <<>>, [n |-> 1, num |-> TRUE]), N("l"),
    D("y", "|"), N("l"), N("|"), N("dato"), N("."),
    N("R"),
  L("Ayuda"),
    X("tS", [v |-> 1, alto |-> 2]), X("t@", 0), N("l"), N("l"),
    T("?g", <<"Cierra">>, ""),
  L("Cierra"),
    X("tR", 1), X("tS", [v |-> 0, alto |-> 3]), N("]"),
  L("Lista"),
    N("tv0"), X("Ff", 3), X("FO", "w"), T("FP", <<"Cabeza", "Pie">>, [lpp |-> 4, fl |-> 3]),
    N("{"), N("l"), D("FG", "+"), D("!", "|"), N("c12"), N("."), N(")"),
    N("FC"), X("Ff", 1), N("tv1"), N("R"),
  L("Cabeza"), N("l"), N("Ft"),
  L("Pie"), N("l"), N("Fe"),
    Fin >>

Llamado == <<
    D("t0", "Otra"), N("dato"),
  L("Otra"),
    N("ts4"), T("i", <<>>, [n |-> 2, num |-> TRUE]),
    N("ts3"), N("ts0"), N("tu1"), T("i", <<>>, [n |-> 1, num |-> FALSE]),
    Fin >>

\* The rest of the instructions.
Varios == <<
    N("tr"), D("tb", "Nadie"), D("t0", "Pide"), T("<", <<"Sale">>, "F1"),
  L("Pide"),
    N("W"), N("q"), T("?b", <<"Uno", "Dos">>, ""), D("!<", "Uno"), N("tc"), N("tr"),
    D("Fr", "Sale"), D("F!", "Sale"), D("n", "|"), D("h", "Sale"), N("."),
    D("G", "Dos"),
  L("Sale"), X("EK", "tab"), X("FO", "r"), N("c12"), N("dato"), D("g", "Nunca"),
  L("Uno"), N("ts3"), N("tu0"), N("R"),
  L("Dos"), T("y", <<"Si", "Si">>, ""), L("Si"), N("R"),
  L("Nunca"),
    Fin >>

Dos(a, b) == [n \in {"a", "b"} |-> IF n = "a" THEN a ELSE b]
MCPagina == {Dos(Principal, Llamado)}
MCTrabajos ==
    {[n \in {"a"} |-> Fuente(f)] : f \in Anidados}
    \cup {Dos(Principal, Llamado), [n \in {"a"} |-> Varios]}
=============================================================================

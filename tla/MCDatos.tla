-------------------------------- MODULE MCDatos --------------------------------
(***************************************************************************)
(* The sources that Programa compiles and runs, what users, clients,       *)
(* requests and files may give them, and what an array of the stack may    *)
(* hold.  F, Pide, D and the others abbreviate the pieces of a source.     *)
(***************************************************************************)
EXTENDS Programa

F(n)          == [t |-> "f", n |-> n]
Pide(n)       == [t |-> "m", n |-> n]
M             == [t |-> "M"]
D(id, ty, n)  == [t |-> "dato", id |-> id, ty |-> ty, n |-> n]
Abre(id)      == [t |-> "{", id |-> id]
Cierra        == [t |-> "}"]
L(id)         == [t |-> "[", id |-> id]
Def(id, v)    == [t |-> "#d", id |-> id, v |-> v]
I(c, letras, a) == [t |-> "ins", op |-> c, x |-> letras, a |-> a]
Fin           == [t |-> "fin"]

O(f, id, v)   == [f |-> f, id |-> id, v |-> v]
S(id)         == O("sim", id, 0)
Pos(id)       == O("pos", id, 0)
Tam(id)       == O("tam", id, 0)
Ind(id, w)    == O("ind", id, w)
C(n)          == O("cte", "", n)
T(bs)         == O("txt", "", bs)
Op(c)         == O("op", "", c)
Gato          == O("#", "", 0)
EleL          == O("l", "", "l")

-----------------------------------------------------------------------------
(* Dates typed in a form, moved and shown. *)
DeFechas == <<
    F(0), Pide(40), M, D("Hoy", "D", 0), D("Luego", "D", 0), D("Mas", "i", 0), D("Suma", "i", 0), D("Cero", "i", 0),
    D("Ley", "s", 9), D("Otra", "l", 0), F(0),
    I("&f", "0", <<>>),
    I("qf", "", <<S("Hoy"), C(10), S("Mas"), C(5)>>),
    I("(", "", <<S("Suma"), S("Mas"), S("Mas"), Op("*")>>), I("(", "", <<S("Cero"), C(0)>>),
    I("(", "", <<S("Luego"), S("Hoy")>>),
    I("&s", "M", <<S("Luego"), S("Mas")>>),
    I("&s", "Y", <<S("Hoy"), S("Mas")>>),
    I("&+", "", <<S("Luego"), S("Hoy"), S("Suma")>>),
    I("&d", "", <<S("Otra"), S("Luego"), S("Hoy")>>),
    I("&b", "", <<S("Luego")>>), I("&p", 4, <<S("Ley")>>),
    I("&-", "", <<S("Luego"), S("Luego"), S("Suma")>>),
    I("&+", "", <<S("Otra"), S("Hoy"), S("Mas")>>),
    I("(", "", <<S("Cero"), C(512)>>), I("&+", "", <<S("Otra"), S("Hoy"), S("Suma")>>),
    Fin>>

\* A date read from a text, and the clock.
DeReloj == <<
    F(1), Pide(46), M, D("Ley", "s", 9), D("Hoy", "D", 0), D("Luego", "D", 0), D("Entre", "l", 0), D("Dice", "s", 25),
    I("qf", "", <<S("Ley"), Gato>>),
    I("&l", "", <<S("Ley"), S("Hoy")>>), I("&f", "1", <<>>), I("&l", "", <<S("Ley"), S("Luego")>>),
    I("&d", "", <<S("Entre"), S("Luego"), S("Hoy")>>),
    I("&c", "", <<S("Luego")>>), I("&s", "h", <<S("Luego"), C(30)>>),
    I("&b", "", <<S("Hoy")>>), I("&p", 1, <<S("Ley")>>),
    I("&a", "", <<>>), I("&p", 2, <<S("Ley")>>), I("&p", 5, <<S("Ley")>>), I("&p", 3, <<S("Dice")>>),
    Fin>>

\* Two buffers, names of groups, arrays, a label, a name of a text; every instruction.
DeTextos == <<
    F(0), Pide(34), M, Abre("Nombre"), D("Pila", "s", 6), Abre("Apels"), D("Apel", "s", 5), D("Ini", "c", 0),
    Cierra, Cierra, D("Uno", "i", 0), D("Dos", "i", 0), D("Lar", "l", 0), D("Letras", "c", 5), D("Nota", "M", 0),
    L("Otra"), Def("HOLA", <<72, 79, 0>>),
    F(1), Pide(30), M, D("Tabla", "i", 4), D("Idx", "i", 0), D("Copia", "s", 12), D("Num", "e", 0),
    D("Cods", "C", 4), F(0),
    I("qf", "", <<S("Dos"), C(4), S("Uno"), C(4), S("Pila"), Gato>>),
    I("z", "", <<C(32), S("Apel"), Gato>>),
    I("Fs", "e", <<S("Apel"), Gato, S("Idx")>>),
    I("Fs", "l", <<S("Idx"), S("Pila")>>),
    I("(", "", <<S("Copia"), S("Pila"), S("Idx")>>),
    I("(", "", <<S("Copia"), S("Pila"), S("Lar")>>),
    I("Fs", "c", <<S("Copia"), S("HOLA")>>),
    I("(", "", <<S("Copia"), S("Pila"), Gato>>),
    I("Fs", "c", <<S("Copia"), S("Pila")>>),
    I("(", "", <<S("Pila"), S("Copia"), Tam("Pila")>>),
    I("(", "", <<S("Idx"), Tam("Apels"), C(1), Op("+")>>),
    I("(", "", <<S("Idx"), Tam("Nombre"), Pos("Dos"), Op("+"), C(20), Op("-")>>),
    I("(", "", <<Ind("Tabla", S("Idx")), S("Uno"), S("Dos"), Op("*")>>),
    I("(", "", <<S("Lar"), Ind("Tabla", C(6)), C(2), Op("*")>>),
    I(">", <<"i">>, <<S("Dos"), S("Copia"), C(4)>>),
    I(">", <<"s", "i">>, <<S("Copia"), C(4), S("Uno")>>),
    I("(", "", <<Ind("Cods", C(26)), T(<<65, 66>>), C(2)>>),
    I("z", "", <<S("Uno"), S("Nombre"), Gato>>),
    I("z", "", <<C(0), S("Copia"), C(0)>>), I("z", "", <<C(0), S("Num"), EleL>>),
    Fin>>

\* A name twice and a name that is none; a length that is of no type for it and one less
\* than zero.
ConErrores == <<
    F(0), Pide(13), M, Abre("Todo"), D("A", "i", 0), D("B", "i", 0), Cierra, D("A", "l", 0), D("Z", "l", 0), D("Car", "c", 0),
    I("(", "", <<S("A"), S("NoHay"), C(7), Op("+")>>),
    I("(", "", <<S("Z"), S("B"), S("A"), Op("-")>>),
    I("(", "", <<S("Todo"), T(<<1, 2, 3, 4>>), Gato>>),
    I("(", "", <<S("Car"), C(9)>>), I("(", "", <<S("Todo"), T(<<5, 6>>), S("Car")>>),
    I("(", "", <<S("B"), C(0), C(1), Op("-")>>), I("(", "", <<S("Todo"), T(<<7, 8>>), S("B")>>),
    Fin>>
-----------------------------------------------------------------------------
(* Comparisons.  Instruction 6 on, each jumps over the next one. *)
P(cm, n)  == [c |-> "cmp", cm |-> cm, n |-> n]
Y(a, b)   == [c |-> "&", y |-> a, z |-> b]
Bien(a, b) == [c |-> "|", y |-> a, z |-> b]
J(ins, pares, arbol, a) == I("!", [pares |-> pares, ir |-> ins + 2, arbol |-> arbol], a)
Jv(ins, pares, arbol, a) == I("!v", [pares |-> pares, ir |-> ins + 2, arbol |-> arbol], a)
Yy == [c |-> "&"]
Oo == [c |-> "|"]

DeComparar == <<
    F(0), Pide(40), M, D("Uno", "i", 0), D("Dos", "l", 0), D("T1", "s", 9), D("T2", "s", 9), D("Lar", "l", 0), D("Ch", "c", 0), D("Hoy", "D", 0),
    I("qf", "", <<S("Uno"), C(5), S("T1"), Gato>>),
    I("(", "", <<S("T2"), T(<<88, 65, 66, 32, 67, 0>>), C(6)>>),
    I("(", "", <<S("Dos"), S("Uno"), C(2), Op("*"), C(1), Op("-")>>),
    J(6, <<P(1, 1)>>, P(1, 1), <<S("Uno"), C(0)>>), I("s", "", <<S("Uno")>>),
    J(8, <<P(3, 1), P(2, 3), Oo>>, Bien(P(3, 1), P(2, 3)), <<S("Dos"), S("Uno"), S("Uno"), C(14)>>), I("f", "", <<C(0)>>),
    J(10, <<P(5, 1), P(0, 4), P(4, 6), Oo, Yy>>, Y(P(5, 1), Bien(P(0, 4), P(4, 6))),
      <<S("T1"), S("T2"), C(2), S("Uno"), C(0), S("Dos"), C(1)>>), I("f", "", <<C(1)>>),
    J(12, <<P(6, 1), P(0, 4), Yy, P(1, 6), Oo>>, Bien(Y(P(6, 1), P(0, 4)), P(1, 6)),
      <<S("T1"), S("T2"), C(8), S("Lar"), C(0), S("T1"), S("T2"), EleL>>), I("f", "", <<C(0)>>),
    J(14, <<P(3, 1), P(4, 4), Yy>>, Y(P(3, 1), P(4, 4)), <<S("T1"), T(<<32, 66, 44, 50, 41>>), C(2), S("Uno"), S("Lar")>>),
    I("f", "", <<C(1)>>),
    J(16, <<P(0, 1)>>, P(0, 1), <<S("Lar"), S("Hoy")>>), I("f", "", <<C(0)>>),
    J(18, <<P(6, 1)>>, P(6, 1), <<S("T1"), S("T2"), C(5)>>), I("f", "", <<C(0)>>),
    Fin>>

\* The same as the interpreter for VSAM files joins them.
DeCompararV == <<
    F(0), Pide(40), M, D("Uno", "i", 0), D("Dos", "l", 0), D("T1", "s", 9), D("T2", "s", 9),
    I("qf", "", <<S("Uno"), C(5), S("T1"), Gato>>),
    I("(", "", <<S("T2"), T(<<88, 65, 66, 32, 67, 0>>), C(6)>>),
    I("(", "", <<S("Dos"), S("Uno"), C(2), Op("*"), C(1), Op("-")>>),
    Jv(6, <<P(5, 1), Oo, P(0, 4), Yy, P(4, 6)>>, Y(Bien(P(5, 1), P(0, 4)), P(4, 6)),
       <<S("T1"), S("T2"), C(2), S("Uno"), C(0), S("Dos"), C(1)>>), I("f", "", <<C(0)>>),
    Jv(8, <<P(1, 1)>>, P(1, 1), <<S("Dos"), S("Uno")>>), I("f", "", <<C(0)>>),
    Fin>>

-----------------------------------------------------------------------------
(* What is written *)
Pf(n, coma) == [n |-> n, coma |-> coma]
DeEscribir == <<
    F(1), Pide(48), M, D("Uno", "i", 0), D("Lar", "l", 0), D("Ch", "c", 0), D("Pila", "s", 9), D("Todo", "s", 20), D("Hoy", "D", 0),
    D("Hora", "H", 0), F(1),
    I("z", "", <<C(70), S("Todo"), C(20)>>), I("z", "", <<C(0), S("Todo"), C(20)>>),
    I("p", Pf(0, FALSE), <<S("Hora")>>),
    I("qf", "", <<S("Uno"), C(5), S("Pila"), Gato>>),
    I("(", "", <<S("Lar"), S("Uno"), C(1234567), Op("*")>>), I("(", "", <<S("Ch"), S("Uno"), C(9), Op("+")>>),
    I("p", Pf(6, FALSE), <<S("Uno")>>), I("p", Pf(12, TRUE), <<S("Lar")>>), I("p", Pf(10, TRUE), <<S("Lar")>>), I("p", Pf(9, TRUE), <<S("Lar")>>), I("p", Pf(8, TRUE), <<S("Lar")>>),
    I("(", "", <<S("Lar"), S("Uno"), C(250), Op("*")>>), I("p", Pf(8, TRUE), <<S("Lar")>>), I("p", Pf(1, TRUE), <<S("Lar")>>),
    I("p", Pf(3, FALSE), <<S("Pila")>>), I("p", Pf(11, FALSE), <<S("Pila")>>), I("p", Pf(0, FALSE), <<S("Pila")>>),
    I("&c", "", <<S("Hoy")>>), I("p", Pf(0, FALSE), <<S("Hoy")>>), I("&f", "1", <<>>), I("p", Pf(0, FALSE), <<S("Hoy")>>),
    I("c", 42, <<C(3)>>), I("s", "", <<C(2)>>), I("\\", <<72, 79>>, <<>>),
    I("q+", "", <<S("Todo"), S("Pila"), T(<<44, 0>>), S("Ch"), S("Uno")>>),
    I("qu", "", <<S("Todo")>>), I("qr", "", <<S("Todo"), T(<<32, 0>>), T(<<95, 0>>)>>),
    I("z", "", <<C(0), S("Todo"), C(20)>>), I("q+", "", <<S("Todo"), S("Hoy")>>),
    I("qD", "", <<C(4), S("Todo"), S("Hoy")>>), I("qD", "", <<C(3), S("Todo"), S("Lar")>>),
    I("qD", "", <<C(1), S("Todo"), S("Lar")>>), I("qD", "", <<C(2), S("Todo"), S("Lar")>>),
    Fin>>

\* A place that is an index, and the size asked of it; texts whose name is there already;
\* sizes asked of an array and of a text, in instructions never run, which the next
\* operands get.  Instruction 5 goes on at 7, 7 at 10.
DeNombres == <<
    F(0), Pide(32), M, D("Uno", "i", 0), D("Dos", "l", 0), D("Tabla", "i", 3), D("Nota", "s", 6), D("Tres", "l", 0), D("Cual", "i", 0),
    Def("HOLA", <<72, 0>>), Def("HOLA", <<74, 79, 0>>), Def("Tres", <<51, 0>>), L("Aqui"),
    I("(", "", <<S("Uno"), Pos("Tabla")>>),
    I("z", "", <<C(65), Ind("Tabla", S("Uno")), Gato>>),
    J(5, <<P(0, 1)>>, P(0, 1), <<S("Uno"), C(6)>>),
    I("(", "", <<S("Cual"), Tam("HOLA"), Pos("Dos"), Op("+"), Tam("Tabla"), Op("+"), S("Uno"), Op("+")>>),
    I("!", [pares |-> <<P(0, 1)>>, ir |-> 10, arbol |-> P(0, 1)], <<S("Uno"), C(6)>>),
    I("(", "", <<S("Cual"), C(1), Tam("Tabla"), Op("+")>>), I("(", "", <<S("Cual"), S("Uno")>>),
    I("Fs", "c", <<S("Nota"), S("HOLA")>>), I("Fs", "c", <<S("Nota"), S("Tres")>>), I("Fs", "l", <<S("Uno"), S("Nota")>>),
    Fin>>

\* A date of MySQL, as its texts.
DeSqlTexto == <<
    F(0), Pide(40), M, D("Marca", "i", 6), D("Hoy", "D", 0), D("Ley", "s", 24), F(0),
    I("&c", "", <<S("Hoy")>>), I("qD", "", <<C(4), Ind("Marca", C(0)), S("Hoy")>>),
    I("qD", "", <<C(5), Ind("Marca", C(0)), S("Ley")>>), I("qD", "", <<C(6), Ind("Marca", C(0)), S("Ley")>>),
    I("qD", "", <<C(7), Ind("Marca", C(0)), S("Ley")>>), I("qD", "", <<C(8), Ind("Marca", C(0)), S("Ley")>>),
    Fin>>

-----------------------------------------------------------------------------
(* Requests of the web, sockets, the calculator *)
DeWeb == <<
    F(0), Pide(30), M, D("Cuantos", "i", 0), D("Nom", "s", 6), D("Edad", "i", 0), D("Alta", "D", 0), D("Saldo", "l", 0), D("Campo", "s", 3),
    I("Hi", "", <<S("Cuantos")>>),
    I("Hk", "", <<C(0), S("Campo"), C(2)>>), I("Hc", "", <<S("Nom"), C(5), C(0)>>),
    I("Hp", "", <<C(0), C(0)>>), I("Hp", "", <<C(1), C(0)>>), I("HP", "", <<T(<<78, 0>>)>>),
    I("Hc", "", <<S("Edad"), C(0), C(1)>>), I("HC", "", <<S("Saldo"), C(0), T(<<69, 0>>)>>),
    I("HC", "", <<S("Alta"), C(0), T(<<70, 61, 0>>)>>),
    Fin>>

\* A page: a form with its fields, and the tags of a text.
DePagina == <<
    F(0), Pide(30), M, D("Nom", "s", 6), D("Filas", "i", 0),
    I("z", "", <<C(78), S("Nom"), C(3)>>), I("(", "", <<S("Filas"), C(4)>>),
    I("Hf", "uno", <<>>), I("HF", "1", <<T(<<47, 97, 0>>), S("Nom")>>),
    I("HI", "t", <<C(12), C(1), S("Nom")>>), I("HI", "p", <<S("Filas"), C(0), S("Nom")>>),
    I("HI", "r", <<S("Nom"), T(<<49, 0>>), T(<<50, 0>>)>>), I("HI", "c", <<S("Nom"), T(<<49, 0>>)>>),
    I("HT", "b", <<S("Nom"), S("Filas"), C(40), C(1)>>), I("HT", "B", <<>>),
    I("Hs", "b", <<C(1), S("Nom"), C(0), T(<<65, 0>>), S("Nom")>>), I("Hs", "B", <<>>),
    I("HI", "b", <<T(<<79, 75, 0>>)>>), I("HI", "B", <<S("Nom")>>), I("HF", "0", <<>>), I("Hf", "siete", <<>>),
    Fin>>

\* Lines of a file, and places in it; instruction 11 goes on at 13, 15 at 17.
Ir(n) == [ir |-> n]
DeRenglones == <<
    F(0), Pide(44), M, D("Lugar", "l", 0), D("Otro", "l", 0), D("Nom", "s", 12), D("Lar", "i", 0), F(0),
    I("FO", "r", <<C(1)>>), I("FG", Ir(30), <<>>), I("Fk", "", <<S("Nom"), EleL>>), I("FL", "", <<S("Lugar")>>),
    I("FG", Ir(30), <<>>), I("Fk", "", <<S("Nom"), C(3)>>), I("FS", "", <<S("Lugar")>>),
    I("F!", Ir(13), <<T(<<69, 83, 0>>)>>), I("FT", "", <<>>), I("FG", Ir(30), <<>>),
    I("FE", "", <<>>), I("FG", Ir(17), <<>>), I("FT", "", <<>>), I("FS", "", <<S("Lugar")>>), I("FG", Ir(30), <<>>),
    I("F!", Ir(21), <<T(<<69, 83, 0>>)>>), I("FW", "", <<>>),
    I("Fc", "", <<C(20), T(<<72, 79, 0>>)>>), I("Fc", "", <<C(21), C(1)>>), I("FW", "", <<>>),
    I("FO", "r", <<C(2)>>), I("FG", Ir(32), <<>>), I("FG", Ir(32), <<>>), I("FG", Ir(32), <<>>), I("FG", Ir(32), <<>>),
    I("FO", "r", <<C(3)>>), I("FG", Ir(32), <<>>), I("FG", Ir(32), <<>>), Fin>>

\* Bytes written and read again, a damaged file, what the system says.
DeBytes == <<
    F(1), Pide(6), M, D("Rec", "s", 6), F(0), Pide(40), M, D("Nom", "s", 8), D("Lugar", "l", 0), D("Cuantos", "i", 0), D("Tarea", "i", 0), F(0),
    I("z", "", <<C(66), S("Nom"), C(7)>>),
    I("FO", "w", <<C(3)>>), I("Fw", "", <<S("Nom"), C(4)>>), I("Fw", "", <<S("Tarea"), C(1)>>),
    I("FL", "", <<S("Lugar")>>), I("FO", "r", <<C(3)>>), I("Fr", Ir(20), <<S("Nom"), C(3)>>), I("Fr", Ir(14), <<S("Nom"), C(3)>>),
    I("FW", "", <<>>), F(1),
    I("tsr", "", <<>>), I("tsr", "", <<>>), I("tsr", "", <<>>), I("tsr", "", <<>>), I("tsr", "", <<>>), I("tsr", "", <<>>),
    I("tsP", "", <<S("Lugar")>>), I("$i", "", <<S("Cuantos")>>), I("$s", "", <<C(1), S("Nom")>>),
    I("tt", "t", <<S("Tarea")>>), I("tt", "c", <<S("Tarea")>>), I("tt", "r", <<S("Tarea")>>), I("tt", "u", <<S("Nom")>>),
    I("FO", "r", <<C(9)>>), I("Fk", "", <<S("Nom"), EleL>>), I("FT", "", <<>>), Fin>>

Servidor == <<
    F(0), Pide(24), M, D("Sock", "l", 0), D("Cli", "l", 0), D("Buf", "s", 6), D("Lei", "l", 0),
    I("Js", "", <<S("Sock")>>), I("Jb", "", <<C(2828), S("Sock")>>), I("Jl", "", <<S("Sock"), C(5)>>),
    I("Ja", "", <<S("Sock")>>), I("Jr", "", <<S("Sock"), S("Buf"), C(5), S("Lei")>>),
    I("Jr", "", <<S("Sock"), S("Buf"), C(5), S("Lei")>>), I("Jw", "", <<S("Sock"), S("Buf"), S("Lei"), S("Lei")>>),
    I("Jc", "", <<S("Sock")>>), I("Jr", "", <<S("Sock"), S("Buf"), C(5), S("Lei")>>),
    Fin>>
Servidores == <<
    F(0), Pide(24), M, D("Sock", "l", 0), D("Cli", "l", 0), D("Buf", "s", 6), D("Lei", "l", 0),
    I("Js", "", <<S("Sock")>>), I("Jl", "", <<S("Sock"), C(5)>>), I("JA", "", <<S("Sock"), S("Cli")>>),
    I("Jr", "", <<S("Cli"), S("Buf"), C(5), S("Lei")>>), I("Jc", "", <<S("Cli")>>), I("JA", "", <<S("Sock"), S("Cli")>>),
    I("Js", "", <<S("Lei")>>), I("Js", "", <<S("Lei")>>), I("Js", "", <<S("Lei")>>),
    Fin>>
Cliente == <<
    F(0), Pide(20), M, D("Sock", "l", 0), D("Buf", "s", 6), D("Lei", "l", 0),
    I("Js", "", <<S("Sock")>>), I("JC", "", <<T(<<49, 0>>), C(2828), S("Sock")>>),
    I("Jw", "", <<S("Sock"), S("Buf"), C(3), S("Lei")>>), I("Jr", "", <<S("Sock"), S("Buf"), C(2), S("Lei")>>),
    Fin>>
DeCuentas == <<F(0), Pide(4), M, D("Uno", "l", 0), I("ttl", "", <<>>), I("&c", "", <<S("Uno")>>), Fin>>

-----------------------------------------------------------------------------
(* Files unloaded *)
K(typ, n) == [typ |-> typ, n |-> n]
Cat  == <<K("s", 5), K("i", 0), K("n", 2), K("l", 0), K("D", 0), K("F", 8), K("T", 0), K("s", 3)>>
CatP == <<K("s", 5), K("i", 0), K("l", 0), K("D", 0), K("T", 0), K("n", 2)>>
CatF == <<K("F", 8), K("s", 5), K("F", 8), K("i", 0)>>
CatA == <<K("n", 1), K("i", 0), K("s", 4), K("D", 0), K("l", 0)>>
Ocho == <<50, 48, 49, 48, 48, 50, 51, 48>>
OchoB == <<50, 48, 49, 50, 48, 49, 50, 57>>
Bytes4(v) == EnBytes(v, 4)
RegA(nom, num, dia, fecha, fin) ==
    nom \o EnBytes(num, 2) \o <<7, 9>> \o Bytes4(-num) \o Bytes4(dia) \o fecha \o Bytes4(dia) \o fin
RegP(nom, num, dia) == nom \o EnBytes(num, 2) \o Bytes4(num * 1000) \o Bytes4(dia) \o Bytes4(dia) \o <<1, 2>>
Vsam(regs) == [dat |-> regs, vpk |-> 2, proxi |-> <<3, 1, 0>>, vivos |-> {1, 2, 3}]
Plano(regs) == [dat |-> regs, vpk |-> 0, proxi |-> <<>>, vivos |-> {2, 3}]
Nom1 == <<65, 32, 66, 32, 32>>
Nom2 == <<65, 66, 0, 32, 67>>
Nom3 == <<32, 32, 32, 32, 32>>
RegsA == <<RegA(Nom1, 1, 1500000000, Ocho, <<67, 68, 69>>), RegA(Nom2, -20, 86399, OchoB, <<32, 0, 32>>),
           RegA(Nom3, 0, 951868800, OchoB, <<32, 67, 32>>)>>
RegsP == <<RegP(Nom1, 1, 1500000000), RegP(Nom2, -20, 86399), RegP(Nom3, 12345, 951868800)>>
RegAa(num, dia) == <<9>> \o EnBytes(num, 2) \o <<65, 66, 32, 32>> \o Bytes4(dia) \o Bytes4(num)
RegF(nom, num, fecha) == fecha \o nom \o fecha \o EnBytes(num, 2)
RegsF == <<RegF(Nom1, 1, OchoB), RegF(Nom2, -20, Ocho), RegF(Nom3, 0, OchoB)>>
RegsAa == <<RegAa(1, 0), RegAa(2, 1500000000), RegAa(-3, 951868800)>>
X(prog, cat, q, pos, d, regs) ==
    I("x", [prog |-> prog, cat |-> cat, q |-> q, p |-> pos, d |-> d, regs |-> regs], <<>>)
Comilla == 39

DeDescargas == <<
    F(0), Pide(1),
    X("parcar", Cat, FALSE, FALSE, Comilla, Vsam(RegsA)), X("parcar", Cat, FALSE, TRUE, Comilla, Vsam(RegsA)),
    X("parcar", CatP, TRUE, FALSE, 34, Vsam(RegsP)), X("parcar", Cat, FALSE, FALSE, Comilla, [Vsam(<<>>) EXCEPT !.vivos = {}, !.vpk = 0]),
    X("parcar1", Cat, FALSE, FALSE, 34, Plano(RegsA)), X("parcar1", CatP, FALSE, TRUE, 34, Plano(RegsP)),
    X("parcar9", CatP, FALSE, FALSE, Comilla, Vsam(RegsP)), X("parcar9", CatP, FALSE, TRUE, Comilla, Vsam(RegsP)),
    X("parcar19", CatP, FALSE, FALSE, Comilla, Plano(RegsP)), X("parcar19", CatP, TRUE, TRUE, Comilla, Plano(RegsP)),
    X("parcar1a", CatA, FALSE, FALSE, Comilla, Plano(RegsAa)),
    X("parcar", CatF, FALSE, TRUE, Comilla, Vsam(RegsF)), X("parcar1", CatF, FALSE, TRUE, Comilla, Plano(RegsF)),
    Fin>>
-----------------------------------------------------------------------------
MCFuentes == <<DeFechas, DeReloj, DeTextos, ConErrores, DeComparar, DeCompararV, DeEscribir, DeSqlTexto,
               DeNombres, DeWeb, Servidor, Servidores, Cliente, DeCuentas, DeDescargas,
               DePagina, DeRenglones, DeBytes>>

\* West of Greenwich the interpreter for VSAM files, east of it the one for MySQL.
ConVsam  == [zona |-> 21600, vsamd |-> TRUE]
ConMySql == [zona |-> -3600, vsamd |-> FALSE]
Ambas    == {ConVsam, ConMySql}
MCMaquinas == <<Ambas, Ambas, Ambas, Ambas, {ConMySql}, {ConVsam}, {ConMySql}, {ConMySql},
                {ConMySql}, Ambas, {ConMySql}, {ConMySql}, {ConMySql}, {ConMySql}, Ambas,
                {ConMySql}, Ambas, {ConVsam}>>

DosCifras(d) == Texto(d, 2)
Fecha(d, m, a, n) == DosCifras(d) \o <<Barra>> \o DosCifras(m) \o <<Barra>> \o Texto(a, n)
MCTecleos == [ty \in {"s", "i", "l", "D"} |->
    CASE ty = "s" -> {<<65, 66, 32>>, <<32, 67>>, Fecha(15, 2, 99, 2), Fecha(30, 2, 10, 2), Fecha(12, 11, 12, 2)}
      [] ty \in {"i", "l"} -> {<<32, 49>>, <<49, 52>>, <<45, 51>>, <<48>>}
      [] ty = "D" -> {Fecha(d, m, a, 4) : d \in {1, 27, 29, 31}, m \in 1..12, a \in {2000, 2011}}]
MCHoras == {1500000000}

Letra(c) == <<c>>
MCPedidos == {<<>>,
              << <<Letra(78), <<65, 32, 98>> >>, <<Letra(69), <<49, 50>> >>, << <<70, 61>>, Fecha(15, 2, 2010, 4)>> >>,
              << <<Letra(78), <<38, 43, 37, 61, 233, 200, 49>> >>, <<Letra(69), <<45, 51>> >> >>,
              << <<Letra(78), <<>> >>, <<Letra(69), <<51>> >>, << <<70, 61>>, Fecha(31, 2, 2010, 4)>> >> }
MCArchivos == << <<72, 79, 76, 65, 10, 69, 83, 10, 85, 78, 79, 10>>,
                 <<65, 66, 67, 68, 69, 70, 71, 72, 73, 74, 75, 76, 77, 10, 83, 73, 10, 70, 73, 78>>,
                 <<83, 73, 10, 70, 73, 78>> >>
MCMaestro == <<9, 9, 30, 0, 5, 0, 9, 9, 9, 30, 0, 6, 0, 65, 66, 7, 30, 0, 6, 0, 67, 30, 1, 1, 1, 1, 1, 1, 1, 1,
               30, 0, 6, 0, 70, 71, 0, 0, 0, 0, 0, 30, 0, 6, 0, 72, 73, 0, 0, 0, 30, 0, 6, 0, 74, 75>>
MCEntorno == [args |-> << <<49>>, <<65, 66>> >>, pid |-> 70000, maxx |-> 79, maxy |-> 24, usuario |-> <<97, 98>>]
MCTextos == [c1 |-> <<72, 79, 76, 65>>, c2 |-> <<65, 68, 73, 79, 83, 33, 33>>]
MCTeclas == {"1", "2", "+", "-", "*", "/", "=", "C", "D"}
MCBasuras == {[k \in 1..4 |-> Nulo], <<"9", "9", Nulo, "9">>}
=============================================================================

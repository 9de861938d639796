----------------------------- MODULE SqlCursor -----------------------------
(***************************************************************************)
(* The MySQL instructions of vsqrun.c and the statements and columns that  *)
(* solsq.c prepares for them.  A file (f1, f2, ...) has up to MAXSTMT      *)
(* cursors (k0, k1, ...); every cursor keeps the text that kp or kq gave   *)
(* it and the statement it was prepared into, but the columns that the     *)
(* program reads belong to the file.  The active file and cursor, what the *)
(* next n must do (from), the last answer of the library (sqres_fetch) and *)
(* the label of Q are global to the program, which is connected from the   *)
(* start (O@).                                                             *)
(*                                                                         *)
(* The library (statements, rows of an executed query, the memory that     *)
(* bound columns point to) is external.  A program is any sequence of      *)
(* instructions; P is for queries and P$ for changes, as the manual asks   *)
(* (doc/vpgsql.htm).                                                       *)
(***************************************************************************)
EXTENDS Integers, Sequences, FiniteSets

CONSTANTS
    Archivos,           \* the files a program uses
    Cursores,           \* the cursors of each file, 0 among them
    Consultas,          \* texts of queries ...
    Cambios,            \* ... and of INSERT, UPDATE and DELETE
    Filas,              \* the rows each query finds
    MaxSent,            \* bound: statements that a program prepares ...
    MaxMem,             \* ... times it binds columns ...
    MaxTextos           \* ... and cursors that have a text at a time

SinTexto == ""

ASSUME SqlSupuesto ==
    /\ 0 \in Cursores
    /\ Archivos # {} 
    /\ Consultas \cap Cambios = {}
    /\ Filas \in [Consultas -> Nat]
    /\ SinTexto \notin Consultas \cup Cambios
    /\ MaxSent \in Nat /\ MaxMem \in Nat /\ MaxTextos \in Nat

VARIABLES
    aa, ik,             \* the active file and the active cursor
    ar,                 \* the files
    from, sqres,        \* from and sqres_fetch
    qptr,               \* the label that Q gave: "nulo" or "dado"
    sent,               \* every statement that mysql_stmt_init returned
    mem,                \* every buffer that vSQLBind took: the row in it
    ultima,             \* history: the statement each file executed last
    pide,               \* history: the cursor that the last a or P was for
    leyo,               \* history: the statement of the last n, the rows that had been
                        \* read of it, and whether the program went to the label
    fase                \* "vive", "fin" (exit) or "roto" (undefined behaviour)

biblioteca == <<sent, mem>>
vars == <<aa, ik, ar, from, sqres, qptr, biblioteca, ultima, pide, leyo, fase>>

Textos == Consultas \cup Cambios
Nadie == <<>>
NoLeyo == [s |-> 0, antes |-> 0, salto |-> FALSE]

(* A file as memset leaves it.                                             *)
Limpio ==
    [ik |-> 0, hdbc |-> FALSE, dat |-> 0,
     pun |-> [k \in Cursores |-> SinTexto], pre |-> [k \in Cursores |-> FALSE],
     hstmt |-> [k \in Cursores |-> 0]]

Init ==
    /\ aa \in Archivos /\ ik = 0
    /\ ar = [f \in Archivos |-> Limpio]
    /\ from = "" /\ sqres = "bien" /\ qptr = "nulo"
    /\ sent = <<>> /\ mem = <<>>
    /\ ultima = [f \in Archivos |-> 0] /\ pide = Nadie /\ leyo = NoLeyo
    /\ fase = "vive"

-----------------------------------------------------------------------------

Actual == ar[aa].hstmt[ik]
Sirve(s) == s # 0 /\ sent[s].viva
Cierra(ss) == [s \in DOMAIN sent |-> IF s \in ss THEN [sent[s] EXCEPT !.viva = FALSE] ELSE sent[s]]

(* The process ends, and its memory with it: exit, or behaviour that C     *)
(* does not define.                                                        *)
Acaba(como) ==
    /\ fase' = como
    /\ ar' = [f \in Archivos |-> Limpio]
    /\ from' = "" /\ sqres' = "bien" /\ qptr' = "nulo"
    /\ sent' = <<>> /\ mem' = <<>>
    /\ ultima' = [f \in Archivos |-> 0] /\ pide' = Nadie /\ leyo' = NoLeyo
    /\ ik' = 0 /\ aa' = aa
Rompe == Acaba("roto")

(* What an instruction that reads nothing does to the history of readings.  *)
SinLeer == pide' = Nadie /\ leyo' = NoLeyo

(* f1; makes a file active, and its cursor with it; k1; one of its cursors. *)
Archivo(f) ==
    /\ aa' = f /\ ik' = ar[f].ik
    /\ UNCHANGED <<ar, from, sqres, qptr, biblioteca, ultima, pide, leyo, fase>>

Cursor(k) ==
    /\ ik' = k
    /\ ar' = [ar EXCEPT ![aa].ik = k]
    /\ UNCHANGED <<aa, from, sqres, qptr, biblioteca, ultima, pide, leyo, fase>>

(* Q keeps a label for the instructions that report a failure.             *)
Etiqueta ==
    /\ qptr' = "dado"
    /\ UNCHANGED <<aa, ik, ar, from, sqres, biblioteca, ultima, pide, leyo, fase>>

(* ot clears the whole file and gives it the program's connection: its     *)
(* statements are lost, not closed.                                        *)
Tabla ==
    /\ ar' = [ar EXCEPT ![aa] = [Limpio EXCEPT !.hdbc = TRUE]]
    /\ ultima' = [ultima EXCEPT ![aa] = 0]
    /\ SinLeer
    /\ UNCHANGED <<aa, ik, from, sqres, qptr, biblioteca, fase>>

(* kp and kq keep the text; the statement is prepared by the next P.       *)
Apunta(t) ==
    /\ ar' = [ar EXCEPT ![aa].pun[ik] = t, ![aa].pre[ik] = FALSE]
    /\ UNCHANGED <<aa, ik, from, sqres, qptr, biblioteca, ultima, pide, leyo, fase>>

-----------------------------------------------------------------------------

(* vSQL_Prepare_STMT: a new statement for the cursor; the one it had stays *)
(* open and nothing points to it any more.                                 *)
Nueva == [texto |-> ar[aa].pun[ik], viva |-> TRUE, bufer |-> 0, quedan |-> 0, leidas |-> 0, hecha |-> FALSE]
Preparadas == IF ar[aa].pre[ik] THEN sent ELSE Append(sent, Nueva)
DelCursor == IF ar[aa].pre[ik] THEN Actual ELSE Len(sent) + 1

ListaPre(s) == [ar EXCEPT ![aa].pre[ik] = TRUE, ![aa].hstmt[ik] = s]

(* The file's own memory, if it has some: what a bind that leaks nothing    *)
(* would take.                                                             *)
BuferDelArchivo == IF ar[aa].dat # 0 THEN ar[aa].dat ELSE Len(mem) + 1

(* P prepares if it must, executes, binds the columns of the file to the   *)
(* statement and stores the rows.  Every bind takes new memory and points  *)
(* the file to it; what another cursor of the file was bound to stays as   *)
(* it was.                                                                 *)
BuferNuevo == Len(mem) + 1

Ejecutada(s, b) ==
    [Preparadas EXCEPT ![s].bufer = b, ![s].quedan = Filas[Preparadas[s].texto],
                       ![s].leidas = 0, ![s].hecha = TRUE]

(* A P that forgets to say that the next n reads.                          *)
PorLeerIgual == from
PorLeer == "a"

Ejecuta ==
    LET s == DelCursor
        b == BuferNuevo
    IN /\ ar[aa].pun[ik] \in Consultas
       /\ sent' = Ejecutada(s, b)
       /\ mem' = IF b > Len(mem) THEN Append(mem, <<0, 0>>) ELSE mem
       /\ ar' = [ListaPre(s) EXCEPT ![aa].dat = b]
       /\ from' = PorLeer
       /\ sqres' = "bien"
       /\ ultima' = [ultima EXCEPT ![aa] = s]
       /\ pide' = <<aa, ik>> /\ leyo' = NoLeyo
       /\ UNCHANGED <<aa, ik, qptr, fase>>

(* P$ takes the answer of mysql_stmt_execute, 0 when it succeeds, for a    *)
(* failure: it goes to the label of Q when the change was made, and on     *)
(* when it was not.  Without a label err closes the statement, its cursor  *)
(* keeps pointing to it, and the program starts again.                     *)
Cambia ==
    LET s == DelCursor
    IN /\ ar[aa].pun[ik] \in Cambios
       /\ ar' = ListaPre(s)
       /\ from' = ""
       /\ \/ sqres' = "error" /\ sent' = Preparadas
          \/ /\ sqres' = "bien"
             /\ sent' = [Preparadas EXCEPT ![s].viva = (qptr = "dado"), ![s].hecha = TRUE]
       /\ SinLeer
       /\ UNCHANGED <<aa, ik, qptr, mem, ultima, fase>>

(* P and P$ on a cursor without text, on a file without table, or on a     *)
(* statement that err closed.                                              *)
SinSentencia ==
    \/ ar[aa].pun[ik] = SinTexto
    \/ ~ar[aa].pre[ik] /\ ~ar[aa].hdbc
    \/ ar[aa].pre[ik] /\ ~Sirve(Actual)

(* A sentence that cannot be prepared ends the program, and so does a      *)
(* query whose execution fails: vSQLBind goes on after it, and             *)
(* mysql_stmt_store_result reports it.                                     *)
Falla ==
    /\ ~ar[aa].pre[ik] \/ ar[aa].pun[ik] \in Consultas
    /\ Acaba("fin")

P ==
    \/ SinSentencia /\ Rompe
    \/ ~SinSentencia /\ Falla
    \/ ~SinSentencia /\ Ejecuta
    \/ ~SinSentencia /\ Cambia

-----------------------------------------------------------------------------

(* a, b and T only say that the next n must read.  from_a, from_b and      *)
(* from_T are one here: where n tells them apart the calls that moved the  *)
(* cursor back or to the first row are commented out, and all three fetch. *)
Avanza ==
    /\ from' = "a"
    /\ pide' = <<aa, ik>> /\ leyo' = NoLeyo
    /\ UNCHANGED <<aa, ik, ar, sqres, qptr, biblioteca, ultima, fase>>

(* qx only cancels what the next n would do: the sentence is not executed. *)
Directa ==
    /\ from' = ""
    /\ SinLeer
    /\ UNCHANGED <<aa, ik, ar, sqres, qptr, biblioteca, ultima, fase>>

(* mysql_stmt_fetch: a row goes to the memory that the statement is bound  *)
(* to; a change has no rows, which is an error.                            *)
Respuesta(s) ==
    IF ~(sent[s].hecha /\ sent[s].texto \in Consultas) THEN "error"
    ELSE IF sent[s].quedan = 0 THEN "nodata" ELSE "bien"

Fila(s) == <<s, sent[s].leidas + 1>>
Trae(s) ==
    IF Respuesta(s) = "bien"
    THEN /\ sent' = [sent EXCEPT ![s].quedan = @ - 1, ![s].leidas = @ + 1]
         /\ mem' = [mem EXCEPT ![sent[s].bufer] = Fila(s)]
    ELSE UNCHANGED biblioteca

(* n, N and r.  An answer that is not the end counts as a row, an error    *)
(* too; the end sends the program to the label of n, and so does every n   *)
(* after it until something sets from.                                     *)
Salta(res) == res = "nodata"

Lee ==
    LET s == Actual
        res == IF from = "a" THEN Respuesta(s) ELSE IF from = "no" THEN "nodata" ELSE sqres
    IN IF from = "a" /\ ~Sirve(s)
       THEN Rompe
       ELSE /\ IF from = "a" THEN Trae(s) ELSE UNCHANGED biblioteca
            /\ sqres' = res
            /\ from' = IF Salta(res) THEN "no" ELSE ""
            /\ leyo' = IF pide = <<aa, ik>>
                        THEN [s |-> s, antes |-> sent[s].leidas, salto |-> Salta(res)] ELSE NoLeyo
            /\ pide' = Nadie
            /\ UNCHANGED <<aa, ik, ar, qptr, ultima, fase>>

(* C closes the statements of the file's cursors and clears it; one that   *)
(* err had closed is closed twice.                                         *)
Suyas(f) == {ar[f].hstmt[k] : k \in Cursores} \ {0}

Termina ==
    IF \E s \in Suyas(aa) : ~sent[s].viva
    THEN Rompe
    ELSE /\ sent' = Cierra(Suyas(aa))
         /\ ar' = [ar EXCEPT ![aa] = [Limpio EXCEPT !.hdbc = ar[aa].hdbc]]
         /\ ultima' = [ultima EXCEPT ![aa] = 0]
         /\ SinLeer
         /\ UNCHANGED <<aa, ik, from, sqres, qptr, mem, fase>>

ConTexto == {c \in Archivos \X Cursores : ar[c[1]].pun[c[2]] # SinTexto}

Instruccion ==
    \/ \E f \in Archivos : Archivo(f)
    \/ \E k \in Cursores : Cursor(k)
    \/ Cardinality(ConTexto) < MaxTextos /\ \E t \in Textos : Apunta(t)
    \/ Etiqueta \/ Tabla
    \/ (Len(sent) < MaxSent \/ ar[aa].pre[ik]) /\ Len(mem) < MaxMem /\ P
    \/ Avanza \/ Directa \/ Lee \/ Termina

Next == fase = "vive" /\ Instruccion

Spec == Init /\ [][Next]_vars

-----------------------------------------------------------------------------

(* The columns of a file are those of the cursor that it executed last:    *)
(* they hold no row, or a row of that cursor, whatever the other cursors   *)
(* of the file or of other files have read since.  This rests on vSQLBind  *)
(* taking new memory each time (solsq.c:79) and never freeing what other   *)
(* statements still point to.                                              *)
Columnas ==
    \A f \in Archivos : ar[f].dat # 0 =>
        /\ ultima[f] # 0
        /\ sent[ultima[f]].bufer = ar[f].dat
        /\ mem[ar[f].dat][1] \in {0, ultima[f]}

(* The n that follows a P, an a, a b or a T of the same cursor, with        *)
(* whatever other cursors did in between, goes to its label exactly when    *)
(* all the rows of the query had been read, and otherwise reads the one     *)
(* after the last that was read: every row once, in their order and never   *)
(* backwards, b and T included (vsqrun.c:160-218; doc/vpgsql.htm:269 says   *)
(* that b goes to the row before).  If its cursor is the one that the file  *)
(* executed last, that row is what the program has before it.               *)
LecturaFiel ==
    leyo.s # 0 /\ sent[leyo.s].texto \in Consultas =>
        LET s == sent[leyo.s]
        IN /\ leyo.salto <=> leyo.antes = Filas[s.texto]
           /\ s.leidas = leyo.antes + IF leyo.salto THEN 0 ELSE 1
           /\ ~leyo.salto /\ ultima[aa] = leyo.s /\ ar[aa].dat # 0 =>
                mem[ar[aa].dat] = <<leyo.s, s.leidas>>

=============================================================================

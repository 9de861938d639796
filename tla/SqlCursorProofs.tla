-------------------------- MODULE SqlCursorProofs --------------------------
(***************************************************************************)
(* For any number of files, cursors, sentences and executions, the columns *)
(* of a file hold the rows of the statement that it executed last, and n   *)
(* reads the rows of a query in order until it leaves by its label.        *)
(*                                                                         *)
(* The argument is about who points to what: no two statements were bound  *)
(* to the same memory (Propios), no statement serves two files (Duenos),   *)
(* and what a cursor has prepared is its text (Preparados).                *)
(***************************************************************************)
EXTENDS SqlCursor, TLAPS

Sentencias == [texto : Textos, viva : BOOLEAN, bufer : Nat, quedan : Nat,
               leidas : Nat, hecha : BOOLEAN]
FilasLeidas == Nat \X Nat
Fichas == [ik : Cursores, hdbc : BOOLEAN, dat : Nat,
           pun : [Cursores -> Textos \cup {SinTexto}], pre : [Cursores -> BOOLEAN],
           hstmt : [Cursores -> Nat]]

Tipo ==
    /\ aa \in Archivos /\ ik \in Cursores
    /\ ar \in [Archivos -> Fichas]
    /\ sent \in Seq(Sentencias) /\ mem \in Seq(FilasLeidas)
    /\ ultima \in [Archivos -> Nat]
    /\ leyo \in [s : Nat, antes : Nat, salto : BOOLEAN]

\* A query in memory was executed, its rows are those read and those left, and it is bound
\* to memory of its own, with a row of its own or none.
Propios ==
    \A s \in DOMAIN sent :
        /\ sent[s].texto \in Consultas =>
              /\ sent[s].hecha /\ sent[s].bufer # 0
              /\ sent[s].leidas + sent[s].quedan = Filas[sent[s].texto]
        /\ sent[s].bufer # 0 => /\ sent[s].bufer \in DOMAIN mem
                                /\ mem[sent[s].bufer][1] \in {0, s}
                                /\ \A r \in DOMAIN sent : sent[r].bufer = sent[s].bufer => r = s

\* The statements of a file, those that its cursors point to and the one that it
\* executed last, are of no other file.
Duenos ==
    \A f \in Archivos :
        /\ ultima[f] # 0 => ultima[f] \in DOMAIN sent /\ sent[ultima[f]].hecha
        /\ \A g \in Archivos : ultima[f] # 0 /\ ultima[g] = ultima[f] => g = f
        /\ \A g \in Archivos, k \in Cursores :
              ultima[f] # 0 /\ ar[g].hstmt[k] = ultima[f] => g = f
        /\ \A k \in Cursores : ar[f].hstmt[k] # 0 => ar[f].hstmt[k] \in DOMAIN sent
        /\ \A g \in Archivos, k, l \in Cursores :
              ar[f].hstmt[k] # 0 /\ ar[g].hstmt[l] = ar[f].hstmt[k] => g = f /\ l = k

\* What a cursor has prepared is its text.
Preparados ==
    \A f \in Archivos, k \in Cursores : ar[f].pre[k] =>
        ar[f].hstmt[k] \in DOMAIN sent /\ sent[ar[f].hstmt[k]].texto = ar[f].pun[k]

\* A file's columns are in the memory of the statement it executed last.
Enlazados ==
    \A f \in Archivos : ar[f].dat # 0 => ultima[f] # 0 /\ sent[ultima[f]].bufer = ar[f].dat

\* What the last n met, whichever file is active now.
Leido ==
    /\ pide # Nadie => from = "a"
    /\ leyo.s # 0 =>
         /\ leyo.s \in DOMAIN sent
         /\ sent[leyo.s].texto \in Consultas =>
              /\ leyo.salto <=> leyo.antes = Filas[sent[leyo.s].texto]
              /\ sent[leyo.s].leidas = leyo.antes + IF leyo.salto THEN 0 ELSE 1
              /\ ~leyo.salto => mem[sent[leyo.s].bufer] = <<leyo.s, sent[leyo.s].leidas>>

IInv == Tipo /\ Propios /\ Duenos /\ Preparados /\ Enlazados /\ Leido

\* The two properties follow from the invariant.
LEMMA Bastan == IInv => Columnas /\ LecturaFiel
<1> SUFFICES ASSUME IInv PROVE Columnas /\ LecturaFiel
  OBVIOUS
<1>1. Columnas
  BY DEF IInv, Tipo, Propios, Duenos, Enlazados, Columnas
<1>2. LecturaFiel
  BY DEF IInv, Tipo, Propios, Duenos, Enlazados, Leido, LecturaFiel
<1> QED
  BY <1>1, <1>2

-----------------------------------------------------------------------------
(* Changes of one field, of one place *)

LEMMA SeqCambia ==
  ASSUME NEW S, NEW q \in Seq(S), NEW i \in DOMAIN q, NEW x \in S
  PROVE  /\ [q EXCEPT ![i] = x] \in Seq(S) /\ DOMAIN [q EXCEPT ![i] = x] = DOMAIN q
         /\ [q EXCEPT ![i] = x][i] = x
         /\ \A j \in DOMAIN q \ {i} : [q EXCEPT ![i] = x][j] = q[j]
  OBVIOUS

LEMMA Ligada ==
  ASSUME NEW x \in Sentencias, NEW b \in Nat, NEW n \in Nat
  PROVE  [x EXCEPT !.bufer = b, !.quedan = n, !.leidas = 0, !.hecha = TRUE] \in Sentencias
  BY DEF Sentencias

LEMMA Avanzada ==
  ASSUME NEW x \in Sentencias, x.quedan # 0
  PROVE  [x EXCEPT !.quedan = @ - 1, !.leidas = @ + 1] \in Sentencias
<1>1. x.quedan - 1 \in Nat /\ x.leidas + 1 \in Nat
  BY DEF Sentencias
<1>2. ASSUME NEW a \in Nat, NEW b \in Nat
      PROVE  [x EXCEPT !.quedan = a, !.leidas = b] \in Sentencias
  BY DEF Sentencias
<1> QED
  BY <1>1, <1>2

LEMMA ConDat ==
  ASSUME NEW F \in [Archivos -> Fichas], NEW a \in Archivos, NEW b \in Nat
  PROVE  /\ [F EXCEPT ![a].dat = b] \in [Archivos -> Fichas]
         /\ \A f \in Archivos :
               /\ [F EXCEPT ![a].dat = b][f].dat = IF f = a THEN b ELSE F[f].dat
               /\ [F EXCEPT ![a].dat = b][f].pun = F[f].pun
               /\ [F EXCEPT ![a].dat = b][f].pre = F[f].pre
               /\ [F EXCEPT ![a].dat = b][f].hstmt = F[f].hstmt
  BY DEF Fichas

-----------------------------------------------------------------------------
(* The first state *)

LEMMA LimpioTipo == Limpio \in Fichas
  BY SqlSupuesto DEF Limpio, Fichas

\* A file just opened, and a program that ends, have nothing.
Nuevo == /\ aa \in Archivos /\ ik = 0 /\ ar = [f \in Archivos |-> Limpio]
         /\ sent = <<>> /\ mem = <<>> /\ ultima = [f \in Archivos |-> 0]
         /\ pide = Nadie /\ leyo = NoLeyo
LEMMA DeNuevo == Nuevo => IInv
<1> SUFFICES ASSUME Nuevo PROVE IInv
  OBVIOUS
<1>1. Tipo
  BY LimpioTipo, SqlSupuesto DEF Nuevo, Tipo, NoLeyo
<1>2. Propios /\ Duenos /\ Preparados /\ Enlazados /\ Leido
  BY DEF Nuevo, Propios, Duenos, Preparados, Enlazados, Leido, NoLeyo, Limpio
<1> QED
  BY <1>1, <1>2 DEF IInv

LEMMA AcabaDeNuevo == ASSUME IInv, NEW como, Acaba(como) PROVE IInv'
<1>1. Nuevo'
  BY DEF Acaba, Nuevo, IInv, Tipo
<1>2. Nuevo' => IInv'
  BY DeNuevo, PTL
<1> QED
  BY <1>1, <1>2
-----------------------------------------------------------------------------
(* One lemma per instruction *)

\* What only chooses, notes or skips leaves the statements and their memory alone.
LEMMA SinBiblioteca ==
  ASSUME IInv, UNCHANGED <<biblioteca, ultima, leyo>>,
         aa' \in Archivos, ik' \in Cursores,
         \A f \in Archivos : /\ ar'[f].hstmt = ar[f].hstmt /\ ar'[f].dat = ar[f].dat
                             /\ \A k \in Cursores : ar'[f].pre[k] =>
                                    ar[f].pre[k] /\ ar'[f].pun[k] = ar[f].pun[k],
         ar' \in [Archivos -> Fichas],
         pide' # Nadie => from' = "a"
  PROVE  IInv'
<1> USE DEF IInv, biblioteca
<1>1. Tipo'
  BY DEF Tipo
<1>2. Propios' /\ Enlazados'
  BY DEF Propios, Enlazados
<1>3. Duenos' /\ Preparados'
  BY DEF Duenos, Preparados
<1>4. Leido'
  BY DEF Leido
<1> QED
  BY <1>1, <1>2, <1>3, <1>4

LEMMA InvArchivo == ASSUME IInv, NEW f \in Archivos, Archivo(f) PROVE IInv'
<1>1. aa' \in Archivos /\ ik' \in Cursores /\ ar' = ar
  BY DEF Archivo, IInv, Tipo, Fichas
<1> QED
  BY <1>1, SinBiblioteca DEF Archivo, IInv, Tipo, Leido, biblioteca

LEMMA InvCursor == ASSUME IInv, NEW k \in Cursores, Cursor(k) PROVE IInv'
<1>1. /\ aa' \in Archivos /\ ik' \in Cursores /\ ar' \in [Archivos -> Fichas]
      /\ \A f \in Archivos : /\ ar'[f].hstmt = ar[f].hstmt /\ ar'[f].dat = ar[f].dat
                             /\ ar'[f].pre = ar[f].pre /\ ar'[f].pun = ar[f].pun
  BY DEF Cursor, IInv, Tipo, Fichas
<1> QED
  BY <1>1, SinBiblioteca DEF Cursor, IInv, Leido, biblioteca

LEMMA InvApunta == ASSUME IInv, NEW t \in Textos, Apunta(t) PROVE IInv'
<1>1. /\ aa' \in Archivos /\ ik' \in Cursores /\ ar' \in [Archivos -> Fichas]
      /\ \A f \in Archivos : /\ ar'[f].hstmt = ar[f].hstmt /\ ar'[f].dat = ar[f].dat
                             /\ \A k \in Cursores : ar'[f].pre[k] =>
                                    ar[f].pre[k] /\ ar'[f].pun[k] = ar[f].pun[k]
  BY ZenonT(40) DEF Apunta, IInv, Tipo, Fichas
<1> QED
  BY <1>1, SinBiblioteca DEF Apunta, IInv, Leido, biblioteca

LEMMA InvEtiqueta == ASSUME IInv, Etiqueta PROVE IInv'
  BY SinBiblioteca DEF Etiqueta, IInv, Tipo, Leido, biblioteca

\* The instructions that read nothing, or ask the next n to.
LEMMA OlvidaLectura ==
  ASSUME IInv, UNCHANGED <<aa, ik, ar, biblioteca, ultima>>, leyo' = NoLeyo,
         pide' # Nadie => from' = "a"
  PROVE  IInv'
<1> USE DEF IInv, biblioteca
<1>1. Tipo'
  BY DEF Tipo, NoLeyo
<1>2. Propios' /\ Enlazados' /\ Duenos' /\ Preparados'
  BY DEF Propios, Enlazados, Duenos, Preparados
<1>3. Leido'
  BY DEF Leido, NoLeyo
<1> QED
  BY <1>1, <1>2, <1>3

LEMMA InvAvanza == ASSUME IInv, Avanza PROVE IInv'
  BY OlvidaLectura DEF Avanza
LEMMA InvDirecta == ASSUME IInv, Directa PROVE IInv'
  BY OlvidaLectura DEF Directa, SinLeer

\* A file that is cleared has no columns and no statements.
LEMMA InvTabla == ASSUME IInv, Tabla PROVE IInv'
<1> USE DEF IInv, biblioteca
<1>0. [Limpio EXCEPT !.hdbc = TRUE] \in Fichas
  BY LimpioTipo DEF Fichas
<1>a. /\ ar' \in [Archivos -> Fichas] /\ ultima' \in [Archivos -> Nat]
      /\ \A f \in Archivos : IF f = aa
            THEN /\ ultima'[f] = 0 /\ ar'[f].dat = 0
                 /\ \A k \in Cursores : ar'[f].hstmt[k] = 0 /\ ~ar'[f].pre[k]
            ELSE ar'[f] = ar[f] /\ ultima'[f] = ultima[f]
  BY <1>0 DEF Tabla, Tipo, Limpio
<1>1. Tipo'
  BY <1>a DEF Tipo, Tabla, SinLeer, NoLeyo
<1>2. Propios' /\ Enlazados'
  BY <1>a DEF Tabla, Propios, Enlazados
<1>3. Duenos' /\ Preparados'
  BY <1>a DEF Tabla, Duenos, Preparados
<1>4. Leido'
  BY DEF Leido, Tabla, SinLeer, NoLeyo
<1> QED
  BY <1>1, <1>2, <1>3, <1>4

LEMMA InvTermina == ASSUME IInv, Termina PROVE IInv'
<1> USE DEF IInv
<1>0. CASE \E s \in Suyas(aa) : ~sent[s].viva
  BY <1>0, AcabaDeNuevo DEF Termina, Rompe
<1>b. CASE ~\E s \in Suyas(aa) : ~sent[s].viva
  <2>t. /\ sent' = Cierra(Suyas(aa))
        /\ ar' = [ar EXCEPT ![aa] = [Limpio EXCEPT !.hdbc = ar[aa].hdbc]]
        /\ ultima' = [ultima EXCEPT ![aa] = 0]
        /\ SinLeer
        /\ UNCHANGED <<aa, ik, from, sqres, qptr, mem, fase>>
    BY <1>b DEF Termina
  <2>0. [Limpio EXCEPT !.hdbc = ar[aa].hdbc] \in Fichas
    BY LimpioTipo DEF Fichas, Tipo
  <2>a. /\ ar' \in [Archivos -> Fichas] /\ ultima' \in [Archivos -> Nat]
        /\ \A f \in Archivos : IF f = aa
              THEN /\ ultima'[f] = 0 /\ ar'[f].dat = 0
                   /\ \A k \in Cursores : ar'[f].hstmt[k] = 0 /\ ~ar'[f].pre[k]
              ELSE ar'[f] = ar[f] /\ ultima'[f] = ultima[f]
    BY <2>0, <2>t DEF Tipo, Limpio
  <2>n. \A s \in 1..Len(sent) : sent[s] \in Sentencias
    BY DEF Tipo
  <2>c. /\ sent' = [s \in 1..Len(sent) |-> IF s \in Suyas(aa)
                        THEN [sent[s] EXCEPT !.viva = FALSE] ELSE sent[s]]
        /\ Len(sent) \in Nat /\ DOMAIN sent = 1..Len(sent)
    BY <2>t DEF Cierra, Tipo
  <2>d. \A s \in 1..Len(sent) : sent'[s] \in Sentencias
    BY <2>n, <2>c DEF Sentencias
  <2>b. /\ sent' \in Seq(Sentencias) /\ DOMAIN sent' = DOMAIN sent
        /\ \A s \in DOMAIN sent : /\ sent'[s].texto = sent[s].texto
                                  /\ sent'[s].bufer = sent[s].bufer
                                  /\ sent'[s].hecha = sent[s].hecha
                                  /\ sent'[s].quedan = sent[s].quedan
                                  /\ sent'[s].leidas = sent[s].leidas
    <3>1. sent' \in [1..Len(sent) -> Sentencias]
      BY <2>c, <2>d
    <3> QED
      BY <2>n, <2>c, <3>1 DEF Sentencias
  <2>1. Tipo'
    BY <2>t, <2>a, <2>b DEF Tipo, SinLeer, NoLeyo
  <2>m. mem' = mem
    BY <2>t
  <2>2. Propios'
    <3>1. Propios
      OBVIOUS
    <3> QED BY <2>m, <2>b, <3>1 DEF Propios
  <2>3. Enlazados'
    <3>1. Enlazados /\ Duenos
      OBVIOUS
    <3> QED BY <2>a, <2>b, <3>1 DEF Enlazados, Duenos
  <2>4. Duenos' /\ Preparados'
    BY <2>t, <2>a, <2>b, SMTT(30) DEF Duenos, Preparados
  <2>5. Leido'
    BY <2>t DEF Leido, SinLeer, NoLeyo
  <2> QED
    BY <2>1, <2>2, <2>3, <2>4, <2>5
<1> QED
  BY <1>0, <1>b
-----------------------------------------------------------------------------
(* P and P$ *)

\* What vSQL_Prepare_STMT leaves: the statements there were, and perhaps one that
\* nobody else has.
LEMMA Prepara ==
  ASSUME IInv, ~SinSentencia
  PROVE  /\ Preparadas \in Seq(Sentencias) /\ DelCursor \in DOMAIN Preparadas /\ DelCursor # 0
         /\ DOMAIN sent \subseteq DOMAIN Preparadas
         /\ \A s \in DOMAIN sent : Preparadas[s] = sent[s]
         /\ \A s \in DOMAIN Preparadas \ DOMAIN sent :
               s = DelCursor /\ Preparadas[s].bufer = 0 /\ ~Preparadas[s].hecha
         /\ Preparadas[DelCursor].texto = ar[aa].pun[ik]
         /\ \A f \in Archivos : ultima[f] = DelCursor => f = aa
         /\ \A f \in Archivos, k \in Cursores : ar[f].hstmt[k] = DelCursor => f = aa /\ k = ik
<1> USE DEF IInv
<1>0. /\ aa \in Archivos /\ ik \in Cursores /\ ar[aa] \in Fichas
      /\ \A f \in Archivos : ultima[f] \in Nat /\ ar[f] \in Fichas
      /\ sent \in Seq(Sentencias) /\ Len(sent) \in Nat /\ DOMAIN sent = 1..Len(sent)
  BY DEF Tipo
<1>1. CASE ar[aa].pre[ik]
  <2>1. Preparadas = sent /\ DelCursor = ar[aa].hstmt[ik]
    BY <1>1 DEF Preparadas, DelCursor, Actual
  <2>2. DelCursor \in DOMAIN sent /\ sent[DelCursor].texto = ar[aa].pun[ik]
    BY <1>0, <1>1, <2>1 DEF Preparados
  <2>3. DelCursor # 0
    BY <2>2, <1>0
  <2>4. \A f \in Archivos : ultima[f] = DelCursor => f = aa
    BY <2>1, <2>3, <1>0 DEF Duenos
  <2>5. \A f \in Archivos, k \in Cursores : ar[f].hstmt[k] = DelCursor => f = aa /\ k = ik
    BY <2>1, <2>3, <1>0 DEF Duenos
  <2> QED
    BY <1>0, <2>1, <2>2, <2>3, <2>4, <2>5
<1>2. CASE ~ar[aa].pre[ik]
  <2>1. Preparadas = Append(sent, Nueva) /\ DelCursor = Len(sent) + 1
    BY <1>2 DEF Preparadas, DelCursor
  <2>2. Nueva \in Sentencias /\ Nueva.texto = ar[aa].pun[ik] /\ Nueva.bufer = 0 /\ ~Nueva.hecha
    BY <1>0 DEF SinSentencia, Nueva, Sentencias, Fichas
  <2>3. /\ Append(sent, Nueva) \in Seq(Sentencias)
        /\ DOMAIN Append(sent, Nueva) = 1..(Len(sent) + 1)
        /\ \A s \in 1..Len(sent) : Append(sent, Nueva)[s] = sent[s]
        /\ Append(sent, Nueva)[Len(sent) + 1] = Nueva
    BY <1>0, <2>2
  <2>4. DelCursor \notin DOMAIN sent /\ DelCursor # 0
    BY <1>0, <2>1
  <2>5. \A f \in Archivos : ultima[f] # DelCursor
    BY <2>4, <1>0 DEF Duenos
  <2>6. \A f \in Archivos, k \in Cursores : ar[f].hstmt[k] # DelCursor
    BY <2>4, <1>0 DEF Duenos
  <2> QED
    BY <1>0, <2>1, <2>2, <2>3, <2>4, <2>5, <2>6
<1> QED
  BY <1>1, <1>2

\* The cursor that is prepared, and the files and cursors that are not.
LEMMA Lista ==
  ASSUME IInv, NEW s \in Nat
  PROVE  /\ ListaPre(s) \in [Archivos -> Fichas]
         /\ \A f \in Archivos :
               /\ ListaPre(s)[f].dat = ar[f].dat /\ ListaPre(s)[f].pun = ar[f].pun
               /\ ListaPre(s)[f].hdbc = ar[f].hdbc /\ ListaPre(s)[f].ik = ar[f].ik
               /\ \A k \in Cursores :
                     IF f = aa /\ k = ik
                     THEN ListaPre(s)[f].pre[k] /\ ListaPre(s)[f].hstmt[k] = s
                     ELSE /\ ListaPre(s)[f].pre[k] = ar[f].pre[k]
                          /\ ListaPre(s)[f].hstmt[k] = ar[f].hstmt[k]
  BY DEF IInv, Tipo, Fichas, ListaPre

\* With the cursor's statement s prepared, nobody shares it.
LEMMA DuenosListos ==
  ASSUME IInv, ~SinSentencia,
         ar' \in [Archivos -> Fichas], ultima' \in [Archivos -> Nat],
         DOMAIN sent' = DOMAIN Preparadas,
         \A r \in DOMAIN sent' : /\ sent'[r].texto = Preparadas[r].texto
                                 /\ Preparadas[r].hecha => sent'[r].hecha,
         \A f \in Archivos : /\ ar'[f].pun = ar[f].pun
                             /\ \A k \in Cursores : IF f = aa /\ k = ik
                                   THEN ar'[f].pre[k] /\ ar'[f].hstmt[k] = DelCursor
                                   ELSE ar'[f].pre[k] = ar[f].pre[k] /\ ar'[f].hstmt[k] = ar[f].hstmt[k],
         \A f \in Archivos : \/ ultima'[f] = ultima[f]
                             \/ f = aa /\ ultima'[f] = DelCursor /\ sent'[DelCursor].hecha
  PROVE  Duenos' /\ Preparados'
<1> USE DEF IInv
<1>0. aa \in Archivos /\ ik \in Cursores
  BY DEF Tipo
<1>1. ASSUME NEW f \in Archivos, ultima'[f] # 0
      PROVE  ultima'[f] \in DOMAIN sent' /\ sent'[ultima'[f]].hecha
  BY <1>1, Prepara DEF Duenos
<1>2. ASSUME NEW f \in Archivos, NEW g \in Archivos, ultima'[f] # 0, ultima'[g] = ultima'[f]
      PROVE  g = f
  BY <1>0, <1>2, Prepara DEF Duenos
<1>3. ASSUME NEW f \in Archivos, NEW g \in Archivos, NEW k \in Cursores,
             ultima'[f] # 0, ar'[g].hstmt[k] = ultima'[f]
      PROVE  g = f
  <2>1. CASE g = aa /\ k = ik
    BY <1>0, <1>3, <2>1, Prepara
  <2>2. CASE ~(g = aa /\ k = ik) /\ ultima'[f] = ultima[f]
    <3>1. ar[g].hstmt[k] = ultima[f] /\ ultima[f] # 0
      BY <1>3, <2>2
    <3> QED
      BY <3>1 DEF Duenos
  <2>3. CASE ~(g = aa /\ k = ik) /\ f = aa /\ ultima'[f] = DelCursor
    BY <1>3, <2>3, Prepara
  <2> QED
    BY <2>1, <2>2, <2>3
<1>4. ASSUME NEW f \in Archivos, NEW k \in Cursores, ar'[f].hstmt[k] # 0
      PROVE  ar'[f].hstmt[k] \in DOMAIN sent'
  BY <1>0, <1>4, Prepara, SMTT(30) DEF Duenos
<1>5. ASSUME NEW f \in Archivos, NEW g \in Archivos, NEW k \in Cursores, NEW l \in Cursores,
             ar'[f].hstmt[k] # 0, ar'[g].hstmt[l] = ar'[f].hstmt[k]
      PROVE  g = f /\ l = k
  <2>1. CASE f = aa /\ k = ik
    BY <1>0, <1>5, <2>1, Prepara DEF Duenos
  <2>2. CASE ~(f = aa /\ k = ik)
    BY <1>0, <1>5, <2>2, Prepara DEF Duenos
  <2> QED
    BY <2>1, <2>2
<1>6. Duenos'
  BY <1>1, <1>2, <1>3, <1>4, <1>5 DEF Duenos
<1>7. Preparados'
  BY <1>0, Prepara DEF Preparados
<1> QED
  BY <1>6, <1>7

LEMMA InvEjecuta == ASSUME IInv, ~SinSentencia, Ejecuta PROVE IInv'
<1> USE DEF IInv
<1> DEFINE s == DelCursor
           b == Len(mem) + 1
<1>0. /\ aa \in Archivos /\ ik \in Cursores /\ ar[aa] \in Fichas
      /\ mem \in Seq(FilasLeidas) /\ Len(mem) \in Nat
      /\ <<0, 0>> \in FilasLeidas
      /\ \A f \in Archivos : ultima[f] \in Nat /\ ar[f] \in Fichas
  BY DEF Tipo, FilasLeidas
<1>1. /\ ar[aa].pun[ik] \in Consultas
      /\ sent' = Ejecutada(s, b) /\ mem' = Append(mem, <<0, 0>>)
      /\ ar' = [ListaPre(s) EXCEPT ![aa].dat = b]
      /\ ultima' = [ultima EXCEPT ![aa] = s]
      /\ leyo' = NoLeyo /\ from' = "a" /\ UNCHANGED <<aa, ik>>
  <2>1. b > Len(mem)
    BY <1>0
  <2> QED
    BY <2>1 DEF Ejecuta, BuferNuevo, PorLeer
<1>2. /\ Preparadas \in Seq(Sentencias) /\ s \in DOMAIN Preparadas /\ s \in Nat
      /\ Preparadas[s].texto \in Consultas /\ Filas[Preparadas[s].texto] \in Nat
  BY <1>1, Prepara, SqlSupuesto
<1>3. /\ sent' \in Seq(Sentencias) /\ DOMAIN sent' = DOMAIN Preparadas
      /\ sent'[s].bufer = b /\ sent'[s].hecha /\ sent'[s].texto = Preparadas[s].texto
      /\ sent'[s].leidas + sent'[s].quedan = Filas[sent'[s].texto]
      /\ \A r \in DOMAIN Preparadas \ {s} : sent'[r] = Preparadas[r]
  <2> DEFINE x == [Preparadas[s] EXCEPT !.bufer = b, !.quedan = Filas[Preparadas[s].texto],
                                        !.leidas = 0, !.hecha = TRUE]
  <2>1. Preparadas[s] \in Sentencias /\ b \in Nat
    BY <1>0, <1>2
  <2>2. x \in Sentencias
    BY <1>2, <2>1, Ligada
  <2>3. /\ x.bufer = b /\ x.hecha /\ x.texto = Preparadas[s].texto
        /\ x.leidas + x.quedan = Filas[x.texto]
    BY <1>2, <2>1 DEF Sentencias
  <2>4. sent' = [Preparadas EXCEPT ![s] = x]
    BY <1>1 DEF Ejecutada
  <2> HIDE DEF s, x
  <2> QED
    BY <1>2, <2>2, <2>3, <2>4, SeqCambia
<1>4. /\ mem' \in Seq(FilasLeidas) /\ DOMAIN mem' = 1..b /\ DOMAIN mem = 1..Len(mem)
      /\ mem'[b] = <<0, 0>> /\ \A j \in DOMAIN mem : mem'[j] = mem[j]
  BY <1>0, <1>1
<1>5. /\ ar' \in [Archivos -> Fichas]
      /\ \A f \in Archivos :
            /\ ar'[f].pun = ar[f].pun /\ ar'[f].dat = IF f = aa THEN b ELSE ar[f].dat
            /\ \A k \in Cursores : IF f = aa /\ k = ik
                  THEN ar'[f].pre[k] /\ ar'[f].hstmt[k] = s
                  ELSE ar'[f].pre[k] = ar[f].pre[k] /\ ar'[f].hstmt[k] = ar[f].hstmt[k]
  <2> HIDE DEF s
  <2>1. /\ ListaPre(s) \in [Archivos -> Fichas]
        /\ \A f \in Archivos :
               /\ ListaPre(s)[f].dat = ar[f].dat /\ ListaPre(s)[f].pun = ar[f].pun
               /\ \A k \in Cursores :
                     IF f = aa /\ k = ik
                     THEN ListaPre(s)[f].pre[k] /\ ListaPre(s)[f].hstmt[k] = s
                     ELSE /\ ListaPre(s)[f].pre[k] = ar[f].pre[k]
                          /\ ListaPre(s)[f].hstmt[k] = ar[f].hstmt[k]
    BY <1>2, Lista
  <2> HIDE DEF b
  <2>2. b \in Nat
    BY <1>0 DEF b
  <2> DEFINE F == ListaPre(s)
  <2>3. ar' = [F EXCEPT ![aa].dat = b]
    BY <1>1
  <2> HIDE DEF F
  <2>4. F \in [Archivos -> Fichas]
    BY <2>1 DEF F
  <2>5. /\ ar' \in [Archivos -> Fichas]
        /\ \A f \in Archivos : /\ ar'[f].dat = IF f = aa THEN b ELSE F[f].dat
                               /\ ar'[f].pun = F[f].pun /\ ar'[f].pre = F[f].pre
                               /\ ar'[f].hstmt = F[f].hstmt
    BY <1>0, <2>2, <2>3, <2>4, ConDat
  <2> QED
    BY <2>1, <2>5 DEF F
<1>6. /\ ultima' \in [Archivos -> Nat] /\ ultima'[aa] = s
      /\ \A f \in Archivos : f # aa => ultima'[f] = ultima[f]
  BY <1>0, <1>1, <1>2 DEF Tipo
<1>7. Tipo'
  BY <1>1, <1>3, <1>4, <1>5, <1>6 DEF Tipo, NoLeyo
<1>8. Duenos' /\ Preparados'
  <2>1. \A r \in DOMAIN sent' : /\ sent'[r].texto = Preparadas[r].texto
                                /\ Preparadas[r].hecha => sent'[r].hecha
    BY <1>3
  <2> QED
    BY <1>3, <1>5, <1>6, <2>1, DuenosListos
<1>9. Propios'
  <2>1. \A r \in DOMAIN sent' \ {s} : sent'[r].bufer # 0 =>
            r \in DOMAIN sent /\ sent'[r] = sent[r] /\ sent'[r].bufer \in DOMAIN mem
    BY <1>3, Prepara DEF Propios
  <2>2. \A r \in DOMAIN sent' \ {s} : sent'[r].bufer # b
    BY <1>0, <1>4, <2>1
  <2>3. \A r \in DOMAIN sent' \ {s} : r \in DOMAIN sent /\ sent'[r] = sent[r]
    BY <1>3, Prepara
  <2>4. b # 0 /\ b \in DOMAIN mem'
    BY <1>0, <1>4
  <2> HIDE DEF b, s
  <2>5. ASSUME NEW r \in DOMAIN sent', sent'[r].bufer # 0
        PROVE  /\ sent'[r].bufer \in DOMAIN mem' /\ mem'[sent'[r].bufer][1] \in {0, r}
               /\ \A q \in DOMAIN sent' : sent'[q].bufer = sent'[r].bufer => q = r
    <3>1. CASE r = s
      BY <1>3, <1>4, <2>2, <2>4, <3>1
    <3>2. CASE r # s
      <4>1. /\ r \in DOMAIN sent /\ sent[r].bufer # 0 /\ sent'[r].bufer = sent[r].bufer
            /\ sent[r].bufer \in DOMAIN mem /\ mem[sent[r].bufer][1] \in {0, r}
        BY <2>1, <2>5, <3>2 DEF Propios
      <4>2. mem'[sent[r].bufer] = mem[sent[r].bufer] /\ sent[r].bufer \in DOMAIN mem'
        BY <1>0, <1>4, <4>1 DEF b
      <4>3. ASSUME NEW q \in DOMAIN sent', sent'[q].bufer = sent'[r].bufer PROVE q = r
        <5>1. q # s
          BY <1>3, <2>2, <3>2, <4>3
        <5>2. q \in DOMAIN sent /\ sent[q].bufer = sent[r].bufer
          BY <2>1, <2>5, <4>1, <4>3, <5>1
        <5> QED
          BY <4>1, <5>2 DEF Propios
      <4> QED
        BY <4>1, <4>2, <4>3
    <3> QED
      BY <3>1, <3>2
  <2>6. ASSUME NEW r \in DOMAIN sent', sent'[r].texto \in Consultas
        PROVE  /\ sent'[r].hecha /\ sent'[r].bufer # 0
               /\ sent'[r].leidas + sent'[r].quedan = Filas[sent'[r].texto]
    <3>1. CASE r = s
      BY <1>3, <2>4, <3>1
    <3>2. CASE r # s
      BY <2>3, <2>6, <3>2 DEF Propios
    <3> QED
      BY <3>1, <3>2
  <2> QED
    BY <2>5, <2>6 DEF Propios
<1>10. Enlazados'
  <2>1. ASSUME NEW f \in Archivos, ar'[f].dat # 0
        PROVE  ultima'[f] # 0 /\ sent'[ultima'[f]].bufer = ar'[f].dat
    <3>1. CASE f = aa
      BY <1>3, <1>5, <1>6, <3>1, Prepara
    <3>2. CASE f # aa
      <4>1. ar[f].dat # 0 /\ ultima'[f] = ultima[f] /\ ar'[f].dat = ar[f].dat
        BY <1>5, <1>6, <2>1, <3>2
      <4>2. ultima[f] # s /\ ultima[f] \in DOMAIN sent
        BY <3>2, <4>1, Prepara DEF Enlazados, Duenos
      <4> QED
        BY <1>3, <4>1, <4>2, Prepara DEF Enlazados
    <3> QED
      BY <3>1, <3>2
  <2> QED
    BY <2>1 DEF Enlazados
<1>11. Leido'
  BY <1>1 DEF Leido, NoLeyo
<1> QED
  BY <1>7, <1>8, <1>9, <1>10, <1>11

LEMMA InvCambia == ASSUME IInv, ~SinSentencia, Cambia PROVE IInv'
<1> USE DEF IInv
<1> DEFINE s == DelCursor
<1>0. aa \in Archivos /\ ik \in Cursores
  BY DEF Tipo
<1>1. /\ ar[aa].pun[ik] \in Cambios /\ ar' = ListaPre(s)
      /\ UNCHANGED <<aa, ik, mem, ultima>> /\ leyo' = NoLeyo /\ pide' = Nadie
      /\ \/ sent' = Preparadas
         \/ sent' = [Preparadas EXCEPT ![s].viva = (qptr = "dado"), ![s].hecha = TRUE]
  BY DEF Cambia, SinLeer
<1>2. /\ Preparadas \in Seq(Sentencias) /\ s \in DOMAIN Preparadas /\ s \in Nat
      /\ Preparadas[s].texto \in Cambios
  BY <1>1, Prepara
<1>3. /\ sent' \in Seq(Sentencias) /\ DOMAIN sent' = DOMAIN Preparadas
      /\ \A r \in DOMAIN sent' :
            /\ sent'[r].texto = Preparadas[r].texto /\ sent'[r].bufer = Preparadas[r].bufer
            /\ Preparadas[r].hecha => sent'[r].hecha
            /\ sent'[r].quedan = Preparadas[r].quedan /\ sent'[r].leidas = Preparadas[r].leidas
  <2>1. CASE sent' = Preparadas
    BY <1>2, <2>1
  <2>2. CASE sent' = [Preparadas EXCEPT ![s].viva = (qptr = "dado"), ![s].hecha = TRUE]
    <3>1. Preparadas[s] \in Sentencias
      BY <1>2
    <3>2. [Preparadas[s] EXCEPT !.viva = (qptr = "dado"), !.hecha = TRUE] \in Sentencias
      BY <1>0, <3>1 DEF Sentencias
    <3>3. sent' = [Preparadas EXCEPT ![s] = [Preparadas[s] EXCEPT !.viva = (qptr = "dado"), !.hecha = TRUE]]
      BY <2>2
    <3> HIDE DEF s
    <3> QED
      BY <1>2, <3>1, <3>2, <3>3, SMTT(30) DEF Sentencias
  <2> QED
    BY <1>1, <2>1, <2>2
<1>5. /\ ar' \in [Archivos -> Fichas]
      /\ \A f \in Archivos :
            /\ ar'[f].pun = ar[f].pun /\ ar'[f].dat = ar[f].dat
            /\ \A k \in Cursores : IF f = aa /\ k = ik
                  THEN ar'[f].pre[k] /\ ar'[f].hstmt[k] = s
                  ELSE ar'[f].pre[k] = ar[f].pre[k] /\ ar'[f].hstmt[k] = ar[f].hstmt[k]
  BY <1>1, <1>2, Lista
<1>7. Tipo'
  BY <1>1, <1>3, <1>5 DEF Tipo, NoLeyo
<1>8. Duenos' /\ Preparados'
  <2>1. ultima' \in [Archivos -> Nat] /\ \A f \in Archivos : ultima'[f] = ultima[f]
    BY <1>1 DEF Tipo
  <2> QED
    BY <1>3, <1>5, <2>1, DuenosListos
<1>9. Propios'
  <2>1. \A r \in DOMAIN sent' :
            /\ sent'[r].bufer # 0 => r \in DOMAIN sent /\ sent[r].bufer = sent'[r].bufer
            /\ sent'[r].texto \in Consultas =>
                  /\ r \in DOMAIN sent /\ sent[r].texto = sent'[r].texto
                  /\ sent[r].hecha => sent'[r].hecha
                  /\ sent'[r].leidas = sent[r].leidas /\ sent'[r].quedan = sent[r].quedan
                  /\ sent'[r].bufer = sent[r].bufer
    BY <1>2, <1>3, Prepara, SqlSupuesto
  <2>2. \A r \in DOMAIN sent : r \in DOMAIN sent'
    BY <1>3, Prepara
  <2>3. ASSUME NEW r \in DOMAIN sent', sent'[r].texto \in Consultas
        PROVE  /\ sent'[r].hecha /\ sent'[r].bufer # 0
               /\ sent'[r].leidas + sent'[r].quedan = Filas[sent'[r].texto]
    BY <2>1, <2>3 DEF Propios
  <2> QED
    BY <1>1, <1>3, <2>1, <2>3, Prepara DEF Propios
<1>10. Enlazados'
  BY <1>1, <1>3, <1>5, Prepara DEF Enlazados, Duenos
<1>11. Leido'
  BY <1>1 DEF Leido, NoLeyo
<1> QED
  BY <1>7, <1>8, <1>9, <1>10, <1>11

LEMMA InvP == ASSUME IInv, P PROVE IInv'
<1>1. CASE SinSentencia /\ Rompe
  BY <1>1, AcabaDeNuevo DEF Rompe
<1>2. CASE ~SinSentencia /\ Falla
  BY <1>2, AcabaDeNuevo DEF Falla
<1>3. CASE ~SinSentencia /\ Ejecuta
  BY <1>3, InvEjecuta
<1>4. CASE ~SinSentencia /\ Cambia
  BY <1>4, InvCambia
<1> QED
  BY <1>1, <1>2, <1>3, <1>4 DEF P

-----------------------------------------------------------------------------
(* n *)

\* A row goes to the memory of its statement and to no other's.
LEMMA InvTrae ==
  ASSUME IInv, NEW s \in DOMAIN sent, Respuesta(s) = "bien", Trae(s),
         UNCHANGED <<aa, ik, ar, ultima>>,
         leyo' \in [s : {s}, antes : {sent[s].leidas}, salto : {FALSE}] \cup {NoLeyo}, pide' = Nadie
  PROVE  IInv'
<1> USE DEF IInv
<1> DEFINE b == sent[s].bufer
<1>1. /\ sent[s].hecha /\ sent[s].texto \in Consultas /\ sent[s].quedan # 0
      /\ sent' = [sent EXCEPT ![s].quedan = @ - 1, ![s].leidas = @ + 1]
      /\ mem' = [mem EXCEPT ![b] = Fila(s)]
  BY DEF Respuesta, Trae
<1>2. /\ sent \in Seq(Sentencias) /\ sent[s] \in Sentencias /\ s \in Nat /\ s # 0
      /\ mem \in Seq(FilasLeidas) /\ b # 0 /\ b \in DOMAIN mem
  BY <1>1 DEF Tipo, Propios
<1>3. /\ sent' \in Seq(Sentencias) /\ DOMAIN sent' = DOMAIN sent
      /\ \A r \in DOMAIN sent : /\ sent'[r].texto = sent[r].texto /\ sent'[r].bufer = sent[r].bufer
                                /\ sent'[r].hecha = sent[r].hecha
                                /\ sent'[r].leidas + sent'[r].quedan = sent[r].leidas + sent[r].quedan
      /\ sent'[s].leidas = sent[s].leidas + 1
  <2> DEFINE x == [sent[s] EXCEPT !.quedan = @ - 1, !.leidas = @ + 1]
  <2>1. x \in Sentencias
    BY <1>1, <1>2, Avanzada
  <2>2. /\ x.texto = sent[s].texto /\ x.bufer = sent[s].bufer /\ x.hecha = sent[s].hecha
        /\ x.leidas = sent[s].leidas + 1 /\ x.leidas + x.quedan = sent[s].leidas + sent[s].quedan
    BY <1>2 DEF Sentencias
  <2>3. sent' = [sent EXCEPT ![s] = x]
    BY <1>1
  <2> HIDE DEF x
  <2>4. /\ sent' \in Seq(Sentencias) /\ DOMAIN sent' = DOMAIN sent /\ sent'[s] = x
        /\ \A j \in DOMAIN sent \ {s} : sent'[j] = sent[j]
    BY <1>2, <2>1, <2>3, SeqCambia
  <2> QED
    BY <2>2, <2>4
<1>4. /\ mem' \in Seq(FilasLeidas) /\ DOMAIN mem' = DOMAIN mem
      /\ mem'[b] = <<s, sent[s].leidas + 1>>
      /\ \A j \in DOMAIN mem \ {b} : mem'[j] = mem[j]
  <2>1. Fila(s) = <<s, sent[s].leidas + 1>> /\ Fila(s) \in FilasLeidas
    <3>1. sent[s].leidas \in Nat
      BY <1>2 DEF Sentencias
    <3> QED
      BY <1>2, <3>1 DEF Fila, FilasLeidas
  <2> HIDE DEF b
  <2> QED
    BY <1>1, <1>2, <2>1, SeqCambia
<1>5. Tipo'
  <2>1. leyo' \in [s : Nat, antes : Nat, salto : BOOLEAN]
    <3>1. CASE leyo' = NoLeyo
      BY <3>1 DEF NoLeyo
    <3>2. CASE leyo' \in [s : {s}, antes : {sent[s].leidas}, salto : {FALSE}]
      <4>1. sent[s].leidas \in Nat
        BY <1>2 DEF Sentencias
      <4> QED
        BY <1>2, <3>2, <4>1
    <3> QED
      BY <3>1, <3>2
  <2> QED
    BY <1>3, <1>4, <2>1 DEF Tipo
<1>6. Propios'
  <2>1. ASSUME NEW r \in DOMAIN sent, sent[r].bufer # 0
        PROVE  mem'[sent[r].bufer][1] \in {0, r}
    <3>1. CASE r = s
      BY <1>2, <1>4, <3>1
    <3>2. CASE r # s
      BY <1>2, <1>4, <2>1, <3>2 DEF Propios
    <3> QED
      BY <3>1, <3>2
  <2> QED
    BY <1>3, <1>4, <2>1 DEF Propios
<1>7. Duenos' /\ Preparados'
  BY <1>3 DEF Duenos, Preparados
<1>8. Enlazados'
  BY <1>3 DEF Enlazados, Duenos
<1>9. Leido'
  <2>1. CASE leyo' = NoLeyo
    BY <2>1 DEF Leido, NoLeyo
  <2>2. CASE leyo' \in [s : {s}, antes : {sent[s].leidas}, salto : {FALSE}]
    <3>1. leyo'.s = s /\ leyo'.salto = FALSE /\ leyo'.antes = sent[s].leidas
      BY <2>2
    <3>2. /\ sent'[s].leidas = sent[s].leidas + 1 /\ sent'[s].bufer = b
          /\ sent[s].leidas # Filas[sent[s].texto] /\ sent'[s].texto = sent[s].texto
      <4>1. sent[s].leidas \in Nat /\ sent[s].quedan \in Nat
        BY <1>2 DEF Sentencias
      <4>2. sent[s].leidas + sent[s].quedan = Filas[sent[s].texto]
        BY <1>1 DEF Propios
      <4>3. sent[s].leidas # Filas[sent[s].texto]
        BY <1>1, <4>1, <4>2
      <4> QED
        BY <1>3, <4>3
    <3> QED
      BY <1>2, <1>3, <1>4, <3>1, <3>2 DEF Leido
  <2> QED
    BY <2>1, <2>2
<1> QED
  BY <1>5, <1>6, <1>7, <1>8, <1>9

\* The end of the rows, an error, or an n that does not read: nothing moves.
LEMMA InvNoTrae ==
  ASSUME IInv, UNCHANGED <<aa, ik, ar, biblioteca, ultima>>, pide' = Nadie,
         \/ leyo' = NoLeyo
         \/ \E s \in DOMAIN sent :
               /\ leyo' \in [s : {s}, antes : {sent[s].leidas}, salto : BOOLEAN]
               /\ sent[s].texto \in Consultas => leyo'.salto /\ sent[s].quedan = 0
  PROVE  IInv'
<1> USE DEF IInv, biblioteca
<1>1. leyo' \in [s : Nat, antes : Nat, salto : BOOLEAN]
  <2>1. CASE leyo' = NoLeyo
    BY <2>1 DEF NoLeyo
  <2>2. CASE leyo' # NoLeyo
    <3>1. PICK s \in DOMAIN sent : leyo' \in [s : {s}, antes : {sent[s].leidas}, salto : BOOLEAN]
      BY <2>2
    <3>2. s \in Nat /\ sent[s].leidas \in Nat
      <4>1. s \in Nat /\ sent[s] \in Sentencias
        BY DEF Tipo
      <4> QED
        BY <4>1 DEF Sentencias
    <3> QED
      BY <3>1, <3>2
  <2> QED
    BY <2>1, <2>2
<1>2. Tipo'
  BY <1>1 DEF Tipo
<1>3. Propios' /\ Duenos' /\ Preparados' /\ Enlazados'
  BY DEF Propios, Duenos, Preparados, Enlazados
<1>4. Leido'
  <2>1. CASE leyo' = NoLeyo
    BY <2>1 DEF Leido, NoLeyo
  <2>2. CASE leyo' # NoLeyo
    <3>1. PICK s \in DOMAIN sent :
              /\ leyo' \in [s : {s}, antes : {sent[s].leidas}, salto : BOOLEAN]
              /\ sent[s].texto \in Consultas => leyo'.salto /\ sent[s].quedan = 0
      BY <2>2
    <3>2. leyo'.s = s /\ leyo'.antes = sent[s].leidas /\ leyo'.salto \in BOOLEAN
      BY <3>1
    <3>3. sent[s].leidas \in Nat /\ sent[s].quedan \in Nat
      <4>1. sent[s] \in Sentencias
        BY DEF Tipo
      <4> QED
        BY <4>1 DEF Sentencias
    <3>4. sent[s].texto \in Consultas => leyo'.salto /\ sent[s].leidas = Filas[sent[s].texto]
      <4>1. sent[s].texto \in Consultas => sent[s].leidas + sent[s].quedan = Filas[sent[s].texto]
        BY DEF Propios
      <4> QED
        BY <3>1, <3>3, <4>1
    <3>5. UNCHANGED <<sent, mem>> /\ pide' = Nadie
      OBVIOUS
    <3> QED
      BY <3>2, <3>3, <3>4, <3>5 DEF Leido
  <2> QED
    BY <2>1, <2>2
<1> QED
  BY <1>2, <1>3, <1>4

LEMMA InvLee == ASSUME IInv, Lee PROVE IInv'
<1> DEFINE s == Actual
<1>1. CASE from = "a" /\ ~Sirve(s)
  BY <1>1, AcabaDeNuevo DEF Lee, Rompe
<1>2. CASE from = "a" /\ Sirve(s)
  <2>1. /\ Trae(s) /\ UNCHANGED <<aa, ik, ar, ultima>> /\ pide' = Nadie
        /\ leyo' = IF pide = <<aa, ik>>
                   THEN [s |-> s, antes |-> sent[s].leidas, salto |-> Salta(Respuesta(s))] ELSE NoLeyo
    BY <1>2 DEF Lee
  <2>2. s \in DOMAIN sent
    BY <1>2 DEF Sirve, Actual, IInv, Tipo, Duenos
  <2>3. CASE Respuesta(s) = "bien"
    <3>1. leyo' \in [s : {s}, antes : {sent[s].leidas}, salto : {FALSE}] \cup {NoLeyo}
      BY <2>1, <2>3 DEF Salta
    <3> QED
      BY <2>1, <2>2, <2>3, <3>1, InvTrae
  <2>4. CASE Respuesta(s) # "bien"
    <3>1. UNCHANGED biblioteca
      BY <2>1, <2>4 DEF Trae
    <3>2. CASE leyo' = NoLeyo
      BY <2>1, <3>1, <3>2, InvNoTrae
    <3>3. CASE leyo' = [s |-> s, antes |-> sent[s].leidas, salto |-> Salta(Respuesta(s))]
      <4>1. /\ leyo' \in [s : {s}, antes : {sent[s].leidas}, salto : BOOLEAN]
            /\ leyo'.salto = (Respuesta(s) = "nodata")
        BY <3>3 DEF Salta
      <4>2. sent[s].texto \in Consultas => leyo'.salto /\ sent[s].quedan = 0
        <5>1. sent[s].texto \in Consultas => sent[s].hecha
          BY <2>2 DEF IInv, Propios
        <5> QED
          BY <2>4, <4>1, <5>1 DEF Respuesta
      <4> HIDE DEF s
      <4> QED
        BY <2>1, <2>2, <3>1, <4>1, <4>2, InvNoTrae
    <3> QED
      BY <2>1, <3>2, <3>3
  <2> QED
    BY <2>3, <2>4
<1>3. CASE from # "a"
  <2>1. UNCHANGED <<aa, ik, ar, biblioteca, ultima>> /\ pide' = Nadie
    BY <1>3 DEF Lee
  <2>2. pide # <<aa, ik>>
    BY <1>3 DEF IInv, Leido, Nadie
  <2>3. leyo' = NoLeyo
    BY <1>3, <2>2 DEF Lee
  <2> QED
    BY <2>1, <2>3, InvNoTrae
<1> QED
  BY <1>1, <1>2, <1>3

-----------------------------------------------------------------------------

\* The inductive invariant holds always.
THEOREM Invariante == Spec => []IInv
<1>1. Init => IInv
  BY SqlSupuesto, DeNuevo DEF Init, Nuevo
<1>2. IInv /\ [Next]_vars => IInv'
  <2> SUFFICES ASSUME IInv, [Next]_vars PROVE IInv'
    OBVIOUS
  <2>1. CASE UNCHANGED vars
    BY <2>1, SinBiblioteca DEF vars, IInv, Tipo, Leido
  <2>2. ASSUME Instruccion PROVE IInv'
    BY <2>2, InvArchivo, InvCursor, InvApunta, InvEtiqueta, InvTabla, InvP, InvAvanza,
       InvDirecta, InvLee, InvTermina DEF Instruccion
  <2> QED
    BY <2>1, <2>2 DEF Next
<1> QED
  BY <1>1, <1>2, PTL DEF Spec

\* A fetch fills the columns of its own cursor's file with its own rows, whatever the
\* other cursors read (Columnas: solsq.c:79, vsqrun.c:271-305).
THEOREM ColumnasPropias == Spec => []Columnas
<1>1. IInv => Columnas
  BY Bastan
<1> QED
  BY <1>1, Invariante, PTL

\* The rows of a query are read in their order and each once, whichever of P, a, b and T
\* asks for them, and n goes to its label when they are all read and not before
\* (LecturaFiel: vsqrun.c:160-218).
THEOREM LecturasFieles == Spec => []LecturaFiel
<1>1. IInv => LecturaFiel
  BY Bastan
<1> QED
  BY <1>1, Invariante, PTL
=============================================================================

-------------------------------- MODULE Enchufes --------------------------------
(***************************************************************************)
(* The instructions J of a VPG program that is a server or a client        *)
(* (vcliser.c).  Ja never returns in the program that runs it: it takes    *)
(* one client after another and forks, and it is each child that goes on.  *)
(* JA takes one client and goes on itself.                                 *)
(*                                                                         *)
(* The model follows one process: at a fork either the child or the        *)
(* parent.  Descriptors are numbers from 3 on, the lowest free one first,  *)
(* up to MaxFd; the network is external: clients connect when they will,   *)
(* what they send comes in pieces, and what is written is taken whole.     *)
(***************************************************************************)
EXTENDS Datos

CONSTANTS Textos,     \* what each client sends
          MaxFd

VARIABLE red          \* [fds, hijo, porLeer, vistos]: what each descriptor is, whether the
                      \* process is a child, what its clients have sent and is not read,
                      \* and the clients there were

Libres == (3..MaxFd) \ DOMAIN red.fds
Menos1(S) == CHOOSE n \in S : \A k \in S : n <= k
Sin(f, n) == [k \in DOMAIN f \ {n} |-> f[k]]

\* A descriptor is read from a variable, and written to it, as an int.
Enchufe(w) == EnteroEn(Getad(w))
PoneEntero(m, w, n) == Puesto(m, Getad(w), EnBytes(n, 4))

Quieto == UNCHANGED <<aa, tam, reloj>>

\* A socket, or -1.
CreaEnchufe ==
    /\ Sigue /\ op = "Js"
    /\ LET n == IF Libres = {} THEN -1 ELSE Menos1(Libres)
       IN  /\ mem' = PoneEntero(mem, o(1), n)
           /\ red' = IF n = -1 THEN red ELSE [red EXCEPT !.fds = n :> "nuevo" @@ @]
    /\ Quieto

\* Errors are only told: the program goes on.
Liga ==
    /\ Sigue /\ op = "Jb" /\ UNCHANGED <<mem, red>> /\ Quieto

Escucha ==
    /\ Sigue /\ op = "Jl"
    /\ LET n == Enchufe(o(1))
       IN  red' = IF n \in DOMAIN red.fds THEN [red EXCEPT !.fds[n] = "escucha"] ELSE red
    /\ UNCHANGED mem /\ Quieto

\* accept: one more client, with the lowest descriptor.
Llegan == {c \in DOMAIN Textos : c \notin red.vistos}
Escuchando(n) == n \in DOMAIN red.fds /\ red.fds[n] = "escucha"
Con(c, n) == [red EXCEPT !.fds = n :> c @@ @, !.porLeer = Textos[c], !.vistos = @ \cup {c}]

\* The child closes the socket that listens and goes on with its client's.
AceptaHijo ==
    /\ Sigue /\ op = "Ja" /\ Escuchando(Enchufe(o(1))) /\ Libres # {}
    /\ \E c \in Llegan :
          LET n == Menos1(Libres)
              r == Con(c, n)
          IN  /\ red' = [r EXCEPT !.fds = Sin(@, Enchufe(o(1))), !.hijo = TRUE]
              /\ mem' = PoneEntero(mem, o(1), n)
    /\ Quieto

\* The parent closes the client's and waits for another.
SinCerrar(f, n) == f
Cerrado(f, n) == Sin(f, n)
AceptaPadre ==
    /\ fase = "corre" /\ pc <= Len(obj) /\ op = "Ja" /\ Escuchando(Enchufe(o(1))) /\ Libres # {}
    /\ \E c \in Llegan :
          LET n == Menos1(Libres)
          IN  red' = [Con(c, n) EXCEPT !.fds = Cerrado(@, n), !.porLeer = <<>>]
    /\ UNCHANGED <<compila, corre>>

Acepta1 ==
    /\ Sigue /\ op = "JA" /\ Escuchando(Enchufe(o(1))) /\ Libres # {}
    /\ \E c \in Llegan :
          LET n == Menos1(Libres)
          IN  red' = Con(c, n) /\ mem' = PoneEntero(mem, o(2), n)
    /\ Quieto

CierraEnchufe ==
    /\ Sigue /\ op = "Jc"
    /\ red' = [red EXCEPT !.fds = Sin(@, Enchufe(o(1)))]
    /\ UNCHANGED mem /\ Quieto

\* read: some of what has come, as much as fits, or nothing at the end; -1 without a
\* connection.
EsConexion(n) == n \in DOMAIN red.fds /\ red.fds[n] \in DOMAIN Textos
LeeEnchufe ==
    /\ Sigue /\ op = "Jr"
    /\ LET max == Valu(o(3))
           hay == IF Len(red.porLeer) < max THEN Len(red.porLeer) ELSE max
           Lee(n) == /\ mem' = PoneEntero(Puesto(mem, Getad(o(2)), SubSeq(red.porLeer, 1, n)), o(4), n)
                     /\ red' = [red EXCEPT !.porLeer = SubSeq(@, n + 1, Len(@))]
       IN  IF EsConexion(Enchufe(o(1)))
           THEN \E n \in (IF hay = 0 THEN 0 ELSE 1)..hay : Lee(n)
           ELSE mem' = PoneEntero(mem, o(4), -1) /\ UNCHANGED red
    /\ Quieto

EscribeEnchufe ==
    /\ Sigue /\ op = "Jw"
    /\ mem' = PoneEntero(mem, o(4), IF EsConexion(Enchufe(o(1))) THEN Valu(o(3)) ELSE -1)
    /\ UNCHANGED red /\ Quieto

\* connect: the server at the other end sends as a client would, or the program goes on
\* with a socket that is not connected.
Conecta ==
    /\ Sigue /\ op = "JC"
    /\ LET n == Enchufe(o(3))
       IN  \/ UNCHANGED red
           \/ /\ n \in DOMAIN red.fds
              /\ \E c \in Llegan :
                    red' = [red EXCEPT !.fds[n] = c, !.porLeer = Textos[c], !.vistos = @ \cup {c}]
    /\ UNCHANGED mem /\ Quieto

InitEnchufes == red = [fds |-> <<>>, hijo |-> FALSE, porLeer |-> <<>>, vistos |-> {}]
NextEnchufes ==
    \/ CreaEnchufe \/ Liga \/ Escucha \/ AceptaHijo \/ Acepta1 \/ CierraEnchufe
    \/ LeeEnchufe \/ EscribeEnchufe \/ Conecta \/ AceptaPadre
-----------------------------------------------------------------------------
(* Properties *)

\* However many clients a server has had, its parent holds no connection of any, so that
\* a client sees its child close, and has descriptors for the next; and a child holds no
\* connection but its own client's, nor the socket the parent listens on
\* (vcliser.c:70, 74).
Clientes == {n \in DOMAIN red.fds : red.fds[n] \in DOMAIN Textos}
EnchufesPropios ==
    fase = "corre" /\ pc <= Len(obj) =>
        /\ op = "Ja" => Clientes = {} /\ Cardinality(DOMAIN red.fds) = 1
        /\ red.hijo => ~\E n \in DOMAIN red.fds : red.fds[n] = "escucha"
        /\ red.hijo => Cardinality(Clientes) <= 1
=============================================================================

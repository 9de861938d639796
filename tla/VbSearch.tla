------------------------------ MODULE VbSearch ------------------------------
(***************************************************************************)
(* The index instructions of VPG (hrut, vbsearch) over the index file that *)
(* vpsort leaves.  A program has several slots for open indexes (inx), one *)
(* of them active (ai), and one entry in memory for all of them (ix).  The *)
(* search is binary, over an open file that each read moves.               *)
(*                                                                         *)
(* ix is read whole from the file, and its members are found only if the   *)
(* compiler leaves no gap between them, as vpsort's are (op.junta).        *)
(***************************************************************************)
EXTENDS VpSort

CONSTANT Ranuras   \* the slots for open indexes

ASSUME RanurasAssumption == Ranuras # {}

VARIABLES fd,     \* fd[s]: whether slot s is open; "nunca" while tosize is 0
          off,    \* off[s]: the entries before the place the next read starts at
          ix,     \* the last entry read
          ai,     \* the active slot
          lug,    \* the place a data file is led to (a_lug)
          pide,   \* the last instruction: what it asked for and of which slot
          busca   \* where a search is

varsB == <<vars, fd, off, ix, ai, lug, pide, busca>>

NoEsta == <<-1, -1>>
EnBlanco == [llave |-> 0, lugar |-> NoEsta]
Quieta == [activa |-> FALSE, posmin |-> 0, maxreg |-> 0, regread |-> 0]
N(s) == IF fd[s] = "abierto" THEN Len(indice) ELSE 0

InitB ==
    /\ Init
    /\ fd = [s \in Ranuras |-> "nunca"]
    /\ off = [s \in Ranuras |-> 0]
    /\ ix = EnBlanco
    /\ ai = CHOOSE s \in Ranuras : TRUE
    /\ lug = NoEsta
    /\ pide = [que |-> "nada", k |-> 0, s |-> ai]
    /\ busca = Quieta

Listo == fase = "fin" /\ indice # <<>> /\ op.junta /\ ~busca.activa /\ fd[ai] # "muerto"
Pide(q, k) == pide' = [que |-> q, k |-> k, s |-> ai]

-----------------------------------------------------------------------------
(* The instructions that do not search *)

\* 'a': another slot.
Activa(s) ==
    /\ Listo /\ s # ai
    /\ ai' = s
    /\ UNCHANGED <<vars, fd, off, ix, lug, pide, busca>>

\* 'o': closes what the slot has and opens the index; it can fail.
AbreIx ==
    /\ Listo
    /\ \E bien \in BOOLEAN :
        fd' = [fd EXCEPT ![ai] = IF bien THEN "abierto"
                                 ELSE IF @ = "nunca" THEN @ ELSE "cerrado"]
    /\ off' = [off EXCEPT ![ai] = 0]
    /\ Pide("o", 0)
    /\ UNCHANGED <<vars, ix, ai, lug, busca>>

\* 'C' and 'A': closed, with its size left.
CierraIx(S) ==
    /\ Listo /\ \E s \in S : fd[s] = "abierto"
    /\ fd' = [s \in Ranuras |-> IF s \in S /\ fd[s] = "abierto" THEN "cerrado" ELSE fd[s]]
    /\ off' = [s \in Ranuras |-> IF s \in S THEN 0 ELSE off[s]]
    /\ Pide("C", 0)
    /\ UNCHANGED <<vars, ix, ai, lug, busca>>

\* A read of the entry after n others: past the end it reads nothing.
Lee(n) ==
    /\ ix' = IF n < N(ai) THEN indice[n + 1] ELSE ix
    /\ off' = [off EXCEPT ![ai] = IF n < N(ai) THEN n + 1 ELSE n]

\* casen: the entry at the place given, or none.
LeeLugar(n) ==
    /\ Lee(n)
    /\ lug' = IF n < N(ai) THEN indice[n + 1].lugar ELSE NoEsta

\* 'n', 't' and 'b': the next entry, the first and the last.
Mueve(q, n) ==
    /\ Listo /\ LeeLugar(n) /\ Pide(q, 0)
    /\ UNCHANGED <<vars, fd, ai, busca>>
Siguiente == Mueve("n", off[ai])
Primera   == Mueve("t", 0)
Ultima    == fd[ai] = "abierto" /\ Mueve("b", N(ai) - 1)

\* 'p': nothing before the first; at the start of the file the seek back fails and
\* the first entry is read.
Anterior ==
    /\ Listo /\ fd[ai] = "abierto"
    /\ IF off[ai] = 1
       THEN lug' = NoEsta /\ UNCHANGED <<off, ix>>
       ELSE LeeLugar(IF off[ai] = 0 THEN 0 ELSE off[ai] - 2)
    /\ Pide("p", 0)
    /\ UNCHANGED <<vars, fd, ai, busca>>

-----------------------------------------------------------------------------
(* Searching *)

\* 'f' and 's' begin: from the middle of the file, with maxreg one past its last
\* entry.  A slot that was never open has entries of size 0, and the division by it
\* ends the program.
Empieza(q, k) ==
    /\ Listo /\ Pide(q, k)
    /\ IF fd[ai] = "nunca"
       THEN fd' = [fd EXCEPT ![ai] = "muerto"] /\ UNCHANGED busca
       ELSE /\ busca' = [activa |-> TRUE, posmin |-> 0, maxreg |-> N(ai),
                         regread |-> N(ai) \div 2]
            /\ UNCHANGED fd
    /\ UNCHANGED <<vars, off, ix, ai, lug>>

\* What vbsearch does after a key that is greater or smaller than the sought one;
\* in a wrong one the lower half keeps its first entry out of reach.
MitadCorta(b, mayor) ==
    IF mayor THEN [b EXCEPT !.posmin = b.regread + 1]
             ELSE [b EXCEPT !.maxreg = b.regread - 2]
Mitad(b, mayor) ==
    IF mayor THEN [b EXCEPT !.posmin = b.regread + 1]
             ELSE [b EXCEPT !.maxreg = b.regread - 1]

\* What 's' gives when the key is not there: the last entry read.
Cerca(x) == x.lugar

\* One more entry read and compared; past the end the last one read is compared again.
Prueba ==
    /\ busca.activa
    /\ Lee(busca.regread)
    /\ LET b == Mitad(busca, pide.k > ix'.llave)
       IN  IF pide.k = ix'.llave
           THEN lug' = ix'.lugar /\ busca' = Quieta
           ELSE IF b.posmin <= b.maxreg
                THEN /\ busca' = [b EXCEPT !.regread = (b.posmin + b.maxreg) \div 2]
                     /\ UNCHANGED lug
                ELSE /\ lug' = IF pide.que = "s" THEN Cerca(ix') ELSE NoEsta
                     /\ busca' = Quieta
    /\ UNCHANGED <<vars, fd, ai, pide>>

-----------------------------------------------------------------------------

Ordena == Next /\ UNCHANGED <<fd, off, ix, ai, lug, pide, busca>>
NextB ==
    \/ Ordena
    \/ \E s \in Ranuras : Activa(s)
    \/ AbreIx \/ CierraIx({ai}) \/ CierraIx(Ranuras)
    \/ Siguiente \/ Primera \/ Ultima \/ Anterior
    \/ \E k \in 0..(Tope + 1) : Empieza("f", k) \/ Empieza("s", k)
    \/ Prueba

SpecB == InitB /\ [][NextB]_varsB

-----------------------------------------------------------------------------
(* Properties *)

\* The slot of the last instruction is open, and it has ended.
Respondida == fd[pide.s] = "abierto" /\ ~busca.activa

\* 'f' finds a record with the key if there is one, and else none, although the
\* search starts one past the end and compares old entries there (vbsearch.c:92).
BuscaExacta ==
    Respondida /\ pide.que = "f" =>
        LET con == {x.lugar : x \in {y \in ToSet(indice) : y.llave = pide.k}}
        IN  IF con = {} THEN lug = NoEsta ELSE lug \in con

\* Wherever 'f' or 's' stops, 'n' goes on from there: no smaller key comes after it
\* and no greater one before it; and what 's' gives is the entry it stopped at.
BuscaCerca ==
    Respondida /\ pide.que \in {"f", "s"} =>
        LET n == off[pide.s]
        IN  /\ n \in DOMAIN indice
            /\ \A m \in DOMAIN indice : /\ m < n => indice[m].llave <= pide.k
                                        /\ m > n => indice[m].llave >= pide.k
            /\ lug # NoEsta => lug = indice[n].lugar
            /\ pide.que = "s" => lug # NoEsta

\* What a program that searches an index of vpsort is answered (hrut).
Busca == BuscaExacta /\ BuscaCerca
=============================================================================

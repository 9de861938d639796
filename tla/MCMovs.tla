------------------------------- MODULE MCMovs -------------------------------
(* Two processes, with a principal of the first and one of both. *)
EXTENDS Movs

CONSTANTS p1, p2, r1, r2

MCProcs == {p1, p2}
MCPadres == {r1, r2}
MCDuenoDe == [r \in MCPadres |-> IF r = r1 THEN p1 ELSE Todos]
=============================================================================

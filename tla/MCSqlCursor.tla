---------------------------- MODULE MCSqlCursor ----------------------------
(* Two files of two cursors, a query of two rows and a change.  The files   *)
(* are interchangeable.                                                    *)
EXTENDS SqlCursor, TLC

MCFilas == [c \in Consultas |-> 2]
Simetria == Permutations(Archivos)
=============================================================================

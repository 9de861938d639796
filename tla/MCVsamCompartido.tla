--------------------------- MODULE MCVsamCompartido ---------------------------
(* Processes and data are interchangeable. *)
EXTENDS VsamCompartido, TLC

Simetria == Permutations(Procs) \cup Permutations(Datos)
=============================================================================

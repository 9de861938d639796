-------------------------------- MODULE Paseo --------------------------------
(***************************************************************************)
(* The walk along the records of a chain, as a program that reads one and  *)
(* then the one that it names does it; 0 is no record and ends the walk.   *)
(***************************************************************************)
EXTENDS Naturals

\* The places from x on, with sig[y] the one after y: a chain that runs in a circle is
\* cut after n steps.
Desde(x, sig, n) ==
    LET S[m \in 0..n] == IF m = 0 THEN x
                         ELSE IF S[m - 1] = 0 THEN 0 ELSE sig[S[m - 1]]
    IN  S
Alcanza(S) == {S[m] : m \in DOMAIN S} \ {0}

\* The places that the walk from x goes through, if there are n at most.
Huella(x, sig, n) ==
    LET S == Desde(x, sig, n)
        k == CHOOSE k \in 1..n : S[k - 1] # 0 /\ S[k] = 0
    IN  [j \in 1..k |-> S[j - 1]]

\* Where the walk by sig from each place of a table ends, at a place with no other after it.
Fondo(sig) ==
    LET F[x \in DOMAIN sig] == IF sig[x] = 0 THEN x ELSE F[sig[x]]
    IN  F
=============================================================================

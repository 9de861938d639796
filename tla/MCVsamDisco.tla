----------------------------- MODULE MCVsamDisco -----------------------------
(* A file with a unique key and a key of a few values.  The records have the   *)
(* size of the clusters of the second key, so that blocks change use.          *)
EXTENDS VsamDisco

MCClaves == {2 * j : j \in 1..26} \cup {1, 3, 5, 13, 15, 19, 21, 23, 35}
MCOrden == <<"rep", "uni">>
MCTamK  == [rep |-> 2, uni |-> 1]

\* A record of key k, with the value v for the other key.
Dato(k, v) == [uni |-> k, rep |-> v]
\* Loads of n records in ascending and descending order and one that leaps about;
\* every key is even, so that a new one can fall between any two.
Asc(n)  == [j \in 1..n |-> Dato(2 * j, j % 6)]
Desc(n) == [j \in 1..n |-> Dato(2 * (n + 1 - j), j % 6)]
Mezcla  == LET s == <<9, 3, 15, 6, 12, 1, 17, 4, 8, 14, 11, 2, 5, 7, 10, 13, 16>>
           IN  [j \in 1..Len(s) |-> Dato(2 * s[j], s[j] % 6)]
Nuevos(S) == {Dato(k, v) : k \in S, v \in {1, 6}}
Guion(s, n, d, b) == [carga |-> s, ops |-> n, datos |-> d, bajas |-> b]

\* Trees of one, two and three levels.  The last two roots have two keys; in the
\* first of them the middle child of the root has grown.
Crece == [j \in 1..3 |-> Dato(17 + 2 * j, 0)]
MCGuiones == {Guion(<<>>, 4, Nuevos({1, 2, 3, 4}), 1..4),
              Guion(Asc(5), 4, Nuevos({1, 5, 13}), {2, 6, 10}),
              Guion(Asc(17), 2, Nuevos({1, 15, 35}), {2, 12, 18, 24, 34}),
              Guion(Mezcla, 2, Nuevos({1, 15, 35}), {2, 12, 18, 24, 34}),
              Guion(Asc(20), 1, {}, Claves),
              Guion(Desc(20), 1, {}, Claves),
              Guion(Asc(26) \o Crece, 1, {}, Claves),
              Guion(Desc(26), 1, {}, Claves)}
=============================================================================

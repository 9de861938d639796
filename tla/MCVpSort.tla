------------------------------ MODULE MCVpSort ------------------------------
(* Up to MaxRegs records in one or two files, and memory for two or three keys. *)
EXTENDS VbSearch

CONSTANTS MaxRegs

Uno(K)  == {<<k>> : k \in K}
Lineas  == [cols : Uno((1..Tope) \cup {Corta}), borrado : {FALSE}]
Planos  == [cols : Uno(1..2), borrado : BOOLEAN]
Vsams   == [cols : Uno(1..Tope), borrado : {FALSE}]

\* The second VSAM file: its records' keys are all 1, and something else is taken.
Segundos == [cols : {<<1, k>> : k \in 0..Tope}, borrado : {FALSE}]

Archivo(R, cortes) == [regs : UNION {[1..n -> R] : n \in 0..MaxRegs}, cortado : cortes]
Parejas(R, cortes) == {<<a, b>> \in Archivo(R, cortes) \X Archivo(R, {FALSE}) :
                          Len(a.regs) + Len(b.regs) <= MaxRegs - 1}
Unos(R, cortes) == {<<a>> : a \in Archivo(R, cortes)}
Op(formas, saltas, indices, descs, memorias, juntas) ==
    [forma : formas, salta : saltas, indice : indices, desc : descs,
     tokeys : memorias, junta : juntas]

MCTrabajos ==
    [op : Op({"lineas"}, {FALSE}, {"no"}, {FALSE}, {2}, {TRUE}),
     archivos : Unos(Lineas, BOOLEAN)]
    \cup [op : Op({"lineas"}, {FALSE}, {"si", "solo"}, {FALSE}, {2}, {TRUE}),
          archivos : Unos(Vsams, {FALSE})]
    \cup [op : Op({"lineas"}, {FALSE}, {"no"}, {TRUE}, {3}, {TRUE}),
          archivos : Parejas(Lineas, BOOLEAN)]
    \cup [op : Op({"fijo"}, {TRUE}, {"no", "solo"}, {FALSE}, {2}, {TRUE}),
          archivos : Unos(Planos, {FALSE})]
    \cup [op : Op({"vsam"}, {FALSE}, {"no", "solo"}, BOOLEAN, {3}, {FALSE}),
          archivos : Unos(Vsams, {FALSE})]
    \cup [op : Op({"vsam"}, {FALSE}, {"si"}, {FALSE}, {2}, {TRUE}),
          archivos : {<<a, b>> \in Archivo(Vsams, {FALSE}) \X Archivo(Segundos, {FALSE}) :
                         Len(a.regs) + Len(b.regs) <= MaxRegs - 1}]

\* Plain sorts of whole lines.
MCLlanos == [op : Op({"lineas"}, {FALSE}, {"no"}, {FALSE}, {2, 3}, {TRUE}),
             archivos : Unos(Vsams, {FALSE})]
=============================================================================

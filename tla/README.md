# Verification of VPG

VPG is an interpreted fourth-generation language for business programs: a compiler (`vp3.c`, and
`vp.c` for the VSAM build), an interpreter (`vpg4s.c` and the sections it includes), its own indexed
file system (VSAM), a second set of file instructions over MySQL, an external sort and small
utilities. The makefile builds the interpreter as `vpg4`, with VSAM files, and as `vpg4s`, with
MySQL.

This directory holds TLA+ models of the parts that can go wrong in ways a test would hardly reach:
the files and the processes that share them, the compiler's two passes and the interpreter's stacks,
what instructions do to the bytes of memory, cursors, sort and index, and the servers. TLC checks
them on small instances, and TLAPS proves for every size that the file, its trees and blocks and the
locks that share it are consistent, that the chains of the movements are whole, that columns belong
to their cursors, that a field diverted by a key is restored, and that a search in an index of the
sort finds what is there.

## Components

| component | state | operations | interacts with | hard behaviour | what makes it correct |
|---|---|---|---|---|---|
| VSAM file (`vsamfun.c`) | header `struct vsam`, records with pointers per key, one B-tree per key, free chain | `busca`, `inclu`, `vdel` | called by `vplib.c` and `vsamrun.c` | splits, loans and merges of clusters; chains hung on whichever neighbour the search shows; blocks reused across uses | indexes name exactly the records; chains complete and ordered; no block lost or used twice |
| file instructions and locks (`vsamrun.c`, `vplib.c`) | per process and file: position, buffer, header copy; fcntl locks | `O C r N n w a b A d P S T u I D` | VSAM file, other processes through the kernel | interleaving, waiting, stale positions, the two-phase delete | what was read under a lock stays true; no stale header is written back; waiting ends |
| flat files and links (`vplib.c`, `vblo.c`) | free list in record 0; chains of records of a second file; one lock for "complex code" | `L` and `B` instructions | two files at once, same locks | locks of two files; three records updated one by one; processes killed; a whole buffer written back at the end | chains linked both ways; free list without circles; every instruction ends |
| compiler (`vp3.c`) | label and variable tables, places still to fill | two passes over the source | writes the object the interpreter loads | the passes must count instructions, and give places to data, alike | jumps lead where the source says; operands name the variable's bytes |
| interpreter (`vpg4s.c`, `chefun3.c`, `inpq.c`) | instruction pointer, stacks `sur[]` and `surk[]`, windows, channels of reports | about 60 instructions | the compiler's object, the user's keys and Control-C | keys that divert a field, breaks, chains to another program, page breaks | returns where it was called; a field is restored; no instruction number of another program is used |
| memory (`vpg4s.c`, `getad.c`, `misce.c`, `tida.c`, `cmp3.c`, `cmp2.c`, `vstrings.c`, `impfs.c`, `comma.c`) | buffers, the clock's register | assignments, arithmetic, texts, dates, comparisons, what is printed | addresses given by the compiler | no length is checked: an instruction writes what lies next | each instruction writes its own bytes; a date, a comparison and a printed value mean what they say |
| MySQL instructions (`vsqrun.c`, `solsq.c`) | statements per file and cursor, bound columns per file | prepare, execute, fetch, close | MySQL client library | results bound to shared columns, inverted error test, statements never closed | a fetch fills the fields of its own cursor |
| sort (`vpsort.c`) and index search (`vbsearch.c`) | tree of keys, numbered runs; open indexes, last entry read | fill, flush, merge; find, search, next, previous | temporary files; the search reads what the sort leaves | sizes that divide the memory, short lines, entries left from another read | the output is a sorted permutation; the search finds what is there |
| forms (`vform.c`), CGI (`vcgi2.c`), TCP (`vcliser.c`), calculator (`calcu.c`), text files and recovery (`vpg4s.c`, `recup.c`), unloading (`parcar*.c`) | fields of a form; fields of a request; descriptors of parent and child; total and sign; place in the file; catalogue | see *Modules* | the memory | what is stored beyond a field; escapes; a child per client; typed digits left over; a mark across blocks; a buffer used twice | what the user typed is what is kept, what is kept is what comes out, each child has one client |

`PROJECT.json` lists every component with its state of modelling, and the hazards at their
lines. The manual (`doc/manvpg.htm`) has no account of record locking, so the models follow
the code alone.

## Modules

    VsamFile  <---implements---  VsamDisco ---extends---> VsamArbol      MCVsamDisco
       ^ ^          (VsamDiscoProofs, theorems) (VsamArbolProofs, lemmas)
       |  \ extended by VsamFileProofs (theorems) and MCVsamFile
       |
    VsamCompartido (processes and locks): extends VsamFile and implements it
       ^
        \ extended by VsamCompartidoProofs (theorems) and MCVsamCompartido

    Movs (flat files, links, complex code, kills)                        MCMovs
      extended by MovsProofs (theorems)

    VpCompile ---> VpgRun <--- Entrada                                   MCVpgRun
    (labels and loops) (the interpreter's control) (the field editor)
                       VpgRun is extended by VpgRunProofs (theorems)

    VpMemoria ---> Datos <--- Fechas
    (the data's   (memory)  (dates)
     symbols)       |
                    +---> Condicion ---> Salida ---> Archivos, Cgi, Descarga
                    +---> Formas, Calcu, Enchufes
                                  all of them in Programa                MCDatos

    VpSort ---> VbSearch ---> VpSortProofs (theorems)                    MCVpSort
    SqlCursor ---> SqlCursorProofs (theorems)                            MCSqlCursor

    Paseo (walks along links): extended by VsamFile, VsamArbol, Movs and VpSort

(An arrow leads to the module that extends.) `MC` modules give the constants their values.

**VsamFile** says what a file is to the programs that use it. `vivo` is the set of positions
that hold a record, `anter`, `proxi` and `cuant` are the fields of `struct apuns` for each
key, `vpk` is the header's, and the B-trees are maps from values to positions (`idxu`, `idxr`).
`Inclu` and `Vdel` are `inclu` and `vdel`. The one thing of a B-tree search that a map hides
matters: `busca` leaves in `menor` and `mayor` the records of the keys next to one it does not
find, but only as far as the last cluster it read shows them. `Vecindad` leaves open which of
the two are seen, and `inclu` has a way to link the record for each case.

**VsamArbol** holds the algorithms on blocks as operators from a file to a file: `Busca`
(`busca`), `Inserta` (`inserta`, `insef`), `BajaLlave` (`baja`), `Forma` (`forma`), `Frsp`
(`frsp`), `Libera` (`libera`), `Exclu` (`exclu`). A loop that goes down links is a walk of
`Paseo` (`Huella`); one from the leaf to the root is a function of the number of its turns (`e` in
`Inserta` and in `Repara`), and of the turn at which the code leaves it.

**VsamDisco** builds `inclu` and `vdel` from them, key by key in the order of the header, as
the two actions of a machine over the blocks of a file. It implements `VsamFile`: the property
`ImplementaArchivo` is `VsamFile`'s specification with the records for `vivo`, their pointers
for `anter` and `proxi`, and the slots of the trees for the indexes. `Bloques` and `MaxCuant`
bound the file in the guard of `Inclu`; no behaviour of the run reaches them.

**VsamCompartido** puts several processes on one file. Per process: `lug` is `a_lug`, `buf` is
`a_buf`, `hdr` is `a_vsam`; `pc` says where it is in an instruction. `cab` and `cand` are the
fcntl locks of the header and of the records. One action per instruction, and one per step of
the instructions that wait:

| instruction | actions |
|---|---|
| `O` | `Abre` |
| `C`, and the end of a program | `Cierra` |
| `r` | `Reads` (nothing happens when somebody has the record) |
| `N` | `PideN`, `TomaN` |
| `n` | `LeeSinCandado` |
| `P`, `S` | `Busca` |
| `a`, `b`, `A` | `Avanza` |
| `T` | `Principio` |
| `u` | `Suelta` |
| `w` | `Graba`, `GrabaFuera` |
| `I` | `PideI`, `TomaCab`, `Incluye`, `SueltaCab`, `LeeNuevo` |
| `D` | `PideD`, `TomaCab`, `Borra` or `Termina`, `MarcaRegistro`, `SueltaCab` |

`Incluye` and `Borra` are `VsamFile`'s actions with the position `frsp` takes from the free
chain. They are one step: every write of `inclu` and `vdel` happens under the header's lock,
and those who read without it (`Busca`) are given any answer meanwhile.

A process opens and closes the file while the others work: `Abre` takes a copy of the header
without a lock, and `Cierra` gives up what the process holds.

The interpreter lets a program run its instructions in any order. `Ordenados` names the
processes whose programs keep a discipline: they write or delete only a record that they have
read under its lock (`leido`), go to the top of the file (`T`) holding no record, and fill the
buffer before an `I`. The other processes do as they like.

**Movs** has the flat file of movements (`mov`, with its free list from record 0) and the
principals (`padre`, with `pri` and `ult`). `Empieza` starts one of `LN LL LU LD`, and `Sigue`
takes its next step: every wait for a lock, read and write of `vdlink`, `vdunlink`, `movfrsp`
and `movlib` is one, in their order, and so is the last write of the active file's buffer. Any
file may be active, that of the movements included (`Activas`): then `LD` ends by putting the
deleted record back. That changes nothing (`EnSuLugar`) unless another process has taken its
place since; if so `Pisa` overwrites what it put there, and the programs are not followed further
(`Pisado`).
`Muere` kills a process at any of them; its locks go, what it wrote stays. `PideB`, `TomaB` and
`SueltaB` are `vblo`'s lock; a principal that several programs use is used inside it.

**VpCompile** reads a source of tokens twice. `Getsymbols` is the first pass; the second has an
action for each kind of jump and for each piece that fills places left before (`GetinsBarra`,
`GetinsPunto`, `GetinsCierra`). Several sources are compiled one after the other into `obj`.
`BienEscrita` says of a source what the compiler takes for granted: loops and ifs nest, and a
bar is the only target of its instruction. Whether they do is looked at when the object has been
written, and by counts that a pair in the wrong order leaves at 0 (`vp3.c:82`).
**VpgRun** runs them: `ins` is the instruction pointer, `sur` and `surk` the stacks, `dk` and
`fk` the keys' places, `pant` the windows, `tex` the channels. An instruction number carries
the program that gave it, which the code does not know, so that `SaltoPropio` can say that
none is used in another. The user types at will (`TeclaFuncion`, `EscribeCampo`, `AcabaCampo`,
`DejaCampo`, through **Entrada**'s editor) and presses Control-C at will. Accented characters
(128 to 255) are among what is typed: `takein` writes them past the end of the field
(`inpq.c:124-125` jumps over the test of line 140), as far as `MaxCar`, the size of its array.

**VpMemoria** is the same compiler for the data: what survives in `pos siz memo typ arre tamvar`
from one symbol to the next decides the operands that are written. **Datos** runs these on `mem`,
bytes from the start of each buffer: `Getad` is `getad`, and the instructions write as many bytes as
the code does, or end in the phase `roto` where the code would count down past zero (`SinFin`).
`maquina` is the zone where the program runs and the build it runs in: `vpg4` (with `VSAMD`) keeps
the sizes of buffers that `m` is given, `vpg4s` does not. **Fechas** has the arithmetic on `struct
tm`, with a `long` of four bytes. **Condicion** is `!` with its pairs, as `cmp3.c` reads it (the
signs `&` and `|` after the pairs, in `vpg4s`) and as `cmp2.c` does (between them, in `vpg4`);
**Salida** what `p c s \ q+ qu qr qD` write, **Archivos** `FO FG FR FW FS FT` and the rest, `tsr`
and `$ tt`; **Formas** a form on the screen, **Cgi** the instruction `H`, **Calcu** `ttl`,
**Enchufes** the sockets with the fork of `accept`, **Descarga** the unloading utilities.
**Programa** puts them together: a source is compiled and run from its first to its last
instruction, with the instructions of all these modules.

**VpSort** is `main`'s loop over the records (`Abre`, `FormKey`, `Baja`, `Pone`, `AlFinal`; the
key of the f-th VSAM file is taken f - 1 times the size of mark and pointers past its columns,
`Despl` and `Vistos`, since `vsamread` moves the start of the key on for each), the
merge (`Mezcla`, `Compara`, `Saca`, `Sacado`) and the output (`Cierra`); **VbSearch** goes on
with the index it leaves: slots opened, closed and searched step by step (`Empieza`, `Prueba`).

**SqlCursor** has a statement per cursor (`sent`), the memory its columns are bound to (`mem`)
and the file's (`ar`); one action per instruction and outcome of the library.

## Runs

| run | instance | question | result |
|---|---|---|---|
| `archivo` | 4 positions, 4 keys, one repeated key of 2 values | do index, chain and stacks agree after any inclusions and deletions? | holds, 78 201 states |
| `disco` | a unique and a repeated key; loads of 0 to 29 records, then 1 to 4 operations | do the trees stay ordered and balanced, is no block lost, is it `VsamFile`? | holds, 3 160 states |
| `compartido` | 2 disciplined processes, 2 keys, 2 positions, 2 data, fairness | what do the locks guarantee, and does everybody get the one it waits for? | holds, 583 103 states |
| `libre` | 3 processes without discipline, 1 key, 2 positions | what is left when programs do as they like? | header and free chain hold, 253 041 states |
| `abrazo` | 2 processes without discipline, fairness | does anything undo a circle of waits? | violated: see below |
| `movs` | 2 processes, a principal of one and one of both, 3 places, one kill anywhere | are chains and free list whole, does every instruction end? | holds, 243 133 states |
| `programa` | all nestings of up to 4 pieces of source, and three programs with menus, fields, windows, reports and a chain | do jumps lead where the source says, do stacks, keys, windows and pages stay in step? | holds, 2 933 003 states |
| `pagina` | the program with a report, ending a page with a form feed | has every page its foot? | violated: see below |
| `orden` | up to 5 records in one or two files of three kinds, two VSAM files among them, memory for 2 or 3 keys | is the output sorted, is nothing lost, does the search find? | holds, 2 647 369 states |
| `llano` | plain sorts of up to 5 lines | does it sort any quantity? | violated: see below |
| `sql` | 2 files of 2 cursors, a query of 2 rows, a change, 2 statements | whose rows does the program see? | holds, 5 806 214 states |
| `datos` | 18 programs, time zones west and east of Greenwich, both builds, what users, clients, requests and files may give them | do instructions mean, on bytes, what they say? | holds, 111 844 states |

*Bounds.* In `archivo` a record can come first, last or between two others, and a stack can
have four records, so that its top, bottom and middle are different ones. `MaxCuant` bounds
`cuant`, which grows when records are put over one another and is never lowered. In `disco` a
tree of three levels needs 17 keys, too many to reach by trying every order; a behaviour loads
a file with one of eight scripts (`Guiones`) and then does a few operations freely. The scripts
were chosen by counting which branches are taken: each of the four cases of `forma` at a leaf
and at an inner cluster, with a parent of one key and of more, is reached, and so is a block
taken by `frsp` from the middle of the free chain. Records have the size of the clusters of
one key, so that blocks change use. In the shared file two positions are
enough for a record to be deleted and its place taken by another.

Three movements make a first, a last and one between; one kill (`MaxCaidas`) is enough for each step
to be the last of a process. `MaxPiezas` = 4 pieces nest a loop and an if in each other with a jump
and a label inside; `MaxNivo`, `MaxKivo` and `MaxPag` bound stacks and pages to two, which is enough
for a return to the wrong one. Two keys of memory and five records make three runs, so that a run is
left over in a round of the merge. Two statements (`MaxSent`) times two bindings (`MaxMem`) are
enough for a column to be the other cursor's. In `datos` each program is a fixed source chosen to
exercise its instructions at the edges (a variable beside a short, dates at the ends of months,
texts as long as their fields, a number with no room for commas); what varies is the user's fields
(`Tecleos`), the request (`Pedidos`), the clients (`Textos`), the keys of the calculator
(`MaxTeclas` of them), what arrays of the stack hold at first (`Basuras`; `sobra`: digits 0 and 50,
widths 0 and 12) and where a program runs (`Maquinas`). `Renglon` and `Bloque` are 254 and 512 in
the code: small here, so that a line and a mark fall across their ends. `Tope` is the bytes seen of
each buffer.

*What can stop.* Programs end and so do sorts (`disco`, `orden`, `programa`, `sql`, `datos` and
the violated runs), the processes of `libre` and `movs` can all be ended or killed; there
deadlock is not checked. In `archivo` and `compartido` it is: not all processes wait at once.

*Fairness.* `Equidad` (`VsamCompartido`): a process that is inside an instruction goes on (the
interpreter has no other thing to do), and a lock it waits for is granted if it is free again
and again: the kernel queues the processes that wait in `F_SETLKW`. Strong fairness is needed
because another process can take the lock between. A program that holds a record lets go of it
at last (`u`, `w`, `D` or a move), which the code leaves to the program. Without it nobody could
promise anything about `N`. `Movs` assumes the same of each process and its steps, and that a
program inside its block comes to `Bu`; nothing is assumed of `Muere`, nor that a program ever
starts an instruction. `VpSort` and the search take their steps while they have one (`WF`), as
sequential programs do.

*The properties.*
- `IndiceFiel`, `Cadena`, `Pilas`: index, pointers and header agree. `Recorre` says what it is
  for: a walk by `T` and `a`, or `P` and `a`, meets every record of the file, or of a value,
  once. The unload utilities depend on it.
- `ArbolB`, `SinFugas`, `BuscaVecinos`: what the splits, loans and merges must preserve, and
  what `inclu` relies on when it hangs a record by the neighbours `busca` names.
- `CabezaFresca`: `inclu` and `vdel` write the whole header back from a copy; it is never old.
- `LeidoVigente`: what a program read under a lock stays in the file as it was until it writes
  or deletes it. It is not obvious, since `vdel` takes a record out of the trees *before*
  `vddel` waits for the record's lock: it holds because a disciplined program has the lock
  when it asks for the deletion.
- `BajaSegura`: `D` deletes the record its program read, although it waited for the header.
- `MarcaFiel`: the mark -1 in the data, by which readers without a lock know a deleted record,
  is there when it should be.
- `SinAbrazo`, `Atiende`: no processes wait in a circle, and everyone who waits is served.
- `Cadenas`, `LibresFiel`, `Acaba` (`movs`): chains of principals in peace have the movements
  their programs linked, both ways, whoever is killed at others; the free list has no circle
  and no record in use; every process that waits goes on at last. The first two are stated until
  an `LD` has overwritten what another process put in the place of its record (`Pisado`).
- `SaltosFieles`: the second pass puts in every jump the number of the instruction that the
  source means, read without stacks, and the passes count alike at every token.
- `SaltoPropio`, `VueltaAlCampo`, `VentanaViva`, `PaginaCabe`: no number of another program is used
  after a chain; `]` gives back the field, its row, its escape and its break; what is shown is on a
  window that exists, the field in edition keeps its length, what is written past it are accented
  characters, and a field for numbers has nothing else in it; a page has no more lines than fit,
  though the footer is printed only when the count is exactly `x_fl`.
- `SalidaFiel`, `NadaSePierde`, `Busca`: the output is the sorted records that count; at every
  step each record is in the tree, in a run or in the output, and the index names each; `f` and
  `s` find what is there although they compare old entries past the end.
- `Columnas`, `LecturaFiel`: columns hold rows of the statement the file executed last; an `n`
  leaves by its label exactly when every row had been read, and otherwise reads the one after the
  last, whatever `b` and `T` were given before and whatever other cursors did in between.
- `ReferenciaFiel`: an operand of the object names the bytes that the declarations, read token by
  token, give to its symbol. A size asked of an array or of a text goes to the next operand that is
  neither, which `putaval` writes as a size (`vp3.c:463`), and a bare `#` is the size of the symbol
  looked up before it, the index of an array included: the sources of the run have both.
- `EscribeLoSuyo`: an instruction changes the bytes of the variables it names to be changed, and
  besides: a `z` with `l` those as far as the size of its buffer, where the build keeps one; what a
  form or a request stores in a short the next two, which the sign makes 0 or 255 (`vform.c:248`).
- `FechaFiel`: the day typed is the day shown west of Greenwich, and the one before it elsewhere;
  months and years added to one of the first 27 days change the month alone, and to a later one end
  within three days of the calendar's or a month beyond (`misce.c:92`); days added from a short are
  right exactly when the two bytes after it are its sign, or 512 times something away (`tida.c:38`).
- `ComparaFiel`, `ImprimeFiel`: `!` jumps exactly when its formula is true, the place at which the
  search for a text stops included; what is printed is the value in its format, character by
  character, with the place that a comma takes from a sign or a digit.
- `FormaFiel`, `CgiFiel`, `DescargaFiel`: what was typed in a form, filled in on a web page or
  kept in a record is what is stored, given to the program or unloaded; of a date kept as a text,
  in the width of the field before it (`parcar.c:254`) and with the digits the stack may add.
- `RenglonFiel`, `RecuperaFiel`, `CuentaFiel`, `EnchufesPropios`: lines of a text come in order,
  each less its last character, which of a last line with no end is one of its own; `tsr` passes
  over no record but one behind a mark across two blocks, and finds none that is not; the
  calculator's total is that of the account typed; parent and children hold no connection of others.

*The violations.*
- `abrazo`. `vddel` waits for the record's lock while it has the header's. If another
  process has that record and gives `D` too, it waits for the header: a circle. The kernel
  reports it with `EDEADLK`; `vdlread` prints "Avoiding a deadlock..." (`vplib.c:115`) and asks
  again, and `fuplock` asks again without a word (`vplib.c:310`). Neither lets go of anything.
  `EvitaAbrazo` states what the message says, and `abrazo` shows two programs that wait for
  ever. With the discipline it cannot happen (`SinAbrazo`).
- `llano`. "Program to sort input of any size in any quantity" (`vpsort.c:1-2`): when the number
  of lines is a multiple of those that fit in memory, `main` writes one more run, of an empty
  tree (`vpsort.c:251`), and `outsorteda` takes an entry from memory that was cleared.
- `pagina`. The manual says of a form feed written to a paginated report that "it will proceed
  to execute the footer and header routines" (`doc/manvpg.htm:1240-1242`); the code goes to the
  header alone (`vpg4s.c:377-382`).

## Proofs

`VsamFileProofs` proves for every set of keys, values and positions, and any number of
repeated keys, that `Spec => []IInv` (`Invariante`) and from it `Tipo`,
`FidelidadDelIndice`, `CadenaOrdenada` and `PilasEnlazadas`, the theorems of `TypeOK`,
`IndiceFiel`, `Cadena` and `Pilas`.

`IInv` is the conjunction of the four. None is inductive alone: a new record gets its place
in the chain from the index, so that `Cadena` needs `IndiceFiel`; its pointers are positions
of the file because those it copies are (`TypeOK` needs `Cadena`); a stack's height needs its
top to be a record. The argument goes in three parts:
1. `VecinosDeBusca` and `HuecoDeInclu`: whichever of the two neighbours `busca` shows, the
   pointers `inclu` computes from them are the record before and the record after the new key
   (`Hueco`).
2. One lemma per conjunct for `Inclu`, and one per conjunct for `Vdel`.
3. `Invariante` puts them together with PTL.

The assumption is `ConstantesArchivo`: keys are naturals, positions are naturals other than 0,
the unique key is not one of the repeated ones, and `MaxCuant` is a natural.

`VsamCompartidoProofs` does the same for any number of processes sharing a file.

*Whatever the programs do* (`InvarianteL`): `IInvL` adds to `IInv` that the process whose `pc`
is inside `vdadd` or `vddel` is the holder of the header's lock (`Cabecera`), which makes it
alone there; hence the copy of the header it writes back is the file's (`CabezaFresca`, theorem
`Cabeceras`) and the free chain is exact (`LibresFiel`, theorem `CadenaLibre`). `Cabe` counts
the records and the processes that wait to include one: `frsp` always has a position to give
(`HayEspacio`), and it is not a record's. From it, `CompartidoImplementaArchivo`: `SpecC =>
Spec`, the interleaving is a run of `VsamFile`, so that all its theorems hold of a shared file.

*When all keep the discipline* (`Ordenados = Procs`, an assumption of the theorem;
`InvarianteO`): `IInvO` says that a lock is at its holder's position and that nobody waits for
a record, or includes one, holding another (`Candados`); that who read under a lock has it and
what the file has, and who deletes has read (`Leidos`); and what the marks say, past the end of
the file too (`Marcas`). The parts need each other. A record read under its lock without the
mark is in the file (`LeidoVivo`) because a process between the two phases of `vddel` would have
its lock (`Leidos`); the marks survive the reuse of a position because nobody can be between
the phases while another is in `inclu` (`Cabecera`). It gives `LecturaVigente`, `MarcasFieles`,
`BajasSeguras` and `NuncaAbrazo`, the theorems of `LeidoVigente`, `MarcaFiel`, `BajaSegura` and
`SinAbrazo`. The last is short: who has the header waits for no record but one it already has,
so a wait ends in two steps.

Their assumption is `ConstantesCompartido`: finitely many processes, positions counted from 1,
and values for "no holder" and for the mark that are no process and no datum.

`SqlCursorProofs` proves `Columnas` and `LecturaFiel` (theorems `ColumnasPropias` and
`LecturasFieles`) for any number of files, cursors, statements and rows, from `SqlSupuesto`:
there is a file, 0 is a cursor, a text is a query or a change and not both, the text not given yet
is neither, and the rows of a query and the bounds are naturals. `Columnas` is not inductive:
that a row in the file's columns is the statement's which the file executed last needs that a
statement belongs to one cursor (`Propios`), that no two are bound to one buffer (`Duenos`), that
a cursor is bound when it is prepared and not before (`Preparados`), and which answers of the
library the flag stands for (`Enlazados`, `Leido`). `Invariante` is their conjunction; there is
a lemma per action.

*Walks and chains.* What the proofs about links need is proved from the well-foundedness of <
for one fixed set of numbers at a time, at the start of each module that uses it: a set of naturals
has a least one (`Minimo`), a set with 0 and with each number's next has them all (`Hasta`), a
walk along links whose ranks go up meets what it should, each once, and ends (`Recorrido`), one
down places of ever smaller height gives the places it goes through (`HuellaEs`), and one down a
table whose links go to later places ends at the bottom (`AlFondo`). An invariant says of a chain
only that there are ranks; `Recorrido` turns them into what the walk meets.

*The file on disk.* `VsamArbolProofs` and `VsamDiscoProofs` prove `ArbolB`, `SinFugas`,
`BuscaVecinos` and `ImplementaArchivo` (`ArbolSiempreB`, `SinFugasNunca`, `BuscaSiempreVecinos`,
`DiscoImplementaArchivo`) for any keys in any order of the header, values, sizes of blocks and
scripts, with trees of any height: every split, loan and merge of `vsamfun.c`, and that what they
do all together is `VsamFile`.

The clusters of a tree do not say what tree they are, so the invariant says that there is one:
beside the blocks there is a record `G` of its root, its clusters, and for each cluster its
height, its parent and the two keys between which everything below it lies (`Arbol`), with at
least two slots in all but the root and at most four in each (`Llena`). The blocks that no tree,
record or header uses are the free chain, by ranks (`Disco`, `LibreEn`). Each operation is a lemma
that gives the `G` of what it leaves:
- `BuscaEs`: the search goes from the root to the cluster of the key, or to the leaf where it
  would be, and shows there the keys beside it.
- `FrspEs`, `LiberaEs`: a block comes out of the middle of the chain, or goes to its head, and
  the others stay.
- `InsertaEs`: on the way up there is a slot still to be put, and with it there the tree would
  be right (`Pendiente`); each split hands a slot to the level above, and the last one makes
  another root (`Sigue`, `OtraRaizEs`).
- `PrestaIzqEs`, `PrestaDerEs`, `FundeEs`, `BajaRaizEs`: the four ways `forma` mends a cluster,
  at leaves and inside; `RemiendaEs`: on the way up one cluster only may have too few slots
  (`Debe`). That the root is the only parent left without keys is why `r` is 1 there only.
- `BajaLlaveEs`: the two kinds of deletion, and the loop of `baja`.

`IDisco` (`InvarianteDisco`) adds the records: there is a tree for each key, they share no block,
each slot names a record and each record is in its block (`Fichero`); and the pointers of the
records are those of a file of `VsamFile` (`Arch!IInv`, the inductive invariant of `VsamFileProofs`
through the refinement mapping). Neither half is inductive alone. `inclu` finds where a record
goes with `busca`, and `Arch!IInv` makes the record it names the neighbour in the chain
(`EnHuecoEs`); that the value `vdel` looks for is in the tree needs the stacks. A step takes the
keys one by one and keeps what the others have, so that their order does not matter (`EnAlta`,
`EnBaja`: all that a step does, as `VsamFile` sees it). Then the step is a step of `VsamFile`, whose
own lemma gives the invariant after it.

They assume `ConstantesArbol` (the header lists each key once, and has a size for each) and
`ConstantesDisco` (values are naturals, and so are the bounds), and the assumption of `VsamFile`
follows from these.

With it `VsamFileProofs` proves `Recorre` (`RecorridoEntero`), with the order of the keys for the
ranks of a whole walk, and `cuant` for those of a stack.

`MovsProofs` proves `Cadenas` and `LibresFiel` (`CadenasSiempre`, `LibresSiempre`) for any number of
processes, principals, places of the flat file and deaths, whichever files are active. A process
killed or waiting in the middle of `vdlink` or `vdunlink` leaves a chain that is not whole, so that
neither is inductive: the invariant, `IInv`, says at each of the steps what shape the chain of its
principal has, and what the buffers of the process hold (`Forma`). There are ranks along the links
of the chain as it was before the step that joins it and as it will be after (`Cadena`, `Junta`,
`Final`). `Turno` gives each lock its holder, as the place of that process says, and what it has
read and not yet written as the file has it: that is why nobody else can change what a process knows
(`Mios`: the records of its principal and the one it unlinks). `Lista` gives ranks to the free list,
short of the records in the hands of a process or lost with a killed one. Both are proved of the
time before an `LD` has overwritten another's record (`Pisado`), after which the programs are not
followed. `ConstantesMovs` is assumed: finitely many processes; the values for "nobody" and "all"
are none of them; every principal belongs to one process or to all; every process has one; the
bounds are naturals.

`VpgRunProofs` proves `SaltosFieles` (`SaltosSiempre`) for any sources, however long and deep.
`SaltosFieles` says where each jump goes by looking for its bar, dot or brace in the source,
without stacks and when all is written; the invariant, `Compilado`, says what the object and the
stacks have after each token (`Hecho`). How deep the source is at a token is a difference of
counts (`Ifs`, `Lazos`). A branch that is open at some depth is at that height of `ifloc`, with
the place of its jump, and one that has ended has there the count after its end (`Ramas`); the
same of the loops, with the jumps out of them as the sets `lpos` (`Vueltas`) and with each target
that is known (`Metas`). The places of two branches, two loops or a branch and a loop are never
the same (`Distintos`, `CimaLazo`), so that filling some leaves the others (`Cambia`). The counts
are those of the first pass (`Contado`, `Etiquetado`): the passes agree at each token (`Ficha`).
It assumes `FuentesBienEscritas`: `BienEscrita` of every source. TLC checks that those of the run
are. Labels may be repeated or missing.

It proves `VueltaAlCampo` (`RegresoAlCampo`) for any compiled sources, keys and
depth of the stacks: what `surk` keeps for a field is what `sur` has under what the key added,
for each of the keys pressed one inside the other (`IInvV`).

And it proves `SaltoPropio` (`SaltosPropiosSiempre`), for any sources, of the runs in which the
programs put away what a call of another keeps: `Spec /\ []Disciplina => []SaltoPropio`. The
interpreter does not enforce `Disciplina`, and without it the property is false. It says that
when a program calls another (`e`) no key of 256 or more has a label and channels 0 to 2 have no
report open; that either no escape label is set or the program called sets its own with its
first instruction; and that the routines of a report run for one of the program's own. TLC finds
it true in every state of the programs of `programa` when it is given as one more invariant
there. The invariant has two halves. Of what the compiler writes (`IInvO`): every instruction of
an object has its targets among the object's numbers, and what it names is there (`Buena`,
`Sana`), because what fills a jump is a count of the first pass and none is beyond the last
(`Alcance`, `Destinos`). Of what the interpreter keeps (`IInvR`): the instruction, every return
number, every label of a key, of Control-C and of a report is one of the program that runs; the
escape's is too, but for a program called that has not run its `t0` yet, and there Control-C
leads to the end (`EscapeSano`). What a function key interrupted needs `IInvV`. There is a lemma
for each kind of instruction. It assumes of the sources `FuentesCompletas`: jumps have their
targets, the programs and channels they name exist, fields have a length, and two instructions
follow a call on a comparison; the compiler checks none of these, and TLC checks that the
sources of the run have them.

And `CampoVivo` (`CamposVivos`), the part of `VentanaViva` about the field in edition, for fields
and an array (`MaxCar`) of any length and any keys in any order, of the same runs (that a field has
a length is known of an instruction of the program that runs). Accented characters pass the test of
the field's end, so that the cursor need not be in the field. The invariant, `EsCampo`, says what
is left: the text has at least the field's length, and the cursor is at one of its places or just
after the last; what is past the field's length are accented characters or blanks, and nothing in a
field for numbers; and this has digits and blanks only. Each key that writes, moves, inserts or
takes a place out is a lemma on a text that is cut, joined or made longer (`CampoEscrito`,
`CampoAtras`, `CampoMovido`).

`VpSortProofs` proves `Busca` (`BuscaSiempre`) for any files, options, memory, slots and keys.
It needs that the index is by key, hence that every file of the sort is (`OrdenS`) and that what
is merged goes before what is left; that a walk of the tree gives the keys in order; and that
`inskey` keeps the tree one of search. Every node of the tree has a rank, and what hangs from it
a stretch of ranks (`EsArbol`): a new key falls between two ranks, one of the two nodes beside
it has nothing on that side (`Hueco`, `DondeCuelga`), and `ArbolMas` moves the ranks after it by
one. `EnRecorrido` ties the stack of `outsorteda` to the stretches: each node on it follows the
stretch of the one above. In the search, the entries before `posmin` are smaller than the key
and those past `maxreg` greater (`Buscando`); where it starts one past the end and compares an
old entry, that entry is by then the last one. It assumes `TrabajosAssumption`: the options are
those of the program, memory has room for a key (`getmem`), what a record has at its key's columns
is given for each displacement with which its file is read (`cols`, `Despl`), and only a line can
be too short for them. The key of the theorems is the one `vpsort` takes, of the second VSAM file
and the following the displaced one: what the assumption says of the jobs holds of the files so
read (`VistosSon`).

It proves `SalidaFiel` and `NadaSePierde` (`SalidaSiempre`, `NadaSiempre`) from the
same assumption, for any input and memory. An entry of a run does not always have its place
(`op.junta`), so the invariant, `InvT`, says that there are files with every place of which the
program's are the images (`Copia`): the runs and what the merges left of them, `D`, in the order
they are merged, and the result of the merge going on, `g`. Together with the tree they hold
what was read, no record twice: each is in order (`Ordenada`), what one file holds was read
before what the next one holds, and the result goes before what is left of its two files
(`Ordenadas`). A walk empties the tree into a new run (`LlevaT`), a merge moves entries from
two files to one, and when one file is left it is the whole input in order: what goes out, and
the index, are its start (`SalidaT`, `IndiceT`). That entries and records are equally many, with
or without places, is then a bijection between the cells of the files and the records read.

*Only model-checked:*
- `PaginaCabe` and the windows of `VentanaViva`: they depend on what a program does (the windows
  it opens, the lines of its pages) and are stated of the programs that the run has.
- The properties of `datos`, the CGI, the calculator and the sockets among them: their modules
  share `Getad`, which reads arrays of arrays and is recursive, and `tlapm` does without SMT
  there.
- Liveness (`Atiende`, `Acaba`), which is out of this prover's reach.

## What the models leave out

In the files:
- *Widths.* The code takes `long` to be four bytes (the offsets in `vsamrun.c:57` and the
  `cam+8` of the slots); the models do too and do not follow a 64-bit build.
- *Buffers not filled.* `I` of a buffer that still has the mark of a deleted record includes a
  record that no read finds: the disciplined programs fill it before (`Ordenados`).
- *Key bytes.* Keys are naturals; `strncmp` over their width is the order.
- *Block types.* `leerec` and `busca` read whatever bytes a pointer leads to. In the shared
  file a position is always one that has been a record's. A free block starts with the
  pointer to the next one; that its first byte may be by chance the mark of a record, 0x1e, or
  0xff, is left out: `leerec` tells free blocks from records.
- *Sizes of blocks.* In the shared file the free chain has the records' blocks only, as if no
  cluster had their size, so that a record's position is reused by records alone. `VsamDisco`
  has both on one chain.
- *Fields of the key.* The programs of `VsamCompartido` do not change a key with `w`, which
  would leave the index behind.
- *Byte ranges of locks.* `vunlock` frees more bytes than `vdlread` locks: as many as the head
  of the following block, which nobody locks.
- *Creation.* `O` of a file that does not exist creates it; in the models it exists, empty, and
  is open in all processes at first.
- *Crashes* in the middle of `inclu` or `vdel`. Nothing in the code repairs a half written
  index (`recup.c` looks for records in what is left of it), so that there would be nothing to
  state. `Movs` has kills anywhere in an instruction.
- *Principals.* A principal of several programs is used between `Bb` and `Bu` only, and one
  that a killed process left in the middle of an instruction is not used again: without the
  first, the last write of the active file's buffer (`vsamrun.c:140`) puts back an old chain.

In the language:
- *`VpCompile`* has labels, jumps, loops and ifs; the symbols of data are `VpMemoria`'s. The
  include files, the listing and the messages are in neither, nor are the sources that close
  more loops or ifs than they open (the stacks are then read below their start). `tb|;` is left
  out: the passes count it differently (`vp3.c:633` and `197`).
- *`VpgRun`* leaves the files of records open across a chain, `Q`, the attributes of fields
  (`ta`), raw keys (`tk`), and all that only the screen shows (`tp tn tv tB tL tW`). Its bounds
  of the stacks stand for those of the arrays (`sur[256]`, with no check, `vpg4s.c:149`).
- *`Datos`* has integers, texts, dates and hours; types `d` and `f`, the operators on them and
  the expressions of `@` are left out, as are memory beyond `Tope` and summer time. Sums of times
  wrap at 32 bits, those of other integers are small. What a program does after it has run out of
  its memory is not followed (`roto`).
- *`VpMemoria`* compiles some operands into what the interpreter does not read as one (an array
  without its index, after which `getad` takes the next operand for it): the sources of the run jump
  over such instructions, which are compiled and not run.
- *`Entrada`*: KEY_END in a field of blanks goes on before its array to the first byte that is not a
  blank, and here to its start; accented characters stop at the end of `takein`'s array
  (`MaxCar`), past which the code writes.
- *`Archivos`* has one text file open at a time, with no nulls in it. A file that is not there is no
  end of the program (`err.c:29`): it goes on with none, to read which breaks (`SinArchivo`); what
  goes to the screen while there is none is not looked at. `RecuperaFiel` asks nothing of a record at
  place 0 that comes back as "none". *`Formas`* leaves out labels, options and hours; *`Cgi`* what
  tags look like; *`Calcu`* decimals, and what uninitialised digits (`calcu.c:90`) add to a total
  that nothing has cleared, which may be anything; *`Enchufes`* errors of the
  kernel on open sockets; *`Descarga`* floating point fields and messages.
- *`Condicion`*: a text is looked for (comparison 6) where there is room for one character more than
  it has; `ComparaFiel` asks nothing where there is not, since the count of
  `cmp3.c:93` then starts at zero or less, and passes its end.
- *`SqlCursor`* starts connected (`O@`); `qT qC qR` pass a text to the server and keep nothing;
  `I`, `w` and `D` are stubs that always go to the error. `P` on a change and `P$` on a query are
  against the manual (`doc/vpgsql.htm:212-217`).
- *`VpSort`* takes the VSAM files of one sort to have as many keys, and records of the same size.
  It reads an entry of the index as it was written if the compiler leaves no gap after
  `fl` (`op.junta`); with a gap only what does not need the place is stated.

## Not modelled

- *Older copies*: `vpg4.c` (the makefile builds `vpg4` from `vpg4s.c` with `-DVSAMD`), `xxxvp.c`,
  `xxxvpsort.c`, `vsqrun0.c`, `vsqrun1.c` and the other `vsqrun`s, `solsqx.c`, `vpliblinx.c`,
  `vpserv.c`, `vcgi.c`, `parcar2.c` are not built. With the
  headers of the database's client library (`cli0*.h`, `Sql.h`, `c.h`) they are about 9 000 of
  the 21 700 lines. Their code is that of the files modelled, or none.
- *`vp.c`*, the compiler of the VSAM build, is `vp3.c` but for its messages, the sign `\` in texts
  (which `vp3.c:144` turns into a null), the letters of `O`, and the blanks inside `!`: it counts
  instructions and places data alike, and has no model of its own.
- *Screen* (`pan.c`, `impf.c`, `vattr.c`, ...): what curses shows. What steers the program, the
  windows' heights and rows, is in `VpgRun`.
- *Table definition utilities and consoles* (`sqdef*.c`, `genctr.c`, `busmysql.c`, ...): they
  print SQL or files from descriptions, and keep no state between lines; `cblfi.c` and `vfck.c`
  print a file's header and the tree of a key.
- *Floating point*: out of TLC's reach.

## Where the documents and the code disagree

Beside the three violations, these are stated by properties as the code has them, and are listed
with their lines and quotations in `PROJECT.json` (`findings`):

| document | code | property |
|---|---|---|
| a field takes up to # characters (`doc/manvpg.htm:1312`) | accented ones go past it (`inpq.c:125`) | `VentanaViva` |
| `b` reads the record before (`doc/vpgsql.htm:269`) | it fetches the next (`vsqrun.c:189`) | `LecturaFiel` |
| months added end on the month's last day at most (`doc/modifs.txt:53`) | months are counted from 0 and compared from 1 (`misce.c:94`) | `FechaFiel` |
| `&+` adds the days of a short (`doc/manvpg.htm:782`) | it reads four bytes (`tida.c:40`) | `FechaFiel` |
| `&f0` puts the month first, `&f1` the day (`doc/manvpg.htm:763`) | the other way round (`tida.c:20`) | `FechaFiel` |
| `z` with `l` fills to the end of the buffer (`doc/manvpg.htm:1261`) | without VSAM the size is 0 (`vpg4s.c:411`, `423`) | `EscribeLoSuyo` |
| type `F` is unloaded as a date (`doc/modifs.txt:32`) | with `-p` in the width of the field before (`parcar.c:254`) | `DescargaFiel` |
| comparison 6 is true if the text is contained (`doc/manvpg.htm:1194`) | not at the other's end (`cmp3.c:93`) | `ComparaFiel` |
| `FG` reads up to the end of the line (`doc/manvpg.htm:645`) | and drops a last character that is no newline (`vpg4s.c:966`) | `RenglonFiel` |
| "file(s) is(are) vsam" (`vpsort.c:109`) | the key moves on with each file (`vpsort.c:750`) | `SalidaFiel` |

## What was seen on the way

Things that no property states, since nothing in the repository says otherwise or the program
ends in either case; a maintainer may want to look at them.
- `vsqrun.c:309` tests the result of `mysql_stmt_execute` the wrong way round; `vsqrun.c:64`
  leaves statements open.
- `vpg4s.c:207` clears 256 entries of `dk` and `fk`, and the keys of curses start there.
- `cgi.hnf` goes on counting if `Hi` runs twice; `Hi` of no fields writes no variable, where
  `doc/vpgcgi.htm` says zero; `HC` of an unknown name uses a null entry.
- A text constant in `!` has no null at its end (`cmp3.c:44`); a comparison with an unknown
  type at the right leaves its sign unset (`cmp3.c:72`); an unknown letter of a type keeps the
  size of the variable before (`vp3.c:688`).
- `parcar.c:162` and `173` add a day to dates, and the format with widths does not; `parcar9` and
  `parcar19` write a tab too many after a last field that is passed over; `parcar9` and `parcar1a`
  print the line as a format; `parcar1a` has no size for `T`.
- The manual's comparisons in reverse notation (`doc/manvpg.htm:1199-1218`) are those of `vp3.c`
  and `cmp3.c`. `cmp2.c`, which `vpg4` links, wants the sign between the pairs: written as the
  manual says, the second pair is skipped and `&` reads what follows it.
- Two processes that open a missing file may both create it, and the later one truncates what
  the earlier one wrote (`vsamrun.c:172-243`).
- `vfck.c` prints the tree of a key and repairs nothing.

## Plan

Done: the modules above. What could come next:

1. `SqlCursor` with the connection lost and opened again (`O@`).
2. `ta` and the fields' formats in `VpgRun`; floating point in `Datos` as a value that is any.

------------------------------ MODULE FileStore ------------------------------
(***************************************************************************)
(* The files of the FileSystem: FileSystem/src/filetable.c with the node   *)
(* list (nodelist.c), the bitmaps (Shared/bitmap.c) and the commands of    *)
(* the console and the requests of workers that change them.               *)
(*                                                                         *)
(* Uploads of the console and of worker threads exclude each other with    *)
(* cpmut; the other commands of the console take no lock.  Blocks travel   *)
(* through the mailboxes of the nodes' handlers, and the last block sent   *)
(* wakes the thread of the upload.  Uploads and downloads use one file,    *)
(* metadata/blocks, mapped to memory.                                      *)
(*                                                                         *)
(* A ping is one step here, and so is the placement of a block: the races  *)
(* inside a ping are those of NodeHandler.                                 *)
(***************************************************************************)
EXTENDS Integers, Sequences, FiniteSets, FiniteSetsExt

CONSTANTS
  OrdenNodos,    \* the list `nodes` once formatted
  Total,         \* node -> number of blocks
  Consola,       \* the main thread
  Trabajadores,  \* threads of worker_handler: one upload each
  Rutas,         \* paths
  Nadie,         \* NULL
  MaxBloques,    \* bound on the blocks of a file
  MaxSubidas,    \* bound on uploads
  MaxOrdenes,    \* bound on the other commands of the console
  MaxCaidas,     \* bound on the connections lost
  MaxReinicios   \* bound on the restarts of the FileSystem

Nodos == {OrdenNodos[i] : i \in DOMAIN OrdenNodos}
Hilos == Trabajadores \cup {Consola}

ASSUME StoreAssumption ==
  /\ OrdenNodos \in Seq(Nodos)
  /\ \A i, j \in DOMAIN OrdenNodos : OrdenNodos[i] = OrdenNodos[j] => i = j
  /\ Nadie \notin Nodos \cup Hilos
  /\ Total \in [Nodos -> Nat \ {0}]
  /\ Consola \notin Trabajadores
  /\ {MaxBloques, MaxSubidas, MaxOrdenes, MaxCaidas, MaxReinicios} \subseteq Nat

VARIABLES
  fs,         \* the process: "vivo" or "caido"
  lista,      \* nodes in the list
  conexion,   \* nodes whose connection works
  manejador,  \* nodes with node->handler # NULL
  espacio,    \* per node: bits set, bits in the bitmap's file, free_blocks, nodos.bin
  disco,      \* per node: what its data file holds in each block
  archivos,   \* the file table, and its files under metadata/
  hilo,       \* uploads, per thread
  orden,      \* command of the console that takes more than one step
  cpmut,      \* holder of the mutex
  bsent,      \* upload in progress: thread, blocks sent, blocks to send
  suenio,     \* sem_sleep of each thread
  cola,       \* per node: operations its handler has taken or has in its slot
  mapas,      \* contents of metadata/blocks, by inode
  blocks,     \* inode metadata/blocks names, 0 if there is none
  cuenta,     \* uploads, commands, connections lost and restarts so far
  hist        \* history, see Historia

nodoVars  == <<lista, conexion, manejador>>
subidaVars == <<cpmut, bsent, suenio>>
mapaVars  == <<mapas, blocks>>
vars == <<fs, nodoVars, espacio, disco, archivos, hilo, orden, subidaVars, cola, mapaVars, cuenta, hist>>

(* History.  carrera: a command without the lock met an upload, or took a   *)
(* bit that was no longer free.  desfase: a restart read an older bitmap or  *)
(* an older count than those in memory.  fuga: an upload ended without its file, its bits *)
(* stay set.  perdio: a handler took a block for sent, or a command dropped *)
(* it, on a node that was gone.  indice: cpblock read another block.        *)
(* crece: blocks were freed, or a node came back, during an upload, which   *)
(* may then send more copies than it waits for.  vacio: an empty file was   *)
(* uploaded.                                                                *)
Historia == {"carrera", "desfase", "fuga", "perdio", "indice", "crece", "vacio"}

SinCopia == [nodo |-> Nadie, num |-> -1]
Par      == 1 .. 2
SinOrden == [tipo |-> "no"]
SinEnvio == [nodo |-> Nadie]
SinSubir == [pc |-> "libre", ruta |-> Nadie, id |-> 0, bloques |-> <<>>, paso |-> 0,
             guardados |-> 0, ino |-> 0, envio |-> SinEnvio]
Cero     == <<0, 0>>     \* a block never written
Inodos   == 1 .. 3

Init ==
  /\ fs = "vivo" /\ lista = Nodos /\ conexion = Nodos /\ manejador = Nodos
  /\ espacio = [n \in Nodos |-> [ocupados |-> {}, archivo |-> {}, libres |-> Total[n], bin |-> Total[n]]]
  /\ disco = [n \in Nodos |-> [i \in 0 .. Total[n] - 1 |-> Cero]]
  /\ archivos = {} /\ hilo = [t \in Hilos |-> SinSubir] /\ orden = SinOrden
  /\ cpmut = Nadie /\ bsent = [th |-> Consola, current |-> 0, total |-> 0]
  /\ suenio = [t \in Hilos |-> 0] /\ cola = [n \in Nodos |-> <<>>]
  /\ mapas = [i \in Inodos |-> <<>>] /\ blocks = 0
  /\ cuenta = [subidas |-> 0, ordenes |-> 0, caidas |-> 0, reinicios |-> 0]
  /\ hist = {}

-----------------------------------------------------------------------------
(* Bitmaps, free blocks and nodos.bin of one node. *)

Bits(n)  == 0 .. Total[n] - 1
Libre(n) == Bits(n) \ espacio[n].ocupados
PrimerCero(n) == IF Libre(n) = {} THEN -1 ELSE Min(Libre(n))

FijaMutado(e, num) == [e EXCEPT !.archivo = e.ocupados, !.ocupados = @ \cup ({num} \ {-1})]

(* bitmap_set and free_blocks--.  The file of the bitmap is written through *)
(* a buffer that rewind flushes: it is one write behind.  Bit -1 is no bit. *)
Fija(e, num) ==
  [e EXCEPT !.archivo = e.ocupados, !.ocupados = @ \cup ({num} \ {-1}), !.libres = @ - 1]

(* bitmap_unset and free_blocks++ *)
Suelta(e, num) ==
  [e EXCEPT !.archivo = e.ocupados, !.ocupados = @ \ {num}, !.libres = @ + 1]

(* add_node_to_file *)
Anota(e) == [e EXCEPT !.bin = e.libres]

Activos == manejador \cap conexion

(* nodelist_freeblocks, once the nodes have answered a ping *)
Libres == [n \in Nodos |-> espacio[n].libres]
BloquesLibres == MapThenSumSet(LAMBDA n : Libres[n], Activos)

(* A ping waits until the handler is through with what it had, and a node   *)
(* that is gone loses its handler.                                          *)
Ping(ns) ==
  /\ \A n \in ns \cap manejador : cola[n] = <<>>
  /\ manejador' = manejador \ (ns \ conexion)

BalanceMutado(original) ==
  LET ns == lista \cap Activos
  IN  [vistos |-> lista,
       mejores |-> {n \in ns : \A m \in ns : espacio[n].libres * Total[m] >= espacio[m].libres * Total[n]}]

(* balance_node: a node, other than the one with the first copy, is pinged  *)
(* if it is at least as empty as the best of those that answered before it. *)
Balance(original) ==
  LET Tasa(n, m) == espacio[n].libres * Total[m] - espacio[m].libres * Total[n]
      posibles   == {n \in lista \ {original} : espacio[n].libres >= 0}
      Antes(m, n) == \E i, j \in DOMAIN OrdenNodos :
                       i < j /\ OrdenNodos[i] = m /\ OrdenNodos[j] = n
      contestan  == posibles \cap Activos
  IN  [vistos  |-> {n \in posibles : \A m \in contestan : Antes(m, n) => Tasa(n, m) >= 0},
       mejores |-> {n \in contestan : \A m \in contestan : Tasa(n, m) >= 0}]

-----------------------------------------------------------------------------
(* metadata/blocks: truncate, map, unlink. *)

EnUso == {hilo[t].ino : t \in Hilos} \cup {blocks} \cup
         (IF orden.tipo = "baja" THEN {orden.ino} ELSE {})

Truncado(s, k) == [i \in 1 .. k |-> IF i <= Len(s) THEN s[i] ELSE Cero]

InodoDeBlocks == IF blocks # 0 THEN blocks ELSE Min(Inodos \ EnUso)

-----------------------------------------------------------------------------
(* Uploads: cpfrom on the console, OP_INICIAR_ALMACENAMIENTO of a worker. *)

EnTabla(ruta) == \E f \in archivos : f.ruta = ruta

(* The worker's request is refused if the path is taken; the console does   *)
(* not ask.  Neither holds the lock yet.                                    *)
Pedir(t, ruta) ==
  /\ fs = "vivo" /\ hilo[t].pc = "libre" /\ cuenta.subidas < MaxSubidas
  /\ t = Consola => orden = SinOrden
  /\ t # Consola => ~EnTabla(ruta)
  /\ cuenta' = [cuenta EXCEPT !.subidas = @ + 1]
  /\ hilo' = [hilo EXCEPT ![t].pc = "mutex", ![t].ruta = ruta, ![t].id = cuenta.subidas + 1]
  /\ UNCHANGED <<fs, nodoVars, espacio, disco, archivos, orden, subidaVars, cola, mapaVars, hist>>

Despedir(t) == hilo' = [hilo EXCEPT ![t] = [SinSubir EXCEPT !.pc = IF t = Consola THEN "libre" ELSE "fin"]]

(* add_blocks_from_file up to the first block.  The number of blocks is     *)
(* that of the file; an empty file cannot be mapped, which ends the process. *)
Entrar(t, k) ==
  /\ fs = "vivo" /\ hilo[t].pc = "mutex" /\ cpmut = Nadie
  /\ Ping(lista)
  /\ LET libres == BloquesLibres
         ino == InodoDeBlocks
     IN  /\ bsent' = [th |-> t, current |-> 0, total |-> Min({libres, 2 * k})]
         /\ IF libres < k THEN Despedir(t) /\ UNCHANGED <<fs, cpmut, mapaVars, hist>>
            ELSE IF k = 0 THEN fs' = "caido" /\ hist' = hist \cup {"vacio"} /\ UNCHANGED <<cpmut, hilo, mapaVars>>
            ELSE /\ cpmut' = t /\ UNCHANGED fs
                 /\ blocks' = ino
                 /\ mapas' = [mapas EXCEPT ![ino] = [i \in 1 .. k |-> <<hilo[t].id, i>>]]
                 /\ hilo' = [hilo EXCEPT ![t].pc = "reparte", ![t].paso = 1, ![t].ino = ino,
                                         ![t].bloques = [i \in 1 .. k |-> <<SinCopia, SinCopia>>]]
                 /\ hist' = IF orden.tipo = "baja" THEN hist \cup {"carrera"} ELSE hist
  /\ UNCHANGED <<lista, conexion, espacio, disco, archivos, orden, suenio, cola, cuenta>>

OpMandaMutado(sub, idx, num) ==
  [tipo |-> "manda", sub |-> sub, idx |-> idx, num |-> idx - 1, dato |-> Cero]

(* Operations for the handlers: write a block out of the memory of an       *)
(* upload, write the block given, read a block for the download.            *)
OpManda(sub, idx, num) == [tipo |-> "manda", sub |-> sub, idx |-> idx, num |-> num, dato |-> Cero]
OpCopia(num, dato)     == [tipo |-> "manda", sub |-> 0, idx |-> 0, num |-> num, dato |-> dato]
OpRecibe(num)          == [tipo |-> "recibe", sub |-> 0, idx |-> 0, num |-> num, dato |-> Cero]

(* nodelist_addblock, for the block of this step: two passes over the file. *)
Repartir(t) ==
  /\ fs = "vivo" /\ hilo[t].pc = "reparte" /\ hilo[t].paso <= 2 * Len(hilo[t].bloques)
  /\ LET h == hilo[t]
         b == ((h.paso - 1) % Len(h.bloques)) + 1
         original == h.bloques[b][1].nodo
         r == Balance(original)
     IN  /\ Ping(r.vistos)
         /\ IF \A n \in r.mejores : espacio[n].libres = 0
            THEN hilo' = [hilo EXCEPT ![t].paso = @ + 1] /\ UNCHANGED espacio
            ELSE \E n \in r.mejores :
                   LET num == PrimerCero(n) IN
                   /\ espacio' = [espacio EXCEPT ![n] = Anota(Fija(@, num))]
                   /\ hilo' = [hilo EXCEPT
                        ![t].pc = "manda", ![t].guardados = @ + 1,
                        ![t].bloques[b][IF original = Nadie THEN 1 ELSE 2] = [nodo |-> n, num |-> num],
                        ![t].envio = [nodo |-> n, op |-> OpManda(h.id, b, num)]]
  /\ UNCHANGED <<fs, lista, conexion, disco, archivos, orden, subidaVars, cola, mapaVars, cuenta, hist>>

(* thread_send: blocks while the slot is full, returns if there is no handler. *)
Encolar(n, op) ==
  IF n \in manejador THEN Len(cola[n]) < 2 /\ cola' = [cola EXCEPT ![n] = Append(@, op)]
                     ELSE UNCHANGED cola

SiPerdio(n) == IF n \in Activos THEN {} ELSE {"perdio"}

Mandar(t) ==
  /\ fs = "vivo" /\ hilo[t].pc = "manda"
  /\ LET e == hilo[t].envio IN Encolar(e.nodo, e.op) /\ hist' = hist \cup SiPerdio(e.nodo)
  /\ hilo' = [hilo EXCEPT ![t].pc = "reparte", ![t].paso = @ + 1, ![t].envio = SinEnvio]
  /\ UNCHANGED <<fs, nodoVars, espacio, disco, archivos, orden, subidaVars, mapaVars, cuenta>>

Esperando(t) == hilo[t].pc = "reparte" /\ hilo[t].paso > 2 * Len(hilo[t].bloques)

(* Once woken: the file is added if every block was placed that had to be,  *)
(* and if its path is still free.                                           *)
Exito(h) == h.guardados = bsent.total /\ Len(h.bloques) <= h.guardados

Terminar(t) ==
  /\ fs = "vivo" /\ Esperando(t) /\ suenio[t] > 0
  /\ suenio' = [suenio EXCEPT ![t] = @ - 1]
  /\ LET h == hilo[t]
     IN  IF Exito(h) /\ ~EnTabla(h.ruta)
         THEN archivos' = archivos \cup {[ruta |-> h.ruta, id |-> h.id, bloques |-> h.bloques]}
              /\ UNCHANGED hist
         ELSE hist' = hist \cup {"fuga"} /\ UNCHANGED archivos
  /\ blocks' = 0 /\ cpmut' = Nadie /\ Despedir(t)
  /\ UNCHANGED <<fs, nodoVars, espacio, disco, orden, bsent, cola, mapas, cuenta>>

-----------------------------------------------------------------------------
(* The handlers of the nodes. *)

Mapeada(t) == hilo[t].pc \in {"reparte", "manda"}

LecturasMutado(op) ==
  IF op.sub = 0 THEN {op.dato} ELSE {mapas[hilo[t].ino][1] : t \in {u \in Hilos : Mapeada(u)}}

(* What a handler may read at the address of a block of an upload.  Once    *)
(* the upload has ended its memory is unmapped, or maps another's blocks.   *)
Lecturas(op) ==
  LET suyo    == {hilo[t].ino : t \in {u \in Hilos : Mapeada(u) /\ hilo[u].id = op.sub}}
      mapeado == {hilo[t].ino : t \in {u \in Hilos : Mapeada(u)}} \cup
                 (IF orden.tipo = "baja" THEN {orden.ino} ELSE {})
      inodos  == IF suyo # {} THEN suyo ELSE mapeado
  IN  IF op.sub = 0 THEN {op.dato}
      ELSE {mapas[i][op.idx] : i \in {j \in inodos : op.idx <= Len(mapas[j])}}

IndicesMutado(n, op) == IF orden.tipo # "baja" THEN {} ELSE {orden.current + 1}

(* The block of the download that filetable_writeblock looks for. *)
Indices(n, op) ==
  IF orden.tipo # "baja" THEN {}
  ELSE {b \in DOMAIN orden.bloques :
          (\E c \in Par : orden.bloques[b][c] = [nodo |-> n, num |-> op.num])
          /\ b <= Len(mapas[orden.ino])}

(* Block -1 is outside of the data node's file: the node may end. *)
TrasBloque(n, op) == {conexion} \cup (IF op.num = -1 THEN {conexion \ {n}} ELSE {})

BloqueEnviadoMutado ==
  /\ bsent' = [bsent EXCEPT !.current = @ + 1] /\ UNCHANGED fs
  /\ suenio' = IF bsent.current + 1 >= bsent.total - 1 THEN [suenio EXCEPT ![bsent.th] = @ + 1] ELSE suenio
BloqueEnviadoMutadoTarde ==
  /\ bsent' = [bsent EXCEPT !.current = @ + 1] /\ UNCHANGED fs
  /\ suenio' = IF bsent.current = bsent.total THEN [suenio EXCEPT ![bsent.th] = @ + 1] ELSE suenio

(* filetable_sentblock: the last block wakes the thread of the upload, whose *)
(* thread_t is freed memory if it was a worker's that has ended.            *)
BloqueEnviado ==
  LET ultimo == bsent.current + 1 = bsent.total
  IN  /\ bsent' = [bsent EXCEPT !.current = @ + 1]
      /\ IF ultimo /\ hilo[bsent.th].pc # "fin"
         THEN suenio' = [suenio EXCEPT ![bsent.th] = @ + 1] /\ UNCHANGED fs
         ELSE UNCHANGED suenio /\ fs' \in {"vivo"} \cup (IF ultimo THEN {"caido"} ELSE {})

(* NODE_SEND: a node that is gone is not noticed. *)
EscribirBloque(n, op) ==
  /\ op.tipo = "manda"
  /\ BloqueEnviado
  /\ conexion' \in TrasBloque(n, op)
  /\ \E dato \in Lecturas(op) :
       disco' = IF n \in conexion /\ op.num # -1 THEN [disco EXCEPT ![n][op.num] = dato] ELSE disco
  /\ hist' = hist \cup SiPerdio(n)
       \cup (IF op.sub = 0 /\ bsent.current < bsent.total THEN {"carrera"} ELSE {})
  /\ UNCHANGED <<orden, mapas>>

(* NODE_RECV and filetable_writeblock; nothing is written if the node is gone. *)
LeerBloque(n, op) ==
  /\ op.tipo = "recibe"
  /\ conexion' \in TrasBloque(n, op)
  /\ IF n \notin conexion' THEN UNCHANGED <<mapas, orden, suenio>>
     ELSE /\ Indices(n, op) # {}
          /\ mapas' = [mapas EXCEPT ![orden.ino][Min(Indices(n, op))] =
                         IF op.num = -1 THEN Cero ELSE disco[n][op.num]]
          /\ orden' = [orden EXCEPT !.current = @ + 1]
          /\ suenio' = IF orden.current + 1 = Len(orden.bloques)
                       THEN [suenio EXCEPT ![Consola] = @ + 1] ELSE suenio
  /\ UNCHANGED <<fs, disco, bsent, hist>>

(* An access to memory that is not mapped, or beyond the end of the inode. *)
PuedeCaer(n, op) ==
  \/ op.tipo = "recibe" /\ n \in conexion /\ Indices(n, op) = {}
  \/ /\ op.tipo = "manda" /\ op.sub # 0
     /\ ~\E t \in Hilos : /\ Mapeada(t) /\ hilo[t].id = op.sub
                         /\ op.idx <= Len(mapas[hilo[t].ino])

Atender(n) ==
  /\ fs = "vivo" /\ cola[n] # <<>>
  /\ cola' = [cola EXCEPT ![n] = Tail(@)]
  /\ LET op == Head(cola[n])
     IN  \/ EscribirBloque(n, op) \/ LeerBloque(n, op)
         \/ /\ PuedeCaer(n, op) /\ fs' = "caido"
            /\ UNCHANGED <<disco, conexion, orden, bsent, suenio, mapas, hist>>
  /\ UNCHANGED <<lista, manejador, espacio, archivos, hilo, cpmut, blocks, cuenta>>

-----------------------------------------------------------------------------
(* The other commands of the console: no lock. *)

Ordenar ==
  /\ fs = "vivo" /\ hilo[Consola].pc = "libre" /\ orden = SinOrden
  /\ cuenta.ordenes < MaxOrdenes /\ cuenta' = [cuenta EXCEPT !.ordenes = @ + 1]

SiCrece == IF cpmut # Nadie THEN {"crece"} ELSE {}

Cambia(f, bloques) == archivos' = (archivos \ {f}) \cup {[f EXCEPT !.bloques = bloques]}

(* rm -b: never the last copy.  nodos.bin is not written.  The node is not  *)
(* checked: one that left the list is a null pointer.                       *)
BorrarCopia(f, b, c) ==
  /\ Ordenar
  /\ SinCopia \notin {f.bloques[b][1], f.bloques[b][2]}
  /\ fs' = IF f.bloques[b][c].nodo \in lista THEN fs ELSE "caido"
  /\ espacio' = [espacio EXCEPT ![f.bloques[b][c].nodo] = Suelta(@, f.bloques[b][c].num)]
  /\ Cambia(f, [f.bloques EXCEPT ![b][c] = SinCopia])
  /\ hist' = hist \cup SiCrece
  /\ UNCHANGED <<nodoVars, disco, hilo, orden, subidaVars, cola, mapaVars>>

CopiasDeMutado(f) ==
  {[id |-> f.id, b |-> b, c |-> 1, en |-> f.bloques[b][1]] :
     b \in {d \in DOMAIN f.bloques : f.bloques[d][1] # SinCopia}}

(* The copies of a file: whose, which block, which copy and where it is. *)
CopiasDe(f) ==
  {[id |-> f.id, b |-> x[1], c |-> x[2], en |-> f.bloques[x[1]][x[2]]] :
     x \in {y \in (DOMAIN f.bloques) \X Par : f.bloques[y[1]][y[2]] # SinCopia}}

(* nodelist_rmblock, over all blocks of some files: a Suelta and an Anota   *)
(* for each copy on a node of the list.  The bitmap's file is as the last   *)
(* one found it; the order of the files is any.                             *)
SoltarCopias(copias) ==
  [n \in Nodos |->
     LET suyas  == {p \in copias : p.en.nodo = n}
         ultima == CHOOSE p \in suyas : \A q \in suyas :
                     q.id = p.id => q.b < p.b \/ (q.b = p.b /\ q.c <= p.c)
         menos(ps) == espacio[n].ocupados \ {p.en.num : p \in ps}
     IN  IF n \notin lista \/ suyas = {} THEN espacio[n]
         ELSE Anota([espacio[n] EXCEPT !.archivo = menos(suyas \ {ultima}),
                                       !.ocupados = menos(suyas),
                                       !.libres = @ + Cardinality(suyas)])]

Borrar(f) ==
  /\ Ordenar
  /\ espacio' = SoltarCopias(CopiasDe(f))
  /\ archivos' = archivos \ {f}
  /\ hist' = hist \cup SiCrece
  /\ UNCHANGED <<fs, nodoVars, disco, hilo, orden, subidaVars, cola, mapaVars>>

(* format: every file is removed, then the nodes that are not active leave  *)
(* the list and the others are cleared.  What nodos.bin says of a node is   *)
(* not written again.                                                       *)
Formatear ==
  /\ Ordenar /\ lista # {}
  /\ Ping(lista)
  /\ LET limpio == SoltarCopias(UNION {CopiasDe(f) : f \in archivos})
     IN  espacio' = [n \in Nodos |->
           IF n \in Activos
           THEN [limpio[n] EXCEPT !.archivo = limpio[n].ocupados, !.ocupados = {}, !.libres = Total[n]]
           ELSE limpio[n]]
  /\ archivos' = {} /\ lista' = lista \cap Activos
  /\ hist' = IF cpmut # Nadie THEN hist \cup {"carrera", "crece"} ELSE hist
  /\ UNCHANGED <<fs, conexion, disco, hilo, orden, subidaVars, cola, mapaVars>>

(* cmd_cpblock: the free block is chosen here, and taken two steps later. *)
CopiarElige(f, b, n) ==
  /\ Ordenar /\ n \in lista
  /\ Cardinality({c \in Par : f.bloques[b][c] # SinCopia}) = 1
  /\ n \notin {f.bloques[b][c].nodo : c \in Par}
  /\ PrimerCero(n) # -1
  /\ Ping({n})
  /\ orden' = IF n \notin Activos THEN SinOrden
              ELSE [tipo |-> "copia", paso |-> 1, id |-> f.id, b |-> b, nodo |-> n,
                    num |-> PrimerCero(n), dato |-> Cero]
  /\ UNCHANGED <<fs, lista, conexion, espacio, disco, archivos, hilo, subidaVars, cola, mapaVars, hist>>

(* NODE_RECV_BLOCK: past the end of its file the node reads other memory,   *)
(* or ends.                                                                 *)
Leido(n, i) == IF i \in Bits(n) THEN disco[n][i] ELSE Cero
TrasLeer(n, i) == {conexion} \cup (IF i \in Bits(n) THEN {} ELSE {conexion \ {n}})

DeOrden == CHOOSE f \in archivos : f.id = orden.id
Existente == LET par == DeOrden.bloques[orden.b] IN IF par[1] # SinCopia THEN par[1] ELSE par[2]

(* filetable_cpblock reads the block of the index, not that of the copy.    *)
(* It hangs if the node of the copy has no handler or ends (paso 3), and    *)
(* ends the process if that node has left the list.                         *)
CopiarLee ==
  /\ fs = "vivo" /\ orden.tipo = "copia" /\ orden.paso = 1
  /\ LET n == Existente.nodo
         i == orden.b - 1
     IN  IF n \notin lista THEN fs' = "caido" /\ UNCHANGED <<conexion, orden, hist>>
         ELSE /\ n \in Activos /\ cola[n] = <<>>
              /\ conexion' \in TrasLeer(n, i)
              /\ orden' = [orden EXCEPT !.paso = IF n \in conexion' THEN 2 ELSE 3, !.dato = Leido(n, i)]
              /\ hist' = IF Existente.num # i THEN hist \cup {"indice"} ELSE hist
              /\ UNCHANGED fs
  /\ UNCHANGED <<lista, manejador, espacio, disco, archivos, hilo, subidaVars, cola, mapaVars, cuenta>>

CopiarEscribe ==
  /\ fs = "vivo" /\ orden.tipo = "copia" /\ orden.paso = 2
  /\ LET n == orden.nodo
         par == DeOrden.bloques[orden.b]
     IN  /\ Encolar(n, OpCopia(orden.num, orden.dato))
         /\ Cambia(DeOrden, [DeOrden.bloques EXCEPT
              ![orden.b][IF par[1] # SinCopia THEN 2 ELSE 1] = [nodo |-> n, num |-> orden.num]])
         /\ espacio' = [espacio EXCEPT ![n] = Fija(@, orden.num)]
         /\ hist' = hist \cup SiPerdio(n)
              \cup (IF orden.num \in espacio[n].ocupados THEN {"carrera"} ELSE {})
  /\ orden' = SinOrden
  /\ UNCHANGED <<fs, nodoVars, disco, hilo, subidaVars, mapaVars, cuenta>>

(* cat, cpto, md5: receive_file truncates and maps metadata/blocks as well. *)
Bajar(f) ==
  /\ Ordenar
  /\ LET ino == InodoDeBlocks
     IN  /\ blocks' = ino
         /\ mapas' = [mapas EXCEPT ![ino] = Truncado(IF blocks = 0 THEN <<>> ELSE @, Len(f.bloques))]
         /\ orden' = [tipo |-> "baja", paso |-> 1, id |-> f.id, ino |-> ino,
                      bloques |-> f.bloques, current |-> 0]
         /\ hist' = IF cpmut # Nadie THEN hist \cup {"carrera"} ELSE hist
  /\ UNCHANGED <<fs, nodoVars, espacio, disco, archivos, hilo, subidaVars, cola>>

(* receive_block: the second copy if its node is active, else the first one; *)
(* it waits for one of them.                                                *)
BajarPide ==
  /\ fs = "vivo" /\ orden.tipo = "baja" /\ orden.paso <= Len(orden.bloques)
  /\ LET par == orden.bloques[orden.paso]
         activas == {c \in Par : par[c].nodo \in Activos \cap lista}
         c == IF 2 \in activas THEN 2 ELSE 1
     IN  /\ activas # {}
         /\ Ping({par[d].nodo : d \in c .. 2} \cap lista)
         /\ cola' = [cola EXCEPT ![par[c].nodo] = Append(@, OpRecibe(par[c].num))]
  /\ orden' = [orden EXCEPT !.paso = @ + 1]
  /\ UNCHANGED <<fs, lista, conexion, espacio, disco, archivos, hilo, subidaVars, mapaVars, cuenta, hist>>

BajadaLista ==
  orden.tipo = "baja" /\ orden.paso > Len(orden.bloques) /\ suenio[Consola] > 0

BajarTermina ==
  /\ fs = "vivo" /\ BajadaLista
  /\ suenio' = [suenio EXCEPT ![Consola] = @ - 1]
  /\ blocks' = 0 /\ orden' = SinOrden
  /\ UNCHANGED <<fs, nodoVars, espacio, disco, archivos, hilo, cpmut, bsent, cola, mapas, cuenta, hist>>

-----------------------------------------------------------------------------
(* Nodes go and come back; the FileSystem stops and starts. *)

Cae(n) ==
  /\ n \in conexion /\ cuenta.caidas < MaxCaidas
  /\ conexion' = conexion \ {n} /\ cuenta' = [cuenta EXCEPT !.caidas = @ + 1]
  /\ UNCHANGED <<fs, lista, manejador, espacio, disco, archivos, hilo, orden, subidaVars, cola, mapaVars, hist>>

(* node_listener: refresh, then a new handler. *)
Conectar(n) ==
  /\ fs = "vivo" /\ n \in lista \ conexion
  /\ \A m \in lista \cap manejador : cola[m] = <<>>
  /\ conexion' = conexion \cup {n}
  /\ manejador' = (manejador \ (lista \ conexion)) \cup {n}
  /\ hist' = hist \cup SiCrece
  /\ UNCHANGED <<fs, lista, espacio, disco, archivos, hilo, orden, subidaVars, cola, mapaVars, cuenta>>

(* After quit or exit the buffers of the bitmaps are written, after a crash *)
(* or a kill they are not.  nodelist_init takes free_blocks from nodos.bin. *)
Reiniciar(limpio) ==
  /\ cuenta.reinicios < MaxReinicios /\ cuenta' = [cuenta EXCEPT !.reinicios = @ + 1]
  /\ limpio /\ fs = "vivo" => hilo[Consola].pc = "libre" /\ orden = SinOrden
  /\ fs' = "vivo" /\ manejador' = {} /\ conexion' = {}
  /\ espacio' = [n \in Nodos |->
       LET bits == IF limpio THEN espacio[n].ocupados ELSE espacio[n].archivo
       IN  [ocupados |-> bits, archivo |-> bits, libres |-> espacio[n].bin, bin |-> espacio[n].bin]]
  /\ hilo' = [t \in Hilos |-> IF t = Consola THEN SinSubir
                              ELSE [SinSubir EXCEPT !.pc = IF hilo[t].pc = "libre" THEN "libre" ELSE "fin"]]
  /\ orden' = SinOrden /\ cpmut' = Nadie /\ bsent' = [th |-> Consola, current |-> 0, total |-> 0]
  /\ suenio' = [t \in Hilos |-> 0] /\ cola' = [n \in Nodos |-> <<>>]
  /\ hist' = hist
       \cup (IF cpmut # Nadie THEN {"fuga"} ELSE {})
       \cup (IF \E n \in Nodos : \E i \in DOMAIN cola[n] : cola[n][i].tipo = "manda" THEN {"perdio"} ELSE {})
       \cup (IF \E n \in lista : \/ espacio'[n].ocupados # espacio[n].ocupados
                                \/ espacio'[n].libres # espacio[n].libres
             THEN {"desfase"} ELSE {})
  /\ UNCHANGED <<lista, disco, archivos, mapaVars>>

Ordenes ==
  \E f \in archivos :
    \/ Borrar(f) \/ Bajar(f)
    \/ \E b \in DOMAIN f.bloques, c \in Par : BorrarCopia(f, b, c)
    \/ \E b \in DOMAIN f.bloques, n \in Nodos : CopiarElige(f, b, n)

Subir(t) == (\E k \in 0 .. MaxBloques : Entrar(t, k)) \/ Repartir(t) \/ Mandar(t) \/ Terminar(t)

Next ==
  \/ \E t \in Hilos : Subir(t) \/ \E ruta \in Rutas : Pedir(t, ruta)
  \/ Ordenes \/ Formatear
  \/ CopiarLee \/ CopiarEscribe \/ BajarPide \/ BajarTermina
  \/ \E n \in Nodos : Atender(n) \/ Cae(n) \/ Conectar(n)
  \/ \E limpio \in BOOLEAN : Reiniciar(limpio)

(* Threads are scheduled.  cpmut is not fair, but only a thread that has it *)
(* is required to go on.                                                    *)
Fairness ==
  /\ \A t \in Hilos : WF_vars(Repartir(t) \/ Mandar(t) \/ Terminar(t))
  /\ \A n \in Nodos : WF_vars(Atender(n))

Spec == Init /\ [][Next]_vars /\ Fairness

-----------------------------------------------------------------------------
(* Types of the variables. *)
Dato        == Nat \X Nat      \* upload and index of a block
Sitio(n)    == [nodo : {n}, num : Bits(n) \cup {-1}]
TipoCopia   == {SinCopia} \cup UNION {Sitio(n) : n \in Nodos}
TipoBloques == Seq(TipoCopia \X TipoCopia)
TipoEspacio(n) == [ocupados : SUBSET Bits(n), archivo : SUBSET Bits(n), libres : Int, bin : Int]
TipoOp      == [tipo : {"manda", "recibe"}, sub : Nat, idx : Nat, num : Int, dato : Dato]
TipoEnvio   == {SinEnvio} \cup [nodo : Nodos, op : TipoOp]
TipoArchivo == [ruta : Rutas, id : Nat, bloques : TipoBloques]
TipoPc      == {"libre", "mutex", "reparte", "manda", "fin"}
TipoRuta    == Rutas \cup {Nadie}
TipoIno     == Inodos \cup {0}
TipoHilo    == [pc : TipoPc, ruta : TipoRuta, id : Nat, bloques : TipoBloques, paso : Nat,
                guardados : Nat, ino : TipoIno, envio : TipoEnvio]
TipoCopiar  == [tipo : {"copia"}, paso : 1 .. 3, id : Nat, b : Nat, nodo : Nodos,
                num : Nat, dato : Dato]
TipoBajar   == [tipo : {"baja"}, paso : Nat \ {0}, id : Nat, ino : Inodos, bloques : TipoBloques,
                current : Nat]
TipoCuenta  == [subidas : Nat, ordenes : Nat, caidas : Nat, reinicios : Nat]

TipoNodos == /\ fs \in {"vivo", "caido"} /\ cpmut \in Hilos \cup {Nadie}
             /\ lista \subseteq Nodos /\ conexion \subseteq Nodos /\ manejador \subseteq Nodos
TipoEspacios == DOMAIN espacio = Nodos /\ \A n \in Nodos : espacio[n] \in TipoEspacio(n)
TipoDiscos == DOMAIN disco = Nodos /\ \A n \in Nodos : disco[n] \in [Bits(n) -> Dato]
TipoCola(n) == /\ cola[n] \in Seq(TipoOp) /\ Len(cola[n]) <= 2
               /\ \A i \in DOMAIN cola[n] : cola[n][i].num \in Bits(n) \cup {-1}
TipoColas == DOMAIN cola = Nodos /\ \A n \in Nodos : TipoCola(n)
TipoHilos == /\ hilo \in [Hilos -> TipoHilo]
             /\ \A t \in Hilos : LET e == hilo[t].envio IN e # SinEnvio => e.op.num \in Bits(e.nodo) \cup {-1}
TipoOrden == /\ orden \in {SinOrden} \cup TipoCopiar \cup TipoBajar
             /\ orden.tipo = "copia" => orden.num \in Bits(orden.nodo)
TipoSubida == bsent \in [th : Hilos, current : Nat, total : Int] /\ suenio \in [Hilos -> Nat]
TipoMapas == mapas \in [Inodos -> Seq(Dato)] /\ blocks \in TipoIno

TypeOK ==
  /\ TipoNodos /\ TipoEspacios /\ TipoDiscos /\ TipoColas /\ TipoHilos
  /\ TipoOrden /\ TipoSubida /\ TipoMapas
  /\ archivos \subseteq TipoArchivo /\ cuenta \in TipoCuenta /\ hist \subseteq Historia

EnRegla(causas) == hist \cap causas = {}

(* free_blocks is the number of zeros of the bitmap. *)
LibresCuadra ==
  EnRegla({"carrera", "desfase"}) =>
    \A n \in lista : espacio[n].libres = Total[n] - Cardinality(espacio[n].ocupados)

(* Every copy of a stored file has its bit set, on a node of the list, and  *)
(* no other copy uses that block.                                           *)
CopiasReservadas ==
  EnRegla({"carrera", "desfase"}) =>
    \A f, g \in archivos : \A b \in DOMAIN f.bloques, d \in DOMAIN g.bloques : \A c, e \in Par :
      LET copia == f.bloques[b][c] IN
      copia # SinCopia =>
        /\ copia.nodo \in lista /\ copia.num \in espacio[copia.nodo].ocupados
        /\ copia = g.bloques[d][e] => <<f, b, c>> = <<g, d, e>>

(* The variables keep their types, and what a node seems to have free is.  *)
EspacioSano == TypeOK /\ LibresCuadra /\ CopiasReservadas

(* A bit that is set belongs to a copy of a stored file or of an upload in  *)
(* progress, unless some upload ended without its file.                     *)
BitsJustificados ==
  EnRegla({"carrera", "desfase", "fuga"}) =>
    \A n \in lista : \A i \in espacio[n].ocupados :
      \/ \E f \in archivos : \E b \in DOMAIN f.bloques, c \in Par :
           f.bloques[b][c] = [nodo |-> n, num |-> i]
      \/ \E t \in Hilos : \E b \in DOMAIN hilo[t].bloques, c \in Par :
           hilo[t].bloques[b][c] = [nodo |-> n, num |-> i]

(* The node of a copy holds the block, or its handler is about to write it. *)
Integridad ==
  EnRegla({"carrera", "desfase", "perdio", "indice"}) =>
    \A f \in archivos : \A b \in DOMAIN f.bloques, c \in Par :
      LET copia == f.bloques[b][c] IN
      copia # SinCopia =>
        \/ disco[copia.nodo][copia.num] = <<f.id, b>>
        \/ \E i \in DOMAIN cola[copia.nodo] :
             LET op == cola[copia.nodo][i]
             IN  op.tipo = "manda" /\ op.num = copia.num /\ op.dato = <<f.id, b>>

(* Each block of a stored file keeps a copy, and its two copies are on      *)
(* different nodes: rm -b, cpblock and an upload with little space never     *)
(* undo that.  An upload counts copies, not blocks: if space appears while  *)
(* it runs it may take two copies of one block for one of each.             *)
CopiasDistintas ==
  EnRegla({"crece"}) =>
  \A f \in archivos : \A b \in DOMAIN f.bloques :
    /\ \E c \in Par : f.bloques[b][c] # SinCopia
    /\ f.bloques[b][1].nodo # f.bloques[b][2].nodo

(* Two files never share a path. *)
RutaUnica == \A f, g \in archivos : f.ruta = g.ruta => f = g

(* The file table is sound.                                                *)
TablaSana == CopiasDistintas /\ RutaUnica

(* A download that was woken has all the blocks of the file. *)
BajadaFiel ==
  (BajadaLista /\ EnRegla({"carrera", "desfase", "perdio", "indice"})) =>
    mapas[orden.ino] = [i \in DOMAIN orden.bloques |-> <<orden.id, i>>]

(* What a restart may spoil: the bits, the copies and what is downloaded.  *)
TrasReinicio == BitsJustificados /\ Integridad /\ BajadaFiel

(* The process only ends on an empty file, or once a command met an upload. *)
CaidaExplicada ==
  fs = "caido" => hist \cap {"carrera", "desfase", "crece", "vacio"} # {}

(* An upload that got in ends, unless some copy found no node for itself or *)
(* a node was lost: then it may wait for ever, with the mutex.              *)
SubidaTermina ==
  \A t \in Hilos : cpmut = t ~>
    \/ cpmut # t \/ fs = "caido" \/ ~EnRegla({"perdio", "carrera", "crece"})
    \/ Esperando(t) /\ hilo[t].guardados < bsent.total

=============================================================================

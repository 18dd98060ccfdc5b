----------------------------- MODULE FilePartition -----------------------------
(***************************************************************************)
(* A file on its way to blocks and back, byte by byte: the partition of    *)
(* FileSystem/src/filetable.c (a pass that counts the blocks, one that     *)
(* makes them), the space of data of a node (Shared/data.c), what a worker *)
(* cuts out of it for a script (Worker/src/funcionesWorker.c) and the      *)
(* reconstruction of the file for cpto, cat and md5.                       *)
(*                                                                         *)
(* Where copies go, and the nodes and threads that carry them, are         *)
(* FileStore's: here there is one node, and it has room.                   *)
(***************************************************************************)
EXTENDS Integers, Sequences, FiniteSets

LOCAL INSTANCE SequencesExt
LOCAL INSTANCE FiniteSetsExt

CONSTANTS
  Archivos,     \* files: [tipo, lineas], each line a sequence of bytes
  Ocupaciones,  \* sets of blocks of the node taken by other files
  BLOCK_SIZE,
  Trozo,        \* bytes read at once by file_btraverse
  NUL           \* the byte 0

ASSUME PartitionAssumption ==
  /\ Trozo \in Nat \ {0} /\ BLOCK_SIZE \in Nat \ {0} /\ BLOCK_SIZE % Trozo = 0
  /\ \A o \in Ocupaciones : o \subseteq Nat /\ IsFiniteSet(o)
  /\ \A a \in Archivos : a.tipo \in {"texto", "binario"} /\ \A k \in DOMAIN a.lineas : a.lineas[k] # <<>>

VARIABLES
  archivo,   \* the file that is uploaded, and then downloaded
  ocupados,  \* blocks of the node taken by other files
  pc,        \* where the FileSystem is
  quedan,    \* pieces (lines, or chunks) not yet read in this pass
  buffer,    \* the block that is being filled
  size,      \* how much of it is
  count,     \* blocks in this pass
  cuenta,    \* result of the pass that counts
  bloques,   \* the blocks of the file: bytes used, number in the node
  mapa,      \* metadata/blocks
  datos,     \* data.bin of the node
  lee,       \* reconstruct_file: chunk, offset in it, what is left, block and bytes of it
  salida     \* the file downloaded

pase == <<quedan, buffer, size, count>>
vars == <<archivo, ocupados, pc, pase, cuenta, bloques, mapa, datos, lee, salida>>

Contenido == FlattenSeq(archivo.lineas)
Celdas    == [k \in 1 .. BLOCK_SIZE |-> NUL]
Cortada(s) == IF NUL \in ToSet(s) THEN SubSeq(s, 1, Min({k \in DOMAIN s : s[k] = NUL}) - 1) ELSE s
Techo(n, d) == (n + d - 1) \div d
Rango(s, de, n) == SubSeq(s, de + 1, de + n)

Escribe(b, de, s) ==
  [k \in DOMAIN b |-> IF k - de \in DOMAIN s THEN s[k - de] ELSE b[k]]

(* The pieces a traversal hands out: lines, or chunks of the file. *)
Trozos(s) == [k \in 1 .. Techo(Len(s), Trozo) |->
                Rango(s, (k - 1) * Trozo, Min({Trozo, Len(s) - (k - 1) * Trozo}))]
Piezas == IF archivo.tipo = "texto" THEN archivo.lineas ELSE Trozos(Contenido)

Init ==
  /\ archivo \in Archivos /\ ocupados \in Ocupaciones
  /\ pc = "cuenta" /\ quedan = IF archivo.tipo = "texto" THEN archivo.lineas ELSE <<>>
  /\ buffer = Celdas /\ size = 0 /\ count = 0 /\ cuenta = 0 /\ bloques = <<>>
  /\ mapa = <<>> /\ datos = [b \in {} |-> Celdas]
  /\ lee = [pos |-> 0, offset |-> 0, bcur |-> 0, index |-> 0, size |-> BLOCK_SIZE]
  /\ salida = <<>>

-----------------------------------------------------------------------------
(* The partition. *)

(* add_block: nothing of an empty block; in the first pass it only counts. *)
Agrega(sz) ==
  /\ count' = IF sz = 0 THEN count ELSE count + 1
  /\ IF sz = 0 \/ pc = "cuenta" THEN UNCHANGED <<bloques, mapa>>
     ELSE /\ mapa' = Escribe(mapa, count * BLOCK_SIZE, buffer)
          /\ bloques' = Append(bloques, [size |-> sz, num |-> -1])

(* A line is a string: it ends at its first 0, and one more goes after it,  *)
(* which has to fit too.                                                    *)
Pieza(p) == IF archivo.tipo = "texto" THEN Cortada(p) ELSE p
NoCabeMutado(p) == size + Len(p) > BLOCK_SIZE
NoCabe(p) == size + Len(p) + (IF archivo.tipo = "texto" THEN 1 ELSE 0) > BLOCK_SIZE

(* What is put in the buffer, from byte `de`.  Beyond its end there is the  *)
(* frame of the function, whose loss ends the process; when it is only the  *)
(* end of the string it may go unnoticed.                                   *)
Pone(de, p) ==
  LET s == IF archivo.tipo = "texto" THEN p \o <<NUL>> ELSE p
  IN  \/ /\ de + Len(p) <= BLOCK_SIZE
         /\ buffer' = Escribe(buffer, de, s) /\ size' = de + Len(p) /\ UNCHANGED pc
      \/ /\ de + Len(s) > BLOCK_SIZE
         /\ pc' = "caida" /\ UNCHANGED <<buffer, size>>

(* line_handler of partition_text_file, block_handler of partition_bin_file *)
Manejar ==
  /\ pc \in {"cuenta", "parte"} /\ quedan # <<>> /\ quedan' = Tail(quedan)
  /\ LET p == Pieza(Head(quedan))
     IN  IF NoCabe(p) THEN Agrega(size) /\ Pone(0, p)
                      ELSE UNCHANGED <<count, bloques, mapa>> /\ Pone(size, p)
  /\ UNCHANGED <<archivo, ocupados, cuenta, datos, lee, salida>>

(* The last block of the pass. *)
FinCuenta ==
  /\ pc = "cuenta" /\ quedan = <<>>
  /\ cuenta' = IF archivo.tipo = "texto" THEN count + (IF size = 0 THEN 0 ELSE 1)
               ELSE Techo(Len(Contenido), BLOCK_SIZE)
  /\ pc' = "mapea"
  /\ UNCHANGED <<archivo, ocupados, pase, bloques, mapa, datos, lee, salida>>

(* metadata/blocks takes the size counted; zero bytes cannot be mapped. *)
Mapear ==
  /\ pc = "mapea"
  /\ IF cuenta = 0 THEN pc' = "caida" /\ UNCHANGED <<mapa, quedan>>
     ELSE /\ pc' = "parte" /\ quedan' = Piezas
          /\ mapa' = [k \in 1 .. cuenta * BLOCK_SIZE |-> NUL]
  /\ size' = 0 /\ count' = 0
  /\ UNCHANGED <<archivo, ocupados, buffer, cuenta, bloques, datos, lee, salida>>

FinParte ==
  /\ pc = "parte" /\ quedan = <<>> /\ Agrega(size) /\ pc' = "envia"
  /\ UNCHANGED <<archivo, ocupados, quedan, buffer, size, cuenta, datos, lee, salida>>

-----------------------------------------------------------------------------
(* A block goes to the node's space, and comes back. *)

EnNodo(k) == mapa' = Escribe(mapa, (k - 1) * BLOCK_SIZE, datos[bloques[k].num])

(* The block takes the first free bit of the node; data_set writes all of it. *)
Enviar ==
  /\ pc = "envia"
  /\ LET k == Cardinality(DOMAIN datos) + 1
         num == Min((0 .. Cardinality(ocupados) + Len(bloques)) \ (ocupados \cup DOMAIN datos))
     IN  IF k <= Len(bloques)
         THEN /\ datos' = [b \in DOMAIN datos \cup {num} |->
                             IF b = num THEN Rango(mapa, (k - 1) * BLOCK_SIZE, BLOCK_SIZE) ELSE datos[b]]
              /\ bloques' = [bloques EXCEPT ![k].num = num] /\ UNCHANGED <<pc, mapa, count>>
         ELSE /\ pc' = "recibe" /\ count' = 0 /\ mapa' = [c \in DOMAIN mapa |-> NUL]
              /\ UNCHANGED <<datos, bloques>>
  /\ UNCHANGED <<archivo, ocupados, quedan, buffer, size, cuenta, lee, salida>>

(* reset_block_file, and filetable_writeblock at each block's index; once    *)
(* all came the reconstruction begins.                                       *)
Recibir ==
  /\ pc = "recibe"
  /\ IF count < Len(bloques)
     THEN EnNodo(count + 1) /\ count' = count + 1 /\ UNCHANGED pc
     ELSE pc' = "trozo" /\ UNCHANGED <<mapa, count>>
  /\ UNCHANGED <<archivo, ocupados, quedan, buffer, size, cuenta, bloques, datos, lee, salida>>

(* What a worker is given for a block that uses sz bytes:                    *)
(* head -c (num * BLOCK_SIZE + sz) | tail -c sz, or head -c sz of block 0.   *)
Byte(c) == LET b == c \div BLOCK_SIZE IN
           IF b \in DOMAIN datos THEN datos[b][(c % BLOCK_SIZE) + 1] ELSE NUL
LeidoMutado(num, sz) == [k \in 1 .. sz |-> Byte(num * BLOCK_SIZE + k)]
Leido(num, sz) ==
  LET offset == IF num = 0 THEN sz ELSE num * BLOCK_SIZE + sz
  IN  [k \in 1 .. sz |-> Byte(offset - sz + k - 1)]

-----------------------------------------------------------------------------
(* reconstruct_file: goes through metadata/blocks in chunks. *)

Fin == Len(mapa) - lee.pos = 0
BSize == Min({Trozo, Len(mapa) - lee.pos})

(* The traverser is called; the first time it takes the first block. *)
Traer ==
  /\ pc = "trozo"
  /\ IF Fin \/ (lee.size = BLOCK_SIZE /\ lee.index + 1 > Len(bloques))
     THEN pc' = "listo" /\ UNCHANGED lee
     ELSE /\ pc' = "escribe"
          /\ lee' = [lee EXCEPT !.offset = 0, !.bcur = BSize,
                                !.index = IF lee.size = BLOCK_SIZE THEN @ + 1 ELSE @,
                                !.size = IF lee.size = BLOCK_SIZE THEN 0 ELSE @]
  /\ UNCHANGED <<archivo, ocupados, pase, cuenta, bloques, mapa, datos, salida>>

(* One turn of its loop: what there is of the block in the chunk is written; *)
(* when the block is complete the offset skips what is left of it, as far as *)
(* this chunk goes.                                                          *)
SaltoMutado(leidos, bytes) == bytes
Salto(leidos, bytes) == BLOCK_SIZE - leidos + bytes
Escribir ==
  /\ pc = "escribe" /\ lee.offset < BSize
  /\ LET b == bloques[lee.index]
         bytes == Min({lee.bcur, b.size - lee.size})
         leidos == lee.size + bytes
     IN  /\ salida' = salida \o Rango(mapa, lee.pos + lee.offset, bytes)
         /\ IF leidos # b.size
            THEN /\ lee' = [lee EXCEPT !.size = leidos, !.bcur = @ - bytes, !.offset = @ + bytes]
                 /\ UNCHANGED pc
            ELSE IF lee.index = Len(bloques) THEN pc' = "listo" /\ UNCHANGED lee
            ELSE /\ lee' = [lee EXCEPT !.size = 0, !.index = @ + 1, !.bcur = @ - bytes,
                                       !.offset = @ + Salto(leidos, bytes)]
                 /\ UNCHANGED pc
  /\ UNCHANGED <<archivo, ocupados, pase, cuenta, bloques, mapa, datos>>

FinTrozo ==
  /\ pc = "escribe" /\ lee.offset >= BSize
  /\ pc' = "trozo" /\ lee' = [lee EXCEPT !.pos = @ + BSize]
  /\ UNCHANGED <<archivo, ocupados, pase, cuenta, bloques, mapa, datos, salida>>

Next ==
  \/ Manejar \/ FinCuenta \/ Mapear \/ FinParte
  \/ Enviar \/ Recibir
  \/ Traer \/ Escribir \/ FinTrozo

Spec == Init /\ [][Next]_vars
-----------------------------------------------------------------------------
(* Properties. *)

TypeOK ==
  /\ pc \in {"cuenta", "mapea", "parte", "envia", "recibe", "trozo", "escribe", "listo", "caida"}
  /\ size \in 0 .. BLOCK_SIZE /\ count \in Nat /\ cuenta \in Nat
  /\ \A k \in DOMAIN bloques : bloques[k].size \in 1 .. BLOCK_SIZE
  /\ Len(mapa) = (IF pc \in {"cuenta", "mapea"} \/ cuenta = 0 THEN 0 ELSE cuenta * BLOCK_SIZE)
  /\ DOMAIN datos \cap ocupados = {}

ConNulo == archivo.tipo = "texto" /\ NUL \in ToSet(Contenido)
Guardado == FlattenSeq([k \in DOMAIN archivo.lineas |-> Pieza(archivo.lineas[k])])
Hasta(k) == FoldLeft(LAMBDA n, b : n + b.size, 0, SubSeq(bloques, 1, k))
Cortes == {Hasta(k) : k \in 0 .. Len(bloques)}
Finales == {Len(FlattenSeq([j \in 1 .. k |-> Pieza(archivo.lineas[j])])) : k \in 0 .. Len(archivo.lineas)}

(* The pass that makes the blocks makes as many as the other counted, the   *)
(* blocks cut a text only between lines, and the bytes that a worker cuts   *)
(* out for them are, one block after the other, those of the file; of a     *)
(* text, up to the first 0 of each line.  Only an empty file, or a line     *)
(* that does not fit in a block with its end, ends the process.             *)
ParticionCorrecta ==
  /\ TypeOK
  /\ pc = "caida" => \/ Contenido = <<>>
                     \/ archivo.tipo = "texto" /\ \E k \in DOMAIN archivo.lineas :
                          Len(Pieza(archivo.lineas[k])) >= BLOCK_SIZE
  /\ pc \in {"envia", "recibe", "trozo", "escribe", "listo"} =>
       /\ Len(bloques) = cuenta /\ Hasta(cuenta) = Len(Guardado)
       /\ archivo.tipo = "texto" => Cortes \subseteq Finales
  /\ pc \in {"recibe", "trozo", "escribe", "listo"} =>
       FlattenSeq([k \in DOMAIN bloques |-> Leido(bloques[k].num, bloques[k].size)]) = Guardado

Hueco == \E k \in 1 .. Len(bloques) - 1 : BLOCK_SIZE - bloques[k].size >= Trozo

(* cpto, cat and md5 give back the file that was copied, unless it was a    *)
(* text with a byte 0, or one of its blocks ends a whole chunk or more      *)
(* before its space does: the offset that skips it does not outlive the     *)
(* chunk.  In those cases they never do, though what they give back always  *)
(* has the size of what was stored.                                         *)
ReconstruccionFiel ==
  pc = "listo" =>
    /\ salida = Contenido <=> ~Hueco /\ ~ConNulo
    /\ Len(salida) = Len(Guardado)
=============================================================================

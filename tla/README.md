# YATPOS in TLA+

YATPOS is a small distributed file system with map-reduce on top, in C: a
FileSystem process that keeps the metadata, DataNodes that keep blocks, YAMA,
which plans jobs, Masters, which run one job each, and Workers, which run the
scripts of a job beside the blocks.  This directory holds TLA+ models of it, the
configurations that check them with TLC, and proofs checked by TLAPS.  Names are
those of the code, in Spanish where the code is.  Source paths below are
relative to the repository.

## 1. The system

| component | state | operations | talks to |
|---|---|---|---|
| YAMA (`YAMA/src`) | state table `listaEstados`, load table `listaCargaPorNodo`, last active nodes `listaNodosActivos`, planner statics, SIGUSR1 flags | plan a file, react to the end of each task, replan, abort, clean up after a master, reload the configuration | masters (one socket each), FileSystem (one socket) |
| Master (`Master/src`) | list of threads `hilos` under `mutex_hilos`, semaphore of 30, `job_active` | a thread per task; `node_drop` kills the threads of a node that failed | YAMA, workers; between threads the mailbox of `Shared/thread.c` |
| Worker (`Worker/src`) | temporary files, children | fork per request: transform, reduce locally, merge globally, store | masters, other workers, FileSystem |
| FileSystem (`FileSystem/src`) | directory table (100 slots), file table with two copies per block, node list with a bitmap per node, files under `metadata/` | console commands, upload, download, copy and remove blocks; threads for the nodes, for YAMA and for workers | DataNodes, YAMA, workers |
| DataNode (`DataNode/src`) | one mapped file of blocks | read, write and answer pings, one request at a time | FileSystem |
| Shared (`Shared`) | thread registry and mailboxes, lists, bitmaps, packets | used by all of them | |

How they interact.  A master connects to YAMA, is given a job number and asks
for a file.  YAMA asks the FileSystem for the active nodes and the copies of the
blocks, plans each block on a node that holds it and sends the transformations.
The master starts a thread per task; each thread talks to a worker and tells
YAMA the result.  When a node has finished its transformations YAMA orders its
local reduction, after the last one a global reduction, then the final storage.
A failed transformation replans every block of its node onto the other copies;
any other failure aborts the job.

### What is hard about it, and what makes it correct

* YAMA: the clock keeps statics between plannings, the configuration changes
  under a signal, and the load table is completed lazily.  Correct: every block
  planned once, on a holder; planning ends; loads agree with the jobs.
* YAMA and masters: answers of several threads in any order, answers that are
  already on their way when their node is replanned or their job aborted,
  masters that die, descriptors that are reused.  Correct: each block reaches
  the global reduction once, one global reduction and one storage per job, jobs
  end, a cleanup touches only its own job.
* Master: `node_drop` kills and resumes threads found in a list that they join
  and leave concurrently.  Correct: no deadlock, a failing thread is resumed,
  each thread answers at most once.
* FileSystem: uploads go through per-node threads and mailboxes; metadata lives
  in memory, in bitmaps and in several files that are not written atomically.
  Correct: a stable file has a copy of each block on an active node, no two
  copies share a block of a node, the number of free blocks matches the bitmap,
  the directory table is a tree.
* FileSystem, names: a table of entries that name their parent, changed by the
  console and by the threads of uploads that end.  Correct: it is a tree, what
  is on disk is what is in memory, a move keeps what it moves.
* FileSystem, contents: a file is cut between lines, sent in blocks and put
  together from chunks.  Correct: it comes back as it was.
* Worker: children of one node share a directory.  Correct: an answer OK stands
  for the result of its stage, every request is answered, nothing is left over.
* Shared: a mailbox with one slot for the sender, lists whose lock does not
  cover every access, packets of several threads on one stream of bytes.
  Correct: an operation on a list gives what it promises, each packet that is
  sent is received whole, once and in order.

The list with source lines is under `hazards` in `PROJECT.json`.

## 2. The modules

| module | models | role |
|---|---|---|
| `BlockPlan` | what a planning promises | abstract specification |
| `YamaPlanner` | `planificar` and all it calls, `completarPrimeraVez`, the reload on SIGUSR1 | detailed, implements `BlockPlan` |
| `YamaPlannerProofs`, `YamaJobsProofs`, `YamaCargaProofs`, `MasterThreadsProofs`, `NodeHandlerProofs`, `FileStoreProofs`, `FileStoreDatosProofs` | | theorems about the module named, `YamaCargaProofs` about the load table and the stages of `YamaJobs`, `FileStoreDatosProofs` about what the blocks of `FileStore` hold |
| `Sumas` | | lemmas about the sum of a function over a finite set, the fold of the models |
| `YamaJobs` | state table, load table, every handler of `listen_to_master`, masters as their environment | detailed |
| `NodeHandler` | `datanode_handler`, `node_listener`, pings, and the mailbox of `Shared/thread.c` between them | detailed |
| `FileStore` | file table, node list, bitmaps, the commands of the console and the uploads of workers, restarts | detailed; a ping is one step |
| `MasterThreads` | the threads of a Master, `node_drop`, `mutex_hilos`, the semaphore; suspension, kill and join of `Shared/thread.c` | detailed; YAMA's orders are its environment |
| `NameSpace` | what the commands on files and directories promise | abstract specification |
| `DirTree` | `dirtree.c`, where files are, `mv` and `rename`, uploads that add directories, restarts | detailed, implements `NameSpace` |
| `MList` | `Shared/mlist.c` with several threads | detailed |
| `Serial` | packing and unpacking, operators only | used by `Protocol` |
| `Protocol` | packets, sends and receives, greetings, one connection byte by byte | detailed |
| `FilePartition` | cutting a file into blocks, what workers are given of it, putting it together | algorithm, byte by byte |
| `Worker` | the workers of a job, their children and files | detailed; Master's threads are its environment |
| `MC...` | | constants for TLC, one for each module with a run |

How they fit.  `YamaPlanner` is the planning that `YamaJobs` takes as one step;
the master that `YamaJobs` sees from outside (`tareas`, `porEnviar`) is
`MasterThreads` from inside, and what `MasterThreads` sees of a worker (an
answer, an error) is `Worker`; the stream between them is `Protocol`.
`FileStore` takes pings as one step, which `NodeHandler` opens, file contents as
a name, which `FilePartition` opens, and paths as a name, which `DirTree` opens.
The thread registry, the nodes and the files are lists, which `MList` opens.

### YamaPlanner

One action per branch of `verificarCondicion` (`RecargoDisponibilidad`,
`AsignoBloque`, `AvanzoPosicion`), around them `RecibirPedido`, `LlenarArray`,
`TerminarPlan`, and the three steps after the plan (`RecargarConfig`,
`BorrarSenial`, `CerrarPlan`).  They are separate because `Trapper`, the signal
handler, may run between any two.  `pos`, `bloque`, `contador`, `asignoTodo` are
the variables of the code; positions and blocks count from 0.  The loads that a
planning finds come from `Cargas`, since other jobs change them between two
plannings; `CargaTope` bounds them and they may be negative, because `YamaJobs`
shows that `cargaActual` drifts.  `perdida` is a history variable.

A read through NULL (a node without an entry in the load table) is the phase
`"caido"`.  Any file of the table may be asked for, with copies on nodes that are
listed or not: `yama_handler` answers for every file it finds
(`FileSystem/src/server.c:217`), and looks at `filetable_stable` only when YAMA
connects (`server.c:184`).  For a block that no listed node holds the loop of
`planificar` (`funcionesYAMA.c:27`) never ends, and goes on giving DISP_BASE away
at each turn; `GiroAcotado` stops counting at `MaxGiro`, which cuts nothing else
(`Hospedado` is true of every other block).

### YamaJobs

YAMA is one thread, so every handler is one action and includes all the calls
it makes.  Each row of `tabla` is a row of `listaEstados`; temporary files are
`entradas`, the rows whose output a reduction reads.  Between a master and YAMA
there are two sequences, `aMaestro` and `aYama`.  A master thread takes itself
off the list of threads (`actualizar_hilo`) before it sends its answer:
`tareas` are the threads on the list, `porEnviar` the answers of those off it.
`node_drop` kills what is in `tareas` only; that is how an answer can come from
a node that was already replanned.

A file one of whose blocks is on no active node is `PlanSinFin`: YAMA's one
thread never comes back from `planificar`, and no job goes on.

Abstracted: the copies of a file are constant, so a replanning after they changed
(the NULL of `mlist_find`, `funcionesYAMA.c:336`) is outside; the plan is any that
`BlockPlan` allows; the order of the rows of
one plan; `cargaHistorica`, which only breaks ties in the planner; the aliasing
of duplicated rows by `mlist_replace`; answers are whole packets.  All nodes
have a load entry (`YamaPlanner` covers the other case).  A master that gets
OP_ERROR_JOB drops its threads, although answers already on their way may still
come out.  History: `tardios` collects the jobs that had an answer handled for
a row that was no longer in process.

### NodeHandler

Every thread that asks a node for something writes the handler's one slot and
its `sender`, then waits on its own mailbox.  `thread_send` is cut where another
thread can come in: `Mirar` reads `node->handler`, `Leer` reads it again to
send, `Enviar` waits for the slot, stores the message and the sender;
`thread_respond` is `Dirigir` (it reads `sender`) and `Mandar` (it waits for the
slot of that thread).  What a thread does is a list of requests, `tarea`: a
traversal of the nodes, `cpblock`, or the admission of a node.  `Cae` and
`Reconecta` are the node; `Aceptar` and `Instalar` are `node_listener`;
`Cerrar` is the last line of a handler, which clears `node->handler` without a
look at whose it is.  Handlers are told apart by a number because two may be
alive for one node.

### FileStore

An upload is `Pedir`, `Entrar` (with the mutex: count blocks and space, map
`metadata/blocks`), for each copy `Repartir` and `Mandar` (`nodelist_addblock`,
up to `thread_send` and that), and `Terminar` once the last block sent has woken
it.  The handlers are `Atender`, one operation at a time.  Commands that touch
only memory and `metadata/` are one action (`Borrar`, `BorrarCopia`,
`Formatear`); `cpblock` and the downloads are cut where they wait for a handler.
`mapas` are the contents of the file `metadata/blocks` by inode, because an
unlinked file stays mapped, and because a truncation reaches whoever maps the
same inode.  `espacio` keeps the four copies of the truth about a node: bits in
memory, bits in the file, `free_blocks`, `nodos.bin`.  A block's content is the
pair of upload and index.

Abstracted: a ping is one step (its races are in `NodeHandler`); the placement
of a block is one step; the files in `metadata/archivos` are written with the
table, since `update_file` saves at once; the directories that `cpfrom` adds and
`format` clears belong to `dirtree.c`; block -1, which `bitmap_firstzero`
returns on a full node, sets no bit and may end the data node.  History: `hist`
collects which of the known races has happened, so that each property says which
of them it does not survive.

### MasterThreads

The main thread is `Recibir` (a packet of YAMA), `Crear` and `Anotar` for each
task of it, `Mirar` and `Unir` for the final storage, `Terminar` and `Salir`.  A
task is `Conectar`, `Mandar`, `Recibido`, and then either `Actualizar` and
`Informar`, or `Avisar` (the name of the node to `node_drop`), `Despertar`,
`Actualizar`, `Informar`.  `node_drop` is `Atender`, `Trabar`, `Matar`,
`Recoger`, and the resumption of the sender.  They are cut where another thread
can come in: between the creation of a thread and its entry in `hilos`, between
`thread_receive` and `thread_sender`, between the signal of a kill and the join.
`senal` is a signal that came while the thread was not blocked.  What YAMA
orders, and after which reports, comes from `Paquetes`.  The appends of main to
`hilos` while `node_drop` goes through it are whole here; `MList` opens them.
History: `causas` says which thread was not in the list when its notice was
read (`sin anotar`), had its notice crossed with another (`cruce`) or overwritten
(`pisado`), was joined after its `thread_t` was freed (`unido tarde`), or
touched what main had destroyed (`liberada`).

### DirTree

`dirs` and `dat` are the table in memory and in `directorios.dat`, `archivos` and
`disco` the files in memory and under `metadata/archivos`.  A command is one
action, except `mv` of a file, whose `path_move` copies and then removes
(`mudanza`).  An upload that ends adds its path level by level: `BuscarNivel`
chooses the entry, `EscribirNivel` fills it, `GuardarNiveles` saves, `Resolver`
looks the directory up again and `Alta` adds the file; the console may come in
between any two.  `Reiniciar` reads the disk.  `RutaDe` maps the table to paths,
and with it the module implements `NameSpace`.  History: `ciclo`, `sufijo`,
`llena`, `carrera`, `corte`, explained below.

### MList

The heap is a function from nodes to links, element, whether the node was freed
(`vivo`) and whether its element was destroyed (`roto`).  Operations are cut
where the lock is taken or left: `Agregar` and `Insertar` choose the node before
it, `InsertarDespues` and `InsertarAntes` hook the new one under it; a traversal
goes node by node (`Recorrer`, `Visitar`), and a removal runs the destroyer with
the node still linked (`Destruir`, `mlist.c:386`), takes it off under the lock
(`Quitar`, and `Sacar` for `mlist_pop`) and frees it after the lock was left
(`Liberar`, `mlist.c:402`).  `mlist_sort` is a recursive merge in the code;
`Ordenar` is what it leaves, with the `tail` and `prev` of before.

A node that was taken off and is not yet freed is still memory: a change made
there goes on (`suelta`), and if it is an append the new node hangs from one that
nobody reaches, while `tail` and `length` count it.  What a thread does with
freed memory is undefined: the process ends (`caida`), or goes on with what was
there (`liberada`).  That the allocator may hand the memory out again is left out:
the properties make no claim once it was used.  A thread that follows NULL ends
the process.

### Serial and Protocol

Bytes take `Base` values, 8 in the run, and integers half the bytes of the code,
so that values still go from the lowest to the highest and wrap.  `MCProtocol`
has an assumption that TLC evaluates, `IdaYVuelta`: what is packed comes out
again for every format and the values at the ends of its range.  A packet is two
`Enviar`, header and content, each of which waits while the socket is full; what
arrives is taken by single bytes or all at once (`Recibir`, `RecibirFin`).
`Matar` is the signal of `node_drop` to a thread that waits in `send`; `Cortar`
the end of a process or of a connection, once in a behaviour.  Floats are left
out.

### FilePartition

The variable `pc` goes through the life of one copy of a file: `cuenta` and
`parte` are the two passes of `partition_text_file` or `partition_bin_file`,
with `mapea` between them, `envia` puts the blocks in the node's space, `recibe`
maps them back, `trozo` and `escribe` are `reconstruct_file`.  Bytes are numbered, so
that each has a place of its own.  Files of 2 GB and more are out: in a 32-bit
build 2048 blocks are 2^31 bytes, which `fopen` without large files does not
open.

### Worker

A request waits in `cola` until the parent accepts it (`Aceptar`, `ForkFalla`),
and its child goes through the list `Pasos` of its stage: `Nombrar` and `Crear`
for temporary files, `Traer` and `Manda` between the worker in charge and the
others, `Mezclar`, `Transformar`, `Reducir`, `Guardar`, `Responder`, `Borrar`.  A
pipeline of the shell is one step.  `Temp` draws a name from the second in which
the child began and how many it drew before.  The scripts are those of a count
of words, which lets the properties say what a result is; the order in which
`sort` leaves them is taken to be that of the `strcmp` of `path_merge`, which a
locale other than C may not give.

`mundo.fallan` are the tasks whose script fails, `mundo.rompen` those whose command
does: the shell, `sort` or the redirection.  Such a command leaves no file or part of
it (`Rota`) and is answered RESPONSE_ERROR; the reductions free their command twice
when `system` cannot fork (`funcionesWorker.c:395`), so the child may also die.
`Parar` stops a parent: requests in `cola` are lost, later ones refused (`Pedir`,
and `Traer`, where `connect_to_worker` ends the child), and the other end of a
connection whose child died without an answer sees it closed (`Cortar`) once the
children born later, which inherited it, are gone too (`Cortada`).  A parent that
was stopped is not started again.

## 3. The runs

| run | instance | checks |
|---|---|---|
| `yama_planner` | 3 nodes, six lists of active nodes, which may leave a block without a copy, files of two and three blocks with one or two copies and one of five that two nodes hold whole, DISP_BASE 1, unequal loads, both algorithms | type, plan and statics (`PlanSano`), bounded and fair search (`RelojJusto`), reads through NULL, the reload, refinement of `BlockPlan`, planning ends or goes round a block nobody holds |
| `yama_jobs` | 1 job, 2 nodes, 2 blocks on both nodes, 2 failures, block 2 taken as corrupt | loads, streams, stages, jobs end |
| `yama_jobs_dos_masters` | 2 masters on 2 descriptors, 1 block with copies on two of 3 nodes, 1 failure, lists of active nodes with and without a copy | descriptor reuse and cleanup, loads of two jobs |
| `node_handler` | 2 nodes, console and `node_listener`, a connection lost and back | answers, handlers, answers arrive |
| `file_store` | 2 nodes of 2 and 3 blocks, files of 0 to 2 blocks, 2 paths, 2 uploads, 2 commands | bits, counters, copies, contents, what ends the process, uploads end |
| `file_store_reinicio` | 2 nodes of 1 and 2 blocks, 1 path, 2 uploads, 2 commands, 1 connection lost, 1 restart | bits and contents after a restart |
| `master_threads` | 4 transformations on 2 nodes, a local reduction, the last two stages, 3 permits, up to 3 workers that fail | permits, killed threads are silent, resumption, why a thread is left or the process falls, the master ends |
| `dir_tree` | 5 entries, names `a` and `za`, 4 commands or restarts, 2 uploads | the tree, the disk, refinement of `NameSpace` |
| `mlist` | 2 threads, 4 nodes, 5 operations | links and length, what each operation gives |
| `protocol` | a Master of two threads with YAMA, YAMA with a FileSystem, sockets of 7 bytes, one failure | packets received as sent, all of them |
| `file_partition` | blocks of 6 bytes in chunks of 2; every text of up to 4 lines of 1 to 7 bytes, some with a 0, and every binary of up to 19 bytes | the two passes, what workers are given, the download |
| `worker` | jobs on one and two nodes in thirteen circumstances (words shared, dropped, blocks of a page, scripts, commands and forks that fail, a worker that is stopped, few descriptors, time that passes) | results, answers, temporary files |

Type invariants are a conjunct of the first property of each run.

Why the bounds are enough.  The planner sees a node only through its
availability, its history and whether it holds the current block; three nodes
are what it takes to have one that holds the block, one passed over, and one
that is not in the list; three blocks exceed two turns of refills at base 1, and
five on two nodes that hold them all leave room to be unfair by more than one.
For jobs, two nodes with both blocks give every replanning back and forth, and
two failures are the first number at which a block can return to where it came
from.  (Three nodes in a chain of copies, one block with a single copy, were
explored with two failures and pass too.)  Two descriptors and two jobs include reuse.
In `NodeHandler` two threads cross on a handler and a third adds nothing; one
loss is what it takes to have an old handler and a new one (two losses on two
nodes, 5.5 million states, were explored once and pass too).  In `FileStore` a
file of two blocks has two passes over two blocks; nodes of two and three blocks
are filled by one upload and a half, so the placement meets a full node, a tie
and a node that is the emptier one; with nodes of one and two, in the run with a
restart, `cpblock` may read past the end of one; two uploads and two commands are one of each
before, during and after the other.  Three uploads with three commands (1.7
million states), and two of each with a loss and a restart (12 million) pass
with all the invariants of `file_store`.  In `MasterThreads` two nodes give a
notice of each and the crossing of both; three permits for four transformations
make one wait; the local reduction beside the transformations is what `kill_thread`
confuses.  In `DirTree` five entries are filled by two levels of directories and
an upload, and the two names, one of which ends with the other, are what the
test of `dirtree_move` confuses; a tree of three levels appears after one move.
In `MList` four nodes are a head, a tail and two in between, of which one goes
while a traversal holds it; five operations put three nodes, take the tail off and
append at the stale one.  `MaxGiro` in `YamaPlanner` is beyond the availability that any
search for a hosted block reaches.  In `Protocol` a socket smaller than two packets
makes a sender wait in each of its two sends; a content of MAXSIZE bytes is one
of 4.  In `FilePartition` lines shorter than, as long as and longer than a block,
and blocks that leave less than, exactly and more than a chunk, all occur.  In
`Worker` two transformations on one node are two children of one second, and the
other node gives the worker in charge something to ask for.

Fairness.  Planning is a thread that nobody stops (`WF` on the planner; signals
never prevent it).  In `YamaJobs`, YAMA keeps reading (`Iniciar`, `Atender`),
masters keep reading and sending (`Recibir`, `EnviarResultado`, `PierdeYama`),
and a worker's task ends (`TareaOK`): that a script ends is what the code
assumes when it waits without a timeout.  No fairness on connecting, failing or
dying.  In `NodeHandler` the threads and the handlers run, but sending (`Enviar`)
is not fair: a semaphore need not be first come, first served.  In `FileStore`
the thread that has the mutex and the handlers run; nobody is promised the mutex.  In `MasterThreads` main, `node_drop` and each
task run, and YAMA goes on ordering; that a worker fails is not fair.  In
`Protocol` and `Worker` whatever can go on goes on (`Avanza`, `Progresa`), and
cuts, failed forks, workers that are stopped and seconds that pass are not fair.  `DirTree`, `MList` and
`FilePartition` have no liveness: their steps do not wait.  `CHECK_DEADLOCK FALSE` where the system may really stop: YAMA after a
crash, or no master left to connect; the FileSystem after a crash, or with a
thread that waits for an answer that never comes; in the newer modules, when
what there was to do is done or the process has ended.

### What the runs show of the code

Some properties hold only outside conditions that the formulas name; each one
is a behaviour of the code found by dropping the condition.

* `SinVueltas`: a block sent back to a node it had been taken from has two rows
  with the same keys and `actualizoTablaEstado` (`funcionesYAMA.c:285`) only
  ever updates the first: the job waits for ever, and `cargaActual` no longer
  adds up.
* `SinReplanTardio`: a block replanned onto a node that is already reducing
  (`server.c:292`) is missing from the global reduction, or the job hangs.
* `tardios`: an answer that a thread had ready when its node was replanned or
  its job aborted turns a row in Error into FinalizadoOK.  A block is counted
  twice, an aborted job gets new stages, a finished job can end as Error, and
  `finalizarJobGlobalEnTablaEstado` may find no row and crash YAMA
  (`funcionesYAMA.c:509`).
* `CaidaExplicada` and `CaidaSoloPorTablaVieja` say what is left of YAMA's reads
  through NULL: nodes missing from the last list of active nodes
  (`server.c:315`), and a node that replaced another one without outnumbering
  the load table (`server.c:200`).
* `ConfigVigente`: a signal between `config_reload` and `recibiSenial = false`
  (`server.c:87`) is lost.
* `cruce` of `NodeHandler`: two threads that ping one node; the first one's answer goes to the
  second (`thread.c:106`), the first waits for ever.  `Shared/thread.h:67` says
  the answer goes "al último hilo del cual se recibieron datos"; it goes to the
  last one that sent.  `pisado`: a handler that
  is closing clears the pointer of its successor (`server.c:281`); the node stays
  connected and is never active again.  `Colgado` lists the other ways in which
  a thread waits for ever: a handler that is NULL or past its last receive, a
  node that dies while a block is read.
* `crece`: an upload computes how many copies it will wait for when it begins
  (`filetable.c:522`).  If space appears meanwhile it sends more, is woken
  early, and unmaps what the handlers still read.  It may also accept a file
  without one of its blocks (`filetable.c:548`), because it counts copies: with
  one node full and the other away while block 1 is placed and back for the
  second pass, block 0 is stored twice and block 1 never, though
  `filetable.h:95` says that the content of the local file is copied.
* `carrera`: downloads and `format` use the blocks file and the bitmaps of an
  upload in progress without its mutex; `cpblock` takes a bit that it chose
  three steps before.
* `perdio`: a block sent to a node that is gone counts as stored
  (`server.c:263`).
* `indice`: `cpblock` asks the node for the block with the number of the index
  in the file (`filetable.c:368`), so it copies another block unless the two
  agree; `filetable.h:151` says "Copia un bloque dado en otro nodo."
* `desfase`: `rm -b` and `cpblock` do not write `nodos.bin` (`filetable.c:354`),
  though `nodelist.h:21` says that the list is kept in sync with it,
  and the bitmap's file is one write behind (`bitmap.c:86`), so a restart
  may find counters that do not match the bitmap, or a block in use that is free.
* `fuga`: an upload that ends without its file leaves its bits set.
* `SubidaTermina`: the other way in which an upload ends badly is not to end: if
  some copy found no node it waits for a block that nobody sends, and keeps the
  mutex.

* `Huerfano`, `"gira"`: a file with a block on no active node, which the FileSystem
  offers all the same (`server.c:217`), keeps YAMA's one thread in `planificar`
  (`funcionesYAMA.c:27`) for ever.  `PlanTermina` and `JobTermina` name that case
  and no other.
* `Trabado`: `node_drop` joins a thread with `mutex_hilos` taken
  (`funcionesMaster.c:16`), and a thread about to end waits for that mutex
  before it looks whether it was killed (`manejadores.c:21`): the master hangs.
  So it does when the signal comes before the thread blocks (`thread.c:237`).
  `MasterTermina` lets the Master off only if it is so for ever, or if one and the
  same thread stays asleep for ever; a join that a pending signal will end is
  neither.
* `sin anotar`, `cruce` and `pisado` of `MasterThreads`: a thread that failed
  before it was in `hilos`, whose notice was read with the sender of the next
  one (`funcionesMaster.c:14`), or was overwritten by a sender that a kill had
  interrupted (`thread.c:85`), sleeps for ever.  `unido tarde` and `liberada`:
  main joins a thread whose `thread_t` is gone (`manejadores.c:378`), or
  destroys the list and the registry under running threads.  `SemaforoCuadra`
  counts the permit that each local reduction killed gives away
  (`funcionesMaster.c:7`).
* `ciclo`: `mv` of a directory below itself makes an orphan circle
  (`dirtree.c:162`), and the FileSystem never starts again.  `sufijo`: a
  destination that ends with the name of the directory passes for its new name
  (`dirtree.c:147`).  `llena`: with the last entry taken `dirtree_add` returns
  NULL even if others are free (`dirtree.c:75`).  `carrera`: uploads and the
  console change the table at once.  `corte`: a process killed in the middle of
  `path_move` has the file under both names.
* `suelta` and `liberada` of `MList`: `mlist_append` reads the tail before it takes
  the lock (`mlist.c:98`), traversals hold nodes without it, and `remove_node`
  leaves it before it frees (`mlist.c:400`), though the file calls
  itself "Thread-safe" (`mlist.c:3`).  So an element appended at a tail that was just taken off is
  lost and the process goes on, two removals of one node count twice, and a
  destroyed or freed one is visited.  `vaciada`: `mlist_clear` frees what others
  hold.  `ordenada`: `mlist_sort` leaves `tail` and `prev` as they were
  (`mlist.c:458`); the programs read sorted lists forwards only.
* `cruce` of `Protocol`: two threads of a Master send at once on one socket
  (`funcionesMaster.c:70`), and a header falls between another's header and its
  content.  The block 4608 that `server.c:116` looks for is 18 (the code of
  OP_TRANSFORMACION_LISTA) shifted by a byte: the trace of that.  `corto`: a
  content of exactly MAXSIZE bytes is taken for a string (`socket.c:219`).
  `corte`: the last packet before a cut may be made of whatever was in memory,
  since nobody looks at what `recvall` returns (`protocol.c:45`).
* `Hueco` and `ConNulo`: a file comes back wrong if, and only if, a block
  other than the last leaves a whole chunk unused (`filetable.c:702`; in the
  code, lines of 4096 bytes and more), or a text has a 0.  `console.c:72`
  promises "Copia un archivo yamafs al sistema local".
* `Worker`: `homonimo`, children of one second draw the same names
  (`path.c:218`), share a file and delete it under each other; `script`, the
  status of a transformation's pipeline is that of its `sort`
  (`funcionesWorker.c:352`), so a script that fails is answered OK; `vacio`,
  `pagina`, `ausente`, `fork`, `lleno` and `vecino` are a child or a parent that
  ends, or goes on, without an answer (`funcionesWorker.c:190`): Master waits for
  ever.  `vecino` is the worker in charge of the global reduction, which finds
  another one gone: `connect_to_worker` ends the child (`funcionesWorker.c:86`), or
  the empty packet of a closed connection is unpacked (line 135).

## 4. The proofs

Each component's theorems are in a module of their own.  The runs check the
same formulas on the instances of section 3; the inductive invariants were
checked by TLC on those instances before they were proved.  Nothing is assumed
but the named assumptions of the modules, which TLC evaluates on every run:

* `PlannerAssumption`: finitely many nodes, DISP_BASE positive, lists of active
  nodes without repetition and never empty; files have a block.
* `JobsAssumption`: bounds are numbers, and the file has a block: for a file
  without blocks `planificar` does not return.
* `CopiasPropias`: a block of a node holds one block of the file.  It is what
  `CopiasReservadas` says of `FileStore`, which `FileStoreProofs` proves as a part
  of `EspacioSano`.
* `MasterAssumption`: finitely many threads, packets with at least one task, one
  thread for each task of each packet (the threads are named by their tasks).
* `EtapasEnOrden`: YAMA orders the global reduction and the storage when the
  earlier stages of the node are over, or were replaced.  This is what
  `EtapasExactas` says of YAMA, seen from the packets of `MasterThreads`.
* `StoreAssumption`: the list of nodes does not repeat one, every node has a
  block, the console is not one of the threads of the workers.
* `HandlerAssumption`: the list of nodes has no repetition and is not empty, the
  console and `node_listener` are among the threads that ask.

### The planner: `YamaPlannerProofs`

`PlanSano` (type, `PlanCorrecto`, `EstaticasLimpias`), `ConfigVigente`,
`AlgoritmoEstable`, `CaidaSoloPorTablaVieja`, the refinement of `BlockPlan`, and
`RelojJusto`, for every set of nodes, file, load and DISP_BASE.

`PlanCorrecto` is not inductive by itself: that no block is repeated needs that
every planned block is below `bloque` (`PlanLocal`); that a finished plan is
complete needs `Planificados` (every block below `bloque` is on a list) and
`Centinelas`, which ties `asignoTodo` to `bloque = NumBloques` and the statics
to the phase; and that availability stays a natural number needs `HayMaximo`,
the greatest load, for the weighted algorithm.  The lemma `LugaresTrasAsignar`
says what an assignment does to the lists and carries most of the step proof.
For the refinement, `AsignaAbstracto` shows that an assignment adds exactly one
pair to the abstract plan.

`RelojJusto` needs to follow the hand.  `Busqueda` says that some position ahead
of the hand holds the block and will be reached in time (`Distancia` counts the
turns left); `Equilibrio` says that, when all nodes hold all blocks, the number
of turns of two positions, blocks given plus bases given back, differs by one
at most, and in the order in which the hand passes.

### The jobs: `YamaJobsProofs`, `YamaCargaProofs`

`DesconexionEncuentra`, `CaidaExplicada`, `ExitoPermanente`, `CargaSana`,
`MastersSeparados` and `EtapasExactas`.

Everything rests on who a row belongs to.  `Claves`: the keys of a row fit its
stage.  `Numerados`: job numbers are not given twice and all rows of a job are
of the descriptor of its master.  `Propias`: whatever is in the streams and the
threads of a master is a row of its own job.  `Limpieza`: a row in process
belongs to the master now on its descriptor.  `Almacenado`: who answered for the
storage is leaving.  `EnEtapas`: of a job whose answers came in time, when one
of the last two stages is in the table nothing before it is in process.  A
handler changes rows of one job and sends to one master (`Extiende`), and one
lemma for each conjunct says that such a step keeps it for the others; what is
left for each handler is its own job.  `ExitoPermanente` is proved from the same
step lemmas.

The load table has an invariant of its own, `CInv`, proved beside this one.
`Justificada`: where a job weighs it has a row in process, or the local
reduction of something still in process; `CargaLiberada` is the case of a job
with no row in process.  That the loads add up (`CargaCuadra`) breaks in one
place only, the replanning, which takes off `cargaActual` one for each row of the
node, and off the job whatever its entry says.  They agree because of `Pesada`:
a node of a job that still transforms, none of whose rows was replanned, weighs
exactly its rows.  And none was, because of `Repuestas`: a row in Error of a job
that goes on has its other copy in the table, so to replan it again would bring
a block back, which is what the hypothesis `SinVueltas` excludes.  A step of one
job keeps all this for the others (`OtroJob`), so that each handler is left with
its own (`CInvDe`); `LoteCuenta` counts the rows that a planning or a replanning
adds.  The sum over the jobs is that of `Sumas` (below).

`EtapasExactas` has two halves.  That a job orders its last stages once is
`EnEtapas`.  That each block goes into the global reduction once (`EntradaExacta`)
needs the whole way of the block, for every job that goes on: `Exacta`, in `CInv`.
Its hypotheses are those of the property: answers in time (`tardios`) and no
replanning onto a node that was already reducing (`SinReplanTardio`).
`UnaPorBloque`: each block has one transformation that is not in Error.  A
replanning puts the other copy of a block in the place of the one it gave up,
and since it does not bring back one it gave up before, it is the only one
(`DosCopias`, `VieneSola`, by `CopiasPropias`).  `Repetidas`: should the replanning
repeat the keys of an earlier row, the answer marks the earlier one, and the
repeated row stays in process for ever; so a job that got as far as its global
reduction met no repetition.  `Reducen`, `UnaLocal` and `Juntan`: a node has one
local reduction, ordered when it no longer transforms, and its inputs are exactly
the transformations that ended on the node; `Ordenadas`: what ended is on a node
that still transforms or has its local reduction; `Suyas`: the inputs are rows of
the same job.  `EntradasJustasEs` puts these together at the step that orders the
global reduction, and `EntradaQueda` keeps the result from then on.

### The Master: `MasterThreadsProofs`

`SemaforoCuadra`, `MuertoNoInforma`, `AbandonoExplicado` and `ReanudaSola`, for any number of
tasks, permits and failures.  `Creacion` says which threads exist, `Vida` what
each has left behind, `Notificaciones` that the mailbox and `node_drop` only
hold threads that sent a notice, `Senales` and `Ranura` where a thread may be
woken or interrupted and that the mailbox has one slot but after one
overwriting, `EtapasCerradas` that no task of the first stages is alive on a
node when a later one runs.  The semaphore is an induction on the cardinality of
the threads that hold a permit.

### The handlers: `NodeHandlerProofs`

`RespuestaPropia` and `ManejadorVigente`.  As long as no two threads crossed
(`SinCruce`), whoever a handler owes an answer to waits for it, once (`Deuda`),
and an answer that arrived is that of the request (`Llegada`); of the handlers
of a node at most the one of `node->handler` is in its loop (`Vigencia`);
`Cuenta` ties the handlers used so far to the connections lost, which shows that
a new one is always at hand.

### The files: `FileStoreProofs`, `FileStoreDatosProofs`, `Sumas`

In `FileStoreProofs`, `EspacioSano` (the type invariant, `free_blocks` equal to the zeros of the
bitmap, a bit of its own for every copy of a stored file), `BitsJustificados`
and `TablaSana`, for any number of nodes, blocks, files and uploads.  No
assumption but `StoreAssumption`.

None of the three is inductive.  A bit is set before its copy is in the table,
so `Reservas` and `Justificados` speak of `Puestas`, the copies of stored files
and of the upload in progress together: while no command met an upload they are
on different bits, and while no upload ended without its file every bit has one.
`Exclusion` says that one upload at a time has blocks, the one with the mutex,
and `Nombres` that a copy is named by its upload, its block and its place, so
that a file that is removed takes only its own.  `Avance` follows the two
passes: which copies of which blocks are placed, and on different nodes.  That
a stored file has a copy of every block (`Terminar` only counts how many copies
were placed) needs `Agotado`: a block that found no node was refused by all,
full nodes stay full unless a command frees blocks (`crece`), and then the
upload has counted fewer copies than blocks.  For this, `HayMejor` shows that
`balance_node` chooses somebody whenever anybody answers, by counting who is
emptier.  `EnCopia` keeps the file that `cpblock` waits for.

The commands that take several copies away (`rm`, `format`) change the bitmaps
of several nodes by sets of different sizes: copies and bits are in bijection,
and the set of copies is finite.  That an upload enters only when the nodes have
free blocks is a sum: `Sumas` unfolds the recursive function behind the fold and
shows what the sum is worth, by taking a least counterexample, since the
induction theorems of the library cannot be used.

`FileStoreDatosProofs` proves every other safety property of `FileStore`:
`Integridad` and `BajadaFiel` (stored files hold what was uploaded, downloads
bring it), `TrasReinicio` (the same across restarts) and `CaidaExplicada` (the
process ends only for the reasons stated).  None of them is inductive either,
and none is local: whether a block is right depends on what a handler reads, at
some later time, from the memory of a thread.  The invariant is `Datos`, proved
beside that of `FileStoreProofs`:

* `Memoria`: a download and an upload do not meet, and the inode that each maps
  holds its own blocks, all of them.
* `Atrasos`: an operation of an upload that waits is of the upload in progress;
  if none is in progress, every block that anybody waits for has been sent.  It
  is never of a stored file: this is what keeps a handler from reading memory
  that `munmap` has taken.
* `Escrituras`: what waits to be written where a copy is, is the block of that
  copy, and nothing waits for the bit that `cpblock` chose two steps earlier.
* `Escritas`: each copy is on the disk of its node, in its queue, or in the hands
  of the thread that places it.
* `Recuento`: what was sent, what waits and what is in the hand of the thread do
  not exceed what was placed.  So when the last block has been sent and no space
  appeared (`Holgura`: an upload does not place more than it waits for) nothing
  of the upload is left in a queue, and `munmap` is safe.
* `Despierto`: a semaphore of an upload or of the download is up at most once,
  and only when all its blocks went through.
* `Bajada`: what a download asked for is a copy of one of its blocks and on the
  disk of its node; a block that was asked for is in its place, or in a queue,
  or lost for ever, and then the count never gets to the end (`Recibido`).  Two
  blocks are never on one bit (`Reservas`), so `filetable_writeblock`, which
  looks for the block by node and number, finds the right one.

`Esperan` counts the operations of a kind in all the queues, a sum over the
nodes of `Sumas`.

### Only model-checked

* Liveness (`PlanTermina`, `JobTermina`, `RespuestaLlega`, `SubidaTermina`,
  `MasterTermina`, `Llega`): out of the prover's reach.
* The properties of `Serial`, `Protocol`, `FilePartition` and `MList`, whose
  functions are recursive over sequences of bytes or elements.  `Worker`
  declares recursive operators, so nothing can be proved in it.
* The tree of `DirTree` (`ArbolSano`, `DiscoFiel`, the refinement of `NameSpace`):
  the table is walked and extended by folds over paths, another induction over
  data.

## 5. What comes next

Theorems: the tree of `DirTree` for any number of entries, once folds over paths
can be reasoned about.

Models: `Cluster`, YAMA, a master and the FileSystem together, abstractly (a job
that ends has its result stored once; as long as the files are stable YAMA never
goes round for ever); an abstract store, paths to
contents, that `FileStore` implements while `hist` is empty.

## 6. What is not modelled

Parsing of commands and configuration, logging, printing, help: formatting,
with no state of its own.  The first connections before the first format:
`node_listener` adds nodes then, and no block exists.  A node that is refused
after the format ends the process (`server.c:65`); that step is in
`NodeHandler`, and `FileStore` leaves nodes outside the list alone.
`yama_listener` and `yama_handler` read the tables and change nothing but
`yama_connected`; what they answer is a constant of the models of YAMA.  The
spelling of the algorithm: with "wclock" the greatest load is taken as 0
(`funcionesYAMA.c:84` compares with case, line 53 without), and the models know
only the two spellings in capitals.

In `Worker`: a master that leaves before its request came (its child goes on as
a second server), `ejecutarComando`, which has no caller, and children that are
never reaped, which appear as the fork that fails.  In `Protocol`: floats, the
look-up of addresses, and more than one failure.  In `MList`: the formatting of
lists as text.  The scripts of the jobs, the shell and the kernel are external.
Generated makefiles and `install.sh` have no behaviour of the program.

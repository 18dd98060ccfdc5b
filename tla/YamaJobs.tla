------------------------------ MODULE YamaJobs ------------------------------
(***************************************************************************)
(* The jobs of YAMA: the state table (listaEstados), the load table        *)
(* (listaCargaPorNodo) and the handler of every message of a master, from  *)
(* YAMA/src/server.c and YAMA/src/funcionesYAMA.c, with masters that       *)
(* connect, answer, fail and leave.                                        *)
(*                                                                         *)
(* YAMA is one thread: a handler runs to its end before the next message   *)
(* is read, so each one is one action.  Between YAMA and a master there    *)
(* are two TCP streams.  The planning inside OP_INIT_JOB is any result     *)
(* that BlockPlan allows (YamaPlanner shows the clock to be one).          *)
(*                                                                         *)
(* A task is known by its row in the state table, which is only appended   *)
(* to; the code's own search keys, node and block, are used wherever the   *)
(* code uses them.                                                         *)
(***************************************************************************)
EXTENDS Integers, Sequences, FiniteSets, FiniteSetsExt

CONSTANTS
  Nodos,          \* data nodes, all with an entry in the load table
  SinCopia,       \* a missing copy of a block
  Archivo,        \* the file: a sequence of pairs of copies [nodo, blk];
                  \* planificar does not return for a file without blocks
  ListasActivas,  \* lists of active nodes the file system may answer
  MaxSockets,     \* descriptors for masters: the lowest free one is reused
  MaxJobs,        \* bound on the connections of masters
  MaxFallos,      \* bound on the answers with response -1
  BloqueCorrupto  \* the block number YAMA takes for a corrupt block (4608)

ASSUME JobsAssumption ==
  /\ MaxSockets \in Nat \ {0} /\ MaxJobs \in Nat \ {0} /\ MaxFallos \in Nat
  /\ BloqueCorrupto \in Nat
  /\ ListasActivas \subseteq Seq(Nodos)
  /\ SinCopia \notin [nodo : Nodos, blk : Nat]
  /\ Archivo \in Seq(([nodo : Nodos, blk : Nat] \cup {SinCopia})
                     \X ([nodo : Nodos, blk : Nat] \cup {SinCopia})) \ {<<>>}

(* The file system keeps a block of a node for one block of one file.      *)
ASSUME CopiasPropias ==
  \A b, d \in DOMAIN Archivo : \A i, k \in 1 .. 2 :
    Archivo[b][i] # SinCopia /\ Archivo[b][i] = Archivo[d][k] => b = d

VARIABLES
  yama,       \* "viva", or "caida" on a NULL read, or "fin" after the file system left,
              \* or "gira" in a planning that does not end
  numeroJob,  \* the number the next master gets
  maestro,    \* per descriptor: what its master is doing, and its job
  tareas,     \* rows of the tasks the master of a descriptor has running
  porEnviar,  \* answers of threads that left the list of threads and did not send yet
  aMaestro,   \* stream from YAMA to the master
  aYama,      \* stream of answers from the master to YAMA
  tabla,      \* listaEstados
  cargas,     \* listaCargaPorNodo: cargaActual, and cargaDelJob by job
  activos,    \* listaNodosActivos, as the last answer of the file system left it
  fallos,     \* answers with -1 so far
  tardios     \* history: jobs that had an answer handled for a row no longer in process

hilos == <<tareas, porEnviar>>
vars == <<yama, numeroJob, maestro, hilos, aMaestro, aYama, tabla, cargas, activos, fallos, tardios>>

Sockets == 1 .. MaxSockets
Jobs    == 1 .. MaxJobs
Bloques == 1 .. Len(Archivo)
ReduccionLocal == -1  ReduccionGlobal == -2  AlmacenamientoFinal == -3

Etapas  == {"Transformacion", "ReduccionLocal", "ReduccionGlobal", "AlmacenamientoFinal"}
(* "EnProceso" is the "En proceso" of the code. *)
Estados == {"EnProceso", "FinalizadoOK", "Error"}

Init ==
  /\ yama = "viva" /\ numeroJob = 1 /\ fallos = 0
  /\ maestro = [s \in Sockets |-> [est |-> "libre", job |-> 0]]
  /\ tareas = [s \in Sockets |-> {}] /\ porEnviar = [s \in Sockets |-> {}]
  /\ aMaestro = [s \in Sockets |-> <<>>] /\ aYama = [s \in Sockets |-> <<>>]
  /\ tabla = <<>> /\ activos = <<>> /\ tardios = {}
  /\ cargas = [n \in Nodos |-> [actual |-> 0, porJob |-> [j \in Jobs |-> 0]]]

-----------------------------------------------------------------------------
(* The load table. An entry of a job with load 0 and no entry behave alike. *)

Rango(f) == {f[i] : i \in DOMAIN f}

(* actualizarCargaDelNodo, to add k *)
Sumar(c, n, j, k) == [c EXCEPT ![n].actual = @ + k, ![n].porJob[j] = @ + k]

(* Mutant of Quitar: the entry of the job is not erased. *)
QuitarMutado(c, ns, j) ==
  [n \in Nodos |-> IF n \in ns THEN [c[n] EXCEPT !.actual = @ - c[n].porJob[j]] ELSE c[n]]

(* actualizarCargaDelNodo, to take the job off, at each node of ns *)
Quitar(c, ns, j) ==
  [n \in Nodos |-> IF n \in ns
                   THEN [actual |-> c[n].actual - c[n].porJob[j],
                         porJob |-> [c[n].porJob EXCEPT ![j] = 0]]
                   ELSE c[n]]

-----------------------------------------------------------------------------
(* The state table. *)

DeJob(t, s, j) == {i \in DOMAIN t : t[i].master = s /\ t[i].job = j}

(* Mutant of Fila: a row is born finished. *)
FilaMutada(j, n, s, b, etapa, entradas) ==
  [job |-> j, master |-> s, nodo |-> n, blk |-> b, etapa |-> etapa,
   estado |-> "FinalizadoOK", entradas |-> entradas]

Fila(j, n, s, b, etapa, entradas) ==
  [job |-> j, master |-> s, nodo |-> n, blk |-> b, etapa |-> etapa,
   estado |-> "EnProceso", entradas |-> entradas]

(* The first row with these keys: the only one actualizoTablaEstado sees. *)
PrimeraFila(t, n, b, s, j) ==
  Min({i \in DeJob(t, s, j) : t[i].nodo = n /\ t[i].blk = b})

ActualizoTablaEstado(t, n, b, s, j, e) ==
  [t EXCEPT ![PrimeraFila(t, n, b, s, j)].estado = e]

(* All rows of the job take the state, and its load goes off their nodes. *)
EliminarEstadosMultiples(s, j, t, c) ==
  /\ tabla' = [i \in DOMAIN t |-> IF i \in DeJob(t, s, j)
                                  THEN [t[i] EXCEPT !.estado = "Error"] ELSE t[i]]
  /\ cargas' = Quitar(c, {t[i].nodo : i \in DeJob(t, s, j)}, j)

Enviar(s, m) ==
  aMaestro' = IF maestro[s].est = "saliendo" THEN aMaestro
              ELSE [aMaestro EXCEPT ![s] = Append(@, m)]

Etapa(filas) == [tipo |-> "etapa", filas |-> filas]
ErrorJob     == [tipo |-> "error", filas |-> {}]

AbortarJob(s, j, t, c) == EliminarEstadosMultiples(s, j, t, c) /\ Enviar(s, ErrorJob)

YamaCae == yama' = "caida"

-----------------------------------------------------------------------------
(* Masters connect and ask for their job. *)

Conectar(s) ==
  /\ yama = "viva" /\ numeroJob <= MaxJobs
  /\ s = Min({x \in Sockets : maestro[x].est = "libre"} \cup {MaxSockets + 1})
  /\ maestro' = [maestro EXCEPT ![s] = [est |-> "pide", job |-> numeroJob]]
  /\ numeroJob' = numeroJob + 1
  /\ UNCHANGED <<yama, hilos, aMaestro, aYama, tabla, cargas, activos, fallos, tardios>>

(* The number of a block on a node, and the plans the clock may come to. *)
Copia(b, n) == CHOOSE c \in {Archivo[b][1], Archivo[b][2]} : c # SinCopia /\ c.nodo = n
Dueno(b, n) == \E i \in 1 .. 2 : Archivo[b][i] # SinCopia /\ Archivo[b][i].nodo = n
Planes(act) == {p \in [Bloques -> Rango(act)] : \A b \in Bloques : Dueno(b, p[b])}

(* OP_INIT_JOB when the file system answers with the file. *)
IniciarJob(s) ==
  /\ yama = "viva" /\ maestro[s].est = "pide"
  /\ maestro' = [maestro EXCEPT ![s].est = "activo"]
  /\ \E act \in ListasActivas :
       /\ activos' = act
       /\ LET j == maestro[s].job
              n0 == Len(tabla)
          IN \/ /\ act = <<>>
                /\ Enviar(s, ErrorJob)
                /\ UNCHANGED <<tabla, cargas>>
             \/ \E p \in Planes(act) :
                  /\ tabla' = tabla \o [b \in Bloques |->
                                Fila(j, p[b], s, Copia(b, p[b]).blk, "Transformacion", {})]
                  /\ cargas' = [n \in Nodos |->
                       LET k == Cardinality({b \in Bloques : p[b] = n})
                       IN [actual |-> cargas[n].actual + k,
                           porJob |-> [cargas[n].porJob EXCEPT ![j] = k]]]
                  /\ Enviar(s, Etapa(n0 + 1 .. n0 + Len(Archivo)))
  /\ UNCHANGED <<yama, numeroJob, hilos, aYama, fallos, tardios>>

(* The file has a block that no active node holds, which the file system   *)
(* does not look at: planificar goes round for ever (YamaPlanner shows     *)
(* that), and with it YAMA's only thread.  The master is told nothing.     *)
PlanSinFin(s) ==
  /\ yama = "viva" /\ maestro[s].est = "pide"
  /\ \E act \in ListasActivas :
       /\ act # <<>> /\ Planes(act) = {}
       /\ activos' = act
  /\ yama' = "gira"
  /\ UNCHANGED <<numeroJob, maestro, hilos, aMaestro, aYama, tabla, cargas, fallos, tardios>>

(* The file is not there: the job, still without rows, is aborted. *)
IniciarSinArchivo(s) ==
  /\ yama = "viva" /\ maestro[s].est = "pide"
  /\ maestro' = [maestro EXCEPT ![s].est = "activo"]
  /\ activos' \in ListasActivas
  /\ AbortarJob(s, maestro[s].job, tabla, cargas)
  /\ UNCHANGED <<yama, numeroJob, hilos, aYama, fallos, tardios>>

-----------------------------------------------------------------------------
(* The master: a thread per task, answers in any order.  A thread is first *)
(* taken off the list of threads (actualizar_hilo) and sends its answer    *)
(* later; the main thread stops reading while the final storage runs.      *)

EnAlmacenamiento(s) ==
  \E f \in tareas[s] \cup {a.fila : a \in porEnviar[s]} : tabla[f].blk = AlmacenamientoFinal

Recibir(s) ==
  /\ maestro[s].est = "activo" /\ aMaestro[s] # <<>> /\ ~EnAlmacenamiento(s)
  /\ aMaestro' = [aMaestro EXCEPT ![s] = Tail(@)]
  /\ IF Head(aMaestro[s]).tipo = "error"
     THEN /\ maestro' = [maestro EXCEPT ![s].est = "saliendo"]
          /\ tareas' = [tareas EXCEPT ![s] = {}]
     ELSE /\ tareas' = [tareas EXCEPT ![s] = @ \cup Head(aMaestro[s]).filas]
          /\ UNCHANGED maestro
  /\ UNCHANGED <<yama, numeroJob, porEnviar, aYama, tabla, cargas, activos, fallos, tardios>>

TareaOK(s, f) ==
  /\ maestro[s].est = "activo" /\ f \in tareas[s]
  /\ tareas' = [tareas EXCEPT ![s] = @ \ {f}]
  /\ porEnviar' = [porEnviar EXCEPT ![s] = @ \cup {[fila |-> f, resp |-> 0]}]
  /\ UNCHANGED <<yama, numeroJob, maestro, aMaestro, aYama, tabla, cargas, activos, fallos, tardios>>

(* A transformation or a local reduction that fails takes with it every    *)
(* other thread of the same node still on the list (node_drop).            *)
TareaFalla(s, f) ==
  /\ maestro[s].est = "activo" /\ f \in tareas[s] /\ fallos < MaxFallos
  /\ fallos' = fallos + 1
  /\ tareas' = [tareas EXCEPT ![s] =
       IF tabla[f].etapa \in {"Transformacion", "ReduccionLocal"}
       THEN {g \in @ : tabla[g].nodo # tabla[f].nodo} ELSE @ \ {f}]
  /\ porEnviar' = [porEnviar EXCEPT ![s] = @ \cup {[fila |-> f, resp |-> -1]}]
  /\ UNCHANGED <<yama, numeroJob, maestro, aMaestro, aYama, tabla, cargas, activos, tardios>>

(* enviar_resultado_yama; the thread of the final storage ends the job,    *)
(* with either answer.                                                     *)
EnviarResultado(s, a) ==
  /\ maestro[s].est \in {"activo", "saliendo"} /\ a \in porEnviar[s]
  /\ porEnviar' = [porEnviar EXCEPT ![s] = @ \ {a}]
  /\ aYama' = [aYama EXCEPT ![s] = Append(@, a)]
  /\ maestro' = IF tabla[a.fila].blk = AlmacenamientoFinal
                THEN [maestro EXCEPT ![s].est = "saliendo"] ELSE maestro
  /\ UNCHANGED <<yama, numeroJob, tareas, aMaestro, tabla, cargas, activos, fallos, tardios>>

(* A process that ends takes its threads with it. *)
MuerenSusHilos(s) ==
  tareas' = [tareas EXCEPT ![s] = {}] /\ porEnviar' = [porEnviar EXCEPT ![s] = {}]

(* The process of a master may die at any moment. *)
CaeMaestro(s) ==
  /\ maestro[s].est \in {"pide", "activo"}
  /\ maestro' = [maestro EXCEPT ![s].est = "saliendo"]
  /\ MuerenSusHilos(s)
  /\ aMaestro' = [aMaestro EXCEPT ![s] = <<>>]
  /\ UNCHANGED <<yama, numeroJob, aYama, tabla, cargas, activos, fallos, tardios>>

(* YAMA's end of the stream closed: the loop of the master ends. *)
PierdeYama(s) ==
  /\ yama \in {"caida", "fin"} /\ maestro[s].est = "activo" /\ aMaestro[s] = <<>> /\ ~EnAlmacenamiento(s)
  /\ maestro' = [maestro EXCEPT ![s].est = "saliendo"]
  /\ MuerenSusHilos(s)
  /\ UNCHANGED <<yama, numeroJob, aMaestro, aYama, tabla, cargas, activos, fallos, tardios>>

-----------------------------------------------------------------------------
(* The answers, handled by YAMA. *)

FilaResp(s) == tabla[Head(aYama[s]).fila]

Respuesta(s, etapa, resp) ==
  /\ yama = "viva" /\ aYama[s] # <<>>
  /\ FilaResp(s).etapa = etapa
  /\ Head(aYama[s]).resp = resp
  /\ aYama' = [aYama EXCEPT ![s] = Tail(@)]
  /\ tardios' = IF FilaResp(s).estado = "EnProceso" THEN tardios ELSE tardios \cup {FilaResp(s).job}

(* verificoFinalizacionTransformacion: no row of the node but Error is     *)
(* unfinished, rows of its local reduction included.                       *)
TransfTerminada(t, n, s, j) ==
  \A i \in DeJob(t, s, j) : t[i].nodo = n /\ t[i].estado # "Error" => t[i].estado = "FinalizadoOK"

(* Mutant of ArchivosTemporales: the node is not looked at. *)
ArchivosTemporalesMutado(t, n, s, j) == {i \in DeJob(t, s, j) : t[i].estado = "FinalizadoOK"}

ArchivosTemporales(t, n, s, j) ==
  {i \in DeJob(t, s, j) : t[i].nodo = n /\ t[i].estado = "FinalizadoOK"}

(* OP_TRANSFORMACION_LISTA without error: when the node is through, its    *)
(* local reduction is ordered over what it has finished.                   *)
TransformacionLista(s) ==
  LET r == FilaResp(s)  j == r.job  n == r.nodo
      t == ActualizoTablaEstado(tabla, n, r.blk, s, j, "FinalizadoOK")
  IN /\ Respuesta(s, "Transformacion", 0) /\ r.blk # BloqueCorrupto
     /\ \/ /\ ~TransfTerminada(t, n, s, j)
           /\ tabla' = t
           /\ UNCHANGED <<yama, aMaestro>>
        \/ /\ TransfTerminada(t, n, s, j) /\ n \in Rango(activos)
           /\ tabla' = Append(t, Fila(j, n, s, ReduccionLocal, "ReduccionLocal",
                                      ArchivosTemporales(t, n, s, j)))
           /\ Enviar(s, Etapa({Len(t) + 1}))
           /\ UNCHANGED yama
        \/ /\ TransfTerminada(t, n, s, j) /\ n \notin Rango(activos)
           /\ YamaCae
           /\ UNCHANGED <<tabla, aMaestro>>
     /\ UNCHANGED <<numeroJob, maestro, hilos, cargas, activos, fallos>>

(* A finished transformation of that block number aborts the job.          *)
TransformacionCorrupta(s) ==
  /\ Respuesta(s, "Transformacion", 0) /\ FilaResp(s).blk = BloqueCorrupto
  /\ AbortarJob(s, FilaResp(s).job, tabla, cargas)
  /\ UNCHANGED <<yama, numeroJob, maestro, hilos, activos, fallos>>

(* Rows of transformations of the node, whatever their state: all of them  *)
(* are replanned, and each marks as Error the first row with its keys.     *)
FilasTransf(n, s, j) ==
  {i \in DeJob(tabla, s, j) : tabla[i].nodo = n /\ tabla[i].etapa = "Transformacion"}

BloqueDe(n, blk) ==
  CHOOSE b \in Bloques : \E i \in 1 .. 2 : Archivo[b][i] = [nodo |-> n, blk |-> blk]

OtraCopia(n, blk) ==
  LET par == Archivo[BloqueDe(n, blk)]
  IN IF par[1] = [nodo |-> n, blk |-> blk] THEN par[2] ELSE par[1]

MarcarError(n, s, j) ==
  LET viejas == {PrimeraFila(tabla, n, tabla[i].blk, s, j) : i \in FilasTransf(n, s, j)}
  IN [i \in DOMAIN tabla |-> IF i \in viejas THEN [tabla[i] EXCEPT !.estado = "Error"] ELSE tabla[i]]

(* The entry of the job at the node is erased, the load of the node goes   *)
(* down by one for each row, and each block weighs on its other node.      *)
MoverCarga(n, j, otras) ==
  [m \in Nodos |->
     LET k == Cardinality({i \in DOMAIN otras : otras[i].nodo = m})
     IN IF m = n THEN [actual |-> cargas[n].actual - Len(otras),
                       porJob |-> [cargas[n].porJob EXCEPT ![j] = 0]]
        ELSE [actual |-> cargas[m].actual + k,
              porJob |-> [cargas[m].porJob EXCEPT ![j] = @ + k]]]

(* The rows of a set in the order of the table. *)
EnOrden(filas) ==
  {o \in [1 .. Cardinality(filas) -> filas] : \A i, k \in DOMAIN o : i < k => o[i] < o[k]}

(* OP_TRANSFORMACION_LISTA with -1: replanificacion.                       *)
Replanificacion(s) ==
  LET r == FilaResp(s)  j == r.job  n == r.nodo
      viejas == FilasTransf(n, s, j)
      t == MarcarError(n, s, j)
      sePuede(act) == \A i \in viejas : LET otra == OtraCopia(n, tabla[i].blk)
                                        IN otra # SinCopia /\ otra.nodo \in Rango(act)
  IN /\ Respuesta(s, "Transformacion", -1)
     /\ activos' \in ListasActivas
     /\ \/ /\ sePuede(activos')
           /\ \E orden \in EnOrden(viejas) :
                LET otras == [i \in DOMAIN orden |-> OtraCopia(n, tabla[orden[i]].blk)]
                IN /\ tabla' = t \o [i \in DOMAIN otras |->
                        Fila(j, otras[i].nodo, s, otras[i].blk, "Transformacion", {})]
                   /\ cargas' = MoverCarga(n, j, otras)
                   /\ Enviar(s, Etapa(Len(t) + 1 .. Len(t) + Len(otras)))
        \/ /\ ~sePuede(activos')
           /\ AbortarJob(s, j, t, cargas)
     /\ UNCHANGED <<yama, numeroJob, maestro, hilos, fallos>>

(* The file was removed since: reciboInformacionSolicitada aborts.         *)
ReplanificacionSinArchivo(s) ==
  /\ Respuesta(s, "Transformacion", -1)
  /\ activos' \in ListasActivas
  /\ AbortarJob(s, FilaResp(s).job, tabla, cargas)
  /\ UNCHANGED <<yama, numeroJob, maestro, hilos, fallos>>

(* Mutant of RlTerminada: it waits for rows in Error too. *)
RlTerminadaMutadaConError(t, s, j) ==
  \A i \in DeJob(t, s, j) : t[i].etapa \in {"Transformacion", "ReduccionLocal"}
                            => t[i].estado = "FinalizadoOK"

(* verificoFinalizacionRl *)
RlTerminada(t, s, j) ==
  \A i \in DeJob(t, s, j) :
    t[i].etapa \in {"Transformacion", "ReduccionLocal"} /\ t[i].estado # "Error"
    => t[i].estado = "FinalizadoOK"

FilasRL(t, s, j) == {i \in DeJob(t, s, j) : t[i].etapa = "ReduccionLocal"}

(* seleccionarEncargado: the least loaded, the first row on a tie.         *)
Encargado(t, filas) ==
  t[CHOOSE i \in filas : \A k \in filas :
      LET ci == cargas[t[i].nodo].actual  ck == cargas[t[k].nodo].actual
      IN ci < ck \/ (ci = ck /\ i <= k)].nodo

(* OP_REDUCCION_LOCAL_LISTA: at the last one the global reduction is       *)
(* ordered to one of the nodes, over the result of every local one.        *)
ReduccionLocalLista(s) ==
  LET r == FilaResp(s)  j == r.job
      t == ActualizoTablaEstado(tabla, r.nodo, ReduccionLocal, s, j, "FinalizadoOK")
      filas == FilasRL(t, s, j)
      jefe  == Encargado(t, filas)
  IN /\ Respuesta(s, "ReduccionLocal", 0)
     /\ \/ /\ ~RlTerminada(t, s, j)
           /\ tabla' = t
           /\ UNCHANGED <<yama, aMaestro, cargas>>
        \/ /\ RlTerminada(t, s, j) /\ \A i \in filas : t[i].nodo \in Rango(activos)
           /\ tabla' = Append(t, Fila(j, jefe, s, ReduccionGlobal, "ReduccionGlobal", filas))
           /\ cargas' = Sumar(cargas, jefe, j, 1 + (Cardinality(filas) - 1) \div 2)
           /\ Enviar(s, Etapa({Len(t) + 1}))
           /\ UNCHANGED yama
        \/ /\ RlTerminada(t, s, j) /\ \E i \in filas : t[i].nodo \notin Rango(activos)
           /\ YamaCae
           /\ UNCHANGED <<tabla, aMaestro, cargas>>
     /\ UNCHANGED <<numeroJob, maestro, hilos, activos, fallos>>

ReduccionLocalFallida(s) ==
  /\ Respuesta(s, "ReduccionLocal", -1)
  /\ AbortarJob(s, FilaResp(s).job, tabla, cargas)
  /\ UNCHANGED <<yama, numeroJob, maestro, hilos, activos, fallos>>

(* Mutant of FinalizarEnTabla: the row is looked for among those in Error. *)
FinalizarEnTablaMutadoFila(s, j, e) ==
  LET filas == {i \in DeJob(tabla, s, j) : tabla[i].estado = "Error"}
  IN IF filas = {} THEN YamaCae /\ UNCHANGED <<tabla, cargas>>
     ELSE /\ tabla' = [tabla EXCEPT ![Min(filas)].estado = e]
          /\ cargas' = Quitar(cargas, {tabla[i].nodo : i \in FilasRL(tabla, s, j)}, j)
          /\ UNCHANGED yama

(* finalizarJobGlobalEnTablaEstado: the first row in process takes the     *)
(* final state; the load goes off its node and off the nodes of the local  *)
(* reductions.  Without such a row the code reads through NULL.            *)
FinalizarEnTabla(s, j, e) ==
  LET vivas == {i \in DeJob(tabla, s, j) : tabla[i].estado = "EnProceso"}
  IN IF vivas = {} THEN YamaCae /\ UNCHANGED <<tabla, cargas>>
     ELSE /\ tabla' = [tabla EXCEPT ![Min(vivas)].estado = e]
          /\ cargas' = Quitar(cargas, {tabla[Min(vivas)].nodo}
                                      \cup {tabla[i].nodo : i \in FilasRL(tabla, s, j)}, j)
          /\ UNCHANGED yama

ReduccionGlobalLista(s) ==
  LET r == FilaResp(s)  j == r.job
      t == ActualizoTablaEstado(tabla, r.nodo, ReduccionGlobal, s, j, "FinalizadoOK")
  IN /\ Respuesta(s, "ReduccionGlobal", 0)
     /\ \/ /\ r.nodo \in Rango(activos)
           /\ tabla' = Append(t, Fila(j, r.nodo, s, AlmacenamientoFinal, "AlmacenamientoFinal", {}))
           /\ Enviar(s, Etapa({Len(t) + 1}))
           /\ UNCHANGED yama
        \/ /\ r.nodo \notin Rango(activos)
           /\ YamaCae
           /\ UNCHANGED <<tabla, aMaestro>>
     /\ UNCHANGED <<numeroJob, maestro, hilos, cargas, activos, fallos>>

ReduccionGlobalFallida(s) ==
  /\ Respuesta(s, "ReduccionGlobal", -1)
  /\ Enviar(s, ErrorJob)
  /\ FinalizarEnTabla(s, FilaResp(s).job, "Error")
  /\ UNCHANGED <<numeroJob, maestro, hilos, activos, fallos>>

(* OP_ALMACENAMIENTO_LISTA: neither outcome is told to the master.         *)
AlmacenamientoLista(s) ==
  /\ \/ /\ Respuesta(s, "AlmacenamientoFinal", 0)
        /\ FinalizarEnTabla(s, FilaResp(s).job, "FinalizadoOK")
     \/ /\ Respuesta(s, "AlmacenamientoFinal", -1)
        /\ FinalizarEnTabla(s, FilaResp(s).job, "Error")
  /\ UNCHANGED <<numeroJob, maestro, hilos, aMaestro, activos, fallos>>

(* The end of the stream of a master: the job to clean up is looked for    *)
(* among the rows in process of its descriptor.                            *)
FilasMaestroCaido(s) == {i \in DOMAIN tabla : tabla[i].master = s /\ tabla[i].estado = "EnProceso"}

(* Mutants of Desconexion: nothing is cleaned up; the job of the master is *)
(* cleaned up whether or not it has a row in process.                      *)
DesconexionMutadaSinLimpieza(s) ==
  /\ yama = "viva" /\ maestro[s].est = "saliendo" /\ aYama[s] = <<>>
  /\ maestro' = [maestro EXCEPT ![s] = [est |-> "libre", job |-> 0]]
  /\ aMaestro' = [aMaestro EXCEPT ![s] = <<>>] /\ MuerenSusHilos(s)
  /\ UNCHANGED <<yama, numeroJob, aYama, tabla, cargas, activos, fallos, tardios>>

DesconexionMutadaSiempre(s) ==
  /\ yama = "viva" /\ maestro[s].est = "saliendo" /\ aYama[s] = <<>>
  /\ maestro' = [maestro EXCEPT ![s] = [est |-> "libre", job |-> 0]]
  /\ aMaestro' = [aMaestro EXCEPT ![s] = <<>>] /\ MuerenSusHilos(s)
  /\ EliminarEstadosMultiples(s, maestro[s].job, tabla, cargas)
  /\ UNCHANGED <<yama, numeroJob, aYama, activos, fallos, tardios>>

Desconexion(s) ==
  /\ yama = "viva" /\ maestro[s].est = "saliendo" /\ aYama[s] = <<>>
  /\ maestro' = [maestro EXCEPT ![s] = [est |-> "libre", job |-> 0]]
  /\ aMaestro' = [aMaestro EXCEPT ![s] = <<>>]
  /\ MuerenSusHilos(s)
  /\ IF FilasMaestroCaido(s) = {} THEN UNCHANGED <<tabla, cargas>>
     ELSE EliminarEstadosMultiples(s, tabla[Min(FilasMaestroCaido(s))].job, tabla, cargas)
  /\ UNCHANGED <<yama, numeroJob, aYama, activos, fallos, tardios>>

(* FinalizarEjecucion: the file system went away, YAMA tells the masters   *)
(* of the rows in process and exits.                                       *)
FinalizarEjecucion ==
  /\ yama = "viva"
  /\ yama' = "fin"
  /\ aMaestro' = [s \in Sockets |-> IF FilasMaestroCaido(s) # {} /\ maestro[s].est = "activo"
                                    THEN Append(aMaestro[s], ErrorJob) ELSE aMaestro[s]]
  /\ UNCHANGED <<numeroJob, maestro, hilos, aYama, tabla, cargas, activos, fallos, tardios>>

Atender(s) ==
  \/ TransformacionLista(s) \/ TransformacionCorrupta(s)
  \/ Replanificacion(s) \/ ReplanificacionSinArchivo(s)
  \/ ReduccionLocalLista(s) \/ ReduccionLocalFallida(s)
  \/ ReduccionGlobalLista(s) \/ ReduccionGlobalFallida(s)
  \/ AlmacenamientoLista(s) \/ Desconexion(s)

Iniciar(s) == IniciarJob(s) \/ PlanSinFin(s) \/ IniciarSinArchivo(s)

Trabajar(s) == \/ \E f \in tareas[s] : TareaOK(s, f) \/ TareaFalla(s, f)
               \/ \E a \in porEnviar[s] : EnviarResultado(s, a)

Next == \/ \E s \in Sockets : \/ Conectar(s) \/ Iniciar(s) \/ Atender(s)
                              \/ Recibir(s) \/ Trabajar(s)
                              \/ CaeMaestro(s) \/ PierdeYama(s)
        \/ FinalizarEjecucion

(* YAMA keeps reading, masters keep reading, and a worker's task ends one  *)
(* way or the other.  Nobody has to connect, fail or die.                  *)
Spec == /\ Init /\ [][Next]_vars
        /\ \A s \in Sockets : /\ WF_vars(Iniciar(s)) /\ WF_vars(Atender(s))
                              /\ WF_vars(Recibir(s)) /\ WF_vars(PierdeYama(s))
                              /\ WF_vars(\E f \in tareas[s] : TareaOK(s, f))
                              /\ WF_vars(\E a \in porEnviar[s] : EnviarResultado(s, a))

-----------------------------------------------------------------------------
Filas == DOMAIN tabla

EnProceso(s, j) == {i \in DeJob(tabla, s, j) : tabla[i].estado = "EnProceso"}

(* The records of the variables, over a table of n rows. *)
TipoMaestro      == [est : {"libre", "pide", "activo", "saliendo"}, job : 0 .. MaxJobs]
TipoFila(n)      == [job : Jobs, master : Sockets, nodo : Nodos, blk : Int, etapa : Etapas,
                     estado : Estados, entradas : SUBSET (1 .. n)]
TipoRespuesta(n) == [fila : 1 .. n, resp : {0, -1}]
TipoMensaje(n)   == [tipo : {"etapa", "error"}, filas : SUBSET (1 .. n)]
TipoCarga        == [actual : Int, porJob : [Jobs -> Nat]]

(* The domains of the variables. *)
TypeOK ==
  /\ yama \in {"viva", "caida", "fin", "gira"}
  /\ numeroJob \in 1 .. MaxJobs + 1
  /\ maestro \in [Sockets -> TipoMaestro]
  /\ tareas \in [Sockets -> SUBSET (1 .. Len(tabla))]
  /\ porEnviar \in [Sockets -> SUBSET TipoRespuesta(Len(tabla))]
  /\ aMaestro \in [Sockets -> Seq(TipoMensaje(Len(tabla)))]
  /\ aYama \in [Sockets -> Seq(TipoRespuesta(Len(tabla)))]
  /\ tabla \in Seq(TipoFila(Len(tabla)))
  /\ cargas \in [Nodos -> TipoCarga]
  /\ activos \in {<<>>} \cup ListasActivas
  /\ fallos \in 0 .. MaxFallos
  /\ tardios \subseteq Jobs

(* The job never had two transformation rows with the same node and block: *)
(* no block came back to a node it had been taken from.                    *)
SinVueltas(j) ==
  \A i, k \in Filas :
    /\ tabla[i].job = j /\ tabla[k].job = j
    /\ tabla[i].etapa = "Transformacion" /\ tabla[k].etapa = "Transformacion"
    /\ tabla[i].nodo = tabla[k].nodo /\ tabla[i].blk = tabla[k].blk
    => i = k

(* The job never had a block replanned onto a node whose local reduction   *)
(* had already been ordered.                                               *)
SinReplanTardio(j) ==
  ~ \E k, i \in Filas : /\ k < i /\ tabla[k].job = j /\ tabla[i].job = j
                        /\ tabla[k].nodo = tabla[i].nodo
                        /\ tabla[k].etapa = "ReduccionLocal"
                        /\ tabla[i].etapa = "Transformacion"

(* cargaActual, which WCLOCK plans with, is the sum of the loads of the    *)
(* jobs, as long as no block went back and forth.                          *)
CargaCuadra ==
  tardios = {} /\ (\A j \in Jobs : SinVueltas(j)) =>
    \A n \in Nodos :
      cargas[n].actual = MapThenSumSet(LAMBDA j : cargas[n].porJob[j], Jobs)

(* A job with no row in process weighs on no node: however it ended, its   *)
(* load was given back, on the nodes it was taken away from too.           *)
CargaLiberada ==
  \A j \in Jobs : (\A i \in Filas : tabla[i].job = j => tabla[i].estado # "EnProceso")
                  => \A n \in Nodos : cargas[n].porJob[j] = 0

(* The variables keep their types, and the load table is balanced.         *)
CargaSana == TypeOK /\ CargaCuadra /\ CargaLiberada

(* While something of the job of a connected master is still to come, in   *)
(* the streams or in its threads, the table shows a row in process: the    *)
(* disconnection of that master finds a job to clean up.                   *)
DesconexionEncuentra ==
  \A s \in Sockets :
    (/\ yama = "viva" /\ maestro[s].est = "activo"
     /\ \/ tareas[s] # {} \/ porEnviar[s] # {} \/ aYama[s] # <<>>
        \/ \E m \in Rango(aMaestro[s]) : m.tipo = "etapa")
    => EnProceso(s, maestro[s].job) # {} \/ ErrorJob \in Rango(aMaestro[s])

(* The rows in process of a descriptor are of the job of the master now on *)
(* it, although descriptors are reused: the cleanup never hits another job. *)
LimpiezaPropia ==
  \A s \in Sockets : \A i \in FilasMaestroCaido(s) : tabla[i].job = maestro[s].job

(* Masters that reuse a descriptor stay apart, and their loads add up.     *)
MastersSeparados == LimpiezaPropia /\ CargaCuadra

(* Where a block of the file goes in: <<local reduction, transformation>>. *)
Aportes(g, b) ==
  {ri \in tabla[g].entradas \X Filas :
     /\ ri[2] \in tabla[ri[1]].entradas
     /\ tabla[ri[2]].etapa = "Transformacion"
     /\ BloqueDe(tabla[ri[2]].nodo, tabla[ri[2]].blk) = b}

(* The global reduction is given every block of the file exactly once, if  *)
(* no block was replanned onto a node already reducing.                    *)
EntradaExacta ==
  \A g \in Filas : (/\ tabla[g].etapa = "ReduccionGlobal" /\ tabla[g].job \notin tardios
                      /\ SinReplanTardio(tabla[g].job)) =>
    \A b \in Bloques : Cardinality(Aportes(g, b)) = 1

(* A job gets at most one global reduction and one final storage.          *)
EtapaFinalUnica ==
  \A i, k \in Filas :
    (/\ tabla[i].job = tabla[k].job /\ tabla[i].etapa = tabla[k].etapa
     /\ tabla[i].etapa \in {"ReduccionGlobal", "AlmacenamientoFinal"}
     /\ tabla[i].job \notin tardios) => i = k

(* No stage works twice on a block, none leaves one out.                   *)
EtapasExactas == EntradaExacta /\ EtapaFinalUnica

(* YAMA reads through NULL only because a node with work of some job is    *)
(* missing from the last list of active nodes, or because of a late answer *)
(* of a job that has no row in process any more.                           *)
CaidaExplicada ==
  yama = "caida" => tardios # {} \/ \E i \in Filas : tabla[i].nodo \notin Rango(activos)

(* A job that ended well stays so: the disconnection of its master, which  *)
(* follows at once, does not find a row in process and turn all to Error.  *)
ExitoPermanente ==
  [][\A i \in Filas : (/\ tabla[i].etapa = "AlmacenamientoFinal" /\ tabla[i].estado = "FinalizadoOK"
                       /\ tabla[i].job \notin tardios')
                      => tabla'[i].estado = "FinalizadoOK"]_vars

(* A job that started ends, or its master leaves, unless a block came back *)
(* to a node or was replanned onto a node already reducing, when it may    *)
(* wait for a row nobody will answer for, or unless YAMA never comes out   *)
(* of planning the file of another.                                        *)
JobTermina ==
  \A s \in Sockets : \A j \in Jobs :
    (maestro[s] = [est |-> "activo", job |-> j])
    ~> (\/ maestro[s] # [est |-> "activo", job |-> j]
        \/ ~SinVueltas(j) \/ ~SinReplanTardio(j) \/ j \in tardios
        \/ yama = "gira")
=============================================================================

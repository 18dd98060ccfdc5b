---------------------------- MODULE NodeHandler ----------------------------
(***************************************************************************)
(* The threads of the FileSystem that talk to the data nodes.  Each node   *)
(* has a handler (datanode_handler, FileSystem/src/server.c) that takes    *)
(* operations from its mailbox, talks to the node and answers to "the      *)
(* last sender"; any thread may ask it for a ping (nodelist_active), the   *)
(* console also for a block (filetable_cpblock), and node_listener         *)
(* replaces the handler when a node comes back.                            *)
(*                                                                         *)
(* The mailbox is that of Shared/thread.c: one slot guarded by sem_send    *)
(* and sem_recv, and a field `sender` that outlives the message.           *)
(***************************************************************************)
EXTENDS Naturals, Sequences

CONSTANTS
  OrdenNodos,   \* the list `nodes`: every node once, all of them formatted
  Pedidores,    \* threads that ask the handlers for something
  Consola,      \* the main thread, the only one that copies blocks
  Escucha,      \* node_listener
  Nadie,        \* NULL
  MaxCaidas     \* bound on the connections that data nodes lose

Nodos       == {OrdenNodos[i] : i \in DOMAIN OrdenNodos}
Manejadores == Nodos \X (1 .. MaxCaidas + 1)    \* the threads a node has in its life
Hilos       == Pedidores \cup Manejadores

ASSUME HandlerAssumption ==
  /\ OrdenNodos \in Seq(Nodos) \ {<<>>}
  /\ \A i, j \in DOMAIN OrdenNodos : OrdenNodos[i] = OrdenNodos[j] => i = j
  /\ {Consola, Escucha} \subseteq Pedidores /\ Pedidores \cap Manejadores = {}
  /\ Nadie \notin Hilos /\ MaxCaidas \in Nat

VARIABLES
  fs,          \* the FileSystem process: "vivo" or "caido"
  conexion,    \* per node: "abierta", "cerrada", "llega" (again, unseen) or "alta" (accepted)
  manejador,   \* node->handler
  buzon,       \* per thread: the slot of its mailbox, with at most one message
  remitente,   \* thread->sender
  manej,       \* the handler threads
  pedidor,     \* the threads that ask
  caidas,      \* connections lost so far
  cruce,       \* history: a sender was overwritten before its answer was addressed
  pisado       \* history: nodes whose new handler was installed while the old one was closing

hilosVars == <<manej, pedidor, buzon, remitente>>
vars == <<fs, conexion, manejador, hilosVars, caidas, cruce, pisado>>

Respuestas == {"si", "no", "bloque"}
ConRespuesta == {"ping", "alta", "bloque"}
Pings == {"ping", "alta"}

(* The life of a handler: "nuevo" until node_listener creates it. *)
EnBucle == {"espera", "atiende", "manda"}

Ocioso  == [pc |-> "libre", tarea |-> <<>>, dest |-> Nadie, leido |-> "nada"]
NadaQueHacer == [tipo |-> "nada", de |-> Nadie, dato |-> "nada"]

Init ==
  /\ fs = "vivo" /\ caidas = 0 /\ cruce = FALSE /\ pisado = {}
  /\ conexion = [n \in Nodos |-> "abierta"]
  /\ manejador = [n \in Nodos |-> <<n, 1>>]
  /\ buzon = [h \in Hilos |-> <<>>]
  /\ remitente = [h \in Manejadores |-> Nadie]
  /\ manej = [h \in Manejadores |->
                [pc |-> IF h[2] = 1 THEN "espera" ELSE "nuevo",
                 op |-> NadaQueHacer, dest |-> Nadie, dato |-> "nada"]]
  /\ pedidor = [r \in Pedidores |-> Ocioso]

-----------------------------------------------------------------------------
(* What a thread asks for: a sequence of requests, one at a time. *)

Pedir(tipo, n) == [tipo |-> tipo, nodo |-> n]
Recorrida == [i \in DOMAIN OrdenNodos |-> Pedir("ping", OrdenNodos[i])]

Empieza(r, tarea) ==
  /\ fs = "vivo" /\ pedidor[r].pc = "libre"
  /\ pedidor' = [pedidor EXCEPT ![r].pc = "mira", ![r].tarea = tarea]
  /\ UNCHANGED <<fs, manejador, manej, buzon, remitente, caidas, cruce, pisado>>

(* A traversal that asks every node whether it is active: nodelist_refresh, *)
(* nodelist_freeblocks, nodelist_active_pack and their like.                *)
EmpezarRecorrida(r) == Empieza(r, Recorrida) /\ UNCHANGED conexion

(* cpblock: is the target active, then read the block and write it. *)
EmpezarCopia(origen, destino) ==
  /\ origen # destino
  /\ Empieza(Consola, <<Pedir("ping", destino), Pedir("bloque", origen), Pedir("graba", destino)>>)
  /\ UNCHANGED conexion

(* A node that comes back is accepted: refresh first, then its name is looked up. *)
Aceptar(n) ==
  /\ conexion[n] = "llega"
  /\ conexion' = [conexion EXCEPT ![n] = "alta"]
  /\ Empieza(Escucha, Append(Recorrida, Pedir("alta", n)))

EnCurso(r) == Head(pedidor[r].tarea)

(* The rest of the task: cpblock gives up if its target is not active. *)
Resto(r, resp) ==
  LET cola == Tail(pedidor[r].tarea)
  IN  IF resp = "no" /\ cola # <<>> /\ cola[1].tipo = "bloque" THEN <<>> ELSE cola

Avanza(r, resp) ==
  LET cola == Resto(r, resp)
  IN  pedidor' = [pedidor EXCEPT ![r] =
        IF cola = <<>> THEN Ocioso
        ELSE [pc |-> IF cola[1].tipo \in Pings THEN "mira" ELSE "lee",
              tarea |-> cola, dest |-> Nadie, leido |-> resp]]

-----------------------------------------------------------------------------
(* node_listener installs a handler for a node that answered it is not active. *)

NuevoManejador(n) == CHOOSE h \in Manejadores : h[1] = n /\ manej[h].pc = "nuevo"

Cerrando(h) == manej[h].pc = "cierra" \/ (manej[h].pc = "manda" /\ manej[h].dato = "no")

Instalar(n) ==
  /\ conexion' = [conexion EXCEPT ![n] = "abierta"]
  /\ manejador' = [manejador EXCEPT ![n] = NuevoManejador(n)]
  /\ manej' = [manej EXCEPT ![NuevoManejador(n)].pc = "espera"]
  /\ pisado' = IF \E h \in Manejadores : h[1] = n /\ Cerrando(h)
               THEN pisado \cup {n} ELSE pisado

(* What the thread that asked does with the answer.  A node that is active *)
(* already is refused, but through the node that was just set to NULL.     *)
Concluir(r, resp) ==
  IF EnCurso(r).tipo # "alta"
  THEN Avanza(r, resp) /\ UNCHANGED <<fs, conexion, manejador, manej, pisado>>
  ELSE IF resp = "no"
       THEN Instalar(EnCurso(r).nodo) /\ Avanza(r, resp) /\ UNCHANGED fs
       ELSE fs' = "caido" /\ UNCHANGED <<pedidor, conexion, manejador, manej, pisado>>

-----------------------------------------------------------------------------
(* thread_send and thread_receive, as the threads that ask use them. *)

(* node_active looks at node->handler ... *)
Mirar(r) ==
  /\ fs = "vivo" /\ pedidor[r].pc = "mira"
  /\ IF manejador[EnCurso(r).nodo] = Nadie
     THEN Concluir(r, "no")
     ELSE /\ pedidor' = [pedidor EXCEPT ![r].pc = "lee"]
          /\ UNCHANGED <<fs, conexion, manejador, manej, pisado>>
  /\ UNCHANGED <<buzon, remitente, caidas, cruce>>

Espera(r, h) == pedidor' = [pedidor EXCEPT ![r].pc = "recibe", ![r].dest = h]

Envio(r, h) == IF EnCurso(r).tipo \in ConRespuesta THEN Espera(r, h) ELSE Avanza(r, "nada")

(* ... and reads it again to send: to NULL, thread_send just returns. *)
Leer(r) ==
  /\ fs = "vivo" /\ pedidor[r].pc = "lee"
  /\ LET h == manejador[EnCurso(r).nodo]
     IN  IF h = Nadie THEN Envio(r, Nadie)
         ELSE pedidor' = [pedidor EXCEPT ![r].pc = "envia", ![r].dest = h]
  /\ UNCHANGED <<fs, conexion, manejador, manej, buzon, remitente, caidas, cruce, pisado>>

OpDe(r) ==
  [tipo |-> IF EnCurso(r).tipo \in Pings THEN "ping" ELSE EnCurso(r).tipo,
   de |-> r, dato |-> pedidor[r].leido]

(* Blocks while the slot is full. *)
Enviar(r) ==
  /\ fs = "vivo" /\ pedidor[r].pc = "envia"
  /\ LET h == pedidor[r].dest
     IN  /\ manej[h].pc # "muerto" /\ buzon[h] = <<>>
         /\ buzon' = [buzon EXCEPT ![h] = <<OpDe(r)>>]
         /\ remitente' = [remitente EXCEPT ![h] = r]
         /\ cruce' = (cruce \/ (manej[h].pc = "atiende" /\ manej[h].op.tipo # "graba"))
         /\ Envio(r, h)
  /\ UNCHANGED <<fs, conexion, manejador, manej, caidas, pisado>>

(* The handler ended and its thread_t is freed: the memory still looks like *)
(* a mailbox, or the access ends the process; it may also block for ever.   *)
EnviarALiberado(r) ==
  /\ fs = "vivo" /\ pedidor[r].pc = "envia" /\ manej[pedidor[r].dest].pc = "muerto"
  /\ \/ Envio(r, pedidor[r].dest) /\ UNCHANGED fs
     \/ fs' = "caido" /\ UNCHANGED pedidor
  /\ UNCHANGED <<conexion, manejador, manej, buzon, remitente, caidas, cruce, pisado>>

Recibir(r) ==
  /\ fs = "vivo" /\ pedidor[r].pc = "recibe" /\ buzon[r] # <<>>
  /\ buzon' = [buzon EXCEPT ![r] = <<>>]
  /\ Concluir(r, buzon[r][1].dato)
  /\ UNCHANGED <<remitente, caidas, cruce>>

-----------------------------------------------------------------------------
(* datanode_handler. *)

Vivo(h) == conexion[h[1]] = "abierta"

(* Mutant of Tomar: the slot is not given back empty. *)
TomarMutado(h) ==
  /\ fs = "vivo" /\ manej[h].pc = "espera" /\ buzon[h] # <<>>
  /\ manej' = [manej EXCEPT ![h].pc = "atiende", ![h].op = buzon[h][1]]
  /\ UNCHANGED <<fs, conexion, manejador, pedidor, buzon, remitente, caidas, cruce, pisado>>

(* thread_receive *)
Tomar(h) ==
  /\ fs = "vivo" /\ manej[h].pc = "espera" /\ buzon[h] # <<>>
  /\ manej' = [manej EXCEPT ![h].pc = "atiende", ![h].op = buzon[h][1]]
  /\ buzon' = [buzon EXCEPT ![h] = <<>>]
  /\ UNCHANGED <<fs, conexion, manejador, pedidor, remitente, caidas, cruce, pisado>>

(* thread_respond up to the read of the sender *)
Dirigir(h, dato) ==
  manej' = [manej EXCEPT ![h].pc = "manda", ![h].dest = remitente[h], ![h].dato = dato]

Vuelve(h) == manej' = [manej EXCEPT ![h].pc = "espera", ![h].op = NadaQueHacer]

(* Mutant of AtenderPing: the loop goes on without an answer when the node is gone. *)
AtenderPingMutado(h) ==
  /\ manej[h].op.tipo = "ping"
  /\ IF Vivo(h) THEN Dirigir(h, "si") ELSE Vuelve(h)
  /\ UNCHANGED fs

(* Two packets are sent, so that the second one finds the connection reset. *)
(* When it does not, the node passes for active; when send fails with       *)
(* anything but EPIPE, the process exits.                                   *)
AtenderPing(h) ==
  /\ manej[h].op.tipo = "ping"
  /\ \/ Vivo(h) /\ Dirigir(h, "si") /\ UNCHANGED fs
     \/ ~Vivo(h) /\ (\E dato \in {"si", "no"} : Dirigir(h, dato)) /\ UNCHANGED fs
     \/ ~Vivo(h) /\ fs' = "caido" /\ UNCHANGED manej

(* A block is read; a node that is gone gets no answer out of the handler. *)
AtenderBloque(h) ==
  /\ manej[h].op.tipo = "bloque"
  /\ IF Vivo(h) THEN Dirigir(h, "bloque") ELSE Vuelve(h)
  /\ UNCHANGED fs

(* A block is written, from the pointer in the operation. *)
AtenderGraba(h) ==
  /\ manej[h].op.tipo = "graba"
  /\ IF manej[h].op.dato = "bloque" THEN Vuelve(h) /\ UNCHANGED fs
                                    ELSE fs' = "caido" /\ UNCHANGED manej

Atender(h) ==
  /\ fs = "vivo" /\ manej[h].pc = "atiende"
  /\ AtenderPing(h) \/ AtenderBloque(h) \/ AtenderGraba(h)
  /\ UNCHANGED <<conexion, manejador, pedidor, buzon, remitente, caidas, cruce, pisado>>

(* Mutant of Mandar: the loop ends after any ping. *)
MandarMutado(h) ==
  /\ fs = "vivo" /\ manej[h].pc = "manda" /\ buzon[manej[h].dest] = <<>>
  /\ buzon' = [buzon EXCEPT ![manej[h].dest] = <<[nodo |-> h[1], dato |-> manej[h].dato]>>]
  /\ manej' = [manej EXCEPT ![h] = [pc |-> IF @.dato # "bloque" THEN "cierra" ELSE "espera",
                                    op |-> NadaQueHacer, dest |-> Nadie, dato |-> "nada"]]
  /\ UNCHANGED <<fs, conexion, manejador, pedidor, remitente, caidas, cruce, pisado>>

(* thread_send of the answer; the loop ends after a ping that failed. *)
Mandar(h) ==
  /\ fs = "vivo" /\ manej[h].pc = "manda" /\ buzon[manej[h].dest] = <<>>
  /\ buzon' = [buzon EXCEPT ![manej[h].dest] = <<[nodo |-> h[1], dato |-> manej[h].dato]>>]
  /\ manej' = [manej EXCEPT ![h] = [pc |-> IF @.dato = "no" THEN "cierra" ELSE "espera",
                                    op |-> NadaQueHacer, dest |-> Nadie, dato |-> "nada"]]
  /\ UNCHANGED <<fs, conexion, manejador, pedidor, remitente, caidas, cruce, pisado>>

(* node->handler = NULL, whoever it points at by now, and the thread ends. *)
Cerrar(h) ==
  /\ fs = "vivo" /\ manej[h].pc = "cierra"
  /\ manejador' = [manejador EXCEPT ![h[1]] = Nadie]
  /\ manej' = [manej EXCEPT ![h].pc = "muerto"]
  /\ UNCHANGED <<fs, conexion, pedidor, buzon, remitente, caidas, cruce, pisado>>

-----------------------------------------------------------------------------
(* Data nodes die and come back. *)

Cae(n) ==
  /\ conexion[n] = "abierta" /\ caidas < MaxCaidas
  /\ conexion' = [conexion EXCEPT ![n] = "cerrada"] /\ caidas' = caidas + 1
  /\ UNCHANGED <<fs, manejador, hilosVars, cruce, pisado>>

Reconecta(n) ==
  /\ conexion[n] = "cerrada" /\ conexion' = [conexion EXCEPT ![n] = "llega"]
  /\ UNCHANGED <<fs, manejador, hilosVars, caidas, cruce, pisado>>

Pedidor(r) == Mirar(r) \/ Leer(r) \/ Enviar(r) \/ EnviarALiberado(r) \/ Recibir(r)
Manejador(h) == Tomar(h) \/ Atender(h) \/ Mandar(h) \/ Cerrar(h)

Next ==
  \/ \E r \in Pedidores : EmpezarRecorrida(r) \/ Pedidor(r)
  \/ \E origen, destino \in Nodos : EmpezarCopia(origen, destino)
  \/ \E n \in Nodos : Aceptar(n) \/ Cae(n) \/ Reconecta(n)
  \/ \E h \in Manejadores : Manejador(h)

(* Threads are scheduled.  Nothing is fair about sem_wait: a thread that    *)
(* waits for a full slot may be overtaken for ever, so Enviar has none.     *)
Fairness ==
  /\ \A r \in Pedidores : WF_vars(Mirar(r)) /\ WF_vars(Leer(r)) /\ WF_vars(Recibir(r))
  /\ \A h \in Manejadores : WF_vars(Manejador(h))

Spec == Init /\ [][Next]_vars /\ Fairness

-----------------------------------------------------------------------------
(* Types of the variables. *)
Peticion     == [tipo : {"ping", "alta", "bloque", "graba"}, nodo : Nodos]
Mensaje      == [tipo : {"ping", "bloque", "graba"}, de : Pedidores, dato : Respuestas \cup {"nada"}]
Contestacion == [nodo : Nodos, dato : Respuestas]
Ranura(S)    == {<<>>} \cup {<<m>> : m \in S}
TipoManej    ==
  [pc : EnBucle \cup {"nuevo", "cierra", "muerto"}, op : Mensaje \cup {NadaQueHacer},
   dest : Pedidores \cup {Nadie}, dato : Respuestas \cup {"nada"}]
TipoPedidor  ==
  [pc : {"libre", "mira", "lee", "envia", "recibe"}, tarea : Seq(Peticion),
   dest : Manejadores \cup {Nadie}, leido : Respuestas \cup {"nada"}]

TypeOK ==
  /\ fs \in {"vivo", "caido"} /\ caidas \in 0 .. MaxCaidas /\ cruce \in BOOLEAN
  /\ pisado \subseteq Nodos
  /\ conexion \in [Nodos -> {"abierta", "cerrada", "llega", "alta"}]
  /\ manejador \in [Nodos -> Manejadores \cup {Nadie}]
  /\ remitente \in [Manejadores -> Pedidores \cup {Nadie}]
  /\ buzon \in [Hilos -> Ranura(Mensaje \cup Contestacion)]
  /\ \A h \in Manejadores : buzon[h] \in Ranura(Mensaje)
  /\ \A r \in Pedidores : buzon[r] \in Ranura(Contestacion)
  /\ manej \in [Manejadores -> TipoManej] /\ pedidor \in [Pedidores -> TipoPedidor]

(* As long as no two threads have crossed on a handler, an answer reaches a *)
(* thread that waits for it: of the node it asked, of the kind it asked     *)
(* for, and into an empty mailbox.                                          *)
RespuestaPropia == TypeOK /\
  (~cruce =>
    /\ \A r \in Pedidores : buzon[r] # <<>> =>
         /\ pedidor[r].pc = "recibe"
         /\ buzon[r][1].nodo = EnCurso(r).nodo
         /\ buzon[r][1].dato = "bloque" <=> EnCurso(r).tipo = "bloque"
    /\ \A h \in Manejadores : manej[h].pc = "manda" =>
         buzon[manej[h].dest] = <<>> /\ pedidor[manej[h].dest].pc = "recibe")

(* node->handler of a node with an open connection is the one thread in the *)
(* loop of its handlers, unless the thread it once replaced was still       *)
(* closing and cleared the pointer after it (server.c:281).                 *)
ManejadorVigente ==
  (fs = "vivo" /\ ~cruce) => \A n \in Nodos \ pisado : conexion[n] = "abierta" =>
    {h \in Manejadores : h[1] = n /\ manej[h].pc \in EnBucle} = {manejador[n]}

(* Why a thread may wait for ever for an answer: the handler was NULL when  *)
(* it sent, or was past its last receive, or had no block to answer with.   *)
Colgado(r) ==
  /\ pedidor[r].pc = "recibe" /\ buzon[r] = <<>>
  /\ \/ pedidor[r].dest = Nadie
     \/ manej[pedidor[r].dest].pc \in {"cierra", "muerto"}
     \/ EnCurso(r).tipo = "bloque" /\ conexion[EnCurso(r).nodo] # "abierta"

(* A thread that has sent its request gets an answer, except in those cases. *)
RespuestaLlega ==
  \A r \in Pedidores :
    pedidor[r].pc = "recibe" ~>
      (pedidor[r].pc # "recibe" \/ Colgado(r) \/ cruce \/ fs = "caido")
=============================================================================

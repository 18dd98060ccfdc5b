--------------------------- MODULE MasterThreads ---------------------------
(***************************************************************************)
(* The threads of a master (Master/src).  The main thread reads what YAMA  *)
(* orders and creates a thread per task, which talks to a worker and       *)
(* reports to YAMA.  A thread whose worker fails sends the name of the     *)
(* node to the thread node_drop and sleeps; node_drop kills and joins the  *)
(* other threads of the node with mutex_hilos taken, and wakes the sender. *)
(*                                                                         *)
(* Suspension, mailbox and kill are those of Shared/thread.c: a kill is a  *)
(* signal that interrupts the call the thread is blocked in, if it is.     *)
(***************************************************************************)
EXTENDS Integers, Sequences, FiniteSets

CONSTANTS
  Hilos,      \* the threads of the tasks
  Etapa,      \* stage of each: "T", "RL", "RG" or "AF"
  Nodo,       \* node of its worker
  Paquetes,   \* what YAMA may order: tasks, sets of tasks done before, nodes reported before
  Permisos,   \* initial value of the semaphore, 30 in the code
  Nadie,      \* NULL
  MaxFallos   \* bound on workers that fail

ConAviso(t)    == Etapa[t] \in {"T", "RL"}    \* stages whose failure goes to node_drop
ConMutex(t)    == Etapa[t] \in {"T", "RL"}    \* stages that take mutex_hilos
ConPermiso(t)  == Etapa[t] = "T"

EnPaquete(t, p) == \E i \in DOMAIN Paquetes[p].hilos : Paquetes[p].hilos[i] = t

(* A thread is created for one task: no two packets share a thread. *)
ASSUME MasterAssumption ==
  /\ IsFiniteSet(Hilos) /\ Nadie \notin Hilos /\ Nadie # "node_drop"
  /\ Permisos \in Nat \ {0} /\ MaxFallos \in Nat
  /\ Etapa \in [Hilos -> {"T", "RL", "RG", "AF"}]
  /\ \A t \in Hilos : Nodo[t] \notin Hilos
  /\ \A p \in DOMAIN Paquetes : Paquetes[p].hilos \in Seq(Hilos) \ {<<>>}
  /\ \A p, q \in DOMAIN Paquetes :
       \A i \in DOMAIN Paquetes[p].hilos, j \in DOMAIN Paquetes[q].hilos :
         Paquetes[p].hilos[i] = Paquetes[q].hilos[j] => p = q /\ i = j

(* YAMA orders the last two stages when the first two are over            *)
(* (EtapasExactas of YamaJobs): the tasks of those stages on the node were *)
(* done, or belong to a packet that replaces the tasks of a failed node    *)
(* and was not needed, since all the tasks of that node were done.         *)
ASSUME EtapasEnOrden ==
  \A p \in DOMAIN Paquetes : \A s \in Paquetes[p].tras : \A t, u \in Hilos :
    EnPaquete(t, p) /\ ~ConMutex(t) /\ ConMutex(u) /\ Nodo[u] = Nodo[t] =>
      \/ u \in s
      \/ \A q \in DOMAIN Paquetes : EnPaquete(u, q) =>
           /\ Paquetes[q].caidos # {}
           /\ \A v \in Hilos : Nodo[v] \in Paquetes[q].caidos => v \in s

VARIABLES
  proceso,    \* "vivo", "fin" or "caido"
  principal,  \* the main thread: pc and the tasks of the packet still to create
  enviados,   \* packets received from YAMA
  hilo,       \* per thread: pc, response and whether a signal interrupts its call
  enLista,    \* the threads in the list `hilos`
  activo,     \* those of them whose t_hilos is active
  vivo,       \* threads whose thread_t is active
  despierta,  \* sem_sleep of each thread
  informe,    \* what each told YAMA
  sem,        \* the semaphore that bounds the transformations
  mutex,      \* owner of mutex_hilos while it is kept over several steps
  buzon,      \* mailbox of node_drop: sem_send, sem_recv, sender, data
  caida,      \* node_drop: pc, data, who wrote it, hilo_sender, who is left to kill
  memoria,    \* "bien", or "liberada": the registry or the list were destroyed
  fallos,     \* workers that failed so far
  causas      \* history: why the notice of a thread, or the process, was lost

nodeDropVars == <<mutex, caida, despierta>>
vars == <<proceso, principal, enviados, hilo, enLista, activo, vivo, informe, sem,
          buzon, nodeDropVars, memoria, fallos, causas>>

Nodos == {Nodo[t] : t \in Hilos}
Terminados     == {"fin", "muerto", "recogido"}
Bloqueantes    == {"conecta", "pide", "avisa", "duerme"}

Init ==
  /\ proceso = "vivo" /\ memoria = "bien" /\ fallos = 0 /\ causas = {}
  /\ principal = [pc |-> "recibe", cola |-> <<>>]
  /\ enviados = {} /\ enLista = {} /\ activo = {} /\ vivo = {}
  /\ hilo = [t \in Hilos |-> [pc |-> "nada", resp |-> "no", senal |-> FALSE]]
  /\ despierta = [t \in Hilos |-> 0]
  /\ informe = [t \in Hilos |-> "no"]
  /\ sem = Permisos /\ mutex = Nadie
  /\ buzon = [envia |-> 1, recibe |-> 0, de |-> Nadie, dato |-> Nadie]
  /\ caida = [pc |-> "recibe", dato |-> Nadie, autor |-> Nadie, emisor |-> Nadie, quedan |-> {}]

Pasa(t, pc) == hilo' = [hilo EXCEPT ![t].pc = pc]

-----------------------------------------------------------------------------
(* The main thread. *)

Informados(r) == {t \in Hilos : informe[t] = r}

(* What YAMA orders, as far as the master can tell: a packet once the tasks *)
(* it builds on are done, or once one of its nodes was reported.            *)
Ordenable(p) ==
  /\ p \notin enviados
  /\ \E s \in Paquetes[p].tras : s \subseteq Informados("bien")
  /\ Paquetes[p].caidos = {} \/ \E t \in Informados("mal") : Nodo[t] \in Paquetes[p].caidos

Recibir(p) ==
  /\ proceso = "vivo" /\ principal.pc = "recibe" /\ Ordenable(p)
  /\ enviados' = enviados \cup {p}
  /\ principal' = [pc |-> "crea", cola |-> Paquetes[p].hilos]
  /\ UNCHANGED <<proceso, hilo, enLista, activo, vivo, informe, sem, buzon, nodeDropVars, memoria, fallos, causas>>

(* OP_ERROR_JOB destroys the registry of threads while they run. *)
RecibirError ==
  /\ proceso = "vivo" /\ principal.pc = "recibe" /\ Informados("mal") # {}
  /\ memoria' = "liberada" /\ principal' = [principal EXCEPT !.pc = "termina"]
  /\ UNCHANGED <<proceso, enviados, hilo, enLista, activo, vivo, informe, sem, buzon, nodeDropVars, fallos, causas>>

(* YAMA is gone: the packet has no operation. *)
RecibirCorte ==
  /\ proceso = "vivo" /\ principal.pc = "recibe"
  /\ principal' = [principal EXCEPT !.pc = "termina"]
  /\ UNCHANGED <<proceso, enviados, hilo, enLista, activo, vivo, informe, sem, buzon, nodeDropVars, memoria, fallos, causas>>

(* set_hilo, the semaphore for a transformation, thread_create.  The thread *)
(* runs before it is in the list.                                           *)
Crear ==
  /\ proceso = "vivo" /\ principal.pc = "crea"
  /\ LET t == Head(principal.cola)
     IN  /\ ConPermiso(t) => sem > 0
         /\ sem' = IF ConPermiso(t) THEN sem - 1 ELSE sem
         /\ Pasa(t, "conecta") /\ vivo' = vivo \cup {t}
  /\ principal' = [principal EXCEPT !.pc = "anota"]
  /\ UNCHANGED <<proceso, enviados, enLista, activo, informe, buzon, nodeDropVars, memoria, fallos, causas>>

(* The loop over the tasks of the packet; the final storage is joined. *)
SigueMutadoSinUnir == IF Len(principal.cola) > 1 THEN "crea" ELSE "recibe"
Sigue == IF Etapa[Head(principal.cola)] = "AF" THEN "mira"
         ELSE IF Len(principal.cola) > 1 THEN "crea" ELSE "recibe"

(* Appended to the list, with the mutex or, in the last two stages, without. *)
Anotar ==
  /\ proceso = "vivo" /\ principal.pc = "anota"
  /\ LET t == Head(principal.cola)
     IN  /\ ConMutex(t) => mutex = Nadie
         /\ enLista' = enLista \cup {t} /\ activo' = activo \cup {t}
         /\ principal' = [pc |-> Sigue, cola |-> Tail(principal.cola)]
  /\ UNCHANGED <<proceso, enviados, hilo, vivo, informe, sem, buzon, nodeDropVars, memoria, fallos, causas>>

Almacenador == CHOOSE t \in enLista : Etapa[t] = "AF"

(* thread_wait reads the identifier from a thread_t that the thread frees *)
(* when it ends.                                                          *)
Mirar ==
  /\ proceso = "vivo" /\ principal.pc = "mira"
  /\ \/ principal' = [principal EXCEPT !.pc = "une"] /\ UNCHANGED <<proceso, causas>>
     \/ /\ hilo[Almacenador].pc = "fin"
        /\ proceso' = "caido" /\ causas' = causas \cup {<<"unido tarde", Almacenador>>}
        /\ UNCHANGED principal
  /\ UNCHANGED <<enviados, hilo, enLista, activo, vivo, informe, sem, buzon, nodeDropVars, memoria, fallos>>

Unir ==
  /\ proceso = "vivo" /\ principal.pc = "une" /\ hilo[Almacenador].pc = "fin"
  /\ principal' = [principal EXCEPT !.pc = "termina"]
  /\ UNCHANGED <<proceso, enviados, hilo, enLista, activo, vivo, informe, sem, buzon, nodeDropVars, memoria, fallos, causas>>

(* terminate frees the list and the mutex; then main returns. *)
Terminar ==
  /\ proceso = "vivo" /\ principal.pc = "termina"
  /\ memoria' = "liberada" /\ principal' = [principal EXCEPT !.pc = "sale"]
  /\ UNCHANGED <<proceso, enviados, hilo, enLista, activo, vivo, informe, sem, buzon, nodeDropVars, fallos, causas>>

Salir ==
  /\ proceso = "vivo" /\ principal.pc = "sale" /\ proceso' = "fin"
  /\ UNCHANGED <<principal, enviados, hilo, enLista, activo, vivo, informe, sem, buzon, nodeDropVars, memoria, fallos, causas>>

-----------------------------------------------------------------------------
(* A task. *)

Corre(t, pc) == proceso = "vivo" /\ hilo[t].pc = pc

Morir(t) == Pasa(t, "muerto") /\ UNCHANGED fallos

Responde(t, r) ==
  hilo' = [hilo EXCEPT ![t].resp = r,
             ![t].pc = IF r = "mal" /\ ConAviso(t) THEN "avisa" ELSE "cierra"]

(* What the worker says; what does not get there is a failure too. *)
Respuesta(t) ==
  \/ Responde(t, "bien") /\ UNCHANGED fallos
  \/ fallos < MaxFallos /\ fallos' = fallos + 1 /\ Responde(t, "mal")

(* connect_to_worker: a thread that was killed ends here. *)
Conectar(t) ==
  /\ Corre(t, "conecta")
  /\ IF t \notin vivo THEN Morir(t)
     ELSE \/ Pasa(t, "manda") /\ UNCHANGED fallos
          \/ fallos < MaxFallos /\ fallos' = fallos + 1 /\ Responde(t, "mal")
  /\ UNCHANGED <<proceso, principal, enviados, enLista, activo, vivo, informe, sem, buzon, nodeDropVars, memoria, causas>>

(* The request.  If it cannot be sent nobody looks whether it was killed. *)
Mandar(t) ==
  /\ Corre(t, "manda")
  /\ \/ Pasa(t, "pide") /\ UNCHANGED fallos
     \/ fallos < MaxFallos /\ fallos' = fallos + 1 /\ Responde(t, "mal")
  /\ UNCHANGED <<proceso, principal, enviados, enLista, activo, vivo, informe, sem, buzon, nodeDropVars, memoria, causas>>

Recibido(t) ==
  /\ Corre(t, "pide")
  /\ IF t \notin vivo /\ ConAviso(t) THEN Morir(t) ELSE Respuesta(t)
  /\ UNCHANGED <<proceso, principal, enviados, enLista, activo, vivo, informe, sem, buzon, nodeDropVars, memoria, causas>>

(* thread_send to node_drop.  Interrupted while it waits for the slot it *)
(* goes on as if it had it, and overwrites the message that is there.    *)
Avisar(t) ==
  /\ Corre(t, "avisa") /\ (buzon.envia > 0 \/ hilo[t].senal)
  /\ buzon' = [envia |-> IF buzon.envia > 0 THEN buzon.envia - 1 ELSE 0,
               recibe |-> buzon.recibe + 1, de |-> t, dato |-> Nodo[t]]
  /\ causas' = IF buzon.recibe > 0 THEN causas \cup {<<"pisado", buzon.de>>} ELSE causas
  /\ hilo' = [hilo EXCEPT ![t].pc = "duerme", ![t].senal = FALSE]
  /\ UNCHANGED <<proceso, principal, enviados, enLista, activo, vivo, informe, sem, nodeDropVars, memoria, fallos>>

(* thread_suspend returns when it is resumed, or interrupted. *)
Despertar(t) ==
  /\ Corre(t, "duerme") /\ (despierta[t] > 0 \/ hilo[t].senal)
  /\ despierta' = [despierta EXCEPT ![t] = IF @ > 0 THEN @ - 1 ELSE 0]
  /\ Pasa(t, IF t \in vivo THEN "cierra" ELSE "muerto")
  /\ UNCHANGED <<proceso, principal, enviados, enLista, activo, vivo, informe, sem, buzon, mutex, caida, memoria, fallos, causas>>

(* actualizar_hilo: a thread that is not in the list reads through NULL. *)
Actualizar(t) ==
  /\ Corre(t, "cierra") /\ (ConMutex(t) => mutex = Nadie)
  /\ IF t \in activo
     THEN /\ activo' = activo \ {t} /\ Pasa(t, "informa")
          /\ UNCHANGED <<proceso, causas>>
     ELSE /\ proceso' = "caido" /\ causas' = causas \cup {<<"sin anotar", t>>}
          /\ UNCHANGED <<activo, hilo>>
  /\ UNCHANGED <<principal, enviados, enLista, vivo, informe, sem, buzon, nodeDropVars, memoria, fallos>>

(* Only transformations have a permit to give back. *)
SignalMutado(t) == sem' = IF ConPermiso(t) /\ hilo[t].resp = "bien" THEN sem + 1 ELSE sem
Signal(t)       == sem' = IF ConPermiso(t) THEN sem + 1 ELSE sem

(* The result to YAMA, the semaphore, and the end of the thread. *)
Informar(t) ==
  /\ Corre(t, "informa")
  /\ informe' = [informe EXCEPT ![t] = hilo[t].resp]
  /\ Signal(t)
  /\ Pasa(t, "fin")
  /\ UNCHANGED <<proceso, principal, enviados, enLista, activo, vivo, buzon, nodeDropVars, memoria, fallos, causas>>

(* A thread that touches what was destroyed under it. *)
TocarLiberada(t) ==
  /\ proceso = "vivo" /\ memoria = "liberada" /\ hilo[t].pc \notin Terminados \cup {"nada"}
  /\ proceso' = "caido" /\ causas' = causas \cup {<<"liberada", t>>}
  /\ UNCHANGED <<principal, enviados, hilo, enLista, activo, vivo, informe, sem, buzon, nodeDropVars, memoria, fallos>>

-----------------------------------------------------------------------------
(* node_drop. *)

(* thread_receive frees the slot before thread_sender is read. *)
Atender ==
  /\ proceso = "vivo" /\ caida.pc = "recibe" /\ buzon.recibe > 0
  /\ buzon' = [buzon EXCEPT !.recibe = @ - 1, !.envia = @ + 1]
  /\ caida' = [caida EXCEPT !.pc = "traba", !.dato = buzon.dato, !.autor = buzon.de]
  /\ UNCHANGED <<proceso, principal, enviados, hilo, enLista, activo, vivo, informe, sem, mutex, despierta, memoria, fallos, causas>>

DelNodoMutado(n, emisor) == {u \in enLista : Nodo[u] = n /\ u # emisor}
DelNodoMutadoEtapa(n, emisor) == {u \in activo : Nodo[u] = n /\ u # emisor /\ ConPermiso(u)}
DelNodo(n, emisor) == {u \in activo : Nodo[u] = n /\ u # emisor}

ReanudarMutado(t) == despierta' = [despierta EXCEPT ![t] = IF mutex = Nadie THEN @ + 1 ELSE @]
Reanudar(t) == despierta' = [despierta EXCEPT ![t] = @ + 1]

(* Why the one who wrote the message is not the one who is resumed. *)
Desatendido ==
  IF buzon.de # caida.autor THEN {<<"cruce", caida.autor>>}
  ELSE IF buzon.de \notin activo THEN {<<"sin anotar", caida.autor>>}
  ELSE {}

(* The lock, and who is to be killed. *)
Trabar ==
  /\ proceso = "vivo" /\ caida.pc = "traba" /\ mutex = Nadie
  /\ LET emisor == buzon.de
         otros  == DelNodo(caida.dato, emisor)
     IN  /\ causas' = causas \cup Desatendido
         /\ IF emisor \notin activo
            THEN caida' = [caida EXCEPT !.pc = "recibe"] /\ UNCHANGED <<mutex, despierta>>
            ELSE IF otros = {}
            THEN caida' = [caida EXCEPT !.pc = "recibe"] /\ Reanudar(emisor) /\ UNCHANGED mutex
            ELSE /\ caida' = [caida EXCEPT !.pc = "mata", !.emisor = emisor, !.quedan = otros]
                 /\ mutex' = "node_drop" /\ UNCHANGED despierta
  /\ UNCHANGED <<proceso, principal, enviados, hilo, enLista, activo, vivo, informe, sem, buzon, memoria, fallos>>

(* kill_thread, up to the join.  The signal is lost if it comes before the *)
(* thread blocks.                                                          *)
Matar(t) ==
  /\ proceso = "vivo" /\ caida.pc = "mata" /\ t \in caida.quedan
  /\ activo' = activo \ {t} /\ vivo' = vivo \ {t}
  /\ \E s \in IF hilo[t].pc \in Bloqueantes THEN BOOLEAN ELSE {FALSE} :
       hilo' = [hilo EXCEPT ![t].senal = s]
  /\ caida' = [caida EXCEPT !.pc = "une", !.quedan = @ \ {t}, !.dato = t]
  /\ UNCHANGED <<proceso, principal, enviados, enLista, informe, sem, buzon, mutex, despierta, memoria, fallos, causas>>

(* The join, with the mutex still taken; the semaphore is signalled whatever *)
(* the stage of the thread.  After the last one the sender is resumed.       *)
Recoger ==
  /\ proceso = "vivo" /\ caida.pc = "une" /\ hilo[caida.dato].pc = "muerto"
  /\ Pasa(caida.dato, "recogido") /\ sem' = sem + 1
  /\ IF caida.quedan # {}
     THEN caida' = [caida EXCEPT !.pc = "mata"] /\ UNCHANGED <<mutex, despierta>>
     ELSE /\ caida' = [caida EXCEPT !.pc = "recibe"]
          /\ mutex' = Nadie /\ Reanudar(caida.emisor)
  /\ UNCHANGED <<proceso, principal, enviados, enLista, activo, vivo, informe, buzon, memoria, fallos, causas>>

-----------------------------------------------------------------------------
Principal == \/ \E p \in DOMAIN Paquetes : Recibir(p)
             \/ RecibirError \/ RecibirCorte
             \/ Crear \/ Anotar \/ Mirar \/ Unir \/ Terminar \/ Salir
Tarea(t)  == \/ Conectar(t) \/ Mandar(t) \/ Recibido(t) \/ Avisar(t) \/ Despertar(t)
             \/ Actualizar(t) \/ Informar(t) \/ TocarLiberada(t)
NodeDrop  == Atender \/ Trabar \/ Recoger \/ \E t \in Hilos : Matar(t)

Next == Principal \/ NodeDrop \/ \E t \in Hilos : Tarea(t)

(* YAMA answers, workers answer, and every thread that can run does. *)
Fairness ==
  /\ WF_vars(RecibirError \/ \E p \in DOMAIN Paquetes : Recibir(p))
  /\ WF_vars(Crear \/ Anotar \/ Mirar \/ Unir \/ Terminar \/ Salir)
  /\ WF_vars(NodeDrop)
  /\ \A t \in Hilos : WF_vars(Tarea(t))

Spec == Init /\ [][Next]_vars /\ Fairness

-----------------------------------------------------------------------------
(* Properties. *)

TipoPrincipal ==
  [pc : {"recibe", "crea", "anota", "mira", "une", "termina", "sale"}, cola : Seq(Hilos)]
TipoHilo ==
  [pc : {"nada", "conecta", "manda", "pide", "avisa", "duerme", "cierra", "informa",
         "fin", "muerto", "recogido"},
   resp : {"no", "bien", "mal"}, senal : BOOLEAN]
TipoBuzon == [envia : 0..1, recibe : Nat, de : Hilos \cup {Nadie}, dato : Nodos \cup {Nadie}]
TipoCaida ==
  [pc : {"recibe", "traba", "mata", "une"}, dato : Hilos \cup Nodos \cup {Nadie},
   autor : Hilos \cup {Nadie}, emisor : Hilos \cup {Nadie}, quedan : SUBSET Hilos]

TypeOK ==
  /\ proceso \in {"vivo", "fin", "caido"} /\ memoria \in {"bien", "liberada"}
  /\ principal \in TipoPrincipal
  /\ principal.pc \in {"crea", "anota"} => principal.cola # <<>>
  /\ enviados \subseteq DOMAIN Paquetes
  /\ activo \subseteq enLista /\ enLista \subseteq Hilos /\ vivo \subseteq Hilos
  /\ hilo \in [Hilos -> TipoHilo]
  /\ despierta \in [Hilos -> Nat] /\ informe \in [Hilos -> {"no", "bien", "mal"}]
  /\ sem \in Nat /\ mutex \in {Nadie, "node_drop"}
  /\ buzon \in TipoBuzon /\ caida \in TipoCaida
  /\ fallos \in 0..MaxFallos

De(etapa) == {t \in Hilos : Etapa[t] = etapa}
EnCurso   == {t \in Hilos : hilo[t].pc \notin {"nada", "fin", "recogido"}}

(* The semaphore bounds the transformations in progress, through failures  *)
(* and kills; it lets in one more for each local reduction that node_drop  *)
(* killed, since kill_thread does not look at the stage.                   *)
SemaforoCuadra == TypeOK /\
  sem + Cardinality(EnCurso \cap De("T"))
    = Permisos + Cardinality({t \in De("RL") : hilo[t].pc = "recogido"})

(* YAMA replans the tasks of a node that failed: a thread that was killed  *)
(* never reports, and those that node_drop is about to kill have not left  *)
(* the list by themselves, which without the mutex (the last two stages)   *)
(* they could.                                                             *)
MuertoNoInforma ==
  /\ \A t \in Hilos : informe[t] # "no" => t \in vivo
  /\ caida.pc = "mata" => \A t \in caida.quedan : t \in activo /\ ConMutex(t)

Causa(t, cs) == \E c \in cs : <<c, t>> \in causas

(* When node_drop resumes the thread that reported a node, no other thread *)
(* of the node is active: its failure reaches YAMA after the last of them  *)
(* was killed.  Unless the notices of two nodes crossed.                   *)
ReanudaSola ==
  [][\A t \in Hilos : despierta'[t] > despierta[t]
       => \/ \A u \in activo' \ {t} : Nodo[u] # Nodo[t]
          \/ \E u \in Hilos : <<"cruce", u>> \in causas']_vars

EnNodeDrop(t) ==
  \/ buzon.recibe > 0 /\ buzon.de = t
  \/ caida.pc = "traba" /\ caida.autor = t
  \/ caida.pc \in {"mata", "une"} /\ t \in {caida.emisor, caida.dato} \cup caida.quedan

Abandonado(t) == hilo[t].pc = "duerme" /\ despierta[t] = 0 /\ ~hilo[t].senal /\ ~EnNodeDrop(t)

(* A thread that sleeps with nobody left to wake it is one whose notice    *)
(* found it missing from the list (it failed before its creator appended   *)
(* it), was read with the sender of the next one, or was overwritten by a  *)
(* sender that a kill had interrupted.  And the process ends badly only    *)
(* for a thread that was not in the list, one joined after its thread_t    *)
(* was freed, or one that touches what main had destroyed.                 *)
AbandonoExplicado ==
  /\ \A t \in Hilos : Abandonado(t) => Causa(t, {"sin anotar", "cruce", "pisado"})
  /\ proceso = "caido" => \E t \in Hilos : Causa(t, {"sin anotar", "unido tarde", "liberada"})

(* node_drop joins, with the mutex, a thread that waits for that mutex, or *)
(* that sleeps with no signal on its way: the one it was sent is gone.     *)
Trabado ==
  /\ caida.pc = "une"
  /\ LET h == hilo[caida.dato]
     IN  h.pc = "cierra" \/ (h.pc \in {"avisa", "duerme"} /\ ~h.senal)

(* A master ends: it stores the result or gives up, unless node_drop waits *)
(* for ever for a thread it killed, or a thread sleeps for ever with nobody *)
(* to wake it.                                                             *)
MasterTermina ==
  \/ <>(proceso # "vivo")
  \/ <>[]Trabado
  \/ \E t \in Hilos : <>[]Abandonado(t)

=============================================================================

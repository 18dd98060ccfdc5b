------------------------ MODULE MasterThreadsProofs ------------------------
(***************************************************************************)
(* Theorems about MasterThreads, for every value of its constants.         *)
(***************************************************************************)
EXTENDS MasterThreads, FiniteSetTheorems, TLAPS

-----------------------------------------------------------------------------
(* The inductive invariant. *)

Antes == {"nada", "conecta", "manda", "pide", "avisa"}    \* before the notice

(* The threads of a packet are created once, in the order of its tasks; *)
(* until then a thread has left no trace.                               *)
Creacion ==
  /\ \A t \in Hilos : hilo[t].pc # "nada" \/ t \in enLista \cup vivo =>
       \E p \in enviados : EnPaquete(t, p)
  /\ \A i \in DOMAIN principal.cola : \E p \in enviados : EnPaquete(principal.cola[i], p)
  /\ \A i, j \in DOMAIN principal.cola : principal.cola[i] = principal.cola[j] => i = j
  /\ principal.pc \in {"crea", "anota"} =>
       \A i \in DOMAIN principal.cola :
         IF i = 1 /\ principal.pc = "anota"
         THEN hilo[principal.cola[i]].pc # "nada" /\ principal.cola[i] \in vivo \ enLista
         ELSE hilo[principal.cola[i]].pc = "nada" /\ principal.cola[i] \notin vivo \cup enLista
  /\ principal.pc = "mira" => \E t \in enLista : Etapa[t] = "AF"

(* The life of a thread: its response, the list and its report. *)
Vida ==
  /\ activo \subseteq vivo
  /\ \A t \in Hilos :
       /\ hilo[t].pc \in Antes \ {"avisa"} => hilo[t].resp = "no"
       /\ hilo[t].pc \in {"avisa", "duerme"} => hilo[t].resp = "mal" /\ ConAviso(t)
       /\ hilo[t].pc \in {"informa", "fin"} => t \in vivo \cap enLista /\ t \notin activo
       /\ informe[t] # "no" => hilo[t].pc = "fin" /\ informe[t] = hilo[t].resp

(* w sent the notice of a failure of node n. *)
Aviso(w, n) ==
  /\ w \in Hilos /\ Nodo[w] = n /\ ConAviso(w)
  /\ hilo[w].resp = "mal" /\ hilo[w].pc \notin Antes

(* Who is in the mailbox and in node_drop sent a notice; the mutex is held *)
(* while there are threads of the node left, and these are still active.   *)
Notificaciones ==
  /\ buzon.de # Nadie => Aviso(buzon.de, buzon.dato)
  /\ buzon.recibe > 0 => buzon.de # Nadie
  /\ caida.pc = "traba" => Aviso(caida.autor, caida.dato) /\ buzon.de # Nadie
  /\ mutex = "node_drop" <=> caida.pc \in {"mata", "une"}
  /\ caida.pc \in {"mata", "une"} =>
       /\ Aviso(caida.emisor, Nodo[caida.emisor])
       /\ \A t \in caida.quedan : t \in activo /\ ConMutex(t)
       /\ \/ \A u \in activo : Nodo[u] = Nodo[caida.emisor] => u \in caida.quedan \cup {caida.emisor}
          \/ \E u \in Hilos : <<"cruce", u>> \in causas
  /\ caida.pc = "mata" /\ caida.dato \in Hilos => hilo[caida.dato].pc = "recogido"
  /\ caida.pc = "une" => caida.dato \in enLista \ vivo /\ ConMutex(caida.dato)

(* A thread is woken, or interrupted, only where it can be. *)
Senales ==
  /\ \A t \in Hilos : despierta[t] > 0 => hilo[t].pc \notin Antes
  /\ \A t \in Hilos : hilo[t].senal =>
       t \notin vivo /\ (hilo[t].pc \in Terminados \/ (caida.pc = "une" /\ caida.dato = t))

(* One slot, unless a kill let a sender overwrite it; then that thread     *)
(* sleeps, node_drop joins it and nothing else gets into the mailbox.      *)
Ranura ==
  \/ buzon.envia + buzon.recibe = 1
  \/ /\ buzon.envia = 0 /\ buzon.recibe = 2 /\ caida.pc = "une"
     /\ hilo[caida.dato].pc = "duerme" /\ despierta[caida.dato] = 0 /\ ~hilo[caida.dato].senal

(* When one of the last two stages was ordered on a node, its tasks of the *)
(* first two were done, or replace tasks that were done: a packet that     *)
(* replaces tasks is sent for one that failed.                             *)
EtapasCerradas ==
  /\ \A p \in enviados : Paquetes[p].caidos # {} =>
       \E v \in Hilos : informe[v] = "mal" /\ Nodo[v] \in Paquetes[p].caidos
  /\ \A p \in enviados : \A t, u \in Hilos :
       EnPaquete(t, p) /\ ~ConMutex(t) /\ ConMutex(u) /\ Nodo[u] = Nodo[t] =>
         \/ informe[u] = "bien"
         \/ \A q \in DOMAIN Paquetes : EnPaquete(u, q) =>
              /\ Paquetes[q].caidos # {}
              /\ \A v \in Hilos : Nodo[v] \in Paquetes[q].caidos => informe[v] = "bien"

IInv == /\ TypeOK /\ Creacion /\ Vida /\ Notificaciones /\ Senales /\ Ranura
        /\ EtapasCerradas /\ SemaforoCuadra /\ AbandonoExplicado

-----------------------------------------------------------------------------
(* The rest of a queue. *)
LEMMA RestoDeCola ==
  ASSUME NEW S, NEW c \in Seq(S), c # <<>>
  PROVE  /\ Head(c) = c[1] /\ Head(c) \in S /\ 1 \in DOMAIN c
         /\ Tail(c) \in Seq(S)
         /\ Len(c) > 1 => Tail(c) # <<>>
         /\ \A i \in DOMAIN Tail(c) : i + 1 \in DOMAIN c /\ i + 1 # 1 /\ Tail(c)[i] = c[i + 1]
<1>1. Len(c) \in Nat \ {0} /\ DOMAIN c = 1 .. Len(c)
  OBVIOUS
<1>2. Tail(c) \in Seq(S) /\ Len(Tail(c)) = Len(c) - 1 /\ DOMAIN Tail(c) = 1 .. Len(c) - 1
  BY <1>1
<1>3. Len(<<>>) = 0
  OBVIOUS
<1>4. Len(c) > 1 => Tail(c) # <<>>
  <2> DEFINE r == Tail(c)
  <2>1. Len(r) = Len(c) - 1
    BY <1>2
  <2> HIDE DEF r
  <2>2. Len(c) > 1 => r # <<>>
    BY <1>1, <1>3, <2>1
  <2> QED
    BY <2>2 DEF r
<1>5. Head(c) = c[1] /\ Head(c) \in S /\ 1 \in DOMAIN c
  BY <1>1
<1>6. \A i \in DOMAIN Tail(c) : i + 1 \in DOMAIN c /\ i + 1 # 1 /\ Tail(c)[i] = c[i + 1]
  BY <1>1, <1>2
<1> QED
  BY <1>2, <1>4, <1>5, <1>6

LEMMA PasoTipo == IInv /\ [Next]_vars => TypeOK'
<1> SUFFICES ASSUME IInv, [Next]_vars PROVE TypeOK'
  OBVIOUS
<1>0. TypeOK /\ Permisos \in Nat /\ MaxFallos \in Nat
  BY MasterAssumption DEF IInv
<1>a. hilo \in [Hilos -> TipoHilo] /\ buzon \in TipoBuzon /\ caida \in TipoCaida
  BY <1>0 DEF TypeOK
<1>b. despierta \in [Hilos -> Nat] /\ informe \in [Hilos -> {"no", "bien", "mal"}] /\ sem \in Nat
  BY <1>0 DEF TypeOK
<1>1. ASSUME NEW p \in DOMAIN Paquetes, Recibir(p) PROVE TypeOK'
  <2>1. Paquetes[p].hilos \in Seq(Hilos) \ {<<>>}
    BY MasterAssumption
  <2> QED
    BY <1>0, <1>1, <2>1 DEF Recibir, nodeDropVars, TypeOK, TipoPrincipal
<1>2. CASE RecibirError \/ RecibirCorte \/ Terminar \/ Salir \/ Unir \/ Mirar
  BY <1>0, <1>2 DEF RecibirError, RecibirCorte, Terminar, Salir, Unir, Mirar, nodeDropVars,
                    TypeOK, TipoPrincipal
<1>3. CASE Crear
  <2>1. Head(principal.cola) \in Hilos
    BY <1>0, <1>3 DEF Crear, TypeOK, TipoPrincipal
  <2>2. hilo' \in [Hilos -> TipoHilo]
    BY <1>0, <1>3, <2>1 DEF Crear, Pasa, TypeOK, TipoHilo
  <2>3. sem' \in Nat
    BY <1>0, <1>3 DEF Crear, TypeOK
  <2> QED
    BY <1>0, <1>3, <2>1, <2>2, <2>3 DEF Crear, nodeDropVars, TypeOK, TipoPrincipal
<1>4. CASE Anotar
  <2>1. Head(principal.cola) \in Hilos /\ Tail(principal.cola) \in Seq(Hilos)
    BY <1>0, <1>4 DEF Anotar, TypeOK, TipoPrincipal
  <2>2. Sigue = "crea" => Tail(principal.cola) # <<>>
    <3>1. principal.cola \in Seq(Hilos) /\ principal.cola # <<>>
      BY <1>0, <1>4 DEF Anotar, TypeOK, TipoPrincipal
    <3> QED
      BY <3>1, RestoDeCola DEF Sigue
  <2> QED
    BY <1>0, <1>4, <2>1, <2>2 DEF Anotar, Sigue, nodeDropVars, TypeOK, TipoPrincipal
<1>5. ASSUME NEW t \in Hilos, Conectar(t) \/ Mandar(t) \/ Recibido(t) PROVE TypeOK'
  <2>1. hilo' \in [Hilos -> TipoHilo]
    <3>1. \/ \E pc \in {"muerto", "manda", "pide"} : hilo' = [hilo EXCEPT ![t].pc = pc]
          \/ \E r \in {"bien", "mal"} : Responde(t, r)
      BY <1>5 DEF Conectar, Mandar, Recibido, Morir, Pasa, Respuesta
    <3>2. ASSUME NEW pc \in {"muerto", "manda", "pide"}, hilo' = [hilo EXCEPT ![t].pc = pc]
          PROVE  hilo' \in [Hilos -> TipoHilo]
      BY <1>a, <3>2 DEF TipoHilo
    <3>3. ASSUME NEW r \in {"bien", "mal"}, Responde(t, r) PROVE hilo' \in [Hilos -> TipoHilo]
      BY <1>a, <3>3, ZenonT(60) DEF TipoHilo, Responde
    <3> QED
      BY <3>1, <3>2, <3>3
  <2>2. fallos' \in 0 .. MaxFallos
    BY <1>0, <1>5 DEF Conectar, Mandar, Recibido, Morir, Respuesta, TypeOK
  <2> QED
    BY <1>0, <1>5, <2>1, <2>2 DEF Conectar, Mandar, Recibido, nodeDropVars, TypeOK
<1>6. ASSUME NEW t \in Hilos, Avisar(t) PROVE TypeOK'
  <2>1. hilo' \in [Hilos -> TipoHilo]
    BY <1>0, <1>6, ZenonT(60) DEF Avisar, TypeOK, TipoHilo
  <2>2. buzon' \in TipoBuzon
    BY <1>0, <1>6 DEF Avisar, TypeOK, TipoBuzon, Nodos
  <2> QED
    BY <1>0, <1>6, <2>1, <2>2 DEF Avisar, nodeDropVars, TypeOK
<1>7. ASSUME NEW t \in Hilos, Despertar(t) \/ Actualizar(t) \/ Informar(t) \/ TocarLiberada(t)
      PROVE TypeOK'
  <2>1. hilo' \in [Hilos -> TipoHilo]
    <3>1. \/ \E pc \in {"cierra", "muerto", "informa", "fin"} : hilo' = [hilo EXCEPT ![t].pc = pc]
          \/ hilo' = hilo
      BY <1>7 DEF Despertar, Actualizar, Informar, TocarLiberada, Pasa
    <3> QED
      BY <1>a, <3>1 DEF TipoHilo
  <2>2. despierta' \in [Hilos -> Nat] /\ informe' \in [Hilos -> {"no", "bien", "mal"}] /\ sem' \in Nat
    <3>1. CASE Despertar(t)
      BY <1>b, <3>1 DEF Despertar
    <3>2. CASE Informar(t)
      BY <1>a, <1>b, <3>2 DEF Informar, Signal, nodeDropVars, TipoHilo
    <3>3. CASE Actualizar(t) \/ TocarLiberada(t)
      BY <1>b, <3>3 DEF Actualizar, TocarLiberada, nodeDropVars
    <3> QED
      BY <1>7, <3>1, <3>2, <3>3
  <2> QED
    BY <1>0, <1>7, <2>1, <2>2
       DEF Despertar, Actualizar, Informar, TocarLiberada, nodeDropVars, TypeOK
<1>8. CASE Atender
  <2>1. buzon.envia = 0
    BY <1>0, <1>8 DEF Atender, IInv, Ranura, TypeOK, TipoBuzon
  <2>2. buzon' \in TipoBuzon
    <3>1. buzon.recibe - 1 \in Nat /\ buzon.envia + 1 \in 0 .. 1
      BY <1>a, <1>8, <2>1 DEF Atender, TipoBuzon
    <3>2. buzon' = [buzon EXCEPT !.recibe = buzon.recibe - 1, !.envia = buzon.envia + 1]
      BY <1>8 DEF Atender
    <3> QED
      BY <1>a, <3>1, <3>2 DEF TipoBuzon
  <2>3. caida' \in TipoCaida
    BY <1>0, <1>8 DEF Atender, TypeOK, TipoBuzon, TipoCaida
  <2> QED
    BY <1>0, <1>8, <2>2, <2>3 DEF Atender, TypeOK
<1>9. CASE Trabar
  <2>1. DelNodo(caida.dato, buzon.de) \subseteq Hilos /\ activo \subseteq Hilos
    BY <1>0 DEF DelNodo, TypeOK
  <2>2. caida' \in TipoCaida
    <3>1. \/ caida' = [caida EXCEPT !.pc = "recibe"]
          \/ /\ buzon.de \in activo
             /\ caida' = [caida EXCEPT !.pc = "mata", !.emisor = buzon.de,
                                       !.quedan = DelNodo(caida.dato, buzon.de)]
      BY <1>9 DEF Trabar
    <3> QED
      BY <1>a, <2>1, <3>1 DEF TipoCaida
  <2>3. despierta' \in [Hilos -> Nat] /\ mutex' \in {Nadie, "node_drop"}
    BY <1>0, <1>9, <2>1 DEF Trabar, Reanudar, TypeOK
  <2> QED
    BY <1>0, <1>9, <2>2, <2>3 DEF Trabar, TypeOK
<1>10. CASE Recoger
  <2>1. caida.emisor \in Hilos /\ caida.dato \in Hilos
    BY <1>0, <1>10 DEF Recoger, IInv, TypeOK, Notificaciones, Aviso
  <2>2. hilo' \in [Hilos -> TipoHilo]
    BY <1>0, <1>10, <2>1, ZenonT(60) DEF Recoger, Pasa, TypeOK, TipoHilo
  <2>3. caida' \in TipoCaida
    BY <1>0, <1>10 DEF Recoger, TypeOK, TipoCaida
  <2>4. despierta' \in [Hilos -> Nat] /\ mutex' \in {Nadie, "node_drop"} /\ sem' \in Nat
    BY <1>0, <1>10, <2>1 DEF Recoger, Reanudar, TypeOK
  <2> QED
    BY <1>0, <1>10, <2>2, <2>3, <2>4 DEF Recoger, TypeOK
<1>11. ASSUME NEW t \in Hilos, Matar(t) PROVE TypeOK'
  <2>1. hilo' \in [Hilos -> TipoHilo]
    <3>1. PICK s \in BOOLEAN : hilo' = [hilo EXCEPT ![t].senal = s]
      BY <1>11 DEF Matar
    <3> QED
      BY <1>a, <3>1 DEF TipoHilo
  <2>2. caida' \in TipoCaida
    BY <1>0, <1>11 DEF Matar, TypeOK, TipoCaida
  <2> QED
    BY <1>0, <1>11, <2>1, <2>2 DEF Matar, TypeOK
<1>12. CASE UNCHANGED vars
  BY <1>0, <1>12 DEF vars, nodeDropVars, TypeOK
<1> QED
  BY <1>1, <1>2, <1>3, <1>4, <1>5, <1>6, <1>7, <1>8, <1>9, <1>10, <1>11, <1>12
     DEF Next, Principal, Tarea, NodeDrop

-----------------------------------------------------------------------------
LEMMA UnPaquete ==
  ASSUME NEW p \in DOMAIN Paquetes, NEW q \in DOMAIN Paquetes, NEW t, EnPaquete(t, p), EnPaquete(t, q)
  PROVE  p = q
BY MasterAssumption DEF EnPaquete

(* What a step of one thread leaves as it was. *)
LEMMA PasaEs ==
  ASSUME hilo \in [Hilos -> TipoHilo], NEW t \in Hilos, NEW pc, hilo' = [hilo EXCEPT ![t].pc = pc]
  PROVE  /\ hilo'[t].pc = pc /\ hilo'[t].resp = hilo[t].resp /\ hilo'[t].senal = hilo[t].senal
         /\ \A u \in Hilos \ {t} : hilo'[u] = hilo[u]
BY DEF TipoHilo

LEMMA RespondeEs ==
  ASSUME hilo \in [Hilos -> TipoHilo], NEW t \in Hilos, NEW r, Responde(t, r)
  PROVE  /\ hilo'[t].pc = IF r = "mal" /\ ConAviso(t) THEN "avisa" ELSE "cierra"
         /\ hilo'[t].resp = r /\ hilo'[t].senal = hilo[t].senal
         /\ \A u \in Hilos \ {t} : hilo'[u] = hilo[u]
BY DEF Responde, TipoHilo

(* The transformations in progress, and the local reductions node_drop killed. *)
Transformando == EnCurso \cap De("T")
ReducidasMuertas == {t \in De("RL") : hilo[t].pc = "recogido"}

LEMMA SemaforoIgual ==
  ASSUME SemaforoCuadra, TypeOK', sem' = sem,
         \A t \in Hilos : \/ hilo'[t].pc = hilo[t].pc
                         \/ /\ hilo[t].pc \notin {"nada", "fin", "recogido"}
                            /\ hilo'[t].pc \notin {"nada", "fin", "recogido"}
  PROVE  SemaforoCuadra'
<1>1. EnCurso' = EnCurso
  BY DEF EnCurso
<1>2. ReducidasMuertas' = ReducidasMuertas
  BY DEF ReducidasMuertas, De
<1> QED
  BY <1>1, <1>2 DEF SemaforoCuadra, ReducidasMuertas, De

(* A transformation takes a permit when it is created and gives it back    *)
(* when it ends; node_drop gives one back for whatever it collects.        *)
LEMMA SemaforoCambia ==
  ASSUME SemaforoCuadra, TypeOK', NEW t \in Hilos, \A u \in Hilos \ {t} : hilo'[u] = hilo[u],
         \/ /\ hilo[t].pc = "nada" /\ hilo'[t].pc \notin {"nada", "fin", "recogido"}
            /\ sem' = IF ConPermiso(t) THEN sem - 1 ELSE sem
         \/ /\ hilo[t].pc \notin {"nada", "fin", "recogido"} /\ hilo'[t].pc = "fin"
            /\ sem' = IF ConPermiso(t) THEN sem + 1 ELSE sem
         \/ /\ hilo[t].pc \notin {"nada", "fin", "recogido"} /\ hilo'[t].pc = "recogido"
            /\ ConMutex(t) /\ sem' = sem + 1
  PROVE  SemaforoCuadra'
<1>1. /\ IsFiniteSet(Transformando) /\ IsFiniteSet(ReducidasMuertas)
      /\ Cardinality(Transformando) \in Nat /\ Cardinality(ReducidasMuertas) \in Nat
  <2>1. Transformando \subseteq Hilos /\ ReducidasMuertas \subseteq Hilos /\ IsFiniteSet(Hilos)
    BY MasterAssumption DEF Transformando, ReducidasMuertas, EnCurso, De
  <2> QED
    BY <2>1, FS_Subset, FS_CardinalityType
<1>2. /\ sem + Cardinality(Transformando) = Permisos + Cardinality(ReducidasMuertas)
      /\ sem \in Nat /\ Permisos \in Nat
  BY MasterAssumption DEF SemaforoCuadra, TypeOK, Transformando, ReducidasMuertas
<1>3. \A u : u # t => (u \in Transformando' <=> u \in Transformando)
                    /\ (u \in ReducidasMuertas' <=> u \in ReducidasMuertas)
  BY DEF Transformando, ReducidasMuertas, EnCurso, De
<1>4. CASE hilo[t].pc = "nada"
  <2>1. sem' = IF Etapa[t] = "T" THEN sem - 1 ELSE sem
    BY <1>4 DEF ConPermiso
  <2>2. Transformando' = IF Etapa[t] = "T" THEN Transformando \cup {t} ELSE Transformando
    BY <1>3, <1>4 DEF Transformando, EnCurso, De
  <2>3. t \notin Transformando
    BY <1>4 DEF Transformando, EnCurso
  <2>4. ReducidasMuertas' = ReducidasMuertas
    BY <1>3, <1>4 DEF ReducidasMuertas, De
  <2>5. Cardinality(Transformando \cup {t}) = Cardinality(Transformando) + 1
    BY <1>1, <2>3, FS_AddElement
  <2>6. sem' + Cardinality(Transformando') = Permisos + Cardinality(ReducidasMuertas')
    BY <1>1, <1>2, <2>1, <2>2, <2>4, <2>5
  <2> QED
    BY <2>6 DEF SemaforoCuadra, Transformando, ReducidasMuertas, De
<1>5. CASE hilo'[t].pc = "fin"
  <2>1. sem' = IF Etapa[t] = "T" THEN sem + 1 ELSE sem
    BY <1>5 DEF ConPermiso
  <2>2. Transformando' = Transformando \ {t} /\ (t \in Transformando <=> Etapa[t] = "T")
    BY <1>3, <1>5 DEF Transformando, EnCurso, De
  <2>3. ReducidasMuertas' = ReducidasMuertas
    BY <1>3, <1>5 DEF ReducidasMuertas, De
  <2>4. Etapa[t] = "T" => Cardinality(Transformando \ {t}) = Cardinality(Transformando) - 1
    BY <1>1, <2>2, FS_RemoveElement
  <2>5. Etapa[t] # "T" => Transformando \ {t} = Transformando
    BY <2>2
  <2>6. sem' + Cardinality(Transformando') = Permisos + Cardinality(ReducidasMuertas')
    <3>1. CASE Etapa[t] = "T"
      BY <1>1, <1>2, <2>1, <2>2, <2>3, <2>4, <3>1
    <3>2. CASE Etapa[t] # "T"
      BY <1>2, <2>1, <2>2, <2>3, <2>5, <3>2
    <3> QED
      BY <3>1, <3>2
  <2> QED
    BY <2>6 DEF SemaforoCuadra, Transformando, ReducidasMuertas, De
<1>6. CASE hilo'[t].pc = "recogido"
  <2>1. sem' = sem + 1 /\ Etapa[t] \in {"T", "RL"} /\ hilo[t].pc # "recogido"
    BY <1>6 DEF ConMutex
  <2>2. Transformando' = Transformando \ {t} /\ (t \in Transformando <=> Etapa[t] = "T")
    BY <1>3, <1>6 DEF Transformando, EnCurso, De
  <2>3. ReducidasMuertas' = IF Etapa[t] = "T" THEN ReducidasMuertas ELSE ReducidasMuertas \cup {t}
    BY <1>3, <1>6, <2>1 DEF ReducidasMuertas, De
  <2>4. t \notin ReducidasMuertas
    BY <2>1 DEF ReducidasMuertas
  <2>5. Etapa[t] = "T" => Cardinality(Transformando \ {t}) = Cardinality(Transformando) - 1
    BY <1>1, <2>2, FS_RemoveElement
  <2>6. Etapa[t] # "T" => Transformando \ {t} = Transformando
    BY <2>2
  <2>7. Cardinality(ReducidasMuertas \cup {t}) = Cardinality(ReducidasMuertas) + 1
    BY <1>1, <2>4, FS_AddElement
  <2>8. sem' + Cardinality(Transformando') = Permisos + Cardinality(ReducidasMuertas')
    <3>1. CASE Etapa[t] = "T"
      BY <1>1, <1>2, <2>1, <2>2, <2>3, <2>5, <3>1
    <3>2. CASE Etapa[t] # "T"
      <4>1. Cardinality(Transformando') = Cardinality(Transformando)
        BY <2>2, <2>6, <3>2
      <4>2. Cardinality(ReducidasMuertas') = Cardinality(ReducidasMuertas) + 1
        BY <2>3, <2>7, <3>2
      <4> QED
        BY <1>1, <1>2, <2>1, <4>1, <4>2
    <3> QED
      BY <3>1, <3>2
  <2> QED
    BY <2>8 DEF SemaforoCuadra, Transformando, ReducidasMuertas, De
<1> QED
  BY <1>4, <1>5, <1>6

-----------------------------------------------------------------------------
(* A packet arrives: its threads are new, and of the last two stages only *)
(* when the first two are over on their node.                             *)
LEMMA InvRecibir ==
  ASSUME IInv, TypeOK', NEW p \in DOMAIN Paquetes, Recibir(p)
  PROVE  IInv'
<1>1. TypeOK /\ p \notin enviados /\ enviados' = enviados \cup {p}
      /\ principal' = [pc |-> "crea", cola |-> Paquetes[p].hilos]
  BY DEF Recibir, Ordenable, IInv
<1>2. /\ Paquetes[p].hilos \in Seq(Hilos) \ {<<>>}
      /\ \A i \in DOMAIN Paquetes[p].hilos : EnPaquete(Paquetes[p].hilos[i], p)
      /\ \A i, j \in DOMAIN Paquetes[p].hilos : Paquetes[p].hilos[i] = Paquetes[p].hilos[j] => i = j
  BY MasterAssumption DEF EnPaquete
<1>3. ASSUME NEW t \in Hilos, EnPaquete(t, p)
      PROVE  hilo[t].pc = "nada" /\ t \notin enLista \cup vivo
  <2>1. \A q \in enviados : ~ EnPaquete(t, q)
    <3>1. enviados \subseteq DOMAIN Paquetes
      BY <1>1 DEF TypeOK
    <3> QED
      BY <1>1, <1>3, <3>1, UnPaquete
  <2>2. hilo[t].pc # "nada" \/ t \in enLista \cup vivo => \E q \in enviados : EnPaquete(t, q)
    BY DEF IInv, Creacion
  <2> QED
    BY <2>1, <2>2
<1>4. UNCHANGED <<proceso, hilo, enLista, activo, vivo, informe, sem, buzon, mutex, caida,
                  despierta, memoria, fallos, causas>>
  BY DEF Recibir, nodeDropVars
<1>5. Creacion'
  <2>1. \A i \in DOMAIN Paquetes[p].hilos : Paquetes[p].hilos[i] \in Hilos
    BY <1>2
  <2> QED
    BY <1>1, <1>2, <1>3, <1>4, <2>1 DEF IInv, Creacion
<1>6. Vida' /\ Notificaciones' /\ Senales' /\ Ranura' /\ AbandonoExplicado'
  BY <1>4 DEF IInv, Vida, Notificaciones, Aviso, Senales, Ranura, AbandonoExplicado, Abandonado,
              EnNodeDrop, Causa
<1>7. EtapasCerradas'
  <2>1. PICK hechas \in Paquetes[p].tras : hechas \subseteq Informados("bien")
    BY DEF Recibir, Ordenable
  <2>2. Paquetes[p].caidos # {} => \E v \in Hilos : informe[v] = "mal" /\ Nodo[v] \in Paquetes[p].caidos
    BY DEF Recibir, Ordenable, Informados
  <2>3. ASSUME NEW t \in Hilos, NEW u \in Hilos,
               EnPaquete(t, p), ~ConMutex(t), ConMutex(u), Nodo[u] = Nodo[t]
        PROVE  \/ informe[u] = "bien"
               \/ \A q \in DOMAIN Paquetes : EnPaquete(u, q) =>
                    /\ Paquetes[q].caidos # {}
                    /\ \A v \in Hilos : Nodo[v] \in Paquetes[q].caidos => informe[v] = "bien"
    <3>1. \A v \in hechas : v \in Hilos => informe[v] = "bien"
      BY <2>1 DEF Informados
    <3> QED
      BY <2>3, <3>1, EtapasEnOrden
  <2> QED
    BY <1>1, <1>4, <2>2, <2>3 DEF IInv, EtapasCerradas, EnPaquete
<1>8. SemaforoCuadra'
  BY <1>4, SemaforoIgual DEF IInv
<1> QED
  BY <1>5, <1>6, <1>7, <1>8 DEF IInv

(* The ends of the main thread: only the process can change. *)
LEMMA InvFinales ==
  ASSUME IInv, TypeOK', RecibirError \/ RecibirCorte \/ Mirar \/ Unir \/ Terminar \/ Salir
  PROVE  IInv'
<1>1. /\ UNCHANGED <<enviados, hilo, enLista, activo, vivo, informe, sem, buzon, mutex, caida, despierta>>
      /\ causas \subseteq causas'
  BY DEF RecibirError, RecibirCorte, Mirar, Unir, Terminar, Salir, nodeDropVars
<1>2. /\ principal'.cola = principal.cola
      /\ principal'.pc \notin {"crea", "anota", "mira"} \/ principal'.pc = principal.pc
  BY DEF RecibirError, RecibirCorte, Mirar, Unir, Terminar, Salir, IInv, TypeOK, TipoPrincipal
<1>3. proceso' = "caido" => \E t \in Hilos : <<"unido tarde", t>> \in causas'
  <2>1. SUFFICES ASSUME proceso' = "caido" PROVE \E t \in Hilos : <<"unido tarde", t>> \in causas'
    OBVIOUS
  <2>2. Mirar /\ causas' = causas \cup {<<"unido tarde", Almacenador>>}
    BY <2>1 DEF RecibirError, RecibirCorte, Mirar, Unir, Terminar, Salir
  <2>3. \E t \in enLista : Etapa[t] = "AF"
    BY <2>2 DEF Mirar, IInv, Creacion
  <2>4. Almacenador \in Hilos
    BY <2>3 DEF Almacenador, IInv, TypeOK
  <2> QED
    BY <2>2, <2>4
<1>4. Creacion'
  BY <1>1, <1>2 DEF IInv, Creacion
<1>5. Vida' /\ Notificaciones' /\ Senales' /\ Ranura' /\ EtapasCerradas'
  BY <1>1 DEF IInv, Vida, Notificaciones, Aviso, Senales, Ranura, EtapasCerradas
<1>6. AbandonoExplicado'
  BY <1>1, <1>3 DEF IInv, AbandonoExplicado, Abandonado, EnNodeDrop, Causa
<1>7. SemaforoCuadra'
  BY <1>1, SemaforoIgual DEF IInv
<1> QED
  BY <1>4, <1>5, <1>6, <1>7 DEF IInv

(* A thread is created before it is in the list. *)
LEMMA InvCrear ==
  ASSUME IInv, TypeOK', Crear
  PROVE  IInv'
<1> DEFINE t == Head(principal.cola)
<1>1. /\ principal.pc = "crea" /\ principal' = [principal EXCEPT !.pc = "anota"]
      /\ hilo' = [hilo EXCEPT ![t].pc = "conecta"] /\ vivo' = vivo \cup {t}
      /\ sem' = IF ConPermiso(t) THEN sem - 1 ELSE sem
      /\ UNCHANGED <<proceso, enviados, enLista, activo, informe, buzon, mutex, caida, despierta, causas>>
  BY DEF Crear, Pasa, nodeDropVars
<1>2. principal.cola \in Seq(Hilos) /\ principal.cola # <<>> /\ hilo \in [Hilos -> TipoHilo]
      /\ principal'.cola = principal.cola /\ principal'.pc = "anota"
  BY <1>1 DEF IInv, TypeOK, TipoPrincipal
<1>3. t \in Hilos /\ t = principal.cola[1] /\ 1 \in DOMAIN principal.cola
  BY <1>2, RestoDeCola
<1>4. hilo[t].pc = "nada" /\ t \notin vivo \cup enLista
  BY <1>1, <1>3 DEF IInv, Creacion
<1>5. /\ hilo'[t].pc = "conecta" /\ hilo'[t].resp = hilo[t].resp /\ hilo'[t].senal = hilo[t].senal
      /\ \A u \in Hilos \ {t} : hilo'[u] = hilo[u]
  BY <1>1, <1>2, <1>3, PasaEs
<1> HIDE DEF t
<1>6. Creacion'
  <2>1. \A u \in Hilos : hilo'[u].pc # "nada" \/ u \in enLista' \cup vivo' =>
          \E p \in enviados' : EnPaquete(u, p)
    BY <1>1, <1>3, <1>5 DEF IInv, Creacion
  <2>2. \A i \in DOMAIN principal.cola :
          IF i = 1 THEN hilo'[principal.cola[i]].pc # "nada" /\ principal.cola[i] \in vivo' \ enLista
          ELSE hilo'[principal.cola[i]].pc = "nada" /\ principal.cola[i] \notin vivo' \cup enLista
    <3> SUFFICES ASSUME NEW i \in DOMAIN principal.cola, i # 1
                 PROVE  hilo'[principal.cola[i]].pc = "nada" /\ principal.cola[i] \notin vivo' \cup enLista
      BY <1>1, <1>3, <1>4, <1>5
    <3>1. principal.cola[i] # t /\ principal.cola[i] \in Hilos
      BY <1>2, <1>3 DEF IInv, Creacion
    <3>2. hilo[principal.cola[i]].pc = "nada" /\ principal.cola[i] \notin vivo \cup enLista
      BY <1>1 DEF IInv, Creacion
    <3> QED
      BY <1>1, <1>5, <3>1, <3>2
  <2> QED
    BY <1>1, <1>2, <2>1, <2>2 DEF IInv, Creacion
<1>7. Vida'
  BY <1>1, <1>3, <1>4, <1>5 DEF IInv, Vida, Antes
<1>8. Notificaciones'
  <2>1. \A w, n : Aviso(w, n) => Aviso(w, n)'
    BY <1>4, <1>5 DEF Aviso, Antes
  <2>2. caida.dato \in Hilos /\ hilo[caida.dato].pc = "recogido" => hilo'[caida.dato].pc = "recogido"
    BY <1>4, <1>5
  <2>3. caida.pc = "une" => caida.dato # t
    BY <1>4 DEF IInv, Notificaciones
  <2>4. caida.pc = "une" => caida.dato \notin vivo'
    BY <1>1, <2>3 DEF IInv, Notificaciones
  <2> QED
    BY <1>1, <2>1, <2>2, <2>4 DEF IInv, Notificaciones
<1>9. Senales' /\ Ranura'
  <2>1. caida.pc = "une" => caida.dato # t
    BY <1>4 DEF IInv, Notificaciones
  <2> QED
    BY <1>1, <1>4, <1>5, <2>1 DEF IInv, Senales, Ranura, Antes, Terminados
<1>10. EtapasCerradas'
  BY <1>1 DEF IInv, EtapasCerradas
<1>11. AbandonoExplicado'
  BY <1>1, <1>5 DEF IInv, AbandonoExplicado, Abandonado, EnNodeDrop, Causa
<1>12. SemaforoCuadra'
  BY <1>1, <1>3, <1>4, <1>5, SemaforoCambia DEF IInv
<1> QED
  BY <1>6, <1>7, <1>8, <1>9, <1>10, <1>11, <1>12 DEF IInv

(* On a node whose failure was noticed there are only transformations and *)
(* local reductions: YAMA would not have ordered the last stages there.   *)
LEMMA SoloPrimerasEtapas ==
  ASSUME IInv, NEW w \in Hilos, Aviso(w, Nodo[w]),
         NEW t \in Hilos, hilo[t].pc # "nada" \/ t \in enLista, Nodo[t] = Nodo[w]
  PROVE  ConMutex(t)
<1> SUFFICES ASSUME ~ConMutex(t) PROVE FALSE
  OBVIOUS
<1>1. PICK p \in enviados : EnPaquete(t, p)
  BY DEF IInv, Creacion
<1>2. PICK q \in enviados : EnPaquete(w, q)
  BY DEF IInv, Creacion, Aviso, Antes
<1>3. ConMutex(w) /\ informe[w] # "bien"
  BY DEF Aviso, ConAviso, ConMutex, IInv, Vida
<1>4. q \in DOMAIN Paquetes
  BY <1>2 DEF IInv, TypeOK
<1>5. /\ Paquetes[q].caidos # {}
      /\ \A v \in Hilos : Nodo[v] \in Paquetes[q].caidos => informe[v] = "bien"
  BY <1>1, <1>2, <1>3, <1>4 DEF IInv, EtapasCerradas
<1> QED
  BY <1>2, <1>5 DEF IInv, EtapasCerradas

(* The thread just created is noted; while node_drop has the mutex it is  *)
(* one of the last stages, on another node.                               *)
LEMMA InvAnotar ==
  ASSUME IInv, TypeOK', Anotar
  PROVE  IInv'
<1> DEFINE t == Head(principal.cola)
<1>1. /\ principal.pc = "anota" /\ principal'.pc = Sigue /\ principal'.cola = Tail(principal.cola)
      /\ ConMutex(t) => mutex = Nadie
      /\ enLista' = enLista \cup {t} /\ activo' = activo \cup {t}
      /\ UNCHANGED <<proceso, enviados, hilo, vivo, informe, sem, buzon, mutex, caida, despierta, causas>>
  BY DEF Anotar, nodeDropVars
<1>2. principal.cola \in Seq(Hilos) /\ principal.cola # <<>>
  BY <1>1 DEF IInv, TypeOK, TipoPrincipal
<1>3. /\ t \in Hilos /\ t = principal.cola[1] /\ 1 \in DOMAIN principal.cola
      /\ \A i \in DOMAIN Tail(principal.cola) :
           /\ i + 1 \in DOMAIN principal.cola /\ i + 1 # 1
           /\ Tail(principal.cola)[i] = principal.cola[i + 1]
  BY <1>2, RestoDeCola
<1>4. hilo[t].pc # "nada" /\ t \in vivo \ enLista
  BY <1>1, <1>3 DEF IInv, Creacion
<1>5. Sigue = "mira" => Etapa[t] = "AF"
  BY DEF Sigue
<1> HIDE DEF t
<1>6. Creacion'
  <2>1. \A u \in Hilos : hilo[u].pc # "nada" \/ u \in enLista' \cup vivo =>
          \E p \in enviados : EnPaquete(u, p)
    BY <1>1, <1>4 DEF IInv, Creacion
  <2>2. ASSUME NEW i \in DOMAIN Tail(principal.cola)
        PROVE  LET u == Tail(principal.cola)[i]
               IN  /\ hilo[u].pc = "nada" /\ u \notin vivo \cup enLista'
                   /\ \E p \in enviados : EnPaquete(u, p)
    <3> DEFINE j == i + 1
    <3>1. j \in DOMAIN principal.cola /\ j # 1 /\ Tail(principal.cola)[i] = principal.cola[j]
      BY <1>3
    <3> HIDE DEF j
    <3>2. hilo[principal.cola[j]].pc = "nada" /\ principal.cola[j] \notin vivo \cup enLista
          /\ \E p \in enviados : EnPaquete(principal.cola[j], p)
      BY <1>1, <3>1 DEF IInv, Creacion
    <3> QED
      BY <1>1, <1>4, <3>1, <3>2
  <2>3. ASSUME NEW i \in DOMAIN Tail(principal.cola), NEW j \in DOMAIN Tail(principal.cola),
               Tail(principal.cola)[i] = Tail(principal.cola)[j]
        PROVE  i = j
    <3>1. i + 1 = j + 1
      BY <1>3, <2>3 DEF IInv, Creacion
    <3>2. i \in Int /\ j \in Int
      BY <1>2, Tail(principal.cola) \in Seq(Hilos)
    <3> QED
      BY <3>1, <3>2
  <2>4. principal'.pc # "anota"
    BY <1>1 DEF Sigue
  <2>5. principal'.pc = "mira" => \E u \in enLista' : Etapa[u] = "AF"
    BY <1>1, <1>5
  <2> QED
    BY <1>1, <2>1, <2>2, <2>3, <2>4, <2>5 DEF Creacion
<1>7. Vida'
  BY <1>1, <1>4 DEF IInv, Vida
<1>8. Notificaciones'
  <2>1. \A w, n : Aviso(w, n)' <=> Aviso(w, n)
    BY <1>1 DEF Aviso
  <2>2. caida.pc = "une" => caida.dato # t
    BY <1>4 DEF IInv, Notificaciones
  <2>3. caida.pc \in {"mata", "une"} => Nodo[t] # Nodo[caida.emisor]
    <3> SUFFICES ASSUME caida.pc \in {"mata", "une"}, Nodo[t] = Nodo[caida.emisor] PROVE FALSE
      OBVIOUS
    <3>1. Aviso(caida.emisor, Nodo[caida.emisor]) /\ caida.emisor \in Hilos /\ mutex = "node_drop"
      BY DEF IInv, Notificaciones, Aviso
    <3>2. ConMutex(t)
      BY <1>3, <1>4, <3>1, SoloPrimerasEtapas
    <3> QED
      BY <1>1, <3>1, <3>2, MasterAssumption
  <2> QED
    BY <1>1, <2>1, <2>2, <2>3 DEF IInv, Notificaciones
<1>9. Senales' /\ Ranura' /\ EtapasCerradas'
  BY <1>1 DEF IInv, Senales, Ranura, EtapasCerradas
<1>10. AbandonoExplicado'
  <2>1. \A u \in Hilos : Abandonado(u)' <=> Abandonado(u)
    BY <1>1 DEF Abandonado, EnNodeDrop
  <2> QED
    BY <1>1, <2>1 DEF IInv, AbandonoExplicado, Causa
<1>11. SemaforoCuadra'
  BY <1>1, SemaforoIgual DEF IInv
<1> QED
  BY <1>6, <1>7, <1>8, <1>9, <1>10, <1>11 DEF IInv

(* The talk with the worker, up to the answer. *)
LEMMA InvTrabajar ==
  ASSUME IInv, TypeOK', NEW t \in Hilos, Conectar(t) \/ Mandar(t) \/ Recibido(t)
  PROVE  IInv'
<1>1. /\ hilo[t].pc \in {"conecta", "manda", "pide"} /\ hilo \in [Hilos -> TipoHilo]
      /\ UNCHANGED <<proceso, principal, enviados, enLista, activo, vivo, informe, sem, buzon,
                     mutex, caida, despierta, causas>>
  BY DEF Conectar, Mandar, Recibido, Corre, nodeDropVars, IInv, TypeOK
<1>2. \/ \E pc \in {"muerto", "manda", "pide"} :
           hilo' = [hilo EXCEPT ![t].pc = pc]
      \/ \E r \in {"bien", "mal"} : Responde(t, r)
  BY DEF Conectar, Mandar, Recibido, Morir, Pasa, Respuesta
<1>3. /\ \A u \in Hilos \ {t} : hilo'[u] = hilo[u]
      /\ hilo'[t].senal = hilo[t].senal
      /\ \/ hilo'[t].pc \in {"muerto", "manda", "pide"} /\ hilo'[t].resp = hilo[t].resp
         \/ hilo'[t].pc = "avisa" /\ hilo'[t].resp = "mal" /\ ConAviso(t)
         \/ hilo'[t].pc = "cierra"
  <2>1. ASSUME NEW pc \in {"muerto", "manda", "pide"}, hilo' = [hilo EXCEPT ![t].pc = pc]
        PROVE  <1>3!:
    BY <1>1, <2>1, PasaEs
  <2>2. ASSUME NEW r \in {"bien", "mal"}, Responde(t, r)
        PROVE  <1>3!:
    BY <1>1, <2>2, RespondeEs
  <2> QED
    BY <1>2, <2>1, <2>2
<1>4. Creacion'
  <2>1. \A u \in Hilos : hilo'[u].pc = "nada" <=> hilo[u].pc = "nada"
    BY <1>1, <1>3
  <2>2. \A i \in DOMAIN principal.cola : principal.cola[i] \in Hilos
    BY DEF IInv, TypeOK, TipoPrincipal
  <2> QED
    BY <1>1, <2>1, <2>2 DEF IInv, Creacion
<1>5. Vida'
  BY <1>1, <1>3 DEF IInv, Vida, Antes
<1>6. Notificaciones'
  <2>1. \A w, n : Aviso(w, n) => Aviso(w, n)'
    BY <1>1, <1>3 DEF Aviso, Antes
  <2>2. caida.dato \in Hilos /\ hilo[caida.dato].pc = "recogido" => hilo'[caida.dato].pc = "recogido"
    BY <1>1, <1>3
  <2> QED
    BY <1>1, <2>1, <2>2 DEF IInv, Notificaciones
<1>7. Senales'
  BY <1>1, <1>3 DEF IInv, Senales, Antes, Terminados
<1>8. Ranura'
  <2>1. caida.pc = "une" /\ hilo[caida.dato].pc = "duerme" => hilo'[caida.dato] = hilo[caida.dato]
    BY <1>1, <1>3 DEF IInv, Notificaciones, TypeOK
  <2> QED
    BY <1>1, <2>1 DEF IInv, Ranura
<1>9. EtapasCerradas'
  BY <1>1 DEF IInv, EtapasCerradas
<1>10. AbandonoExplicado'
  BY <1>1, <1>3 DEF IInv, AbandonoExplicado, Abandonado, EnNodeDrop, Causa
<1>11. SemaforoCuadra'
  BY <1>1, <1>3, SemaforoIgual DEF IInv
<1> QED
  BY <1>4, <1>5, <1>6, <1>7, <1>8, <1>9, <1>10, <1>11 DEF IInv

(* The notice; what it overwrites is the notice of another thread. *)
LEMMA InvAvisar ==
  ASSUME IInv, TypeOK', NEW t \in Hilos, Avisar(t)
  PROVE  IInv'
<1>1. /\ hilo[t].pc = "avisa" /\ hilo \in [Hilos -> TipoHilo]
      /\ buzon.envia > 0 \/ hilo[t].senal
      /\ buzon' = [envia |-> IF buzon.envia > 0 THEN buzon.envia - 1 ELSE 0,
                   recibe |-> buzon.recibe + 1, de |-> t, dato |-> Nodo[t]]
      /\ causas' = IF buzon.recibe > 0 THEN causas \cup {<<"pisado", buzon.de>>} ELSE causas
      /\ UNCHANGED <<proceso, principal, enviados, enLista, activo, vivo, informe, sem,
                     mutex, caida, despierta>>
  BY DEF Avisar, Corre, nodeDropVars, IInv, TypeOK
<1>2. /\ hilo'[t].pc = "duerme" /\ hilo'[t].resp = hilo[t].resp /\ hilo'[t].senal = FALSE
      /\ \A u \in Hilos \ {t} : hilo'[u] = hilo[u]
  <2>1. hilo' = [hilo EXCEPT ![t].pc = "duerme", ![t].senal = FALSE]
    BY DEF Avisar
  <2> QED
    BY <1>1, <2>1 DEF TipoHilo
<1>3. ConAviso(t) /\ hilo[t].resp = "mal" /\ despierta[t] = 0
  BY <1>1 DEF IInv, Vida, Senales, Antes, TypeOK
<1>4. /\ buzon'.de = t /\ buzon'.dato = Nodo[t] /\ buzon'.recibe = buzon.recibe + 1
      /\ buzon'.envia = IF buzon.envia > 0 THEN buzon.envia - 1 ELSE 0
      /\ buzon.recibe \in Nat /\ buzon.envia \in 0 .. 1
  BY <1>1 DEF IInv, TypeOK, TipoBuzon
<1>5. Creacion'
  <2>1. \A u \in Hilos : hilo'[u].pc = "nada" <=> hilo[u].pc = "nada"
    BY <1>1, <1>2
  <2>2. \A i \in DOMAIN principal.cola : principal.cola[i] \in Hilos
    BY DEF IInv, TypeOK, TipoPrincipal
  <2> QED
    BY <1>1, <2>1, <2>2 DEF IInv, Creacion
<1>6. Vida'
  BY <1>1, <1>2, <1>3 DEF IInv, Vida, Antes
<1>7. Notificaciones'
  <2>1. \A w, n : Aviso(w, n) => Aviso(w, n)'
    BY <1>1, <1>2 DEF Aviso, Antes
  <2>2. Aviso(t, Nodo[t])'
    BY <1>2, <1>3 DEF Aviso, Antes, ConAviso
  <2>3. caida.dato \in Hilos /\ hilo[caida.dato].pc = "recogido" => hilo'[caida.dato].pc = "recogido"
    BY <1>1, <1>2
  <2>4. buzon'.de # Nadie /\ causas \subseteq causas'
    BY <1>1, <1>4, MasterAssumption
  <2> QED
    BY <1>1, <1>4, <2>1, <2>2, <2>3, <2>4 DEF IInv, Notificaciones
<1>8. Senales'
  BY <1>1, <1>2, <1>3 DEF IInv, Senales, Antes, Terminados
<1>9. Ranura'
  <2>1. CASE buzon.envia > 0
    <3>1. buzon.envia + buzon.recibe = 1
      BY <1>4, <2>1 DEF IInv, Ranura
    <3> QED
      BY <1>4, <2>1, <3>1 DEF Ranura
  <2>2. CASE buzon.envia = 0
    <3>1. hilo[t].senal
      BY <1>1, <1>4, <2>2
    <3>2. caida.pc = "une" /\ caida.dato = t
      BY <1>1, <3>1 DEF IInv, Senales, Terminados
    <3>3. hilo[caida.dato].pc # "duerme"
      BY <1>1, <3>2
    <3>4. buzon.recibe = 1
      BY <1>4, <2>2, <3>3 DEF IInv, Ranura
    <3> QED
      BY <1>1, <1>2, <1>3, <1>4, <2>2, <3>2, <3>4 DEF Ranura
  <2> QED
    BY <1>4, <2>1, <2>2
<1>10. EtapasCerradas'
  BY <1>1 DEF IInv, EtapasCerradas
<1>11. AbandonoExplicado'
  <2>1. ASSUME NEW u \in Hilos, Abandonado(u)' PROVE Causa(u, {"sin anotar", "cruce", "pisado"})'
    <3>1. u # t
      BY <1>1, <1>4, <2>1 DEF Abandonado, EnNodeDrop
    <3>2. CASE buzon.recibe > 0 /\ buzon.de = u
      BY <1>1, <3>2 DEF Causa
    <3>3. CASE ~(buzon.recibe > 0 /\ buzon.de = u)
      <4>1. Abandonado(u)
        BY <1>1, <1>2, <2>1, <3>1, <3>3 DEF Abandonado, EnNodeDrop
      <4> QED
        BY <1>1, <4>1 DEF IInv, AbandonoExplicado, Causa
    <3> QED
      BY <3>2, <3>3
  <2>2. proceso' = "caido" => \E u \in Hilos : Causa(u, {"sin anotar", "unido tarde", "liberada"})'
    BY <1>1 DEF IInv, AbandonoExplicado, Causa
  <2> QED
    BY <2>1, <2>2 DEF AbandonoExplicado
<1>12. SemaforoCuadra'
  BY <1>1, <1>2, SemaforoIgual DEF IInv
<1> QED
  BY <1>5, <1>6, <1>7, <1>8, <1>9, <1>10, <1>11, <1>12 DEF IInv

(* A thread is resumed or interrupted. *)
LEMMA InvDespertar ==
  ASSUME IInv, TypeOK', NEW t \in Hilos, Despertar(t)
  PROVE  IInv'
<1>1. /\ hilo[t].pc = "duerme" /\ hilo \in [Hilos -> TipoHilo] /\ despierta \in [Hilos -> Nat]
      /\ despierta[t] > 0 \/ hilo[t].senal
      /\ hilo' = [hilo EXCEPT ![t].pc = IF t \in vivo THEN "cierra" ELSE "muerto"]
      /\ UNCHANGED <<proceso, principal, enviados, enLista, activo, vivo, informe, sem, buzon,
                     mutex, caida, causas>>
  BY DEF Despertar, Corre, Pasa, nodeDropVars, IInv, TypeOK
<1>2. /\ hilo'[t].pc = IF t \in vivo THEN "cierra" ELSE "muerto"
      /\ hilo'[t].resp = hilo[t].resp /\ hilo'[t].senal = hilo[t].senal
      /\ \A u \in Hilos \ {t} : hilo'[u] = hilo[u]
  BY <1>1, PasaEs
<1>3. \A u \in Hilos \ {t} : despierta'[u] = despierta[u]
  BY <1>1 DEF Despertar
<1>4. Creacion'
  <2>1. \A u \in Hilos : hilo'[u].pc = "nada" <=> hilo[u].pc = "nada"
    BY <1>1, <1>2
  <2>2. \A i \in DOMAIN principal.cola : principal.cola[i] \in Hilos
    BY DEF IInv, TypeOK, TipoPrincipal
  <2> QED
    BY <1>1, <2>1, <2>2 DEF IInv, Creacion
<1>5. Vida'
  BY <1>1, <1>2 DEF IInv, Vida, Antes
<1>6. Notificaciones'
  <2>1. \A w, n : Aviso(w, n) => Aviso(w, n)'
    BY <1>1, <1>2 DEF Aviso, Antes
  <2>2. caida.dato \in Hilos /\ hilo[caida.dato].pc = "recogido" => hilo'[caida.dato].pc = "recogido"
    BY <1>1, <1>2
  <2> QED
    BY <1>1, <2>1, <2>2 DEF IInv, Notificaciones
<1>7. Senales'
  BY <1>1, <1>2, <1>3 DEF IInv, Senales, Antes, Terminados
<1>8. Ranura'
  <2>1. ASSUME caida.pc = "une", hilo[caida.dato].pc = "duerme", despierta[caida.dato] = 0,
               ~hilo[caida.dato].senal
        PROVE  hilo'[caida.dato] = hilo[caida.dato] /\ despierta'[caida.dato] = 0
    BY <1>1, <1>2, <1>3, <2>1 DEF IInv, Notificaciones, TypeOK
  <2> QED
    BY <1>1, <2>1 DEF IInv, Ranura
<1>9. EtapasCerradas'
  BY <1>1 DEF IInv, EtapasCerradas
<1>10. AbandonoExplicado'
  <2>1. \A u \in Hilos : Abandonado(u)' => Abandonado(u)
    BY <1>1, <1>2, <1>3 DEF Abandonado, EnNodeDrop
  <2> QED
    BY <1>1, <2>1 DEF IInv, AbandonoExplicado, Causa
<1>11. SemaforoCuadra'
  BY <1>1, <1>2, SemaforoIgual DEF IInv
<1> QED
  BY <1>4, <1>5, <1>6, <1>7, <1>8, <1>9, <1>10, <1>11 DEF IInv

(* A thread leaves the list: of the first two stages, only while node_drop *)
(* does not hold the mutex, so that it is not one of those to be killed.   *)
LEMMA InvActualizar ==
  ASSUME IInv, TypeOK', NEW t \in Hilos, Actualizar(t), t \in activo
  PROVE  IInv'
<1>1. /\ hilo[t].pc = "cierra" /\ hilo \in [Hilos -> TipoHilo] /\ activo \subseteq enLista
      /\ hilo' = [hilo EXCEPT ![t].pc = "informa"]
      /\ activo' = activo \ {t} /\ (ConMutex(t) => mutex = Nadie)
      /\ UNCHANGED <<proceso, principal, enviados, enLista, vivo, informe, sem, buzon,
                     mutex, caida, despierta, causas>>
  BY DEF Actualizar, Corre, Pasa, nodeDropVars, IInv, TypeOK
<1>2. /\ hilo'[t].pc = "informa"
      /\ hilo'[t].resp = hilo[t].resp /\ hilo'[t].senal = hilo[t].senal
      /\ \A u \in Hilos \ {t} : hilo'[u] = hilo[u]
  BY <1>1, PasaEs
<1>3. Creacion'
  <2>1. \A u \in Hilos : hilo'[u].pc = "nada" <=> hilo[u].pc = "nada"
    BY <1>1, <1>2
  <2>2. \A i \in DOMAIN principal.cola : principal.cola[i] \in Hilos
    BY DEF IInv, TypeOK, TipoPrincipal
  <2> QED
    BY <1>1, <2>1, <2>2 DEF IInv, Creacion
<1>4. Vida'
  BY <1>1, <1>2 DEF IInv, Vida, Antes
<1>5. Notificaciones'
  <2>1. \A w, n : Aviso(w, n) => Aviso(w, n)'
    BY <1>1, <1>2 DEF Aviso, Antes
  <2>2. caida.dato \in Hilos /\ hilo[caida.dato].pc = "recogido" => hilo'[caida.dato].pc = "recogido"
    BY <1>1, <1>2
  <2>3. caida.pc \in {"mata", "une"} => t \notin caida.quedan
    BY <1>1, MasterAssumption DEF IInv, Notificaciones
  <2> QED
    BY <1>1, <2>1, <2>2, <2>3 DEF IInv, Notificaciones
<1>6. Senales'
  BY <1>1, <1>2 DEF IInv, Senales, Vida, Antes, Terminados
<1>7. Ranura'
  <2>1. caida.pc = "une" /\ hilo[caida.dato].pc = "duerme" => hilo'[caida.dato] = hilo[caida.dato]
    BY <1>1, <1>2 DEF IInv, Notificaciones, TypeOK
  <2> QED
    BY <1>1, <2>1 DEF IInv, Ranura
<1>8. EtapasCerradas'
  BY <1>1 DEF IInv, EtapasCerradas
<1>9. AbandonoExplicado'
  <2>1. \A u \in Hilos : Abandonado(u)' => Abandonado(u)
    BY <1>1, <1>2 DEF Abandonado, EnNodeDrop
  <2> QED
    BY <1>1, <2>1 DEF IInv, AbandonoExplicado, Causa
<1>10. SemaforoCuadra'
  BY <1>1, <1>2, SemaforoIgual DEF IInv
<1> QED
  BY <1>3, <1>4, <1>5, <1>6, <1>7, <1>8, <1>9, <1>10 DEF IInv

(* The process ends badly for the thread t, which is in causas. *)
LEMMA InvCaer ==
  ASSUME IInv, TypeOK', NEW t \in Hilos,
         TocarLiberada(t) \/ (Actualizar(t) /\ t \notin activo)
  PROVE  IInv'
<1>1. /\ UNCHANGED <<principal, enviados, hilo, enLista, activo, vivo, informe, sem, buzon,
                     mutex, caida, despierta>>
      /\ causas \subseteq causas' /\ Causa(t, {"sin anotar", "liberada"})'
  BY DEF TocarLiberada, Actualizar, nodeDropVars, Causa
<1>2. Creacion' /\ Vida' /\ Senales' /\ Ranura' /\ EtapasCerradas'
  <2>1. Creacion' /\ Vida' /\ Senales'
    BY <1>1 DEF IInv, Creacion, Vida, Senales
  <2>2. Ranura'
    BY <1>1 DEF IInv, Ranura
  <2>3. EtapasCerradas'
    <3>1. UNCHANGED <<enviados, informe>>
      BY <1>1
    <3> QED
      BY <3>1 DEF IInv, EtapasCerradas
  <2> QED
    BY <2>1, <2>2, <2>3
<1>5. Notificaciones'
  <2>1. \A w, n : Aviso(w, n)' <=> Aviso(w, n)
    BY <1>1 DEF Aviso
  <2> QED
    BY <1>1, <2>1 DEF IInv, Notificaciones
<1>3. AbandonoExplicado'
  <2>1. \A u \in Hilos : Abandonado(u)' => Abandonado(u)
    BY <1>1 DEF Abandonado, EnNodeDrop
  <2> QED
    BY <1>1, <2>1 DEF IInv, AbandonoExplicado, Causa
<1>4. SemaforoCuadra'
  BY <1>1, SemaforoIgual DEF IInv
<1> QED
  BY <1>2, <1>3, <1>4, <1>5 DEF IInv

(* The report to YAMA is the last thing a thread does. *)
LEMMA InvInformar ==
  ASSUME IInv, TypeOK', NEW t \in Hilos, Informar(t)
  PROVE  IInv'
<1>1. /\ hilo[t].pc = "informa" /\ hilo \in [Hilos -> TipoHilo]
      /\ informe \in [Hilos -> {"no", "bien", "mal"}]
      /\ hilo' = [hilo EXCEPT ![t].pc = "fin"] /\ informe' = [informe EXCEPT ![t] = hilo[t].resp]
      /\ sem' = IF ConPermiso(t) THEN sem + 1 ELSE sem
      /\ UNCHANGED <<proceso, principal, enviados, enLista, activo, vivo, buzon,
                     mutex, caida, despierta, causas>>
  BY DEF Informar, Corre, Signal, Pasa, nodeDropVars, IInv, TypeOK
<1>2. /\ hilo'[t].pc = "fin"
      /\ hilo'[t].resp = hilo[t].resp /\ hilo'[t].senal = hilo[t].senal
      /\ \A u \in Hilos \ {t} : hilo'[u] = hilo[u]
  BY <1>1, PasaEs
<1>3. /\ informe[t] = "no" /\ informe'[t] = hilo[t].resp
      /\ \A u \in Hilos \ {t} : informe'[u] = informe[u]
  BY <1>1 DEF IInv, Vida
<1>4. Creacion'
  <2>1. \A u \in Hilos : hilo'[u].pc = "nada" <=> hilo[u].pc = "nada"
    BY <1>1, <1>2
  <2>2. \A i \in DOMAIN principal.cola : principal.cola[i] \in Hilos
    BY DEF IInv, TypeOK, TipoPrincipal
  <2> QED
    BY <1>1, <2>1, <2>2 DEF IInv, Creacion
<1>5. Vida'
  BY <1>1, <1>2, <1>3 DEF IInv, Vida, Antes
<1>6. Notificaciones'
  <2>1. \A w, n : Aviso(w, n) => Aviso(w, n)'
    BY <1>1, <1>2 DEF Aviso, Antes
  <2>2. caida.dato \in Hilos /\ hilo[caida.dato].pc = "recogido" => hilo'[caida.dato].pc = "recogido"
    BY <1>1, <1>2
  <2> QED
    BY <1>1, <2>1, <2>2 DEF IInv, Notificaciones
<1>7. Senales'
  BY <1>1, <1>2 DEF IInv, Senales, Antes, Terminados
<1>8. Ranura'
  <2>1. caida.pc = "une" /\ hilo[caida.dato].pc = "duerme" => hilo'[caida.dato] = hilo[caida.dato]
    BY <1>1, <1>2 DEF IInv, Notificaciones, TypeOK
  <2> QED
    BY <1>1, <2>1 DEF IInv, Ranura
<1>9. EtapasCerradas'
  <2>1. \A u \in Hilos : (informe[u] = "bien" => informe'[u] = "bien") /\ (informe[u] = "mal" => informe'[u] = "mal")
    BY <1>3
  <2> QED
    BY <1>1, <2>1 DEF IInv, EtapasCerradas
<1>10. AbandonoExplicado'
  <2>1. \A u \in Hilos : Abandonado(u)' => Abandonado(u)
    BY <1>1, <1>2 DEF Abandonado, EnNodeDrop
  <2> QED
    BY <1>1, <2>1 DEF IInv, AbandonoExplicado, Causa
<1>11. SemaforoCuadra'
  BY <1>1, <1>2, SemaforoCambia DEF IInv
<1> QED
  BY <1>4, <1>5, <1>6, <1>7, <1>8, <1>9, <1>10, <1>11 DEF IInv

-----------------------------------------------------------------------------
(* node_drop takes the message out and frees the slot. *)
LEMMA InvAtender ==
  ASSUME IInv, TypeOK', Atender
  PROVE  IInv'
<1>1. /\ caida.pc = "recibe" /\ buzon.recibe > 0
      /\ buzon' = [buzon EXCEPT !.recibe = @ - 1, !.envia = @ + 1]
      /\ caida' = [caida EXCEPT !.pc = "traba", !.dato = buzon.dato, !.autor = buzon.de]
      /\ UNCHANGED <<proceso, principal, enviados, hilo, enLista, activo, vivo, informe, sem,
                     mutex, despierta, causas>>
  BY DEF Atender
<1>2. /\ buzon'.recibe = buzon.recibe - 1 /\ buzon'.envia = buzon.envia + 1
      /\ buzon'.de = buzon.de /\ buzon'.dato = buzon.dato
      /\ buzon.recibe \in Nat /\ buzon.envia \in 0 .. 1
  BY <1>1 DEF IInv, TypeOK, TipoBuzon
<1>3. caida'.pc = "traba" /\ caida'.dato = buzon.dato /\ caida'.autor = buzon.de
  BY <1>1 DEF IInv, TypeOK, TipoCaida
<1>4. Creacion' /\ Vida'
  BY <1>1 DEF IInv, Creacion, Vida
<1>5. Notificaciones'
  <2>1. \A w, n : Aviso(w, n)' <=> Aviso(w, n)
    BY <1>1 DEF Aviso
  <2> QED
    BY <1>1, <1>2, <1>3, <2>1 DEF IInv, Notificaciones
<1>6. Senales'
  BY <1>1, <1>3 DEF IInv, Senales
<1>7. Ranura'
  <2>1. buzon.envia + buzon.recibe = 1
    BY <1>1 DEF IInv, Ranura
  <2> QED
    BY <1>2, <2>1 DEF Ranura
<1>8. EtapasCerradas'
  BY <1>1 DEF IInv, EtapasCerradas
<1>9. AbandonoExplicado'
  <2>1. \A u \in Hilos : Abandonado(u)' => Abandonado(u)
    BY <1>1, <1>2, <1>3 DEF Abandonado, EnNodeDrop
  <2> QED
    BY <1>1, <2>1 DEF IInv, AbandonoExplicado, Causa
<1>10. SemaforoCuadra'
  BY <1>1, SemaforoIgual DEF IInv
<1> QED
  BY <1>4, <1>5, <1>6, <1>7, <1>8, <1>9, <1>10 DEF IInv

(* What node_drop does with the mutex just taken. *)
LEMMA EfectoTrabar ==
  ASSUME IInv, Trabar
  PROVE  /\ Aviso(caida.autor, caida.dato) /\ Aviso(buzon.de, buzon.dato)
         /\ mutex = Nadie /\ causas' = causas \cup Desatendido
         /\ \/ /\ buzon.de \notin activo /\ caida'.pc = "recibe" /\ mutex' = mutex
               /\ despierta' = despierta
            \/ /\ buzon.de \in activo /\ DelNodo(caida.dato, buzon.de) = {}
               /\ caida'.pc = "recibe" /\ mutex' = mutex /\ Reanudar(buzon.de)
            \/ /\ buzon.de \in activo /\ caida'.pc = "mata" /\ caida'.emisor = buzon.de
               /\ caida'.quedan = DelNodo(caida.dato, buzon.de) /\ caida'.dato = caida.dato
               /\ mutex' = "node_drop" /\ despierta' = despierta
<1>1. Aviso(caida.autor, caida.dato) /\ Aviso(buzon.de, buzon.dato)
  BY DEF Trabar, IInv, Notificaciones
<1>2. caida \in TipoCaida
  BY DEF IInv, TypeOK
<1>3. mutex = Nadie /\ causas' = causas \cup Desatendido
  BY DEF Trabar
<1>4. CASE buzon.de \notin activo
  BY <1>1, <1>2, <1>3, <1>4 DEF Trabar, TipoCaida
<1>5. CASE buzon.de \in activo /\ DelNodo(caida.dato, buzon.de) = {}
  BY <1>1, <1>2, <1>3, <1>5 DEF Trabar, TipoCaida
<1>6. CASE buzon.de \in activo /\ DelNodo(caida.dato, buzon.de) # {}
  <2>1. caida' = [caida EXCEPT !.pc = "mata", !.emisor = buzon.de, !.quedan = DelNodo(caida.dato, buzon.de)]
        /\ mutex' = "node_drop" /\ despierta' = despierta
    BY <1>6 DEF Trabar
  <2> QED
    BY <1>1, <1>2, <1>3, <1>6, <2>1 DEF TipoCaida
<1> QED
  BY <1>4, <1>5, <1>6

LEMMA InvTrabar ==
  ASSUME IInv, TypeOK', Trabar
  PROVE  IInv'
<1>1. /\ caida.pc = "traba"
      /\ UNCHANGED <<proceso, principal, enviados, hilo, enLista, activo, vivo, informe, sem, buzon>>
  BY DEF Trabar
<1>2. /\ Aviso(caida.autor, caida.dato) /\ Aviso(buzon.de, buzon.dato)
      /\ mutex = Nadie /\ causas \subseteq causas'
  BY EfectoTrabar
<1>3. buzon.de # caida.autor => <<"cruce", caida.autor>> \in causas'
  BY EfectoTrabar DEF Desatendido
<1>4. buzon.de = caida.autor /\ buzon.de \notin activo => <<"sin anotar", caida.autor>> \in causas'
  BY EfectoTrabar DEF Desatendido
<1>5. despierta \in [Hilos -> Nat] /\ activo \subseteq enLista /\ activo \subseteq Hilos
  BY DEF IInv, TypeOK
<1>6. Creacion' /\ Vida'
  BY <1>1 DEF IInv, Creacion, Vida
<1>7. Notificaciones'
  <2>1. \A w, n : Aviso(w, n)' <=> Aviso(w, n)
    BY <1>1 DEF Aviso
  <2>2. caida'.pc \in {"recibe", "mata"}
    BY EfectoTrabar
  <2>3. mutex' = "node_drop" <=> caida'.pc = "mata"
    BY EfectoTrabar, MasterAssumption
  <2>4. ASSUME caida'.pc = "mata"
        PROVE  /\ caida'.emisor = buzon.de /\ caida'.quedan = DelNodo(caida.dato, buzon.de)
               /\ caida'.dato \notin Hilos
    <3>1. caida'.emisor = buzon.de /\ caida'.quedan = DelNodo(caida.dato, buzon.de)
          /\ caida'.dato = caida.dato
      BY <2>4, EfectoTrabar
    <3> QED
      BY <1>2, <3>1, MasterAssumption DEF Aviso
  <2>5. ASSUME NEW t \in DelNodo(caida.dato, buzon.de) PROVE t \in activo /\ ConMutex(t)
    <3>1. t \in activo /\ t \in Hilos /\ t \in enLista /\ Nodo[t] = caida.dato
      BY <1>5 DEF DelNodo
    <3>2. caida.autor \in Hilos /\ Nodo[caida.autor] = caida.dato
      BY <1>2 DEF Aviso
    <3> QED
      BY <1>2, <3>1, <3>2, SoloPrimerasEtapas
  <2>6. buzon.de = caida.autor => \A u \in activo : Nodo[u] = Nodo[buzon.de] =>
                                    u \in DelNodo(caida.dato, buzon.de) \cup {buzon.de}
    BY <1>2 DEF Aviso, DelNodo
  <2>7. caida.autor \in Hilos /\ Aviso(buzon.de, Nodo[buzon.de])
    BY <1>2 DEF Aviso
  <2>8. caida'.pc = "mata" =>
          \/ \A u \in activo : Nodo[u] = Nodo[caida'.emisor] => u \in caida'.quedan \cup {caida'.emisor}
          \/ \E u \in Hilos : <<"cruce", u>> \in causas'
    BY <1>3, <2>4, <2>6, <2>7
  <2>9. /\ buzon.de # Nadie => Aviso(buzon.de, buzon.dato)
        /\ buzon.recibe > 0 => buzon.de # Nadie
    BY DEF IInv, Notificaciones
  <2>10. caida'.pc = "mata" =>
           /\ Aviso(caida'.emisor, Nodo[caida'.emisor])
           /\ \A t \in caida'.quedan : t \in activo /\ ConMutex(t)
    BY <2>4, <2>5, <2>7
  <2> QED
    BY <1>1, <2>1, <2>2, <2>3, <2>4, <2>8, <2>9, <2>10 DEF Notificaciones
<1>8. Senales'
  <2>1. \A u \in Hilos : despierta'[u] = despierta[u] \/ u = buzon.de
    BY <1>5, EfectoTrabar DEF Reanudar
  <2> QED
    BY <1>1, <1>2, <2>1 DEF IInv, Senales, Aviso
<1>9. Ranura'
  BY <1>1 DEF IInv, Ranura
<1>10. EtapasCerradas'
  BY <1>1 DEF IInv, EtapasCerradas
<1>11. AbandonoExplicado'
  <2>1. ASSUME NEW u \in Hilos, Abandonado(u)' PROVE Causa(u, {"sin anotar", "cruce", "pisado"})'
    <3>1. CASE Abandonado(u)
      BY <1>2, <3>1 DEF IInv, AbandonoExplicado, Causa
    <3>2. CASE ~Abandonado(u)
      <4>1. despierta[u] = 0
        BY <1>5, <2>1, EfectoTrabar DEF Abandonado, Reanudar
      <4>2. u = caida.autor
        BY <1>1, <2>1, <3>2, <4>1 DEF Abandonado, EnNodeDrop
      <4>3. CASE buzon.de # caida.autor
        BY <1>3, <4>2, <4>3 DEF Causa
      <4>4. CASE buzon.de = caida.autor /\ buzon.de \notin activo
        BY <1>4, <4>2, <4>4 DEF Causa
      <4>5. CASE buzon.de = caida.autor /\ buzon.de \in activo
        <5>1. \/ caida'.pc = "mata" /\ caida'.emisor = u
              \/ despierta'[u] = despierta[u] + 1
          BY <1>5, <4>2, <4>5, EfectoTrabar DEF Reanudar
        <5>2. despierta'[u] # 1
          BY <2>1 DEF Abandonado
        <5>3. ~(caida'.pc = "mata" /\ caida'.emisor = u)
          BY <2>1 DEF Abandonado, EnNodeDrop
        <5>4. FALSE
          BY <4>1, <5>1, <5>2, <5>3
        <5> QED
          BY <5>4
      <4> QED
        BY <4>3, <4>4, <4>5
    <3> QED
      BY <3>1, <3>2
  <2>2. proceso' = "caido" => \E u \in Hilos : Causa(u, {"sin anotar", "unido tarde", "liberada"})'
    BY <1>1, <1>2 DEF IInv, AbandonoExplicado, Causa
  <2> QED
    BY <2>1, <2>2 DEF AbandonoExplicado
<1>12. SemaforoCuadra'
  BY <1>1, SemaforoIgual DEF IInv
<1> QED
  BY <1>6, <1>7, <1>8, <1>9, <1>10, <1>11, <1>12 DEF IInv

(* A thread of the node is killed: it is out of the list, and may be where *)
(* the signal interrupts it.                                               *)
LEMMA InvMatar ==
  ASSUME IInv, TypeOK', NEW t \in Hilos, Matar(t)
  PROVE  IInv'
<1>1. /\ caida.pc = "mata" /\ t \in caida.quedan /\ hilo \in [Hilos -> TipoHilo]
      /\ activo' = activo \ {t} /\ vivo' = vivo \ {t}
      /\ caida' = [caida EXCEPT !.pc = "une", !.quedan = @ \ {t}, !.dato = t]
      /\ UNCHANGED <<proceso, principal, enviados, enLista, informe, sem, buzon, mutex,
                     despierta, causas>>
  BY DEF Matar, IInv, TypeOK
<1>2. PICK s \in BOOLEAN : hilo' = [hilo EXCEPT ![t].senal = s]
  BY DEF Matar
<1>3. /\ \A u \in Hilos : hilo'[u].pc = hilo[u].pc /\ hilo'[u].resp = hilo[u].resp
      /\ \A u \in Hilos \ {t} : hilo'[u] = hilo[u]
  BY <1>1, <1>2 DEF TipoHilo
<1>4. /\ caida'.pc = "une" /\ caida'.quedan = caida.quedan \ {t} /\ caida'.dato = t
      /\ caida'.emisor = caida.emisor
  BY <1>1 DEF IInv, TypeOK, TipoCaida
<1>5. t \in activo /\ ConMutex(t) /\ t \in enLista /\ activo \subseteq Hilos
  BY <1>1 DEF IInv, Notificaciones, TypeOK
<1>6. Creacion'
  <2>1. \A i \in DOMAIN principal.cola : principal.cola[i] \in Hilos
    BY DEF IInv, TypeOK, TipoPrincipal
  <2> QED
    BY <1>1, <1>3, <1>5, <2>1 DEF IInv, Creacion
<1>7. Vida'
  BY <1>1, <1>3, <1>5 DEF IInv, Vida
<1>8. Notificaciones'
  <2>1. \A w, n : Aviso(w, n)' <=> Aviso(w, n)
    BY <1>3 DEF Aviso
  <2>2. \A u \in caida'.quedan : u \in activo' /\ ConMutex(u)
    BY <1>1, <1>4 DEF IInv, Notificaciones
  <2>3. \/ \A u \in activo' : Nodo[u] = Nodo[caida'.emisor] => u \in caida'.quedan \cup {caida'.emisor}
        \/ \E u \in Hilos : <<"cruce", u>> \in causas'
    BY <1>1, <1>4 DEF IInv, Notificaciones
  <2>4. caida'.dato \in enLista' \ vivo' /\ ConMutex(caida'.dato)
    BY <1>1, <1>4, <1>5
  <2> QED
    BY <1>1, <1>4, <2>1, <2>2, <2>3, <2>4 DEF IInv, Notificaciones
<1>9. Senales'
  <2>1. \A u \in Hilos : hilo'[u].senal => u \notin vivo' /\ (hilo[u].pc \in Terminados \/ u = t)
    BY <1>1, <1>3 DEF IInv, Senales
  <2> QED
    BY <1>1, <1>3, <1>4, <2>1 DEF IInv, Senales
<1>10. Ranura'
  BY <1>1 DEF IInv, Ranura
<1>11. EtapasCerradas'
  BY <1>1 DEF IInv, EtapasCerradas
<1>12. AbandonoExplicado'
  <2>1. \A u \in Hilos : Abandonado(u)' => Abandonado(u)
    <3> SUFFICES ASSUME NEW u \in Hilos, Abandonado(u)' PROVE Abandonado(u)
      OBVIOUS
    <3>1. u # t
      BY <1>4 DEF Abandonado, EnNodeDrop
    <3>2. caida.dato # u
      BY <1>1, <1>3 DEF Abandonado, IInv, Notificaciones
    <3>3. hilo[u].pc = "duerme" /\ despierta[u] = 0 /\ ~hilo[u].senal
      BY <1>1, <1>3, <3>1 DEF Abandonado
    <3>4. ~EnNodeDrop(u)
      BY <1>1, <1>4, <3>1, <3>2 DEF Abandonado, EnNodeDrop
    <3> QED
      BY <3>3, <3>4 DEF Abandonado
  <2> QED
    BY <1>1, <2>1 DEF IInv, AbandonoExplicado, Causa
<1>13. SemaforoCuadra'
  BY <1>1, <1>3, SemaforoIgual DEF IInv
<1> QED
  BY <1>6, <1>7, <1>8, <1>9, <1>10, <1>11, <1>12, <1>13 DEF IInv

(* A thread that was killed is joined; after the last one the sender is    *)
(* resumed and the mutex released.                                         *)
LEMMA InvRecoger ==
  ASSUME IInv, TypeOK', Recoger
  PROVE  IInv'
<1> DEFINE d == caida.dato
<1>1. /\ caida.pc = "une" /\ hilo[d].pc = "muerto"
      /\ hilo' = [hilo EXCEPT ![d].pc = "recogido"] /\ sem' = sem + 1
      /\ UNCHANGED <<proceso, principal, enviados, enLista, activo, vivo, informe, buzon, causas>>
  BY DEF Recoger, Pasa
<1>2. d \in enLista /\ d \in Hilos /\ ConMutex(d) /\ hilo \in [Hilos -> TipoHilo]
      /\ despierta \in [Hilos -> Nat]
  BY <1>1 DEF IInv, Notificaciones, TypeOK
<1>3. /\ hilo'[d].pc = "recogido"
      /\ hilo'[d].resp = hilo[d].resp /\ hilo'[d].senal = hilo[d].senal
      /\ \A u \in Hilos \ {d} : hilo'[u] = hilo[u]
  BY <1>1, <1>2, PasaEs
<1>4. /\ caida'.dato = d /\ caida'.emisor = caida.emisor /\ caida'.quedan = caida.quedan
      /\ \/ caida.quedan # {} /\ caida'.pc = "mata" /\ mutex' = mutex /\ despierta' = despierta
         \/ caida.quedan = {} /\ caida'.pc = "recibe" /\ mutex' = Nadie /\ Reanudar(caida.emisor)
  BY DEF Recoger, IInv, TypeOK, TipoCaida
<1>5. Aviso(caida.emisor, Nodo[caida.emisor])
  BY <1>1 DEF IInv, Notificaciones
<1> HIDE DEF d
<1>6. Creacion'
  <2>1. \A u \in Hilos : hilo'[u].pc = "nada" <=> hilo[u].pc = "nada"
    BY <1>1, <1>3
  <2>2. \A i \in DOMAIN principal.cola : principal.cola[i] \in Hilos
    BY DEF IInv, TypeOK, TipoPrincipal
  <2> QED
    BY <1>1, <2>1, <2>2 DEF IInv, Creacion
<1>7. Vida'
  BY <1>1, <1>3 DEF IInv, Vida, Antes
<1>8. Notificaciones'
  <2>1. \A w, n : Aviso(w, n) => Aviso(w, n)'
    BY <1>1, <1>3 DEF Aviso, Antes
  <2> QED
    BY <1>1, <1>3, <1>4, <2>1, MasterAssumption DEF IInv, Notificaciones
<1>9. Senales'
  <2>1. \A u \in Hilos : despierta'[u] = despierta[u] \/ u = caida.emisor
    BY <1>2, <1>4 DEF Reanudar
  <2>2. caida.dato = d
    BY DEF d
  <2> QED
    BY <1>1, <1>3, <1>5, <2>1, <2>2 DEF IInv, Senales, Aviso, Antes, Terminados
<1>10. Ranura'
  <2>1. buzon.envia + buzon.recibe = 1
    BY <1>1 DEF IInv, Ranura, d
  <2> QED
    BY <1>1, <2>1 DEF Ranura
<1>11. EtapasCerradas'
  BY <1>1 DEF IInv, EtapasCerradas
<1>12. AbandonoExplicado'
  <2>1. \A u \in Hilos : Abandonado(u)' => Abandonado(u)
    <3> SUFFICES ASSUME NEW u \in Hilos, Abandonado(u)' PROVE Abandonado(u)
      OBVIOUS
    <3>1. u # d /\ caida.dato = d
      BY <1>3 DEF Abandonado, d
    <3>2. hilo[u].pc = "duerme" /\ ~hilo[u].senal /\ despierta'[u] = 0 /\ ~EnNodeDrop(u)'
      BY <1>3, <3>1 DEF Abandonado
    <3>3. despierta[u] = 0 /\ (caida.quedan = {} => u # caida.emisor)
      BY <1>2, <1>4, <3>2 DEF Reanudar
    <3>4. ~EnNodeDrop(u)
      BY <1>1, <1>4, <3>1, <3>2, <3>3 DEF EnNodeDrop
    <3> QED
      BY <3>2, <3>3, <3>4 DEF Abandonado
  <2> QED
    BY <1>1, <2>1 DEF IInv, AbandonoExplicado, Causa
<1>13. SemaforoCuadra'
  BY <1>1, <1>2, <1>3, SemaforoCambia DEF IInv
<1> QED
  BY <1>6, <1>7, <1>8, <1>9, <1>10, <1>11, <1>12, <1>13 DEF IInv

-----------------------------------------------------------------------------
(* The theorems. *)

LEMMA InvInicial == Init => IInv
<1> SUFFICES ASSUME Init PROVE IInv
  OBVIOUS
<1> USE DEF Init
<1>1. TypeOK
  <2>1. Permisos \in Nat /\ MaxFallos \in Nat /\ Permisos # 0
    BY MasterAssumption
  <2>2. principal \in TipoPrincipal /\ principal.pc = "recibe"
    BY DEF TipoPrincipal
  <2>3. hilo \in [Hilos -> TipoHilo]
    BY DEF TipoHilo
  <2>4. buzon \in TipoBuzon /\ caida \in TipoCaida
    BY DEF TipoBuzon, TipoCaida
  <2> QED
    BY <2>1, <2>2, <2>3, <2>4 DEF TypeOK
<1>2. Creacion /\ Vida
  BY DEF Creacion, Vida, Antes
<1>3. Notificaciones /\ Senales /\ Ranura
  BY MasterAssumption DEF Notificaciones, Senales, Ranura
<1>4. EtapasCerradas
  BY DEF EtapasCerradas
<1>5. AbandonoExplicado
  BY DEF AbandonoExplicado, Abandonado
<1>6. SemaforoCuadra
  <2>1. EnCurso \cap De("T") = {} /\ {t \in De("RL") : hilo[t].pc = "recogido"} = {}
    BY DEF EnCurso, De
  <2>2. sem = Permisos /\ Cardinality({}) = 0
    BY FS_EmptySet
  <2> QED
    BY <1>1, <2>1, <2>2 DEF SemaforoCuadra
<1> QED
  BY <1>1, <1>2, <1>3, <1>4, <1>5, <1>6 DEF IInv

LEMMA InvPaso == IInv /\ [Next]_vars => IInv'
<1> SUFFICES ASSUME IInv, [Next]_vars PROVE IInv'
  OBVIOUS
<1>0. TypeOK'
  BY PasoTipo
<1>1. ASSUME NEW p \in DOMAIN Paquetes, Recibir(p) PROVE IInv'
  BY <1>0, <1>1, InvRecibir
<1>2. CASE RecibirError \/ RecibirCorte \/ Mirar \/ Unir \/ Terminar \/ Salir
  BY <1>0, <1>2, InvFinales
<1>3. CASE Crear
  BY <1>0, <1>3, InvCrear
<1>4. CASE Anotar
  BY <1>0, <1>4, InvAnotar
<1>5. ASSUME NEW t \in Hilos, Conectar(t) \/ Mandar(t) \/ Recibido(t) PROVE IInv'
  BY <1>0, <1>5, InvTrabajar
<1>6. ASSUME NEW t \in Hilos, Avisar(t) PROVE IInv'
  BY <1>0, <1>6, InvAvisar
<1>7. ASSUME NEW t \in Hilos, Despertar(t) PROVE IInv'
  BY <1>0, <1>7, InvDespertar
<1>8. ASSUME NEW t \in Hilos, Actualizar(t) PROVE IInv'
  BY <1>0, <1>8, InvActualizar, InvCaer
<1>9. ASSUME NEW t \in Hilos, Informar(t) PROVE IInv'
  BY <1>0, <1>9, InvInformar
<1>10. ASSUME NEW t \in Hilos, TocarLiberada(t) PROVE IInv'
  BY <1>0, <1>10, InvCaer
<1>11. CASE Atender
  BY <1>0, <1>11, InvAtender
<1>12. CASE Trabar
  BY <1>0, <1>12, InvTrabar
<1>13. ASSUME NEW t \in Hilos, Matar(t) PROVE IInv'
  BY <1>0, <1>13, InvMatar
<1>14. CASE Recoger
  BY <1>0, <1>14, InvRecoger
<1>15. CASE UNCHANGED vars
  <2>1. UNCHANGED <<proceso, principal, enviados, hilo, enLista, activo, vivo, informe, sem,
                    buzon, mutex, caida, despierta, memoria, fallos, causas>>
    BY <1>15 DEF vars, nodeDropVars
  <2>2. Creacion' /\ Vida' /\ Senales' /\ EtapasCerradas'
    BY <2>1 DEF IInv, Creacion, Vida, Senales, EtapasCerradas
  <2>3. Notificaciones' /\ Ranura'
    BY <2>1 DEF IInv, Notificaciones, Aviso, Ranura
  <2>4. AbandonoExplicado' /\ SemaforoCuadra'
    BY <1>0, <2>1, SemaforoIgual DEF IInv, AbandonoExplicado, Abandonado, EnNodeDrop, Causa
  <2> QED
    BY <1>0, <2>2, <2>3, <2>4 DEF IInv
<1> QED
  BY <1>1, <1>2, <1>3, <1>4, <1>5, <1>6, <1>7, <1>8, <1>9, <1>10, <1>11, <1>12, <1>13, <1>14,
     <1>15 DEF Next, Principal, Tarea, NodeDrop

(* The invariant holds in every execution, for any packets YAMA may order, *)
(* any number of threads and nodes, of permits and of failures.            *)
THEOREM Invariante == Spec => []IInv
BY InvInicial, InvPaso, PTL DEF Spec

(* The semaphore of the transformations is balanced, but for the permits   *)
(* node_drop gives back for local reductions.                              *)
THEOREM SemaforoCuadraSiempre == Spec => []SemaforoCuadra
<1>1. IInv => SemaforoCuadra
  BY DEF IInv
<1> QED
  BY <1>1, Invariante, PTL

(* A thread that was killed never reports, and those about to be killed    *)
(* are transformations or local reductions that are still in the list.     *)
THEOREM MuertoNoInformaSiempre == Spec => []MuertoNoInforma
<1>1. IInv => MuertoNoInforma
  BY DEF IInv, MuertoNoInforma, Vida, Notificaciones
<1> QED
  BY <1>1, Invariante, PTL

(* Who sleeps for ever, and why the process may end badly. *)
THEOREM AbandonoExplicadoSiempre == Spec => []AbandonoExplicado
<1>1. IInv => AbandonoExplicado
  BY DEF IInv
<1> QED
  BY <1>1, Invariante, PTL

(* Only node_drop resumes a thread, and then no other thread of its node is *)
(* active, unless the notices of two nodes crossed.                         *)
LEMMA ReanudaPaso ==
  ASSUME IInv, [Next]_vars, NEW t \in Hilos, despierta'[t] > despierta[t]
  PROVE  \/ \A u \in activo' \ {t} : Nodo[u] # Nodo[t]
         \/ \E u \in Hilos : <<"cruce", u>> \in causas'
<1>1. despierta \in [Hilos -> Nat]
  BY DEF IInv, TypeOK
<1>2. Trabar \/ Recoger
  <2>1. despierta' # despierta
    BY <1>1
  <2>2. ASSUME NEW u \in Hilos, Despertar(u) PROVE FALSE
    BY <1>1, <2>2 DEF Despertar
  <2> QED
    BY <2>1, <2>2 DEF Next, Principal, Tarea, NodeDrop, vars, nodeDropVars, Recibir, RecibirError,
       RecibirCorte, Crear, Anotar, Mirar, Unir, Terminar, Salir, Conectar, Mandar, Recibido,
       Avisar, Actualizar, Informar, TocarLiberada, Atender, Matar
<1>3. CASE Trabar
  <2>1. /\ t = buzon.de /\ DelNodo(caida.dato, buzon.de) = {}
        /\ Aviso(caida.autor, caida.dato) /\ causas' = causas \cup Desatendido
    BY <1>1, <1>3, EfectoTrabar DEF Reanudar
  <2>2. activo' = activo
    BY <1>3 DEF Trabar
  <2>3. CASE buzon.de = caida.autor
    BY <2>1, <2>2, <2>3 DEF DelNodo, Aviso
  <2>4. CASE buzon.de # caida.autor
    BY <2>1, <2>4 DEF Desatendido, Aviso
  <2> QED
    BY <2>3, <2>4
<1>4. CASE Recoger
  <2>1. t = caida.emisor /\ caida.quedan = {} /\ activo' = activo /\ causas' = causas
        /\ caida.pc = "une"
    BY <1>1, <1>4 DEF Recoger, Reanudar
  <2> QED
    BY <2>1 DEF IInv, Notificaciones
<1> QED
  BY <1>2, <1>3, <1>4

THEOREM ReanudaSolaSiempre == Spec => ReanudaSola
<1>1. IInv /\ [Next]_vars =>
        [\A t \in Hilos : despierta'[t] > despierta[t]
           => \/ \A u \in activo' \ {t} : Nodo[u] # Nodo[t]
              \/ \E u \in Hilos : <<"cruce", u>> \in causas']_vars
  BY ReanudaPaso
<1> QED
  BY <1>1, Invariante, PTL DEF Spec, ReanudaSola
=============================================================================

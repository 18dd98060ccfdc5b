-------------------------------- MODULE Worker --------------------------------
(***************************************************************************)
(* The workers of one job (Worker/src/funcionesWorker.c, with path_temp    *)
(* and path_merge of Shared/path.c).  The parent accepts connections and   *)
(* forks a child for each, which does what is asked, answers and ends: a   *)
(* transformation, a local or global reduction, the final storage, or,     *)
(* asked by the worker in charge of the global reduction, sends a file.    *)
(*                                                                         *)
(* Children share the directory of the node and choose the names of their  *)
(* temporary files from a generator that each seeds with the time in       *)
(* seconds.  A command (a pipeline of the shell) is one step.  The scripts *)
(* are those of a count of words: one row per word, and rows of the same   *)
(* word one after the other are added up.  The parent never closes its     *)
(* copy of a connection, which the children born later inherit: the other  *)
(* end sees that a child is gone only when all of them are.  A parent may  *)
(* be stopped, and stays so; its children go on.  A master that leaves     *)
(* before its request came is not modelled.                                *)
(***************************************************************************)
EXTENDS Integers, Sequences, FiniteSets

LOCAL INSTANCE SequencesExt
LOCAL INSTANCE FiniteSetsExt

CONSTANTS
  Pedidos,    \* the tasks of the job; each names the file it makes
  Nodo,       \* node of each
  Etapa,      \* "T", "RL", "RG" or "AF"
  Tras,       \* tasks done before it, those whose files it reads
  Mundos,     \* blocks, tasks whose script and whose command fails, descriptors per process,
              \* tasks asked for, parents that may stop, and the bounds on the seconds
              \* and on the forks that fail
  Vacia,      \* a word the transformation drops
  Pagina,     \* rows in a page of memory
  Nulo

ASSUME WorkerAssumption ==
  /\ Etapa \in [Pedidos -> {"T", "RL", "RG", "AF"}] /\ Tras \in [Pedidos -> SUBSET Pedidos]
  /\ Pagina \in Nat \ {0}
  /\ \A p \in Pedidos : \A q \in Tras[p] : Etapa[p] = "RL" => Nodo[q] = Nodo[p]

Nodos    == {Nodo[p] : p \in Pedidos}
Hijos    == Pedidos \X Nodos       \* who it works for, and where

VARIABLES
  mundo,     \* what this run is given
  reloj,     \* time(NULL)
  pedido,    \* what each task of Master has been answered
  hijo,      \* the connections, and the children that attend them
  fds,       \* connections each parent holds
  parados,   \* nodes whose parent was stopped
  archivos,  \* the files of each node
  almacen,   \* what the FileSystem stored
  causas     \* history: what the properties do not survive

vars == <<mundo, reloj, pedido, hijo, fds, parados, archivos, almacen, causas>>

SinHijo == [est |-> "no", pc |-> 1, semilla |-> 0, k |-> 0, script |-> Nulo, pre |-> Nulo,
            faltan |-> {}, resp |-> "no", fd |-> 0, datos |-> <<>>]

Init ==
  /\ mundo \in Mundos /\ reloj = 1
  /\ pedido = [p \in Pedidos |-> "no"]
  /\ hijo = [c \in Hijos |-> SinHijo] /\ fds = [n \in Nodos |-> 0] /\ parados = {}
  /\ archivos = [n \in Nodos |-> [a \in {} |-> Nulo]]
  /\ almacen = [p \in Pedidos |-> Nulo] /\ causas = {}

Tiene(p) == Tras[p] \cap mundo.pide                         \* the files p reads
DeOtro(c) == Nodo[c[1]] # c[2]                             \* a file for the worker in charge
Juntan(p) == Etapa[p] = "RL" \/ Cardinality(Tiene(p)) > 1  \* whether p merges them

(* What a child does, in the order of its case of listen_to_master. *)
Pasos(c) ==
  LET p == c[1]
      fin == <<"comprueba", "ejecuta", "responde", "borra">>
  IN  CASE DeOtro(c)                      -> <<"manda">>
        [] Etapa[p] = "T"                 -> <<"nombra", "crea">> \o fin
        [] Etapa[p] = "RL"                -> <<"nombraPre", "nombra", "crea", "mezcla">> \o fin \o <<"borraPre">>
        [] Etapa[p] = "RG" /\ Juntan(p)   -> <<"nombra", "crea", "nombraPre", "trae", "mezcla">> \o fin \o <<"borraPre">>
        [] Etapa[p] = "RG" /\ ~Juntan(p)  -> <<"nombra", "crea", "unico">> \o fin \o <<"borraPre">>
        [] Etapa[p] = "AF"                -> <<"guarda", "responde">>

En(c, paso) == hijo[c].est = "corre" /\ Pasos(c)[hijo[c].pc] = paso
Avanza(c, h) ==
  hijo' = [hijo EXCEPT ![c] = [h EXCEPT !.pc = @ + 1,
                                        !.est = IF h.pc = Len(Pasos(c)) THEN "fin" ELSE @]]
Muere(c, causa) ==
  /\ hijo' = [hijo EXCEPT ![c] = [SinHijo EXCEPT !.est = "muerto", !.fd = hijo[c].fd]]
  /\ causas' = causas \cup {causa}

-----------------------------------------------------------------------------
(* Files: scripts and rows. *)

Script(e) == [script |-> e]
Filas(s)  == [filas |-> s]
Hay(n, a) == a \in DOMAIN archivos[n]
Con(fs, a, x) == [b \in DOMAIN fs \cup {a} |-> IF b = a THEN x ELSE fs[b]]
Sin(fs, a)    == [b \in DOMAIN fs \ {a} |-> fs[b]]
FilasDe(fs, a) == IF a \in DOMAIN fs /\ "filas" \in DOMAIN fs[a] THEN fs[a].filas ELSE <<>>

(* Op of x, with x evaluated once: TLC would do it again at each use. *)
DeValor(x, Op(_)) == CHOOSE y \in {Op(z) : z \in {x}} : TRUE

(* path_merge: of the lines at the head of each file, the least, until none *)
(* is left.                                                                 *)
Menor(f, g) == f[1] < g[1] \/ (f[1] = g[1] /\ f[2] <= g[2])
MezclaMutada(fs) == FlattenSeq(fs)
RECURSIVE Mezcla(_)
Mezcla(fs) ==
  LET con == {k \in DOMAIN fs : fs[k] # <<>>}
      Toma(k) == <<fs[k][1]>> \o DeValor([fs EXCEPT ![k] = Tail(@)], Mezcla)
  IN  IF con = {} THEN <<>>
      ELSE DeValor(CHOOSE i \in con : \A j \in con : Menor(fs[i][1], fs[j][1]), Toma)

RECURSIVE Sumar(_)
Sumar(filas) ==
  IF Len(filas) < 2 THEN filas
  ELSE IF filas[1][1] # filas[2][1] THEN <<filas[1]>> \o DeValor(Tail(filas), Sumar)
  ELSE DeValor(<<<<filas[1][1], filas[1][2] + filas[2][2]>>>> \o SubSeq(filas, 3, Len(filas)), Sumar)
Aplica(e, filas) == IF e = "T" THEN SelectSeq(filas, LAMBDA f : f[1] # Vacia) ELSE Sumar(filas)

(* A program run over some rows: one that is not there, or is not a script, *)
(* fails and writes nothing, as does one that is given to fail.             *)
Corre(p, a, filas) ==
  IF Hay(Nodo[p], a) /\ "script" \in DOMAIN archivos[Nodo[p]][a] /\ p \notin mundo.fallan
  THEN [bien |-> TRUE, filas |-> Aplica(archivos[Nodo[p]][a].script, filas)]
  ELSE [bien |-> FALSE, filas |-> <<>>]

-----------------------------------------------------------------------------
(* Master asks, and the parent forks. *)

Pedir(p) ==
  /\ p \in mundo.pide /\ pedido[p] = "no" /\ \A q \in Tiene(p) : pedido[q] = "OK"
  /\ IF Nodo[p] \in parados
     THEN pedido' = [pedido EXCEPT ![p] = "CORTE"] /\ UNCHANGED hijo
     ELSE /\ pedido' = [pedido EXCEPT ![p] = "espera"]
          /\ hijo' = [hijo EXCEPT ![<<p, Nodo[p]>>].est = "cola"]
  /\ UNCHANGED <<mundo, reloj, fds, parados, archivos, almacen, causas>>

(* socket_accept, the handshake, fork.  Without a descriptor left accept     *)
(* fails for ever, and a child that was born without one cannot open a file. *)
Aceptar(c) ==
  LET n == c[2]
  IN  /\ hijo[c].est = "cola" /\ fds[n] < mundo.limite[n]
      /\ fds' = [fds EXCEPT ![n] = @ + 1]
      /\ hijo' = [hijo EXCEPT ![c].est = "corre", ![c].fd = fds[n] + 1]
      /\ causas' = IF fds[n] + 1 = mundo.limite[n] THEN causas \cup {"lleno"} ELSE causas
      /\ UNCHANGED <<mundo, reloj, pedido, parados, archivos, almacen>>
ForkFalla(c) ==
  /\ hijo[c].est = "cola" /\ fds[c[2]] < mundo.limite[c[2]] /\ mundo.forks > 0 /\ "fork" \notin causas
  /\ fds' = [fds EXCEPT ![c[2]] = @ + 1] /\ causas' = causas \cup {"fork"}
  /\ hijo' = [hijo EXCEPT ![c] = [SinHijo EXCEPT !.est = "muerto", !.fd = fds[c[2]] + 1]]
  /\ UNCHANGED <<mundo, reloj, pedido, parados, archivos, almacen>>

SinLibres(c) == hijo[c].fd = mundo.limite[c[2]]   \* born without a descriptor left

(* A parent is stopped, and the connections it had not accepted with it. *)
Parar(n) ==
  /\ n \in mundo.caen \ parados /\ parados' = parados \cup {n}
  /\ hijo' = [c \in Hijos |-> IF c[2] = n /\ hijo[c].est = "cola"
                              THEN [SinHijo EXCEPT !.est = "muerto"] ELSE hijo[c]]
  /\ UNCHANGED <<mundo, reloj, pedido, fds, archivos, almacen, causas>>

(* The other end of the connection of c sees that it was closed: nobody is  *)
(* left of those who held it, the parent and the children born after c.     *)
Cortada(c) ==
  /\ hijo[c].est = "muerto" /\ c[2] \in parados
  /\ hijo[c].fd = 0 \/ \A d \in Hijos : d[2] = c[2] /\ hijo[d].est = "corre" => hijo[d].fd < hijo[c].fd
Cortar(p) ==
  /\ pedido[p] = "espera" /\ Cortada(<<p, Nodo[p]>>)
  /\ pedido' = [pedido EXCEPT ![p] = "CORTE"]
  /\ UNCHANGED <<mundo, reloj, hijo, fds, parados, archivos, almacen, causas>>

Tictac == reloj < mundo.segundos /\ reloj' = reloj + 1
          /\ UNCHANGED <<mundo, pedido, hijo, fds, parados, archivos, almacen, causas>>

-----------------------------------------------------------------------------
(* What children do. *)

(* path_temp: the next name of the sequence of the second in which the child *)
(* first asked for one, except those of files that are there.               *)
TempMutado(c) ==
  LET s == IF hijo[c].semilla = 0 THEN reloj ELSE hijo[c].semilla
  IN  [semilla |-> s, k |-> 1]
Temp(c) ==
  LET s == IF hijo[c].semilla = 0 THEN reloj ELSE hijo[c].semilla
  IN  [semilla |-> s,
       k |-> CHOOSE k \in hijo[c].k + 1 .. hijo[c].k + 1 + Cardinality(DOMAIN archivos[c[2]]) :
               ~Hay(c[2], <<s, k>>) /\ \A j \in hijo[c].k + 1 .. k - 1 : Hay(c[2], <<s, j>>)]
Tomado(c, a) == \E d \in Hijos \ {c} : d[2] = c[2] /\ a \in {hijo[d].script, hijo[d].pre}

Nombrar(c) ==
  /\ En(c, "nombra") \/ En(c, "nombraPre")
  /\ \E t \in {Temp(c)} : \E a \in {<<t.semilla, t.k>>} :
       /\ LET h == [hijo[c] EXCEPT !.semilla = t.semilla, !.k = t.k]
          IN  Avanza(c, IF En(c, "nombra") THEN [h EXCEPT !.script = a]
                        ELSE [h EXCEPT !.pre = a, !.faltan = IF Etapa[c[1]] = "RG" THEN Tiene(c[1]) ELSE {}])
       /\ causas' = IF Tomado(c, a) THEN causas \cup {"homonimo"} ELSE causas
  /\ UNCHANGED <<mundo, reloj, pedido, fds, parados, archivos, almacen>>

(* crearScript *)
Crear(c) ==
  /\ En(c, "crea")
  /\ IF SinLibres(c) THEN Muere(c, "lleno") /\ UNCHANGED archivos
     ELSE /\ archivos' = [archivos EXCEPT ![c[2]] =
                            Con(@, hijo[c].script, Script(IF Etapa[c[1]] = "T" THEN "T" ELSE "R"))]
          /\ Avanza(c, hijo[c]) /\ UNCHANGED causas
  /\ UNCHANGED <<mundo, reloj, pedido, fds, parados, almacen>>

(* With one worker in the job its file is reduced as it is. *)
Unico(c) ==
  /\ En(c, "unico")
  /\ Avanza(c, [hijo[c] EXCEPT !.pre = CHOOSE q \in Tiene(c[1]) : TRUE])
  /\ UNCHANGED <<mundo, reloj, pedido, fds, parados, archivos, almacen, causas>>

(* crearListaParaReducir: the files of other workers, one after the other.  *)
(* The worker asked may never answer; connect_to_worker ends the child when *)
(* it is not there, and so does the empty packet of a connection closed     *)
(* without an answer, whose content is unpacked.                            *)
Traer(c) ==
  /\ En(c, "trae")
  /\ LET faltan == {q \in hijo[c].faltan : Nodo[q] # c[2]}
     IN  IF faltan = {} THEN Avanza(c, hijo[c]) /\ UNCHANGED <<archivos, causas>>
         ELSE LET q == CHOOSE r \in faltan : TRUE
                  d == <<c[1], Nodo[q]>>
              IN  \/ /\ hijo[d].est = "no" /\ d[2] \notin parados
                     /\ hijo' = [hijo EXCEPT ![d].est = "cola"]
                     /\ UNCHANGED <<archivos, causas>>
                  \/ /\ \/ hijo[d].est = "no" /\ d[2] \in parados
                        \/ Cortada(d)
                     /\ Muere(c, "vecino") /\ UNCHANGED archivos
                  \/ /\ hijo[d].est = "fin"
                     /\ archivos' = [archivos EXCEPT ![c[2]] = Con(@, q, Filas(hijo[d].datos))]
                     /\ hijo' = [hijo EXCEPT ![c].faltan = @ \ {q}]
                     /\ UNCHANGED causas
  /\ UNCHANGED <<mundo, reloj, pedido, fds, parados, almacen>>

(* file_map of a file without bytes fails and ends the child; of one that    *)
(* ends with its page, the string that is packed does not.                   *)
Desborda(filas) == filas # <<>> /\ Len(filas) % Pagina = 0
Mapea(c, q, Sigue(_)) ==
  \E filas \in {FilasDe(archivos[c[2]], q)} :
    IF SinLibres(c) THEN Muere(c, "lleno") /\ UNCHANGED almacen
    ELSE IF filas = <<>> THEN Muere(c, "vacio") /\ UNCHANGED almacen
    ELSE \/ Sigue(filas)
         \/ Desborda(filas) /\ Muere(c, "pagina") /\ UNCHANGED almacen

(* OP_MANDAR_ARCHIVO *)
Manda(c) ==
  /\ En(c, "manda")
  /\ LET q == CHOOSE r \in Tiene(c[1]) : Nodo[r] = c[2]
         Sigue(filas) == Avanza(c, [hijo[c] EXCEPT !.datos = filas]) /\ UNCHANGED <<almacen, causas>>
     IN  Mapea(c, q, Sigue)
  /\ UNCHANGED <<mundo, reloj, pedido, fds, parados, archivos>>

(* path_merge of the files read, which must be sorted, into the temporary one. *)
Mezclar(c) ==
  /\ En(c, "mezcla")
  /\ LET n == c[2]
         fuentes == [k \in 1 .. Cardinality(Tiene(c[1])) |->
                       FilasDe(archivos[n], SetToSeq(Tiene(c[1]))[k])]
     IN  \E m \in {Mezcla(fuentes)} :
           archivos' = [archivos EXCEPT ![n] = Con(@, hijo[c].pre, Filas(m))]
  /\ Avanza(c, hijo[c])
  /\ UNCHANGED <<mundo, reloj, pedido, fds, parados, almacen, causas>>

(* block_transform and reducir_path see that the script is there first. *)
Comprobar(c) ==
  /\ En(c, "comprueba")
  /\ IF Hay(c[2], hijo[c].script) THEN Avanza(c, hijo[c])
     ELSE Avanza(c, [hijo[c] EXCEPT !.resp = "ERROR", !.pc = @ + 1])
  /\ UNCHANGED <<mundo, reloj, pedido, fds, parados, archivos, almacen, causas>>

(* The file a command that fails leaves: none, when the shell or the        *)
(* redirection is what failed, or some of what it had to write.             *)
Rota(fs, p, filas) ==
  {fs} \cup {Con(fs, p, Filas(SubSeq(filas, 1, k))) : k \in 0 .. Len(filas) - 1}

(* head | tail | script | sort: the status, which block_transform returns,  *)
(* is that of sort, of the redirection, or of system.                       *)
Transformar(c) ==
  /\ En(c, "ejecuta") /\ Etapa[c[1]] = "T"
  /\ \E r \in {Corre(c[1], hijo[c].script, mundo.bloque[c[1]])} :
     \E s \in {Mezcla([k \in DOMAIN r.filas |-> <<r.filas[k]>>])} :
       /\ IF c[1] \in mundo.rompen
          THEN /\ \E fs \in Rota(archivos[c[2]], c[1], s) : archivos' = [archivos EXCEPT ![c[2]] = fs]
               /\ Avanza(c, [hijo[c] EXCEPT !.resp = "ERROR"])
          ELSE /\ archivos' = [archivos EXCEPT ![c[2]] = Con(@, c[1], Filas(s))]
               /\ Avanza(c, [hijo[c] EXCEPT !.resp = "OK"])
       /\ causas' = IF r.bien THEN causas ELSE causas \cup {"script"}
  /\ UNCHANGED <<mundo, reloj, pedido, fds, parados, almacen>>

(* cat | script: the status is that of the script or of the redirection.    *)
(* When system could not fork, the command is freed twice: the child dies   *)
(* or answers the error.                                                    *)
EstadoMutado(bien) == "OK"
Estado(bien) == IF bien THEN "OK" ELSE "ERROR"
Reducir(c) ==
  /\ En(c, "ejecuta") /\ Etapa[c[1]] # "T"
  /\ \E r \in {Corre(c[1], hijo[c].script, FilasDe(archivos[c[2]], hijo[c].pre))} :
       IF c[1] \in mundo.rompen
       THEN \/ /\ \E fs \in Rota(archivos[c[2]], c[1], r.filas) : archivos' = [archivos EXCEPT ![c[2]] = fs]
               /\ Avanza(c, [hijo[c] EXCEPT !.resp = Estado(FALSE)]) /\ UNCHANGED causas
            \/ Muere(c, "fork") /\ UNCHANGED archivos
       ELSE /\ archivos' = [archivos EXCEPT ![c[2]] = Con(@, c[1], Filas(r.filas))]
            /\ Avanza(c, [hijo[c] EXCEPT !.resp = Estado(r.bien)]) /\ UNCHANGED causas
  /\ UNCHANGED <<mundo, reloj, pedido, fds, parados, almacen>>

(* OP_INICIAR_ALMACENAMIENTO: the FileSystem may not be there (the handshake *)
(* on no socket ends the child), not be stable, or not store the file.       *)
Guardar(c) ==
  /\ En(c, "guarda")
  /\ LET q == CHOOSE r \in Tiene(c[1]) : TRUE
         Sigue(filas) ==
           \/ Muere(c, "ausente") /\ UNCHANGED almacen
           \/ /\ \E r \in {"ERROR", "FALLA"} : Avanza(c, [hijo[c] EXCEPT !.resp = r])
              /\ UNCHANGED <<almacen, causas>>
           \/ /\ almacen' = [almacen EXCEPT ![c[1]] = filas]
              /\ Avanza(c, [hijo[c] EXCEPT !.resp = "OK"]) /\ UNCHANGED causas
     IN  Mapea(c, q, Sigue)
  /\ UNCHANGED <<mundo, reloj, pedido, fds, parados, archivos>>

ResponderMutado(c) ==
  /\ En(c, "responde")
  /\ pedido' = IF hijo[c].resp = "OK" THEN [pedido EXCEPT ![c[1]] = "OK"] ELSE pedido
  /\ Avanza(c, hijo[c])
  /\ UNCHANGED <<mundo, reloj, fds, parados, archivos, almacen, causas>>
Responder(c) ==
  /\ En(c, "responde")
  /\ pedido' = [pedido EXCEPT ![c[1]] = hijo[c].resp]
  /\ Avanza(c, hijo[c])
  /\ UNCHANGED <<mundo, reloj, fds, parados, archivos, almacen, causas>>

(* path_remove of the script, and of what was reduced. *)
Borrar(c) ==
  /\ En(c, "borra") \/ En(c, "borraPre")
  /\ IF En(c, "borra")
     THEN /\ archivos' = [archivos EXCEPT ![c[2]] = Sin(@, hijo[c].script)]
          /\ Avanza(c, [hijo[c] EXCEPT !.script = Nulo])
     ELSE /\ archivos' = [archivos EXCEPT ![c[2]] = Sin(@, hijo[c].pre)]
          /\ Avanza(c, [hijo[c] EXCEPT !.pre = Nulo])
  /\ UNCHANGED <<mundo, reloj, pedido, fds, parados, almacen, causas>>

(* Processes run, and connections reach the parent. *)
Progresa ==
  \/ \E p \in Pedidos : Pedir(p) \/ Cortar(p)
  \/ \E c \in Hijos :
       \/ Aceptar(c) \/ Nombrar(c) \/ Crear(c) \/ Unico(c) \/ Traer(c) \/ Manda(c) \/ Mezclar(c)
       \/ Comprobar(c) \/ Transformar(c) \/ Reducir(c) \/ Guardar(c) \/ Responder(c) \/ Borrar(c)

Next == Progresa \/ Tictac \/ (\E c \in Hijos : ForkFalla(c)) \/ \E n \in Nodos : Parar(n)

Spec == Init /\ [][Next]_vars /\ WF_vars(Progresa)
-----------------------------------------------------------------------------
(* Properties. *)

TypeOK ==
  /\ reloj \in 1 .. mundo.segundos
  /\ pedido \in [Pedidos -> {"no", "espera", "OK", "ERROR", "FALLA", "CORTE"}]
  /\ \A c \in Hijos : hijo[c].est \in {"no", "cola", "corre", "fin", "muerto"}
  /\ \A n \in Nodos : fds[n] <= mundo.limite[n]
  /\ parados \subseteq mundo.caen
  /\ causas \subseteq {"lleno", "fork", "homonimo", "vacio", "pagina", "script", "ausente", "vecino"}

(* The transformations whose words a task counts, and what it should give. *)
Fuente(p) ==
  CASE Etapa[p] = "T"  -> {p}
    [] Etapa[p] = "RL" -> Tiene(p)
    [] OTHER           -> {q \in mundo.pide : Etapa[q] = "T"}
Veces(p, w) ==
  LET en(q) == Cardinality({k \in DOMAIN mundo.bloque[q] : mundo.bloque[q][k][1] = w})
  IN  MapThenSumSet(en, Fuente(p))
Dichas(p) == {mundo.bloque[q][k][1] : <<q, k>> \in
                UNION {{q} \X DOMAIN mundo.bloque[q] : q \in Fuente(p)}} \ {Vacia}
EsResultado(p, filas) ==
  /\ \A k \in 1 .. Len(filas) - 1 : IF Etapa[p] = "T" THEN filas[k][1] <= filas[k + 1][1]
                                                      ELSE filas[k][1] < filas[k + 1][1]
  /\ {filas[k][1] : k \in DOMAIN filas} = Dichas(p)
  /\ IF Etapa[p] = "T"
     THEN \A w \in Dichas(p) : Cardinality({k \in DOMAIN filas : filas[k][1] = w}) = Veces(p, w)
     ELSE \A k \in DOMAIN filas : filas[k][2] = Veces(p, filas[k][1])

Temporal(a) == a \notin Pedidos

(* A task answered OK left the result that its stage promises on its node,  *)
(* or in the FileSystem, and the workers left no temporary file; an error   *)
(* is answered by the storage, by a task whose command fails, and by a      *)
(* reduction whose script fails; a task whose command fails is never        *)
(* answered OK, whatever part of its file was written.  Not once two children of a node chose the same name for their files, nor *)
(* once the script of a transformation failed, which nobody looks at.       *)
ResultadoFiel ==
  /\ TypeOK
  /\ causas \cap {"homonimo", "script"} = {} => \A p \in Pedidos :
       /\ pedido[p] = "OK" =>
            /\ p \notin mundo.fallan \cup mundo.rompen
            /\ \A n \in Nodos : Hay(n, p) => EsResultado(p, archivos[n][p].filas)
            /\ Etapa[p] = "AF" => EsResultado(p, almacen[p])
            /\ Etapa[p] # "AF" => \/ Hay(Nodo[p], p)
                                  \/ \E q \in mundo.pide : Etapa[q] = "RG" /\ ~Juntan(q) /\ p \in Tiene(q)
       /\ pedido[p] \in {"ERROR", "FALLA"} => p \in mundo.fallan \cup mundo.rompen \/ Etapa[p] = "AF"
  /\ (\A c \in Hijos : hijo[c].est \in {"no", "fin"}) =>
       \A n \in Nodos : \A a \in DOMAIN archivos[n] : ~Temporal(a)

(* Every task of Master is answered, or sees that its connection closed,    *)
(* unless a process ran out of children or of descriptors, a file to map    *)
(* was empty or ended with its page, the FileSystem was not there, or the   *)
(* worker in charge of the reduction found another one gone: then the child *)
(* ends, its parent keeps the connection, and nobody tells Master.          *)
RespuestaLlega ==
  <>[](\/ causas \cap {"lleno", "fork", "vacio", "pagina", "ausente", "vecino"} # {}
       \/ \A p \in Pedidos : pedido[p] # "espera")
=============================================================================

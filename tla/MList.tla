------------------------------- MODULE MList -------------------------------
(***************************************************************************)
(* The doubly linked list of Shared/mlist.c, used by several threads.  Its *)
(* lock covers the changes of the links, not the choice of the node where  *)
(* they are made, nor the traversals.  In the programs the thread          *)
(* registry, the nodes and the files are lists of several threads; those   *)
(* that are sorted or used by index belong to one thread.                  *)
(***************************************************************************)
EXTENDS Integers, Sequences, FiniteSets

LOCAL INSTANCE SequencesExt
LOCAL INSTANCE FiniteSetsExt

CONSTANTS
  Hilos,     \* threads
  MaxNodos,  \* bound on nodes ever created
  MaxOps,    \* bound on operations
  Clave      \* the order of the elements under the comparator

ASSUME ListaAssumption ==
  /\ MaxNodos \in Nat /\ MaxOps \in Nat
  /\ Clave \in [1..MaxNodos -> Int]
  /\ \A i, j \in 1..MaxNodos : Clave[i] = Clave[j] => i = j

VARIABLES
  nodo,    \* the heap: links and element of each node, whether the node is allocated
           \* and whether its element was destroyed
  lista,   \* head, tail and length
  hilo,    \* what each thread is doing: operation, where it is, its locals
  ultima,  \* what returned in the last step, if anything did
  creados, \* nodes created so far
  ops,     \* operations so far
  fuera,   \* history: elements taken off the list, or never on it
  causas   \* history: what happened that the properties do not survive

vars == <<nodo, lista, hilo, ultima, creados, ops, fuera, causas>>

Nulo == 0                       \* NULL
Nodos == 1..MaxNodos
Ocioso == [op |-> "no"]
Nada   == [op |-> "no"]
Vacio(l) == l.length = 0        \* is_empty

(* What is reached from head by next, and from tail by prev. *)
Cadena(n, l, de, por) ==
  LET paso[k \in 0..MaxNodos] ==
        IF k = 0 THEN IF l[de] = Nulo THEN <<>> ELSE <<l[de]>>
        ELSE LET s == paso[k - 1]
             IN  IF Len(s) < k \/ n[s[k]][por] = Nulo THEN s ELSE Append(s, n[s[k]][por])
  IN  paso[MaxNodos]
Adelante(n, l) == Cadena(n, l, "head", "next")
Atras(n, l)    == Cadena(n, l, "tail", "prev")
Elems(n, s)    == [k \in DOMAIN s |-> n[s[k]].elem]
Contenido      == Elems(nodo, Adelante(nodo, lista))

Init ==
  /\ nodo = [k \in Nodos |-> [prev |-> Nulo, next |-> Nulo, elem |-> k, vivo |-> FALSE, roto |-> FALSE]]
  /\ lista = [head |-> Nulo, tail |-> Nulo, length |-> 0]
  /\ hilo = [t \in Hilos |-> Ocioso] /\ ultima = Nada
  /\ creados = 0 /\ ops = 0 /\ fuera = 1..MaxNodos /\ causas = {}

-----------------------------------------------------------------------------
Vivo == "caida" \notin causas

Empieza(t) == /\ Vivo /\ hilo[t].op = "no" /\ ops < MaxOps /\ ops' = ops + 1
En(t, op)  == Vivo /\ hilo[t].op = op
Solo(t)    == \A u \in Hilos \ {t} : hilo[u].op = "no"

(* NULL is followed, or freed memory is used and the process ends at once. *)
Caida == /\ causas' = causas \cup {"caida"} /\ ultima' = Nada
         /\ UNCHANGED <<nodo, lista, hilo, creados, fuera>>
Caer == Caida /\ UNCHANGED ops

(* The nodes of xs are read or written: a freed one is undefined behaviour, *)
(* and the process may go on with what its memory still holds.             *)
Liberados(xs) == \E x \in xs \ {Nulo} : ~nodo[x].vivo

(* Under the lock a thread changes the list at x, which it chose before it *)
(* got it: another one may have taken x off in between.                    *)
Marca(x, xs) == IF Liberados(xs) THEN {"liberada"}
                ELSE IF x \notin Range(Adelante(nodo, lista)) THEN {"suelta"} ELSE {}

(* A change that others see while they go through the list. *)
Pasa(t, h) == hilo' = [hilo EXCEPT ![t] = h]
Cambiar(t, n, l, h, r) ==
  /\ nodo' = n /\ lista' = l /\ ultima' = r
  /\ LET hay == Range(Elems(n, Adelante(n, l)))
     IN  hilo' = [u \in Hilos |->
           LET v == IF u = t THEN h ELSE hilo[u]
           IN  IF v.op \in {"recorre", "quita"}
               THEN [v EXCEPT !.siempre = @ \cap hay, !.alguna = @ \cup hay] ELSE v]

(* create_node, and the node next to which it will go, read without the lock; *)
(* i is where it would be now.                                                *)
Nuevo(t, op, base, i) ==
  /\ creados < MaxNodos /\ creados' = creados + 1
  /\ nodo' = [nodo EXCEPT ![creados + 1].vivo = TRUE]
  /\ Pasa(t, [op |-> op, base |-> base, nuevo |-> creados + 1, i |-> i, habia |-> Contenido])
  /\ ultima' = Nada /\ UNCHANGED <<lista, fuera, causas>>
Puesto(h) == [op |-> "pone", elem |-> h.nuevo, i |-> h.i, habia |-> h.habia]

Agregar(t) == Empieza(t) /\ Nuevo(t, "despues", lista.tail, lista.length)

(* insert_after. *)
Enganchar(n, b, x) ==
  LET m == [n EXCEPT ![x].next = n[b].next, ![x].prev = b, ![b].next = x]
  IN  IF m[x].next = Nulo THEN m ELSE [m EXCEPT ![m[x].next].prev = x]

Cola(l, n, x) == IF n[x].next = Nulo THEN x ELSE l.tail

Primero(t, x) ==
  /\ Cambiar(t, nodo, [head |-> x, tail |-> x, length |-> 1], Ocioso, Puesto(hilo[t]))
  /\ fuera' = fuera \ {x} /\ UNCHANGED <<creados, ops, causas>>

InsertarDespues(t) ==
  LET x == hilo[t].nuevo  b == hilo[t].base
      n == Enganchar(nodo, b, x)  toca == {b, nodo[b].next}
  IN  /\ En(t, "despues")
      /\ \/ Vacio(lista) /\ Primero(t, x)
         \/ ~Vacio(lista) /\ b = Nulo /\ Caer
         \/ ~Vacio(lista) /\ b # Nulo /\ Liberados(toca) /\ Caer
         \/ /\ ~Vacio(lista) /\ b # Nulo
            /\ Cambiar(t, n, [lista EXCEPT !.tail = Cola(lista, n, x), !.length = @ + 1],
                       Ocioso, Puesto(hilo[t]))
            /\ causas' = causas \cup Marca(b, toca)
            /\ fuera' = fuera \ {x} /\ UNCHANGED <<creados, ops>>

(* get_node: from the head, or from the tail if the index is in the second *)
(* half.                                                                   *)
Desde(k, s) == IF k \in DOMAIN s THEN s[k] ELSE Nulo
NodoEnMutado(i) ==
  IF i <= lista.length \div 2 THEN Desde(i + 1, Adelante(nodo, lista))
  ELSE Desde(lista.length - i + 1, Atras(nodo, lista))
NodoEn(i) ==
  IF i <= lista.length \div 2 THEN Desde(i + 1, Adelante(nodo, lista))
  ELSE Desde(lista.length - i, Atras(nodo, lista))

(* The chain ends before the place is reached: NULL is followed. *)
SeCorta(i) ==
  IF i <= lista.length \div 2 THEN i > Len(Adelante(nodo, lista))
  ELSE lista.length - 1 - i > Len(Atras(nodo, lista))

Insertar(t, i) ==
  /\ i \in 0..lista.length /\ (i \in {0, lista.length} \/ Solo(t))
  /\ Empieza(t)
  /\ IF i < lista.length THEN Nuevo(t, "antes", IF i = 0 THEN lista.head ELSE NodoEn(i), i)
     ELSE Nuevo(t, "despues", lista.tail, i)

(* insert_before. *)
InsertarAntes(t) ==
  LET x == hilo[t].nuevo  b == hilo[t].base  p == nodo[b].prev  toca == {b, p}
      m == [nodo EXCEPT ![x].prev = p, ![x].next = b, ![b].prev = x]
      n == IF p = Nulo THEN m ELSE [m EXCEPT ![p].next = x]
  IN  /\ En(t, "antes")
      /\ \/ Vacio(lista) /\ Primero(t, x)
         \/ ~Vacio(lista) /\ b = Nulo /\ Caer
         \/ ~Vacio(lista) /\ b # Nulo /\ Liberados(toca) /\ Caer
         \/ /\ ~Vacio(lista) /\ b # Nulo
            /\ Cambiar(t, n, [lista EXCEPT !.head = IF p = Nulo THEN x ELSE @, !.length = @ + 1],
                       Ocioso, Puesto(hilo[t]))
            /\ causas' = causas \cup Marca(b, toca)
            /\ fuera' = fuera \ {x} /\ UNCHANGED <<creados, ops>>

-----------------------------------------------------------------------------
(* traverse_nodes: the next node is read before the routine runs.  Filter,  *)
(* map, copy and count are traversals; remove is one that takes off what    *)
(* satisfies a condition, and destroys it first if it got a destroyer.      *)
Recorrer(t, op, quien, destruye) ==
  /\ Empieza(t)
  /\ Pasa(t, [op |-> op, next |-> lista.head, nodo |-> Nulo, sigue |-> "busca", quien |-> quien,
              destruye |-> destruye, visto |-> <<>>,
              siempre |-> Range(Contenido), alguna |-> Range(Contenido)])
  /\ ultima' = Nada /\ UNCHANGED <<nodo, lista, creados, fuera, causas>>

(* The node is freed, or its element is. *)
Inutil(x) == ~nodo[x].vivo \/ nodo[x].roto

Visitar(t) ==
  LET h == hilo[t]
      x == h.next
      acierta == h.op = "quita" /\ nodo[x].elem = h.quien
  IN  /\ Vivo /\ h.op \in {"recorre", "quita"} /\ h.sigue = "busca"
      /\ Len(h.visto) <= MaxNodos            \* broken links may form a circle
      /\ \/ /\ x = Nulo
            /\ ultima' = h /\ Pasa(t, Ocioso)
            /\ UNCHANGED <<nodo, lista, creados, ops, fuera, causas>>
         \/ x # Nulo /\ Inutil(x) /\ Caer
         \/ /\ x # Nulo
            /\ Pasa(t, [h EXCEPT !.next = nodo[x].next, !.visto = Append(@, nodo[x].elem),
                                 !.nodo = IF acierta THEN x ELSE Nulo,
                                 !.sigue = IF ~acierta THEN "busca"
                                           ELSE IF h.destruye THEN "destruye" ELSE "desliga"])
            /\ causas' = IF Inutil(x) THEN causas \cup {"liberada"} ELSE causas
            /\ ultima' = Nada /\ UNCHANGED <<nodo, lista, creados, ops, fuera>>

(* The destroyer runs while the node is still in the list. *)
Destruir(t) ==
  LET x == hilo[t].nodo
  IN  /\ En(t, "quita") /\ hilo[t].sigue = "destruye"
      /\ \/ Inutil(x) /\ Caer
         \/ /\ nodo' = [nodo EXCEPT ![x].roto = TRUE]
            /\ Pasa(t, [hilo[t] EXCEPT !.sigue = "desliga"])
            /\ causas' = IF Inutil(x) THEN causas \cup {"liberada"} ELSE causas
            /\ ultima' = Nada /\ UNCHANGED <<lista, creados, ops, fuera>>

(* remove_node, first half: under the lock, the node is taken off the list. *)
SoltarMutado(n, l, x) ==
  [l EXCEPT !.head = IF x = @ THEN n[x].next ELSE @, !.length = @ - 1]
Soltar(n, l, x) ==
  [l EXCEPT !.head = IF x = @ THEN n[x].next ELSE @,
            !.tail = IF x = @ THEN n[x].prev ELSE @, !.length = @ - 1]
Desenganchar(n, x) ==
  LET m == IF n[x].prev = Nulo THEN n ELSE [n EXCEPT ![n[x].prev].next = n[x].next]
  IN  IF m[x].next = Nulo THEN m ELSE [m EXCEPT ![m[x].next].prev = m[x].prev]

Desligar(t, x, h, r) ==
  LET toca == {x, nodo[x].prev, nodo[x].next}
  IN  \/ Liberados(toca) /\ Caida
      \/ /\ Cambiar(t, Desenganchar(nodo, x), Soltar(nodo, lista, x), h, r)
         /\ fuera' = fuera \cup {nodo[x].elem}
         /\ causas' = causas \cup Marca(x, toca) /\ UNCHANGED creados

Quitar(t) ==
  /\ En(t, "quita") /\ hilo[t].sigue = "desliga"
  /\ Desligar(t, hilo[t].nodo, [hilo[t] EXCEPT !.sigue = "libera"], Nada)
  /\ UNCHANGED ops

(* Second half: the lock was released, the node is still allocated. *)
Liberar(t) ==
  LET h == hilo[t]  x == h.nodo
  IN  /\ \/ En(t, "quita") /\ h.sigue = "libera"
         \/ En(t, "saca")
      /\ \/ Liberados({x}) /\ Caer
         \/ /\ nodo' = [nodo EXCEPT ![x].vivo = FALSE]
            /\ Pasa(t, IF h.op = "saca" THEN Ocioso ELSE [h EXCEPT !.nodo = Nulo, !.sigue = "busca"])
            /\ causas' = IF Liberados({x}) THEN causas \cup {"liberada"} ELSE causas
            /\ ultima' = Nada /\ UNCHANGED <<lista, creados, ops, fuera>>

(* mlist_find, index, reduce: the next node is read after the condition. *)
Buscar(t, e) ==
  /\ Empieza(t)
  /\ Pasa(t, [op |-> "busca", en |-> lista.head, quien |-> e, estaba |-> e \in Range(Contenido)])
  /\ ultima' = Nada /\ UNCHANGED <<nodo, lista, creados, fuera, causas>>

Comparar(t) ==
  LET h == hilo[t]
      Devuelve(b) == /\ ultima' = [op |-> "busca", hallado |-> b, estaba |-> h.estaba, quien |-> h.quien]
                     /\ Pasa(t, Ocioso)
  IN  /\ En(t, "busca")
      /\ \/ h.en # Nulo /\ Inutil(h.en) /\ Caer
         \/ /\ IF h.en = Nulo THEN Devuelve(FALSE)
               ELSE IF nodo[h.en].elem = h.quien THEN Devuelve(TRUE)
               ELSE Pasa(t, [h EXCEPT !.en = nodo[h.en].next]) /\ ultima' = Nada
            /\ causas' = IF h.en # Nulo /\ Inutil(h.en) THEN causas \cup {"liberada"} ELSE causas
            /\ UNCHANGED <<nodo, lista, creados, ops, fuera>>

(* mlist_clear: the nodes are freed under the lock, the list is emptied after it. *)
Vaciar(t) ==
  LET todos == Range(Adelante(nodo, lista))
  IN  /\ Empieza(t) /\ ~Vacio(lista)
      /\ \/ Liberados(todos) /\ Caida
         \/ /\ nodo' = [k \in Nodos |-> IF k \in todos THEN [nodo[k] EXCEPT !.vivo = FALSE] ELSE nodo[k]]
            /\ fuera' = fuera \cup Range(Contenido)
            /\ Pasa(t, [op |-> "vacia"])
            /\ causas' = causas \cup (IF Solo(t) THEN {} ELSE {"vaciada"})
                               \cup (IF Liberados(todos) THEN {"liberada"} ELSE {})
            /\ ultima' = Nada /\ UNCHANGED <<lista, creados>>

VaciarFin(t) ==
  /\ En(t, "vacia")
  /\ Cambiar(t, nodo, [head |-> Nulo, tail |-> Nulo, length |-> 0], Ocioso, [op |-> "vacia"])
  /\ causas' = IF Solo(t) THEN causas ELSE causas \cup {"vaciada"}
  /\ UNCHANGED <<creados, ops, fuera>>

-----------------------------------------------------------------------------
(* Operations of a thread on a list of its own. *)

Propia(t) == Empieza(t) /\ Solo(t)

Obtener(t, i) ==
  LET x == NodoEn(i)
  IN  /\ Propia(t) /\ i \in 0..lista.length - 1
      /\ \/ (SeCorta(i) \/ Liberados({x})) /\ Caida
         \/ /\ ~SeCorta(i)
            /\ ultima' = [op |-> "obtiene", i |-> i, elem |-> IF x = Nulo THEN Nulo ELSE nodo[x].elem]
            /\ causas' = IF Liberados({x}) THEN causas \cup {"liberada"} ELSE causas
            /\ UNCHANGED <<nodo, lista, hilo, creados, fuera>>

(* mlist_pop, up to the release of the lock in remove_node. *)
Sacar(t, i) ==
  LET x == NodoEn(i)
  IN  /\ Propia(t) /\ i \in 0..lista.length - 1
      /\ \/ SeCorta(i) /\ Caida
         \/ /\ ~SeCorta(i) /\ x = Nulo
            /\ ultima' = Nada /\ UNCHANGED <<nodo, lista, hilo, creados, fuera, causas>>
         \/ /\ ~SeCorta(i) /\ x # Nulo
            /\ Desligar(t, x, [op |-> "saca", nodo |-> x],
                        [op |-> "saca", i |-> i, elem |-> nodo[x].elem])

(* mlist_replace: the node stays, the element is another one. *)
Reemplazar(t, i) ==
  LET x == NodoEn(i)
  IN  /\ Propia(t) /\ i \in 0..lista.length - 1 /\ creados < MaxNodos
      /\ \/ (SeCorta(i) \/ Liberados({x})) /\ Caida
         \/ /\ ~SeCorta(i) /\ x = Nulo
            /\ ultima' = Nada /\ UNCHANGED <<nodo, lista, hilo, creados, fuera, causas>>
         \/ /\ ~SeCorta(i) /\ x # Nulo
            /\ nodo' = [nodo EXCEPT ![x].elem = creados + 1] /\ creados' = creados + 1
            /\ ultima' = [op |-> "reemplaza", i |-> i, elem |-> creados + 1]
            /\ fuera' = (fuera \ {creados + 1}) \cup {nodo[x].elem}
            /\ causas' = IF Liberados({x}) THEN causas \cup {"liberada"} ELSE causas
            /\ UNCHANGED <<lista, hilo>>

Invertir(t) ==
  /\ Propia(t)
  /\ ultima' = [op |-> "invierte", de |-> Elems(nodo, Atras(nodo, lista))]
  /\ UNCHANGED <<nodo, lista, hilo, creados, fuera, causas>>

(* sort_nodes changes head and next; tail and prev stay as they were. *)
EnOrden(es) ==
  [k \in 1..Cardinality(es) |-> CHOOSE e \in es : Cardinality({f \in es : Clave[f] < Clave[e]}) = k - 1]

Ordenar(t) ==
  LET cadena == Adelante(nodo, lista)
      orden  == EnOrden(Range(Contenido))
      s == [k \in DOMAIN orden |-> CHOOSE x \in Range(cadena) : nodo[x].elem = orden[k]]
      Sigue(k) == IF k < Len(s) THEN s[k + 1] ELSE Nulo
  IN  /\ Propia(t) /\ Len(cadena) = lista.length /\ lista.length > 1
      /\ Cambiar(t, [x \in Nodos |-> IF x \in Range(s)
                                     THEN [nodo[x] EXCEPT !.next = Sigue(CHOOSE k \in DOMAIN s : s[k] = x)]
                                     ELSE nodo[x]],
                 [lista EXCEPT !.head = s[1]], Ocioso, [op |-> "ordena"])
      /\ causas' = IF s = cadena THEN causas ELSE causas \cup {"ordenada"}
      /\ UNCHANGED <<creados, fuera>>

Puestos == 1..creados

Next == \E t \in Hilos :
  \/ Agregar(t) \/ InsertarDespues(t) \/ InsertarAntes(t)
  \/ \E i \in 0..MaxNodos : Insertar(t, i) \/ Obtener(t, i) \/ Sacar(t, i) \/ Reemplazar(t, i)
  \/ Recorrer(t, "recorre", Nulo, FALSE) \/ Visitar(t)
  \/ \E e \in Puestos, d \in BOOLEAN : Recorrer(t, "quita", e, d)
  \/ Destruir(t) \/ Quitar(t) \/ Liberar(t)
  \/ \E e \in Puestos : Buscar(t, e)
  \/ Comparar(t) \/ Vaciar(t) \/ VaciarFin(t)
  \/ Invertir(t) \/ Ordenar(t)

Spec == Init /\ [][Next]_vars

-----------------------------------------------------------------------------
(* Properties. *)

Salvo(cs) == causas \cap cs = {}
Vaciando  == \E t \in Hilos : hilo[t].op = "vacia"

TypeOK ==
  /\ nodo \in [Nodos -> [prev : Nodos \cup {Nulo}, next : Nodos \cup {Nulo}, elem : Nodos, vivo : BOOLEAN,
                     roto : BOOLEAN]]
  /\ lista \in [head : Nodos \cup {Nulo}, tail : Nodos \cup {Nulo}, length : Int]
  /\ \A t \in Hilos : hilo[t].op \in {"no", "despues", "antes", "recorre", "quita", "busca", "saca", "vacia"}
  /\ creados \in 0..MaxNodos /\ ops \in 0..MaxOps /\ fuera \subseteq Nodos
  /\ causas \subseteq {"caida", "suelta", "liberada", "vaciada", "ordenada"}

(* The links agree in both directions with the length, no freed node is in *)
(* the list, and it holds exactly what was put and not taken off, until one *)
(* of these happens: a change is made at a node that was taken off after it *)
(* was chosen (mlist_append on the tail of before loses its element in      *)
(* silence, a second removal counts twice), freed memory is used, the list *)
(* is cleared under another operation, or sorted, which leaves the way back *)
(* as it was.  No other order of the steps of two threads undoes a change. *)
ListaSana ==
  /\ TypeOK
  /\ Salvo({"suelta", "liberada", "vaciada", "ordenada"}) /\ ~Vaciando =>
       LET s == Adelante(nodo, lista)
       IN  /\ Atras(nodo, lista) = Reverse(s) /\ lista.length = Len(s)
           /\ \A k \in DOMAIN s : nodo[s[k]].vivo
           /\ Range(Contenido) = Nodos \ fuera

(* a goes before b in s, if both are in it. *)
Antes(s, a, b) == \A k, l \in DOMAIN s : s[k] = a /\ s[l] = b => k < l

(* What an operation gives: a new element goes after those that it found   *)
(* before its place and before the others; an index gives the element of   *)
(* that place, from whichever end it is looked for; a traversal sees each  *)
(* element that was there all the while once, and none that never was; a   *)
(* search finds what was there from its start unless it was taken off.     *)
(* Until a change is made at a node no longer in the list or freed memory  *)
(* is used, and, for the ways back, until the list is sorted.              *)
ResultadoFiel ==
  [][ultima' # ultima /\ Salvo({"ordenada"}) /\ Salvo({"suelta", "liberada"})' =>
       LET r == ultima'
       IN  CASE r.op = "pone"     -> \A k \in DOMAIN r.habia :
                                       IF k <= r.i THEN Antes(Contenido', r.habia[k], r.elem)
                                       ELSE Antes(Contenido', r.elem, r.habia[k])
             [] r.op = "ordena"   -> Contenido' = EnOrden(Range(Contenido))
             [] r.op = "obtiene"  -> r.elem = Contenido[r.i + 1]
             [] r.op = "saca"     -> r.elem = Contenido[r.i + 1] /\ Contenido' = RemoveAt(Contenido, r.i + 1)
             [] r.op = "reemplaza" -> Contenido' = [Contenido EXCEPT ![r.i + 1] = r.elem]
             [] r.op = "invierte" -> r.de = Reverse(Contenido)
             [] r.op = "recorre"  -> /\ r.siempre \subseteq Range(r.visto) /\ Range(r.visto) \subseteq r.alguna
                                     /\ IsInjective(r.visto)
             [] r.op = "busca"    -> (r.estaba /\ r.quien \notin fuera) => r.hallado
             [] OTHER             -> TRUE]_vars
=============================================================================

--------------------------- MODULE YamaJobsProofs ---------------------------
(***************************************************************************)
(* Theorems about YamaJobs, for every value of its constants: masters that *)
(* reuse a descriptor stay apart, the disconnection of a master with work  *)
(* to come finds it, the last stages of a job are ordered once, a job that *)
(* ended well stays so, and YAMA falls only for the reasons stated.        *)
(***************************************************************************)
EXTENDS YamaJobs, WellFoundedInduction, FiniteSetTheorems, SequenceTheorems, TLAPS

-----------------------------------------------------------------------------
(* The inductive invariant. *)

(* The keys of a row fit its stage; those of a transformation are a copy   *)
(* of a block of the file.                                                 *)
EsCopia(n, blk) ==
  \E b \in Bloques : \E k \in 1 .. 2 :
    Archivo[b][k] # SinCopia /\ Archivo[b][k] = [nodo |-> n, blk |-> blk]

BienClavada(f) ==
  /\ f.etapa = "Transformacion" => EsCopia(f.nodo, f.blk)
  /\ f.etapa = "ReduccionLocal" => f.blk = ReduccionLocal
  /\ f.etapa = "ReduccionGlobal" => f.blk = ReduccionGlobal
  /\ f.etapa = "AlmacenamientoFinal" => f.blk = AlmacenamientoFinal

Claves == \A i \in Filas : BienClavada(tabla[i])

(* Job numbers are not given twice, and all the rows of a job are of the   *)
(* descriptor its master is on.                                            *)
EnYama(s) == maestro[s].est \in {"activo", "saliendo"}

Numerados ==
  /\ \A i \in Filas : tabla[i].job < numeroJob
  /\ \A i, k \in Filas : tabla[i].job = tabla[k].job => tabla[i].master = tabla[k].master
  /\ \A s \in Sockets : maestro[s].est # "libre" =>
       /\ maestro[s].job \in Jobs /\ maestro[s].job < numeroJob
       /\ \A i \in Filas : tabla[i].job = maestro[s].job => tabla[i].master = s /\ EnYama(s)
       /\ \A u \in Sockets : u # s /\ maestro[u].est # "libre" => maestro[u].job # maestro[s].job

(* What a master and its streams hold are rows of its own job. *)
Propia(f, s) == EnYama(s) /\ tabla[f].master = s /\ tabla[f].job = maestro[s].job

Propias ==
  \A s \in Sockets :
    /\ \A f \in tareas[s] : Propia(f, s)
    /\ \A a \in porEnviar[s] : Propia(a.fila, s)
    /\ \A i \in DOMAIN aYama[s] : Propia(aYama[s][i].fila, s)
    /\ \A i \in DOMAIN aMaestro[s] : \A f \in aMaestro[s][i].filas : Propia(f, s)

(* A row in process is of the job of the master on its descriptor. *)
Limpieza == \A i \in Filas : tabla[i].estado = "EnProceso" => Propia(i, tabla[i].master)

(* A master that answered for the final storage is leaving. *)
Almacenado ==
  \A s \in Sockets : \A i \in DOMAIN aYama[s] :
    tabla[aYama[s][i].fila].etapa = "AlmacenamientoFinal" => maestro[s].est = "saliendo"

(* Without late answers a job goes through its stages in order: when one   *)
(* of the last two is in the table, nothing before it is in process, and   *)
(* when the final storage ended well, nothing is.                          *)
Previas(f) == IF f.etapa = "ReduccionGlobal" THEN {"Transformacion", "ReduccionLocal"}
              ELSE IF f.etapa # "AlmacenamientoFinal" THEN {}
              ELSE IF f.estado = "FinalizadoOK" THEN Etapas
              ELSE {"Transformacion", "ReduccionLocal", "ReduccionGlobal"}

EnEtapas ==
  \A i, k \in Filas :
    /\ tabla[i].job = tabla[k].job /\ tabla[i].job \notin tardios
    /\ tabla[k].etapa \in Previas(tabla[i])
    => tabla[k].estado # "EnProceso"

IInv ==
  /\ TypeOK /\ Claves /\ Numerados /\ Propias /\ Limpieza /\ Almacenado
  /\ EnEtapas /\ EtapaFinalUnica /\ DesconexionEncuentra /\ CaidaExplicada

-----------------------------------------------------------------------------
(* The least of a set. *)

LEMMA HayMinimo ==
  ASSUME NEW S \in SUBSET Nat, S # {}
  PROVE  Min(S) \in S /\ \A x \in S : Min(S) <= x
<1>1. PICK m \in S : \A x \in S : ~ (<<x, m>> \in OpToRel(<, Nat))
  BY NatLessThanWellFounded, WFMin
<1>2. \A x \in S : m <= x
  <2> SUFFICES ASSUME NEW x \in S PROVE ~ (x < m)
    OBVIOUS
  <2>1. ~ (<<x, m>> \in OpToRel(<, Nat)) /\ x \in Nat /\ m \in Nat
    BY <1>1
  <2> QED
    BY <2>1 DEF OpToRel
<1> QED
  BY <1>1, <1>2 DEF Min

(* A finite set has an element where an integer function is least: a least *)
(* subset without one would have one when it loses an element.             *)
LEMMA HayMenor ==
  ASSUME NEW S, IsFiniteSet(S), S # {}, NEW f, \A x \in S : f[x] \in Int
  PROVE  \E m \in S : \A x \in S : f[m] <= f[x]
<1> DEFINE Malos == {T \in SUBSET S : T # {} /\ ~ \E m \in T : \A x \in T : f[m] <= f[x]}
<1>1. Malos = {}
  <2> SUFFICES ASSUME Malos # {} PROVE FALSE
    OBVIOUS
  <2>1. Malos \subseteq FiniteSubsetsOf(S)
    BY FS_Subset DEF FiniteSubsetsOf
  <2>2. PICK T \in Malos : \A U \in Malos : ~ (<<U, T>> \in StrictSubsetOrdering(S))
    <3> HIDE DEF Malos
    <3> QED
      BY <2>1, FS_StrictSubsetOrderingWellFounded, WFMin
  <2>3. T \subseteq S /\ T # {} /\ ~ \E m \in T : \A x \in T : f[m] <= f[x]
    BY <2>2
  <2>4. PICK a \in T : TRUE
    BY <2>3
  <2>5. PICK U : U = T \ {a}
    OBVIOUS
  <2>6. U \notin Malos
    BY <2>2, <2>3, <2>4, <2>5 DEF StrictSubsetOrdering
  <2>7. CASE U = {}
    BY <2>3, <2>4, <2>5, <2>7
  <2>8. CASE U # {}
    <3>1. PICK m \in U : \A x \in U : f[m] <= f[x]
      BY <2>3, <2>5, <2>6, <2>8
    <3>2. f[m] \in Int /\ f[a] \in Int /\ \A x \in T : f[x] \in Int /\ (x = a \/ x \in U)
      BY <2>3, <2>4, <2>5, <3>1
    <3>3. CASE f[m] <= f[a]
      BY <2>3, <2>5, <3>1, <3>2, <3>3
    <3>4. CASE ~ (f[m] <= f[a])
      BY <2>3, <2>4, <3>1, <3>2, <3>4
    <3> QED
      BY <3>3, <3>4
  <2> QED
    BY <2>7, <2>8
<1> QED
  BY <1>1

-----------------------------------------------------------------------------
(* Tables that change the state of some rows, and tables that grow. *)

MismaClave(r, q) ==
  /\ r.job = q.job /\ r.master = q.master /\ r.nodo = q.nodo /\ r.blk = q.blk
  /\ r.etapa = q.etapa /\ r.entradas = q.entradas

Retocada(t, u, D, e) ==
  /\ Len(u) = Len(t)
  /\ \A k \in 1 .. Len(t) : /\ MismaClave(u[k], t[k])
                            /\ u[k].estado = IF k \in D THEN e ELSE t[k].estado

LEMMA FilaRetocada ==
  ASSUME NEW n \in Nat, NEW r \in TipoFila(n), NEW e \in Estados, NEW q, q = [r EXCEPT !.estado = e]
  PROVE  q \in TipoFila(n) /\ MismaClave(q, r) /\ q.estado = e
BY DEF TipoFila, MismaClave

LEMMA RetocaUna ==
  ASSUME NEW n \in Nat, NEW t \in Seq(TipoFila(n)), NEW i \in 1 .. Len(t), NEW e \in Estados,
         NEW u, u = [t EXCEPT ![i].estado = e]
  PROVE  u \in Seq(TipoFila(n)) /\ Retocada(t, u, {i}, e)
<1>1. PICK q : q = [t[i] EXCEPT !.estado = e]
  OBVIOUS
<1>2. t[i] \in TipoFila(n)
  BY ElementOfSeq
<1>3. q \in TipoFila(n) /\ MismaClave(q, t[i]) /\ q.estado = e
  BY <1>1, <1>2, FilaRetocada
<1>4. u = [t EXCEPT ![i] = q]
  BY <1>1
<1>5. /\ u \in Seq(TipoFila(n)) /\ Len(u) = Len(t)
      /\ \A k \in 1 .. Len(t) : u[k] = IF k = i THEN q ELSE t[k]
  BY <1>3, <1>4, ExceptSeq
<1>6. \A k \in 1 .. Len(t) : MismaClave(t[k], t[k])
  BY DEF MismaClave
<1> QED
  BY <1>3, <1>5, <1>6 DEF Retocada

LEMMA RetocaVarias ==
  ASSUME NEW n \in Nat, NEW t \in Seq(TipoFila(n)), NEW D, NEW e \in Estados,
         NEW u, u = [k \in DOMAIN t |-> IF k \in D THEN [t[k] EXCEPT !.estado = e] ELSE t[k]]
  PROVE  u \in Seq(TipoFila(n)) /\ Retocada(t, u, D, e)
<1>1. Len(t) \in Nat /\ DOMAIN t = 1 .. Len(t)
  BY LenProperties
<1>2. \A k \in 1 .. Len(t) : u[k] = IF k \in D THEN [t[k] EXCEPT !.estado = e] ELSE t[k]
  BY <1>1
<1>3. ASSUME NEW k \in 1 .. Len(t)
      PROVE  /\ u[k] \in TipoFila(n) /\ MismaClave(u[k], t[k])
             /\ u[k].estado = IF k \in D THEN e ELSE t[k].estado
  <2>1. t[k] \in TipoFila(n) /\ MismaClave(t[k], t[k])
    BY ElementOfSeq DEF MismaClave
  <2>2. CASE k \in D
    BY <1>2, <2>1, <2>2, FilaRetocada
  <2>3. CASE k \notin D
    BY <1>2, <2>1, <2>3
  <2> QED
    BY <2>2, <2>3
<1>4. u \in [1 .. Len(t) -> TipoFila(n)]
  BY <1>1, <1>3
<1>5. u \in Seq(TipoFila(n)) /\ Len(u) = Len(t)
  BY <1>1, <1>4
<1> QED
  BY <1>3, <1>5 DEF Retocada

(* The rows of a longer table may name more rows. *)
LEMMA MasFilas ==
  ASSUME NEW n \in Nat, NEW m \in Nat, n <= m
  PROVE  /\ 1 .. n \subseteq 1 .. m
         /\ TipoFila(n) \subseteq TipoFila(m)
         /\ TipoRespuesta(n) \subseteq TipoRespuesta(m)
         /\ TipoMensaje(n) \subseteq TipoMensaje(m)
<1>1. 1 .. n \subseteq 1 .. m
  OBVIOUS
<1>2. SUBSET (1 .. n) \subseteq SUBSET (1 .. m)
  BY <1>1
<1>3. TipoFila(n) \subseteq TipoFila(m)
  BY <1>2 DEF TipoFila
<1>4. TipoRespuesta(n) \subseteq TipoRespuesta(m)
  BY <1>1 DEF TipoRespuesta
<1>5. TipoMensaje(n) \subseteq TipoMensaje(m)
  BY <1>2 DEF TipoMensaje
<1> QED
  BY <1>1, <1>3, <1>4, <1>5

Alargada(t, u, m) ==
  /\ Len(u) = Len(t) + m
  /\ \A k \in 1 .. Len(t) : u[k] = t[k]

LEMMA AlargaUna ==
  ASSUME NEW n \in Nat, NEW t \in Seq(TipoFila(n)), Len(t) = n, NEW r \in TipoFila(n),
         NEW u, u = Append(t, r)
  PROVE  u \in Seq(TipoFila(n + 1)) /\ Alargada(t, u, 1) /\ u[n + 1] = r
<1>1. t \in Seq(TipoFila(n + 1)) /\ r \in TipoFila(n + 1)
  BY MasFilas, SeqMonotonic
<1> QED
  BY <1>1 DEF Alargada

-----------------------------------------------------------------------------
(* What YAMA does to the table when it handles something of the master of  *)
(* descriptor s: rows of its job may leave the state in process, and rows  *)
(* of its job may be added; and to the streams: it consumes an answer and  *)
(* sends at most orders over the rows it added.                            *)

Nueva(f, s) ==
  f.master = s /\ f.job = maestro[s].job /\ f.estado = "EnProceso" /\ BienClavada(f)

Nuevas == Len(tabla) + 1 .. Len(tabla')

Extiende(s) ==
  /\ Len(tabla) <= Len(tabla')
  /\ \A i \in 1 .. Len(tabla) :
       /\ MismaClave(tabla'[i], tabla[i])
       /\ \/ tabla'[i].estado = tabla[i].estado
          \/ /\ tabla[i].master = s /\ tabla[i].job = maestro[s].job
             /\ tabla'[i].estado # "EnProceso"
  /\ \A i \in Nuevas : Nueva(tabla'[i], s)

Corrientes(s) ==
  /\ \A u \in Sockets \ {s} : aYama'[u] = aYama[u] /\ aMaestro'[u] = aMaestro[u]
  /\ \A i \in DOMAIN aYama'[s] : \E k \in DOMAIN aYama[s] : aYama'[s][i] = aYama[s][k]
  /\ \A i \in DOMAIN aMaestro'[s] :
       \/ \E k \in DOMAIN aMaestro[s] : aMaestro'[s][i] = aMaestro[s][k]
       \/ aMaestro'[s][i].filas \subseteq Nuevas

Paso(s) ==
  /\ Extiende(s) /\ Corrientes(s)
  /\ maestro[s].est # "libre" /\ EnYama(s)' /\ maestro'[s].job = maestro[s].job
  /\ maestro'[s].est = maestro[s].est \/ maestro[s].est = "pide"
  /\ \A u \in Sockets \ {s} : maestro'[u] = maestro[u]
  /\ UNCHANGED <<numeroJob, tareas, porEnviar>>
  /\ tardios \subseteq tardios'

EsTabla ==
  /\ Len(tabla) \in Nat /\ Filas = 1 .. Len(tabla)
  /\ \A i \in 1 .. Len(tabla) : tabla[i] \in TipoFila(Len(tabla))

LEMMA FilasEs == TypeOK => EsTabla
<1> SUFFICES ASSUME TypeOK PROVE EsTabla
  OBVIOUS
<1>1. tabla \in Seq(TipoFila(Len(tabla)))
  BY DEF TypeOK
<1>2. Len(tabla) \in Nat /\ Filas = 1 .. Len(tabla)
  BY <1>1, LenProperties DEF Filas
<1>3. \A i \in 1 .. Len(tabla) : tabla[i] \in TipoFila(Len(tabla))
  BY <1>1, ElementOfSeq
<1> QED
  BY <1>2, <1>3 DEF EsTabla

LEMMA FilasEsTras == TypeOK' => EsTabla'
BY FilasEs, PTL

(* An old row keeps its keys and is in process only if it was; the others   *)
(* are new.                                                                *)
LEMMA FilasTras ==
  ASSUME TypeOK, TypeOK', NEW s, Extiende(s)
  PROVE  /\ Filas = 1 .. Len(tabla) /\ Filas' = 1 .. Len(tabla')
         /\ Filas \subseteq Filas' /\ Nuevas \subseteq Filas'
         /\ \A i \in Filas' : i \in Filas \/ i \in Nuevas
         /\ \A i \in Nuevas : i \notin Filas /\ Nueva(tabla'[i], s)
         /\ \A i \in Filas : MismaClave(tabla'[i], tabla[i])
         /\ \A i \in Filas : tabla'[i].estado = "EnProceso" => tabla[i].estado = "EnProceso"
         /\ \A i \in Filas : tabla[i].master # s => tabla'[i].estado = tabla[i].estado
<1>1. /\ Len(tabla) \in Nat /\ Len(tabla') \in Nat /\ Len(tabla) <= Len(tabla')
      /\ Filas = 1 .. Len(tabla) /\ Filas' = 1 .. Len(tabla')
  BY FilasEs, FilasEsTras DEF EsTabla, Extiende
<1>2. /\ Filas \subseteq Filas' /\ Nuevas \subseteq Filas'
      /\ \A i \in Filas' : i \in Filas \/ i \in Nuevas
      /\ \A i \in Nuevas : i \notin Filas
  BY <1>1 DEF Nuevas
<1> QED
  BY <1>1, <1>2 DEF Extiende

LEMMA ClavesTras ==
  ASSUME TypeOK, TypeOK', Claves, NEW s, Extiende(s)
  PROVE  Claves'
<1> SUFFICES ASSUME NEW i \in Filas' PROVE BienClavada(tabla'[i])
  BY DEF Claves, BienClavada, EsCopia
<1>1. CASE i \in Filas
  BY <1>1, FilasTras DEF Claves, BienClavada, MismaClave
<1>2. CASE i \in Nuevas
  BY <1>2, FilasTras DEF Nueva
<1> QED
  BY <1>1, <1>2, FilasTras

LEMMA NumeradosTras ==
  ASSUME TypeOK, TypeOK', Numerados, NEW s \in Sockets, Paso(s)
  PROVE  Numerados'
<1>1. /\ numeroJob' = numeroJob /\ maestro[s].est # "libre" /\ EnYama(s)'
      /\ maestro'[s].job = maestro[s].job
      /\ \A u \in Sockets \ {s} : maestro'[u] = maestro[u]
  BY DEF Paso
<1>2. /\ \A i \in Filas' : i \in Filas \/ i \in Nuevas
      /\ \A i \in Nuevas : tabla'[i].master = s /\ tabla'[i].job = maestro[s].job
      /\ \A i \in Filas : tabla'[i].master = tabla[i].master /\ tabla'[i].job = tabla[i].job
  BY FilasTras DEF Paso, Nueva, MismaClave
<1>3. /\ maestro[s].job < numeroJob
      /\ \A i \in Filas : tabla[i].job = maestro[s].job => tabla[i].master = s
  BY <1>1 DEF Numerados
<1>4. \A i \in Filas' : tabla'[i].job < numeroJob'
  BY <1>1, <1>2, <1>3 DEF Numerados
<1>5. \A i, k \in Filas' : tabla'[i].job = tabla'[k].job => tabla'[i].master = tabla'[k].master
  <2>1. \A i \in Filas' : tabla'[i].job = maestro[s].job => tabla'[i].master = s
    BY <1>2, <1>3
  <2> QED
    BY <1>2, <2>1 DEF Numerados
<1>6. ASSUME NEW u \in Sockets, maestro'[u].est # "libre"
      PROVE  /\ maestro'[u].job \in Jobs /\ maestro'[u].job < numeroJob'
             /\ \A i \in Filas' : tabla'[i].job = maestro'[u].job => tabla'[i].master = u /\ EnYama(u)'
             /\ \A v \in Sockets : v # u /\ maestro'[v].est # "libre" => maestro'[v].job # maestro'[u].job
  <2>1. maestro[u].est # "libre" /\ maestro'[u].job = maestro[u].job
    BY <1>1, <1>6
  <2>2. \A v \in Sockets : maestro'[v].est # "libre" => maestro[v].est # "libre" /\ maestro'[v].job = maestro[v].job
    BY <1>1
  <2>3. /\ maestro[u].job \in Jobs /\ maestro[u].job < numeroJob
        /\ \A i \in Filas : tabla[i].job = maestro[u].job => tabla[i].master = u /\ EnYama(u)
        /\ \A v \in Sockets : v # u /\ maestro[v].est # "libre" => maestro[v].job # maestro[u].job
    BY <2>1 DEF Numerados
  <2>4. EnYama(u) => EnYama(u)'
    BY <1>1 DEF EnYama
  <2>5. ASSUME NEW i \in Filas', tabla'[i].job = maestro'[u].job
        PROVE  tabla'[i].master = u /\ EnYama(u)'
    <3>1. CASE i \in Filas
      BY <1>2, <2>1, <2>3, <2>4, <2>5, <3>1
    <3>2. CASE i \in Nuevas
      BY <1>1, <1>2, <2>1, <2>3, <2>5, <3>2
    <3> QED
      BY <1>2, <3>1, <3>2
  <2> QED
    BY <1>1, <2>1, <2>2, <2>3, <2>5
<1> QED
  BY <1>4, <1>5, <1>6 DEF Numerados

LEMMA LimpiezaTras ==
  ASSUME TypeOK, TypeOK', Limpieza, NEW s \in Sockets, Paso(s)
  PROVE  Limpieza'
<1> SUFFICES ASSUME NEW i \in Filas', tabla'[i].estado = "EnProceso"
             PROVE  Propia(i, tabla[i].master)'
  BY DEF Limpieza
<1>1. EnYama(s)' /\ maestro'[s].job = maestro[s].job /\ \A u \in Sockets \ {s} : maestro'[u] = maestro[u]
  BY DEF Paso
<1>2. CASE i \in Filas
  <2>1. MismaClave(tabla'[i], tabla[i]) /\ tabla[i].estado = "EnProceso"
    BY <1>2, FilasTras DEF Paso
  <2>2. PICK u : u = tabla[i].master
    OBVIOUS
  <2>3. u \in Sockets
    BY <1>2, <2>2, FilasEs DEF EsTabla, TipoFila
  <2>4. Propia(i, u) /\ tabla'[i].master = u
    BY <1>2, <2>1, <2>2 DEF Limpieza, MismaClave
  <2> QED
    BY <1>1, <2>1, <2>3, <2>4 DEF Propia, EnYama, MismaClave
<1>3. CASE i \in Nuevas
  <2>1. tabla'[i].master = s /\ tabla'[i].job = maestro[s].job
    BY <1>3, FilasTras DEF Paso, Nueva
  <2> QED
    BY <1>1, <2>1 DEF Propia
<1> QED
  BY <1>2, <1>3, FilasTras DEF Paso

(* A row that was of the job of its master still is. *)
LEMMA PropiaTras ==
  ASSUME TypeOK, TypeOK', NEW s \in Sockets, Paso(s), NEW u \in Sockets, NEW f \in Filas, Propia(f, u)
  PROVE  Propia(f, u)'
<1>1. MismaClave(tabla'[f], tabla[f])
  BY FilasTras DEF Paso
<1> QED
  BY <1>1 DEF Paso, Propia, EnYama, MismaClave

LEMMA PropiasTras ==
  ASSUME TypeOK, TypeOK', Propias, NEW s \in Sockets, Paso(s)
  PROVE  Propias'
<1> SUFFICES ASSUME NEW u \in Sockets
             PROVE  /\ \A f \in tareas'[u] : Propia(f, u)'
                    /\ \A a \in porEnviar'[u] : Propia(a.fila, u)'
                    /\ \A i \in DOMAIN aYama'[u] : Propia(aYama[u][i].fila, u)'
                    /\ \A i \in DOMAIN aMaestro'[u] : \A f \in aMaestro'[u][i].filas : Propia(f, u)'
  BY DEF Propias
<1>1. Filas = 1 .. Len(tabla) /\ UNCHANGED <<tareas, porEnviar>>
  BY FilasEs DEF EsTabla, Paso
<1>2. ASSUME NEW f \in tareas'[u] PROVE Propia(f, u)'
  <2>1. f \in tareas[u] /\ f \in Filas
    BY <1>1, <1>2 DEF TypeOK
  <2> QED
    BY <2>1, PropiaTras DEF Propias
<1>3. ASSUME NEW a \in porEnviar'[u] PROVE Propia(a.fila, u)'
  <2>1. a \in porEnviar[u] /\ a \in TipoRespuesta(Len(tabla))
    BY <1>1, <1>3 DEF TypeOK
  <2>2. PICK f : f = a.fila
    OBVIOUS
  <2>3. f \in Filas /\ Propia(f, u)
    BY <1>1, <2>1, <2>2 DEF TipoRespuesta, Propias
  <2> QED
    BY <2>2, <2>3, PropiaTras
<1>4. ASSUME NEW i \in DOMAIN aYama'[u] PROVE Propia(aYama[u][i].fila, u)'
  <2>1. PICK k \in DOMAIN aYama[u] : aYama'[u][i] = aYama[u][k]
    BY <1>4 DEF Paso, Corrientes
  <2>2. PICK f : f = aYama[u][k].fila
    OBVIOUS
  <2>3. aYama[u][k] \in TipoRespuesta(Len(tabla))
    BY ElementOfSeq, LenProperties DEF TypeOK
  <2>4. f \in Filas /\ Propia(f, u)
    BY <1>1, <2>2, <2>3 DEF TipoRespuesta, Propias
  <2>5. Propia(f, u)'
    BY <2>4, PropiaTras
  <2> QED
    BY <2>1, <2>2, <2>5 DEF Propia
<1>5. ASSUME NEW i \in DOMAIN aMaestro'[u], NEW f \in aMaestro'[u][i].filas PROVE Propia(f, u)'
  <2>1. CASE \E k \in DOMAIN aMaestro[u] : aMaestro'[u][i] = aMaestro[u][k]
    <3>1. PICK k \in DOMAIN aMaestro[u] : aMaestro'[u][i] = aMaestro[u][k]
      BY <2>1
    <3>2. aMaestro[u][k] \in TipoMensaje(Len(tabla))
      BY ElementOfSeq, LenProperties DEF TypeOK
    <3>3. f \in Filas /\ Propia(f, u)
      BY <1>1, <1>5, <3>1, <3>2 DEF TipoMensaje, Propias
    <3> QED
      BY <3>3, PropiaTras
  <2>2. CASE u = s /\ aMaestro'[u][i].filas \subseteq Nuevas
    <3>1. Nueva(tabla'[f], s)
      BY <1>5, <2>2, FilasTras DEF Paso
    <3> QED
      BY <2>2, <3>1 DEF Nueva, Propia, Paso
  <2> QED
    BY <1>5, <2>1, <2>2 DEF Paso, Corrientes
<1> QED
  BY <1>2, <1>3, <1>4, <1>5

LEMMA AlmacenadoTras ==
  ASSUME TypeOK, TypeOK', Propias, Almacenado, NEW s \in Sockets, Paso(s)
  PROVE  Almacenado'
<1> SUFFICES ASSUME NEW u \in Sockets, NEW i \in DOMAIN aYama'[u],
                    tabla'[aYama'[u][i].fila].etapa = "AlmacenamientoFinal"
             PROVE  maestro'[u].est = "saliendo"
  BY DEF Almacenado
<1>1. PICK k \in DOMAIN aYama[u] : aYama'[u][i] = aYama[u][k]
  BY DEF Paso, Corrientes
<1>2. aYama[u][k] \in TipoRespuesta(Len(tabla))
  BY ElementOfSeq, LenProperties DEF TypeOK
<1>3. aYama[u][k].fila \in Filas
  BY <1>2, FilasEs DEF EsTabla, TipoRespuesta
<1>4. tabla[aYama[u][k].fila].etapa = "AlmacenamientoFinal"
  BY <1>1, <1>3, FilasTras DEF Paso, MismaClave
<1>5. maestro[u].est = "saliendo"
  BY <1>4 DEF Almacenado
<1> QED
  BY <1>5 DEF Paso

-----------------------------------------------------------------------------
(* The stages.  An answer for row f of a job orders what follows its stage. *)

Sigue(e, g) ==
  \/ e = "Transformacion" /\ g \in {"Transformacion", "ReduccionLocal"}
  \/ e = "ReduccionLocal" /\ g = "ReduccionGlobal"
  \/ e = "ReduccionGlobal" /\ g = "AlmacenamientoFinal"

(* The row answered was in process, or the answer came late and is noted.  *)
Contada(f, s) ==
  /\ f \in Filas /\ tabla[f].job = maestro[s].job
  /\ tabla[f].estado = "EnProceso" \/ maestro[s].job \in tardios'

Ordena(f, s) ==
  /\ \A k \in Nuevas : Sigue(tabla[f].etapa, tabla'[k].etapa)
  /\ \A i, k \in Nuevas : i # k => tabla'[i].etapa = "Transformacion"

(* Nothing that must come before a new row is still in process, and a      *)
(* final storage ends well only when nothing of its job is.                *)
Cerrado(s) ==
  maestro[s].job \notin tardios' =>
    /\ \A i \in Nuevas, k \in Filas :
         tabla'[k].etapa \in Previas(tabla'[i]) /\ tabla[k].job = maestro[s].job
         => tabla'[k].estado # "EnProceso"
    /\ \A i \in Filas :
         tabla[i].etapa = "AlmacenamientoFinal" /\ tabla'[i].estado = "FinalizadoOK" =>
           \/ tabla[i].estado = "FinalizadoOK"
           \/ \A k \in Filas : tabla[k].job = tabla[i].job => tabla'[k].estado # "EnProceso"

LEMMA PreviasDe ==
  ASSUME NEW f, NEW e, NEW g, e \in Etapas, Sigue(e, g), g \in Previas(f)
  PROVE  e \in Previas(f)
BY DEF Sigue, Previas, Etapas

LEMMA EnEtapasTras ==
  ASSUME IInv, TypeOK', NEW s \in Sockets, Paso(s), NEW f, Contada(f, s), Ordena(f, s), Cerrado(s)
  PROVE  EnEtapas'
<1> SUFFICES ASSUME NEW i \in Filas', NEW k \in Filas',
                    tabla'[i].job = tabla'[k].job, tabla'[i].job \notin tardios',
                    tabla'[k].etapa \in Previas(tabla'[i]),
                    tabla'[k].estado = "EnProceso"
             PROVE  FALSE
  BY DEF EnEtapas, Previas
<1> DEFINE j == maestro[s].job
<1>1. /\ TypeOK /\ Extiende(s) /\ tardios \subseteq tardios'
      /\ \A r \in Filas' : r \in Filas \/ r \in Nuevas
      /\ \A r \in Nuevas : tabla'[r].job = j /\ tabla'[r].estado = "EnProceso"
      /\ \A r \in Filas : MismaClave(tabla'[r], tabla[r])
      /\ \A r \in Filas : tabla'[r].estado = "EnProceso" => tabla[r].estado = "EnProceso"
  BY FilasTras DEF IInv, Paso, Nueva
<1>2. \A r \in Filas : tabla'[r].job = tabla[r].job /\ tabla'[r].etapa = tabla[r].etapa
  BY <1>1 DEF MismaClave
<1>3. \A r, q \in Filas : /\ tabla[r].job = tabla[q].job /\ tabla[r].job \notin tardios
                          /\ tabla[q].etapa \in Previas(tabla[r])
                          => tabla[q].estado # "EnProceso"
  BY DEF IInv, EnEtapas
<1>4. CASE i \in Filas /\ k \in Filas
  <2>1. CASE Previas(tabla'[i]) = Previas(tabla[i])
    BY <1>1, <1>2, <1>3, <1>4, <2>1
  <2>2. CASE Previas(tabla'[i]) # Previas(tabla[i])
    <3>1. /\ tabla[i].etapa = "AlmacenamientoFinal" /\ tabla'[i].etapa = "AlmacenamientoFinal"
          /\ (tabla'[i].estado = "FinalizadoOK") # (tabla[i].estado = "FinalizadoOK")
      BY <1>2, <1>4, <2>2 DEF Previas
    <3>2. tabla'[i].estado # tabla[i].estado
      BY <3>1
    <3>3. tabla[i].job = j
      BY <1>1, <1>4, <3>2, FilasEs DEF EsTabla, Extiende
    <3>4. CASE tabla'[i].estado = "FinalizadoOK"
      BY <1>2, <1>4, <3>1, <3>3, <3>4 DEF Cerrado
    <3>5. CASE tabla'[i].estado # "FinalizadoOK"
      <4>1. tabla[i].estado = "FinalizadoOK"
        BY <3>1, <3>5
      <4>2. tabla[k].etapa \in Etapas
        BY <1>1, <1>4, FilasEs DEF EsTabla, TipoFila
      <4>3. tabla[k].etapa \in Previas(tabla[i])
        BY <3>1, <4>1, <4>2 DEF Previas
      <4> QED
        BY <1>1, <1>2, <1>3, <1>4, <4>3
    <3> QED
      BY <3>4, <3>5
  <2> QED
    BY <2>1, <2>2
<1>5. CASE i \in Filas /\ k \in Nuevas
  <2>1. tabla[i].job = j /\ j \notin tardios' /\ j \notin tardios
    BY <1>1, <1>2, <1>5
  <2>2. f \in Filas /\ tabla[f].job = j /\ tabla[f].estado = "EnProceso"
    BY <2>1 DEF Contada
  <2>3. Sigue(tabla[f].etapa, tabla'[k].etapa) /\ tabla[f].etapa \in Etapas
    BY <1>1, <1>5, <2>2, FilasEs DEF EsTabla, Ordena, TipoFila
  <2>4. tabla[f].etapa \in Previas(tabla'[i])
    BY <2>3, PreviasDe
  <2>5. CASE tabla[f].etapa \in Previas(tabla[i])
    BY <1>3, <1>5, <2>1, <2>2, <2>5
  <2>6. CASE tabla[f].etapa \notin Previas(tabla[i])
    <3>1. tabla[i].etapa = "AlmacenamientoFinal" /\ tabla'[i].estado = "FinalizadoOK"
      BY <1>2, <1>5, <2>3, <2>4, <2>6 DEF Previas, Etapas
    <3>2. tabla[i].estado # "FinalizadoOK"
      BY <2>3, <2>6, <3>1 DEF Previas
    <3>3. tabla'[i].etapa = "AlmacenamientoFinal" /\ tabla[f].etapa = "AlmacenamientoFinal"
      BY <1>2, <1>5, <2>3, <2>6, <3>1 DEF Previas, Etapas
    <3> QED
      BY <2>3, <3>3 DEF Sigue
  <2> QED
    BY <2>5, <2>6
<1>6. CASE i \in Nuevas /\ k \in Filas
  BY <1>1, <1>2, <1>6 DEF Cerrado
<1>7. CASE i \in Nuevas /\ k \in Nuevas
  <2>1. tabla'[i].etapa # "Transformacion"
    BY DEF Previas
  <2>2. i = k
    BY <1>7, <2>1 DEF Ordena
  <2> QED
    BY <1>1, <1>7, <2>1, <2>2 DEF Previas
<1> QED
  BY <1>1, <1>4, <1>5, <1>6, <1>7

LEMMA FinalUnicaTras ==
  ASSUME IInv, TypeOK', NEW s \in Sockets, Paso(s), NEW f, Contada(f, s), Ordena(f, s)
  PROVE  EtapaFinalUnica'
<1> DEFINE j == maestro[s].job
           Finales == {"ReduccionGlobal", "AlmacenamientoFinal"}
<1>1. /\ TypeOK /\ tardios \subseteq tardios'
      /\ \A r \in Filas' : r \in Filas \/ r \in Nuevas
      /\ \A r \in Nuevas : tabla'[r].job = j
      /\ \A r \in Filas : tabla'[r].job = tabla[r].job /\ tabla'[r].etapa = tabla[r].etapa
  BY FilasTras DEF IInv, Paso, Nueva, MismaClave
<1>2. \A r, q \in Filas : /\ tabla[r].job = tabla[q].job /\ tabla[r].job \notin tardios
                          /\ tabla[q].etapa \in Previas(tabla[r])
                          => tabla[q].estado # "EnProceso"
  BY DEF IInv, EnEtapas
<1>3. ASSUME NEW i \in Filas, NEW k \in Nuevas,
             tabla[i].job = j, j \notin tardios', tabla[i].etapa = tabla'[k].etapa,
             tabla[i].etapa \in Finales
      PROVE  FALSE
  <2>1. f \in Filas /\ tabla[f].job = j /\ tabla[f].estado = "EnProceso"
    BY <1>3 DEF Contada
  <2>2. Sigue(tabla[f].etapa, tabla[i].etapa)
    BY <1>3 DEF Ordena
  <2>3. tabla[f].etapa \in Previas(tabla[i])
    BY <1>3, <2>2 DEF Sigue, Previas, Etapas
  <2> QED
    BY <1>1, <1>2, <1>3, <2>1, <2>3
<1>4. \A i, k \in Filas : (/\ tabla[i].job = tabla[k].job /\ tabla[i].etapa = tabla[k].etapa
                           /\ tabla[i].etapa \in Finales /\ tabla[i].job \notin tardios) => i = k
  BY DEF IInv, EtapaFinalUnica
<1> SUFFICES ASSUME NEW i \in Filas', NEW k \in Filas',
                    tabla'[i].job = tabla'[k].job, tabla'[i].etapa = tabla'[k].etapa,
                    tabla'[i].etapa \in Finales, tabla'[i].job \notin tardios'
             PROVE  i = k
  BY DEF EtapaFinalUnica
<1>5. CASE i \in Filas /\ k \in Filas
  BY <1>1, <1>4, <1>5
<1>6. CASE i \in Filas /\ k \in Nuevas
  BY <1>1, <1>3, <1>6
<1>7. CASE i \in Nuevas /\ k \in Filas
  BY <1>1, <1>3, <1>7
<1>8. CASE i \in Nuevas /\ k \in Nuevas
  BY <1>8 DEF Ordena
<1> QED
  BY <1>1, <1>5, <1>6, <1>7, <1>8

-----------------------------------------------------------------------------
(* What the disconnection finds. *)

PorVenir(s) == tareas[s] # {} \/ porEnviar[s] # {} \/ aYama[s] # <<>>
               \/ \E m \in Rango(aMaestro[s]) : m.tipo = "etapa"

Encontrable(s) ==
  \/ yama # "viva" \/ maestro[s].est # "activo"
  \/ ErrorJob \in Rango(aMaestro[s])
  \/ EnProceso(s, maestro[s].job) # {}

LEMMA EncuentraTras ==
  ASSUME TypeOK, TypeOK', DesconexionEncuentra, NEW s \in Sockets, Paso(s),
         yama = "viva", Encontrable(s)'
  PROVE  DesconexionEncuentra'
<1> SUFFICES ASSUME NEW u \in Sockets, yama' = "viva", maestro'[u].est = "activo", PorVenir(u)'
             PROVE  EnProceso(u, maestro[u].job)' # {} \/ ErrorJob \in Rango(aMaestro'[u])
  BY DEF DesconexionEncuentra, PorVenir, ErrorJob
<1>1. CASE u = s
  BY <1>1 DEF Encontrable, ErrorJob
<1>2. CASE u # s
  <2>1. /\ maestro'[u] = maestro[u] /\ aYama'[u] = aYama[u] /\ aMaestro'[u] = aMaestro[u]
        /\ tareas' = tareas /\ porEnviar' = porEnviar
    BY <1>2 DEF Paso, Corrientes
  <2>2. PorVenir(u)
    BY <2>1 DEF PorVenir
  <2>3. EnProceso(u, maestro[u].job) # {} \/ ErrorJob \in Rango(aMaestro[u])
    BY <2>1, <2>2 DEF DesconexionEncuentra, PorVenir
  <2>4. CASE ErrorJob \in Rango(aMaestro[u])
    BY <2>1, <2>4
  <2>5. CASE EnProceso(u, maestro[u].job) # {}
    <3>1. PICK i \in Filas : /\ tabla[i].master = u /\ tabla[i].job = maestro[u].job
                             /\ tabla[i].estado = "EnProceso"
      BY <2>5 DEF EnProceso, DeJob, Filas
    <3>2. /\ i \in Filas' /\ MismaClave(tabla'[i], tabla[i]) /\ tabla'[i].estado = "EnProceso"
      BY <1>2, <3>1, FilasTras DEF Paso
    <3> QED
      BY <2>1, <3>1, <3>2 DEF EnProceso, DeJob, Filas, MismaClave
  <2> QED
    BY <2>3, <2>4, <2>5
<1> QED
  BY <1>1, <1>2

-----------------------------------------------------------------------------
(* What an answer is, and what sending and giving back loads does. *)

LEMMA RespuestaEs ==
  ASSUME IInv, NEW s \in Sockets, NEW e, NEW r, Respuesta(s, e, r), NEW f, f = Head(aYama[s]).fila
  PROVE  /\ yama = "viva" /\ FilaResp(s) = tabla[f] /\ f \in Filas /\ tabla[f] \in TipoFila(Len(tabla))
         /\ tabla[f].etapa = e /\ Propia(f, s) /\ BienClavada(tabla[f])
         /\ f \in DeJob(tabla, s, maestro[s].job)
         /\ Contada(f, s) /\ tardios \subseteq tardios' /\ tardios' \subseteq Jobs
         /\ aYama' \in [Sockets -> Seq(TipoRespuesta(Len(tabla)))]
         /\ \A u \in Sockets \ {s} : aYama'[u] = aYama[u]
         /\ \A i \in DOMAIN aYama'[s] : \E k \in DOMAIN aYama[s] : aYama'[s][i] = aYama[s][k]
         /\ tabla[f].estado = "EnProceso" \/ tardios' # {}
         /\ e = "AlmacenamientoFinal" => maestro[s].est = "saliendo"
<1>1. /\ yama = "viva" /\ aYama[s] # <<>> /\ FilaResp(s) = tabla[f] /\ tabla[f].etapa = e
      /\ aYama' = [aYama EXCEPT ![s] = Tail(@)]
      /\ tardios' = IF tabla[f].estado = "EnProceso" THEN tardios ELSE tardios \cup {tabla[f].job}
  BY DEF Respuesta, FilaResp
<1>2. aYama \in [Sockets -> Seq(TipoRespuesta(Len(tabla)))] /\ aYama[s] \in Seq(TipoRespuesta(Len(tabla)))
  BY DEF IInv, TypeOK
<1>3. /\ Tail(aYama[s]) \in Seq(TipoRespuesta(Len(tabla)))
      /\ Head(aYama[s]) = aYama[s][1] /\ 1 \in DOMAIN aYama[s]
      /\ Head(aYama[s]) \in TipoRespuesta(Len(tabla))
      /\ \A i \in DOMAIN Tail(aYama[s]) : i + 1 \in DOMAIN aYama[s] /\ Tail(aYama[s])[i] = aYama[s][i + 1]
  <2>1. PICK S : S = TipoRespuesta(Len(tabla))
    OBVIOUS
  <2>2. aYama[s] \in Seq(S) /\ aYama[s] # <<>>
    BY <1>1, <1>2, <2>1
  <2>3. /\ Len(aYama[s]) \in Nat /\ DOMAIN aYama[s] = 1 .. Len(aYama[s]) /\ 1 \in DOMAIN aYama[s]
        /\ Head(aYama[s]) = aYama[s][1]
    BY <2>2
  <2>4. /\ Head(aYama[s]) \in S /\ Tail(aYama[s]) \in Seq(S)
        /\ Len(Tail(aYama[s])) = Len(aYama[s]) - 1
        /\ \A i \in 1 .. Len(Tail(aYama[s])) : Tail(aYama[s])[i] = aYama[s][i + 1]
    BY <2>2, HeadTailProperties
  <2>5. DOMAIN Tail(aYama[s]) = 1 .. Len(aYama[s]) - 1
    BY <2>4, LenProperties
  <2>6. \A i \in DOMAIN Tail(aYama[s]) : i + 1 \in DOMAIN aYama[s]
    BY <2>3, <2>5
  <2> QED
    BY <2>1, <2>3, <2>4, <2>5, <2>6
<1>4. f \in Filas /\ tabla[f] \in TipoFila(Len(tabla)) /\ Filas = 1 .. Len(tabla)
  BY <1>3, FilasEs DEF EsTabla, TipoRespuesta, IInv
<1>5. Propia(f, s) /\ BienClavada(tabla[f])
  BY <1>3, <1>4 DEF IInv, Propias, Claves
<1>6. f \in DeJob(tabla, s, maestro[s].job)
  BY <1>4, <1>5 DEF DeJob, Propia, Filas
<1>7. tabla[f].job \in Jobs /\ tardios \subseteq Jobs
  BY <1>4 DEF TipoFila, IInv, TypeOK
<1>8. Contada(f, s) /\ tardios \subseteq tardios' /\ tardios' \subseteq Jobs
      /\ (tabla[f].estado = "EnProceso" \/ tardios' # {})
  BY <1>1, <1>4, <1>5, <1>7 DEF Contada, Propia
<1>9. /\ aYama' \in [Sockets -> Seq(TipoRespuesta(Len(tabla)))]
      /\ \A u \in Sockets \ {s} : aYama'[u] = aYama[u]
      /\ aYama'[s] = Tail(aYama[s])
  BY <1>1, <1>2, <1>3
<1>10. \A i \in DOMAIN aYama'[s] : \E k \in DOMAIN aYama[s] : aYama'[s][i] = aYama[s][k]
  BY <1>3, <1>9
<1>11. e = "AlmacenamientoFinal" => maestro[s].est = "saliendo"
  BY <1>1, <1>3 DEF IInv, Almacenado
<1> QED
  BY <1>1, <1>4, <1>5, <1>6, <1>8, <1>9, <1>10, <1>11

LEMMA EnviarEs ==
  ASSUME TypeOK, NEW s \in Sockets, NEW n \in Nat, Len(tabla) <= n,
         NEW m \in TipoMensaje(n), Enviar(s, m)
  PROVE  /\ aMaestro' \in [Sockets -> Seq(TipoMensaje(n))]
         /\ \A u \in Sockets \ {s} : aMaestro'[u] = aMaestro[u]
         /\ \A i \in DOMAIN aMaestro'[s] :
              \/ \E k \in DOMAIN aMaestro[s] : aMaestro'[s][i] = aMaestro[s][k]
              \/ aMaestro'[s][i] = m
         /\ maestro[s].est # "saliendo" => m \in Rango(aMaestro'[s])
<1>1. TipoMensaje(Len(tabla)) \subseteq TipoMensaje(n)
  BY FilasEs, MasFilas DEF EsTabla
<1>2. \A u \in Sockets : aMaestro[u] \in Seq(TipoMensaje(n))
  BY <1>1, SeqMonotonic DEF TypeOK
<1>3. DOMAIN aMaestro = Sockets /\ aMaestro \in [Sockets -> Seq(TipoMensaje(n))]
  BY <1>2 DEF TypeOK
<1>4. CASE maestro[s].est = "saliendo"
  BY <1>3, <1>4 DEF Enviar
<1>5. CASE maestro[s].est # "saliendo"
  <2>1. aMaestro' = [aMaestro EXCEPT ![s] = Append(@, m)]
    BY <1>5 DEF Enviar
  <2>2. aMaestro'[s] = Append(aMaestro[s], m) /\ Append(aMaestro[s], m) \in Seq(TipoMensaje(n))
    BY <1>2, <1>3, <2>1
  <2>3. /\ Len(aMaestro[s]) \in Nat /\ DOMAIN aMaestro[s] = 1 .. Len(aMaestro[s])
        /\ DOMAIN aMaestro'[s] = 1 .. Len(aMaestro[s]) + 1
        /\ aMaestro'[s][Len(aMaestro[s]) + 1] = m
        /\ \A i \in 1 .. Len(aMaestro[s]) : aMaestro'[s][i] = aMaestro[s][i]
    BY <1>2, <2>2
  <2>4. \A i \in DOMAIN aMaestro'[s] : i \in DOMAIN aMaestro[s] \/ i = Len(aMaestro[s]) + 1
    BY <2>3
  <2>5. m \in Rango(aMaestro'[s])
    BY <2>3 DEF Rango
  <2> QED
    BY <1>3, <2>1, <2>2, <2>3, <2>4, <2>5
<1> QED
  BY <1>4, <1>5

LEMMA QuitarEs ==
  ASSUME NEW c \in [Nodos -> TipoCarga], NEW ns, NEW j \in Jobs
  PROVE  Quitar(c, ns, j) \in [Nodos -> TipoCarga]
<1> SUFFICES ASSUME NEW n \in Nodos
             PROVE  (IF n \in ns THEN [actual |-> c[n].actual - c[n].porJob[j],
                                      porJob |-> [c[n].porJob EXCEPT ![j] = 0]]
                     ELSE c[n]) \in TipoCarga
  BY DEF Quitar
<1>1. c[n].actual \in Int /\ c[n].porJob \in [Jobs -> Nat] /\ c[n] \in TipoCarga
  BY DEF TipoCarga
<1>2. c[n].actual - c[n].porJob[j] \in Int /\ [c[n].porJob EXCEPT ![j] = 0] \in [Jobs -> Nat]
  BY <1>1
<1> QED
  BY <1>1, <1>2 DEF TipoCarga

LEMMA SumarEs ==
  ASSUME NEW c \in [Nodos -> TipoCarga], NEW n \in Nodos, NEW j \in Jobs, NEW k \in Nat
  PROVE  Sumar(c, n, j, k) \in [Nodos -> TipoCarga]
<1>1. c[n] \in TipoCarga
  OBVIOUS
<1>2. PICK d : d = [c[n] EXCEPT !.actual = @ + k]
  OBVIOUS
<1>3. d \in TipoCarga /\ d.porJob \in [Jobs -> Nat]
  BY <1>1, <1>2 DEF TipoCarga
<1>4. PICK d2 : d2 = [d EXCEPT !.porJob[j] = @ + k]
  OBVIOUS
<1>5. d2 \in TipoCarga
  <2>1. [d.porJob EXCEPT ![j] = @ + k] \in [Jobs -> Nat]
    BY <1>3
  <2> QED
    BY <1>3, <1>4, <2>1 DEF TipoCarga
<1>6. Sumar(c, n, j, k) = [c EXCEPT ![n] = d2]
  <2>1. PICK c1 : c1 = [c EXCEPT ![n] = d]
    OBVIOUS
  <2>2. c1 = [c EXCEPT ![n].actual = @ + k]
    BY <1>2, <2>1
  <2>3. Sumar(c, n, j, k) = [c1 EXCEPT ![n].porJob[j] = @ + k]
    BY <2>2 DEF Sumar
  <2>4. c1[n] = d
    BY <2>1
  <2>5. Sumar(c, n, j, k) = [c1 EXCEPT ![n] = d2]
    BY <1>4, <2>3, <2>4
  <2> QED
    BY <2>1, <2>5
<1> QED
  BY <1>5, <1>6

(* The types after a handler. *)
LEMMA TipoTras ==
  ASSUME TypeOK, Len(tabla') \in Nat, Len(tabla) <= Len(tabla'),
         tabla' \in Seq(TipoFila(Len(tabla'))),
         aMaestro' \in [Sockets -> Seq(TipoMensaje(Len(tabla')))],
         aYama' \in [Sockets -> Seq(TipoRespuesta(Len(tabla)))],
         cargas' \in [Nodos -> TipoCarga], yama' \in {"viva", "caida", "fin", "gira"},
         maestro' \in [Sockets -> TipoMaestro],
         activos' \in {<<>>} \cup ListasActivas, tardios' \subseteq Jobs,
         UNCHANGED <<numeroJob, tareas, porEnviar, fallos>>
  PROVE  TypeOK'
<1>1. /\ 1 .. Len(tabla) \subseteq 1 .. Len(tabla')
      /\ TipoRespuesta(Len(tabla)) \subseteq TipoRespuesta(Len(tabla'))
  BY FilasEs, MasFilas DEF EsTabla
<1>2. \A u \in Sockets : aYama'[u] \in Seq(TipoRespuesta(Len(tabla')))
  BY <1>1, SeqMonotonic
<1>3. aYama' \in [Sockets -> Seq(TipoRespuesta(Len(tabla')))]
  BY <1>2
<1>4. /\ tareas' \in [Sockets -> SUBSET (1 .. Len(tabla'))]
      /\ porEnviar' \in [Sockets -> SUBSET TipoRespuesta(Len(tabla'))]
  BY <1>1 DEF TypeOK
<1>5. numeroJob' \in 1 .. MaxJobs + 1 /\ fallos' \in 0 .. MaxFallos
  BY DEF TypeOK
<1> QED
  BY <1>3, <1>4, <1>5 DEF TypeOK

(* The invariant after a step of YAMA over the job of a master, but for its *)
(* stages.                                                                 *)
LEMMA InvPasoDe ==
  ASSUME IInv, TypeOK', NEW s \in Sockets, Paso(s), yama = "viva", Encontrable(s)', CaidaExplicada',
         EnEtapas', EtapaFinalUnica'
  PROVE  IInv'
<1>1. Extiende(s)
  BY DEF Paso
<1> QED
  BY <1>1, ClavesTras, NumeradosTras, LimpiezaTras, PropiasTras, AlmacenadoTras, EncuentraTras DEF IInv

LEMMA InvAtendido ==
  ASSUME IInv, TypeOK', NEW s \in Sockets, Paso(s), yama = "viva", Encontrable(s)', CaidaExplicada',
         NEW f, Contada(f, s), Ordena(f, s), Cerrado(s)
  PROVE  IInv'
BY EnEtapasTras, FinalUnicaTras, InvPasoDe

-----------------------------------------------------------------------------
(* Tables made from the table. *)

LEMMA PrimeraFilaEs ==
  ASSUME TypeOK, NEW s, NEW j, NEW n, NEW b, NEW f \in DeJob(tabla, s, j),
         tabla[f].nodo = n, tabla[f].blk = b, NEW p, p = PrimeraFila(tabla, n, b, s, j)
  PROVE  /\ p \in DeJob(tabla, s, j) /\ p \in Filas /\ tabla[p].nodo = n /\ tabla[p].blk = b
         /\ \A i \in DeJob(tabla, s, j) : tabla[i].nodo = n /\ tabla[i].blk = b => p <= i
<1>1. PICK S : S = {i \in DeJob(tabla, s, j) : tabla[i].nodo = n /\ tabla[i].blk = b}
  OBVIOUS
<1>2. S # {}
  BY <1>1
<1>3. S \subseteq Nat
  BY <1>1, FilasEs DEF EsTabla, DeJob, Filas
<1>4. p \in S /\ \A i \in S : p <= i
  BY <1>1, <1>2, <1>3, HayMinimo DEF PrimeraFila
<1> QED
  BY <1>1, <1>4 DEF DeJob, Filas

LEMMA SinRetoque ==
  ASSUME TypeOK, NEW e
  PROVE  tabla \in Seq(TipoFila(Len(tabla))) /\ Retocada(tabla, tabla, {}, e) /\ Alargada(tabla, tabla, 0)
<1>1. Len(tabla) \in Nat /\ tabla \in Seq(TipoFila(Len(tabla)))
  BY FilasEs DEF EsTabla, TypeOK
<1> QED
  BY <1>1 DEF Retocada, MismaClave, Alargada

-----------------------------------------------------------------------------
(* A job is aborted: its rows go to Error and the master is told. *)

LEMMA EliminarEs ==
  ASSUME TypeOK, NEW s, NEW j \in Jobs, NEW t \in Seq(TipoFila(Len(tabla))), NEW D, D \subseteq DeJob(tabla, s, j),
         Retocada(tabla, t, D, "Error"), EliminarEstadosMultiples(s, j, t, cargas)
  PROVE  /\ tabla' \in Seq(TipoFila(Len(tabla)))
         /\ Retocada(tabla, tabla', DeJob(tabla, s, j), "Error")
         /\ cargas' \in [Nodos -> TipoCarga]
<1>1. Len(tabla) \in Nat /\ Filas = 1 .. Len(tabla)
  BY FilasEs DEF EsTabla
<1>2. Len(t) = Len(tabla) /\ DOMAIN t = 1 .. Len(tabla)
  BY LenProperties DEF Retocada
<1>3. \A i \in 1 .. Len(tabla) : MismaClave(t[i], tabla[i])
  BY <1>2 DEF Retocada
<1>4. DeJob(t, s, j) = DeJob(tabla, s, j)
  BY <1>1, <1>2, <1>3 DEF DeJob, MismaClave, Filas
<1>5. tabla' = [i \in DOMAIN t |-> IF i \in DeJob(tabla, s, j) THEN [t[i] EXCEPT !.estado = "Error"] ELSE t[i]]
  BY <1>4 DEF EliminarEstadosMultiples
<1>6. tabla' \in Seq(TipoFila(Len(tabla))) /\ Retocada(t, tabla', DeJob(tabla, s, j), "Error")
  BY <1>1, <1>5, RetocaVarias DEF Estados
<1>7. Retocada(tabla, tabla', DeJob(tabla, s, j), "Error")
  BY <1>2, <1>6 DEF Retocada, MismaClave
<1>8. cargas' \in [Nodos -> TipoCarga]
  BY QuitarEs DEF EliminarEstadosMultiples, TypeOK
<1> QED
  BY <1>6, <1>7, <1>8

(* In particular no row of the job stays in process. *)
LEMMA AbortoEs ==
  ASSUME TypeOK, NEW s \in Sockets, maestro[s].job \in Jobs,
         NEW t \in Seq(TipoFila(Len(tabla))), NEW D, D \subseteq DeJob(tabla, s, maestro[s].job),
         Retocada(tabla, t, D, "Error"), AbortarJob(s, maestro[s].job, t, cargas)
  PROVE  /\ Extiende(s) /\ Nuevas = {} /\ Len(tabla') = Len(tabla)
         /\ tabla' \in Seq(TipoFila(Len(tabla))) /\ cargas' \in [Nodos -> TipoCarga]
         /\ \A i \in Filas : tabla'[i].estado = tabla[i].estado \/ tabla'[i].estado = "Error"
         /\ aMaestro' \in [Sockets -> Seq(TipoMensaje(Len(tabla)))]
         /\ \A u \in Sockets \ {s} : aMaestro'[u] = aMaestro[u]
         /\ \A i \in DOMAIN aMaestro'[s] :
              \/ \E k \in DOMAIN aMaestro[s] : aMaestro'[s][i] = aMaestro[s][k]
              \/ aMaestro'[s][i].filas \subseteq Nuevas
         /\ maestro[s].est # "saliendo" => ErrorJob \in Rango(aMaestro'[s])
<1>1. Len(tabla) \in Nat /\ Filas = 1 .. Len(tabla)
  BY FilasEs DEF EsTabla
<1>2. EliminarEstadosMultiples(s, maestro[s].job, t, cargas) /\ Enviar(s, ErrorJob)
  BY DEF AbortarJob
<1>3. /\ tabla' \in Seq(TipoFila(Len(tabla))) /\ cargas' \in [Nodos -> TipoCarga]
      /\ Retocada(tabla, tabla', DeJob(tabla, s, maestro[s].job), "Error")
  BY <1>2, EliminarEs
<1>4. Len(tabla') = Len(tabla) /\ Nuevas = {}
  BY <1>1, <1>3 DEF Retocada, Nuevas
<1>6. Extiende(s) /\ \A i \in Filas : tabla'[i].estado = tabla[i].estado \/ tabla'[i].estado = "Error"
  <2>1. \A i \in 1 .. Len(tabla) :
          /\ MismaClave(tabla'[i], tabla[i])
          /\ tabla'[i].estado = IF i \in DeJob(tabla, s, maestro[s].job) THEN "Error" ELSE tabla[i].estado
    BY <1>3 DEF Retocada
  <2>2. \A i \in DeJob(tabla, s, maestro[s].job) : tabla[i].master = s /\ tabla[i].job = maestro[s].job
    BY DEF DeJob
  <2>3. Len(tabla) <= Len(tabla') /\ \A k \in Nuevas : Nueva(tabla'[k], s)
    BY <1>1, <1>4
  <2> QED
    BY <1>1, <2>1, <2>2, <2>3 DEF Extiende
<1>7. ErrorJob \in TipoMensaje(Len(tabla)) /\ ErrorJob.filas = {}
  BY DEF ErrorJob, TipoMensaje
<1>8. /\ aMaestro' \in [Sockets -> Seq(TipoMensaje(Len(tabla)))]
      /\ \A u \in Sockets \ {s} : aMaestro'[u] = aMaestro[u]
      /\ \A i \in DOMAIN aMaestro'[s] :
           \/ \E k \in DOMAIN aMaestro[s] : aMaestro'[s][i] = aMaestro[s][k]
           \/ aMaestro'[s][i] = ErrorJob
      /\ maestro[s].est # "saliendo" => ErrorJob \in Rango(aMaestro'[s])
  BY <1>1, <1>2, <1>7, EnviarEs
<1> QED
  BY <1>3, <1>4, <1>6, <1>7, <1>8

(* After an answer. *)
LEMMA InvAborto ==
  ASSUME IInv, NEW s \in Sockets, NEW e, NEW r, Respuesta(s, e, r), e # "AlmacenamientoFinal",
         NEW t \in Seq(TipoFila(Len(tabla))), NEW D, D \subseteq DeJob(tabla, s, maestro[s].job),
         Retocada(tabla, t, D, "Error"), AbortarJob(s, FilaResp(s).job, t, cargas),
         activos' \in {<<>>} \cup ListasActivas, UNCHANGED <<yama, numeroJob, maestro, hilos, fallos>>
  PROVE  IInv' /\ Extiende(s)
<1>1. PICK f : f = Head(aYama[s]).fila
  OBVIOUS
<1>2. /\ yama = "viva" /\ FilaResp(s) = tabla[f] /\ f \in Filas /\ tabla[f] \in TipoFila(Len(tabla))
      /\ Propia(f, s) /\ Contada(f, s) /\ tardios \subseteq tardios' /\ tardios' \subseteq Jobs
      /\ aYama' \in [Sockets -> Seq(TipoRespuesta(Len(tabla)))]
      /\ \A u \in Sockets \ {s} : aYama'[u] = aYama[u]
      /\ \A i \in DOMAIN aYama'[s] : \E k \in DOMAIN aYama[s] : aYama'[s][i] = aYama[s][k]
  BY <1>1, RespuestaEs
<1>3. FilaResp(s).job = maestro[s].job /\ maestro[s].job \in Jobs /\ EnYama(s)
  BY <1>2 DEF Propia, TipoFila
<1>4. TypeOK
  BY DEF IInv
<1>5. /\ Extiende(s) /\ Nuevas = {} /\ Len(tabla') = Len(tabla)
      /\ tabla' \in Seq(TipoFila(Len(tabla))) /\ cargas' \in [Nodos -> TipoCarga]
      /\ \A i \in Filas : tabla'[i].estado = tabla[i].estado \/ tabla'[i].estado = "Error"
      /\ aMaestro' \in [Sockets -> Seq(TipoMensaje(Len(tabla)))]
      /\ \A u \in Sockets \ {s} : aMaestro'[u] = aMaestro[u]
      /\ \A i \in DOMAIN aMaestro'[s] :
           \/ \E k \in DOMAIN aMaestro[s] : aMaestro'[s][i] = aMaestro[s][k]
           \/ aMaestro'[s][i].filas \subseteq Nuevas
      /\ maestro[s].est # "saliendo" => ErrorJob \in Rango(aMaestro'[s])
  BY <1>3, <1>4, AbortoEs
<1>6. UNCHANGED <<yama, numeroJob, maestro, tareas, porEnviar, fallos>>
  BY DEF hilos
<1>7. TypeOK'
  <2>1. Len(tabla) \in Nat
    BY <1>4, FilasEs DEF EsTabla
  <2>2. yama' \in {"viva", "caida", "fin", "gira"} /\ maestro' \in [Sockets -> TipoMaestro]
    BY <1>4, <1>6 DEF TypeOK
  <2> QED
    BY <1>2, <1>4, <1>5, <1>6, <2>1, <2>2, TipoTras
<1>8. Corrientes(s)
  BY <1>2, <1>5 DEF Corrientes
<1>9. Paso(s)
  BY <1>2, <1>3, <1>5, <1>6, <1>8 DEF Paso, EnYama
<1>10. Ordena(f, s) /\ Cerrado(s)
  BY <1>5 DEF Ordena, Cerrado
<1>11. Encontrable(s)'
  BY <1>5, <1>6 DEF Encontrable, ErrorJob
<1>12. CaidaExplicada'
  BY <1>2, <1>6 DEF CaidaExplicada
<1> QED
  BY <1>2, <1>5, <1>7, <1>9, <1>10, <1>11, <1>12, InvAtendido


-----------------------------------------------------------------------------
(* An answer handled, whatever it does to the table and to the load.       *)

Manda(s) ==
  /\ aMaestro' \in [Sockets -> Seq(TipoMensaje(Len(tabla')))]
  /\ \A u \in Sockets \ {s} : aMaestro'[u] = aMaestro[u]
  /\ \A i \in DOMAIN aMaestro'[s] :
       \/ \E k \in DOMAIN aMaestro[s] : aMaestro'[s][i] = aMaestro[s][k]
       \/ aMaestro'[s][i].filas \subseteq Nuevas

LEMMA MandaNada ==
  ASSUME TypeOK, NEW s \in Sockets, Len(tabla') = Len(tabla), UNCHANGED aMaestro
  PROVE  Manda(s)
BY DEF Manda, TypeOK

LEMMA MandaError ==
  ASSUME TypeOK, NEW s \in Sockets, Len(tabla') = Len(tabla), Enviar(s, ErrorJob)
  PROVE  Manda(s) /\ (maestro[s].est # "saliendo" => ErrorJob \in Rango(aMaestro'[s]))
<1>1. ErrorJob \in TipoMensaje(Len(tabla)) /\ ErrorJob.filas = {}
  BY DEF ErrorJob, TipoMensaje
<1>2. Len(tabla) \in Nat /\ Len(tabla) <= Len(tabla)
  BY FilasEs DEF EsTabla
<1>3. /\ aMaestro' \in [Sockets -> Seq(TipoMensaje(Len(tabla)))]
      /\ \A u \in Sockets \ {s} : aMaestro'[u] = aMaestro[u]
      /\ \A i \in DOMAIN aMaestro'[s] :
           \/ \E k \in DOMAIN aMaestro[s] : aMaestro'[s][i] = aMaestro[s][k]
           \/ aMaestro'[s][i] = ErrorJob
      /\ maestro[s].est # "saliendo" => ErrorJob \in Rango(aMaestro'[s])
  BY <1>1, <1>2, EnviarEs
<1>4. \A i \in DOMAIN aMaestro'[s] : aMaestro'[s][i] = ErrorJob => aMaestro'[s][i].filas \subseteq Nuevas
  BY <1>1
<1> QED
  BY <1>3, <1>4 DEF Manda

LEMMA MandaEtapa ==
  ASSUME TypeOK, NEW s \in Sockets, Len(tabla') \in Nat, Len(tabla) <= Len(tabla'),
         NEW S, S \subseteq Nuevas, Enviar(s, Etapa(S))
  PROVE  Manda(s)
<1>1. PICK n \in Nat : n = Len(tabla')
  OBVIOUS
<1>2. Len(tabla) \in Nat /\ Len(tabla) <= n
  BY <1>1, FilasEs DEF EsTabla
<1>3. PICK l \in Nat : l = Len(tabla) /\ l <= n
  BY <1>2
<1>4. l + 1 .. n \subseteq 1 .. n
  OBVIOUS
<1>5. S \subseteq 1 .. n
  BY <1>1, <1>3, <1>4 DEF Nuevas
<1>6. PICK m : m = Etapa(S)
  OBVIOUS
<1>7. m \in TipoMensaje(n) /\ m.filas = S
  BY <1>5, <1>6 DEF Etapa, TipoMensaje
<1>8. /\ aMaestro' \in [Sockets -> Seq(TipoMensaje(n))]
      /\ \A u \in Sockets \ {s} : aMaestro'[u] = aMaestro[u]
      /\ \A i \in DOMAIN aMaestro'[s] :
           \/ \E k \in DOMAIN aMaestro[s] : aMaestro'[s][i] = aMaestro[s][k]
           \/ aMaestro'[s][i] = m
  BY <1>2, <1>6, <1>7, EnviarEs
<1>9. \A i \in DOMAIN aMaestro'[s] : aMaestro'[s][i] = m => aMaestro'[s][i].filas \subseteq Nuevas
  BY <1>7
<1> QED
  BY <1>1, <1>8, <1>9 DEF Manda

LEMMA InvRespuesta ==
  ASSUME IInv, NEW s \in Sockets, NEW e, NEW r, Respuesta(s, e, r), NEW f, f = Head(aYama[s]).fila,
         Len(tabla') \in Nat, tabla' \in Seq(TipoFila(Len(tabla'))), Extiende(s), Manda(s),
         cargas' \in [Nodos -> TipoCarga], yama' \in {"viva", "caida", "fin", "gira"},
         activos' \in {<<>>} \cup ListasActivas, UNCHANGED <<numeroJob, maestro, hilos, fallos>>,
         Ordena(f, s), Cerrado(s), Encontrable(s)', CaidaExplicada'
  PROVE  IInv' /\ Extiende(s)
<1>1. /\ yama = "viva" /\ f \in Filas /\ tabla[f] \in TipoFila(Len(tabla))
      /\ Propia(f, s) /\ Contada(f, s) /\ tardios \subseteq tardios' /\ tardios' \subseteq Jobs
      /\ aYama' \in [Sockets -> Seq(TipoRespuesta(Len(tabla)))]
      /\ \A u \in Sockets \ {s} : aYama'[u] = aYama[u]
      /\ \A i \in DOMAIN aYama'[s] : \E k \in DOMAIN aYama[s] : aYama'[s][i] = aYama[s][k]
  BY RespuestaEs
<1>2. UNCHANGED <<numeroJob, maestro, tareas, porEnviar, fallos>> /\ EnYama(s) /\ TypeOK
  BY <1>1 DEF hilos, Propia, IInv
<1>3. Len(tabla) <= Len(tabla') /\ maestro' \in [Sockets -> TipoMaestro]
  BY <1>2 DEF Extiende, TypeOK
<1>4. TypeOK'
  BY <1>1, <1>2, <1>3, TipoTras DEF Manda
<1>5. Corrientes(s)
  BY <1>1 DEF Corrientes, Manda
<1>6. Paso(s)
  BY <1>1, <1>2, <1>5 DEF Paso, EnYama
<1> QED
  BY <1>1, <1>4, <1>6, InvAtendido

-----------------------------------------------------------------------------
(* A row finished well.                                                    *)

LEMMA BloqueDeCopia ==
  ASSUME NEW n, NEW b, EsCopia(n, b)
  PROVE  n \in Nodos /\ b \in Nat
<1>1. PICK k \in Bloques, i \in 1 .. 2 :
        Archivo[k][i] # SinCopia /\ Archivo[k][i] = [nodo |-> n, blk |-> b]
  BY DEF EsCopia
<1> DEFINE Copias == [nodo : Nodos, blk : Nat]
<1>2. Archivo \in Seq((Copias \cup {SinCopia}) \X (Copias \cup {SinCopia}))
  BY JobsAssumption
<1>3. Archivo[k] \in (Copias \cup {SinCopia}) \X (Copias \cup {SinCopia})
  BY <1>2, ElementOfSeq DEF Bloques
<1>4. Archivo[k][i] \in Copias \cup {SinCopia}
  <2>1. i = 1 \/ i = 2
    OBVIOUS
  <2> QED
    BY <1>3, <2>1
<1>5. [nodo |-> n, blk |-> b] \in Copias
  BY <1>1, <1>4
<1> QED
  BY <1>5

(* Two rows with the same block number are of the same stage. *)
LEMMA MismaEtapa ==
  ASSUME NEW f, NEW g, f.etapa \in Etapas, g.etapa \in Etapas, BienClavada(f), BienClavada(g),
         f.blk = g.blk
  PROVE  f.etapa = g.etapa
<1>1. f.etapa = "Transformacion" => f.blk \in Nat
  BY BloqueDeCopia DEF BienClavada
<1>2. g.etapa = "Transformacion" => g.blk \in Nat
  BY BloqueDeCopia DEF BienClavada
<1> QED
  BY <1>1, <1>2 DEF BienClavada, Etapas, ReduccionLocal, ReduccionGlobal, AlmacenamientoFinal

TablaLista(f, s, t, ok) ==
  t = ActualizoTablaEstado(tabla, tabla[f].nodo, tabla[f].blk, s, tabla[f].job, ok)

UnaLista(s, e, t, ok) ==
  \E p \in DeJob(tabla, s, maestro[s].job) :
    /\ p \in Filas /\ tabla[p].etapa = e
    /\ t \in Seq(TipoFila(Len(tabla))) /\ Retocada(tabla, t, {p}, ok)

LEMMA ListaEs ==
  ASSUME IInv, NEW s \in Sockets, NEW e, NEW r, Respuesta(s, e, r), NEW f, f = Head(aYama[s]).fila,
         NEW ok, ok = "FinalizadoOK",
         NEW t, TablaLista(f, s, t, ok)
  PROVE  UnaLista(s, e, t, ok)
<1>1. /\ f \in Filas /\ tabla[f] \in TipoFila(Len(tabla)) /\ tabla[f].etapa = e
      /\ Propia(f, s) /\ BienClavada(tabla[f]) /\ f \in DeJob(tabla, s, maestro[s].job)
  BY RespuestaEs
<1>2. TypeOK /\ Claves /\ tabla[f].job = maestro[s].job
  BY <1>1 DEF IInv, Propia
<1>3. ok \in Estados
  BY DEF Estados
<1>4. PICK p \in DeJob(tabla, s, maestro[s].job) :
        /\ p \in Filas /\ tabla[p].blk = tabla[f].blk
        /\ t \in Seq(TipoFila(Len(tabla))) /\ Retocada(tabla, t, {p}, ok)
  <2>1. PICK n, b, j : n = tabla[f].nodo /\ b = tabla[f].blk /\ j = maestro[s].job
    OBVIOUS
  <2>2. /\ t = ActualizoTablaEstado(tabla, n, b, s, j, ok)
        /\ f \in DeJob(tabla, s, j) /\ tabla[f].nodo = n /\ tabla[f].blk = b
    BY <1>1, <1>2, <2>1 DEF TablaLista
  <2>3. PICK p : p = PrimeraFila(tabla, n, b, s, j)
    OBVIOUS
  <2>4. p \in DeJob(tabla, s, j) /\ p \in Filas /\ tabla[p].blk = b
    BY <1>2, <2>2, <2>3, PrimeraFilaEs
  <2>5. PICK u : u = t
    OBVIOUS
  <2>6. u = [tabla EXCEPT ![p].estado = ok]
    BY <2>2, <2>3, <2>5 DEF ActualizoTablaEstado
  <2>7. tabla \in Seq(TipoFila(Len(tabla))) /\ Len(tabla) \in Nat /\ p \in 1 .. Len(tabla)
    BY <1>2, <2>4, FilasEs DEF EsTabla, TypeOK
  <2>8. u \in Seq(TipoFila(Len(tabla))) /\ Retocada(tabla, u, {p}, ok)
    BY <1>3, <2>6, <2>7, RetocaUna
  <2> QED
    BY <2>1, <2>4, <2>5, <2>8
<1>5. tabla[p] \in TipoFila(Len(tabla)) /\ BienClavada(tabla[p])
  BY <1>2, <1>4, FilasEs DEF EsTabla, Claves
<1>6. tabla[p].etapa \in Etapas /\ tabla[f].etapa \in Etapas
  BY <1>1, <1>5 DEF TipoFila
<1>7. tabla[p].etapa = e
  BY <1>1, <1>4, <1>5, <1>6, MismaEtapa
<1> QED
  BY <1>4, <1>7 DEF UnaLista

(* Nothing follows: a row of the job is still in process. *)
LEMMA InvLista ==
  ASSUME IInv, NEW s \in Sockets, NEW e, NEW r, Respuesta(s, e, r), e # "AlmacenamientoFinal",
         NEW p \in DeJob(tabla, s, maestro[s].job), p \in Filas, tabla[p].etapa = e,
         NEW ok, ok = "FinalizadoOK",
         tabla' \in Seq(TipoFila(Len(tabla))), Retocada(tabla, tabla', {p}, ok),
         NEW q \in DeJob(tabla', s, maestro[s].job), tabla'[q].estado = "EnProceso",
         UNCHANGED <<yama, aMaestro, cargas, activos, numeroJob, maestro, hilos, fallos>>
  PROVE  IInv' /\ Extiende(s)
<1> DEFINE f == Head(aYama[s]).fila
<1>1. /\ yama = "viva" /\ f \in Filas /\ tabla[f] \in TipoFila(Len(tabla))
      /\ Propia(f, s) /\ f \in DeJob(tabla, s, maestro[s].job)
  BY RespuestaEs
<1>2. TypeOK /\ Len(tabla) \in Nat /\ Filas = 1 .. Len(tabla)
  BY FilasEs DEF IInv, EsTabla
<1>4. Len(tabla') = Len(tabla) /\ Nuevas = {}
  BY <1>2 DEF Retocada, Nuevas
<1>5. \A i \in Filas : /\ MismaClave(tabla'[i], tabla[i])
                       /\ tabla'[i].estado = IF i = p THEN ok ELSE tabla[i].estado
  BY <1>2 DEF Retocada
<1>6. Extiende(s)
  <2>1. tabla[p].master = s /\ tabla[p].job = maestro[s].job
    BY DEF DeJob
  <2>2. Len(tabla) <= Len(tabla')
    BY <1>2, <1>4
  <2> QED
    BY <1>2, <1>4, <1>5, <2>1, <2>2 DEF Extiende
<1>7. Manda(s)
  BY <1>2, <1>4, MandaNada
<1>8. cargas' \in [Nodos -> TipoCarga] /\ yama' = "viva" /\ activos' \in {<<>>} \cup ListasActivas
  BY <1>1, <1>2 DEF TypeOK
<1>9. Ordena(f, s) /\ Cerrado(s)
  BY <1>4, <1>5 DEF Ordena, Cerrado
<1>10. Encontrable(s)'
  <2>1. q \in EnProceso(s, maestro[s].job)'
    BY DEF EnProceso
  <2> QED
    BY <2>1 DEF Encontrable
<1>11. CaidaExplicada'
  BY <1>8 DEF CaidaExplicada
<1> QED
  BY <1>2, <1>4, <1>6, <1>7, <1>8, <1>9, <1>10, <1>11, InvRespuesta

(* Nothing of the job that comes before a row is in process. *)
AntesTermino(s, t, q) ==
  maestro[s].job \notin tardios' =>
    \A k \in DeJob(t, s, maestro[s].job) : t[k].etapa \in Previas(q) => t[k].estado # "EnProceso"

(* The next stage is ordered. *)
LEMMA InvSigue ==
  ASSUME IInv, NEW s \in Sockets, NEW e, NEW r, Respuesta(s, e, r), e # "AlmacenamientoFinal",
         NEW p \in DeJob(tabla, s, maestro[s].job), p \in Filas, tabla[p].etapa = e,
         NEW ok, ok = "FinalizadoOK",
         NEW t \in Seq(TipoFila(Len(tabla))), Retocada(tabla, t, {p}, ok),
         NEW q \in TipoFila(Len(tabla)), Nueva(q, s), Sigue(e, q.etapa),
         tabla' \in Seq(TipoFila(Len(tabla) + 1)), Alargada(t, tabla', 1), tabla'[Len(tabla) + 1] = q,
         NEW n, n = Len(tabla) + 1, Enviar(s, Etapa({n})),
         AntesTermino(s, t, q),
         cargas' \in [Nodos -> TipoCarga],
         UNCHANGED <<yama, activos, numeroJob, maestro, hilos, fallos>>
  PROVE  IInv' /\ Extiende(s)
<1> DEFINE f == Head(aYama[s]).fila
<1>1. /\ yama = "viva" /\ f \in Filas /\ tabla[f] \in TipoFila(Len(tabla))
      /\ Propia(f, s) /\ f \in DeJob(tabla, s, maestro[s].job) /\ tabla[f].etapa = e
  BY RespuestaEs
<1>2. TypeOK /\ Len(tabla) \in Nat /\ Filas = 1 .. Len(tabla) /\ Numerados
  BY FilasEs DEF IInv, EsTabla
<1>4. Len(t) = Len(tabla) /\ DOMAIN t = 1 .. Len(tabla)
  BY LenProperties DEF Retocada
<1>6. Len(tabla') = Len(tabla) + 1 /\ Len(tabla') \in Nat /\ Len(tabla) <= Len(tabla')
  BY <1>2, <1>4 DEF Alargada
<1>7. Nuevas = {Len(tabla) + 1}
  BY <1>2, <1>6 DEF Nuevas
<1>8. \A i \in Filas : /\ MismaClave(t[i], tabla[i]) /\ tabla'[i] = t[i]
                       /\ tabla'[i].estado = IF i = p THEN ok ELSE tabla[i].estado
  BY <1>2, <1>4 DEF Retocada, Alargada
<1>9. Extiende(s)
  <2>1. tabla[p].master = s /\ tabla[p].job = maestro[s].job
    BY DEF DeJob
  <2> QED
    BY <1>2, <1>6, <1>7, <1>8, <2>1 DEF Extiende
<1>10. Manda(s)
  <2>1. {n} \subseteq Nuevas
    BY <1>7
  <2> QED
    BY <1>2, <1>6, <2>1, MandaEtapa
<1>11. Ordena(f, s)
  BY <1>1, <1>7 DEF Ordena
<1>12. Cerrado(s)
  <2>1. ASSUME maestro[s].job \notin tardios', NEW k \in Filas,
               tabla'[k].etapa \in Previas(q), tabla[k].job = maestro[s].job
        PROVE  tabla'[k].estado # "EnProceso"
    <3>1. tabla[k].master = tabla[f].master
      BY <1>1, <1>2, <2>1 DEF Numerados, Propia
    <3>2. k \in DeJob(t, s, maestro[s].job)
      BY <1>1, <1>2, <1>4, <1>8, <2>1, <3>1 DEF DeJob, MismaClave, Propia
    <3> QED
      BY <1>8, <2>1, <3>2 DEF AntesTermino
  <2>2. \A i \in Filas : tabla[i].etapa = "AlmacenamientoFinal" => tabla'[i].estado = tabla[i].estado
    BY <1>8
  <2> QED
    BY <1>7, <2>1, <2>2 DEF Cerrado
<1>13. Encontrable(s)'
  <2>1. PICK k : k = Len(tabla) + 1
    OBVIOUS
  <2>2. k \in Filas' /\ tabla'[k] = q
    BY <1>2, <1>6, <2>1, LenProperties DEF Filas
  <2>3. k \in EnProceso(s, maestro[s].job)'
    BY <2>2 DEF EnProceso, DeJob, Filas, Nueva
  <2> QED
    BY <2>3 DEF Encontrable
<1>14. CaidaExplicada' /\ yama' = "viva" /\ activos' \in {<<>>} \cup ListasActivas
  BY <1>1, <1>2 DEF CaidaExplicada, TypeOK
<1> QED
  BY <1>6, <1>9, <1>10, <1>11, <1>12, <1>13, <1>14, InvRespuesta

(* YAMA reads through NULL, perhaps after it sent the error. *)
LEMMA InvCae ==
  ASSUME IInv, NEW s \in Sockets, NEW e, NEW r, Respuesta(s, e, r),
         yama' = "caida", UNCHANGED <<tabla, cargas, activos, numeroJob, maestro, hilos, fallos>>,
         UNCHANGED aMaestro \/ Enviar(s, ErrorJob),
         tardios' # {} \/ \E i \in Filas : tabla[i].nodo \notin Rango(activos)
  PROVE  IInv' /\ Extiende(s)
<1>1. PICK f : f = Head(aYama[s]).fila
  OBVIOUS
<1>2. TypeOK /\ Len(tabla) \in Nat /\ Filas = 1 .. Len(tabla) /\ tabla \in Seq(TipoFila(Len(tabla)))
  BY FilasEs DEF IInv, EsTabla, TypeOK
<1>3. Len(tabla') = Len(tabla) /\ Nuevas = {} /\ \A i \in Filas : tabla'[i] = tabla[i]
  BY <1>2 DEF Nuevas
<1>4. Extiende(s)
  <2>1. Len(tabla) <= Len(tabla')
    BY <1>2, <1>3
  <2> QED
    BY <1>2, <1>3, <2>1 DEF Extiende, MismaClave
<1>5. Manda(s)
  BY <1>2, <1>3, MandaNada, MandaError
<1>6. cargas' \in [Nodos -> TipoCarga] /\ activos' \in {<<>>} \cup ListasActivas
  BY <1>2 DEF TypeOK
<1>7. Ordena(f, s) /\ Cerrado(s)
  BY <1>3 DEF Ordena, Cerrado
<1>8. Encontrable(s)'
  BY DEF Encontrable
<1>9. CaidaExplicada'
  BY DEF CaidaExplicada, Filas
<1> QED
  BY <1>1, <1>2, <1>3, <1>4, <1>5, <1>6, <1>7, <1>8, <1>9, InvRespuesta

-----------------------------------------------------------------------------
(* The answers that went well, stage by stage. *)

LEMMA FilaEs ==
  ASSUME TypeOK, NEW s \in Sockets, NEW j \in Jobs, NEW n \in Nodos, NEW b \in Int, NEW g \in Etapas,
         NEW A \in SUBSET (1 .. Len(tabla)), NEW q, q = Fila(j, n, s, b, g, A)
  PROVE  /\ q \in TipoFila(Len(tabla)) /\ q.master = s /\ q.job = j /\ q.nodo = n /\ q.blk = b
         /\ q.etapa = g /\ q.estado = "EnProceso"
BY DEF Fila, TipoFila, Estados

(* A row appended to a table of the length of the table. *)
LEMMA UnaMas ==
  ASSUME TypeOK, NEW t \in Seq(TipoFila(Len(tabla))), NEW D, NEW e, Retocada(tabla, t, D, e),
         NEW q \in TipoFila(Len(tabla)), tabla' = Append(t, q)
  PROVE  /\ tabla' \in Seq(TipoFila(Len(tabla) + 1)) /\ Alargada(t, tabla', 1)
         /\ tabla'[Len(tabla) + 1] = q /\ Len(t) + 1 = Len(tabla) + 1
<1>1. PICK n \in Nat : n = Len(tabla)
  BY FilasEs DEF EsTabla
<1>2. Len(t) = n
  BY <1>1 DEF Retocada
<1>3. PICK u : u = tabla'
  OBVIOUS
<1>4. t \in Seq(TipoFila(n)) /\ q \in TipoFila(n) /\ u = Append(t, q)
  BY <1>1, <1>3
<1>5. u \in Seq(TipoFila(n + 1)) /\ Alargada(t, u, 1) /\ u[n + 1] = q
  BY <1>2, <1>4, AlargaUna
<1> QED
  BY <1>1, <1>2, <1>3, <1>5

LEMMA RetocadaEs ==
  ASSUME TypeOK, NEW t \in Seq(TipoFila(Len(tabla))), NEW D, NEW e, Retocada(tabla, t, D, e)
  PROVE  /\ Len(tabla) \in Nat /\ Len(t) = Len(tabla) /\ DOMAIN t = 1 .. Len(tabla)
         /\ \A i \in DOMAIN t : t[i] \in TipoFila(Len(tabla))
<1>1. Len(tabla) \in Nat
  BY FilasEs DEF EsTabla
<1>2. Len(t) = Len(tabla) /\ DOMAIN t = 1 .. Len(tabla)
  BY LenProperties DEF Retocada
<1>3. \A i \in 1 .. Len(t) : t[i] \in TipoFila(Len(tabla))
  BY ElementOfSeq
<1> QED
  BY <1>1, <1>2, <1>3

LEMMA PasoTransformacionLista ==
  ASSUME IInv, NEW s \in Sockets, TransformacionLista(s)
  PROVE  IInv' /\ Extiende(s)
<1>1. PICK f, e, ok : f = Head(aYama[s]).fila /\ e = "Transformacion" /\ ok = "FinalizadoOK"
  BY Zenon
<1>2. Respuesta(s, e, 0) /\ FilaResp(s) = tabla[f]
      /\ UNCHANGED <<numeroJob, maestro, hilos, cargas, activos, fallos>>
  BY <1>1, Zenon DEF TransformacionLista, FilaResp
<1>3. /\ f \in Filas /\ tabla[f] \in TipoFila(Len(tabla)) /\ Propia(f, s)
      /\ f \in DeJob(tabla, s, maestro[s].job)
  BY <1>1, <1>2, RespuestaEs
<1>4. PICK n, j, t : /\ n = tabla[f].nodo /\ j = tabla[f].job
                     /\ t = ActualizoTablaEstado(tabla, tabla[f].nodo, tabla[f].blk, s, tabla[f].job, ok)
  OBVIOUS
<1>5. n \in Nodos /\ j \in Jobs /\ j = maestro[s].job /\ TypeOK
  BY <1>3, <1>4 DEF TipoFila, Propia, IInv
<1>6. PICK p \in DeJob(tabla, s, maestro[s].job) :
        /\ p \in Filas /\ tabla[p].etapa = e
        /\ t \in Seq(TipoFila(Len(tabla))) /\ Retocada(tabla, t, {p}, ok)
  <2>1. TablaLista(f, s, t, ok)
    BY <1>4 DEF TablaLista
  <2>2. UnaLista(s, e, t, ok)
    BY <1>1, <1>2, <2>1, ListaEs
  <2> QED
    BY <2>2, Zenon DEF UnaLista
<1>7. /\ Len(tabla) \in Nat /\ Len(t) = Len(tabla) /\ DOMAIN t = 1 .. Len(tabla)
      /\ \A i \in DOMAIN t : t[i] \in TipoFila(Len(tabla))
  BY <1>5, <1>6, RetocadaEs
<1>8. \/ ~ TransfTerminada(t, n, s, j) /\ tabla' = t /\ UNCHANGED <<yama, aMaestro>>
      \/ /\ tabla' = Append(t, Fila(j, n, s, ReduccionLocal, "ReduccionLocal", ArchivosTemporales(t, n, s, j)))
         /\ Enviar(s, Etapa({Len(t) + 1})) /\ UNCHANGED yama
      \/ n \notin Rango(activos) /\ yama' = "caida" /\ UNCHANGED <<tabla, aMaestro>>
  BY <1>1, <1>2, <1>4, Zenon DEF TransformacionLista, YamaCae
<1>9. CASE ~ TransfTerminada(t, n, s, j) /\ tabla' = t /\ UNCHANGED <<yama, aMaestro>>
  <2>1. PICK q \in DeJob(t, s, j) : t[q].estado # "Error" /\ t[q].estado # "FinalizadoOK"
    BY <1>9 DEF TransfTerminada
  <2>2. t[q].estado = "EnProceso"
    BY <1>7, <2>1 DEF DeJob, TipoFila, Estados
  <2>3. q \in DeJob(tabla', s, maestro[s].job) /\ tabla'[q].estado = "EnProceso"
    BY <1>5, <1>9, <2>1, <2>2
  <2>4. tabla' \in Seq(TipoFila(Len(tabla))) /\ Retocada(tabla, tabla', {p}, ok)
    BY <1>6, <1>9
  <2>5. e # "AlmacenamientoFinal"
    BY <1>1
  <2> QED
    BY <1>1, <1>2, <1>6, <1>9, <2>3, <2>4, <2>5, InvLista
<1>10. CASE /\ tabla' = Append(t, Fila(j, n, s, ReduccionLocal, "ReduccionLocal", ArchivosTemporales(t, n, s, j)))
            /\ Enviar(s, Etapa({Len(t) + 1})) /\ UNCHANGED yama
  <2>1. PICK A : A = ArchivosTemporales(t, n, s, j)
    OBVIOUS
  <2>2. PICK g : g = "ReduccionLocal"
    OBVIOUS
  <2>3. PICK q : q = Fila(j, n, s, ReduccionLocal, g, A)
    OBVIOUS
  <2>4. tabla' = Append(t, q)
    BY <1>10, <2>1, <2>2, <2>3
  <2>5. A \in SUBSET (1 .. Len(tabla))
    BY <1>7, <2>1 DEF ArchivosTemporales, DeJob
  <2>6. g \in Etapas /\ ReduccionLocal \in Int
    BY <2>2 DEF Etapas, ReduccionLocal
  <2>7. /\ q \in TipoFila(Len(tabla)) /\ q.master = s /\ q.job = j /\ q.blk = ReduccionLocal
        /\ q.etapa = g /\ q.estado = "EnProceso"
    BY <1>5, <2>3, <2>5, <2>6, FilaEs
  <2>8. Nueva(q, s)
    BY <1>5, <2>2, <2>7 DEF Nueva, BienClavada
  <2>9. Sigue(e, q.etapa) /\ Previas(q) = {}
    BY <1>1, <2>2, <2>7 DEF Sigue, Previas
  <2>10. /\ tabla' \in Seq(TipoFila(Len(tabla) + 1)) /\ Alargada(t, tabla', 1)
         /\ tabla'[Len(tabla) + 1] = q /\ Len(t) + 1 = Len(tabla) + 1
    BY <1>5, <1>6, <2>4, <2>7, UnaMas
  <2>11. PICK m : m = Len(tabla) + 1
    OBVIOUS
  <2>12. Enviar(s, Etapa({m}))
    BY <1>10, <2>10, <2>11
  <2>13. cargas' \in [Nodos -> TipoCarga] /\ e # "AlmacenamientoFinal"
         /\ UNCHANGED <<yama, activos, numeroJob, maestro, hilos, fallos>>
    BY <1>1, <1>2, <1>5, <1>10 DEF TypeOK
  <2>14. AntesTermino(s, t, q)
    BY <2>9 DEF AntesTermino
  <2> QED
    BY <1>1, <1>2, <1>6, <2>7, <2>8, <2>9, <2>10, <2>11, <2>12, <2>13, <2>14, InvSigue
<1>11. CASE n \notin Rango(activos) /\ yama' = "caida" /\ UNCHANGED <<tabla, aMaestro>>
  <2>1. \E i \in Filas : tabla[i].nodo \notin Rango(activos)
    BY <1>3, <1>4, <1>11
  <2> QED
    BY <1>2, <1>11, <2>1, InvCae
<1> QED
  BY <1>8, <1>9, <1>10, <1>11

(* The chosen node is the one of a row. *)
LEMMA FilasFinitas ==
  ASSUME TypeOK, NEW S, S \subseteq 1 .. Len(tabla)
  PROVE  IsFiniteSet(S)
<1>1. Len(tabla) \in Int /\ 1 \in Int
  BY FilasEs DEF EsTabla
<1>2. IsFiniteSet(1 .. Len(tabla))
  BY <1>1, FS_Interval
<1> QED
  BY <1>2, FS_Subset

LEMMA EncargadoEs ==
  ASSUME TypeOK, NEW t, NEW S, S \subseteq 1 .. Len(tabla), S # {},
         \A i \in S : t[i] \in TipoFila(Len(tabla))
  PROVE  Encargado(t, S) \in Nodos
<1>1. Len(tabla) \in Nat /\ S \subseteq Nat
  BY FilasEs DEF EsTabla
<1>2. IsFiniteSet(S)
  BY FilasFinitas
<1>3. PICK g : g = [i \in S |-> cargas[t[i].nodo].actual]
  OBVIOUS
<1>4. \A i \in S : t[i].nodo \in Nodos
  BY DEF TipoFila
<1>5. \A n \in Nodos : cargas[n].actual \in Int
  BY DEF TypeOK, TipoCarga
<1>6. \A i \in S : g[i] \in Int
  BY <1>3, <1>4, <1>5
<1>7. PICK m \in S : \A x \in S : g[m] <= g[x]
  BY <1>2, <1>6, HayMenor
<1>8. PICK T : T = {i \in S : g[i] = g[m]}
  OBVIOUS
<1>9. PICK i : i = Min(T)
  OBVIOUS
<1>10. i \in T /\ \A x \in T : i <= x
  BY <1>1, <1>7, <1>8, <1>9, HayMinimo
<1>11. \A k \in S : g[i] < g[k] \/ (g[i] = g[k] /\ i <= k)
  <2> SUFFICES ASSUME NEW k \in S PROVE g[i] < g[k] \/ (g[i] = g[k] /\ i <= k)
    OBVIOUS
  <2>1. g[i] = g[m] /\ g[m] <= g[k] /\ g[m] \in Int /\ g[k] \in Int
    BY <1>6, <1>7, <1>8, <1>10
  <2>2. CASE g[k] = g[m]
    BY <1>8, <1>10, <2>1, <2>2
  <2>3. CASE g[k] # g[m]
    BY <2>1, <2>3
  <2> QED
    BY <2>2, <2>3
<1> DEFINE Menor(x) == \A k \in S : \/ cargas[t[x].nodo].actual < cargas[t[k].nodo].actual
                                    \/ (cargas[t[x].nodo].actual = cargas[t[k].nodo].actual /\ x <= k)
<1>12. i \in S /\ Menor(i)
  BY <1>3, <1>8, <1>10, <1>11
<1>13. (CHOOSE x \in S : Menor(x)) \in S
  <2> HIDE DEF Menor
  <2> QED
    BY <1>12
<1>14. Encargado(t, S) = t[CHOOSE x \in S : Menor(x)].nodo
  BY DEF Encargado
<1> HIDE DEF Menor
<1> QED
  BY <1>4, <1>13, <1>14

LEMMA PasoReduccionLocalLista ==
  ASSUME IInv, NEW s \in Sockets, ReduccionLocalLista(s)
  PROVE  IInv' /\ Extiende(s)
<1>1. PICK f, e, ok : f = Head(aYama[s]).fila /\ e = "ReduccionLocal" /\ ok = "FinalizadoOK"
  BY Zenon
<1>2. Respuesta(s, e, 0) /\ FilaResp(s) = tabla[f]
      /\ UNCHANGED <<numeroJob, maestro, hilos, activos, fallos>>
  BY <1>1, Zenon DEF ReduccionLocalLista, FilaResp
<1>3. /\ f \in Filas /\ tabla[f] \in TipoFila(Len(tabla)) /\ Propia(f, s)
      /\ f \in DeJob(tabla, s, maestro[s].job) /\ tabla[f].etapa = e /\ BienClavada(tabla[f])
  BY <1>1, <1>2, RespuestaEs
<1>4. PICK j, t : /\ j = tabla[f].job
                  /\ t = ActualizoTablaEstado(tabla, tabla[f].nodo, ReduccionLocal, s, tabla[f].job, ok)
  OBVIOUS
<1>5. j \in Jobs /\ j = maestro[s].job /\ TypeOK /\ tabla[f].blk = ReduccionLocal
  BY <1>1, <1>3, <1>4 DEF TipoFila, Propia, IInv, BienClavada
<1>6. PICK p \in DeJob(tabla, s, maestro[s].job) :
        /\ p \in Filas /\ tabla[p].etapa = e
        /\ t \in Seq(TipoFila(Len(tabla))) /\ Retocada(tabla, t, {p}, ok)
  <2>1. TablaLista(f, s, t, ok)
    BY <1>4, <1>5 DEF TablaLista
  <2>2. UnaLista(s, e, t, ok)
    BY <1>1, <1>2, <2>1, ListaEs
  <2> QED
    BY <2>2 DEF UnaLista
<1>7. /\ Len(tabla) \in Nat /\ Len(t) = Len(tabla) /\ DOMAIN t = 1 .. Len(tabla)
      /\ \A i \in DOMAIN t : t[i] \in TipoFila(Len(tabla))
  BY <1>5, <1>6, RetocadaEs
<1>8. PICK R, jefe : R = FilasRL(t, s, j) /\ jefe = Encargado(t, R)
  BY Zenon
<1>9. \/ ~ RlTerminada(t, s, j) /\ tabla' = t /\ UNCHANGED <<yama, aMaestro, cargas>>
      \/ /\ RlTerminada(t, s, j)
         /\ tabla' = Append(t, Fila(j, jefe, s, ReduccionGlobal, "ReduccionGlobal", R))
         /\ cargas' = Sumar(cargas, jefe, j, 1 + (Cardinality(R) - 1) \div 2)
         /\ Enviar(s, Etapa({Len(t) + 1})) /\ UNCHANGED yama
      \/ /\ \E i \in R : t[i].nodo \notin Rango(activos)
         /\ yama' = "caida" /\ UNCHANGED <<tabla, aMaestro, cargas>>
  BY <1>1, <1>2, <1>4, <1>8, Zenon DEF ReduccionLocalLista, YamaCae
<1>10. Filas = 1 .. Len(tabla) /\ \A i \in DOMAIN t : MismaClave(t[i], tabla[i])
  BY <1>5, <1>6, <1>7, FilasEs DEF EsTabla, Retocada
<1>11. R \subseteq 1 .. Len(tabla) /\ f \in R
  <2>1. R \subseteq 1 .. Len(tabla)
    BY <1>7, <1>8 DEF FilasRL, DeJob
  <2>2. f \in DOMAIN t /\ MismaClave(t[f], tabla[f])
    BY <1>3, <1>7, <1>10
  <2>3. f \in R
    BY <1>1, <1>3, <1>5, <1>8, <2>2 DEF FilasRL, DeJob, MismaClave
  <2> QED
    BY <2>1, <2>3
<1>12. CASE ~ RlTerminada(t, s, j) /\ tabla' = t /\ UNCHANGED <<yama, aMaestro, cargas>>
  <2>1. PICK q \in DeJob(t, s, j) : t[q].estado # "Error" /\ t[q].estado # "FinalizadoOK"
    BY <1>12 DEF RlTerminada
  <2>2. t[q].estado = "EnProceso"
    BY <1>7, <2>1 DEF DeJob, TipoFila, Estados
  <2>3. q \in DeJob(tabla', s, maestro[s].job) /\ tabla'[q].estado = "EnProceso"
    BY <1>5, <1>12, <2>1, <2>2
  <2>4. tabla' \in Seq(TipoFila(Len(tabla))) /\ Retocada(tabla, tabla', {p}, ok)
    BY <1>6, <1>12
  <2>5. e # "AlmacenamientoFinal"
    BY <1>1
  <2> QED
    BY <1>1, <1>2, <1>6, <1>12, <2>3, <2>4, <2>5, InvLista
<1>13. CASE /\ RlTerminada(t, s, j)
            /\ tabla' = Append(t, Fila(j, jefe, s, ReduccionGlobal, "ReduccionGlobal", R))
            /\ cargas' = Sumar(cargas, jefe, j, 1 + (Cardinality(R) - 1) \div 2)
            /\ Enviar(s, Etapa({Len(t) + 1})) /\ UNCHANGED yama
  <2>1. jefe \in Nodos
    BY <1>5, <1>7, <1>8, <1>11, EncargadoEs
  <2>2. PICK g, b, q : /\ g = "ReduccionGlobal" /\ b = ReduccionGlobal
                       /\ q = Fila(j, jefe, s, b, g, R)
    OBVIOUS
  <2>3. tabla' = Append(t, q)
    BY <1>13, <2>2
  <2>4. R \in SUBSET (1 .. Len(tabla)) /\ g \in Etapas /\ b \in Int
    BY <1>11, <2>2 DEF Etapas, ReduccionGlobal
  <2>5. /\ q \in TipoFila(Len(tabla)) /\ q.master = s /\ q.job = j /\ q.blk = b
        /\ q.etapa = g /\ q.estado = "EnProceso"
    BY ONLY s \in Sockets, <1>5, <2>1, <2>2, <2>4, FilaEs
  <2>6. Nueva(q, s)
    BY <1>5, <2>2, <2>5 DEF Nueva, BienClavada
  <2>7. Sigue(e, q.etapa) /\ Previas(q) = {"Transformacion", "ReduccionLocal"}
    BY <1>1, <2>2, <2>5 DEF Sigue, Previas
  <2>8. /\ tabla' \in Seq(TipoFila(Len(tabla) + 1)) /\ Alargada(t, tabla', 1)
        /\ tabla'[Len(tabla) + 1] = q /\ Len(t) + 1 = Len(tabla) + 1
    BY <1>5, <1>6, <2>3, <2>5, UnaMas
  <2>9. PICK m : m = Len(tabla) + 1
    OBVIOUS
  <2>10. Enviar(s, Etapa({m}))
    BY <1>13, <2>8, <2>9
  <2>11. cargas' \in [Nodos -> TipoCarga]
    <3>1. IsFiniteSet(R) /\ R # {}
      BY <1>5, <1>11, FilasFinitas
    <3>2. Cardinality(R) \in Nat /\ Cardinality(R) # 0
      BY <3>1, FS_CardinalityType, FS_EmptySet
    <3>3. PICK c, k : c = Cardinality(R) /\ k = 1 + (c - 1) \div 2
      OBVIOUS
    <3>4. k \in Nat
      BY <3>2, <3>3
    <3>5. cargas' = Sumar(cargas, jefe, j, k) /\ cargas \in [Nodos -> TipoCarga]
      BY <1>5, <1>13, <3>3 DEF TypeOK
    <3> QED
      BY <1>5, <2>1, <3>4, <3>5, SumarEs
  <2>12. e # "AlmacenamientoFinal" /\ UNCHANGED <<yama, activos, numeroJob, maestro, hilos, fallos>>
    BY <1>1, <1>2, <1>13
  <2>13. AntesTermino(s, t, q)
    BY <1>5, <1>13, <2>7 DEF RlTerminada, AntesTermino
  <2> QED
    BY <1>1, <1>2, <1>6, <2>5, <2>6, <2>7, <2>8, <2>9, <2>10, <2>11, <2>12, <2>13, InvSigue
<1>14. CASE /\ \E i \in R : t[i].nodo \notin Rango(activos)
            /\ yama' = "caida" /\ UNCHANGED <<tabla, aMaestro, cargas>>
  <2>1. \E i \in Filas : tabla[i].nodo \notin Rango(activos)
    BY <1>7, <1>10, <1>11, <1>14 DEF MismaClave
  <2> QED
    BY <1>2, <1>14, <2>1, InvCae
<1> QED
  BY <1>9, <1>12, <1>13, <1>14

LEMMA PasoReduccionGlobalLista ==
  ASSUME IInv, NEW s \in Sockets, ReduccionGlobalLista(s)
  PROVE  IInv' /\ Extiende(s)
<1>1. PICK f, e, ok : f = Head(aYama[s]).fila /\ e = "ReduccionGlobal" /\ ok = "FinalizadoOK"
  BY Zenon
<1>2. Respuesta(s, e, 0) /\ FilaResp(s) = tabla[f]
      /\ UNCHANGED <<numeroJob, maestro, hilos, cargas, activos, fallos>>
  BY <1>1, Zenon DEF ReduccionGlobalLista, FilaResp
<1>3. /\ f \in Filas /\ tabla[f] \in TipoFila(Len(tabla)) /\ Propia(f, s)
      /\ f \in DeJob(tabla, s, maestro[s].job) /\ tabla[f].etapa = e /\ BienClavada(tabla[f])
      /\ Contada(f, s) /\ tardios \subseteq tardios'
  BY <1>1, <1>2, RespuestaEs
<1>4. PICK n, j, t : /\ n = tabla[f].nodo /\ j = tabla[f].job
                     /\ t = ActualizoTablaEstado(tabla, tabla[f].nodo, ReduccionGlobal, s, tabla[f].job, ok)
  OBVIOUS
<1>5. n \in Nodos /\ j \in Jobs /\ j = maestro[s].job /\ TypeOK /\ tabla[f].blk = ReduccionGlobal
  BY <1>1, <1>3, <1>4 DEF TipoFila, Propia, IInv, BienClavada
<1>6. PICK p \in DeJob(tabla, s, maestro[s].job) :
        /\ p \in Filas /\ tabla[p].etapa = e
        /\ t \in Seq(TipoFila(Len(tabla))) /\ Retocada(tabla, t, {p}, ok)
  <2>1. TablaLista(f, s, t, ok)
    BY <1>4, <1>5 DEF TablaLista
  <2>2. UnaLista(s, e, t, ok)
    BY <1>1, <1>2, <2>1, ListaEs
  <2> QED
    BY <2>2 DEF UnaLista
<1>7. /\ Len(tabla) \in Nat /\ Len(t) = Len(tabla) /\ DOMAIN t = 1 .. Len(tabla)
      /\ \A i \in DOMAIN t : t[i] \in TipoFila(Len(tabla))
  BY <1>5, <1>6, RetocadaEs, Zenon
<1>8. \/ /\ tabla' = Append(t, Fila(j, n, s, AlmacenamientoFinal, "AlmacenamientoFinal", {}))
         /\ Enviar(s, Etapa({Len(t) + 1})) /\ UNCHANGED yama
      \/ n \notin Rango(activos) /\ yama' = "caida" /\ UNCHANGED <<tabla, aMaestro>>
  BY <1>1, <1>2, <1>4, Zenon DEF ReduccionGlobalLista, YamaCae
<1>9. /\ Filas = 1 .. Len(tabla)
      /\ \A i \in DOMAIN t : /\ MismaClave(t[i], tabla[i])
                             /\ t[i].estado = IF i = p THEN ok ELSE tabla[i].estado
  BY <1>5, <1>6, <1>7, FilasEs DEF EsTabla, Retocada
<1>10. CASE /\ tabla' = Append(t, Fila(j, n, s, AlmacenamientoFinal, "AlmacenamientoFinal", {}))
            /\ Enviar(s, Etapa({Len(t) + 1})) /\ UNCHANGED yama
  <2>1. PICK g, A, q : /\ g = "AlmacenamientoFinal" /\ A = {}
                       /\ q = Fila(j, n, s, AlmacenamientoFinal, g, A)
    OBVIOUS
  <2>2. tabla' = Append(t, q)
    BY <1>10, <2>1
  <2>3. A \in SUBSET (1 .. Len(tabla)) /\ g \in Etapas /\ AlmacenamientoFinal \in Int
    BY <2>1 DEF Etapas, AlmacenamientoFinal
  <2>4. /\ q \in TipoFila(Len(tabla)) /\ q.master = s /\ q.job = j /\ q.blk = AlmacenamientoFinal
        /\ q.etapa = g /\ q.estado = "EnProceso"
    BY <1>5, <2>1, <2>3, FilaEs
  <2>5. Nueva(q, s)
    BY <1>5, <2>1, <2>4 DEF Nueva, BienClavada
  <2>6. Sigue(e, q.etapa) /\ Previas(q) = {"Transformacion", "ReduccionLocal", "ReduccionGlobal"}
    BY <1>1, <2>1, <2>4 DEF Sigue, Previas
  <2>7. /\ tabla' \in Seq(TipoFila(Len(tabla) + 1)) /\ Alargada(t, tabla', 1)
        /\ tabla'[Len(tabla) + 1] = q /\ Len(t) + 1 = Len(tabla) + 1
    BY <1>5, <1>6, <2>2, <2>4, UnaMas
  <2>8. PICK m : m = Len(tabla) + 1
    OBVIOUS
  <2>9. Enviar(s, Etapa({m}))
    BY <1>10, <2>7, <2>8
  <2>10. cargas' \in [Nodos -> TipoCarga] /\ e # "AlmacenamientoFinal"
         /\ UNCHANGED <<yama, activos, numeroJob, maestro, hilos, fallos>>
    BY <1>1, <1>2, <1>5, <1>10 DEF TypeOK
  <2>11. ASSUME maestro[s].job \notin tardios', NEW k \in DeJob(t, s, maestro[s].job),
                t[k].etapa \in Previas(q)
         PROVE  t[k].estado # "EnProceso"
    <3>1. k \in Filas /\ tabla[k].job = j /\ t[k].job = j /\ MismaClave(t[k], tabla[k])
          /\ t[k].estado = IF k = p THEN ok ELSE tabla[k].estado
      BY <1>5, <1>7, <1>9 DEF DeJob, MismaClave
    <3>2. j \notin tardios /\ tabla[f].job = j
      BY <1>3, <1>4, <1>5, <2>11
    <3>3. CASE tabla[k].etapa = "ReduccionGlobal"
      <4>1. p \in Filas /\ tabla[p].job = j /\ tabla[p].etapa = "ReduccionGlobal"
        BY <1>1, <1>5, <1>6 DEF DeJob
      <4>2. k = p
        BY <3>1, <3>2, <3>3, <4>1 DEF IInv, EtapaFinalUnica
      <4> QED
        BY <1>1, <3>1, <4>2
    <3>4. CASE tabla[k].etapa \in {"Transformacion", "ReduccionLocal"}
      <4>1. tabla[k].etapa \in Previas(tabla[f])
        BY <1>1, <1>3, <3>4 DEF Previas
      <4>2. tabla[k].estado # "EnProceso"
        BY <1>3, <3>1, <3>2, <4>1 DEF IInv, EnEtapas
      <4> QED
        BY <1>1, <3>1, <4>2
    <3> QED
      BY <2>6, <2>11, <3>1, <3>3, <3>4 DEF MismaClave
  <2>12. AntesTermino(s, t, q)
    BY <2>11 DEF AntesTermino
  <2> QED
    BY <1>1, <1>2, <1>6, <2>4, <2>5, <2>6, <2>7, <2>8, <2>9, <2>10, <2>12, InvSigue
<1>11. CASE n \notin Rango(activos) /\ yama' = "caida" /\ UNCHANGED <<tabla, aMaestro>>
  <2>1. \E i \in Filas : tabla[i].nodo \notin Rango(activos)
    BY <1>3, <1>4, <1>11
  <2> QED
    BY <1>2, <1>11, <2>1, InvCae
<1> QED
  BY <1>8, <1>10, <1>11

-----------------------------------------------------------------------------
(* The first row in process takes the final state.  When the answer was    *)
(* not late and the storage ended well, it was the only one.               *)

LEMMA InvFinaliza ==
  ASSUME IInv, NEW s \in Sockets, NEW e, NEW r, Respuesta(s, e, r),
         NEW x, x = "FinalizadoOK" \/ x = "Error",
         NEW j, j = maestro[s].job, FinalizarEnTabla(s, j, x),
         \/ e = "ReduccionGlobal" /\ x = "Error" /\ Enviar(s, ErrorJob)
         \/ e = "AlmacenamientoFinal" /\ UNCHANGED aMaestro,
         UNCHANGED <<numeroJob, maestro, hilos, activos, fallos>>
  PROVE  IInv' /\ Extiende(s)
<1>1. PICK f : f = Head(aYama[s]).fila
  OBVIOUS
<1>2. /\ yama = "viva" /\ f \in Filas /\ tabla[f] \in TipoFila(Len(tabla)) /\ tabla[f].etapa = e
      /\ Propia(f, s) /\ f \in DeJob(tabla, s, maestro[s].job) /\ Contada(f, s)
      /\ tardios \subseteq tardios' /\ (tabla[f].estado = "EnProceso" \/ tardios' # {})
      /\ (e = "AlmacenamientoFinal" => maestro[s].est = "saliendo")
  BY <1>1, RespuestaEs
<1>3. /\ TypeOK /\ Len(tabla) \in Nat /\ Filas = 1 .. Len(tabla) /\ tabla \in Seq(TipoFila(Len(tabla)))
      /\ j \in Jobs
  BY <1>2, FilasEs DEF IInv, EsTabla, TypeOK, Propia, TipoFila
<1>4. PICK V : V = {i \in DeJob(tabla, s, j) : tabla[i].estado = "EnProceso"}
  OBVIOUS
<1>5. CASE V = {}
  <2>1. yama' = "caida" /\ UNCHANGED <<tabla, cargas>>
    BY <1>4, <1>5 DEF FinalizarEnTabla, YamaCae
  <2>2. tardios' # {}
    BY <1>2, <1>4, <1>5
  <2>3. UNCHANGED aMaestro \/ Enviar(s, ErrorJob)
    OBVIOUS
  <2> QED
    BY <2>1, <2>2, <2>3, InvCae
<1>6. CASE V # {}
  <2>1. PICK m, ns : m = Min(V) /\ ns = {tabla[m].nodo} \cup {tabla[i].nodo : i \in FilasRL(tabla, s, j)}
    OBVIOUS
  <2>2. V \subseteq Nat
    BY <1>3, <1>4 DEF DeJob, Filas
  <2>3. m \in V
    BY <1>6, <2>1, <2>2, HayMinimo
  <2>4. m \in Filas /\ tabla[m].master = s /\ tabla[m].job = j /\ tabla[m].estado = "EnProceso"
    BY <1>4, <2>3 DEF DeJob, Filas
  <2>5. tabla' = [tabla EXCEPT ![m].estado = x] /\ cargas' = Quitar(cargas, ns, j) /\ UNCHANGED yama
    BY <1>4, <1>6, <2>1 DEF FinalizarEnTabla
  <2>6. x \in Estados /\ x # "EnProceso"
    BY DEF Estados
  <2>7. tabla' \in Seq(TipoFila(Len(tabla))) /\ Retocada(tabla, tabla', {m}, x)
    <3>1. PICK u : u = tabla'
      OBVIOUS
    <3>2. u = [tabla EXCEPT ![m].estado = x] /\ m \in 1 .. Len(tabla)
      BY <1>3, <2>4, <2>5, <3>1
    <3>3. u \in Seq(TipoFila(Len(tabla))) /\ Retocada(tabla, u, {m}, x)
      BY <1>3, <2>6, <3>2, RetocaUna
    <3> QED
      BY <3>1, <3>3
  <2>8. Len(tabla') = Len(tabla) /\ Nuevas = {}
    BY <1>3, <2>7 DEF Retocada, Nuevas
  <2>9. \A i \in Filas : /\ MismaClave(tabla'[i], tabla[i])
                         /\ tabla'[i].estado = IF i = m THEN x ELSE tabla[i].estado
    BY <1>3, <2>7 DEF Retocada
  <2>10. Extiende(s)
    <3>1. Len(tabla) <= Len(tabla')
      BY <1>3, <2>8
    <3> QED
      BY <1>3, <2>4, <2>6, <2>8, <2>9, <3>1 DEF Extiende
  <2>11. Manda(s)
    BY <1>3, <2>8, MandaNada, MandaError
  <2>12. cargas' \in [Nodos -> TipoCarga] /\ yama' = "viva" /\ activos' \in {<<>>} \cup ListasActivas
    BY <1>2, <1>3, <2>5, QuitarEs DEF TypeOK
  <2>13. Ordena(f, s)
    BY <2>8 DEF Ordena
  <2>14. Cerrado(s)
    <3> SUFFICES ASSUME j \notin tardios', NEW i \in Filas,
                        tabla[i].etapa = "AlmacenamientoFinal", tabla'[i].estado = "FinalizadoOK",
                        tabla[i].estado # "FinalizadoOK",
                        NEW k \in Filas, tabla[k].job = tabla[i].job, tabla'[k].estado = "EnProceso"
                 PROVE  FALSE
      BY <2>8 DEF Cerrado
    <3>1. i = m /\ k # m /\ tabla[k].estado = "EnProceso" /\ j \notin tardios
      BY <1>2, <2>6, <2>9
    <3>2. tabla[i].job = j /\ tabla[k].job = j /\ tabla[i].estado = "EnProceso"
      BY <2>4, <3>1
    <3>3. CASE tabla[k].etapa = "AlmacenamientoFinal"
      BY <3>1, <3>2, <3>3 DEF IInv, EtapaFinalUnica
    <3>4. CASE tabla[k].etapa # "AlmacenamientoFinal"
      <4>1. tabla[k].etapa \in {"Transformacion", "ReduccionLocal", "ReduccionGlobal"}
        BY <1>3, <3>4, FilasEs DEF EsTabla, TipoFila, Etapas
      <4>2. tabla[k].etapa \in Previas(tabla[i])
        BY <3>2, <4>1 DEF Previas
      <4> QED
        BY <3>1, <3>2, <4>2 DEF IInv, EnEtapas
    <3> QED
      BY <3>3, <3>4
  <2>15. Encontrable(s)'
    <3>1. CASE e = "AlmacenamientoFinal"
      BY <1>2, <3>1 DEF Encontrable
    <3>2. CASE Enviar(s, ErrorJob)
      <4>1. maestro[s].est # "saliendo" => ErrorJob \in Rango(aMaestro'[s])
        BY <1>3, <2>8, <3>2, MandaError
      <4> QED
        BY <4>1 DEF Encontrable, ErrorJob
    <3> QED
      BY <3>1, <3>2
  <2>16. CaidaExplicada'
    BY <2>12 DEF CaidaExplicada
  <2>17. Len(tabla') \in Nat /\ tabla' \in Seq(TipoFila(Len(tabla')))
    BY <1>3, <2>7, <2>8
  <2> QED
    BY <1>1, <2>10, <2>11, <2>12, <2>13, <2>14, <2>15, <2>16, <2>17, InvRespuesta
<1> QED
  BY <1>5, <1>6

LEMMA PasoReduccionGlobalFallida ==
  ASSUME IInv, NEW s \in Sockets, ReduccionGlobalFallida(s)
  PROVE  IInv' /\ Extiende(s)
<1>1. PICK f, e, x : f = Head(aYama[s]).fila /\ e = "ReduccionGlobal" /\ x = "Error"
  OBVIOUS
<1>2. /\ Respuesta(s, e, -1) /\ Enviar(s, ErrorJob) /\ FinalizarEnTabla(s, tabla[f].job, x)
      /\ UNCHANGED <<numeroJob, maestro, hilos, activos, fallos>>
  BY <1>1 DEF ReduccionGlobalFallida, FilaResp
<1>3. PICK j : j = maestro[s].job
  OBVIOUS
<1>4. tabla[f].job = j
  BY <1>1, <1>2, <1>3, RespuestaEs DEF Propia
<1>5. FinalizarEnTabla(s, j, x)
  BY <1>2, <1>4
<1> QED
  BY <1>1, <1>2, <1>3, <1>5, InvFinaliza

LEMMA PasoAlmacenamientoLista ==
  ASSUME IInv, NEW s \in Sockets, AlmacenamientoLista(s)
  PROVE  IInv' /\ Extiende(s)
<1>1. PICK f, e : f = Head(aYama[s]).fila /\ e = "AlmacenamientoFinal"
  OBVIOUS
<1>2. PICK r, x : /\ Respuesta(s, e, r) /\ (x = "FinalizadoOK" \/ x = "Error")
                  /\ FinalizarEnTabla(s, tabla[f].job, x)
                  /\ UNCHANGED <<numeroJob, maestro, hilos, aMaestro, activos, fallos>>
  BY <1>1 DEF AlmacenamientoLista, FilaResp
<1>3. PICK j : j = maestro[s].job
  OBVIOUS
<1>4. tabla[f].job = j
  BY <1>1, <1>2, <1>3, RespuestaEs DEF Propia
<1>5. FinalizarEnTabla(s, j, x)
  BY <1>2, <1>4
<1> QED
  BY <1>1, <1>2, <1>3, <1>5, InvFinaliza

(* The answers that abort the job. *)
LEMMA PasoAbortos ==
  ASSUME IInv, NEW s \in Sockets,
         TransformacionCorrupta(s) \/ ReplanificacionSinArchivo(s) \/ ReduccionLocalFallida(s)
  PROVE  IInv' /\ Extiende(s)
<1>1. PICK e, r : /\ Respuesta(s, e, r) /\ e # "AlmacenamientoFinal"
                  /\ AbortarJob(s, FilaResp(s).job, tabla, cargas)
                  /\ activos' = activos \/ activos' \in ListasActivas
                  /\ UNCHANGED <<yama, numeroJob, maestro, hilos, fallos>>
  BY DEF TransformacionCorrupta, ReplanificacionSinArchivo, ReduccionLocalFallida
<1>2. activos' \in {<<>>} \cup ListasActivas
  BY <1>1 DEF IInv, TypeOK
<1>3. PICK t, D, x : t = tabla /\ D = {} /\ x = "Error"
  OBVIOUS
<1>4. t \in Seq(TipoFila(Len(tabla))) /\ D \subseteq DeJob(tabla, s, maestro[s].job)
      /\ Retocada(tabla, t, D, x)
  BY <1>3, SinRetoque DEF IInv
<1>5. AbortarJob(s, FilaResp(s).job, t, cargas)
  BY <1>1, <1>3
<1> QED
  BY <1>1, <1>2, <1>3, <1>4, <1>5, InvAborto

-----------------------------------------------------------------------------
(* The replanning. *)

LEMMA OtraCopiaEs ==
  ASSUME NEW n, NEW b, EsCopia(n, b), NEW o, o = OtraCopia(n, b), o # SinCopia
  PROVE  o.nodo \in Nodos /\ o.blk \in Nat /\ EsCopia(o.nodo, o.blk)
<1>1. PICK c : c = [nodo |-> n, blk |-> b]
  OBVIOUS
<1>2. \E k \in Bloques : \E i \in 1 .. 2 : Archivo[k][i] = c
  BY <1>1 DEF EsCopia
<1>3. PICK k : k = BloqueDe(n, b)
  OBVIOUS
<1>4. k \in Bloques
  BY <1>1, <1>2, <1>3 DEF BloqueDe
<1>5. \E i \in 1 .. 2 : o = Archivo[k][i]
  BY <1>3 DEF OtraCopia
<1>6. PICK i \in 1 .. 2 : o = Archivo[k][i]
  BY <1>5
<1> DEFINE Copias == [nodo : Nodos, blk : Nat]
<1>7. Archivo \in Seq((Copias \cup {SinCopia}) \X (Copias \cup {SinCopia}))
  BY JobsAssumption
<1>8. Archivo[k] \in (Copias \cup {SinCopia}) \X (Copias \cup {SinCopia})
  BY <1>4, <1>7, ElementOfSeq DEF Bloques
<1>9. o \in Copias
  <2>1. i = 1 \/ i = 2
    OBVIOUS
  <2> QED
    BY <1>6, <1>8, <2>1
<1>10. o = [nodo |-> o.nodo, blk |-> o.blk] /\ o.nodo \in Nodos /\ o.blk \in Nat
  BY <1>9
<1> QED
  BY <1>4, <1>6, <1>10 DEF EsCopia

LEMMA MoverCargaEs ==
  ASSUME TypeOK, NEW n \in Nodos, NEW j \in Jobs, NEW m \in Nat, NEW o, DOMAIN o = 1 .. m, Len(o) = m
  PROVE  MoverCarga(n, j, o) \in [Nodos -> TipoCarga]
<1> SUFFICES ASSUME NEW u \in Nodos, NEW k, k = Cardinality({i \in DOMAIN o : o[i].nodo = u})
             PROVE  (IF u = n THEN [actual |-> cargas[n].actual - Len(o),
                                   porJob |-> [cargas[n].porJob EXCEPT ![j] = 0]]
                     ELSE [actual |-> cargas[u].actual + k,
                           porJob |-> [cargas[u].porJob EXCEPT ![j] = @ + k]]) \in TipoCarga
  BY DEF MoverCarga
<1>1. k \in Nat
  <2>1. 1 \in Int /\ m \in Int
    OBVIOUS
  <2>2. IsFiniteSet(1 .. m)
    BY <2>1, FS_Interval
  <2>3. IsFiniteSet({i \in DOMAIN o : o[i].nodo = u})
    BY <2>2, FS_Subset
  <2> QED
    BY <2>3, FS_CardinalityType
<1>2. /\ cargas[n].actual \in Int /\ cargas[u].actual \in Int
      /\ cargas[n].porJob \in [Jobs -> Nat] /\ cargas[u].porJob \in [Jobs -> Nat]
  BY DEF TypeOK, TipoCarga
<1>3. /\ cargas[n].actual - m \in Int /\ cargas[u].actual + k \in Int
      /\ [cargas[n].porJob EXCEPT ![j] = 0] \in [Jobs -> Nat]
      /\ [cargas[u].porJob EXCEPT ![j] = @ + k] \in [Jobs -> Nat]
  <2>1. cargas[n].actual - m \in Int /\ cargas[u].actual + k \in Int
    BY <1>1, <1>2
  <2>2. PICK g, h : g = cargas[n].porJob /\ h = cargas[u].porJob
    OBVIOUS
  <2>3. g \in [Jobs -> Nat] /\ h \in [Jobs -> Nat]
    BY <1>2, <2>2
  <2>4. [g EXCEPT ![j] = 0] \in [Jobs -> Nat]
    BY ONLY j \in Jobs, <2>3
  <2>5. [h EXCEPT ![j] = @ + k] \in [Jobs -> Nat]
    <3>1. h[j] + k \in Nat
      BY <1>1, <2>3
    <3> QED
      BY ONLY j \in Jobs, <2>3, <3>1
  <2> QED
    BY <2>1, <2>2, <2>4, <2>5
<1> QED
  BY <1>3 DEF TipoCarga

LEMMA MarcarErrorEs ==
  ASSUME TypeOK, NEW s, NEW j, NEW n, NEW x, x = "Error", NEW t, t = MarcarError(n, s, j)
  PROVE  \E D \in SUBSET DeJob(tabla, s, j) :
           t \in Seq(TipoFila(Len(tabla))) /\ Retocada(tabla, t, D, x)
<1>1. PICK D : D = {PrimeraFila(tabla, n, tabla[i].blk, s, j) : i \in FilasTransf(n, s, j)}
  OBVIOUS
<1>2. ASSUME NEW d \in D PROVE d \in DeJob(tabla, s, j)
  <2>1. PICK i \in FilasTransf(n, s, j) : d = PrimeraFila(tabla, n, tabla[i].blk, s, j)
    BY <1>1, <1>2
  <2>2. i \in DeJob(tabla, s, j) /\ tabla[i].nodo = n
    BY <2>1 DEF FilasTransf
  <2>3. PICK b : b = tabla[i].blk
    OBVIOUS
  <2> QED
    BY <2>1, <2>2, <2>3, PrimeraFilaEs
<1>3. PICK u : u = t
  OBVIOUS
<1>4. u = [i \in DOMAIN tabla |-> IF i \in D THEN [tabla[i] EXCEPT !.estado = x] ELSE tabla[i]]
  BY <1>1, <1>3 DEF MarcarError
<1>5. tabla \in Seq(TipoFila(Len(tabla))) /\ Len(tabla) \in Nat /\ x \in Estados
  BY FilasEs DEF EsTabla, TypeOK, Estados
<1>6. u \in Seq(TipoFila(Len(tabla))) /\ Retocada(tabla, u, D, x)
  BY <1>4, <1>5, RetocaVarias
<1>7. D \in SUBSET DeJob(tabla, s, j)
  BY <1>2
<1>8. t \in Seq(TipoFila(Len(tabla))) /\ Retocada(tabla, t, D, x)
  BY <1>3, <1>6
<1> QED
  BY <1>7, <1>8

(* Several rows appended. *)
TablaDe(t, n)   == t \in Seq(TipoFila(n)) /\ Len(t) = n
Cola(u, n, m, v) == \A k \in n + 1 .. n + m : k - n \in 1 .. m /\ u[k] = v[k - n]
FilasDe(v, m, n) == v \in [1 .. m -> TipoFila(n)]

LEMMA VariasMas ==
  ASSUME NEW n \in Nat, NEW t, TablaDe(t, n), NEW m \in Nat, NEW v, FilasDe(v, m, n),
         NEW u, u = t \o v
  PROVE  TablaDe(u, n + m) /\ Alargada(t, u, m) /\ Cola(u, n, m, v)
<1>1. v \in Seq(TipoFila(n)) /\ Len(v) = m /\ t \in Seq(TipoFila(n)) /\ Len(t) = n
  BY DEF TablaDe, FilasDe
<1>2. n + m \in Nat /\ n <= n + m
  OBVIOUS
<1>3. TipoFila(n) \subseteq TipoFila(n + m)
  BY <1>2, MasFilas
<1>4. /\ u \in Seq(TipoFila(n)) /\ Len(u) = n + m
      /\ \A k \in 1 .. n + m : u[k] = IF k <= n THEN t[k] ELSE v[k - n]
  BY <1>1, ConcatProperties
<1>5. u \in Seq(TipoFila(n + m))
  BY <1>3, <1>4, SeqMonotonic
<1>6. \A k \in 1 .. n : u[k] = t[k]
  BY <1>1, <1>4
<1>7. \A k \in n + 1 .. n + m : k - n \in 1 .. m /\ u[k] = v[k - n]
  BY <1>1, <1>4
<1> QED
  BY <1>1, <1>4, <1>5, <1>6, <1>7 DEF Alargada, TablaDe, Cola

(* The new rows: one for each transformation row of the node. *)
LEMMA InvReplanifica ==
  ASSUME IInv, NEW s \in Sockets, NEW e, NEW r, Respuesta(s, e, r), e = "Transformacion",
         NEW x, x = "Error", NEW t \in Seq(TipoFila(Len(tabla))),
         NEW D \in SUBSET DeJob(tabla, s, maestro[s].job), Retocada(tabla, t, D, x),
         NEW m \in Nat \ {0}, NEW v \in [1 .. m -> TipoFila(Len(tabla))],
         \A i \in 1 .. m : Nueva(v[i], s) /\ v[i].etapa = "Transformacion",
         tabla' = t \o v, Enviar(s, Etapa(Len(t) + 1 .. Len(t) + m)),
         cargas' \in [Nodos -> TipoCarga], activos' \in ListasActivas,
         UNCHANGED <<yama, numeroJob, maestro, hilos, fallos>>
  PROVE  IInv' /\ Extiende(s)
<1>1. PICK f : f = Head(aYama[s]).fila
  OBVIOUS
<1>2. yama = "viva" /\ tabla[f].etapa = e
  BY <1>1, RespuestaEs
<1>3. TypeOK /\ Len(tabla) \in Nat /\ Filas = 1 .. Len(tabla) /\ Len(t) = Len(tabla)
  BY FilasEs DEF IInv, EsTabla, Retocada
<1>4. PICK n, u : n \in Nat /\ n = Len(tabla) /\ u = tabla'
  BY <1>3
<1>5. /\ u \in Seq(TipoFila(n + m)) /\ Alargada(t, u, m)
      /\ \A k \in n + 1 .. n + m : k - n \in 1 .. m /\ u[k] = v[k - n]
  <2>1. n \in Nat /\ TablaDe(t, n) /\ FilasDe(v, m, n) /\ m \in Nat /\ u = t \o v
    BY <1>3, <1>4 DEF TablaDe, FilasDe
  <2>2. TablaDe(u, n + m) /\ Alargada(t, u, m) /\ Cola(u, n, m, v)
    BY ONLY <2>1, VariasMas
  <2> QED
    BY <2>2 DEF TablaDe, Cola
<1>6. Len(u) = n + m /\ n + m \in Nat /\ n <= n + m /\ n + 1 \in n + 1 .. n + m
  BY <1>3, <1>4, <1>5 DEF Alargada
<1>7. Nuevas = n + 1 .. n + m
  BY <1>4, <1>6 DEF Nuevas
<1>8. \A k \in Nuevas : Nueva(tabla'[k], s) /\ tabla'[k].etapa = "Transformacion"
  BY <1>4, <1>5, <1>7, ZenonT(60)
<1>9. \A i \in Filas : /\ MismaClave(tabla'[i], tabla[i])
                       /\ tabla'[i].estado = IF i \in D THEN x ELSE tabla[i].estado
  BY <1>3, <1>4, <1>5 DEF Retocada, Alargada
<1>10. Extiende(s)
  <2>1. \A i \in D : tabla[i].master = s /\ tabla[i].job = maestro[s].job
    BY DEF DeJob
  <2>2. Len(tabla) <= Len(tabla')
    BY <1>4, <1>6
  <2>3. x # "EnProceso"
    OBVIOUS
  <2> QED
    BY <1>3, <1>8, <1>9, <2>1, <2>2, <2>3 DEF Extiende
<1>11. Len(tabla') \in Nat /\ Len(tabla) <= Len(tabla') /\ tabla' \in Seq(TipoFila(Len(tabla')))
  BY <1>4, <1>5, <1>6
<1>12. Manda(s)
  <2>1. PICK S : S = Len(t) + 1 .. Len(t) + m
    OBVIOUS
  <2>2. S \subseteq Nuevas /\ Enviar(s, Etapa(S))
    BY <1>3, <1>4, <1>7, <2>1
  <2> QED
    BY <1>3, <1>11, <2>2, MandaEtapa
<1>13. Ordena(f, s)
  BY <1>2, <1>8 DEF Ordena, Sigue
<1>14. Cerrado(s)
  BY <1>8, <1>9 DEF Cerrado, Previas
<1>15. Encontrable(s)'
  <2>1. PICK k : k = n + 1
    OBVIOUS
  <2>2. k \in Nuevas
    BY <1>6, <1>7, <2>1
  <2>3. k \in Filas'
    BY <1>4, <1>6, <1>7, <1>11, <2>2, LenProperties DEF Filas
  <2>4. k \in EnProceso(s, maestro[s].job)'
    BY <1>8, <2>2, <2>3 DEF EnProceso, DeJob, Filas, Nueva
  <2> QED
    BY <2>4 DEF Encontrable
<1>16. CaidaExplicada' /\ yama' = "viva" /\ activos' \in {<<>>} \cup ListasActivas
  BY <1>2 DEF CaidaExplicada
<1> QED
  BY <1>1, <1>10, <1>11, <1>12, <1>13, <1>14, <1>15, <1>16, InvRespuesta

LEMMA PasoReplanificacion ==
  ASSUME IInv, NEW s \in Sockets, Replanificacion(s)
  PROVE  IInv' /\ Extiende(s)
<1>1. PICK f, e, x, g : /\ f = Head(aYama[s]).fila /\ e = "Transformacion" /\ x = "Error"
                        /\ g = "Transformacion"
  BY Zenon
<1>2. Respuesta(s, e, -1) /\ FilaResp(s) = tabla[f] /\ activos' \in ListasActivas
      /\ UNCHANGED <<yama, numeroJob, maestro, hilos, fallos>>
  BY <1>1, Zenon DEF Replanificacion, FilaResp
<1>3. /\ f \in Filas /\ tabla[f] \in TipoFila(Len(tabla)) /\ Propia(f, s)
      /\ f \in DeJob(tabla, s, maestro[s].job) /\ tabla[f].etapa = e
  BY <1>1, <1>2, RespuestaEs
<1>4. PICK n, j, t, W : /\ n = tabla[f].nodo /\ j = tabla[f].job /\ t = MarcarError(n, s, j)
                        /\ W = FilasTransf(n, s, j)
  OBVIOUS
<1>5. n \in Nodos /\ j \in Jobs /\ j = maestro[s].job /\ TypeOK /\ Claves
  BY <1>3, <1>4 DEF TipoFila, Propia, IInv
<1>6. PICK D \in SUBSET DeJob(tabla, s, j) : t \in Seq(TipoFila(Len(tabla))) /\ Retocada(tabla, t, D, x)
  BY <1>1, <1>4, <1>5, MarcarErrorEs, Zenon
<1> DEFINE Otra(i) == OtraCopia(n, tabla[i].blk)
           Nuevas1(o) == [i \in DOMAIN o |-> Fila(j, o[i].nodo, s, o[i].blk, g, {})]
<1>7. \/ /\ \A i \in W : Otra(i) # SinCopia
         /\ \E orden \in EnOrden(W) : \E o :
              /\ o = [i \in DOMAIN orden |-> Otra(orden[i])]
              /\ tabla' = t \o Nuevas1(o)
              /\ cargas' = MoverCarga(n, j, o)
              /\ Enviar(s, Etapa(Len(t) + 1 .. Len(t) + Len(o)))
      \/ AbortarJob(s, j, t, cargas)
  BY <1>1, <1>2, <1>4, ZenonT(60) DEF Replanificacion
<1>8. CASE AbortarJob(s, j, t, cargas)
  <2>1. AbortarJob(s, FilaResp(s).job, t, cargas) /\ e # "AlmacenamientoFinal"
    BY <1>1, <1>2, <1>4, <1>8
  <2>2. D \subseteq DeJob(tabla, s, maestro[s].job) /\ activos' \in {<<>>} \cup ListasActivas
    BY <1>2, <1>5
  <2> QED
    BY <1>1, <1>2, <1>6, <2>1, <2>2, InvAborto
<1>9. ASSUME \A i \in W : Otra(i) # SinCopia,
             NEW orden \in EnOrden(W), NEW o, o = [i \in DOMAIN orden |-> Otra(orden[i])],
             tabla' = t \o Nuevas1(o), cargas' = MoverCarga(n, j, o),
             Enviar(s, Etapa(Len(t) + 1 .. Len(t) + Len(o)))
      PROVE  IInv' /\ Extiende(s)
  <2>1. PICK m : m = Cardinality(W)
    OBVIOUS
  <2>2. m \in Nat \ {0}
    <3>1. W \subseteq 1 .. Len(tabla) /\ f \in W
      BY <1>1, <1>3, <1>4, <1>5, FilasEs DEF EsTabla, FilasTransf, DeJob, Filas
    <3>2. IsFiniteSet(W)
      BY <1>5, <3>1, FilasFinitas
    <3> QED
      BY <2>1, <3>1, <3>2, FS_CardinalityType, FS_EmptySet
  <2>3. orden \in [1 .. m -> W]
    BY <1>9, <2>1 DEF EnOrden
  <2>4. DOMAIN o = 1 .. m /\ Len(o) = m /\ \A i \in 1 .. m : o[i] = Otra(orden[i]) /\ orden[i] \in W
    <3>1. DOMAIN o = 1 .. m /\ \A i \in 1 .. m : o[i] = Otra(orden[i]) /\ orden[i] \in W
      BY <1>9, <2>3
    <3> QED
      BY <2>2, <3>1
  <2>5. ASSUME NEW i \in 1 .. m
        PROVE  o[i].nodo \in Nodos /\ o[i].blk \in Nat /\ EsCopia(o[i].nodo, o[i].blk)
    <3>1. PICK k, b, c : k = orden[i] /\ b = tabla[k].blk /\ c = o[i]
      OBVIOUS
    <3>2. k \in W /\ c = OtraCopia(n, b) /\ c # SinCopia
      BY <1>9, <2>4, <3>1
    <3>3. k \in Filas /\ tabla[k].nodo = n /\ tabla[k].etapa = "Transformacion"
      BY <1>4, <3>2 DEF FilasTransf, DeJob, Filas
    <3>4. EsCopia(n, b)
      BY <1>5, <3>1, <3>3 DEF Claves, BienClavada
    <3> QED
      BY <3>1, <3>2, <3>4, OtraCopiaEs
  <2>6. PICK v : v = Nuevas1(o)
    OBVIOUS
  <2>7. ASSUME NEW i \in 1 .. m
        PROVE  v[i] \in TipoFila(Len(tabla)) /\ Nueva(v[i], s) /\ v[i].etapa = "Transformacion"
    <3>1. PICK a, b, A, q : a = o[i].nodo /\ b = o[i].blk /\ A = {} /\ q = Fila(j, a, s, b, g, A)
      OBVIOUS
    <3>2. v[i] = q
      BY <2>4, <2>6, <3>1
    <3>3. a \in Nodos /\ b \in Int /\ EsCopia(a, b) /\ A \in SUBSET (1 .. Len(tabla)) /\ g \in Etapas
      BY <1>1, <2>5, <3>1 DEF Etapas
    <3>4. /\ q \in TipoFila(Len(tabla)) /\ q.master = s /\ q.job = j /\ q.nodo = a /\ q.blk = b
          /\ q.etapa = g /\ q.estado = "EnProceso"
      BY <1>5, <3>1, <3>3, FilaEs
    <3>5. Nueva(q, s)
      BY <1>1, <1>5, <3>3, <3>4 DEF Nueva, BienClavada
    <3> QED
      BY <1>1, <3>2, <3>4, <3>5
  <2>8. v \in [1 .. m -> TipoFila(Len(tabla))]
    BY <2>4, <2>6, <2>7
  <2>9. cargas' \in [Nodos -> TipoCarga]
    BY <1>5, <1>9, <2>2, <2>4, MoverCargaEs
  <2>10. tabla' = t \o v /\ Enviar(s, Etapa(Len(t) + 1 .. Len(t) + m))
    BY <1>9, <2>4, <2>6
  <2>11. D \in SUBSET DeJob(tabla, s, maestro[s].job)
    BY <1>5
  <2> QED
    BY <1>1, <1>2, <1>6, <2>2, <2>7, <2>8, <2>9, <2>10, <2>11, InvReplanifica
<1> HIDE DEF Otra, Nuevas1
<1> QED
  BY <1>7, <1>8, <1>9

-----------------------------------------------------------------------------
(* A job starts: until then it has no rows. *)

LEMMA InvInicio ==
  ASSUME IInv, NEW s \in Sockets, yama = "viva", maestro[s].est = "pide",
         maestro' = [maestro EXCEPT ![s].est = "activo"], activos' \in ListasActivas,
         Len(tabla') \in Nat, tabla' \in Seq(TipoFila(Len(tabla'))), Extiende(s), Manda(s),
         cargas' \in [Nodos -> TipoCarga], \A k \in Nuevas : tabla'[k].etapa = "Transformacion",
         Encontrable(s)', UNCHANGED <<yama, numeroJob, hilos, aYama, fallos, tardios>>
  PROVE  IInv' /\ Extiende(s)
<1>1. /\ TypeOK /\ Filas = 1 .. Len(tabla) /\ maestro[s].job \in Jobs
      /\ \A i \in Filas : tabla[i].job # maestro[s].job
  BY FilasEs DEF IInv, EsTabla, Numerados, EnYama
<1>2. /\ maestro'[s].est = "activo" /\ maestro'[s].job = maestro[s].job
      /\ \A u \in Sockets \ {s} : maestro'[u] = maestro[u]
      /\ maestro' \in [Sockets -> TipoMaestro]
  <2>1. PICK q : q = [maestro[s] EXCEPT !.est = "activo"]
    OBVIOUS
  <2>2. maestro' = [maestro EXCEPT ![s] = q] /\ maestro \in [Sockets -> TipoMaestro]
    BY <1>1, <2>1 DEF TypeOK
  <2>3. q \in TipoMaestro /\ q.est = "activo" /\ q.job = maestro[s].job
    BY <2>1, <2>2 DEF TipoMaestro
  <2> QED
    BY <2>2, <2>3
<1>3. UNCHANGED <<numeroJob, tareas, porEnviar, aYama, fallos, tardios, yama>>
  BY DEF hilos
<1>4. TypeOK'
  <2>1. Len(tabla) <= Len(tabla')
    BY DEF Extiende
  <2>2. /\ aMaestro' \in [Sockets -> Seq(TipoMensaje(Len(tabla')))]
        /\ aYama' \in [Sockets -> Seq(TipoRespuesta(Len(tabla)))]
        /\ yama' \in {"viva", "caida", "fin", "gira"} /\ tardios' \subseteq Jobs
    BY <1>1, <1>3 DEF Manda, TypeOK
  <2> QED
    BY <1>1, <1>2, <1>3, <2>1, <2>2, TipoTras
<1>5. Paso(s)
  <2>1. Corrientes(s)
    BY <1>3 DEF Corrientes, Manda
  <2> QED
    BY <1>2, <1>3, <2>1 DEF Paso, EnYama
<1>6. /\ \A i \in Filas' : i \in Filas \/ i \in Nuevas
      /\ \A i \in Nuevas : tabla'[i].job = maestro[s].job
      /\ \A i \in Filas : MismaClave(tabla'[i], tabla[i]) /\ tabla'[i].estado = tabla[i].estado
  BY <1>1, <1>4, FilasTras DEF Nueva, Extiende
<1>7. EnEtapas'
  <2> SUFFICES ASSUME NEW i \in Filas', NEW k \in Filas',
                      tabla'[i].job = tabla'[k].job, tabla'[i].job \notin tardios',
                      tabla'[k].etapa \in Previas(tabla'[i])
               PROVE  tabla'[k].estado # "EnProceso"
    BY DEF EnEtapas, Previas
  <2>1. i \notin Nuevas
    BY DEF Previas
  <2>2. i \in Filas /\ k \in Filas
    BY <1>1, <1>6, <2>1 DEF MismaClave
  <2>3. Previas(tabla'[i]) = Previas(tabla[i])
    BY <1>6, <2>2 DEF Previas, MismaClave
  <2> QED
    BY <1>3, <1>6, <2>2, <2>3 DEF IInv, EnEtapas, MismaClave
<1>8. EtapaFinalUnica'
  <2> SUFFICES ASSUME NEW i \in Filas', NEW k \in Filas',
                      tabla'[i].job = tabla'[k].job, tabla'[i].etapa = tabla'[k].etapa,
                      tabla'[i].etapa \in {"ReduccionGlobal", "AlmacenamientoFinal"},
                      tabla'[i].job \notin tardios'
               PROVE  i = k
    BY DEF EtapaFinalUnica
  <2>1. i \in Filas /\ k \in Filas
    BY <1>6
  <2> QED
    BY <1>3, <1>6, <2>1 DEF IInv, EtapaFinalUnica, MismaClave
<1>9. CaidaExplicada'
  BY <1>3 DEF CaidaExplicada
<1> QED
  BY <1>4, <1>5, <1>7, <1>8, <1>9, InvPasoDe

LEMMA PasoIniciarSinArchivo ==
  ASSUME IInv, NEW s \in Sockets, IniciarSinArchivo(s)
  PROVE  IInv' /\ Extiende(s)
<1>1. /\ yama = "viva" /\ maestro[s].est = "pide" /\ maestro' = [maestro EXCEPT ![s].est = "activo"]
      /\ activos' \in ListasActivas /\ AbortarJob(s, maestro[s].job, tabla, cargas)
      /\ UNCHANGED <<yama, numeroJob, hilos, aYama, fallos, tardios>>
  BY DEF IniciarSinArchivo
<1>2. TypeOK /\ maestro[s].job \in Jobs /\ Len(tabla) \in Nat
  BY <1>1, FilasEs DEF IInv, Numerados, EsTabla
<1>3. PICK t, D, x : t = tabla /\ D = {} /\ x = "Error"
  OBVIOUS
<1>4. t \in Seq(TipoFila(Len(tabla))) /\ D \subseteq DeJob(tabla, s, maestro[s].job)
      /\ Retocada(tabla, t, D, x)
  BY <1>2, <1>3, SinRetoque
<1>5. AbortarJob(s, maestro[s].job, t, cargas)
  BY <1>1, <1>3
<1>6. /\ Extiende(s) /\ Nuevas = {} /\ Len(tabla') = Len(tabla)
      /\ tabla' \in Seq(TipoFila(Len(tabla))) /\ cargas' \in [Nodos -> TipoCarga]
      /\ maestro[s].est # "saliendo" => ErrorJob \in Rango(aMaestro'[s])
  BY <1>2, <1>3, <1>4, <1>5, AbortoEs
<1>7. Manda(s)
  BY <1>1, <1>2, <1>6, MandaError DEF AbortarJob
<1>8. Encontrable(s)'
  BY <1>1, <1>6 DEF Encontrable, ErrorJob
<1>9. Len(tabla') \in Nat /\ tabla' \in Seq(TipoFila(Len(tabla')))
  BY <1>2, <1>6
<1> QED
  BY <1>1, <1>6, <1>7, <1>8, <1>9, InvInicio

(* A plan gives every block to a node that holds a copy of it. *)
LEMMA PlanEs ==
  ASSUME NEW act, act \in ListasActivas, NEW p \in Planes(act), NEW b \in Bloques
  PROVE  /\ p[b] \in Nodos /\ Copia(b, p[b]).blk \in Nat /\ EsCopia(p[b], Copia(b, p[b]).blk)
         /\ \E i \in 1 .. 2 : Archivo[b][i] # SinCopia /\ Archivo[b][i] = [nodo |-> p[b], blk |-> Copia(b, p[b]).blk]
<1>1. PICK n, c : n = p[b] /\ c = Copia(b, n)
  OBVIOUS
<1>2. p \in [Bloques -> Rango(act)] /\ Dueno(b, n)
  BY <1>1 DEF Planes
<1>3. c \in {Archivo[b][1], Archivo[b][2]} /\ c # SinCopia /\ c.nodo = n
  BY <1>1, <1>2 DEF Copia, Dueno
<1> DEFINE Copias == [nodo : Nodos, blk : Nat]
<1>4. Archivo \in Seq((Copias \cup {SinCopia}) \X (Copias \cup {SinCopia}))
  BY JobsAssumption
<1>5. Archivo[b] \in (Copias \cup {SinCopia}) \X (Copias \cup {SinCopia})
  BY <1>4, ElementOfSeq DEF Bloques
<1>6. c \in Copias
  BY <1>3, <1>5
<1>7. c = [nodo |-> n, blk |-> c.blk] /\ n \in Nodos /\ c.blk \in Nat
  BY <1>3, <1>6
<1>8. EsCopia(n, c.blk) /\ \E i \in 1 .. 2 : Archivo[b][i] # SinCopia /\ Archivo[b][i] = [nodo |-> n, blk |-> c.blk]
  <2>1. \E i \in 1 .. 2 : Archivo[b][i] = c
    BY <1>3
  <2>2. \E i \in 1 .. 2 : Archivo[b][i] # SinCopia /\ Archivo[b][i] = [nodo |-> n, blk |-> c.blk]
    BY <1>3, <1>7, <2>1
  <2> QED
    BY <2>2 DEF EsCopia
<1> QED
  BY <1>1, <1>7, <1>8

LEMMA PasoIniciarJob ==
  ASSUME IInv, NEW s \in Sockets, IniciarJob(s)
  PROVE  IInv' /\ Extiende(s)
<1>1. /\ yama = "viva" /\ maestro[s].est = "pide" /\ maestro' = [maestro EXCEPT ![s].est = "activo"]
      /\ UNCHANGED <<yama, numeroJob, hilos, aYama, fallos, tardios>>
  BY DEF IniciarJob
<1>2. PICK j, g, n0 : j = maestro[s].job /\ g = "Transformacion" /\ n0 = Len(tabla)
  OBVIOUS
<1>3. TypeOK /\ j \in Jobs /\ n0 \in Nat /\ tabla \in Seq(TipoFila(n0))
  BY <1>1, <1>2, FilasEs DEF IInv, Numerados, EsTabla, TypeOK
<1> DEFINE Primeras(p) == [b \in Bloques |-> Fila(j, p[b], s, Copia(b, p[b]).blk, g, {})]
           Carga(p, n) == Cardinality({b \in Bloques : p[b] = n})
<1>4. PICK act : /\ act \in ListasActivas /\ activos' = act
                 /\ \/ Enviar(s, ErrorJob) /\ UNCHANGED <<tabla, cargas>>
                    \/ \E p \in Planes(act) :
                         /\ tabla' = tabla \o Primeras(p)
                         /\ cargas' = [n \in Nodos |->
                                         [actual |-> cargas[n].actual + Carga(p, n),
                                          porJob |-> [cargas[n].porJob EXCEPT ![j] = Carga(p, n)]]]
                         /\ Enviar(s, Etapa(n0 + 1 .. n0 + Len(Archivo)))
  BY <1>2 DEF IniciarJob
<1>5. CASE Enviar(s, ErrorJob) /\ UNCHANGED <<tabla, cargas>>
  <2>1. Len(tabla') = Len(tabla) /\ Nuevas = {} /\ \A i \in Filas : tabla'[i] = tabla[i]
    BY <1>2, <1>3, <1>5 DEF Nuevas
  <2>2. Extiende(s)
    <3>1. Len(tabla) <= Len(tabla') /\ Filas = 1 .. Len(tabla)
      BY <1>2, <1>3, <2>1, FilasEs DEF EsTabla
    <3> QED
      BY <2>1, <3>1 DEF Extiende, MismaClave
  <2>3. Manda(s) /\ ErrorJob \in Rango(aMaestro'[s])
    BY <1>1, <1>3, <1>5, <2>1, MandaError
  <2>4. Encontrable(s)'
    BY <2>3 DEF Encontrable, ErrorJob
  <2>5. cargas' \in [Nodos -> TipoCarga] /\ Len(tabla') \in Nat /\ tabla' \in Seq(TipoFila(Len(tabla')))
    BY <1>2, <1>3, <1>5, <2>1 DEF TypeOK
  <2> QED
    BY <1>1, <1>4, <2>1, <2>2, <2>3, <2>4, <2>5, InvInicio
<1>6. ASSUME NEW p \in Planes(act), tabla' = tabla \o Primeras(p),
             cargas' = [n \in Nodos |-> [actual |-> cargas[n].actual + Carga(p, n),
                                        porJob |-> [cargas[n].porJob EXCEPT ![j] = Carga(p, n)]]],
             Enviar(s, Etapa(n0 + 1 .. n0 + Len(Archivo)))
      PROVE  IInv' /\ Extiende(s)
  <2>1. PICK m, v, u : m = Len(Archivo) /\ v = Primeras(p) /\ u = tabla'
    OBVIOUS
  <2>2. m \in Nat \ {0} /\ Bloques = 1 .. m
    <3>1. Archivo # <<>> /\ Archivo \in Seq(([nodo : Nodos, blk : Nat] \cup {SinCopia})
                                            \X ([nodo : Nodos, blk : Nat] \cup {SinCopia}))
      BY JobsAssumption
    <3>2. Len(Archivo) \in Nat /\ Len(Archivo) # 0
      BY <3>1, EmptySeq, LenProperties
    <3> QED
      BY <2>1, <3>2 DEF Bloques
  <2>3. ASSUME NEW b \in Bloques
        PROVE  v[b] \in TipoFila(n0) /\ Nueva(v[b], s) /\ v[b].etapa = "Transformacion"
    <3>1. PICK n, k, A, q : n = p[b] /\ k = Copia(b, n).blk /\ A = {} /\ q = Fila(j, n, s, k, g, A)
      OBVIOUS
    <3>2. n \in Nodos /\ k \in Int /\ EsCopia(n, k) /\ A \in SUBSET (1 .. Len(tabla)) /\ g \in Etapas
      <4>1. n \in Nodos /\ k \in Nat /\ EsCopia(n, k)
        BY ONLY <1>4, p \in Planes(act), b \in Bloques, <3>1, PlanEs
      <4> QED
        BY <1>2, <3>1, <4>1 DEF Etapas
    <3>3. v[b] = q
      BY <2>1, <3>1
    <3>4. /\ q \in TipoFila(Len(tabla)) /\ q.master = s /\ q.job = j /\ q.nodo = n /\ q.blk = k
          /\ q.etapa = g /\ q.estado = "EnProceso"
      BY <1>3, <3>1, <3>2, FilaEs
    <3>5. Nueva(q, s)
      BY <1>2, <3>2, <3>4 DEF Nueva, BienClavada
    <3> QED
      BY <1>2, <3>3, <3>4, <3>5
  <2>4. TablaDe(u, n0 + m) /\ Alargada(tabla, u, m) /\ Cola(u, n0, m, v)
    <3>1. TablaDe(tabla, n0) /\ FilasDe(v, m, n0) /\ u = tabla \o v
      BY <1>2, <1>3, <1>6, <2>1, <2>2, <2>3 DEF TablaDe, FilasDe
    <3> QED
      BY <1>3, <2>2, <3>1, VariasMas
  <2>5. n0 + m \in Nat /\ n0 <= n0 + m /\ n0 + 1 \in n0 + 1 .. n0 + m
    BY <1>3, <2>2
  <2>6. Len(tabla') = n0 + m /\ tabla' \in Seq(TipoFila(n0 + m)) /\ Nuevas = n0 + 1 .. n0 + m
    BY <1>2, <2>1, <2>4 DEF TablaDe, Nuevas
  <2>7. ASSUME NEW k \in Nuevas PROVE Nueva(tabla'[k], s) /\ tabla'[k].etapa = "Transformacion"
    <3>1. PICK b : b = k - n0
      OBVIOUS
    <3>2. b \in 1 .. m /\ u[k] = v[b]
      BY <2>4, <2>6, <3>1 DEF Cola
    <3>3. Nueva(v[b], s) /\ v[b].etapa = "Transformacion"
      BY <2>2, <2>3, <3>2
    <3> QED
      BY <2>1, <3>2, <3>3
  <2>8. Extiende(s)
    <3>1. \A i \in 1 .. Len(tabla) : tabla'[i] = tabla[i]
      BY <2>1, <2>4 DEF Alargada
    <3>2. Len(tabla) <= Len(tabla')
      BY <1>2, <2>5, <2>6
    <3> QED
      BY <2>7, <3>1, <3>2 DEF Extiende, MismaClave
  <2>9. Len(tabla') \in Nat /\ tabla' \in Seq(TipoFila(Len(tabla'))) /\ Len(tabla) <= Len(tabla')
    BY <1>2, <2>5, <2>6
  <2>10. Manda(s)
    <3>1. PICK S : S = n0 + 1 .. n0 + m
      OBVIOUS
    <3>2. S \subseteq Nuevas /\ Enviar(s, Etapa(S))
      BY <1>6, <2>1, <2>6, <3>1
    <3> QED
      BY <1>3, <2>9, <3>2, MandaEtapa
  <2>11. cargas' \in [Nodos -> TipoCarga]
    <3> SUFFICES ASSUME NEW n \in Nodos
                 PROVE  [actual |-> cargas[n].actual + Carga(p, n),
                         porJob |-> [cargas[n].porJob EXCEPT ![j] = Carga(p, n)]] \in TipoCarga
      BY <1>6
    <3>1. PICK k : k = Carga(p, n)
      OBVIOUS
    <3>2. k \in Nat
      <4>1. 1 \in Int /\ m \in Int
        BY <2>2
      <4>2. IsFiniteSet(1 .. m)
        BY <4>1, FS_Interval
      <4>3. IsFiniteSet({b \in Bloques : p[b] = n})
        BY <2>2, <4>2, FS_Subset
      <4> QED
        BY <3>1, <4>3, FS_CardinalityType
    <3>3. cargas[n].actual \in Int /\ cargas[n].porJob \in [Jobs -> Nat]
      BY <1>3 DEF TypeOK, TipoCarga
    <3>4. cargas[n].actual + k \in Int /\ [cargas[n].porJob EXCEPT ![j] = k] \in [Jobs -> Nat]
      BY <1>3, <3>2, <3>3
    <3> QED
      BY <3>1, <3>4 DEF TipoCarga
  <2>12. Encontrable(s)'
    <3>1. PICK k : k = n0 + 1
      OBVIOUS
    <3>2. k \in Nuevas
      BY <2>5, <2>6, <3>1
    <3>3. k \in Filas'
      <4>1. 1 \in Int /\ k \in 1 .. n0 + m
        BY <1>3, <2>5, <3>1
      <4> QED
        BY <2>6, <2>9, <4>1, LenProperties DEF Filas
    <3>4. maestro'[s].job = maestro[s].job
      BY <1>1, <1>3 DEF TypeOK, TipoMaestro
    <3>5. k \in EnProceso(s, maestro[s].job)'
      BY <2>7, <3>2, <3>3, <3>4 DEF EnProceso, DeJob, Filas, Nueva
    <3> QED
      BY <3>5 DEF Encontrable
  <2> HIDE DEF Primeras, Carga
  <2> QED
    BY <1>1, <1>4, <2>7, <2>8, <2>9, <2>10, <2>11, <2>12, InvInicio
<1> HIDE DEF Primeras, Carga
<1> QED
  BY <1>4, <1>5, <1>6

-----------------------------------------------------------------------------
(* The steps of a master: the table does not change, and the rows it and   *)
(* its streams hold are still of its job.                                  *)

SuyasTras(s) ==
  /\ \A f \in tareas'[s] : Propia(f, s)
  /\ \A a \in porEnviar'[s] : Propia(a.fila, s)
  /\ \A i \in DOMAIN aYama'[s] : Propia(aYama'[s][i].fila, s)
  /\ \A i \in DOMAIN aMaestro'[s] : \A f \in aMaestro'[s][i].filas : Propia(f, s)

PasoMaestro(s) ==
  /\ \A u \in Sockets \ {s} :
       /\ maestro'[u] = maestro[u] /\ tareas'[u] = tareas[u] /\ porEnviar'[u] = porEnviar[u]
       /\ aYama'[u] = aYama[u] /\ aMaestro'[u] = aMaestro[u]
  /\ maestro'[s].job = maestro[s].job /\ maestro[s].est # "libre"
  /\ maestro'[s].est = maestro[s].est \/ maestro'[s].est = "saliendo"
  /\ SuyasTras(s)
  /\ \A i \in DOMAIN aYama'[s] : \/ \E k \in DOMAIN aYama[s] : aYama'[s][i] = aYama[s][k]
                                 \/ tabla[aYama'[s][i].fila].etapa # "AlmacenamientoFinal"
                                 \/ maestro'[s].est = "saliendo"
  /\ UNCHANGED <<yama, numeroJob, tabla, cargas, activos, tardios>>

LEMMA InvMaestro ==
  ASSUME IInv, TypeOK', NEW s \in Sockets, PasoMaestro(s), Encontrable(s)'
  PROVE  IInv'
<1>1. /\ \A u \in Sockets \ {s} :
           /\ maestro'[u] = maestro[u] /\ tareas'[u] = tareas[u] /\ porEnviar'[u] = porEnviar[u]
           /\ aYama'[u] = aYama[u] /\ aMaestro'[u] = aMaestro[u]
      /\ maestro'[s].job = maestro[s].job /\ maestro[s].est # "libre"
      /\ maestro'[s].est = maestro[s].est \/ maestro'[s].est = "saliendo"
      /\ tabla' = tabla /\ Filas' = Filas /\ tardios' = tardios /\ numeroJob' = numeroJob
      /\ yama' = yama /\ activos' = activos
  BY DEF PasoMaestro, Filas
<1>2. \A u \in Sockets : /\ EnYama(u) => EnYama(u)'
                         /\ maestro'[u].job = maestro[u].job
                         /\ maestro'[u].est # "libre" => maestro[u].est # "libre"
  BY <1>1 DEF EnYama
<1>3. ASSUME NEW f, NEW u \in Sockets, Propia(f, u) PROVE Propia(f, u)'
  BY <1>1, <1>2, <1>3 DEF Propia
<1>4. Claves'
  BY <1>1 DEF IInv, Claves, BienClavada, EsCopia
<1>5. Numerados'
  BY <1>1, <1>2 DEF IInv, Numerados
<1>6. Propias'
  <2>1. ASSUME NEW u \in Sockets
        PROVE  /\ \A f \in tareas'[u] : Propia(f, u)
               /\ \A a \in porEnviar'[u] : Propia(a.fila, u)
               /\ \A i \in DOMAIN aYama'[u] : Propia(aYama'[u][i].fila, u)
               /\ \A i \in DOMAIN aMaestro'[u] : \A f \in aMaestro'[u][i].filas : Propia(f, u)
    <3>1. CASE u = s
      BY <3>1 DEF PasoMaestro, SuyasTras
    <3>2. CASE u # s
      BY <1>1, <3>2 DEF IInv, Propias
    <3> QED
      BY <3>1, <3>2
  <2> QED
    BY <1>1, <1>2, <2>1 DEF Propias, Propia
<1>7. Limpieza'
  <2> SUFFICES ASSUME NEW i \in Filas, tabla[i].estado = "EnProceso" PROVE Propia(i, tabla[i].master)'
    BY <1>1 DEF Limpieza
  <2>1. PICK u : u = tabla[i].master
    OBVIOUS
  <2>2. u \in Sockets /\ Propia(i, u)
    BY <2>1, FilasEs DEF IInv, EsTabla, TipoFila, Limpieza
  <2>3. Propia(i, u)'
    BY <1>3, <2>2
  <2> QED
    BY <1>1, <2>1, <2>3 DEF Propia
<1>8. Almacenado'
  <2> SUFFICES ASSUME NEW u \in Sockets, NEW i \in DOMAIN aYama'[u],
                      tabla[aYama'[u][i].fila].etapa = "AlmacenamientoFinal"
               PROVE  maestro'[u].est = "saliendo"
    BY <1>1 DEF Almacenado
  <2>1. CASE \E k \in DOMAIN aYama[u] : aYama'[u][i] = aYama[u][k]
    <3>1. maestro[u].est = "saliendo"
      BY <2>1 DEF IInv, Almacenado
    <3> QED
      BY <1>1, <3>1
  <2>2. CASE u = s
    BY <2>1, <2>2 DEF PasoMaestro
  <2> QED
    BY <1>1, <2>1, <2>2
<1>9. EnEtapas'
  BY <1>1 DEF IInv, EnEtapas, Previas
<1>10. EtapaFinalUnica'
  BY <1>1 DEF IInv, EtapaFinalUnica
<1>11. CaidaExplicada'
  BY <1>1 DEF IInv, CaidaExplicada, Rango
<1>12. DesconexionEncuentra'
  <2> SUFFICES ASSUME NEW u \in Sockets, yama' = "viva", maestro'[u].est = "activo", PorVenir(u)'
               PROVE  EnProceso(u, maestro[u].job)' # {} \/ ErrorJob \in Rango(aMaestro'[u])
    BY DEF DesconexionEncuentra, PorVenir, ErrorJob
  <2>1. CASE u = s
    BY <2>1 DEF Encontrable, ErrorJob
  <2>2. CASE u # s
    <3>1. maestro'[u] = maestro[u] /\ PorVenir(u) /\ aMaestro'[u] = aMaestro[u]
      BY <1>1, <2>2 DEF PorVenir
    <3>2. EnProceso(u, maestro[u].job) # {} \/ ErrorJob \in Rango(aMaestro[u])
      BY <1>1, <3>1 DEF IInv, DesconexionEncuentra, PorVenir
    <3>3. EnProceso(u, maestro[u].job)' = EnProceso(u, maestro[u].job)
      BY <1>1, <3>1 DEF EnProceso, DeJob
    <3> QED
      BY <3>1, <3>2, <3>3
  <2> QED
    BY <2>1, <2>2
<1> QED
  BY <1>4, <1>5, <1>6, <1>7, <1>8, <1>9, <1>10, <1>11, <1>12 DEF IInv

(* The types after a step of a master. *)
LEMMA TipoMaestroTras ==
  ASSUME TypeOK, NEW s \in Sockets, NEW x \in TipoMaestro, maestro' = [maestro EXCEPT ![s] = x],
         tareas' \in [Sockets -> SUBSET (1 .. Len(tabla))],
         porEnviar' \in [Sockets -> SUBSET TipoRespuesta(Len(tabla))],
         aMaestro' \in [Sockets -> Seq(TipoMensaje(Len(tabla)))],
         aYama' \in [Sockets -> Seq(TipoRespuesta(Len(tabla)))], fallos' \in 0 .. MaxFallos,
         UNCHANGED <<yama, numeroJob, tabla, cargas, activos, tardios>>
  PROVE  TypeOK'
BY DEF TypeOK

(* What a master and its streams hold, by the invariant. *)
LEMMA SuyasEs ==
  ASSUME IInv, NEW s \in Sockets
  PROVE  /\ maestro[s] \in TipoMaestro
         /\ tareas[s] \in SUBSET (1 .. Len(tabla)) /\ \A f \in tareas[s] : Propia(f, s)
         /\ porEnviar[s] \in SUBSET TipoRespuesta(Len(tabla))
         /\ \A a \in porEnviar[s] : Propia(a.fila, s)
         /\ aMaestro[s] \in Seq(TipoMensaje(Len(tabla)))
         /\ \A i \in DOMAIN aMaestro[s] : \A f \in aMaestro[s][i].filas : Propia(f, s)
         /\ aYama[s] \in Seq(TipoRespuesta(Len(tabla)))
         /\ \A i \in DOMAIN aYama[s] : Propia(aYama[s][i].fila, s)
<1>1. /\ maestro[s] \in TipoMaestro /\ tareas[s] \in SUBSET (1 .. Len(tabla))
      /\ porEnviar[s] \in SUBSET TipoRespuesta(Len(tabla))
      /\ aMaestro[s] \in Seq(TipoMensaje(Len(tabla)))
      /\ aYama[s] \in Seq(TipoRespuesta(Len(tabla)))
  BY DEF IInv, TypeOK
<1> QED
  BY <1>1 DEF IInv, Propias

(* What the master of descriptor s may become, with its threads T, its     *)
(* answers to send P and its two streams m and q.                          *)
Suya(s, x, T, P, m, q) ==
  /\ x \in TipoMaestro /\ x.job = maestro[s].job /\ (x.est = maestro[s].est \/ x.est = "saliendo")
  /\ T \in SUBSET (1 .. Len(tabla)) /\ \A f \in T : Propia(f, s)
  /\ P \in SUBSET TipoRespuesta(Len(tabla)) /\ \A a \in P : Propia(a.fila, s)
  /\ m \in Seq(TipoMensaje(Len(tabla))) /\ \A i \in DOMAIN m : \A f \in m[i].filas : Propia(f, s)
  /\ q \in Seq(TipoRespuesta(Len(tabla)))
  /\ \A i \in DOMAIN q : Propia(q[i].fila, s)
  /\ \A i \in DOMAIN q : \/ \E k \in DOMAIN aYama[s] : q[i] = aYama[s][k]
                         \/ tabla[q[i].fila].etapa # "AlmacenamientoFinal"
                         \/ x.est = "saliendo"
  /\ yama = "viva" /\ x.est = "activo" => ErrorJob \in Rango(m) \/ EnProceso(s, maestro[s].job) # {}

Queda(s, x, T, P, m, q) ==
  /\ maestro' = [maestro EXCEPT ![s] = x] /\ tareas' = [tareas EXCEPT ![s] = T]
  /\ porEnviar' = [porEnviar EXCEPT ![s] = P] /\ aMaestro' = [aMaestro EXCEPT ![s] = m]
  /\ aYama' = [aYama EXCEPT ![s] = q]
  /\ fallos' \in 0 .. MaxFallos /\ UNCHANGED <<yama, numeroJob, tabla, cargas, activos, tardios>>

LEMMA InvSuya ==
  ASSUME IInv, NEW s \in Sockets, maestro[s].est # "libre", NEW x, NEW T, NEW P, NEW m, NEW q,
         Suya(s, x, T, P, m, q), Queda(s, x, T, P, m, q)
  PROVE  IInv'
<1>1. /\ TypeOK /\ maestro \in [Sockets -> TipoMaestro]
      /\ tareas \in [Sockets -> SUBSET (1 .. Len(tabla))]
      /\ porEnviar \in [Sockets -> SUBSET TipoRespuesta(Len(tabla))]
      /\ aMaestro \in [Sockets -> Seq(TipoMensaje(Len(tabla)))]
      /\ aYama \in [Sockets -> Seq(TipoRespuesta(Len(tabla)))]
  BY DEF IInv, TypeOK
<1>2. /\ x \in TipoMaestro /\ T \in SUBSET (1 .. Len(tabla)) /\ P \in SUBSET TipoRespuesta(Len(tabla))
      /\ m \in Seq(TipoMensaje(Len(tabla))) /\ q \in Seq(TipoRespuesta(Len(tabla)))
  BY DEF Suya
<1>3. /\ maestro'[s] = x /\ tareas'[s] = T /\ porEnviar'[s] = P /\ aMaestro'[s] = m /\ aYama'[s] = q
      /\ \A u \in Sockets \ {s} :
           /\ maestro'[u] = maestro[u] /\ tareas'[u] = tareas[u] /\ porEnviar'[u] = porEnviar[u]
           /\ aYama'[u] = aYama[u] /\ aMaestro'[u] = aMaestro[u]
  BY <1>1 DEF Queda
<1>4. TypeOK'
  <2>1. /\ tareas' \in [Sockets -> SUBSET (1 .. Len(tabla))]
        /\ porEnviar' \in [Sockets -> SUBSET TipoRespuesta(Len(tabla))]
    BY <1>1, <1>2 DEF Queda
  <2>2. /\ aMaestro' \in [Sockets -> Seq(TipoMensaje(Len(tabla)))]
        /\ aYama' \in [Sockets -> Seq(TipoRespuesta(Len(tabla)))]
    BY <1>1, <1>2 DEF Queda
  <2> QED
    BY <1>1, <1>2, <2>1, <2>2, TipoMaestroTras DEF Queda
<1>5. SuyasTras(s)
  BY <1>3 DEF Suya, SuyasTras
<1>6. PasoMaestro(s)
  BY <1>3, <1>5 DEF Suya, Queda, PasoMaestro
<1>7. Encontrable(s)'
  <2>1. EnProceso(s, maestro[s].job)' = EnProceso(s, maestro[s].job)
    BY <1>3 DEF Suya, Queda, EnProceso, DeJob
  <2> QED
    BY <1>3, <2>1 DEF Suya, Queda, Encontrable, ErrorJob
<1> QED
  BY <1>4, <1>6, <1>7, InvMaestro

(* While something is to come, the error or a row in process is there. *)
LEMMA HayQueEsperar ==
  ASSUME IInv, NEW s \in Sockets, PorVenir(s), yama = "viva", maestro[s].est = "activo"
  PROVE  ErrorJob \in Rango(aMaestro[s]) \/ EnProceso(s, maestro[s].job) # {}
BY DEF IInv, DesconexionEncuentra, PorVenir

LEMMA SaleEs ==
  ASSUME IInv, NEW s \in Sockets, NEW x, x = [maestro[s] EXCEPT !.est = "saliendo"]
  PROVE  x \in TipoMaestro /\ x.job = maestro[s].job /\ x.est = "saliendo"
BY DEF IInv, TypeOK, TipoMaestro

LEMMA PasoTareaOK ==
  ASSUME IInv, NEW s \in Sockets, NEW f \in tareas[s], TareaOK(s, f)
  PROVE  IInv'
<1>1. PICK x, T, P, m, q, a : /\ x = maestro[s] /\ T = tareas[s] \ {f} /\ P = porEnviar[s] \cup {a}
                              /\ m = aMaestro[s] /\ q = aYama[s] /\ a = [fila |-> f, resp |-> 0]
  OBVIOUS
<1>2. /\ maestro[s].est = "activo" /\ tareas' = [tareas EXCEPT ![s] = @ \ {f}]
      /\ porEnviar' = [porEnviar EXCEPT ![s] = @ \cup {[fila |-> f, resp |-> 0]}]
      /\ UNCHANGED <<yama, numeroJob, maestro, aMaestro, aYama, tabla, cargas, activos, fallos, tardios>>
  BY DEF TareaOK
<1>3. a \in TipoRespuesta(Len(tabla)) /\ Propia(a.fila, s)
  <2>1. f \in 1 .. Len(tabla) /\ Propia(f, s)
    BY SuyasEs
  <2> QED
    BY <1>1, <2>1 DEF TipoRespuesta
<1>4. yama = "viva" => ErrorJob \in Rango(aMaestro[s]) \/ EnProceso(s, maestro[s].job) # {}
  BY <1>2, HayQueEsperar DEF PorVenir
<1>5. Suya(s, x, T, P, m, q)
  BY <1>1, <1>3, <1>4, SuyasEs DEF Suya
<1>6. Queda(s, x, T, P, m, q)
  BY <1>1, <1>2 DEF IInv, TypeOK, Queda
<1>7. maestro[s].est # "libre"
  BY <1>2
<1> QED
  BY ONLY IInv, s \in Sockets, <1>5, <1>6, <1>7, InvSuya

LEMMA PasoTareaFalla ==
  ASSUME IInv, NEW s \in Sockets, NEW f \in tareas[s], TareaFalla(s, f)
  PROVE  IInv'
<1>1. PICK x, T, P, m, q, a :
        /\ x = maestro[s] /\ P = porEnviar[s] \cup {a} /\ m = aMaestro[s] /\ q = aYama[s]
        /\ T = IF tabla[f].etapa \in {"Transformacion", "ReduccionLocal"}
               THEN {g \in tareas[s] : tabla[g].nodo # tabla[f].nodo} ELSE tareas[s] \ {f}
        /\ a = [fila |-> f, resp |-> -1]
  OBVIOUS
<1>2. /\ maestro[s].est = "activo" /\ fallos < MaxFallos /\ fallos' = fallos + 1
      /\ tareas' = [tareas EXCEPT ![s] = T]
      /\ porEnviar' = [porEnviar EXCEPT ![s] = @ \cup {[fila |-> f, resp |-> -1]}]
      /\ UNCHANGED <<yama, numeroJob, maestro, aMaestro, aYama, tabla, cargas, activos, tardios>>
  BY <1>1 DEF TareaFalla
<1>3. a \in TipoRespuesta(Len(tabla)) /\ Propia(a.fila, s)
  <2>1. f \in 1 .. Len(tabla) /\ Propia(f, s)
    BY SuyasEs
  <2> QED
    BY <1>1, <2>1 DEF TipoRespuesta
<1>4. yama = "viva" => ErrorJob \in Rango(aMaestro[s]) \/ EnProceso(s, maestro[s].job) # {}
  BY <1>2, HayQueEsperar DEF PorVenir
<1>5. T \subseteq tareas[s]
  BY <1>1
<1>6. Suya(s, x, T, P, m, q)
  <2>1. x = maestro[s] /\ P = porEnviar[s] \cup {a} /\ m = aMaestro[s] /\ q = aYama[s]
    BY <1>1
  <2> QED
    BY ONLY IInv, s \in Sockets, <2>1, <1>3, <1>4, <1>5, SuyasEs DEF Suya
<1>7. fallos' \in 0 .. MaxFallos
  BY <1>2, JobsAssumption DEF IInv, TypeOK
<1>8. Queda(s, x, T, P, m, q)
  <2>1. /\ maestro' = [maestro EXCEPT ![s] = x]
        /\ porEnviar' = [porEnviar EXCEPT ![s] = P] /\ aMaestro' = [aMaestro EXCEPT ![s] = m]
        /\ aYama' = [aYama EXCEPT ![s] = q]
    BY <1>1, <1>2 DEF IInv, TypeOK
  <2> QED
    BY <1>2, <1>7, <2>1 DEF Queda
<1>9. maestro[s].est # "libre"
  BY <1>2
<1> QED
  BY ONLY IInv, s \in Sockets, <1>6, <1>8, <1>9, InvSuya

LEMMA PasoEnviarResultado ==
  ASSUME IInv, NEW s \in Sockets, NEW a \in porEnviar[s], EnviarResultado(s, a)
  PROVE  IInv'
<1>1. PICK x, T, P, m, q :
        /\ x = IF tabla[a.fila].blk = AlmacenamientoFinal
               THEN [maestro[s] EXCEPT !.est = "saliendo"] ELSE maestro[s]
        /\ T = tareas[s] /\ P = porEnviar[s] \ {a} /\ m = aMaestro[s] /\ q = Append(aYama[s], a)
  OBVIOUS
<1>2. /\ maestro[s].est \in {"activo", "saliendo"}
      /\ porEnviar' = [porEnviar EXCEPT ![s] = @ \ {a}] /\ aYama' = [aYama EXCEPT ![s] = Append(@, a)]
      /\ maestro' = IF tabla[a.fila].blk = AlmacenamientoFinal
                    THEN [maestro EXCEPT ![s].est = "saliendo"] ELSE maestro
      /\ UNCHANGED <<yama, numeroJob, tareas, aMaestro, tabla, cargas, activos, fallos, tardios>>
  BY DEF EnviarResultado
<1>3. a \in TipoRespuesta(Len(tabla)) /\ Propia(a.fila, s)
  BY SuyasEs
<1>4. x \in TipoMaestro /\ x.job = maestro[s].job /\ (x.est = maestro[s].est \/ x.est = "saliendo")
  <2>1. CASE tabla[a.fila].blk = AlmacenamientoFinal
    BY <1>1, <2>1, SaleEs
  <2>2. CASE tabla[a.fila].blk # AlmacenamientoFinal
    BY <1>1, <2>2, SuyasEs
  <2> QED
    BY <2>1, <2>2
<1>5. tabla[a.fila].etapa # "AlmacenamientoFinal" \/ x.est = "saliendo"
  <2>1. a.fila \in Filas
    BY <1>3, FilasEs DEF TipoRespuesta, IInv, EsTabla
  <2>2. tabla[a.fila].etapa = "AlmacenamientoFinal" => tabla[a.fila].blk = AlmacenamientoFinal
    BY <2>1 DEF IInv, Claves, BienClavada
  <2>3. CASE tabla[a.fila].blk = AlmacenamientoFinal
    BY <1>1, <2>3, SaleEs
  <2> QED
    BY <2>2, <2>3
<1>6. q \in Seq(TipoRespuesta(Len(tabla)))
      /\ \A i \in DOMAIN q : q[i] = a \/ \E k \in DOMAIN aYama[s] : q[i] = aYama[s][k]
  <2>1. PICK p, S : p = aYama[s] /\ S = TipoRespuesta(Len(tabla))
    OBVIOUS
  <2>2. p \in Seq(S) /\ a \in S /\ q = Append(p, a)
    BY <1>1, <1>3, <2>1, SuyasEs
  <2>3. /\ q \in Seq(S) /\ DOMAIN q = 1 .. Len(p) + 1 /\ DOMAIN p = 1 .. Len(p) /\ Len(p) \in Nat
        /\ q[Len(p) + 1] = a /\ \A i \in 1 .. Len(p) : q[i] = p[i]
    BY ONLY <2>2
  <2>4. \A i \in DOMAIN q : i \in DOMAIN p \/ i = Len(p) + 1
    BY ONLY <2>3
  <2> QED
    BY <2>1, <2>3, <2>4
<1>7. yama = "viva" /\ x.est = "activo" => ErrorJob \in Rango(aMaestro[s]) \/ EnProceso(s, maestro[s].job) # {}
  <2>1. x.est = "activo" => maestro[s].est = "activo"
    BY <1>4
  <2> QED
    BY <2>1, HayQueEsperar DEF PorVenir
<1>8. Suya(s, x, T, P, m, q)
  <2>1. \A i \in DOMAIN q : Propia(q[i].fila, s)
    BY <1>3, <1>6, SuyasEs
  <2>2. \A i \in DOMAIN q : \/ \E k \in DOMAIN aYama[s] : q[i] = aYama[s][k]
                            \/ tabla[q[i].fila].etapa # "AlmacenamientoFinal"
                            \/ x.est = "saliendo"
    BY <1>5, <1>6
  <2>3. T = tareas[s] /\ P \subseteq porEnviar[s] /\ m = aMaestro[s]
    BY <1>1
  <2> QED
    BY ONLY IInv, s \in Sockets, <2>1, <2>2, <2>3, <1>4, <1>6, <1>7, SuyasEs DEF Suya
<1>9. maestro' = [maestro EXCEPT ![s] = x]
  <2>1. maestro \in [Sockets -> TipoMaestro]
    BY DEF IInv, TypeOK
  <2> QED
    BY <1>1, <1>2, <2>1
<1>10. Queda(s, x, T, P, m, q)
  <2>1. /\ tareas' = [tareas EXCEPT ![s] = T] /\ porEnviar' = [porEnviar EXCEPT ![s] = P]
        /\ aMaestro' = [aMaestro EXCEPT ![s] = m]
        /\ aYama' = [aYama EXCEPT ![s] = q] /\ fallos' \in 0 .. MaxFallos
    BY <1>1, <1>2 DEF IInv, TypeOK
  <2> QED
    BY <1>2, <1>9, <2>1 DEF Queda
<1>11. maestro[s].est # "libre"
  BY <1>2
<1> QED
  BY ONLY IInv, s \in Sockets, <1>8, <1>10, <1>11, InvSuya

(* The rest of a stream, and what its head says of it. *)
Partida(s, h, m) == aMaestro[s] # <<>> /\ h = Head(aMaestro[s]) /\ m = Tail(aMaestro[s])

LEMMA RestoEs ==
  ASSUME IInv, NEW s \in Sockets, NEW h, NEW m, Partida(s, h, m)
  PROVE  /\ h \in TipoMensaje(Len(tabla)) /\ \A f \in h.filas : Propia(f, s)
         /\ m \in Seq(TipoMensaje(Len(tabla)))
         /\ \A i \in DOMAIN m : \E k \in DOMAIN aMaestro[s] : m[i] = aMaestro[s][k]
         /\ h \in Rango(aMaestro[s])
         /\ \A v \in Rango(aMaestro[s]) : v = h \/ v \in Rango(m)
<1>1. PICK p, S : p = aMaestro[s] /\ S = TipoMensaje(Len(tabla))
  OBVIOUS
<1>2. p \in Seq(S) /\ p # <<>> /\ h = Head(p) /\ m = Tail(p)
  BY <1>1, SuyasEs DEF Partida
<1>3. /\ Len(p) \in Nat /\ DOMAIN p = 1 .. Len(p) /\ 1 \in DOMAIN p /\ h = p[1]
  BY ONLY <1>2
<1>4. /\ h \in S /\ m \in Seq(S) /\ Len(m) = Len(p) - 1
      /\ \A i \in 1 .. Len(m) : m[i] = p[i + 1]
  BY ONLY <1>2, HeadTailProperties
<1>5. DOMAIN m = 1 .. Len(p) - 1
  BY ONLY <1>4, LenProperties
<1>6. \A i \in DOMAIN m : i + 1 \in DOMAIN p /\ m[i] = p[i + 1]
  BY ONLY <1>3, <1>4, <1>5
<1>7. \A k \in DOMAIN p : k = 1 \/ (k - 1 \in DOMAIN m /\ m[k - 1] = p[k])
  <2> SUFFICES ASSUME NEW k \in DOMAIN p, k # 1 PROVE k - 1 \in DOMAIN m /\ m[k - 1] = p[k]
    OBVIOUS
  <2>1. k - 1 \in 1 .. Len(p) - 1 /\ (k - 1) + 1 = k
    BY ONLY <1>3, k \in DOMAIN p, k # 1
  <2> QED
    BY <1>5, <1>6, <2>1
<1>8. h \in Rango(p) /\ \A v \in Rango(p) : v = h \/ v \in Rango(m)
  <2>1. h \in Rango(p)
    BY ONLY <1>3 DEF Rango
  <2>2. ASSUME NEW v \in Rango(p) PROVE v = h \/ v \in Rango(m)
    <3>1. PICK k \in DOMAIN p : v = p[k]
      BY ONLY v \in Rango(p) DEF Rango
    <3>2. k = 1 \/ (k - 1 \in DOMAIN m /\ m[k - 1] = v)
      BY ONLY <1>7, <3>1
    <3>3. CASE k = 1
      BY ONLY <1>3, <3>1, <3>3
    <3>4. CASE k - 1 \in DOMAIN m /\ m[k - 1] = v
      BY ONLY <3>4 DEF Rango
    <3> QED
      BY ONLY <3>2, <3>3, <3>4
  <2> QED
    BY ONLY <2>1, <2>2
<1>9. \A f \in h.filas : Propia(f, s)
  BY <1>1, <1>3, SuyasEs
<1> QED
  BY <1>1, <1>4, <1>6, <1>8, <1>9

LEMMA PasoRecibir ==
  ASSUME IInv, NEW s \in Sockets, Recibir(s)
  PROVE  IInv'
<1>1. PICK h, m : h = Head(aMaestro[s]) /\ m = Tail(aMaestro[s])
  OBVIOUS
<1>2. PICK P, q : P = porEnviar[s] /\ q = aYama[s]
  OBVIOUS
<1>3. /\ maestro[s].est = "activo" /\ aMaestro[s] # <<>>
      /\ aMaestro' = [aMaestro EXCEPT ![s] = Tail(@)]
      /\ IF h.tipo = "error"
         THEN /\ maestro' = [maestro EXCEPT ![s].est = "saliendo"]
              /\ tareas' = [tareas EXCEPT ![s] = {}]
         ELSE /\ tareas' = [tareas EXCEPT ![s] = @ \cup h.filas]
              /\ UNCHANGED maestro
      /\ UNCHANGED <<yama, numeroJob, porEnviar, aYama, tabla, cargas, activos, fallos, tardios>>
  BY <1>1 DEF Recibir
<1>4. /\ h \in TipoMensaje(Len(tabla)) /\ \A f \in h.filas : Propia(f, s)
      /\ m \in Seq(TipoMensaje(Len(tabla)))
      /\ \A i \in DOMAIN m : \E k \in DOMAIN aMaestro[s] : m[i] = aMaestro[s][k]
      /\ h \in Rango(aMaestro[s]) /\ \A v \in Rango(aMaestro[s]) : v = h \/ v \in Rango(m)
  <2>1. Partida(s, h, m)
    BY <1>1, <1>3 DEF Partida
  <2> QED
    BY ONLY IInv, s \in Sockets, <2>1, RestoEs
<1>5. \A i \in DOMAIN m : \A f \in m[i].filas : Propia(f, s)
  BY <1>4, SuyasEs
<1>6. /\ aMaestro' = [aMaestro EXCEPT ![s] = m] /\ porEnviar' = [porEnviar EXCEPT ![s] = P]
      /\ aYama' = [aYama EXCEPT ![s] = q] /\ fallos' \in 0 .. MaxFallos
  BY <1>1, <1>2, <1>3 DEF IInv, TypeOK
<1>7. maestro[s].est # "libre"
  BY <1>3
<1>8. CASE h.tipo = "error"
  <2>1. PICK x, T : x = [maestro[s] EXCEPT !.est = "saliendo"] /\ T = {}
    OBVIOUS
  <2>2. x \in TipoMaestro /\ x.job = maestro[s].job /\ x.est = "saliendo"
    BY <2>1, SaleEs
  <2>3. Suya(s, x, T, P, m, q)
    <3>1. T = {} /\ P = porEnviar[s] /\ q = aYama[s]
      BY <1>2, <2>1
    <3> QED
      BY ONLY IInv, s \in Sockets, <3>1, <2>2, <1>4, <1>5, SuyasEs DEF Suya
  <2>4. maestro' = [maestro EXCEPT ![s] = x] /\ tareas' = [tareas EXCEPT ![s] = T]
    BY <1>3, <1>8, <2>1 DEF IInv, TypeOK
  <2>5. Queda(s, x, T, P, m, q)
    BY <1>3, <1>6, <2>4 DEF Queda
  <2> QED
    BY ONLY IInv, s \in Sockets, <1>7, <2>3, <2>5, InvSuya
<1>9. CASE h.tipo # "error"
  <2>1. PICK x, T : x = maestro[s] /\ T = tareas[s] \cup h.filas
    OBVIOUS
  <2>2. h.tipo = "etapa" /\ h.filas \subseteq 1 .. Len(tabla)
    BY <1>4, <1>9 DEF TipoMensaje
  <2>3. yama = "viva" => ErrorJob \in Rango(m) \/ EnProceso(s, maestro[s].job) # {}
    <3>1. PorVenir(s)
      BY <1>4, <2>2 DEF PorVenir
    <3>2. ErrorJob # h
      BY <2>2 DEF ErrorJob
    <3> QED
      BY <1>3, <1>4, <3>1, <3>2, HayQueEsperar
  <2>4. Suya(s, x, T, P, m, q)
    <3>1. x = maestro[s] /\ T = tareas[s] \cup h.filas /\ P = porEnviar[s] /\ q = aYama[s]
      BY <1>2, <2>1
    <3>2. T \in SUBSET (1 .. Len(tabla)) /\ \A f \in T : Propia(f, s)
      BY <1>4, <2>2, <3>1, SuyasEs
    <3> QED
      BY ONLY IInv, s \in Sockets, <3>1, <3>2, <2>3, <1>4, <1>5, SuyasEs DEF Suya
  <2>5. maestro' = [maestro EXCEPT ![s] = x] /\ tareas' = [tareas EXCEPT ![s] = T]
    BY <1>3, <1>9, <2>1 DEF IInv, TypeOK
  <2>6. Queda(s, x, T, P, m, q)
    BY <1>3, <1>6, <2>5 DEF Queda
  <2> QED
    BY ONLY IInv, s \in Sockets, <1>7, <2>4, <2>6, InvSuya
<1> QED
  BY <1>8, <1>9

(* The master is gone, and its threads with it. *)
LEMMA PasoCaida ==
  ASSUME IInv, NEW s \in Sockets, CaeMaestro(s) \/ PierdeYama(s)
  PROVE  IInv'
<1>1. PICK m : /\ m = <<>> \/ m = aMaestro[s]
               /\ aMaestro' = [aMaestro EXCEPT ![s] = m]
               /\ maestro[s].est # "libre" /\ maestro' = [maestro EXCEPT ![s].est = "saliendo"]
               /\ MuerenSusHilos(s)
               /\ UNCHANGED <<yama, numeroJob, aYama, tabla, cargas, activos, fallos, tardios>>
  BY DEF CaeMaestro, PierdeYama, IInv, TypeOK
<1>2. PICK x, T, P, q : /\ x = [maestro[s] EXCEPT !.est = "saliendo"] /\ T = {} /\ P = {}
                        /\ q = aYama[s]
  OBVIOUS
<1>3. x \in TipoMaestro /\ x.job = maestro[s].job /\ x.est = "saliendo"
  BY <1>2, SaleEs
<1>4. m \in Seq(TipoMensaje(Len(tabla))) /\ \A i \in DOMAIN m : \A f \in m[i].filas : Propia(f, s)
  <2>1. CASE m = <<>>
    BY <2>1
  <2>2. CASE m = aMaestro[s]
    BY <2>2, SuyasEs
  <2> QED
    BY <1>1, <2>1, <2>2
<1>5. Suya(s, x, T, P, m, q)
  <2>1. T = {} /\ P = {} /\ q = aYama[s]
    BY <1>2
  <2> QED
    BY ONLY IInv, s \in Sockets, <2>1, <1>3, <1>4, SuyasEs DEF Suya
<1>6. Queda(s, x, T, P, m, q)
  <2>1. /\ maestro' = [maestro EXCEPT ![s] = x] /\ tareas' = [tareas EXCEPT ![s] = T]
        /\ porEnviar' = [porEnviar EXCEPT ![s] = P] /\ aYama' = [aYama EXCEPT ![s] = q]
        /\ fallos' \in 0 .. MaxFallos
    BY <1>1, <1>2 DEF IInv, TypeOK, MuerenSusHilos
  <2> QED
    BY <1>1, <2>1 DEF Queda
<1> QED
  BY ONLY IInv, s \in Sockets, <1>1, <1>5, <1>6, InvSuya

-----------------------------------------------------------------------------
(* A master connects or leaves, and YAMA exits. *)

(* At a free descriptor nothing is left of the masters it had. *)
LEMMA LibreVacio ==
  ASSUME IInv, NEW s \in Sockets, ~EnYama(s)
  PROVE  /\ tareas[s] = {} /\ porEnviar[s] = {} /\ DOMAIN aYama[s] = {}
         /\ \A i \in DOMAIN aMaestro[s] : aMaestro[s][i].filas = {}
         /\ \A i \in Filas : tabla[i].estado = "EnProceso" => tabla[i].master # s
<1>1. \A f : ~Propia(f, s)
  BY DEF Propia
<1>2. /\ tareas[s] = {} /\ porEnviar[s] = {} /\ DOMAIN aYama[s] = {}
      /\ \A i \in DOMAIN aMaestro[s] : aMaestro[s][i].filas = {}
  BY <1>1 DEF IInv, Propias
<1>3. \A i \in Filas : tabla[i].estado = "EnProceso" => tabla[i].master # s
  BY <1>1 DEF IInv, Limpieza
<1> QED
  BY <1>2, <1>3

LEMMA ConectarEs ==
  ASSUME IInv, NEW s \in Sockets, Conectar(s)
  PROVE  /\ yama = "viva" /\ numeroJob <= MaxJobs /\ maestro[s].est = "libre" /\ ~EnYama(s)
         /\ maestro' = [maestro EXCEPT ![s] = [est |-> "pide", job |-> numeroJob]]
         /\ numeroJob' = numeroJob + 1
         /\ UNCHANGED <<yama, tareas, porEnviar, aMaestro, aYama, tabla, cargas, activos, fallos, tardios>>
<1>1. PICK L : L = {x \in Sockets : maestro[x].est = "libre"} \cup {MaxSockets + 1}
  OBVIOUS
<1>2. L \subseteq Nat /\ L # {}
  BY <1>1, JobsAssumption DEF Sockets
<1>3. s = Min(L) /\ Min(L) \in L
  BY <1>1, <1>2, HayMinimo DEF Conectar
<1>4. s # MaxSockets + 1
  BY JobsAssumption DEF Sockets
<1>5. maestro[s].est = "libre"
  BY <1>1, <1>3, <1>4
<1> QED
  BY <1>5 DEF Conectar, hilos, EnYama

LEMMA PasoConectar ==
  ASSUME IInv, NEW s \in Sockets, Conectar(s)
  PROVE  IInv'
<1>1. /\ yama = "viva" /\ numeroJob <= MaxJobs /\ maestro[s].est = "libre" /\ ~EnYama(s)
      /\ maestro' = [maestro EXCEPT ![s] = [est |-> "pide", job |-> numeroJob]]
      /\ numeroJob' = numeroJob + 1
      /\ UNCHANGED <<yama, tareas, porEnviar, aMaestro, aYama, tabla, cargas, activos, fallos, tardios>>
  BY ConectarEs
<1>2. /\ TypeOK /\ maestro \in [Sockets -> TipoMaestro] /\ numeroJob \in 1 .. MaxJobs + 1
      /\ Filas' = Filas
  BY <1>1 DEF IInv, TypeOK, Filas
<1>3. numeroJob \in Jobs /\ numeroJob' \in 1 .. MaxJobs + 1 /\ numeroJob \in 0 .. MaxJobs
      /\ numeroJob \in Int
  BY <1>1, <1>2, JobsAssumption DEF Jobs
<1>4. /\ maestro'[s].est = "pide" /\ maestro'[s].job = numeroJob
      /\ \A u \in Sockets \ {s} : maestro'[u] = maestro[u]
      /\ maestro' \in [Sockets -> TipoMaestro]
  BY <1>1, <1>2, <1>3 DEF TipoMaestro
<1>5. TypeOK'
  BY <1>1, <1>2, <1>3, <1>4 DEF TypeOK
<1>6. ASSUME NEW f, NEW u \in Sockets, Propia(f, u) PROVE Propia(f, u)'
  <2>1. u # s
    BY <1>1, <1>6 DEF Propia
  <2> QED
    BY <1>1, <1>4, <1>6, <2>1 DEF Propia, EnYama
<1>7. Numerados'
  <2>1. \A i \in Filas : tabla[i].job < numeroJob /\ tabla[i].job \in Int
    BY FilasEs DEF IInv, Numerados, EsTabla, TipoFila, Jobs
  <2>2. \A i \in Filas : tabla[i].job < numeroJob + 1
    BY <1>3, <2>1
  <2>3. ASSUME NEW u \in Sockets, maestro'[u].est # "libre"
        PROVE  /\ maestro'[u].job \in Jobs /\ maestro'[u].job < numeroJob + 1
               /\ \A i \in Filas : tabla[i].job = maestro'[u].job => tabla[i].master = u /\ EnYama(u)'
               /\ \A v \in Sockets : v # u /\ maestro'[v].est # "libre" => maestro'[v].job # maestro'[u].job
    <3>1. \A v \in Sockets \ {s} : maestro[v].est # "libre" =>
            /\ maestro[v].job \in Jobs /\ maestro[v].job < numeroJob
            /\ maestro[v].job \in Int /\ maestro[v].job < numeroJob + 1
      BY <1>3 DEF IInv, Numerados, Jobs
    <3>2. CASE u = s
      <4>1. \A i \in Filas : tabla[i].job # maestro'[u].job
        BY <1>3, <1>4, <2>1, <3>2
      <4>2. \A v \in Sockets : v # u /\ maestro'[v].est # "libre" => maestro'[v].job # maestro'[u].job
        BY <1>3, <1>4, <3>1, <3>2
      <4> QED
        BY <1>3, <1>4, <3>2, <4>1, <4>2
    <3>3. CASE u # s
      <4>1. maestro'[u] = maestro[u] /\ (EnYama(u) => EnYama(u)')
        BY <1>4, <3>3 DEF EnYama
      <4>2. \A i \in Filas : tabla[i].job = maestro'[u].job => tabla[i].master = u /\ EnYama(u)'
        BY <2>3, <4>1 DEF IInv, Numerados
      <4>3. \A v \in Sockets : v # u /\ maestro'[v].est # "libre" => maestro'[v].job # maestro'[u].job
        BY <1>3, <1>4, <2>3, <3>1, <3>3, <4>1 DEF IInv, Numerados
      <4> QED
        BY <2>3, <3>1, <3>3, <4>1, <4>2, <4>3
    <3> QED
      BY <3>2, <3>3
  <2>4. \A i, k \in Filas : tabla[i].job = tabla[k].job => tabla[i].master = tabla[k].master
    BY DEF IInv, Numerados
  <2> QED
    BY <1>1, <1>2, <2>2, <2>3, <2>4 DEF Numerados
<1>8. Propias'
  BY <1>1, <1>6 DEF IInv, Propias
<1>9. Limpieza'
  <2> SUFFICES ASSUME NEW i \in Filas, tabla[i].estado = "EnProceso" PROVE Propia(i, tabla[i].master)'
    BY <1>1, <1>2 DEF Limpieza
  <2>1. PICK u : u = tabla[i].master
    OBVIOUS
  <2>2. u \in Sockets /\ Propia(i, u)
    BY <2>1, FilasEs DEF IInv, EsTabla, TipoFila, Limpieza
  <2>3. Propia(i, u)'
    BY <1>6, <2>2
  <2> QED
    BY <1>1, <2>1, <2>3 DEF Propia
<1>10. Almacenado'
  <2>1. DOMAIN aYama[s] = {}
    BY <1>1, LibreVacio
  <2> QED
    BY <1>1, <1>4, <2>1 DEF IInv, Almacenado
<1>11. Claves' /\ EnEtapas' /\ EtapaFinalUnica' /\ CaidaExplicada'
  BY <1>1, <1>2 DEF IInv, Claves, BienClavada, EsCopia, EnEtapas, Previas, EtapaFinalUnica,
                    CaidaExplicada, Rango
<1>12. DesconexionEncuentra'
  <2> SUFFICES ASSUME NEW u \in Sockets, yama = "viva", maestro'[u].est = "activo", PorVenir(u)
               PROVE  EnProceso(u, maestro[u].job)' # {} \/ ErrorJob \in Rango(aMaestro[u])
    BY <1>1 DEF DesconexionEncuentra, PorVenir, ErrorJob
  <2>1. u # s /\ maestro'[u] = maestro[u]
    BY <1>4
  <2>2. EnProceso(u, maestro[u].job) # {} \/ ErrorJob \in Rango(aMaestro[u])
    BY <2>1, HayQueEsperar
  <2>3. EnProceso(u, maestro[u].job)' = EnProceso(u, maestro[u].job)
    BY <1>1, <2>1 DEF EnProceso, DeJob
  <2> QED
    BY <2>2, <2>3
<1> QED
  BY <1>5, <1>7, <1>8, <1>9, <1>10, <1>11, <1>12 DEF IInv

(* A descriptor is cleaned: rows of its master may go to Error, and none   *)
(* stays in process.                                                       *)
Limpia(s) ==
  /\ Len(tabla') = Len(tabla)
  /\ \A i \in Filas : /\ MismaClave(tabla'[i], tabla[i])
                      /\ tabla'[i].estado = tabla[i].estado \/ tabla'[i].estado = "Error"
                      /\ tabla[i].master # s => tabla'[i].estado = tabla[i].estado
                      /\ tabla'[i].estado = "EnProceso" => tabla[i].master # s
                      /\ \/ tabla'[i].estado = tabla[i].estado
                         \/ \E k \in Filas : tabla[k].job = tabla[i].job /\ tabla[k].estado = "EnProceso"

LEMMA DesconexionEs ==
  ASSUME IInv, NEW s \in Sockets, Desconexion(s)
  PROVE  Limpia(s) /\ tabla' \in Seq(TipoFila(Len(tabla))) /\ cargas' \in [Nodos -> TipoCarga]
<1>1. /\ TypeOK /\ Len(tabla) \in Nat /\ Filas = 1 .. Len(tabla) /\ tabla \in Seq(TipoFila(Len(tabla)))
      /\ cargas \in [Nodos -> TipoCarga]
  BY FilasEs DEF IInv, EsTabla, TypeOK
<1>2. PICK V : V = FilasMaestroCaido(s)
  OBVIOUS
<1>3. /\ V \subseteq Nat
      /\ \A i \in V : /\ i \in Filas /\ tabla[i].master = s /\ tabla[i].job = maestro[s].job
                      /\ tabla[i].estado = "EnProceso"
      /\ \A i \in Filas : tabla[i].master = s /\ tabla[i].estado = "EnProceso" => i \in V
  BY <1>1, <1>2 DEF FilasMaestroCaido, Filas, IInv, Limpieza, Propia
<1>4. CASE V = {}
  <2>1. UNCHANGED <<tabla, cargas>>
    BY <1>2, <1>4 DEF Desconexion
  <2>2. Limpia(s)
    BY <1>3, <1>4, <2>1 DEF Limpia, MismaClave
  <2> QED
    BY <1>1, <2>1, <2>2
<1>5. CASE V # {}
  <2>1. PICK m, j, e, t, D : m = Min(V) /\ j = tabla[m].job /\ e = "Error" /\ t = tabla /\ D = {}
    OBVIOUS
  <2>2. EliminarEstadosMultiples(s, j, t, cargas)
    BY <1>2, <1>5, <2>1 DEF Desconexion
  <2>3. m \in V
    BY <1>3, <1>5, <2>1, HayMinimo
  <2>4. m \in Filas /\ j = maestro[s].job
    BY <1>3, <2>1, <2>3
  <2>5. j \in Jobs
    BY <2>1, <2>4, FilasEs DEF IInv, EsTabla, TipoFila
  <2>6. t \in Seq(TipoFila(Len(tabla))) /\ D \subseteq DeJob(tabla, s, j) /\ Retocada(tabla, t, D, e)
    BY <1>1, <2>1, SinRetoque
  <2>7. /\ tabla' \in Seq(TipoFila(Len(tabla))) /\ Retocada(tabla, tabla', DeJob(tabla, s, j), e)
        /\ cargas' \in [Nodos -> TipoCarga]
    <3>1. Retocada(tabla, t, D, "Error")
      BY <2>1, <2>6
    <3>2. /\ tabla' \in Seq(TipoFila(Len(tabla))) /\ Retocada(tabla, tabla', DeJob(tabla, s, j), "Error")
          /\ cargas' \in [Nodos -> TipoCarga]
      BY <1>1, <2>2, <2>5, <2>6, <3>1, EliminarEs
    <3> QED
      BY <2>1, <3>2
  <2>8. Limpia(s)
    <3>1. Len(tabla') = Len(tabla)
      BY <2>7 DEF Retocada
    <3>2. \A i \in Filas : /\ MismaClave(tabla'[i], tabla[i])
                           /\ tabla'[i].estado = IF i \in DeJob(tabla, s, j) THEN e ELSE tabla[i].estado
      BY <1>1, <2>7 DEF Retocada
    <3>3. \A i \in V : i \in DeJob(tabla, s, j)
      BY <1>3, <2>4 DEF DeJob, Filas
    <3>4. \A i \in DeJob(tabla, s, j) : tabla[i].master = s /\ tabla[i].job = j
      BY DEF DeJob
    <3>5. e = "Error" /\ e # "EnProceso" /\ tabla[m].job = j /\ tabla[m].estado = "EnProceso" /\ m \in Filas
      BY <1>3, <2>1, <2>3, <2>4
    <3> QED
      BY <1>3, <3>1, <3>2, <3>3, <3>4, <3>5 DEF Limpia
  <2> QED
    BY <2>7, <2>8
<1> QED
  BY <1>4, <1>5

LEMMA PasoDesconexion ==
  ASSUME IInv, NEW s \in Sockets, Desconexion(s)
  PROVE  IInv'
<1>1. /\ yama = "viva" /\ aYama[s] = <<>>
      /\ maestro' = [maestro EXCEPT ![s] = [est |-> "libre", job |-> 0]]
      /\ aMaestro' = [aMaestro EXCEPT ![s] = <<>>]
      /\ tareas' = [tareas EXCEPT ![s] = {}] /\ porEnviar' = [porEnviar EXCEPT ![s] = {}]
      /\ UNCHANGED <<yama, numeroJob, aYama, activos, fallos, tardios>>
  BY DEF Desconexion, MuerenSusHilos
<1>2. Limpia(s) /\ tabla' \in Seq(TipoFila(Len(tabla))) /\ cargas' \in [Nodos -> TipoCarga]
  BY DesconexionEs
<1>3. /\ TypeOK /\ Len(tabla) \in Nat /\ Filas = 1 .. Len(tabla) /\ Len(tabla') = Len(tabla)
      /\ Filas' = Filas
      /\ \A i \in Filas : tabla[i] \in TipoFila(Len(tabla))
  <2>1. Len(tabla') = Len(tabla) /\ TypeOK
    BY <1>2 DEF Limpia, IInv
  <2>2. DOMAIN tabla' = 1 .. Len(tabla')
    BY <1>2, LenProperties
  <2> QED
    BY <2>1, <2>2, FilasEs DEF EsTabla, Filas
<1>4. /\ maestro'[s].est = "libre" /\ ~EnYama(s)'
      /\ \A u \in Sockets \ {s} :
           /\ maestro'[u] = maestro[u] /\ aMaestro'[u] = aMaestro[u]
           /\ tareas'[u] = tareas[u] /\ porEnviar'[u] = porEnviar[u] /\ EnYama(u)' = EnYama(u)
      /\ tareas'[s] = {} /\ porEnviar'[s] = {} /\ aMaestro'[s] = <<>> /\ aYama'[s] = <<>>
      /\ aYama' = aYama
  BY <1>1, <1>3 DEF TypeOK, EnYama
<1>5. TypeOK'
  <2>1. maestro' \in [Sockets -> TipoMaestro]
    <3>1. [est |-> "libre", job |-> 0] \in TipoMaestro
      BY JobsAssumption DEF TipoMaestro
    <3> QED
      BY <1>1, <1>3, <3>1 DEF TypeOK
  <2>2. /\ tareas' \in [Sockets -> SUBSET (1 .. Len(tabla))]
        /\ porEnviar' \in [Sockets -> SUBSET TipoRespuesta(Len(tabla))]
    BY <1>1, <1>3 DEF TypeOK
  <2>3. aMaestro' \in [Sockets -> Seq(TipoMensaje(Len(tabla)))]
    <3>1. <<>> \in Seq(TipoMensaje(Len(tabla)))
      OBVIOUS
    <3> QED
      BY <1>1, <1>3, <3>1 DEF TypeOK
  <2> QED
    BY <1>1, <1>2, <1>3, <2>1, <2>2, <2>3 DEF TypeOK
<1>6. \A i \in Filas : /\ MismaClave(tabla'[i], tabla[i])
                       /\ tabla'[i].estado = tabla[i].estado \/ tabla'[i].estado = "Error"
                       /\ tabla[i].master # s => tabla'[i].estado = tabla[i].estado
                       /\ tabla'[i].estado = "EnProceso" => tabla[i].master # s
  BY <1>2 DEF Limpia
<1>7. ASSUME NEW u \in Sockets, u # s, NEW f \in Filas, Propia(f, u) PROVE Propia(f, u)'
  BY <1>4, <1>6, <1>7 DEF Propia, MismaClave
<1>8. Claves'
  BY <1>3, <1>6 DEF IInv, Claves, BienClavada, EsCopia, MismaClave
<1>9. Numerados'
  <2>1. ASSUME NEW u \in Sockets, maestro'[u].est # "libre"
        PROVE  /\ maestro'[u].job \in Jobs /\ maestro'[u].job < numeroJob
               /\ \A i \in Filas : tabla'[i].job = maestro'[u].job => tabla'[i].master = u /\ EnYama(u)'
               /\ \A v \in Sockets : v # u /\ maestro'[v].est # "libre" => maestro'[v].job # maestro'[u].job
    <3>1. u # s /\ maestro'[u] = maestro[u] /\ EnYama(u)' = EnYama(u)
      BY <1>4, <2>1
    <3>2. \A v \in Sockets : maestro'[v].est # "libre" => maestro'[v] = maestro[v]
      BY <1>4
    <3> QED
      BY <1>6, <2>1, <3>1, <3>2 DEF IInv, Numerados, MismaClave
  <2>2. /\ \A i \in Filas : tabla'[i].job < numeroJob
        /\ \A i, k \in Filas : tabla'[i].job = tabla'[k].job => tabla'[i].master = tabla'[k].master
    BY <1>6 DEF IInv, Numerados, MismaClave
  <2> QED
    BY <1>1, <1>3, <2>1, <2>2 DEF Numerados
<1>10. Propias'
  <2> SUFFICES ASSUME NEW u \in Sockets, u # s
               PROVE  /\ \A f \in tareas[u] : Propia(f, u)'
                      /\ \A a \in porEnviar[u] : Propia(a.fila, u)'
                      /\ \A i \in DOMAIN aYama[u] : Propia(aYama[u][i].fila, u)'
                      /\ \A i \in DOMAIN aMaestro[u] : \A f \in aMaestro[u][i].filas : Propia(f, u)'
    BY <1>4 DEF Propias, Propia, EnYama
  <2>1. \A f \in tareas[u] : Propia(f, u)'
    BY <1>3, <1>7, SuyasEs
  <2>2. ASSUME NEW a \in porEnviar[u] PROVE Propia(a.fila, u)'
    <3>1. a.fila \in Filas /\ Propia(a.fila, u)
      BY <1>3, SuyasEs DEF TipoRespuesta
    <3>2. PICK f : f = a.fila
      OBVIOUS
    <3> QED
      BY <1>7, <3>1, <3>2
  <2>3. ASSUME NEW i \in DOMAIN aYama[u] PROVE Propia(aYama[u][i].fila, u)'
    <3>1. PICK f : f = aYama[u][i].fila
      OBVIOUS
    <3>2. aYama[u][i] \in TipoRespuesta(Len(tabla)) /\ Propia(f, u)
      BY <3>1, SuyasEs, ElementOfSeq, LenProperties
    <3>3. f \in Filas
      BY <1>3, <3>1, <3>2 DEF TipoRespuesta
    <3> QED
      BY <1>4, <1>7, <3>1, <3>2, <3>3
  <2>4. ASSUME NEW i \in DOMAIN aMaestro[u], NEW f \in aMaestro[u][i].filas PROVE Propia(f, u)'
    <3>1. aMaestro[u][i] \in TipoMensaje(Len(tabla)) /\ Propia(f, u)
      BY SuyasEs, ElementOfSeq, LenProperties
    <3>2. f \in Filas
      BY <1>3, <3>1 DEF TipoMensaje
    <3> QED
      BY <1>7, <3>1, <3>2
  <2> QED
    BY <2>1, <2>2, <2>3, <2>4
<1>11. Limpieza'
  <2> SUFFICES ASSUME NEW i \in Filas, tabla'[i].estado = "EnProceso" PROVE Propia(i, tabla[i].master)'
    BY <1>3 DEF Limpieza
  <2>1. PICK u : u = tabla[i].master
    OBVIOUS
  <2>2. u \in Sockets /\ u # s /\ tabla[i].estado = "EnProceso"
    BY <1>3, <1>6, <2>1 DEF TipoFila
  <2>3. Propia(i, u)
    BY <2>1, <2>2 DEF IInv, Limpieza
  <2>4. Propia(i, u)' /\ tabla'[i].master = u
    BY <1>6, <1>7, <2>1, <2>2, <2>3 DEF MismaClave
  <2> QED
    BY <2>4 DEF Propia
<1>12. Almacenado'
  <2> SUFFICES ASSUME NEW u \in Sockets, NEW i \in DOMAIN aYama[u],
                      tabla'[aYama[u][i].fila].etapa = "AlmacenamientoFinal"
               PROVE  maestro'[u].est = "saliendo"
    BY <1>4 DEF Almacenado
  <2>1. u # s
    BY <1>1
  <2>2. PICK f : f = aYama[u][i].fila
    OBVIOUS
  <2>3. aYama[u][i] \in TipoRespuesta(Len(tabla))
    BY SuyasEs, ElementOfSeq, LenProperties
  <2>4. f \in Filas
    BY <1>3, <2>2, <2>3 DEF TipoRespuesta
  <2>5. tabla[f].etapa = "AlmacenamientoFinal"
    BY <1>6, <2>2, <2>4 DEF MismaClave
  <2> QED
    BY <1>4, <2>1, <2>2, <2>5 DEF IInv, Almacenado
<1>13. EnEtapas'
  <2> SUFFICES ASSUME NEW i \in Filas, NEW k \in Filas, tabla'[i].job = tabla'[k].job,
                      tabla'[i].job \notin tardios, tabla'[k].etapa \in Previas(tabla'[i]),
                      tabla'[k].estado = "EnProceso"
               PROVE  FALSE
    BY <1>1, <1>3 DEF EnEtapas, Previas
  <2>1. tabla[k].estado = "EnProceso"
    BY <1>6
  <2>2. tabla[i].job = tabla[k].job /\ tabla[i].job \notin tardios /\ tabla[k].etapa = tabla'[k].etapa
        /\ tabla[i].etapa = tabla'[i].etapa
    BY <1>6 DEF MismaClave
  <2>3. tabla'[i].estado = "FinalizadoOK" => tabla[i].estado = "FinalizadoOK"
    BY <1>6
  <2>4. tabla[k].etapa \in Previas(tabla[i])
    BY <1>3, <2>2, <2>3 DEF Previas, TipoFila, Etapas
  <2> QED
    BY <2>1, <2>2, <2>4 DEF IInv, EnEtapas
<1>14. EtapaFinalUnica'
  BY <1>1, <1>3, <1>6 DEF IInv, EtapaFinalUnica, MismaClave
<1>15. CaidaExplicada'
  BY <1>1 DEF CaidaExplicada
<1>16. DesconexionEncuentra'
  <2> SUFFICES ASSUME NEW u \in Sockets, maestro'[u].est = "activo", PorVenir(u)'
               PROVE  EnProceso(u, maestro[u].job)' # {} \/ ErrorJob \in Rango(aMaestro'[u])
    BY DEF DesconexionEncuentra, PorVenir, ErrorJob
  <2>1. u # s /\ maestro'[u] = maestro[u] /\ aMaestro'[u] = aMaestro[u] /\ PorVenir(u)
    BY <1>4 DEF PorVenir
  <2>2. EnProceso(u, maestro[u].job) # {} \/ ErrorJob \in Rango(aMaestro[u])
    BY <1>1, <2>1, HayQueEsperar
  <2>3. EnProceso(u, maestro[u].job) \subseteq EnProceso(u, maestro[u].job)'
    BY <1>3, <1>6, <2>1 DEF EnProceso, DeJob, MismaClave, Filas
  <2> QED
    BY <2>1, <2>2, <2>3
<1> QED
  BY <1>5, <1>8, <1>9, <1>10, <1>11, <1>12, <1>13, <1>14, <1>15, <1>16 DEF IInv

LEMMA PasoFinalizarEjecucion ==
  ASSUME IInv, FinalizarEjecucion
  PROVE  IInv'
<1>1. /\ yama' = "fin"
      /\ aMaestro' = [s \in Sockets |-> IF FilasMaestroCaido(s) # {} /\ maestro[s].est = "activo"
                                        THEN Append(aMaestro[s], ErrorJob) ELSE aMaestro[s]]
      /\ UNCHANGED <<numeroJob, maestro, tareas, porEnviar, aYama, tabla, cargas, activos, fallos, tardios>>
      /\ Filas' = Filas
  BY DEF FinalizarEjecucion, hilos, Filas
<1>2. ErrorJob \in TipoMensaje(Len(tabla)) /\ ErrorJob.filas = {}
  BY DEF ErrorJob, TipoMensaje
<1>3. ASSUME NEW s \in Sockets
      PROVE  /\ aMaestro'[s] \in Seq(TipoMensaje(Len(tabla)))
             /\ \A i \in DOMAIN aMaestro'[s] : \A f \in aMaestro'[s][i].filas : Propia(f, s)
  <2>1. PICK p, S, x : p = aMaestro[s] /\ S = TipoMensaje(Len(tabla)) /\ x = ErrorJob
    OBVIOUS
  <2>2. p \in Seq(S) /\ x \in S
    BY <1>2, <2>1, SuyasEs
  <2>3. /\ Append(p, x) \in Seq(S) /\ DOMAIN Append(p, x) = 1 .. Len(p) + 1 /\ DOMAIN p = 1 .. Len(p)
        /\ Len(p) \in Nat
        /\ Append(p, x)[Len(p) + 1] = x /\ \A i \in 1 .. Len(p) : Append(p, x)[i] = p[i]
    BY ONLY <2>2
  <2>4. \A i \in DOMAIN Append(p, x) : i \in DOMAIN p \/ i = Len(p) + 1
    BY ONLY <2>3
  <2>5. \A i \in DOMAIN p : \A f \in p[i].filas : Propia(f, s)
    BY <2>1, SuyasEs
  <2>6. \A i \in DOMAIN Append(p, x) : \A f \in Append(p, x)[i].filas : Propia(f, s)
    BY <1>2, <2>1, <2>3, <2>4, <2>5
  <2>7. aMaestro'[s] = p \/ aMaestro'[s] = Append(p, x)
    BY <1>1, <2>1
  <2> QED
    BY <2>1, <2>2, <2>3, <2>5, <2>6, <2>7
<1>4. TypeOK'
  <2>1. aMaestro' \in [Sockets -> Seq(TipoMensaje(Len(tabla)))]
    BY <1>1, <1>3
  <2> QED
    BY <1>1, <2>1 DEF IInv, TypeOK
<1>5. Propias'
  BY <1>1, <1>3 DEF IInv, Propias, Propia, EnYama
<1>6. Claves' /\ Numerados'
  BY <1>1 DEF IInv, Claves, BienClavada, EsCopia, Numerados, EnYama
<1>7. Limpieza' /\ Almacenado'
  BY <1>1 DEF IInv, Limpieza, Propia, EnYama, Almacenado
<1>8. EnEtapas' /\ EtapaFinalUnica'
  BY <1>1 DEF IInv, EnEtapas, Previas, EtapaFinalUnica
<1>9. DesconexionEncuentra' /\ CaidaExplicada'
  BY <1>1 DEF DesconexionEncuentra, CaidaExplicada
<1> QED
  BY <1>4, <1>5, <1>6, <1>7, <1>8, <1>9 DEF IInv

(* A planning without an end changes nothing else but the active nodes.    *)
LEMMA PasoPlanSinFin ==
  ASSUME IInv, NEW s \in Sockets, PlanSinFin(s)
  PROVE  IInv'
<1>1. /\ yama' = "gira" /\ activos' \in ListasActivas
      /\ UNCHANGED <<numeroJob, maestro, tareas, porEnviar, aMaestro, aYama, tabla, cargas,
                     fallos, tardios>>
      /\ Filas' = Filas
  BY DEF PlanSinFin, hilos, Filas
<1>2. TypeOK'
  BY <1>1 DEF IInv, TypeOK
<1>3. Claves' /\ Numerados'
  BY <1>1 DEF IInv, Claves, BienClavada, EsCopia, Numerados, EnYama
<1>4. Propias' /\ Limpieza' /\ Almacenado'
  BY <1>1 DEF IInv, Propias, Limpieza, Propia, EnYama, Almacenado
<1>5. EnEtapas' /\ EtapaFinalUnica'
  BY <1>1 DEF IInv, EnEtapas, Previas, EtapaFinalUnica
<1>6. DesconexionEncuentra' /\ CaidaExplicada'
  BY <1>1 DEF DesconexionEncuentra, CaidaExplicada
<1> QED
  BY <1>2, <1>3, <1>4, <1>5, <1>6 DEF IInv

LEMMA PasoNada ==
  ASSUME IInv, UNCHANGED vars
  PROVE  IInv'
<1>1. /\ UNCHANGED <<yama, numeroJob, maestro, tareas, porEnviar, aMaestro, aYama, tabla, cargas,
                     activos, fallos, tardios>>
      /\ Filas' = Filas
  BY DEF vars, hilos, Filas
<1>2. TypeOK'
  BY <1>1 DEF IInv, TypeOK
<1>3. Claves' /\ Numerados'
  BY <1>1 DEF IInv, Claves, BienClavada, EsCopia, Numerados, EnYama
<1>4. Propias' /\ Limpieza' /\ Almacenado'
  BY <1>1 DEF IInv, Propias, Limpieza, Propia, EnYama, Almacenado
<1>5. EnEtapas' /\ EtapaFinalUnica'
  BY <1>1 DEF IInv, EnEtapas, Previas, EtapaFinalUnica
<1>6. DesconexionEncuentra' /\ CaidaExplicada'
  BY <1>1 DEF IInv, DesconexionEncuentra, CaidaExplicada, EnProceso, DeJob, Rango, ErrorJob
<1> QED
  BY <1>2, <1>3, <1>4, <1>5, <1>6 DEF IInv

-----------------------------------------------------------------------------
(* The invariant. *)

LEMMA AlPrincipio == Init => IInv
<1> SUFFICES ASSUME Init PROVE IInv
  OBVIOUS
<1>1. /\ yama = "viva" /\ tabla = <<>> /\ Len(tabla) = 0 /\ Filas = {}
      /\ \A s \in Sockets : /\ maestro[s].est = "libre" /\ ~EnYama(s)
                            /\ tareas[s] = {} /\ porEnviar[s] = {}
                            /\ aMaestro[s] = <<>> /\ aYama[s] = <<>>
  BY DEF Init, Filas, EnYama
<1>2. TypeOK
  <2>1. /\ numeroJob \in 1 .. MaxJobs + 1 /\ fallos \in 0 .. MaxFallos /\ 0 \in 0 .. MaxJobs
    BY JobsAssumption DEF Init
  <2>2. maestro \in [Sockets -> TipoMaestro]
    BY <2>1 DEF Init, TipoMaestro
  <2>3. cargas \in [Nodos -> TipoCarga]
    <3>1. [j \in Jobs |-> 0] \in [Jobs -> Nat]
      OBVIOUS
    <3> QED
      BY <3>1 DEF Init, TipoCarga
  <2>4. /\ tareas \in [Sockets -> SUBSET (1 .. Len(tabla))]
        /\ porEnviar \in [Sockets -> SUBSET TipoRespuesta(Len(tabla))]
    BY DEF Init
  <2>5. /\ <<>> \in Seq(TipoMensaje(Len(tabla))) /\ <<>> \in Seq(TipoRespuesta(Len(tabla)))
        /\ <<>> \in Seq(TipoFila(Len(tabla)))
    OBVIOUS
  <2>6. /\ aMaestro \in [Sockets -> Seq(TipoMensaje(Len(tabla)))]
        /\ aYama \in [Sockets -> Seq(TipoRespuesta(Len(tabla)))]
        /\ tabla \in Seq(TipoFila(Len(tabla)))
    BY <2>5 DEF Init
  <2> QED
    BY <2>1, <2>2, <2>3, <2>4, <2>6 DEF Init, TypeOK
<1>3. Claves /\ Numerados /\ Limpieza /\ EnEtapas /\ EtapaFinalUnica
  BY <1>1 DEF Claves, Numerados, Limpieza, EnEtapas, EtapaFinalUnica
<1>4. Propias /\ Almacenado
  BY <1>1 DEF Propias, Almacenado
<1>5. DesconexionEncuentra /\ CaidaExplicada
  BY <1>1 DEF DesconexionEncuentra, CaidaExplicada
<1> QED
  BY <1>2, <1>3, <1>4, <1>5 DEF IInv

LEMMA CadaPaso == IInv /\ [Next]_vars => IInv'
<1> SUFFICES ASSUME IInv, [Next]_vars PROVE IInv'
  OBVIOUS
<1>1. ASSUME NEW s \in Sockets, Conectar(s) \/ Iniciar(s) PROVE IInv'
  BY <1>1, PasoConectar, PasoIniciarJob, PasoPlanSinFin, PasoIniciarSinArchivo DEF Iniciar
<1>2. ASSUME NEW s \in Sockets, Atender(s) PROVE IInv'
  <2>1. CASE TransformacionLista(s)
    BY <2>1, PasoTransformacionLista
  <2>2. CASE TransformacionCorrupta(s) \/ ReplanificacionSinArchivo(s) \/ ReduccionLocalFallida(s)
    BY <2>2, PasoAbortos
  <2>3. CASE Replanificacion(s)
    BY <2>3, PasoReplanificacion
  <2>4. CASE ReduccionLocalLista(s)
    BY <2>4, PasoReduccionLocalLista
  <2>5. CASE ReduccionGlobalLista(s)
    BY <2>5, PasoReduccionGlobalLista
  <2>6. CASE ReduccionGlobalFallida(s)
    BY <2>6, PasoReduccionGlobalFallida
  <2>7. CASE AlmacenamientoLista(s)
    BY <2>7, PasoAlmacenamientoLista
  <2>8. CASE Desconexion(s)
    BY <2>8, PasoDesconexion
  <2> QED
    BY <1>2, <2>1, <2>2, <2>3, <2>4, <2>5, <2>6, <2>7, <2>8 DEF Atender
<1>3. ASSUME NEW s \in Sockets, Recibir(s) \/ Trabajar(s) PROVE IInv'
  BY <1>3, PasoRecibir, PasoTareaOK, PasoTareaFalla, PasoEnviarResultado DEF Trabajar
<1>4. ASSUME NEW s \in Sockets, CaeMaestro(s) \/ PierdeYama(s) PROVE IInv'
  BY <1>4, PasoCaida
<1>5. CASE FinalizarEjecucion
  BY <1>5, PasoFinalizarEjecucion
<1>6. CASE UNCHANGED vars
  BY <1>6, PasoNada
<1> QED
  BY <1>1, <1>2, <1>3, <1>4, <1>5, <1>6 DEF Next

(* What holds between any two messages of the masters, however many there  *)
(* are: the state table, the streams and the loads stay in their domains,  *)
(* and the conjuncts of IInv, from which the theorems below follow.        *)
THEOREM Invariante == Spec => []IInv
<1>1. Init => IInv
  BY AlPrincipio
<1>2. IInv /\ [Next]_vars => IInv'
  BY CadaPaso
<1> QED
  BY <1>1, <1>2, PTL DEF Spec

(* The stream of a master ends with a row of its job in process, for as    *)
(* long as something of that job is to come: the disconnection, which      *)
(* looks for the job among the rows in process, cleans it up.              *)
THEOREM DesconexionEncuentraSiempre == Spec => []DesconexionEncuentra
<1>1. IInv => DesconexionEncuentra
  BY DEF IInv
<1> QED
  BY <1>1, Invariante, PTL

(* YAMA reads through a NULL pointer for no other reason than a node with  *)
(* work that left the list of active nodes, or a late answer.              *)
THEOREM CaidaExplicadaSiempre == Spec => []CaidaExplicada
<1>1. IInv => CaidaExplicada
  BY DEF IInv
<1> QED
  BY <1>1, Invariante, PTL

(* Descriptors are reused, but the rows in process of one are always of    *)
(* the job of the master now on it: eliminarEstadosMultiples, called with  *)
(* a row found by descriptor, never touches the job of another master.     *)
THEOREM LimpiezaPropiaSiempre == Spec => []LimpiezaPropia
<1>1. IInv => LimpiezaPropia
  BY DEF IInv, Limpieza, LimpiezaPropia, FilasMaestroCaido, Propia, Filas
<1> QED
  BY <1>1, Invariante, PTL

(* A job whose answers came in time is given one global reduction and one  *)
(* final storage at most.                                                  *)
THEOREM EtapaFinalUnicaSiempre == Spec => []EtapaFinalUnica
<1>1. IInv => EtapaFinalUnica
  BY DEF IInv
<1> QED
  BY <1>1, Invariante, PTL

-----------------------------------------------------------------------------
(* A job that ended well stays so. *)

ExitoQueda ==
  \A i \in Filas : (/\ tabla[i].etapa = "AlmacenamientoFinal" /\ tabla[i].estado = "FinalizadoOK"
                    /\ tabla[i].job \notin tardios')
                   => tabla'[i].estado = "FinalizadoOK"

LEMMA ExitoQuieto ==
  ASSUME IInv, NEW i \in Filas, tabla[i].etapa = "AlmacenamientoFinal",
         tabla[i].estado = "FinalizadoOK", tabla[i].job \notin tardios,
         NEW k \in Filas, tabla[k].job = tabla[i].job
  PROVE  tabla[k].estado # "EnProceso"
<1>1. tabla[k].etapa \in Etapas
  BY FilasEs DEF IInv, EsTabla, TipoFila
<1>2. tabla[k].etapa \in Previas(tabla[i])
  BY <1>1 DEF Previas
<1> QED
  BY <1>2 DEF IInv, EnEtapas

(* An answer changes rows of a job that has a row in process, or is late.  *)
LEMMA ExitoTrasRespuesta ==
  ASSUME IInv, NEW s \in Sockets, NEW e, NEW r, Respuesta(s, e, r), Extiende(s)
  PROVE  ExitoQueda
<1> SUFFICES ASSUME NEW i \in Filas, tabla[i].etapa = "AlmacenamientoFinal",
                    tabla[i].estado = "FinalizadoOK", tabla[i].job \notin tardios'
             PROVE  tabla'[i].estado = tabla[i].estado
  BY DEF ExitoQueda
<1>1. PICK f : f = Head(aYama[s]).fila
  OBVIOUS
<1>2. Contada(f, s) /\ tardios \subseteq tardios'
  BY <1>1, RespuestaEs
<1>3. tabla[i].job # maestro[s].job
  BY <1>2, ExitoQuieto DEF Contada
<1> QED
  BY <1>3, FilasEs DEF Extiende, IInv, EsTabla

LEMMA ExitoTrasPaso ==
  ASSUME IInv, [Next]_vars
  PROVE  ExitoQueda
<1>1. CASE UNCHANGED tabla
  BY <1>1 DEF ExitoQueda
<1>2. ASSUME NEW s \in Sockets, IniciarJob(s) \/ IniciarSinArchivo(s) PROVE ExitoQueda
  <2>1. Extiende(s)
    BY <1>2, PasoIniciarJob, PasoIniciarSinArchivo
  <2>2. \A i \in Filas : tabla[i].job # maestro[s].job
    BY <1>2 DEF IniciarJob, IniciarSinArchivo, IInv, Numerados, EnYama
  <2> QED
    BY <2>1, <2>2, FilasEs DEF ExitoQueda, Extiende, IInv, EsTabla
<1>3. ASSUME NEW s \in Sockets, Atender(s), ~Desconexion(s) PROVE ExitoQueda
  <2>1. \E e, r : Respuesta(s, e, r)
    BY <1>3, Zenon DEF Atender, TransformacionLista, TransformacionCorrupta, Replanificacion,
                ReplanificacionSinArchivo, ReduccionLocalLista, ReduccionLocalFallida,
                ReduccionGlobalLista, ReduccionGlobalFallida, AlmacenamientoLista
  <2>2. Extiende(s)
    <3>1. CASE TransformacionLista(s) \/ Replanificacion(s) \/ ReduccionLocalLista(s)
      BY <3>1, PasoTransformacionLista, PasoReplanificacion, PasoReduccionLocalLista
    <3>2. CASE \/ TransformacionCorrupta(s) \/ ReplanificacionSinArchivo(s)
               \/ ReduccionLocalFallida(s)
      BY <3>2, PasoAbortos
    <3>3. CASE \/ ReduccionGlobalLista(s) \/ ReduccionGlobalFallida(s)
               \/ AlmacenamientoLista(s)
      BY <3>3, PasoReduccionGlobalLista, PasoReduccionGlobalFallida, PasoAlmacenamientoLista
    <3> QED
      BY <1>3, <3>1, <3>2, <3>3 DEF Atender
  <2> QED
    BY <2>1, <2>2, ExitoTrasRespuesta, Zenon
<1>4. ASSUME NEW s \in Sockets, Desconexion(s) PROVE ExitoQueda
  <2>1. Limpia(s) /\ tardios' = tardios
    BY <1>4, DesconexionEs DEF Desconexion
  <2> QED
    BY <2>1, ExitoQuieto DEF ExitoQueda, Limpia
<1>5. CASE \E s \in Sockets : \/ Conectar(s) \/ Recibir(s) \/ Trabajar(s)
                              \/ CaeMaestro(s) \/ PierdeYama(s) \/ PlanSinFin(s)
  BY <1>1, <1>5 DEF Conectar, Recibir, Trabajar, TareaOK, TareaFalla, EnviarResultado, CaeMaestro,
                    PierdeYama, PlanSinFin
<1>6. CASE FinalizarEjecucion \/ UNCHANGED vars
  BY <1>1, <1>6 DEF FinalizarEjecucion, vars
<1> QED
  BY <1>2, <1>3, <1>4, <1>5, <1>6 DEF Next, Iniciar

(* Once the final storage of a job went well, no step turns its row to     *)
(* Error, the disconnection of its master included, unless an answer of    *)
(* the job came late.                                                      *)
THEOREM ExitoPermanenteSiempre == Spec => ExitoPermanente
<1>1. IInv /\ [Next]_vars =>
        [\A i \in Filas : (/\ tabla[i].etapa = "AlmacenamientoFinal" /\ tabla[i].estado = "FinalizadoOK"
                           /\ tabla[i].job \notin tardios')
                          => tabla'[i].estado = "FinalizadoOK"]_vars
  BY ExitoTrasPaso DEF ExitoQueda
<1> QED
  BY <1>1, Invariante, PTL DEF Spec, ExitoPermanente
=============================================================================

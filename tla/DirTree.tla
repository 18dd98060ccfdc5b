------------------------------ MODULE DirTree ------------------------------
(***************************************************************************)
(* The table of directories of the FileSystem (FileSystem/src/dirtree.c)   *)
(* and the names of the files in it (filetable.c, console.c): a table with *)
(* a fixed number of entries that name their parent, files that are kept   *)
(* by the index of their directory, and what of both is on disk.           *)
(*                                                                         *)
(* The console runs one command at a time.  An upload that ends adds its   *)
(* directory and its file in a thread of its own, without a lock.          *)
(***************************************************************************)
EXTENDS Integers, Sequences, FiniteSets

LOCAL INSTANCE SequencesExt
LOCAL INSTANCE FiniteSetsExt

CONSTANTS
  N,          \* entries of the table, 100 in the code
  Nombres,    \* names of directories and files
  Rutas,      \* the paths that are typed: sequences of names, without the root
  Sufijo,     \* pairs of names <<x, y>> such that x ends with y
  MaxOrdenes, \* bound on commands and restarts
  Subidas     \* the paths where uploads store their files, once each

ASSUME DirAssumption ==
  /\ N \in Nat \ {0} /\ MaxOrdenes \in Nat
  /\ Rutas \subseteq Seq(Nombres) \ {<<>>}
  /\ Subidas \subseteq Seq(Nombres) \ {<<>>}
  /\ Sufijo \subseteq Nombres \X Nombres /\ \A n \in Nombres : <<n, n>> \in Sufijo

VARIABLES
  proceso,    \* "vivo", "caido", or "colgado": it never starts
  dirs,       \* the table, in memory
  archivos,   \* the names of the files: directory, name and content
  dat,        \* directorios.dat
  disco,      \* the files under metadata/archivos
  mudanza,    \* the file that the console is moving, if any
  subida,     \* the upload that ends: pc and its locals
  hechas,     \* uploads that began to end
  ordenes,    \* commands and restarts so far
  causas      \* history: what happened that the properties do not survive

memoria == <<dirs, archivos>>
vars == <<proceso, memoria, dat, disco, mudanza, subida, hechas, ordenes, causas>>

Slots == 0..N - 1
Sin == -1                                   \* NULL, or the parent of the root
Vacia == [nombre |-> "", padre |-> -2]
Raiz  == [nombre |-> "/", padre |-> Sin]

Existe(t, d)  == t[d].padre >= -1
Ocupadas(t)   == {d \in Slots : Existe(t, d)}
Primero(s)    == IF s = {} THEN Sin ELSE Min(s)

(* find_dir_by_name, and dirtree_find along a path. *)
PorNombre(t, n, p) == Primero({d \in Ocupadas(t) : t[d].nombre = n /\ t[d].padre = p})
Hallar(t, ruta) ==
  FoldLeft(LAMBDA d, n : IF d = Sin THEN Sin ELSE PorNombre(t, n, d), 0, ruta)

(* dirtree_path: up from a directory to the root, or to where it stops. *)
Subir(t, d) ==
  LET paso[k \in 0..N] ==
        IF k = 0 THEN [en |-> d, ruta |-> <<>>]
        ELSE LET a == paso[k - 1]
             IN  IF a.en \in {0, Sin} THEN a
                 ELSE [en |-> IF Existe(t, a.en) THEN t[a.en].padre ELSE Sin,
                       ruta |-> <<t[a.en].nombre>> \o a.ruta]
  IN  paso[N]
RutaDe(t, d) == Subir(t, d).ruta
Cuelga(t, d) == Subir(t, d).en = 0

(* dirtree_add: nothing if the last entry is taken; otherwise the missing    *)
(* directories of the path, each in the first free entry, and a crash if     *)
(* there is none.                                                            *)
Llena(t) == Existe(t, N - 1)
PrimeraLibre(t) == Primero(Slots \ Ocupadas(t))

Agregar(t, ruta) ==
  FoldLeft(LAMBDA s, n :
             LET hijo == PorNombre(s.tabla, n, s.en)  libre == PrimeraLibre(s.tabla)
             IN  IF s.en = Sin THEN s
                 ELSE IF hijo # Sin THEN [s EXCEPT !.en = hijo]
                 ELSE IF libre = Sin THEN [s EXCEPT !.en = Sin]
                 ELSE [tabla |-> [s.tabla EXCEPT ![libre] = [nombre |-> n, padre |-> s.en]],
                       en |-> libre],
           [tabla |-> t, en |-> 0], ruta)

Hermanos(t, d) == {h \in Ocupadas(t) : t[h] = t[d]}
HijosMutado(t, d) == {}
Hijos(t, d)   == {h \in Ocupadas(t) : t[h].padre = d}
EnDirMutado(fs, d) == {f \in fs : f.dir = d} \ archivos
EnDir(fs, d)  == {f \in fs : f.dir = d}

(* filetable_find. *)
Archivo(ruta) ==
  {f \in archivos : f.dir = Hallar(dirs, Front(ruta)) /\ f.nombre = Last(ruta)}

SinMudanza == [pc |-> "no"]
SinSubida  == [pc |-> "no"]

Init ==
  /\ proceso = "vivo"
  /\ dirs = [d \in Slots |-> IF d = 0 THEN Raiz ELSE Vacia]
  /\ archivos = {} /\ dat = dirs /\ disco = {}
  /\ mudanza = SinMudanza /\ subida = SinSubida
  /\ hechas = {} /\ ordenes = 0 /\ causas = {}

-----------------------------------------------------------------------------
(* The console. *)

Manda == /\ proceso = "vivo" /\ mudanza.pc = "no"
         /\ ordenes < MaxOrdenes /\ ordenes' = ordenes + 1

Caer(causa) ==
  /\ proceso' = "caido" /\ causas' = causas \cup {causa}
  /\ UNCHANGED <<memoria, dat, disco, mudanza, subida, hechas>>

(* A change of the table by the console may reach the directories of the *)
(* upload that ends meanwhile, or the entry that it chose.               *)
Toca(t) ==
  /\ subida.pc # "no"
  /\ \/ \E k \in 1..Len(subida.ruta) :
          Hallar(t, SubSeq(subida.ruta, 1, k)) # Hallar(dirs, SubSeq(subida.ruta, 1, k))
     \/ subida.pc = "escribe" /\ t[subida.hueco] # dirs[subida.hueco]

(* save_to_file follows every change. *)
CambiaMutado(t, cs) ==
  /\ dirs' = t /\ dat' = IF Ocupadas(t) = Ocupadas(dirs) THEN dat ELSE t
  /\ causas' = causas \cup cs \cup (IF Toca(t) THEN {"carrera"} ELSE {})
Cambia(t, cs) ==
  /\ dirs' = t /\ dat' = t
  /\ causas' = causas \cup cs \cup (IF Toca(t) THEN {"carrera"} ELSE {})

Mkdir(ruta) ==
  /\ Manda /\ Hallar(dirs, ruta) = Sin
  /\ LET s == Agregar(dirs, ruta)
     IN  IF Llena(dirs)
         THEN causas' = causas \cup {"llena"} /\ UNCHANGED <<proceso, dirs, dat>>
         ELSE IF s.en = Sin
         THEN proceso' = "caido" /\ causas' = causas \cup {"llena"} /\ UNCHANGED <<dirs, dat>>
         ELSE Cambia(s.tabla, {}) /\ UNCHANGED proceso
  /\ UNCHANGED <<archivos, disco, mudanza, subida, hechas>>

(* Where mv takes something called n: to the path if it ends with n, *)
(* otherwise below it.                                               *)
Destino(n, ruta) ==
  IF ruta # <<>> /\ <<Last(ruta), n>> \in Sufijo THEN ruta ELSE Append(ruta, n)

(* dirtree_move keeps the name of the directory whatever the destination. *)
MoverDirectorio(de, ruta) ==
  LET d == Hallar(dirs, de)
      a == Destino(dirs[d].nombre, ruta)
      s == Agregar(dirs, Front(a))
      t == [s.tabla EXCEPT ![d].padre = s.en]
  IN  /\ Manda /\ d \notin {Sin, 0} /\ Hallar(dirs, a) = Sin
      /\ IF Llena(dirs) \/ s.en = Sin THEN Caer("llena")
         ELSE /\ Cambia(t, (IF Cuelga(t, d) THEN {} ELSE {"ciclo"})
                           \cup (IF Hermanos(t, d) = {d} THEN {} ELSE {"sufijo"}))
              /\ UNCHANGED <<proceso, archivos, disco, mudanza, subida, hechas>>

RenombrarDirectorio(de, n) ==
  LET d == Hallar(dirs, de)
  IN  /\ Manda /\ d \notin {Sin, 0} /\ Hallar(dirs, Append(Front(de), n)) = Sin
      /\ Cambia([dirs EXCEPT ![d].nombre = n], {})
      /\ UNCHANGED <<proceso, archivos, disco, mudanza, subida, hechas>>

(* rm -d of an empty directory. *)
BorrarDirectorio(ruta) ==
  LET d == Hallar(dirs, ruta)
  IN  /\ Manda /\ d \notin {Sin, 0} /\ Hijos(dirs, d) = {} /\ EnDir(archivos, d) = {}
      /\ Cambia([dirs EXCEPT ![d] = Vacia], {})
      /\ disco' = disco \ EnDir(disco, d)
      /\ UNCHANGED <<proceso, archivos, mudanza, subida, hechas>>

(* path_move copies and then removes; the table follows. *)
Copiar(f, d, n) ==
  /\ disco' = {g \in disco : ~(g.dir = d /\ g.nombre = n)}
              \cup {[g EXCEPT !.dir = d, !.nombre = n] : g \in disco \cap {f}}
  /\ mudanza' = [pc |-> "copiado", de |-> f, a |-> [f EXCEPT !.dir = d, !.nombre = n]]

MoverArchivo(de, ruta) ==
  /\ Manda /\ Hallar(dirs, de) = Sin
  /\ \E f \in Archivo(de) :
       LET a == Destino(f.nombre, ruta)
           s == IF Llena(dirs) THEN [tabla |-> dirs, en |-> Hallar(dirs, Front(a))]
                ELSE Agregar(dirs, Front(a))
       IN  /\ Archivo(a) = {}
           /\ IF s.en = Sin THEN Caer("llena")
              ELSE /\ Cambia(s.tabla, {}) /\ Copiar(f, s.en, Last(a))
                   /\ UNCHANGED <<proceso, archivos, subida, hechas>>

RenombrarArchivo(de, n) ==
  /\ Manda /\ Hallar(dirs, de) = Sin
  /\ \E f \in Archivo(de) :
       /\ ~\E g \in archivos : g.dir = f.dir /\ g.nombre = n
       /\ Copiar(f, f.dir, n)
  /\ UNCHANGED <<proceso, memoria, dat, subida, hechas, causas>>

Mudado ==
  /\ proceso = "vivo" /\ mudanza.pc = "copiado"
  /\ disco' = disco \ {mudanza.de}
  /\ archivos' = (archivos \ {mudanza.de}) \cup {mudanza.a}
  /\ mudanza' = SinMudanza
  /\ UNCHANGED <<proceso, dirs, dat, subida, hechas, ordenes, causas>>

BorrarArchivo(ruta) ==
  /\ Manda /\ \E f \in Archivo(ruta) : archivos' = archivos \ {f} /\ disco' = disco \ {f}
  /\ UNCHANGED <<proceso, dirs, dat, mudanza, subida, hechas, causas>>

(* dirtree_clear, then filetable_clear; the root stays. *)
Limpia       == [d \in Slots |-> IF d = 0 THEN Raiz ELSE Vacia]

Formatear ==
  /\ Manda
  /\ Cambia(Limpia, {})
  /\ archivos' = {} /\ disco' = {}
  /\ UNCHANGED <<proceso, mudanza, subida, hechas>>

-----------------------------------------------------------------------------
(* The end of an upload (filetable_cpfrom): its directory is added, found   *)
(* again and the file goes into the table, with other threads in between.   *)

Sube(pc) == proceso = "vivo" /\ subida.pc = pc

EmpezarAlta(que) ==
  /\ proceso = "vivo" /\ subida.pc = "no" /\ que \notin hechas
  /\ hechas' = hechas \cup {que}
  /\ subida' = [pc |-> IF Llena(dirs) THEN "resuelve" ELSE "busca", ruta |-> Front(que), nombre |-> Last(que),
                que |-> que, falta |-> Front(que), de |-> Raiz, hueco |-> Sin, dir |-> Sin]
  /\ UNCHANGED <<proceso, memoria, dat, disco, mudanza, ordenes, causas>>

(* One level: the parent is looked for by name again; a name that is not in *)
(* it will go to the first free entry.  After the last one it is saved.     *)
BuscarNivel ==
  /\ Sube("busca") /\ subida.falta # <<>>
  /\ LET n     == Head(subida.falta)
         madre == PorNombre(dirs, subida.de.nombre, subida.de.padre)
         hijo  == PorNombre(dirs, n, madre)
     IN  IF madre = Sin THEN Caer("carrera") /\ UNCHANGED ordenes
         ELSE IF hijo = Sin /\ PrimeraLibre(dirs) = Sin THEN Caer("llena") /\ UNCHANGED ordenes
         ELSE /\ subida' = [subida EXCEPT !.de = [nombre |-> n, padre |-> madre],
                              !.falta = Tail(@), !.hueco = PrimeraLibre(dirs),
                              !.pc = IF hijo = Sin THEN "escribe" ELSE @]
              /\ UNCHANGED <<proceso, memoria, dat, disco, mudanza, hechas, ordenes, causas>>

EscribirNivel ==
  /\ Sube("escribe")
  /\ dirs' = [dirs EXCEPT ![subida.hueco] = subida.de]
  /\ subida' = [subida EXCEPT !.pc = "busca", !.hueco = Sin]
  /\ UNCHANGED <<proceso, archivos, dat, disco, mudanza, hechas, ordenes, causas>>

GuardarNiveles ==
  /\ Sube("busca") /\ subida.falta = <<>>
  /\ dat' = dirs /\ subida' = [subida EXCEPT !.pc = "resuelve"]
  /\ UNCHANGED <<proceso, memoria, disco, mudanza, hechas, ordenes, causas>>

(* real_file_path: without a directory there is no path to add. *)
Resolver ==
  /\ Sube("resuelve")
  /\ LET d == Hallar(dirs, subida.ruta)
     IN  IF d = Sin THEN Caer(IF Llena(dirs) THEN "llena" ELSE "carrera") /\ UNCHANGED ordenes
         ELSE /\ subida' = [subida EXCEPT !.pc = "alta", !.dir = d]
              /\ UNCHANGED <<proceso, memoria, dat, disco, mudanza, hechas, ordenes, causas>>

(* filetable_add: nothing if the name is taken. *)
Alta ==
  LET f == [dir |-> subida.dir, nombre |-> subida.nombre, que |-> subida.que]
      Igual(g) == g.dir = f.dir /\ g.nombre = f.nombre
  IN  /\ Sube("alta")
      /\ IF \E g \in archivos : Igual(g) THEN UNCHANGED <<archivos, disco, causas>>
         ELSE /\ archivos' = archivos \cup {f}
              /\ disco' = {g \in disco : ~Igual(g)} \cup {f}
              /\ causas' = IF mudanza.pc = "copiado" /\ Igual(mudanza.a)
                           THEN causas \cup {"carrera"} ELSE causas
      /\ subida' = SinSubida
      /\ UNCHANGED <<proceso, dirs, dat, mudanza, hechas, ordenes>>

-----------------------------------------------------------------------------
(* filetable_init reads the files of each directory from the place that its *)
(* path leads to; a directory that does not hang from the root has no path  *)
(* and the process never starts.                                            *)
Cargados == {f \in disco : \E d \in Ocupadas(dat) : f.dir = Hallar(dat, RutaDe(dat, d))}

Reiniciar ==
  /\ proceso # "colgado"
  /\ ordenes < MaxOrdenes /\ ordenes' = ordenes + 1
  /\ proceso' = IF \A d \in Ocupadas(dat) : Cuelga(dat, d) THEN "vivo" ELSE "colgado"
  /\ dirs' = dat /\ archivos' = Cargados
  /\ mudanza' = SinMudanza /\ subida' = SinSubida
  /\ causas' = IF mudanza.pc = "copiado" \/ dirs # dat THEN causas \cup {"corte"} ELSE causas
  /\ UNCHANGED <<dat, disco, hechas>>

Consola ==
  \/ \E r \in Rutas : Mkdir(r) \/ BorrarDirectorio(r) \/ BorrarArchivo(r)
  \/ \E r \in Rutas, s \in Rutas \cup {<<>>} : MoverDirectorio(r, s) \/ MoverArchivo(r, s)
  \/ \E r \in Rutas, n \in Nombres : RenombrarDirectorio(r, n) \/ RenombrarArchivo(r, n)
  \/ Mudado \/ Formatear

Cargador ==
  \/ \E que \in Subidas : EmpezarAlta(que)
  \/ BuscarNivel \/ EscribirNivel \/ GuardarNiveles \/ Resolver \/ Alta

Next == Consola \/ Cargador \/ Reiniciar

Spec == Init /\ [][Next]_vars

-----------------------------------------------------------------------------
(* Properties. *)

TypeOK ==
  /\ proceso \in {"vivo", "caido", "colgado"}
  /\ \A t \in {dirs, dat} : t[0] = Raiz /\ \A d \in Slots \ {0} :
       t[d] = Vacia \/ (t[d].nombre \in Nombres /\ t[d].padre \in Slots)
  /\ \A f \in archivos \cup disco : f.dir \in Slots /\ f.nombre \in Nombres /\ f.que \in Subidas
  /\ subida.pc \in {"no", "busca", "escribe", "resuelve", "alta"}
  /\ mudanza.pc \in {"no", "copiado"} /\ hechas \subseteq Subidas /\ ordenes \in 0..MaxOrdenes

Salvo(cs) == causas \cap cs = {}

(* The table is a tree: every directory hangs from the root, brothers have *)
(* different names, and a file lies in a directory that exists, alone with *)
(* its name.  Unless mv took a directory below itself ("ciclo") or to a    *)
(* name that another one had ("sufijo"), or the console changed the way of *)
(* an upload under it ("carrera").                                         *)
ArbolSano ==
  /\ TypeOK
  /\ Salvo({"ciclo", "carrera"}) => \A d \in Ocupadas(dirs) : Cuelga(dirs, d)
  /\ Salvo({"sufijo", "carrera"}) => \A d \in Ocupadas(dirs) : Hermanos(dirs, d) = {d}
  /\ Salvo({"carrera"}) => \A f \in archivos : Existe(dirs, f.dir)
  /\ Salvo({"carrera"}) => \A f, g \in archivos : f.dir = g.dir /\ f.nombre = g.nombre => f = g
  /\ Salvo({"carrera", "corte"}) => \A f, g \in archivos : f.que = g.que => f = g

(* What a restart would read is what is in memory, so that none is lost nor *)
(* comes back; with two brothers of one name it reads one of them twice.    *)
DiscoFiel ==
  proceso = "vivo" /\ mudanza.pc = "no" /\ Salvo({"ciclo", "sufijo", "carrera"})
    => /\ Cargados = archivos
       /\ \A d \in Ocupadas(dat) : dat[d] = dirs[d]
       /\ subida.pc \notin {"busca", "escribe"} => dat = dirs

(* The names a user sees: the table and the files implement the name space, *)
(* each command as one step of it, through restarts too, until one of those *)
(* happened or the process was killed between two steps of a move.          *)
Nombre == INSTANCE NameSpace WITH
  rutas    <- {RutaDe(dirs, d) : d \in Ocupadas(dirs)},
  ficheros <- {<<Append(RutaDe(dirs, f.dir), f.nombre), f.que>> : f \in archivos}

ImplementaNombres ==
  [][causas' \subseteq {"llena"} => [Nombre!Next]_Nombre!vars]_vars
=============================================================================

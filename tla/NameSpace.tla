----------------------------- MODULE NameSpace -----------------------------
(***************************************************************************)
(* What the console promises about names (FileSystem/src/console.c:67-89): *)
(* a set of directories that contains the parents of each of them, and     *)
(* files in those directories, one per name.  A path is a sequence of      *)
(* names; the root is the empty one.                                       *)
(***************************************************************************)
EXTENDS Sequences, FiniteSets

LOCAL INSTANCE SequencesExt
LOCAL INSTANCE Integers

VARIABLES
  rutas,      \* the paths of the directories
  ficheros    \* pairs of a path and what is stored there

vars == <<rutas, ficheros>>

Madre(r) == Front(r)

(* A directory and those above it. *)
Hasta(r) == {SubSeq(r, 1, k) : k \in 0..Len(r)}

Ocupada(r) == \E f \in ficheros : f[1] = r

Init == rutas = {<<>>} /\ ficheros = {}

Crear(r) ==
  /\ r \notin rutas
  /\ rutas' = rutas \cup Hasta(r) /\ UNCHANGED ficheros

(* A directory takes with it all that is below it, not a file of the same *)
(* name beside it; the one it goes to is created if it is not there.       *)
Llevar(r, de, a) == IF IsPrefix(de, r) THEN a \o SubSeq(r, Len(de) + 1, Len(r)) ELSE r

MoverDirectorio(de, a) ==
  /\ de \in rutas \ {<<>>} /\ a \notin rutas /\ a # <<>> /\ ~IsPrefix(de, a)
  /\ rutas' = {Llevar(r, de, a) : r \in rutas \cup Hasta(Madre(a))}
  /\ ficheros' = {<<Append(Llevar(Madre(f[1]), de, a), Last(f[1])), f[2]>> : f \in ficheros}

MoverFichero(de, a) ==
  /\ Ocupada(de) /\ ~Ocupada(a) /\ a # <<>>
  /\ rutas' = rutas \cup Hasta(Madre(a))
  /\ ficheros' = {<<IF f[1] = de THEN a ELSE f[1], f[2]>> : f \in ficheros}

BorrarDirectorio(r) ==
  /\ r \in rutas \ {<<>>}
  /\ \A s \in rutas \ {<<>>} : Madre(s) # r
  /\ \A f \in ficheros : Madre(f[1]) # r
  /\ rutas' = rutas \ {r} /\ UNCHANGED ficheros

BorrarFichero(r) ==
  /\ Ocupada(r)
  /\ ficheros' = {f \in ficheros : f[1] # r} /\ UNCHANGED rutas

Guardar(r, que) ==
  /\ ~Ocupada(r) /\ r # <<>>
  /\ rutas' = rutas \cup Hasta(Madre(r))
  /\ ficheros' = ficheros \cup {<<r, que>>}

Formatear == rutas' = {<<>>} /\ ficheros' = {}

Ficheros == {f[1] : f \in ficheros}

Next ==
  \/ \E r \in rutas' : Crear(r)
  \/ \E de \in rutas, a \in rutas' : MoverDirectorio(de, a)
  \/ \E de \in Ficheros, a \in Ficheros' : MoverFichero(de, a)
  \/ \E r \in rutas : BorrarDirectorio(r)
  \/ \E r \in Ficheros : BorrarFichero(r)
  \/ \E f \in ficheros' : Guardar(f[1], f[2])
  \/ Formatear
=============================================================================

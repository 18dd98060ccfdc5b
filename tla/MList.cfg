SPECIFICATION Spec
CONSTANTS
  hilo1 = hilo1  hilo2 = hilo2
  Hilos = {hilo1, hilo2}
  MaxNodos = 4
  MaxOps = 5
  Clave <- Claves
SYMMETRY Iguales
INVARIANTS ListaSana
PROPERTIES ResultadoFiel
CHECK_DEADLOCK FALSE

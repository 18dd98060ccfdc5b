SPECIFICATION Spec
CONSTANTS
  n1 = n1  n2 = n2
  OrdenNodos <- DosNodos
  Total <- Desparejos
  Consola = consola
  Trabajadores = {w}
  Rutas = {p}
  Nadie = Nadie
  MaxBloques = 2
  MaxSubidas = 2
  MaxOrdenes = 2
  MaxCaidas = 1
  MaxReinicios = 1
INVARIANTS TrasReinicio
CHECK_DEADLOCK FALSE

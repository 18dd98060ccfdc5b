SPECIFICATION Spec
CONSTANTS
  a = a  b = b  c = c
  Nodos = {a, b}
  SinCopia = SinCopia
  Archivo <- ArchivoDos
  ListasActivas <- VariasDos
  MaxSockets = 1
  MaxJobs = 1
  MaxFallos = 2
  BloqueCorrupto = 2
INVARIANTS CargaSana DesconexionEncuentra EtapasExactas CaidaExplicada
PROPERTIES ExitoPermanente JobTermina
CHECK_DEADLOCK FALSE

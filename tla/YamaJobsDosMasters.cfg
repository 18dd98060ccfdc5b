SPECIFICATION Spec
CONSTANTS
  a = a  b = b  c = c
  Nodos = {a, b, c}
  SinCopia = SinCopia
  Archivo <- ArchivoUno
  ListasActivas <- VariasTres
  MaxSockets = 2
  MaxJobs = 2
  MaxFallos = 1
  BloqueCorrupto = 4608
INVARIANTS MastersSeparados
CHECK_DEADLOCK FALSE

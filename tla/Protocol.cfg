SPECIFICATION Spec
CONSTANTS
  Nulo = Nulo  Basura = Basura
  Base = 8  NullString <- Nulos
  h1 = h1  h2 = h2  pral = pral  serv = serv
  Hilos = {h1, h2}  Principal = pral  Servidor = serv
  Guiones <- Libretos  Formatos <- Formas
  Procesos = {1, 3}  Esperado = 3
  Cap = 7  MaxSize = 4
INVARIANTS TramaFiel
PROPERTIES Llega
CHECK_DEADLOCK FALSE

SPECIFICATION Spec
CONSTANTS
  ta = ta  tb = tb  tc = tc  td = td  rl = rl  rg = rg  af = af
  n1 = n1  n2 = n2
  Hilos = {ta, tb, tc, td, rl, rg, af}
  Etapa <- EtapaMC
  Nodo <- NodoMC
  Paquetes <- PaquetesMC
  Permisos = 3
  Nadie = Nadie
  MaxFallos = 3
CHECK_DEADLOCK FALSE
INVARIANTS SemaforoCuadra MuertoNoInforma AbandonoExplicado
PROPERTIES ReanudaSola MasterTermina

SPECIFICATION Spec
CONSTANTS
  n1 = n1  n2 = n2
  ta = ta  tb = tb  tc = tc  la = la  lc = lc  gr = gr  af = af
  Pedidos = {ta, tb, tc, la, lc, gr, af}
  Nodo <- ElNodo  Etapa <- LaEtapa  Tras <- LoTras  Mundos <- LosMundos
  Vacia = 0  Pagina = 2  Nulo = Nulo
INVARIANTS ResultadoFiel
PROPERTIES RespuestaLlega
CHECK_DEADLOCK FALSE

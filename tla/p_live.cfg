SPECIFICATION FairSpec
CONSTANTS
  MaxProcesos = 2
  Grado = 2
  Algoritmo = "HRRN"
  Instancias <- UnRecurso
  Archivos = {"f"}
  MaxSegmentos = 3
  Programas <- MezclaYWait
CHECK_DEADLOCK FALSE
INVARIANTS FichaUnicaDeCpu NuncaSacaDeListaVacia ListasContadas ALoSumoUnaDeMas
PROPERTIES Progreso SaleDeBlocked

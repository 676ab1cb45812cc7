SPECIFICATION FairSpec
CONSTANTS
  MaxProcesos = 1
  Grado = 1
  Algoritmo = "FIFO"
  Instancias <- SinRecursos
  Archivos = {"f"}
  MaxSegmentos = 3
  Programas <- CedeYTermina
CHECK_DEADLOCK FALSE
PROPERTIES LlegaAExit

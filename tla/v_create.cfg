SPECIFICATION Spec
CONSTANTS
  MaxProcesos = 2
  Grado = 2
  Algoritmo = "FIFO"
  Instancias <- UnRecurso
  Archivos = {"f"}
  MaxSegmentos = 3
  Programas <- Resto
CHECK_DEADLOCK FALSE
INVARIANTS NuncaSacaDeListaVacia

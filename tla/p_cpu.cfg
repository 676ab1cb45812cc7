SPECIFICATION Spec
CONSTANTS
  Pid = {1, 2}
  Programa <- DosProgramas
  TamMaxSegmento = 16
  TamSegmento0 = 4
  TamMemoria = 36
  Basuras <- UnasBasuras
CHECK_DEADLOCK FALSE
INVARIANTS TypeOK NadaSeSalteaNiSeRepite ArchivoAdentro SePasaALoSumoUnRegistro RegistrosDeUnoSolo
PROPERTIES SiempreResponde

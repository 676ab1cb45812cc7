SPECIFICATION SpecJusta
CONSTANTS
  Archivo = {"f", "g"}
  Tamanios = {0, 8, 16, 24}
  Posiciones = {0, 4, 8}
  TamBloque = 8
  CantBloques = 2
  UltimaPalabra = 3
CHECK_DEADLOCK FALSE
INVARIANTS TypeOK
PROPERTIES CumpleLaTabla NoSeCuelga

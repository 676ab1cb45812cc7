SPECIFICATION SpecJusta
CONSTANTS
    Veces = 2
    MaxCaidas = 1
INVARIANTS TypeOK ParejasBien TablasEnOrden
PROPERTIES ArrancaBien
CHECK_DEADLOCK FALSE

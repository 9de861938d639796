CONSTANTS
    Tope = 2
    MaxRegs = 5
    Ranuras = {1, 2}
    Trabajos <- MCLlanos
SPECIFICATION SpecB
INVARIANT CualquierCantidad
CHECK_DEADLOCK FALSE

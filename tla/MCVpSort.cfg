CONSTANTS
    Tope = 2
    MaxRegs = 5
    Ranuras = {1, 2}
    Trabajos <- MCTrabajos
SPECIFICATION SpecB
INVARIANTS SalidaFiel NadaSePierde Busca
CHECK_DEADLOCK FALSE

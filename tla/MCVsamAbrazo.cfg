CONSTANTS
    Claves = {1}
    Reps = {}
    Valores = {}
    Unica = "uni"
    Pos = {1, 2}
    MaxCuant = 0
    Procs = {p1, p2}
    Ordenados = {}
    Datos = {d1}
SPECIFICATION SpecJusta
PROPERTY EvitaAbrazo
CHECK_DEADLOCK FALSE

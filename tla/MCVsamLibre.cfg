CONSTANTS
    Claves = {1}
    Reps = {}
    Valores = {}
    Unica = "uni"
    Pos = {1, 2}
    MaxCuant = 0
    Procs = {p1, p2, p3}
    Ordenados = {}
    Datos = {d1}
SPECIFICATION SpecC
SYMMETRY Simetria
INVARIANTS CabezaFresca LibresFiel
CHECK_DEADLOCK FALSE

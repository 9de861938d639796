CONSTANTS
    Claves = {1, 2}
    Reps = {}
    Valores = {}
    Unica = "uni"
    Pos = {1, 2}
    MaxCuant = 0
    Procs = {p1, p2}
    Ordenados = {p1, p2}
    Datos = {d1, d2}
SPECIFICATION SpecJusta
INVARIANTS LeidoVigente MarcaFiel BajaSegura SinAbrazo
PROPERTY Atiende

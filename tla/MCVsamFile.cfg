CONSTANTS
    Claves = {1, 2, 3, 4}
    Reps = {"rep"}
    Valores <- MCValores
    v1 = v1
    v2 = v2
    Unica = "uni"
    Pos = {1, 2, 3, 4}
    MaxCuant = 4
SPECIFICATION Spec
SYMMETRY Simetria
INVARIANTS IndiceFiel Cadena Pilas Recorre

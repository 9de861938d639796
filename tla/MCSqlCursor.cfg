CONSTANTS
    Archivos = {f1, f2}
    Cursores = {0, 1}
    Consultas = {"select"}
    Cambios = {"update"}
    Filas <- MCFilas
    MaxSent = 2
    MaxMem = 2
    MaxTextos = 2
SPECIFICATION Spec
SYMMETRY Simetria
INVARIANTS Columnas LecturaFiel
CHECK_DEADLOCK FALSE

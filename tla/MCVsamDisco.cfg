CONSTANTS
    Orden <- MCOrden
    Unica = "uni"
    TamK <- MCTamK
    TamR = 2
    Claves <- MCClaves
    Valores = {0, 1, 2, 3, 4, 5, 6}
    Bloques = 60
    MaxCuant = 60
    Guiones <- MCGuiones
SPECIFICATION Spec
INVARIANTS ArbolB SinFugas BuscaVecinos
PROPERTY ImplementaArchivo
CHECK_DEADLOCK FALSE

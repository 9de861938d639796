CONSTANTS
    p1 = p1
    p2 = p2
    r1 = r1
    r2 = r2
    Procs <- MCProcs
    Padres <- MCPadres
    DuenoDe <- MCDuenoDe
    Activas = {"padre", "mov", "otro"}
    MaxMovs = 3
    MaxCaidas = 1
SPECIFICATION Spec
INVARIANTS Cadenas LibresFiel
PROPERTY Acaba
CHECK_DEADLOCK FALSE

\* A report whose program ends a page with a form feed.
CONSTANTS
    Trabajos <- MCPagina
    MaxPiezas = 4
    Primero = "a"
    Teclas = {"F1", "tab"}
    Altas = {"F1"}
    Ventanas = {0, 1}
    Alto = 3
    MaxCar = 3
    MaxNivo = 2
    MaxKivo = 2
    MaxPag = 2
SPECIFICATION Spec
INVARIANT PieEnCadaPagina
CHECK_DEADLOCK FALSE

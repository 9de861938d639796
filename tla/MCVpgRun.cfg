\* A source compiled by vp and run by vpg, with a user that presses keys and Control-C
\* whenever it can.
CONSTANTS
    Trabajos <- MCTrabajos
    MaxPiezas = 4
    Primero = "a"
    Teclas = {"F1", "tab"}
    Altas = {"F1"}
    Ventanas = {0, 1}
    Alto = 3
    MaxCar = 3
    MaxNivo = 2
    MaxKivo = 2
    MaxPag = 2
SPECIFICATION Spec
INVARIANTS SaltosFieles SaltoPropio VueltaAlCampo VentanaViva PaginaCabe
CHECK_DEADLOCK FALSE

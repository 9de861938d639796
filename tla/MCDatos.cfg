CONSTANTS
    Fuentes <- MCFuentes
    Tecleos <- MCTecleos
    Horas <- MCHoras
    Pedidos <- MCPedidos
    Textos <- MCTextos
    Teclas <- MCTeclas
    Basuras <- MCBasuras
    ArchivosDeTexto <- MCArchivos
    Maestro <- MCMaestro
    Entorno <- MCEntorno
    Renglon = 12
    Bloque = 8
    MaxTeclas = 4
    MaxFd = 5
    Buffers = {0, 1}
    Tope = 48
    Maquinas <- MCMaquinas
SPECIFICATION Spec
INVARIANTS CgiFiel CuentaFiel EnchufesPropios
PROPERTIES RenglonFiel RecuperaFiel ReferenciaFiel EscribeLoSuyo FechaFiel FormaFiel ComparaFiel ImprimeFiel DescargaFiel
CHECK_DEADLOCK FALSE

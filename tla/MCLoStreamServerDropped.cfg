SPECIFICATION Spec
CONSTANTS
    a = a  b = b
    Conn <- MCConn
    Length <- MCLength
    Lossy = {b}
    LoneError = {b}
    NoConn = NoConn
    Later <- MCLater
    MinBuffer = 2
    MaxBuffer = 8
INVARIANTS NothingDropped
CHECK_DEADLOCK FALSE

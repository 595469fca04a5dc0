SPECIFICATION FairSpec
CONSTANTS
    a = a  b = b
    Conn <- MCConn
    Length <- MCLength
    Lossy = {b}
    LoneError = {b}
    NoConn = NoConn
    Later <- MCLater
    MinBuffer = 2
    MaxBuffer = 8
INVARIANTS TableMatches StreamsInStep SourceIsPeer
    BlocksOnlyAfterAccept SpinsOnlyOnLong
PROPERTIES EventuallyTaken ClosedIsRemoved
CHECK_DEADLOCK FALSE

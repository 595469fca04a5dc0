SPECIFICATION Spec
CONSTANTS
    m1 = m1  m2 = m2  m3 = m3  m4 = m4  m5 = m5  x = x  p = p
    B1 = B1  B2 = B2  BN = BN  L = L
    peer1 = peer1  peer2 = peer2
    BadMessage = BadMessage
    BadBundle = BadBundle
    NoAddr = NoAddr
    Msg <- MCMsg
    Bundle <- MCBundle
    Timetag <- MCTimetag
    Elements <- MCElements
    Traffic <- MCTraffic
    Local <- MCLocal
    Sender <- MCSender
    HandlerCalls <- MCReentrantCalls
    Early = 1
    PollCap = 2
    MaxDelay = 3
    Timeouts = {1}
    MaxClock = 4
    InboxCap = 1
    MaxDepth = 4
INVARIANTS QueueOrdered
PROPERTIES NeverEarly
CHECK_DEADLOCK FALSE

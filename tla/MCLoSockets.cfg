SPECIFICATION Spec
CONSTANTS
    a1 = a1  a2 = a2  s1 = s1  s2 = s2
    Addr <- MCAddr
    Server <- MCServer
    NFd = 3
    MaxOpens = 3
    MaxTries = 2
    None = None
SYMMETRY Symmetry
INVARIANTS HeldIsOpen AccountedFor FramesWhole SentOnce
CHECK_DEADLOCK FALSE

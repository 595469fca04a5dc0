SPECIFICATION FairSpec
CONSTANTS
    a = a  b = b  ab = ab
    Method <- MCMethod
    Target = {a, ab}
    Pattern = {ab}
    Listing = {a}
    Matches <- MCMatches
    NoPath = NoPath
    Types = {"i"}
    Initial <- MCInitial
    MaxThreads = 2
    MaxNodes = 3
    Bounds <- MCBounds
INVARIANTS ListIsRegistered UndefinedIsNamed CalledInOrder NoneSkipped OneThread
    ContextIsThrowers
PROPERTIES StopReturns
CHECK_DEADLOCK FALSE

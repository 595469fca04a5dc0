SPECIFICATION Spec
CONSTANTS
    Paths <- MCPaths
    Args <- MCArgs
    Calls <- MCCalls
    Words <- MCWords
    MaxArgs = 3
    MaxWords = 5
    LO_DEF_TYPE_SIZE = 3
    LO_DEF_DATA_SIZE = 4
    LO_MAX_MSG_SIZE = 64
    LogPrecision = 4
    Payloads <- MCPayloads
    MaxPayloads = 2
    MaxRecv = 16
    FirstSize = 6
    LargestSize = 64
    Alphabet <- MCAlphabet
    Sets <- MCSets
    Braces <- MCBraces
    MaxTokens = 3
    MaxChars = 4
    Ports <- MCPorts
    Rests <- MCRests
    MaxName = 6
    PathChar <- MCPathChar
    MethodPaths <- MCMethodPaths
    AnyPath <- MCAnyPath
    Returns = {0, 1, 2}
    MaxMethods = 3
INVARIANTS BuildRoundTrip AcceptedIsCanonical CoercionFits SlipFrames PatternAgrees
    UrlReadsBack EnumerationFindsAll
CHECK_DEADLOCK FALSE

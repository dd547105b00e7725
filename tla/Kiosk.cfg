SPECIFICATION KioskFairSpec
CONSTANTS
    c1 = c1
    c2 = c2
    c3 = c3
    c4 = c4
    s1 = s1
    s2 = s2
    Calls <- MCCalls
    Streams <- MCStreams
INVARIANTS ListeningIsLatest
PROPERTIES ThinkingEnds StreamsCatchUp
CHECK_DEADLOCK FALSE

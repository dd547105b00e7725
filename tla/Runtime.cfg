SPECIFICATION FairSpec
CONSTANTS
    m1 = m1
    Prompts <- MCPrompts
    Modes <- MCModes
INVARIANTS CausalLog PrintedIsRecorded OnlyLateRoutesRefused
PROPERTY ShutdownSettles
CHECK_DEADLOCK FALSE

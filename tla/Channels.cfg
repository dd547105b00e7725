SPECIFICATION ChannelSpec
CONSTANTS
    w1 = w1
    poll1 = poll1
    poll2 = poll2
    r1 = r1
    r2 = r2
    Bytes <- Ascii
    Replies <- MCReplies
    Polls <- MCPolls
    MaxFile = 3
    MaxStarts = 2
    Requests <- MCRequests
    MaxReplies = 3
INVARIANTS EachLineOnce OneAnswer NothingLeftBehind
PROPERTIES NoPromptAfterStop LinesArrive PromptsAreAnswered
CHECK_DEADLOCK FALSE

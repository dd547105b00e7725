SPECIFICATION EitherSpec
CONSTANTS
    t1 = t1
    t2 = t2
    t3 = t3
    a1 = a1
    a2 = a2
    Tasks <- MCTasks
    Agents <- MCAgents
    AgentOf <- MCAgentOf
    MaxConcurrent = 2
    MaxClock = 1
INVARIANTS InFlightBounded RunsAreAwaited DeferralKeepsOrder
PROPERTIES NoOvertaking LostOnlyBehindUnknown StopEndsInOrder
CHECK_DEADLOCK FALSE

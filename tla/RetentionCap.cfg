SPECIFICATION Spec
CONSTANTS
    Events <- MCEvents
    Cap = 3
    QueryLimit = 2
INVARIANT EventsAreCapped
CHECK_DEADLOCK FALSE

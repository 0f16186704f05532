SPECIFICATION AccumSpec
CONSTANTS
    Walks <- RestoredTwice
    EventsOf <- EventsIn
    MaxStored = 12
CHECK_DEADLOCK FALSE
INVARIANT RecordedStand

SPECIFICATION Spec
CONSTANTS
    EVENT_QUEUE_LENGTH = 8
    Note = {n1, n2, n3, n4}
    Thread = {main, callback}
    Main = main
    MaxTime = 2
INVARIANT
    QueueVerified
PROPERTIES
    ImplementsBag
    DueIsFired
CHECK_DEADLOCK FALSE

\* What doReconnect clears, against its comment.
SPECIFICATION Spec
CONSTANTS
    MaxSends = 1
    AttemptCap = 1
    QueueBound = 1
PROPERTIES
    ClearsPreviousConnectionOnly

\* Reconnecting, stopping, and progress of the write queue: one application
\* message, and pings.
SPECIFICATION FairSpec
CONSTANTS
    MaxSends = 1
    AttemptCap = 1
    QueueBound = 0
PROPERTIES
    Reconnects
    CancelledReadEndsStop
    QueueMoves

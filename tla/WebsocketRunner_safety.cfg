\* Safety of the runner: two application messages, and enough
\* attempts for the delay to reach MAX_BACKOFF_SECS and stay there.
SPECIFICATION Spec
CONSTANTS
    MaxSends = 2
    AttemptCap = 7
    QueueBound = 1
INVARIANTS
    TypeOK
    OneActivity
    NeverStalls
    OneWrite
    CallbacksAlternate
    WiredInOrder
    OneKeepAlive
    ClosedForGood
PROPERTIES
    NoPingWhileUnanswered
    BackoffDoubles

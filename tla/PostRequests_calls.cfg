\* Two threads: signed actions, queries and subscriptions, answers in any order.
SPECIFICATION FairSpec
CONSTANTS
    Callers = {c1, c2}
    Types = {"PlaceOrder", "RecentTrades", "subscribe", "unsubscribe"}
    MaxCalls = 2
    MaxRepeats = 1
    MaxLosses = 2
INVARIANTS RightCall AnsweredOnce KnownIds ThreadNoncesInOrder SubscriptionAsWanted
PROPERTIES CallsAnswered Resubscribed
CHECK_DEADLOCK FALSE

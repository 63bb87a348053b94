\* Two threads: the nonces may reach the exchange out of order.
SPECIFICATION Spec
CONSTANTS
    Callers = {c1, c2}
    Types = {"PlaceOrder"}
    MaxCalls = 2
    MaxRepeats = 0
    MaxLosses = 0
INVARIANTS NoncesInOrder
CHECK_DEADLOCK FALSE

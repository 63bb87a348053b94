\* The configured vault, against the comment in RestApi.h.
SPECIFICATION Spec
CONSTANTS
    MaxEntries = 1
INVARIANTS AgainstCallingWallet
CHECK_DEADLOCK FALSE

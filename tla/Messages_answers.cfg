\* Every method and every channel, whatever comes back.  The process may end.
SPECIFICATION Spec
CONSTANTS
    MaxEntries = 2
INVARIANTS PrefixDelivered LossIsLocal MembersSet SimpleAnswersDecide
    OnlyQueriesThrow ReadAlike SignatureCoversBody VaultRule
CHECK_DEADLOCK FALSE

\* A posted query, answered with something unexpected.
SPECIFICATION Spec
CONSTANTS
    MaxEntries = 1
INVARIANTS UnexpectedAnswersSurvived
CHECK_DEADLOCK FALSE

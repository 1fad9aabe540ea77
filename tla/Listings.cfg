SPECIFICATION Spec
CONSTANTS
    MaxRows = 3
    MaxKey = 4
    MaxChanges = 2
    Sizes = {1, 2}
INVARIANTS
    NothingMissed
    NothingTwice
    FirstTwoPagesAreWhole
\* The client has read the last page.
CHECK_DEADLOCK FALSE

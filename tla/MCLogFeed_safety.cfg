SPECIFICATION Spec
CONSTANTS
    Capacity = 3
    MaxLines = 7
INVARIANTS TypeOK ShownInOrder NewestKept
CHECK_DEADLOCK FALSE

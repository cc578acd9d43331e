CONSTANTS
    Entry = {e1}
    Width = 3
    MaxAttempts = 2
    Slots = 1
    MaxMishaps = 1
    Faults = {"edit"}

SPECIFICATION Spec

INVARIANT NeverMoves

CHECK_DEADLOCK FALSE

\* move(rhs, length) splits a buffer of the other list.
SPECIFICATION BufferSpec
CONSTANTS
    Sizes = {2, 3}
    MaxBytes = 5
INVARIANT MovesWhatIsAsked
CHECK_DEADLOCK FALSE

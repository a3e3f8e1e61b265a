CONSTANTS
    Thread = {a, b}
    MaxRequests <- TwoEach
    NOTAG = 3
    TRIES = 1
    MaxPending = 0
SPECIFICATION Spec
SYMMETRY Symmetry
INVARIANT
    BufferStaysPut
CHECK_DEADLOCK FALSE

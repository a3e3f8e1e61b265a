SPECIFICATION BootSpec
CONSTANT Null = Null
INVARIANT
    LoaderStops
CHECK_DEADLOCK FALSE

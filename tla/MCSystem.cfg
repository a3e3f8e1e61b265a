SPECIFICATION SSpec
CONSTANT Null = Null
INVARIANTS
    ProcessesSound
    
    
    StreamsDelivered
    
    
    ServicesTrue
    LibraryTrue
PROPERTY StatusToldOnce
CHECK_DEADLOCK FALSE

SPECIFICATION PSpec
INVARIANTS
    
    
    
    
    
    
    ToolsTrue
 
CHECK_DEADLOCK FALSE

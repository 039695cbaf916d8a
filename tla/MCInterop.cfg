SPECIFICATION Spec
CONSTANTS
    Nodes <- MCNodes
    Files <- MCFiles
PROPERTIES
    
    TwiceIsOnce
    OperationsSurvive
    EveryResourceOnce

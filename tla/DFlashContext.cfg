SPECIFICATION Spec
CONSTANTS
    Layers = 2
    Heads = 2
    Dim = 2
    QSize = 4
    Tokens <- MCTokens
    MaxTokens = 2
    Slots = {0, 1}
    Drafts <- MCDrafts
    MaxLoads = 2
    MaxStores = 2
INVARIANTS
    WindowsFitRunner
    
PROPERTIES
    ImplementsLayers
CHECK_DEADLOCK FALSE

SPECIFICATION Spec
CONSTANTS
    Procs = {p1, p2}
    Trees <- MCTrees
    Table <- MCTable
    Layout <- MCLayout
    Base <- MCBase
    Compatible = {"QwenSeq", "Custom"}
    Backend = "Trans"
    Queries <- MCQueries
    Plugins <- MCPlugins
    MaxCalls = 2
    MaxEvents = 2
INVARIANTS
    InfoIsOwn
    InspectedIsLoaded
    RefusalHasCause
PROPERTIES
    SameAnswers
CHECK_DEADLOCK FALSE

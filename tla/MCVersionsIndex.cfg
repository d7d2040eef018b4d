SPECIFICATION Spec
CONSTANTS
    Parts = {"generations", "redefined", "scanned", "fulltext", "batched"}
    GraphCommits = 5
    Connection = {"c1", "c2"}
    Branch = {"main", "topic"}
    MaxCommit = 3
    Session = {"s1"}
    ConflictName = {"k1"}
    UserChoice = {"ours", "theirs"}
    MaxHeads = 2
    MaxRevision = 2
    RelationshipGraph <- ARelationshipGraph
    ConstraintGraph <- AConstraintGraph
    NodeGraph <- ANodeGraph
    LoopGraph <- ALoopGraph
    MaxSources = 2
    CorrectedIndex <- ACorrectedIndex
    RedefinedIndex <- ARedefinedIndex
    ScannedIndex <- AScannedIndex
    TextIndex <- ATextIndex
    BatchQuery <- ABatchQuery
    DatabaseId = {"i1", "i2", "i3"}
    MaxInitCalls = 2
CHECK_DEADLOCK FALSE
INVARIANTS
    IndexIsExact
    FullTextIsRight
PROPERTIES
    BatchesAreKept

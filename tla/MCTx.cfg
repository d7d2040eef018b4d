CONSTANTS
    node = node
    some = some
    none = none
    keep = keep
    Slot = {node}
    Value = {some}
    Owners <- OneNode
    Absent = none
    Keep = keep
    Branch = {main}
    Main = main
    Tag = {}
    Session = {}
    SchemaObject = {index}
    Conforms <- AnyGraph
    Stamp = {0, 1, 2, 3}
    RootStamp = 0
    Cursor = {k1, k2}
    Monotonic = TRUE
    MaxTx = 2
    MaxCommits = 3
    MaxRevision = 1
    MaxSidecars = 0
SPECIFICATION Spec
INVARIANTS
    ConnectionIsConsistent
    FinalizeSucceeds
PROPERTIES
    ImplementsVersionStore
    OneCommitPerTx

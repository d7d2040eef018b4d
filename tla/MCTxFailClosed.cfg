CONSTANTS
    node = node
    some = some
    none = none
    keep = keep
    Slot = {node}
    Value = {some}
    Owners <- OneNode
    Absent = none
    Keep = keep
    Branch = {main}
    Main = main
    Tag = {}
    Session = {}
    SchemaObject = {}
    Conforms <- NoConstraint
    Stamp = {0, 1, 2, 3}
    RootStamp = 0
    Cursor = {k1}
    Monotonic = TRUE
    MaxTx = 1
    MaxCommits = 3
    MaxRevision = 1
    MaxSidecars = 0
SPECIFICATION Spec
PROPERTIES
    StagedStaysStaged

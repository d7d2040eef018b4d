CONSTANTS
    node = node
    property = property
    some = some
    none = none
    keep = keep
    exists = exists
    Slot = {node}
    Value = {some}
    Owners <- OneNode
    Absent = none
    Keep = keep
    Branch = {main, topic}
    Main = main
    Tag = {}
    Session = {s1}
    SchemaObject = {}
    Conforms <- NoConstraint
    Stamp = {m1}
    RootStamp = m1
    MaxCommits = 4
    MaxRewritten = 6
    MaxRevision = 2
    MaxSidecars = 0
SPECIFICATION Spec
CONSTRAINT WithinBounds
PROPERTIES
    MergeKeepsBothSides
    NoLostUpdate

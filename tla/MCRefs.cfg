CONSTANTS
    node = node
    property = property
    some = some
    none = none
    keep = keep
    exists = exists
    Slot = {node}
    Value = {some}
    Owners <- OneNode
    Absent = none
    Keep = keep
    Branch = {main, topic}
    Main = main
    Tag = {t1}
    Session = {s1}
    SchemaObject = {}
    Conforms <- NoConstraint
    Stamp = {m1}
    RootStamp = m1
    MaxCommits = 3
    MaxRewritten = 3
    MaxRevision = 1
    MaxSidecars = 1
SPECIFICATION Spec
INVARIANTS
    NothingDangles
    NothingOrphaned
PROPERTIES
    PublishedHistoryKept

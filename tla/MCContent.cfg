CONSTANTS
    node = node
    property = property
    some = some
    none = none
    keep = keep
    exists = exists
    Slot = {node, property}
    Value = {some}
    Owners <- NodeWithProperty
    Absent = none
    Keep = keep
    Branch = {main}
    Main = main
    Tag = {}
    Session = {}
    SchemaObject = {exists}
    Conforms <- PropertyExists
    Stamp = {m1}
    RootStamp = m1
    MaxCommits = 4
    MaxRewritten = 4
    MaxRevision = 1
    MaxSidecars = 1
SPECIFICATION Spec
INVARIANTS
    SnapshotsValid
PROPERTIES
    SnapshotsImmutable

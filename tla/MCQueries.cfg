SPECIFICATION Spec
CONSTANTS
    PartNames = {"paths", "cursors", "routing", "streams", "seeks", "relations", "encoded", "json", "evaluated", "dates"}
CHECK_DEADLOCK FALSE
INVARIANTS
    PathsAreExact
    PipelinesAgree
    ValuesAreFaithful
    ExpressionsAreExact

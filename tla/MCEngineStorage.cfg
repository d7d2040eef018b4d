SPECIFICATION Spec
CONSTANTS
    PartNames = {"commands", "merged", "types", "damaged", "damagedIndex", "damagedRefs", "snapshot",
                 "flat", "layered", "ring", "semantic"}
CHECK_DEADLOCK FALSE
INVARIANTS
    SchemaIsEnforced
    CheckIsExact
    SnapshotReadsAgree
PROPERTIES
    SemanticSearchIsRight

SPECIFICATION Spec
CONSTANTS
    PartNames = {"updating", "retrying", "csv", "loading", "sorting", "memory", "client", "vectors"}
CHECK_DEADLOCK FALSE
INVARIANTS
    MutationIsExact
    CsvIsReadExactly
    MemoryIsKept
    EmbeddingsAreRight
PROPERTIES
    WritesEnd

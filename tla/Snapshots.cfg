SPECIFICATION Spec
CONSTANTS
    Nodes = {n1}
    Readers = {r1}
    Pieces <- MCPieces
    SeqMod = 8
    MaxUpserts = 20
CHECK_DEADLOCK FALSE
INVARIANTS
    WholeSnapshot
PROPERTIES
    NeverBackwards

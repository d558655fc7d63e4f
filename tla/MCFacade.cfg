\* Every operation through two facades.
SPECIFICATION Spec
CONSTANTS
    Depth = 2
    Operations <- OPERATION_NAMES
    None = None
INVARIANTS
    WipesExactlyItsCopies
    BackendGetsTheCheckedRequest
    ErrorIsTheFirstThrown

SPECIFICATION Spec
CONSTANTS
    Ids = {"root", "a", "b", "gone"}
    NATIVE_TARGETS <- MCNative
    C_ABI_TARGET_ORDER <- MCCAbi
    Observed <- MCObserved
INVARIANTS
    CollectedIsWhatIsShipped
    CollectedIffComplete
CHECK_DEADLOCK FALSE

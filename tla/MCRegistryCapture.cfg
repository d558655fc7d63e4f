\* One capture with every answer of the registry.
SPECIFICATION FairSpec
CONSTANTS
    Tarballs <- MCTarballs
    Candidate = "candidate"
    Appears <- MCAppears
    None = None
INVARIANTS
    VisibleInTimeIsCaptured
    FitsThePublishJob
    CapturedEvidenceIsOneTarball
PROPERTIES
    CaptureEnds

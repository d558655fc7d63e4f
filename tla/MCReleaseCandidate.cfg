SPECIFICATION Spec
CONSTANTS
    Native = {"n1", "n2"}
    Android = {"a1"}
    Ios = {"i1"}
    Builds <- MCBuilds
    Own <- MCOwn
    Head = "head"
    Rustc = "t1"
    Licences <- MCLicences
    Absent = Absent
    MaxReplaced = 1
INVARIANTS
    AcceptedIsOneBuildPerPart
    LicenceEvidenceIsOfTheTarball
    CleanRunAccepted
CHECK_DEADLOCK FALSE

\* Every entry point on every runtime while two files change.
SPECIFICATION Spec
CONSTANTS
    Entries <- MCEntries
    Runtimes <- MCRuntimes
    Listings <- MCListings
    MaxChanges = 2
    None = None
INVARIANTS
    NoSilentFallback
    WasmInUseWasVerified

\* One process, started without a file; one file that its reader opens.
SPECIFICATION LaunchSpec
CONSTANTS
    Starts = {p1}
    NoFile = NoFile
    Args = {NoFile}
    Files = {f1}
    Listed <- NothingListed
    kMaxEntries = 2
    MaxAsks = 1
CHECK_DEADLOCK FALSE
INVARIANT DispatcherOutlivesOpens

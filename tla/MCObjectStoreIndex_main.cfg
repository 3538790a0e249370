SPECIFICATION Spec
CONSTANTS
    b1 = b1
    b2 = b2
    b3 = b3
    Builds <- MCBuilds
    BuiltAt <- MCBuiltAt
    NoBuild = NoBuild
    NoSha = NoSha
    MaxUploads = 3
    MaxFailures = 1
    MaxRestarts = 1
INVARIANTS
    CachesAgree
    BootVerified
PROPERTIES
    NoFutileDownload
    EventuallyServesPublished

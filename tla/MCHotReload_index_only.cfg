SPECIFICATION Spec
CONSTANTS
    b1 = b1
    b2 = b2
    b3 = b3
    Builds <- MCBuilds
    BuiltAt <- MCBuiltInTurn
    NoBuild = NoBuild
    EmptyManifest = m0
    Unreadable = unreadable
    Manifests = {m0, m1}
    NoCollection = noColl
    Collections = {k1}
    Clients = {c1, c2}
    FormatsReload = FALSE
    Eviction = FALSE
    MaxPublishes = 2
    MaxManifestWrites = 1
    MaxLoadFailures = 1
INVARIANTS
    AckedCollectionQueryable
PROPERTIES
    IndexMonotone
    ImplementsServedIndex

SPECIFICATION MountSpec
CONSTANTS
    Slots = {"s1", "s2"}
    Mounts = {"m1", "m2", "m3", "m4", "m5"}
    Concurrency = 2
    NoMount = "none"
INVARIANTS
    QueueSound
    MountedIsFilled
PROPERTIES
    EventuallyMounted

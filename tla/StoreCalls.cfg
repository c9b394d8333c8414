\* Two threads put, remove, rebuild and list blocks that are empty, too short,
\* whole or too long, with room for two blocks and three descriptors; the
\* process dies once.  When the puts are used up there may be nothing to do.
SPECIFICATION Spec
CONSTANTS
    a = a
    dot = dot
    t1 = t1
    t2 = t2
    None = None
    Keys = {a, dot}
    Hidden = {dot}
    Data <- Various
    BlockSize = 2
    Threads = {t1, t2}
    MaxFree = 2
    MaxFds = 3
    MaxPuts = 3
    MaxCrashes = 1
    Modulus = 16
INVARIANT TypeOK
INVARIANT AckedReadsBack
INVARIANT FilterCoversAcked
INVARIANT FreeDoesNotWrap
INVARIANT UsedCoversKnown
INVARIANT DescriptorsAccounted
CHECK_DEADLOCK FALSE

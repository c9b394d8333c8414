\* Two threads that share a mutex make a good call and one of an unknown
\* method.  Everything may be destroyed, and then nothing happens.
SPECIFICATION FairSpec
CONSTANTS
    f1 = f1
    f2 = f2
    t1 = t1
    t2 = t2
    good = good
    bad = bad
    None = None
    Calls = {f1, f2}
    Threads = {t1, t2}
    MethodOf <- OneBad
    Exported = {good}
    Locked = TRUE
CHECK_DEADLOCK FALSE
INVARIANTS
    OnceInv
    ChannelInv
    ResponseFindsCallback
    DestroyCompletesAll
PROPERTIES
    ImplementsService
    EventuallyAnswered
    UnknownMethodNotifies

\* Two stores on one channel: any three of seven calls overlap, and
\* each may fail, or the four on one block do, and none fails.
SPECIFICATION Spec
CONSTANTS
    c1 = c1
    c2 = c2
    c3 = c3
    c4 = c4
    c5 = c5
    c6 = c6
    c7 = c7
    k = k
    None = None
    Unset = Unset
    Calls = {c1, c2, c3, c4, c5, c6, c7}
    Stores = {1, 2}
    Keys = {k}
    BlockSize = 2
    FreeCounts = {3}
    MaxMade = 3
    OpOf <- Mixed
ACTION_CONSTRAINT FewCalls
INVARIANT ReadsWhatWasPut
INVARIANT NothingInvented
CHECK_DEADLOCK FALSE

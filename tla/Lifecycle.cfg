\* Two threads of the host that register, call and shut down.
SPECIFICATION FairSpec
CONSTANTS
    Threads = {t1, t2}
    MaxConfigures = 2
    None = none
INVARIANTS
    TypeOK
    StoresApart
    NoStoreLeft
PROPERTIES
    CallsReturn
    HandlesAreClosed

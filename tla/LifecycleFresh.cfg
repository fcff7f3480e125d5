\* A register after a shutdown that a call outlives.
SPECIFICATION Spec
CONSTANTS
    Threads = {t1, t2}
    MaxConfigures = 2
    None = none
INVARIANT FreshStoreAlone

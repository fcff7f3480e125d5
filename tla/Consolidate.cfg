SPECIFICATION FairSpec
CONSTANTS
    Threads = {t1, t2}
    Handles = {h1, h2}
    Records = {c1, c2, c3}
    Runners = {g1, g2}
    ConsolidateEvery = 2
    MaxWrites = 3
    None = none
INVARIANTS
    TypeOK
    SingleFlight
    LiveEngineOneLoop
    CadenceBound
PROPERTY DueIsServed

\* The store under an operator who never goes back to replaced settings:
\* leases of scope files, and progress.
SPECIFICATION FreshFairSpec
CONSTANTS
    Requests = {r1, r2}
    Prewarmers = {}
    Keys = {k1, k2}
    PrewarmKey = prewarm
    Handles = {h1, h2}
    Configs <- MCConfigs
    InitConfig <- MCInitConfig
    MaxEngines = 1
    None = none
INVARIANTS
    OneMissOneHandle
    WaitersAreSignalled
PROPERTIES
    ImplementsLease
    ForScopeReturns
    DisposeReturns

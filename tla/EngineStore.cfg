\* The engine table under every order of reconfigurations, with LRU
\* eviction, a prewarm and a shutdown.
SPECIFICATION Spec
CONSTANTS
    Requests = {r1}
    Prewarmers = {w1}
    Keys = {k1, k2, k3}
    PrewarmKey = prewarm
    Handles = {h1, h2, h3}
    Configs <- MCConfigs
    InitConfig <- MCInitConfig
    MaxEngines = 2
    None = none
SYMMETRY MCSymmetry
INVARIANTS
    TypeOK
    TableExact
    CurrentSettings
    DisposeJoins
PROPERTY NoAddWhileWaiting

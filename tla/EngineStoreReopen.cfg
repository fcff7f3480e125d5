\* A scope's file is opened while another handle has it open.
SPECIFICATION Spec
CONSTANTS
    Requests = {r1, r2}
    Prewarmers = {}
    Keys = {k1}
    PrewarmKey = prewarm
    Handles = {h1, h2}
    Configs <- MCConfigs
    InitConfig <- MCInitConfig
    MaxEngines = 1
    None = none
INVARIANT OneHandlePerFile

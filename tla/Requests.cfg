\* Two requests of a scope, a gate, evictions, a drain and a shutdown.
SPECIFICATION Spec
CONSTANTS
    text1 = text1
    text2 = text2
    Texts = {text1, text2}
    Threads = {t1, t2}
    Handles = {h1, h2}
    Blocks = {b1, b2}
    Inputs <- MCInputs
    MaxBlocks = 1
    MaxSeen = 2
    None = none
SYMMETRY MCSymmetry
INVARIANTS
    TypeOK
    ClaimBacked
    StoredOnce
    BlocksInOnePlace

\* Two turns at a time, of two tenants, with and without a named session.
SPECIFICATION Spec
CONSTANTS
    k1 = k1
    k2 = k2
    chat = chat
    Turns = {t1, t2}
    ApiKeys = {k1, k2}
    Names = {chat}
    RespIds = {r1, r2}
    Modes = {"session", "global"}
    Identities <- MCIdentities
    MaxChain = 1
    MaxScopes = 1
    None = none
SYMMETRY MCSymmetry
INVARIANTS
    TypeOK
    TenantsApart
    OneMemoryPerTurn
    ChainContinues

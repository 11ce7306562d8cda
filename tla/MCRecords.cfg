SPECIFICATION RecordsSpec
CONSTANTS
    Clients = {c1, c2}
    Events = {e1, e2}
    k1 = k1
    k2 = k2
    r1 = r1
    Keys = {k1, k2}
    Recovery = {r1}
    NoKey = NoKey
    NoBatch = NoBatch
    NoJob = NoJob
    Nobody = Nobody
    Configs <- MCConfigs
    FirstConfig <- MCFirst
    MaxLog = 1
    MaxRequests = 2
    MaxRotations = 1
    MaxRestores = 1
    Purposes = {"execution", "review", "audit"}
    Delivery = {"execution", "review"}
    Ids = {i}
    k = k
    l = l
    PublicKeys = {k, l}
    Nil = Nil
    Commands = {c, d}
    Verifiers = {v}
    Binding <- MCBinding
    LastDay = 1
    Attempts = {a1, a2, a3}
    Parts = {"receipt", "heads"}
    Readers = {r}
    None = None
    LastStart = 1
INVARIANTS
    ConfirmedIsWitnessed
    TrustHolds
    EvidenceServed
PROPERTIES
    NeverBack
SYMMETRY Symmetric
CHECK_DEADLOCK FALSE

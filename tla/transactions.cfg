CONSTANTS
    MaxAttempts = 4
    MaxGeneration = 2
    Users = {u1}
    Devices = {d1, d2, d3}
    Regions = {r1}
    Gateways = {g1, g2}
    Slots = {s1, s2, s3}
    IdemKeys = {k1, k2}
    d1 = d1
    k1 = k1
    k2 = k2
    KeysOf <- MCKeysOf
    NoUser = NoUser
    Drainable = {}
    Closable = {}
    GatewayRegion <- MCGatewayRegion
    Capacity <- MCCapacity
    Pool4 <- MCPool4
    Pool6 <- MCPool6
    Handlers = {t1, t2}
SPECIFICATION Spec
SYMMETRY Symmetry
INVARIANTS
    TransactionsTypeOK
    CapacityRespected
    LeaseFollowsAssignment
PROPERTY LedgerSpec

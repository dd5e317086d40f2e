CONSTANTS
    MaxAttempts = 3
    MaxGeneration = 2
    g1 = g1
    g2 = g2
    g3 = g3
    r1 = r1
    r2 = r2
    Users = {u1}
    Devices = {d1, d2, d3}
    Regions = {r1, r2}
    Gateways = {g1, g2, g3}
    Slots = {s1, s2, s3}
    IdemKeys = {k1, k2}
    NoUser = NoUser
    Drainable = {g2}
    Closable = {r1}
    GatewayRegion <- MCGatewayRegion
    Capacity <- MCCapacity
    Pool4 <- MCPool4
    Pool6 <- MCPool6
SPECIFICATION StoreSpec
SYMMETRY Symmetry
INVARIANT RevocationMarksAssignment

CONSTANTS
    MaxAttempts = 3
    MaxGeneration = 3
    Users = {u1}
    Devices = {1, 2}
    Regions = {r1}
    Gateways = {g1}
    Slots = {s1, s2}
    IdemKeys = {k1}
    NoUser = NoUser
    NoGateway = NoGateway
    Drainable = {}
    Closable = {}
    GatewayRegion <- MCGatewayRegion
    Capacity <- MCCapacity
    Pool4 <- MCPool4
    Pool6 <- MCPool6
    Reconciler = Reconciler
    Publisher = Publisher
    Writers = {Reconciler, Publisher}
    MaxDeliveries = 2
    MaxPeers = 2
    Faults = {"claim_lost"}
    MaxFaults = 2
SPECIFICATION Spec
SYMMETRY Symmetry
INVARIANTS
    SnapshotsAreValid
    GenerationsFollowContents
    InterfaceFollowsSnapshots
    OnlyFaultsStrand

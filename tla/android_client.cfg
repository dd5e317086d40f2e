CONSTANTS
    Tasks = {t1, t2}
    Keys = {k1, k2}
    NoKey = NoKey
    MaxCommands = 2
SPECIFICATION Spec
SYMMETRY Symmetry
INVARIANTS
    ClientTypeOK
    OneDevicePerInstallation
    ConnectMeansRegistered
    TunnelShownAsItIs
    SignedOutStaysOut

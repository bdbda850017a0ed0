\* The health checker while entries and backends come and go.
CONSTANTS
    Names = {"a"}
    ReservedName = "control"
    RelayTargets = {"tcp", "bad"}
    UserTargets = {"a.sock"}
    Unparsable = {"bad"}
    SocketPath <- MCSocketPath
    NoTarget = NoTarget
SPECIFICATION Spec
INVARIANTS
    HealthTypeOK
    ListAgreesWithRouting
PROPERTIES
    StatusRight
    StatusSettles
    StatusForgotten
    CheckerReturns

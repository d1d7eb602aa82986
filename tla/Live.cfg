SPECIFICATION LiveFairSpec
CONSTANTS
    Layouts = {l1, l2}
    Sockets = {s1, s2, s3}
    MaxRetries = 3
    MaxGatewayOutages = 2
    NoSocket = NoSocket
INVARIANTS
    OneWayBack
    ConnectedIsTrue
PROPERTIES
    ConnectedInTheEnd
CHECK_DEADLOCK FALSE

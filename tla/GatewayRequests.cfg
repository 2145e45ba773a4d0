SPECIFICATION GatewaySpec
CONSTANTS
    q1 = q1
    q2 = q2
    Request <- TwoRequests
    Nobody = Nobody
    max_requests = 2
    window_seconds = 3
    MaxFailures = 2
INVARIANTS
    TypeOK
    GrantedPerLife
    GrantedPerWindow
    Attributed
PROPERTY
    WindowCloses

SPECIFICATION Spec
CONSTANTS
    r1 = r1
    r2 = r2
    s1 = s1
    s2 = s2
    k1 = k1
    k2 = k2
    a1 = a1
    a2 = a2
    client = client
    None = None
    NoOne = NoOne
    Relays = {r1, r2}
    Sockets = {s1}
    InitialAttempts = 3
    Connections = {}
    AuthRequests = {}
    RelayClients = {}
CHECK_DEADLOCK FALSE
PROPERTIES
    LinkSettles

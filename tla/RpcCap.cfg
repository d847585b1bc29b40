SPECIFICATION RpcSpec
CONSTANTS
    Clients = {g1, g2}
    MaxIds = 2
    MaxAsked = 1
    Room = 1
PROPERTY RoundTripsAreCapped
\* All calls made and the client closed, nothing is left to do.
CHECK_DEADLOCK FALSE

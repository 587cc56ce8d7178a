SPECIFICATION FairFsSpec
CONSTANTS
    SECTOR = 2
    NHandles = 2
    Archives <- MCArchives
    Paths <- MCPaths
    Clients <- MCClients
    Careless <- MCNobody
    Rooms = {1, 3, 4, 6}
INVARIANTS
    HandlesHeld
    ListExact
PROPERTIES
    OpenFinds
    ReadExact
    RequestsEnd

SPECIFICATION FairSystemSpec
CONSTANTS
    N = 10
    Message <- MCMessage
    NoMsg = NoMsg
    IrqBound = 1
    CapMax = 16
    PortSpace = 65536
    Kills <- MCKills
    FaultMsg <- MCFaultMsg
    IrqLines <- MCIrqLines
    Uses <- MCUses
    Grants <- MCGrants
    IoGrants <- MCIoGrants
    Commands = {"show"}
    Asked = {"hello"}
    Keyed <- MCNobody
    TypeAhead = 1
    Preemptions = 0
PROPERTIES
    SecondSession

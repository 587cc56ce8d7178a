SPECIFICATION MSpec
CONSTANTS
    TotalFrames = 16
    ReservedFrames = 5
    Regions <- MCRegions
    Entries = 2
    Pml4 = 2
    Pdpt = 3
    Pd = 4
    Rootfs <- MCRootfs
    MapPages <- MCMapPages
    DeviceMaps <- MCDeviceMaps
    Unmaps <- MCUnmaps
INVARIANTS CountExact ReservedKept TablesPrivate PagesPrivate TlbCoherent
PROPERTY ImplementsAddressSpace
CHECK_DEADLOCK FALSE

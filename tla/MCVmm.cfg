CONSTANTS
    f1 = f1
    f2 = f2
    f3 = f3
    f4 = f4
    f5 = f5
    Frames <- MCFrames
    NPages = 5
    Values = {0, 1}
    NoFrame = NoFrame
    Untouched = Untouched
    SelfTests <- KernelTests
    FreeAreas <- MCFreeAreas
    FreeAddrs <- MCFreeAddrs
    FreeFrames = 3
    MapPages = {0, 1}
    MaxHeld = 2
    MaxFaults = 6
SYMMETRY FrameSymmetry
SPECIFICATION Spec
CHECK_DEADLOCK FALSE
INVARIANTS
    FindVmaIsSearch
    RefsAreMappings
    QueueIsResident
    SwapInOnlyOfSlot
    TlbCoherent
    SelfTestsPass
PROPERTY
    FlatSpec

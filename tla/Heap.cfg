\* A heap of 14 words of 2 bytes.
SPECIFICATION Spec
CONSTANTS
    Align = 2
    HeapSize = 28
    SizeMax = 255
    MaxColors = 3
    Requests = {0, 1, 4, 9, 22, 24}
INVARIANTS
    BlocksTile
    FreeListExact
    RequestFits
    TagsFollowOwnership
PROPERTIES
    BestFit
    ImplementsAllocator

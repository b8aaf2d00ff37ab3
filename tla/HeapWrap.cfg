\* Requests whose size with the header exceeds size_t: 252 wraps to nothing,
\* 255 to three bytes, rounded up to a block that is all header.
SPECIFICATION Spec
CONSTANTS
    Align = 2
    HeapSize = 28
    SizeMax = 255
    MaxColors = 3
    Requests = {0, 1, 4, 252, 255}
INVARIANT RequestFits

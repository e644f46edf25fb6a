\* More identifiers than the window holds.
CONSTANTS
    MaxId = 5
    PageSize = 3
    Window = 3
    MaxSeenIds = 5
    MaxRequired = 2
SPECIFICATION Spec
INVARIANTS
    HandledOnce
    ListIsLoadable
    RequiredKept

CONSTANTS
    Readers = {g1, g2}
    Nobody = Nobody
    Layouts <- MCLayouts
    Requests <- MCRequests
    PAGE_SIZE = 2
    Together = FALSE
SPECIFICATION Spec
INVARIANTS TypeOK RunMemoryAgrees PointerIsMine
PROPERTY ReadAtReturns

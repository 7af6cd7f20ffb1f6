CONSTANTS
    Layouts <- MCLayouts
    BUFSIZE = 2
    HELD = 3
SPECIFICATION AcquireSpec
INVARIANTS OutputTypeOK PositionIsAddress LossIsHeld ExtractIsComplete
PROPERTIES ProducesRawImage
CHECK_DEADLOCK FALSE

CONSTANTS
    Layouts <- MCLayouts
    MAXIMUM_BULK_READ = 3
SPECIFICATION Spec
CHECK_DEADLOCK FALSE
INVARIANTS TypeOK NoPageMisplaced LossIsBounded
PROPERTY EndsCompleteOrFailed

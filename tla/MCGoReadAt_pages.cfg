CONSTANTS
    Readers = {g1}
    Nobody = Nobody
    Layouts <- OneHidden
    Requests <- Whole
    PAGE_SIZE = 2
    Together = TRUE
SPECIFICATION Spec
INVARIANT ReadAtIsImage

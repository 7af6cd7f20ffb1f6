CONSTANTS
    Runs = {r1, r2}
    Outsider = Outsider
    Nobody = Nobody
SPECIFICATION Spec
INVARIANT ImagedThroughPte
CHECK_DEADLOCK FALSE

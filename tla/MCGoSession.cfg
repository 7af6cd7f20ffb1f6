CONSTANTS
    Runs = {r1, r2}
    Outsider = Outsider
    Nobody = Nobody
SPECIFICATION Spec
INVARIANTS TypeOK CleanExit KillsHeal
PROPERTY CommandsEnd
CHECK_DEADLOCK FALSE

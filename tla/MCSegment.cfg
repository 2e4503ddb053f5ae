SPECIFICATION Spec
CONSTANTS
    Runs = {r1, r2}
    Builds = {b1, b2}
    MaxMonth = 2
    MaxRows = 2
    MaxStarts = 2
    MaxFaults = 1
SYMMETRY Symmetry
INVARIANTS
    TypeOK
    ArchiveIsWhole
    ExitZeroPublishes
    ClosedMonthIsReproducible
    TmpNeedsAKill

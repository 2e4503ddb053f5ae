SPECIFICATION Spec
CONSTANTS
    PRs = {p1, p2}
    Window = 2
    MaxTime = 2
    MaxHeads = 3
    MaxBelow = 1
    MaxMain = 4
    MaxSlips = 1
SYMMETRY Symmetry
CHECK_DEADLOCK FALSE
INVARIANTS
    TypeOK
    PoliciesAreApart
    ReplayedTreeLands
    PolicyFilesCool
PROPERTY
    CoolingDoesNotRestart

\* Bad files, failing calls, overlapping reloads.
SPECIFICATION Spec
CONSTANTS
    Versions = {v1, v2}
    Bad = Bad
    Empty = Empty
    Partial = Partial
    First = v1
    Reloads = {r1, r2}
    MaxEdits = 4
    Fails <- CallsFail
INVARIANTS
    LossOnlyInDebounce
    ReloadsRebuild
PROPERTY
    ChangesServed
CHECK_DEADLOCK FALSE

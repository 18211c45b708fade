\* Two provisionings of one installation, overlapping or one after the other.
SPECIFICATION Spec
CONSTANTS
    Plans <- EveryPlan
    Runs = {r1, r2}
    MaxRows = 4
    MaxOld = 2
    MaxLabel = 1
    Null = Null
SYMMETRY RunSymmetry
CHECK_DEADLOCK FALSE
INVARIANTS
    TypeOK
    NoDuplicates
    ResolvesBest
    CleanRunConverges

SPECIFICATION Spec
SYMMETRY Symmetry
CONSTANTS
    Names = {x}
    NoName = NoName
    MaxCells = 4
    MaxRestarts = 1
INVARIANT ExternalEnabled

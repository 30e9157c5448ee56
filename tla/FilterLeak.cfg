SPECIFICATION Spec
SYMMETRY Symmetry
CONSTANTS
    Names = {x}
    NoName = NoName
    MaxCells = 2
    MaxRestarts = 0
INVARIANT FilterOfThisCell

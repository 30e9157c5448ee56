\* Four cells, two names of variables, one restart between any two cells.
SPECIFICATION Spec
SYMMETRY Symmetry
CONSTANTS
    Names = {x, y}
    NoName = NoName
    MaxCells = 4
    MaxRestarts = 1
INVARIANTS TypeOK UniqueNames CountsInOrder ValuesAreCurrent StateSharing FilterOnce ExternalSubsequent

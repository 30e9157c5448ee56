\* Series and options of a chart, two together at most; floats lose their
\* halves at 8 and their odd numbers at 16; 2^20 bytes stand for 2^32.
SPECIFICATION Spec
CONSTANTS
    Exact = 16
    Wrap = 1048576
    MaxParts = 2
    Inputs <- MCInputs
    Colours <- MCColours
    Options <- MCOptions
INVARIANTS TypeOK InsideAxes LastWins SidesAgree PictureWhole ColoursReadBack ShownAsAsked
CHECK_DEADLOCK FALSE

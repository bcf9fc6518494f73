SPECIFICATION Spec
CONSTANTS
    Sockets = {s1, s2}
    Entities = {e1}
    Positions <- MCPositions
    Areas <- MCAreas
    Tokens <- MCTokens
    MaxAsked = 2
SYMMETRY Symmetry
INVARIANTS
    PictureTrueInside
PROPERTIES
    OnlyWhatIsAskedFor

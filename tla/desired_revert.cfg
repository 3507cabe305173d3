SPECIFICATION DesiredSpec
CONSTANTS
    Generations = {1, 2}
    None = None
    SourceMoves <- Back
PROPERTIES
    Converges

\* Two reads in parallel, two edits to new texts, crashes at any point.
SPECIFICATION Spec
CONSTANTS
    Contents <- MCContents
    Initial <- MCInitial
    Inputs <- MCInputs
    MaxLines = 3
    Calls = {c1, c2}
    MinChange = 3
    MaxOutput = 1
    Reverts = FALSE
    MaxEdits = 2
    NoFile = NoFile
    None = None
SYMMETRY Symmetry
INVARIANTS
    SegmentsExact
    
    
PROPERTY
    OnlyMissingRead

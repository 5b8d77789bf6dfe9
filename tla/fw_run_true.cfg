\* A module that answers in time and a bus that loses nothing.
SPECIFICATION Spec
CONSTANTS
    ImageSize = 4
    StartSize = 1
    BlockSize = 2
    MaxResets = 0
    Slow      = FALSE
    Lossy     = FALSE
INVARIANTS RunTrueMeansRan

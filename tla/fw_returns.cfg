\* Two blocks; a module that may be slow and a bus that loses writes.
SPECIFICATION FairSpec
CONSTANTS
    ImageSize = 4
    StartSize = 1
    BlockSize = 2
    MaxResets = 0
    Slow      = TRUE
    Lossy     = TRUE
PROPERTIES CallsReturn

\* Three blocks, the last one partial; one reset; a module that may be slow.
SPECIFICATION Spec
CONSTANTS
    ImageSize = 6
    StartSize = 1
    BlockSize = 2
    MaxResets = 1
    Slow      = TRUE
    Lossy     = FALSE
INVARIANTS TypeOK BlocksCoverImage DownloadTrueMeansComplete
PROPERTIES NeverRunsInvalidImage UpgradeTrueMeansNewImageRunning

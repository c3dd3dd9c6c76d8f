\* Two tables of two entries, one reserved frame, three frames to give out
\* and one that the word-wise scan never reaches.
SPECIFICATION FramesSpec
CONSTANTS
    NFrames = 5
    WordBits = 2
    Reserved = 1
    PerTable = 2
    MaxTables = 2
INVARIANTS
    HeldOnce
    BitmapExact

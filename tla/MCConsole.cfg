\* Every call on a small screen, the handlers that print, a line editor.
SPECIFICATION ConSpec
CONSTANTS
    W = 2
    H = 2
    Modulus = 8
    Printable <- Letters
    Keyboard <- UserKeys
    LineSizes <- Sizes
    StatusCol = 1
    StatusLen = 2
    Byte = 2
    EchoKeys <- Echoed
INVARIANTS
    StoresContained
    EditorSound
PROPERTY
    CursorFollows

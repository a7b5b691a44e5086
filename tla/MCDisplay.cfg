SPECIFICATION DisplaySpec
CONSTANTS
    Width = 4
    Height = 3
    Places <- MCPlaces
    Sizes <- MCSizes
    WIDTH = 4
    HEIGHT = 2
    TAB = 2
    Chars = {1}
    MaxLines = 4
    N = 2
    Top = 2
    WinHeight <- MCHeight
    HEADER = 1
    Screen = {0, 1, 2, 5}
    MaxInput = 4
CHECK_DEADLOCK FALSE
INVARIANTS
    DrawsVisible
    ShowsTail
    WindowsKept
    DragFollows
PROPERTY
    Settles

\* Two bitmaps, a control of every kind, two fillers, three layers; two voice
\* messages; the bounds of the other parts are in the module.
SPECIFICATION ScreensSpec
CONSTANTS
    i1 = i1
    i2 = i2
    button = button
    animation = animation
    cursor = cursor
    filler1 = filler1
    filler2 = filler2
    Item <- Items
    Button <- Buttons
    Animation <- Animations
    WaitCursor <- WaitCursors
    Filler <- Fillers
    NoItem = NoItem
    MaxLayers = 3
    ScreenSize <- ScreenSizes
    Saved <- SavedWidths
    StartIndex <- StartIndices
    MaxPays = 2
    MaxMessages = 2
    Region <- Regions
    RectSlots = 1
    MaxWindows = 3
    MaxTransforms = 2
INVARIANTS
    LayerAlive
    Counted
    AppletKept
    MediaTakesTurns
    MuiWindowsKept
    GameObjectsKept
    DrawnRight
    ControlsAnswer
\* An application is closed at last.
CHECK_DEADLOCK FALSE

\* Two windows and two dialogs over them; every dialog's button gets the address
\* of the one before, so that dangling pointers meet new controls.
SPECIFICATION Spec
CONSTANTS
    w1 = w1
    w2 = w2
    Window <- Windows
    NoWindow = NoWindow
    MaxCalls = 2
    MaxAddr = 1
INVARIANTS
    HandlersOwned
    TimeoutOfItsDialog
    RepaintNotLost
    OneAnswerPerPress
SYMMETRY Symmetry

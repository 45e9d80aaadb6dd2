\* One window and a dialog.
SPECIFICATION Spec
CONSTANTS
    w1 = w1
    w2 = w2
    Window = {w1}
    NoWindow = NoWindow
    MaxCalls = 1
    MaxAddr = 1
INVARIANTS
    ModalBlocks

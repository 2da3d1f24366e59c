SPECIFICATION MCSpec
CONSTANTS
    o1 = o1
    o2 = o2
    root = root
    inner = inner
    null = null
    Components = {"x"}
    Objects = {o1, o2}
    None = none
    DragAble = {o1, o2}
    At <- MCNothing
    Pointer = {0, 1}
    Buttons = {"Left", "Middle", "Right"}
    Modifiers = {"Shift", "Control"}
    Toggles = FALSE
    HitLimits = {0, 512}
    MaxSelected = 0
INVARIANTS ModeFits SelectedExact SceneExact

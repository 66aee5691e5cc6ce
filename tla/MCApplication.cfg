\* Two sizes to come back to, two addresses for the textures of a swapchain, two
\* resizes in one poll; a control key and two keys of one code, of which the window
\* library filters one (the window closes by its own event, no button is on the desk);
\* a frame that takes a step and keeps time, and one that takes more than the loop does.
SPECIFICATION Run
CONSTANTS
    Renderers <- AllRenderers
    Layout <- Targets
    Sizes = {1, 2}
    Addresses = {a1, a2}
    MaxResizes = 2
    KeyboardKeys <- DeskKeys
    Buttons = {}
    Unnamed <- UnnamedKeys
    Code <- Conversion
    Modifiers = {"LeftControl"}
    Escape = "Escape"
    UpdateTimestep = 2
    MaxUpdatesPerFrame = 5
    DeltaTimes = {3, 14}
INVARIANTS
    AllTypesOK
    SizesAgree
    HeldIsCached
    SweptCacheIsHeld
    StaleOnlyIfReturned
    HeldIsDown
    GuiKeysAreDown
    PressedIsLast
PROPERTY
    KeepsPace
SYMMETRY AddressSymmetry

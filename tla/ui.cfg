CONSTANTS
    HistoryLimit = 5
    Viewport = 2
    FollowDistance = 1
    ScrollStep = 1
    EventCap = 64
    Chars = {"a", "r", "f", "x", "z", "c"}
    NoChar = NoChar
    MaxMessageBytes = 2
    CommandCap = 1
    EventsPerTick = 3
    Scenes <- MCScenes
SPECIFICATION Spec
CHECK_DEADLOCK FALSE
INVARIANTS
    EditorAgrees
    RowsShown
    FailureAnnounced
    ModalHoldsKeys
PROPERTIES
    ReaderKeepsPlace

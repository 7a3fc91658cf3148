SPECIFICATION Spec
CONSTANTS
    Words = {"cd", "quit", "x", "|", ">"}
    MaxWords = 5
    Near = {"home"}
    Deep = {"deep"}
INVARIANTS
    DroppedByCount
    AsTyped
    KilledBy
    RepeatsFirstWord
    PromptTrue

SPECIFICATION Spec
CONSTANTS
    Word = 4
    Half = 2
    Hashes <- Hashings
    History <- Histories
    Typed <- Names
INVARIANTS
    ScrambleUndone
    NamesItself
    ReportsTheDifferent

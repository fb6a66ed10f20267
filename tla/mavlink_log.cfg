SPECIFICATION Spec
CONSTANTS
    Msg <- Messages
    First <- FirstPieces
    Final <- FinalPieces
    Length = 12
    Claim <- Claims
    Bad = {4, 5}
    MaxChunk = 5
INVARIANTS
    TypeOK
    NoMessageMissed
    LoggedInOrder
    PromptOnCleanLine

SPECIFICATION Spec
CONSTANTS
    Cases = {"k1", "k2"}
    Requests <- MCRequests
    Items <- MCItems
    New <- MCNew
    Accepts <- MCAccepts
    Result <- MCResult
    Valid <- MCValid
    NoRow = NoRow
    NoEntry = NoEntry
    NoResponse = NoResponse
    MaxEvents = 5
    MaxRevision = 3
    Remembered = {"ok", "replayed"}
INVARIANT AnswerIsForTheRequestedCase

SPECIFICATION FairServerSpec
CONSTANTS
    Cases = {"k1"}
    Requests <- MCRequests
    Items <- MCItems
    New <- MCNew
    Accepts <- MCAccepts
    Result <- MCResult
    Valid <- MCValid
    NoRow = NoRow
    NoEntry = NoEntry
    NoResponse = NoResponse
    MaxEvents = 5
    MaxRevision = 3
    Remembered = {}
    Clients = {"c1", "c2"}
    Queries = 2
    Budget = 16
    MaxTrouble = 2
    Nobody = Nobody
    Boot = Boot
    NoJob = NoJob
    ReadOnly = ReadOnly
INVARIANTS
    RuntimeTypeOK
    ServesOpenedStore
    NoConnectionLeak
    GracefulShutdown
PROPERTIES
    RefinesStore
    ComesUp
    RequestsSettle

SPECIFICATION Spec
CONSTANTS
    Upper <- MCUpper
    Word <- MCWord
    Text <- MCText
    Uris <- MCUris
    Workers = {1, 2}
    NoWorker = NoWorker
    NoTagger = NoTagger
    Ends <- MCEnds
    ParseMayFail = TRUE
    Confs <- MCConfs
    SuggestFiles <- MCSuggestFiles
    Documents <- MCDocuments
    MaxSuggestCnt = 3
    RootStatus = 1
    Queries <- MCQueries
    Pages <- MCPages
INVARIANTS
    TypeOK
    ConfAsWritten
    TaggerIsOwners
    ReplyIsOfItsRequest
    PageAsAsked
    SuggestionsMatch
PROPERTIES
    TaggerIsReleased
    DictionariesReadOnly

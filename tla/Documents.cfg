SPECIFICATION FairSpec
CONSTANTS
    Phrases <- MCPhrases
    FileNames = {"pear.png"}
    Markup = {"<b>"}
    Figures = {"0"}
    Assets = {"a1", "a2", "a3"}
    UploadKeys = {"u1"}
    Worded <- MCWorded
    Lineart <- Same
    Plain <- Same
    MatchInstruction <- MCInstruction
    RightText <- MCRightText
    Indices <- MCIndices
    SlotNames <- MCSlotNames
    Clients <- MCClients
    MaxBrowsers = 2
    Requests = {"w1", "w2"}
    Template <- MCTemplate
    Stored <- MCStored
    Replies <- MCReplies
    Answers <- MCAnswers
    Library = {"a1", "a2"}
    Forbidden = {"poison"}
    DeckRequests = {"d1", "d2"}
    FirstDeck <- MCFirstDeck
    DeckTemplates = {"t1", "t2"}
    LibraryAssets = {"a1", "a2"}
    Contents = {"names", "none"}
    ForbiddenTexts = {"poison"}
    Editable <- MCEditable
    NPages = 2
    Concurrency = 2
    ByRequest = TRUE
    Scenarios <- MCScenarios
INVARIANTS TypeOK StoredIsSound FilesStandBehindAnswers FilesAreGroupedByRequest OneBrowser
PROPERTIES WritesOnlyWhatWasAsked EverythingSettles
CHECK_DEADLOCK FALSE

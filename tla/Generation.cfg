SPECIFICATION Spec
CONSTANTS
    LabelKey <- MCLabelKey
    DifficultyKey <- MCDifficultyKey
    ObjectiveKey <- MCObjectiveKey
    Related <- MCRelated
    Generic = {"name"}
    Catalog <- MCCatalog
    Selections = {"s1", "s2"}
    Uploaders = {"u1"}
    Initial = {"own", "riddle", "older", "spare"}
    RuleRows <- MCRules
    SyntheticId <- MCSynthetic
    Withdrawn = {"own"}
    Threshold = 1
    Orders = {"g1", "g2"}
    Library <- MCLibrary
    Released = {"w1", "w2", "w3"}
    Inside <- MCInside
    Stems <- Stem
    GradeBand <- MCGradeBand
    TopN = 2
    Margin = 6
    Intents <- MCIntents
    Retired = {"w1"}
    SheetThreshold = 1
    Phrases <- MCPhrases
    FileNames = {"pear.png"}
    Markup = {"<b>"}
    Figures = {"0"}
    Assets = {"a1", "a2", "a3"}
    UploadKeys = {"k1"}
    Worded <- MCWorded
    Lineart <- MCPhraseSame
    Plain <- MCPhraseSame
    MatchInstruction <- MCInstruction
    RightText <- MCRightText
    Indices <- MCIndices
    SlotNames <- MCSlotNames
    Payloads <- MCPayloads
    Found = {"a1"}
    DefaultCount = 1
    MaxCount = 2
    SearchAttempts = 2
    Authors = {"t1", "t2"}
    Known = {"blue", "green"}
    Scenarios <- MCScenarios
INVARIANTS ChoiceStands CallsAccounted AnswerIsUsable StreamTellsTheTruth TemplatesAreCreatedWhole
CHECK_DEADLOCK FALSE

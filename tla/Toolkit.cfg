SPECIFICATION Spec
CONSTANTS
    Compute <- MCCompute
    Programs <- MCPrograms
    WordMax = 999
    MaxLexical = 6
    ValueSamples <- MCValueSamples
    Documents <- MCDocuments
    Readers = {r1, r2}
    Libraries <- MCLibraries
    TypePrograms <- MCTypePrograms
    AutoMax = 3
    FeaturePrograms <- MCFeaturePrograms
    LeafrefPrograms <- MCLeafrefPrograms
    MaxRune = 5
    Dash = 1
    RepeatMax = 3
    PatternPrograms <- MCPatternPrograms
    Dates <- MCDates
    FacadePrograms <- MCFacadePrograms
    MaxFacadeCalls = 4
    Qualified <- MCQualified
    AstPrograms <- MCAstPrograms
    XPathTexts <- MCXPathTexts
    XPathPrograms <- MCXPathPrograms
    Numerals <- MCNumerals
    ComputeView <- MCComputeView
    Views <- MCViewSchemas
    MaxRecords = 120
    Selections <- MCSelections
    Comparisons <- MCComparisons
    ComputeXml <- MCComputeXml
    CanonicalPath <- MCCanonicalPath
    XmlQuestions <- MCXmlQuestions
    MaxXMLNestingDepth = 4
    Entries = {1, 2, 3, 4, 5, 6, 7, 8, 9, 10, 11, 12, 13, 14, 15, 16, 17, 18, 19, 20, 21, 22, 23, 24, 25, 26, 27, 28, 29, 30, 31, 32, 33, 34, 35, 36, 37, 38, 39, 40}
    NilEntry = 0
    EntryPrograms <- MCEntryPrograms
    MaxEntryCalls = 3
INVARIANTS
    AugmentsPlaced
    BudgetExact
    AcceptedSchemaSound
    ValuesExact
    TreesExact
    ValidateExact
    ForestExact
    HandlesCurrent
    LeafTypesExact
    ReferencesExact
    PatternExact
    FacadeConsistent
    AstExact
    XPathExact
    ViewsExact
    EncodingsAgree
    EntriesSynced
    ChoicesSettled
    EntriesSettled
PROPERTY RebuildEnds
CHECK_DEADLOCK FALSE

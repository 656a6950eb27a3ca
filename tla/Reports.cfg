CONSTANTS
    Passes = {p1, p2}
    Kind <- PostKinds
    Owner <- PostOwners
    Dates = {"d1"}
    MaxManifests = 2
    Batch = 2
    RawDays = 1
    ReportDays = 2
    MaxTime = 2
    Posts = {1}
    Sources = {1}
    Expected = {1, 3}
    SourceOf <- OnePost
    PublishedAt <- PostHour
    Slots = {}
    Decisions = {}
    Phrases = {1}
    Topics = {}
    RuleCategory <- RuleCategories
    TopicCategory <- TopicCategories
    DefaultCategory = 7
    Uncategorized = 9
    HighlightLimit = 1
    RisingLimit = 1
    RisingMin = 1
    CoverNumerator = 85
    CoverDenominator = 100
    ReportDate = 2
    MaxVersion = 1
    Setbacks = {}
    Observations <- HalfKnown
    MaxRules = 1
SPECIFICATION ReportsSpec
SYMMETRY PassSymmetry
CHECK_DEADLOCK FALSE
INVARIANTS
    ProvenanceKept
    ReportSound
    OnlyWholeReproduces
PROPERTIES
    NothingEarly
    OutsideIgnored

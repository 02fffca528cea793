SPECIFICATION Spec
CONSTANTS
    Item <- MCItem
    TypeOf <- MCType
    ParentOf <- MCParent
    TitleOf <- MCTitle
    FixedTitle <- MCFixedTitle
    RouteOf <- MCRoute
    FixedRoute <- MCFixedRoute
    SearchLabels = {"buscar"}
    ActionLabels = {}
    Blank = {"compras"}
    Alphabet <- MCAlphabet
    MaxCandidates = 3
    MaxRows = 4
    MaxCorrected = 2
    Conversations = {c1, c2}
    Requests <- MCRequests
    Described = {3, 4}
    Imported <- MCImported
    Versions = {1, 2}
    MaxEntries = 1
    MaxHits = 1
    Contested <- MCContested
    Indexed <- MCIndexed
    MaxTurns = 2
    MaxReviews = 1
SYMMETRY Symmetry
INVARIANTS
    TypeOK
    AnswersAreGoverned
    ContextIsEarned
    AmbiguityIsAsked
    ContextIsKept

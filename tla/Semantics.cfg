\* One screen over three versions: proposals, reviews, inheritance and answers.
SPECIFICATION Spec
CONSTANTS
    Item <- MCItem
    KindOf <- MCKindOf
    Screen = 2
    Corrected <- MCCorrected
    Limit <- MCLimit
    Unlabelled = {"unlabeled control"}
    Shell = {"expand menu"}
    Unsafe = "unsafe"
    None = 0
    Contents <- MCContents
    FirstContent <- MCBase
    FirstDraft <- MCFirstDraft
    Drafts <- MCDrafts
    Models = {model1, model2}
    Reviewers = {r1, r2}
    Contested = {3, 5}
    MaxVersions = 3
    MaxProposals = 3
    MaxInferences = 2
    MaxSyncs = 1
    MaxReviews = 2
    MaxChanges = 1
SYMMETRY Symmetry
INVARIANTS
    TypeOK
    AnswersUseReviewedWords
    AnswersAreSupported
PROPERTIES
    ProposalsEnterOnce
    SyncLeavesTheUsableOnly
CHECK_DEADLOCK FALSE

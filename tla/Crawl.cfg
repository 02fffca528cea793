CONSTANTS
    RouteOf <- Pages
    Applications <- MCApplications
    Home = "/"
    Login = "login"
    Allowed <- MCAllowed
    Unavailable = {"u"}
    Broken = {"/x"}
    Category <- MCCategory
    Writes = {"save"}
    Descendant <- MCDescendant
    HomeCategories = {"expand_menu"}
    LocalCategories = {"expand_menu", "tab"}
    MaxOpeners = 2
    MaxHomeEvents = 3
    MaxEvents = 3
    Known <- MCKnown
    EntryPath <- MCEntryPath
    Parts <- MCParts
    Hidden = {"user"}
    Pressed <- MCPressed
    Below <- MCBelow
    Target = "/a"
    MaxDepth = 2
    MaxPages = 4
    MaxEventDepth = 2
    MaxFaults = 2
SPECIFICATION Spec
CHECK_DEADLOCK FALSE
INVARIANT TypeOK
INVARIANT NoProblemWithoutCause
INVARIANT FlowIsReal
INVARIANT ModuleStaysInside
INVARIANT CertifiedIsComplete
INVARIANT BuildKeepsTheCrawl
PROPERTY Terminates

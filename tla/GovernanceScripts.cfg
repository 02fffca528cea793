SPECIFICATION Spec
CONSTANTS
    v1 = v1
    v2 = v2
    a1 = a1
    a2 = a2
    b2 = b2
    neo4j = neo4j
    chromadb = chromadb
    api = api
    other = other
    cli = cli
    gate = gate
    gate2 = gate2
    worker = worker
    script = script
    merger = merger
    description = description
    None = None
    Absent = Absent
    Versions <- MCVersions
    Items <- MCItems
    VersionOf <- MCVersionOf
    CarriedFrom <- MCCarriedFrom
    Targets = {neo4j}
    Graph = {neo4j}
    Reviewers = {cli, other}
    Promoters = {gate}
    Syncers = {script, merger}
    InApi = {gate}
    TargetOf <- MCNeo4jRuns
    Replacing = {script}
    Property = {description}
    Gives <- MCSourceOnly
    Unlabelled = {}
    Direct = {v1}
    MaxRevision = 2
    MaxPayload = 1
    MaxFaults = 0
    Backbone = {a1, a2}
SYMMETRY MCScriptsAlike
INVARIANTS
    LineageIsAChain
    ProjectionSound
PROPERTIES
    ReviewsAreSerial
CHECK_DEADLOCK FALSE

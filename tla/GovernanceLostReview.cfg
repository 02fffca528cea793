SPECIFICATION Spec
CONSTANTS
    v1 = v1
    v2 = v2
    a1 = a1
    a2 = a2
    b2 = b2
    neo4j = neo4j
    chromadb = chromadb
    api = api
    other = other
    cli = cli
    gate = gate
    gate2 = gate2
    worker = worker
    script = script
    merger = merger
    description = description
    None = None
    Absent = Absent
    Versions <- MCVersions
    Items <- MCItems
    VersionOf <- MCVersionOf
    CarriedFrom <- MCCarriedFrom
    Targets = {chromadb}
    Graph = {}
    Reviewers = {api, other}
    Promoters = {gate}
    Syncers = {worker}
    InApi = {api, other, gate, worker}
    TargetOf <- MCWorkerRun
    Replacing = {}
    Property = {}
    Gives = {}
    Unlabelled = {}
    Direct = {}
    MaxRevision = 2
    MaxPayload = 0
    MaxFaults = 1
    Backbone = {a1, a2}
PROPERTY
    ReviewsAreSerial
CHECK_DEADLOCK FALSE

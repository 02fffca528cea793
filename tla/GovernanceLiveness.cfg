SPECIFICATION FairSpec
CONSTANTS
    v1 = v1
    v2 = v2
    a1 = a1
    a2 = a2
    b2 = b2
    neo4j = neo4j
    chromadb = chromadb
    api = api
    other = other
    cli = cli
    gate = gate
    gate2 = gate2
    worker = worker
    script = script
    merger = merger
    description = description
    None = None
    Absent = Absent
    Versions <- MCVersions
    Items <- MCItems
    VersionOf <- MCVersionOf
    CarriedFrom <- MCCarriedFrom
    Targets = {chromadb}
    Graph = {}
    Reviewers = {api}
    Promoters = {gate}
    Syncers = {script}
    InApi = {api, gate}
    TargetOf <- MCScriptRun
    Replacing = {}
    Property = {}
    Gives = {}
    Unlabelled = {}
    Direct = {v1}
    MaxRevision = 2
    MaxPayload = 0
    MaxFaults = 0
    Backbone = {a1,a2}
PROPERTIES
    TransactionsEnd
CHECK_DEADLOCK FALSE

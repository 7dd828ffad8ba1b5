CONSTANTS
    u1 = u1
    u2 = u2
    Urls = {u1, u2}
    Executions = {e1, e2}
    MaxCommits <- MCMaxCommits
    MaxFailedPulls = 1
    NoName = ""
    Actions <- MCActions
    Mapping <- MCMapping
    Payloads <- MCPayloads
    Spare = 1
SPECIFICATION FairSpec
INVARIANTS
    ScriptSeesOneVersion
    StaleOnlyAfterFailedPull
    ForeignOnlyAfterRace
PROPERTIES
    PullsCatchUp
    ExecutionEnds

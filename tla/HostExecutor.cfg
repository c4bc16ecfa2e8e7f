SPECIFICATION FairSpec
CONSTANTS
    r1 = r1
    r2 = r2
    j1 = j1
    j2 = j2
    None = None
    Runner = {r1, r2}
    Job = {j1, j2}
    MaxScripts = 2
    WithSecret = {j1}
    Malformed <- const_Malformed
INVARIANTS
    ScriptsDoNotOverlap
    SecretsStayWithTheirJob
    ScriptsRunInOrder
PROPERTY
    AbandonedScriptEnds

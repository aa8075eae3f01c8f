CONSTANTS
    p1 = p1  p2 = p2  p3 = p3  px = px
    s1 = s1  s2 = s2  s3 = s3
    m1 = m1  m2 = m2  b = b  k1 = k1  k2 = k2
    NoMr = NoMr  NoScene = NoScene
    Pipelines <- MCPipelines
    Scenes <- MCScenes
    Jobs <- MCJobs
    Mrs = {m1, m2}
    Branches = {b}
    Keys = {k1, k2}
    PipeOf <- MCPipeOf
    MrOf <- MCMrOf
    BranchOf <- MCBranchOf
    KeyOf <- MCKeyOf
    Excluded = {px}
    Widenable = {s2}
    PromptCleanup = FALSE
    Cap = 2
    MaxRestarts = 1
SPECIFICATION FairSpec
INVARIANTS
    TypeOK
    SceneOwned
    StaleOnlyIfLate
PROPERTIES
    WorkerKeepsItsTree
    ResumeKeepsScene
    ScenesAreReclaimed
CHECK_DEADLOCK FALSE

SPECIFICATION Spec
CONSTANTS
    AgentPaths <- MCPaths
    MrFiles <- MCMrFiles
    BuildConfig <- MCBuildConfig
    Production <- MCProduction
    TestOrDoc <- MCTestOrDoc
    RetryLimit = 2
    PollLimit = 1
    AgentPushes = 1
INVARIANTS
    TypeOK
    PublishedIsGated
    RedIsNeverAnnounced
    NoticesAgree
    DecisionHasScene
    FixedRunsCloseTheirSession
PROPERTY RunSettles
CHECK_DEADLOCK FALSE

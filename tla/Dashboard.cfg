CONSTANTS
    w1 = w1  w2 = w2  c1 = c1
    Workers <- MCWorkers
    Clients <- MCClients
    Stages = {"agent-run"}
    TurnLimit = 1
    ChannelLimit = 1
    NetLimit = 2
SPECIFICATION Spec
SYMMETRY Symmetry
INVARIANTS
    TypeOK
    RegistryIsExact
    ViewFollows

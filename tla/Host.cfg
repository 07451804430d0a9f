SPECIFICATION HostSpec
CONSTANTS
    Threads = {t1, t2}
    NoThread = NoThread
    Perms = {"read", "write"}
    DefaultTtl = 2
    NoHint = NoHint
    NoKey = NoKey
    NoToken = NoToken
    Sources <- MCSources
    Inbound <- MCInbound
    Payloads <- MCPayloads
    Times = {0, 1, 2, 3, 4, 5}
    MaxClock = 1
    Configs <- MCConfigs
    NoConfig = NoConfig
    WorkerCounts = {0, 2}
    EnvThreads = 0
    MaxCalls = 4
    GoRequests <- MCGoRequests
    PyRequests <- MCPyRequests
    MaxDepth = 2
    Reports <- MCReports
SYMMETRY MCSymmetry
INVARIANTS
    ConfiguredMeansUsed
    InstalledOnceAndWhole
    IdentityReachesHook
    TokensStayInside
    PayloadReturns
    UnusablePastExpiry
    OnlyNarrows
CHECK_DEADLOCK FALSE

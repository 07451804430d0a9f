SPECIFICATION Spec
CONSTANTS
    None = None
    Bad = Bad
    Refused = Refused
    Rejected = Rejected
    NoToken = NoToken
    tUser = tUser
    tClient = tClient
    tA = tA
    tB = tB
    tNew = tNew
    Tokens <- MCTokens
    HeaderNames <- MCHeaderNames
    Lower <- MCLower
    CredentialHeaders = {"authorization"}
    Requests <- MCRequests
    Chains <- MCChains
    HostErrors = {"timeout", "worker_died"}
    Subjects = {"bob"}
    Minted = {tNew}
    Names = {"n1", "n2"}
    Bodies = {"b1", "b2", "error", "none", "loose"}
    ExtensionEdits <- MCExtensionEdits
INVARIANTS
    TokenStaysGated
    RightCredential
    NothingUnseenPasses
    RejectionIsFinal
PROPERTIES
    AuthorityKept
    ShimKeepsTheRest

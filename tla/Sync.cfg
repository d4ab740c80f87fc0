SPECIFICATION Spec
CONSTANTS
    Null = Null
    None = Null
    Calls = {c1, c2}
    AppConfigs <- MCAppConfigs
    DefaultClient = "default"
    NoEncryption = FALSE
    Waits = {w1}
    Tokens = {1}
    MaxSessions = 2
    Handles = {h1, h2}
    Scripts <- MCScripts
    MaxVersions = 4
    CoreEndpoints <- MCCoreEndpoints
    OtherEndpoints <- MCOtherEndpoints
    ProviderConfigs <- MCProviderConfigs
    MaxSockets = 1
    MaxHandlers = 3
    Scopes <- MCScopes
    MaxOps = 5
INVARIANTS TypeOK AnswersAreTrue NothingLostByFreshHandle ConnectsWhereAsked
PROPERTIES EveryCallIsAnswered
CHECK_DEADLOCK FALSE

SPECIFICATION FairSpec
CONSTANTS
    None = None
    MAX_PENDING_CONTROLS = 1
    ForeignIntent = {"foreign"}
    RefusedIntent = {"unknown"}
    RefusedPayload = {"bad"}
    Secret = "C"
    Pinned = {"Claimant"}
    MaxLoose <- MCMaxLoose
    Setting <- MCSettingLive
PROPERTIES  DeclineHeard
CHECK_DEADLOCK FALSE

SPECIFICATION Spec
CONSTANTS
    None = None
    MAX_PENDING_CONTROLS = 1
    ForeignIntent = {"foreign"}
    RefusedIntent = {"unknown"}
    RefusedPayload = {"bad"}
    Secret = "C"
    Pinned = {"Claimant"}
    MaxLoose <- MCMaxLoose
    Setting <- MCSetting
INVARIANTS ConsentFirst OneChannel DecisionAuthentic 
CHECK_DEADLOCK FALSE

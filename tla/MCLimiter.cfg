SPECIFICATION Spec
CONSTANTS
    None = None
    Operation = {"Bind", "Put"}
    Address <- MCAddress
    limit <- MCLimit
    window_seconds <- MCWindow
    entry_cap = 2
    sweep_interval = 2
    Cooldown = 2
    U64Max = 4
    Reading <- MCReading
INVARIANTS
    RecencyMirrors
    CapHolds
    WindowBudget
    CooldownHonoured

    

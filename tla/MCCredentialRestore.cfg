SPECIFICATION Spec
CONSTANTS
    None = None
    Rejected <- NoBinding
    Secret = "C"
    Setting <- MCSettingRestore
INVARIANT AlwaysRestores
CHECK_DEADLOCK FALSE

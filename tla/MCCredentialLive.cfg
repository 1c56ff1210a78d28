SPECIFICATION FairSpec
CONSTANTS
    None = None
    Rejected <- NoBinding
    Secret = "C"
    Setting <- MCSettingLive
PROPERTIES Completes PayloadSettles
CHECK_DEADLOCK FALSE

SPECIFICATION Spec
CONSTANTS
    None = None
    Rejected <- NoBinding
    Secret = "C"
    Setting <- MCSetting
INVARIANTS
     ChainsMeet ReceiptAgreed GateCoversSends
    FirstLifeRestores InspectionHolds OneKey
CHECK_DEADLOCK FALSE

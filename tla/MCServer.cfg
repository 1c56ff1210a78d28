SPECIFICATION FairSpec
CONSTANTS
    a1 = a1  c1 = c1  c2 = c2  b1 = b1
    None = None
    MailboxId = {a1}
    Nameplate = {}
    Hash = {"Allocator", "Claimant"}
    ClaimToken = {}
    Body = {b1}
    BodyLen <- MCBodyLen
    MaxBodyLen = 1
    MaxFrames = 1
    MinTtl = 1
    MaxTtl = 1
    DefaultTtl = 1
    V2Ttl = 1
    Conn = {a1, c1, c2}
    Owner <- MCOwner
    Sends <- MCSends
    Shell <- MCShell
INVARIANTS FramesAccounted EndAccounted
  
CHECK_DEADLOCK FALSE

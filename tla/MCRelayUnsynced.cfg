SPECIFICATION Spec
CONSTANTS
    i1 = i1  i2 = i2
    t1 = t1  t2 = t2  t3 = t3
    k1 = k1
    b1 = b1  b2 = b2
    c1 = c1  c2 = c2  c3 = c3
    None = None
    MailboxId = {i1, i2}
    Nameplate = {1}
    Hash = {t1, t2}
    Token = {t1, t2}
    token_hash <- MCTokenHash
    ClaimToken = {}
    Body = {b1}
    BodyLen <- MCBodyLen1
    MaxBodyLen = 1
    MaxFrames = 1
    MinTtl = 1
    MaxTtl = 1
    DefaultTtl = 1
    V2Ttl = 1
    Time <- MCTime
    Ttl <- MCTtl
    Conn = {c1}
    MailboxCap = 2
    QueueCap = 1
    Faults = {"lost", "unsynced"}
    NameRange = 2
SYMMETRY MCSymmetryIds
INVARIANTS
    IndexesMirror
    DiskNeverBehind

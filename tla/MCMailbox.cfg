SPECIFICATION Spec
CONSTANTS
    i1 = i1  i2 = i2
    h1 = h1  h2 = h2  h3 = h3
    k1 = k1
    b1 = b1  b2 = b2  bad = bad
    None = None
    MailboxId = {i1, i2}
    Nameplate = {7}
    Hash = {h1, h2, h3}
    ClaimToken = {k1}
    Body = {b1, b2, bad}
    BodyLen <- MCBodyLen
    MaxBodyLen = 2
    MaxFrames = 2
    MinTtl = 1
    MaxTtl = 2
    DefaultTtl = 1
    V2Ttl = 1
    Time <- MCTime
    Ttl <- MCTtl
SYMMETRY MCSymmetry
INVARIANTS
    TypeOK
    Consistent
    RestoreExact
PROPERTIES
    NeverUndone
    OnlyPeerAckReleases
    ImplementsPairLog

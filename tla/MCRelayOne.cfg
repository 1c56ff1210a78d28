SPECIFICATION Spec
CONSTANTS
    i1 = i1  i2 = i2
    t1 = t1  t2 = t2  t3 = t3
    k1 = k1
    b1 = b1  b2 = b2
    c1 = c1  c2 = c2  c3 = c3
    None = None
    MailboxId = {i1}
    Nameplate = {1}
    Hash = {t1, t2, t3}
    Token = {t1, t2, t3}
    token_hash <- MCTokenHash
    ClaimToken = {k1}
    Body = {b1, b2}
    BodyLen <- MCBodyLen
    MaxBodyLen = 2
    MaxFrames = 1
    MinTtl = 1
    MaxTtl = 1
    DefaultTtl = 1
    V2Ttl = 1
    Time <- MCTime
    Ttl <- MCTtl
    Conn = {c1, c2, c3}
    MailboxCap = 1
    QueueCap = 3
    Faults = {"lost"}
    NameRange = 5
SYMMETRY MCSymmetry
INVARIANTS
    FirstIsLeast
    RoutesAgree
    NothingUnoffered
    TerminalHeard

------------------------------- MODULE MCRelay -------------------------------
EXTENDS Relay

CONSTANTS i1, i2, t1, t2, t3, k1, b1, b2, c1, c2, c3

MCBodyLen == (b1 :> 1) @@ (b2 :> 2)
MCBodyLen1 == (b1 :> 1)
MCTokenHash == [t \in Token |-> t]
MCTime == 0..1
MCTtl == {None}
MCSymmetry == Permutations(Token) \cup Permutations(Conn)
MCSymmetryIds == MCSymmetry \cup Permutations(MailboxId)
=============================================================================

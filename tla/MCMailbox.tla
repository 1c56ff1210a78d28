------------------------------ MODULE MCMailbox ------------------------------
(* One mailbox, three membership hashes (so that a third claimant crowds), *)
(* two storable bodies of different length and one oversized one.          *)
EXTENDS Mailbox, TLC

CONSTANTS i1, i2, h1, h2, h3, k1, b1, b2, bad

MCBodyLen == (b1 :> 1) @@ (b2 :> 2) @@ (bad :> 3)
MCTime == 0..2
MCTtl == {None, 0, 1}
MCSymmetry == Permutations({h1, h2, h3})
=============================================================================

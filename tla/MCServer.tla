------------------------------ MODULE MCServer ------------------------------
(* Instances of Server for TLC: one connection of the allocator and two of *)
(* the claimant, the second of which only displaces the first.             *)
EXTENDS Server, TLC

CONSTANTS a1, c1, c2, b1

MCOwner == [c \in Conn |-> IF c = a1 THEN "Allocator" ELSE "Claimant"]
MCSends == [c \in Conn |-> CASE c = a1 -> {"Open", "Put"}
                             [] c = c1 -> {"Open", "Ack", "Close"}
                             [] c = c2 -> {"Open"}]
MCBodyLen == [b \in Body |-> 1]

Most(a, c, d) == (a1 :> a) @@ (c1 :> c) @@ (c2 :> d)

\* The socket shell over a sound store, with an expiry and with a displaced
\* connection; the channel shell over a store that fails, with clients that
\* stop reading.
MCShell ==
    {[transport |-> "tcp", faults |-> FALSE, stalls |-> FALSE,
      most |-> Most(2, 2, 0), seconds |-> 1],
     [transport |-> "tcp", faults |-> FALSE, stalls |-> FALSE,
      most |-> Most(2, 1, 1), seconds |-> 0],
     [transport |-> "ws", faults |-> TRUE, stalls |-> TRUE,
      most |-> Most(2, 1, 0), seconds |-> 1]}
=============================================================================

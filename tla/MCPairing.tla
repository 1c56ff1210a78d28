------------------------------ MODULE MCPairing ------------------------------
(* Instances of Pairing for TLC. *)
EXTENDS Pairing

MCMaxLoose == [s \in Side |-> IF s = "Allocator" THEN 4 ELSE 3]

\* Two reducers with every fault, and a reducer with a loose peer.
MCSetting ==
    {[loose |-> {}, guesses |-> {"C", "X"}, intents |-> {"i", "j", "foreign"},
      payloads |-> {"p", "bad"}, crashes |-> 1, redelivers |-> TRUE, ends |-> TRUE]}
    \cup {[loose |-> {s}, guesses |-> {"C"}, intents |-> {"i", "j"},
           payloads |-> {"p"}, crashes |-> 0, redelivers |-> FALSE, ends |-> FALSE] :
             s \in Side}

\* Two reducers that crash, in a mailbox that nobody ends.
MCSettingLive ==
    {[loose |-> {}, guesses |-> {"C", "X"}, intents |-> {"i"},
      payloads |-> {"p"}, crashes |-> 1, redelivers |-> FALSE, ends |-> FALSE]}
=============================================================================

------------------------------- MODULE PairLog -------------------------------
(***************************************************************************)
(* What a mailbox promises to the two memberships that share it: a pair of *)
(* append-only logs, one per membership, whose entries stay readable by    *)
(* the peer until the peer consumes them or the pairing ends.  Retries,    *)
(* admission tokens, storage accounting and restarts are not visible here. *)
(***************************************************************************)
EXTENDS Naturals, Sequences

CONSTANT Entry

VARIABLES phase, log, unread
vars == <<phase, log, unread>>

Side == {"Allocator", "Claimant"}
Other(side) == IF side = "Allocator" THEN "Claimant" ELSE "Allocator"

Empty ==
    /\ log = [s \in Side |-> <<>>]
    /\ unread = [s \in Side |-> {}]

Init == phase = "Absent" /\ Empty

Begin ==
    /\ phase = "Absent"
    /\ phase' = "Waiting"
    /\ UNCHANGED <<log, unread>>

Join ==
    /\ phase = "Waiting"
    /\ phase' = "Paired"
    /\ UNCHANGED <<log, unread>>

\* The allocator may write before anyone joined.
Write(side, entry) ==
    /\ phase = "Paired" \/ (phase = "Waiting" /\ side = "Allocator")
    /\ log' = [log EXCEPT ![side] = Append(@, entry)]
    /\ unread' = [unread EXCEPT ![side] = @ \cup {Len(log[side])}]
    /\ UNCHANGED phase

\* Only the peer consumes an entry, and only once both are there.
Consume(side, n) ==
    /\ phase = "Paired"
    /\ n \in unread[Other(side)]
    /\ unread' = [unread EXCEPT ![Other(side)] = @ \ {n}]
    /\ UNCHANGED <<phase, log>>

End ==
    /\ phase \in {"Waiting", "Paired"}
    /\ phase' = "Ended"
    /\ unread' = [s \in Side |-> {}]
    /\ UNCHANGED log

Vanish == phase # "Absent" /\ phase' = "Absent" /\ Empty'

Next ==
    \/ Begin \/ Join \/ End \/ Vanish
    \/ \E side \in Side : \/ \E entry \in Entry : Write(side, entry)
                          \/ \E n \in unread[Other(side)] : Consume(side, n)

Spec == Init /\ [][Next]_vars
=============================================================================

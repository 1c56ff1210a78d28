------------------------------- MODULE Mailbox -------------------------------
(***************************************************************************)
(* One mailbox driven by every command its two memberships, and strangers  *)
(* who know its locator, can send (src/src/mailbox.rs).  Each step is one  *)
(* committed `transition`; Restart is the persistence boundary: the state  *)
(* is replaced by what from_snapshot makes of its own snapshot.            *)
(*                                                                         *)
(* The wall clock is not assumed monotone: every step is given its own     *)
(* reading, because the shells sample it before they take the service lock *)
(* and the operating system may step it backwards.                         *)
(***************************************************************************)
EXTENDS MailboxOps

CONSTANTS Time, Ttl   \* clock readings; requested lifetimes (None: default)

ASSUME TimeAssumption == Time \subseteq Nat /\ Ttl \subseteq Nat \cup {None}

VARIABLE mailbox      \* the mailbox, or None before allocation / after reap

Live == mailbox # None

Seqs == 0..MaxFrames  \* one past the last legal sequence: the limit is hit

\* A transition that succeeded: the caller keeps its state.
Commit(result) == result.error = None /\ mailbox' = result.state

Init == mailbox = None

Allocate ==
    \E id \in MailboxId, plate \in Nameplate \cup {None}, hash \in Hash,
       now \in Time, ttl \in Ttl :
        ~Live /\ Commit(allocate(id, plate, hash, now, ttl))

AllocateV2 ==
    \E id \in MailboxId, c \in Commitment, hash \in Hash,
       now \in Time, ttl \in Ttl :
        ~Live /\ Commit(allocate_v2(id, hash, c, now, ttl))

Step(cmd) == Live /\ \E now \in Time : Commit(transition(mailbox, now, cmd))

ClaimStep == \E hash \in Hash : Step([op |-> "Claim", hash |-> hash])

ClaimV2Step ==
    \E hash \in Hash, token \in ClaimToken :
        Step([op |-> "ClaimV2", hash |-> hash, token |-> token])

OpenStep == \E hash \in Hash : Step([op |-> "Open", hash |-> hash])

PutStep ==
    \E side \in Membership, seq \in Seqs, body \in Body :
        Step([op |-> "Put", side |-> side, seq |-> seq, body |-> body])

AckStep(side, seq) == Step([op |-> "Ack", side |-> side, seq |-> seq])

CloseStep ==
    \E side \in Membership : Step([op |-> "Close", side |-> side])

Restart ==
    /\ Live
    /\ ValidSnapshot(snapshot(mailbox))
    /\ mailbox' = from_snapshot(snapshot(mailbox))

Next ==
    \/ Allocate \/ AllocateV2
    \/ ClaimStep \/ ClaimV2Step \/ OpenStep \/ PutStep
    \/ \E side \in Membership, seq \in Seqs : AckStep(side, seq)
    \/ CloseStep \/ Restart

Spec == Init /\ [][Next]_mailbox

-----------------------------------------------------------------------------
(* Properties.                                                             *)

\* The mailbox is absent or a well-typed record.
TypeOK == Live => IsMailbox(mailbox)

\* Status, admission, memberships and logs stay consistent with one another:
\* the inductive invariant behind the theorems of MailboxProofs.
Consistent == Live => MailboxInv(mailbox)

\* Every mailbox the commands can reach survives the persistence boundary:
\* from_snapshot accepts the record `put` writes and rebuilds the identical
\* state, including next_seq and queue_bytes, which the record leaves out.
\* (mailbox.rs snapshot / from_snapshot; a refusal would keep the relay from
\* starting, a difference would break `checked_sub` accounting later.)
RestoreExact ==
    Live => /\ ValidSnapshot(snapshot(mailbox))
            /\ from_snapshot(snapshot(mailbox)) = mailbox

\* A terminal mailbox is a body-free tombstone that admits nobody: no body
\* is retained in either direction and no claim commitment survives
\* (mailbox.rs terminate / delete_bodies).
TombstoneIsEmpty ==
    Live /\ IsTerminal(mailbox) =>
        /\ \A s \in Membership, n \in Seqs : ~Holds(mailbox, s, n)
        /\ mailbox.admission.commitment = None

\* Nothing is undone along any step that keeps the mailbox: see Forward.
\* Covers every command of mailbox.rs transition and every restart.
NeverUndone ==
    [][Live /\ mailbox' # None => Forward(mailbox, mailbox')]_mailbox

\* A queued body leaves a live mailbox only because the peer of its owner
\* acknowledged exactly that sequence (REQ-004 of the specification; the Ack
\* arm of mailbox.rs transition).
OnlyPeerAckReleases ==
    [][\A s \in Membership, n \in Seqs :
          (/\ Live /\ Holds(mailbox, s, n)
           /\ mailbox' # None /\ ~IsTerminal(mailbox')
           /\ ~Holds(mailbox', s, n))
          => AckStep(peer(s), n)]_mailbox

-----------------------------------------------------------------------------
(* The mailbox implements the abstract pair of logs.                       *)

LogOf(m) ==
    [s \in Membership |-> [i \in DOMAIN m.frames[s] |-> m.frames[s][i].body]]

UnreadOf(m) == [s \in Membership |-> {n \in Seqs : Holds(m, s, n)}]

AbsPhase ==
    IF ~Live THEN "Absent"
    ELSE IF IsTerminal(mailbox) THEN "Ended" ELSE mailbox.status

AbsLog == IF Live THEN LogOf(mailbox) ELSE [s \in Membership |-> <<>>]

AbsUnread == IF Live THEN UnreadOf(mailbox) ELSE [s \in Membership |-> {}]

Abs == INSTANCE PairLog
         WITH Entry <- Body, phase <- AbsPhase, log <- AbsLog,
              unread <- AbsUnread

\* Every command is a step of the two-party log or invisible to it.
ImplementsPairLog == Abs!Spec
=============================================================================

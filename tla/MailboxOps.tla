----------------------------- MODULE MailboxOps -----------------------------
(***************************************************************************)
(* The pure two-membership mailbox core of src/src/mailbox.rs as constant- *)
(* level operators: allocation, one operator per MailboxCommand, `reap`,   *)
(* and the snapshot that crosses the persistence boundary.                 *)
(*                                                                         *)
(* Data abstraction.  A body is a member of Body; its digest is injective, *)
(* so "same length and same digest" is equality of bodies.  A frame's seq  *)
(* is its zero-based position, as the code keeps it.  `held` says whether  *)
(* the opaque body is still retained.                                      *)
(***************************************************************************)
EXTENDS Integers, Sequences, FiniteSets, Functions

CONSTANTS
    MailboxId, Nameplate,   \* random mailbox identifiers, numeric locators
    Hash,                   \* membership-token hashes
    ClaimToken,             \* credential/v2 one-use claim bearers
    Body, BodyLen,          \* opaque bodies and their lengths in octets
    MaxBodyLen,             \* MAX_FRAME_BODY_BYTES
    MaxFrames,              \* MAX_FRAMES_PER_MEMBERSHIP
    MinTtl, MaxTtl, DefaultTtl, V2Ttl,
    None                    \* Option::None

ASSUME MailboxAssumption ==
    /\ BodyLen \in [Body -> Nat]
    /\ {MaxBodyLen, MaxFrames, MinTtl, MaxTtl, DefaultTtl, V2Ttl} \subseteq Nat
    /\ None \notin MailboxId \cup Nameplate \cup Hash \cup Nat
    /\ None \notin {"Allocator", "Claimant"} \cup MailboxId \X ClaimToken
    /\ None \notin {"Closed", "Crowded", "Expired", "Conflict"}
    /\ None \notin {"LifetimeOutOfRange", "NotMember", "MembershipCollision",
                     "BodySize", "UnknownSequence", "SequenceGap", "FrameLimit"}

Membership == {"Allocator", "Claimant"}

peer(side) == IF side = "Allocator" THEN "Claimant" ELSE "Allocator"

CloseReason == {"Closed", "Crowded", "Expired", "Conflict"}

\* MailboxStatus; Terminal(reason) is written as the reason itself.
Status == {"Waiting", "Paired"} \cup CloseReason

Frame == [body : Body, held : BOOLEAN]

\* The claim bearer leaves only a commitment bound to one mailbox id.
claim_commitment(id, token) == <<id, token>>

Commitment == MailboxId \X ClaimToken

V1 == [kind |-> "V1", commitment |-> None]
V2Pending(c) == [kind |-> "V2Pending", commitment |-> c]
V2Claimed == [kind |-> "V2Claimed", commitment |-> None]
V2Closed == [kind |-> "V2Closed", commitment |-> None]

Admission == {V1, V2Claimed, V2Closed} \cup {V2Pending(c) : c \in Commitment}

\* A member that does not exist has no hash, no frames and next_seq 0.  The
\* set is indexed by queue_bytes, a running total with an invariant of its own.
MailboxOf(charge) ==
    [mailbox_id : MailboxId, nameplate : Nameplate \cup {None},
     expires_at : Nat, status : Status, admission : Admission,
     hash : [Membership -> Hash \cup {None}],
     next_seq : [Membership -> Nat],
     frames : [Membership -> Seq(Frame)],
     queue_bytes : {charge}]

IsMailbox(m) == m \in MailboxOf(m.queue_bytes)

IsTerminal(m) == m.status \in CloseReason

IsMember(m, side) == m.hash[side] # None

membership_hashes(m) == {m.hash[s] : s \in Membership} \ {None}

HasSeq(m, side, seq) == seq + 1 \in DOMAIN m.frames[side]

Holds(m, side, seq) == HasSeq(m, side, seq) /\ m.frames[side][seq + 1].held

\* Octets of the bodies a frame table retains.
HeldBytes(frames) ==
    LET slots == UNION {{<<s, i>> : i \in DOMAIN frames[s]} : s \in Membership}
        bytes == [x \in slots |-> IF frames[x[1]][x[2]].held
                                  THEN BodyLen[frames[x[1]][x[2]].body] ELSE 0]
    IN  SumFunction(bytes)

-----------------------------------------------------------------------------
(* Results: a transition is an error, or a next state with its effects.    *)

NoEffects == [claimed |-> FALSE, opened |-> None, stored |-> None,
              deliver |-> <<>>, terminal |-> None]

Ok(m, effects) == [error |-> None, state |-> m, effects |-> effects]

Err(code) == [error |-> code, state |-> None, effects |-> NoEffects]

-----------------------------------------------------------------------------
(* Allocation.                                                             *)

NewMailbox(id, nameplate, hash, expires_at, admission) ==
    [mailbox_id |-> id, nameplate |-> nameplate, expires_at |-> expires_at,
     status |-> "Waiting", admission |-> admission,
     hash |-> [s \in Membership |-> IF s = "Allocator" THEN hash ELSE None],
     next_seq |-> [s \in Membership |-> 0],
     frames |-> [s \in Membership |-> <<>>],
     queue_bytes |-> 0]

allocate(id, nameplate, hash, now, ttl) ==
    LET seconds == IF ttl = None THEN DefaultTtl ELSE ttl
    IN  IF seconds \notin MinTtl..MaxTtl
        THEN Err("LifetimeOutOfRange")
        ELSE Ok(NewMailbox(id, nameplate, hash, now + seconds, V1), NoEffects)

allocate_v2(id, hash, commitment, now, ttl) ==
    IF ttl \notin {None, V2Ttl}
    THEN Err("LifetimeOutOfRange")
    ELSE Ok(NewMailbox(id, None, hash, now + V2Ttl, V2Pending(commitment)),
            NoEffects)

-----------------------------------------------------------------------------
(* Commands.  Each is applied to a live mailbox: `transition` has already  *)
(* dealt with expiry and with terminal mailboxes.                          *)

delete_bodies(frames) ==
    [s \in Membership |->
        [i \in DOMAIN frames[s] |-> [body |-> frames[s][i].body, held |-> FALSE]]]

\* Variant: a pending v2 admission survives the closure.
terminate_still_pending(m, reason) ==
    Ok([m EXCEPT !.frames = delete_bodies(m.frames),
                 !.queue_bytes = @ - HeldBytes(m.frames),
                 !.status = reason],
       [NoEffects EXCEPT !.terminal = reason])

terminate(m, reason) ==
    Ok([m EXCEPT !.frames = delete_bodies(m.frames),
                 !.queue_bytes = @ - HeldBytes(m.frames),
                 !.status = reason,
                 !.admission = IF @ = V1 THEN V1 ELSE V2Closed],
       [NoEffects EXCEPT !.terminal = reason])

reap(m, now) ==
    IF now < m.expires_at THEN Ok(m, NoEffects)
    ELSE Ok(None, [NoEffects EXCEPT !.terminal =
                      IF IsTerminal(m) THEN None ELSE "Expired"])

InstallClaimant(m, hash, admission) ==
    Ok([m EXCEPT !.hash["Claimant"] = hash, !.status = "Paired",
                 !.admission = admission],
       [NoEffects EXCEPT !.claimed = TRUE])

\* Variant: a later claimant takes the membership over.
Claim_uncrowded(m, hash) ==
    IF m.admission # V1 THEN Err("NotMember")
    ELSE IF hash \in membership_hashes(m) THEN Err("MembershipCollision")
    ELSE InstallClaimant(m, hash, V1)

Claim(m, hash) ==
    IF m.admission # V1 THEN Err("NotMember")
    ELSE IF hash \in membership_hashes(m) THEN Err("MembershipCollision")
    ELSE IF IsMember(m, "Claimant") THEN terminate(m, "Crowded")
    ELSE InstallClaimant(m, hash, V1)

ClaimV2(m, hash, token) ==
    IF m.admission # V2Pending(claim_commitment(m.mailbox_id, token))
    THEN Err("NotMember")
    ELSE IF hash = m.hash["Allocator"] \/ IsMember(m, "Claimant")
    THEN Err("MembershipCollision")
    ELSE InstallClaimant(m, hash, V2Claimed)

\* The sequences of `side`'s frames whose bodies are still queued, in order.
QueuedSeqs(m, side) ==
    SelectSeq([i \in DOMAIN m.frames[side] |-> i - 1],
              LAMBDA seq : Holds(m, side, seq))

membership_for_hash(m, hash) ==
    IF hash = m.hash["Allocator"] THEN "Allocator"
    ELSE IF hash = m.hash["Claimant"] THEN "Claimant"
    ELSE None

\* Variant: a member is replayed its own frames.
Open_own_frames(m, hash) ==
    LET side == membership_for_hash(m, hash)
    IN  IF side = None THEN Err("NotMember")
        ELSE Ok(m, [NoEffects EXCEPT !.opened = side,
                                     !.deliver = QueuedSeqs(m, side)])

Open(m, hash) ==
    LET side == membership_for_hash(m, hash)
    IN  IF side = None THEN Err("NotMember")
        ELSE Ok(m, [NoEffects EXCEPT !.opened = side,
                                     !.deliver = QueuedSeqs(m, peer(side))])

StoreFrame(m, side, body) ==
    [m EXCEPT !.frames[side] = Append(@, [body |-> body, held |-> TRUE]),
              !.next_seq[side] = @ + 1,
              !.queue_bytes = @ + BodyLen[body]]

\* Variant: an identical retry queues the body again.
Put_requeues(m, side, seq, body) ==
    IF BodyLen[body] \notin 1..MaxBodyLen THEN Err("BodySize")
    ELSE IF ~IsMember(m, side) THEN Err("NotMember")
    ELSE IF HasSeq(m, side, seq)
    THEN IF m.frames[side][seq + 1].body = body
         THEN Ok([m EXCEPT !.frames[side][seq + 1].held = TRUE], NoEffects)
         ELSE terminate(m, "Conflict")
    ELSE IF seq > m.next_seq[side] THEN Err("SequenceGap")
    ELSE IF seq >= MaxFrames THEN Err("FrameLimit")
    ELSE Ok(StoreFrame(m, side, body), [NoEffects EXCEPT !.stored = seq])

Put(m, side, seq, body) ==
    IF BodyLen[body] \notin 1..MaxBodyLen THEN Err("BodySize")
    ELSE IF ~IsMember(m, side) THEN Err("NotMember")
    ELSE IF seq < m.next_seq[side]
    THEN IF ~HasSeq(m, side, seq) THEN Err("UnknownSequence")
         ELSE IF m.frames[side][seq + 1].body = body
         THEN Ok(m, [NoEffects EXCEPT !.stored = seq])
         ELSE terminate(m, "Conflict")
    ELSE IF seq > m.next_seq[side] THEN Err("SequenceGap")
    ELSE IF seq >= MaxFrames \/ Len(m.frames[side]) >= MaxFrames
    THEN Err("FrameLimit")
    ELSE Ok(StoreFrame(m, side, body),
            [NoEffects EXCEPT
                !.stored = seq,
                !.deliver = IF IsMember(m, peer(side)) THEN <<seq>> ELSE <<>>])

\* Variant: the released body stays charged to the queue.
ReleaseFrame_charged(m, owner, seq) ==
    [m EXCEPT !.frames[owner][seq + 1].held = FALSE]

\* Variant: the whole record goes, the digest that detects conflicts included.
ReleaseFrame_digest_lost(m, owner, seq) ==
    [m EXCEPT !.frames[owner][seq + 1] = [body |-> None, held |-> FALSE],
              !.queue_bytes = @ - BodyLen[m.frames[owner][seq + 1].body]]

ReleaseFrame(m, owner, seq) ==
    [m EXCEPT !.frames[owner][seq + 1].held = FALSE,
              !.queue_bytes = @ - BodyLen[m.frames[owner][seq + 1].body]]

\* Variant: an acknowledgement is cumulative.
Ack_cumulative(m, side, peer_seq) ==
    LET owner == peer(side)
    IN  IF ~IsMember(m, side) THEN Err("NotMember")
        ELSE IF ~HasSeq(m, owner, peer_seq) THEN Err("UnknownSequence")
        ELSE Ok([m EXCEPT !.frames[owner] =
                    [i \in DOMAIN @ |-> [@[i] EXCEPT !.held = @ /\ i > peer_seq + 1]]],
                NoEffects)

Ack(m, side, peer_seq) ==
    LET owner == peer(side)
    IN  IF ~IsMember(m, side) THEN Err("NotMember")
        ELSE IF ~HasSeq(m, owner, peer_seq) THEN Err("UnknownSequence")
        ELSE IF Holds(m, owner, peer_seq)
        THEN Ok(ReleaseFrame(m, owner, peer_seq), NoEffects)
        ELSE Ok(m, NoEffects)

Close(m, side) ==
    IF IsMember(m, side) THEN terminate(m, "Closed") ELSE Err("NotMember")

Apply(m, cmd) ==
    CASE cmd.op = "Claim" -> Claim(m, cmd.hash)
      [] cmd.op = "ClaimV2" -> ClaimV2(m, cmd.hash, cmd.token)
      [] cmd.op = "Open" -> Open(m, cmd.hash)
      [] cmd.op = "Put" -> Put(m, cmd.side, cmd.seq, cmd.body)
      [] cmd.op = "Ack" -> Ack(m, cmd.side, cmd.seq)
      [] cmd.op = "Close" -> Close(m, cmd.side)

transition(m, now, cmd) ==
    IF now >= m.expires_at THEN reap(m, now)
    ELSE IF IsTerminal(m) THEN Err(m.status)
    ELSE Apply(m, cmd)

-----------------------------------------------------------------------------
(* The persistence boundary.  The record keeps neither next_seq nor        *)
(* queue_bytes: from_snapshot recomputes both.                             *)

snapshot(m) ==
    [mailbox_id |-> m.mailbox_id, nameplate |-> m.nameplate,
     expires_at |-> m.expires_at, status |-> m.status,
     admission |-> m.admission,
     hashes |-> IF IsMember(m, "Claimant")
                THEN <<m.hash["Allocator"], m.hash["Claimant"]>>
                ELSE <<m.hash["Allocator"]>>,
     sequences |-> UNION {{[owner |-> s, seq |-> i - 1,
                            body |-> m.frames[s][i].body,
                            held |-> m.frames[s][i].held]
                              : i \in DOMAIN m.frames[s]} : s \in Membership}]

Owned(s, owner) == {q \in s.sequences : q.owner = owner}

ValidAdmission(s) ==
    \/ s.admission = V1
    \/ /\ s.nameplate = None
       /\ \/ /\ s.admission.kind = "V2Pending"
             /\ s.status = "Waiting" /\ Len(s.hashes) = 1
          \/ /\ s.admission = V2Claimed
             /\ s.status = "Paired" /\ Len(s.hashes) = 2
          \/ s.admission = V2Closed /\ s.status \in CloseReason

ValidMember(s, owner) ==
    LET owned == Owned(s, owner)
    IN  /\ Cardinality(owned) <= MaxFrames
        /\ {q.seq : q \in owned} = 0..(Cardinality(owned) - 1)
        /\ \A q \in owned : BodyLen[q.body] \in 1..MaxBodyLen

ValidSnapshot(s) ==
    /\ Len(s.hashes) \in 1..2
    /\ s.status = "Waiting" => Len(s.hashes) = 1
    /\ s.status = "Paired" => Len(s.hashes) = 2
    /\ ValidAdmission(s)
    /\ \A owner \in Membership : ValidMember(s, owner)
    /\ Len(s.hashes) = 1 => Owned(s, "Claimant") = {}

RestoredFrames(s, owner) ==
    [i \in 1..Cardinality(Owned(s, owner)) |->
        LET q == CHOOSE q \in Owned(s, owner) : q.seq = i - 1
        IN  [body |-> q.body, held |-> q.held]]

\* Meaningful when ValidSnapshot(s); the code returns InvalidSnapshot else.
from_snapshot(s) ==
    LET frames == [o \in Membership |-> RestoredFrames(s, o)]
    IN  [mailbox_id |-> s.mailbox_id, nameplate |-> s.nameplate,
         expires_at |-> s.expires_at, status |-> s.status,
         admission |-> s.admission,
         hash |-> [o \in Membership |->
                     IF o = "Allocator" THEN s.hashes[1]
                     ELSE IF Len(s.hashes) = 2 THEN s.hashes[2] ELSE None],
         next_seq |-> [o \in Membership |-> Len(frames[o])],
         frames |-> frames,
         queue_bytes |-> HeldBytes(frames)]

-----------------------------------------------------------------------------
(* The order of a mailbox's life: n may follow m.  Expiry and locator are  *)
(* fixed, a membership never changes hands, a stored frame is never        *)
(* rewritten or dropped from the log, a released body never comes back,    *)
(* and a terminal status is final.                                         *)

Forward(m, n) ==
    /\ n.expires_at = m.expires_at
    /\ n.mailbox_id = m.mailbox_id
    /\ n.nameplate = m.nameplate
    /\ \A s \in Membership :
        /\ IsMember(m, s) => n.hash[s] = m.hash[s]
        /\ \A i \in DOMAIN m.frames[s] :
            /\ i \in DOMAIN n.frames[s]
            /\ n.frames[s][i].body = m.frames[s][i].body
            /\ n.frames[s][i].held => m.frames[s][i].held
    /\ IsTerminal(m) =>
        /\ n.status = m.status /\ n.admission = m.admission
        /\ n.hash = m.hash /\ n.frames = m.frames

-----------------------------------------------------------------------------
(* What every reachable mailbox satisfies.                                 *)

\* The status, the admission and the second membership agree.
Admitted(m) ==
    /\ m.hash["Allocator"] # None
    /\ m.hash["Allocator"] # m.hash["Claimant"]
    /\ m.status = "Waiting" => ~IsMember(m, "Claimant")
    /\ m.status = "Paired" => IsMember(m, "Claimant")
    /\ \/ m.admission = V1
       \/ /\ m.nameplate = None
          /\ \/ m.admission.kind = "V2Pending" /\ m.status = "Waiting"
             \/ m.admission = V2Claimed /\ m.status = "Paired"
             \/ m.admission = V2Closed /\ IsTerminal(m)

\* Each member's frames are the gapless log next_seq counts; only a member
\* has any; a tombstone retains no body.
LogsHeld(m) ==
    /\ \A s \in Membership :
        /\ m.next_seq[s] = Len(m.frames[s])
        /\ Len(m.frames[s]) <= MaxFrames
        /\ \A i \in DOMAIN m.frames[s] :
            /\ BodyLen[m.frames[s][i].body] \in 1..MaxBodyLen
            /\ IsTerminal(m) => ~m.frames[s][i].held
    /\ ~IsMember(m, "Claimant") => m.frames["Claimant"] = <<>>

MailboxInv(m) == IsMailbox(m) /\ Admitted(m) /\ LogsHeld(m)
=============================================================================

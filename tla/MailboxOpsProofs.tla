-------------------------- MODULE MailboxOpsProofs --------------------------
(***************************************************************************)
(* Machine-checked facts about the mailbox core of MailboxOps, for every   *)
(* number of frames, every set of identifiers, hashes, bodies and clock    *)
(* readings: what one mailbox (MailboxProofs) and the relay's table of     *)
(* them (RelayProofs) both rest on.                                        *)
(***************************************************************************)
EXTENDS MailboxOps, FiniteSetTheorems, TLAPS

\* The frame limit is a number.
LEMMA MaxFramesNat == MaxFrames \in Nat
  BY MailboxAssumption

-----------------------------------------------------------------------------
(* Allocation.                                                             *)

\* A new mailbox is consistent.
LEMMA NewMailboxInv ==
    ASSUME NEW id \in MailboxId, NEW plate \in Nameplate \cup {None},
           NEW hash \in Hash, NEW t \in Nat, NEW adm \in Admission,
           adm = V1 \/ (plate = None /\ adm.kind = "V2Pending")
    PROVE  MailboxInv(NewMailbox(id, plate, hash, t, adm))
  <1> DEFINE m == NewMailbox(id, plate, hash, t, adm)
  <1>1. IsMailbox(m)
    BY DEF IsMailbox, MailboxOf, NewMailbox, Status, Membership
  <1>2. Admitted(m)
    BY MailboxAssumption
    DEF Admitted, NewMailbox, Membership, IsMember, IsTerminal, CloseReason
  <1>3. LogsHeld(m)
    BY MailboxAssumption DEF LogsHeld, NewMailbox, Membership, IsMember
  <1> QED BY <1>1, <1>2, <1>3 DEF MailboxInv

-----------------------------------------------------------------------------
(* Commands.                                                               *)

\* delete_bodies keeps every record and drops every body.
LEMMA ErasedFrames ==
    ASSUME NEW q \in Seq(Frame), NEW r,
           r = [i \in DOMAIN q |-> [body |-> q[i].body, held |-> FALSE]]
    PROVE  r \in Seq(Frame) /\ Len(r) = Len(q) /\ DOMAIN r = DOMAIN q
  <1>1. DOMAIN q = 1..Len(q) /\ Len(q) \in Nat
    OBVIOUS
  <1>2. \A i \in 1..Len(q) : q[i] \in Frame
    OBVIOUS
  <1>3. \A i \in 1..Len(q) : [body |-> q[i].body, held |-> FALSE] \in Frame
    BY <1>2 DEF Frame
  <1> QED BY <1>1, <1>3

\* The state a result carries, if any, is consistent and follows m.
Keeps(m, result) ==
    result.state # None =>
        MailboxInv(result.state) /\ Forward(m, result.state)

\* A record with the fields of a mailbox and no others.
Shaped(n) ==
    n \in [mailbox_id : {n.mailbox_id}, nameplate : {n.nameplate},
           expires_at : {n.expires_at}, status : {n.status},
           admission : {n.admission}, hash : {n.hash},
           next_seq : {n.next_seq}, frames : {n.frames},
           queue_bytes : {n.queue_bytes}]

\* What terminate writes, field by field.
LEMMA TerminateFields ==
    ASSUME NEW m, MailboxInv(m), NEW reason, NEW n, n = terminate(m, reason).state
    PROVE  /\ Shaped(n)
           /\ n.mailbox_id = m.mailbox_id /\ n.nameplate = m.nameplate
           /\ n.expires_at = m.expires_at /\ n.hash = m.hash
           /\ n.next_seq = m.next_seq /\ n.status = reason
           /\ n.admission = IF m.admission = V1 THEN V1 ELSE V2Closed
           /\ n.frames \in [Membership -> Seq(Frame)]
           /\ \A s \in Membership :
               /\ Len(n.frames[s]) = Len(m.frames[s])
               /\ DOMAIN n.frames[s] = DOMAIN m.frames[s]
               /\ \A i \in DOMAIN m.frames[s] :
                   /\ n.frames[s][i].body = m.frames[s][i].body
                   /\ ~n.frames[s][i].held
  <1>1. m \in MailboxOf(m.queue_bytes)
    BY DEF MailboxInv, IsMailbox
  <1>2. n = [m EXCEPT !.frames = delete_bodies(m.frames),
                      !.queue_bytes = @ - HeldBytes(m.frames),
                      !.status = reason,
                      !.admission = IF @ = V1 THEN V1 ELSE V2Closed]
    BY DEF terminate, Ok, NoEffects
  <1>3. /\ n.mailbox_id = m.mailbox_id /\ n.nameplate = m.nameplate
        /\ n.expires_at = m.expires_at /\ n.hash = m.hash
        /\ n.next_seq = m.next_seq /\ n.status = reason
        /\ n.admission = IF m.admission = V1 THEN V1 ELSE V2Closed
        /\ n.frames = delete_bodies(m.frames) /\ Shaped(n)
    BY <1>1, <1>2, Zenon DEF MailboxOf, Shaped
  <1>4. /\ n.frames \in [Membership -> Seq(Frame)]
        /\ \A s \in Membership :
            /\ Len(n.frames[s]) = Len(m.frames[s])
            /\ DOMAIN n.frames[s] = DOMAIN m.frames[s]
            /\ \A i \in DOMAIN m.frames[s] :
                /\ n.frames[s][i].body = m.frames[s][i].body
                /\ ~n.frames[s][i].held
    BY <1>1, <1>3, ErasedFrames DEF delete_bodies, MailboxOf
  <1> QED BY <1>3, <1>4

\* A closure leaves a consistent tombstone and loses nothing but the bodies.
LEMMA TerminateInv ==
    ASSUME NEW m, MailboxInv(m), ~IsTerminal(m), NEW reason \in CloseReason
    PROVE  Keeps(m, terminate(m, reason))
  <1> DEFINE n == terminate(m, reason).state
  <1>1. m \in MailboxOf(m.queue_bytes)
    BY DEF MailboxInv, IsMailbox
  <1>2. /\ Shaped(n)
        /\ n.mailbox_id = m.mailbox_id /\ n.nameplate = m.nameplate
        /\ n.expires_at = m.expires_at /\ n.hash = m.hash
        /\ n.next_seq = m.next_seq /\ n.status = reason
        /\ n.admission = IF m.admission = V1 THEN V1 ELSE V2Closed
    BY TerminateFields
  <1>3. /\ n.frames \in [Membership -> Seq(Frame)]
        /\ \A s \in Membership :
            /\ Len(n.frames[s]) = Len(m.frames[s])
            /\ DOMAIN n.frames[s] = DOMAIN m.frames[s]
            /\ \A i \in DOMAIN m.frames[s] :
                /\ n.frames[s][i].body = m.frames[s][i].body
                /\ ~n.frames[s][i].held
    BY TerminateFields
  <1> HIDE DEF n
  <1>4. IsMailbox(n)
    BY <1>1, <1>2, <1>3 DEF IsMailbox, MailboxOf, Admission, Status, Shaped
  <1>5. Admitted(n)
    BY <1>1, <1>2 DEF MailboxInv, Admitted, IsTerminal, IsMember, MailboxOf, CloseReason
  <1>6. LogsHeld(n)
    <2>1. ~IsMember(n, "Claimant") => n.frames["Claimant"] = <<>>
      BY <1>1, <1>2, <1>3 DEF MailboxInv, LogsHeld, IsMember, Membership
    <2> QED BY <1>1, <1>2, <1>3, <2>1 DEF MailboxInv, LogsHeld, IsTerminal
  <1>7. Forward(m, n)
    <2>1. \A s \in Membership : \A i \in DOMAIN m.frames[s] :
            /\ i \in DOMAIN n.frames[s]
            /\ n.frames[s][i].body = m.frames[s][i].body
            /\ n.frames[s][i].held => m.frames[s][i].held
      BY <1>3
    <2> QED BY <1>2, <2>1 DEF Forward
  <1> QED BY <1>4, <1>5, <1>6, <1>7 DEF MailboxInv, n, Keeps

\* A mailbox that stays as it is has moved forward.
LEMMA ForwardRefl == ASSUME NEW m PROVE Forward(m, m)
  BY DEF Forward

\* A command that changes nothing keeps a consistent mailbox consistent.
LEMMA Unchanged ==
    ASSUME NEW m, MailboxInv(m), NEW effects
    PROVE  Keeps(m, Ok(m, effects))
  BY ForwardRefl DEF Keeps, Ok

\* A refused command produces no state to keep.
LEMMA Failed == ASSUME NEW m, NEW code PROVE Keeps(m, Err(code))
  BY DEF Keeps, Err

\* A first claimant enters a waiting mailbox (both admission modes).
LEMMA InstallClaimantInv ==
    ASSUME NEW m, MailboxInv(m), ~IsTerminal(m), ~IsMember(m, "Claimant"),
           NEW hash \in Hash, hash # m.hash["Allocator"], NEW adm,
           \/ m.admission = V1 /\ adm = V1
           \/ m.nameplate = None /\ adm = V2Claimed
    PROVE  Keeps(m, InstallClaimant(m, hash, adm))
  <1> DEFINE n == InstallClaimant(m, hash, adm).state
  <1>1. m \in MailboxOf(m.queue_bytes)
    BY DEF MailboxInv, IsMailbox
  <1>2. /\ n.mailbox_id = m.mailbox_id /\ n.nameplate = m.nameplate
        /\ n.expires_at = m.expires_at
        /\ n.hash = [m.hash EXCEPT !["Claimant"] = hash]
        /\ n.next_seq = m.next_seq /\ n.frames = m.frames
        /\ n.status = "Paired" /\ n.admission = adm
        /\ Shaped(n)
    BY <1>1, Zenon DEF InstallClaimant, Ok, NoEffects, MailboxOf, Shaped
  <1> HIDE DEF n
  <1>3. /\ n.hash \in [Membership -> Hash \cup {None}]
        /\ n.hash["Allocator"] = m.hash["Allocator"]
        /\ n.hash["Claimant"] = hash
        /\ hash # None
    BY <1>1, <1>2, MailboxAssumption DEF MailboxOf, Membership
  <1>4. IsMailbox(n)
    BY <1>1, <1>2, <1>3, Zenon DEF IsMailbox, MailboxOf, Admission, Status, Shaped
  <1>5. Admitted(n)
    BY <1>2, <1>3 DEF MailboxInv, Admitted, IsMember
  <1>6. LogsHeld(n)
    BY <1>2, <1>3 DEF MailboxInv, LogsHeld, IsTerminal, IsMember, CloseReason
  <1>7. Forward(m, n)
    BY <1>2, <1>3 DEF Forward, IsMember, Membership
  <1> QED BY <1>4, <1>5, <1>6, <1>7 DEF MailboxInv, n, Keeps

\* A v1 claim is refused, pairs the mailbox or closes it as crowded.
LEMMA ClaimInv ==
    ASSUME NEW m, MailboxInv(m), ~IsTerminal(m), NEW hash \in Hash
    PROVE  Keeps(m, Claim(m, hash))
  <1>1. CASE m.admission # V1 \/ hash \in membership_hashes(m)
    BY <1>1, Failed DEF Claim
  <1>2. CASE /\ m.admission = V1 /\ hash \notin membership_hashes(m)
             /\ IsMember(m, "Claimant")
    BY <1>2, TerminateInv DEF Claim, CloseReason
  <1>3. CASE /\ m.admission = V1 /\ hash \notin membership_hashes(m)
             /\ ~IsMember(m, "Claimant")
    <2>1. hash # m.hash["Allocator"]
      BY <1>3, MailboxAssumption DEF membership_hashes, Membership
    <2> QED BY <1>3, <2>1, InstallClaimantInv DEF Claim
  <1> QED BY <1>1, <1>2, <1>3

\* A v2 claim is refused or redeems the one pending admission.
LEMMA ClaimV2Inv ==
    ASSUME NEW m, MailboxInv(m), ~IsTerminal(m), NEW hash \in Hash, NEW token
    PROVE  Keeps(m, ClaimV2(m, hash, token))
  <1> DEFINE pending == V2Pending(claim_commitment(m.mailbox_id, token))
  <1>1. CASE \/ m.admission # pending \/ hash = m.hash["Allocator"]
             \/ IsMember(m, "Claimant")
    BY <1>1, Failed DEF ClaimV2
  <1>2. CASE /\ m.admission = pending /\ hash # m.hash["Allocator"]
             /\ ~IsMember(m, "Claimant")
    <2>1. m.nameplate = None
      BY <1>2 DEF MailboxInv, Admitted, V1, V2Pending
    <2> QED BY <1>2, <2>1, InstallClaimantInv DEF ClaimV2
  <1> QED BY <1>1, <1>2

\* An open changes no state.
LEMMA OpenInv ==
    ASSUME NEW m, MailboxInv(m), NEW hash
    PROVE  Keeps(m, Open(m, hash))
  BY Failed, Unchanged DEF Open

\* Only a member closes.
LEMMA CloseInv ==
    ASSUME NEW m, MailboxInv(m), ~IsTerminal(m), NEW side
    PROVE  Keeps(m, Close(m, side))
  BY Failed, TerminateInv DEF Close, CloseReason

\* What StoreFrame writes, field by field.
LEMMA StoreFrameFields ==
    ASSUME NEW m, MailboxInv(m), NEW side \in Membership, NEW body \in Body,
           NEW n, n = StoreFrame(m, side, body)
    PROVE  /\ Shaped(n)
           /\ n.mailbox_id = m.mailbox_id /\ n.nameplate = m.nameplate
           /\ n.expires_at = m.expires_at /\ n.hash = m.hash
           /\ n.status = m.status /\ n.admission = m.admission
           /\ n.next_seq \in [Membership -> Nat]
           /\ n.frames \in [Membership -> Seq(Frame)]
           /\ \A s \in Membership \ {side} :
                n.frames[s] = m.frames[s] /\ n.next_seq[s] = m.next_seq[s]
           /\ n.next_seq[side] = m.next_seq[side] + 1
           /\ n.frames[side] = Append(m.frames[side], [body |-> body, held |-> TRUE])
  <1> DEFINE f == [body |-> body, held |-> TRUE]
  <1>1. m \in MailboxOf(m.queue_bytes)
    BY DEF MailboxInv, IsMailbox
  <1>2. /\ n.mailbox_id = m.mailbox_id /\ n.nameplate = m.nameplate
        /\ n.expires_at = m.expires_at /\ n.hash = m.hash
        /\ n.next_seq = [m.next_seq EXCEPT ![side] = @ + 1]
        /\ n.frames = [m.frames EXCEPT ![side] = Append(@, f)]
        /\ n.status = m.status /\ n.admission = m.admission
        /\ Shaped(n)
    BY <1>1, Zenon DEF StoreFrame, MailboxOf, Shaped
  <1>3. f \in Frame
    BY DEF Frame
  <1> HIDE DEF f
  <1>4. \A s \in Membership \ {side} :
            n.frames[s] = m.frames[s] /\ n.next_seq[s] = m.next_seq[s]
    BY <1>1, <1>2 DEF MailboxOf
  <1>5. /\ n.next_seq[side] = m.next_seq[side] + 1
        /\ n.frames[side] = Append(m.frames[side], f)
        /\ n.next_seq \in [Membership -> Nat]
        /\ n.frames \in [Membership -> Seq(Frame)]
    BY <1>1, <1>2, <1>3 DEF MailboxOf
  <1> QED BY <1>2, <1>4, <1>5 DEF f

\* A new frame extends one log by one record.
LEMMA StoreFrameInv ==
    ASSUME NEW m, MailboxInv(m), ~IsTerminal(m), NEW side \in Membership,
           IsMember(m, side), NEW body \in Body,
           BodyLen[body] \in 1..MaxBodyLen, Len(m.frames[side]) < MaxFrames,
           NEW effects
    PROVE  Keeps(m, Ok(StoreFrame(m, side, body), effects))
  <1> DEFINE n == StoreFrame(m, side, body)
             f == [body |-> body, held |-> TRUE]
  <1>0. n = StoreFrame(m, side, body)
    OBVIOUS
  <1> HIDE DEF n
  <1>1. /\ m \in MailboxOf(m.queue_bytes)
        /\ m.frames \in [Membership -> Seq(Frame)]
    BY DEF MailboxInv, IsMailbox, MailboxOf
  <1>2. /\ Shaped(n)
        /\ n.mailbox_id = m.mailbox_id /\ n.nameplate = m.nameplate
        /\ n.expires_at = m.expires_at /\ n.hash = m.hash
        /\ n.status = m.status /\ n.admission = m.admission
        /\ n.next_seq \in [Membership -> Nat]
        /\ n.frames \in [Membership -> Seq(Frame)]
        /\ \A s \in Membership \ {side} :
             n.frames[s] = m.frames[s] /\ n.next_seq[s] = m.next_seq[s]
        /\ n.next_seq[side] = m.next_seq[side] + 1
        /\ n.frames[side] = Append(m.frames[side], f)
    BY <1>0, StoreFrameFields
  <1>3. f.body = body /\ f \in Frame
    BY DEF Frame
  <1> HIDE DEF f
  <1>6. /\ Len(n.frames[side]) = Len(m.frames[side]) + 1
        /\ \A i \in DOMAIN m.frames[side] :
            i \in DOMAIN n.frames[side] /\ n.frames[side][i] = m.frames[side][i]
        /\ \A i \in DOMAIN n.frames[side] :
            n.frames[side][i].body = body \/ i \in DOMAIN m.frames[side]
    BY <1>1, <1>2, <1>3
  <1>7. IsMailbox(n)
    BY <1>1, <1>2 DEF IsMailbox, MailboxOf, Shaped
  <1>8. Admitted(n)
    BY <1>2 DEF MailboxInv, Admitted, IsMember, IsTerminal
  <1>9. LogsHeld(n)
    <2>1. \A s \in Membership : /\ n.next_seq[s] = Len(n.frames[s])
                                /\ Len(n.frames[s]) <= MaxFrames
      <3>1. \A s \in Membership : /\ m.next_seq[s] = Len(m.frames[s])
                                  /\ Len(m.frames[s]) <= MaxFrames
        BY DEF MailboxInv, LogsHeld
      <3>2. Len(m.frames[side]) \in Nat
        BY <1>1
      <3>3. Len(m.frames[side]) + 1 <= MaxFrames
        BY <3>2, MaxFramesNat
      <3> QED BY <1>2, <1>6, <3>1, <3>3, Zenon
    <2>2. \A s \in Membership : \A i \in DOMAIN n.frames[s] :
            BodyLen[n.frames[s][i].body] \in 1..MaxBodyLen
      <3>1. ASSUME NEW s \in Membership, NEW i \in DOMAIN m.frames[s]
            PROVE  BodyLen[m.frames[s][i].body] \in 1..MaxBodyLen
        BY DEF MailboxInv, LogsHeld
      <3>2. ASSUME NEW i \in DOMAIN n.frames[side]
            PROVE  BodyLen[n.frames[side][i].body] \in 1..MaxBodyLen
        BY <1>6, <3>1
      <3>3. ASSUME NEW s \in Membership, s # side, NEW i \in DOMAIN n.frames[s]
            PROVE  BodyLen[n.frames[s][i].body] \in 1..MaxBodyLen
        <4>1. n.frames[s] = m.frames[s]
          BY <1>2, <3>3
        <4> QED BY <3>1, <4>1
      <3> QED BY <3>2, <3>3
    <2>3. ~IsMember(n, "Claimant") => n.frames["Claimant"] = <<>>
      BY <1>2 DEF MailboxInv, LogsHeld, IsMember, Membership
    <2> QED BY <1>2, <2>1, <2>2, <2>3 DEF LogsHeld, IsTerminal
  <1>10. Forward(m, n)
    <2>1. \A s \in Membership : \A i \in DOMAIN m.frames[s] :
            i \in DOMAIN n.frames[s] /\ n.frames[s][i] = m.frames[s][i]
      BY <1>2, <1>6, Zenon
    <2> QED BY <1>2, <2>1 DEF Forward
  <1> QED BY <1>7, <1>8, <1>9, <1>10 DEF MailboxInv, n, Keeps, Ok

\* A put stores the next frame, is a retry, closes on conflict or is refused.
LEMMA PutInv ==
    ASSUME NEW m, MailboxInv(m), ~IsTerminal(m), NEW side \in Membership,
           NEW seq \in Nat, NEW body \in Body
    PROVE  Keeps(m, Put(m, side, seq, body))
  <1> DEFINE good == BodyLen[body] \in 1..MaxBodyLen /\ IsMember(m, side)
  <1>1. CASE ~good
    BY <1>1, Failed DEF Put
  <1>2. CASE good /\ seq < m.next_seq[side]
    BY <1>2, Failed, Unchanged, TerminateInv DEF Put, CloseReason
  <1>3. CASE good /\ ~(seq < m.next_seq[side])
    <2>1. CASE \/ seq > m.next_seq[side]
               \/ seq >= MaxFrames \/ Len(m.frames[side]) >= MaxFrames
      BY <1>3, <2>1, Failed DEF Put
    <2>2. CASE ~(\/ seq > m.next_seq[side]
                 \/ seq >= MaxFrames \/ Len(m.frames[side]) >= MaxFrames)
      <3>1. Len(m.frames[side]) < MaxFrames
        BY <2>2, MaxFramesNat DEF MailboxInv, IsMailbox, MailboxOf
      <3> QED BY <1>3, <2>2, <3>1, StoreFrameInv DEF Put
    <2> QED BY <2>1, <2>2
  <1> QED BY <1>1, <1>2, <1>3

\* What ReleaseFrame writes, field by field.
LEMMA ReleaseFrameFields ==
    ASSUME NEW m, MailboxInv(m), NEW owner \in Membership,
           NEW seq \in Nat, HasSeq(m, owner, seq),
           NEW n, n = ReleaseFrame(m, owner, seq)
    PROVE  /\ Shaped(n)
           /\ n.mailbox_id = m.mailbox_id /\ n.nameplate = m.nameplate
           /\ n.expires_at = m.expires_at /\ n.hash = m.hash
           /\ n.next_seq = m.next_seq
           /\ n.status = m.status /\ n.admission = m.admission
           /\ n.frames \in [Membership -> Seq(Frame)]
           /\ \A s \in Membership :
               /\ Len(n.frames[s]) = Len(m.frames[s])
               /\ DOMAIN n.frames[s] = DOMAIN m.frames[s]
               /\ \A i \in DOMAIN m.frames[s] :
                   /\ n.frames[s][i].body = m.frames[s][i].body
                   /\ s = owner /\ i = seq + 1 => ~n.frames[s][i].held
                   /\ ~(s = owner /\ i = seq + 1) => n.frames[s][i] = m.frames[s][i]
  <1> DEFINE old == m.frames[owner]
             new == n.frames[owner]
             f == [old[seq + 1] EXCEPT !.held = FALSE]
  <1>1. m \in MailboxOf(m.queue_bytes) /\ m.frames \in [Membership -> Seq(Frame)]
    BY DEF MailboxInv, IsMailbox, MailboxOf
  <1>2. /\ n.mailbox_id = m.mailbox_id /\ n.nameplate = m.nameplate
        /\ n.expires_at = m.expires_at /\ n.hash = m.hash
        /\ n.next_seq = m.next_seq
        /\ n.frames = [m.frames EXCEPT ![owner][seq + 1].held = FALSE]
        /\ n.status = m.status /\ n.admission = m.admission
        /\ Shaped(n)
    BY <1>1, Zenon DEF ReleaseFrame, MailboxOf, Shaped
  <1>3. \A s \in Membership \ {owner} : n.frames[s] = m.frames[s]
    BY <1>1, <1>2
  <1>4. /\ old \in Seq(Frame) /\ seq + 1 \in DOMAIN old
        /\ new = [old EXCEPT ![seq + 1] = f]
        /\ n.frames = [m.frames EXCEPT ![owner] = new]
    BY <1>1, <1>2, Zenon DEF HasSeq
  <1>5. f \in Frame /\ f.body = old[seq + 1].body /\ ~f.held
    <2>1. old[seq + 1] \in Frame
      BY <1>4
    <2> QED BY <2>1, Zenon DEF Frame
  <1> HIDE DEF f, old, new
  <1>6. /\ new \in Seq(Frame) /\ Len(new) = Len(old) /\ DOMAIN new = DOMAIN old
        /\ \A i \in DOMAIN old : new[i] = IF i = seq + 1 THEN f ELSE old[i]
    BY <1>4, <1>5
  <1>7. n.frames \in [Membership -> Seq(Frame)]
    BY <1>1, <1>4, <1>6
  <1>8. ASSUME NEW s \in Membership
        PROVE  /\ Len(n.frames[s]) = Len(m.frames[s])
               /\ DOMAIN n.frames[s] = DOMAIN m.frames[s]
    BY <1>3, <1>6 DEF old, new
  <1>9. ASSUME NEW s \in Membership, NEW i \in DOMAIN m.frames[s]
        PROVE  /\ n.frames[s][i].body = m.frames[s][i].body
               /\ s = owner /\ i = seq + 1 => ~n.frames[s][i].held
               /\ ~(s = owner /\ i = seq + 1) => n.frames[s][i] = m.frames[s][i]
    <2>1. CASE s = owner /\ i = seq + 1
      BY <1>5, <1>6, <2>1 DEF old, new
    <2>2. CASE s = owner /\ i # seq + 1
      BY <1>6, <2>2 DEF old, new
    <2>3. CASE s # owner
      BY <1>3, <2>3
    <2> QED BY <2>1, <2>2, <2>3
  <1> QED BY <1>2, <1>7, <1>8, <1>9

\* An acknowledgement releases one body and touches no other record.
LEMMA ReleaseFrameInv ==
    ASSUME NEW m, MailboxInv(m), NEW owner \in Membership,
           NEW seq \in Nat, HasSeq(m, owner, seq), ~IsTerminal(m), NEW effects
    PROVE  Keeps(m, Ok(ReleaseFrame(m, owner, seq), effects))
  <1> DEFINE n == ReleaseFrame(m, owner, seq)
  <1>1. m \in MailboxOf(m.queue_bytes) /\ m.frames \in [Membership -> Seq(Frame)]
    BY DEF MailboxInv, IsMailbox, MailboxOf
  <1>2. /\ Shaped(n)
        /\ n.mailbox_id = m.mailbox_id /\ n.nameplate = m.nameplate
        /\ n.expires_at = m.expires_at /\ n.hash = m.hash
        /\ n.next_seq = m.next_seq
        /\ n.status = m.status /\ n.admission = m.admission
    BY ReleaseFrameFields
  <1>3. /\ n.frames \in [Membership -> Seq(Frame)]
        /\ \A s \in Membership :
            /\ Len(n.frames[s]) = Len(m.frames[s])
            /\ DOMAIN n.frames[s] = DOMAIN m.frames[s]
            /\ \A i \in DOMAIN m.frames[s] :
                /\ n.frames[s][i].body = m.frames[s][i].body
                /\ n.frames[s][i].held => m.frames[s][i].held
    BY ReleaseFrameFields
  <1> HIDE DEF n
  <1>4. IsMailbox(n)
    BY <1>1, <1>2, <1>3 DEF IsMailbox, MailboxOf, Shaped
  <1>5. Admitted(n)
    BY <1>2 DEF MailboxInv, Admitted, IsMember, IsTerminal
  <1>6. LogsHeld(n)
    <2>1. ~IsMember(n, "Claimant") => n.frames["Claimant"] = <<>>
      BY <1>1, <1>2, <1>3 DEF MailboxInv, LogsHeld, IsMember, Membership
    <2>2. ASSUME NEW s \in Membership, NEW i \in DOMAIN n.frames[s]
          PROVE  BodyLen[n.frames[s][i].body] \in 1..MaxBodyLen
      <3>1. BodyLen[m.frames[s][i].body] \in 1..MaxBodyLen
        BY <1>3 DEF MailboxInv, LogsHeld
      <3> QED BY <1>3, <3>1
    <2>3. ASSUME NEW s \in Membership
          PROVE  n.next_seq[s] = Len(n.frames[s]) /\ Len(n.frames[s]) <= MaxFrames
      BY <1>2, <1>3 DEF MailboxInv, LogsHeld
    <2> QED BY <1>2, <2>1, <2>2, <2>3 DEF LogsHeld, IsTerminal
  <1>7. Forward(m, n)
    BY <1>2, <1>3 DEF Forward, IsTerminal
  <1> QED BY <1>4, <1>5, <1>6, <1>7 DEF MailboxInv, n, Keeps, Ok

\* The peer of a membership is a membership.
LEMMA PeerIsMembership ==
    ASSUME NEW side \in Membership PROVE peer(side) \in Membership
  BY DEF peer, Membership

\* An acknowledgement releases one queued body or changes nothing.
LEMMA AckInv ==
    ASSUME NEW m, MailboxInv(m), ~IsTerminal(m), NEW side \in Membership,
           NEW seq \in Nat
    PROVE  Keeps(m, Ack(m, side, seq))
  BY Failed, Unchanged, ReleaseFrameInv, PeerIsMembership DEF Ack, Holds

-----------------------------------------------------------------------------
(* Every command, with expiry and tombstones.                              *)

Command ==
    [op : {"Claim", "Open"}, hash : Hash]
        \cup [op : {"ClaimV2"}, hash : Hash, token : ClaimToken]
        \cup [op : {"Put"}, side : Membership, seq : Nat, body : Body]
        \cup [op : {"Ack"}, side : Membership, seq : Nat]
        \cup [op : {"Close"}, side : Membership]

\* No command, at any clock reading, leads to an inconsistent mailbox or
\* undoes anything.
LEMMA TransitionInv ==
    ASSUME NEW m, MailboxInv(m), NEW now, NEW cmd \in Command
    PROVE  Keeps(m, transition(m, now, cmd))
  <1>1. CASE now >= m.expires_at
    BY <1>1, Unchanged DEF transition, reap, Keeps, Ok
  <1>2. CASE ~(now >= m.expires_at) /\ IsTerminal(m)
    BY <1>2, Failed DEF transition
  <1>3. CASE ~(now >= m.expires_at) /\ ~IsTerminal(m)
    <2>1. Keeps(m, Apply(m, cmd))
      <3>1. CASE cmd.op = "Claim" /\ cmd.hash \in Hash
        BY <1>3, <3>1, ClaimInv DEF Apply
      <3>2. CASE cmd.op = "ClaimV2" /\ cmd.hash \in Hash
        BY <1>3, <3>2, ClaimV2Inv DEF Apply
      <3>3. CASE cmd.op = "Open"
        BY <3>3, OpenInv DEF Apply
      <3>4. CASE /\ cmd.op = "Put" /\ cmd.side \in Membership
                 /\ cmd.seq \in Nat /\ cmd.body \in Body
        BY <1>3, <3>4, PutInv DEF Apply
      <3>5. CASE cmd.op = "Ack" /\ cmd.side \in Membership /\ cmd.seq \in Nat
        BY <1>3, <3>5, AckInv DEF Apply
      <3>6. CASE cmd.op = "Close"
        BY <1>3, <3>6, CloseInv DEF Apply
      <3> QED BY <3>1, <3>2, <3>3, <3>4, <3>5, <3>6 DEF Command
    <2> QED BY <1>3, <2>1 DEF transition
  <1> QED BY <1>1, <1>2, <1>3

-----------------------------------------------------------------------------
(* The persistence boundary.                                               *)

\* The record snapshot writes for the i-th frame of side s.
Saved(m, s, i) ==
    [owner |-> s, seq |-> i - 1, body |-> m.frames[s][i].body,
     held |-> m.frames[s][i].held]

\* The saved records of a member are those of its frames.
LEMMA OwnedRecords ==
    ASSUME NEW m, NEW s \in Membership
    PROVE  Owned(snapshot(m), s) = {Saved(m, s, i) : i \in DOMAIN m.frames[s]}
  <1> DEFINE all == UNION {{Saved(m, t, i) : i \in DOMAIN m.frames[t]} : t \in Membership}
  <1>1. snapshot(m).sequences = all
    BY DEF snapshot, Saved
  <1>2. \A t, i : Saved(m, t, i).owner = t
    BY DEF Saved
  <1>3. \A q : q \in all <=> \E t \in Membership : \E i \in DOMAIN m.frames[t] : q = Saved(m, t, i)
    OBVIOUS
  <1> HIDE DEF all
  <1> QED BY <1>1, <1>2, <1>3 DEF Owned

\* One record per frame, numbered from zero without gaps.
LEMMA OwnedCount ==
    ASSUME NEW m, NEW s \in Membership, m.frames[s] \in Seq(Frame)
    PROVE  /\ Cardinality(Owned(snapshot(m), s)) = Len(m.frames[s])
           /\ {q.seq : q \in Owned(snapshot(m), s)} = 0..(Len(m.frames[s]) - 1)
  <1> DEFINE n == Len(m.frames[s])
             R == Owned(snapshot(m), s)
             f == [i \in 1..n |-> Saved(m, s, i)]
  <1>1. n \in Nat /\ DOMAIN m.frames[s] = 1..n
    OBVIOUS
  <1>2. R = {Saved(m, s, i) : i \in 1..n}
    BY <1>1, OwnedRecords
  <1>3. \A i \in 1..n : Saved(m, s, i).seq = i - 1
    BY DEF Saved
  <1> HIDE DEF n, R
  <1>4. f \in Bijection(1..n, R)
    <2>1. f \in [1..n -> R]
      BY <1>2
    <2>2. \A i, j \in 1..n : f[i] = f[j] => i = j
      BY <1>1, <1>3
    <2>3. \A q \in R : \E i \in 1..n : f[i] = q
      BY <1>2
    <2> QED BY <2>1, <2>2, <2>3 DEF Bijection, Injection, Surjection, IsInjective
  <1>5. IsFiniteSet(1..n) /\ Cardinality(1..n) = n
    BY <1>1, FS_Interval
  <1>6. Cardinality(R) = n
    BY <1>4, <1>5, FS_Bijection DEF ExistsBijection
  <1>7. {q.seq : q \in R} = 0..(n - 1)
    <2>1. \A q \in R : q.seq \in 0..(n - 1)
      BY <1>1, <1>2, <1>3
    <2>2. \A k \in 0..(n - 1) : k + 1 \in 1..n /\ Saved(m, s, k + 1).seq = k
      BY <1>1, <1>3
    <2> QED BY <1>2, <2>1, <2>2
  <1> QED BY <1>6, <1>7 DEF n, R

\* A frame is determined by its two fields.
LEMMA FrameFields ==
    ASSUME NEW f \in Frame PROVE f = [body |-> f.body, held |-> f.held]
  BY DEF Frame

\* Loading rebuilds each log exactly.
LEMMA FramesRestored ==
    ASSUME NEW m, NEW s \in Membership, m.frames[s] \in Seq(Frame)
    PROVE  RestoredFrames(snapshot(m), s) = m.frames[s]
  <1> DEFINE n == Len(m.frames[s])
             R == Owned(snapshot(m), s)
             q(i) == CHOOSE r \in R : r.seq = i - 1
  <1>1. n \in Nat /\ DOMAIN m.frames[s] = 1..n /\ Cardinality(R) = n
    BY OwnedCount
  <1>2. ASSUME NEW i \in 1..n PROVE q(i) = Saved(m, s, i)
    <2>1. R = {Saved(m, s, j) : j \in 1..n}
      BY <1>1, OwnedRecords
    <2>2. \A j \in 1..n : Saved(m, s, j).seq = j - 1
      BY DEF Saved
    <2>3. Saved(m, s, i) \in R /\ Saved(m, s, i).seq = i - 1
      BY <2>1, <2>2
    <2>4. \A r \in R : r.seq = i - 1 => r = Saved(m, s, i)
      BY <1>1, <2>1, <2>2
    <2> QED BY <2>3, <2>4
  <1>3. ASSUME NEW i \in 1..n
        PROVE  [body |-> q(i).body, held |-> q(i).held] = m.frames[s][i]
    <2>1. m.frames[s][i] \in Frame
      BY <1>1
    <2>2. /\ Saved(m, s, i).body = m.frames[s][i].body
          /\ Saved(m, s, i).held = m.frames[s][i].held
      BY DEF Saved
    <2> HIDE DEF q
    <2> QED BY <1>2, <2>1, <2>2, FrameFields
  <1>4. RestoredFrames(snapshot(m), s)
          = [i \in 1..n |-> [body |-> q(i).body, held |-> q(i).held]]
    BY <1>1 DEF RestoredFrames
  <1>5. m.frames[s] = [i \in 1..n |-> m.frames[s][i]]
    BY <1>1
  <1> HIDE DEF q, n
  <1> QED BY <1>3, <1>4, <1>5

\* A consistent mailbox is accepted by from_snapshot, which gives it back
\* field by field and recomputes what it is charged for.
LEMMA SnapshotRestores ==
    ASSUME NEW m, MailboxInv(m)
    PROVE  /\ ValidSnapshot(snapshot(m))
           /\ from_snapshot(snapshot(m))
                = [m EXCEPT !.queue_bytes = HeldBytes(m.frames)]
  <1> DEFINE z == snapshot(m)
  <1>1. /\ m \in MailboxOf(m.queue_bytes)
        /\ m.frames \in [Membership -> Seq(Frame)]
        /\ m.hash \in [Membership -> Hash \cup {None}]
        /\ m.next_seq \in [Membership -> Nat]
    BY DEF MailboxInv, IsMailbox, MailboxOf
  <1>2. /\ z.mailbox_id = m.mailbox_id /\ z.nameplate = m.nameplate
        /\ z.expires_at = m.expires_at /\ z.status = m.status
        /\ z.admission = m.admission
        /\ IsMember(m, "Claimant") =>
             z.hashes = <<m.hash["Allocator"], m.hash["Claimant"]>>
        /\ ~IsMember(m, "Claimant") => z.hashes = <<m.hash["Allocator"]>>
    BY DEF snapshot
  <1>3. \A s \in Membership :
          /\ Cardinality(Owned(z, s)) = Len(m.frames[s])
          /\ {q.seq : q \in Owned(z, s)} = 0..(Len(m.frames[s]) - 1)
          /\ Owned(z, s) = {Saved(m, s, i) : i \in DOMAIN m.frames[s]}
          /\ RestoredFrames(z, s) = m.frames[s]
    BY <1>1, OwnedCount, OwnedRecords, FramesRestored
  <1> HIDE DEF z
  <1>4. /\ Len(z.hashes) \in 1..2
        /\ Len(z.hashes) = 2 <=> IsMember(m, "Claimant")
        /\ z.hashes[1] = m.hash["Allocator"]
        /\ Len(z.hashes) = 2 => z.hashes[2] = m.hash["Claimant"]
    BY <1>2
  <1>5. ValidSnapshot(z)
    <2>1. ValidAdmission(z)
      BY <1>2, <1>4 DEF MailboxInv, Admitted, ValidAdmission, IsTerminal
    <2>2. ASSUME NEW s \in Membership PROVE ValidMember(z, s)
      <3>1. Len(m.frames[s]) <= MaxFrames
        BY DEF MailboxInv, LogsHeld
      <3>2. ASSUME NEW q \in Owned(z, s) PROVE BodyLen[q.body] \in 1..MaxBodyLen
        <4>1. PICK i \in DOMAIN m.frames[s] : q = Saved(m, s, i)
          BY <1>3
        <4>2. q.body = m.frames[s][i].body
          BY <4>1 DEF Saved
        <4> QED BY <4>2 DEF MailboxInv, LogsHeld
      <3> QED BY <1>3, <3>1, <3>2 DEF ValidMember
    <2>3. Len(z.hashes) = 1 => Owned(z, "Claimant") = {}
      BY <1>3, <1>4 DEF MailboxInv, LogsHeld, Membership
    <2> QED BY <1>2, <1>4, <2>1, <2>2, <2>3 DEF ValidSnapshot, MailboxInv, Admitted
  <1>6. from_snapshot(z) = [m EXCEPT !.queue_bytes = HeldBytes(m.frames)]
    <2>1. [s \in Membership |-> RestoredFrames(z, s)] = m.frames
      BY <1>1, <1>3
    <2>2. [s \in Membership |-> Len(m.frames[s])] = m.next_seq
      BY <1>1 DEF MailboxInv, LogsHeld
    <2>3. [s \in Membership |->
             IF s = "Allocator" THEN z.hashes[1]
             ELSE IF Len(z.hashes) = 2 THEN z.hashes[2] ELSE None] = m.hash
      BY <1>1, <1>4 DEF Membership, IsMember
    <2>4. from_snapshot(z)
            = [mailbox_id |-> m.mailbox_id, nameplate |-> m.nameplate,
               expires_at |-> m.expires_at, status |-> m.status,
               admission |-> m.admission, hash |-> m.hash,
               next_seq |-> m.next_seq, frames |-> m.frames,
               queue_bytes |-> HeldBytes(m.frames)]
      BY <1>2, <2>1, <2>2, <2>3, Zenon DEF from_snapshot
    <2>5. m = [mailbox_id |-> m.mailbox_id, nameplate |-> m.nameplate,
               expires_at |-> m.expires_at, status |-> m.status,
               admission |-> m.admission, hash |-> m.hash,
               next_seq |-> m.next_seq, frames |-> m.frames,
               queue_bytes |-> m.queue_bytes]
      BY <1>1 DEF MailboxOf
    <2> QED BY <2>4, <2>5
  <1> QED BY <1>5, <1>6 DEF z

\* Recomputing the charge disturbs nothing else.
LEMMA RechargedInv ==
    ASSUME NEW m, MailboxInv(m), NEW charge
    PROVE  LET n == [m EXCEPT !.queue_bytes = charge]
           IN  MailboxInv(n) /\ Forward(m, n) /\ n.frames = m.frames
                 /\ n.status = m.status
  <1> DEFINE n == [m EXCEPT !.queue_bytes = charge]
  <1>1. m \in MailboxOf(m.queue_bytes)
    BY DEF MailboxInv, IsMailbox
  <1>2. /\ n.mailbox_id = m.mailbox_id /\ n.nameplate = m.nameplate
        /\ n.expires_at = m.expires_at /\ n.hash = m.hash
        /\ n.next_seq = m.next_seq /\ n.frames = m.frames
        /\ n.status = m.status /\ n.admission = m.admission
        /\ n.queue_bytes = charge /\ n \in MailboxOf(charge)
    BY <1>1, Zenon DEF MailboxOf
  <1> HIDE DEF n
  <1>3. IsMailbox(n)
    BY <1>2 DEF IsMailbox
  <1>4. Admitted(n) /\ LogsHeld(n)
    BY <1>2 DEF MailboxInv, Admitted, LogsHeld, IsMember, IsTerminal
  <1>5. Forward(m, n)
    BY <1>2 DEF Forward
  <1> QED BY <1>2, <1>3, <1>4, <1>5 DEF MailboxInv, n

\* A v1 allocation yields a consistent mailbox or none.
LEMMA AllocateInv ==
    ASSUME NEW id \in MailboxId, NEW plate \in Nameplate \cup {None},
           NEW hash \in Hash, NEW now \in Nat, NEW ttl \in Nat \cup {None},
           allocate(id, plate, hash, now, ttl).state # None
    PROVE  MailboxInv(allocate(id, plate, hash, now, ttl).state)
  <1> DEFINE seconds == IF ttl = None THEN DefaultTtl ELSE ttl
  <1>1. seconds \in Nat /\ now + seconds \in Nat
    BY MailboxAssumption
  <1>2. seconds \in MinTtl..MaxTtl
    BY DEF allocate, Err
  <1>3. allocate(id, plate, hash, now, ttl).state
          = NewMailbox(id, plate, hash, now + seconds, V1)
    BY <1>2 DEF allocate, Ok
  <1>4. V1 \in Admission
    BY DEF Admission
  <1> HIDE DEF seconds
  <1> QED BY <1>1, <1>3, <1>4, NewMailboxInv

\* A v2 allocation yields a consistent mailbox or none.
LEMMA AllocateV2Inv ==
    ASSUME NEW id \in MailboxId, NEW c \in Commitment,
           NEW hash \in Hash, NEW now \in Nat, NEW ttl,
           allocate_v2(id, hash, c, now, ttl).state # None
    PROVE  MailboxInv(allocate_v2(id, hash, c, now, ttl).state)
  <1>1. now + V2Ttl \in Nat
    BY MailboxAssumption
  <1>2. allocate_v2(id, hash, c, now, ttl).state
          = NewMailbox(id, None, hash, now + V2Ttl, V2Pending(c))
    BY DEF allocate_v2, Ok, Err
  <1>3. V2Pending(c) \in Admission /\ V2Pending(c).kind = "V2Pending"
    BY DEF Admission, V2Pending
  <1> QED BY <1>1, <1>2, <1>3, NewMailboxInv

-----------------------------------------------------------------------------
(* The shapes a successful command can give a mailbox.                     *)

Stays(m, n) == n = m

Closes(m, n) ==
    ~IsTerminal(m) /\ \E reason \in CloseReason : n = terminate(m, reason).state

Pairs(m, n, hash) ==
    /\ ~IsTerminal(m) /\ ~IsMember(m, "Claimant")
    /\ \E adm : n = InstallClaimant(m, hash, adm).state

Stores(m, n) ==
    /\ ~IsTerminal(m)
    /\ \E side \in Membership, body \in Body :
        /\ IsMember(m, side) /\ Len(m.frames[side]) < MaxFrames
        /\ n = StoreFrame(m, side, body)

Releases(m, n, side, seq) ==
    /\ ~IsTerminal(m) /\ IsMember(m, side) /\ Holds(m, peer(side), seq)
    /\ n = ReleaseFrame(m, peer(side), seq)

\* A committed command leaves the mailbox as it was, removes it, closes it,
\* appends one frame or, for a claim alone, pairs it with the claimant's hash
\* and, for an Ack alone, releases one body.
LEMMA TransitionShapes ==
    ASSUME NEW m, MailboxInv(m), NEW now, NEW cmd \in Command, NEW n,
           n = transition(m, now, cmd).state, n # None
    PROVE  \/ Stays(m, n) \/ Closes(m, n) \/ Stores(m, n)
           \/ cmd.op \in {"Claim", "ClaimV2"} /\ Pairs(m, n, cmd.hash)
           \/ cmd.op = "Ack" /\ Releases(m, n, cmd.side, cmd.seq)
  <1>1. CASE now >= m.expires_at
    BY <1>1 DEF transition, reap, Ok, Stays
  <1>2. CASE ~(now >= m.expires_at) /\ IsTerminal(m)
    BY <1>2 DEF transition, Err
  <1>3. CASE ~(now >= m.expires_at) /\ ~IsTerminal(m)
    <2>1. n = Apply(m, cmd).state
      BY <1>3 DEF transition
    <2>2. CASE cmd.op = "Claim"
      <3>1. n = Claim(m, cmd.hash).state
        BY <2>1, <2>2 DEF Apply
      <3> QED BY <1>3, <2>2, <3>1 DEF Claim, Err, Closes, Pairs, CloseReason
    <2>3. CASE cmd.op = "ClaimV2"
      <3>1. n = ClaimV2(m, cmd.hash, cmd.token).state
        BY <2>1, <2>3 DEF Apply
      <3> QED BY <1>3, <2>3, <3>1 DEF ClaimV2, Err, Pairs
    <2>4. CASE cmd.op = "Open"
      <3>1. n = Open(m, cmd.hash).state
        BY <2>1, <2>4 DEF Apply
      <3> QED BY <3>1 DEF Open, Err, Ok, Stays
    <2>5. CASE /\ cmd.op = "Put" /\ cmd.side \in Membership
               /\ cmd.seq \in Nat /\ cmd.body \in Body
      <3>1. n = Put(m, cmd.side, cmd.seq, cmd.body).state
        BY <2>1, <2>5 DEF Apply
      <3>2. m.frames \in [Membership -> Seq(Frame)]
        BY DEF MailboxInv, IsMailbox, MailboxOf
      <3>3. Len(m.frames[cmd.side]) \in Nat
        BY <2>5, <3>2
      <3> DEFINE side == cmd.side
                 next == m.next_seq[side]
      <3>4. BodyLen[cmd.body] \in 1..MaxBodyLen /\ IsMember(m, side)
        BY <3>1 DEF Put, Err
      <3>5. CASE cmd.seq < next
        BY <1>3, <3>1, <3>4, <3>5
        DEF Put, Err, Ok, NoEffects, Stays, Closes, CloseReason
      <3>6. CASE ~(cmd.seq < next)
        <4>1. /\ ~(Len(m.frames[side]) >= MaxFrames)
              /\ n = StoreFrame(m, side, cmd.body)
          BY <3>1, <3>4, <3>6 DEF Put, Err, Ok, NoEffects
        <4>2. Len(m.frames[side]) < MaxFrames
          BY <3>3, <4>1, MaxFramesNat
        <4> QED BY <1>3, <2>5, <3>4, <4>1, <4>2 DEF Stores
      <3> QED BY <3>5, <3>6
    <2>6. CASE cmd.op = "Ack"
      <3>1. n = Ack(m, cmd.side, cmd.seq).state
        BY <2>1, <2>6 DEF Apply
      <3> QED BY <1>3, <2>6, <3>1 DEF Ack, Err, Ok, Stays, Releases
    <2>7. CASE cmd.op = "Close"
      <3>1. n = Close(m, cmd.side).state
        BY <2>1, <2>7 DEF Apply
      <3> QED BY <1>3, <3>1 DEF Close, Err, Closes, CloseReason
    <2> QED BY <2>2, <2>3, <2>4, <2>5, <2>6, <2>7 DEF Command
  <1> QED BY <1>1, <1>2, <1>3

\* Only a claim adds a hash, the claimant's own.
LEMMA TransitionHashes ==
    ASSUME NEW m, MailboxInv(m), NEW now, NEW cmd \in Command, NEW n,
           n = transition(m, now, cmd).state, n # None
    PROVE  \/ membership_hashes(n) = membership_hashes(m)
           \/ /\ cmd.op \in {"Claim", "ClaimV2"}
              /\ membership_hashes(n) = membership_hashes(m) \cup {cmd.hash}
  <1>1. CASE Stays(m, n)
    BY <1>1 DEF Stays
  <1>2. CASE Closes(m, n)
    <2>1. n.hash = m.hash
      BY <1>2, TerminateFields DEF Closes
    <2> QED BY <2>1 DEF membership_hashes
  <1>3. CASE Stores(m, n)
    <2>1. PICK side \in Membership, body \in Body : n = StoreFrame(m, side, body)
      BY <1>3 DEF Stores
    <2>2. m \in MailboxOf(m.queue_bytes)
      BY DEF MailboxInv, IsMailbox
    <2>3. StoreFrame(m, side, body).hash = m.hash
      BY <2>2 DEF StoreFrame, MailboxOf
    <2> QED BY <2>1, <2>3 DEF membership_hashes
  <1>4. CASE cmd.op = "Ack" /\ Releases(m, n, cmd.side, cmd.seq)
    <2>1. cmd.side \in Membership /\ cmd.seq \in Nat
      BY <1>4 DEF Command
    <2>2. peer(cmd.side) \in Membership /\ HasSeq(m, peer(cmd.side), cmd.seq)
      BY <1>4, <2>1, PeerIsMembership DEF Releases, Holds
    <2>3. n.hash = m.hash
      BY <1>4, <2>1, <2>2, ReleaseFrameFields DEF Releases
    <2> QED BY <2>3 DEF membership_hashes
  <1>5. CASE cmd.op \in {"Claim", "ClaimV2"} /\ Pairs(m, n, cmd.hash)
    <2>1. m \in MailboxOf(m.queue_bytes) /\ m.hash["Claimant"] = None
      BY <1>5 DEF MailboxInv, IsMailbox, Pairs, IsMember
    <2>2. n.hash = [m.hash EXCEPT !["Claimant"] = cmd.hash]
      BY <1>5, <2>1, Zenon DEF Pairs, InstallClaimant, Ok, NoEffects, MailboxOf
    <2>3. cmd.hash \in Hash /\ cmd.hash # None
      <3>1. cmd.op \in {"Claim", "ClaimV2"} => cmd.hash \in Hash
        BY DEF Command
      <3> QED BY <1>5, <3>1, MailboxAssumption
    <2>4. m.hash \in [Membership -> Hash \cup {None}]
      BY <2>1 DEF MailboxOf
    <2>5. /\ n.hash["Claimant"] = cmd.hash /\ n.hash["Allocator"] = m.hash["Allocator"]
      BY <2>2, <2>4 DEF Membership
    <2> QED BY <1>5, <2>1, <2>3, <2>5 DEF membership_hashes, Membership
  <1> QED BY <1>1, <1>2, <1>3, <1>4, <1>5, TransitionShapes
=============================================================================

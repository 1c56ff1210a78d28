-------------------------- MODULE MailboxRefinement --------------------------
(***************************************************************************)
(* Proof that a mailbox implements the abstract pair of logs, and that     *)
(* only the peer's acknowledgement releases a body, for every value of the *)
(* constants.                                                              *)
(***************************************************************************)
EXTENDS MailboxProofs

-----------------------------------------------------------------------------
(* What each shape does to the two logs.                                   *)

\* Closing keeps what was written and leaves nothing to read.
LEMMA ClosesView ==
    ASSUME NEW m, MailboxInv(m), NEW n, Closes(m, n)
    PROVE  /\ IsTerminal(n) /\ LogOf(n) = LogOf(m)
           /\ UnreadOf(n) = [s \in Membership |-> {}]
  <1>1. PICK reason \in CloseReason : n = terminate(m, reason).state
    BY DEF Closes
  <1>2. /\ n.status = reason
        /\ \A s \in Membership :
            /\ DOMAIN n.frames[s] = DOMAIN m.frames[s]
            /\ \A i \in DOMAIN m.frames[s] :
                /\ n.frames[s][i].body = m.frames[s][i].body
                /\ ~n.frames[s][i].held
    BY <1>1, TerminateFields
  <1>3. \A s \in Membership :
          [i \in DOMAIN n.frames[s] |-> n.frames[s][i].body]
            = [i \in DOMAIN m.frames[s] |-> m.frames[s][i].body]
    BY <1>2
  <1>4. \A s \in Membership, k \in Seqs : ~Holds(n, s, k)
    BY <1>2 DEF Holds, HasSeq
  <1> QED BY <1>2, <1>3, <1>4 DEF IsTerminal, LogOf, UnreadOf

\* Pairing changes the phase alone.
LEMMA PairsView ==
    ASSUME NEW m, MailboxInv(m), NEW n, NEW hash, Pairs(m, n, hash)
    PROVE  /\ m.status = "Waiting" /\ n.status = "Paired"
           /\ LogOf(n) = LogOf(m) /\ UnreadOf(n) = UnreadOf(m)
  <1>1. PICK adm : n = InstallClaimant(m, hash, adm).state
    BY DEF Pairs
  <1>2. m \in MailboxOf(m.queue_bytes)
    BY DEF MailboxInv, IsMailbox
  <1>3. n.status = "Paired" /\ n.frames = m.frames
    BY <1>1, <1>2, Zenon DEF InstallClaimant, Ok, NoEffects, MailboxOf
  <1>4. m.status = "Waiting"
    BY <1>2 DEF Pairs, MailboxInv, Admitted, MailboxOf, Status, IsTerminal
  <1> QED BY <1>3, <1>4 DEF LogOf, UnreadOf, Holds, HasSeq

\* An index past the end stays past the end of a log grown by one elsewhere.
LEMMA PastTheEnd ==
    ASSUME NEW k \in Nat, NEW len \in Nat, k + 1 \notin 1..len, k # len
    PROVE  k + 1 \notin 1..(len + 1)
  OBVIOUS

\* Storing a frame appends its body, unread, to the log of its owner.
LEMMA StoresView ==
    ASSUME NEW m, MailboxInv(m), NEW side \in Membership, NEW body \in Body,
           Len(m.frames[side]) < MaxFrames,
           NEW n, n = StoreFrame(m, side, body)
    PROVE  /\ n.status = m.status
           /\ LogOf(n) = [LogOf(m) EXCEPT ![side] = Append(@, body)]
           /\ UnreadOf(n) =
                [UnreadOf(m) EXCEPT ![side] = @ \cup {Len(LogOf(m)[side])}]
  <1> DEFINE f == [body |-> body, held |-> TRUE]
             old == m.frames[side]
             new == n.frames[side]
             bodies(q) == [i \in DOMAIN q |-> q[i].body]
  <1>1. /\ n.status = m.status
        /\ \A s \in Membership \ {side} : n.frames[s] = m.frames[s]
        /\ n.frames[side] = Append(m.frames[side], f)
    BY StoreFrameFields
  <1>2. old \in Seq(Frame)
    BY DEF MailboxInv, IsMailbox, MailboxOf
  <1>3. f \in Frame /\ f.body = body /\ f.held
    BY DEF Frame
  <1> HIDE DEF f
  <1>4. /\ DOMAIN old = 1..Len(old) /\ Len(old) \in Nat
        /\ DOMAIN new = 1..(Len(old) + 1)
        /\ \A i \in 1..Len(old) : new[i] = old[i]
        /\ new[Len(old) + 1] = f
    BY <1>1, <1>2, <1>3
  <1>5. \A i \in 1..Len(old) : old[i] \in Frame
    BY <1>2
  <1> HIDE DEF old, new
  <1>6. /\ bodies(old) \in Seq(Body) /\ Len(bodies(old)) = Len(old)
        /\ bodies(new) = Append(bodies(old), body)
    <2>1. \A i \in 1..Len(old) : old[i].body \in Body
      BY <1>5 DEF Frame
    <2>2. bodies(old) \in Seq(Body) /\ Len(bodies(old)) = Len(old)
      BY <1>4, <2>1
    <2>3. /\ DOMAIN Append(bodies(old), body) = 1..(Len(old) + 1)
          /\ \A i \in 1..Len(old) : Append(bodies(old), body)[i] = old[i].body
          /\ Append(bodies(old), body)[Len(old) + 1] = body
      BY <1>4, <2>2
    <2>4. Append(bodies(old), body) =
            [i \in 1..(Len(old) + 1) |-> Append(bodies(old), body)[i]]
      BY <2>2, <2>3
    <2>5. \A i \in 1..(Len(old) + 1) :
            new[i].body = Append(bodies(old), body)[i]
      BY <1>3, <1>4, <2>3
    <2> QED BY <1>4, <2>2, <2>4, <2>5
  <1>7. LogOf(n) = [LogOf(m) EXCEPT ![side] = Append(@, body)]
    <2>1. LogOf(m) = [s \in Membership |-> bodies(m.frames[s])]
      BY DEF LogOf
    <2>2. LogOf(n) = [s \in Membership |-> bodies(n.frames[s])]
      BY DEF LogOf
    <2>3. bodies(n.frames[side]) = Append(bodies(m.frames[side]), body)
      BY <1>6, Zenon DEF old, new
    <2>4. \A s \in Membership \ {side} : bodies(n.frames[s]) = bodies(m.frames[s])
      BY <1>1
    <2> HIDE DEF bodies
    <2> QED BY <2>1, <2>2, <2>3, <2>4
  <1>8. ASSUME NEW s \in Membership, NEW k \in Seqs
        PROVE  Holds(n, s, k) <=>
                 Holds(m, s, k) \/ (s = side /\ k = Len(old))
    <2>1. k \in Nat
      BY MaxFramesNat DEF Seqs
    <2>2. CASE s # side
      BY <1>1, <2>2 DEF Holds, HasSeq
    <2>3. CASE s = side
      <3>1. CASE k + 1 \in 1..Len(old)
        BY <1>4, <2>1, <2>3, <3>1 DEF Holds, HasSeq, old, new
      <3>2. CASE k = Len(old)
        BY <1>3, <1>4, <2>3, <3>2 DEF Holds, HasSeq, old, new
      <3>3. CASE k + 1 \notin 1..Len(old) /\ k # Len(old)
        <4>1. DOMAIN old = 1..Len(old) /\ DOMAIN new = 1..(Len(old) + 1)
              /\ Len(old) \in Nat
          BY <1>4
        <4>2. k + 1 \notin 1..Len(old) /\ k + 1 \notin 1..(Len(old) + 1)
          BY <2>1, <3>3, <4>1, PastTheEnd, Zenon
        <4>3. k + 1 \notin DOMAIN old /\ k + 1 \notin DOMAIN new
          BY <4>1, <4>2
        <4> QED BY <2>3, <3>3, <4>3 DEF Holds, HasSeq, old, new
      <3> QED BY <3>1, <3>2, <3>3
    <2> QED BY <2>2, <2>3
  <1>9. Len(old) \in Seqs /\ Len(LogOf(m)[side]) = Len(old)
    BY <1>4, <1>6, MaxFramesNat DEF Seqs, LogOf, old
  <1>10. UnreadOf(n) = [UnreadOf(m) EXCEPT ![side] = @ \cup {Len(old)}]
    BY <1>8, <1>9, Zenon DEF UnreadOf
  <1> QED BY <1>1, <1>7, <1>9, <1>10

\* Releasing a frame marks exactly one body of the peer as read.
LEMMA ReleasesView ==
    ASSUME NEW m, MailboxInv(m), NEW side \in Membership, NEW seq \in Nat,
           NEW n, Releases(m, n, side, seq)
    PROVE  /\ m.status = "Paired" /\ n.status = "Paired"
           /\ LogOf(n) = LogOf(m)
           /\ seq \in UnreadOf(m)[peer(side)]
           /\ UnreadOf(n) = [UnreadOf(m) EXCEPT ![peer(side)] = @ \ {seq}]
           /\ \A s \in Membership, k \in Seqs :
                Holds(m, s, k) /\ ~Holds(n, s, k) => s = peer(side) /\ k = seq
  <1> DEFINE owner == peer(side)
  <1>1. owner \in Membership /\ HasSeq(m, owner, seq)
    BY PeerIsMembership DEF Releases, Holds
  <1>2. /\ n.status = m.status
        /\ \A s \in Membership :
            /\ DOMAIN n.frames[s] = DOMAIN m.frames[s]
            /\ \A i \in DOMAIN m.frames[s] :
                /\ n.frames[s][i].body = m.frames[s][i].body
                /\ s = owner /\ i = seq + 1 => ~n.frames[s][i].held
                /\ ~(s = owner /\ i = seq + 1) => n.frames[s][i] = m.frames[s][i]
    BY <1>1, ReleaseFrameFields DEF Releases
  <1>3. m.status \in {"Waiting", "Paired"}
    BY DEF Releases, MailboxInv, IsMailbox, MailboxOf, Status, IsTerminal
  <1>4. IsMember(m, "Claimant")
    <2>1. CASE side = "Claimant"
      BY <2>1 DEF Releases
    <2>2. CASE side = "Allocator"
      <3>1. owner = "Claimant"
        BY <2>2 DEF peer
      <3>2. m.frames["Claimant"] # <<>>
        BY <1>1, <3>1 DEF HasSeq
      <3> QED BY <3>2 DEF MailboxInv, LogsHeld
    <2> QED BY <2>1, <2>2 DEF Membership
  <1>5. m.status = "Paired"
    BY <1>3, <1>4 DEF MailboxInv, Admitted
  <1>6. seq \in Seqs
    <2>1. /\ m.frames[owner] \in Seq(Frame) /\ Len(m.frames[owner]) <= MaxFrames
      BY <1>1 DEF MailboxInv, IsMailbox, MailboxOf, LogsHeld
    <2>2. seq + 1 \in 1..Len(m.frames[owner]) /\ Len(m.frames[owner]) \in Nat
      BY <1>1, <2>1 DEF HasSeq
    <2> QED BY <2>1, <2>2, MaxFramesNat DEF Seqs
  <1>7. LogOf(n) = LogOf(m)
    <2>1. \A s \in Membership :
            [i \in DOMAIN n.frames[s] |-> n.frames[s][i].body]
              = [i \in DOMAIN m.frames[s] |-> m.frames[s][i].body]
      BY <1>2
    <2> QED BY <2>1 DEF LogOf
  <1>8. ASSUME NEW s \in Membership, NEW k \in Seqs
        PROVE  Holds(n, s, k) <=> Holds(m, s, k) /\ ~(s = owner /\ k = seq)
    <2>1. k \in Nat
      BY MaxFramesNat DEF Seqs
    <2>2. CASE s = owner /\ k = seq
      BY <1>1, <1>2, <2>2 DEF Holds, HasSeq
    <2>3. CASE ~(s = owner /\ k = seq)
      <3>1. ~(s = owner /\ k + 1 = seq + 1)
        BY <2>1, <2>3
      <3> QED BY <1>2, <2>3, <3>1 DEF Holds, HasSeq
    <2> QED BY <2>2, <2>3
  <1>9. seq \in UnreadOf(m)[owner]
    BY <1>1, <1>6 DEF UnreadOf, Releases
  <1>10. UnreadOf(n) = [UnreadOf(m) EXCEPT ![owner] = @ \ {seq}]
    BY <1>1, <1>8, Zenon DEF UnreadOf
  <1> QED BY <1>2, <1>5, <1>7, <1>8, <1>9, <1>10

-----------------------------------------------------------------------------
(* The refinement.                                                         *)

\* A step that keeps the mailbox maps to a step of the two logs, or to none.
LEMMA KeptStepRefines ==
    ASSUME MailboxInv(mailbox), Live, mailbox' # None,
           \/ Stays(mailbox, mailbox') \/ Closes(mailbox, mailbox')
           \/ Stores(mailbox, mailbox') \/ \E hash : Pairs(mailbox, mailbox', hash)
           \/ \E side \in Membership, seq \in Nat :
                Releases(mailbox, mailbox', side, seq)
    PROVE  [Abs!Next]_(Abs!vars)
  <1> DEFINE m == mailbox
             n == mailbox'
  <1>0. /\ AbsPhase = IF IsTerminal(m) THEN "Ended" ELSE m.status
        /\ AbsLog = LogOf(m) /\ AbsUnread = UnreadOf(m)
        /\ AbsPhase' = IF IsTerminal(n) THEN "Ended" ELSE n.status
        /\ AbsLog' = LogOf(n) /\ AbsUnread' = UnreadOf(n)
    BY DEF AbsPhase, AbsLog, AbsUnread, Live, LogOf, UnreadOf, Holds, HasSeq, IsTerminal, Seqs
  <1>1. Membership = Abs!Side /\ \A s \in Membership : Abs!Other(s) = peer(s)
    BY DEF Membership, Abs!Side, Abs!Other, peer
  <1>2. m.status \in Status
    BY DEF MailboxInv, IsMailbox, MailboxOf
  <1> HIDE DEF m, n
  <1>3. CASE Stays(m, n)
    BY <1>0, <1>3 DEF Stays, Abs!vars
  <1>4. CASE Closes(m, n)
    <2>1. MailboxInv(m)
      BY DEF m
    <2>2. AbsPhase \in {"Waiting", "Paired"}
      BY <1>0, <1>2, <1>4 DEF Closes, IsTerminal, Status
    <2>3. /\ AbsPhase' = "Ended" /\ AbsLog' = AbsLog
          /\ AbsUnread' = [s \in Membership |-> {}]
      BY <1>0, <1>4, <2>1, ClosesView
    <2>4. Abs!End
      BY <1>1, <2>2, <2>3 DEF Abs!End
    <2> QED BY <2>4 DEF Abs!Next
  <1>5. CASE \E hash : Pairs(m, n, hash)
    <2>1. m.status = "Waiting" /\ n.status = "Paired"
          /\ AbsLog' = AbsLog /\ AbsUnread' = AbsUnread
      BY <1>0, <1>5, PairsView DEF m
    <2>2. AbsPhase = "Waiting" /\ AbsPhase' = "Paired"
      BY <1>0, <2>1 DEF IsTerminal, CloseReason
    <2>3. Abs!Join
      BY <2>1, <2>2 DEF Abs!Join
    <2> QED BY <2>3 DEF Abs!Next
  <1>6. CASE Stores(m, n)
    <2>1. PICK side \in Membership, body \in Body :
            /\ IsMember(m, side) /\ Len(m.frames[side]) < MaxFrames
            /\ n = StoreFrame(m, side, body)
      BY <1>6 DEF Stores
    <2>2. /\ n.status = m.status
          /\ AbsLog' = [AbsLog EXCEPT ![side] = Append(@, body)]
          /\ AbsUnread' = [AbsUnread EXCEPT ![side] = @ \cup {Len(AbsLog[side])}]
      BY <1>0, <2>1, StoresView DEF m
    <2>3. ~IsTerminal(m) /\ m.status \in {"Waiting", "Paired"}
      BY <1>2, <1>6 DEF Stores, IsTerminal, Status
    <2>4. AbsPhase' = AbsPhase /\ AbsPhase = m.status
      BY <1>0, <2>2, <2>3 DEF IsTerminal
    <2>5. AbsPhase = "Paired" \/ (AbsPhase = "Waiting" /\ side = "Allocator")
      BY <2>1, <2>3, <2>4 DEF MailboxInv, Admitted, Membership, m
    <2>6. Abs!Write(side, body)
      BY <2>2, <2>4, <2>5 DEF Abs!Write
    <2> QED BY <1>1, <2>6 DEF Abs!Next
  <1>7. CASE \E side \in Membership, seq \in Nat : Releases(m, n, side, seq)
    <2>1. PICK side \in Membership, seq \in Nat : Releases(m, n, side, seq)
      BY <1>7
    <2>2. /\ m.status = "Paired" /\ n.status = "Paired" /\ AbsLog' = AbsLog
          /\ seq \in AbsUnread[peer(side)]
          /\ AbsUnread' = [AbsUnread EXCEPT ![peer(side)] = @ \ {seq}]
      BY <1>0, <2>1, ReleasesView DEF m
    <2>3. AbsPhase = "Paired" /\ AbsPhase' = "Paired"
      BY <1>0, <2>2 DEF IsTerminal, CloseReason
    <2>4. Abs!Consume(side, seq) /\ seq \in AbsUnread[Abs!Other(side)]
      BY <1>1, <2>2, <2>3, Zenon DEF Abs!Consume
    <2> QED BY <1>1, <2>4 DEF Abs!Next
  <1> QED BY <1>3, <1>4, <1>5, <1>6, <1>7 DEF m, n

\* Reaping a mailbox discards both logs.
LEMMA VanishRefines ==
    ASSUME MailboxInv(mailbox), Live, mailbox' = None
    PROVE  Abs!Next
  <1>1. /\ AbsPhase' = "Absent" /\ AbsLog' = [s \in Membership |-> <<>>]
        /\ AbsUnread' = [s \in Membership |-> {}]
    BY DEF AbsPhase, AbsLog, AbsUnread, Live
  <1>2. AbsPhase # "Absent"
    BY DEF AbsPhase, MailboxInv, IsMailbox, MailboxOf, Status, IsTerminal, CloseReason
  <1>3. Abs!Vanish
    BY <1>1, <1>2 DEF Abs!Vanish, Abs!Empty, Abs!Side, Membership
  <1> QED BY <1>3 DEF Abs!Next

\* A fresh mailbox waits with two empty logs.
LEMMA BeginRefines ==
    ASSUME ~Live, NEW id, NEW plate, NEW hash, NEW t, NEW adm,
           mailbox' = NewMailbox(id, plate, hash, t, adm)
    PROVE  [Abs!Next]_(Abs!vars)
  <1>1. CASE mailbox' = None
    BY <1>1 DEF Live, AbsPhase, AbsLog, AbsUnread, Abs!vars
  <1>2. CASE mailbox' # None
    <2>1. /\ AbsPhase = "Absent" /\ AbsLog = [s \in Membership |-> <<>>]
          /\ AbsUnread = [s \in Membership |-> {}]
      BY DEF AbsPhase, AbsLog, AbsUnread
    <2>2. /\ mailbox'.status = "Waiting"
          /\ \A s \in Membership : mailbox'.frames[s] = <<>>
      BY DEF NewMailbox
    <2>3. AbsPhase' = "Waiting"
      BY <1>2, <2>2 DEF AbsPhase, Live, IsTerminal, CloseReason
    <2>4. AbsLog' = [s \in Membership |-> <<>>]
      <3>1. \A s \in Membership :
              [i \in DOMAIN mailbox'.frames[s] |-> mailbox'.frames[s][i].body] = <<>>
        BY <2>2
      <3> QED BY <1>2, <3>1 DEF AbsLog, Live, LogOf
    <2>5. AbsUnread' = [s \in Membership |-> {}]
      BY <1>2, <2>2 DEF AbsUnread, Live, UnreadOf, Holds, HasSeq
    <2>6. Abs!Begin
      BY <2>1, <2>3, <2>4, <2>5 DEF Abs!Begin
    <2> QED BY <2>6 DEF Abs!Next
  <1> QED BY <1>1, <1>2

\* A command of either member, or of a stranger.
LEMMA CommandRefines ==
    ASSUME Consistent, NEW cmd \in Command, Step(cmd)
    PROVE  [Abs!Next]_(Abs!vars)
  <1>1. PICK now \in Time : mailbox' = transition(mailbox, now, cmd).state
    BY DEF Step, Commit
  <1>2. Live /\ MailboxInv(mailbox)
    BY DEF Step, Consistent
  <1>3. CASE mailbox' = None
    BY <1>2, <1>3, VanishRefines
  <1>4. CASE mailbox' # None
    <2>1. \/ Stays(mailbox, mailbox') \/ Closes(mailbox, mailbox')
          \/ Stores(mailbox, mailbox') \/ \E hash : Pairs(mailbox, mailbox', hash)
          \/ cmd.op = "Ack" /\ Releases(mailbox, mailbox', cmd.side, cmd.seq)
      BY <1>1, <1>2, <1>4, TransitionShapes
    <2>2. cmd.op = "Ack" => cmd.side \in Membership /\ cmd.seq \in Nat
      BY DEF Command
    <2> QED BY <1>2, <1>4, <2>1, <2>2, KeptStepRefines
  <1> QED BY <1>3, <1>4

\* A restart is invisible to the two logs.
LEMMA RestartRefines ==
    ASSUME Consistent, Restart
    PROVE  [Abs!Next]_(Abs!vars)
  <1>1. Live /\ MailboxInv(mailbox)
    BY DEF Restart, Consistent
  <1>2. /\ mailbox'.frames = mailbox.frames
        /\ mailbox'.status = mailbox.status
    <2> DEFINE n == [mailbox EXCEPT !.queue_bytes = HeldBytes(mailbox.frames)]
    <2>1. mailbox' = n
      BY <1>1, SnapshotRestores DEF Restart
    <2>2. n.frames = mailbox.frames /\ n.status = mailbox.status
      BY <1>1, RechargedInv
    <2> HIDE DEF n
    <2> QED BY <2>1, <2>2
  <1>3. CASE mailbox' = None
    BY <1>1, <1>3, VanishRefines
  <1>4. CASE mailbox' # None
    BY <1>1, <1>2, <1>4
    DEF AbsPhase, AbsLog, AbsUnread, Live, LogOf, UnreadOf, Holds, HasSeq,
        IsTerminal, Seqs, Abs!vars
  <1> QED BY <1>3, <1>4

\* Every step of a consistent mailbox is one of the two logs, or invisible.
LEMMA StepRefines ==
    ASSUME Consistent, Next
    PROVE  [Abs!Next]_(Abs!vars)
  <1>1. CASE Allocate
    <2>1. PICK id \in MailboxId, plate \in Nameplate \cup {None}, hash \in Hash,
               now \in Time, ttl \in Ttl :
                 ~Live /\ Commit(allocate(id, plate, hash, now, ttl))
      BY <1>1 DEF Allocate
    <2>2. CASE mailbox' = None
      BY <2>1, <2>2 DEF Live, AbsPhase, AbsLog, AbsUnread, Abs!vars
    <2>3. CASE mailbox' # None
      BY <2>1, <2>3, BeginRefines DEF Commit, allocate, Ok, Err
    <2> QED BY <2>2, <2>3
  <1>2. CASE AllocateV2
    <2>1. PICK id \in MailboxId, c \in Commitment, hash \in Hash,
               now \in Time, ttl \in Ttl :
                 ~Live /\ Commit(allocate_v2(id, hash, c, now, ttl))
      BY <1>2 DEF AllocateV2
    <2>2. CASE mailbox' = None
      BY <2>1, <2>2 DEF Live, AbsPhase, AbsLog, AbsUnread, Abs!vars
    <2>3. CASE mailbox' # None
      BY <2>1, <2>3, BeginRefines DEF Commit, allocate_v2, Ok, Err
    <2> QED BY <2>2, <2>3
  <1>3. CASE ClaimStep
    BY <1>3, CommandRefines DEF ClaimStep, Command
  <1>4. CASE ClaimV2Step
    BY <1>4, CommandRefines DEF ClaimV2Step, Command
  <1>5. CASE OpenStep
    BY <1>5, CommandRefines DEF OpenStep, Command
  <1>6. CASE PutStep
    BY <1>6, CommandRefines, MaxFramesNat DEF PutStep, Command, Seqs
  <1>7. ASSUME NEW side \in Membership, NEW seq \in Seqs, AckStep(side, seq)
        PROVE  [Abs!Next]_(Abs!vars)
    BY <1>7, CommandRefines, MaxFramesNat DEF AckStep, Command, Seqs
  <1>8. CASE CloseStep
    BY <1>8, CommandRefines DEF CloseStep, Command
  <1>9. CASE Restart
    BY <1>9, RestartRefines
  <1> QED BY <1>1, <1>2, <1>3, <1>4, <1>5, <1>6, <1>7, <1>8, <1>9 DEF Next

\* The mailbox of mailbox.rs, with admission, retries, expiry and restarts,
\* implements a pair of append-only logs read by the opposite member.
THEOREM Refinement == Spec => ImplementsPairLog
  <1>1. Init => Abs!Init
    BY DEF Init, Live, AbsPhase, AbsLog, AbsUnread, Abs!Init, Abs!Empty, Abs!Side, Membership
  <1>2. Consistent /\ [Next]_mailbox => [Abs!Next]_(Abs!vars)
    <2>1. ASSUME UNCHANGED mailbox PROVE UNCHANGED Abs!vars
      BY <2>1 DEF Live, AbsPhase, AbsLog, AbsUnread, LogOf, UnreadOf, Holds,
                  HasSeq, IsTerminal, Seqs, Abs!vars
    <2> QED BY <2>1, StepRefines
  <1> QED BY <1>1, <1>2, Consistency, PTL DEF Spec, ImplementsPairLog, Abs!Spec

-----------------------------------------------------------------------------
(* Who releases a body.                                                    *)

\* A command that leaves the mailbox live and drops a body is an Ack of
\* exactly that body.
LEMMA OnlyReleasesDrop ==
    ASSUME NEW m, MailboxInv(m), NEW now, NEW cmd \in Command, NEW n,
           n = transition(m, now, cmd).state, n # None, ~IsTerminal(n),
           NEW s \in Membership, NEW k \in Seqs, Holds(m, s, k), ~Holds(n, s, k)
    PROVE  cmd.op = "Ack" /\ s = peer(cmd.side) /\ k = cmd.seq
  <1>1. ~Stays(m, n)
    BY DEF Stays
  <1>2. ~Closes(m, n)
    BY ClosesView
  <1>3. ASSUME UnreadOf(m)[s] \subseteq UnreadOf(n)[s] PROVE FALSE
    BY <1>3 DEF UnreadOf
  <1>4. \A hash : ~Pairs(m, n, hash)
    BY <1>3, PairsView
  <1>5. ASSUME Stores(m, n) PROVE FALSE
    <2>1. PICK side \in Membership, body \in Body :
            /\ Len(m.frames[side]) < MaxFrames /\ n = StoreFrame(m, side, body)
      BY <1>5 DEF Stores
    <2>2. UnreadOf(n) = [UnreadOf(m) EXCEPT ![side] = @ \cup {Len(LogOf(m)[side])}]
      BY <2>1, StoresView
    <2>3. UnreadOf(m)[s] \subseteq UnreadOf(n)[s]
      BY <2>2, Zenon DEF UnreadOf
    <2> QED BY <1>3, <2>3
  <1>6. cmd.op = "Ack" /\ Releases(m, n, cmd.side, cmd.seq)
    BY <1>1, <1>2, <1>4, <1>5, TransitionShapes
  <1>7. cmd.side \in Membership /\ cmd.seq \in Nat
    BY <1>6 DEF Command
  <1> QED BY <1>6, <1>7, ReleasesView

\* A body leaves a live mailbox only through the acknowledgement of exactly
\* that sequence by the peer of its owner (the Ack arm of transition).
THEOREM PeerReleases == Spec => OnlyPeerAckReleases
  <1> DEFINE Drops(s, n) ==
               /\ Live /\ Holds(mailbox, s, n)
               /\ mailbox' # None /\ ~IsTerminal(mailbox')
               /\ ~Holds(mailbox', s, n)
  <1>1. ASSUME Consistent, Next, NEW s \in Membership, NEW n \in Seqs, Drops(s, n)
        PROVE  AckStep(peer(s), n)
    <2>1. Live /\ MailboxInv(mailbox)
      BY <1>1 DEF Consistent
    <2>2. ASSUME NEW cmd \in Command, Step(cmd)
          PROVE  cmd.op = "Ack" /\ s = peer(cmd.side) /\ n = cmd.seq
      BY <1>1, <2>1, <2>2, OnlyReleasesDrop DEF Step, Commit
    <2>3. ~Allocate /\ ~AllocateV2
      BY <2>1 DEF Allocate, AllocateV2
    <2>4. \A cmd \in Command : Step(cmd) => cmd.op = "Ack"
      BY <2>2
    <2>5. /\ ~ClaimStep /\ ~ClaimV2Step /\ ~OpenStep /\ ~PutStep /\ ~CloseStep
      <3>1. ASSUME NEW hash \in Hash
            PROVE  /\ ~Step([op |-> "Claim", hash |-> hash])
                   /\ ~Step([op |-> "Open", hash |-> hash])
                   /\ \A token \in ClaimToken :
                        ~Step([op |-> "ClaimV2", hash |-> hash, token |-> token])
        <4>1. /\ [op |-> "Claim", hash |-> hash] \in Command
              /\ [op |-> "Open", hash |-> hash] \in Command
              /\ \A token \in ClaimToken :
                   [op |-> "ClaimV2", hash |-> hash, token |-> token] \in Command
          BY DEF Command
        <4> QED BY <2>4, <4>1
      <3>2. ASSUME NEW side \in Membership
            PROVE  /\ ~Step([op |-> "Close", side |-> side])
                   /\ \A seq \in Seqs, body \in Body :
                        ~Step([op |-> "Put", side |-> side, seq |-> seq, body |-> body])
        <4>1. /\ [op |-> "Close", side |-> side] \in Command
              /\ \A seq \in Seqs, body \in Body :
                   [op |-> "Put", side |-> side, seq |-> seq, body |-> body] \in Command
          BY MaxFramesNat DEF Command, Seqs
        <4> QED BY <2>4, <4>1
      <3> QED BY <3>1, <3>2, Zenon
              DEF ClaimStep, ClaimV2Step, OpenStep, PutStep, CloseStep
    <2>6. ASSUME Restart PROVE FALSE
      <3> DEFINE m == [mailbox EXCEPT !.queue_bytes = HeldBytes(mailbox.frames)]
      <3>1. mailbox' = m
        BY <2>1, <2>6, SnapshotRestores DEF Restart
      <3>2. m.frames = mailbox.frames
        BY <2>1, RechargedInv
      <3> HIDE DEF m
      <3> QED BY <1>1, <3>1, <3>2 DEF Holds, HasSeq
    <2>7. PICK side \in Membership, seq \in Seqs : AckStep(side, seq)
      BY <1>1, <2>3, <2>5, <2>6 DEF Next
    <2>8. s = peer(side) /\ n = seq
      BY <2>2, <2>7, MaxFramesNat DEF AckStep, Command, Seqs
    <2>9. peer(s) = side
      BY <2>8 DEF peer, Membership
    <2> QED BY <2>7, <2>8, <2>9
  <1>2. ASSUME Consistent, [Next]_mailbox
        PROVE  [\A s \in Membership, n \in Seqs :
                  Drops(s, n) => AckStep(peer(s), n)]_mailbox
    BY <1>1, <1>2
  <1> QED BY <1>2, Consistency, PTL DEF Spec, OnlyPeerAckReleases
=============================================================================

---------------------------- MODULE MailboxProofs ----------------------------
(***************************************************************************)
(* Machine-checked facts about one mailbox, for every number of frames,    *)
(* every set of identifiers, hashes, bodies and clock readings.            *)
(***************************************************************************)
EXTENDS Mailbox, MailboxOpsProofs

(* The specification.                                                      *)

\* Every step keeps a mailbox consistent and, if it keeps it at all, moves
\* it forward.
LEMMA StepInv ==
    ASSUME Consistent, Next
    PROVE  /\ Consistent'
           /\ Live /\ mailbox' # None => Forward(mailbox, mailbox')
  <1> USE DEF Consistent, Live
  <1>1. CASE Allocate
    <2>1. PICK id \in MailboxId, plate \in Nameplate \cup {None}, hash \in Hash,
               now \in Time, ttl \in Ttl :
                 ~Live /\ Commit(allocate(id, plate, hash, now, ttl))
      BY <1>1 DEF Allocate
    <2> QED BY <2>1, AllocateInv, TimeAssumption DEF Commit
  <1>2. CASE AllocateV2
    <2>1. PICK id \in MailboxId, c \in Commitment, hash \in Hash,
               now \in Time, ttl \in Ttl :
                 ~Live /\ Commit(allocate_v2(id, hash, c, now, ttl))
      BY <1>2 DEF AllocateV2
    <2> QED BY <2>1, AllocateV2Inv, TimeAssumption DEF Commit
  <1>3. ASSUME NEW cmd \in Command, Step(cmd)
        PROVE  /\ Consistent'
               /\ Live /\ mailbox' # None => Forward(mailbox, mailbox')
    <2>1. PICK now \in Time : Commit(transition(mailbox, now, cmd))
      BY <1>3 DEF Step
    <2> QED BY <1>3, <2>1, TransitionInv DEF Commit, Keeps, Step
  <1>4. CASE ClaimStep
    BY <1>4, <1>3 DEF ClaimStep, Command
  <1>5. CASE ClaimV2Step
    BY <1>5, <1>3 DEF ClaimV2Step, Command
  <1>6. CASE OpenStep
    BY <1>6, <1>3 DEF OpenStep, Command
  <1>7. CASE PutStep
    BY <1>7, <1>3, MaxFramesNat DEF PutStep, Command, Seqs
  <1>8. ASSUME NEW side \in Membership, NEW seq \in Seqs, AckStep(side, seq)
        PROVE  /\ Consistent'
               /\ Live /\ mailbox' # None => Forward(mailbox, mailbox')
    BY <1>8, <1>3, MaxFramesNat DEF AckStep, Command, Seqs
  <1>9. CASE CloseStep
    BY <1>9, <1>3 DEF CloseStep, Command
  <1>10. CASE Restart
    BY <1>10, SnapshotRestores, RechargedInv DEF Restart
  <1> QED BY <1>1, <1>2, <1>4, <1>5, <1>6, <1>7, <1>8, <1>9, <1>10 DEF Next

\* A mailbox is consistent in every reachable state (mailbox.rs allocate,
\* transition, from_snapshot).
THEOREM Consistency == Spec => []Consistent
  <1>1. Init => Consistent
    BY DEF Init, Consistent, Live
  <1>2. Consistent /\ [Next]_mailbox => Consistent'
    BY StepInv DEF Consistent, Live
  <1> QED BY <1>1, <1>2, PTL DEF Spec

\* The mailbox is well typed in every reachable state.
THEOREM TypeCorrect == Spec => []TypeOK
  <1>1. Consistent => TypeOK
    BY DEF Consistent, TypeOK, MailboxInv
  <1> QED BY <1>1, Consistency, PTL

\* A terminal mailbox retains no body and admits nobody, for any number of
\* frames (mailbox.rs terminate / delete_bodies).
THEOREM Tombstones == Spec => []TombstoneIsEmpty
  <1>1. Consistent => TombstoneIsEmpty
    <2> SUFFICES ASSUME Live, MailboxInv(mailbox), IsTerminal(mailbox)
                 PROVE  TombstoneIsEmpty
      BY DEF Consistent, TombstoneIsEmpty
    <2>1. ASSUME NEW s \in Membership, NEW n \in Seqs
          PROVE  ~Holds(mailbox, s, n)
      BY DEF MailboxInv, LogsHeld, Holds, HasSeq
    <2>2. mailbox.admission.commitment = None
      BY DEF MailboxInv, Admitted, IsTerminal, CloseReason, V1, V2Claimed, V2Closed
    <2> QED BY <2>1, <2>2 DEF TombstoneIsEmpty
  <1> QED BY <1>1, Consistency, PTL

\* Along every step, whatever the clock reads and however often the process
\* restarts, nothing a mailbox recorded is undone (see Forward).
THEOREM NothingUndone == Spec => NeverUndone
  <1>1. Consistent /\ [Next]_mailbox
          => [Live /\ mailbox' # None => Forward(mailbox, mailbox')]_mailbox
    BY StepInv
  <1> QED BY <1>1, Consistency, PTL DEF Spec, NeverUndone

\* Every reachable mailbox is accepted at the next start and comes back field
\* by field, its charge recomputed from the bodies it retains (mailbox.rs
\* snapshot / from_snapshot).
THEOREM Restorable ==
    Spec => [](Live => /\ ValidSnapshot(snapshot(mailbox))
                       /\ from_snapshot(snapshot(mailbox)) =
                            [mailbox EXCEPT !.queue_bytes = HeldBytes(mailbox.frames)])
  <1>1. Consistent =>
          (Live => /\ ValidSnapshot(snapshot(mailbox))
                   /\ from_snapshot(snapshot(mailbox)) =
                        [mailbox EXCEPT !.queue_bytes = HeldBytes(mailbox.frames)])
    BY SnapshotRestores DEF Consistent
  <1> QED BY <1>1, Consistency, PTL
=============================================================================

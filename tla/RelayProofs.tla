----------------------------- MODULE RelayProofs -----------------------------
(***************************************************************************)
(* Every call of the relay keeps the invariant of RelayStepProofs, and     *)
(* what follows for every reachable state.                                 *)
(***************************************************************************)
EXTENDS RelayStepProofs

-----------------------------------------------------------------------------
(* Calls on one mailbox.                                                   *)

\* A call that writes nothing.
LEMMA IdleInv ==
    ASSUME RelayInv, UNCHANGED <<service, links, disk>>
    PROVE  RelayInv'
  BY DEF RelayInv, TableInv, DiskInv, LinkInv, RoutesAgree, IndexesMirror, service, links

\* What a command makes of a mailbox of the table may be committed.
LEMMA TransitionKept ==
    ASSUME RelayInv, NEW id \in DOMAIN mailboxes, NEW now, NEW cmd \in Command,
           cmd.op \in {"Claim", "ClaimV2"} => cmd.hash \notin hashes,
           NEW n, n = transition(mailboxes[id], now, cmd).state, n # None
    PROVE  /\ Kept(n, id) /\ Forward(mailboxes[id], n)
           /\ \A h \in membership_hashes(n) :
                h \in membership_hashes(mailboxes[id]) \/ h \notin hashes
  <1>1. Kept(mailboxes[id], id)
    BY DEF RelayInv, TableInv
  <1>2. MailboxInv(n) /\ Forward(mailboxes[id], n)
    BY <1>1, TransitionInv DEF Kept, Keeps
  <1>3. n.mailbox_id = id
    BY <1>1, <1>2 DEF Forward, Kept
  <1>4. \/ membership_hashes(n) = membership_hashes(mailboxes[id])
        \/ /\ cmd.op \in {"Claim", "ClaimV2"}
           /\ membership_hashes(n) = membership_hashes(mailboxes[id]) \cup {cmd.hash}
    BY <1>1, TransitionHashes DEF Kept
  <1> QED BY <1>2, <1>3, <1>4 DEF Kept

\* A claim or an open that committed what a command made of the mailbox.
LEMMA JoinedInv ==
    ASSUME RelayInv, NEW c \in DOMAIN connections, NEW id \in DOMAIN mailboxes,
           NEW result, NEW side, NEW messages, Joined(c, id, result, side, messages),
           result.state # None =>
              /\ Kept(result.state, id) /\ Forward(mailboxes[id], result.state)
              /\ \A h \in membership_hashes(result.state) :
                    h \in membership_hashes(mailboxes[id]) \/ h \notin hashes,
           result.state # None /\ result.effects.terminal = None =>
              side \in Membership /\ IsMember(result.state, side)
    PROVE  RelayInv'
  <1>1. id \in MailboxId
    BY DEF RelayInv, TableInv
  <1>2. CASE StoreFails(c, id, result.state)
    BY <1>1, <1>2, StoreFailsInv
  <1>3. CASE /\ result.state # None /\ result.effects.terminal = None
             /\ CommitState(id, result.state) /\ attach(c, <<id, side>>)
    <2>1. TableInv' /\ DiskInv' /\ IndexesMirror' /\ MembersStay
      BY <1>3, CommitStateInv
    <2>2. /\ <<id, side>> \in Session
          /\ <<id, side>>[1] = id /\ <<id, side>>[2] = side
      BY <1>1, <1>3 DEF Session
    <2>3. id \in DOMAIN mailboxes' /\ mailboxes'[id] = result.state
      BY <1>3 DEF CommitState
    <2>4. LinkInv'
      BY <1>3, <2>1, <2>2, <2>3, LinksAttached DEF RelayInv
    <2> QED BY <2>1, <2>4 DEF RelayInv
  <1>4. CASE result.state # None /\ CommitState(id, result.state) /\ UNCHANGED links
    <2>1. TableInv' /\ DiskInv' /\ IndexesMirror' /\ MembersStay
      BY <1>4, CommitStateInv
    <2>2. LinkInv'
      BY <1>4, <2>1, LinksKept DEF RelayInv
    <2> QED BY <2>1, <2>2 DEF RelayInv
  <1>5. CASE CommitRemoval(id)
    BY <1>5, CommitRemovalInv
  <1> QED BY <1>2, <1>3, <1>4, <1>5 DEF Joined

\* A claim that ends without a terminal report has seated the claimant.
LEMMA ClaimSeats ==
    ASSUME NEW m, MailboxInv(m), NEW now \in Nat, NEW cmd \in Command, NEW r,
           r = transition(m, now, cmd), r.state # None,
           \/ cmd.op = "Claim" /\ r.effects.terminal = None
           \/ cmd.op = "ClaimV2"
    PROVE  IsMember(r.state, "Claimant")
  <1>1. m \in MailboxOf(m.queue_bytes) /\ m.expires_at \in Nat
    BY DEF MailboxInv, IsMailbox, MailboxOf
  <1>2. r = Apply(m, cmd)
    BY <1>1 DEF transition, reap, Ok, Err
  <1>3. cmd.hash \in Hash
    BY DEF Command
  <1>4. ASSUME NEW adm PROVE IsMember(InstallClaimant(m, cmd.hash, adm).state, "Claimant")
    <2>1. InstallClaimant(m, cmd.hash, adm).state.hash
            = [m.hash EXCEPT !["Claimant"] = cmd.hash]
      <3> DEFINE n == InstallClaimant(m, cmd.hash, adm).state
      <3>1. n = [m EXCEPT !.hash["Claimant"] = cmd.hash, !.status = "Paired",
                          !.admission = adm]
        BY DEF InstallClaimant, Ok
      <3> HIDE DEF n
      <3>2. n.hash = [m.hash EXCEPT !["Claimant"] = cmd.hash]
        BY <1>1, <3>1 DEF MailboxOf
      <3> QED BY <3>2 DEF n
    <2>2. m.hash \in [Membership -> Hash \cup {None}]
      BY <1>1 DEF MailboxOf
    <2> QED BY <1>3, <2>1, <2>2, MailboxAssumption DEF IsMember, Membership
  <1>5. CASE cmd.op = "Claim" /\ r.effects.terminal = None
    <2>1. r = Claim(m, cmd.hash)
      BY <1>2, <1>5 DEF Apply
    <2>2. terminate(m, "Crowded").effects.terminal = "Crowded" /\ "Crowded" # None
      <3>1. "Crowded" # None
        BY MailboxAssumption
      <3>2. terminate(m, "Crowded").effects = [NoEffects EXCEPT !.terminal = "Crowded"]
        BY DEF terminate, Ok
      <3> QED BY <3>1, <3>2 DEF NoEffects
    <2> QED BY <1>4, <1>5, <2>1, <2>2 DEF Claim, Err
  <1>6. CASE cmd.op = "ClaimV2"
    <2>1. r = ClaimV2(m, cmd.hash, cmd.token)
      BY <1>2, <1>6 DEF Apply
    <2> QED BY <1>4, <2>1 DEF ClaimV2, Err
  <1> QED BY <1>5, <1>6

\* An open that succeeds names a membership of the mailbox.
LEMMA OpenSeats ==
    ASSUME NEW m, MailboxInv(m), NEW now \in Nat, NEW hash \in Hash, NEW r,
           r = transition(m, now, [op |-> "Open", hash |-> hash]), r.state # None
    PROVE  r.effects.opened \in Membership /\ IsMember(r.state, r.effects.opened)
  <1> DEFINE side == membership_for_hash(m, hash)
             queue == QueuedSeqs(m, peer(side))
             effects == [NoEffects EXCEPT !.opened = side, !.deliver = queue]
  <1>1. m.expires_at \in Nat
    BY DEF MailboxInv, IsMailbox, MailboxOf
  <1>2. r = Open(m, hash)
    BY <1>1 DEF transition, reap, Ok, Err, Apply
  <1>3. side # None /\ r.state = m /\ r.effects = effects
    BY <1>2 DEF Open, Err, Ok
  <1> HIDE DEF side, queue
  <1>4. effects.opened = side
    BY DEF NoEffects
  <1> HIDE DEF effects
  <1>5. side \in Membership /\ m.hash[side] = hash /\ hash # None
    BY <1>3, MailboxAssumption DEF side, membership_for_hash, Membership
  <1> QED BY <1>3, <1>4, <1>5 DEF IsMember

LEMMA RefuseInv == ASSUME RelayInv, NEW c, NEW code, Refuse(c, code) PROVE RelayInv'
  BY IdleInv DEF Refuse, vars, service, links

LEMMA ReplyInv == ASSUME RelayInv, NEW message, Reply(message) PROVE RelayInv'
  BY IdleInv DEF Reply

\* A claim by nameplate or identifier.
LEMMA ClaimCallInv ==
    ASSUME RelayInv, NEW c, NEW now \in Time, NEW token \in Token, NEW locator,
           claim(c, now, token, locator)
    PROVE  RelayInv'
  <1> DEFINE hash == token_hash[token]
             id == resolve(locator)
             cmd == [op |-> "Claim", hash |-> hash]
             result == transition(mailboxes[id], now, cmd)
             messages == << <<c, "Claimed", id>> >>
  <1>1. CASE \/ \E code : Refuse(c, code)
             \/ \E message : Reply(message)
    BY <1>1, RefuseInv, ReplyInv
  <1>2. CASE /\ c \in DOMAIN connections /\ id # None /\ hash \notin hashes
             /\ Joined(c, id, result, "Claimant", messages)
    <2>1. id \in DOMAIN mailboxes
      BY <1>2 DEF resolve, RelayInv, IndexesMirror
    <2>2. hash \in Hash /\ now \in Nat
      BY RelayAssumption
    <2> HIDE DEF id, hash
    <2>3. cmd \in Command /\ cmd.op = "Claim" /\ cmd.hash = hash
      BY <2>2 DEF Command
    <2> HIDE DEF cmd
    <2>4. MailboxInv(mailboxes[id])
      BY <2>1 DEF RelayInv, TableInv, Kept
    <2>5. result.state # None =>
            /\ Kept(result.state, id) /\ Forward(mailboxes[id], result.state)
            /\ \A h \in membership_hashes(result.state) :
                  h \in membership_hashes(mailboxes[id]) \/ h \notin hashes
      BY <1>2, <2>1, <2>3, TransitionKept
    <2>6. result.state # None /\ result.effects.terminal = None =>
            "Claimant" \in Membership /\ IsMember(result.state, "Claimant")
      BY <2>2, <2>3, <2>4, ClaimSeats DEF Membership
    <2> HIDE DEF result, messages
    <2> QED BY <1>2, <2>1, <2>5, <2>6, JoinedInv
  <1> QED BY <1>1, <1>2 DEF claim, Bound

\* A claim with a one-use bearer.
LEMMA ClaimV2CallInv ==
    ASSUME RelayInv, NEW c, NEW now \in Time, NEW token \in Token,
           NEW id \in MailboxId, NEW bearer \in ClaimToken,
           claim_v2(c, now, id, token, bearer)
    PROVE  RelayInv'
  <1> DEFINE hash == token_hash[token]
             cmd == [op |-> "ClaimV2", hash |-> hash, token |-> bearer]
             result == transition(mailboxes[id], now, cmd)
             silent == [result EXCEPT !.effects.terminal = None]
             messages == << <<c, "Claimed", id>> >>
  <1>1. CASE \/ \E code : Refuse(c, code)
             \/ \E message : Reply(message)
    BY <1>1, RefuseInv, ReplyInv
  <1>2. CASE /\ c \in DOMAIN connections /\ id \in DOMAIN mailboxes
             /\ hash \notin hashes
             /\ Joined(c, id, silent, "Claimant", messages)
    <2>1. hash \in Hash /\ now \in Nat
      BY RelayAssumption
    <2> HIDE DEF hash
    <2>2. cmd \in Command /\ cmd.op = "ClaimV2" /\ cmd.hash = hash
      BY <2>1 DEF Command
    <2> HIDE DEF cmd
    <2>3. MailboxInv(mailboxes[id])
      BY <1>2 DEF RelayInv, TableInv, Kept
    <2>4. \E e, s, f : result = [error |-> e, state |-> s, effects |-> f]
      <3> DEFINE m == mailboxes[id]
      <3> HIDE DEF m
      <3>1. Apply(m, cmd) = ClaimV2(m, cmd.hash, cmd.token)
        BY <2>2 DEF Apply
      <3>2. \/ \E code : Apply(m, cmd) = Err(code)
            \/ \E n, f : Apply(m, cmd) = Ok(n, f)
        BY <3>1 DEF ClaimV2, InstallClaimant
      <3>3. \E n, f : reap(m, now) = Ok(n, f)
        BY DEF reap
      <3>4. \/ \E code : result = Err(code)
            \/ \E n, f : result = Ok(n, f)
        BY <3>2, <3>3 DEF transition, m
      <3> HIDE DEF result
      <3>5. ASSUME NEW code, result = Err(code)
            PROVE  \E e, s, f : result = [error |-> e, state |-> s, effects |-> f]
        BY <3>5, Zenon DEF Err
      <3>6. ASSUME NEW n, NEW g, result = Ok(n, g)
            PROVE  \E e, s, f : result = [error |-> e, state |-> s, effects |-> f]
        BY <3>6, Zenon DEF Ok
      <3> QED BY <3>4, <3>5, <3>6, Zenon
    <2>5. result.state # None =>
            /\ Kept(result.state, id) /\ Forward(mailboxes[id], result.state)
            /\ \A h \in membership_hashes(result.state) :
                  h \in membership_hashes(mailboxes[id]) \/ h \notin hashes
      BY <1>2, <2>2, TransitionKept
    <2>6. result.state # None =>
            "Claimant" \in Membership /\ IsMember(result.state, "Claimant")
      BY <2>1, <2>2, <2>3, ClaimSeats DEF Membership
    <2> HIDE DEF result, messages
    <2>7. silent.state = result.state
      BY <2>4
    <2> HIDE DEF silent
    <2> QED BY <1>2, <2>5, <2>6, <2>7, JoinedInv
  <1> QED BY <1>1, <1>2 DEF claim_v2, Bound

\* An open, by a connection that may hold another membership.
LEMMA OpenCallInv ==
    ASSUME RelayInv, NEW c, NEW now \in Time, NEW token \in Token,
           NEW id \in MailboxId, open(c, now, id, token)
    PROVE  RelayInv'
  <1> DEFINE hash == token_hash[token]
             cmd == [op |-> "Open", hash |-> hash]
             result == transition(mailboxes[id], now, cmd)
             side == result.effects.opened
             messages == Frames(c, result.effects.deliver)
  <1>1. CASE \/ \E code : Refuse(c, code)
             \/ \E message : Reply(message)
    BY <1>1, RefuseInv, ReplyInv
  <1>2. CASE /\ c \in DOMAIN connections /\ id \in DOMAIN mailboxes
             /\ Joined(c, id, result, side, messages)
    <2>1. hash \in Hash /\ now \in Nat
      BY RelayAssumption
    <2>2. MailboxInv(mailboxes[id])
      BY <1>2 DEF RelayInv, TableInv, Kept
    <2> HIDE DEF hash
    <2>3. result.state # None => side \in Membership /\ IsMember(result.state, side)
      BY <2>1, <2>2, OpenSeats
    <2>4. cmd \in Command /\ cmd.op = "Open"
      BY <2>1 DEF Command
    <2> HIDE DEF cmd
    <2>5. result.state # None =>
            /\ Kept(result.state, id) /\ Forward(mailboxes[id], result.state)
            /\ \A h \in membership_hashes(result.state) :
                  h \in membership_hashes(mailboxes[id]) \/ h \notin hashes
      BY <1>2, <2>4, TransitionKept
    <2> HIDE DEF result, messages, side
    <2> QED BY <1>2, <2>3, <2>5, JoinedInv
  <1> QED BY <1>1, <1>2 DEF open, Bound

\* The commands an attached member sends.
MemberKind ==
    [op : {"Put"}, seq : Nat, body : Body]
        \cup [op : {"Ack"}, seq : Nat, body : {None}]
        \cup [op : {"Close"}, seq : {None}, body : {None}]

\* The fields a command does not have are not read.
LEMMA MemberCommandReads ==
    ASSUME NEW kind \in MemberKind, NEW side \in Membership, NEW m, NEW now
    PROVE  \E cmd \in Command :
              /\ cmd.op \notin {"Claim", "ClaimV2"}
              /\ transition(m, now, MemberCommand(kind, side)) = transition(m, now, cmd)
  <1> DEFINE sent == MemberCommand(kind, side)
  <1>1. sent = [op |-> kind.op, side |-> side, seq |-> kind.seq, body |-> kind.body]
    BY DEF MemberCommand
  <1>2. \A cmd : Apply(m, sent) = Apply(m, cmd)
                    => transition(m, now, sent) = transition(m, now, cmd)
    BY DEF transition
  <1> HIDE DEF sent
  <1>3. CASE kind.op = "Put" /\ kind.seq \in Nat /\ kind.body \in Body
    <2> DEFINE cmd == [op |-> "Put", side |-> side, seq |-> kind.seq, body |-> kind.body]
    <2>1. cmd \in Command /\ cmd.op \notin {"Claim", "ClaimV2"} /\ cmd = sent
      BY <1>1, <1>3 DEF Command
    <2> QED BY <2>1 DEF sent
  <1>4. CASE kind.op = "Ack" /\ kind.seq \in Nat
    <2> DEFINE cmd == [op |-> "Ack", side |-> side, seq |-> kind.seq]
    <2>1. /\ cmd \in Command /\ cmd.op \notin {"Claim", "ClaimV2"}
          /\ cmd.op = "Ack" /\ cmd.side = side /\ cmd.seq = kind.seq
      BY <1>4 DEF Command
    <2>2. sent.op = "Ack" /\ sent.side = side /\ sent.seq = kind.seq
      BY <1>1, <1>4
    <2> HIDE DEF cmd
    <2>3. Apply(m, sent) = Apply(m, cmd)
      BY <2>1, <2>2 DEF Apply
    <2> QED BY <1>2, <2>1, <2>3 DEF sent
  <1>5. CASE kind.op = "Close"
    <2> DEFINE cmd == [op |-> "Close", side |-> side]
    <2>1. /\ cmd \in Command /\ cmd.op \notin {"Claim", "ClaimV2"}
          /\ cmd.op = "Close" /\ cmd.side = side
      BY DEF Command
    <2>2. sent.op = "Close" /\ sent.side = side
      BY <1>1, <1>5
    <2> HIDE DEF cmd
    <2>3. Apply(m, sent) = Apply(m, cmd)
      BY <2>1, <2>2 DEF Apply
    <2> QED BY <1>2, <2>1, <2>3 DEF sent
  <1> QED BY <1>3, <1>4, <1>5 DEF MemberKind

\* Put, Ack and Close.
LEMMA MemberCommandInv ==
    ASSUME RelayInv, NEW c, NEW now, NEW kind \in MemberKind,
           member_command(c, now, kind)
    PROVE  RelayInv'
  <1> DEFINE id == connections[c][1]
             side == connections[c][2]
             result == transition(mailboxes[id], now, MemberCommand(kind, side))
  <1>1. CASE \/ \E code : Refuse(c, code)
             \/ \E message : Reply(message)
    BY <1>1, RefuseInv, ReplyInv
  <1>2. CASE /\ Bound(c) /\ Attached(c) /\ id \in DOMAIN mailboxes
             /\ \/ StoreFails(c, id, result.state)
                \/ result.state = None /\ CommitRemoval(id)
                \/ /\ result.state # None /\ CommitState(id, result.state)
                   /\ UNCHANGED links
    <2>1. connections[c] \in Session
      BY <1>2 DEF Bound, Attached, SessionOf, RelayInv, LinkInv
    <2>2. side \in Membership /\ id \in MailboxId
      BY <2>1, SessionFields
    <2>3. PICK cmd \in Command :
            /\ cmd.op \notin {"Claim", "ClaimV2"}
            /\ result = transition(mailboxes[id], now, cmd)
      BY <2>2, MemberCommandReads
    <2> HIDE DEF result, id, side
    <2>4. result.state # None =>
            /\ Kept(result.state, id) /\ Forward(mailboxes[id], result.state)
            /\ \A h \in membership_hashes(result.state) :
                  h \in membership_hashes(mailboxes[id]) \/ h \notin hashes
      BY <1>2, <2>3, TransitionKept
    <2>5. CASE StoreFails(c, id, result.state)
      BY <2>2, <2>4, <2>5, StoreFailsInv
    <2>6. CASE CommitRemoval(id)
      BY <1>2, <2>6, CommitRemovalInv
    <2>7. CASE result.state # None /\ CommitState(id, result.state) /\ UNCHANGED links
      <3>1. TableInv' /\ DiskInv' /\ IndexesMirror' /\ MembersStay
        BY <1>2, <2>4, <2>7, CommitStateInv
      <3>2. LinkInv'
        BY <2>7, <3>1, LinksKept DEF RelayInv
      <3> QED BY <3>1, <3>2 DEF RelayInv
    <2> QED BY <1>2, <2>5, <2>6, <2>7
  <1> QED BY <1>1, <1>2, Zenon DEF member_command

-----------------------------------------------------------------------------
(* Allocation.                                                             *)

LEMMA NewMailboxFields ==
    ASSUME NEW id, NEW plate, NEW hash, hash # None, NEW t, NEW adm,
           NEW m, m = NewMailbox(id, plate, hash, t, adm)
    PROVE  /\ m.mailbox_id = id /\ m.nameplate = plate
           /\ m.hash["Allocator"] = hash /\ membership_hashes(m) = {hash}
  <1>1. m.mailbox_id = id /\ m.nameplate = plate
    BY DEF NewMailbox
  <1>2. m.hash = [s \in Membership |-> IF s = "Allocator" THEN hash ELSE None]
    BY DEF NewMailbox
  <1>3. m.hash["Allocator"] = hash /\ m.hash["Claimant"] = None
    BY <1>2 DEF Membership
  <1> QED BY <1>1, <1>3 DEF membership_hashes, Membership

LEMMA AllocateCallInv ==
    ASSUME RelayInv, NEW c, NEW now \in Time, NEW id \in MailboxId,
           NEW token \in Token, NEW mode \in 0..2, NEW plate \in Nameplate,
           NEW ttl \in Ttl, allocate_v1(c, now, id, token, mode, plate, ttl)
    PROVE  RelayInv'
  <1> DEFINE hash == token_hash[token]
             name == IF mode = 1 THEN plate ELSE None
             result == allocate(id, name, hash, now, ttl)
             m == result.state
  <1>1. CASE \/ \E code : Refuse(c, code)
             \/ \E message : Reply(message)
    BY <1>1, RefuseInv, ReplyInv
  <1>2. CASE /\ AllocationOpen(c) /\ ~Collides(id, hash)
             /\ mode = 1 => plate \notin DOMAIN nameplates
             /\ result.error = None /\ Install(c, m)
    <2>1. hash \in Hash /\ hash # None /\ now \in Nat /\ ttl \in Nat \cup {None}
      BY RelayAssumption, MailboxAssumption
    <2>2. name \in Nameplate \cup {None}
      OBVIOUS
    <2>3. name = None \/ name \notin DOMAIN nameplates
      BY <1>2
    <2> HIDE DEF hash, name
    <2> DEFINE seconds == IF ttl = None THEN DefaultTtl ELSE ttl
    <2>4. m = NewMailbox(id, name, hash, now + seconds, V1)
      <3>1. seconds \in MinTtl..MaxTtl
        BY <1>2, MailboxAssumption DEF allocate, Err
      <3> QED BY <3>1 DEF allocate, Ok
    <2>5. MailboxInv(m)
      <3>1. seconds \in Nat /\ now + seconds \in Nat
        BY <2>1, MailboxAssumption
      <3>2. V1 \in Admission
        BY DEF Admission
      <3> HIDE DEF seconds, m
      <3> QED BY <2>1, <2>2, <2>4, <3>1, <3>2, NewMailboxInv
    <2> HIDE DEF seconds, m
    <2>6. /\ m.mailbox_id = id /\ m.nameplate = name
          /\ m.hash["Allocator"] = hash /\ membership_hashes(m) = {hash}
      BY <2>1, <2>4, NewMailboxFields
    <2>7. c \in DOMAIN connections /\ id \notin DOMAIN mailboxes /\ hash \notin hashes
      BY <1>2 DEF AllocationOpen, Bound, Collides
    <2> QED BY <1>2, <2>1, <2>3, <2>5, <2>6, <2>7, InstallInv
  <1> QED BY <1>1, <1>2 DEF allocate_v1, Allocated

LEMMA AllocateV2CallInv ==
    ASSUME RelayInv, NEW c, NEW now \in Time, NEW id \in MailboxId,
           NEW token \in Token, NEW commitment \in Commitment, NEW ttl \in Ttl,
           allocate_v2_call(c, now, id, token, commitment, ttl)
    PROVE  RelayInv'
  <1> DEFINE hash == token_hash[token]
             result == allocate_v2(id, hash, commitment, now, ttl)
             m == result.state
  <1>1. CASE \/ \E code : Refuse(c, code)
             \/ \E message : Reply(message)
    BY <1>1, RefuseInv, ReplyInv
  <1>2. CASE /\ AllocationOpen(c) /\ ~Collides(id, hash)
             /\ result.error = None /\ Install(c, m)
    <2>1. hash \in Hash /\ hash # None /\ now \in Nat
      BY RelayAssumption, MailboxAssumption
    <2> HIDE DEF hash
    <2>2. m = NewMailbox(id, None, hash, now + V2Ttl, V2Pending(commitment))
      <3>1. ttl \in {None, V2Ttl}
        BY <1>2, MailboxAssumption DEF allocate_v2, Err
      <3> QED BY <3>1 DEF allocate_v2, Ok
    <2>3. MailboxInv(m)
      <3>1. now + V2Ttl \in Nat
        BY <2>1, MailboxAssumption
      <3>2. V2Pending(commitment) \in Admission /\ V2Pending(commitment).kind = "V2Pending"
        BY DEF Admission, V2Pending
      <3> HIDE DEF m
      <3> QED BY <2>1, <2>2, <3>1, <3>2, NewMailboxInv
    <2> HIDE DEF m
    <2>4. /\ m.mailbox_id = id /\ m.nameplate = None
          /\ m.hash["Allocator"] = hash /\ membership_hashes(m) = {hash}
      BY <2>1, <2>2, NewMailboxFields
    <2>5. c \in DOMAIN connections /\ id \notin DOMAIN mailboxes /\ hash \notin hashes
      BY <1>2 DEF AllocationOpen, Bound, Collides
    <2> QED BY <1>2, <2>1, <2>3, <2>4, <2>5, InstallInv
  <1> QED BY <1>1, <1>2 DEF allocate_v2_call, Allocated

-----------------------------------------------------------------------------
(* Calls over many mailboxes.                                              *)

\* The expiry index names mailboxes of the table alone.
LEMMA DueInTable ==
    ASSUME RelayInv, NEW e \in expiries
    PROVE  e[2] \in DOMAIN mailboxes
  BY DEF RelayInv, IndexesMirror, IndexExpiries

LEMMA SweepInv ==
    ASSUME RelayInv, NEW now, sweep(now)
    PROVE  RelayInv'
  <1>1. CASE SweepDone(now)
    <2> DEFINE due == {e[2] : e \in {x \in expiries : x[1] <= now}}
    <2>1. Forget(due) /\ disk' = Without(disk, due)
      BY <1>1 DEF SweepDone
    <2>2. due \subseteq DOMAIN mailboxes /\ due = due \cup {}
      BY DueInTable
    <2> HIDE DEF due
    <2>3. disk' = Without(disk, due \cup {})
      BY <2>1, <2>2
    <2> QED BY <2>1, <2>2, <2>3, ForgetInv
  <1>2. CASE SweepStops(now)
    <2> DEFINE due == {e \in expiries : e[1] <= now}
               ids(entries) == {e[2] : e \in entries}
    <2>1. \E fault \in Faults, done \in SUBSET due : \E failed \in due \ done :
            /\ Forget(ids(done))
            /\ disk' = Without(disk, ids(done) \cup
                          (IF fault = "lost" THEN {} ELSE {failed[2]}))
      BY <1>2, Zenon DEF SweepStops
    <2>2. PICK fault \in Faults, done \in SUBSET expiries, failed \in expiries :
            /\ Forget(ids(done))
            /\ disk' = Without(disk, ids(done) \cup
                          (IF fault = "lost" THEN {} ELSE {failed[2]}))
      BY <2>1, Zenon
    <2>3. ids(done) \subseteq DOMAIN mailboxes
      BY DueInTable
    <2> DEFINE more == IF fault = "lost" THEN {} ELSE {failed[2]}
    <2> HIDE DEF ids, more
    <2>4. disk' = Without(disk, ids(done) \cup more)
      BY <2>2 DEF more
    <2> QED BY <2>2, <2>3, <2>4, ForgetInv
  <1> QED BY <1>1, <1>2 DEF sweep

\* A part of the mailboxes is settled; the directory may have seen more.
LEMMA PartSettled ==
    ASSUME RelayInv, NEW all, NEW after, Settles(all, after),
           NEW done, done \subseteq all, NEW more, more \subseteq all,
           Settle(done, after), disk' = DiskSettled(done \cup more, after)
    PROVE  RelayInv'
  <1> DEFINE ids == done \cup more
  <1>1. Settles(done, after)
    BY DEF Settles
  <1>2. /\ DOMAIN disk' \subseteq DOMAIN disk \cup ids
        /\ \A i \in DOMAIN disk' \cap ids :
              after[i] # None /\ disk'[i] = snapshot(after[i])
        /\ \A i \in DOMAIN disk' \ ids : disk'[i] = disk[i]
    BY DEF DiskSettled
  <1>3. \A i \in all : /\ i \in DOMAIN mailboxes /\ i \in MailboxId
                       /\ after[i] # None =>
                            Kept(after[i], i) /\ Forward(mailboxes[i], after[i])
    BY DEF Settles, RelayInv, TableInv
  <1>4. DOMAIN disk' \subseteq MailboxId
    BY <1>2, <1>3 DEF RelayInv, DiskInv
  <1>5. ASSUME NEW i \in DOMAIN disk'
        PROVE  \/ i \in done /\ after[i] # None /\ disk'[i] = snapshot(after[i])
               \/ i \notin done /\ i \in DOMAIN disk /\ disk'[i] = disk[i]
               \/ /\ i \notin done /\ i \in DOMAIN mailboxes
                  /\ \E m : /\ Kept(m, i) /\ disk'[i] = snapshot(m)
                            /\ Forward(mailboxes[i], m)
    BY <1>2, <1>3
  <1> QED BY <1>1, <1>4, <1>5, SettleInv

LEMMA EmergencyCloseInv ==
    ASSUME RelayInv, NEW now, emergency_close(now)
    PROVE  RelayInv'
  <1> DEFINE open_ids == {id \in DOMAIN mailboxes : ~IsTerminal(mailboxes[id])}
             cmd == [op |-> "Close", side |-> "Allocator"]
             after == [id \in open_ids |-> transition(mailboxes[id], now, cmd).state]
  <1>1. cmd \in Command /\ cmd.op = "Close"
    BY DEF Command, Membership
  <1>2. \/ Settle(open_ids, after) /\ disk' = DiskSettled(open_ids, after)
        \/ \E fault \in Faults, done \in SUBSET open_ids : \E failed \in open_ids \ done :
              /\ Settle(done, after)
              /\ disk' = DiskSettled(done \cup
                            (IF fault = "lost" THEN {} ELSE {failed}), after)
    BY Zenon DEF emergency_close
  <1> HIDE DEF cmd
  <1>3. ASSUME NEW i \in open_ids, after[i] # None
        PROVE  /\ Kept(after[i], i) /\ Forward(mailboxes[i], after[i])
               /\ membership_hashes(after[i]) = membership_hashes(mailboxes[i])
    <2> DEFINE n == after[i]
    <2>1. /\ i \in DOMAIN mailboxes /\ n # None
          /\ n = transition(mailboxes[i], now, cmd).state
      BY <1>3
    <2>2. MailboxInv(mailboxes[i])
      BY <2>1 DEF RelayInv, TableInv, Kept
    <2> HIDE DEF n, after
    <2>3. Kept(n, i) /\ Forward(mailboxes[i], n)
      BY <1>1, <2>1, TransitionKept
    <2>4. membership_hashes(n) = membership_hashes(mailboxes[i])
      BY <1>1, <2>1, <2>2, TransitionHashes
    <2> QED BY <2>3, <2>4 DEF n
  <1> HIDE DEF after
  <1>4. Settles(open_ids, after)
    BY <1>3 DEF Settles
  <1> HIDE DEF open_ids
  <1>5. CASE Settle(open_ids, after) /\ disk' = DiskSettled(open_ids, after)
    <2>1. open_ids = open_ids \cup {}
      OBVIOUS
    <2>2. disk' = DiskSettled(open_ids \cup {}, after)
      BY <1>5, <2>1
    <2> QED BY <1>4, <1>5, <2>2, PartSettled
  <1>6. ASSUME NEW fault \in Faults, NEW done \in SUBSET open_ids,
               NEW failed \in open_ids \ done, Settle(done, after),
               disk' = DiskSettled(done \cup
                          (IF fault = "lost" THEN {} ELSE {failed}), after)
        PROVE  RelayInv'
    <2> DEFINE more == IF fault = "lost" THEN {} ELSE {failed}
    <2>1. disk' = DiskSettled(done \cup more, after) /\ more \subseteq open_ids
      BY <1>6
    <2> HIDE DEF more
    <2> QED BY <1>4, <1>6, <2>1, PartSettled
  <1> QED BY <1>2, <1>5, <1>6, Zenon

-----------------------------------------------------------------------------
(* The specification.                                                      *)

LEMMA InvInit == ASSUME Init PROVE RelayInv
  <1>1. /\ mailboxes = <<>> /\ nameplates = <<>> /\ hashes = {} /\ expiries = {}
        /\ connections = <<>> /\ routes = <<>> /\ disk = <<>>
    BY DEF Init
  <1>2. TableInv
    BY <1>1 DEF TableInv
  <1>3. DiskInv
    BY <1>1 DEF DiskInv
  <1>4. LinkInv
    BY <1>1 DEF LinkInv, RoutesAgree
  <1>5. IndexesMirror
    BY <1>1 DEF IndexesMirror, IndexHashes, IndexExpiries
  <1> QED BY <1>2, <1>3, <1>4, <1>5 DEF RelayInv

\* Calls that change a connection alone.
LEMMA ConnectionInv ==
    ASSUME RelayInv, NEW c \in Conn, Bind(c) \/ disconnect(c)
    PROVE  RelayInv'
  <1>1. UNCHANGED <<service, disk>>
    BY DEF Bind, disconnect
  <1>2. TableInv' /\ DiskInv' /\ IndexesMirror' /\ MembersStay
    BY <1>1, Zenon DEF RelayInv, TableInv, DiskInv, IndexesMirror, MembersStay, service
  <1>3. CASE Bind(c)
    <2>1. LinkInv'
      BY <1>2, <1>3, LinksBound DEF Bind, RelayInv
    <2> QED BY <1>2, <2>1 DEF RelayInv
  <1>4. CASE disconnect(c)
    <2>1. LinkInv'
      BY <1>2, <1>4, LinksDropped DEF disconnect, Bound, RelayInv
    <2> QED BY <1>2, <2>1 DEF RelayInv
  <1> QED BY <1>3, <1>4

\* Every call, every failed write and every restart keeps the invariant.
LEMMA InvStep == ASSUME RelayInv, [Next]_vars PROVE RelayInv'
  <1>1. CASE UNCHANGED vars
    BY <1>1, IdleInv DEF vars, service, links
  <1>2. ASSUME NEW c \in Conn,
               \/ RateLimited(c) \/ Bind(c) \/ Unbound(c) \/ Ping(c) \/ disconnect(c)
               \/ AllocationRefused(c) \/ ClaimRefused(c) \/ MemberRefused(c)
        PROVE  RelayInv'
    <2>1. CASE Bind(c) \/ disconnect(c)
      BY <2>1, ConnectionInv
    <2>2. CASE Ping(c)
      BY <2>2, ReplyInv DEF Ping
    <2>3. CASE \/ RateLimited(c) \/ Unbound(c) \/ AllocationRefused(c)
               \/ ClaimRefused(c) \/ MemberRefused(c)
      BY <2>3, RefuseInv
      DEF RateLimited, Unbound, AllocationRefused, ClaimRefused, MemberRefused
    <2> QED BY <1>2, <2>1, <2>2, <2>3
  <1>3. ASSUME NEW c \in Conn, NEW now \in Time, NEW id \in MailboxId,
               NEW token \in Token, NEW ttl \in Ttl,
               \/ \E mode \in 0..2, plate \in Nameplate :
                     allocate_v1(c, now, id, token, mode, plate, ttl)
               \/ \E commitment \in Commitment :
                     allocate_v2_call(c, now, id, token, commitment, ttl)
        PROVE  RelayInv'
    <2>1. ASSUME NEW mode \in 0..2, NEW plate \in Nameplate,
                 allocate_v1(c, now, id, token, mode, plate, ttl)
          PROVE  RelayInv'
      BY <2>1, AllocateCallInv
    <2>2. ASSUME NEW commitment \in Commitment,
                 allocate_v2_call(c, now, id, token, commitment, ttl)
          PROVE  RelayInv'
      BY <2>2, AllocateV2CallInv
    <2> QED BY <1>3, <2>1, <2>2, Zenon
  <1>4. ASSUME NEW c \in Conn, NEW now \in Time, NEW token \in Token,
               \/ \E locator \in MailboxId \cup Nameplate : claim(c, now, token, locator)
               \/ \E id \in MailboxId :
                    \/ \E bearer \in ClaimToken : claim_v2(c, now, id, token, bearer)
                    \/ open(c, now, id, token)
        PROVE  RelayInv'
    BY <1>4, ClaimCallInv, ClaimV2CallInv, OpenCallInv
  <1>5. ASSUME NEW c \in Conn, NEW now \in Time,
               \/ \E seq \in Seqs : \/ \E body \in Body : put(c, now, seq, body)
                                    \/ ack(c, now, seq)
               \/ close(c, now)
        PROVE  RelayInv'
    <2>1. Seqs \subseteq Nat
      BY MailboxAssumption DEF Seqs
    <2>2. ASSUME NEW seq \in Seqs, NEW body \in Body
          PROVE  [op |-> "Put", seq |-> seq, body |-> body] \in MemberKind
      <3>1. [op |-> "Put", seq |-> seq, body |-> body] \in [op : {"Put"}, seq : Nat, body : Body]
        BY <2>1
      <3> QED BY <3>1 DEF MemberKind
    <2>3. ASSUME NEW seq \in Seqs
          PROVE  [op |-> "Ack", seq |-> seq, body |-> None] \in MemberKind
      <3>1. [op |-> "Ack", seq |-> seq, body |-> None] \in [op : {"Ack"}, seq : Nat, body : {None}]
        BY <2>1
      <3> QED BY <3>1 DEF MemberKind
    <2>4. [op |-> "Close", seq |-> None, body |-> None] \in MemberKind
      BY DEF MemberKind
    <2>5. ASSUME NEW seq \in Seqs, NEW body \in Body, put(c, now, seq, body)
          PROVE  RelayInv'
      BY <2>2, <2>5, MemberCommandInv DEF put
    <2>6. ASSUME NEW seq \in Seqs, ack(c, now, seq)
          PROVE  RelayInv'
      BY <2>3, <2>6, MemberCommandInv DEF ack
    <2>7. CASE close(c, now)
      BY <2>4, <2>7, MemberCommandInv DEF close
    <2> QED BY <1>5, <2>5, <2>6, <2>7
  <1>6. ASSUME NEW now \in Time, sweep(now) \/ emergency_close(now)
        PROVE  RelayInv'
    BY <1>6, SweepInv, EmergencyCloseInv
  <1>7. CASE disable_allocation
    BY <1>7, IdleInv DEF disable_allocation
  <1>8. ASSUME NEW enabled \in BOOLEAN, with_store(enabled)
        PROVE  RelayInv'
    BY <1>8, WithStoreInv
  <1>9. CASE RefuseToStart
    BY <1>9, RefuseToStartInv
  <1> QED BY <1>1, <1>2, <1>3, <1>4, <1>5, <1>6, <1>7, <1>8, <1>9, Zenon DEF Next

\* The table, its indexes, the routes and the directory agree in every
\* reachable state of the relay, whatever the store does.
THEOREM Invariance == Spec => []RelayInv
  <1>1. Init => RelayInv
    BY InvInit
  <1>2. RelayInv /\ [Next]_vars => RelayInv'
    BY InvStep
  <1> QED BY <1>1, <1>2, PTL DEF Spec

\* RoutesAgree: routes and sessions are two views of one relation, and only
\* memberships of retained mailboxes are routed (attach, disconnect and
\* remove_mailbox_indexes).
THEOREM Routes == Spec => []RoutesAgree
  <1>1. RelayInv => RoutesAgree
    BY DEF RelayInv, LinkInv
  <1> QED BY <1>1, Invariance, PTL

\* IndexesMirror: the indexes kept by hand in allocate, commit and
\* remove_mailbox_indexes are what the mailbox table implies.
THEOREM Indexes == Spec => []IndexesMirror
  <1>1. RelayInv => IndexesMirror
    BY DEF RelayInv
  <1> QED BY <1>1, Invariance, PTL

\* DiskNeverBehind: no failed write leaves a record that takes back what the
\* table holds, so no restart undoes what a client was told (commit, put).
THEOREM NeverBehind == Spec => []DiskNeverBehind
  <1>1. ASSUME RelayInv, NEW id \in DOMAIN mailboxes \cap DOMAIN disk
        PROVE  Forward(mailboxes[id], from_snapshot(disk[id]))
    <2>1. PICK m : /\ Kept(m, id) /\ disk[id] = snapshot(m)
                   /\ Forward(mailboxes[id], m)
      BY <1>1 DEF RelayInv, DiskInv
    <2> DEFINE n == [m EXCEPT !.queue_bytes = HeldBytes(m.frames)]
    <2>2. from_snapshot(disk[id]) = n
      BY <2>1, SnapshotRestores DEF Kept
    <2>3. m \in MailboxOf(m.queue_bytes)
      BY <2>1 DEF Kept, MailboxInv, IsMailbox
    <2>4. /\ n.mailbox_id = m.mailbox_id /\ n.nameplate = m.nameplate
          /\ n.expires_at = m.expires_at /\ n.hash = m.hash
          /\ n.frames = m.frames /\ n.status = m.status /\ n.admission = m.admission
      BY <2>3 DEF MailboxOf
    <2> HIDE DEF n
    <2> QED BY <2>1, <2>2, <2>4, Zenon DEF Forward
  <1>2. RelayInv => DiskNeverBehind
    BY <1>1 DEF DiskNeverBehind
  <1> QED BY <1>2, Invariance, PTL
=============================================================================

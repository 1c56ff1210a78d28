------------------------------ MODULE Credential ------------------------------
(***************************************************************************)
(* A credential/v2 ceremony: the allocator and the claimant session, the   *)
(* consumers that persist their checkpoints, and the mailbox between them. *)
(* The mailbox is the pair of logs of PairLog (which Mailbox implements)   *)
(* with the relay's answers; a connection is a queue each way and is lost  *)
(* with the process that held it.  A crash loses everything but the last   *)
(* durable checkpoint.                                                     *)
(*                                                                         *)
(* late says that the carrier's expiry has passed.  Consumers prepare      *)
(* objects that fit the phase they are in; patient ones also wait for the  *)
(* relay's acknowledgement of the object before.                           *)
(***************************************************************************)
EXTENDS CredentialOps, FiniteSets

CONSTANTS
    Secret,            \* the secret C
    Setting            \* ceremonies: [guesses, bodies, allocator, claimant,
                       \*   patient, crashes, repeats, expires], that is what
                       \*   the claimant may enter, the bodies an object of
                       \*   each kind may have, the kinds each consumer may
                       \*   prepare, whether consumers are patient, whether
                       \*   the expiry passes, and two bounds, on the crashes
                       \*   of each side and on the generation up to which
                       \*   an object is repeated

ASSUME CredentialAssumption ==
    \A t \in Setting :
        /\ Secret \in t.guesses /\ None \notin t.guesses
        /\ t.allocator \cup t.claimant \subseteq Kind
        /\ DOMAIN t.bodies = Kind
        /\ t.patient \in BOOLEAN /\ t.expires \in BOOLEAN
        /\ t.crashes \in [Side -> Nat] /\ t.repeats \in Nat

A == INSTANCE CredentialAllocator
C == INSTANCE CredentialClaimant

VARIABLES
    setting,               \* the ceremony this is
    allocator, claimant,   \* the sessions, None while down
    draft,                 \* checkpoint handed to each consumer, or None
    disk,                  \* last durable checkpoint of each side, or None
    phase, log, unread,    \* the mailbox
    attached,              \* sides with a live connection to the mailbox
    inbox, outbox,         \* messages from and to the relay
    late,
    crashes,
    sent,                  \* history: <<side, sequence, frame>> put
    told,                  \* history: notices each consumer got
    installed              \* history: receipts the claimant committed

sessions == <<allocator, claimant>>
storage == <<draft, disk>>
mailbox == <<phase, log, unread>>
network == <<inbox, outbox, attached>>
history == <<sent, told, installed>>
vars == <<setting, allocator, claimant, draft, disk, phase, log, unread, attached,
          inbox, outbox, late, crashes, sent, told, installed>>

IsRelayMessage(e) == e.op \in {"AllocateV2", "ClaimV2", "Open", "Put", "Ack", "Bind"}
IsNotice(e) == ~IsRelayMessage(e)
EffectsOf(e) == {e[i] : i \in DOMAIN e}

Frame(n, f) == [op |-> "Frame", seq |-> n, frame |-> f]
Acknowledged(n) == [op |-> "Acknowledged", seq |-> n]
Reply(op) == [op |-> op]

Init ==
    /\ setting \in Setting
    /\ allocator = None /\ claimant = None
    /\ draft = [s \in Side |-> None] /\ disk = [s \in Side |-> None]
    /\ phase = "Absent"
    /\ log = [s \in Side |-> <<>>] /\ unread = [s \in Side |-> {}]
    /\ attached = {}
    /\ inbox = [s \in Side |-> <<>>] /\ outbox = [s \in Side |-> <<>>]
    /\ late = FALSE
    /\ crashes = [s \in Side |-> 0]
    /\ sent = {} /\ told = [s \in Side |-> {}] /\ installed = {}

-----------------------------------------------------------------------------
(* What a call of a session does outside it.                               *)

Release(side, effects) ==
    /\ outbox' = [outbox EXCEPT ![side] = @ \o SelectSeq(effects, IsRelayMessage)]
    /\ sent' = sent \cup {<<side, e.seq, e.frame>> :
                            e \in {x \in EffectsOf(effects) : x.op = "Put"}}
    /\ told' = [told EXCEPT ![side] = @ \cup
                    {e \in EffectsOf(effects) : IsNotice(e)}]

Hand(side, ck) ==
    draft' = IF ck = None THEN draft ELSE [draft EXCEPT ![side] = ck]

AllocatorDoes(r) ==
    /\ allocator' = r.s
    /\ Release("Allocator", r.out) /\ Hand("Allocator", r.ck)
    /\ UNCHANGED <<setting, claimant, disk, phase, log, unread, attached, late,
                   crashes, installed>>

ClaimantDoes(r) ==
    /\ claimant' = r.s
    /\ Release("Claimant", r.out) /\ Hand("Claimant", r.ck)
    /\ UNCHANGED <<setting, allocator, disk, phase, log, unread, attached, late,
                   crashes>>

Take(side) == inbox' = [inbox EXCEPT ![side] = Tail(@)]

-----------------------------------------------------------------------------
(* The allocator and its consumer.                                         *)

AllocatorNew ==
    /\ allocator = None /\ disk["Allocator"] = None /\ crashes["Allocator"] = 0
    /\ AllocatorDoes(A!Effect(A!NewAllocator(0), <<Reply("Bind")>>, None))
    /\ UNCHANGED inbox

AllocatorReceive ==
    /\ allocator # None /\ inbox["Allocator"] # <<>>
    /\ allocator.gate = None /\ allocator.state # "Terminal"
    /\ AllocatorDoes(A!receive(allocator, Head(inbox["Allocator"]), late))
    /\ Take("Allocator")

AllocatorPrepare(kind, body) ==
    /\ allocator # None /\ allocator.state = "Established"
    /\ allocator.gate = None /\ ~allocator.resume
    /\ setting.patient => ~allocator.rl.waiting
    /\ \/ kind = "Offer" /\ pre_offer(allocator.ep.phase)
       \/ next_phase(allocator.ep.phase, kind) # {} /\ allocator.ep.intent # None
    /\ AllocatorDoes(A!prepare_application_object(
           allocator, Successor(allocator.ep.last, kind, body), late))
    /\ UNCHANGED inbox

\* The consumer repeats the object it prepared last.
AllocatorRepeat ==
    /\ allocator # None /\ allocator.state = "Established"
    /\ allocator.gate = None /\ ~allocator.resume
    /\ allocator.ep.gen < setting.repeats
    /\ allocator.ep.last # None /\ allocator.ep.last.sender = "Allocator"
    /\ allocator.rl.cached # None
    /\ AllocatorDoes(A!prepare_application_object(
           allocator, allocator.ep.last.obj, late))
    /\ UNCHANGED inbox

AllocatorPersisted ==
    /\ allocator # None /\ allocator.gate # None
    /\ disk["Allocator"] # None /\ disk["Allocator"].gen = allocator.gate
    /\ AllocatorDoes(A!checkpoint_persisted(allocator))
    /\ UNCHANGED inbox

\* A restart reads the last durable checkpoint and binds a new connection.
AllocatorRestore ==
    /\ allocator = None /\ disk["Allocator"] # None
    /\ A!AllocatorRestores(disk["Allocator"], late)
    /\ AllocatorDoes(A!Effect(
           A!restore(disk["Allocator"], crashes["Allocator"]),
           <<Reply("Bind")>>, None))
    /\ UNCHANGED inbox

-----------------------------------------------------------------------------
(* The claimant, its consumer and its person.                              *)

\* The carrier reaches the claimant once the allocator has shown it.
ClaimantNew(guess) ==
    /\ claimant = None /\ crashes["Claimant"] = 0
    /\ A!Msg("PendingAllocation") \in told["Allocator"]
    /\ ClaimantDoes(C!Effect(C!NewClaimant(guess, 0), <<Reply("Bind")>>, None))
    /\ UNCHANGED <<inbox, installed>>

ClaimantReceive ==
    /\ claimant # None /\ inbox["Claimant"] # <<>>
    /\ claimant.gate = None /\ claimant.phase # "Terminal"
    /\ ~C!has_durable_endpoint_phase(claimant)
    /\ ~(setting.patient /\ claimant.phase = "AwaitProfileAuthorisation")
    /\ ClaimantDoes(C!receive(claimant, Head(inbox["Claimant"]), late))
    /\ Take("Claimant") /\ UNCHANGED installed

ClaimantAuthorise ==
    /\ claimant # None /\ claimant.phase = "AwaitProfileAuthorisation"
    /\ ClaimantDoes(C!authorise_authenticated_profile(claimant))
    /\ UNCHANGED <<inbox, installed>>

Ready(kind) ==
    /\ claimant # None /\ claimant.phase = "Established" /\ claimant.gate = None
    /\ setting.patient => ~claimant.rl.waiting
    /\ \/ kind = "AccountSelect" /\ claimant.ep.phase = "Begin"
       \/ next_phase(claimant.ep.phase, kind) # {} /\ claimant.ep.intent # None

ClaimantPrepare(kind, body) ==
    /\ Ready(kind) /\ kind \notin {"FinalApprove", "Payload"}
    /\ ClaimantDoes(C!prepare_application_object(
           claimant, Successor(claimant.ep.last, kind, body)))
    /\ UNCHANGED <<inbox, installed>>

ClaimantFinalApprove(body) ==
    /\ Ready("FinalApprove")
    /\ ClaimantDoes(C!prepare_final_approval(
           claimant, Successor(claimant.ep.last, "FinalApprove", body), late))
    /\ UNCHANGED <<inbox, installed>>

ClaimantPayload(body) ==
    /\ Ready("Payload")
    /\ ClaimantDoes(C!prepare_payload(
           claimant, Successor(claimant.ep.last, "Payload", body), late))
    /\ UNCHANGED <<inbox, installed>>

ClaimantPersisted ==
    /\ claimant # None /\ claimant.gate # None
    /\ disk["Claimant"] # None /\ disk["Claimant"].gen = claimant.gate
    /\ ClaimantDoes(C!checkpoint_persisted(claimant))
    /\ UNCHANGED <<inbox, installed>>

\* After final approval no call takes a frame before the payload is sent, and
\* none takes anything but frames and acknowledgements: the shell drops what
\* is refused, and keeps a frame until the payload is acknowledged.
ClaimantReceiveDurable ==
    /\ claimant # None /\ inbox["Claimant"] # <<>>
    /\ claimant.gate = None /\ claimant.phase = "Established"
    /\ C!has_durable_endpoint_phase(claimant)
    /\ LET m == Head(inbox["Claimant"]) IN
       /\ ~(m.op = "Frame" /\ claimant.ep.phase = "PayloadSent")
       /\ ClaimantDoes(C!receive_durable(claimant, m, late))
    /\ Take("Claimant") /\ UNCHANGED installed

\* The shell keeps the receipt while an acknowledgement behind it is awaited.
NextAcknowledgement ==
    CHOOSE i \in DOMAIN inbox["Claimant"] :
        /\ inbox["Claimant"][i].op # "Frame"
        /\ \A j \in 1..(i - 1) : inbox["Claimant"][j].op = "Frame"

ClaimantReceiveBehindFrame ==
    /\ claimant # None /\ claimant.gate = None /\ claimant.phase = "Established"
    /\ C!EndpointPhase(claimant) = "PayloadSent" /\ claimant.rl.waiting
    /\ inbox["Claimant"] # <<>> /\ Head(inbox["Claimant"]).op = "Frame"
    /\ \E i \in DOMAIN inbox["Claimant"] : inbox["Claimant"][i].op # "Frame"
    /\ ClaimantDoes(C!receive_durable(
           claimant, inbox["Claimant"][NextAcknowledgement], late))
    /\ inbox' = [inbox EXCEPT !["Claimant"] =
                    SubSeq(@, 1, NextAcknowledgement - 1)
                    \o SubSeq(@, NextAcknowledgement + 1, Len(@))]
    /\ UNCHANGED installed

ClaimantReceiveReceipt ==
    /\ claimant # None /\ C!AwaitsReceipt(claimant)
    /\ claimant.rl.cached = None
    /\ inbox["Claimant"] # <<>>
    /\ LET m == Head(inbox["Claimant"]) IN
       /\ m.op = "Frame"
       /\ ClaimantDoes(C!receive_recovered_receipt(claimant, m.seq, m.frame))
    /\ Take("Claimant") /\ UNCHANGED installed

\* The hub publishes the final status that the allocator's receipt carries.
Published ==
    IF disk["Allocator"] = None THEN {}
    ELSE {A!terminal_receipt_binding(disk["Allocator"])} \ {None}

ClaimantRecoverReceipt ==
    /\ claimant # None /\ C!AwaitsReceipt(claimant)
    /\ \E o \in Published :
         ClaimantDoes(C!authenticate_recovered_receipt_object(claimant, o))
    /\ UNCHANGED <<inbox, installed>>

ClaimantCommit ==
    /\ claimant # None /\ claimant.receipt # None /\ claimant.gate = None
    /\ claimant.receipt.seq # None => claimant.rl.cached = None
    /\ installed' = installed \cup {claimant.receipt.obj}
    /\ ClaimantDoes(C!commit_recovered_receipt(claimant))
    /\ UNCHANGED inbox

\* The restored claimant's shell opens the membership, then resumes.
ClaimantRestore ==
    /\ claimant = None /\ disk["Claimant"] # None /\ installed = {}
    /\ restore_checkpoint("Claimant", disk["Claimant"], late)
    /\ LET c == C!restore(disk["Claimant"]) IN
       ClaimantDoes(C!Effect(c, <<Reply("Open")>> \o C!resume_cached_frame(c).out,
                             None))
    /\ UNCHANGED <<inbox, installed>>

-----------------------------------------------------------------------------
(* Persistence, crashes, time.                                             *)

Persist(side) ==
    /\ draft[side] # None
    /\ disk' = [disk EXCEPT ![side] = draft[side]]
    /\ draft' = [draft EXCEPT ![side] = None]
    /\ UNCHANGED <<setting, sessions, mailbox, network, late, crashes, history>>

Crash(side) ==
    /\ crashes[side] < setting.crashes[side]
    /\ IF side = "Allocator"
       THEN /\ allocator # None /\ allocator' = None /\ UNCHANGED claimant
       ELSE /\ claimant # None /\ claimant' = None /\ UNCHANGED allocator
    /\ crashes' = [crashes EXCEPT ![side] = @ + 1]
    /\ draft' = [draft EXCEPT ![side] = None]
    /\ inbox' = [inbox EXCEPT ![side] = <<>>]
    /\ outbox' = [outbox EXCEPT ![side] = <<>>]
    /\ attached' = attached \ {side}
    /\ UNCHANGED <<setting, disk, mailbox, late, history>>

Expire ==
    /\ setting.expires /\ ~late /\ late' = TRUE
    /\ UNCHANGED <<setting, sessions, storage, mailbox, network, crashes, history>>

-----------------------------------------------------------------------------
(* The relay.                                                              *)

To(box, side, m) ==
    IF side \in attached THEN [box EXCEPT ![side] = Append(@, m)] ELSE box

Handles(side, op) ==
    /\ outbox[side] # <<>> /\ Head(outbox[side]).op = op
    /\ outbox' = [outbox EXCEPT ![side] = Tail(@)]
    /\ UNCHANGED <<setting, sessions, storage, late, crashes, history>>

Answer(side, m) == inbox' = [inbox EXCEPT ![side] = Append(@, m)]

RelayBind(side) ==
    /\ Handles(side, "Bind")
    /\ Answer(side, Reply("Welcome"))
    /\ UNCHANGED <<mailbox, attached>>

RelayAllocate ==
    /\ Handles("Allocator", "AllocateV2")
    /\ phase = "Absent" /\ phase' = "Waiting"
    /\ attached' = attached \cup {"Allocator"}
    /\ Answer("Allocator", Reply("AllocatedV2"))
    /\ UNCHANGED <<log, unread>>

RelayClaim ==
    /\ Handles("Claimant", "ClaimV2")
    /\ IF phase = "Waiting"
       THEN /\ phase' = "Paired"
            /\ attached' = attached \cup {"Claimant"}
            /\ Answer("Claimant", Reply("ClaimedV2"))
       ELSE /\ Answer("Claimant", Reply("Error"))
            /\ UNCHANGED <<phase, attached>>
    /\ UNCHANGED <<log, unread>>

\* Open replays what the peer stored and this side has not acknowledged.
Replay(side) ==
    LET peer == opposite(side)
        all == [i \in 1..Len(log[peer]) |-> Frame(i - 1, log[peer][i])]
    IN  SelectSeq(all, LAMBDA m : m.seq \in unread[peer])

RelayOpen(side) ==
    /\ Handles(side, "Open")
    /\ IF phase \in {"Waiting", "Paired"}
       THEN /\ attached' = attached \cup {side}
            /\ inbox' = [inbox EXCEPT ![side] = @ \o Replay(side)]
       ELSE /\ Answer(side, Reply("Error")) /\ UNCHANGED attached
    /\ UNCHANGED mailbox

End(side) ==
    /\ phase' = "Ended" /\ unread' = [s \in Side |-> {}]
    /\ inbox' = To(To(inbox, side, Reply("Closed")),
                   opposite(side), Reply("Closed"))
    /\ UNCHANGED <<log, attached>>

RelayPut(side) ==
    /\ Handles(side, "Put")
    /\ LET m == Head(outbox[side]) IN
       CASE side \notin attached \/ phase \notin {"Waiting", "Paired"} ->
              Answer(side, Reply("Error")) /\ UNCHANGED <<mailbox, attached>>
         [] m.seq < Len(log[side]) ->
              IF log[side][m.seq + 1] = m.frame
              THEN /\ Answer(side, Acknowledged(m.seq))
                   /\ UNCHANGED <<mailbox, attached>>
              ELSE End(side)
         [] m.seq = Len(log[side]) ->
              /\ log' = [log EXCEPT ![side] = Append(@, m.frame)]
              /\ unread' = [unread EXCEPT ![side] = @ \cup {m.seq}]
              /\ inbox' = To(To(inbox, side, Acknowledged(m.seq)),
                             opposite(side), Frame(m.seq, m.frame))
              /\ UNCHANGED <<phase, attached>>
         [] OTHER ->
              Answer(side, Reply("Error")) /\ UNCHANGED <<mailbox, attached>>

RelayAck(side) ==
    /\ Handles(side, "Ack")
    /\ LET m == Head(outbox[side]) IN
       IF side \in attached /\ phase = "Paired"
       THEN /\ unread' = [unread EXCEPT ![opposite(side)] = @ \ {m.seq}]
            /\ UNCHANGED <<phase, log, inbox, attached>>
       ELSE Answer(side, Reply("Error")) /\ UNCHANGED <<mailbox, attached>>

\* The sweep removes the expired mailbox and tells who is attached.
RelayExpire ==
    /\ late /\ phase \in {"Waiting", "Paired"}
    /\ phase' = "Absent"
    /\ log' = [s \in Side |-> <<>>] /\ unread' = [s \in Side |-> {}]
    /\ inbox' = [s \in Side |-> IF s \in attached
                                THEN Append(inbox[s], Reply("Closed"))
                                ELSE inbox[s]]
    /\ attached' = {}
    /\ UNCHANGED <<setting, sessions, storage, outbox, late, crashes, history>>

-----------------------------------------------------------------------------

AllocatorStep ==
    \/ AllocatorNew \/ AllocatorReceive \/ AllocatorRepeat
    \/ AllocatorPersisted \/ AllocatorRestore
    \/ \E kind \in setting.allocator : \E body \in setting.bodies[kind] :
         AllocatorPrepare(kind, body)

ClaimantStep ==
    \/ \E guess \in setting.guesses : ClaimantNew(guess)
    \/ ClaimantReceive \/ ClaimantAuthorise \/ ClaimantPersisted
    \/ ClaimantReceiveDurable \/ ClaimantReceiveBehindFrame
    \/ ClaimantReceiveReceipt \/ ClaimantRecoverReceipt \/ ClaimantCommit
    \/ ClaimantRestore
    \/ \E kind \in setting.claimant : \E body \in setting.bodies[kind] :
         ClaimantPrepare(kind, body)
    \/ \E body \in setting.bodies["FinalApprove"] : ClaimantFinalApprove(body)
    \/ \E body \in setting.bodies["Payload"] : ClaimantPayload(body)

RelayStep ==
    \/ RelayAllocate \/ RelayClaim \/ RelayExpire
    \/ \E side \in Side : \/ RelayBind(side) \/ RelayOpen(side)
                          \/ RelayPut(side) \/ RelayAck(side)

Next ==
    \/ AllocatorStep \/ ClaimantStep \/ RelayStep \/ Expire
    \/ \E side \in Side : Persist(side) \/ Crash(side)

Spec == Init /\ [][Next]_vars

\* The relay answers, sessions are fed what arrives, consumers persist what
\* they are handed and, being willing, prepare the next object.
FairSpec ==
    /\ Spec
    /\ WF_vars(AllocatorStep) /\ WF_vars(ClaimantStep) /\ WF_vars(RelayStep)
    /\ \A side \in Side : WF_vars(Persist(side))

-----------------------------------------------------------------------------
(* Properties.                                                             *)

Live(s) == s # None

DiskRelay(side) ==
    IF disk[side] = None THEN NewRelayState ELSE disk[side].rl

\* Nothing leaves the allocator before a checkpoint that covers it is durable:
\* every frame it ever put and every peer frame it acknowledged lies behind
\* the sequences of the checkpoint a restart would read.  The same holds of
\* the claimant's final approval and payload (gate, checkpoint_persisted).
\* And the gate strands nobody: terminate leaves it as it was, so it must never
\* run behind a closed one.
GateCoversSends ==
    /\ Live(allocator) /\ allocator.state = "Terminal" => allocator.gate = None
    /\ \A x \in sent :
         \/ x[1] = "Allocator"
         \/ x[3].type = "Sealed" /\ KindOf(x[3].obj) \in {"FinalApprove", "Payload"}
         => x[2] < DiskRelay(x[1]).local
    /\ \A i \in DOMAIN outbox["Allocator"] :
         outbox["Allocator"][i].op = "Ack"
         => outbox["Allocator"][i].seq < DiskRelay("Allocator").peer
    /\ \A n \in 0..(Len(log["Claimant"]) - 1) :
         n \notin unread["Claimant"] /\ phase = "Paired"
         => n < DiskRelay("Allocator").peer


\* Whoever reports an established channel holds the one key of the ceremony,
\* derived from two shares of its secret: a wrong guess is found out on both
\* sides, also when the allocator was restarted with a new scalar.
OneKey ==
    \A s, t \in Side : \A e \in told[s], f \in told[t] :
        e.op = "Established" /\ f.op = "Established"
        => /\ e.key = f.key
           /\ {e.key[1], e.key[2].secret, e.key[3].secret} = {Secret}

LastOnDisk(side) == disk[side].ep.last.obj

\* A committed receipt is agreed on durably: the allocator's checkpoint ends
\* with that receipt and the claimant's with the payload it answers, so no
\* crash afterwards can lead either side to another outcome.
ReceiptAgreed ==
    \A o \in installed :
        /\ LastOnDisk("Allocator") = o
        /\ LastOnDisk("Claimant") = Predecessor(o)

IsChainPrefix(s, t) == Len(s) <= Len(t) /\ SubSeq(t, 1, Len(s)) = s

\* The two endpoints follow one chain: what one accepted last is on the way to
\* what the other accepted last, through crashes and restores.  Only objects
\* that may cross an object of the peer are exempt: a refusal of the claimant
\* and an account selection, which the allocator need not wait for.
ChainsMeet ==
    /\ Live(allocator) /\ allocator.ep # None /\ allocator.ep.last # None
    /\ Live(claimant) /\ claimant.ep # None /\ claimant.ep.last # None
    /\ KindOf(claimant.ep.last.obj) \notin {"Refusal", "AccountSelect"}
    => \/ IsChainPrefix(allocator.ep.last.obj, claimant.ep.last.obj)
       \/ IsChainPrefix(claimant.ep.last.obj, allocator.ep.last.obj)

Restores(side) ==
    IF side = "Allocator" THEN A!AllocatorRestores(disk[side], late)
    ELSE restore_checkpoint(side, disk[side], late)

\* The durable checkpoint of a session that was never restored can be restored
\* until it expires.
FirstLifeRestores ==
    \A side \in Side :
        disk[side] # None /\ crashes[side] = 0 /\ ~late => Restores(side)

PutObjects(side) ==
    {x[3].obj : x \in {y \in sent : y[1] = side /\ y[3].type = "Sealed"}}

\* Closure facts outlive the expiry: the checkpoint of an allocator that was
\* never restored can be inspected at any time, what it presents as received
\* was sent by the claimant, and what it presents as the terminal receipt is
\* the receipt the allocator sends.
InspectionHolds ==
    disk["Allocator"] # None /\ crashes["Allocator"] = 0 =>
        LET ck == disk["Allocator"]
            got == A!last_received_object(ck)
            closing == A!terminal_receipt_binding(ck)
        IN  /\ A!Inspects(ck, late)
            /\ got # None => got \in PutObjects("Claimant")
            /\ closing # None => \A o \in PutObjects("Allocator") :
                                   KindOf(o) = "Receipt" => o = closing

\* Every durable checkpoint can be restored until it expires.
AlwaysRestores ==
    \A side \in Side : disk[side] # None /\ ~late => Restores(side)

Uninterrupted == \A s \in Side : setting.crashes[s] = 0

\* A ceremony of two willing sides that share the secret ends with the receipt
\* at the claimant: no message order makes both wait for each other.
Completes == Uninterrupted ~> (installed # {})

\* Once the payload is durable its receipt arrives, although the claimant may
\* crash and be restored in between.
PayloadSettles ==
    (disk["Claimant"] # None /\ disk["Claimant"].ep.phase = "PayloadSent")
    ~> installed # {}
=============================================================================

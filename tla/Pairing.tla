------------------------------- MODULE Pairing -------------------------------
(***************************************************************************)
(* A ceremony of the first pairing protocol: two endpoint reducers, the    *)
(* shells that feed them and keep their invitation records, and the        *)
(* mailbox between them.  A shell commits the record with every call, so a *)
(* crash loses the reducer and the connection but not the record; a        *)
(* restarted shell reads the mailbox from the start again.                 *)
(*                                                                         *)
(* A loose side is an independent endpoint: it confirms its key like the   *)
(* reducer, and then sends any controls it can sign, in any order.         *)
(***************************************************************************)
EXTENDS EndpointOps, FiniteSets

CONSTANTS
    Secret,            \* the invitation's secret
    Pinned,            \* sides whose key the invitation pins
    MaxLoose,          \* bound: sealed frames of a loose side
    Setting            \* ceremonies: [loose, guesses, intents, payloads,
                       \*   crashes, redelivers, ends], that is the loose
                       \*   sides, what the claimant may take for the secret,
                       \*   what the application may send, the bound on the
                       \*   crashes of each side, whether a shell may feed a
                       \*   frame again, and whether the mailbox may expire
                       \*   or a side cancel

ASSUME PairingAssumption ==
    /\ Pinned \subseteq Side /\ MaxLoose \in [Side -> Nat]
    /\ \A t \in Setting :
         /\ t.loose \subseteq Side /\ Secret \in t.guesses
         /\ t.crashes \in Nat /\ t.redelivers \in BOOLEAN /\ t.ends \in BOOLEAN

VARIABLES
    setting,           \* the ceremony this is
    secret,            \* what each side takes for the secret
    record,            \* the durable invitation records
    ep,                \* the reducers, None before they exist
    up,                \* sides whose shell runs
    log,               \* frames each side put
    inbox, outbox,
    closed,            \* why the mailbox was closed, or None
    crashes,
    shown, decided,    \* history: intents displayed, decisions sent
    grants,            \* history: <<intent, payload>> delivered, in order
    keys               \* history: the keys each side confirmed, in order

history == <<shown, decided, grants, keys>>
vars == <<setting, secret, record, ep, up, log, inbox, outbox, closed, crashes,
          shown, decided, grants, keys>>

loose == setting.loose

KeyOf(side) == side     \* the ceremony signing key of a side
ShareOf(side) == Share(side, secret[side], 0)
CpaceOf(side) == CpaceControl(side, KeyOf(side), ShareOf(side))
CpaceFrame(side) == [type |-> "Cpace", side |-> side, control |-> CpaceOf(side)]
Expects == [s \in Side |-> IF s \in Pinned THEN KeyOf(s) ELSE None]

\* A second cpace control that an independent endpoint may sign and name.
ForkOf(side) == CpaceControl(side, KeyOf(side), <<"fork">>)

Close == [type |-> "Close"]
Closed(reason) == [type |-> "Closed", reason |-> reason]

Init ==
    /\ setting \in Setting
    /\ secret \in {[s \in Side |-> IF s = "Allocator" THEN Secret ELSE g] :
                     g \in setting.guesses}
    /\ record = [s \in Side |-> NewRecord]
    /\ ep = [s \in Side |-> None] /\ up = Side
    /\ log = [s \in Side |-> <<>>]
    /\ inbox = [s \in Side |-> <<>>]
    /\ outbox = [s \in Side |-> <<CpaceFrame(s)>>]
    /\ closed = None
    /\ crashes = [s \in Side |-> 0]
    /\ shown = {} /\ decided = <<>> /\ grants = <<>>
    /\ keys = [s \in Side |-> <<>>]

-----------------------------------------------------------------------------
(* What the shell does with the result of a call.                          *)

Sends(e) == e.op \in {"SendFrame", "CloseMailbox"}
Outgoing(out) ==
    LET s == SelectSeq(out, Sends) IN
    [i \in 1..Len(s) |-> IF s[i].op = "SendFrame" THEN s[i].frame ELSE Close]

Grants(out) ==
    LET s == SelectSeq(out, LAMBDA e : e.op = "DeliverGrant") IN
    [i \in 1..Len(s) |-> <<s[i].intent, s[i].payload>>]

Does(side, result) ==
    /\ ep' = [ep EXCEPT ![side] = result.r]
    /\ record' = [record EXCEPT ![side] = result.r.record]
    /\ outbox' = [outbox EXCEPT ![side] = @ \o Outgoing(result.out)]
    /\ shown' = shown \cup {e.intent : e \in {x \in ToSet(result.out) :
                                              x.op = "DisplayIntent"}}
    /\ grants' = grants \o Grants(result.out)
    /\ keys' = IF ep[side].channel = None /\ result.r.channel # None
               THEN [keys EXCEPT ![side] = Append(@, result.r.channel.key)]
               ELSE keys
    /\ UNCHANGED <<setting, secret, up, log, closed, crashes>>

Runs(side) == side \in up /\ ep[side] # None
Take(side) == inbox' = [inbox EXCEPT ![side] = Tail(@)]

-----------------------------------------------------------------------------
(* Bootstrap.                                                              *)

\* The peer's CPace frame: the record is bound before anything else, and a
\* refused binding ends the attempt.
Begin(side) ==
    /\ side \in up /\ ep[side] = None
    /\ inbox[side] # <<>> /\ Head(inbox[side]).type = "Cpace"
    /\ LET frame == Head(inbox[side])
           b == bind(record[side], frame)
           boot == AdmitCpace(NewBootstrap, side, CpaceOf(side)).boot
           peer == frame.control[1][3]
           key == IF side = "Allocator" THEN ChannelKey(secret[side], ShareOf(side), peer)
                  ELSE ChannelKey(secret[side], peer, ShareOf(side))
       IN  /\ record' = [record EXCEPT ![side] = b.record]
           /\ IF b.ok
              THEN /\ ep' = [ep EXCEPT ![side] =
                               NewReducer(side, KeyOf(side), Expects, boot,
                                          {CpaceOf(side), frame.control}, key,
                                          b.record)]
                   /\ UNCHANGED outbox
              ELSE /\ outbox' = [outbox EXCEPT ![side] = Append(@, Close)]
                   /\ UNCHANGED ep
    /\ Take(side)
    /\ UNCHANGED <<setting, secret, up, log, closed, crashes, history>>

\* The peer's CPace control joins the bootstrap history.
AdmitPeer(side) ==
    /\ Runs(side) /\ ep[side].terminal = None
    /\ \E c \in ep[side].causes :
         /\ c # CpaceOf(side) /\ c \notin ep[side].boot.store
         /\ Does(side, admit_bootstrap_control(ep[side], opposite(side), c))
    /\ UNCHANGED <<inbox, decided>>

LocalFinished(side) ==
    /\ Runs(side) /\ ep[side].terminal = None
    /\ ep[side].local_finished = None /\ ep[side].pending # None
    /\ Does(side, local_finished_frame(ep[side]))
    /\ UNCHANGED <<inbox, decided>>

\* An independent endpoint names another cpace control of its own, which the
\* peer's shell admits when it meets it.
LooseFinished(side) ==
    /\ side \in loose /\ Runs(side) /\ ep[side].terminal = None
    /\ ep[side].local_finished = None /\ ep[side].pending # None
    /\ LET frame == FinishedFrame(side, KeyOf(side),
                        (ep[side].causes \ {CpaceOf(side)}) \cup {ForkOf(side)},
                        ep[side].pending)
       IN  Does(side, Ok([ep[side] EXCEPT !.local_finished = frame],
                         <<SendFrame(frame)>>))
    /\ UNCHANGED <<inbox, decided>>

AdmitFork(side) ==
    /\ Runs(side) /\ ep[side].terminal = None
    /\ ep[side].pending_finished # None
    /\ ForkOf(opposite(side)) \notin ep[side].boot.store
    /\ Does(side, admit_bootstrap_control(ep[side], opposite(side),
                                          ForkOf(opposite(side))))
    /\ UNCHANGED <<inbox, decided>>

RetryFinished(side) ==
    /\ Runs(side) /\ ep[side].terminal = None
    /\ ep[side].pending_finished # None
    /\ Does(side, retry_pending_finished(ep[side]))
    /\ UNCHANGED <<inbox, decided>>

-----------------------------------------------------------------------------
(* Frames.  A shell feeds the reducer only after its own Finished frame.   *)

Receive(side) ==
    /\ Runs(side) /\ inbox[side] # <<>>
    /\ ep[side].local_finished # None \/ ep[side].pending = None
    /\ side \in loose => ep[side].session = None
    /\ Head(inbox[side]).type \in {"Finished", "Sealed"}
    /\ Does(side, receive_frame(ep[side], Head(inbox[side])))
    /\ Take(side) /\ UNCHANGED decided

\* After a lost acknowledgement the relay delivers a frame again.
Redeliver(side) ==
    /\ setting.redelivers /\ Runs(side) /\ closed = None
    /\ \E i \in 2..Len(log[opposite(side)]) :
         /\ i <= Len(log[opposite(side)]) - Len(inbox[side])
         /\ Does(side, receive_frame(ep[side], log[opposite(side)][i]))
    /\ UNCHANGED <<inbox, decided>>

MeetsClosed(side) ==
    /\ side \in up /\ inbox[side] # <<>> /\ Head(inbox[side]).type = "Closed"
    /\ IF ep[side] = None
       THEN /\ record' = [record EXCEPT ![side] = spend(@)]
            /\ UNCHANGED <<setting, secret, ep, up, log, outbox, closed, crashes, history>>
       ELSE /\ Does(side, relay_closed(ep[side], Head(inbox[side]).reason))
            /\ UNCHANGED decided
    /\ Take(side)

Cancel(side) ==
    /\ setting.ends /\ Runs(side) /\ ep[side].terminal = None
    /\ Does(side, cancel(ep[side]))
    /\ UNCHANGED <<inbox, decided>>

-----------------------------------------------------------------------------
(* The applications.                                                       *)

SendIntent(i) ==
    /\ Runs("Allocator") /\ "Allocator" \notin loose
    /\ ep["Allocator"].session # None
    /\ Does("Allocator", send_intent(ep["Allocator"], i))
    /\ UNCHANGED <<inbox, decided>>

Decide(d) ==
    /\ Runs("Claimant") /\ "Claimant" \notin loose
    /\ ep["Claimant"].intent # None \/ ep["Claimant"].declined
    /\ Does("Claimant", decide(ep["Claimant"], d))
    /\ decided' = IF decide(ep["Claimant"], d).out = <<>> THEN decided
                  ELSE Append(decided, <<ep["Claimant"].intent.digest, d>>)
    /\ UNCHANGED inbox

SendPayload(p) ==
    /\ Runs("Allocator") /\ "Allocator" \notin loose
    /\ ep["Allocator"].intent # None
    /\ Does("Allocator", send_payload(ep["Allocator"],
                                      ep["Allocator"].intent.digest, p))
    /\ UNCHANGED <<inbox, decided>>

\* Controls an independent endpoint can sign: it knows the hashes of what its
\* peer put and of its own controls, and may name one nobody has seen.
Known(side) ==
    {ep[side].session.root}
    \cup {f.control : f \in {m \in ToSet(log[opposite(side)]) : m.type = "Sealed"}}
Unseen(side) == <<<<"unseen", KeyOf(side), None>>>>

Own(side) == {Append(ep[side].session.root, <<"pairing-intent", KeyOf(side), IntentBody(i)>>) :
                i \in setting.intents}

LooseControls(side) ==
    LET seen == Known(side) IN
    IF side = "Allocator"
    THEN Own(side)
         \cup {Append(c, <<"pairing-payload", KeyOf(side), PayloadBody(i, p)>>) :
                 c \in seen \cup Own(side) \cup {Unseen(side)},
                 i \in setting.intents, p \in setting.payloads}
    ELSE {Append(c, <<"pairing-approve", KeyOf(side), DecisionBody(i, "Approve")>>) :
            c \in seen \cup {Unseen(side)}, i \in setting.intents}
         \cup {Append(c, <<"pairing-decline", KeyOf(side), DecisionBody(i, "Decline")>>) :
            c \in seen \cup {Unseen(side)}, i \in setting.intents}
         \cup {<<<<"malformed", KeyOf(side), None>>>>}

\* It waits until its last frame was taken: what it knows only grows.
LooseSend(side) ==
    /\ side \in loose /\ Runs(side)
    /\ ep[side].session # None /\ ep[side].channel.send < MaxLoose[side]
    /\ outbox[side] = <<>> /\ inbox[opposite(side)] = <<>>
    /\ \E c \in LooseControls(side) :
         Does(side, Ok(Seal(ep[side], c), <<SendFrame(FrameOf(ep[side], c))>>))
    /\ UNCHANGED <<inbox, decided>>

-----------------------------------------------------------------------------
(* The mailbox, crashes.                                                   *)

Deliver(box, side, m) ==
    IF side \in up THEN [box EXCEPT ![side] = Append(@, m)] ELSE box

End(reason) ==
    /\ closed' = reason
    /\ inbox' = [s \in Side |-> IF s \in up THEN Append(inbox[s], Closed(reason))
                                ELSE inbox[s]]

\* A put of a frame that is already stored is an identical retry.
RelayPut(side) ==
    /\ side \in up /\ outbox[side] # <<>>
    /\ outbox' = [outbox EXCEPT ![side] = Tail(@)]
    /\ LET m == Head(outbox[side]) IN
       IF m.type = "Close"
       THEN /\ IF closed = None THEN End("MailboxClosed")
               ELSE UNCHANGED <<closed, inbox>>
            /\ UNCHANGED log
       ELSE /\ UNCHANGED closed
            /\ IF closed # None \/ m \in ToSet(log[side])
               THEN UNCHANGED <<log, inbox>>
               ELSE /\ log' = [log EXCEPT ![side] = Append(@, m)]
                    /\ inbox' = Deliver(inbox, opposite(side), m)
    /\ UNCHANGED <<setting, secret, record, ep, up, crashes, history>>

Expire ==
    /\ setting.ends /\ closed = None /\ End("Expired")
    /\ UNCHANGED <<setting, secret, record, ep, up, log, outbox, crashes, history>>

Crash(side) ==
    /\ side \in up /\ crashes[side] < setting.crashes
    /\ crashes' = [crashes EXCEPT ![side] = @ + 1]
    /\ ep' = [ep EXCEPT ![side] = None] /\ up' = up \ {side}
    /\ inbox' = [inbox EXCEPT ![side] = <<>>]
    /\ outbox' = [outbox EXCEPT ![side] = <<>>]
    /\ UNCHANGED <<setting, secret, record, log, closed, history>>

\* The record is read back; the shell puts its CPace frame again and is sent
\* what the peer has stored.
Restart(side) ==
    /\ side \notin up /\ decode(record[side])
    /\ up' = up \cup {side}
    /\ inbox' = [inbox EXCEPT ![side] =
                    IF closed = None THEN log[opposite(side)] ELSE <<Closed(closed)>>]
    /\ outbox' = [outbox EXCEPT ![side] = <<CpaceFrame(side)>>]
    /\ UNCHANGED <<setting, secret, record, ep, log, closed, crashes, history>>

-----------------------------------------------------------------------------

SideStep(side) ==
    \/ Begin(side) \/ AdmitPeer(side) \/ LocalFinished(side)
    \/ LooseFinished(side) \/ AdmitFork(side) \/ RetryFinished(side)
    \/ Receive(side) \/ MeetsClosed(side) \/ LooseSend(side) \/ Restart(side)

Application ==
    \/ \E i \in setting.intents : SendIntent(i)
    \/ \E d \in {"Approve", "Decline"} : Decide(d)
    \/ \E p \in setting.payloads : SendPayload(p)

Next ==
    \/ \E side \in Side :
         \/ SideStep(side) \/ RelayPut(side)
         \/ Redeliver(side) \/ Cancel(side) \/ Crash(side)
    \/ Application \/ Expire

Spec == Init /\ [][Next]_vars

\* The shells and the relay run on, and the users act when they can.
FairSpec ==
    /\ Spec
    /\ \A side \in Side : WF_vars(SideStep(side)) /\ WF_vars(RelayPut(side))
    /\ WF_vars(Application)

-----------------------------------------------------------------------------

\* A grant reaches the claimant's application at most once, over all the
\* lives of its shell, and only for the one intent that was displayed and
\* that its user approved; a decline or a changed mind never yields one.
\* Whatever a peer sends and however often frames are delivered.
ConsentFirst ==
    \/ grants = <<>>
    \/ /\ Len(grants) = 1
       /\ shown = {grants[1][1]}
       /\ decided = <<<<grants[1][1], "Approve">>>>
       /\ grants[1][2] \notin RefusedPayload

\* An invitation confirms one channel on each side, even when a crash comes
\* between confirmation and the end, since the record is spent by then; and
\* only between sides that know the same secret and saw each other's shares,
\* so both have the same key and a wrong code yields none on either.
OneChannel ==
    \A s \in Side : keys[s] # <<>> =>
        /\ Len(keys[s]) = 1 /\ record[s].status = "Spent"
        /\ secret["Allocator"] = secret["Claimant"]
        /\ keys[opposite(s)] # <<>> => keys[s] = keys[opposite(s)]

\* The decision an allocator acts on is one the claimant took for the intent
\* the allocator sent, when the claimant is a reducer.
DecisionAuthentic ==
    LET a == ep["Allocator"] IN
    "Claimant" \notin loose /\ a # None =>
        /\ a.decision # None =>
               decided = <<<<a.intent.digest, a.decision.decision>>>>
        /\ a.terminal = "Declined" => decided # <<>> /\ decided[1][2] = "Decline"



\* A decline reaches the allocator, as the decision or as the closure.
DeclineHeard ==
    (decided # <<>> /\ decided[Len(decided)][2] = "Decline")
        ~> (ep["Allocator"] = None \/ ep["Allocator"].terminal # None)
=============================================================================

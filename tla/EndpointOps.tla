----------------------------- MODULE EndpointOps -----------------------------
(***************************************************************************)
(* EndpointReducer and InvitationRecord (src/src/endpoint.rs), the secure  *)
(* channel (channel.rs) and the CBCL monitors (cbcl_protocol.rs) of the    *)
(* first pairing protocol, as operations on a reducer record.  A call      *)
(* returns the reducer after it, the effects it emits and whether it       *)
(* reports an error, which drops the effects.                              *)
(*                                                                         *)
(* A control is written as the chain of causes it ends, each link being    *)
(* <<performative, signer, body>>: its content hash commits to its causes. *)
(* Canonical encodings, signatures and body digests are checked by the     *)
(* recogniser, whose refusal is the performative "malformed".              *)
(***************************************************************************)
EXTENDS Naturals, Sequences, SequencesExt

CONSTANTS
    None,
    MAX_PENDING_CONTROLS,
    ForeignIntent,     \* intents of another application
    RefusedIntent,     \* intents the profile does not recognise
    RefusedPayload     \* payloads the profile or the grant verifier refuses

Side == {"Allocator", "Claimant"}
opposite(side) == IF side = "Allocator" THEN "Claimant" ELSE "Allocator"

-----------------------------------------------------------------------------
(* InvitationRecord.                                                       *)

NewRecord == [status |-> "Unused", binding |-> None]
spend(record) == [status |-> "Spent", binding |-> None]

\* Variant: a spent invitation starts another attempt.
bind_lenient(record, attempt) ==
    CASE record.status = "Unused" -> [ok |-> TRUE,
             record |-> [status |-> "Bound", binding |-> attempt]]
      [] record.status = "Bound" /\ record.binding # attempt ->
             [ok |-> FALSE, record |-> spend(record)]
      [] OTHER -> [ok |-> TRUE, record |-> record]

bind(record, attempt) ==
    CASE record.status = "Unused" -> [ok |-> TRUE,
             record |-> [status |-> "Bound", binding |-> attempt]]
      [] record.status = "Bound" /\ record.binding = attempt ->
             [ok |-> TRUE, record |-> record]
      [] record.status = "Bound" -> [ok |-> FALSE, record |-> spend(record)]
      [] OTHER -> [ok |-> FALSE, record |-> record]

decode(record) == (record.status = "Bound") <=> (record.binding # None)

-----------------------------------------------------------------------------
(* Controls and the monitors.                                              *)

Perf(c) == c[Len(c)][1]
Signer(c) == c[Len(c)][2]
BodyOf(c) == c[Len(c)][3]
Cause(c) == SubSeq(c, 1, Len(c) - 1)

CpaceName(side) == IF side = "Allocator" THEN "cpace-a" ELSE "cpace-b"
CpaceControl(side, signer, share) == <<<<CpaceName(side), signer, share>>>>

\* BootstrapMonitor: which key speaks for a role, and the stored controls.
NewBootstrap == [keys |-> [s \in Side |-> None], store |-> {}]

role_key(boot, side) == boot.keys[side]

\* cpace controls are caused by begin, Finished controls by both cpace ones.
AdmitCpace(boot, side, c) ==
    IF Perf(c) # CpaceName(side) \/ role_key(boot, side) \notin {None, Signer(c)}
    THEN [verdict |-> "Err", boot |-> boot]
    ELSE [verdict |-> "Valid",
          boot |-> [keys |-> [boot.keys EXCEPT ![side] = Signer(c)],
                    store |-> boot.store \cup {c}]]

AdmitFinished(boot, frame) ==
    IF role_key(boot, frame.side) \notin {None, frame.signer} THEN "Err"
    ELSE IF frame.causes \subseteq boot.store THEN "Valid" ELSE "Unknown"

\* SessionMonitor: the root control and the stored ones.
Opener(allocator, claimant) == <<<<"hello", allocator, claimant>>>>
NewSession(root) == [root |-> root, store |-> {root}]

From(perf) == IF perf \in {"pairing-intent", "pairing-payload"}
              THEN "Allocator" ELSE "Claimant"
Before(perf) == CASE perf = "pairing-intent" -> "hello"
                  [] perf = "pairing-payload" -> "pairing-approve"
                  [] OTHER -> "pairing-intent"

\* verify_causal_for_role: the dialect's edges, with the sender's role.
verify_causal_for_role(session, boot, c) ==
    IF Signer(c) # role_key(boot, From(Perf(c))) THEN "Violation"
    ELSE IF Cause(c) \notin session.store THEN "Unknown"
    ELSE IF Perf(Cause(c)) = Before(Perf(c)) THEN "Valid" ELSE "Violation"

session_reference_is_anchored(session, c) ==
    Perf(c) = "pairing-intent" => Cause(c) = session.root

admit(session, boot, c) ==
    CASE Perf(c) = "malformed" -> "Err"
      [] ~session_reference_is_anchored(session, c) -> "Violation"
      [] OTHER -> verify_causal_for_role(session, boot, c)

Stored(session, c) == [session EXCEPT !.store = @ \cup {c}]

\* Content of an application body: an intent, a decision on one, a payload.
IntentBody(i) == <<"intent", i>>
DecisionBody(i, d) == <<"decision", i, d>>
PayloadBody(i, p) == <<"payload", i, p>>

-----------------------------------------------------------------------------
(* Frames and the channel.                                                 *)

Share(side, secret, scalar) == <<side, secret, scalar>>

\* The schedule of PendingChannel: own secret and both shares.
ChannelKey(secret, allocator, claimant) == <<secret, allocator, claimant>>

FinishedFrame(side, signer, causes, key) ==
    [type |-> "Finished", side |-> side, signer |-> signer, causes |-> causes,
     value |-> <<side, key>>]
SealedFrame(side, n, key, control) ==
    [type |-> "Sealed", side |-> side, n |-> n, key |-> key, control |-> control]

confirm(side, key, value) == value = <<opposite(side), key>>
NewChannel(key) == [key |-> key, send |-> 0, recv |-> 0]

Opens(side, ch, frame) ==
    frame.side = opposite(side) /\ frame.n = ch.recv /\ frame.key = ch.key

-----------------------------------------------------------------------------
(* The reducer.  keyid is the ceremony key, expects the role keys that the *)
(* invitation pins, causes the two cpace controls.                         *)

NewReducer(side, keyid, expects, boot, causes, key, record) ==
    [side |-> side, keyid |-> keyid, expects |-> expects, record |-> record,
     boot |-> boot, causes |-> causes, pending |-> key, channel |-> None,
     session |-> None, local_finished |-> None, pending_finished |-> None,
     apps |-> <<>>, intent |-> None, decision |-> None, payload |-> None,
     sent |-> FALSE, delivered |-> 0, terminal |-> None, declined |-> FALSE,
     replay |-> None]


terminate(r, reason) ==
    [r EXCEPT !.terminal = reason, !.record = spend(@), !.keyid = None,
              !.pending = None, !.channel = None, !.boot = None,
              !.session = None, !.local_finished = None,
              !.pending_finished = None, !.apps = <<>>, !.intent = None,
              !.decision = None, !.payload = None, !.sent = FALSE]

Ok(r, out) == [r |-> r, out |-> out, err |-> FALSE]
Error(r) == [r |-> r, out |-> <<>>, err |-> TRUE]
fail(r, reason) == Error(terminate(r, reason))

SendFrame(frame) == [op |-> "SendFrame", frame |-> frame]
CloseMailbox == [op |-> "CloseMailbox"]
DisplayIntent(i) == [op |-> "DisplayIntent", intent |-> i]
DeliverGrant(i, p) == [op |-> "DeliverGrant", intent |-> i, payload |-> p]

KeysExpected(r) ==
    \A s \in Side : r.expects[s] # None /\ role_key(r.boot, s) # None
                    => role_key(r.boot, s) = r.expects[s]

cancel(r) ==
    IF r.terminal # None THEN Error(r)
    ELSE Ok(terminate(r, "Cancelled"), <<CloseMailbox>>)

\* Variant: the closure is left to the frames.
relay_closed_ignored(r, reason) == Ok(r, <<>>)

relay_closed(r, reason) ==
    IF r.terminal # None THEN Error(r)
    ELSE Ok(terminate(r, reason), <<CloseMailbox>>)

admit_bootstrap_control(r, side, c) ==
    IF r.terminal # None THEN Error(r)
    ELSE LET a == AdmitCpace(r.boot, side, c)
             q == [r EXCEPT !.boot = a.boot]
         IN  IF a.verdict = "Err" \/ ~KeysExpected(q)
             THEN fail(r, "ProtocolViolation") ELSE Ok(q, <<>>)

local_finished_frame(r) ==
    LET frame == FinishedFrame(r.side, r.keyid, r.causes, r.pending)
        verdict == AdmitFinished(r.boot, frame)
    IN  IF r.terminal # None THEN Error(r)
        ELSE IF ~KeysExpected(r) THEN fail(r, "ProtocolViolation")
        ELSE IF r.local_finished # None THEN Ok(r, <<SendFrame(r.local_finished)>>)
        ELSE IF r.pending = None THEN Error(r)
        ELSE CASE verdict = "Valid" -> Ok([r EXCEPT !.local_finished = frame],
                                          <<SendFrame(frame)>>)
               [] verdict = "Unknown" -> Ok(r, <<>>)
               [] OTHER -> fail(r, "ProtocolViolation")

-----------------------------------------------------------------------------
(* Sending under the channel.                                              *)

\* seal_control: the next counter of the own direction.
Seal(r, c) == [r EXCEPT !.channel.send = @ + 1]
FrameOf(r, c) == SealedFrame(r.side, r.channel.send, r.channel.key, c)

\* admit_local_session followed by seal_control.
SendControl(r, c) ==
    IF admit(r.session, r.boot, c) # "Valid" THEN fail(r, "ProtocolViolation")
    ELSE Ok(Seal([r EXCEPT !.session = Stored(@, c)], c),
            <<SendFrame(FrameOf(r, c))>>)

send_intent(r, i) ==
    LET c == Append(r.session.root, <<"pairing-intent", r.keyid, IntentBody(i)>>)
        s == SendControl(r, c)
    IN  IF r.terminal # None \/ r.side # "Allocator" \/ r.intent # None
        THEN Error(r)
        ELSE IF i \in ForeignIntent THEN fail(r, "IntentMismatch")
        ELSE IF i \in RefusedIntent \/ r.session = None THEN Error(r)
        ELSE IF s.err THEN s
        ELSE [s EXCEPT !.r.intent = [digest |-> i, control |-> c]]

\* Variant: a changed decision is sent as well.
decide_again(r, d) ==
    LET perf == IF d = "Approve" THEN "pairing-approve" ELSE "pairing-decline"
        c == Append(r.intent.control,
                    <<perf, r.keyid, DecisionBody(r.intent.digest, d)>>)
        s == SendControl(r, c)
        q == [s.r EXCEPT !.decision = [decision |-> d, control |-> c]]
    IN  IF r.terminal # None \/ r.side # "Claimant" \/ r.intent = None
        THEN Error(r)
        ELSE Ok(q, s.out)

decide(r, d) ==
    LET perf == IF d = "Approve" THEN "pairing-approve" ELSE "pairing-decline"
        c == Append(r.intent.control,
                    <<perf, r.keyid, DecisionBody(r.intent.digest, d)>>)
        s == SendControl(r, c)
        q == [s.r EXCEPT !.decision = [decision |-> d, control |-> c]]
    IN  IF r.terminal # None
        THEN IF r.terminal = "Declined" /\ r.declined /\ d = "Decline"
             THEN Ok(r, <<>>) ELSE Error(r)
        ELSE IF r.side # "Claimant" THEN Error(r)
        ELSE IF r.decision # None
             THEN IF r.decision.decision = d THEN Ok(r, <<>>)
                  ELSE fail(r, "DecisionConflict")
        ELSE IF r.intent = None THEN Error(r)
        ELSE IF s.err THEN s
        ELSE IF d = "Approve" THEN Ok(q, s.out)
        ELSE Ok([terminate(q, "Declined") EXCEPT !.declined = TRUE],
                Append(s.out, CloseMailbox))

send_payload(r, i, p) ==
    LET c == Append(r.decision.control,
                    <<"pairing-payload", r.keyid, PayloadBody(i, p)>>)
        s == SendControl(r, c)
    IN  IF \/ r.terminal # None \/ r.side # "Allocator"
           \/ r.intent = None \/ r.decision = None
        THEN Error(r)
        ELSE IF \/ r.decision.decision # "Approve" \/ i # r.intent.digest
                \/ r.sent \/ p \in RefusedPayload
             THEN Error(r)
        ELSE IF s.err THEN s
        ELSE [s EXCEPT !.r.sent = TRUE]

-----------------------------------------------------------------------------
(* Receiving: Finished.                                                    *)

\* The allocator's confirmation opens the role-cast session.
open_allocator_session(r) ==
    LET root == Opener(role_key(r.boot, "Allocator"), role_key(r.boot, "Claimant"))
    IN  Ok(Seal([r EXCEPT !.session = NewSession(root)], root),
           <<SendFrame(FrameOf(r, root))>>)

receive_finished(r, frame) ==
    LET verdict == AdmitFinished(r.boot, frame)
        q == [r EXCEPT !.pending_finished = None, !.pending = None,
                       !.channel = NewChannel(r.pending), !.record = spend(@)]
    IN  IF \/ frame.side = r.side \/ r.local_finished = None
           \/ r.pending = None \/ r.channel # None
        THEN fail(r, "ProtocolViolation")
        ELSE IF ~KeysExpected(r) \/ verdict = "Err" THEN fail(r, "ProtocolViolation")
        ELSE IF verdict = "Unknown"
             THEN IF r.pending_finished \notin {None, frame}
                  THEN fail(r, "ProtocolViolation")
                  ELSE Ok([r EXCEPT !.pending_finished = frame], <<>>)
        ELSE IF ~confirm(r.side, r.pending, frame.value)
             THEN fail(r, "KeyConfirmation")
        ELSE IF r.side = "Allocator" THEN open_allocator_session(q)
        ELSE Ok(q, <<>>)

retry_pending_finished(r) ==
    IF r.terminal # None THEN Error(r)
    ELSE IF r.pending_finished = None THEN Ok(r, <<>>)
    ELSE receive_finished(r, r.pending_finished)

-----------------------------------------------------------------------------
(* Receiving: applications.                                                *)

apply_intent(r, c) ==
    LET i == BodyOf(c)[2] IN
    IF r.side # "Claimant" \/ i \in ForeignIntent THEN fail(r, "IntentMismatch")
    ELSE IF i \in RefusedIntent THEN fail(r, "Profile")
    ELSE IF r.intent # None
         THEN IF r.intent.control = c THEN Ok(r, <<>>) ELSE fail(r, "IntentMismatch")
    ELSE Ok([r EXCEPT !.intent = [digest |-> i, control |-> c]],
            <<DisplayIntent(i)>>)

apply_decision(r, c) ==
    LET d == BodyOf(c)[3]
        q == [r EXCEPT !.decision = [decision |-> d, control |-> c]]
    IN  IF r.side # "Allocator" THEN fail(r, "ProtocolViolation")
        ELSE IF r.intent = None THEN Error(r)
        ELSE IF BodyOf(c)[2] # r.intent.digest THEN fail(r, "IntentMismatch")
        ELSE IF r.decision # None
             THEN IF r.decision.control = c THEN Ok(r, <<>>)
                  ELSE fail(r, "DecisionConflict")
        ELSE IF d = "Decline"
             THEN Ok(terminate(q, "Declined"), <<CloseMailbox>>)
        ELSE Ok(q, <<>>)

\* Variant: a second payload is delivered too.
apply_payload_each(r, c) ==
    LET p == BodyOf(c)[3] IN
    IF r.side # "Claimant" THEN fail(r, "ProtocolViolation")
    ELSE IF r.intent = None THEN Error(r)
    ELSE Ok([r EXCEPT !.payload = c, !.delivered = @ + 1],
            <<DeliverGrant(BodyOf(c)[2], p)>>)

apply_payload(r, c) ==
    LET p == BodyOf(c)[3] IN
    IF r.side # "Claimant" THEN fail(r, "ProtocolViolation")
    ELSE IF r.intent = None THEN Error(r)
    ELSE IF \/ BodyOf(c)[2] # r.intent.digest \/ r.decision = None
         THEN fail(r, "IntentMismatch")
    ELSE IF r.decision.decision # "Approve" THEN fail(r, "IntentMismatch")
    ELSE IF r.payload # None
         THEN IF r.payload = c THEN Ok(r, <<>>) ELSE fail(r, "ProtocolViolation")
    ELSE IF p \in RefusedPayload THEN fail(r, "Profile")
    ELSE Ok([r EXCEPT !.payload = c, !.delivered = @ + 1],
            <<DeliverGrant(r.intent.digest, p)>>)

\* decode_application: the body decides which.
apply_application(r, c) ==
    CASE BodyOf(c)[1] = "intent" -> apply_intent(r, c)
      [] BodyOf(c)[1] = "decision" -> apply_decision(r, c)
      [] OTHER -> apply_payload(r, c)

\* One step of a pass of retry_pending over the controls held back.
RetryOne(acc, c) ==
    LET verdict == admit(acc.r.session, acc.r.boot, c)
        applied == apply_application([acc.r EXCEPT !.session = Stored(@, c)], c)
    IN  IF acc.err THEN acc
        ELSE IF acc.r.session = None THEN [acc EXCEPT !.err = TRUE]
        ELSE CASE verdict = "Unknown" -> [acc EXCEPT !.next = Append(@, c)]
               [] verdict = "Valid" ->
                    [acc EXCEPT !.r = applied.r, !.err = applied.err,
                                !.out = @ \o applied.out, !.progress = TRUE]
               [] OTHER -> [acc EXCEPT !.r = terminate(@, "ProtocolViolation"),
                                       !.err = TRUE]


\* Passes are repeated while one of them admits a control.
retry_pending(r) ==
    LET first == [r |-> [r EXCEPT !.apps = <<>>], next |-> r.apps, out |-> <<>>,
                  err |-> FALSE, progress |-> TRUE]
        pass(acc) == FoldLeft(RetryOne,
                              [acc EXCEPT !.next = <<>>, !.progress = FALSE], acc.next)
        after[n \in 0..(Len(r.apps) + 1)] ==
            IF n = 0 THEN first
            ELSE IF after[n - 1].progress /\ ~after[n - 1].err
                 THEN pass(after[n - 1]) ELSE after[n - 1]
        last == after[Len(r.apps) + 1]
    IN  IF last.err THEN Error(last.r)
        ELSE Ok([last.r EXCEPT !.apps = last.next], last.out)

admit_application(r, c) ==
    LET verdict == admit(r.session, r.boot, c)
        applied == apply_application([r EXCEPT !.session = Stored(@, c)], c)
        retried == retry_pending(applied.r)
    IN  CASE verdict = "Valid" ->
               IF applied.err THEN applied
               ELSE IF retried.err THEN retried
               ELSE Ok(retried.r, applied.out \o retried.out)
          [] verdict = "Unknown" ->
               IF c \in ToSet(r.apps) THEN Ok(r, <<>>)
               ELSE IF Len(r.apps) = MAX_PENDING_CONTROLS
                    THEN fail(r, "ProtocolViolation")
               ELSE Ok([r EXCEPT !.apps = Append(@, c)], <<>>)
          [] OTHER -> fail(r, "ProtocolViolation")

receive_opener(r, c) ==
    LET root == Opener(role_key(r.boot, "Allocator"), role_key(r.boot, "Claimant"))
    IN  IF r.side # "Claimant" \/ c # root THEN fail(r, "ProtocolViolation")
        ELSE Ok([r EXCEPT !.session = NewSession(root)], <<>>)

receive_sealed(r, frame) ==
    LET q == [r EXCEPT !.channel.recv = @ + 1]
        step == admit_application(q, frame.control)
    IN  IF r.channel = None THEN Error(r)
        ELSE IF ~Opens(r.side, r.channel, frame) THEN fail(r, "Channel")
        ELSE IF r.session = None THEN receive_opener(q, frame.control)
        ELSE IF Perf(frame.control) = "hello" THEN fail(q, "Malformed")
        ELSE IF ~step.err /\ step.r.terminal = "Declined"
             THEN [step EXCEPT !.r.replay = frame]
        ELSE step

receive_frame(r, frame) ==
    IF r.terminal # None
    THEN IF r.terminal = "Declined" /\ r.replay = frame THEN Ok(r, <<>>) ELSE Error(r)
    ELSE CASE frame.type = "Finished" -> receive_finished(r, frame)
           [] frame.type = "Sealed" -> receive_sealed(r, frame)
           [] OTHER -> fail(r, "ProtocolViolation")
=============================================================================

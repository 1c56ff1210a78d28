------------------------- MODULE CredentialAllocator -------------------------
(***************************************************************************)
(* CredentialV2AllocatorSession (src/src/credential_v2/allocator.rs) with  *)
(* its bootstrap (bootstrap.rs), as operations on a session record.  A     *)
(* call returns the session after it, the effects it releases at once and  *)
(* the checkpoint it hands to the consumer; effects behind the persistence *)
(* gate wait in the session.  A relay frame and a notice to the consumer   *)
(* are both effects.                                                       *)
(***************************************************************************)
EXTENDS CredentialOps

CONSTANT Secret    \* the CPace secret C of the ceremony

Effect(s, out, ck) == [s |-> s, out |-> out, ck |-> ck]

Put(n, frame) == [op |-> "Put", seq |-> n, frame |-> frame]
Ack(n) == [op |-> "Ack", seq |-> n]
Msg(op) == [op |-> op]
ReceivedObject(o) == [op |-> "ReceivedObject", obj |-> o]
Established(key) == [op |-> "Established", key |-> key]

NewAllocator(scalar) ==
    [state |-> "AwaitWelcome", gate |-> None, after |-> <<>>, resume |-> FALSE,
     scalar |-> scalar, boot |-> None, ep |-> None, ch |-> None, rl |-> None]

terminate(a) ==
    [a EXCEPT !.state = "Terminal", !.after = <<>>, !.scalar = None,
              !.boot = None, !.ep = None, !.ch = None, !.rl = None]

Err(a) == Effect(terminate(a), <<>>, None)

-----------------------------------------------------------------------------
(* The persistence gate.                                                   *)

\* Variant: the effects are released with the checkpoint.
gate_open(a, ck, after) == Effect([a EXCEPT !.gate = ck.gen], after, ck)

gate(a, ck, after) ==
    IF a.gate # None \/ a.after # <<>> THEN Err([a EXCEPT !.gate = ck.gen])
    ELSE Effect([a EXCEPT !.gate = ck.gen, !.after = after], <<>>, ck)

checkpoint_persisted(a) ==
    Effect([a EXCEPT !.gate = None, !.after = <<>>], a.after, None)

projection_is_consistent(b) ==
    CASE b.phase = "Allocated" ->
           /\ b.token /\ b.scalar = None /\ b.cached = None
           /\ b.peer_cpace = None /\ b.peer_finished = None
      [] b.phase = "ShareSent" ->
           /\ ~b.token /\ b.scalar # None /\ b.peer_finished = None
           /\ b.peer_cpace # None => IsFrom(b.peer_cpace, "Cpace", "Claimant")
           /\ b.cached # None /\ IsFrom(b.cached, "Cpace", "Allocator")
      [] b.phase = "FinishedSent" ->
           /\ ~b.token /\ b.scalar # None
           /\ b.peer_cpace # None /\ IsFrom(b.peer_cpace, "Cpace", "Claimant")
           /\ b.cached # None /\ IsFrom(b.cached, "Finished", "Allocator")
           /\ b.peer_finished # None
              => IsFrom(b.peer_finished, "Finished", "Claimant")
      [] OTHER -> FALSE

encode_bootstrap(b, rl) ==
    [kind |-> "Bootstrap", gen |-> b.gen, expires |-> TRUE, boot |-> b, rl |-> rl]

seal_bootstrap(boot, rl, late) ==
    LET next == [boot EXCEPT !.gen = @ + 1]
    IN  [ok |-> ~late /\ projection_is_consistent(next), boot |-> next,
         ck |-> encode_bootstrap(next, rl)]

checkpoint_bootstrap(a, after, late) ==
    LET sealed == seal_bootstrap(a.boot, a.rl, late) IN
    IF ~sealed.ok THEN Err(a)
    ELSE gate([a EXCEPT !.boot = sealed.boot], sealed.ck, after)

checkpoint_established(a, after, late) ==
    LET sealed == seal_checkpoint("Allocator", a.ep, a.ch, a.rl, TRUE, late) IN
    IF ~sealed.ok THEN Err(a)
    ELSE gate([a EXCEPT !.ep = sealed.ep], sealed.ck, after)

-----------------------------------------------------------------------------
(* Bootstrap.                                                              *)

Share(scalar) == Cpace("Allocator", Secret, scalar)
BootstrapKey(b) == ChannelKey(Secret, Share(b.scalar), b.peer_cpace)

NewBootstrap ==
    [phase |-> "Allocated", token |-> TRUE, scalar |-> None, peer_cpace |-> None,
     peer_finished |-> None, cached |-> None, gen |-> 0]

\* The relay's admission of the claimant erases the claim token; the share
\* spends the scalar.
claimant_admitted(b) == [b EXCEPT !.phase = "Claimed", !.token = FALSE]
start_cpace(b, scalar) ==
    [b EXCEPT !.phase = "ShareSent", !.scalar = scalar, !.cached = Share(scalar)]

retains_peer_cpace(b, frame) ==
    IsFrom(frame, "Cpace", "Claimant") /\ b.peer_cpace \in {None, frame}
retains_peer_finished(b, frame) ==
    IsFrom(frame, "Finished", "Claimant") /\ b.peer_finished \in {None, frame}

prepare_finished(b) ==
    [b EXCEPT !.phase = "FinishedSent",
              !.cached = Finished("Allocator", BootstrapKey(b))]

allocated(a, late) ==
    IF late THEN Err(a)
    ELSE checkpoint_bootstrap(
             [a EXCEPT !.state = "Bootstrap", !.boot = NewBootstrap,
                       !.rl = NewRelayState],
             <<Msg("PendingAllocation")>>, late)

\* Variant: the peer's Finished value is not verified.
establish_unverified(a, ack, late) ==
    LET key == BootstrapKey(a.boot)
        settled == [a EXCEPT !.state = "Established", !.boot = None,
                             !.ep = [NewEndpoint EXCEPT !.gen = a.boot.gen],
                             !.ch = NewChannel(key)]
    IN  checkpoint_established(settled, ack \o <<Established(key)>>, late)

establish(a, ack, late) ==
    LET key == BootstrapKey(a.boot)
        settled == [a EXCEPT !.state = "Established", !.boot = None,
                             !.ep = [NewEndpoint EXCEPT !.gen = a.boot.gen],
                             !.ch = NewChannel(key)]
    IN  IF ~confirm("Allocator", key, a.boot.peer_finished) \/ a.rl.waiting
        THEN Err(a)
        ELSE checkpoint_established(settled, ack \o <<Established(key)>>, late)

FirstShare(a, n, frame, late) ==
    LET started == start_cpace(claimant_admitted(a.boot), a.scalar)
        boot == [started EXCEPT !.peer_cpace = frame]
        rl == queue_bootstrap_frame(accept_peer_sequence(a.rl))
    IN  IF \/ a.scalar = None \/ ~accepts_peer_sequence(a.rl, n)
           \/ ~retains_peer_cpace(started, frame)
        THEN Err(a)
        ELSE checkpoint_bootstrap(
                 [a EXCEPT !.boot = boot, !.rl = rl, !.scalar = None],
                 <<Ack(n), Put(LastSequence(rl), boot.cached)>>, late)

PeerFinished(a, n, frame, late) ==
    LET b == [a EXCEPT !.rl = accept_peer_sequence(@),
                       !.boot.peer_finished = frame]
    IN  IF \/ ~accepts_peer_sequence(a.rl, n)
           \/ ~retains_peer_finished(a.boot, frame)
        THEN Err(a)
        ELSE IF b.rl.waiting THEN checkpoint_bootstrap(b, <<Ack(n)>>, late)
        ELSE establish(b, <<Ack(n)>>, late)

\* A lost Ack makes the relay redeliver the first share.
FirstShareAgain(a, frame, late) ==
    IF late \/ frame # a.boot.peer_cpace THEN Err(a)
    ELSE Effect(a, IF a.rl.waiting
                   THEN <<Ack(0), Put(LastSequence(a.rl), a.boot.cached)>>
                   ELSE <<Ack(0)>>, None)

ShareAcknowledged(a, late) ==
    LET b == [a EXCEPT !.rl = queue_bootstrap_frame(acknowledge(@)),
                       !.boot = prepare_finished(@)]
    IN  checkpoint_bootstrap(b, <<Put(LastSequence(b.rl), b.boot.cached)>>, late)

\* Variant: a Finished value that came first is not looked at again.
FinishedAcknowledged_waits(a, late) ==
    checkpoint_bootstrap([a EXCEPT !.rl = acknowledge(@)], <<>>, late)

FinishedAcknowledged(a, late) ==
    LET b == [a EXCEPT !.rl = acknowledge(@)] IN
    IF b.boot.peer_finished # None THEN establish(b, <<>>, late)
    ELSE checkpoint_bootstrap(b, <<>>, late)

-----------------------------------------------------------------------------
(* Established.                                                            *)

prepare_application_object(a, o, late) ==
    LET p == prepare_outbound("Allocator", a.ep, a.ch, a.rl, o) IN
    IF a.state # "Established" THEN Err(a)
    ELSE IF ~p.ok THEN Err(a)
    ELSE checkpoint_established([a EXCEPT !.ep = p.ep, !.ch = p.ch, !.rl = p.rl],
                                <<Put(LastSequence(p.rl), p.rl.cached)>>, late)

peer_application_frame(a, n, frame, late) ==
    LET step == apply("Allocator", a.ep, frame.obj, "Claimant") IN
    IF ~accepts_peer_sequence(a.rl, n) THEN Err(a)
    ELSE IF ~Opens("Allocator", a.ch, frame) THEN Err(a)
    ELSE IF step.result = "Err" THEN Err(a)
    ELSE checkpoint_established(
             [a EXCEPT !.rl = accept_peer_sequence(@), !.ch = open(@),
                       !.ep = step.ep],
             <<Ack(n), ReceivedObject(frame.obj)>>, late)

application_acknowledged(a, late) ==
    checkpoint_established([a EXCEPT !.rl = acknowledge(@)], <<>>, late)

-----------------------------------------------------------------------------
(* receive: one relay message, the gate being clear.                       *)

peer_frame(a, n, frame, late) ==
    CASE a.state = "Established" -> peer_application_frame(a, n, frame, late)
      [] a.state # "Bootstrap" -> Err(a)
      [] n = 0 /\ a.boot.peer_cpace # None -> FirstShareAgain(a, frame, late)
      [] a.boot.phase = "Allocated" -> FirstShare(a, n, frame, late)
      [] a.boot.phase = "FinishedSent" -> PeerFinished(a, n, frame, late)
      [] OTHER -> Err(a)

local_acknowledged(a, n, late) ==
    IF a.state \notin {"Bootstrap", "Established"} THEN Err(a)
    ELSE IF acknowledgement_already_applied(a.rl, n)
         THEN IF late THEN Err(a) ELSE Effect(a, <<>>, None)
    ELSE IF ~Acknowledges(a.rl, n) THEN Err(a)
    ELSE CASE a.state = "Established" -> application_acknowledged(a, late)
           [] a.boot.phase = "ShareSent" -> ShareAcknowledged(a, late)
           [] a.boot.phase = "FinishedSent" -> FinishedAcknowledged(a, late)
           [] OTHER -> Err(a)

reopen_effects(a) ==
    IF ~a.rl.waiting THEN <<Msg("Open")>>
    ELSE <<Msg("Open"),
           Put(LastSequence(a.rl), IF a.state = "Bootstrap" THEN a.boot.cached
                                   ELSE a.rl.cached)>>

Welcomed(a) ==
    IF a.resume THEN Effect([a EXCEPT !.resume = FALSE], reopen_effects(a), None)
    ELSE IF a.state = "AwaitWelcome"
         THEN Effect([a EXCEPT !.state = "AwaitAllocation"],
                     <<Msg("AllocateV2")>>, None)
    ELSE Err(a)

receive(a, m, late) ==
    CASE m.op = "Welcome" -> Welcomed(a)
      [] m.op = "AllocatedV2" ->
           IF a.state = "AwaitAllocation" THEN allocated(a, late) ELSE Err(a)
      [] m.op = "Frame" -> peer_frame(a, m.seq, m.frame, late)
      [] m.op = "Acknowledged" -> local_acknowledged(a, m.seq, late)
      [] m.op \in {"Closed", "Error"} ->
           Effect(terminate(a), <<Msg("Terminal")>>, None)
      [] OTHER -> Err(a)

-----------------------------------------------------------------------------
(* Recovery.                                                               *)

\* The pending channel is rebuilt from the scalar and must give the cached
\* frame again.
rebuild_pending(b) == b.cached = Finished("Allocator", BootstrapKey(b))

decode_bootstrap(ck) ==
    LET b == ck.boot IN
    /\ projection_is_consistent(b)
    /\ b.phase = "ShareSent" => b.cached = Share(b.scalar)
    /\ b.phase = "FinishedSent" => rebuild_pending(b)

restore_bootstrap(ck, late) ==
    open_checkpoint_for("Resume", ck, late) /\ decode_bootstrap(ck)

AllocatorRestores(ck, late) ==
    IF ck.kind = "Bootstrap" THEN restore_bootstrap(ck, late)
    ELSE restore_checkpoint("Allocator", ck, late)

restore(ck, scalar) ==
    LET a == [NewAllocator(None) EXCEPT !.resume = TRUE, !.rl = ck.rl] IN
    IF ck.kind = "Bootstrap"
    THEN [a EXCEPT !.state = "Bootstrap", !.boot = ck.boot,
                   !.scalar = IF ck.boot.phase = "Allocated" THEN scalar ELSE None]
    ELSE [a EXCEPT !.state = "Established", !.ep = ck.ep, !.ch = ck.ch]

\* Inspection also reads an elapsed checkpoint.
inspect_bootstrap(ck, late) ==
    open_checkpoint_for("Inspect", ck, late) /\ decode_bootstrap(ck)

inspect_allocator_endpoint(ck, late) ==
    /\ open_checkpoint_for("Inspect", ck, late)
    /\ decode_inner("Allocator", ck)
    /\ ck.ep.phase = "Terminal" => receipt_released("Allocator", ck.ep)
    /\ ck.expires

\* Variant: inspection keeps the expiry check of a restore.
Inspects_live(ck, late) == AllocatorRestores(ck, late)

Inspects(ck, late) ==
    IF ck.kind = "Bootstrap" THEN inspect_bootstrap(ck, late)
    ELSE inspect_allocator_endpoint(ck, late)

last_received_object(ck) ==
    IF /\ ck.kind = "Endpoint" /\ ck.ep.last # None
       /\ ck.ep.last.sender # "Allocator" /\ ck.ep.last.bytes
    THEN ck.ep.last.obj ELSE None

terminal_receipt_binding(ck) ==
    IF ck.kind = "Endpoint" /\ receipt_released("Allocator", ck.ep)
    THEN ck.ep.last.obj ELSE None
=============================================================================

-------------------------- MODULE CredentialClaimant --------------------------
(***************************************************************************)
(* CredentialV2ClaimantSession (src/src/credential_v2/claimant.rs), as     *)
(* operations on a session record, in the manner of CredentialAllocator.   *)
(* Before final approval nothing is checkpointed: a crash abandons the     *)
(* ceremony.  From then on every change waits for its checkpoint.          *)
(***************************************************************************)
EXTENDS CredentialOps

Effect(s, out, ck) == [s |-> s, out |-> out, ck |-> ck]

Put(n, frame) == [op |-> "Put", seq |-> n, frame |-> frame]
Ack(n) == [op |-> "Ack", seq |-> n]
Msg(op) == [op |-> op]
Notice(op, o) == [op |-> op, obj |-> o]
Established(key) == [op |-> "Established", key |-> key]

Blank ==
    [phase |-> "Terminal", gate |-> None, after |-> <<>>, secret |-> None,
     scalar |-> None, share |-> FALSE, peer_share |-> None, key |-> None,
     peer_finished |-> None, ep |-> None, ch |-> None, rl |-> None,
     receipt |-> None]

NewClaimant(secret, scalar) ==
    [Blank EXCEPT !.phase = "AwaitWelcome", !.secret = secret, !.scalar = scalar]

terminate(c) == Blank
Err(c) == Effect(terminate(c), <<>>, None)
Refused(c) == Effect(c, <<>>, None)

EndpointPhase(c) == IF c.ep = None THEN None ELSE c.ep.phase
has_durable_endpoint_phase(c) == EndpointPhase(c) \in {"FinalApproved", "PayloadSent"}

-----------------------------------------------------------------------------
(* Bootstrap.                                                              *)

Share(c) == Cpace("Claimant", c.secret, c.scalar)

claimed(c) ==
    LET rl == queue_bootstrap_frame(NewRelayState) IN
    Effect([c EXCEPT !.phase = "ShareSent", !.rl = rl, !.share = TRUE],
           <<Put(LastSequence(rl), Share(c))>>, None)

prepare_finished(c, out) ==
    LET key == ChannelKey(c.secret, c.peer_share, Share(c))
        rl == queue_bootstrap_frame(c.rl)
    IN  Effect([c EXCEPT !.phase = "FinishedSent", !.rl = rl, !.key = key],
               out \o <<Put(LastSequence(rl), Finished("Claimant", key))>>, None)

establish(c, out) ==
    IF ~confirm("Claimant", c.key, c.peer_finished) THEN Err(c)
    ELSE Effect([c EXCEPT !.phase = "AwaitProfileAuthorisation",
                          !.ep = NewEndpoint, !.ch = NewChannel(c.key),
                          !.secret = None, !.scalar = None, !.share = FALSE,
                          !.peer_share = None, !.peer_finished = None,
                          !.key = None],
                out \o <<Established(c.key)>>, None)

authorise_authenticated_profile(c) ==
    Effect([c EXCEPT !.phase = "Established"], <<>>, None)

-----------------------------------------------------------------------------
(* receive: one relay message before the durable phases.                   *)

peer_application_frame(c, n, frame) ==
    LET first == pre_offer(c.ep.phase)
        step == IF first THEN receive_offer(c.ep, frame.obj)
                ELSE apply("Claimant", c.ep, frame.obj, "Allocator")
        told == CASE step.result = "Display" -> <<Notice("DisplayIntent", frame.obj)>>
                  [] step.result = "Advanced" -> <<Notice("ReceivedObject", frame.obj)>>
                  [] OTHER -> <<>>
    IN  IF ~accepts_peer_sequence(c.rl, n) THEN Err(c)
        ELSE IF ~Opens("Claimant", c.ch, frame) THEN Err(c)
        ELSE IF first /\ KindOf(frame.obj) # "Offer" THEN Err(c)
        ELSE IF step.result = "Err" THEN Err(c)
        ELSE Effect([c EXCEPT !.rl = accept_peer_sequence(@), !.ch = open(@),
                              !.ep = step.ep], <<Ack(n)>> \o told, None)

peer_frame(c, n, frame) ==
    LET taken == [c EXCEPT !.rl = accept_peer_sequence(@)] IN
    CASE c.phase = "Established" -> peer_application_frame(c, n, frame)
      [] c.phase \notin {"ShareSent", "FinishedSent"} -> Err(c)
      [] ~accepts_peer_sequence(c.rl, n) -> Err(c)
      [] c.phase = "ShareSent" ->
           LET d == [taken EXCEPT !.peer_share = frame] IN
           IF ~IsFrom(frame, "Cpace", "Allocator") THEN Err(c)
           ELSE IF c.rl.waiting THEN Effect(d, <<Ack(n)>>, None)
           ELSE prepare_finished(d, <<Ack(n)>>)
      [] OTHER ->
           LET d == [taken EXCEPT !.peer_finished = frame] IN
           IF ~IsFrom(frame, "Finished", "Allocator") THEN Err(c)
           ELSE IF c.rl.waiting THEN Effect(d, <<Ack(n)>>, None)
           ELSE establish(d, <<Ack(n)>>)

local_ack(c, n) ==
    LET d == [c EXCEPT !.rl = acknowledge(@)] IN
    IF c.rl = None THEN Err(c)
    ELSE IF acknowledgement_already_applied(c.rl, n) THEN Effect(c, <<>>, None)
    ELSE IF ~Acknowledges(c.rl, n) THEN Err(c)
    ELSE CASE c.phase = "Established" -> Effect(d, <<>>, None)
           [] c.phase = "ShareSent" /\ c.peer_share # None ->
                prepare_finished(d, <<>>)
           [] c.phase \in {"ShareSent", "FinishedSent"}
              /\ c.peer_finished = None -> Effect(d, <<>>, None)
           [] c.phase = "FinishedSent" -> establish(d, <<>>)
           [] OTHER -> Err(c)

receive(c, m, late) ==
    IF late THEN Err(c)
    ELSE CASE m.op = "Welcome" ->
                IF c.phase = "AwaitWelcome"
                THEN Effect([c EXCEPT !.phase = "ClaimSent"],
                            <<Msg("ClaimV2")>>, None)
                ELSE Err(c)
           [] m.op = "ClaimedV2" ->
                IF c.phase = "ClaimSent" THEN claimed(c) ELSE Err(c)
           [] m.op = "Frame" -> peer_frame(c, m.seq, m.frame)
           [] m.op = "Acknowledged" -> local_ack(c, m.seq)
           [] m.op \in {"Closed", "Error"} ->
                Effect(terminate(c), <<Msg("Terminal")>>, None)
           [] OTHER -> Err(c)

-----------------------------------------------------------------------------
(* Objects before final approval: sent at once, never checkpointed.  An    *)
(* error leaves the session as the endpoint left it.                       *)

prepare_application_object(c, o) ==
    LET p == prepare_outbound("Claimant", c.ep, c.ch, c.rl, o)
        d == [c EXCEPT !.ep = p.ep, !.ch = p.ch, !.rl = p.rl]
    IN  IF p.ok THEN Effect(d, <<Put(LastSequence(p.rl), p.rl.cached)>>, None)
        ELSE Effect(d, <<>>, None)

-----------------------------------------------------------------------------
(* Durable phases.                                                         *)


\* checkpoint_current; prepare_final_approval seals in the same way.
checkpoint_current(c, expires, after, late) ==
    LET sealed == seal_checkpoint("Claimant", c.ep, c.ch, c.rl, expires, late) IN
    IF ~sealed.ok THEN Err(c)
    ELSE Effect([c EXCEPT !.ep = sealed.ep, !.gate = sealed.ep.gen,
                          !.after = after],
                <<>>, sealed.ck)

PrepareDurable(c, o, expires, late) ==
    LET p == prepare_outbound("Claimant", c.ep, c.ch, c.rl, o)
        d == [c EXCEPT !.ep = p.ep, !.ch = p.ch, !.rl = p.rl]
    IN  IF ~p.ok THEN Err(c)
        ELSE checkpoint_current(d, expires,
                                <<Put(LastSequence(p.rl), p.rl.cached)>>, late)

prepare_final_approval(c, o, late) == PrepareDurable(c, o, TRUE, late)
prepare_payload(c, o, late) ==
    IF late THEN Refused(c) ELSE PrepareDurable(c, o, FALSE, late)

checkpoint_persisted(c) ==
    Effect([c EXCEPT !.gate = None, !.after = <<>>], c.after, None)

\* Variant: a restored session does not repeat its cached frame.
resume_cached_frame_silent(c) == Effect(c, <<>>, None)

resume_cached_frame(c) ==
    Effect(c, IF c.rl.cached = None THEN <<>>
              ELSE <<Put(LastSequence(c.rl), c.rl.cached)>>, None)

\* Only an acknowledgement is taken; an error leaves the session alone.
receive_durable(c, m, late) ==
    LET final == c.ep.phase = "FinalApproved" IN
    IF (final /\ late) \/ m.op # "Acknowledged" THEN Refused(c)
    ELSE IF acknowledgement_already_applied(c.rl, m.seq) THEN Refused(c)
    ELSE IF ~Acknowledges(c.rl, m.seq) THEN Refused(c)
    ELSE checkpoint_current([c EXCEPT !.rl = acknowledge(@)], final, <<>>, late)

AwaitsReceipt(c) ==
    /\ c.gate = None /\ c.phase = "Established"
    /\ EndpointPhase(c) = "PayloadSent" /\ c.receipt = None

receive_recovered_receipt(c, n, frame) ==
    IF ~accepts_peer_sequence(c.rl, n) THEN Err(c)
    ELSE IF ~Opens("Claimant", c.ch, frame) THEN Err(c)
    ELSE IF ~authenticate_recovered_receipt(c.ep, frame.obj) THEN Err(c)
    ELSE Effect([c EXCEPT !.rl = accept_peer_sequence(@), !.ch = open(@),
                          !.receipt = [obj |-> frame.obj, seq |-> n]],
                <<>>, None)

authenticate_recovered_receipt_object(c, o) ==
    IF ~authenticate_recovered_receipt(c.ep, o) THEN Refused(c)
    ELSE Effect([c EXCEPT !.receipt = [obj |-> o, seq |-> None]], <<>>, None)

commit_recovered_receipt(c) ==
    Effect(terminate(c),
           IF c.receipt.seq = None THEN <<>> ELSE <<Ack(c.receipt.seq)>>, None)

restore(ck) ==
    [Blank EXCEPT !.phase = "Established", !.ep = ck.ep, !.ch = ck.ch,
                  !.rl = ck.rl]
=============================================================================

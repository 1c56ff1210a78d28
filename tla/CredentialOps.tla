---------------------------- MODULE CredentialOps ----------------------------
(***************************************************************************)
(* The parts the two credential/v2 sessions share (src/src/credential_v2): *)
(* objects, the endpoint reducer, the channel, the relay projection and    *)
(* the endpoint checkpoint.  Everything is constant-level; an operation    *)
(* that can fail returns a record with its outcome.                        *)
(*                                                                         *)
(* An object is written as the chain it ends: every body but the Offer's   *)
(* and the AccountSelect's names the content hash of its predecessor, so   *)
(* the hash of an object commits to the whole chain.  A key is what both   *)
(* shares and the reader's own secret determine, so two keys agree exactly *)
(* when the secrets do.  Codecs and padding are injective and left out;    *)
(* the u8 sequences and u64 counters stay far below their width, because a *)
(* mailbox takes 16 frames a side.                                         *)
(***************************************************************************)
EXTENDS Naturals, Sequences

CONSTANTS
    None,
    Rejected     \* <<side, kind>> whose bodies that side's verifier refuses

Side == {"Allocator", "Claimant"}
opposite(side) == IF side = "Allocator" THEN "Claimant" ELSE "Allocator"

AllocatorKind == {"Offer", "ComparisonConfirmed", "BindingConfirmed", "Receipt"}
ClaimantKind == {"AccountSelect", "IntentApprove", "IntentDecline",
                 "Preparation", "FinalApprove", "FinalDecline", "Payload"}
Kind == AllocatorKind \cup ClaimantKind \cup {"Refusal"}

valid_sender(kind, sender) ==
    kind \in IF sender = "Allocator" THEN AllocatorKind \cup {"Refusal"}
             ELSE ClaimantKind \cup {"Refusal"}

-----------------------------------------------------------------------------
(* Objects.                                                                *)

KindOf(o) == o[Len(o)][1]
Predecessor(o) == SubSeq(o, 1, Len(o) - 1)
IntentDigest(o) == o[1]

\* What a consumer builds next: an Offer and an AccountSelect start a chain,
\* every other body names the last object.
Successor(last, kind, body) ==
    IF kind \in {"Offer", "AccountSelect"} \/ last = None THEN <<<<kind, body>>>>
    ELSE Append(last.obj, <<kind, body>>)

-----------------------------------------------------------------------------
(* The endpoint reducer.                                                   *)

Phase == {"Begin", "AccountSelected", "Offered", "IntentApproved", "Prepared",
          "Confirmed", "FinalApproved", "PayloadSent", "Terminal"}

NewEndpoint == [phase |-> "Begin", intent |-> None, last |-> None, gen |-> 0]

pre_offer(phase) == phase \in {"Begin", "AccountSelected"}

Edge ==
    {<<"Offered", "IntentApprove", "IntentApproved">>,
     <<"Offered", "IntentDecline", "Terminal">>,
     <<"IntentApproved", "Preparation", "Prepared">>,
     <<"Prepared", "ComparisonConfirmed", "Confirmed">>,
     <<"Prepared", "BindingConfirmed", "Confirmed">>,
     <<"Confirmed", "FinalApprove", "FinalApproved">>,
     <<"Confirmed", "FinalDecline", "Terminal">>,
     <<"FinalApproved", "Payload", "PayloadSent">>,
     <<"PayloadSent", "Receipt", "Terminal">>}
    \cup {<<p, "Refusal", "Terminal">> : p \in Phase \ {"PayloadSent"}}

\* next_phase as the set of its at most one result.
next_phase(phase, kind) ==
    {e[3] : e \in {x \in Edge : x[1] = phase /\ x[2] = kind}}

exact_retransmission(ep, o, sender) ==
    ep.last # None /\ ep.last.sender = sender /\ ep.last.obj = o

accept(ep, o, sender, next) ==
    [ep EXCEPT !.phase = next,
               !.intent = IF @ = None /\ KindOf(o) # "AccountSelect"
                          THEN IntentDigest(o) ELSE @,
               !.last = [sender |-> sender, obj |-> o, bytes |-> TRUE]]

Advance(result, ep) == [result |-> result, ep |-> ep]
Fail(ep) == Advance("Err", [ep EXCEPT !.phase = "Terminal"])

\* The checks on every object after the Offer.
Follows(side, ep, o) ==
    /\ ep.intent = IntentDigest(o)
    /\ next_phase(ep.phase, KindOf(o)) # {}
    /\ ep.last # None /\ ep.last.obj = Predecessor(o)
    /\ <<side, KindOf(o)>> \notin Rejected

apply(side, ep, o, sender) ==
    IF exact_retransmission(ep, o, sender) THEN Advance("Exact", ep)
    ELSE IF ep.phase = "Terminal"
            \/ (ep.phase = "PayloadSent" /\ KindOf(o) = "Refusal")
         THEN Advance("Err", ep)
    ELSE IF ~valid_sender(KindOf(o), sender) THEN Fail(ep)
    ELSE CASE KindOf(o) = "AccountSelect" ->
                IF ep.phase = "Begin" /\ ep.last = None
                THEN Advance("Advanced", accept(ep, o, sender, "AccountSelected"))
                ELSE Fail(ep)
           [] KindOf(o) = "Offer" ->
                IF side = "Allocator" /\ pre_offer(ep.phase)
                THEN Advance("Advanced", accept(ep, o, sender, "Offered"))
                ELSE Fail(ep)
           [] OTHER ->
                IF Follows(side, ep, o)
                THEN LET next == CHOOSE p \in next_phase(ep.phase, KindOf(o)) : TRUE
                     IN  Advance("Advanced", accept(ep, o, sender, next))
                ELSE Fail(ep)

receive_offer(ep, o) ==
    IF exact_retransmission(ep, o, "Allocator") THEN Advance("Exact", ep)
    ELSE IF \/ ~pre_offer(ep.phase) \/ KindOf(o) # "Offer"
            \/ <<"Claimant", "Offer">> \in Rejected
         THEN Fail(ep)
    ELSE Advance("Display", accept(ep, o, "Allocator", "Offered"))

\* A receipt that answers the retained payload; a refusal changes nothing.
authenticate_recovered_receipt(ep, o) ==
    /\ ep.phase = "PayloadSent" /\ KindOf(o) = "Receipt"
    /\ ep.intent = IntentDigest(o)
    /\ ep.last # None /\ ep.last.obj = Predecessor(o)
    /\ <<"Claimant", "Receipt">> \notin Rejected

receipt_released(side, ep) ==
    /\ side = "Allocator" /\ ep.last # None
    /\ ep.last.sender = "Allocator" /\ KindOf(ep.last.obj) = "Receipt"

-----------------------------------------------------------------------------
(* Frames and the channel.                                                 *)

Cpace(side, secret, scalar) ==
    [type |-> "Cpace", side |-> side, secret |-> secret, scalar |-> scalar]
Finished(side, key) == [type |-> "Finished", side |-> side, key |-> key]
Sealed(side, n, key, o) ==
    [type |-> "Sealed", side |-> side, n |-> n, key |-> key, obj |-> o]

IsFrom(frame, type, side) == frame.type = type /\ frame.side = side

\* The key schedule: the reader's own secret and both shares.
ChannelKey(secret, allocator, claimant) == <<secret, allocator, claimant>>

\* PendingCredentialV2Channel::confirm of the peer's frame, and what it opens.
confirm(side, key, frame) == frame = Finished(opposite(side), key)
NewChannel(key) == [key |-> key, send |-> 0, recv |-> 0, terminal |-> FALSE]

can_seal(ch) == ~ch.terminal
seal(ch) == [ch EXCEPT !.send = @ + 1]

\* The exact next counter of the peer's direction under the same key.
Opens(side, ch, frame) ==
    /\ ~ch.terminal
    /\ IsFrom(frame, "Sealed", opposite(side))
    /\ frame.n = ch.recv /\ frame.key = ch.key
open(ch) == [ch EXCEPT !.recv = @ + 1]

-----------------------------------------------------------------------------
(* CredentialV2RelayState.                                                 *)

NewRelayState == [local |-> 0, peer |-> 0, waiting |-> FALSE, cached |-> None]

accepts_peer_sequence(rl, n) == n = rl.peer
accept_peer_sequence(rl) == [rl EXCEPT !.peer = @ + 1]

queue_bootstrap_frame(rl) == [rl EXCEPT !.local = @ + 1, !.waiting = TRUE]
cache_application_frame(rl, frame) ==
    [rl EXCEPT !.local = @ + 1, !.waiting = TRUE, !.cached = frame]

LastSequence(rl) == rl.local - 1

\* acknowledge_bootstrap_frame and acknowledge_application_frame accept the
\* same sequences: only bootstrap frames leave cached empty while waiting.
Acknowledges(rl, n) == rl.waiting /\ n + 1 = rl.local
acknowledge(rl) == [rl EXCEPT !.waiting = FALSE, !.cached = None]

acknowledgement_already_applied(rl, n) ==
    /\ rl.local > 0
    /\ n < LastSequence(rl) \/ (n = LastSequence(rl) /\ ~rl.waiting)

\* Advance and cache one sealed frame, or the cached one for an exact retry.
prepare_outbound(side, ep, ch, rl, o) ==
    LET failed(e) == [ok |-> FALSE, ep |-> e, ch |-> ch, rl |-> rl]
        step == apply(side, ep, o, side)
        frame == Sealed(side, ch.send, ch.key, o)
    IN  IF rl.cached # None
        THEN [failed(ep) EXCEPT !.ok = exact_retransmission(ep, o, side)]
        ELSE IF ~can_seal(ch) THEN failed(ep)
        ELSE IF step.result # "Advanced" \/ rl.waiting THEN failed(step.ep)
        ELSE [ok |-> TRUE, ep |-> step.ep, ch |-> seal(ch),
              rl |-> cache_application_frame(rl, frame)]

-----------------------------------------------------------------------------
(* The endpoint checkpoint.  expires says whether it carries the carrier's *)
(* expiry, late whether the clock has reached it.                          *)

validate_checkpoint_phase(side, ep, expires, late) ==
    /\ ep.phase = "Terminal" => receipt_released(side, ep)
    /\ \/ side = "Allocator" /\ expires /\ ~late
       \/ side = "Claimant" /\ ep.phase = "PayloadSent" /\ ~expires
       \/ side = "Claimant" /\ ep.phase = "FinalApproved" /\ expires /\ ~late

\* Variant: the own last object is always saved without its bytes.
encode_inner_bare(side, ep, ch, rl, expires) ==
    LET omit == ep.last # None /\ ep.last.sender = side
        saved == IF omit THEN [ep EXCEPT !.last.bytes = FALSE] ELSE ep
    IN  [kind |-> "Endpoint", gen |-> ep.gen, expires |-> expires,
         ep |-> saved, ch |-> ch, rl |-> rl]

\* encode_inner leaves the last object's bytes out when the cached frame
\* carries them.
encode_inner(side, ep, ch, rl, expires) ==
    LET omit == ep.last # None /\ ep.last.sender = side /\ rl.cached # None
        saved == IF omit THEN [ep EXCEPT !.last.bytes = FALSE] ELSE ep
    IN  [kind |-> "Endpoint", gen |-> ep.gen, expires |-> expires,
         ep |-> saved, ch |-> ch, rl |-> rl]

\* What seal_checkpoint makes of an endpoint, whose generation it advances.
seal_checkpoint(side, ep, ch, rl, expires, late) ==
    LET next == [ep EXCEPT !.gen = @ + 1]
    IN  [ok |-> validate_checkpoint_phase(side, ep, expires, late), ep |-> next,
         ck |-> encode_inner(side, next, ch, rl, expires)]

\* Only a restore takes an authority that may have elapsed; an inspection
\* takes none.
open_checkpoint_for(purpose, ck, late) ==
    purpose = "Resume" /\ ck.expires => ~late

LastKindFor(phase) ==
    CASE phase = "AccountSelected" -> {"AccountSelect"}
      [] phase = "Offered" -> {"Offer"}
      [] phase = "IntentApproved" -> {"IntentApprove"}
      [] phase = "Prepared" -> {"Preparation"}
      [] phase = "Confirmed" -> {"ComparisonConfirmed", "BindingConfirmed"}
      [] phase = "FinalApproved" -> {"FinalApprove"}
      [] phase = "PayloadSent" -> {"Payload"}
      [] phase = "Terminal" -> {"Receipt"}
      [] OTHER -> {}

consistent_projection(ep) ==
    IF ep.phase = "Begin" THEN ep.intent = None /\ ep.last = None
    ELSE /\ ep.last # None
         /\ KindOf(ep.last.obj) \in LastKindFor(ep.phase)
         /\ ep.phase = "AccountSelected" <=> ep.intent = None
         /\ ep.intent # None => ep.intent = IntentDigest(ep.last.obj)
         /\ ep.phase = "AccountSelected" => ep.last.sender = "Claimant"
         /\ ep.phase = "Terminal" => ep.last.sender = "Allocator"

decode_relay(rl) == rl.waiting <=> rl.cached # None

decode_inner(side, ck) ==
    LET last == ck.ep.last IN
    /\ ~ck.ch.terminal
    /\ decode_relay(ck.rl)
    /\ last # None /\ ~last.bytes => last.sender = side /\ ck.rl.cached # None
    /\ consistent_projection(ck.ep)

restore_checkpoint(side, ck, late) ==
    /\ open_checkpoint_for("Resume", ck, late)
    /\ decode_inner(side, ck)
    /\ validate_checkpoint_phase(side, ck.ep, ck.expires, late)
=============================================================================

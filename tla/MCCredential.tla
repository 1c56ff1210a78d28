---------------------------- MODULE MCCredential ----------------------------
(* Instances of Credential for TLC. *)
EXTENDS Credential

Offers == {"Offer", "ComparisonConfirmed", "Receipt"}
EveryOffer == AllocatorKind \cup {"Refusal"}
EveryReply == (ClaimantKind \cup {"Refusal"}) \ {"FinalApprove", "Payload"}
Approvals == {"IntentApprove", "Preparation"}

OneBody == [k \in Kind |-> {1}]
TwoBodies ==
    [k \in Kind |-> IF k \in {"ComparisonConfirmed", "FinalApprove", "Payload",
                              "Receipt"} THEN {1, 2} ELSE {1}]

NoBinding == {<<"Claimant", "BindingConfirmed">>}

AllocatorCrash == [s \in Side |-> IF s = "Allocator" THEN 1 ELSE 0]
ClaimantCrash == [s \in Side |-> IF s = "Claimant" THEN 1 ELSE 0]

\* Two willing sides that share the secret, both patient, and both crash.
Willing ==
    [guesses |-> {"C"}, bodies |-> OneBody, allocator |-> Offers,
     claimant |-> Approvals, patient |-> TRUE, crashes |-> [s \in Side |-> 1],
     repeats |-> 0, expires |-> FALSE]

\* A choice of bodies; the expiry; every object, repeated and impatient, and
\* a wrong guess.
MCSetting ==
    {[Willing EXCEPT !.bodies = TwoBodies],
     [Willing EXCEPT !.expires = TRUE],
     [guesses |-> {"C", "X"}, bodies |-> OneBody, allocator |-> EveryOffer,
      claimant |-> EveryReply, patient |-> FALSE, crashes |-> AllocatorCrash,
      repeats |-> 8, expires |-> FALSE]}

MCSettingLive ==
    {[Willing EXCEPT !.crashes = [s \in Side |-> 0]],
     [Willing EXCEPT !.crashes = ClaimantCrash]}

MCSettingRestore == {Willing}
=============================================================================

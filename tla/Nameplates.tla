----------------------------- MODULE Nameplates -----------------------------
(***************************************************************************)
(* How the smallest unused numeric locator is found (src/src/relay.rs): by *)
(* a walk over the ordered table of retained names.  Names are below       *)
(* NameRange; the walk gives out the positive ones.                        *)
(***************************************************************************)
EXTENDS MailboxOps, SequencesExt

CONSTANT NameRange       \* 1_000_000_000

ASSUME NameplateAssumption == NameRange \in Nat \ {0} /\ None \notin Nat

Name == 0..(NameRange - 1)

\* Variant: the walk starts at zero.
Walk_zero(keys) ==
    FoldLeft(LAMBDA acc, k : IF acc.done \/ k < acc.candidate THEN acc
                             ELSE IF k # acc.candidate THEN [acc EXCEPT !.done = TRUE]
                             ELSE [acc EXCEPT !.candidate = @ + 1],
             [candidate |-> 0, done |-> FALSE], keys)

\* The walk: skip what is below the candidate, stop at the first gap.
Walk(keys) ==
    FoldLeft(LAMBDA acc, k : IF acc.done \/ k < acc.candidate THEN acc
                             ELSE IF k # acc.candidate THEN [acc EXCEPT !.done = TRUE]
                             ELSE [acc EXCEPT !.candidate = @ + 1],
             [candidate |-> 1, done |-> FALSE], keys)

first_available_nameplate(occupied) ==
    LET candidate == Walk(SetToSortSeq(occupied, <)).candidate
    IN  IF candidate < NameRange THEN candidate ELSE None

FirstAvailable == [occupied \in SUBSET Name |-> first_available_nameplate(occupied)]
=============================================================================

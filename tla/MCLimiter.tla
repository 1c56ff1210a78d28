------------------------------ MODULE MCLimiter ------------------------------
(* Instances of the limiter: two operations with different policies and     *)
(* three addresses, two of which are the same IPv4 host.                    *)
EXTENDS Limiter

MCAddress == {[family |-> "v4", prefix |-> "a", host |-> 0],
              [family |-> "mapped", prefix |-> "a", host |-> 0],
              [family |-> "v6", prefix |-> "p", host |-> 1]}

MCLimit == [op \in Operation |-> IF op = "Bind" THEN 1 ELSE 2]

MCWindow == [op \in Operation |-> IF op = "Bind" THEN 1 ELSE 2]

MCReading == {0, 1, 2, 4}
=============================================================================

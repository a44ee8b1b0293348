---------------------------- MODULE MCModelRunner ----------------------------
(* Two requests, with and without asynchronous scheduling, with no, one and   *)
(* two draft tokens a step.                                                   *)
EXTENDS ModelRunner, TLC

CONSTANTS q1, q2

Prompts == q1 :> 1 @@ q2 :> 2
Most(a, b) == q1 :> a @@ q2 :> b
AllModes == {[async |-> TRUE, spec |-> 0, most |-> Most(2, 2)],
             [async |-> TRUE, spec |-> 1, most |-> Most(2, 2)],
             [async |-> TRUE, spec |-> 2, most |-> Most(3, 1)],
             [async |-> FALSE, spec |-> 1, most |-> Most(3, 1)]}
=============================================================================

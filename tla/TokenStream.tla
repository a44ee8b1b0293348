----------------------------- MODULE TokenStream -----------------------------
(* What a client of the model runner is promised: the output of a request   *)
(* only grows, by the request's own next tokens, each exactly once.  A token *)
(* is named by its request, the life of that request, and its position in    *)
(* the request's sequence, whose first prompt[q] positions are the prompt.   *)
EXTENDS Naturals, Sequences

CONSTANTS Reqs, prompt, MostAtOnce   \* MostAtOnce: tokens one step can add

VARIABLES outs, life

Next1(q, k) == [i \in 1..k |-> <<q, life[q], prompt[q] + Len(outs[q]) + i - 1>>]

Init == outs = [q \in Reqs |-> << >>] /\ life = [q \in Reqs |-> 1]

(* One processed output: any of the requests grow. *)
Grow(more) == /\ outs' = [q \in Reqs |-> outs[q] \o Next1(q, more[q])]
                /\ UNCHANGED life

(* A finished request is submitted again under the same name. *)
Again(q) == /\ life' = [life EXCEPT ![q] = @ + 1]
            /\ outs' = [outs EXCEPT ![q] = << >>]

Next == \/ \E more \in [Reqs -> 0..MostAtOnce] : Grow(more)
        \/ \E q \in Reqs : Again(q)

Spec == Init /\ [][Next]_<<outs, life>>
=============================================================================

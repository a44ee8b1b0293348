---------------------------- MODULE Collectives ----------------------------
(***************************************************************************)
(* What the ranks of a tensor-parallel group owe each other: within one    *)
(* engine call all of them issue the same collectives, over the same       *)
(* transport, in the same order.  A collective that half of the ranks      *)
(* issue through a sidecar and half through RCCL never completes.          *)
(* Ranks run asynchronously, so one may be ahead of another; the next      *)
(* engine call starts when all have issued the same sequence.  A rank may  *)
(* abort instead of issuing.                                               *)
(***************************************************************************)
EXTENDS Naturals, Sequences

CONSTANT Ranks

VARIABLES
  issued,   \* issued[r]: the batches of collectives r issued in this call
  aborted   \* the ranks that raised instead

vars == <<issued, aborted>>

(* No two ranks disagree on a batch both have issued. *)
Compatible(q) ==
  \A r, s \in Ranks : \A i \in DOMAIN q[r] \cap DOMAIN q[s] : q[r][i] = q[s][i]

Init == /\ issued = [r \in Ranks |-> <<>>]
        /\ aborted = {}

(* Rank r issues one more batch, and it is the one the others issued. *)
Issue(r) ==
  /\ r \notin aborted
  /\ Len(issued'[r]) = Len(issued[r]) + 1
  /\ \A i \in DOMAIN issued[r] : issued'[r][i] = issued[r][i]
  /\ \A s \in Ranks \ {r} : issued'[s] = issued[s]
  /\ Compatible(issued')
  /\ UNCHANGED aborted

Abort(r) ==
  /\ r \notin aborted
  /\ aborted' = aborted \cup {r}
  /\ UNCHANGED issued

(* All device work of the call is complete: the engine starts the next. *)
NewCall ==
  /\ aborted = {}
  /\ \A r, s \in Ranks : issued[r] = issued[s]
  /\ issued' = [r \in Ranks |-> <<>>]
  /\ UNCHANGED aborted

Next == NewCall \/ \E r \in Ranks : Issue(r) \/ Abort(r)

Spec == Init /\ [][Next]_vars
=============================================================================

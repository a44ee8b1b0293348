--------------------------- MODULE MCGraphDispatch ---------------------------
(* Every resolution of the graph mode, and batches of two requests.          *)
EXTENDS GraphDispatch, TLC

CONSTANTS a, b

Symmetry == Permutations(Reqs)

(* Two ways to start: after profiling, with a final KV cache smaller than the  *)
(* largest size; without profiling, with a larger one and a backend that      *)
(* updates it outside of forward.                                             *)
Started == {<<3, TRUE>>, <<8, FALSE>>}

AllConfigs ==
  {[mode |-> m, support |-> s, split |-> w[1], compiled |-> w[2], partition |-> FALSE,
    q |-> q[1], sizes |-> q[2], mamba |-> TRUE, blocks |-> st[1], separate |-> ~ st[2],
    scales |-> ~ st[2], estimate |-> st[2]] :
   m \in CUDAGraphModes, s \in Support,
   w \in {<<TRUE, TRUE>>, <<FALSE, TRUE>>, <<FALSE, FALSE>>}, 
   q \in {<<1, {1, 2, 4}>>, <<2, {1, 2, 4}>>, <<2, {1, 3}>>}, st \in Started}
=============================================================================

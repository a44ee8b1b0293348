--------------------------- MODULE MCShardedLayers ---------------------------
(* Worlds of two, four and eight ranks; key and value heads on one rank, on    *)
(* several, and several on one; files in either order of heads; the switches   *)
(* of the experts in every combination.                                       *)
EXTENDS ShardedLayers

Shape(world, h, g, k, v, i) ==
  [tp |-> world, heads |-> h, kv |-> g, keys |-> k, values |-> v, inter |-> i]
(* The conversions are made for 8 key and 24 value heads; two shapes have those. *)
(* In two others tiled and plain order are one; one has 24 value heads in       *)
(* groups of 2, which the conversions do not tell, and one is not known at all. *)
Shapes == {Shape(2, 4, 2, 8, 24, 4), Shape(8, 8, 2, 8, 24, 8), Shape(4, 4, 1, 4, 4, 8),
           Shape(8, 8, 8, 8, 8, 16), Shape(4, 8, 2, 12, 24, 4), Shape(2, 8, 4, 4, 12, 4)}
Plain == [gguf |-> FALSE, quant |-> FALSE, moe |-> FALSE, shared |-> FALSE, four |-> FALSE,
          fourShared |-> FALSE, fuse |-> FALSE, interleave |-> FALSE]

Dense == {[Plain EXCEPT !.gguf = g, !.interleave = i] : g, i \in BOOLEAN}
Quantised == {[Plain EXCEPT !.gguf = TRUE, !.quant = TRUE]}
Experts == {[Plain EXCEPT !.gguf = g, !.moe = TRUE, !.shared = s, !.four = f, !.fourShared = h,
                          !.fuse = u] : g, s, f, h, u \in BOOLEAN}
MCConfigs == {p @@ q : p \in Shapes, q \in Dense \cup Quantised \cup Experts}
=============================================================================

---------------------------- MODULE MCVnextLaunch ----------------------------
(* Small instances of VnextLaunch. *)
EXTENDS VnextLaunch

Model(fmt, family) == [fmt |-> fmt, family |-> family, seen |-> family]
Profile(name, served, fmt, family, overlay, groups, load, vars) ==
  [name |-> name, served |-> served, fmt |-> fmt, family |-> family, overlay |-> overlay,
   groups |-> groups, load |-> load, vars |-> vars, allow |-> FALSE, model |-> Model(fmt, family)]

HfMoe4 == Profile("hf_moe_tp4", "35B", "hf", "moe", "hf_release", {"common", "moe", "hf"}, "auto", {})
HfMoe8 == Profile("hf_moe_tp8", "35B", "hf", "moe", "hf_release",
                  {"common", "moe", "hf", "moe_tp8"}, "auto", {"moe"})
HfDense == Profile("hf_dense", "27B", "hf", "dense", "hf_release", {"common", "dense", "hf"}, "auto", {})
GgufMoe == Profile("gguf_moe", "35B_gguf", "gguf", "moe", "gguf_moe", {"common", "moe", "gguf"},
                   "gguf", {"gguf"})

(* Four shipped profiles, the GGUF one  with a Hugging Face model and the       *)
(* mismatch allowed (which only the verifier refuses), another family's model   *)
(* whose family nobody saw (which nobody refuses), and what the launcher        *)
(* refuses: a model of the other family, groups of another format or family.   *)
MCRequests ==
  {HfMoe4, HfMoe8, HfDense, GgufMoe,
   [GgufMoe EXCEPT !.model = Model("hf", "moe"), !.allow = TRUE, !.load = "auto"],
   [HfMoe4 EXCEPT !.model = [Model("hf", "dense") EXCEPT !.seen = "unknown"]],
   [HfMoe4 EXCEPT !.model = Model("hf", "dense")],
   [HfMoe4 EXCEPT !.groups = @ \cup {"gguf"}],
   [HfDense EXCEPT !.groups = @ \cup {"moe"}]}
=============================================================================

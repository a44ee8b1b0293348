--------------------------- MODULE MCPersistentAR ---------------------------
(* Small instances of PersistentAR: a forward pass of three all-reduces and *)
(* two libraries beside the public path.                                    *)
EXTENDS PersistentAR, TLC

Call(op, kind, prefix, bypass) ==
  [op |-> op, kind |-> kind, prefix |-> prefix, bypass |-> bypass]

(* An attention library beside the default one. *)
LibKindRoute == [k \in Kinds |-> CASE k = "default" -> "libdef"
                                   [] k = "attn"    -> "libattn"
                                   [] OTHER         -> NoLib]
LibCallsite  == [k \in Kinds |-> CASE k = "default"  -> "libdef"
                                   [] k = "callsite" -> "libsite"
                                   [] OTHER          -> NoLib]

(* Attention with a bypassed prefix occurrence, an MLP with a bypassed site,  *)
(* and a public call.                                                        *)
ModelRouted == << Call("inplace", "attn", "l0", "prefix"),
                  Call("inplace", "mlp", NoPrefix, "site"),
                  Call("public", "other", NoPrefix, "never") >>
(* A bypassed site, and an MLP boundary fused with its normalisation. *)
ModelFused  == << Call("inplace", "attn", NoPrefix, "site"),
                  Call("inplace", "mlp", NoPrefix, "never"),
                  Call("fused", "mlp", NoPrefix, "never") >>

SomePrefixes == {"l0"}
NoNumbers    == {}
Sites        == {1}
Routed       == {5}
SomeOccurs   == {2}

Symmetry == Permutations(Ranks)
=============================================================================

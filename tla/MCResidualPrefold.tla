-------------------------- MODULE MCResidualPrefold --------------------------
(* Two ranks and two layers: every switch, kind of layer and fit.            *)
EXTENDS ResidualPrefold

CONSTANTS r1, r2, none
=============================================================================

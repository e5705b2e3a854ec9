----------------------------- MODULE MCBandAlerts -----------------------------
(* Instances of BandAlerts for TLC.                                          *)
EXTENDS BandAlerts, TLC

CONSTANTS p1, p2

MCPods == {p1, p2}

MCSymmetry == Permutations(MCPods)
===============================================================================

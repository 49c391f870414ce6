------------------------ MODULE MCConfigDistribution ------------------------
(***************************************************************************)
(* Instances of ConfigDistribution for TLC.                                *)
(***************************************************************************)
EXTENDS ConfigDistribution

CONSTANTS s1, s2, e1, e2

=============================================================================

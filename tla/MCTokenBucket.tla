---------------------------- MODULE MCTokenBucket ----------------------------
(***************************************************************************)
(* Instances of TokenBucket for TLC.                                       *)
(***************************************************************************)
EXTENDS TokenBucket, TLC

CONSTANTS c1, c2

\* Callers are interchangeable.  Used only by runs that check no liveness.
CallerSymmetry == Permutations(Callers)

=============================================================================

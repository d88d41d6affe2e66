--------------------------- MODULE MCPublication ----------------------------
(***************************************************************************)
(* The publication executor for TLC: two requests with audit directories   *)
(* dp and dq; the first is run twice, by attempts p1 and p2, the second    *)
(* once, by q1.                                                            *)
(***************************************************************************)
EXTENDS PublicationInvariant, TLC

CONSTANTS p1, p2, q1, dp, dq

MCWorkDir == (p1 :> dp) @@ (p2 :> dp) @@ (q1 :> dq)

\* The two runs of the first request are interchangeable.
MCSymmetry == Permutations({p1, p2})

=============================================================================

----------------------------- MODULE MCExecution -----------------------------
(***************************************************************************)
(* The family execution and its review for TLC: two runs of one request    *)
(* and two inspectors.                                                     *)
(***************************************************************************)
EXTENDS ExecutionReview, TLC

CONSTANTS e1, e2, dp, one, two

MCWorkDir == (e1 :> dp) @@ (e2 :> dp)

\* The runs of the request are interchangeable, and so are the inspectors.
MCSymmetry ==
    {f \in Permutations(Attempt \cup Inspector) :
        /\ \A a \in Attempt : f[a] \in Attempt
        /\ \A i \in Inspector : f[i] \in Inspector}

=============================================================================

------------------------------ MODULE MCReview -------------------------------
(***************************************************************************)
(* The executor and the evidence review for TLC: two requests, each run    *)
(* once, racing for the canonical destination while both are reviewed.     *)
(***************************************************************************)
EXTENDS PublicationReview, TLC

CONSTANTS p1, q1, dp, dq, one, two

MCWorkDir == (p1 :> dp) @@ (q1 :> dq)

\* Two requests with one fault and one inspection at a time, or one request alone
\* with two faults and two inspections at a time.
MCFocus ==
    \/ faults <= 1 /\ Cardinality({i \in Inspector : rstep[i] # "idle"}) <= 1
    \/ Cardinality({a \in Attempt : pc[a] # "idle"}) <= 1

\* The two requests, each with its directory, are interchangeable, and so are
\* the inspectors.
MCSymmetry ==
    {f \in Permutations(Attempt \cup AuditDir \cup Inspector) :
        /\ \A a \in Attempt : f[a] \in Attempt /\ f[WorkDir[a]] = WorkDir[f[a]]
        /\ \A i \in Inspector : f[i] \in Inspector}

=============================================================================

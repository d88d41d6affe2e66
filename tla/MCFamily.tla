------------------------------ MODULE MCFamily ------------------------------
(***************************************************************************)
(* The family workflow for TLC: three repositories in two roles, a         *)
(* candidate that connects automatically and one that needs a review.      *)
(***************************************************************************)
EXTENDS FamilyWorkflow, TLC

CONSTANTS p, q, r, fork, lineage, src

MCRole == (p :> "c0_fit") @@ (q :> "c0_iteration") @@ (r :> "c0_iteration")
MCEnds == (fork :> {q, r}) @@ (lineage :> {p, q})
MCRule == (fork :> "AUTO") @@ (lineage :> "APPROVED_REQUIRED")
MCSourceOf == (fork :> src) @@ (lineage :> src)

SourceIn(status) == [table |-> "source_records", key |-> src, content |-> status]
CandidateIn(c) == [table |-> "evidence_candidates", key |-> c, content |-> "UNRESOLVED"]
Reviewed(c, verdict) ==
    [table |-> "manual_review_dispositions", key |-> c, content |-> verdict]

Bound(rows) == [rows |-> rows, incomplete |-> 0]
Awaiting == Bound({SourceIn("COMPLETE"), CandidateIn(lineage)})
Rejected == [Awaiting EXCEPT !.rows = @ \cup {Reviewed(lineage, "REJECTED")}]
Agreed == [Awaiting EXCEPT !.rows =
                @ \cup {CandidateIn(fork), Reviewed(lineage, "APPROVED")}]
Disputed == [Rejected EXCEPT !.rows = @ \cup {Reviewed(lineage, "APPROVED")}]
Unasked == [Agreed EXCEPT !.rows = @ \cup {Reviewed(fork, "APPROVED")}]
Unsourced == Bound({SourceIn("INCOMPLETE"), CandidateIn(fork)})
Lacking == [rows |-> {}, incomplete |-> 1]

MCBundle == {Awaiting, Rejected, Agreed, Disputed, Unasked, Unsourced, Lacking}

MCSymmetry == Permutations(Run) \cup Permutations(Identity)

=============================================================================

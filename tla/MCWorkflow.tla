----------------------------- MODULE MCWorkflow -----------------------------
(* The workflow kernel for TLC: two run ids, two identities and two payloads. *)
EXTENDS WorkflowInvariant, TLC

CONSTANTS r1, r2, i1, i2, a, b

MCSymmetry == Permutations({r1, r2}) \cup Permutations({i1, i2}) \cup Permutations({a, b})

=============================================================================

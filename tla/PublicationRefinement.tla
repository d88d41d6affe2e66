----------------------- MODULE PublicationRefinement ------------------------
(***************************************************************************)
(* The executor implements OneShotPublication.  How far an attempt has     *)
(* come is read off its program counter and the history of links: an       *)
(* attempt whose link succeeded counts as having created the artifact even *)
(* while its except branch runs.                                           *)
(***************************************************************************)
EXTENDS CanonicalPublication

Outcome(a) ==
    CASE pc[a] = "completed" -> "completed"
      [] pc[a] \in {"refused", "withheld", "failed", "crashed"} -> "ended"
      [] pc[a] \in TryBlock \cup Handler ->
            IF a \in linked THEN "created" ELSE "claimed"
      [] OTHER -> "pending"

OneShot == INSTANCE OneShotPublication WITH
    Bytes <- Content, Authentic <- Exact, NoArtifact <- NoBytes,
    artifact <- dest, claimed <- dirs, outcome <- [a \in Attempt |-> Outcome(a)]

\* Every behaviour of the executor, with its races, faults and crashes, is one
\* of the abstract one-shot publication.
ImplementsOneShot == OneShot!AbstractSpec

=============================================================================

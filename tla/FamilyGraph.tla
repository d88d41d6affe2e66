----------------------------- MODULE FamilyGraph -----------------------------
(***************************************************************************)
(* The pure part of the connected-family computation: resolving evidence   *)
(* candidates into edges (relate/family/edges.py), completeness and        *)
(* outcome (outcome.py), components (graph.py) and the components that     *)
(* cross allocation roles (analysis.py).  Records are bound to their       *)
(* content by digests, so an edge is its candidate and its review status.  *)
(***************************************************************************)
EXTENDS Naturals, FiniteSets, FiniteSetsExt

CONSTANTS
    Repository,  \* the allocated repositories
    Role,        \* the allocation role of each
    Candidate,   \* evidence candidates
    Ends,        \* the two repositories each may connect
    Rule,        \* review requirement of its edge rule
    Source,      \* source records
    SourceOf     \* the one each candidate is committed to

ReviewRequirement == {"AUTO", "APPROVED_REQUIRED", "REVIEW_ONLY"}

ASSUME GraphAssumption ==
    /\ IsFiniteSet(Repository) /\ Repository # {}
    /\ DOMAIN Role = Repository
    /\ IsFiniteSet(Candidate)
    /\ Ends \in [Candidate -> {pair \in SUBSET Repository : Cardinality(pair) = 2}]
    /\ Rule \in [Candidate -> ReviewRequirement]
    /\ SourceOf \in [Candidate -> Source]

-----------------------------------------------------------------------------
(* Rows of the evidence tables, by their key and content.  The content of  *)
(* a candidate is its key, of a source record its status.                  *)

SourceRow == [table : {"source_records"}, key : Source, content : {"COMPLETE", "INCOMPLETE"}]
CandidateRow == [table : {"evidence_candidates"}, key : Candidate, content : {"UNRESOLVED"}]
DispositionRow == [table : {"manual_review_dispositions"}, key : Candidate,
                   content : {"APPROVED", "REJECTED"}]
Row == SourceRow \cup CandidateRow \cup DispositionRow

ReviewStatus == {"APPROVED", "REJECTED", "UNRESOLVED", "REVIEW_ONLY"}
Edge == [candidate : Candidate, status : ReviewStatus]

CandidatesIn(rows) == {row.key : row \in rows \cap CandidateRow}
VerdictsIn(rows, c) == {row.content : row \in {w \in rows \cap DispositionRow : w.key = c}}

\* validate_source_registry.
Sourced(rows, c) ==
    [table |-> "source_records", key |-> SourceOf[c], content |-> "COMPLETE"] \in rows

\* Mutant: evidence that awaits review counts as approved.
ResolveUnreviewed(rows, c) ==
    [candidate |-> c,
     status |-> CASE Rule[c] = "REVIEW_ONLY" -> "REVIEW_ONLY"
                  [] Rule[c] # "REVIEW_ONLY" /\ "REJECTED" \in VerdictsIn(rows, c) -> "REJECTED"
                  [] OTHER -> "APPROVED"]

\* resolve_evidence_candidate; a candidate has at most one final disposition in the
\* store.
Resolve(rows, c) ==
    [candidate |-> c,
     status |-> CASE Rule[c] = "AUTO" -> "APPROVED"
                  [] Rule[c] = "REVIEW_ONLY" -> "REVIEW_ONLY"
                  [] OTHER -> IF VerdictsIn(rows, c) = {} THEN "UNRESOLVED"
                              ELSE CHOOSE verdict \in VerdictsIn(rows, c) : TRUE]

Connecting(e) == e.status = "APPROVED"

-----------------------------------------------------------------------------
(* Completeness, components and crossings.                                 *)

WithStatus(edges, status) == Cardinality({e \in edges : e.status = status})

\* graph_completeness.
Completeness(edges, incomplete) ==
    [unresolved |-> WithStatus(edges, "UNRESOLVED"),
     approved |-> WithStatus(edges, "APPROVED"),
     rejected |-> WithStatus(edges, "REJECTED"),
     reviewonly |-> WithStatus(edges, "REVIEW_ONLY"),
     incomplete |-> incomplete]

Ready(completeness) == completeness.incomplete = 0 /\ completeness.unresolved = 0

\* UnionFind.union: the blocks of the two ends become one.
Union(blocks, e) ==
    LET touched == {block \in blocks : block \cap Ends[e.candidate] # {}} IN
    (blocks \ touched) \cup {UNION touched}

\* build_components.
Components(edges) ==
    FoldSet(LAMBDA e, blocks : Union(blocks, e),
            {{repository} : repository \in Repository},
            {e \in edges : Connecting(e)})

\* analyse_role_crossings refuses an edge whose ends are in two components.
EdgesWithin(edges, blocks) ==
    \A e \in edges : Connecting(e) => \E block \in blocks : Ends[e.candidate] \subseteq block

Crossings(blocks) ==
    {block \in blocks : Cardinality({Role[repository] : repository \in block}) > 1}

\* family_graph_outcome of a complete graph.
Outcome(crossings) ==
    IF crossings = {} THEN "FAMILY_GRAPH_COMPLETE_NO_CROSS_ROLE_COMPONENTS"
    ELSE "FAMILY_GRAPH_COMPLETE_CROSS_ROLE_COMPONENTS_OBSERVED"

-----------------------------------------------------------------------------
(* What the protocol says of the result, without the algorithm: an edge    *)
(* connects if its rule is automatic or its review approved it, and a      *)
(* family is what edges connect, however indirectly.                       *)

Approved(rows, c) ==
    \/ Rule[c] = "AUTO"
    \/ Rule[c] = "APPROVED_REQUIRED"
       /\ [table |-> "manual_review_dispositions", key |-> c, content |-> "APPROVED"] \in rows

Closed(rows, family) ==
    \A c \in CandidatesIn(rows) :
        Approved(rows, c) => (Ends[c] \cap family = {} \/ Ends[c] \subseteq family)

\* The families of the evidence in rows: the least nonempty closed sets.
Families(rows) ==
    LET closed == {family \in SUBSET Repository : family # {} /\ Closed(rows, family)} IN
    {family \in closed : \A other \in closed : other \subseteq family => other = family}

=============================================================================

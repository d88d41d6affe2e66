----------------------------- MODULE FamilyProofs -----------------------------
(***************************************************************************)
(* Runs of the family workflow on one store, for any runs, bundles,        *)
(* repositories and candidates, and any number of stops.                   *)
(*                                                                         *)
(* Phases are committed once, and what they commit to only grows beneath   *)
(* them.  When all runs have one plan, the store holds nothing but parts   *)
(* of one result, the one that the bundle decides, and every step of a run *)
(* finds there what it needs or nothing.                                   *)
(***************************************************************************)
EXTENDS FamilyWorkflow, FiniteSetTheorems, WellFoundedInduction, TLAPS

-----------------------------------------------------------------------------
(* The fold.                                                               *)

Singles == {{repository} : repository \in Repository}

Chosen(s) == CHOOSE e \in s : TRUE

\* The blocks of a set s of edges from those of its subsets.
Folded(s, f) == IF s = {} THEN Singles ELSE Union(f[s \ {Chosen(s)}], Chosen(s))

IsFold(f, S) == f = [s \in SUBSET S |-> Folded(s, f)]

Blocks(S) == (CHOOSE f : IsFold(f, S))[S]

\* build_components folds the unions over the connecting edges.
LEMMA ComponentsAreBlocks ==
    ASSUME NEW E
    PROVE  Components(E) = Blocks({e \in E : Connecting(e)})
  BY DEF Components, FoldSet, MapThenFoldSet, Blocks, IsFold, Folded, Singles, Chosen

\* If some subset of a finite set is bad, a smallest one is.
LEMMA Smallest ==
    ASSUME NEW S, IsFiniteSet(S), NEW Bad \in SUBSET SUBSET S, Bad # {}
    PROVE  \E T \in Bad : \A U \in Bad : U \subseteq T => U = T
  <1>1. IsWellFoundedOn(StrictSubsetOrdering(S), FiniteSubsetsOf(S))
    BY FS_StrictSubsetOrderingWellFounded
  <1>2. Bad \subseteq FiniteSubsetsOf(S)
    BY FS_FiniteSubsetsOfFinite
  <1>3. PICK T \in Bad : \A U \in Bad : ~ (<<U, T>> \in StrictSubsetOrdering(S))
    BY <1>1, <1>2, WFMin
  <1> QED
    BY <1>3 DEF StrictSubsetOrdering

\* Two folds agree wherever both are defined.
LEMMA FoldsAgree ==
    ASSUME NEW S, IsFiniteSet(S), NEW f, NEW T, NEW g, IsFold(f, S), IsFold(g, T)
    PROVE  \A s \in SUBSET (S \cap T) : f[s] = g[s]
  <1> DEFINE Bad == {s \in SUBSET (S \cap T) : f[s] # g[s]}
  <1>1. ASSUME Bad # {} PROVE FALSE
    <2>1. Bad \in SUBSET SUBSET S
      OBVIOUS
    <2>2. PICK s \in Bad : \A u \in Bad : u \subseteq s => u = s
      <3> HIDE DEF Bad
      <3> QED
        BY <1>1, <2>1, Smallest
    <2>3. f[s] = Folded(s, f) /\ g[s] = Folded(s, g)
      BY DEF IsFold
    <2>4. s # {}
      BY <2>3 DEF Folded
    <2>5. Chosen(s) \in s
      BY <2>4 DEF Chosen
    <2>6. f[s \ {Chosen(s)}] = g[s \ {Chosen(s)}]
      BY <2>2, <2>5
    <2> QED
      BY <2>3, <2>6 DEF Folded
  <1> QED
    BY <1>1

\* There is a fold over every finite set.
LEMMA FoldExists ==
    ASSUME NEW S, IsFiniteSet(S)
    PROVE  \A T \in SUBSET S : \E f : IsFold(f, T)
  <1> DEFINE Bad == {T \in SUBSET S : ~ \E f : IsFold(f, T)}
  <1>1. ASSUME Bad # {} PROVE FALSE
    <2>1. PICK T \in Bad : \A U \in Bad : U \subseteq T => U = T
      <3>1. Bad \in SUBSET SUBSET S
        OBVIOUS
      <3> HIDE DEF Bad
      <3> QED
        BY <1>1, <3>1, Smallest
    <2> DEFINE h(U) == CHOOSE f : IsFold(f, U)
               f == [s \in SUBSET T |->
                        IF s = {} THEN Singles ELSE Union(Blocks(s \ {Chosen(s)}), Chosen(s))]
    <2>2. ASSUME NEW U \in SUBSET T, U # T PROVE IsFold(h(U), U) /\ IsFiniteSet(U)
      <3>1. U \in SUBSET S /\ U \notin Bad
        BY <2>1, <2>2
      <3>2. IsFiniteSet(U)
        BY <3>1, FS_Subset
      <3> QED
        BY <3>1, <3>2
    <2>3. ASSUME NEW s \in SUBSET T, s # {} PROVE f[s \ {Chosen(s)}] = Blocks(s \ {Chosen(s)})
      <3> DEFINE u == s \ {Chosen(s)}
      <3>1. Chosen(s) \in s
        BY <2>3 DEF Chosen
      <3>2. u \in SUBSET T /\ u # T
        BY <3>1
      <3>3. IsFold(h(u), u) /\ IsFiniteSet(u)
        BY <2>2, <3>2
      <3>4. Blocks(u) = Folded(u, h(u))
        <4>1. h(u) = [t \in SUBSET u |-> Folded(t, h(u))]
          BY <3>3 DEF IsFold
        <4>2. h(u)[u] = Folded(u, h(u))
          BY <4>1
        <4> QED
          BY <4>2 DEF Blocks
      <3>5. CASE u = {}
        BY <3>4, <3>5 DEF Folded
      <3>6. CASE u # {}
        <4> DEFINE v == u \ {Chosen(u)}
        <4>1. Chosen(u) \in u
          BY <3>6 DEF Chosen
        <4>2. v \in SUBSET T /\ v # T /\ v \in SUBSET (u \cap v)
          BY <3>2, <4>1
        <4>3. IsFold(h(v), v)
          BY <2>2, <4>2
        <4>4. h(u)[v] = h(v)[v]
          BY <3>3, <4>2, <4>3, FoldsAgree
        <4>5. f[u] = Union(Blocks(v), Chosen(u))
          BY <3>2, <3>6
        <4> QED
          BY <3>4, <3>6, <4>4, <4>5 DEF Folded, Blocks
      <3> QED
        BY <3>5, <3>6
    <2>4. IsFold(f, T)
      BY <2>3 DEF IsFold, Folded
    <2> QED
      BY <2>1, <2>4
  <1> QED
    BY <1>1

\* The blocks of no edge, and of one edge more.
LEMMA BlocksUnfold ==
    ASSUME NEW S, IsFiniteSet(S)
    PROVE  /\ Blocks({}) = Singles
           /\ S # {} => /\ Chosen(S) \in S
                        /\ Blocks(S) = Union(Blocks(S \ {Chosen(S)}), Chosen(S))
  <1> DEFINE h(U) == CHOOSE f : IsFold(f, U)
  <1>1. ASSUME NEW U \in SUBSET S PROVE IsFold(h(U), U) /\ h(U)[U] = Folded(U, h(U))
    <2>1. IsFold(h(U), U)
      BY FoldExists
    <2>2. h(U) = [t \in SUBSET U |-> Folded(t, h(U))]
      BY <2>1 DEF IsFold
    <2>3. h(U)[U] = Folded(U, h(U))
      BY <2>2
    <2> QED
      BY <2>1, <2>3
  <1>2. Blocks({}) = Singles
    BY <1>1 DEF Blocks, Folded
  <1>3. ASSUME S # {}
        PROVE  Chosen(S) \in S /\ Blocks(S) = Union(Blocks(S \ {Chosen(S)}), Chosen(S))
    <2> DEFINE u == S \ {Chosen(S)}
    <2>1. Chosen(S) \in S
      BY <1>3 DEF Chosen
    <2>2. u \in SUBSET S /\ S \in SUBSET S /\ u \in SUBSET (S \cap u)
      OBVIOUS
    <2>3. h(S)[u] = h(u)[u]
      BY <1>1, <2>2, FoldsAgree
    <2>4. h(S)[S] = Folded(S, h(S))
      BY <1>1, <2>2
    <2> QED
      BY <1>3, <2>1, <2>3, <2>4 DEF Folded, Blocks
  <1> QED
    BY <1>2, <1>3

-----------------------------------------------------------------------------
(* The components.                                                         *)

EndsOf(e) == Ends[e.candidate]

\* No edge of C leaves X.
Keeps(X, C) == \A e \in C : EndsOf(e) \cap X = {} \/ EndsOf(e) \subseteq X

Partitions(F) ==
    /\ UNION F = Repository /\ {} \notin F
    /\ \A A, B \in F : A \cap B # {} => A = B

\* F are the components of the edges C: a partition into blocks that no edge leaves,
\* each within any set that it meets and no edge leaves.
AreComponents(F, C) ==
    /\ Partitions(F)
    /\ \A B \in F : Keeps(B, C)
    /\ \A B \in F, X \in SUBSET Repository : X \cap B # {} /\ Keeps(X, C) => B \subseteq X

\* An edge has two repositories as ends.
LEMMA EndsNonempty ==
    ASSUME NEW e \in Edge
    PROVE  EndsOf(e) \subseteq Repository /\ EndsOf(e) # {}
  <1>1. EndsOf(e) \subseteq Repository /\ Cardinality(EndsOf(e)) = 2
    BY GraphAssumption DEF Edge, EndsOf
  <1> QED
    BY <1>1, FS_EmptySet

\* Without an edge every repository is a component.
LEMMA SinglesAreComponents == AreComponents(Singles, {})
  BY DEF AreComponents, Partitions, Singles, Keeps

\* One union makes of the components of C those of C and one edge more.
LEMMA UnionAddsEdge ==
    ASSUME NEW C \in SUBSET Edge, NEW e \in Edge, NEW F, AreComponents(F, C)
    PROVE  AreComponents(Union(F, e), C \cup {e})
  <1> DEFINE touched == {block \in F : block \cap EndsOf(e) # {}}
             G == (F \ touched) \cup {UNION touched}
  <1>1. Union(F, e) = G
    BY DEF Union, EndsOf
  <1>2. EndsOf(e) \subseteq UNION touched /\ EndsOf(e) # {}
    BY EndsNonempty DEF AreComponents, Partitions
  <1>3. Partitions(G)
    <2>1. UNION G = Repository
      <3>1. UNION G = UNION F
        OBVIOUS
      <3> QED
        BY <3>1 DEF AreComponents, Partitions
    <2>2. {} \notin G
      BY <1>2 DEF AreComponents, Partitions
    <2>3. ASSUME NEW A \in F \ touched PROVE A \cap UNION touched = {}
      BY DEF AreComponents, Partitions
    <2>4. ASSUME NEW A \in G, NEW B \in G, A \cap B # {} PROVE A = B
      <3>1. \A D, H \in F : D \cap H # {} => D = H
        BY DEF AreComponents, Partitions
      <3>2. \A D \in G : D \in F \ touched \/ D = UNION touched
        OBVIOUS
      <3>3. CASE A \in F \ touched /\ B \in F \ touched
        BY <2>4, <3>1, <3>3
      <3>4. CASE A = UNION touched /\ B \in F \ touched
        BY <2>3, <2>4, <3>4
      <3>5. CASE A \in F \ touched /\ B = UNION touched
        BY <2>3, <2>4, <3>5
      <3> HIDE DEF G
      <3> QED
        BY <3>2, <3>3, <3>4, <3>5
    <2> QED
      BY <2>1, <2>2, <2>4 DEF Partitions
  <1>4. ASSUME NEW B \in G PROVE Keeps(B, C \cup {e})
    <2>1. CASE B \in F \ touched
      BY <2>1 DEF AreComponents, Keeps
    <2>2. CASE B = UNION touched
      <3>1. ASSUME NEW d \in C, EndsOf(d) \cap B # {} PROVE EndsOf(d) \subseteq B
        <4>1. PICK A \in touched : EndsOf(d) \cap A # {}
          BY <2>2, <3>1
        <4>2. EndsOf(d) \subseteq A
          BY <4>1 DEF AreComponents, Keeps
        <4> QED
          BY <2>2, <4>1, <4>2
      <3> QED
        BY <1>2, <2>2, <3>1 DEF Keeps
    <2> QED
      BY <2>1, <2>2
  <1>5. ASSUME NEW B \in G, NEW X \in SUBSET Repository, X \cap B # {}, Keeps(X, C \cup {e})
        PROVE  B \subseteq X
    <2>1. Keeps(X, C) /\ (EndsOf(e) \cap X = {} \/ EndsOf(e) \subseteq X)
      BY <1>5 DEF Keeps
    <2>2. CASE B \in F
      BY <1>5, <2>1, <2>2 DEF AreComponents
    <2>3. CASE B = UNION touched
      <3>1. PICK A \in touched : A \cap X # {}
        BY <1>5, <2>3
      <3>2. A \subseteq X
        BY <2>1, <3>1 DEF AreComponents
      <3>3. EndsOf(e) \subseteq X
        BY <2>1, <3>1, <3>2
      <3>4. \A D \in touched : D \subseteq X
        BY <2>1, <3>3 DEF AreComponents
      <3> QED
        BY <2>3, <3>4
    <2> QED
      BY <2>2, <2>3
  <1> QED
    BY <1>1, <1>3, <1>4, <1>5 DEF AreComponents

\* There are finitely many edges.
LEMMA EdgesAreFinite == IsFiniteSet(Edge)
  <1> DEFINE P == Candidate \X ReviewStatus
             f == [p \in P |-> [candidate |-> p[1], status |-> p[2]]]
  <1>1. IsFiniteSet(ReviewStatus)
    <2>1. ReviewStatus = {"APPROVED"} \cup ({"REJECTED"} \cup ({"UNRESOLVED"} \cup {"REVIEW_ONLY"}))
      BY DEF ReviewStatus
    <2> QED
      BY <2>1, FS_Singleton, FS_Union
  <1>2. IsFiniteSet(P)
    BY <1>1, GraphAssumption, FS_Product
  <1>3. f \in Surjection(P, Edge)
    <2>1. f \in [P -> Edge]
      BY DEF Edge
    <2>2. ASSUME NEW e \in Edge PROVE \E p \in P : f[p] = e
      <3>1. <<e.candidate, e.status>> \in P
        BY DEF Edge
      <3>2. e = [candidate |-> e.candidate, status |-> e.status]
        BY DEF Edge
      <3> QED
        BY <3>1, <3>2
    <2> QED
      BY <2>1, <2>2 DEF Surjection
  <1> QED
    BY <1>2, <1>3, FS_Surjection

\* The components of any edges are found, whatever the order the fold takes them in.
LEMMA BlocksAreComponents ==
    ASSUME NEW S \in SUBSET Edge
    PROVE  AreComponents(Blocks(S), S)
  <1> DEFINE Bad == {T \in SUBSET S : ~ AreComponents(Blocks(T), T)}
  <1>0. IsFiniteSet(S)
    BY EdgesAreFinite, FS_Subset
  <1>1. ASSUME Bad # {} PROVE FALSE
    <2>1. PICK T \in Bad : \A U \in Bad : U \subseteq T => U = T
      <3>1. Bad \in SUBSET SUBSET S
        OBVIOUS
      <3> HIDE DEF Bad
      <3> QED
        BY <1>0, <1>1, <3>1, Smallest
    <2>2. IsFiniteSet(T) /\ T \in SUBSET Edge
      BY <1>0, FS_Subset
    <2>3. T # {}
      BY <2>2, BlocksUnfold, SinglesAreComponents
    <2> DEFINE e == Chosen(T)
               U == T \ {e}
    <2>4. e \in T /\ Blocks(T) = Union(Blocks(U), e)
      BY <2>2, <2>3, BlocksUnfold
    <2>5. AreComponents(Blocks(U), U)
      BY <2>1, <2>4
    <2>6. U \in SUBSET Edge /\ e \in Edge /\ U \cup {e} = T
      BY <2>2, <2>4
    <2>7. AreComponents(Union(Blocks(U), e), U \cup {e})
      <3> HIDE DEF U, e
      <3> QED
        BY <2>5, <2>6, UnionAddsEdge
    <2> QED
      BY <2>1, <2>4, <2>6, <2>7
  <1> QED
    BY <1>1

\* build_components returns the connected components of the edges that connect.
THEOREM ComponentsAreRight ==
    ASSUME NEW E \in SUBSET Edge
    PROVE  AreComponents(Components(E), {e \in E : Connecting(e)})
  BY ComponentsAreBlocks, BlocksAreComponents

\* No edge is refused by the analysis of the components of the edges it belongs to.
LEMMA EdgesLieWithin ==
    ASSUME NEW E \in SUBSET Edge
    PROVE  EdgesWithin(E, Components(E)) /\ Components(E) # {}
  <1> DEFINE C == {e \in E : Connecting(e)}
             F == Components(E)
  <1>1. AreComponents(F, C)
    BY ComponentsAreRight
  <1>2. ASSUME NEW e \in C PROVE \E block \in F : EndsOf(e) \subseteq block
    <2>1. PICK x : x \in EndsOf(e) /\ x \in Repository
      BY EndsNonempty
    <2>2. PICK block \in F : x \in block
      BY <1>1, <2>1 DEF AreComponents, Partitions
    <2> QED
      BY <1>1, <2>1, <2>2 DEF AreComponents, Keeps
  <1>3. F # {}
    BY <1>1, GraphAssumption DEF AreComponents, Partitions
  <1> QED
    BY <1>2, <1>3 DEF EdgesWithin, EndsOf

-----------------------------------------------------------------------------
(* From evidence to families.                                              *)

\* The edges of the evidence in rows.
EdgesOf(rows) == {Resolve(rows, c) : c \in CandidatesIn(rows)}

\* The reviews in rows do not contradict each other.
Undisputed(rows) == \A c \in CandidatesIn(rows) : \A v, w \in VerdictsIn(rows, c) : v = w

\* An edge without a status awaits a review, and an edge connects when the protocol
\* approves its candidate.
LEMMA ResolveIs ==
    ASSUME NEW rows, NEW c \in CandidatesIn(rows)
    PROVE  /\ Resolve(rows, c) \in Edge /\ Resolve(rows, c).candidate = c
           /\ Resolve(rows, c).status = "UNRESOLVED" =>
                 Rule[c] = "APPROVED_REQUIRED" /\ VerdictsIn(rows, c) = {}
           /\ Undisputed(rows) => (Connecting(Resolve(rows, c)) <=> Approved(rows, c))
  <1>1. c \in Candidate /\ Rule[c] \in ReviewRequirement
    BY GraphAssumption DEF CandidatesIn, CandidateRow
  <1>2. VerdictsIn(rows, c) \subseteq {"APPROVED", "REJECTED"}
    BY DEF VerdictsIn, DispositionRow
  <1>3. "APPROVED" \in VerdictsIn(rows, c) <=>
            [table |-> "manual_review_dispositions", key |-> c, content |-> "APPROVED"] \in rows
    BY <1>1 DEF VerdictsIn, DispositionRow
  <1>4. Rule[c] = "APPROVED_REQUIRED" /\ VerdictsIn(rows, c) # {} =>
            Resolve(rows, c).status \in VerdictsIn(rows, c)
    BY DEF Resolve
  <1>5. CASE Rule[c] = "AUTO"
    BY <1>1, <1>5 DEF Resolve, Edge, ReviewStatus, Connecting, Approved
  <1>6. CASE Rule[c] = "REVIEW_ONLY"
    BY <1>1, <1>6 DEF Resolve, Edge, ReviewStatus, Connecting, Approved
  <1>7. CASE Rule[c] = "APPROVED_REQUIRED" /\ VerdictsIn(rows, c) = {}
    BY <1>1, <1>3, <1>7 DEF Resolve, Edge, ReviewStatus, Connecting, Approved
  <1>8. CASE Rule[c] = "APPROVED_REQUIRED" /\ VerdictsIn(rows, c) # {}
    <2>1. Resolve(rows, c) = [candidate |-> c, status |-> Resolve(rows, c).status]
      BY DEF Resolve
    <2>2. Resolve(rows, c) \in Edge /\ Resolve(rows, c).candidate = c
          /\ Resolve(rows, c).status # "UNRESOLVED"
      BY <1>1, <1>2, <1>4, <1>8, <2>1 DEF Edge, ReviewStatus
    <2>3. Undisputed(rows) => (Connecting(Resolve(rows, c)) <=> Approved(rows, c))
      BY <1>3, <1>4, <1>8 DEF Undisputed, Connecting, Approved
    <2> QED
      BY <2>2, <2>3
  <1> QED
    BY <1>1, <1>5, <1>6, <1>7, <1>8 DEF ReviewRequirement

\* Each candidate has its edge.
LEMMA EdgesOfAreEdges ==
    ASSUME NEW rows
    PROVE  /\ EdgesOf(rows) \in SUBSET Edge
           /\ {e.candidate : e \in EdgesOf(rows)} = CandidatesIn(rows)
  BY ResolveIs DEF EdgesOf

\* The components of the edges made from evidence are the families that the protocol
\* defines on the evidence.
THEOREM ComponentsAreFamilies ==
    ASSUME NEW rows, Undisputed(rows)
    PROVE  Components(EdgesOf(rows)) = Families(rows)
  <1> DEFINE C == {e \in EdgesOf(rows) : Connecting(e)}
             F == Components(EdgesOf(rows))
             closed == {family \in SUBSET Repository : family # {} /\ Closed(rows, family)}
  <1>1. AreComponents(F, C)
    BY EdgesOfAreEdges, ComponentsAreRight
  <1>2. ASSUME NEW X PROVE Closed(rows, X) <=> Keeps(X, C)
    BY ResolveIs DEF Closed, Keeps, EdgesOf, EndsOf
  <1>3. Families(rows) =
            {family \in closed : \A other \in closed : other \subseteq family => other = family}
    BY DEF Families
  <1>4. ASSUME NEW B \in F PROVE B \in Families(rows)
    <2>1. B \in closed
      BY <1>1, <1>2 DEF AreComponents, Partitions
    <2>2. ASSUME NEW other \in closed, other \subseteq B PROVE other = B
      <3>1. other # {} /\ other \subseteq Repository /\ Keeps(other, C)
        BY <1>2
      <3>2. other \cap B # {}
        BY <2>2, <3>1
      <3>3. B \subseteq other
        BY <1>1, <3>1, <3>2 DEF AreComponents
      <3> QED
        BY <2>2, <3>3
    <2> QED
      BY <1>3, <2>1, <2>2
  <1>5. ASSUME NEW X \in Families(rows) PROVE X \in F
    <2>1. X \in closed
      BY <1>3
    <2>2. PICK x : x \in X /\ x \in Repository
      BY <2>1
    <2>3. PICK B \in F : x \in B
      BY <1>1, <2>2 DEF AreComponents, Partitions
    <2>4. B \subseteq X
      <3>1. X \subseteq Repository /\ Keeps(X, C) /\ X \cap B # {}
        BY <1>2, <2>1, <2>2, <2>3
      <3> QED
        BY <1>1, <3>1 DEF AreComponents
    <2>5. B \in closed
      BY <1>1, <1>2 DEF AreComponents, Partitions
    <2> QED
      BY <1>3, <2>3, <2>4, <2>5
  <1> QED
    BY <1>4, <1>5

-----------------------------------------------------------------------------
(* The store and its runs.                                                 *)

\* The steps from one on, with the ends that come after it.
FromPacket == {"packet", "completed"}
FromOutcome == {"outcome"} \cup FromPacket
FromAnalysis == {"analysis"} \cup FromOutcome
FromComponents == {"components"} \cup FromAnalysis
FromBuild == {"build"} \cup FromComponents
FromReadiness == {"readiness", "blocked"} \cup FromBuild
FromAssess == {"assess"} \cup FromReadiness
FromList == {"list", "resolve"} \cup FromAssess
ToList == {"idle", "verify", "allocation", "prepared", "list"}

Fields == {"conn", "listed", "edge", "resolved", "completeness", "components", "crossings"}

PhaseName ==
    {"initial_allocation", "prepared_evidence_bundle", "resolved_edges", "graph_readiness",
     "family_components", "role_crossing_analysis", "family_outcome"}

-----------------------------------------------------------------------------
(* What holds whatever the plans of the runs.                              *)

Shape ==
    /\ DOMAIN phases = PhaseName
    /\ DOMAIN pc = Run /\ DOMAIN mem = Run /\ DOMAIN plan = Run /\ DOMAIN packet = Run
    /\ \A r \in Run :
          /\ DOMAIN mem[r] = Fields
          /\ pc[r] = "idle" => plan[r] = NoPlan
          /\ pc[r] # "idle" => plan[r] \in Plan

Keyed == \A v, w \in evidence : v.table = w.table /\ v.key = w.key => v = w

PhasesInv ==
    /\ \A name \in PhaseName : \A x, y \in phases[name] : x = y
    /\ PhasesHaveTheirRows
    /\ {} \notin phases["family_components"]

PacketHas(p) ==
    /\ phases["prepared_evidence_bundle"] = {p.bundle}
    /\ phases["resolved_edges"] = {p.edges}
    /\ phases["family_components"] = {p.members}
    /\ phases["family_outcome"] = {p.outcome}

LocalInv(r) ==
    /\ mem[r].listed \subseteq CandidatesIn(evidence) /\ mem[r].edge \subseteq Edge
    /\ mem[r].resolved \subseteq edges
    /\ pc[r] = "components" => mem[r].components # {}
    /\ pc[r] \in FromList => phases["prepared_evidence_bundle"] = {plan[r].bundle}
    /\ \A p \in packet[r] :
          /\ PacketHas(p)
          /\ p = [bundle |-> p.bundle, edges |-> p.edges, members |-> p.members,
                  outcome |-> p.outcome]

GeneralInv ==
    /\ Shape /\ Keyed /\ PhasesInv
    /\ evidence \subseteq Row /\ edges \subseteq Edge
    /\ \A r \in Run : LocalInv(r)

-----------------------------------------------------------------------------
(* What holds when every run that started has the plan given.              *)

Under(given) == \A r \in Run : plan[r] \in {given, NoPlan}

\* The result that a bundle decides.
TheEdges(b) == EdgesOf(b.rows)
TheCompleteness(b) == Completeness(TheEdges(b), b.incomplete)
TheComponents(b) == Components(TheEdges(b))
TheCrossings(b) == Crossings(TheComponents(b))
TheOutcome(b) == Outcome(TheCrossings(b))

\* What each phase commits to then.
Result(b) ==
    [initial_allocation |-> Repository, prepared_evidence_bundle |-> b,
     resolved_edges |-> TheEdges(b), graph_readiness |-> TheCompleteness(b),
     family_components |-> TheComponents(b), role_crossing_analysis |-> TheCrossings(b),
     family_outcome |-> TheOutcome(b)]

StoreInv(given) == LET b == given.bundle IN
    /\ identity \subseteq {given.identity}
    /\ identity = {} => Empty
    /\ evidence \subseteq b.rows /\ edges \subseteq TheEdges(b)
    /\ members \in {{}, TheComponents(b)}
    /\ \A name \in PhaseName : phases[name] \subseteq {Result(b)[name]}

\* What a run has found in the store, and what it has computed.
FoundInv(given, r) == LET b == given.bundle IN
    /\ mem[r].conn = "open" => identity = {given.identity}
    /\ pc[r] \in FromList => evidence = b.rows
    /\ pc[r] \in FromAssess =>
          edges = TheEdges(b) /\ phases["resolved_edges"] = {TheEdges(b)}
    /\ pc[r] \in FromBuild =>
          phases["graph_readiness"] = {TheCompleteness(b)} /\ Ready(TheCompleteness(b))
    /\ pc[r] \in FromAnalysis =>
          members = TheComponents(b) /\ phases["family_components"] = {TheComponents(b)}
    /\ pc[r] \in FromOutcome => phases["role_crossing_analysis"] = {TheCrossings(b)}
    /\ pc[r] \in FromPacket => phases["family_outcome"] = {TheOutcome(b)}
    /\ pc[r] = "blocked" => ~ Ready(TheCompleteness(b))

ComputedInv(given, r) == LET b == given.bundle IN
    /\ pc[r] \in ToList => mem[r].edge = {} /\ mem[r].resolved = {}
    /\ pc[r] = "resolve" =>
          /\ mem[r].listed = CandidatesIn(b.rows)
          /\ mem[r].edge \subseteq TheEdges(b) /\ mem[r].resolved \subseteq TheEdges(b)
    /\ pc[r] \in FromAssess => mem[r].resolved = TheEdges(b)
    /\ pc[r] \in FromReadiness => mem[r].completeness = TheCompleteness(b)
    /\ pc[r] \in FromComponents => mem[r].components = TheComponents(b)
    /\ pc[r] \in FromOutcome => mem[r].crossings = TheCrossings(b)
    /\ \A p \in packet[r] :
          /\ p.bundle = b /\ p.edges = TheEdges(b) /\ p.members = TheComponents(b)
          /\ Ready(TheCompleteness(b)) /\ Undisputed(b.rows)

RunInv(given, r) == FoundInv(given, r) /\ ComputedInv(given, r)

ReplayInv == \A given \in Plan : Under(given) =>
    /\ StoreInv(given)
    /\ \A r \in Run : RunInv(given, r)
    /\ Sound(given.bundle) => \A r \in Run : pc[r] # "failed"

FInv == GeneralInv /\ ReplayInv

-----------------------------------------------------------------------------

LEMMA PhaseNames == {PhaseOrder[k] : k \in 1..7} = PhaseName
  <1>1. 1..7 = {1, 2, 3, 4, 5, 6, 7}
    OBVIOUS
  <1> QED
    BY <1>1 DEF PhaseOrder, PhaseName

LEMMA InitInv == Init => FInv
  <1> SUFFICES ASSUME Init PROVE FInv
    OBVIOUS
  <1>1. /\ phases = [name \in PhaseName |-> {}]
        /\ \A r \in Run : pc[r] = "idle" /\ mem[r] = FreshMemory /\ plan[r] = NoPlan
                          /\ packet[r] = {}
        /\ \A name \in PhaseName : phases[name] = {}
    BY PhaseNames DEF Init
  <1>2. Shape
    BY <1>1 DEF Init, Shape, FreshMemory, Fields
  <1>3. Keyed /\ PhasesInv
    BY <1>1 DEF Init, Keyed, PhasesInv, PhasesHaveTheirRows, PhaseName
  <1>4. ASSUME NEW r \in Run PROVE LocalInv(r)
    BY <1>1 DEF LocalInv, FreshMemory, FromList, FromAssess, FromReadiness, FromBuild,
                FromComponents, FromAnalysis, FromOutcome, FromPacket
  <1>5. ASSUME NEW given \in Plan PROVE StoreInv(given)
    BY <1>1 DEF Init, StoreInv, Empty, PhaseName
  <1>6. ASSUME NEW given \in Plan, NEW r \in Run PROVE RunInv(given, r) /\ pc[r] # "failed"
    BY <1>1 DEF RunInv, FoundInv, ComputedInv, FreshMemory, FromList, FromAssess,
                FromReadiness, FromBuild, FromComponents, FromAnalysis, FromOutcome, FromPacket
  <1> QED
    BY <1>2, <1>3, <1>4, <1>5, <1>6 DEF Init, FInv, GeneralInv, ReplayInv

-----------------------------------------------------------------------------
(* How a step of one run leaves the others alone.                          *)

\* Only run r moves.
Moves(r) ==
    /\ DOMAIN pc' = Run /\ DOMAIN mem' = Run /\ DOMAIN plan' = Run /\ DOMAIN packet' = Run
    /\ \A q \in Run \ {r} :
          pc'[q] = pc[q] /\ mem'[q] = mem[q] /\ plan'[q] = plan[q] /\ packet'[q] = packet[q]
    /\ plan'[r] = plan[r] \/ plan[r] = NoPlan
    /\ DOMAIN mem'[r] = Fields
    /\ pc'[r] = "idle" => plan'[r] = NoPlan
    /\ pc'[r] # "idle" => plan'[r] \in Plan

\* The store loses nothing.
Grows ==
    /\ DOMAIN phases' = PhaseName
    /\ \A name \in PhaseName : phases[name] \subseteq phases'[name]
    /\ identity # {} => identity' # {}
    /\ evidence \subseteq evidence' /\ edges \subseteq edges'
    /\ members # {} => members' = members

LEMMA CandidatesGrow ==
    ASSUME NEW A, NEW B, A \subseteq B PROVE CandidatesIn(A) \subseteq CandidatesIn(B)
  BY DEF CandidatesIn

LEMMA OthersKeep ==
    ASSUME FInv, NEW r \in Run, Moves(r), Grows, PhasesInv', NEW q \in Run \ {r}
    PROVE  /\ LocalInv(q)'
           /\ \A given \in Plan : Under(given) /\ StoreInv(given)' => RunInv(given, q)'
  <1>0. /\ pc'[q] = pc[q] /\ mem'[q] = mem[q] /\ plan'[q] = plan[q] /\ packet'[q] = packet[q]
        /\ LocalInv(q)
    BY DEF Moves, FInv, GeneralInv
  <1>1. ASSUME NEW name \in PhaseName, NEW x, phases[name] = {x} PROVE phases'[name] = {x}
    BY <1>1 DEF Grows, PhasesInv
  <1>2. LocalInv(q)'
    <2>1. mem[q].listed \subseteq CandidatesIn(evidence')
      BY <1>0, CandidatesGrow DEF LocalInv, Grows
    <2>2. \A p \in packet[q] : PacketHas(p)'
      BY <1>0, <1>1 DEF LocalInv, PacketHas, PhaseName
    <2>3. pc[q] \in FromList => phases'["prepared_evidence_bundle"] = {plan[q].bundle}
      BY <1>0, <1>1 DEF LocalInv, PhaseName
    <2> QED
      BY <1>0, <2>1, <2>2, <2>3 DEF LocalInv, Grows
  <1>3. ASSUME NEW given \in Plan, Under(given), StoreInv(given)' PROVE RunInv(given, q)'
    <2>1. RunInv(given, q)
      BY <1>3 DEF FInv, ReplayInv
    <2>2. ComputedInv(given, q)'
      BY <1>0, <2>1 DEF RunInv, ComputedInv
    <2> DEFINE b == given.bundle
    <2>3. mem[q].conn = "open" => identity' = {given.identity}
      BY <1>3, <2>1 DEF RunInv, FoundInv, StoreInv, Grows
    <2>4. pc[q] \in FromList => evidence' = b.rows
      BY <1>3, <2>1 DEF RunInv, FoundInv, StoreInv, Grows
    <2>5. pc[q] \in FromAssess =>
              edges' = TheEdges(b) /\ phases'["resolved_edges"] = {TheEdges(b)}
      BY <1>1, <1>3, <2>1 DEF RunInv, FoundInv, StoreInv, Grows, PhaseName
    <2>6. pc[q] \in FromBuild =>
              phases'["graph_readiness"] = {TheCompleteness(b)} /\ Ready(TheCompleteness(b))
      BY <1>1, <2>1 DEF RunInv, FoundInv, PhaseName
    <2>7. pc[q] \in FromAnalysis =>
              members' = TheComponents(b) /\ phases'["family_components"] = {TheComponents(b)}
      <3> SUFFICES ASSUME pc[q] \in FromAnalysis
                   PROVE  /\ members' = TheComponents(b)
                          /\ phases'["family_components"] = {TheComponents(b)}
        OBVIOUS
      <3>1. members = TheComponents(b) /\ phases["family_components"] = {TheComponents(b)}
        BY <2>1 DEF RunInv, FoundInv
      <3>2. members # {}
        BY <3>1 DEF FInv, GeneralInv, PhasesInv
      <3> QED
        BY <1>1, <3>1, <3>2 DEF PhaseName, Grows
    <2>8. pc[q] \in FromOutcome => phases'["role_crossing_analysis"] = {TheCrossings(b)}
      BY <1>1, <2>1 DEF RunInv, FoundInv, PhaseName
    <2>9. pc[q] \in FromPacket => phases'["family_outcome"] = {TheOutcome(b)}
      BY <1>1, <2>1 DEF RunInv, FoundInv, PhaseName
    <2>10. pc[q] = "blocked" => ~ Ready(TheCompleteness(b))
      BY <2>1 DEF RunInv, FoundInv
    <2>11. FoundInv(given, q)'
      BY <1>0, <2>3, <2>4, <2>5, <2>6, <2>7, <2>8, <2>9, <2>10 DEF FoundInv
    <2> QED
      BY <2>2, <2>11 DEF RunInv
  <1> QED
    BY <1>2, <1>3

\* What must be shown of a step of run r.
LEMMA Glue ==
    ASSUME FInv, NEW r \in Run, Moves(r), Grows,
           Keyed', PhasesInv', evidence' \subseteq Row, edges' \subseteq Edge, LocalInv(r)',
           \A given \in Plan : Under(given) /\ (pc'[r] # "idle" => plan'[r] = given) =>
               /\ StoreInv(given)' /\ RunInv(given, r)'
               /\ Sound(given.bundle) => pc'[r] # "failed"
    PROVE  FInv'
  <1>1. Shape'
    <2>1. ASSUME NEW q \in Run
          PROVE  /\ DOMAIN mem'[q] = Fields
                 /\ pc'[q] = "idle" => plan'[q] = NoPlan
                 /\ pc'[q] # "idle" => plan'[q] \in Plan
      BY DEF FInv, GeneralInv, Shape, Moves
    <2> QED
      BY <2>1 DEF Shape, Moves, Grows
  <1>2. GeneralInv'
    <2>1. \A q \in Run : LocalInv(q)'
      BY OthersKeep
    <2> QED
      BY <1>1, <2>1 DEF GeneralInv
  <1>3. ASSUME NEW given \in Plan, Under(given)'
        PROVE  /\ StoreInv(given)'
               /\ \A q \in Run : RunInv(given, q)'
               /\ Sound(given.bundle) => \A q \in Run : pc'[q] # "failed"
    <2>1. Under(given)
      BY <1>3 DEF Under, Moves
    <2>2. pc'[r] # "idle" => plan'[r] = given
      BY <1>3, WorkflowAssumption DEF Under, Moves
    <2>3. /\ StoreInv(given)' /\ RunInv(given, r)'
          /\ Sound(given.bundle) => pc'[r] # "failed"
      BY <2>1, <2>2
    <2>4. \A q \in Run : RunInv(given, q)'
      BY <2>1, <2>3, OthersKeep
    <2>5. Sound(given.bundle) => \A q \in Run : pc'[q] # "failed"
      BY <2>1, <2>3 DEF FInv, ReplayInv, Moves
    <2> QED
      BY <2>3, <2>4, <2>5
  <1>4. ReplayInv'
    <2>1. \A given \in Plan : Sound(given.bundle)' <=> Sound(given.bundle)
      BY DEF Sound
    <2> QED
      BY <1>3, <2>1 DEF ReplayInv
  <1> QED
    BY <1>2, <1>4 DEF FInv

\* The same for a step that leaves the store as it is.
LEMMA LocalGlue ==
    ASSUME FInv, NEW r \in Run, Moves(r), UNCHANGED store, LocalInv(r)',
           \A given \in Plan : Under(given) /\ (pc'[r] # "idle" => plan'[r] = given) =>
               RunInv(given, r)' /\ (Sound(given.bundle) => pc'[r] # "failed")
    PROVE  FInv'
  <1>1. Grows /\ Keyed' /\ PhasesInv' /\ evidence' \subseteq Row /\ edges' \subseteq Edge
    BY DEF store, Grows, FInv, GeneralInv, Keyed, PhasesInv, PhasesHaveTheirRows, Shape
  <1>2. ASSUME NEW given \in Plan, Under(given) PROVE StoreInv(given)'
    BY <1>2 DEF FInv, ReplayInv, StoreInv, Empty, store
  <1> QED
    BY <1>1, <1>2, Glue

\* A run that started has the plan that all have.
LEMMA PlanIs ==
    ASSUME FInv, NEW r \in Run, pc[r] # "idle", NEW given \in Plan, Under(given)
    PROVE  plan[r] = given /\ plan[r].bundle \in Bundle /\ StoreInv(given) /\ RunInv(given, r)
  BY WorkflowAssumption DEF FInv, GeneralInv, Shape, ReplayInv, Under, Plan

\* A run that ends early leaves everything as it is.
LEMMA EndsEarly ==
    ASSUME FInv, NEW r \in Run, pc[r] \in Step, NEW end \in {"failed", "stopped"}, Go(r, end),
           UNCHANGED <<store, mem, plan, packet>>,
           end = "failed" => \A given \in Plan : ~ (Under(given) /\ Sound(given.bundle))
    PROVE  FInv'
  <1>1. Shape /\ pc[r] # "idle" /\ LocalInv(r)
    BY DEF FInv, GeneralInv, Step
  <1>2. Moves(r) /\ pc'[r] = end
    BY <1>1 DEF Moves, Go, Shape
  <1>3. LocalInv(r)'
    BY <1>1, <1>2 DEF LocalInv, PacketHas, store, FromList, FromAssess, FromReadiness, FromBuild,
                      FromComponents, FromAnalysis, FromOutcome, FromPacket
  <1>4. ASSUME NEW given \in Plan, Under(given)
        PROVE  RunInv(given, r)' /\ (Sound(given.bundle) => pc'[r] # "failed")
    <2>1. RunInv(given, r)
      BY <1>1, <1>4, PlanIs
    <2>2. RunInv(given, r)'
      BY <1>2, <2>1 DEF RunInv, FoundInv, ComputedInv, store, ToList, FromList, FromAssess,
                        FromReadiness, FromBuild, FromComponents, FromAnalysis, FromOutcome,
                        FromPacket
    <2> QED
      BY <1>2, <1>4, <2>2
  <1> QED
    BY <1>2, <1>3, <1>4, LocalGlue

LEMMA FailStep ==
    ASSUME FInv, NEW r \in Run, pc[r] \in Step, Fail(r),
           \A given \in Plan : ~ (Under(given) /\ Sound(given.bundle))
    PROVE  FInv'
  BY EndsEarly DEF Fail

LEMMA StopStep ==
    ASSUME FInv, NEW r \in Run, Stop(r)
    PROVE  FInv'
  BY EndsEarly DEF Stop

\* A commitment is backed by the rows it is about.
Backed(name, commitment) ==
    /\ name = "initial_allocation" => allocated
    /\ name = "prepared_evidence_bundle" => commitment.rows \subseteq evidence
    /\ name = "resolved_edges" => commitment \subseteq edges
    /\ name = "family_components" => members = commitment /\ commitment # {}

\* What must be shown of a step of run r that commits a phase: it commits to the
\* result that the bundle decides.
LEMMA PhaseGlue ==
    ASSUME FInv, NEW r \in Run, pc[r] \in Step, mem[r].conn = "open",
           NEW name \in PhaseName, NEW commitment, NEW next, NEW local,
           PutPhase(r, name, commitment, next, local),
           Backed(name, commitment), DOMAIN local = Fields, next \notin {"idle", "failed"},
           phases[name] \subseteq {commitment} => LocalInv(r)',
           \A given \in Plan : Under(given) =>
               /\ commitment = Result(given.bundle)[name]
               /\ phases[name] \subseteq {commitment} => RunInv(given, r)'
    PROVE  FInv'
  <1>1. Shape /\ PhasesInv /\ Keyed /\ pc[r] # "idle" /\ evidence \subseteq Row
        /\ edges \subseteq Edge
    BY DEF FInv, GeneralInv, Step
  <1>2. CASE ~ (phases[name] \subseteq {commitment})
    <2>1. ASSUME NEW given \in Plan, Under(given) PROVE FALSE
      BY <1>1, <1>2, <2>1, PlanIs DEF StoreInv
    <2> QED
      BY <1>2, <2>1, FailStep DEF PutPhase
  <1>3. CASE phases[name] \subseteq {commitment}
    <2>1. /\ phases' = [phases EXCEPT ![name] = {commitment}]
          /\ pc' = [pc EXCEPT ![r] = next] /\ mem' = [mem EXCEPT ![r] = local]
          /\ UNCHANGED <<identity, allocated, evidence, edges, members, plan, packet>>
      BY <1>3 DEF PutPhase, Go
    <2>2. /\ DOMAIN phases' = PhaseName /\ phases'[name] = {commitment}
          /\ \A other \in PhaseName \ {name} : phases'[other] = phases[other]
      BY <1>1, <2>1 DEF Shape
    <2>3. Moves(r) /\ pc'[r] = next
      BY <1>1, <2>1 DEF Moves, Shape
    <2>4. Grows
      BY <1>3, <2>1, <2>2 DEF Grows
    <2>5. PhasesInv'
      <3>1. PhasesHaveTheirRows'
        BY <1>1, <2>1, <2>2 DEF PhasesInv, PhasesHaveTheirRows, Backed, PhaseName
      <3>2. {} \notin phases'["family_components"]
        BY <1>1, <2>2 DEF PhasesInv, Backed, PhaseName
      <3>3. \A other \in PhaseName : \A x, y \in phases'[other] : x = y
        BY <1>1, <2>2 DEF PhasesInv
      <3> QED
        BY <3>1, <3>2, <3>3 DEF PhasesInv
    <2>6. Keyed' /\ evidence' \subseteq Row /\ edges' \subseteq Edge
      BY <1>1, <2>1 DEF Keyed
    <2>7. ASSUME NEW given \in Plan, Under(given) PROVE StoreInv(given)' /\ RunInv(given, r)'
      <3>1. StoreInv(given) /\ identity = {given.identity}
        BY <1>1, <2>7, PlanIs DEF RunInv, FoundInv
      <3>2. \A other \in PhaseName : phases'[other] \subseteq {Result(given.bundle)[other]}
        BY <2>2, <2>7, <3>1 DEF StoreInv
      <3>3. StoreInv(given)'
        BY <2>1, <3>1, <3>2 DEF StoreInv
      <3> QED
        BY <1>3, <2>7, <3>3
    <2> QED
      BY <1>3, <2>3, <2>4, <2>5, <2>6, <2>7, Glue
  <1> QED
    BY <1>2, <1>3

-----------------------------------------------------------------------------
(* The steps that leave the store as it is.                                *)

LEMMA StartStep ==
    ASSUME FInv, NEW r \in Run, Start(r)
    PROVE  FInv'
  <1>1. Shape /\ LocalInv(r)
    BY DEF FInv, GeneralInv
  <1>2. PICK own \in Plan : plan' = [plan EXCEPT ![r] = own]
    BY DEF Start
  <1>3. Moves(r) /\ pc'[r] = "verify"
    BY <1>1, <1>2 DEF Moves, Start, Go, Shape
  <1>4. LocalInv(r)'
    BY <1>1, <1>3 DEF Start, LocalInv, PacketHas, store, FromList, FromAssess, FromReadiness,
                      FromBuild, FromComponents, FromAnalysis, FromOutcome, FromPacket
  <1>5. ASSUME NEW given \in Plan, Under(given) PROVE RunInv(given, r)'
    <2>1. RunInv(given, r)
      BY <1>5 DEF FInv, ReplayInv
    <2> QED
      BY <1>3, <2>1 DEF Start, RunInv, FoundInv, ComputedInv, store, ToList, FromList,
                        FromAssess, FromReadiness, FromBuild, FromComponents, FromAnalysis,
                        FromOutcome, FromPacket
  <1> QED
    BY <1>3, <1>4, <1>5, LocalGlue DEF Start

LEMMA VerifyStep ==
    ASSUME FInv, NEW r \in Run, VerifyInputs(r)
    PROVE  FInv'
  <1>1. Shape /\ LocalInv(r)
    BY DEF FInv, GeneralInv
  <1>2. Moves(r) /\ pc'[r] = "allocation"
    BY <1>1 DEF Moves, VerifyInputs, Go, Shape
  <1>3. LocalInv(r)'
    BY <1>1, <1>2 DEF VerifyInputs, LocalInv, PacketHas, store, FromList, FromAssess,
                      FromReadiness, FromBuild, FromComponents, FromAnalysis, FromOutcome,
                      FromPacket
  <1>4. ASSUME NEW given \in Plan, Under(given) PROVE RunInv(given, r)'
    <2>1. RunInv(given, r)
      BY <1>4 DEF FInv, ReplayInv
    <2> QED
      BY <1>2, <2>1 DEF VerifyInputs, RunInv, FoundInv, ComputedInv, store, ToList, FromList,
                        FromAssess, FromReadiness, FromBuild, FromComponents, FromAnalysis,
                        FromOutcome, FromPacket
  <1> QED
    BY <1>2, <1>3, <1>4, LocalGlue DEF VerifyInputs

LEMMA OpenStep ==
    ASSUME FInv, NEW r \in Run, Open(r)
    PROVE  FInv'
  <1>1. Shape /\ LocalInv(r) /\ pc[r] # "idle" /\ pc[r] \in Step
    BY DEF FInv, GeneralInv, Open, Step
  <1>2. CASE ~ (identity = {plan[r].identity} \/ (identity = {} /\ Empty))
    <2>1. ASSUME NEW given \in Plan, Under(given) PROVE FALSE
      <3>1. plan[r] = given /\ identity \subseteq {given.identity} /\ (identity = {} => Empty)
        BY <1>1, <2>1, PlanIs DEF StoreInv
      <3> QED
        BY <1>2, <3>1
    <2> QED
      BY <1>1, <1>2, <2>1, FailStep DEF Open
  <1>3. CASE identity = {plan[r].identity} \/ (identity = {} /\ Empty)
    <2>1. /\ mem' = [mem EXCEPT ![r].conn = "checked"]
          /\ UNCHANGED <<store, pc, plan, packet, stops>>
      BY <1>3 DEF Open
    <2>2. Moves(r)
      BY <1>1, <2>1 DEF Moves, Shape, Fields
    <2>3. /\ mem'[r].conn = "checked"
          /\ \A field \in Fields \ {"conn"} : mem'[r][field] = mem[r][field]
      BY <1>1, <2>1 DEF Shape, Fields
    <2>4. LocalInv(r)'
      BY <1>1, <2>1, <2>3 DEF LocalInv, PacketHas, store, Fields
    <2>5. ASSUME NEW given \in Plan, Under(given)
          PROVE RunInv(given, r)' /\ (Sound(given.bundle) => pc'[r] # "failed")
      <3>1. RunInv(given, r)
        BY <2>5 DEF FInv, ReplayInv
      <3>2. FoundInv(given, r)'
        BY <2>1, <2>3, <3>1 DEF RunInv, FoundInv, store
      <3>3. ComputedInv(given, r)'
        BY <2>1, <2>3, <3>1 DEF RunInv, ComputedInv, store, Fields
      <3> QED
        BY <1>1, <2>1, <3>2, <3>3 DEF RunInv, Step
    <2> QED
      BY <2>1, <2>2, <2>4, <2>5, LocalGlue
  <1> QED
    BY <1>2, <1>3

LEMMA ListStep ==
    ASSUME FInv, NEW r \in Run, ListCandidates(r)
    PROVE  FInv'
  <1>1. Shape /\ LocalInv(r) /\ pc[r] = "list"
    BY DEF FInv, GeneralInv, ListCandidates, Connected
  <1>2. /\ mem' = [mem EXCEPT ![r].listed = CandidatesIn(evidence)]
        /\ pc' = [pc EXCEPT ![r] = "resolve"]
        /\ UNCHANGED <<store, plan, packet, stops>>
    BY DEF ListCandidates, Go
  <1>3. Moves(r) /\ pc'[r] = "resolve"
    BY <1>1, <1>2 DEF Moves, Shape, Fields
  <1>4. /\ mem'[r].listed = CandidatesIn(evidence)
        /\ \A field \in Fields \ {"listed"} : mem'[r][field] = mem[r][field]
    BY <1>1, <1>2 DEF Shape, Fields
  <1>5. LocalInv(r)'
    BY <1>1, <1>2, <1>3, <1>4
       DEF LocalInv, PacketHas, store, Fields, FromList
  <1>6. ASSUME NEW given \in Plan, Under(given) PROVE RunInv(given, r)'
    <2>1. RunInv(given, r) /\ evidence = given.bundle.rows
          /\ mem[r].edge = {} /\ mem[r].resolved = {}
      BY <1>1, <1>6 DEF FInv, ReplayInv, RunInv, FoundInv, ComputedInv, FromList, ToList
    <2>2. FoundInv(given, r)'
      BY <1>2, <1>3, <1>4, <2>1
         DEF RunInv, FoundInv, store, Fields, FromAssess, FromReadiness, FromBuild,
             FromComponents, FromAnalysis, FromOutcome, FromPacket
    <2>3. ComputedInv(given, r)'
      BY <1>2, <1>3, <1>4, <2>1
         DEF RunInv, ComputedInv, Fields, ToList, FromAssess, FromReadiness, FromBuild,
             FromComponents, FromAnalysis, FromOutcome, FromPacket
    <2> QED
      BY <2>2, <2>3 DEF RunInv
  <1> QED
    BY <1>2, <1>3, <1>5, <1>6, LocalGlue

LEMMA ResolveStep ==
    ASSUME FInv, NEW r \in Run, ResolveCandidate(r)
    PROVE  FInv'
  <1>1. Shape /\ LocalInv(r) /\ pc[r] = "resolve"
    BY DEF FInv, GeneralInv, ResolveCandidate, Connected
  <1> DEFINE Resolves(c) ==
        /\ mem' = [mem EXCEPT ![r].edge = {Resolve(evidence, c)}]
        /\ UNCHANGED <<store, pc, plan, packet, stops>>
  <1>a. PICK c \in Unresolved(r) : IF Resolvable(evidence, c) THEN Resolves(c) ELSE Fail(r)
    BY DEF ResolveCandidate
  <1>b. ASSUME ~ Resolvable(evidence, c) PROVE FInv'
    <2>1. Fail(r) /\ pc[r] \in Step
      BY <1>1, <1>a, <1>b DEF Step
    <2>2. ASSUME NEW given \in Plan, Under(given), Sound(given.bundle) PROVE FALSE
      <3>1. evidence = given.bundle.rows /\ mem[r].listed = CandidatesIn(given.bundle.rows)
        BY <1>1, <2>2, PlanIs DEF RunInv, FoundInv, ComputedInv, FromList
      <3> QED
        BY <1>b, <2>2, <3>1 DEF Unresolved, Sound
    <2> QED
      BY <2>1, <2>2, FailStep
  <1> SUFFICES ASSUME Resolvable(evidence, c) PROVE FInv'
    BY <1>b
  <1>2. Resolves(c)
    BY <1>a
  <1>3. Moves(r) /\ pc'[r] = "resolve"
    BY <1>1, <1>2 DEF Moves, Shape, Fields
  <1>4. /\ mem'[r].edge = {Resolve(evidence, c)}
        /\ \A field \in Fields \ {"edge"} : mem'[r][field] = mem[r][field]
    BY <1>1, <1>2 DEF Shape, Fields
  <1>5. c \in mem[r].listed /\ c \in CandidatesIn(evidence)
    BY <1>1 DEF Unresolved, LocalInv
  <1>6. LocalInv(r)'
    <2>1. Resolve(evidence, c) \in Edge
      BY <1>5, ResolveIs
    <2> QED
      BY <1>1, <1>2, <1>3, <1>4, <2>1 DEF LocalInv, PacketHas, store, Fields, FromList
  <1>7. ASSUME NEW given \in Plan, Under(given) PROVE RunInv(given, r)'
    <2>1. RunInv(given, r) /\ evidence = given.bundle.rows
      BY <1>1, <1>7 DEF FInv, ReplayInv, RunInv, FoundInv, FromList
    <2>2. FoundInv(given, r)'
      BY <1>2, <1>3, <1>4, <2>1
         DEF RunInv, FoundInv, store, Fields, FromAssess, FromReadiness, FromBuild,
             FromComponents, FromAnalysis, FromOutcome, FromPacket
    <2>3. Resolve(evidence, c) \in TheEdges(given.bundle)
      BY <1>5, <2>1 DEF TheEdges, EdgesOf
    <2>4. ComputedInv(given, r)'
      BY <1>1, <1>2, <1>3, <1>4, <2>1, <2>3
         DEF RunInv, ComputedInv, Fields, ToList, FromAssess, FromReadiness, FromBuild,
             FromComponents, FromAnalysis, FromOutcome, FromPacket
    <2> QED
      BY <2>2, <2>4 DEF RunInv
  <1> QED
    BY <1>2, <1>3, <1>6, <1>7, LocalGlue

LEMMA AssessStep ==
    ASSUME FInv, NEW r \in Run, AssessReadiness(r)
    PROVE  FInv'
  <1>1. Shape /\ LocalInv(r) /\ pc[r] = "assess" /\ plan[r] \in Plan
    BY DEF FInv, GeneralInv, AssessReadiness, Connected, Shape
  <1> DEFINE found == Completeness(edges, plan[r].bundle.incomplete)
  <1>2. /\ mem' = [mem EXCEPT ![r] = [Closing(r) EXCEPT !.completeness = found]]
        /\ pc' = [pc EXCEPT ![r] = "readiness"]
        /\ UNCHANGED <<store, plan, packet, stops>>
    BY DEF AssessReadiness, Go
  <1> HIDE DEF found
  <1>3. /\ DOMAIN mem'[r] = Fields /\ mem'[r].conn = "closed" /\ mem'[r].completeness = found
        /\ \A field \in Fields \ {"conn", "completeness"} : mem'[r][field] = mem[r][field]
    BY <1>1, <1>2 DEF Shape, Fields, Closing
  <1>4. Moves(r) /\ pc'[r] = "readiness"
    BY <1>1, <1>2, <1>3 DEF Moves, Shape
  <1>5. LocalInv(r)'
    BY <1>1, <1>2, <1>3, <1>4
       DEF LocalInv, PacketHas, store, Fields, FromList, FromAssess
  <1>6. ASSUME NEW given \in Plan, Under(given) PROVE RunInv(given, r)'
    <2>1. /\ RunInv(given, r) /\ plan[r] = given /\ evidence = given.bundle.rows
          /\ edges = TheEdges(given.bundle)
          /\ phases["resolved_edges"] = {TheEdges(given.bundle)}
          /\ mem[r].resolved = TheEdges(given.bundle)
      BY <1>1, <1>6, PlanIs DEF RunInv, FoundInv, ComputedInv, FromAssess, FromList
    <2>2. FoundInv(given, r)'
      BY <1>2, <1>3, <1>4, <2>1
         DEF FoundInv, store, FromBuild, FromComponents, FromAnalysis, FromOutcome, FromPacket
    <2>3. found = TheCompleteness(given.bundle)
      BY <2>1 DEF found, TheCompleteness
    <2>4. ComputedInv(given, r)'
      BY <1>2, <1>3, <1>4, <2>1, <2>3
         DEF RunInv, ComputedInv, Fields, ToList, FromComponents, FromAnalysis, FromOutcome,
             FromPacket
    <2> QED
      BY <2>2, <2>4 DEF RunInv
  <1> QED
    BY <1>2, <1>4, <1>5, <1>6, LocalGlue

LEMMA BuildStep ==
    ASSUME FInv, NEW r \in Run, BuildComponents(r)
    PROVE  FInv'
  <1>1. Shape /\ LocalInv(r) /\ pc[r] = "build" /\ edges \subseteq Edge
    BY DEF FInv, GeneralInv, BuildComponents, Connected
  <1>2. /\ mem' = [mem EXCEPT ![r].components = Components(edges)]
        /\ pc' = [pc EXCEPT ![r] = "components"]
        /\ UNCHANGED <<store, plan, packet, stops>>
    BY DEF BuildComponents, Go
  <1>3. Moves(r) /\ pc'[r] = "components"
    BY <1>1, <1>2 DEF Moves, Shape, Fields
  <1>4. /\ mem'[r].components = Components(edges)
        /\ \A field \in Fields \ {"components"} : mem'[r][field] = mem[r][field]
    BY <1>1, <1>2 DEF Shape, Fields
  <1>5. LocalInv(r)'
    <2>1. Components(edges) # {}
      BY <1>1, EdgesLieWithin
    <2> QED
      BY <1>1, <1>2, <1>3, <1>4, <2>1
         DEF LocalInv, PacketHas, store, Fields, FromList, FromAssess, FromReadiness, FromBuild
  <1>6. ASSUME NEW given \in Plan, Under(given) PROVE RunInv(given, r)'
    <2>1. RunInv(given, r) /\ edges = TheEdges(given.bundle)
      BY <1>1, <1>6, PlanIs DEF RunInv, FoundInv, FromAssess, FromReadiness, FromBuild
    <2>2. FoundInv(given, r)'
      BY <1>1, <1>2, <1>3, <1>4, <2>1
         DEF RunInv, FoundInv, store, Fields, FromList, FromAssess, FromReadiness, FromBuild,
             FromComponents, FromAnalysis, FromOutcome, FromPacket
    <2>3. Components(edges) = TheComponents(given.bundle)
      BY <2>1 DEF TheComponents
    <2>4. ComputedInv(given, r)'
      BY <1>1, <1>2, <1>3, <1>4, <2>1, <2>3
         DEF RunInv, ComputedInv, Fields, ToList, FromAssess, FromReadiness, FromBuild,
             FromComponents, FromAnalysis, FromOutcome, FromPacket
    <2> QED
      BY <2>2, <2>4 DEF RunInv
  <1> QED
    BY <1>2, <1>3, <1>5, <1>6, LocalGlue

LEMMA PacketStep ==
    ASSUME FInv, NEW r \in Run, WritePacket(r)
    PROVE  FInv'
  <1>1. Shape /\ LocalInv(r) /\ pc[r] = "packet" /\ pc[r] \in Step
    BY DEF FInv, GeneralInv, WritePacket, Connected, Step
  <1>2. ASSUME NEW given \in Plan, Under(given)
        PROVE  /\ RunInv(given, r) /\ plan[r] = given /\ PacketAgrees(r)
               /\ evidence = given.bundle.rows /\ edges = TheEdges(given.bundle)
               /\ members = TheComponents(given.bundle) /\ Ready(TheCompleteness(given.bundle))
    BY <1>1, <1>2, PlanIs
       DEF RunInv, FoundInv, ComputedInv, PacketAgrees, TheOutcome, FromList, FromAssess,
           FromReadiness, FromBuild, FromComponents, FromAnalysis, FromOutcome, FromPacket
  <1>3. CASE ~ PacketAgrees(r)
    BY <1>1, <1>2, <1>3, FailStep DEF WritePacket
  <1>4. CASE PacketAgrees(r)
    <2> DEFINE written == [bundle |-> plan[r].bundle, edges |-> edges, members |-> members,
                           outcome |-> Outcome(mem[r].crossings)]
    <2>1. /\ packet' = [packet EXCEPT ![r] = {written}]
          /\ pc' = [pc EXCEPT ![r] = "completed"] /\ mem' = [mem EXCEPT ![r] = Closing(r)]
          /\ UNCHANGED <<store, plan, stops>>
      BY <1>4 DEF WritePacket, Go
    <2>2. /\ DOMAIN mem'[r] = Fields /\ mem'[r].conn = "closed"
          /\ \A field \in Fields \ {"conn"} : mem'[r][field] = mem[r][field]
          /\ packet'[r] = {written}
      BY <1>1, <2>1 DEF Shape, Fields, Closing
    <2>3. Moves(r) /\ pc'[r] = "completed"
      BY <1>1, <2>1, <2>2 DEF Moves, Shape
    <2>4. phases["prepared_evidence_bundle"] = {plan[r].bundle}
      BY <1>1 DEF LocalInv, FromList, FromAssess, FromReadiness, FromBuild, FromComponents,
                  FromAnalysis, FromOutcome, FromPacket
    <2>5. LocalInv(r)'
      <3>1. phases' = phases /\ plan' = plan /\ evidence' = evidence /\ edges' = edges
        BY <2>1 DEF store
      <3>2. /\ phases'["prepared_evidence_bundle"] = {written.bundle}
            /\ phases'["resolved_edges"] = {written.edges}
            /\ phases'["family_components"] = {written.members}
            /\ phases'["family_outcome"] = {written.outcome}
        BY <1>4, <2>4, <3>1 DEF PacketAgrees
      <3> HIDE DEF written
      <3>3. \A p \in packet'[r] :
                /\ PacketHas(p)'
                /\ p = [bundle |-> p.bundle, edges |-> p.edges, members |-> p.members,
                         outcome |-> p.outcome]
        BY <2>2, <3>2 DEF PacketHas, written
      <3> QED
        BY <1>1, <2>2, <2>3, <2>4, <3>1, <3>3 DEF LocalInv, Fields
    <2>6. ASSUME NEW given \in Plan, Under(given) PROVE RunInv(given, r)'
      <3>1. RunInv(given, r)
        BY <1>2, <2>6
      <3>2. FoundInv(given, r)'
        BY <1>1, <2>1, <2>2, <2>3, <3>1
           DEF RunInv, FoundInv, store, FromList, FromAssess, FromReadiness, FromBuild,
               FromComponents, FromAnalysis, FromOutcome, FromPacket
      <3>3. Undisputed(given.bundle.rows)
        BY <1>2, <2>6 DEF FInv, GeneralInv, Keyed, Undisputed, VerdictsIn, DispositionRow
      <3>4. \A p \in packet'[r] :
                /\ p.bundle = given.bundle /\ p.edges = TheEdges(given.bundle)
                /\ p.members = TheComponents(given.bundle)
                /\ Ready(TheCompleteness(given.bundle)) /\ Undisputed(given.bundle.rows)
        BY <1>2, <2>2, <2>6, <3>3
      <3>5. ComputedInv(given, r)'
        BY <1>1, <2>1, <2>2, <2>3, <3>1, <3>4
           DEF RunInv, ComputedInv, Fields, ToList, FromAssess, FromReadiness, FromBuild,
               FromComponents, FromAnalysis, FromOutcome, FromPacket
      <3> QED
        BY <3>2, <3>5 DEF RunInv
    <2> QED
      BY <2>1, <2>3, <2>5, <2>6, LocalGlue
  <1> QED
    BY <1>3, <1>4

-----------------------------------------------------------------------------
(* The steps that change the store.                                        *)

LEMMA BindStep ==
    ASSUME FInv, NEW r \in Run, Bind(r)
    PROVE  FInv'
  <1>1. Shape /\ LocalInv(r) /\ PhasesInv /\ Keyed /\ pc[r] \in Step /\ pc[r] # "idle"
        /\ evidence \subseteq Row /\ edges \subseteq Edge
    BY DEF FInv, GeneralInv, Bind, Step
  <1>2. /\ identity' = {plan[r].identity}
        /\ mem' = [mem EXCEPT ![r].conn = "open"]
        /\ UNCHANGED <<allocated, evidence, edges, members, phases, pc, plan, packet, stops>>
    BY DEF Bind
  <1>3. Moves(r)
    BY <1>1, <1>2 DEF Moves, Shape, Fields
  <1>4. /\ mem'[r].conn = "open"
        /\ \A field \in Fields \ {"conn"} : mem'[r][field] = mem[r][field]
    BY <1>1, <1>2 DEF Shape, Fields
  <1>5. Grows /\ Keyed' /\ PhasesInv' /\ evidence' \subseteq Row /\ edges' \subseteq Edge
    BY <1>1, <1>2 DEF Grows, Shape, Keyed, PhasesInv, PhasesHaveTheirRows
  <1>6. LocalInv(r)'
    BY <1>1, <1>2, <1>4 DEF LocalInv, PacketHas, Fields
  <1>7. ASSUME NEW given \in Plan, Under(given)
        PROVE  /\ StoreInv(given)' /\ RunInv(given, r)'
               /\ Sound(given.bundle) => pc'[r] # "failed"
    <2>1. RunInv(given, r) /\ plan[r] = given /\ StoreInv(given)
      BY <1>1, <1>7, PlanIs
    <2>2. StoreInv(given)'
      BY <1>2, <2>1 DEF StoreInv
    <2>3. FoundInv(given, r)'
      BY <1>2, <1>4, <2>1 DEF RunInv, FoundInv
    <2>4. ComputedInv(given, r)'
      BY <1>2, <1>4, <2>1 DEF RunInv, ComputedInv, Fields
    <2> QED
      BY <1>1, <1>2, <2>2, <2>3, <2>4 DEF RunInv, Step
  <1> QED
    BY <1>3, <1>5, <1>6, <1>7, Glue

LEMMA PutAllocationStep ==
    ASSUME FInv, NEW r \in Run, PutAllocation(r)
    PROVE  FInv'
  <1>1. Shape /\ LocalInv(r) /\ PhasesInv /\ Keyed /\ pc[r] = "allocation"
        /\ mem[r].conn = "open" /\ evidence \subseteq Row /\ edges \subseteq Edge
    BY DEF FInv, GeneralInv, PutAllocation, Connected
  <1>2. /\ allocated' = TRUE
        /\ UNCHANGED <<identity, evidence, edges, members, phases, pc, mem, plan, packet, stops>>
    BY DEF PutAllocation
  <1>3. Moves(r)
    BY <1>1, <1>2 DEF Moves, Shape
  <1>4. Grows /\ Keyed' /\ PhasesInv' /\ evidence' \subseteq Row /\ edges' \subseteq Edge
    BY <1>1, <1>2 DEF Grows, Shape, Keyed, PhasesInv, PhasesHaveTheirRows
  <1>5. LocalInv(r)'
    BY <1>1, <1>2 DEF LocalInv, PacketHas
  <1>6. ASSUME NEW given \in Plan, Under(given)
        PROVE  /\ StoreInv(given)' /\ RunInv(given, r)'
               /\ Sound(given.bundle) => pc'[r] # "failed"
    <2>1. RunInv(given, r) /\ StoreInv(given) /\ identity = {given.identity}
      BY <1>1, <1>6, PlanIs DEF RunInv, FoundInv
    <2>2. StoreInv(given)'
      BY <1>2, <2>1 DEF StoreInv
    <2>3. RunInv(given, r)'
      BY <1>2, <2>1 DEF RunInv, FoundInv, ComputedInv
    <2> QED
      BY <1>1, <1>2, <2>2, <2>3
  <1> QED
    BY <1>3, <1>4, <1>5, <1>6, Glue

\* In a sound bundle a key has one row.
LEMMA SoundKeys ==
    ASSUME NEW b \in Bundle, Sound(b), NEW v \in b.rows, NEW w \in b.rows,
           v.table = w.table, v.key = w.key
    PROVE  v = w
  <1>1. ValidBundle(b) /\ v \in Row /\ w \in Row
    BY WorkflowAssumption DEF ValidBundle
  <1>2. CASE v \in SourceRow
    <2>1. w \in SourceRow
      BY <1>1, <1>2 DEF Row, SourceRow, CandidateRow, DispositionRow
    <2> QED
      BY <1>1, <1>2, <2>1 DEF ValidBundle
  <1>3. CASE v \in CandidateRow
    <2>1. w \in CandidateRow
      BY <1>1, <1>3 DEF Row, SourceRow, CandidateRow, DispositionRow
    <2> QED
      BY <1>3, <2>1 DEF CandidateRow
  <1>4. CASE v \in DispositionRow
    <2> DEFINE verdicts == VerdictsIn(b.rows, v.key)
    <2>1. w \in DispositionRow
      BY <1>1, <1>4 DEF Row, SourceRow, CandidateRow, DispositionRow
    <2>2. v.content \in verdicts /\ w.content \in verdicts
      BY <1>4, <2>1 DEF VerdictsIn
    <2>3. verdicts \subseteq {"APPROVED", "REJECTED"} /\ Cardinality(verdicts) <= 1
      BY <1>1, <1>4 DEF ValidBundle, Sound, VerdictsIn, DispositionRow
    <2>4. v.content = w.content
      <3> HIDE DEF verdicts
      <3>1. IsFiniteSet({"APPROVED", "REJECTED"})
        <4>1. IsFiniteSet({"APPROVED"})
          BY FS_Singleton
        <4>2. {"APPROVED", "REJECTED"} = {"APPROVED"} \cup {"REJECTED"}
          OBVIOUS
        <4> QED
          BY <4>1, <4>2, FS_AddElement
      <3>2. IsFiniteSet(verdicts)
        BY <2>3, <3>1, FS_Subset
      <3>3. SUFFICES ASSUME v.content # w.content PROVE FALSE
        OBVIOUS
      <3>4. {v.content, w.content} \subseteq verdicts /\ Cardinality({v.content, w.content}) = 2
        <4>1. Cardinality({v.content}) = 1 /\ IsFiniteSet({v.content})
          BY FS_Singleton
        <4>2. {v.content, w.content} = {v.content} \cup {w.content}
          OBVIOUS
        <4>3. Cardinality({v.content} \cup {w.content}) = Cardinality({v.content}) + 1
          BY <3>3, <4>1, FS_AddElement
        <4>4. {v.content, w.content} \subseteq verdicts
          BY <2>2
        <4> QED
          BY <4>1, <4>2, <4>3, <4>4
      <3>5. Cardinality(verdicts) \in Nat /\ 2 <= Cardinality(verdicts)
        BY <3>2, <3>4, FS_Subset, FS_CardinalityType
      <3> QED
        BY <2>3, <3>5
    <2> QED
      BY <1>4, <2>1, <2>4 DEF DispositionRow
  <1> QED
    BY <1>1, <1>2, <1>3, <1>4 DEF Row

LEMMA PutEvidenceStep ==
    ASSUME FInv, NEW r \in Run, PutEvidence(r)
    PROVE  FInv'
  <1>1. Shape /\ LocalInv(r) /\ PhasesInv /\ Keyed /\ pc[r] = "prepared" /\ pc[r] \in Step
        /\ mem[r].conn = "open" /\ evidence \subseteq Row /\ edges \subseteq Edge
        /\ plan[r] \in Plan
    BY DEF FInv, GeneralInv, PutEvidence, Connected, Step, Shape
  <1>2. PICK row \in Missing(r) :
            IF \E there \in evidence : there.table = row.table /\ there.key = row.key
            THEN Fail(r)
            ELSE /\ evidence' = evidence \cup {row}
                 /\ UNCHANGED <<identity, allocated, edges, members, phases, pc, mem, plan,
                                packet, stops>>
    BY DEF PutEvidence
  <1>3. row \in plan[r].bundle.rows /\ row \notin evidence /\ row \in Row
    BY <1>1, WorkflowAssumption DEF Missing, Plan, ValidBundle
  <1>4. ASSUME NEW there \in evidence, there.table = row.table, there.key = row.key
        PROVE  FInv'
    <2>1. ASSUME NEW given \in Plan, Under(given), Sound(given.bundle) PROVE FALSE
      <3>1. plan[r] = given /\ plan[r].bundle \in Bundle /\ evidence \subseteq given.bundle.rows
        BY <1>1, <2>1, PlanIs DEF StoreInv
      <3> QED
        BY <1>3, <1>4, <2>1, <3>1, SoundKeys
    <2> QED
      BY <1>1, <1>2, <1>4, <2>1, FailStep
  <1>5. CASE \A there \in evidence : ~ (there.table = row.table /\ there.key = row.key)
    <2>1. /\ evidence' = evidence \cup {row}
          /\ UNCHANGED <<identity, allocated, edges, members, phases, pc, mem, plan, packet,
                         stops>>
      BY <1>2, <1>5
    <2>2. Moves(r)
      BY <1>1, <2>1 DEF Moves, Shape
    <2>3. Grows /\ Keyed' /\ evidence' \subseteq Row /\ edges' \subseteq Edge
      BY <1>1, <1>3, <1>5, <2>1 DEF Grows, Shape, Keyed
    <2>4. PhasesInv'
      BY <1>1, <2>1 DEF PhasesInv, PhasesHaveTheirRows
    <2>5. LocalInv(r)'
      <3>1. CandidatesIn(evidence) \subseteq CandidatesIn(evidence')
        BY <2>1, CandidatesGrow
      <3> QED
        BY <1>1, <2>1, <3>1 DEF LocalInv, PacketHas
    <2>6. ASSUME NEW given \in Plan, Under(given)
          PROVE  /\ StoreInv(given)' /\ RunInv(given, r)'
                 /\ Sound(given.bundle) => pc'[r] # "failed"
      <3>1. /\ RunInv(given, r) /\ StoreInv(given) /\ identity = {given.identity}
            /\ plan[r] = given
        BY <1>1, <2>6, PlanIs DEF RunInv, FoundInv
      <3>2. StoreInv(given)'
        BY <1>3, <2>1, <3>1 DEF StoreInv
      <3>3. FoundInv(given, r)'
        BY <1>1, <2>1, <3>1
           DEF RunInv, FoundInv, FromList, FromAssess, FromReadiness, FromBuild,
               FromComponents, FromAnalysis, FromOutcome, FromPacket
      <3>4. ComputedInv(given, r)'
        BY <2>1, <3>1 DEF RunInv, ComputedInv
      <3> QED
        BY <1>1, <2>1, <3>2, <3>3, <3>4 DEF RunInv
    <2> QED
      BY <2>2, <2>3, <2>4, <2>5, <2>6, Glue
  <1> QED
    BY <1>4, <1>5

LEMMA PutEdgeStep ==
    ASSUME FInv, NEW r \in Run, PutEdge(r)
    PROVE  FInv'
  <1>1. Shape /\ LocalInv(r) /\ PhasesInv /\ Keyed /\ pc[r] = "resolve" /\ pc[r] \in Step
        /\ mem[r].conn = "open" /\ evidence \subseteq Row /\ edges \subseteq Edge
    BY DEF FInv, GeneralInv, PutEdge, Connected, Step
  <1>2. PICK e \in mem[r].edge :
            IF Sourced(evidence, e.candidate)
            THEN /\ edges' = edges \cup {e}
                 /\ mem' = [mem EXCEPT ![r].edge = {}, ![r].resolved = @ \cup {e}]
                 /\ UNCHANGED <<identity, allocated, evidence, members, phases, pc, plan, packet,
                                stops>>
            ELSE Fail(r)
    BY DEF PutEdge
  <1>3. e \in Edge
    BY <1>1 DEF LocalInv
  <1>4. ASSUME NEW given \in Plan, Under(given)
        PROVE  /\ RunInv(given, r) /\ StoreInv(given) /\ identity = {given.identity}
               /\ evidence = given.bundle.rows /\ e \in TheEdges(given.bundle)
               /\ Sound(given.bundle) => Sourced(evidence, e.candidate)
    <2>1. /\ RunInv(given, r) /\ StoreInv(given) /\ identity = {given.identity}
          /\ evidence = given.bundle.rows /\ e \in TheEdges(given.bundle)
      BY <1>1, <1>4, PlanIs DEF RunInv, FoundInv, ComputedInv, FromList
    <2>2. e.candidate \in CandidatesIn(given.bundle.rows)
      BY <2>1, EdgesOfAreEdges DEF TheEdges
    <2> QED
      BY <2>1, <2>2 DEF Sound
  <1>5. CASE ~ Sourced(evidence, e.candidate)
    BY <1>1, <1>2, <1>4, <1>5, FailStep
  <1>6. CASE Sourced(evidence, e.candidate)
    <2>1. /\ edges' = edges \cup {e}
          /\ mem' = [mem EXCEPT ![r].edge = {}, ![r].resolved = @ \cup {e}]
          /\ UNCHANGED <<identity, allocated, evidence, members, phases, pc, plan, packet, stops>>
      BY <1>2, <1>6
    <2>2. /\ DOMAIN mem'[r] = Fields
          /\ mem'[r].edge = {} /\ mem'[r].resolved = mem[r].resolved \cup {e}
          /\ \A field \in Fields \ {"edge", "resolved"} : mem'[r][field] = mem[r][field]
      BY <1>1, <2>1 DEF Shape, Fields
    <2>3. Moves(r)
      BY <1>1, <2>1, <2>2 DEF Moves, Shape
    <2>4. Grows /\ Keyed' /\ evidence' \subseteq Row /\ edges' \subseteq Edge
      BY <1>1, <1>3, <2>1 DEF Grows, Shape, Keyed
    <2>5. PhasesInv'
      BY <1>1, <2>1 DEF PhasesInv, PhasesHaveTheirRows
    <2>6. LocalInv(r)'
      BY <1>1, <2>1, <2>2 DEF LocalInv, PacketHas, Fields
    <2>7. ASSUME NEW given \in Plan, Under(given)
          PROVE  /\ StoreInv(given)' /\ RunInv(given, r)'
                 /\ Sound(given.bundle) => pc'[r] # "failed"
      <3>1. StoreInv(given)'
        BY <1>4, <2>1, <2>7 DEF StoreInv
      <3>2. FoundInv(given, r)'
        BY <1>1, <1>4, <2>1, <2>2, <2>7
           DEF RunInv, FoundInv, Fields, FromList, FromAssess, FromReadiness, FromBuild,
               FromComponents, FromAnalysis, FromOutcome, FromPacket
      <3>3. ComputedInv(given, r)'
        BY <1>1, <1>4, <2>1, <2>2, <2>7
           DEF RunInv, ComputedInv, Fields, ToList, FromAssess, FromReadiness, FromBuild,
               FromComponents, FromAnalysis, FromOutcome, FromPacket
      <3> QED
        BY <1>1, <2>1, <3>1, <3>2, <3>3 DEF RunInv
    <2> QED
      BY <2>3, <2>4, <2>5, <2>6, <2>7, Glue
  <1> QED
    BY <1>5, <1>6

LEMMA PutMembersStep ==
    ASSUME FInv, NEW r \in Run, PutMembers(r)
    PROVE  FInv'
  <1>1. Shape /\ LocalInv(r) /\ PhasesInv /\ Keyed /\ pc[r] = "components" /\ pc[r] \in Step
        /\ mem[r].conn = "open" /\ evidence \subseteq Row /\ edges \subseteq Edge
        /\ members # mem[r].components
    BY DEF FInv, GeneralInv, PutMembers, Connected, Step
  <1>2. ASSUME NEW given \in Plan, Under(given)
        PROVE  /\ RunInv(given, r) /\ StoreInv(given) /\ identity = {given.identity}
               /\ mem[r].components = TheComponents(given.bundle) /\ members = {}
    BY <1>1, <1>2, PlanIs DEF RunInv, FoundInv, ComputedInv, StoreInv, FromComponents
  <1>3. CASE members # {}
    BY <1>1, <1>2, <1>3, FailStep DEF PutMembers
  <1>4. CASE members = {}
    <2>1. /\ members' = mem[r].components
          /\ UNCHANGED <<identity, allocated, evidence, edges, phases, pc, mem, plan, packet,
                         stops>>
      BY <1>4 DEF PutMembers
    <2>2. Moves(r)
      BY <1>1, <2>1 DEF Moves, Shape
    <2>3. Grows /\ Keyed' /\ evidence' \subseteq Row /\ edges' \subseteq Edge
      BY <1>1, <1>4, <2>1 DEF Grows, Shape, Keyed
    <2>4. PhasesInv'
      <3>1. phases["family_components"] = {}
        BY <1>1, <1>4 DEF PhasesInv, PhasesHaveTheirRows
      <3> QED
        BY <1>1, <2>1, <3>1 DEF PhasesInv, PhasesHaveTheirRows
    <2>5. LocalInv(r)'
      BY <1>1, <2>1 DEF LocalInv, PacketHas
    <2>6. ASSUME NEW given \in Plan, Under(given)
          PROVE  /\ StoreInv(given)' /\ RunInv(given, r)'
                 /\ Sound(given.bundle) => pc'[r] # "failed"
      <3>1. StoreInv(given)'
        BY <1>2, <2>1, <2>6 DEF StoreInv
      <3>2. FoundInv(given, r)'
        BY <1>1, <1>2, <2>1, <2>6
           DEF RunInv, FoundInv, FromAnalysis, FromOutcome, FromPacket
      <3>3. ComputedInv(given, r)'
        BY <1>2, <2>1, <2>6 DEF RunInv, ComputedInv
      <3> QED
        BY <1>1, <2>1, <3>1, <3>2, <3>3 DEF RunInv
    <2> QED
      BY <2>2, <2>3, <2>4, <2>5, <2>6, Glue
  <1> QED
    BY <1>3, <1>4

-----------------------------------------------------------------------------
(* The steps that commit a phase.                                          *)

\* What the step of run r that commits a phase does when no other commitment of the
\* phase is there.
Commits(r, name, commitment, next, local) ==
    /\ phases' = [phases EXCEPT ![name] = {commitment}]
    /\ pc' = [pc EXCEPT ![r] = next] /\ mem' = [mem EXCEPT ![r] = local]
    /\ UNCHANGED <<identity, allocated, evidence, edges, members, plan, packet>>

\* The same as PhaseGlue, when the step changes nothing but its connection in what the
\* run remembers of the evidence.
LEMMA CommitGlue ==
    ASSUME FInv, NEW r \in Run, pc[r] \in Step, mem[r].conn = "open",
           NEW name \in PhaseName, NEW commitment, NEW next, NEW local,
           PutPhase(r, name, commitment, next, local), Backed(name, commitment),
           DOMAIN local = Fields,
           \A field \in {"listed", "edge", "resolved"} : local[field] = mem[r][field],
           next \notin {"idle", "failed", "components"},
           \/ pc[r] \in FromList
           \/ next \notin FromList
           \/ name = "prepared_evidence_bundle" /\ commitment = plan[r].bundle,
           \A given \in Plan : Under(given) =>
               /\ commitment = Result(given.bundle)[name]
               /\ Commits(r, name, commitment, next, local) => RunInv(given, r)'
    PROVE  FInv'
  <1>1. Shape /\ LocalInv(r) /\ PhasesInv
    BY DEF FInv, GeneralInv
  <1>2. phases[name] \subseteq {commitment} => Commits(r, name, commitment, next, local)
    BY DEF PutPhase, Go, Commits
  <1>3. ASSUME phases[name] \subseteq {commitment} PROVE LocalInv(r)'
    <2>1. /\ phases' = [phases EXCEPT ![name] = {commitment}]
          /\ pc'[r] = next /\ mem'[r] = local
          /\ UNCHANGED <<identity, allocated, evidence, edges, members, plan, packet>>
      BY <1>1, <1>2, <1>3 DEF Commits, Shape
    <2>2. ASSUME NEW other \in PhaseName, NEW x, phases[other] = {x} PROVE phases'[other] = {x}
      BY <1>1, <1>3, <2>1, <2>2 DEF Shape
    <2>3. \A p \in packet[r] : PacketHas(p)'
      BY <1>1, <2>2 DEF LocalInv, PacketHas, PhaseName
    <2>4. next \in FromList => phases'["prepared_evidence_bundle"] = {plan[r].bundle}
      <3>1. CASE pc[r] \in FromList
        BY <1>1, <2>2, <3>1 DEF LocalInv, PhaseName
      <3>2. CASE name = "prepared_evidence_bundle" /\ commitment = plan[r].bundle
        BY <1>1, <2>1, <3>2 DEF Shape
      <3> QED
        BY <3>1, <3>2
    <2> QED
      BY <1>1, <2>1, <2>3, <2>4 DEF LocalInv
  <1> QED
    BY <1>2, <1>3, PhaseGlue

LEMMA CommitAllocationStep ==
    ASSUME FInv, NEW r \in Run, CommitAllocation(r)
    PROVE  FInv'
  <1>1. Shape /\ pc[r] = "allocation" /\ mem[r].conn = "open" /\ allocated
    BY DEF FInv, GeneralInv, CommitAllocation, Connected
  <1>2. PutPhase(r, "initial_allocation", Repository, "prepared", Closing(r))
    BY DEF CommitAllocation
  <1>3. /\ DOMAIN Closing(r) = Fields /\ Closing(r).conn = "closed"
        /\ \A field \in Fields \ {"conn"} : Closing(r)[field] = mem[r][field]
    BY <1>1 DEF Shape, Closing, Fields
  <1>4. ASSUME NEW given \in Plan, Under(given),
               Commits(r, "initial_allocation", Repository, "prepared", Closing(r))
        PROVE  RunInv(given, r)'
    <2>1. RunInv(given, r)
      BY <1>1, <1>4, PlanIs
    <2>2. /\ pc'[r] = "prepared" /\ mem'[r] = Closing(r)
          /\ UNCHANGED <<identity, evidence, edges, members, packet>>
      BY <1>1, <1>4 DEF Commits, Shape
    <2> QED
      BY <1>1, <1>3, <2>1, <2>2
         DEF RunInv, FoundInv, ComputedInv, Fields, ToList, FromList, FromAssess, FromReadiness,
             FromBuild, FromComponents, FromAnalysis, FromOutcome, FromPacket
  <1>5. "prepared" \notin FromList
    BY DEF FromList, FromAssess, FromReadiness, FromBuild, FromComponents, FromAnalysis,
           FromOutcome, FromPacket
  <1> QED
    BY <1>1, <1>2, <1>3, <1>4, <1>5, CommitGlue DEF Backed, PhaseName, Fields, Result, Step

LEMMA CommitEvidenceStep ==
    ASSUME FInv, NEW r \in Run, CommitEvidence(r)
    PROVE  FInv'
  <1> DEFINE name == "prepared_evidence_bundle"
  <1>1. Shape /\ pc[r] = "prepared" /\ mem[r].conn = "open" /\ Missing(r) = {}
    BY DEF FInv, GeneralInv, CommitEvidence, Connected
  <1>2. PutPhase(r, name, plan[r].bundle, "list", Closing(r))
    BY DEF CommitEvidence
  <1>3. /\ DOMAIN Closing(r) = Fields /\ Closing(r).conn = "closed"
        /\ \A field \in Fields \ {"conn"} : Closing(r)[field] = mem[r][field]
    BY <1>1 DEF Shape, Closing, Fields
  <1>4. ASSUME NEW given \in Plan, Under(given)
        PROVE  /\ RunInv(given, r) /\ plan[r] = given /\ evidence = given.bundle.rows
    <2>1. RunInv(given, r) /\ plan[r] = given /\ StoreInv(given)
      BY <1>1, <1>4, PlanIs
    <2>2. given.bundle.rows \subseteq evidence
      BY <1>1, <2>1 DEF Missing
    <2> QED
      BY <2>1, <2>2 DEF StoreInv
  <1>5. ASSUME NEW given \in Plan, Under(given),
               Commits(r, name, plan[r].bundle, "list", Closing(r))
        PROVE  RunInv(given, r)'
    <2>1. /\ pc'[r] = "list" /\ mem'[r] = Closing(r)
          /\ UNCHANGED <<identity, evidence, edges, members, packet>>
      BY <1>1, <1>5 DEF Commits, Shape
    <2> QED
      BY <1>1, <1>3, <1>4, <1>5, <2>1
         DEF RunInv, FoundInv, ComputedInv, Fields, ToList, FromAssess, FromReadiness,
             FromBuild, FromComponents, FromAnalysis, FromOutcome, FromPacket
  <1>6. Backed(name, plan[r].bundle)
    BY <1>1 DEF Backed, Missing
  <1> QED
    BY <1>1, <1>2, <1>3, <1>4, <1>5, <1>6, CommitGlue DEF PhaseName, Fields, Result, Step

LEMMA CommitEdgesStep ==
    ASSUME FInv, NEW r \in Run, CommitEdges(r)
    PROVE  FInv'
  <1> DEFINE name == "resolved_edges"
  <1>1. /\ Shape /\ LocalInv(r) /\ pc[r] = "resolve" /\ mem[r].conn = "open"
        /\ Unresolved(r) = {}
    BY DEF FInv, GeneralInv, CommitEdges, Connected
  <1>2. PutPhase(r, name, mem[r].resolved, "assess", Closing(r))
    BY DEF CommitEdges
  <1>3. /\ DOMAIN Closing(r) = Fields /\ Closing(r).conn = "closed"
        /\ \A field \in Fields \ {"conn"} : Closing(r)[field] = mem[r][field]
    BY <1>1 DEF Shape, Closing, Fields
  <1>4. ASSUME NEW given \in Plan, Under(given)
        PROVE  /\ RunInv(given, r) /\ evidence = given.bundle.rows
               /\ mem[r].resolved = TheEdges(given.bundle) /\ edges = TheEdges(given.bundle)
    <2> DEFINE b == given.bundle
    <2>1. /\ RunInv(given, r) /\ evidence = b.rows /\ mem[r].listed = CandidatesIn(b.rows)
          /\ mem[r].resolved \subseteq TheEdges(b) /\ edges \subseteq TheEdges(b)
      BY <1>1, <1>4, PlanIs DEF RunInv, FoundInv, ComputedInv, StoreInv, FromList
    <2>2. ASSUME NEW e \in TheEdges(b) PROVE e \in mem[r].resolved
      <3>1. PICK c \in CandidatesIn(b.rows) : e = Resolve(b.rows, c)
        BY DEF TheEdges, EdgesOf
      <3>2. PICK other \in mem[r].resolved : other.candidate = c
        BY <1>1, <2>1, <3>1 DEF Unresolved
      <3>3. PICK d \in CandidatesIn(b.rows) : other = Resolve(b.rows, d)
        BY <2>1, <3>2 DEF TheEdges, EdgesOf
      <3>4. d = c
        BY <3>2, <3>3, ResolveIs
      <3> QED
        BY <3>1, <3>2, <3>3, <3>4
    <2> QED
      BY <1>1, <2>1, <2>2 DEF LocalInv
  <1>5. ASSUME NEW given \in Plan, Under(given),
               Commits(r, name, mem[r].resolved, "assess", Closing(r))
        PROVE  RunInv(given, r)'
    <2>1. /\ pc'[r] = "assess" /\ mem'[r] = Closing(r)
          /\ phases'[name] = {mem[r].resolved}
          /\ UNCHANGED <<identity, evidence, edges, members, packet>>
      BY <1>1, <1>5 DEF Commits, Shape, PhaseName
    <2> QED
      BY <1>1, <1>3, <1>4, <1>5, <2>1
         DEF RunInv, FoundInv, ComputedInv, Fields, ToList, FromReadiness,
             FromBuild, FromComponents, FromAnalysis, FromOutcome, FromPacket
  <1>6. Backed(name, mem[r].resolved) /\ pc[r] \in FromList
    BY <1>1 DEF Backed, LocalInv, FromList
  <1> QED
    BY <1>1, <1>2, <1>3, <1>4, <1>5, <1>6, CommitGlue DEF PhaseName, Fields, Result, Step

LEMMA CommitReadinessStep ==
    ASSUME FInv, NEW r \in Run, CommitReadiness(r)
    PROVE  FInv'
  <1> DEFINE name == "graph_readiness"
             next == IF Ready(mem[r].completeness) THEN "build" ELSE "blocked"
  <1>1. Shape /\ pc[r] = "readiness" /\ mem[r].conn = "open"
    BY DEF FInv, GeneralInv, CommitReadiness, Connected
  <1>2. PutPhase(r, name, mem[r].completeness, next, Closing(r))
    BY DEF CommitReadiness
  <1>3. /\ DOMAIN Closing(r) = Fields /\ Closing(r).conn = "closed"
        /\ \A field \in Fields \ {"conn"} : Closing(r)[field] = mem[r][field]
    BY <1>1 DEF Shape, Closing, Fields
  <1>4. ASSUME NEW given \in Plan, Under(given)
        PROVE  /\ RunInv(given, r) /\ evidence = given.bundle.rows
               /\ mem[r].completeness = TheCompleteness(given.bundle)
               /\ edges = TheEdges(given.bundle)
               /\ phases["resolved_edges"] = {TheEdges(given.bundle)}
               /\ mem[r].resolved = TheEdges(given.bundle)
    BY <1>1, <1>4, PlanIs
       DEF RunInv, FoundInv, ComputedInv, FromList, FromAssess, FromReadiness
  <1>5. ASSUME NEW given \in Plan, Under(given),
               Commits(r, name, mem[r].completeness, next, Closing(r))
        PROVE  RunInv(given, r)'
    <2>1. /\ pc'[r] = next /\ mem'[r] = Closing(r)
          /\ phases'[name] = {mem[r].completeness}
          /\ phases'["resolved_edges"] = phases["resolved_edges"]
          /\ UNCHANGED <<identity, evidence, edges, members, packet>>
      BY <1>1, <1>5 DEF Commits, Shape, PhaseName
    <2>2. FoundInv(given, r)'
      BY <1>1, <1>3, <1>4, <1>5, <2>1
         DEF RunInv, FoundInv, Fields, FromBuild, FromComponents, FromAnalysis, FromOutcome,
             FromPacket
    <2>3. ComputedInv(given, r)'
      BY <1>1, <1>3, <1>4, <1>5, <2>1
         DEF RunInv, ComputedInv, Fields, ToList, FromComponents, FromAnalysis, FromOutcome,
             FromPacket
    <2> QED
      BY <2>2, <2>3 DEF RunInv
  <1>6. pc[r] \in FromList /\ next \notin {"idle", "failed", "components"}
    BY <1>1 DEF FromList, FromAssess, FromReadiness
  <1> QED
    BY <1>1, <1>2, <1>3, <1>4, <1>5, <1>6, CommitGlue DEF Backed, PhaseName, Fields, Result, Step

LEMMA CommitComponentsStep ==
    ASSUME FInv, NEW r \in Run, CommitComponents(r)
    PROVE  FInv'
  <1> DEFINE name == "family_components"
  <1>1. /\ Shape /\ LocalInv(r) /\ pc[r] = "components" /\ mem[r].conn = "open"
        /\ members = mem[r].components
    BY DEF FInv, GeneralInv, CommitComponents, Connected
  <1>2. PutPhase(r, name, members, "analysis", Closing(r))
    BY DEF CommitComponents
  <1>3. /\ DOMAIN Closing(r) = Fields /\ Closing(r).conn = "closed"
        /\ \A field \in Fields \ {"conn"} : Closing(r)[field] = mem[r][field]
    BY <1>1 DEF Shape, Closing, Fields
  <1>4. ASSUME NEW given \in Plan, Under(given)
        PROVE  /\ RunInv(given, r) /\ evidence = given.bundle.rows
               /\ mem[r].completeness = TheCompleteness(given.bundle)
               /\ edges = TheEdges(given.bundle)
               /\ phases["resolved_edges"] = {TheEdges(given.bundle)}
               /\ phases["graph_readiness"] = {TheCompleteness(given.bundle)}
               /\ Ready(TheCompleteness(given.bundle))
               /\ mem[r].resolved = TheEdges(given.bundle)
               /\ members = TheComponents(given.bundle)
    BY <1>1, <1>4, PlanIs
       DEF RunInv, FoundInv, ComputedInv, FromList, FromAssess, FromReadiness, FromBuild,
           FromComponents
  <1>5. ASSUME NEW given \in Plan, Under(given), Commits(r, name, members, "analysis", Closing(r))
        PROVE  RunInv(given, r)'
    <2>1. /\ pc'[r] = "analysis" /\ mem'[r] = Closing(r)
          /\ phases'[name] = {members}
          /\ phases'["resolved_edges"] = phases["resolved_edges"]
          /\ phases'["graph_readiness"] = phases["graph_readiness"]
          /\ UNCHANGED <<identity, evidence, edges, members, packet>>
      BY <1>1, <1>5 DEF Commits, Shape, PhaseName
    <2>2. FoundInv(given, r)'
      BY <1>1, <1>3, <1>4, <1>5, <2>1 DEF RunInv, FoundInv, Fields, FromOutcome, FromPacket
    <2>3. ComputedInv(given, r)'
      BY <1>1, <1>3, <1>4, <1>5, <2>1
         DEF RunInv, ComputedInv, Fields, ToList, FromOutcome, FromPacket
    <2> QED
      BY <2>2, <2>3 DEF RunInv
  <1>6. pc[r] \in FromList /\ Backed(name, members)
    BY <1>1 DEF FromList, FromAssess, FromReadiness, FromBuild, FromComponents, Backed, LocalInv
  <1> QED
    BY <1>1, <1>2, <1>3, <1>4, <1>5, <1>6, CommitGlue DEF PhaseName, Fields, Result, Step

LEMMA AnalyseStep ==
    ASSUME FInv, NEW r \in Run, AnalyseCrossings(r)
    PROVE  FInv'
  <1> DEFINE name == "role_crossing_analysis"
             local == [Closing(r) EXCEPT !.crossings = Crossings(members)]
  <1>1. Shape /\ LocalInv(r) /\ pc[r] = "analysis" /\ pc[r] \in Step /\ mem[r].conn = "open"
    BY DEF FInv, GeneralInv, AnalyseCrossings, Connected, Step
  <1>2. /\ DOMAIN local = Fields /\ local.conn = "closed" /\ local.crossings = Crossings(members)
        /\ \A field \in Fields \ {"conn", "crossings"} : local[field] = mem[r][field]
    BY <1>1 DEF Shape, Closing, Fields
  <1>3. ASSUME NEW given \in Plan, Under(given)
        PROVE  /\ RunInv(given, r) /\ evidence = given.bundle.rows
               /\ mem[r].completeness = TheCompleteness(given.bundle)
               /\ edges = TheEdges(given.bundle)
               /\ phases["resolved_edges"] = {TheEdges(given.bundle)}
               /\ phases["graph_readiness"] = {TheCompleteness(given.bundle)}
               /\ Ready(TheCompleteness(given.bundle))
               /\ mem[r].resolved = TheEdges(given.bundle)
               /\ members = TheComponents(given.bundle)
               /\ mem[r].components = TheComponents(given.bundle)
               /\ phases["family_components"] = {TheComponents(given.bundle)}
               /\ EdgesWithin(edges, members)
               /\ Crossings(members) = TheCrossings(given.bundle)
    <2>1. /\ RunInv(given, r) /\ evidence = given.bundle.rows
          /\ mem[r].completeness = TheCompleteness(given.bundle)
          /\ edges = TheEdges(given.bundle)
          /\ phases["resolved_edges"] = {TheEdges(given.bundle)}
          /\ phases["graph_readiness"] = {TheCompleteness(given.bundle)}
          /\ Ready(TheCompleteness(given.bundle))
          /\ mem[r].resolved = TheEdges(given.bundle)
          /\ members = TheComponents(given.bundle)
          /\ mem[r].components = TheComponents(given.bundle)
          /\ phases["family_components"] = {TheComponents(given.bundle)}
      BY <1>1, <1>3, PlanIs
         DEF RunInv, FoundInv, ComputedInv, FromList, FromAssess, FromReadiness, FromBuild,
             FromComponents, FromAnalysis
    <2>2. TheEdges(given.bundle) \in SUBSET Edge
      BY EdgesOfAreEdges DEF TheEdges
    <2>3. EdgesWithin(edges, members)
      BY <2>1, <2>2, EdgesLieWithin DEF TheComponents
    <2>4. Crossings(members) = TheCrossings(given.bundle)
      BY <2>1 DEF TheCrossings
    <2> QED
      BY <2>1, <2>3, <2>4
  <1>4. CASE ~ EdgesWithin(edges, members)
    BY <1>1, <1>3, <1>4, FailStep DEF AnalyseCrossings
  <1>5. CASE EdgesWithin(edges, members)
    <2>1. PutPhase(r, name, Crossings(members), "outcome", local)
      BY <1>5 DEF AnalyseCrossings
    <2> HIDE DEF local
    <2>2. ASSUME NEW given \in Plan, Under(given),
                 Commits(r, name, Crossings(members), "outcome", local)
          PROVE  RunInv(given, r)'
      <3>1. /\ pc'[r] = "outcome" /\ mem'[r] = local
            /\ phases'[name] = {Crossings(members)}
            /\ phases'["resolved_edges"] = phases["resolved_edges"]
            /\ phases'["graph_readiness"] = phases["graph_readiness"]
            /\ phases'["family_components"] = phases["family_components"]
            /\ UNCHANGED <<identity, evidence, edges, members, packet>>
        BY <1>1, <2>2 DEF Commits, Shape, PhaseName
      <3>2. FoundInv(given, r)'
        BY <1>1, <1>2, <1>3, <2>2, <3>1 DEF RunInv, FoundInv, Fields, FromPacket
      <3>3. ComputedInv(given, r)'
        BY <1>1, <1>2, <1>3, <2>2, <3>1 DEF RunInv, ComputedInv, Fields, ToList, FromPacket
      <3> QED
        BY <3>2, <3>3 DEF RunInv
    <2>3. pc[r] \in FromList /\ Backed(name, Crossings(members))
      BY <1>1 DEF FromList, FromAssess, FromReadiness, FromBuild, FromComponents, FromAnalysis,
                  Backed
    <2>4. \A field \in {"listed", "edge", "resolved"} : local[field] = mem[r][field]
      BY <1>2 DEF Fields
    <2>5. \A given \in Plan : Under(given) => Crossings(members) = Result(given.bundle)[name]
      BY <1>3 DEF Result
    <2> QED
      BY <1>1, <1>2, <2>1, <2>2, <2>3, <2>4, <2>5, CommitGlue DEF PhaseName
  <1> QED
    BY <1>4, <1>5

LEMMA OutcomeStep ==
    ASSUME FInv, NEW r \in Run, DetermineOutcome(r)
    PROVE  FInv'
  <1> DEFINE name == "family_outcome"
             commitment == Outcome(mem[r].crossings)
  <1>1. Shape /\ LocalInv(r) /\ pc[r] = "outcome" /\ mem[r].conn = "open"
    BY DEF FInv, GeneralInv, DetermineOutcome, Connected
  <1>2. PutPhase(r, name, commitment, "packet", Closing(r))
    BY DEF DetermineOutcome
  <1>3. /\ DOMAIN Closing(r) = Fields /\ Closing(r).conn = "closed"
        /\ \A field \in Fields \ {"conn"} : Closing(r)[field] = mem[r][field]
    BY <1>1 DEF Shape, Closing, Fields
  <1>4. ASSUME NEW given \in Plan, Under(given)
        PROVE  /\ RunInv(given, r) /\ evidence = given.bundle.rows
               /\ mem[r].completeness = TheCompleteness(given.bundle)
               /\ edges = TheEdges(given.bundle)
               /\ phases["resolved_edges"] = {TheEdges(given.bundle)}
               /\ phases["graph_readiness"] = {TheCompleteness(given.bundle)}
               /\ Ready(TheCompleteness(given.bundle))
               /\ mem[r].resolved = TheEdges(given.bundle)
               /\ members = TheComponents(given.bundle)
               /\ mem[r].components = TheComponents(given.bundle)
               /\ phases["family_components"] = {TheComponents(given.bundle)}
               /\ phases["role_crossing_analysis"] = {TheCrossings(given.bundle)}
               /\ mem[r].crossings = TheCrossings(given.bundle)
               /\ commitment = TheOutcome(given.bundle)
    BY <1>1, <1>4, PlanIs
       DEF RunInv, FoundInv, ComputedInv, TheOutcome, FromList, FromAssess, FromReadiness,
           FromBuild, FromComponents, FromAnalysis, FromOutcome
  <1>5. ASSUME NEW given \in Plan, Under(given), Commits(r, name, commitment, "packet", Closing(r))
        PROVE  RunInv(given, r)'
    <2> HIDE DEF commitment
    <2>1. /\ pc'[r] = "packet" /\ mem'[r] = Closing(r)
          /\ phases'[name] = {commitment}
          /\ \A other \in PhaseName \ {name} : phases'[other] = phases[other]
          /\ UNCHANGED <<identity, evidence, edges, members, packet>>
      BY <1>1, <1>5 DEF Commits, Shape, PhaseName
    <2>2. FoundInv(given, r)'
      BY <1>1, <1>3, <1>4, <1>5, <2>1 DEF RunInv, FoundInv, Fields, PhaseName
    <2>3. ComputedInv(given, r)'
      BY <1>1, <1>3, <1>4, <1>5, <2>1 DEF RunInv, ComputedInv, Fields, ToList
    <2> QED
      BY <2>2, <2>3 DEF RunInv
  <1>6. pc[r] \in FromList /\ Backed(name, commitment)
    BY <1>1 DEF FromList, FromAssess, FromReadiness, FromBuild, FromComponents, FromAnalysis,
                FromOutcome, Backed
  <1> HIDE DEF commitment
  <1> QED
    BY <1>1, <1>2, <1>3, <1>4, <1>5, <1>6, CommitGlue DEF PhaseName, Fields, Result, Step

-----------------------------------------------------------------------------
(* The invariant, and what follows from it.                                *)

LEMMA NextInv ==
    ASSUME FInv, [Next]_vars
    PROVE  FInv'
  <1>1. CASE UNCHANGED vars
    <2>1. GeneralInv'
      BY <1>1 DEF vars, store, FInv, GeneralInv, Shape, Keyed, PhasesInv, PhasesHaveTheirRows,
                  LocalInv, PacketHas
    <2>2. ReplayInv'
      BY <1>1 DEF vars, store, FInv, ReplayInv, Under, StoreInv, Empty, RunInv, FoundInv,
                  ComputedInv
    <2> QED
      BY <2>1, <2>2 DEF FInv
  <1>2. ASSUME NEW r \in Run,
               \/ Start(r) \/ VerifyInputs(r) \/ Open(r) \/ ListCandidates(r)
               \/ ResolveCandidate(r) \/ AssessReadiness(r) \/ BuildComponents(r)
               \/ WritePacket(r) \/ Stop(r)
        PROVE  FInv'
    BY <1>2, StartStep, VerifyStep, OpenStep, ListStep, ResolveStep, AssessStep, BuildStep,
       PacketStep, StopStep
  <1>3. ASSUME NEW r \in Run,
               \/ Bind(r) \/ PutAllocation(r) \/ PutEvidence(r) \/ PutEdge(r) \/ PutMembers(r)
        PROVE  FInv'
    BY <1>3, BindStep, PutAllocationStep, PutEvidenceStep, PutEdgeStep, PutMembersStep
  <1>4. ASSUME NEW r \in Run,
               \/ CommitAllocation(r) \/ CommitEvidence(r) \/ CommitEdges(r)
               \/ CommitReadiness(r) \/ CommitComponents(r) \/ AnalyseCrossings(r)
               \/ DetermineOutcome(r)
        PROVE  FInv'
    BY <1>4, CommitAllocationStep, CommitEvidenceStep, CommitEdgesStep, CommitReadinessStep,
       CommitComponentsStep, AnalyseStep, OutcomeStep
  <1> QED
    BY <1>1, <1>2, <1>3, <1>4 DEF Next

\* The inductive invariant: phases are committed once and have their rows, and runs
\* of one plan leave in the store only what each of them expects there.
THEOREM FamilyInvariance == Spec => []FInv
  BY InitInv, NextInv, PTL DEF Spec

\* The rows that a phase of the store commits to are in it, in every state that any
\* runs of any bundles leave it in (put_* and put_phase_commitment of store.py).
THEOREM RowsBehindPhases == Spec => []PhasesHaveTheirRows
  <1>1. FInv => PhasesHaveTheirRows
    BY DEF FInv, GeneralInv, PhasesInv
  <1> QED
    BY <1>1, FamilyInvariance, PTL

\* Two packets of one store are the same packet (build_family_review_packet).
THEOREM PacketAgreement == Spec => []PacketsAgree
  <1>1. FInv => PacketsAgree
    <2> SUFFICES ASSUME FInv, NEW r \in Run, NEW s \in Run, NEW p \in packet[r],
                        NEW q \in packet[s]
                 PROVE  p = q
      BY DEF PacketsAgree
    <2>1. /\ PacketHas(p) /\ PacketHas(q)
          /\ p = [bundle |-> p.bundle, edges |-> p.edges, members |-> p.members,
                  outcome |-> p.outcome]
          /\ q = [bundle |-> q.bundle, edges |-> q.edges, members |-> q.members,
                  outcome |-> q.outcome]
      BY DEF FInv, GeneralInv, LocalInv
    <2>2. /\ p.bundle = q.bundle /\ p.edges = q.edges /\ p.members = q.members
          /\ p.outcome = q.outcome
      BY <2>1 DEF PacketHas
    <2> QED
      BY <2>1, <2>2
  <1> QED
    BY <1>1, FamilyInvariance, PTL

\* A repeated run is accepted: while all runs have one plan, of a sound bundle, none
\* fails, wherever the others stopped (put_phase_commitment, put_component_memberships
\* and the packet's comparisons find what they recompute).
THEOREM Replay == Spec => []ReplayIsAccepted
  <1>1. FInv => ReplayIsAccepted
    BY DEF FInv, ReplayInv, ReplayIsAccepted, Replays, Under
  <1> QED
    BY <1>1, FamilyInvariance, PTL

\* While all runs have one plan, one blocks only if a source is incomplete or a
\* review is missing, and a packet shows the families of the bundle's evidence
\* (assess_graph_readiness, build_components).
THEOREM BundleAlone == Spec => []BundleDecides
  <1>1. FInv => BundleDecides
    <2> SUFFICES ASSUME FInv, NEW b \in Bundle, Replays(b), NEW r \in Run
                 PROVE  /\ pc[r] = "blocked" =>
                              \/ b.incomplete > 0
                              \/ \E c \in CandidatesIn(b.rows) :
                                    Rule[c] = "APPROVED_REQUIRED" /\ VerdictsIn(b.rows, c) = {}
                        /\ \A p \in packet[r] :
                              /\ b.incomplete = 0
                              /\ p.members = Families(b.rows)
                              /\ {e.candidate : e \in p.edges} = CandidatesIn(b.rows)
      BY DEF BundleDecides
    <2>1. PICK given \in Plan : given.bundle = b /\ Under(given)
      BY DEF Replays, Under
    <2>2. RunInv(given, r)
      BY <2>1 DEF FInv, ReplayInv
    <2>3. ASSUME pc[r] = "blocked", ~ (b.incomplete > 0)
          PROVE  \E c \in CandidatesIn(b.rows) :
                    Rule[c] = "APPROVED_REQUIRED" /\ VerdictsIn(b.rows, c) = {}
      <3> DEFINE open == {e \in TheEdges(b) : e.status = "UNRESOLVED"}
      <3>1. b.incomplete = 0
        BY <2>3, WorkflowAssumption DEF ValidBundle
      <3>2. ~ Ready(TheCompleteness(b))
        BY <2>1, <2>2, <2>3 DEF RunInv, FoundInv
      <3>3. Cardinality(open) # 0
        BY <3>1, <3>2 DEF Ready, TheCompleteness, Completeness, WithStatus
      <3>4. open # {}
        BY <3>3, FS_EmptySet
      <3>5. PICK e \in TheEdges(b) : e.status = "UNRESOLVED"
        BY <3>4
      <3>6. PICK c \in CandidatesIn(b.rows) : e = Resolve(b.rows, c)
        BY DEF TheEdges, EdgesOf
      <3> QED
        BY <3>5, <3>6, ResolveIs
    <2>4. ASSUME NEW p \in packet[r]
          PROVE  /\ b.incomplete = 0
                 /\ p.members = Families(b.rows)
                 /\ {e.candidate : e \in p.edges} = CandidatesIn(b.rows)
      <3>1. /\ p.edges = TheEdges(b) /\ p.members = TheComponents(b)
            /\ Ready(TheCompleteness(b)) /\ Undisputed(b.rows)
        BY <2>1, <2>2 DEF RunInv, ComputedInv
      <3>2. b.incomplete = 0
        BY <3>1 DEF Ready, TheCompleteness, Completeness
      <3>3. p.members = Families(b.rows)
        BY <3>1, ComponentsAreFamilies DEF TheComponents, TheEdges
      <3>4. {e.candidate : e \in p.edges} = CandidatesIn(b.rows)
        BY <3>1, EdgesOfAreEdges DEF TheEdges
      <3> QED
        BY <3>2, <3>3, <3>4
    <2> QED
      BY <2>3, <2>4
  <1> QED
    BY <1>1, FamilyInvariance, PTL

-----------------------------------------------------------------------------
(* Type correctness.                                                       *)

Counts == [DOMAIN Completeness({}, 0) -> Nat]

\* What a phase may commit to.
Commitment ==
    [initial_allocation |-> {Repository}, prepared_evidence_bundle |-> Bundle,
     resolved_edges |-> SUBSET Edge, graph_readiness |-> Counts, family_components |-> Partition,
     role_crossing_analysis |-> Partition, family_outcome |-> Outcomes]

LEMMA CompletenessType ==
    ASSUME NEW E \in SUBSET Edge, NEW n \in Nat
    PROVE  Completeness(E, n) \in Counts
  <1>1. ASSUME NEW status PROVE WithStatus(E, status) \in Nat
    <2>1. IsFiniteSet({e \in E : e.status = status})
      BY EdgesAreFinite, FS_Subset
    <2> QED
      BY <2>1, FS_CardinalityType DEF WithStatus
  <1>2. WithStatus(E, "UNRESOLVED") \in Nat /\ WithStatus(E, "APPROVED") \in Nat
        /\ WithStatus(E, "REJECTED") \in Nat /\ WithStatus(E, "REVIEW_ONLY") \in Nat
    BY <1>1
  <1>3. DOMAIN Completeness({}, 0) =
            {"unresolved", "approved", "rejected", "reviewonly", "incomplete"}
    BY DEF Completeness
  <1> QED
    BY <1>2, <1>3 DEF Completeness, Counts

LEMMA ComponentsType ==
    ASSUME NEW E \in SUBSET Edge
    PROVE  Components(E) \in Partition
  BY ComponentsAreRight DEF AreComponents, Partitions, Partition

LEMMA CommitType ==
    ASSUME TypeOK, NEW r \in Run, NEW name \in PhaseName, NEW commitment \in Commitment[name],
           NEW next \in Step \cup Ended, NEW local \in Memory,
           PutPhase(r, name, commitment, next, local)
    PROVE  TypeOK'
  <1>1. CASE ~ (phases[name] \subseteq {commitment})
    BY <1>1 DEF PutPhase, Fail, Go, store, TypeOK, Ended
  <1>2. CASE phases[name] \subseteq {commitment}
    <2>1. /\ phases' = [phases EXCEPT ![name] = {commitment}]
          /\ pc' = [pc EXCEPT ![r] = next] /\ mem' = [mem EXCEPT ![r] = local]
          /\ UNCHANGED <<identity, allocated, evidence, edges, members, plan, packet>>
      BY <1>2 DEF PutPhase, Go
    <2> DEFINE Phases == [initial_allocation : SUBSET {Repository},
                          prepared_evidence_bundle : SUBSET Bundle,
                          resolved_edges : SUBSET SUBSET Edge,
                          graph_readiness : SUBSET Counts,
                          family_components : SUBSET Partition,
                          role_crossing_analysis : SUBSET Partition,
                          family_outcome : SUBSET Outcomes]
    <2>2. phases \in Phases
      BY DEF TypeOK, Counts
    <2>3. phases' \in Phases
      BY <2>1, <2>2 DEF PhaseName, Commitment
    <2>4. stops' \in 0..MaxStops
      BY <1>2 DEF PutPhase, TypeOK
    <2> QED
      BY <2>1, <2>3, <2>4 DEF TypeOK, Counts
  <1> QED
    BY <1>1, <1>2

LEMMA TypeInv ==
    ASSUME FInv, TypeOK, [Next]_vars
    PROVE  TypeOK'
  <1> DEFINE Locals == [Run -> Memory]
  <1>1. CASE UNCHANGED vars
    BY <1>1 DEF vars, store, TypeOK
  <1>2. ASSUME NEW r \in Run, Fail(r) PROVE TypeOK'
    BY <1>2 DEF Fail, Go, store, TypeOK, Ended
  <1>3. ASSUME NEW r \in Run, pc[r] # "idle"
        PROVE  plan[r] \in Plan /\ plan[r].bundle.incomplete \in Nat
               /\ plan[r].bundle.rows \subseteq Row /\ plan[r].bundle \in Bundle
               /\ plan[r].identity \in Identity
    <2>1. plan[r] \in Plan
      BY <1>3 DEF FInv, GeneralInv, Shape
    <2> QED
      BY <2>1, WorkflowAssumption DEF Plan, ValidBundle
  <1>4. ASSUME NEW r \in Run PROVE mem[r] \in Memory /\ Closing(r) \in Memory
    <2>1. mem[r] \in Memory
      BY DEF TypeOK
    <2> QED
      BY <2>1 DEF Memory, Closing, Connection
  <1>5. ASSUME NEW rows PROVE CandidatesIn(rows) \subseteq Candidate
    BY DEF CandidatesIn, CandidateRow
  <1>6. ASSUME NEW r \in Run, Start(r) \/ VerifyInputs(r) \/ Stop(r) PROVE TypeOK'
    <2>1. CASE Start(r)
      BY <2>1 DEF Start, Go, store, TypeOK, Step
    <2>2. CASE VerifyInputs(r)
      BY <2>2 DEF VerifyInputs, Go, store, TypeOK, Step
    <2>3. CASE Stop(r)
      BY <2>3, WorkflowAssumption DEF Stop, Go, store, TypeOK, Ended
    <2> QED
      BY <1>6, <2>1, <2>2, <2>3
  <1>7. ASSUME NEW r \in Run, Open(r) PROVE TypeOK'
    <2>1. CASE Fail(r)
      BY <1>2, <2>1
    <2>2. CASE /\ mem' = [mem EXCEPT ![r].conn = "checked"]
               /\ UNCHANGED <<store, pc, plan, packet, stops>>
      <3>1. [mem[r] EXCEPT !.conn = "checked"] \in Memory
        BY <1>4 DEF Memory, Connection
      <3>2. mem' \in Locals
        BY <2>2, <3>1 DEF TypeOK
      <3> QED
        BY <2>2, <3>2 DEF store, TypeOK
    <2> QED
      BY <1>7, <2>1, <2>2 DEF Open
  <1>8. ASSUME NEW r \in Run, Bind(r) PROVE TypeOK'
    <2>1. [mem[r] EXCEPT !.conn = "open"] \in Memory
      BY <1>4 DEF Memory, Connection
    <2>2. mem' \in Locals
      BY <1>8, <2>1 DEF Bind, TypeOK
    <2>3. pc[r] # "idle" /\ identity' = {plan[r].identity}
      BY <1>8 DEF Bind, Step
    <2>4. identity' \subseteq Identity
      BY <1>3, <2>3
    <2>5. Cardinality(identity') = 1
      BY <2>3, FS_Singleton
    <2>6. Cardinality(identity') <= 1
      BY <2>5
    <2> QED
      BY <1>8, <2>2, <2>4, <2>6 DEF Bind, TypeOK
  <1>9. ASSUME NEW r \in Run, PutAllocation(r) PROVE TypeOK'
    BY <1>9 DEF PutAllocation, TypeOK
  <1>10. ASSUME NEW r \in Run, PutEvidence(r) PROVE TypeOK'
    <2>1. PICK row \in Missing(r) :
              \/ Fail(r)
              \/ /\ evidence' = evidence \cup {row}
                 /\ UNCHANGED <<identity, allocated, edges, members, phases, pc, mem, plan,
                                packet, stops>>
      BY <1>10 DEF PutEvidence
    <2>2. row \in Row
      BY <1>3, <1>10 DEF PutEvidence, Connected, Missing
    <2> QED
      BY <1>2, <2>1, <2>2 DEF TypeOK
  <1>11. ASSUME NEW r \in Run, ListCandidates(r) PROVE TypeOK'
    <2>1. [mem[r] EXCEPT !.listed = CandidatesIn(evidence)] \in Memory
      BY <1>4, <1>5 DEF Memory
    <2>2. mem' \in Locals
      BY <1>11, <2>1 DEF ListCandidates, TypeOK
    <2> QED
      BY <1>11, <2>2 DEF ListCandidates, Go, store, TypeOK, Step
  <1>12. ASSUME NEW r \in Run, ResolveCandidate(r) PROVE TypeOK'
    <2>1. PICK c \in Unresolved(r) :
              \/ Fail(r)
              \/ /\ mem' = [mem EXCEPT ![r].edge = {Resolve(evidence, c)}]
                 /\ UNCHANGED <<store, pc, plan, packet, stops>>
      BY <1>12 DEF ResolveCandidate
    <2>2. Resolve(evidence, c) \in Edge
      BY ResolveIs DEF Unresolved, FInv, GeneralInv, LocalInv
    <2>3. [mem[r] EXCEPT !.edge = {Resolve(evidence, c)}] \in Memory
      BY <1>4, <2>2 DEF Memory
    <2>4. CASE UNCHANGED <<store, pc, plan, packet, stops>> /\ ~ Fail(r)
      <3>1. mem' \in Locals
        BY <2>1, <2>3, <2>4 DEF TypeOK
      <3> QED
        BY <2>4, <3>1 DEF store, TypeOK
    <2> QED
      BY <1>2, <2>1, <2>4
  <1>13. ASSUME NEW r \in Run, PutEdge(r) PROVE TypeOK'
    <2>1. PICK e \in mem[r].edge :
              \/ Fail(r)
              \/ /\ edges' = edges \cup {e}
                 /\ mem' = [mem EXCEPT ![r].edge = {}, ![r].resolved = @ \cup {e}]
                 /\ UNCHANGED <<identity, allocated, evidence, members, phases, pc, plan, packet,
                                stops>>
      BY <1>13 DEF PutEdge
    <2>2. e \in Edge
      BY <1>4 DEF Memory
    <2>3. CASE Fail(r)
      BY <1>2, <2>3
    <2>4. CASE /\ edges' = edges \cup {e}
               /\ mem' = [mem EXCEPT ![r].edge = {}, ![r].resolved = @ \cup {e}]
               /\ UNCHANGED <<identity, allocated, evidence, members, phases, pc, plan, packet,
                              stops>>
      <3>1. [mem[r] EXCEPT !.edge = {}, !.resolved = @ \cup {e}] \in Memory
        BY <1>4, <2>2 DEF Memory
      <3>2. mem' = [mem EXCEPT ![r] = [mem[r] EXCEPT !.edge = {}, !.resolved = @ \cup {e}]]
        BY <2>4 DEF TypeOK
      <3>3. mem' \in Locals
        BY <3>1, <3>2 DEF TypeOK
      <3> QED
        BY <2>2, <2>4, <3>3 DEF TypeOK
    <2> QED
      BY <2>1, <2>3, <2>4
  <1>14. ASSUME NEW r \in Run, AssessReadiness(r) PROVE TypeOK'
    <2> DEFINE found == Completeness(edges, plan[r].bundle.incomplete)
    <2>1. found \in Counts
      BY <1>3, <1>14, CompletenessType DEF AssessReadiness, Connected, TypeOK
    <2>2. mem' = [mem EXCEPT ![r] = [Closing(r) EXCEPT !.completeness = found]]
      BY <1>14 DEF AssessReadiness
    <2> HIDE DEF found
    <2>3. [Closing(r) EXCEPT !.completeness = found] \in Memory
      BY <1>4, <2>1 DEF Memory, Counts
    <2>4. mem' \in Locals
      BY <2>2, <2>3 DEF TypeOK
    <2> QED
      BY <1>14, <2>4 DEF AssessReadiness, Go, store, TypeOK, Step
  <1>15. ASSUME NEW r \in Run, BuildComponents(r) PROVE TypeOK'
    <2>1. Components(edges) \in Partition
      BY ComponentsType DEF TypeOK
    <2>2. [mem[r] EXCEPT !.components = Components(edges)] \in Memory
      BY <1>4, <2>1 DEF Memory
    <2>3. mem' \in Locals
      BY <1>15, <2>2 DEF BuildComponents, TypeOK
    <2> QED
      BY <1>15, <2>3 DEF BuildComponents, Go, store, TypeOK, Step
  <1>16. ASSUME NEW r \in Run, PutMembers(r) PROVE TypeOK'
    <2>1. mem[r].components \in Partition
      BY DEF TypeOK, Memory
    <2> QED
      BY <1>2, <1>16, <2>1 DEF PutMembers, TypeOK
  <1>17. ASSUME NEW r \in Run, WritePacket(r) PROVE TypeOK'
    <2> DEFINE written == [bundle |-> plan[r].bundle, edges |-> edges, members |-> members,
                           outcome |-> Outcome(mem[r].crossings)]
    <2>1. CASE Fail(r)
      BY <1>2, <2>1
    <2>2. CASE /\ packet' = [packet EXCEPT ![r] = {written}]
               /\ Go(r, "completed") /\ mem' = [mem EXCEPT ![r] = Closing(r)]
               /\ UNCHANGED <<store, plan, stops>>
      <3>1. Outcome(mem[r].crossings) \in Outcomes
        BY DEF Outcomes, Outcome
      <3>2. written \in Packet
        BY <1>3, <1>17, <3>1 DEF WritePacket, Connected, TypeOK, Packet
      <3> HIDE DEF written
      <3>3. packet' \in [Run -> SUBSET Packet]
        BY <2>2, <3>2 DEF TypeOK
      <3>4. mem' \in Locals
        BY <1>4, <2>2 DEF TypeOK
      <3> QED
        BY <2>2, <3>3, <3>4 DEF Go, store, TypeOK, Ended
    <2> QED
      BY <1>17, <2>1, <2>2 DEF WritePacket
  <1>18. ASSUME NEW r \in Run, CommitAllocation(r) PROVE TypeOK'
    BY <1>4, <1>18, CommitType DEF CommitAllocation, PhaseName, Commitment, Step
  <1>19. ASSUME NEW r \in Run, CommitEvidence(r) PROVE TypeOK'
    <2>1. plan[r].bundle \in Bundle
      BY <1>3, <1>19 DEF CommitEvidence, Connected
    <2> QED
      BY <1>4, <1>19, <2>1, CommitType DEF CommitEvidence, PhaseName, Commitment, Step
  <1>20. ASSUME NEW r \in Run, CommitEdges(r) PROVE TypeOK'
    <2>1. mem[r].resolved \in SUBSET Edge
      BY DEF TypeOK, Memory
    <2> QED
      BY <1>4, <1>20, <2>1, CommitType DEF CommitEdges, PhaseName, Commitment, Step
  <1>21. ASSUME NEW r \in Run, CommitReadiness(r) PROVE TypeOK'
    <2>1. mem[r].completeness \in Counts
      BY DEF TypeOK, Memory, Counts
    <2> DEFINE next == IF Ready(mem[r].completeness) THEN "build" ELSE "blocked"
    <2>2. next \in Step \cup Ended
      BY DEF Step, Ended
    <2>3. PutPhase(r, "graph_readiness", mem[r].completeness, next, Closing(r))
      BY <1>21 DEF CommitReadiness
    <2> HIDE DEF next
    <2> QED
      BY <1>4, <2>1, <2>2, <2>3, CommitType DEF PhaseName, Commitment
  <1>22. ASSUME NEW r \in Run, CommitComponents(r) PROVE TypeOK'
    <2>1. members \in Partition
      BY DEF TypeOK
    <2> QED
      BY <1>4, <1>22, <2>1, CommitType DEF CommitComponents, PhaseName, Commitment, Step
  <1>23. ASSUME NEW r \in Run, AnalyseCrossings(r) PROVE TypeOK'
    <2> DEFINE local == [Closing(r) EXCEPT !.crossings = Crossings(members)]
    <2>1. Crossings(members) \in Partition
      BY DEF TypeOK, Partition, Crossings
    <2>2. local \in Memory
      BY <1>4, <2>1 DEF Memory
    <2>3. Fail(r) \/ PutPhase(r, "role_crossing_analysis", Crossings(members), "outcome", local)
      BY <1>23 DEF AnalyseCrossings
    <2> HIDE DEF local
    <2> QED
      BY <1>2, <2>1, <2>2, <2>3, CommitType DEF PhaseName, Commitment, Step
  <1>24. ASSUME NEW r \in Run, DetermineOutcome(r) PROVE TypeOK'
    <2>1. Outcome(mem[r].crossings) \in Outcomes
      BY DEF Outcomes, Outcome
    <2> QED
      BY <1>4, <1>24, <2>1, CommitType DEF DetermineOutcome, PhaseName, Commitment, Step
  <1> QED
    BY <1>1, <1>6, <1>7, <1>8, <1>9, <1>10, <1>11, <1>12, <1>13, <1>14, <1>15, <1>16, <1>17,
       <1>18, <1>19, <1>20, <1>21, <1>22, <1>23, <1>24 DEF Next

\* Every variable of the store and of the runs keeps its type.
THEOREM FamilyTypeCorrect == Spec => []TypeOK
  <1>1. Init => TypeOK
    <2> SUFFICES ASSUME Init PROVE TypeOK
      OBVIOUS
    <2>1. phases = [name \in PhaseName |-> {}]
      BY PhaseNames DEF Init
    <2>2. FreshMemory \in Memory
      BY CompletenessType DEF FreshMemory, Memory, Connection, Counts, Partition
    <2>3. identity \subseteq Identity /\ Cardinality(identity) <= 1
      BY FS_EmptySet DEF Init
    <2>4. stops \in 0..MaxStops
      BY WorkflowAssumption DEF Init
    <2> QED
      BY <2>1, <2>2, <2>3, <2>4 DEF Init, TypeOK, PhaseName, Partition
  <1> QED
    BY <1>1, TypeInv, FamilyInvariance, PTL DEF Spec

=============================================================================

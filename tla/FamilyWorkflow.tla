---------------------------- MODULE FamilyWorkflow ----------------------------
(***************************************************************************)
(* Runs of the family graph workflow (relate/family/workflow/) on one      *)
(* SQLite store (relate/family/store.py), each in a process of its own, at *)
(* the same time or one after the other.                                   *)
(*                                                                         *)
(* Every step opens the store anew, which binds the identity of the run to *)
(* it, and every put_* call is a transaction of its own.  A run can stop   *)
(* between any two transactions: it dies, an input does not verify, the    *)
(* database is locked, or another process inserted the same row between    *)
(* the check and the insert of this one.  A run starts over from its first *)
(* step; what it finds in the store it must agree with.                    *)
(***************************************************************************)
EXTENDS FamilyGraph

CONSTANTS
    Run,       \* the runs that use the store
    Identity,  \* cache identities
    Bundle,    \* evidence bundles, [rows |-> ..., incomplete |-> ...]
    NoPlan,    \* the plan of a run that has not started
    MaxStops   \* bound on the runs that stop

\* A disposition in a bundle is that of a candidate in it, and a source is there
\* once.  Two dispositions of one candidate are not refused, nor is one of a
\* candidate whose rule takes none.
ValidBundle(b) ==
    /\ b.rows \subseteq Row /\ b.incomplete \in Nat
    /\ \A v, w \in b.rows \cap SourceRow : v.key = w.key => v = w
    /\ \A w \in b.rows \cap DispositionRow : w.key \in CandidatesIn(b.rows)

Plan == [bundle : Bundle, identity : Identity]

ASSUME WorkflowAssumption ==
    /\ \A b \in Bundle : ValidBundle(b)
    /\ NoPlan \notin Plan
    /\ MaxStops \in Nat

VARIABLES
    identity,   \* the identities the store is bound to, none or one
    allocated,  \* are the allocation rows in the store
    evidence,   \* source records, candidates and dispositions
    edges,      \* resolved edges
    members,    \* component memberships
    phases,     \* commitments of each phase, none or one
    pc, mem,    \* next step and local variables of each run
    plan,       \* evidence bundle and cache identity of each run
    packet,     \* review packet of each run, none or one
    stops

store == <<identity, allocated, evidence, edges, members, phases>>
vars == <<store, pc, mem, plan, packet, stops>>

PhaseOrder ==
    <<"initial_allocation", "prepared_evidence_bundle", "resolved_edges", "graph_readiness",
      "family_components", "role_crossing_analysis", "family_outcome">>

Step == {"verify", "allocation", "prepared", "list", "resolve", "assess", "readiness",
         "build", "components", "analysis", "outcome", "packet"}
Ended == {"completed", "blocked", "failed", "stopped"}
Connection == {"closed", "checked", "open"}

Outcomes == {Outcome({}), Outcome({Repository})}
Partition == SUBSET SUBSET Repository

\* conn: the step's connection; listed: the candidates ResolveCandidates read;
\* edge: the one at hand; resolved: those put; completeness, components, crossings:
\* what the later steps computed.
Memory == [conn : Connection, listed : SUBSET Candidate, edge : SUBSET Edge,
           resolved : SUBSET Edge, completeness : [DOMAIN Completeness({}, 0) -> Nat],
           components : Partition, crossings : Partition]
Packet == [bundle : Bundle, edges : SUBSET Edge, members : Partition, outcome : Outcomes]

TypeOK ==
    /\ identity \subseteq Identity /\ Cardinality(identity) <= 1
    /\ allocated \in BOOLEAN
    /\ evidence \subseteq Row
    /\ edges \subseteq Edge
    /\ members \in Partition
    /\ phases \in [initial_allocation : SUBSET {Repository},
                   prepared_evidence_bundle : SUBSET Bundle,
                   resolved_edges : SUBSET SUBSET Edge,
                   graph_readiness : SUBSET [DOMAIN Completeness({}, 0) -> Nat],
                   family_components : SUBSET Partition,
                   role_crossing_analysis : SUBSET Partition,
                   family_outcome : SUBSET Outcomes]
    /\ pc \in [Run -> {"idle"} \cup Step \cup Ended]
    /\ mem \in [Run -> Memory]
    /\ plan \in [Run -> Plan \cup {NoPlan}]
    /\ packet \in [Run -> SUBSET Packet]
    /\ stops \in 0..MaxStops

FreshMemory == [conn |-> "closed", listed |-> {}, edge |-> {}, resolved |-> {},
                completeness |-> Completeness({}, 0), components |-> {}, crossings |-> {}]

Init ==
    /\ identity = {} /\ allocated = FALSE /\ evidence = {} /\ edges = {} /\ members = {}
    /\ phases = [phase \in {PhaseOrder[k] : k \in 1..7} |-> {}]
    /\ pc = [r \in Run |-> "idle"]
    /\ mem = [r \in Run |-> FreshMemory]
    /\ plan = [r \in Run |-> NoPlan]
    /\ packet = [r \in Run |-> {}]
    /\ stops = 0

-----------------------------------------------------------------------------
(* The store.                                                              *)

Connected(r, step) == pc[r] = step /\ mem[r].conn = "open"
Go(r, step) == pc' = [pc EXCEPT ![r] = step]
Closing(r) == [mem[r] EXCEPT !.conn = "closed"]

\* The step raises, and WorkflowRunner with it.
Fail(r) == Go(r, "failed") /\ UNCHANGED <<store, mem, plan, packet, stops>>

Empty == ~ allocated /\ evidence = {} /\ edges = {} /\ members = {}
         /\ \A phase \in DOMAIN phases : phases[phase] = {}

\* FamilyGraphCache(path, identity=...): bind_cache_identity reads the identity of
\* the store ...
Open(r) ==
    /\ pc[r] \in Step \ {"verify"} /\ mem[r].conn = "closed"
    /\ IF identity = {plan[r].identity} \/ (identity = {} /\ Empty)
       THEN /\ mem' = [mem EXCEPT ![r].conn = "checked"]
            /\ UNCHANGED <<store, pc, plan, packet, stops>>
       ELSE Fail(r)

\* ... and inserts or replaces it.
Bind(r) ==
    /\ mem[r].conn = "checked" /\ pc[r] \in Step
    /\ identity' = {plan[r].identity}
    /\ mem' = [mem EXCEPT ![r].conn = "open"]
    /\ UNCHANGED <<allocated, evidence, edges, members, phases, pc, plan, packet, stops>>

\* put_phase_commitment: rejects another commitment of the phase.  The step ends
\* and the run goes on with next.
PutPhase(r, phase, commitment, next, local) ==
    IF phases[phase] \subseteq {commitment}
    THEN /\ phases' = [phases EXCEPT ![phase] = {commitment}]
         /\ Go(r, next) /\ mem' = [mem EXCEPT ![r] = local]
         /\ UNCHANGED <<identity, allocated, evidence, edges, members, plan, packet, stops>>
    ELSE Fail(r)

-----------------------------------------------------------------------------
(* The steps.                                                              *)

\* The plan of a run: its bundle, and the identity of the sources it is built from.
Start(r) ==
    /\ pc[r] = "idle" /\ Go(r, "verify")
    /\ plan' \in {[plan EXCEPT ![r] = given] : given \in Plan}
    /\ UNCHANGED <<store, mem, packet, stops>>

VerifyInputs(r) ==
    /\ pc[r] = "verify" /\ Go(r, "allocation")
    /\ UNCHANGED <<store, mem, plan, packet, stops>>

\* The allocation rows, the same for every run, in one transaction ...
PutAllocation(r) ==
    /\ Connected(r, "allocation") /\ ~ allocated
    /\ allocated' = TRUE
    /\ UNCHANGED <<identity, evidence, edges, members, phases, pc, mem, plan, packet, stops>>

\* ... and their phase in a second one.
CommitAllocation(r) ==
    /\ Connected(r, "allocation") /\ allocated
    /\ PutPhase(r, "initial_allocation", Repository, "prepared", Closing(r))

Table == [source_records |-> 1, evidence_candidates |-> 2, manual_review_dispositions |-> 3]

\* The rows of r's bundle that are still to be put.
Missing(r) == plan[r].bundle.rows \ evidence

\* put_source_record, put_evidence_candidate and put_manual_review_disposition, in
\* this order of the tables.
PutEvidence(r) ==
    /\ Connected(r, "prepared")
    /\ \E row \in Missing(r) :
          /\ \A other \in Missing(r) : Table[row.table] <= Table[other.table]
          /\ IF \E there \in evidence : there.table = row.table /\ there.key = row.key
             THEN Fail(r)
             ELSE /\ evidence' = evidence \cup {row}
                  /\ UNCHANGED <<identity, allocated, edges, members, phases, pc, mem, plan,
                                 packet, stops>>

\* Mutant: the phase is replaced, as put_allocation_repositories does with its own.
CommitEvidenceUpsert(r) ==
    /\ Connected(r, "prepared") /\ Missing(r) = {}
    /\ phases' = [phases EXCEPT !["prepared_evidence_bundle"] = {plan[r].bundle}]
    /\ Go(r, "list") /\ mem' = [mem EXCEPT ![r] = Closing(r)]
    /\ UNCHANGED <<identity, allocated, evidence, edges, members, plan, packet, stops>>

\* Mutant: the phase is committed before the rows.
CommitEvidenceFirst(r) ==
    /\ Connected(r, "prepared")
    /\ PutPhase(r, "prepared_evidence_bundle", plan[r].bundle, "list", Closing(r))

CommitEvidence(r) ==
    /\ Connected(r, "prepared") /\ Missing(r) = {}
    /\ PutPhase(r, "prepared_evidence_bundle", plan[r].bundle, "list", Closing(r))

\* ResolveCandidatesStep reads the candidates of the store, whoever put them there ...
ListCandidates(r) ==
    /\ Connected(r, "list") /\ Go(r, "resolve")
    /\ mem' = [mem EXCEPT ![r].listed = CandidatesIn(evidence)]
    /\ UNCHANGED <<store, plan, packet, stops>>

Unresolved(r) == mem[r].listed \ {e.candidate : e \in mem[r].resolved}

\* resolve_evidence_candidate accepts a disposition only where the rule asks for one.
Resolvable(rows, c) == Rule[c] # "APPROVED_REQUIRED" => VerdictsIn(rows, c) = {}

\* ... makes an edge of each and the disposition there is ...
ResolveCandidate(r) == \E c \in Unresolved(r) :
    /\ Connected(r, "resolve") /\ mem[r].edge = {}
    /\ IF Resolvable(evidence, c)
       THEN /\ mem' = [mem EXCEPT ![r].edge = {Resolve(evidence, c)}]
            /\ UNCHANGED <<store, pc, plan, packet, stops>>
       ELSE Fail(r)

\* Mutant: an edge that is there already is refused, whatever its content.
PutEdgeOnce(r) == \E e \in mem[r].edge :
    /\ Connected(r, "resolve")
    /\ IF Sourced(evidence, e.candidate) /\ e \notin edges
       THEN /\ edges' = edges \cup {e}
            /\ mem' = [mem EXCEPT ![r].edge = {}, ![r].resolved = @ \cup {e}]
            /\ UNCHANGED <<identity, allocated, evidence, members, phases, pc, plan, packet,
                           stops>>
       ELSE Fail(r)

\* ... puts it ...
PutEdge(r) == \E e \in mem[r].edge :
    /\ Connected(r, "resolve")
    /\ IF Sourced(evidence, e.candidate)
       THEN /\ edges' = edges \cup {e}
            /\ mem' = [mem EXCEPT ![r].edge = {}, ![r].resolved = @ \cup {e}]
            /\ UNCHANGED <<identity, allocated, evidence, members, phases, pc, plan, packet,
                           stops>>
       ELSE Fail(r)

\* ... and commits the edges it made.
CommitEdges(r) ==
    /\ Connected(r, "resolve") /\ Unresolved(r) = {}
    /\ PutPhase(r, "resolved_edges", mem[r].resolved, "assess", Closing(r))

\* AssessGraphReadinessStep reads the edges of the store over one connection ...
AssessReadiness(r) ==
    /\ Connected(r, "assess")
    /\ mem' = [mem EXCEPT ![r] = [Closing(r) EXCEPT
                  !.completeness = Completeness(edges, plan[r].bundle.incomplete)]]
    /\ Go(r, "readiness")
    /\ UNCHANGED <<store, plan, packet, stops>>

\* ... commits the phase over another, COMPLETE or INCOMPLETE, and blocks or not.
CommitReadiness(r) ==
    /\ Connected(r, "readiness")
    /\ PutPhase(r, "graph_readiness", mem[r].completeness,
                IF Ready(mem[r].completeness) THEN "build" ELSE "blocked", Closing(r))

\* BuildFamilyComponentsStep reads the edges of the store ...
BuildComponents(r) ==
    /\ Connected(r, "build") /\ Go(r, "components")
    /\ mem' = [mem EXCEPT ![r].components = Components(edges)]
    /\ UNCHANGED <<store, plan, packet, stops>>

\* ... puts the memberships, which rejects another stored graph ...
PutMembers(r) ==
    /\ Connected(r, "components") /\ members # mem[r].components
    /\ IF members = {}
       THEN /\ members' = mem[r].components
            /\ UNCHANGED <<identity, allocated, evidence, edges, phases, pc, mem, plan, packet,
                           stops>>
       ELSE Fail(r)

\* ... and commits them.
CommitComponents(r) ==
    /\ Connected(r, "components") /\ members = mem[r].components
    /\ PutPhase(r, "family_components", members, "analysis", Closing(r))

AnalyseCrossings(r) ==
    /\ Connected(r, "analysis")
    /\ IF EdgesWithin(edges, members)
       THEN PutPhase(r, "role_crossing_analysis", Crossings(members), "outcome",
                     [Closing(r) EXCEPT !.crossings = Crossings(members)])
       ELSE Fail(r)

DetermineOutcome(r) ==
    /\ Connected(r, "outcome")
    /\ PutPhase(r, "family_outcome", Outcome(mem[r].crossings), "packet", Closing(r))

-----------------------------------------------------------------------------
(* The review packet, built and written when the workflow completed.       *)

\* build_family_review_packet compares the store with the results of the run.
PacketAgrees(r) ==
    /\ edges = mem[r].resolved
    /\ phases["resolved_edges"] = {edges}
    /\ members = mem[r].components
    /\ phases["family_components"] = {members}
    /\ phases["graph_readiness"] = {mem[r].completeness}
    /\ phases["role_crossing_analysis"] = {mem[r].crossings}
    /\ phases["family_outcome"] = {Outcome(mem[r].crossings)}

WritePacket(r) ==
    /\ Connected(r, "packet")
    /\ IF PacketAgrees(r)
       THEN /\ packet' = [packet EXCEPT ![r] =
                  {[bundle |-> plan[r].bundle, edges |-> edges, members |-> members,
                    outcome |-> Outcome(mem[r].crossings)]}]
            /\ Go(r, "completed") /\ mem' = [mem EXCEPT ![r] = Closing(r)]
            /\ UNCHANGED <<store, plan, stops>>
       ELSE Fail(r)

Stop(r) ==
    /\ pc[r] \in Step
    /\ stops < MaxStops /\ stops' = stops + 1
    /\ Go(r, "stopped")
    /\ UNCHANGED <<store, mem, plan, packet>>

-----------------------------------------------------------------------------

Next == \E r \in Run :
    \/ Start(r) \/ VerifyInputs(r) \/ Open(r) \/ Bind(r)
    \/ PutAllocation(r) \/ CommitAllocation(r) \/ PutEvidence(r) \/ CommitEvidence(r)
    \/ ListCandidates(r) \/ ResolveCandidate(r) \/ PutEdge(r) \/ CommitEdges(r)
    \/ AssessReadiness(r) \/ CommitReadiness(r)
    \/ BuildComponents(r) \/ PutMembers(r) \/ CommitComponents(r)
    \/ AnalyseCrossings(r) \/ DetermineOutcome(r) \/ WritePacket(r) \/ Stop(r)

Spec == Init /\ [][Next]_vars

-----------------------------------------------------------------------------
(* Safety.                                                                 *)

\* The rows a phase commits to are in the store, and no run takes them away:
\* a run that stops between rows and phase leaves rows without a phase, never the
\* other way round.
PhasesHaveTheirRows ==
    /\ phases["initial_allocation"] # {} => allocated
    /\ \A b \in phases["prepared_evidence_bundle"] : b.rows \subseteq evidence
    /\ \A committed \in phases["resolved_edges"] : committed \subseteq edges
    /\ \A committed \in phases["family_components"] : members = committed

\* The packets runs wrote from one store agree, also on the bundle they name.
PacketsAgree == \A r, s \in Run : \A p \in packet[r], q \in packet[s] : p = q

\* The runs that started have one plan, with bundle b.
Replays(b) == \E given \in Plan : given.bundle = b /\ \A r \in Run : plan[r] \in {given, NoPlan}

\* The evidence of b is sourced, its reviews do not contradict each other and are of
\* candidates that need one.
Sound(b) ==
    \A c \in CandidatesIn(b.rows) :
        /\ Sourced(b.rows, c) /\ Resolvable(b.rows, c)
        /\ Cardinality(VerdictsIn(b.rows, c)) <= 1

\* Identical replay may reuse the store: a run is never refused for what other runs
\* of its bundle left there, wherever they stopped.
ReplayIsAccepted ==
    \A b \in Bundle : (Replays(b) /\ Sound(b)) => \A r \in Run : pc[r] # "failed"

\* A bundle alone decides how its runs end, and a packet shows the families its
\* evidence makes.
BundleDecides ==
    \A b \in Bundle : Replays(b) => \A r \in Run :
        /\ pc[r] = "blocked" =>
              \/ b.incomplete > 0
              \/ \E c \in CandidatesIn(b.rows) :
                    Rule[c] = "APPROVED_REQUIRED" /\ VerdictsIn(b.rows, c) = {}
        /\ \A p \in packet[r] :
              /\ b.incomplete = 0
              /\ p.members = Families(b.rows)
              /\ {e.candidate : e \in p.edges} = CandidatesIn(b.rows)

=============================================================================

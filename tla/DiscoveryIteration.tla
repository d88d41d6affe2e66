-------------------------- MODULE DiscoveryIteration -------------------------
(***************************************************************************)
(* The one iteration of Option C0 discovery (run_discovery_iteration in    *)
(* experiments/option_c0_discovery_runner.py): it verifies the candidate   *)
(* registry, embeds the visible rows, evaluates the queries, and publishes *)
(* a directory with the result and a copy of the registry.  Composes the   *)
(* registry, which others may append to meanwhile, and the embedding.      *)
(***************************************************************************)
EXTENDS CandidateRegistry, EmbeddingRecovery

CONSTANTS
    Plan,   \* candidate versions of the plan
    Output  \* output directories

ASSUME IterationAssumption == Plan \subseteq Candidate /\ Plan # {}

VARIABLES
    iteration, \* per worker: the run of the iteration, none or one
    output     \* the result in each output directory, none or one

iterationVars == <<registryVars, recoveryVars, iteration, output>>

\* Only these entrypoints install the corrected diagnostics (recovery.main and
\* canonical.main call diagnostic_entrypoint.main); discovery_entrypoint.main
\* leaves the runner's own, which raises when the first query is evaluated.
Entrypoint == {"discovery", "diagnostic", "recovery", "canonical_recovery"}
PolicyOf(entrypoint) ==
    CASE entrypoint = "recovery" -> "packed"
      [] entrypoint = "canonical_recovery" -> "canonical"
      [] OTHER -> "direct"
Adapted(entrypoint) == entrypoint # "discovery"

IterationTypeOK ==
    /\ RegistryTypeOK /\ RecoveryTypeOK
    /\ \A w \in Worker :
          /\ Cardinality(iteration[w]) <= 1
          /\ \A i \in iteration[w] :
                /\ i.output \in Output /\ i.entrypoint \in Entrypoint
                /\ i.verified \in Seq(Entry) /\ i.hashed \subseteq Seq(Entry)
                /\ Cardinality(i.hashed) <= 1
          /\ iteration[w] = {} <=> stage[w] = "idle"
    /\ \A o \in Output : Cardinality(output[o]) <= 1

IterationInit ==
    /\ RegistryInit /\ RecoveryInit
    /\ iteration = [w \in Worker |-> {}]
    /\ output = [o \in Output |-> {}]

-----------------------------------------------------------------------------

\* Mutant: the registry may hold more than registrations of the plan.
VerifiedRegistrationsLoose(entries) == \A k \in Plan : Registered(entries, k)

\* verify_registered_candidates: the registry holds one registration of each
\* candidate of the plan and nothing else.
VerifiedRegistrations(entries) ==
    /\ Len(entries) = Cardinality(Plan)
    /\ \A i \in DOMAIN entries : entries[i].event = "REGISTERED"
    /\ {entries[i].about : i \in DOMAIN entries} = Plan

\* The checks at the start; the visible rows and their partition follow from
\* files that are verified and do not change.
BeginIteration(w, o, entrypoint, under) ==
    /\ output[o] = {}
    /\ VerifiedRegistrations(registry)
    /\ StartEmbedding(w, PolicyOf(entrypoint), under)
    /\ iteration' = [iteration EXCEPT ![w] =
          {[output |-> o, entrypoint |-> entrypoint, verified |-> registry, hashed |-> {}]}]
    /\ UNCHANGED <<registryVars, output>>

Embedding(w) ==
    /\ EmbeddingStep(w)
    /\ iteration' = [iteration EXCEPT ![w] = IF stage'[w] = "idle" THEN {} ELSE @]
    /\ UNCHANGED <<registryVars, output>>

EndRun(w) ==
    /\ Release(w)
    /\ iteration' = [iteration EXCEPT ![w] = {}]
    /\ UNCHANGED <<cache, mixed>>

\* The queries are evaluated and the digest of the registry is taken, as it is
\* by then; without the adapter the first query raises.
EvaluateQueries(w) ==
    /\ stage[w] = "embedded"
    /\ \E i \in iteration[w] :
          /\ i.hashed = {}
          /\ IF Adapted(i.entrypoint)
             THEN /\ iteration' = [iteration EXCEPT ![w] = {[i EXCEPT !.hashed = {registry}]}]
                  /\ UNCHANGED <<stage, job, part, asked, held, cache, mixed>>
             ELSE EndRun(w)
    /\ UNCHANGED <<registryVars, faults, output>>

\* The registry is copied and the directory put in place; os.replace raises if
\* another run has made one.
PublishResult(w) ==
    /\ \E i \in iteration[w] : \E hash \in i.hashed :
          output' = IF output[i.output] # {} THEN output
                    ELSE [output EXCEPT ![i.output] =
                            {[verified |-> i.verified, hash |-> hash, copy |-> registry]}]
    /\ EndRun(w)
    /\ UNCHANGED <<registryVars, faults>>

\* The run dies or raises: the temporary directory is not the output.
IterationFails(w) ==
    /\ \/ EmbeddingFails(w)
       \/ /\ stage[w] = "embedded" /\ faults < MaxFaults /\ faults' = faults + 1
          /\ Release(w) /\ UNCHANGED <<cache, mixed>>
    /\ iteration' = [iteration EXCEPT ![w] = {}]
    /\ UNCHANGED <<registryVars, output>>

WorkerStep(w) == Embedding(w) \/ EvaluateQueries(w) \/ PublishResult(w)

IterationNext ==
    \/ \E w \in Worker :
          \/ \E o \in Output, e \in Entrypoint, under \in Job : BeginIteration(w, o, e, under)
          \/ WorkerStep(w)
          \/ IterationFails(w)
    \/ RegistryNext /\ UNCHANGED <<recoveryVars, iteration, output>>
    \/ /\ \E fp \in Fingerprint, r \in Row : DamageCache(fp, r)
       /\ UNCHANGED <<registryVars, iteration, output>>

IterationSpec == IterationInit /\ [][IterationNext]_iterationVars

-----------------------------------------------------------------------------

\* The registry of a result was verified long before its digest is taken, and
\* copied after that.  Unless two appends overlapped, what is published is the
\* verified registry with only later entries: the verified one is the beginning
\* of the one whose digest the result names, and this of the copy.
ResultRegistryContinues ==
    "registry" \notin overlapped =>
        \A o \in Output : \A result \in output[o] :
            IsPrefix(result.verified, result.hash) /\ IsPrefix(result.hash, result.copy)

\* Before the first iteration nothing is evaluated: whatever is published,
\* its run began on a registry of registrations of the plan only, so no version
\* outside the plan precedes the last of the plan's, and no evaluation either.
PlanIsRegisteredFirst ==
    "registry" \notin overlapped =>
        \A o \in Output : \A result \in output[o] :
            /\ {registry[i].about : i \in 1..Cardinality(Plan)} = Plan
            /\ \A i \in 1..Cardinality(Plan) : registry[i].event = "REGISTERED"

=============================================================================

-------------------------- MODULE EmbeddingRecovery --------------------------
(***************************************************************************)
(* Embedding the visible rows of Option C0 through a cache that survives   *)
(* the process (experiments/option_c0_embedding_cache.py, the recovery     *)
(* entrypoint, the canonical recovery entrypoint and the discovery         *)
(* entrypoint).                                                            *)
(*                                                                         *)
(* What the backend computes for a row is taken to depend on the whole     *)
(* batch it is in.  A batch is one transaction of the cache: the first put *)
(* of it keeps other writers out, and readers see it committed or not at   *)
(* all.  An exception leaves the batch, and close() commits what was put   *)
(* of it.  The matrix of a partition is kept as the vectors of its rows.   *)
(***************************************************************************)
EXTENDS Integers, Sequences, FiniteSets, SequencesExt, FiniteSetsExt

CONSTANTS
    Worker,         \* processes that embed
    Partitions,     \* fit_model, fit_calibration, iteration: sequences of rows
    Identities,     \* embedding identity files
    SourceIdentity, \* digest of the source identity file
    BatchSize,      \* embedding_batch_size of the plan
    MaxFaults       \* bound on deaths, exceptions and damaged cache rows

Row == UNION {ToSet(Partitions[p]) : p \in DOMAIN Partitions}
Device == {"cpu", "cuda"}

\* Which embed function the entrypoint installs: the discovery entrypoint's own,
\* embed_partition_with_cache or embed_partition_in_canonical_batches.
Policy == {"direct", "packed", "canonical"}

ASSUME RecoveryAssumption ==
    /\ Len(Partitions) = 3 /\ DOMAIN Partitions = 1..3
    /\ \A p \in 1..3 : Partitions[p] \in Seq(Row) /\ Partitions[p] # <<>>
    /\ \A p, q \in 1..3 : \A i \in DOMAIN Partitions[p], j \in DOMAIN Partitions[q] :
          Partitions[p][i] = Partitions[q][j] => p = q /\ i = j
    /\ BatchSize \in Nat \ {0} /\ MaxFaults \in Nat

\* verify_identity_pair: model and dataset of both identities are the same, and
\* the device and the batch size are those the embedding identity certifies.
VerifiedPair(identity, device) ==
    /\ identity.complete /\ identity.predecessor = SourceIdentity
    /\ IF device = "cuda"
       THEN identity.variant = "gpu-fixed-batch10-amendment-v1" /\ identity.frozen = BatchSize
       ELSE identity.canonicalDevice = "cpu" /\ BatchSize \in identity.invariant

Job == [identity : Identities, device : Device]
Fingerprint == Job

\* Mutant: the key of the cache does not tell identities and devices apart.
OneFingerprint(job) == CHOOSE fp \in Fingerprint : TRUE

\* embedding_fingerprint: which entrypoint fills the cache is not part of it.
FingerprintOf(job) == job

Vector == [job : Job, row : Row, batch : Seq(Row)]

\* A vector whose bytes do not have the digest kept with them.
Damaged(v) == [v EXCEPT !.batch = <<>>]
Intact(v) == v.batch # <<>>

VARIABLES
    cache,  \* per fingerprint and row: the vector kept, none or one
    stage,  \* per worker: what it does next
    job,    \* per worker: policy, identity and device of its run, none or one
    part,   \* per worker: the partition at hand
    asked,  \* per worker: rows of it that the cache was asked for
    held,   \* per worker and row: the vector assembled so far, none or one
    mixed,  \* history: fingerprints that embed_partition_with_cache has put to
    faults

recoveryVars == <<cache, stage, job, part, asked, held, mixed, faults>>

Stage == {"idle", "lookup", "embed", "embedded"}
Nothing == [r \in Row |-> {}]

RecoveryTypeOK ==
    /\ DOMAIN cache = Fingerprint
    /\ \A fp \in Fingerprint, r \in Row :
          /\ cache[fp][r] \subseteq Vector /\ Cardinality(cache[fp][r]) <= 1
    /\ stage \in [Worker -> Stage]
    /\ \A w \in Worker :
          /\ Cardinality(job[w]) <= 1
          /\ job[w] \subseteq [policy : Policy, under : Job]
          /\ stage[w] = "idle" <=> job[w] = {}
    /\ part \in [Worker -> 1..3]
    /\ \A w \in Worker : asked[w] \in 0..(Len(Partitions[part[w]]) - 1)
    /\ \A w \in Worker, r \in Row : held[w][r] \subseteq Vector /\ Cardinality(held[w][r]) <= 1
    /\ mixed \subseteq Fingerprint
    /\ faults \in 0..MaxFaults

RecoveryInit ==
    /\ cache = [fp \in Fingerprint |-> Nothing]
    /\ stage = [w \in Worker |-> "idle"]
    /\ job = [w \in Worker |-> {}]
    /\ part = [w \in Worker |-> 1]
    /\ asked = [w \in Worker |-> 0]
    /\ held = [w \in Worker |-> Nothing]
    /\ mixed = {} /\ faults = 0

-----------------------------------------------------------------------------
(* Batches.                                                                *)

Rows(p) == Partitions[p]
Least(a, b) == IF a < b THEN a ELSE b

\* The batch from position s on, and its padded form: the last code is repeated.
BatchFrom(rows, s) == SubSeq(rows, s, Least(s + BatchSize - 1, Len(rows)))
Padded(batch) == [i \in 1..BatchSize |-> batch[Least(i, Len(batch))]]

Embed(under, batch, r) == [job |-> under, row |-> r, batch |-> Padded(batch)]

\* The batches of fixed_batch_embed: the frozen ones.
FrozenBatches(p) ==
    [k \in 1..((Len(Rows(p)) + BatchSize - 1) \div BatchSize) |->
        BatchFrom(Rows(p), (k - 1) * BatchSize + 1)]

\* What an uninterrupted run without a cache computes.
Canonical(under) ==
    [r \in Row |->
        LET p == CHOOSE q \in 1..3 : r \in ToSet(Rows(q))
            k == CHOOSE j \in DOMAIN FrozenBatches(p) : r \in ToSet(FrozenBatches(p)[j])
        IN  {Embed(under, FrozenBatches(p)[k], r)}]

-----------------------------------------------------------------------------

\* The identity pair is verified; a run with a cache registers its fingerprint.
StartEmbedding(w, policy, under) ==
    /\ stage[w] = "idle"
    /\ VerifiedPair(under.identity, under.device)
    /\ job' = [job EXCEPT ![w] = {[policy |-> policy, under |-> under]}]
    /\ part' = [part EXCEPT ![w] = 1]
    /\ stage' = [stage EXCEPT ![w] = "lookup"]
    /\ UNCHANGED <<cache, asked, held, mixed, faults>>

Get(fp, r) == {v \in cache[fp][r] : Intact(v)}

\* fixed_batch_embed starts from nothing ...
StartDirect(w) ==
    /\ stage[w] = "lookup" /\ \E j \in job[w] : j.policy = "direct"
    /\ stage' = [stage EXCEPT ![w] = "embed"]
    /\ UNCHANGED <<cache, job, part, asked, held, mixed, faults>>

\* ... the others ask the cache for the rows of the partition, one after the other,
\* while another run may commit; a damaged row is a miss.
LookUp(w) ==
    /\ stage[w] = "lookup"
    /\ \E j \in job[w], i \in DOMAIN Rows(part[w]) :
          /\ j.policy # "direct" /\ i = asked[w] + 1
          /\ held' = [held EXCEPT ![w] = [r \in Row |->
                IF r = Rows(part[w])[i] THEN Get(FingerprintOf(j.under), r) ELSE @[r]]]
          /\ IF i < Len(Rows(part[w]))
             THEN asked' = [asked EXCEPT ![w] = i] /\ UNCHANGED stage
             ELSE asked' = [asked EXCEPT ![w] = 0] /\ stage' = [stage EXCEPT ![w] = "embed"]
    /\ UNCHANGED <<cache, job, part, mixed, faults>>

Missing(w) == SelectSeq(Rows(part[w]), LAMBDA r : held[w][r] = {})

\* Every row of the partition has its vector.
Complete(w) == \A i \in DOMAIN Rows(part[w]) : held[w][Rows(part[w])[i]] # {}

\* The vectors of the rows S, computed in a batch, are put and committed; a row
\* that is in the cache is updated.
Put(fp, S, under, batch) ==
    cache' = [cache EXCEPT ![fp] = [r \in Row |->
        IF r \in S THEN {Embed(under, batch, r)} ELSE @[r]]]

Hold(w, S, under, batch) ==
    held' = [held EXCEPT ![w] = [r \in Row |->
        IF r \in S THEN {Embed(under, batch, r)} ELSE @[r]]]

\* The first frozen batch in which a row is missing.
NextFrozen(w) ==
    LET batches == FrozenBatches(part[w])
    IN  batches[Min({k \in DOMAIN batches : \E r \in ToSet(batches[k]) : held[w][r] = {}})]

\* fixed_batch_embed, next batch.
EmbedDirect(w) ==
    /\ stage[w] = "embed" /\ ~ Complete(w)
    /\ \E j \in job[w] :
          /\ j.policy = "direct"
          /\ Hold(w, ToSet(NextFrozen(w)), j.under, NextFrozen(w))
    /\ UNCHANGED <<cache, stage, job, part, asked, mixed, faults>>

\* embed_partition_with_cache, next batch: of the missing rows.
EmbedPacked(w) ==
    /\ stage[w] = "embed" /\ ~ Complete(w)
    /\ \E j \in job[w] : LET batch == BatchFrom(Missing(w), 1) IN
          /\ j.policy = "packed"
          /\ Put(FingerprintOf(j.under), ToSet(batch), j.under, batch)
          /\ Hold(w, ToSet(batch), j.under, batch)
          /\ mixed' = mixed \cup {FingerprintOf(j.under)}
    /\ UNCHANGED <<stage, job, part, asked, faults>>

Release(w) ==
    /\ stage' = [stage EXCEPT ![w] = "idle"]
    /\ job' = [job EXCEPT ![w] = {}]
    /\ part' = [part EXCEPT ![w] = 1]
    /\ asked' = [asked EXCEPT ![w] = 0]
    /\ held' = [held EXCEPT ![w] = Nothing]

\* Positions of a batch whose cached vector is not the one just computed.
Disagreeing(w, under, batch) ==
    {i \in DOMAIN batch : held[w][batch[i]] \notin {{}, {Embed(under, batch, batch[i])}}}

\* Mutant: only the missing rows of the batch are computed.
EmbedCanonicalMissing(w) ==
    /\ stage[w] = "embed" /\ ~ Complete(w)
    /\ \E j \in job[w] :
          LET missing == {r \in ToSet(NextFrozen(w)) : held[w][r] = {}}
              batch == SelectSeq(NextFrozen(w), LAMBDA r : r \in missing)
          IN  /\ j.policy = "canonical"
              /\ Put(FingerprintOf(j.under), missing, j.under, batch)
              /\ Hold(w, missing, j.under, batch)
    /\ UNCHANGED <<stage, job, part, asked, mixed, faults>>

\* embed_partition_in_canonical_batches, next batch that is not all cached: it is
\* computed whole, its missing rows are put, and a cached row that disagrees ends
\* the run; the rows before it have been put by then.
EmbedCanonical(w) ==
    /\ stage[w] = "embed" /\ ~ Complete(w)
    /\ \E j \in job[w] :
          LET batch == NextFrozen(w)
              fp == FingerprintOf(j.under)
              missing == {i \in DOMAIN batch : held[w][batch[i]] = {}}
              bad == Disagreeing(w, j.under, batch)
          IN  /\ j.policy = "canonical"
              /\ IF bad = {}
                 THEN /\ Put(fp, {batch[i] : i \in missing}, j.under, batch)
                      /\ Hold(w, {batch[i] : i \in missing}, j.under, batch)
                      /\ UNCHANGED <<stage, job, part, asked>>
                 ELSE /\ Put(fp, {batch[i] : i \in {k \in missing : k < Min(bad)}},
                             j.under, batch)
                      /\ Release(w)
    /\ UNCHANGED <<mixed, faults>>

\* The matrix of the partition is assembled.
FinishPartition(w) ==
    /\ stage[w] = "embed" /\ Complete(w)
    /\ IF part[w] < 3
       THEN /\ part' = [part EXCEPT ![w] = @ + 1]
            /\ stage' = [stage EXCEPT ![w] = "lookup"]
       ELSE /\ stage' = [stage EXCEPT ![w] = "embedded"]
            /\ UNCHANGED part
    /\ UNCHANGED <<cache, job, asked, held, mixed, faults>>

EmbeddingStep(w) ==
    \/ StartDirect(w) \/ LookUp(w) \/ EmbedDirect(w) \/ EmbedPacked(w) \/ EmbedCanonical(w)
    \/ FinishPartition(w)

\* An exception between the puts of a batch, or before its commit: close() commits
\* the rows that were put.
PutPart(w) ==
    /\ stage[w] = "embed" /\ ~ Complete(w)
    /\ \E j \in job[w] :
          LET packed == j.policy = "packed"
              batch == IF packed THEN BatchFrom(Missing(w), 1) ELSE NextFrozen(w)
              missing == {i \in DOMAIN batch : held[w][batch[i]] = {}}
              bad == Disagreeing(w, j.under, batch)
          IN  /\ j.policy # "direct"
              /\ \E last \in missing :
                    /\ \A i \in bad : last < i
                    /\ Put(FingerprintOf(j.under),
                           {batch[i] : i \in {k \in missing : k <= last}}, j.under, batch)
              /\ mixed' = mixed \cup (IF packed THEN {FingerprintOf(j.under)} ELSE {})

\* The process dies, the backend fails, or the cache is locked by the other
\* process for too long, and nothing is pending; or a part of a batch is.
EmbeddingFails(w) ==
    /\ stage[w] \in {"lookup", "embed"} /\ faults < MaxFaults
    /\ faults' = faults + 1
    /\ Release(w)
    /\ PutPart(w) \/ UNCHANGED <<cache, mixed>>

\* A vector in the cache is damaged.
DamageCache(fp, r) ==
    /\ faults < MaxFaults /\ faults' = faults + 1
    /\ \E v \in Get(fp, r) : cache' = [cache EXCEPT ![fp][r] = {Damaged(v)}]
    /\ UNCHANGED <<stage, job, part, asked, held, mixed>>

-----------------------------------------------------------------------------

\* Whatever the cache went through, a finished matrix has for every row a vector
\* that was computed for this row under the identity and device of the run.
RowsKeepTheirIdentity ==
    \A w \in Worker : \A j \in job[w] :
        stage[w] = "embedded" =>
            \A r \in Row : \E v \in held[w][r] : v.job = j.under /\ v.row = r

\* A run that keeps the frozen batches ends with the matrix an uninterrupted run
\* without a cache computes - after crashes, with damaged rows and with another
\* run filling the same cache - if embed_partition_with_cache never put to it.
FrozenBatchesSurvive ==
    \A w \in Worker : \A j \in job[w] :
        /\ stage[w] = "embedded" /\ j.policy # "packed"
        /\ FingerprintOf(j.under) \notin mixed \/ j.policy = "direct"
        => held[w] = Canonical(j.under)

\* "Preserve frozen batch composition while resuming Option C0 embeddings"
\* (option_c0_canonical_recovery_entrypoint.py:1): every run of that entrypoint
\* that ends has the vectors of the frozen batches.
CanonicalRunsAreFrozen ==
    \A w \in Worker : \A j \in job[w] :
        stage[w] = "embedded" /\ j.policy = "canonical" =>
            held[w] = Canonical(j.under)

=============================================================================

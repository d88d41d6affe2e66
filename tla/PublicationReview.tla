------------------------- MODULE PublicationReview --------------------------
(***************************************************************************)
(* The evidence review of one-shot publication attempts                    *)
(* (relate/family/canonical_publication_review.py) running beside the      *)
(* executor of CanonicalPublication: inspection of an attempt's evidence,  *)
(* the review report, the closure disposition and the closure bundle.      *)
(*                                                                         *)
(* Inspections read the evidence files one after the other while attempts  *)
(* may still be writing them and other inspections are under way.  A file  *)
(* is read as a whole, since atomic_write_json replaces it as a whole, and *)
(* read again for its digest.  Reports and bundles are files that stay: a  *)
(* disposition can be made from any report that was ever written, however  *)
(* old it is.                                                              *)
(***************************************************************************)
EXTENDS CanonicalPublication

CONSTANTS
    Inspector,  \* the reviewers, each doing one inspection at a time
    NoDir,      \* what an inspector inspects that is idle
    MaxBundles  \* bound on the closure bundles written for one request

ASSUME ReviewAssumption == NoDir \notin AuditDir /\ MaxBundles \in Nat

VARIABLES
    rstep,    \* next step of each inspector
    rdir,     \* the audit directory it inspects
    seen,     \* the evidence it has read so far
    reports,  \* terminal statuses of the reports written for each directory
    closures  \* dispositions of the closure bundles written for each directory

reviewVars == <<rstep, rdir, seen, reports, closures>>
allVars == <<vars, reviewVars>>

Verdicts == {"VALID_COMPLETED", "VALID_FAILED_BEFORE_CANONICAL_CREATION",
             "VALID_CANONICAL_FILE_CREATED_AUDIT_FAILED", "INCOMPLETE_TERMINAL_EVIDENCE"}
Raises == "raises"  \* the inspection raises and no report is written

Dispositions == {"CLOSE_COMPLETED_CANONICAL_PUBLICATION",
                 "CLOSE_FAILED_PUBLICATION_WITHOUT_CANONICAL_ARTIFACT",
                 "ACKNOWLEDGE_CANONICAL_ARTIFACT_WITH_INCOMPLETE_AUDIT_FINALIZATION",
                 "WITHHOLD_CANONICAL_PUBLICATION_CLOSURE"}

\* digest: the trace whose digest was taken.
Evidence == [files : SUBSET EvidenceFile, trace : Trace, digest : Trace, sealed : Trace,
             failure : Failure]
NothingSeen == [files |-> {}, trace |-> [events |-> 0, failed |-> FALSE],
                digest |-> [events |-> 0, failed |-> FALSE],
                sealed |-> [events |-> 0, failed |-> FALSE],
                failure |-> [claimed |-> FALSE, created |-> FALSE]]

ReviewTypeOK ==
    /\ rstep \in [Inspector -> {"idle", "claim", "trace", "digest", "receipt", "failure",
                                "destination"}]
    /\ rdir \in [Inspector -> AuditDir \cup {NoDir}]
    /\ seen \in [Inspector -> Evidence]
    /\ reports \in [AuditDir -> SUBSET Verdicts]
    /\ closures \in [AuditDir -> SUBSET Dispositions]

ReviewInit ==
    /\ Init
    /\ rstep = [i \in Inspector |-> "idle"]
    /\ rdir = [i \in Inspector |-> NoDir]
    /\ seen = [i \in Inspector |-> NothingSeen]
    /\ reports = [d \in AuditDir |-> {}]
    /\ closures = [d \in AuditDir |-> {}]

-----------------------------------------------------------------------------
(* What a reviewer concludes from the evidence o it read and the bytes it  *)
(* found at the destination.                                               *)

Has(o, name) == name \in o.files

\* _validate_trace_sequence of a completed attempt.
CompletedTrace(t) == ~ t.failed /\ t.events = CompletedEvents

\* Mutant: creation events of a failed trace are not checked.
FailedTraceAnyPrefix(t, f) ==
    /\ t.failed
    /\ f.claimed <=> t.events >= 1

\* _validate_trace_sequence of a failed one: it must agree with the failure
\* record on the claim and on the creation of the canonical file.
FailedTrace(t, f) ==
    /\ t.failed
    /\ f.claimed <=> t.events >= 1
    /\ f.created <=> t.events >= CreatedEvent

Admissible(o, bytes) ==
    /\ ~ (Has(o, "receipt") /\ Has(o, "failure"))
    /\ bytes \in {NoBytes, Exact}

ReceiptHolds(o, bytes) ==
    /\ {"claim", "trace"} \subseteq o.files
    /\ o.sealed = o.digest
    /\ bytes # NoBytes
    /\ CompletedTrace(o.trace)

FailureHolds(o, bytes) ==
    /\ o.failure.claimed => Has(o, "claim")
    /\ o.failure.created <=> bytes # NoBytes
    /\ Has(o, "trace") => FailedTrace(o.trace, o.failure)

FailureVerdict(o) ==
    IF ~ Has(o, "trace") THEN "INCOMPLETE_TERMINAL_EVIDENCE"
    ELSE IF o.failure.created THEN "VALID_CANONICAL_FILE_CREATED_AUDIT_FAILED"
    ELSE "VALID_FAILED_BEFORE_CANONICAL_CREATION"

\* Mutant: a failure record takes precedence over a receipt, no conflict.
VerdictFailureWins(o, bytes) ==
    CASE bytes \notin {NoBytes, Exact} -> Raises
      [] bytes \in {NoBytes, Exact} /\ Has(o, "failure") ->
            IF FailureHolds(o, bytes) THEN FailureVerdict(o) ELSE Raises
      [] bytes \in {NoBytes, Exact} /\ ~ Has(o, "failure") /\ Has(o, "receipt") ->
            IF ReceiptHolds(o, bytes) THEN "VALID_COMPLETED" ELSE Raises
      [] OTHER ->
            IF Has(o, "claim") THEN "INCOMPLETE_TERMINAL_EVIDENCE" ELSE Raises

Verdict(o, bytes) ==
    CASE ~ Admissible(o, bytes) -> Raises
      [] Admissible(o, bytes) /\ Has(o, "receipt") ->
            IF ReceiptHolds(o, bytes) THEN "VALID_COMPLETED" ELSE Raises
      [] Admissible(o, bytes) /\ Has(o, "failure") ->
            IF FailureHolds(o, bytes) THEN FailureVerdict(o) ELSE Raises
      [] OTHER ->
            IF Has(o, "claim") THEN "INCOMPLETE_TERMINAL_EVIDENCE" ELSE Raises

\* The record chain is reviewable: the candidate file is the bound one and the
\* authorization of the request is not a withheld one.
ChainHolds(d) ==
    /\ candidate = Exact
    /\ \E a \in Authorized : WorkDir[a] = d

\* The evidence of directory d as it is on disk.
OnDisk(d) == [files |-> files[d], trace |-> trace[d], digest |-> trace[d],
              sealed |-> sealed[d], failure |-> failure[d]]

\* The verdict an inspection of d would reach if nothing moved under it.
CurrentVerdict(d) == IF ChainHolds(d) THEN Verdict(OnDisk(d), dest) ELSE Raises

-----------------------------------------------------------------------------
(* The inspection.                                                         *)

StartInspection(i, d) ==
    /\ rstep[i] = "idle"
    /\ ChainHolds(d)
    /\ rstep' = [rstep EXCEPT ![i] = "claim"]
    /\ rdir' = [rdir EXCEPT ![i] = d]
    /\ UNCHANGED <<vars, seen, reports, closures>>

\* What an inspector that has seen o knows after reading the file of directory d:
\* that it is absent, or its content as a whole.
Reading(o, name, d) ==
    IF name \notin files[d] THEN o
    ELSE [o EXCEPT !.files = @ \cup {name},
                   !.trace = IF name = "trace" THEN trace[d] ELSE @,
                   !.sealed = IF name = "receipt" THEN sealed[d] ELSE @,
                   !.failure = IF name = "failure" THEN failure[d] ELSE @]

\* _load_optional_json of one evidence file: its text.
Load(i, name, next) ==
    /\ rstep[i] = name
    /\ rstep' = [rstep EXCEPT ![i] = next]
    /\ seen' = [seen EXCEPT ![i] = Reading(@, name, rdir[i])]
    /\ UNCHANGED <<vars, rdir, reports, closures>>

LoadClaim(i) == Load(i, "claim", "trace")
LoadTrace(i) == Load(i, "trace", "digest")
LoadReceipt(i) == Load(i, "receipt", "failure")
LoadFailure(i) == Load(i, "failure", "destination")

\* _load_optional_json takes the digest of a file it found by a second read, after
\* the file may have been replaced.  Only that of the trace is compared with anything;
\* those of the other files are copied into the report.
HashTrace(i) ==
    /\ rstep[i] = "digest"
    /\ rstep' = [rstep EXCEPT ![i] = "receipt"]
    /\ seen' = [seen EXCEPT ![i].digest = IF Has(seen[i], "trace") THEN trace[rdir[i]] ELSE @]
    /\ UNCHANGED <<vars, rdir, reports, closures>>

Conclude(i) ==
    /\ rstep[i] = "destination"
    /\ rstep' = [rstep EXCEPT ![i] = "idle"]
    /\ rdir' = [rdir EXCEPT ![i] = NoDir]
    /\ seen' = [seen EXCEPT ![i] = NothingSeen]
    /\ UNCHANGED <<vars, closures>>

\* The destination is read last; the report is written unless the inspection
\* raised.
InspectArtifact(i) ==
    /\ Conclude(i)
    /\ LET verdict == Verdict(seen[i], dest) IN
           reports' = IF verdict = Raises THEN reports
                      ELSE [reports EXCEPT ![rdir[i]] = @ \cup {verdict}]

-----------------------------------------------------------------------------
(* Closure.                                                                *)

\* Mutant: incomplete evidence may be acknowledged too.
EligibleIncomplete(verdict, disposition) ==
    \/ disposition = "WITHHOLD_CANONICAL_PUBLICATION_CLOSURE"
    \/ /\ disposition = "CLOSE_COMPLETED_CANONICAL_PUBLICATION"
       /\ verdict = "VALID_COMPLETED"
    \/ /\ disposition = "CLOSE_FAILED_PUBLICATION_WITHOUT_CANONICAL_ARTIFACT"
       /\ verdict = "VALID_FAILED_BEFORE_CANONICAL_CREATION"
    \/ /\ disposition = "ACKNOWLEDGE_CANONICAL_ARTIFACT_WITH_INCOMPLETE_AUDIT_FINALIZATION"
       /\ verdict \in {"VALID_CANONICAL_FILE_CREATED_AUDIT_FAILED",
                        "INCOMPLETE_TERMINAL_EVIDENCE"}

\* _disposition_is_eligible over _closure_eligibility.
Eligible(verdict, disposition) ==
    \/ disposition = "WITHHOLD_CANONICAL_PUBLICATION_CLOSURE"
    \/ /\ disposition = "CLOSE_COMPLETED_CANONICAL_PUBLICATION"
       /\ verdict = "VALID_COMPLETED"
    \/ /\ disposition = "CLOSE_FAILED_PUBLICATION_WITHOUT_CANONICAL_ARTIFACT"
       /\ verdict = "VALID_FAILED_BEFORE_CANONICAL_CREATION"
    \/ /\ disposition = "ACKNOWLEDGE_CANONICAL_ARTIFACT_WITH_INCOMPLETE_AUDIT_FINALIZATION"
       /\ verdict = "VALID_CANONICAL_FILE_CREATED_AUDIT_FAILED"

\* A disposition is made for a report and bundled with it in a new file
\* (refuse_overwrite); at most MaxBundles files per request.
Close(d) ==
    /\ Cardinality(closures[d]) < MaxBundles
    /\ \E verdict \in reports[d], disposition \in Dispositions :
          /\ Eligible(verdict, disposition)
          /\ closures' = [closures EXCEPT ![d] = @ \cup {disposition}]
    /\ UNCHANGED <<vars, rstep, rdir, seen, reports>>

-----------------------------------------------------------------------------

ReviewNext ==
    \/ Next /\ UNCHANGED reviewVars
    \/ \E i \in Inspector, d \in AuditDir : StartInspection(i, d)
    \/ \E i \in Inspector :
          \/ LoadClaim(i) \/ LoadTrace(i) \/ HashTrace(i) \/ LoadReceipt(i)
          \/ LoadFailure(i) \/ InspectArtifact(i)
    \/ \E d \in AuditDir : Close(d)

ReviewSpec == ReviewInit /\ [][ReviewNext]_allVars

-----------------------------------------------------------------------------
(* Safety of the review.                                                   *)

\* Some attempt of the request that names d created the canonical file.
Created(d) == \E a \in linked : WorkDir[a] = d

\* A report of VALID_COMPLETED stays true: that request published, and the
\* canonical file has the authorized bytes, however the inspection interleaved
\* with the writers.
CompletedReportIsSound ==
    \A d \in AuditDir : "VALID_COMPLETED" \in reports[d] => Created(d) /\ dest = Exact

\* A report that an attempt failed before canonical creation is final: the
\* request never creates the canonical file, neither before nor after it.
FailedReportIsFinal ==
    \A d \in AuditDir :
        "VALID_FAILED_BEFORE_CANONICAL_CREATION" \in reports[d] => ~ Created(d)

\* A report of partial success names the request that really created the file.
\* The failure record alone would not do: an attempt that lost the race to the
\* destination records canonical_file_created too.
PartialReportIsSound ==
    \A d \in AuditDir :
        "VALID_CANONICAL_FILE_CREATED_AUDIT_FAILED" \in reports[d] => Created(d) /\ dest = Exact

\* Conclusive reports of one request never contradict each other, whenever they
\* were taken.
ReportsAgree ==
    \A d \in AuditDir :
        \A v, w \in reports[d] \ {"INCOMPLETE_TERMINAL_EVIDENCE"} : v = w

\* One canonical artifact is closed for one request only.
ArtifactClosedOnce ==
    \A d, e \in AuditDir :
        (\E x \in closures[d], y \in closures[e] :
            {x, y} \subseteq {"CLOSE_COMPLETED_CANONICAL_PUBLICATION",
                "ACKNOWLEDGE_CANONICAL_ARTIFACT_WITH_INCOMPLETE_AUDIT_FINALIZATION"})
        => d = e

\* Whoever was once reported VALID_COMPLETED stays so: an inspection of the
\* evidence at any later time reaches the same status or raises, whatever an
\* except branch added after the receipt.
CompletedVerdictIsStable ==
    \A d \in AuditDir :
        "VALID_COMPLETED" \in reports[d] => CurrentVerdict(d) \in {"VALID_COMPLETED", Raises}

=============================================================================

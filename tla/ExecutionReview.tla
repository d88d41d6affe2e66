--------------------------- MODULE ExecutionReview ---------------------------
(***************************************************************************)
(* The review of staged execution evidence                                 *)
(* (relate/family/execution_review.py) beside the executor of              *)
(* FamilyExecution: inspection, report and disposition.  An inspection     *)
(* reads the evidence files one after the other while attempts may be      *)
(* writing them.  Reports and review bundles are files that stay.          *)
(***************************************************************************)
EXTENDS FamilyExecution

CONSTANTS
    Inspector,  \* the reviewers, each doing one inspection at a time
    NoDir       \* what an idle inspector inspects

ASSUME ReviewAssumption == NoDir \notin StagingDir

VARIABLES
    rstep,        \* next step of each inspector
    rdir,         \* the staging directory it inspects
    seen,         \* the evidence it has read so far
    reports,      \* terminal statuses reported for each directory
    dispositions  \* dispositions bundled with a report of each directory

reviewVars == <<rstep, rdir, seen, reports, dispositions>>
allVars == <<vars, reviewVars>>

Verdicts == {"VALID_COMPLETED", "VALID_BLOCKED", "VALID_FAILED",
             "FAILED_BEFORE_CLAIM_PERSISTED"}
Raises == "raises"  \* the inspection raises and no report is written

Accept == "ACCEPT_EXECUTION_EVIDENCE_FOR_PUBLICATION_AUTHORIZATION_REVIEW"
Dispositions == {Accept, "WITHHOLD_EXECUTION_EVIDENCE"}

Evidence == [files : SUBSET EvidenceFile, packet : BOOLEAN, receipt : Receipt, trace : Trace]
NothingSeen == [files |-> {}, packet |-> FALSE, receipt |-> NoReceipt, trace |-> NoEvents]

ReviewTypeOK ==
    /\ TypeOK
    /\ rstep \in [Inspector -> EvidenceFile \cup {"idle", "store"}]
    /\ rdir \in [Inspector -> StagingDir \cup {NoDir}]
    /\ seen \in [Inspector -> Evidence]
    /\ reports \in [StagingDir -> SUBSET Verdicts]
    /\ dispositions \in [StagingDir -> SUBSET Dispositions]

ReviewInit ==
    /\ Init
    /\ rstep = [i \in Inspector |-> "idle"]
    /\ rdir = [i \in Inspector |-> NoDir]
    /\ seen = [i \in Inspector |-> NothingSeen]
    /\ reports = [d \in StagingDir |-> {}]
    /\ dispositions = [d \in StagingDir |-> {}]

-----------------------------------------------------------------------------
(* What a reviewer concludes from the evidence o it read.                  *)

Has(o, name) == name \in o.files

\* _validate_trace_against_receipt: a start and a terminal event for every step.
TraceMatches(t, r) ==
    /\ r.steps > 0 /\ t.events = 2 * r.steps
    /\ t.last = IF r.status = "BLOCKED" THEN "STEP_BLOCKED" ELSE "STEP_COMPLETED"

\* _validate_receipt_steps.
StepsExpected(r) == r.status = "COMPLETED" => r.steps = Steps

\* One terminal record, and a trace.
Admissible(o) ==
    /\ Has(o, "trace")
    /\ Has(o, "receipt") <=> ~ Has(o, "failure")

\* _validate_store demands the phases of every step of a completed run.
ReceiptHolds(o, phases) ==
    /\ Has(o, "claim") /\ StepsExpected(o.receipt) /\ TraceMatches(o.trace, o.receipt)
    /\ Has(o, "packet") <=> o.receipt.status = "COMPLETED"
    /\ o.receipt.status = "COMPLETED" => o.packet /\ phases = Steps

\* Mutant: a failure record decides, whatever else is there.
VerdictFailureFirst(o, phases) ==
    CASE Has(o, "trace") /\ Has(o, "failure") ->
            IF Has(o, "claim") THEN "VALID_FAILED" ELSE "FAILED_BEFORE_CLAIM_PERSISTED"
      [] Admissible(o) /\ Has(o, "receipt") /\ ReceiptHolds(o, phases) ->
            IF o.receipt.status = "COMPLETED" THEN "VALID_COMPLETED" ELSE "VALID_BLOCKED"
      [] OTHER -> Raises

Verdict(o, phases) ==
    CASE Admissible(o) /\ Has(o, "receipt") /\ ReceiptHolds(o, phases) ->
            IF o.receipt.status = "COMPLETED" THEN "VALID_COMPLETED" ELSE "VALID_BLOCKED"
      [] Admissible(o) /\ ~ Has(o, "receipt") /\ ~ Has(o, "packet") ->
            IF Has(o, "claim") THEN "VALID_FAILED" ELSE "FAILED_BEFORE_CLAIM_PERSISTED"
      [] OTHER -> Raises

\* The verdict an inspection of d would reach if nothing moved under it.
CurrentVerdict(d) ==
    Verdict([files |-> files[d], packet |-> packet[d], receipt |-> receipt[d],
             trace |-> trace[d]], store[d])

-----------------------------------------------------------------------------
(* The inspection.                                                         *)

StartInspection(i, d) ==
    /\ rstep[i] = "idle"
    /\ rstep' = [rstep EXCEPT ![i] = "claim"]
    /\ rdir' = [rdir EXCEPT ![i] = d]
    /\ UNCHANGED <<vars, seen, reports, dispositions>>

\* What an inspector that has seen o knows after reading the file of directory d:
\* that it is absent, or its content as a whole.
Reading(o, name, d) ==
    IF name \notin files[d] THEN o
    ELSE [o EXCEPT !.files = @ \cup {name},
                   !.packet = IF name = "packet" THEN packet[d] ELSE @,
                   !.receipt = IF name = "receipt" THEN receipt[d] ELSE @,
                   !.trace = IF name = "trace" THEN trace[d] ELSE @]

\* _optional_artifact of one evidence file.
Load(i, name, next) ==
    /\ rstep[i] = name
    /\ rstep' = [rstep EXCEPT ![i] = next]
    /\ seen' = [seen EXCEPT ![i] = Reading(@, name, rdir[i])]
    /\ UNCHANGED <<vars, rdir, reports, dispositions>>

LoadClaim(i) == Load(i, "claim", "receipt")
LoadReceipt(i) == Load(i, "receipt", "failure")
LoadFailure(i) == Load(i, "failure", "trace")
LoadTrace(i) == Load(i, "trace", "packet")
LoadPacket(i) == Load(i, "packet", "store")

\* The store is opened last, and the report written unless something raised.
InspectStore(i) ==
    /\ rstep[i] = "store"
    /\ rstep' = [rstep EXCEPT ![i] = "idle"]
    /\ rdir' = [rdir EXCEPT ![i] = NoDir]
    /\ seen' = [seen EXCEPT ![i] = NothingSeen]
    /\ LET verdict == Verdict(seen[i], store[rdir[i]]) IN
           reports' = IF verdict = Raises THEN reports
                      ELSE [reports EXCEPT ![rdir[i]] = @ \cup {verdict}]
    /\ UNCHANGED <<vars, dispositions>>

\* Mutant: the eligibility of the report is not looked at.
DisposeAny(d) ==
    /\ \E verdict \in reports[d], disposition \in Dispositions :
          dispositions' = [dispositions EXCEPT ![d] = @ \cup {disposition}]
    /\ UNCHANGED <<vars, rstep, rdir, seen, reports>>

\* A disposition is made for a report and bundled with it in a new file; only a
\* completed execution may be accepted.
Dispose(d) ==
    /\ \E verdict \in reports[d], disposition \in Dispositions :
          /\ disposition = Accept => verdict = "VALID_COMPLETED"
          /\ dispositions' = [dispositions EXCEPT ![d] = @ \cup {disposition}]
    /\ UNCHANGED <<vars, rstep, rdir, seen, reports>>

-----------------------------------------------------------------------------

ReviewNext ==
    \/ Next /\ UNCHANGED reviewVars
    \/ \E i \in Inspector, d \in StagingDir : StartInspection(i, d)
    \/ \E i \in Inspector :
          LoadClaim(i) \/ LoadReceipt(i) \/ LoadFailure(i) \/ LoadTrace(i) \/ LoadPacket(i)
          \/ InspectStore(i)
    \/ \E d \in StagingDir : Dispose(d)

ReviewSpec == ReviewInit /\ [][ReviewNext]_allVars

-----------------------------------------------------------------------------
(* Safety of the review.                                                   *)

\* Accepted evidence, which a canonical publication may be authorized from, is
\* that of an execution that ran every step and persisted claim, packet, receipt
\* and store, although the inspection read them while they were being written.
AcceptedIsComplete ==
    \A d \in StagingDir : Accept \in dispositions[d] =>
        /\ {"claim", "packet", "receipt", "trace"} \subseteq files[d]
        /\ receipt[d].status = "COMPLETED"
        /\ store[d] = Steps

\* An execution reported VALID_COMPLETED is never reported otherwise, before or
\* after, even if it raised after writing its trace.
CompletionIsNotContradicted ==
    \A d \in StagingDir : "VALID_COMPLETED" \in reports[d] => reports[d] = {"VALID_COMPLETED"}

\* If no I/O call raised, an execution that ended is classified by the review as
\* what it was, whatever ended it; only a packet whose payload differs from the
\* rehearsal's is rejected.
EndedIsClassified ==
    \A a \in Attempt :
        (Holds(a) /\ pc[a] \in Ended /\ faults = 0) =>
            CurrentVerdict(WorkDir[a]) =
                CASE At(a, "failed") -> "VALID_FAILED"
                  [] At(a, "blocked") -> "VALID_BLOCKED"
                  [] OTHER -> IF packet[WorkDir[a]] THEN "VALID_COMPLETED" ELSE Raises

=============================================================================

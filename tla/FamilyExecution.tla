--------------------------- MODULE FamilyExecution ---------------------------
(***************************************************************************)
(* The one-shot executor of an authorized canonical family execution:      *)
(* execute_authorized_canonical_family of relate/family/execution.py.      *)
(*                                                                         *)
(* Every attempt is one call in a process of its own; attempts with the    *)
(* same staging directory are runs of one request.  The workflow runs      *)
(* inside an attempt: Steps steps, of which only the readiness assessment  *)
(* may block, and every step commits its part of the store.  The store     *)
(* lies beneath the staging directory and goes with it.                    *)
(*                                                                         *)
(* The environment may edit the source files whose digests the request     *)
(* binds, at most MaxEdits times; at most MaxFaults times an I/O call or   *)
(* the caller's trace sink raises, or a process dies.                      *)
(***************************************************************************)
EXTENDS Naturals

CONSTANTS
    Attempt,     \* the calls of the executor
    StagingDir,  \* the staging work directories requests name
    WorkDir,     \* the one of each attempt's request
    Authorized,  \* the attempts whose authorization is not withheld
    Steps,       \* number of steps of the family workflow
    Readiness,   \* position of assess_graph_readiness
    MaxEdits, MaxFaults

ASSUME ExecutionAssumption ==
    /\ WorkDir \in [Attempt -> StagingDir]
    /\ Authorized \subseteq Attempt
    /\ Steps \in Nat /\ Readiness \in 1..Steps
    /\ MaxEdits \in Nat /\ MaxFaults \in Nat

VARIABLES
    edited,   \* the parts of the source that differ from the request
    dirs,     \* the staging directories that exist
    files,    \* the evidence files of each
    packet,   \* its review packet: does the scientific payload match the rehearsal
    receipt,  \* content of its receipt, if there is one
    trace,    \* content of its trace, if there is one
    store,    \* number of steps whose results its store holds
    pc,       \* next step of each attempt
    mem,      \* local variables of each attempt
    edits, faults

evidence == <<dirs, files, packet, receipt, trace, store>>
bounds == <<edits, faults>>
vars == <<edited, evidence, pc, mem, bounds>>

-----------------------------------------------------------------------------

\* The executor source identity covers the workflow sources too.
SourcePart == {"workflow", "executor"}
EvidenceFile == {"claim", "packet", "receipt", "failure", "trace"}

\* The events of a run are known by their number and the last one.
EventType == {"NONE", "STEP_STARTED", "STEP_COMPLETED", "STEP_BLOCKED", "STEP_FAILED"}
Trace == [events : 0..(2 * Steps), last : EventType]
NoEvents == [events |-> 0, last |-> "NONE"]

\* ordered_steps by their number, and whether the authorised_runner_source_identity
\* is that of the request.
Receipt == [status : {"COMPLETED", "BLOCKED"}, steps : 0..Steps, bound : BOOLEAN]
NoReceipt == [status |-> "BLOCKED", steps |-> 0, bound |-> FALSE]

\* workflow, executor: does the identity in hand differ from the request's;
\* records: completed or blocked steps; trace: the internal sink.
Memory == [workflow : BOOLEAN, executor : BOOLEAN, records : 0..Steps, trace : Trace]

Unstarted == {"idle", "mkdir"}
InRun == {"run", "step", "blockedreceipt"}
TryBlock == {"claim", "workflow", "executor", "plan", "packet", "writepacket", "receipt",
             "trace", "hash"} \cup InRun
Handler == {"failure", "failuretrace"}
Ended == {"refused", "withheld", "failed", "completed", "blocked", "crashed"}

TypeOK ==
    /\ edited \subseteq SourcePart
    /\ dirs \subseteq StagingDir
    /\ files \in [StagingDir -> SUBSET EvidenceFile]
    /\ packet \in [StagingDir -> BOOLEAN]
    /\ receipt \in [StagingDir -> Receipt]
    /\ trace \in [StagingDir -> Trace]
    /\ store \in [StagingDir -> 0..Steps]
    /\ pc \in [Attempt -> Unstarted \cup TryBlock \cup Handler \cup Ended]
    /\ mem \in [Attempt -> Memory]
    /\ edits \in 0..MaxEdits /\ faults \in 0..MaxFaults

Init ==
    /\ edited = {} /\ dirs = {}
    /\ files = [d \in StagingDir |-> {}]
    /\ packet = [d \in StagingDir |-> FALSE]
    /\ receipt = [d \in StagingDir |-> NoReceipt]
    /\ trace = [d \in StagingDir |-> NoEvents]
    /\ store = [d \in StagingDir |-> 0]
    /\ pc = [a \in Attempt |-> "idle"]
    /\ mem = [a \in Attempt |-> [workflow |-> FALSE, executor |-> FALSE,
                                 records |-> 0, trace |-> NoEvents]]
    /\ edits = 0 /\ faults = 0

-----------------------------------------------------------------------------
(* Helpers of the actions.                                                 *)

At(a, step) == pc[a] = step
Go(a, step) == pc' = [pc EXCEPT ![a] = step]
Put(a, name) == files' = [files EXCEPT ![WorkDir[a]] = @ \cup {name}]

\* The call may still raise after it had its effect: the fsync of a directory
\* in atomic_write_json, the caller's sink after the internal one.
Then(a, next, raised) ==
    \/ Go(a, next) /\ UNCHANGED faults
    \/ faults < MaxFaults /\ faults' = faults + 1 /\ Go(a, raised)

\* _TeeTraceSink.record, of a run that has so many records.
Emit(a, event, records) ==
    mem' = [mem EXCEPT ![a].records = records,
                       ![a].trace = [events |-> @.events + 1, last |-> event]]

-----------------------------------------------------------------------------
(* Before anything is written.                                             *)

\* The record chain is checked, and the absence of the staging directory.
Validate(a) ==
    /\ At(a, "idle")
    /\ Go(a, CASE edited # {} \/ WorkDir[a] \in dirs -> "refused"
               [] edited = {} /\ WorkDir[a] \notin dirs /\ a \notin Authorized -> "withheld"
               [] OTHER -> "mkdir")
    /\ UNCHANGED <<edited, evidence, mem, bounds>>

\* Mutant: work_dir.mkdir(parents=True, exist_ok=True).
ConsumeStagingDirExistOk(a) ==
    /\ At(a, "mkdir")
    /\ Go(a, "claim") /\ dirs' = dirs \cup {WorkDir[a]}
    /\ UNCHANGED <<edited, files, packet, receipt, trace, store, mem, bounds>>

\* work_dir.mkdir(parents=True, exist_ok=False): consumes the authorization.
ConsumeStagingDir(a) ==
    /\ At(a, "mkdir")
    /\ IF WorkDir[a] \in dirs
       THEN Go(a, "refused") /\ UNCHANGED dirs
       ELSE Go(a, "claim") /\ dirs' = dirs \cup {WorkDir[a]}
    /\ UNCHANGED <<edited, files, packet, receipt, trace, store, mem, bounds>>

-----------------------------------------------------------------------------
(* The try block up to the run.                                            *)

PersistClaim(a) ==
    /\ At(a, "claim")
    /\ Put(a, "claim") /\ Then(a, "workflow", "failure")
    /\ UNCHANGED <<edited, dirs, packet, receipt, trace, store, mem, edits>>

\* compute_family_workflow_source_identity: computed anew, not compared with the
\* request's.
IdentifyWorkflow(a) ==
    /\ At(a, "workflow")
    /\ mem' = [mem EXCEPT ![a].workflow = "workflow" \in edited]
    /\ Go(a, "executor")
    /\ UNCHANGED <<edited, evidence, bounds>>

\* compute_canonical_executor_source_identity.
IdentifyExecutor(a) ==
    /\ At(a, "executor")
    /\ mem' = [mem EXCEPT ![a].executor = edited # {}]
    /\ Go(a, "plan")
    /\ UNCHANGED <<edited, evidence, bounds>>

\* The plan and the packet are built only if the workflow sources still have the
\* identity in hand.
SourceUnmoved(a) == mem[a].workflow <=> "workflow" \in edited

BuildPlan(a) ==
    /\ At(a, "plan")
    /\ Go(a, IF SourceUnmoved(a) THEN "run" ELSE "failure")
    /\ UNCHANGED <<edited, evidence, mem, bounds>>

-----------------------------------------------------------------------------
(* The run of the workflow.                                                *)

StartStep(a) ==
    /\ At(a, "run")
    /\ Emit(a, "STEP_STARTED", mem[a].records) /\ Then(a, "step", "failure")
    /\ UNCHANGED <<edited, evidence, edits>>

\* Step number k of attempt a ends; n of the steps are in the store then.
Finish(a, k, n, event) ==
    /\ At(a, "step") /\ k = mem[a].records + 1
    /\ store' = [store EXCEPT ![WorkDir[a]] = n]
    /\ Emit(a, event, IF event = "STEP_FAILED" THEN k - 1 ELSE k)
    /\ UNCHANGED <<edited, dirs, files, packet, receipt, trace, edits>>

CompleteStep(a) == \E k \in 1..Steps :
    /\ Finish(a, k, k, "STEP_COMPLETED")
    /\ Then(a, IF k = Steps THEN "packet" ELSE "run", "failure")

\* Missing metadata or an unresolved review: the run ends BLOCKED.
BlockStep(a) ==
    /\ Finish(a, Readiness, Readiness, "STEP_BLOCKED")
    /\ Then(a, "blockedreceipt", "failure")

\* The step raises, before or after it committed its part of the store.
FailStep(a) == \E k \in 1..Steps :
    /\ \E n \in {k - 1, k} : Finish(a, k, n, "STEP_FAILED")
    /\ Go(a, "failure") /\ UNCHANGED faults

-----------------------------------------------------------------------------
(* The evidence of a run that ended.                                       *)

ReceiptRecord(a, status) ==
    [status |-> status, steps |-> mem[a].records,
     bound |-> ~ mem[a].workflow /\ ~ mem[a].executor]

WriteReceipt(a, status) ==
    /\ Put(a, "receipt")
    /\ receipt' = [receipt EXCEPT ![WorkDir[a]] = ReceiptRecord(a, status)]
    /\ Then(a, "trace", "failure")
    /\ UNCHANGED <<edited, dirs, packet, trace, store, mem, edits>>

WriteBlockedReceipt(a) == At(a, "blockedreceipt") /\ WriteReceipt(a, "BLOCKED")

\* Mutant: a completed run gets its receipt without a packet, as a blocked one.
BuildPacketOnlyReceipt(a) ==
    /\ At(a, "packet") /\ WriteReceipt(a, "COMPLETED")

\* build_family_review_packet.
BuildPacket(a) ==
    /\ At(a, "packet")
    /\ Go(a, IF SourceUnmoved(a) THEN "writepacket" ELSE "failure")
    /\ UNCHANGED <<edited, evidence, mem, bounds>>

WritePacket(a) ==
    /\ At(a, "writepacket")
    /\ Put(a, "packet")
    /\ packet' \in {[packet EXCEPT ![WorkDir[a]] = same] : same \in BOOLEAN}
    /\ Then(a, "receipt", "failure")
    /\ UNCHANGED <<edited, dirs, receipt, trace, store, mem, edits>>

WriteCompletedReceipt(a) == At(a, "receipt") /\ WriteReceipt(a, "COMPLETED")

\* _write_trace: the last file of an execution that did not fail.
WriteTrace(a) ==
    /\ At(a, "trace")
    /\ Put(a, "trace")
    /\ trace' = [trace EXCEPT ![WorkDir[a]] = mem[a].trace]
    /\ Then(a, "hash", "failure")
    /\ UNCHANGED <<edited, dirs, packet, receipt, store, mem, edits>>

\* sha256_file(receipt_path), still in the try block.
HashReceipt(a) ==
    /\ At(a, "hash")
    /\ Go(a, IF receipt[WorkDir[a]].status = "COMPLETED" THEN "completed" ELSE "blocked")
    /\ UNCHANGED <<edited, evidence, mem, bounds>>

-----------------------------------------------------------------------------
(* The except branches, which differ in what the failure record quotes.    *)

\* Mutant: the trace of a failed execution is not written.
WriteFailureNoTrace(a) ==
    /\ At(a, "failure")
    /\ Put(a, "failure") /\ Then(a, "failed", "failed")
    /\ UNCHANGED <<edited, dirs, packet, receipt, trace, store, mem, edits>>

WriteFailure(a) ==
    /\ At(a, "failure")
    /\ Put(a, "failure") /\ Then(a, "failuretrace", "failed")
    /\ UNCHANGED <<edited, dirs, packet, receipt, trace, store, mem, edits>>

WriteFailureTrace(a) ==
    /\ At(a, "failuretrace")
    /\ Put(a, "trace")
    /\ trace' = [trace EXCEPT ![WorkDir[a]] = mem[a].trace]
    /\ Then(a, "failed", "failed")
    /\ UNCHANGED <<edited, dirs, packet, receipt, store, mem, edits>>

-----------------------------------------------------------------------------
(* Faults and the environment.                                             *)

\* An I/O call raises before it has an effect.
IOError(a) ==
    /\ faults < MaxFaults /\ faults' = faults + 1
    /\ \/ pc[a] \in Unstarted /\ Go(a, "refused")
       \/ pc[a] \in TryBlock \ InRun /\ Go(a, "failure")
       \/ At(a, "blockedreceipt") /\ Go(a, "failure")
       \/ pc[a] \in Handler /\ Go(a, "failed")
    /\ UNCHANGED <<edited, evidence, mem, edits>>

\* The process dies, or is interrupted past "except Exception".
Crash(a) ==
    /\ pc[a] \in {"mkdir"} \cup TryBlock \cup Handler
    /\ faults < MaxFaults /\ faults' = faults + 1
    /\ Go(a, "crashed")
    /\ UNCHANGED <<edited, evidence, mem, edits>>

EditSource ==
    /\ edits < MaxEdits /\ edits' = edits + 1
    /\ \E part \in SourcePart :
          edited' = (edited \ {part}) \cup ({part} \ edited)
    /\ UNCHANGED <<evidence, pc, mem, faults>>

-----------------------------------------------------------------------------

Advance(a) ==
    \/ ConsumeStagingDir(a) \/ PersistClaim(a) \/ IdentifyWorkflow(a) \/ IdentifyExecutor(a)
    \/ BuildPlan(a) \/ StartStep(a) \/ CompleteStep(a) \/ BlockStep(a) \/ FailStep(a)
    \/ WriteBlockedReceipt(a) \/ BuildPacket(a) \/ WritePacket(a) \/ WriteCompletedReceipt(a)
    \/ WriteTrace(a) \/ HashReceipt(a) \/ WriteFailure(a) \/ WriteFailureTrace(a)

Next ==
    \/ \E a \in Attempt : Validate(a) \/ Advance(a) \/ IOError(a) \/ Crash(a)
    \/ EditSource

Spec == Init /\ [][Next]_vars

-----------------------------------------------------------------------------
(* Safety.                                                                 *)

\* The attempts that got past the mkdir and may have written evidence.
Holds(a) == pc[a] \in TryBlock \cup Handler \cup {"failed", "completed", "blocked"}

\* A receipt on disk is the truth about a run in that directory, whatever
\* happened after it was written: its trace, once written, is the run's own even
\* if an except branch wrote it again; a completed run has all its steps in the
\* store and its packet beside the receipt, a blocked one neither.
ReceiptTellsTheRun ==
    \A d \in StagingDir : "receipt" \in files[d] =>
        LET r == receipt[d] IN
        /\ "claim" \in files[d]
        /\ "packet" \in files[d] <=> r.status = "COMPLETED"
        /\ store[d] = r.steps
        /\ r.steps = IF r.status = "COMPLETED" THEN Steps ELSE Readiness
        /\ "trace" \in files[d] =>
              trace[d] = [events |-> 2 * r.steps,
                          last |-> IF r.status = "COMPLETED" THEN "STEP_COMPLETED"
                                   ELSE "STEP_BLOCKED"]

\* Evidence of failure is never that of another attempt than the receipt: two
\* attempts never hold one staging directory (mkdir with exist_ok=False).
AuthorizationConsumedOnce ==
    \A a, b \in Attempt : (a # b /\ WorkDir[a] = WorkDir[b]) => ~ (Holds(a) /\ Holds(b))

=============================================================================

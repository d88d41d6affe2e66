--------------------------- MODULE ExecutionProofs ---------------------------
(***************************************************************************)
(* The evidence of an authorized execution and its review, for any number  *)
(* of attempts, directories, inspectors, steps, edits and faults.          *)
(*                                                                         *)
(* An inspection reads five files and the store while an attempt may write *)
(* them.  What carries its verdict is what cannot change any more once it  *)
(* was read (Lasting): files stay, a receipt and the store beneath it are  *)
(* final, and no packet follows a failure record.                          *)
(***************************************************************************)
EXTENDS ExecutionReview, TLAPS

\* The evidence files of d up to the trace, when its attempt has written a receipt.
WithReceipt(d) ==
    {"claim", "receipt"} \cup IF receipt[d].status = "COMPLETED" THEN {"packet"} ELSE {}

\* The trace that belongs to a receipt.
TraceOf(r) ==
    [events |-> 2 * r.steps,
     last |-> IF r.status = "COMPLETED" THEN "STEP_COMPLETED" ELSE "STEP_BLOCKED"]

ReceiptTells(d) == "receipt" \in files[d] =>
    /\ "claim" \in files[d]
    /\ "packet" \in files[d] <=> receipt[d].status = "COMPLETED"
    /\ store[d] = receipt[d].steps
    /\ receipt[d].steps = IF receipt[d].status = "COMPLETED" THEN Steps ELSE Readiness
    /\ "trace" \in files[d] => trace[d] = TraceOf(receipt[d])

BeforePacket ==
    {"workflow", "executor", "plan", "run", "step", "blockedreceipt", "packet", "writepacket"}

\* Which files there are when the attempt that has the directory is at a step.
FilesInv(a) == LET d == WorkDir[a] IN
    /\ Holds(a) => d \in dirs
    /\ At(a, "claim") => files[d] = {}
    /\ pc[a] \in BeforePacket => files[d] = {"claim"}
    /\ At(a, "receipt") => files[d] = {"claim", "packet"}
    /\ At(a, "trace") => files[d] = WithReceipt(d)
    /\ pc[a] \in {"hash", "completed", "blocked"} => files[d] = WithReceipt(d) \cup {"trace"}
    /\ At(a, "completed") => receipt[d].status = "COMPLETED"
    /\ At(a, "blocked") => receipt[d].status = "BLOCKED"
    /\ At(a, "failure") => "failure" \notin files[d]
    /\ At(a, "failuretrace") => "failure" \in files[d]
    /\ At(a, "failure") /\ faults = 0 => files[d] = {"claim"}
    /\ At(a, "failuretrace") /\ faults = 0 => files[d] = {"claim", "failure"}
    /\ At(a, "failed") /\ faults = 0 => files[d] = {"claim", "failure", "trace"}

\* How far the run is: the records in memory, the internal trace and the store agree.
RunInv(a) == LET d == WorkDir[a]  n == mem[a].records  t == mem[a].trace IN
    /\ pc[a] \in Unstarted \cup {"claim", "workflow", "executor", "plan"} =>
          n = 0 /\ t.events = 0
    /\ pc[a] \in {"claim", "workflow", "executor", "plan"} => store[d] = 0
    /\ At(a, "run") => n < Steps /\ t.events = 2 * n /\ store[d] = n
    /\ At(a, "step") => n < Steps /\ t.events = 2 * n + 1 /\ store[d] = n
    /\ At(a, "blockedreceipt") =>
          /\ n = Readiness /\ store[d] = n
          /\ t = [events |-> 2 * n, last |-> "STEP_BLOCKED"]
    /\ pc[a] \in {"packet", "writepacket", "receipt"} =>
          /\ n = Steps /\ store[d] = n
          /\ t = [events |-> 2 * n, last |-> "STEP_COMPLETED"]
    /\ pc[a] \in {"trace", "hash", "failure", "failuretrace"} /\ "receipt" \in files[d] =>
          t = TraceOf(receipt[d])

ExecInv ==
    /\ TypeOK
    /\ AuthorizationConsumedOnce
    /\ \A a \in Attempt : FilesInv(a) /\ RunInv(a)
    /\ \A d \in StagingDir : ReceiptTells(d)
    /\ \A d \in StagingDir : d \notin dirs => files[d] = {} /\ store[d] = 0

\* What no step undoes.
Lasting(d) ==
    /\ files[d] \subseteq files'[d]
    /\ "receipt" \in files[d] => receipt'[d] = receipt[d] /\ store'[d] = store[d]
    /\ "failure" \in files[d] /\ "packet" \notin files[d] => "packet" \notin files'[d]

\* What an inspection knows of the directory it inspects.
SeenInv(i) == rdir[i] # NoDir => LET d == rdir[i]  o == seen[i] IN
    /\ o.files \subseteq files[d]
    /\ "receipt" \in o.files => o.receipt = receipt[d]
    /\ rstep[i] = "store" /\ "failure" \in o.files /\ "packet" \notin o.files =>
          "packet" \notin files[d]

\* What a report says is so for good.
ReportsInv(d) ==
    /\ "VALID_COMPLETED" \in reports[d] =>
          /\ {"claim", "packet", "receipt", "trace"} \subseteq files[d]
          /\ receipt[d].status = "COMPLETED" /\ store[d] = Steps
    /\ "VALID_BLOCKED" \in reports[d] =>
          "receipt" \in files[d] /\ receipt[d].status = "BLOCKED"
    /\ {"VALID_FAILED", "FAILED_BEFORE_CLAIM_PERSISTED"} \cap reports[d] # {} =>
          "failure" \in files[d] /\ "packet" \notin files[d]
    /\ Accept \in dispositions[d] => "VALID_COMPLETED" \in reports[d]

InspectionInv ==
    /\ ReviewTypeOK
    /\ \A i \in Inspector : (rdir[i] = NoDir <=> rstep[i] = "idle") /\ SeenInv(i)
    /\ \A i \in Inspector : rstep[i] = "idle" => seen[i] = NothingSeen
    /\ \A d \in StagingDir : ReportsInv(d)

-----------------------------------------------------------------------------
(* The executor.                                                           *)

LEMMA InitExec == Init => ExecInv
  <1> SUFFICES ASSUME Init PROVE ExecInv
    OBVIOUS
  <1> USE ExecutionAssumption
  <1>1. TypeOK
    BY DEF Init, TypeOK, Trace, NoEvents, EventType, Receipt, NoReceipt, Memory, Unstarted
  <1>2. \A a \in Attempt : pc[a] = "idle" /\ ~ Holds(a)
    BY DEF Init, Holds, TryBlock, InRun, Handler
  <1>3. \A d \in StagingDir : files[d] = {} /\ store[d] = 0
    BY DEF Init
  <1>4. \A a \in Attempt : mem[a].records = 0 /\ mem[a].trace.events = 0
    BY DEF Init, NoEvents
  <1>5. \A a \in Attempt : FilesInv(a) /\ RunInv(a)
    BY <1>2, <1>4 DEF FilesInv, RunInv, At, BeforePacket, Unstarted
  <1>6. AuthorizationConsumedOnce /\ \A d \in StagingDir : ReceiptTells(d)
    BY <1>2, <1>3 DEF AuthorizationConsumedOnce, ReceiptTells
  <1> QED
    BY <1>1, <1>3, <1>5, <1>6 DEF ExecInv

\* A step of a that touches only the directory it has: what must be shown of it.
Moves(a) ==
    /\ \A b \in Attempt \ {a} : pc'[b] = pc[b] /\ mem'[b] = mem[b]
    /\ \A d \in StagingDir : (d # WorkDir[a] \/ ~ Holds(a)) =>
          /\ files'[d] = files[d] /\ receipt'[d] = receipt[d]
          /\ trace'[d] = trace[d] /\ store'[d] = store[d]
    /\ dirs \subseteq dirs' /\ dirs' \subseteq dirs \cup {WorkDir[a]}
    /\ Holds(a)' /\ ~ Holds(a) => WorkDir[a] \notin dirs
    /\ faults' = 0 => faults = 0

\* The other attempts and directories keep what the invariant says of them.
LEMMA Frame ==
    ASSUME ExecInv, NEW a \in Attempt, TypeOK', Moves(a),
           FilesInv(a)', RunInv(a)', ReceiptTells(WorkDir[a])', Lasting(WorkDir[a])
    PROVE  ExecInv' /\ \A d \in StagingDir : Lasting(d)
  <1> USE ExecutionAssumption
  <1>1. ASSUME NEW b \in Attempt, b # a, Holds(b)
        PROVE  WorkDir[b] # WorkDir[a] \/ ~ Holds(a)
    BY <1>1 DEF ExecInv, AuthorizationConsumedOnce
  <1>2. \A b \in Attempt : b # a => (Holds(b)' <=> Holds(b))
    BY DEF Moves, Holds
  <1>3. AuthorizationConsumedOnce'
    <2> SUFFICES ASSUME NEW b \in Attempt, NEW c \in Attempt, b # c,
                        WorkDir[b] = WorkDir[c], Holds(b)', Holds(c)'
                 PROVE  FALSE
      BY DEF AuthorizationConsumedOnce, Holds
    <2>1. CASE b # a /\ c # a
      BY <1>2, <2>1 DEF ExecInv, AuthorizationConsumedOnce
    <2>2. ASSUME NEW e \in Attempt, e # a, WorkDir[e] = WorkDir[a], Holds(e)', Holds(a)'
          PROVE  FALSE
      <3>1. Holds(e) /\ WorkDir[a] \in dirs
        BY <1>2, <2>2 DEF ExecInv, FilesInv
      <3>2. ~ Holds(a)
        BY <2>2, <3>1 DEF ExecInv, AuthorizationConsumedOnce
      <3> QED
        BY <2>2, <3>1, <3>2 DEF Moves
    <2> QED
      BY <2>1, <2>2
  <1>4. ASSUME NEW b \in Attempt, b # a
        PROVE  FilesInv(b)' /\ RunInv(b)'
    <2>1. pc'[b] = pc[b] /\ mem'[b] = mem[b] /\ FilesInv(b) /\ RunInv(b)
      BY <1>4 DEF Moves, ExecInv
    <2>2. CASE ~ Holds(b)
      BY <2>1, <2>2 DEF FilesInv, RunInv, Holds, At, TryBlock, Handler, InRun, BeforePacket
    <2>3. CASE Holds(b)
      <3>1. WorkDir[b] # WorkDir[a] \/ ~ Holds(a)
        BY <1>1, <1>4, <2>3
      <3>2. /\ files'[WorkDir[b]] = files[WorkDir[b]] /\ receipt'[WorkDir[b]] = receipt[WorkDir[b]]
            /\ store'[WorkDir[b]] = store[WorkDir[b]]
        BY <3>1 DEF Moves
      <3>3. FilesInv(b)'
        BY <1>2, <1>4, <2>1, <3>2 DEF FilesInv, Moves, At, WithReceipt
      <3>4. RunInv(b)'
        BY <2>1, <3>2 DEF RunInv, At, TraceOf
      <3> QED
        BY <3>3, <3>4
    <2> QED
      BY <2>2, <2>3
  <1>5. ASSUME NEW d \in StagingDir, d # WorkDir[a]
        PROVE  ReceiptTells(d)'
    <2>1. /\ files'[d] = files[d] /\ receipt'[d] = receipt[d]
          /\ trace'[d] = trace[d] /\ store'[d] = store[d]
      BY <1>5 DEF Moves
    <2>2. ReceiptTells(d)
      BY DEF ExecInv
    <2> QED
      BY <2>1, <2>2 DEF ReceiptTells, TraceOf
  <1>6. ASSUME NEW d \in StagingDir, d \notin dirs'
        PROVE  files'[d] = {} /\ store'[d] = 0
    BY <1>6 DEF ExecInv, Moves, FilesInv
  <1>7. ASSUME NEW d \in StagingDir, d # WorkDir[a]
        PROVE  Lasting(d)
    BY <1>7 DEF Moves, Lasting
  <1> QED
    BY <1>3, <1>4, <1>5, <1>6, <1>7 DEF ExecInv

Steady == ExecInv' /\ \A d \in StagingDir : Lasting(d)

\* A step of a that writes no evidence and takes no note, only goes on.
LEMMA GoesOn ==
    ASSUME ExecInv, NEW a \in Attempt, NEW step,
           step \in Unstarted \cup TryBlock \cup Handler \cup Ended,
           pc' = [pc EXCEPT ![a] = step],
           UNCHANGED <<files, receipt, trace, store, packet, mem, edited, edits>>,
           faults' \in {faults, faults + 1}, faults' \in 0..MaxFaults,
           dirs' = dirs, Holds(a)' => Holds(a), FilesInv(a)', RunInv(a)'
    PROVE  Steady
  <1> USE ExecutionAssumption
  <1>1. TypeOK'
    BY DEF ExecInv, TypeOK
  <1>2. faults \in Nat
    BY DEF ExecInv, TypeOK
  <1>3. Moves(a)
    BY <1>2 DEF Moves, ExecInv, TypeOK
  <1>4. ReceiptTells(WorkDir[a])' /\ Lasting(WorkDir[a])
    BY DEF ExecInv, ReceiptTells, Lasting, TraceOf
  <1> QED
    BY <1>1, <1>3, <1>4, Frame DEF Steady

LEMMA ValidateStep ==
    ASSUME ExecInv, NEW a \in Attempt, Validate(a)
    PROVE  Steady
  <1>1. PICK step \in {"refused", "withheld", "mkdir"} :
            /\ pc' = [pc EXCEPT ![a] = step]
            /\ UNCHANGED <<edited, evidence, mem, bounds>>
    BY DEF Validate, Go
  <1>2. pc'[a] = step
    BY <1>1 DEF ExecInv, TypeOK
  <1>3. mem[a].records = 0 /\ mem[a].trace.events = 0
    BY DEF Validate, At, Unstarted, ExecInv, RunInv
  <1>4. FilesInv(a)' /\ RunInv(a)' /\ ~ Holds(a)'
    BY <1>1, <1>2, <1>3 DEF FilesInv, RunInv, At, Holds, TryBlock, InRun, Handler, BeforePacket
  <1> QED
    BY <1>1, <1>4, GoesOn DEF evidence, bounds, Unstarted, Ended, ExecInv, TypeOK

\* The directory is new: nobody else has it.
LEMMA ConsumeStep ==
    ASSUME ExecInv, NEW a \in Attempt, ConsumeStagingDir(a)
    PROVE  Steady
  <1> USE ExecutionAssumption
  <1>1. At(a, "mkdir") /\ ~ Holds(a)
    BY DEF ConsumeStagingDir, At, Holds, TryBlock, InRun, Handler
  <1>2. UNCHANGED <<edited, files, packet, receipt, trace, store, mem, bounds>>
    BY DEF ConsumeStagingDir
  <1>3. CASE WorkDir[a] \in dirs
    <2>1. pc' = [pc EXCEPT ![a] = "refused"] /\ dirs' = dirs
      BY <1>3 DEF ConsumeStagingDir, Go
    <2>2. pc'[a] = "refused"
      BY <2>1 DEF ExecInv, TypeOK
    <2>3. FilesInv(a)' /\ RunInv(a)' /\ ~ Holds(a)'
      BY <2>2 DEF FilesInv, RunInv, At, Holds, TryBlock, InRun, Handler, BeforePacket, Unstarted
    <2> QED
      BY <1>2, <2>1, <2>3, GoesOn DEF bounds, Ended, ExecInv, TypeOK
  <1>4. CASE WorkDir[a] \notin dirs
    <2>1. pc' = [pc EXCEPT ![a] = "claim"] /\ dirs' = dirs \cup {WorkDir[a]}
      BY <1>4 DEF ConsumeStagingDir, Go
    <2>2. pc'[a] = "claim"
      BY <2>1 DEF ExecInv, TypeOK
    <2>3. files[WorkDir[a]] = {} /\ store[WorkDir[a]] = 0
      BY <1>4 DEF ExecInv
    <2>4. mem[a].records = 0 /\ mem[a].trace.events = 0
      BY <1>1 DEF ExecInv, RunInv, At, Unstarted
    <2>5. TypeOK'
      BY <1>2, <2>1 DEF ExecInv, TypeOK, TryBlock, bounds
    <2>6. Moves(a)
      BY <1>1, <1>2, <1>4, <2>1 DEF Moves, ExecInv, TypeOK, bounds
    <2>7. FilesInv(a)' /\ RunInv(a)'
      BY <1>2, <2>1, <2>2, <2>3, <2>4 DEF FilesInv, RunInv, At, BeforePacket
    <2>8. ReceiptTells(WorkDir[a])' /\ Lasting(WorkDir[a])
      BY <1>2, <2>3 DEF ReceiptTells, Lasting
    <2> QED
      BY <2>5, <2>6, <2>7, <2>8, Frame DEF Steady
  <1> QED
    BY <1>3, <1>4

-----------------------------------------------------------------------------
(* The try block.                                                          *)

\* Every file appears in the directory of the attempt only.
LEMMA PutIs ==
    ASSUME ExecInv, NEW a \in Attempt, NEW name \in EvidenceFile, Put(a, name)
    PROVE  /\ files'[WorkDir[a]] = files[WorkDir[a]] \cup {name}
           /\ \A d \in StagingDir \ {WorkDir[a]} : files'[d] = files[d]
           /\ files' \in [StagingDir -> SUBSET EvidenceFile]
  BY ExecutionAssumption DEF ExecInv, TypeOK, Put

LEMMA ThenIs ==
    ASSUME ExecInv, NEW a \in Attempt, NEW next, NEW raised, Then(a, next, raised),
           {next, raised} \subseteq Unstarted \cup TryBlock \cup Handler \cup Ended
    PROVE  /\ \/ pc'[a] = next /\ faults' = faults
              \/ pc'[a] = raised /\ faults' = faults + 1
           /\ \A b \in Attempt \ {a} : pc'[b] = pc[b]
           /\ pc' \in [Attempt -> Unstarted \cup TryBlock \cup Handler \cup Ended]
           /\ faults' \in 0..MaxFaults /\ faults \in Nat
           /\ faults' = 0 => faults = 0
  BY ExecutionAssumption DEF ExecInv, TypeOK, Then, Go

LEMMA EmitIs ==
    ASSUME ExecInv, NEW a \in Attempt, NEW event \in EventType, NEW n \in 0..Steps,
           Emit(a, event, n), mem[a].trace.events + 1 <= 2 * Steps
    PROVE  /\ mem'[a].records = n
           /\ mem'[a].trace = [events |-> mem[a].trace.events + 1, last |-> event]
           /\ \A b \in Attempt \ {a} : mem'[b] = mem[b]
           /\ mem' \in [Attempt -> Memory]
  <1>1. mem \in [Attempt -> Memory] /\ Steps \in Nat
    BY ExecutionAssumption DEF ExecInv, TypeOK
  <1>2. mem[a].trace.events \in 0..(2 * Steps)
    BY <1>1 DEF Memory, Trace
  <1> DEFINE t == [events |-> mem[a].trace.events + 1, last |-> event]
  <1>3. mem' = [mem EXCEPT ![a] = [@ EXCEPT !.records = n, !.trace = t]]
    BY <1>1 DEF Emit, Memory
  <1>4. t \in Trace
    BY <1>1, <1>2 DEF Trace
  <1> QED
    BY <1>1, <1>3, <1>4 DEF Memory

LEMMA ClaimStep ==
    ASSUME ExecInv, NEW a \in Attempt, PersistClaim(a)
    PROVE  Steady
  <1> DEFINE d == WorkDir[a]
  <1>1. d \in StagingDir /\ Holds(a) /\ At(a, "claim")
    BY ExecutionAssumption DEF PersistClaim, Holds, TryBlock, At
  <1>2. d \in dirs /\ files[d] = {} /\ mem[a].records = 0 /\ mem[a].trace.events = 0 /\ store[d] = 0
    BY <1>1 DEF ExecInv, FilesInv, RunInv, At
  <1>3. UNCHANGED <<edited, dirs, packet, receipt, trace, store, mem, edits>>
    BY DEF PersistClaim
  <1>4. files'[d] = {"claim"} /\ (\A e \in StagingDir \ {d} : files'[e] = files[e])
        /\ files' \in [StagingDir -> SUBSET EvidenceFile]
    BY <1>2, PutIs DEF PersistClaim, EvidenceFile
  <1>5. /\ \/ pc'[a] = "workflow" /\ faults' = faults
           \/ pc'[a] = "failure" /\ faults' = faults + 1
        /\ \A b \in Attempt \ {a} : pc'[b] = pc[b]
        /\ pc' \in [Attempt -> Unstarted \cup TryBlock \cup Handler \cup Ended]
        /\ faults' \in 0..MaxFaults /\ faults \in Nat
        /\ faults' = 0 => faults = 0
    BY ThenIs DEF PersistClaim, TryBlock, Handler
  <1>6. TypeOK'
    BY <1>3, <1>4, <1>5 DEF ExecInv, TypeOK
  <1>7. Moves(a)
    BY <1>1, <1>3, <1>4, <1>5 DEF Moves
  <1>8. FilesInv(a)' /\ RunInv(a)'
    BY <1>2, <1>3, <1>4, <1>5 DEF FilesInv, RunInv, At, BeforePacket, Unstarted
  <1>9. ReceiptTells(d)' /\ Lasting(d)
    BY <1>2, <1>3, <1>4 DEF ReceiptTells, Lasting
  <1> QED
    BY <1>6, <1>7, <1>8, <1>9, Frame DEF Steady

\* The identities in hand matter to nothing here.
LEMMA IdentifySteps ==
    ASSUME ExecInv, NEW a \in Attempt, IdentifyWorkflow(a) \/ IdentifyExecutor(a)
    PROVE  Steady
  <1> DEFINE d == WorkDir[a]
  <1>1. d \in StagingDir /\ Holds(a) /\ (At(a, "workflow") \/ At(a, "executor"))
    BY ExecutionAssumption DEF IdentifyWorkflow, IdentifyExecutor, Holds, TryBlock, At
  <1>2. /\ d \in dirs /\ files[d] = {"claim"}
        /\ mem[a].records = 0 /\ mem[a].trace.events = 0 /\ store[d] = 0
    BY <1>1 DEF ExecInv, FilesInv, RunInv, At, BeforePacket
  <1>3. UNCHANGED <<edited, evidence, bounds>>
    BY DEF IdentifyWorkflow, IdentifyExecutor
  <1>4. /\ mem' \in [Attempt -> Memory] /\ \A b \in Attempt \ {a} : mem'[b] = mem[b]
        /\ mem'[a].records = 0 /\ mem'[a].trace.events = 0
    <2>1. mem \in [Attempt -> Memory]
      BY DEF ExecInv, TypeOK
    <2>2. CASE IdentifyWorkflow(a)
      <3> DEFINE v == "workflow" \in edited
      <3>1. mem' = [mem EXCEPT ![a].workflow = v]
        BY <2>2 DEF IdentifyWorkflow
      <3>2. v \in BOOLEAN
        OBVIOUS
      <3> HIDE DEF v
      <3> QED
        BY <1>2, <2>1, <3>1, <3>2 DEF Memory
    <2>3. CASE IdentifyExecutor(a)
      <3> DEFINE v == edited # {}
      <3>1. mem' = [mem EXCEPT ![a].executor = v]
        BY <2>3 DEF IdentifyExecutor
      <3>2. v \in BOOLEAN
        OBVIOUS
      <3> HIDE DEF v
      <3> QED
        BY <1>2, <2>1, <3>1, <3>2 DEF Memory
    <2> QED
      BY <2>2, <2>3
  <1>5. /\ pc'[a] \in {"executor", "plan"}
        /\ \A b \in Attempt \ {a} : pc'[b] = pc[b]
        /\ pc' \in [Attempt -> Unstarted \cup TryBlock \cup Handler \cup Ended]
    BY DEF ExecInv, TypeOK, IdentifyWorkflow, IdentifyExecutor, Go, TryBlock
  <1>6. TypeOK'
    BY <1>3, <1>4, <1>5 DEF ExecInv, TypeOK, evidence, bounds
  <1>7. Moves(a)
    BY <1>1, <1>3, <1>4, <1>5 DEF Moves, evidence, bounds
  <1>8. FilesInv(a)' /\ RunInv(a)'
    BY <1>2, <1>3, <1>4, <1>5 DEF FilesInv, RunInv, At, BeforePacket, Unstarted, evidence
  <1>9. ReceiptTells(d)' /\ Lasting(d)
    BY <1>2, <1>3 DEF ReceiptTells, Lasting, evidence
  <1> QED
    BY <1>6, <1>7, <1>8, <1>9, Frame DEF Steady

\* The sources are compared with the identity in hand.
LEMMA BuildSteps ==
    ASSUME ExecInv, NEW a \in Attempt, BuildPlan(a) \/ BuildPacket(a)
    PROVE  Steady
  <1> DEFINE d == WorkDir[a]
  <1>1. Holds(a) /\ (At(a, "plan") \/ At(a, "packet"))
    BY DEF BuildPlan, BuildPacket, Holds, TryBlock, At
  <1>2. d \in dirs /\ files[d] = {"claim"} /\ Steps > 0 /\ Steps \in Nat
    BY <1>1, ExecutionAssumption DEF ExecInv, FilesInv, At, BeforePacket
  <1>3. UNCHANGED <<edited, evidence, mem, bounds>>
    BY DEF BuildPlan, BuildPacket
  <1>4. PICK step \in {"run", "writepacket", "failure"} :
            /\ pc' = [pc EXCEPT ![a] = step]
            /\ step = "run" => At(a, "plan")
            /\ step = "writepacket" => At(a, "packet")
    BY DEF BuildPlan, BuildPacket, Go, At
  <1>5. pc'[a] = step
    BY <1>4 DEF ExecInv, TypeOK
  <1>6. FilesInv(a)'
    BY <1>2, <1>3, <1>5 DEF FilesInv, At, BeforePacket, evidence, bounds
  <1>7. RunInv(a)
    BY DEF ExecInv
  <1>8. RunInv(a)'
    BY <1>2, <1>3, <1>4, <1>5, <1>7 DEF RunInv, At, evidence, Unstarted
  <1> QED
    BY <1>1, <1>3, <1>4, <1>6, <1>8, GoesOn
    DEF evidence, bounds, TryBlock, InRun, Handler, ExecInv, TypeOK

-----------------------------------------------------------------------------
(* The run of the workflow.                                                *)

LEMMA StartStepStep ==
    ASSUME ExecInv, NEW a \in Attempt, StartStep(a)
    PROVE  Steady
  <1> DEFINE d == WorkDir[a]  n == mem[a].records
  <1>1. d \in StagingDir /\ Holds(a) /\ At(a, "run") /\ Steps \in Nat
    BY ExecutionAssumption DEF StartStep, Holds, TryBlock, InRun, At
  <1>2. /\ d \in dirs /\ files[d] = {"claim"} /\ store[d] = n
        /\ n < Steps /\ n \in 0..Steps /\ mem[a].trace.events = 2 * n
    BY <1>1 DEF ExecInv, FilesInv, RunInv, At, BeforePacket, TypeOK, Memory
  <1>3. UNCHANGED <<edited, evidence, edits>>
    BY DEF StartStep
  <1>4. /\ mem'[a].records = n /\ mem'[a].trace.events = 2 * n + 1
        /\ \A b \in Attempt \ {a} : mem'[b] = mem[b]
        /\ mem' \in [Attempt -> Memory]
    <2>1. Emit(a, "STEP_STARTED", n) /\ "STEP_STARTED" \in EventType
      BY DEF StartStep, EventType
    <2>2. mem[a].trace.events + 1 = 2 * n + 1 /\ 2 * n + 1 <= 2 * Steps
      BY <1>1, <1>2
    <2>3. /\ mem'[a].records = n
          /\ mem'[a].trace = [events |-> mem[a].trace.events + 1, last |-> "STEP_STARTED"]
          /\ \A b \in Attempt \ {a} : mem'[b] = mem[b]
          /\ mem' \in [Attempt -> Memory]
      BY <1>2, <2>1, <2>2, EmitIs
    <2> QED
      BY <2>2, <2>3
  <1>5. /\ \/ pc'[a] = "step" /\ faults' = faults
           \/ pc'[a] = "failure" /\ faults' = faults + 1
        /\ \A b \in Attempt \ {a} : pc'[b] = pc[b]
        /\ pc' \in [Attempt -> Unstarted \cup TryBlock \cup Handler \cup Ended]
        /\ faults' \in 0..MaxFaults /\ faults \in Nat
        /\ faults' = 0 => faults = 0
    BY ThenIs DEF StartStep, TryBlock, InRun, Handler
  <1>6. TypeOK'
    BY <1>3, <1>4, <1>5 DEF ExecInv, TypeOK, evidence
  <1>7. Moves(a)
    BY <1>1, <1>3, <1>4, <1>5 DEF Moves, evidence
  <1>8. FilesInv(a)' /\ RunInv(a)'
    BY <1>2, <1>3, <1>4, <1>5 DEF FilesInv, RunInv, At, BeforePacket, Unstarted, evidence
  <1>9. ReceiptTells(d)' /\ Lasting(d)
    BY <1>2, <1>3 DEF ReceiptTells, Lasting, evidence
  <1> QED
    BY <1>6, <1>7, <1>8, <1>9, Frame DEF Steady

\* A step ends: k is its number, m the steps in the store, n the records.
LEMMA FinishIs ==
    ASSUME ExecInv, NEW a \in Attempt, NEW k \in 1..Steps, NEW m \in {k - 1, k},
           NEW event \in EventType, Finish(a, k, m, event)
    PROVE  LET d == WorkDir[a]
               n == IF event = "STEP_FAILED" THEN k - 1 ELSE k
           IN  /\ d \in StagingDir /\ Holds(a) /\ d \in dirs /\ files[d] = {"claim"}
               /\ UNCHANGED <<edited, dirs, files, packet, receipt, trace, edits>>
               /\ store' \in [StagingDir -> 0..Steps] /\ store'[d] = m
               /\ \A e \in StagingDir \ {d} : store'[e] = store[e]
               /\ mem'[a].records = n
               /\ mem'[a].trace = [events |-> 2 * k, last |-> event]
               /\ \A b \in Attempt \ {a} : mem'[b] = mem[b]
               /\ mem' \in [Attempt -> Memory]
  <1> DEFINE d == WorkDir[a]
             n == IF event = "STEP_FAILED" THEN k - 1 ELSE k
  <1>1. d \in StagingDir /\ Holds(a) /\ At(a, "step") /\ Steps \in Nat
    BY ExecutionAssumption DEF Finish, Holds, TryBlock, InRun, At
  <1>2. d \in dirs /\ files[d] = {"claim"} /\ mem[a].trace.events = 2 * (k - 1) + 1
    <2>1. mem[a].records \in 0..Steps /\ k = mem[a].records + 1
      BY DEF ExecInv, TypeOK, Memory, Finish
    <2>2. d \in dirs /\ files[d] = {"claim"} /\ mem[a].trace.events = 2 * mem[a].records + 1
      BY <1>1 DEF ExecInv, FilesInv, RunInv, At, BeforePacket
    <2> QED
      BY <1>1, <2>1, <2>2
  <1>3. UNCHANGED <<edited, dirs, files, packet, receipt, trace, edits>>
    BY DEF Finish
  <1>4. /\ store' \in [StagingDir -> 0..Steps] /\ store'[d] = m
        /\ \A e \in StagingDir \ {d} : store'[e] = store[e]
    BY <1>1 DEF Finish, ExecInv, TypeOK
  <1>5. n \in 0..Steps /\ Emit(a, event, n)
    BY <1>1 DEF Finish
  <1>6. /\ mem'[a].records = n
        /\ mem'[a].trace = [events |-> mem[a].trace.events + 1, last |-> event]
        /\ \A b \in Attempt \ {a} : mem'[b] = mem[b]
        /\ mem' \in [Attempt -> Memory]
    BY <1>1, <1>2, <1>5, EmitIs
  <1>7. mem'[a].trace = [events |-> 2 * k, last |-> event]
    BY <1>1, <1>2, <1>6
  <1> QED
    BY <1>1, <1>2, <1>3, <1>4, <1>6, <1>7

LEMMA CompleteStepStep ==
    ASSUME ExecInv, NEW a \in Attempt, CompleteStep(a)
    PROVE  Steady
  <1> DEFINE d == WorkDir[a]
  <1>1. PICK k \in 1..Steps : /\ Finish(a, k, k, "STEP_COMPLETED")
                             /\ Then(a, IF k = Steps THEN "packet" ELSE "run", "failure")
    BY DEF CompleteStep
  <1>2. /\ d \in StagingDir /\ Holds(a) /\ d \in dirs /\ files[d] = {"claim"}
        /\ UNCHANGED <<edited, dirs, files, packet, receipt, trace, edits>>
        /\ store' \in [StagingDir -> 0..Steps] /\ store'[d] = k
        /\ \A e \in StagingDir \ {d} : store'[e] = store[e]
        /\ mem'[a].records = k
        /\ mem'[a].trace = [events |-> 2 * k, last |-> "STEP_COMPLETED"]
        /\ \A b \in Attempt \ {a} : mem'[b] = mem[b]
        /\ mem' \in [Attempt -> Memory]
    BY <1>1, FinishIs DEF EventType
  <1>3. /\ \/ pc'[a] = (IF k = Steps THEN "packet" ELSE "run") /\ faults' = faults
           \/ pc'[a] = "failure" /\ faults' = faults + 1
        /\ \A b \in Attempt \ {a} : pc'[b] = pc[b]
        /\ pc' \in [Attempt -> Unstarted \cup TryBlock \cup Handler \cup Ended]
        /\ faults' \in 0..MaxFaults /\ faults \in Nat
        /\ faults' = 0 => faults = 0
    BY <1>1, ThenIs DEF TryBlock, InRun, Handler
  <1>4. TypeOK'
    BY <1>2, <1>3 DEF ExecInv, TypeOK
  <1>5. Moves(a)
    BY <1>2, <1>3 DEF Moves
  <1>6. FilesInv(a)' /\ RunInv(a)'
    BY <1>2, <1>3, ExecutionAssumption DEF FilesInv, RunInv, At, BeforePacket, Unstarted
  <1>7. ReceiptTells(d)' /\ Lasting(d)
    BY <1>2 DEF ReceiptTells, Lasting
  <1> QED
    BY <1>4, <1>5, <1>6, <1>7, Frame DEF Steady

LEMMA BlockStepStep ==
    ASSUME ExecInv, NEW a \in Attempt, BlockStep(a)
    PROVE  Steady
  <1> DEFINE d == WorkDir[a]
  <1>1. /\ d \in StagingDir /\ Holds(a) /\ d \in dirs /\ files[d] = {"claim"}
        /\ UNCHANGED <<edited, dirs, files, packet, receipt, trace, edits>>
        /\ store' \in [StagingDir -> 0..Steps] /\ store'[d] = Readiness
        /\ \A e \in StagingDir \ {d} : store'[e] = store[e]
        /\ mem'[a].records = Readiness
        /\ mem'[a].trace = [events |-> 2 * Readiness, last |-> "STEP_BLOCKED"]
        /\ \A b \in Attempt \ {a} : mem'[b] = mem[b]
        /\ mem' \in [Attempt -> Memory]
    BY FinishIs, ExecutionAssumption DEF BlockStep, EventType
  <1>2. /\ \/ pc'[a] = "blockedreceipt" /\ faults' = faults
           \/ pc'[a] = "failure" /\ faults' = faults + 1
        /\ \A b \in Attempt \ {a} : pc'[b] = pc[b]
        /\ pc' \in [Attempt -> Unstarted \cup TryBlock \cup Handler \cup Ended]
        /\ faults' \in 0..MaxFaults /\ faults \in Nat
        /\ faults' = 0 => faults = 0
    BY ThenIs DEF BlockStep, TryBlock, InRun, Handler
  <1>3. TypeOK'
    BY <1>1, <1>2 DEF ExecInv, TypeOK
  <1>4. Moves(a)
    BY <1>1, <1>2 DEF Moves
  <1>5. FilesInv(a)' /\ RunInv(a)'
    BY <1>1, <1>2 DEF FilesInv, RunInv, At, BeforePacket, Unstarted
  <1>6. ReceiptTells(d)' /\ Lasting(d)
    BY <1>1 DEF ReceiptTells, Lasting
  <1> QED
    BY <1>3, <1>4, <1>5, <1>6, Frame DEF Steady

LEMMA FailStepStep ==
    ASSUME ExecInv, NEW a \in Attempt, FailStep(a)
    PROVE  Steady
  <1> DEFINE d == WorkDir[a]
  <1>1. PICK k \in 1..Steps : \E m \in {k - 1, k} : Finish(a, k, m, "STEP_FAILED")
    BY DEF FailStep
  <1>2. /\ d \in StagingDir /\ Holds(a) /\ d \in dirs /\ files[d] = {"claim"}
        /\ UNCHANGED <<edited, dirs, files, packet, receipt, trace, edits>>
        /\ store' \in [StagingDir -> 0..Steps]
        /\ \A e \in StagingDir \ {d} : store'[e] = store[e]
        /\ \A b \in Attempt \ {a} : mem'[b] = mem[b]
        /\ mem' \in [Attempt -> Memory]
    BY <1>1, FinishIs DEF EventType
  <1>3. /\ pc'[a] = "failure" /\ faults' = faults
        /\ \A b \in Attempt \ {a} : pc'[b] = pc[b]
        /\ pc' \in [Attempt -> Unstarted \cup TryBlock \cup Handler \cup Ended]
    <2>1. pc' = [pc EXCEPT ![a] = "failure"] /\ faults' = faults
      BY DEF FailStep, Go
    <2>2. pc \in [Attempt -> Unstarted \cup TryBlock \cup Handler \cup Ended]
      BY DEF ExecInv, TypeOK
    <2> QED
      BY <2>1, <2>2 DEF Handler
  <1>4. TypeOK'
    BY <1>2, <1>3 DEF ExecInv, TypeOK
  <1>5. Moves(a)
    BY <1>2, <1>3 DEF Moves
  <1>6. FilesInv(a)' /\ RunInv(a)'
    BY <1>2, <1>3 DEF FilesInv, RunInv, At, BeforePacket, Unstarted
  <1>7. ReceiptTells(d)' /\ Lasting(d)
    BY <1>2 DEF ReceiptTells, Lasting
  <1> QED
    BY <1>4, <1>5, <1>6, <1>7, Frame DEF Steady

-----------------------------------------------------------------------------
(* The evidence of a run that ended.                                       *)

\* The receipt says of the run what memory and store say.
LEMMA ReceiptSteps ==
    ASSUME ExecInv, NEW a \in Attempt, WriteBlockedReceipt(a) \/ WriteCompletedReceipt(a)
    PROVE  Steady
  <1> DEFINE d == WorkDir[a]
  <1>1. PICK status \in {"BLOCKED", "COMPLETED"} :
            /\ WriteReceipt(a, status)
            /\ At(a, IF status = "BLOCKED" THEN "blockedreceipt" ELSE "receipt")
    BY DEF WriteBlockedReceipt, WriteCompletedReceipt
  <1> DEFINE r == ReceiptRecord(a, status)
  <1>2. d \in StagingDir /\ Holds(a) /\ Steps \in Nat /\ Readiness \in 1..Steps
    BY <1>1, ExecutionAssumption DEF Holds, TryBlock, InRun, At
  <1>3. mem[a].records \in 0..Steps /\ mem \in [Attempt -> Memory]
    BY DEF ExecInv, TypeOK, Memory
  <1>4. /\ r \in Receipt /\ r.status = status
        /\ r.steps = mem[a].records
    BY <1>3 DEF ReceiptRecord, Receipt
  <1>5. /\ d \in dirs /\ store[d] = r.steps
        /\ r.steps = IF status = "COMPLETED" THEN Steps ELSE Readiness
        /\ files[d] = IF status = "COMPLETED" THEN {"claim", "packet"} ELSE {"claim"}
        /\ mem[a].trace = TraceOf(r)
    <2>1. pc[a] = IF status = "BLOCKED" THEN "blockedreceipt" ELSE "receipt"
      BY <1>1 DEF At
    <2>2. FilesInv(a) /\ RunInv(a)
      BY DEF ExecInv
    <2>3. d \in dirs /\ files[d] = IF status = "COMPLETED" THEN {"claim", "packet"} ELSE {"claim"}
      BY <1>2, <2>1, <2>2 DEF FilesInv, At, BeforePacket
    <2>4. /\ store[d] = mem[a].records
          /\ mem[a].records = IF status = "COMPLETED" THEN Steps ELSE Readiness
          /\ mem[a].trace =
                [events |-> 2 * mem[a].records,
                 last |-> IF status = "COMPLETED" THEN "STEP_COMPLETED" ELSE "STEP_BLOCKED"]
      BY <2>1, <2>2 DEF RunInv, At
    <2> QED
      BY <1>4, <2>3, <2>4 DEF TraceOf
  <1>6. /\ UNCHANGED <<edited, dirs, packet, trace, store, mem, edits>>
        /\ receipt' = [receipt EXCEPT ![d] = r]
    BY <1>1 DEF WriteReceipt
  <1> HIDE DEF r
  <1>7. /\ receipt' \in [StagingDir -> Receipt] /\ receipt'[d] = r
        /\ \A e \in StagingDir \ {d} : receipt'[e] = receipt[e]
    BY <1>2, <1>4, <1>6 DEF ExecInv, TypeOK
  <1>8. /\ files'[d] = files[d] \cup {"receipt"}
        /\ \A e \in StagingDir \ {d} : files'[e] = files[e]
        /\ files' \in [StagingDir -> SUBSET EvidenceFile]
    BY <1>1, PutIs DEF WriteReceipt, EvidenceFile
  <1>9. /\ \/ pc'[a] = "trace" /\ faults' = faults
           \/ pc'[a] = "failure" /\ faults' = faults + 1
        /\ \A b \in Attempt \ {a} : pc'[b] = pc[b]
        /\ pc' \in [Attempt -> Unstarted \cup TryBlock \cup Handler \cup Ended]
        /\ faults' \in 0..MaxFaults /\ faults \in Nat
        /\ faults' = 0 => faults = 0
    BY <1>1, ThenIs DEF WriteReceipt, TryBlock, Handler
  <1>10. TypeOK'
    BY <1>6, <1>7, <1>8, <1>9 DEF ExecInv, TypeOK
  <1>11. Moves(a)
    BY <1>2, <1>6, <1>7, <1>8, <1>9 DEF Moves
  <1>12. FilesInv(a)'
    BY <1>4, <1>5, <1>6, <1>7, <1>8, <1>9 DEF FilesInv, At, BeforePacket, WithReceipt
  <1>13. RunInv(a)'
    BY <1>5, <1>6, <1>7, <1>9 DEF RunInv, At, Unstarted, TraceOf
  <1>14. ReceiptTells(d)'
    BY <1>4, <1>5, <1>6, <1>7, <1>8 DEF ReceiptTells
  <1>15. Lasting(d)
    BY <1>5, <1>8 DEF Lasting
  <1> QED
    BY <1>10, <1>11, <1>12, <1>13, <1>14, <1>15, Frame DEF Steady

LEMMA PacketStep ==
    ASSUME ExecInv, NEW a \in Attempt, WritePacket(a)
    PROVE  Steady
  <1> DEFINE d == WorkDir[a]
  <1>1. d \in StagingDir /\ Holds(a) /\ At(a, "writepacket")
    BY ExecutionAssumption DEF WritePacket, Holds, TryBlock, At
  <1>2. d \in dirs /\ files[d] = {"claim"} /\ RunInv(a)
    BY <1>1 DEF ExecInv, FilesInv, At, BeforePacket
  <1>3. UNCHANGED <<edited, dirs, receipt, trace, store, mem, edits>>
    BY DEF WritePacket
  <1>4. packet' \in [StagingDir -> BOOLEAN]
    BY DEF WritePacket, ExecInv, TypeOK
  <1>5. /\ files'[d] = {"claim", "packet"}
        /\ \A e \in StagingDir \ {d} : files'[e] = files[e]
        /\ files' \in [StagingDir -> SUBSET EvidenceFile]
    BY <1>2, PutIs DEF WritePacket, EvidenceFile
  <1>6. /\ \/ pc'[a] = "receipt" /\ faults' = faults
           \/ pc'[a] = "failure" /\ faults' = faults + 1
        /\ \A b \in Attempt \ {a} : pc'[b] = pc[b]
        /\ pc' \in [Attempt -> Unstarted \cup TryBlock \cup Handler \cup Ended]
        /\ faults' \in 0..MaxFaults /\ faults \in Nat
        /\ faults' = 0 => faults = 0
    BY ThenIs DEF WritePacket, TryBlock, Handler
  <1>7. TypeOK'
    BY <1>3, <1>4, <1>5, <1>6 DEF ExecInv, TypeOK
  <1>8. Moves(a)
    BY <1>1, <1>3, <1>5, <1>6 DEF Moves
  <1>9. FilesInv(a)' /\ RunInv(a)'
    BY <1>1, <1>2, <1>3, <1>5, <1>6 DEF FilesInv, RunInv, At, BeforePacket, Unstarted
  <1>10. ReceiptTells(d)' /\ Lasting(d)
    BY <1>2, <1>3, <1>5 DEF ReceiptTells, Lasting
  <1> QED
    BY <1>7, <1>8, <1>9, <1>10, Frame DEF Steady

\* The trace is written behind a receipt, or at last behind a failure record.
LEMMA TraceSteps ==
    ASSUME ExecInv, NEW a \in Attempt, WriteTrace(a) \/ WriteFailureTrace(a)
    PROVE  Steady
  <1> DEFINE d == WorkDir[a]
  <1>1. d \in StagingDir /\ Holds(a) /\ (At(a, "trace") \/ At(a, "failuretrace"))
    BY ExecutionAssumption DEF WriteTrace, WriteFailureTrace, Holds, TryBlock, Handler, At
  <1>2. d \in dirs /\ FilesInv(a) /\ RunInv(a) /\ ReceiptTells(d)
    BY <1>1 DEF ExecInv, FilesInv
  <1>3. UNCHANGED <<edited, dirs, packet, receipt, store, mem, edits>>
    BY DEF WriteTrace, WriteFailureTrace
  <1>4. /\ trace' \in [StagingDir -> Trace] /\ trace'[d] = mem[a].trace
        /\ \A e \in StagingDir \ {d} : trace'[e] = trace[e]
    BY <1>1 DEF WriteTrace, WriteFailureTrace, ExecInv, TypeOK, Memory
  <1>5. /\ files'[d] = files[d] \cup {"trace"}
        /\ \A e \in StagingDir \ {d} : files'[e] = files[e]
        /\ files' \in [StagingDir -> SUBSET EvidenceFile]
    BY PutIs DEF WriteTrace, WriteFailureTrace, EvidenceFile
  <1>6. /\ \/ /\ At(a, "trace")
              /\ \/ pc'[a] = "hash" /\ faults' = faults
                 \/ pc'[a] = "failure" /\ faults' = faults + 1
           \/ At(a, "failuretrace") /\ pc'[a] = "failed"
        /\ \A b \in Attempt \ {a} : pc'[b] = pc[b]
        /\ pc' \in [Attempt -> Unstarted \cup TryBlock \cup Handler \cup Ended]
        /\ faults' \in 0..MaxFaults /\ faults \in Nat
        /\ faults' = 0 => faults = 0
    <2>1. CASE WriteTrace(a)
      BY <2>1, ThenIs DEF WriteTrace, TryBlock, Handler
    <2>2. CASE WriteFailureTrace(a)
      BY <2>2, ThenIs DEF WriteFailureTrace, Ended
    <2> QED
      BY <2>1, <2>2
  <1>7. TypeOK'
    BY <1>3, <1>4, <1>5, <1>6 DEF ExecInv, TypeOK
  <1>8. Moves(a)
    BY <1>1, <1>3, <1>4, <1>5, <1>6 DEF Moves
  <1>9. FilesInv(a)'
    BY <1>1, <1>2, <1>3, <1>5, <1>6 DEF FilesInv, At, BeforePacket, WithReceipt
  <1>10. "receipt" \in files[d] => mem[a].trace = TraceOf(receipt[d])
    BY <1>1, <1>2 DEF RunInv, At
  <1>11. RunInv(a)'
    BY <1>3, <1>5, <1>6, <1>10 DEF RunInv, At, Unstarted, TraceOf
  <1>12. ReceiptTells(d)' /\ Lasting(d)
    BY <1>2, <1>3, <1>4, <1>5, <1>10 DEF ReceiptTells, Lasting, TraceOf
  <1> QED
    BY <1>7, <1>8, <1>9, <1>11, <1>12, Frame DEF Steady

LEMMA HashStep ==
    ASSUME ExecInv, NEW a \in Attempt, HashReceipt(a)
    PROVE  Steady
  <1> DEFINE d == WorkDir[a]
  <1>1. Holds(a) /\ At(a, "hash") /\ d \in StagingDir
    BY ExecutionAssumption DEF HashReceipt, Holds, TryBlock, At
  <1>2. d \in dirs /\ FilesInv(a) /\ receipt[d].status \in {"COMPLETED", "BLOCKED"}
    BY <1>1 DEF ExecInv, FilesInv, TypeOK, Receipt
  <1>3. UNCHANGED <<edited, evidence, mem, bounds>>
    BY DEF HashReceipt
  <1>4. PICK step \in {"completed", "blocked"} :
            /\ pc' = [pc EXCEPT ![a] = step]
            /\ step = "completed" <=> receipt[d].status = "COMPLETED"
    BY DEF HashReceipt, Go
  <1>5. pc'[a] = step
    BY <1>4 DEF ExecInv, TypeOK
  <1>6. FilesInv(a)'
    BY <1>1, <1>2, <1>3, <1>4, <1>5 DEF FilesInv, At, BeforePacket, evidence, WithReceipt
  <1>7. RunInv(a)'
    BY <1>5 DEF RunInv, At, Unstarted
  <1> QED
    BY <1>1, <1>3, <1>4, <1>6, <1>7, GoesOn DEF evidence, bounds, Ended, ExecInv, TypeOK

\* The failure record goes beside whatever the try block has written.
LEMMA FailureStep ==
    ASSUME ExecInv, NEW a \in Attempt, WriteFailure(a)
    PROVE  Steady
  <1> DEFINE d == WorkDir[a]
  <1>1. d \in StagingDir /\ Holds(a) /\ At(a, "failure")
    BY ExecutionAssumption DEF WriteFailure, Holds, Handler, At
  <1>2. d \in dirs /\ FilesInv(a) /\ RunInv(a) /\ ReceiptTells(d)
    BY <1>1 DEF ExecInv, FilesInv
  <1>3. UNCHANGED <<edited, dirs, packet, receipt, trace, store, mem, edits>>
    BY DEF WriteFailure
  <1>4. /\ files'[d] = files[d] \cup {"failure"}
        /\ \A e \in StagingDir \ {d} : files'[e] = files[e]
        /\ files' \in [StagingDir -> SUBSET EvidenceFile]
    BY PutIs DEF WriteFailure, EvidenceFile
  <1>5. /\ \/ pc'[a] = "failuretrace" /\ faults' = faults
           \/ pc'[a] = "failed" /\ faults' = faults + 1
        /\ \A b \in Attempt \ {a} : pc'[b] = pc[b]
        /\ pc' \in [Attempt -> Unstarted \cup TryBlock \cup Handler \cup Ended]
        /\ faults' \in 0..MaxFaults /\ faults \in Nat
        /\ faults' = 0 => faults = 0
    BY ThenIs DEF WriteFailure, Handler, Ended
  <1>6. TypeOK'
    BY <1>3, <1>4, <1>5 DEF ExecInv, TypeOK
  <1>7. Moves(a)
    BY <1>1, <1>3, <1>4, <1>5 DEF Moves
  <1>8. FilesInv(a)' /\ RunInv(a)'
    BY <1>1, <1>2, <1>3, <1>4, <1>5 DEF FilesInv, RunInv, At, BeforePacket, Unstarted, TraceOf
  <1>9. ReceiptTells(d)' /\ Lasting(d)
    BY <1>2, <1>3, <1>4 DEF ReceiptTells, Lasting, TraceOf
  <1> QED
    BY <1>6, <1>7, <1>8, <1>9, Frame DEF Steady

-----------------------------------------------------------------------------
(* Faults and the environment.                                             *)

LEMMA IOErrorStep ==
    ASSUME ExecInv, NEW a \in Attempt, IOError(a)
    PROVE  Steady
  <1> DEFINE d == WorkDir[a]
  <1>1. faults \in Nat /\ faults' = faults + 1 /\ faults' \in 0..MaxFaults /\ faults' # 0
    BY ExecutionAssumption DEF IOError, ExecInv, TypeOK
  <1>2. UNCHANGED <<edited, evidence, mem, edits>>
    BY DEF IOError
  <1>3. PICK step \in {"refused", "failure", "failed"} :
            /\ pc' = [pc EXCEPT ![a] = step]
            /\ step = "failure" => pc[a] \in TryBlock
            /\ step = "failed" => pc[a] \in Handler
    BY DEF IOError, Go, At, TryBlock, InRun
  <1>4. pc'[a] = step
    BY <1>3 DEF ExecInv, TypeOK
  <1>5. FilesInv(a) /\ RunInv(a)
    BY DEF ExecInv
  <1>6. step # "refused" => Holds(a) /\ d \in dirs
    BY <1>3, <1>5 DEF Holds, FilesInv
  <1>7. step = "failure" => "failure" \notin files[d]
    BY <1>3, <1>5 DEF FilesInv, At, TryBlock, InRun, BeforePacket, WithReceipt
  <1>8. FilesInv(a)'
    BY <1>1, <1>2, <1>4, <1>6, <1>7
    DEF FilesInv, At, BeforePacket, evidence, Holds, TryBlock, Handler, InRun
  <1>9. step = "failure" /\ "receipt" \in files[d] => mem[a].trace = TraceOf(receipt[d])
    <2> SUFFICES ASSUME step = "failure", "receipt" \in files[d]
                 PROVE  mem[a].trace = TraceOf(receipt[d])
      OBVIOUS
    <2>1. pc[a] \in {"trace", "hash"}
      BY <1>3, <1>5 DEF FilesInv, At, TryBlock, InRun, BeforePacket
    <2> QED
      BY <1>5, <2>1 DEF RunInv, At
  <1>10. RunInv(a)'
    BY <1>2, <1>4, <1>9 DEF RunInv, At, Unstarted, evidence, TraceOf
  <1>11. Holds(a)' => Holds(a)
    BY <1>4, <1>6 DEF Holds, TryBlock, Handler, InRun
  <1> QED
    BY <1>1, <1>2, <1>3, <1>8, <1>10, <1>11, GoesOn DEF evidence, Ended, Handler

LEMMA CrashStep ==
    ASSUME ExecInv, NEW a \in Attempt, Crash(a)
    PROVE  Steady
  <1>1. faults \in Nat /\ faults' = faults + 1 /\ faults' \in 0..MaxFaults
    BY ExecutionAssumption DEF Crash, ExecInv, TypeOK
  <1>2. UNCHANGED <<edited, evidence, mem, edits>> /\ pc' = [pc EXCEPT ![a] = "crashed"]
    BY DEF Crash, Go
  <1>3. pc'[a] = "crashed"
    BY <1>2 DEF ExecInv, TypeOK
  <1>4. FilesInv(a)' /\ RunInv(a)' /\ ~ Holds(a)'
    BY <1>3 DEF FilesInv, RunInv, At, Holds, TryBlock, InRun, Handler, BeforePacket, Unstarted
  <1> QED
    BY <1>1, <1>2, <1>4, GoesOn DEF evidence, Ended

\* What the environment, or nobody, does to the attempts.
LEMMA Untouched ==
    ASSUME ExecInv, UNCHANGED <<evidence, pc, mem, faults>>,
           edited' \subseteq SourcePart, edits' \in 0..MaxEdits
    PROVE  Steady
  <1>1. TypeOK'
    BY DEF ExecInv, TypeOK, evidence
  <1>2. \A a \in Attempt : FilesInv(a)' /\ RunInv(a)'
    BY DEF ExecInv, evidence, FilesInv, RunInv, At, Holds, WithReceipt, TraceOf
  <1>3. AuthorizationConsumedOnce' /\ \A d \in StagingDir : ReceiptTells(d)' /\ Lasting(d)
    BY DEF ExecInv, evidence, AuthorizationConsumedOnce, Holds, ReceiptTells, TraceOf, Lasting
  <1>4. \A d \in StagingDir : d \notin dirs' => files'[d] = {} /\ store'[d] = 0
    BY DEF ExecInv, evidence
  <1> QED
    BY <1>1, <1>2, <1>3, <1>4 DEF Steady, ExecInv

LEMMA ExecutorStep ==
    ASSUME ExecInv, [Next]_vars
    PROVE  Steady
  <1>1. CASE UNCHANGED vars
    BY <1>1, Untouched DEF vars, bounds, ExecInv, TypeOK
  <1>2. CASE EditSource
    <2>1. edited' \subseteq SourcePart /\ edits' \in 0..MaxEdits
      BY <1>2, ExecutionAssumption DEF EditSource, ExecInv, TypeOK
    <2> QED
      BY <1>2, <2>1, Untouched DEF EditSource
  <1> QED
    BY <1>1, <1>2, ValidateStep, ConsumeStep, ClaimStep, IdentifySteps, BuildSteps,
       StartStepStep, CompleteStepStep, BlockStepStep, FailStepStep, ReceiptSteps, PacketStep,
       TraceSteps, HashStep, FailureStep, IOErrorStep, CrashStep DEF Next, Advance

-----------------------------------------------------------------------------
(* The review.                                                             *)

LEMMA InitInspection == ReviewInit => InspectionInv
  <1> SUFFICES ASSUME ReviewInit PROVE InspectionInv
    OBVIOUS
  <1>1. ReviewTypeOK
    <2>1. TypeOK
      BY InitExec DEF ReviewInit, ExecInv
    <2>2. NothingSeen \in Evidence
      BY ExecutionAssumption
      DEF NothingSeen, Evidence, NoReceipt, Receipt, NoEvents, Trace, EventType
    <2> QED
      BY <2>1, <2>2 DEF ReviewInit, ReviewTypeOK
  <1> QED
    BY <1>1 DEF ReviewInit, InspectionInv, SeenInv, ReportsInv

\* Whatever the executor does, what was seen and reported stays true.
LEMMA ExecutorKeeps ==
    ASSUME ExecInv, InspectionInv, Steady, UNCHANGED reviewVars
    PROVE  InspectionInv'
  <1>1. ReviewTypeOK'
    BY DEF InspectionInv, ReviewTypeOK, reviewVars, Steady, ExecInv
  <1>2. ASSUME NEW d \in StagingDir
        PROVE  ReportsInv(d)'
    BY DEF InspectionInv, ReportsInv, Steady, Lasting, reviewVars
  <1>3. ASSUME NEW i \in Inspector, rdir[i] # NoDir
        PROVE  SeenInv(i)'
    <2> DEFINE d == rdir[i]
    <2>1. d \in StagingDir /\ SeenInv(i) /\ Lasting(d)
      BY <1>3 DEF InspectionInv, ReviewTypeOK, Steady
    <2> QED
      BY <1>3, <2>1 DEF SeenInv, Lasting, reviewVars
  <1>4. \A i \in Inspector : SeenInv(i)'
    BY <1>3 DEF SeenInv, reviewVars
  <1> QED
    BY <1>1, <1>2, <1>4 DEF InspectionInv, reviewVars

LEMMA ReadingIs ==
    ASSUME ReviewTypeOK, NEW o \in Evidence, NEW name \in EvidenceFile, NEW d \in StagingDir
    PROVE  LET p == Reading(o, name, d) IN
           /\ p \in Evidence
           /\ p.files = IF name \in files[d] THEN o.files \cup {name} ELSE o.files
           /\ p.receipt = IF name = "receipt" /\ name \in files[d] THEN receipt[d] ELSE o.receipt
  <1>1. packet[d] \in BOOLEAN /\ receipt[d] \in Receipt /\ trace[d] \in Trace
    BY DEF ReviewTypeOK, TypeOK
  <1>2. CASE name \notin files[d]
    BY <1>2 DEF Reading
  <1>3. CASE name \in files[d]
    <2> DEFINE v == IF name = "packet" THEN packet[d] ELSE o.packet
               r == IF name = "receipt" THEN receipt[d] ELSE o.receipt
               t == IF name = "trace" THEN trace[d] ELSE o.trace
    <2>1. o = [files |-> o.files, packet |-> o.packet, receipt |-> o.receipt, trace |-> o.trace]
      BY DEF Evidence
    <2>2. Reading(o, name, d) =
              [files |-> o.files \cup {name}, packet |-> v, receipt |-> r, trace |-> t]
      BY <1>3, <2>1 DEF Reading
    <2>3. v \in BOOLEAN /\ r \in Receipt /\ t \in Trace /\ o.files \cup {name} \subseteq EvidenceFile
      BY <1>1 DEF Evidence
    <2> HIDE DEF v, t
    <2> QED
      BY <1>3, <2>2, <2>3 DEF Evidence
  <1> QED
    BY <1>2, <1>3

LEMMA StartKeeps ==
    ASSUME InspectionInv, NEW i \in Inspector, NEW d \in StagingDir, StartInspection(i, d)
    PROVE  InspectionInv'
  <1>1. UNCHANGED <<vars, seen, reports, dispositions>> /\ rstep[i] = "idle"
    BY DEF StartInspection
  <1>2. /\ rstep' \in [Inspector -> EvidenceFile \cup {"idle", "store"}]
        /\ rdir' \in [Inspector -> StagingDir \cup {NoDir}]
        /\ rstep'[i] = "claim" /\ rdir'[i] = d
        /\ \A j \in Inspector \ {i} : rstep'[j] = rstep[j] /\ rdir'[j] = rdir[j]
    BY DEF StartInspection, InspectionInv, ReviewTypeOK, EvidenceFile
  <1>3. ReviewTypeOK'
    BY <1>1, <1>2 DEF InspectionInv, ReviewTypeOK, TypeOK, vars, evidence, bounds
  <1>4. seen[i].files = {} /\ d # NoDir
    BY <1>1, ReviewAssumption DEF InspectionInv, NothingSeen
  <1>5. \A j \in Inspector : SeenInv(j)'
    BY <1>1, <1>2, <1>4 DEF InspectionInv, SeenInv, vars, evidence
  <1>6. \A e \in StagingDir : ReportsInv(e)'
    BY <1>1 DEF InspectionInv, ReportsInv, vars, evidence
  <1> QED
    BY <1>1, <1>2, <1>3, <1>4, <1>5, <1>6 DEF InspectionInv

LEMMA LoadKeeps ==
    ASSUME InspectionInv, NEW i \in Inspector, NEW name \in EvidenceFile,
           NEW next \in EvidenceFile \cup {"store"}, next = "store" => name = "packet",
           Load(i, name, next)
    PROVE  InspectionInv'
  <1> DEFINE d == rdir[i]  o == Reading(seen[i], name, d)
  <1>1. UNCHANGED <<vars, rdir, reports, dispositions>> /\ rstep[i] = name
    BY DEF Load
  <1>2. d \in StagingDir /\ d # NoDir /\ SeenInv(i) /\ seen[i] \in Evidence
    BY <1>1 DEF InspectionInv, ReviewTypeOK, EvidenceFile
  <1>3. /\ o \in Evidence
        /\ o.files = IF name \in files[d] THEN seen[i].files \cup {name} ELSE seen[i].files
        /\ o.receipt = IF name = "receipt" /\ name \in files[d]
                       THEN receipt[d] ELSE seen[i].receipt
    BY <1>2, ReadingIs DEF InspectionInv
  <1>4. /\ rstep' \in [Inspector -> EvidenceFile \cup {"idle", "store"}]
        /\ seen' \in [Inspector -> Evidence]
        /\ rstep'[i] = next /\ seen'[i] = o
        /\ \A j \in Inspector \ {i} : rstep'[j] = rstep[j] /\ seen'[j] = seen[j]
    BY <1>3 DEF Load, InspectionInv, ReviewTypeOK
  <1> HIDE DEF o
  <1>5. ReviewTypeOK'
    BY <1>1, <1>4 DEF InspectionInv, ReviewTypeOK, TypeOK, vars, evidence, bounds
  <1>6. SeenInv(i)'
    BY <1>1, <1>2, <1>3, <1>4 DEF SeenInv, vars, evidence
  <1>7. \A j \in Inspector \ {i} : SeenInv(j)'
    BY <1>1, <1>4 DEF InspectionInv, SeenInv, vars, evidence
  <1>8. \A e \in StagingDir : ReportsInv(e)'
    BY <1>1 DEF InspectionInv, ReportsInv, vars, evidence
  <1>9. next # "idle"
    BY DEF EvidenceFile
  <1> QED
    BY <1>1, <1>2, <1>4, <1>5, <1>6, <1>7, <1>8, <1>9 DEF InspectionInv

\* What a verdict rests on.
LEMMA VerdictIs ==
    ASSUME NEW o \in Evidence, NEW phases
    PROVE  LET v == Verdict(o, phases) IN
           /\ v \in Verdicts \cup {Raises}
           /\ v = "VALID_COMPLETED" =>
                 /\ {"claim", "packet", "receipt", "trace"} \subseteq o.files
                 /\ o.receipt.status = "COMPLETED"
           /\ v = "VALID_BLOCKED" => "receipt" \in o.files /\ o.receipt.status = "BLOCKED"
           /\ v \in {"VALID_FAILED", "FAILED_BEFORE_CLAIM_PERSISTED"} =>
                 "failure" \in o.files /\ "packet" \notin o.files
  <1>1. o.receipt.status \in {"COMPLETED", "BLOCKED"}
    BY DEF Evidence, Receipt
  <1>2. CASE Admissible(o) /\ Has(o, "receipt") /\ ReceiptHolds(o, phases)
    BY <1>1, <1>2 DEF Verdict, Verdicts, Admissible, Has, ReceiptHolds
  <1>3. CASE Admissible(o) /\ ~ Has(o, "receipt") /\ ~ Has(o, "packet")
    BY <1>3 DEF Verdict, Verdicts, Admissible, Has
  <1>4. CASE /\ ~ (Admissible(o) /\ Has(o, "receipt") /\ ReceiptHolds(o, phases))
             /\ ~ (Admissible(o) /\ ~ Has(o, "receipt") /\ ~ Has(o, "packet"))
    BY <1>4 DEF Verdict, Raises
  <1> QED
    BY <1>2, <1>3, <1>4

LEMMA StoreKeeps ==
    ASSUME ExecInv, InspectionInv, NEW i \in Inspector, InspectStore(i)
    PROVE  InspectionInv'
  <1>1. UNCHANGED <<vars, dispositions>> /\ rstep[i] = "store"
    BY DEF InspectStore
  <1>0. PICK d \in StagingDir : d = rdir[i] /\ d # NoDir
    BY <1>1 DEF InspectionInv, ReviewTypeOK
  <1> DEFINE v == Verdict(seen[i], store[d])
  <1>2. /\ d = rdir[i] /\ d # NoDir /\ SeenInv(i) /\ seen[i] \in Evidence
        /\ ReportsInv(d) /\ ReceiptTells(d)
    BY <1>0 DEF InspectionInv, ReviewTypeOK, ExecInv
  <1>3. /\ v \in Verdicts \cup {Raises}
        /\ v = "VALID_COMPLETED" =>
              /\ {"claim", "packet", "receipt", "trace"} \subseteq seen[i].files
              /\ seen[i].receipt.status = "COMPLETED"
        /\ v = "VALID_BLOCKED" =>
              "receipt" \in seen[i].files /\ seen[i].receipt.status = "BLOCKED"
        /\ v \in {"VALID_FAILED", "FAILED_BEFORE_CLAIM_PERSISTED"} =>
              "failure" \in seen[i].files /\ "packet" \notin seen[i].files
    BY <1>2, VerdictIs
  <1>4. reports' = IF v = Raises THEN reports ELSE [reports EXCEPT ![d] = @ \cup {v}]
    BY <1>0 DEF InspectStore
  <1> HIDE DEF v
  <1>5. /\ rstep' \in [Inspector -> EvidenceFile \cup {"idle", "store"}]
        /\ rdir' \in [Inspector -> StagingDir \cup {NoDir}]
        /\ seen' \in [Inspector -> Evidence]
        /\ rstep'[i] = "idle" /\ rdir'[i] = NoDir /\ seen'[i] = NothingSeen
        /\ \A j \in Inspector \ {i} :
              rstep'[j] = rstep[j] /\ rdir'[j] = rdir[j] /\ seen'[j] = seen[j]
    <2>1. NothingSeen \in Evidence
      BY ExecutionAssumption
      DEF NothingSeen, Evidence, NoReceipt, Receipt, NoEvents, Trace, EventType
    <2> QED
      BY <2>1 DEF InspectStore, InspectionInv, ReviewTypeOK
  <1>6. /\ reports' \in [StagingDir -> SUBSET Verdicts]
        /\ reports'[d] \subseteq reports[d] \cup {v} /\ reports[d] \subseteq reports'[d]
        /\ v = Raises => reports'[d] = reports[d]
        /\ \A e \in StagingDir \ {d} : reports'[e] = reports[e]
    BY <1>2, <1>3, <1>4 DEF InspectionInv, ReviewTypeOK
  <1>7. ReviewTypeOK'
    BY <1>1, <1>5, <1>6 DEF InspectionInv, ReviewTypeOK, TypeOK, vars, evidence, bounds
  <1>8. \A j \in Inspector : SeenInv(j)'
    BY <1>1, <1>5 DEF InspectionInv, SeenInv, vars, evidence
  <1>9. ReportsInv(d)'
    <2>1. /\ v = "VALID_COMPLETED" =>
                /\ {"claim", "packet", "receipt", "trace"} \subseteq files[d]
                /\ receipt[d].status = "COMPLETED" /\ store[d] = Steps
          /\ v = "VALID_BLOCKED" => "receipt" \in files[d] /\ receipt[d].status = "BLOCKED"
          /\ v \in {"VALID_FAILED", "FAILED_BEFORE_CLAIM_PERSISTED"} =>
                "failure" \in files[d] /\ "packet" \notin files[d]
      BY <1>1, <1>2, <1>3 DEF SeenInv, ReceiptTells
    <2>2. UNCHANGED <<files, receipt, store, dispositions>>
      BY <1>1 DEF vars, evidence
    <2>3. \A u \in reports'[d] : u \in reports[d] \/ (u = v /\ v # Raises)
      BY <1>6
    <2>4. "VALID_COMPLETED" \in reports'[d] =>
              /\ {"claim", "packet", "receipt", "trace"} \subseteq files[d]
              /\ receipt[d].status = "COMPLETED" /\ store[d] = Steps
      BY <1>2, <2>1, <2>3 DEF ReportsInv
    <2>5. "VALID_BLOCKED" \in reports'[d] =>
              "receipt" \in files[d] /\ receipt[d].status = "BLOCKED"
      BY <1>2, <2>1, <2>3 DEF ReportsInv
    <2>6. \A u \in {"VALID_FAILED", "FAILED_BEFORE_CLAIM_PERSISTED"} : u \in reports'[d] =>
              "failure" \in files[d] /\ "packet" \notin files[d]
      BY <1>2, <2>1, <2>3 DEF ReportsInv
    <2>7. Accept \in dispositions[d] => "VALID_COMPLETED" \in reports'[d]
      BY <1>2, <1>6 DEF ReportsInv
    <2> QED
      BY <2>2, <2>4, <2>5, <2>6, <2>7 DEF ReportsInv
  <1>10. \A e \in StagingDir \ {d} : ReportsInv(e)'
    BY <1>1, <1>6 DEF InspectionInv, ReportsInv, vars, evidence
  <1>11. \A j \in Inspector : /\ rdir'[j] = NoDir <=> rstep'[j] = "idle"
                              /\ rstep'[j] = "idle" => seen'[j] = NothingSeen
    BY <1>5 DEF InspectionInv
  <1> QED
    BY <1>7, <1>8, <1>9, <1>10, <1>11 DEF InspectionInv

LEMMA DisposeKeeps ==
    ASSUME InspectionInv, NEW d \in StagingDir, Dispose(d)
    PROVE  InspectionInv'
  <1>1. UNCHANGED <<vars, rstep, rdir, seen, reports>>
    BY DEF Dispose
  <1>2. PICK verdict \in reports[d], disposition \in Dispositions :
            /\ disposition = Accept => verdict = "VALID_COMPLETED"
            /\ dispositions' = [dispositions EXCEPT ![d] = @ \cup {disposition}]
    BY DEF Dispose
  <1>3. /\ dispositions' \in [StagingDir -> SUBSET Dispositions]
        /\ dispositions'[d] = dispositions[d] \cup {disposition}
        /\ \A e \in StagingDir \ {d} : dispositions'[e] = dispositions[e]
    BY <1>2 DEF InspectionInv, ReviewTypeOK
  <1>4. ReviewTypeOK'
    BY <1>1, <1>3 DEF InspectionInv, ReviewTypeOK, TypeOK, vars, evidence, bounds
  <1>5. \A i \in Inspector : SeenInv(i)'
    BY <1>1 DEF InspectionInv, SeenInv, vars, evidence
  <1>6. \A e \in StagingDir : ReportsInv(e)'
    BY <1>1, <1>2, <1>3 DEF InspectionInv, ReportsInv, vars, evidence
  <1> QED
    BY <1>1, <1>4, <1>5, <1>6 DEF InspectionInv

LEMMA ReviewerStep ==
    ASSUME ExecInv, InspectionInv, UNCHANGED vars,
           \/ \E i \in Inspector, d \in StagingDir : StartInspection(i, d)
           \/ \E i \in Inspector :
                 \/ LoadClaim(i) \/ LoadReceipt(i) \/ LoadFailure(i) \/ LoadTrace(i)
                 \/ LoadPacket(i) \/ InspectStore(i)
           \/ \E d \in StagingDir : Dispose(d)
    PROVE  InspectionInv'
  <1>1. \A i \in Inspector :
            LoadClaim(i) \/ LoadReceipt(i) \/ LoadFailure(i) \/ LoadTrace(i) \/ LoadPacket(i) =>
                InspectionInv'
    BY LoadKeeps
    DEF LoadClaim, LoadReceipt, LoadFailure, LoadTrace, LoadPacket, EvidenceFile
  <1> QED
    BY <1>1, StartKeeps, StoreKeeps, DisposeKeeps

-----------------------------------------------------------------------------
(* The theorems.                                                           *)

ReviewInv == ExecInv /\ InspectionInv

LEMMA StepReview == ReviewInv /\ [ReviewNext]_allVars => ReviewInv'
  <1> SUFFICES ASSUME ReviewInv, [ReviewNext]_allVars PROVE ReviewInv'
    OBVIOUS
  <1> USE DEF ReviewInv
  <1>1. CASE (Next /\ UNCHANGED reviewVars) \/ UNCHANGED allVars
    <2>1. [Next]_vars /\ UNCHANGED reviewVars
      BY <1>1 DEF allVars
    <2> QED
      BY <2>1, ExecutorStep, ExecutorKeeps DEF Steady
  <1>2. CASE \/ \E i \in Inspector, d \in StagingDir : StartInspection(i, d)
             \/ \E i \in Inspector :
                   \/ LoadClaim(i) \/ LoadReceipt(i) \/ LoadFailure(i) \/ LoadTrace(i)
                   \/ LoadPacket(i) \/ InspectStore(i)
             \/ \E d \in StagingDir : Dispose(d)
    <2>1. UNCHANGED vars
      BY <1>2 DEF StartInspection, LoadClaim, LoadReceipt, LoadFailure, LoadTrace, LoadPacket,
                  Load, InspectStore, Dispose
    <2>2. ExecInv'
      BY <2>1, ExecutorStep DEF Steady
    <2> QED
      BY <1>2, <2>1, <2>2, ReviewerStep
  <1> QED
    BY <1>1, <1>2 DEF ReviewNext

\* The invariants of the executor and of its review, at all times.
THEOREM Invariance == ReviewSpec => []ReviewInv
  <1>1. ReviewInit => ReviewInv
    BY InitExec, InitInspection DEF ReviewInit, ReviewInv
  <1> QED
    BY <1>1, StepReview, PTL DEF ReviewSpec

\* Every variable of executor and review has its type.
THEOREM TypeCorrect == ReviewSpec => []ReviewTypeOK
  <1>1. ReviewInv => ReviewTypeOK
    BY DEF ReviewInv, InspectionInv
  <1> QED
    BY <1>1, Invariance, PTL

\* No two attempts ever have one staging directory, whatever dies or raises: mkdir
\* with exist_ok=False consumes the authorization.
THEOREM ConsumedOnce == ReviewSpec => []AuthorizationConsumedOnce
  <1>1. ReviewInv => AuthorizationConsumedOnce
    BY DEF ReviewInv, ExecInv
  <1> QED
    BY <1>1, Invariance, PTL

\* A receipt on disk is the truth about a run in its directory, whatever happened
\* after it was written.  (execute_authorized_canonical_family)
THEOREM TruthfulReceipts == ReviewSpec => []ReceiptTellsTheRun
  <1>1. ReviewInv => ReceiptTellsTheRun
    BY DEF ReviewInv, ExecInv, ReceiptTells, ReceiptTellsTheRun, TraceOf
  <1> QED
    BY <1>1, Invariance, PTL

\* Accepted evidence is that of an execution that ran every step and persisted its
\* evidence, although it was read while it was being written.
\* (inspect_authorized_canonical_execution)
THEOREM CompleteAcceptance == ReviewSpec => []AcceptedIsComplete
  <1>1. ReviewInv => AcceptedIsComplete
    BY DEF ReviewInv, InspectionInv, ReportsInv, AcceptedIsComplete
  <1> QED
    BY <1>1, Invariance, PTL

\* A completed execution is never reported otherwise, by any inspection at any time.
THEOREM NoContradiction == ReviewSpec => []CompletionIsNotContradicted
  <1>1. ReviewInv => CompletionIsNotContradicted
    <2> SUFFICES ASSUME ReviewInv, NEW d \in StagingDir, "VALID_COMPLETED" \in reports[d]
                 PROVE  reports[d] = {"VALID_COMPLETED"}
      BY DEF CompletionIsNotContradicted
    <2>1. ReportsInv(d) /\ reports[d] \subseteq Verdicts
      BY DEF ReviewInv, InspectionInv, ReviewTypeOK
    <2>2. /\ "VALID_BLOCKED" \notin reports[d]
          /\ "VALID_FAILED" \notin reports[d]
          /\ "FAILED_BEFORE_CLAIM_PERSISTED" \notin reports[d]
      BY <2>1 DEF ReportsInv
    <2> QED
      BY <2>1, <2>2 DEF Verdicts
  <1> QED
    BY <1>1, Invariance, PTL

\* Without faults the review classifies an ended execution as what it was.
THEOREM EndsAreClassified == ReviewSpec => []EndedIsClassified
  <1>1. ReviewInv => EndedIsClassified
    <2> SUFFICES ASSUME ReviewInv, NEW a \in Attempt, Holds(a), pc[a] \in Ended, faults = 0
                 PROVE  CurrentVerdict(WorkDir[a]) =
                            CASE At(a, "failed") -> "VALID_FAILED"
                              [] At(a, "blocked") -> "VALID_BLOCKED"
                              [] OTHER -> IF packet[WorkDir[a]] THEN "VALID_COMPLETED" ELSE Raises
      BY DEF EndedIsClassified
    <2> DEFINE d == WorkDir[a]
               o == [files |-> files[d], packet |-> packet[d], receipt |-> receipt[d],
                     trace |-> trace[d]]
    <2>1. /\ d \in StagingDir /\ FilesInv(a) /\ ReceiptTells(d)
          /\ receipt[d] \in Receipt /\ packet[d] \in BOOLEAN
          /\ Steps \in Nat /\ Readiness \in 1..Steps
      BY ExecutionAssumption DEF ReviewInv, ExecInv, TypeOK
    <2>2. CurrentVerdict(d) = Verdict(o, store[d])
      BY DEF CurrentVerdict
    <2>3. At(a, "failed") \/ At(a, "blocked") \/ At(a, "completed")
      BY DEF Holds, Ended, TryBlock, InRun, Handler, At
    <2>4. CASE At(a, "failed")
      <3>1. files[d] = {"claim", "failure", "trace"}
        BY <2>1, <2>4 DEF FilesInv
      <3>2. Verdict(o, store[d]) = "VALID_FAILED"
        BY <3>1 DEF Verdict, Admissible, Has
      <3> QED
        BY <2>2, <2>4, <3>2 DEF At
    <2>5. CASE At(a, "blocked")
      <3>1. files[d] = {"claim", "receipt", "trace"} /\ receipt[d].status = "BLOCKED"
        BY <2>1, <2>5 DEF FilesInv, At, WithReceipt
      <3>2. trace[d] = [events |-> 2 * Readiness, last |-> "STEP_BLOCKED"]
            /\ receipt[d].steps = Readiness
        BY <2>1, <3>1 DEF ReceiptTells, TraceOf
      <3>3. Admissible(o) /\ Has(o, "receipt") /\ ReceiptHolds(o, store[d])
        BY <2>1, <3>1, <3>2 DEF Admissible, Has, ReceiptHolds, StepsExpected, TraceMatches
      <3>4. Verdict(o, store[d]) = "VALID_BLOCKED"
        BY <3>1, <3>3 DEF Verdict
      <3> QED
        BY <2>2, <2>5, <3>4 DEF At
    <2>6. CASE At(a, "completed")
      <3>1. /\ files[d] = {"claim", "receipt", "packet", "trace"}
            /\ receipt[d].status = "COMPLETED"
        BY <2>1, <2>6 DEF FilesInv, At, WithReceipt
      <3>2. /\ trace[d] = [events |-> 2 * Steps, last |-> "STEP_COMPLETED"]
            /\ receipt[d].steps = Steps /\ store[d] = Steps
        BY <2>1, <3>1 DEF ReceiptTells, TraceOf
      <3>3. Admissible(o) /\ Has(o, "receipt") /\ (ReceiptHolds(o, store[d]) <=> packet[d])
        BY <2>1, <3>1, <3>2 DEF Admissible, Has, ReceiptHolds, StepsExpected, TraceMatches
      <3>4. Verdict(o, store[d]) = IF packet[d] THEN "VALID_COMPLETED" ELSE Raises
        BY <3>1, <3>3 DEF Verdict
      <3> QED
        BY <2>2, <2>6, <3>4 DEF At
    <2> QED
      BY <2>3, <2>4, <2>5, <2>6
  <1> QED
    BY <1>1, Invariance, PTL

=============================================================================

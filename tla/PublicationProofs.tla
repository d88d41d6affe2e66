------------------------- MODULE PublicationProofs --------------------------
(***************************************************************************)
(* Proofs about the publication executor for any set of attempts and       *)
(* requests, any candidate bytes and any number of edits and faults.       *)
(*                                                                         *)
(* IInv of PublicationInvariant is inductive.  There is one lemma per part *)
(* of it; in each, the actions that can disturb the part have a step of    *)
(* their own and the others share the step that shows they leave its       *)
(* variables alone.                                                        *)
(***************************************************************************)
EXTENDS PublicationInvariant, PublicationReview, TLAPS

USE DEF BeforeClaim, BeforeLink, AfterLink, TryBlock, Handler, Ended, Running,
        At, Go, Put, Record, Synced, fileVars, evidence

\* The steps of attempt a, one name for each.
Step(a) == ReadCandidate(a) \/ Advance(a) \/ IOError(a) \/ Crash(a)

\* The invariant holds before any attempt has started.
LEMMA InitInv == Init => IInv
  <1> SUFFICES ASSUME Init PROVE IInv
    OBVIOUS
  <1>1. TypeOK
    BY BoundAssumption DEF Init, TypeOK, Trace, Failure, Memory, CompletedEvents, Content
  <1>2. DirsInv /\ DestinationInv
    BY DEF Init, DirsInv, DestinationInv
  <1>3. \A a \in Attempt : EventsInv(a) /\ ClaimInv(a) /\ BytesInv(a) /\ FilesInv(a)
    BY DEF Init, EventsInv, ClaimInv, BytesInv, FilesInv, Holds
  <1>4. EvidenceHasOneAuthor
    BY DEF Init, EvidenceHasOneAuthor, Holds
  <1>5. ReceiptIsTruthful /\ FailureNeverOverclaims
    BY DEF Init, ReceiptIsTruthful, FailureNeverOverclaims
  <1> QED
    BY <1>1, <1>2, <1>3, <1>4, <1>5 DEF IInv

\* Where an attempt is named it is an attempt, so WorkDir names a directory.
LEMMA WorkDirIsDir == ASSUME NEW a \in Attempt PROVE WorkDir[a] \in AuditDir
  BY WorkDirAssumption

\* One step of the local memory stays in its type.
LEMMA MemoryStep ==
  ASSUME TypeOK, NEW a \in Attempt
  PROVE  /\ mem[a].events < CompletedEvents =>
              [mem EXCEPT ![a].events = @ + 1] \in [Attempt -> Memory]
         /\ mem[a].events < CompletedEvents =>
              [mem EXCEPT ![a].claimed = TRUE, ![a].events = @ + 1] \in [Attempt -> Memory]
         /\ \A b \in Content \cup {NoBytes} :
              /\ [mem EXCEPT ![a].buf = b] \in [Attempt -> Memory]
              /\ [mem EXCEPT ![a].sha = b] \in [Attempt -> Memory]
              /\ [mem EXCEPT ![a].canonical = b] \in [Attempt -> Memory]
  <1>0. mem \in [Attempt -> Memory] /\ mem[a] \in Memory
    BY DEF TypeOK
  <1>1. ASSUME mem[a].events < CompletedEvents
        PROVE  /\ [mem EXCEPT ![a].events = @ + 1] \in [Attempt -> Memory]
               /\ [mem EXCEPT ![a].claimed = TRUE, ![a].events = @ + 1] \in [Attempt -> Memory]
    <2>1. mem[a].events + 1 \in 0..CompletedEvents
      BY <1>0, <1>1 DEF Memory, CompletedEvents
    <2>2. [mem[a] EXCEPT !.events = @ + 1] \in Memory
      BY <1>0, <2>1 DEF Memory
    <2>3. [[mem[a] EXCEPT !.claimed = TRUE] EXCEPT !.events = @ + 1] \in Memory
      BY <1>0, <2>1 DEF Memory
    <2>4. [mem EXCEPT ![a].events = @ + 1] \in [Attempt -> Memory]
      BY <1>0, <2>2
    <2>5. [mem EXCEPT ![a].claimed = TRUE, ![a].events = @ + 1] \in [Attempt -> Memory]
      BY <1>0, <2>3
    <2> QED
      BY <2>4, <2>5
  <1>2. ASSUME NEW b \in Content \cup {NoBytes}
        PROVE  [mem EXCEPT ![a].buf = b] \in [Attempt -> Memory]
    BY <1>0, <1>2 DEF Memory
  <1>3. ASSUME NEW b \in Content \cup {NoBytes}
        PROVE  [mem EXCEPT ![a].sha = b] \in [Attempt -> Memory]
    BY <1>0, <1>3 DEF Memory
  <1>4. ASSUME NEW b \in Content \cup {NoBytes}
        PROVE  [mem EXCEPT ![a].canonical = b] \in [Attempt -> Memory]
    BY <1>0, <1>4 DEF Memory
  <1> QED
    BY <1>1, <1>2, <1>3, <1>4

\* A running attempt that may still append an event has room for it.
LEMMA EventsBound ==
  ASSUME IInv, NEW a \in Attempt,
         pc[a] \in {"claim", "publisher", "parent", "mkparent", "candidate", "link", "parse"}
  PROVE  mem[a].events < CompletedEvents
  BY DEF IInv, EventsInv, CompletedEvents

\* An appended event stays in the type.
LEMMA RecordStep ==
  ASSUME IInv, NEW a \in Attempt,
         pc[a] \in {"claim", "publisher", "parent", "mkparent", "candidate", "link", "parse"}
  PROVE  [mem EXCEPT ![a].events = @ + 1] \in [Attempt -> Memory]
  <1>1. TypeOK /\ mem[a].events < CompletedEvents
    BY EventsBound DEF IInv
  <1> QED
    BY <1>1, MemoryStep

\* Every step of every attempt and of the environment keeps the types.
LEMMA TypeStep == ASSUME IInv, [Next]_vars PROVE TypeOK'
  <1> USE DEF TypeOK
  <1>0. TypeOK
    BY DEF IInv
  <1>1. ASSUME NEW a \in Attempt, ReadCandidate(a) PROVE TypeOK'
    BY <1>0, <1>1, MemoryStep DEF ReadCandidate
  <1>2. ASSUME NEW a \in Attempt, HashCandidate(a) PROVE TypeOK'
    BY <1>0, <1>2, MemoryStep DEF HashCandidate
  <1>3. ASSUME NEW a \in Attempt, Validate(a) PROVE TypeOK'
    BY <1>0, <1>3 DEF Validate
  <1>4. ASSUME NEW a \in Attempt, ConsumeAuditDir(a) PROVE TypeOK'
    BY <1>0, <1>4, WorkDirIsDir DEF ConsumeAuditDir
  <1>5. ASSUME NEW a \in Attempt, PersistClaim(a) PROVE TypeOK'
    <2>1. mem' \in [Attempt -> Memory]
      <3>1. mem' = mem \/ mem' = [mem EXCEPT ![a].claimed = TRUE, ![a].events = @ + 1]
        BY <1>5 DEF PersistClaim
      <3>2. mem[a].events < CompletedEvents
        BY <1>5, EventsBound DEF PersistClaim
      <3>3. [mem EXCEPT ![a].claimed = TRUE, ![a].events = @ + 1] \in [Attempt -> Memory]
        BY <1>0, <3>2, MemoryStep
      <3> QED
        BY <1>0, <3>1, <3>3
    <2>2. files' \in [AuditDir -> SUBSET EvidenceFile]
      BY <1>0, <1>5 DEF PersistClaim, EvidenceFile
    <2> QED
      BY <1>0, <1>5, <2>1, <2>2, BoundAssumption DEF PersistClaim
  <1>6. ASSUME NEW a \in Attempt, VerifyPublisher(a) PROVE TypeOK'
    BY <1>0, <1>6, RecordStep DEF VerifyPublisher
  <1>7. ASSUME NEW a \in Attempt, CheckParent(a) PROVE TypeOK'
    BY <1>0, <1>7, RecordStep DEF CheckParent
  <1>8. ASSUME NEW a \in Attempt, MakeParent(a) PROVE TypeOK'
    BY <1>0, <1>8, RecordStep DEF MakeParent
  <1>9. ASSUME NEW a \in Attempt, VerifyCandidate(a) PROVE TypeOK'
    BY <1>0, <1>9, RecordStep DEF VerifyCandidate
  <1>10. ASSUME NEW a \in Attempt, CheckDestination(a) PROVE TypeOK'
    BY <1>0, <1>10 DEF CheckDestination
  <1>11. ASSUME NEW a \in Attempt, LinkDestination(a) PROVE TypeOK'
    <2>1. mem' \in [Attempt -> Memory]
      <3>1. mem' = mem \/ mem' = [mem EXCEPT ![a].events = @ + 1]
        BY <1>11 DEF LinkDestination
      <3>2. mem[a].events < CompletedEvents
        BY <1>11, EventsBound DEF LinkDestination
      <3>3. [mem EXCEPT ![a].events = @ + 1] \in [Attempt -> Memory]
        BY <1>0, <3>2, MemoryStep
      <3> QED
        BY <1>0, <3>1, <3>3
    <2>2. mem[a].buf \in Content \cup {NoBytes}
      BY <1>0 DEF Memory
    <2>3. dest' \in Content \cup {NoBytes} /\ linked' \subseteq Attempt
      BY <1>0, <1>11, <2>2 DEF LinkDestination
    <2>4. faults' \in 0..MaxFaults
      BY <1>0, <1>11, BoundAssumption DEF LinkDestination
    <2> QED
      BY <1>0, <1>11, <2>1, <2>3, <2>4 DEF LinkDestination
  <1>12. ASSUME NEW a \in Attempt, HashDestination(a) PROVE TypeOK'
    BY <1>0, <1>12, MemoryStep DEF HashDestination
  <1>13. ASSUME NEW a \in Attempt, ParseDestination(a) PROVE TypeOK'
    BY <1>0, <1>13, RecordStep DEF ParseDestination
  <1>14. ASSUME NEW a \in Attempt, WriteTrace(a) PROVE TypeOK'
    <2>1. [events |-> mem[a].events, failed |-> FALSE] \in Trace
      BY <1>0 DEF Memory, Trace
    <2> QED
      BY <1>0, <1>14, <2>1, WorkDirIsDir, BoundAssumption DEF WriteTrace, EvidenceFile
  <1>15. ASSUME NEW a \in Attempt, WriteReceipt(a) PROVE TypeOK'
    BY <1>0, <1>15, WorkDirIsDir, BoundAssumption DEF WriteReceipt, EvidenceFile
  <1>16. ASSUME NEW a \in Attempt, InspectDestination(a) PROVE TypeOK'
    <2>1. mem[a].canonical \in Content \cup {NoBytes}
      BY <1>0 DEF Memory
    <2>2. mem' \in [Attempt -> Memory]
      <3>1. PICK b \in Content \cup {NoBytes} :
                mem' = mem \/ mem' = [mem EXCEPT ![a].canonical = b]
        BY <1>0, <1>16, <2>1 DEF InspectDestination
      <3>2. [mem EXCEPT ![a].canonical = b] \in [Attempt -> Memory]
        BY <1>0, MemoryStep
      <3> QED
        BY <1>0, <3>1, <3>2
    <2>3. faults' \in 0..MaxFaults
      BY <1>0, <1>16, BoundAssumption DEF InspectDestination
    <2> QED
      BY <1>0, <1>16, <2>2, <2>3 DEF InspectDestination
  <1>17. ASSUME NEW a \in Attempt, WriteFailure(a) PROVE TypeOK'
    <2>1. [claimed |-> mem[a].claimed, created |-> mem[a].canonical = Exact] \in Failure
      BY <1>0 DEF Memory, Failure
    <2> QED
      BY <1>0, <1>17, <2>1, WorkDirIsDir, BoundAssumption DEF WriteFailure, EvidenceFile
  <1>18. ASSUME NEW a \in Attempt, WriteFailureTrace(a) PROVE TypeOK'
    <2>1. [events |-> mem[a].events, failed |-> TRUE] \in Trace
      BY <1>0 DEF Memory, Trace
    <2> QED
      BY <1>0, <1>18, <2>1, WorkDirIsDir, BoundAssumption DEF WriteFailureTrace, EvidenceFile
  <1>19. ASSUME NEW a \in Attempt, IOError(a) \/ Crash(a) PROVE TypeOK'
    BY <1>0, <1>19, BoundAssumption DEF IOError, Crash
  <1>20. CASE RewriteCandidate \/ EditPublisherSource
    <2>1. sourceIntact' \in BOOLEAN
      BY <1>0, <1>20, Zenon DEF RewriteCandidate, EditPublisherSource
    <2>2. edits' \in 0..MaxEdits
      BY <1>0, <1>20, BoundAssumption DEF RewriteCandidate, EditPublisherSource
    <2> QED
      BY <1>0, <1>20, <2>1, <2>2 DEF RewriteCandidate, EditPublisherSource
  <1>21. CASE UNCHANGED vars
    BY <1>0, <1>21 DEF vars
  <1> QED
    BY <1>1, <1>2, <1>3, <1>4, <1>5, <1>6, <1>7, <1>8, <1>9, <1>10, <1>11, <1>12, <1>13,
       <1>14, <1>15, <1>16, <1>17, <1>18, <1>19, <1>20, <1>21 DEF Next, Advance

\* Nothing but a link touches the destination.
LEMMA OnlyLinkCreates ==
  ASSUME NEW a \in Attempt, Step(a), ~ LinkDestination(a) PROVE UNCHANGED <<dest, linked>>
  <1>1. CASE ReadCandidate(a) \/ HashCandidate(a) \/ Validate(a) \/ ConsumeAuditDir(a)
    BY <1>1 DEF ReadCandidate, HashCandidate, Validate, ConsumeAuditDir
  <1>2. CASE PersistClaim(a) \/ VerifyPublisher(a) \/ CheckParent(a) \/ MakeParent(a)
    BY <1>2 DEF PersistClaim, VerifyPublisher, CheckParent, MakeParent
  <1>3. CASE VerifyCandidate(a) \/ CheckDestination(a) \/ HashDestination(a) \/ ParseDestination(a)
    BY <1>3 DEF VerifyCandidate, CheckDestination, HashDestination, ParseDestination
  <1>4. CASE WriteTrace(a) \/ WriteReceipt(a) \/ InspectDestination(a) \/ WriteFailure(a)
    BY <1>4 DEF WriteTrace, WriteReceipt, InspectDestination, WriteFailure
  <1>5. CASE WriteFailureTrace(a) \/ IOError(a) \/ Crash(a)
    BY <1>5 DEF WriteFailureTrace, IOError, Crash
  <1> QED
    BY <1>1, <1>2, <1>3, <1>4, <1>5 DEF Step, Advance

\* The one successful os.link stays the only one.
LEMMA DestinationStep == ASSUME IInv, [Next]_vars PROVE DestinationInv'
  <1> USE DEF DestinationInv
  <1>1. ASSUME NEW a \in Attempt, LinkDestination(a) PROVE DestinationInv'
    BY <1>1 DEF LinkDestination, IInv, BytesInv
  <1>2. CASE UNCHANGED <<dest, linked>>
    BY <1>2 DEF IInv
  <1>3. ASSUME NEW a \in Attempt, Step(a), ~ LinkDestination(a) PROVE UNCHANGED <<dest, linked>>
    BY <1>3, OnlyLinkCreates
  <1>4. CASE RewriteCandidate \/ EditPublisherSource \/ UNCHANGED vars
    <2>1. UNCHANGED <<dest, linked>>
      BY <1>4 DEF RewriteCandidate, EditPublisherSource, vars
    <2> QED
      BY <1>2, <2>1
  <1>5. ASSUME NEW a \in Attempt, Step(a) PROVE DestinationInv'
    BY <1>1, <1>2, <1>3, <1>5
  <1> HIDE DEF DestinationInv
  <1> QED
    BY <1>2, <1>4, <1>5 DEF Next, Step

\* The event list keeps pace with the program counter of its attempt.
LEMMA EventsStep == ASSUME IInv, [Next]_vars PROVE \A b \in Attempt : EventsInv(b)'
  <1> USE DEF EventsInv
  <1>0. TypeOK /\ \A b \in Attempt : EventsInv(b)
    BY DEF IInv
  <1>1. ASSUME NEW a \in Attempt, Step(a) PROVE \A b \in Attempt : EventsInv(b)'
    BY <1>0, <1>1
       DEF TypeOK, Memory, Step, Advance, ReadCandidate, HashCandidate, Validate, ConsumeAuditDir,
           PersistClaim, VerifyPublisher, CheckParent, MakeParent, VerifyCandidate,
           CheckDestination, LinkDestination, HashDestination, ParseDestination, WriteTrace,
           WriteReceipt, InspectDestination, WriteFailure, WriteFailureTrace, IOError, Crash
  <1>2. CASE RewriteCandidate \/ EditPublisherSource \/ UNCHANGED vars
    BY <1>0, <1>2 DEF RewriteCandidate, EditPublisherSource, vars
  <1> QED
    BY <1>1, <1>2 DEF Next, Step


\* A claim is on disk before anything that follows it, and stays there.
LEMMA ClaimStep == ASSUME IInv, [Next]_vars PROVE \A b \in Attempt : ClaimInv(b)'
  <1> USE DEF ClaimInv, Holds
  <1>0. TypeOK /\ \A b \in Attempt : ClaimInv(b)
    BY DEF IInv
  <1>1. ASSUME NEW a \in Attempt, Step(a) PROVE \A b \in Attempt : ClaimInv(b)'
    <2>1. CASE ReadCandidate(a) \/ HashCandidate(a) \/ Validate(a) \/ ConsumeAuditDir(a)
      BY <1>0, WorkDirAssumption, <2>1 DEF TypeOK, Memory, ReadCandidate, HashCandidate,
             Validate, ConsumeAuditDir
    <2>2. CASE PersistClaim(a) \/ VerifyPublisher(a)
      BY <1>0, WorkDirAssumption, <2>2 DEF TypeOK, Memory, PersistClaim, VerifyPublisher
    <2>3. CASE CheckParent(a) \/ MakeParent(a) \/ VerifyCandidate(a) \/ CheckDestination(a)
      BY <1>0, WorkDirAssumption, <2>3 DEF TypeOK, Memory, CheckParent, MakeParent,
             VerifyCandidate, CheckDestination
    <2>4. CASE LinkDestination(a) \/ HashDestination(a)
      BY <1>0, WorkDirAssumption, <2>4 DEF TypeOK, Memory, LinkDestination, HashDestination
    <2>5. CASE ParseDestination(a) \/ WriteTrace(a) \/ WriteReceipt(a)
      BY <1>0, WorkDirAssumption, <2>5 DEF TypeOK, Memory, ParseDestination, WriteTrace,
             WriteReceipt
    <2>6. CASE InspectDestination(a) \/ WriteFailure(a) \/ WriteFailureTrace(a)
      BY <1>0, WorkDirAssumption, <2>6 DEF TypeOK, Memory, InspectDestination, WriteFailure,
             WriteFailureTrace
    <2>7. CASE IOError(a) \/ Crash(a)
      BY <1>0, WorkDirAssumption, <2>7 DEF TypeOK, Memory, IOError, Crash
    <2> QED
      BY <1>1, <2>1, <2>2, <2>3, <2>4, <2>5, <2>6, <2>7 DEF Step, Advance
  <1>2. CASE RewriteCandidate \/ EditPublisherSource \/ UNCHANGED vars
    BY <1>0, <1>2 DEF RewriteCandidate, EditPublisherSource, vars
  <1> QED
    BY <1>1, <1>2 DEF Next, Step

\* What an attempt knows of the bytes stays true while others run.
LEMMA BytesStep == ASSUME IInv, [Next]_vars PROVE \A b \in Attempt : BytesInv(b)'
  <1> USE DEF BytesInv
  <1>0. TypeOK /\ DestinationInv /\ \A b \in Attempt : BytesInv(b)
    BY DEF IInv
  <1>1. ASSUME NEW a \in Attempt, Step(a) PROVE \A b \in Attempt : BytesInv(b)'
    <2>1. CASE ReadCandidate(a)
      BY <1>0, <2>1, ContentAssumption DEF ReadCandidate, TypeOK, Memory, Content
    <2>2. CASE LinkDestination(a)
      BY <1>0, <2>2, ContentAssumption DEF LinkDestination, TypeOK, Memory, DestinationInv
    <2>3. CASE HashCandidate(a) \/ Validate(a) \/ ConsumeAuditDir(a) \/ PersistClaim(a) \/
             VerifyPublisher(a) \/ CheckParent(a) \/ MakeParent(a) \/ VerifyCandidate(a)
             \/ CheckDestination(a) \/ HashDestination(a) \/ ParseDestination(a) \/
             WriteTrace(a) \/ WriteReceipt(a) \/ InspectDestination(a) \/ WriteFailure(a)
             \/ WriteFailureTrace(a) \/ IOError(a) \/ Crash(a)
      BY <1>0, <2>3, ContentAssumption
         DEF TypeOK, Memory, HashCandidate, Validate, ConsumeAuditDir, PersistClaim,
             VerifyPublisher, CheckParent, MakeParent, VerifyCandidate,
             CheckDestination, HashDestination, ParseDestination, WriteTrace,
             WriteReceipt, InspectDestination, WriteFailure, WriteFailureTrace, IOError,
             Crash
    <2> QED
      BY <1>1, <2>1, <2>2, <2>3 DEF Step, Advance
  <1>2. CASE RewriteCandidate \/ EditPublisherSource \/ UNCHANGED vars
    BY <1>0, <1>2 DEF RewriteCandidate, EditPublisherSource, vars
  <1> QED
    BY <1>1, <1>2 DEF Next, Step

\* Evidence is written only by an attempt whose directory exists.
LEMMA DirsStep == ASSUME IInv, [Next]_vars PROVE DirsInv'
  <1> USE DEF DirsInv, Holds
  <1>0. TypeOK /\ DirsInv /\ \A b \in Attempt : ClaimInv(b)
    BY DEF IInv
  <1>1. ASSUME NEW a \in Attempt, Step(a) PROVE DirsInv'
    BY <1>0, <1>1, WorkDirAssumption
       DEF TypeOK, ClaimInv, Step, Advance, ReadCandidate, HashCandidate, Validate, ConsumeAuditDir,
           PersistClaim, VerifyPublisher, CheckParent, MakeParent, VerifyCandidate,
           CheckDestination, LinkDestination, HashDestination, ParseDestination, WriteTrace,
           WriteReceipt, InspectDestination, WriteFailure, WriteFailureTrace, IOError, Crash
  <1>2. CASE RewriteCandidate \/ EditPublisherSource \/ UNCHANGED vars
    BY <1>0, <1>2 DEF RewriteCandidate, EditPublisherSource, vars
  <1> QED
    BY <1>1, <1>2 DEF Next, Step

\* A directory that is held is never taken by a second attempt: its mkdir
\* finds it.
LEMMA OneAuthorStep == ASSUME IInv, [Next]_vars PROVE EvidenceHasOneAuthor'
  <1> USE DEF EvidenceHasOneAuthor, Holds
  <1>0. TypeOK /\ EvidenceHasOneAuthor /\ \A b \in Attempt : ClaimInv(b)
    BY DEF IInv
  <1>1. ASSUME NEW a \in Attempt, Step(a) PROVE EvidenceHasOneAuthor'
    <2>1. CASE ConsumeAuditDir(a)
      BY <1>0, <2>1 DEF ConsumeAuditDir, TypeOK, ClaimInv
    <2>2. CASE PersistClaim(a)
      BY <1>0, <2>2 DEF PersistClaim, TypeOK, Memory
    <2>3. CASE ReadCandidate(a) \/ HashCandidate(a) \/ Validate(a) \/ VerifyPublisher(a) \/
             CheckParent(a) \/ MakeParent(a) \/ VerifyCandidate(a) \/ CheckDestination(a)
             \/ LinkDestination(a) \/ HashDestination(a) \/ ParseDestination(a) \/
             WriteTrace(a) \/ WriteReceipt(a) \/ InspectDestination(a) \/ WriteFailure(a)
             \/ WriteFailureTrace(a) \/ IOError(a) \/ Crash(a)
      <3>1. CASE ReadCandidate(a) \/ HashCandidate(a) \/ Validate(a) \/ VerifyPublisher(a)
        BY <1>0, <3>1 DEF TypeOK, Memory, ReadCandidate, HashCandidate, Validate,
               VerifyPublisher
      <3>2. CASE CheckParent(a) \/ MakeParent(a) \/ VerifyCandidate(a) \/ CheckDestination(a)
        BY <1>0, <3>2 DEF TypeOK, Memory, CheckParent, MakeParent, VerifyCandidate,
               CheckDestination
      <3>3. CASE LinkDestination(a) \/ HashDestination(a)
        BY <1>0, <3>3 DEF TypeOK, Memory, LinkDestination, HashDestination
      <3>4. CASE ParseDestination(a) \/ WriteTrace(a) \/ WriteReceipt(a)
        BY <1>0, <3>4 DEF TypeOK, Memory, ParseDestination, WriteTrace, WriteReceipt
      <3>5. CASE InspectDestination(a) \/ WriteFailure(a) \/ WriteFailureTrace(a)
        BY <1>0, <3>5 DEF TypeOK, Memory, InspectDestination, WriteFailure,
               WriteFailureTrace
      <3>6. CASE IOError(a) \/ Crash(a)
        BY <1>0, <3>6 DEF TypeOK, Memory, IOError, Crash
      <3> QED
        BY <2>3, <3>1, <3>2, <3>3, <3>4, <3>5, <3>6
    <2> QED
      BY <1>1, <2>1, <2>2, <2>3 DEF Step, Advance
  <1>2. CASE RewriteCandidate \/ EditPublisherSource \/ UNCHANGED vars
    BY <1>0, <1>2 DEF RewriteCandidate, EditPublisherSource, vars
  <1> QED
    BY <1>1, <1>2 DEF Next, Step

\* Nobody but its holder writes into a held directory.
LEMMA FilesStep == ASSUME IInv, [Next]_vars PROVE \A b \in Attempt : FilesInv(b)'
  <1> USE DEF FilesInv, Holds
  <1>0. TypeOK /\ DirsInv /\ EvidenceHasOneAuthor /\ \A b \in Attempt : EventsInv(b) /\ FilesInv(b)
    BY DEF IInv
  <1>1. ASSUME NEW a \in Attempt, Step(a) PROVE \A b \in Attempt : FilesInv(b)'
    <2>1. CASE ConsumeAuditDir(a)
      <3>1. UNCHANGED <<files, trace>> /\ WorkDir[a] \in AuditDir
        BY <2>1, WorkDirAssumption DEF ConsumeAuditDir
      <3>2. \A b \in Attempt \ {a} : pc'[b] = pc[b]
        BY <1>0, <2>1 DEF ConsumeAuditDir, TypeOK
      <3>3. /\ pc'[a] \in {"refused", "claim"}
            /\ pc'[a] = "claim" => WorkDir[a] \notin dirs
        BY <1>0, <2>1 DEF ConsumeAuditDir, TypeOK
      <3>4. pc'[a] = "claim" => files[WorkDir[a]] = {}
        BY <1>0, <3>1, <3>3 DEF DirsInv
      <3> QED
        BY <1>0, <3>1, <3>2, <3>3, <3>4
    <2>2. CASE PersistClaim(a)
      <3>1. \A b \in Attempt \ {a} : WorkDir[b] = WorkDir[a] => ~ Holds(b)
        BY <1>0, <2>2 DEF PersistClaim, EvidenceHasOneAuthor
      <3>2. FilesInv(a)'
        BY <1>0, <2>2, WorkDirAssumption DEF PersistClaim, TypeOK
      <3>3. ASSUME NEW b \in Attempt \ {a} PROVE FilesInv(b)'
        BY <1>0, <2>2, <3>1, WorkDirAssumption DEF PersistClaim, TypeOK
      <3> QED
        BY <3>2, <3>3
    <2>3. CASE WriteTrace(a)
      <3>1. \A b \in Attempt \ {a} : WorkDir[b] = WorkDir[a] => ~ Holds(b)
        BY <1>0, <2>3 DEF WriteTrace, EvidenceHasOneAuthor
      <3>2. FilesInv(a)'
        BY <1>0, <2>3, WorkDirAssumption DEF WriteTrace, TypeOK, Memory, EventsInv, CompletedEvents
      <3>3. ASSUME NEW b \in Attempt \ {a} PROVE FilesInv(b)'
        BY <1>0, <2>3, <3>1, WorkDirAssumption DEF WriteTrace, TypeOK
      <3> QED
        BY <3>2, <3>3
    <2>4. CASE WriteReceipt(a)
      <3>1. \A b \in Attempt \ {a} : WorkDir[b] = WorkDir[a] => ~ Holds(b)
        BY <1>0, <2>4 DEF WriteReceipt, EvidenceHasOneAuthor
      <3>2. FilesInv(a)'
        BY <1>0, <2>4, WorkDirAssumption DEF WriteReceipt, TypeOK
      <3>3. ASSUME NEW b \in Attempt \ {a} PROVE FilesInv(b)'
        BY <1>0, <2>4, <3>1, WorkDirAssumption DEF WriteReceipt, TypeOK
      <3> QED
        BY <3>2, <3>3
    <2>5. CASE WriteFailure(a)
      <3>1. \A b \in Attempt \ {a} : WorkDir[b] = WorkDir[a] => ~ Holds(b)
        BY <1>0, <2>5 DEF WriteFailure, EvidenceHasOneAuthor
      <3>2. FilesInv(a)'
        BY <1>0, <2>5, WorkDirAssumption DEF WriteFailure, TypeOK
      <3>3. ASSUME NEW b \in Attempt \ {a} PROVE FilesInv(b)'
        BY <1>0, <2>5, <3>1, WorkDirAssumption DEF WriteFailure, TypeOK
      <3> QED
        BY <3>2, <3>3
    <2>6. CASE WriteFailureTrace(a)
      <3>1. \A b \in Attempt \ {a} : WorkDir[b] = WorkDir[a] => ~ Holds(b)
        BY <1>0, <2>6 DEF WriteFailureTrace, EvidenceHasOneAuthor
      <3>2. FilesInv(a)'
        BY <1>0, <2>6, WorkDirAssumption DEF WriteFailureTrace, TypeOK
      <3>3. ASSUME NEW b \in Attempt \ {a} PROVE FilesInv(b)'
        BY <1>0, <2>6, <3>1, WorkDirAssumption DEF WriteFailureTrace, TypeOK
      <3> QED
        BY <3>2, <3>3
    <2>7. CASE ReadCandidate(a) \/ HashCandidate(a) \/ Validate(a) \/ VerifyPublisher(a) \/
             CheckParent(a) \/ MakeParent(a) \/ VerifyCandidate(a) \/ CheckDestination(a)
             \/ LinkDestination(a) \/ HashDestination(a) \/ ParseDestination(a) \/
             InspectDestination(a) \/ IOError(a) \/ Crash(a)
      <3>1. UNCHANGED <<files, trace>>
        BY <2>7
           DEF ReadCandidate, HashCandidate, Validate, VerifyPublisher,
             CheckParent, MakeParent, VerifyCandidate, CheckDestination,
             LinkDestination, HashDestination, ParseDestination, InspectDestination,
             IOError, Crash
      <3>2. \A b \in Attempt : /\ pc'[b] \in TryBlock => pc[b] \in TryBlock
                               /\ pc'[b] \in {"receipt", "failuretrace"} => pc'[b] = pc[b]
        BY <1>0, <2>7
           DEF TypeOK, ReadCandidate, HashCandidate, Validate, VerifyPublisher,
             CheckParent, MakeParent, VerifyCandidate, CheckDestination,
             LinkDestination, HashDestination, ParseDestination, InspectDestination,
             IOError, Crash
      <3> QED
        BY <1>0, <3>1, <3>2
    <2> QED
      BY <1>1, <2>1, <2>2, <2>3, <2>4, <2>5, <2>6, <2>7 DEF Step, Advance
  <1>2. CASE RewriteCandidate \/ EditPublisherSource \/ UNCHANGED vars
    BY <1>0, <1>2 DEF RewriteCandidate, EditPublisherSource, vars
  <1> QED
    BY <1>1, <1>2 DEF Next, Step

\* A receipt stays true after it was written, and is true when it is.
LEMMA ReceiptStep == ASSUME IInv, [Next]_vars PROVE ReceiptIsTruthful'
  <1> USE DEF ReceiptIsTruthful
  <1>0. /\ TypeOK /\ DestinationInv /\ ReceiptIsTruthful
       /\ \A b \in Attempt : BytesInv(b) /\ FilesInv(b) /\ ClaimInv(b)
    BY DEF IInv
  <1>1. ASSUME NEW a \in Attempt, Step(a) PROVE ReceiptIsTruthful'
    <2>1. CASE PersistClaim(a)
      BY <1>0, <2>1, WorkDirAssumption DEF PersistClaim, TypeOK
    <2>2. CASE LinkDestination(a)
      BY <1>0, <2>2, ContentAssumption DEF LinkDestination, TypeOK, Content
    <2>3. CASE WriteTrace(a)
      BY <1>0, <2>3, WorkDirAssumption DEF WriteTrace, TypeOK, FilesInv
    <2>4. CASE WriteReceipt(a)
      <3>1. /\ a \in linked /\ dest = Exact
            /\ {"claim", "trace"} \subseteq files[WorkDir[a]]
            /\ trace[WorkDir[a]] = [events |-> CompletedEvents, failed |-> FALSE]
        <4>1. a \in linked /\ dest = Exact
          BY <1>0, <2>4 DEF WriteReceipt, BytesInv
        <4>2. "claim" \in files[WorkDir[a]]
          BY <1>0, <2>4 DEF WriteReceipt, ClaimInv
        <4>3. /\ "trace" \in files[WorkDir[a]]
              /\ trace[WorkDir[a]] = [events |-> CompletedEvents, failed |-> FALSE]
          BY <1>0, <2>4 DEF WriteReceipt, FilesInv
        <4> QED
          BY <4>1, <4>2, <4>3
      <3> QED
        BY <1>0, <2>4, <3>1, WorkDirAssumption DEF WriteReceipt, TypeOK
    <2>5. CASE WriteFailure(a)
      BY <1>0, <2>5, WorkDirAssumption DEF WriteFailure, TypeOK
    <2>6. CASE WriteFailureTrace(a)
      BY <1>0, <2>6, WorkDirAssumption DEF WriteFailureTrace, TypeOK, FilesInv
    <2>7. CASE ReadCandidate(a) \/ HashCandidate(a) \/ Validate(a) \/ ConsumeAuditDir(a) \/
             VerifyPublisher(a) \/ CheckParent(a) \/ MakeParent(a) \/ VerifyCandidate(a)
             \/ CheckDestination(a) \/ HashDestination(a) \/ ParseDestination(a) \/
             InspectDestination(a) \/ IOError(a) \/ Crash(a)
      <3>1. UNCHANGED <<files, dest, linked, sealed, trace>>
        BY <2>7
           DEF ReadCandidate, HashCandidate, Validate, ConsumeAuditDir,
               VerifyPublisher, CheckParent, MakeParent, VerifyCandidate,
               CheckDestination, HashDestination, ParseDestination, InspectDestination,
               IOError, Crash
      <3> QED
        BY <1>0, <3>1
    <2> QED
      BY <1>1, <2>1, <2>2, <2>3, <2>4, <2>5, <2>6, <2>7 DEF Step, Advance
  <1>2. CASE RewriteCandidate \/ EditPublisherSource \/ UNCHANGED vars
    BY <1>0, <1>2 DEF RewriteCandidate, EditPublisherSource, vars
  <1> QED
    BY <1>1, <1>2 DEF Next, Step

\* The failure record is written from a digest of the destination itself.
LEMMA OverclaimStep == ASSUME IInv, [Next]_vars PROVE FailureNeverOverclaims'
  <1> USE DEF FailureNeverOverclaims
  <1>0. TypeOK /\ FailureNeverOverclaims /\ \A b \in Attempt : BytesInv(b)
    BY DEF IInv
  <1>1. ASSUME NEW a \in Attempt, Step(a) PROVE FailureNeverOverclaims'
    <2>1. CASE LinkDestination(a)
      BY <1>0, <2>1, ContentAssumption DEF LinkDestination, Content
    <2>2. CASE WriteFailure(a)
      BY <1>0, <2>2, WorkDirAssumption, ContentAssumption DEF WriteFailure, TypeOK, BytesInv, Content
    <2>3. CASE ReadCandidate(a) \/ HashCandidate(a) \/ Validate(a) \/ ConsumeAuditDir(a) \/
             PersistClaim(a) \/ VerifyPublisher(a) \/ CheckParent(a) \/ MakeParent(a) \/
             VerifyCandidate(a) \/ CheckDestination(a) \/ HashDestination(a) \/
             ParseDestination(a) \/ WriteTrace(a) \/ WriteReceipt(a) \/
             InspectDestination(a) \/ WriteFailureTrace(a) \/ IOError(a) \/ Crash(a)
      BY <1>0, <2>3, WorkDirAssumption
         DEF TypeOK, ReadCandidate, HashCandidate, Validate, ConsumeAuditDir,
             PersistClaim, VerifyPublisher, CheckParent, MakeParent, VerifyCandidate,
             CheckDestination, HashDestination, ParseDestination, WriteTrace,
             WriteReceipt, InspectDestination, WriteFailureTrace, IOError, Crash
    <2> QED
      BY <1>1, <2>1, <2>2, <2>3 DEF Step, Advance
  <1>2. CASE RewriteCandidate \/ EditPublisherSource \/ UNCHANGED vars
    BY <1>0, <1>2 DEF RewriteCandidate, EditPublisherSource, vars
  <1> QED
    BY <1>1, <1>2 DEF Next, Step


-----------------------------------------------------------------------------
(* The theorems.                                                           *)

\* IInv is inductive.
LEMMA StepInv == ASSUME IInv, [Next]_vars PROVE IInv'
  <1>1. TypeOK' /\ DirsInv' /\ DestinationInv'
    BY TypeStep, DirsStep, DestinationStep
  <1>2. \A a \in Attempt : EventsInv(a)' /\ ClaimInv(a)' /\ BytesInv(a)' /\ FilesInv(a)'
    BY EventsStep, ClaimStep, BytesStep, FilesStep
  <1>3. EvidenceHasOneAuthor' /\ ReceiptIsTruthful' /\ FailureNeverOverclaims'
    BY OneAuthorStep, ReceiptStep, OverclaimStep
  <1> QED
    BY <1>1, <1>2, <1>3 DEF IInv

\* IInv holds in every reachable state.
THEOREM Invariance == Spec => []IInv
  <1>1. IInv /\ [Next]_vars => IInv'
    BY StepInv
  <1> QED
    BY InitInv, <1>1, PTL DEF Spec

\* Every variable of the executor keeps its type; in particular no attempt
\* ever appends more events than a completed trace has.
THEOREM TypeCorrect == Spec => []TypeOK
  BY Invariance, PTL DEF IInv

\* The evidence in an audit directory is the work of one attempt.
THEOREM OneShotEvidence == Spec => []EvidenceHasOneAuthor
  BY Invariance, PTL DEF IInv

\* A receipt is never written for anything but the attempt's own publication
\* of the exact bytes, for any number of racing attempts and faults.
THEOREM TruthfulReceipts == Spec => []ReceiptIsTruthful
  BY Invariance, PTL DEF IInv

\* A failure record never reports a canonical file that is not there.
THEOREM NoOverclaim == Spec => []FailureNeverOverclaims
  BY Invariance, PTL DEF IInv

\* There is a persisted claim behind every canonical file.
THEOREM ClaimBehindArtifact == Spec => []ClaimPrecedesArtifact
  <1>1. IInv => ClaimPrecedesArtifact
    BY DEF IInv, TypeOK, DestinationInv, ClaimInv, ClaimPrecedesArtifact
  <1> QED
    BY Invariance, <1>1, PTL

\* No step replaces or removes the canonical file, or creates it again.
THEOREM WriteOnce == Spec => NeverReplaced
  <1>1. [Next]_vars => [dest # NoBytes => dest' = dest /\ linked' = linked]_vars
    <2> SUFFICES ASSUME Next, dest # NoBytes PROVE dest' = dest /\ linked' = linked
      OBVIOUS
    <2>1. ASSUME NEW a \in Attempt, LinkDestination(a) PROVE dest' = dest /\ linked' = linked
      BY <2>1 DEF LinkDestination
    <2>2. ASSUME NEW a \in Attempt, Step(a), ~ LinkDestination(a)
          PROVE  dest' = dest /\ linked' = linked
      BY <2>2, OnlyLinkCreates
    <2>3. CASE RewriteCandidate \/ EditPublisherSource
      BY <2>3 DEF RewriteCandidate, EditPublisherSource
    <2> QED
      BY <2>1, <2>2, <2>3 DEF Next, Step
  <1> QED
    BY <1>1, PTL DEF Spec, NeverReplaced

-----------------------------------------------------------------------------
(* Refinement: every step of the executor is a step of OneShotPublication  *)
(* or leaves its variables unchanged.                                      *)

\* The initial states of the executor are abstract initial states.
LEMMA InitRefines == Init => OneShot!AbstractInit
  BY DEF Init, Outcome, OneShot!AbstractInit

\* A step of attempt a moves only the outcome of a.
LEMMA OutcomeStep ==
  ASSUME TypeOK, NEW a \in Attempt, NEW step,
         pc' = [pc EXCEPT ![a] = step], linked' \ {a} = linked \ {a}
  PROVE  [b \in Attempt |-> Outcome(b)]' =
            [[b \in Attempt |-> Outcome(b)] EXCEPT ![a] = Outcome(a)']
  <1>1. ASSUME NEW b \in Attempt, b # a PROVE Outcome(b)' = Outcome(b)
    <2>1. pc'[b] = pc[b] /\ (b \in linked' <=> b \in linked)
      BY <1>1 DEF TypeOK
    <2> QED
      BY <2>1 DEF Outcome
  <1> QED
    BY <1>1

\* An attempt moves within one stage of its outcome.
LEMMA Stutter ==
  ASSUME TypeOK, NEW a \in Attempt, NEW step, pc' = [pc EXCEPT ![a] = step],
         UNCHANGED <<dest, dirs, linked>>, Outcome(a)' = Outcome(a)
  PROVE  UNCHANGED OneShot!avars
  BY OutcomeStep DEF OneShot!avars

\* An attempt that has not completed ends.
LEMMA Ends ==
  ASSUME TypeOK, NEW a \in Attempt, NEW step, pc' = [pc EXCEPT ![a] = step],
         UNCHANGED <<dest, dirs, linked>>,
         pc[a] \in {"idle"} \cup Running, step \in {"refused", "withheld", "failed", "crashed"}
  PROVE  OneShot!End(a)
  <1>1. Outcome(a)' = "ended" /\ Outcome(a) \in {"pending", "claimed", "created"}
    BY DEF TypeOK, Outcome
  <1> QED
    BY <1>1, OutcomeStep DEF OneShot!End

\* Every step is one of the four abstract steps or leaves the artifact, the
\* claims and the outcomes alone.
LEMMA StepRefines == ASSUME IInv, [Next]_vars PROVE [OneShot!AbstractNext]_(OneShot!avars)
  <1>0. TypeOK /\ \A a \in Attempt : BytesInv(a)
    BY DEF IInv
  <1>1. ASSUME NEW a \in Attempt, ConsumeAuditDir(a), WorkDir[a] \notin dirs
        PROVE  OneShot!Claim(a)
    <2>1. Outcome(a) = "pending" /\ Outcome(a)' = "claimed"
      BY <1>0, <1>1 DEF TypeOK, BytesInv, ConsumeAuditDir, Outcome
    <2>2. [b \in Attempt |-> Outcome(b)]' =
              [[b \in Attempt |-> Outcome(b)] EXCEPT ![a] = Outcome(a)']
      BY <1>0, <1>1, OutcomeStep DEF ConsumeAuditDir
    <2> QED
      BY <1>1, <2>1, <2>2 DEF ConsumeAuditDir, OneShot!Claim
  <1>2. ASSUME NEW a \in Attempt, LinkDestination(a), dest = NoBytes
        PROVE  OneShot!Create(a)
    <2>1. dest' \in Content
      BY <1>0, <1>2 DEF TypeOK, Memory, BytesInv, LinkDestination
    <2>2. Outcome(a) = "claimed" /\ Outcome(a)' = "created"
      BY <1>0, <1>2 DEF TypeOK, BytesInv, LinkDestination, Outcome
    <2>3. [b \in Attempt |-> Outcome(b)]' =
              [[b \in Attempt |-> Outcome(b)] EXCEPT ![a] = Outcome(a)']
      BY <1>0, <1>2, OutcomeStep DEF LinkDestination
    <2> QED
      BY <1>2, <2>1, <2>2, <2>3 DEF LinkDestination, OneShot!Create
  <1>3. ASSUME NEW a \in Attempt, WriteReceipt(a), pc'[a] = "completed"
        PROVE  OneShot!Complete(a)
    <2>1. Outcome(a) = "created" /\ Outcome(a)' = "completed" /\ dest = Exact
      BY <1>0, <1>3 DEF TypeOK, BytesInv, WriteReceipt, Outcome
    <2>2. [b \in Attempt |-> Outcome(b)]' =
              [[b \in Attempt |-> Outcome(b)] EXCEPT ![a] = Outcome(a)']
      BY <1>0, <1>3, OutcomeStep DEF WriteReceipt
    <2> QED
      BY <1>3, <2>1, <2>2 DEF WriteReceipt, OneShot!Complete
  <1>4. ASSUME NEW a \in Attempt,
               \/ IOError(a) \/ Crash(a) \/ Validate(a) \/ ConsumeAuditDir(a)
               \/ WriteFailure(a) \/ WriteFailureTrace(a),
               pc'[a] \in {"refused", "withheld", "failed", "crashed"}
        PROVE  OneShot!End(a)
    <2>1. \E step \in {"refused", "withheld", "failed", "crashed"} :
              pc' = [pc EXCEPT ![a] = step]
      BY <1>0, <1>4 DEF TypeOK, IOError, Crash, Validate, ConsumeAuditDir, WriteFailure,
                        WriteFailureTrace
    <2>2. UNCHANGED <<dest, dirs, linked>> /\ pc[a] \in {"idle"} \cup Running
      BY <1>0, <1>4 DEF TypeOK, IOError, Crash, Validate, ConsumeAuditDir, WriteFailure,
                        WriteFailureTrace
    <2> QED
      BY <1>0, <2>1, <2>2, Ends
  <1>5. ASSUME NEW a \in Attempt, Step(a),
               ~ (ConsumeAuditDir(a) /\ WorkDir[a] \notin dirs),
               ~ (LinkDestination(a) /\ dest = NoBytes),
               ~ (WriteReceipt(a) /\ pc'[a] = "completed"),
               pc'[a] \notin {"refused", "withheld", "failed", "crashed"}
        PROVE  UNCHANGED OneShot!avars
    <2>1. UNCHANGED <<dest, dirs, linked>>
      BY <1>0, <1>5
         DEF TypeOK, Step, Advance, ReadCandidate, HashCandidate, Validate, ConsumeAuditDir,
             PersistClaim, VerifyPublisher, CheckParent, MakeParent, VerifyCandidate,
             CheckDestination, LinkDestination, HashDestination, ParseDestination, WriteTrace,
             WriteReceipt, InspectDestination, WriteFailure, WriteFailureTrace, IOError, Crash
    <2>2. pc[a] \in {"idle"} \cup Running
      BY <1>0, <1>5
         DEF TypeOK, Step, Advance, ReadCandidate, HashCandidate, Validate, ConsumeAuditDir,
             PersistClaim, VerifyPublisher, CheckParent, MakeParent, VerifyCandidate,
             CheckDestination, LinkDestination, HashDestination, ParseDestination, WriteTrace,
             WriteReceipt, InspectDestination, WriteFailure, WriteFailureTrace, IOError, Crash
    <2>3. PICK step : pc' = [pc EXCEPT ![a] = step]
      BY <1>5
         DEF Step, Advance, ReadCandidate, HashCandidate, Validate, ConsumeAuditDir,
             PersistClaim, VerifyPublisher, CheckParent, MakeParent, VerifyCandidate,
             CheckDestination, LinkDestination, HashDestination, ParseDestination, WriteTrace,
             WriteReceipt, InspectDestination, WriteFailure, WriteFailureTrace, IOError, Crash
    <2>4. \/ pc[a] \in {"idle"} \cup BeforeClaim /\ pc'[a] \in BeforeClaim
          \/ pc[a] \in TryBlock \cup Handler /\ pc'[a] \in TryBlock \cup Handler
      BY <1>0, <1>5, <2>1
         DEF TypeOK, Step, Advance, ReadCandidate, HashCandidate, Validate, ConsumeAuditDir,
             PersistClaim, VerifyPublisher, CheckParent, MakeParent, VerifyCandidate,
             CheckDestination, LinkDestination, HashDestination, ParseDestination, WriteTrace,
             WriteReceipt, InspectDestination, WriteFailure, WriteFailureTrace, IOError, Crash
    <2>5. Outcome(a)' = Outcome(a)
      BY <2>1, <2>4 DEF Outcome
    <2> QED
      BY <1>0, <2>1, <2>3, <2>5, Stutter
  <1>6. CASE RewriteCandidate \/ EditPublisherSource \/ UNCHANGED vars
    BY <1>6 DEF RewriteCandidate, EditPublisherSource, vars, Outcome, OneShot!avars
  <1>7. ASSUME NEW a \in Attempt, Step(a), pc'[a] \in {"refused", "withheld", "failed", "crashed"}
        PROVE  \/ IOError(a) \/ Crash(a) \/ Validate(a) \/ ConsumeAuditDir(a)
               \/ WriteFailure(a) \/ WriteFailureTrace(a)
    BY <1>0, <1>7
       DEF TypeOK, Step, Advance, ReadCandidate, HashCandidate, PersistClaim, VerifyPublisher,
           CheckParent, MakeParent, VerifyCandidate, CheckDestination, LinkDestination,
           HashDestination, ParseDestination, WriteTrace, WriteReceipt, InspectDestination
  <1>8. ASSUME NEW a \in Attempt, Step(a)
        PROVE  OneShot!AbstractNext \/ UNCHANGED OneShot!avars
    BY <1>1, <1>2, <1>3, <1>4, <1>5, <1>7, <1>8 DEF OneShot!AbstractNext
  <1> QED
    BY <1>6, <1>8 DEF Next, Step

\* The executor implements the abstract one-shot publication.
THEOREM Refinement == Spec => ImplementsOneShot
  <1>1. Init => OneShot!AbstractInit
    BY InitRefines
  <1>2. IInv /\ [Next]_vars => [OneShot!AbstractNext]_(OneShot!avars)
    BY StepRefines
  <1> QED
    BY <1>1, <1>2, Invariance, PTL DEF Spec, ImplementsOneShot, OneShot!AbstractSpec

-----------------------------------------------------------------------------
(* The review beside the executor.  To the invariant of the executor comes *)
(* what an inspection may conclude from the files it read one after the    *)
(* other: files stay, a failed trace is written behind a failure record,   *)
(* and behind a failure record no receipt is written and no canonical file *)
(* is created.                                                             *)

\* A failed trace says that the file was created only if its request created it.
TraceInv ==
    /\ \A a \in Attempt : mem[a].events >= CreatedEvent => a \in linked
    /\ \A d \in AuditDir : trace[d].failed =>
          /\ "failure" \in files[d]
          /\ trace[d].events >= CreatedEvent => Created(d)

\* What no step of the executor undoes.
Lasting(d) ==
    /\ files[d] \subseteq files'[d]
    /\ linked \subseteq linked'
    /\ dest # NoBytes => dest' = dest
    /\ "failure" \in files[d] =>
          /\ "receipt" \in files'[d] => "receipt" \in files[d]
          /\ Created(d)' => Created(d)

\* What an inspection knows of the directory it inspects.
SeenInv(i) == rstep[i] # "idle" => LET d == rdir[i]  o == seen[i] IN
    /\ d \in AuditDir
    /\ o.files \subseteq files[d]
    /\ o.trace.failed =>
          /\ "failure" \in files[d]
          /\ o.trace.events >= CreatedEvent => Created(d)
          /\ rstep[i] \in {"failure", "destination"} /\ "receipt" \notin o.files =>
                "receipt" \notin files[d]

Closing == {"CLOSE_COMPLETED_CANONICAL_PUBLICATION",
            "ACKNOWLEDGE_CANONICAL_ARTIFACT_WITH_INCOMPLETE_AUDIT_FINALIZATION"}

\* What a report says is so for good.
ReportsInv(d) ==
    /\ "VALID_COMPLETED" \in reports[d] => "receipt" \in files[d]
    /\ "VALID_FAILED_BEFORE_CANONICAL_CREATION" \in reports[d] =>
          "failure" \in files[d] /\ ~ Created(d)
    /\ "VALID_CANONICAL_FILE_CREATED_AUDIT_FAILED" \in reports[d] =>
          /\ "failure" \in files[d] /\ "receipt" \notin files[d]
          /\ Created(d) /\ dest = Exact
    /\ closures[d] \cap Closing # {} => Created(d)

InspectionInv ==
    /\ ReviewTypeOK
    /\ \A i \in Inspector : SeenInv(i) /\ (rstep[i] = "idle" => seen[i] = NothingSeen)
    /\ \A d \in AuditDir : ReportsInv(d)

RInv == IInv /\ TraceInv /\ InspectionInv

-----------------------------------------------------------------------------
(* The executor.                                                           *)

LEMMA InitReview == ReviewInit => RInv
  <1> SUFFICES ASSUME ReviewInit PROVE RInv
    OBVIOUS
  <1>1. IInv
    BY InitInv DEF ReviewInit
  <1>2. TraceInv
    BY DEF ReviewInit, Init, TraceInv, CreatedEvent
  <1>3. ReviewTypeOK
    BY ReviewAssumption
       DEF ReviewInit, ReviewTypeOK, NothingSeen, Evidence, Trace, Failure, CompletedEvents
  <1>4. \A i \in Inspector : SeenInv(i) /\ (rstep[i] = "idle" => seen[i] = NothingSeen)
    BY DEF ReviewInit, SeenInv
  <1>5. \A d \in AuditDir : ReportsInv(d)
    BY DEF ReviewInit, ReportsInv
  <1> QED
    BY <1>1, <1>2, <1>3, <1>4, <1>5 DEF RInv, InspectionInv

\* The trace tells of a creation only what happened.
LEMMA TraceStep == ASSUME IInv, TraceInv, [Next]_vars PROVE TraceInv'
  <1> USE DEF TraceInv, Created, CreatedEvent
  <1>0. /\ TypeOK /\ TraceInv
        /\ \A b \in Attempt : EventsInv(b) /\ BytesInv(b) /\ FilesInv(b)
    BY DEF IInv
  <1>1. ASSUME NEW a \in Attempt, Step(a) PROVE TraceInv'
    <2>1. CASE PersistClaim(a)
      <3>1. UNCHANGED <<trace, linked>> /\ files[WorkDir[a]] \subseteq files'[WorkDir[a]]
        BY <1>0, <2>1, WorkDirAssumption DEF TypeOK, PersistClaim
      <3>2. \A d \in AuditDir : files[d] \subseteq files'[d]
        BY <1>0, <2>1 DEF TypeOK, PersistClaim
      <3>3. \A b \in Attempt : mem'[b].events >= CreatedEvent => mem[b].events >= CreatedEvent
        BY <1>0, <2>1 DEF TypeOK, Memory, EventsInv, PersistClaim
      <3> QED
        BY <1>0, <3>1, <3>2, <3>3
    <2>2. CASE VerifyPublisher(a) \/ VerifyCandidate(a) \/ CheckParent(a) \/ MakeParent(a)
      <3>1. UNCHANGED <<files, trace, linked>>
        BY <2>2 DEF VerifyPublisher, VerifyCandidate, CheckParent, MakeParent
      <3>2. /\ mem' = mem \/ mem' = [mem EXCEPT ![a].events = @ + 1]
            /\ mem[a].events <= 3
        BY <1>0, <2>2
           DEF EventsInv, VerifyPublisher, VerifyCandidate, CheckParent, MakeParent
      <3>3. \A b \in Attempt : mem'[b].events >= CreatedEvent => mem[b].events >= CreatedEvent
        <4>1. mem \in [Attempt -> Memory]
          BY <1>0 DEF TypeOK
        <4>2. \A b \in Attempt \ {a} : mem'[b] = mem[b]
          BY <3>2, <4>1
        <4>3. mem'[a] = mem[a] \/ mem'[a].events \in 0..4
          BY <3>2, <4>1 DEF Memory
        <4> QED
          BY <4>2, <4>3
      <3> QED
        BY <1>0, <3>1, <3>3
    <2>3. CASE ParseDestination(a)
      BY <1>0, <2>3 DEF TypeOK, Memory, BytesInv, ParseDestination
    <2>4. CASE LinkDestination(a)
      BY <1>0, <2>4 DEF TypeOK, Memory, LinkDestination
    <2>5. CASE WriteTrace(a)
      BY <1>0, <2>5, WorkDirAssumption DEF TypeOK, WriteTrace
    <2>6. CASE WriteFailureTrace(a)
      BY <1>0, <2>6, WorkDirAssumption DEF TypeOK, FilesInv, WriteFailureTrace
    <2>7. CASE WriteReceipt(a) \/ WriteFailure(a)
      BY <1>0, <2>7, WorkDirAssumption DEF TypeOK, WriteReceipt, WriteFailure
    <2>8. CASE ReadCandidate(a) \/ HashCandidate(a) \/ HashDestination(a) \/
               InspectDestination(a)
      <3>1. \A b \in Attempt : mem'[b].events = mem[b].events
        BY <1>0, <2>8
           DEF TypeOK, Memory, ReadCandidate, HashCandidate, HashDestination, InspectDestination
      <3>2. UNCHANGED <<trace, files, linked>>
        BY <2>8 DEF ReadCandidate, HashCandidate, HashDestination, InspectDestination
      <3> QED
        BY <1>0, <3>1, <3>2
    <2>9. CASE Validate(a) \/ ConsumeAuditDir(a) \/ CheckDestination(a) \/ IOError(a) \/
                Crash(a)
      BY <1>0, <2>9
         DEF TypeOK, Validate, ConsumeAuditDir, CheckDestination, IOError, Crash
    <2> QED
      BY <1>1, <2>1, <2>2, <2>3, <2>4, <2>5, <2>6, <2>7, <2>8, <2>9 DEF Step, Advance
  <1>2. CASE RewriteCandidate \/ EditPublisherSource \/ UNCHANGED vars
    BY <1>0, <1>2 DEF RewriteCandidate, EditPublisherSource, vars
  <1> QED
    BY <1>1, <1>2 DEF Next, Step

\* Behind a failure record nothing is published or completed.
LEMMA ExecutorLasts == ASSUME IInv, [Next]_vars, NEW d \in AuditDir PROVE Lasting(d)
  <1> USE DEF Lasting, Created
  <1>0. TypeOK /\ \A b \in Attempt : FilesInv(b)
    BY DEF IInv
  <1>1. ASSUME NEW a \in Attempt, Step(a) PROVE Lasting(d)
    <2>1. CASE LinkDestination(a)
      BY <1>0, <2>1, WorkDirAssumption DEF TypeOK, FilesInv, LinkDestination
    <2>2. CASE WriteReceipt(a)
      BY <1>0, <2>2, WorkDirAssumption DEF TypeOK, FilesInv, WriteReceipt
    <2>3. CASE PersistClaim(a) \/ WriteTrace(a) \/ WriteFailure(a) \/ WriteFailureTrace(a)
      BY <1>0, <2>3, WorkDirAssumption
         DEF TypeOK, PersistClaim, WriteTrace, WriteFailure, WriteFailureTrace
    <2>4. CASE ReadCandidate(a) \/ HashCandidate(a) \/ Validate(a) \/ ConsumeAuditDir(a) \/
               VerifyPublisher(a) \/ CheckParent(a) \/ MakeParent(a) \/ VerifyCandidate(a) \/
               CheckDestination(a) \/ HashDestination(a) \/ ParseDestination(a) \/
               InspectDestination(a) \/ IOError(a) \/ Crash(a)
      BY <1>0, <2>4
         DEF TypeOK, ReadCandidate, HashCandidate, Validate, ConsumeAuditDir,
             VerifyPublisher, CheckParent, MakeParent, VerifyCandidate, CheckDestination,
             HashDestination, ParseDestination, InspectDestination, IOError, Crash
    <2> QED
      BY <1>1, <2>1, <2>2, <2>3, <2>4 DEF Step, Advance
  <1>2. CASE RewriteCandidate \/ EditPublisherSource \/ UNCHANGED vars
    BY <1>2 DEF RewriteCandidate, EditPublisherSource, vars
  <1> QED
    BY <1>1, <1>2 DEF Next, Step

\* What inspections know and reports say survives any step that undoes nothing.
LEMMA ExecutorKeeps ==
    ASSUME InspectionInv, UNCHANGED reviewVars, \A d \in AuditDir : Lasting(d)
    PROVE  InspectionInv'
  <1> USE DEF reviewVars
  <1>1. ReviewTypeOK'
    BY DEF InspectionInv, ReviewTypeOK
  <1>2. \A d \in AuditDir : Created(d) => Created(d)'
    BY DEF Lasting, Created
  <1>3. ASSUME NEW i \in Inspector
        PROVE SeenInv(i)' /\ (rstep'[i] = "idle" => seen'[i] = NothingSeen)
    BY <1>2 DEF InspectionInv, SeenInv, Lasting
  <1>4. ASSUME NEW d \in AuditDir PROVE ReportsInv(d)'
    <2>1. ReportsInv(d) /\ Lasting(d) /\ (Created(d) => Created(d)')
      BY <1>2 DEF InspectionInv
    <2>2. dest = Exact => dest' = Exact
      BY <2>1, ContentAssumption DEF Lasting, Content
    <2> QED
      BY <2>1, <2>2 DEF ReportsInv, Lasting
  <1> QED
    BY <1>1, <1>3, <1>4 DEF InspectionInv

-----------------------------------------------------------------------------
(* The reviewers.                                                          *)

LEMMA StartKeeps ==
    ASSUME InspectionInv, NEW i \in Inspector, NEW d \in AuditDir, StartInspection(i, d)
    PROVE  InspectionInv'
  <1>1. /\ rstep[i] = "idle" /\ seen[i] = NothingSeen
        /\ rstep' = [rstep EXCEPT ![i] = "claim"] /\ rdir' = [rdir EXCEPT ![i] = d]
        /\ UNCHANGED <<vars, seen, reports, closures>>
    BY DEF InspectionInv, StartInspection
  <1>2. UNCHANGED <<files, trace, dest, linked>>
    BY <1>1 DEF vars, fileVars
  <1>3. ReviewTypeOK'
    BY <1>1 DEF InspectionInv, ReviewTypeOK
  <1>4. ASSUME NEW k \in Inspector
        PROVE SeenInv(k)' /\ (rstep'[k] = "idle" => seen'[k] = NothingSeen)
    <2>1. CASE k = i
      BY <1>1, <1>2, <2>1 DEF InspectionInv, ReviewTypeOK, SeenInv, NothingSeen
    <2>2. CASE k # i
      BY <1>1, <1>2, <2>2 DEF InspectionInv, ReviewTypeOK, SeenInv, Created
    <2> QED
      BY <2>1, <2>2
  <1>5. \A e \in AuditDir : ReportsInv(e)'
    BY <1>1, <1>2 DEF InspectionInv, ReportsInv, Created
  <1> QED
    BY <1>3, <1>4, <1>5 DEF InspectionInv

\* A reading adds at most the file that was read, as it is on disk.
LEMMA ReadingIs ==
    ASSUME TypeOK, NEW o \in Evidence, NEW d \in AuditDir, NEW name \in EvidenceFile
    PROVE  LET r == Reading(o, name, d) IN
           /\ r \in Evidence
           /\ r.files = IF name \in files[d] THEN o.files \cup {name} ELSE o.files
           /\ r.trace = IF name = "trace" /\ name \in files[d] THEN trace[d] ELSE o.trace
  BY DEF TypeOK, Evidence, Reading

\* A reading of inspector i that knows r afterwards.
LEMMA KnowsKeeps ==
    ASSUME InspectionInv, NEW i \in Inspector, NEW d \in AuditDir, d = rdir[i],
           NEW r \in Evidence, NEW next \in {"trace", "digest", "receipt", "failure",
                                            "destination"},
           rstep' = [rstep EXCEPT ![i] = next], seen' = [seen EXCEPT ![i] = r],
           UNCHANGED <<files, trace, dest, linked, rdir, reports, closures>>,
           r.files \subseteq files[d],
           r.trace.failed =>
               /\ "failure" \in files[d]
               /\ r.trace.events >= CreatedEvent => Created(d)
               /\ next \in {"failure", "destination"} /\ "receipt" \notin r.files =>
                     "receipt" \notin files[d]
    PROVE  InspectionInv'
  <1>1. ReviewTypeOK'
    BY DEF InspectionInv, ReviewTypeOK
  <1>2. SeenInv(i)'
    <2>1. rstep'[i] = next /\ seen'[i] = r /\ rdir'[i] = d
      BY DEF InspectionInv, ReviewTypeOK
    <2>2. Created(d)' <=> Created(d)
      BY DEF Created
    <2> QED
      BY <2>1, <2>2 DEF SeenInv
  <1>3. ASSUME NEW k \in Inspector
        PROVE SeenInv(k)' /\ (rstep'[k] = "idle" => seen'[k] = NothingSeen)
    <2>1. CASE k = i
      BY <1>2, <2>1 DEF InspectionInv, ReviewTypeOK
    <2>2. CASE k # i
      BY <2>2 DEF InspectionInv, ReviewTypeOK, SeenInv, Created
    <2> QED
      BY <2>1, <2>2
  <1>4. \A e \in AuditDir : ReportsInv(e)'
    BY DEF InspectionInv, ReportsInv, Created
  <1> QED
    BY <1>1, <1>3, <1>4 DEF InspectionInv

LEMMA LoadKeeps ==
    ASSUME TypeOK, TraceInv, InspectionInv, NEW i \in Inspector,
           LoadClaim(i) \/ LoadTrace(i) \/ LoadReceipt(i) \/ LoadFailure(i)
    PROVE  InspectionInv'
  <1>1. PICK name \in EvidenceFile, next \in {"trace", "digest", "failure", "destination"} :
            /\ Load(i, name, next)
            /\ next \in {"failure", "destination"} <=> name \in {"receipt", "failure"}
    BY DEF LoadClaim, LoadTrace, LoadReceipt, LoadFailure, EvidenceFile
  <1> DEFINE d == rdir[i]
             o == seen[i]
             r == Reading(o, name, d)
  <1>2. d \in AuditDir /\ o \in Evidence /\ SeenInv(i) /\ rstep[i] = name
    BY <1>1 DEF InspectionInv, ReviewTypeOK, SeenInv, Load, EvidenceFile
  <1>3. /\ r \in Evidence
        /\ r.files = IF name \in files[d] THEN o.files \cup {name} ELSE o.files
        /\ r.trace = IF name = "trace" /\ name \in files[d] THEN trace[d] ELSE o.trace
    BY <1>2, ReadingIs
  <1>4. /\ rstep' = [rstep EXCEPT ![i] = next] /\ seen' = [seen EXCEPT ![i] = r]
        /\ UNCHANGED <<files, trace, dest, linked, rdir, reports, closures>>
    BY <1>1 DEF Load, vars, fileVars
  <1>5. r.files \subseteq files[d]
    BY <1>2, <1>3 DEF SeenInv, EvidenceFile
  <1>6. r.trace.failed => "failure" \in files[d] /\ (r.trace.events >= CreatedEvent => Created(d))
    BY <1>2, <1>3 DEF SeenInv, TraceInv, EvidenceFile
  <1>7. r.trace.failed /\ next \in {"failure", "destination"} /\ "receipt" \notin r.files =>
            "receipt" \notin files[d]
    BY <1>1, <1>2, <1>3 DEF SeenInv
  <1> HIDE DEF r
  <1> QED
    BY <1>2, <1>3, <1>4, <1>5, <1>6, <1>7, KnowsKeeps

\* The digest of the trace changes nothing of what else is known.
LEMMA HashKeeps ==
    ASSUME TypeOK, InspectionInv, NEW i \in Inspector, HashTrace(i)
    PROVE  InspectionInv'
  <1> DEFINE d == rdir[i]
             o == seen[i]
             r == [o EXCEPT !.digest = IF Has(o, "trace") THEN trace[d] ELSE @]
  <1>1. d \in AuditDir /\ o \in Evidence /\ SeenInv(i)
    BY DEF InspectionInv, ReviewTypeOK, SeenInv, HashTrace
  <1>2. r \in Evidence /\ r.files = o.files /\ r.trace = o.trace
    BY <1>1 DEF TypeOK, Evidence
  <1>3. /\ rstep[i] = "digest" /\ rstep' = [rstep EXCEPT ![i] = "receipt"]
        /\ seen' = [seen EXCEPT ![i] = r]
        /\ UNCHANGED <<files, trace, dest, linked, rdir, reports, closures>>
    BY DEF HashTrace, vars, fileVars
  <1> HIDE DEF r
  <1> QED
    BY <1>1, <1>2, <1>3, KnowsKeeps DEF SeenInv

\* What a verdict rests on.
LEMMA VerdictIs ==
    ASSUME NEW o \in Evidence, NEW bytes
    PROVE  LET v == Verdict(o, bytes) IN
           /\ v \in Verdicts \cup {Raises}
           /\ v = "VALID_COMPLETED" => "receipt" \in o.files
           /\ v = "VALID_FAILED_BEFORE_CANONICAL_CREATION" =>
                 "failure" \in o.files /\ bytes = NoBytes
           /\ v = "VALID_CANONICAL_FILE_CREATED_AUDIT_FAILED" =>
                 /\ "failure" \in o.files /\ "receipt" \notin o.files
                 /\ o.trace.failed /\ o.trace.events >= CreatedEvent
                 /\ bytes = Exact
  <1> USE DEF Verdicts, Raises, Has
  <1>1. CASE Admissible(o, bytes) /\ Has(o, "receipt")
    BY <1>1 DEF Verdict, Admissible
  <1>2. CASE /\ Admissible(o, bytes) /\ ~ Has(o, "receipt") /\ Has(o, "failure")
             /\ FailureHolds(o, bytes)
    <2>1. Verdict(o, bytes) = FailureVerdict(o)
      BY <1>2 DEF Verdict
    <2>2. bytes \in {NoBytes, Exact}
      BY <1>2 DEF Admissible
    <2> QED
      BY <1>2, <2>1, <2>2 DEF FailureVerdict, FailureHolds, FailedTrace
  <1>3. CASE /\ Admissible(o, bytes) /\ ~ Has(o, "receipt") /\ Has(o, "failure")
             /\ ~ FailureHolds(o, bytes)
    BY <1>3 DEF Verdict
  <1>4. CASE ~ Admissible(o, bytes) \/ (~ Has(o, "receipt") /\ ~ Has(o, "failure"))
    BY <1>4 DEF Verdict
  <1> QED
    BY <1>1, <1>2, <1>3, <1>4

LEMMA ConcludeKeeps ==
    ASSUME IInv, InspectionInv, NEW i \in Inspector, InspectArtifact(i)
    PROVE  InspectionInv'
  <1> DEFINE d == rdir[i]
             o == seen[i]
             v == Verdict(o, dest)
  <1>1. /\ rstep[i] = "destination"
        /\ rstep' = [rstep EXCEPT ![i] = "idle"] /\ rdir' = [rdir EXCEPT ![i] = NoDir]
        /\ seen' = [seen EXCEPT ![i] = NothingSeen]
        /\ UNCHANGED <<files, trace, dest, linked, closures>>
        /\ reports' = IF v = Raises THEN reports ELSE [reports EXCEPT ![d] = @ \cup {v}]
    BY DEF InspectArtifact, Conclude, vars, fileVars
  <1>2. d \in AuditDir /\ o \in Evidence /\ SeenInv(i) /\ rstep[i] # "idle"
    BY <1>1 DEF InspectionInv, ReviewTypeOK, SeenInv
  <1>3. v \in Verdicts \cup {Raises}
    BY <1>2, VerdictIs
  <1>4. ReviewTypeOK'
    <2>1. NothingSeen \in Evidence
      BY DEF NothingSeen, Evidence, Trace, Failure, CompletedEvents
    <2>2. reports' \in [AuditDir -> SUBSET Verdicts]
      BY <1>1, <1>2, <1>3 DEF InspectionInv, ReviewTypeOK
    <2> QED
      BY <1>1, <2>1, <2>2 DEF InspectionInv, ReviewTypeOK
  <1>5. ASSUME NEW k \in Inspector
        PROVE SeenInv(k)' /\ (rstep'[k] = "idle" => seen'[k] = NothingSeen)
    <2>1. CASE k = i
      BY <1>1, <2>1 DEF InspectionInv, ReviewTypeOK, SeenInv
    <2>2. CASE k # i
      BY <1>1, <2>2 DEF InspectionInv, ReviewTypeOK, SeenInv, Created
    <2> QED
      BY <2>1, <2>2
  <1>6. ASSUME NEW e \in AuditDir PROVE ReportsInv(e)'
    <2>1. ReportsInv(e) /\ (Created(e)' <=> Created(e))
      BY <1>1 DEF InspectionInv, Created
    <2>2. CASE e # d \/ v = Raises
      <3>1. reports'[e] = reports[e]
        BY <1>1, <2>2 DEF InspectionInv, ReviewTypeOK
      <3> QED
        BY <1>1, <2>1, <3>1 DEF ReportsInv
    <2>3. CASE e = d /\ v # Raises
      <3>1. reports'[d] = reports[d] \cup {v}
        BY <1>1, <1>2, <2>3 DEF InspectionInv, ReviewTypeOK
      <3>2. v = "VALID_COMPLETED" => "receipt" \in files[d]
        BY <1>2, VerdictIs DEF SeenInv
      <3>3. v = "VALID_FAILED_BEFORE_CANONICAL_CREATION" =>
                "failure" \in files[d] /\ ~ Created(d)
        BY <1>2, VerdictIs DEF SeenInv, IInv, DestinationInv, Created
      <3>4. v = "VALID_CANONICAL_FILE_CREATED_AUDIT_FAILED" =>
                /\ "failure" \in files[d] /\ "receipt" \notin files[d]
                /\ Created(d) /\ dest = Exact
        BY <1>1, <1>2, VerdictIs DEF SeenInv
      <3> QED
        BY <1>1, <2>1, <2>3, <3>1, <3>2, <3>3, <3>4 DEF ReportsInv
    <2> QED
      BY <2>2, <2>3
  <1> QED
    BY <1>4, <1>5, <1>6 DEF InspectionInv

\* Only reports of a created file make a bundle that closes one.
LEMMA CloseKeeps ==
    ASSUME IInv, InspectionInv, NEW d \in AuditDir, Close(d)
    PROVE  InspectionInv'
  <1>1. PICK verdict \in reports[d], disposition \in Dispositions :
            /\ Eligible(verdict, disposition)
            /\ closures' = [closures EXCEPT ![d] = @ \cup {disposition}]
    BY DEF Close
  <1>2. UNCHANGED <<files, trace, dest, linked, rstep, rdir, seen, reports>>
    BY DEF Close, vars, fileVars
  <1>3. ReviewTypeOK'
    BY <1>1, <1>2 DEF InspectionInv, ReviewTypeOK
  <1>4. \A k \in Inspector : SeenInv(k)' /\ (rstep'[k] = "idle" => seen'[k] = NothingSeen)
    BY <1>2 DEF InspectionInv, SeenInv, Created
  <1>5. disposition \in Closing => Created(d)
    BY <1>1 DEF Eligible, Closing, InspectionInv, ReportsInv, IInv, ReceiptIsTruthful, Created
  <1>6. ASSUME NEW e \in AuditDir PROVE ReportsInv(e)'
    <2>1. closures'[e] = IF e = d THEN closures[e] \cup {disposition} ELSE closures[e]
      BY <1>1 DEF InspectionInv, ReviewTypeOK
    <2> QED
      BY <1>2, <1>5, <2>1 DEF InspectionInv, ReportsInv, Created
  <1> QED
    BY <1>3, <1>4, <1>6 DEF InspectionInv

\* RInv is inductive.
LEMMA StepReview == RInv /\ [ReviewNext]_allVars => RInv'
  <1> SUFFICES ASSUME RInv, [ReviewNext]_allVars PROVE RInv'
    OBVIOUS
  <1>1. CASE [Next]_vars /\ UNCHANGED reviewVars
    BY <1>1, StepInv, TraceStep, ExecutorLasts, ExecutorKeeps DEF RInv
  <1>2. ASSUME UNCHANGED vars PROVE IInv' /\ TraceInv'
    BY <1>2, StepInv, TraceStep DEF RInv
  <1>3. ASSUME NEW i \in Inspector, NEW d \in AuditDir, StartInspection(i, d) PROVE RInv'
    BY <1>2, <1>3, StartKeeps DEF RInv, StartInspection
  <1>4. ASSUME NEW i \in Inspector,
               LoadClaim(i) \/ LoadTrace(i) \/ LoadReceipt(i) \/ LoadFailure(i)
        PROVE  RInv'
    <2>1. UNCHANGED vars
      BY <1>4 DEF LoadClaim, LoadTrace, LoadReceipt, LoadFailure, Load
    <2> QED
      BY <1>2, <1>4, <2>1, LoadKeeps DEF RInv, IInv
  <1>5. ASSUME NEW i \in Inspector, HashTrace(i) PROVE RInv'
    <2>1. UNCHANGED vars
      BY <1>5 DEF HashTrace
    <2> QED
      BY <1>2, <1>5, <2>1, HashKeeps DEF RInv, IInv
  <1>6. ASSUME NEW i \in Inspector, InspectArtifact(i) PROVE RInv'
    <2>1. UNCHANGED vars
      BY <1>6 DEF InspectArtifact, Conclude
    <2> QED
      BY <1>2, <1>6, <2>1, ConcludeKeeps DEF RInv
  <1>7. ASSUME NEW d \in AuditDir, Close(d) PROVE RInv'
    <2>1. UNCHANGED vars
      BY <1>7 DEF Close
    <2> QED
      BY <1>2, <1>7, <2>1, CloseKeeps DEF RInv
  <1> QED
    BY <1>1, <1>3, <1>4, <1>5, <1>6, <1>7 DEF ReviewNext, allVars

-----------------------------------------------------------------------------
(* The theorems.                                                           *)

\* RInv holds in every reachable state of executor and review together.
THEOREM ReviewInvariance == ReviewSpec => []RInv
  BY InitReview, StepReview, PTL DEF ReviewSpec

\* Every variable of the review keeps its type.
THEOREM ReviewTypeCorrect == ReviewSpec => []ReviewTypeOK
  <1>1. RInv => ReviewTypeOK
    BY DEF RInv, InspectionInv
  <1> QED
    BY ReviewInvariance, <1>1, PTL

\* A report of completion is about a request that published the exact bytes.
THEOREM CompletedReports == ReviewSpec => []CompletedReportIsSound
  <1>1. RInv => CompletedReportIsSound
    BY DEF RInv, IInv, InspectionInv, ReportsInv, ReceiptIsTruthful, CompletedReportIsSound,
           Created
  <1> QED
    BY ReviewInvariance, <1>1, PTL

\* A request reported to have failed before creation never creates the file.
THEOREM FailedReports == ReviewSpec => []FailedReportIsFinal
  <1>1. RInv => FailedReportIsFinal
    BY DEF RInv, InspectionInv, ReportsInv, FailedReportIsFinal
  <1> QED
    BY ReviewInvariance, <1>1, PTL

\* A report of partial success is about the request that created the file.
THEOREM PartialReports == ReviewSpec => []PartialReportIsSound
  <1>1. RInv => PartialReportIsSound
    BY DEF RInv, InspectionInv, ReportsInv, PartialReportIsSound
  <1> QED
    BY ReviewInvariance, <1>1, PTL

\* Conclusive reports of one request agree, for any number of inspections.
THEOREM Agreement == ReviewSpec => []ReportsAgree
  <1>1. ASSUME RInv PROVE ReportsAgree
    <2>1. ASSUME NEW d \in AuditDir PROVE reports[d] \subseteq Verdicts /\ ReportsInv(d)
      BY <1>1 DEF RInv, InspectionInv, ReviewTypeOK
    <2>2. ASSUME NEW d \in AuditDir, "receipt" \in files[d] PROVE Created(d)
      BY <1>1, <2>2 DEF RInv, IInv, ReceiptIsTruthful, Created
    <2> QED
      BY <2>1, <2>2 DEF ReportsInv, ReportsAgree, Verdicts
  <1> QED
    BY ReviewInvariance, <1>1, PTL

\* The canonical artifact is closed for one request only.
THEOREM ClosedOnce == ReviewSpec => []ArtifactClosedOnce
  <1>1. ASSUME RInv PROVE ArtifactClosedOnce
    <2>1. ASSUME NEW d \in AuditDir, closures[d] \cap Closing # {} PROVE Created(d)
      BY <1>1, <2>1 DEF RInv, InspectionInv, ReportsInv
    <2>2. \A a, b \in linked : a = b
      BY <1>1 DEF RInv, IInv, DestinationInv
    <2> QED
      BY <2>1, <2>2 DEF ArtifactClosedOnce, Closing, Created
  <1> QED
    BY ReviewInvariance, <1>1, PTL

\* A later inspection of what was reported completed never says otherwise.
THEOREM StableVerdict == ReviewSpec => []CompletedVerdictIsStable
  <1>1. ASSUME RInv PROVE CompletedVerdictIsStable
    <2>1. ASSUME NEW d \in AuditDir, "VALID_COMPLETED" \in reports[d]
          PROVE  CurrentVerdict(d) \in {"VALID_COMPLETED", Raises}
      <3>1. Has(OnDisk(d), "receipt")
        BY <1>1, <2>1 DEF RInv, InspectionInv, ReportsInv, Has, OnDisk
      <3> QED
        BY <3>1 DEF CurrentVerdict, Verdict, Admissible, Has
    <2> QED
      BY <2>1 DEF CompletedVerdictIsStable
  <1> QED
    BY ReviewInvariance, <1>1, PTL

=============================================================================

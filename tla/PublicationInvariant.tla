------------------------ MODULE PublicationInvariant ------------------------
(***************************************************************************)
(* The inductive invariant of the publication executor: what is true of    *)
(* every attempt at every step of its program, of every audit directory,   *)
(* and of the canonical destination.  TLC checks it; PublicationProofs     *)
(* proves it and derives the safety properties from it.                    *)
(***************************************************************************)
EXTENDS PublicationRefinement

\* The destination exists exactly when one link succeeded, and only one did.
DestinationInv ==
    /\ dest # NoBytes <=> linked # {}
    /\ \A a, b \in linked : a = b

\* How many events an attempt has appended when it is about to take a step.
EventsInv(a) ==
    /\ pc[a] = "claim" => mem[a].events = 0
    /\ pc[a] = "publisher" => mem[a].events = 1
    /\ pc[a] \in {"parent", "mkparent"} => mem[a].events = 2
    /\ pc[a] = "candidate" => mem[a].events = 3
    /\ pc[a] \in {"absent", "link"} => mem[a].events = 4
    /\ pc[a] \in {"verify", "parse"} => mem[a].events = 5
    /\ pc[a] \in {"trace", "receipt", "completed"} => mem[a].events = 6
    /\ pc[a] \in BeforeClaim => mem[a].events = 0

\* Whose claim is on disk.
ClaimInv(a) ==
    /\ pc[a] \in BeforeClaim \cup {"claim"} => ~ mem[a].claimed
    /\ pc[a] \in (TryBlock \ {"claim"}) \cup {"completed"} => mem[a].claimed
    /\ a \in linked => mem[a].claimed
    /\ mem[a].claimed => "claim" \in files[WorkDir[a]] /\ WorkDir[a] \in dirs
    /\ Holds(a) => WorkDir[a] \in dirs

\* What an attempt knows of the bytes it read and of the destination.
BytesInv(a) ==
    /\ pc[a] \in Running => mem[a].buf # NoBytes
    /\ mem[a].canonical # NoBytes => mem[a].canonical = dest
    /\ pc[a] \in {"parse", "trace", "receipt", "completed"} => dest = Exact
    /\ pc[a] \in AfterLink \cup {"completed"} => a \in linked
    /\ pc[a] \in {"idle", "refused", "withheld"} \cup BeforeClaim \cup BeforeLink
          => a \notin linked

\* Which evidence files the directory of an attempt holds at a step.
FilesInv(a) ==
    /\ pc[a] = "receipt" =>
          /\ "trace" \in files[WorkDir[a]]
          /\ trace[WorkDir[a]] = [events |-> CompletedEvents, failed |-> FALSE]
    /\ pc[a] \in TryBlock => files[WorkDir[a]] \cap {"receipt", "failure"} = {}
    /\ pc[a] = "failuretrace" => "failure" \in files[WorkDir[a]]

\* Evidence is written only into directories that were made.
DirsInv == \A d \in AuditDir : files[d] # {} => d \in dirs

IInv ==
    /\ TypeOK
    /\ DirsInv
    /\ DestinationInv
    /\ \A a \in Attempt : EventsInv(a) /\ ClaimInv(a) /\ BytesInv(a) /\ FilesInv(a)
    /\ EvidenceHasOneAuthor
    /\ ReceiptIsTruthful
    /\ FailureNeverOverclaims

=============================================================================

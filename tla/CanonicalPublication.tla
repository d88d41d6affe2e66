------------------------ MODULE CanonicalPublication ------------------------
(***************************************************************************)
(* The one-shot executor of an authorized canonical publication:           *)
(* execute_authorized_canonical_publication of                             *)
(* relate/family/canonical_publication.py, with the two atomic file        *)
(* primitives of relate/evidence/atomic_io.py it is built on.              *)
(*                                                                         *)
(* Every attempt is one call of the executor, in a process of its own,     *)
(* with the executable request that names its audit work directory.  All   *)
(* attempts publish the same Stage 2J candidate to the same canonical      *)
(* destination: two attempts with the same audit directory are two runs of *)
(* one request, two with different directories are two requests made from  *)
(* one Stage 2J authorization while the destination was absent.            *)
(*                                                                         *)
(* A file is its bytes and a SHA-256 is the bytes it was taken from (no    *)
(* collisions).  Exact are the bytes whose SHA-256 the request binds;      *)
(* Reformatted are other bytes that parse to the same candidate record     *)
(* (another layout of the same JSON); Malformed do not parse to it.        *)
(*                                                                         *)
(* The environment may rewrite the candidate file or edit the publisher's  *)
(* source files, at most MaxEdits times; at most MaxFaults times an I/O    *)
(* call raises or a process dies.  Temporary files are left out: they      *)
(* have random names and nothing reads them.  The missing part of the      *)
(* canonical parent path is one directory.                                 *)
(***************************************************************************)
EXTENDS Naturals, FiniteSets

CONSTANTS
    Attempt,      \* the calls of the executor
    AuditDir,     \* the audit work directories requests name
    WorkDir,      \* the audit work directory of each attempt's request
    Authorized,   \* the attempts whose authorization is not withheld
    Exact, Reformatted, Malformed, \* the bytes a candidate file may hold
    NoBytes,      \* "no such file", "not read yet"
    MaxEdits,     \* bound on what the environment changes
    MaxFaults     \* bound on I/O errors and crashes

Content == {Exact} \cup Reformatted \cup Malformed

ASSUME WorkDirAssumption == WorkDir \in [Attempt -> AuditDir]
ASSUME ContentAssumption ==
    /\ NoBytes \notin Content
    /\ Exact \notin Reformatted \cup Malformed
ASSUME BoundAssumption == MaxEdits \in Nat /\ MaxFaults \in Nat
ASSUME AuthorizedAssumption == Authorized \subseteq Attempt

VARIABLES
    \* the file system
    candidate,     \* bytes of the candidate file
    sourceIntact,  \* the publisher's source identity is the request's
    parent,        \* the canonical parent directory exists
    dest,          \* bytes at the canonical destination, or NoBytes
    dirs,          \* the audit directories that exist
    files,         \* the evidence files of each audit directory
    trace,         \* content of its trace file, if there is one
    failure,       \* content of its failure record, if there is one
    sealed,        \* the trace its receipt's trace_file_sha256 was taken from
    \* the attempts
    pc,            \* next step of each attempt
    mem,           \* local variables of each attempt
    \* history and bounds
    linked,        \* the attempts whose os.link succeeded
    edits,
    faults

fileVars == <<candidate, sourceIntact, parent, dest, dirs, files, trace, failure, sealed>>
evidence == <<dirs, files, trace, failure, sealed>>
vars == <<fileVars, pc, mem, linked, edits, faults>>

-----------------------------------------------------------------------------

EvidenceFile == {"claim", "trace", "receipt", "failure"}

\* Length of _COMPLETED_EVENTS: claim persisted, publisher identity verified,
\* parent verified, candidate bytes verified, destination created, destination
\* verified.  The events of an attempt are always a prefix of that list, so the
\* list is its length.
CompletedEvents == 6
CreatedEvent == 5

Trace == [events : 0..CompletedEvents, failed : BOOLEAN]
Failure == [claimed : BOOLEAN, created : BOOLEAN]

\* buf: candidate_bytes, sha: candidate_file_sha, canonical: canonical_sha.
Memory == [buf : Content \cup {NoBytes}, sha : Content \cup {NoBytes},
           claimed : BOOLEAN, events : 0..CompletedEvents,
           canonical : Content \cup {NoBytes}]

BeforeClaim == {"idle", "hash", "validate", "mkdir"}
BeforeLink == {"claim", "publisher", "parent", "mkparent", "candidate", "absent", "link"}
AfterLink == {"verify", "parse", "trace", "receipt"}
TryBlock == BeforeLink \cup AfterLink
Handler == {"except", "failure", "failuretrace"}
Ended == {"refused", "withheld", "failed", "completed", "crashed"}
Running == (BeforeClaim \ {"idle"}) \cup TryBlock \cup Handler

TypeOK ==
    /\ candidate \in Content
    /\ sourceIntact \in BOOLEAN /\ parent \in BOOLEAN
    /\ dest \in Content \cup {NoBytes}
    /\ dirs \subseteq AuditDir
    /\ files \in [AuditDir -> SUBSET EvidenceFile]
    /\ trace \in [AuditDir -> Trace]
    /\ sealed \in [AuditDir -> Trace]
    /\ failure \in [AuditDir -> Failure]
    /\ pc \in [Attempt -> {"idle"} \cup Running \cup Ended]
    /\ mem \in [Attempt -> Memory]
    /\ linked \subseteq Attempt
    /\ edits \in 0..MaxEdits /\ faults \in 0..MaxFaults

Init ==
    /\ candidate \in Content
    /\ sourceIntact = TRUE
    /\ parent \in BOOLEAN
    /\ dest = NoBytes
    /\ dirs = {}
    /\ files = [d \in AuditDir |-> {}]
    /\ trace = [d \in AuditDir |-> [events |-> 0, failed |-> FALSE]]
    /\ sealed = [d \in AuditDir |-> [events |-> 0, failed |-> FALSE]]
    /\ failure = [d \in AuditDir |-> [claimed |-> FALSE, created |-> FALSE]]
    /\ pc = [a \in Attempt |-> "idle"]
    /\ mem = [a \in Attempt |-> [buf |-> NoBytes, sha |-> NoBytes, claimed |-> FALSE,
                                 events |-> 0, canonical |-> NoBytes]]
    /\ linked = {}
    /\ edits = 0 /\ faults = 0

-----------------------------------------------------------------------------
(* Helpers of the actions.                                                 *)

At(a, step) == pc[a] = step
Go(a, step) == pc' = [pc EXCEPT ![a] = step]
Put(d, name) == files' = [files EXCEPT ![d] = @ \cup {name}]

\* A local variable is assigned and events.append(...) is called.
Record(a) == mem' = [mem EXCEPT ![a].events = @ + 1]

\* atomic_write_json: the file is in place once os.replace returned, and the
\* fsync of its directory may still raise.  (An error before os.replace is
\* IOError below.)  Without the error the attempt goes on to next, with it to
\* the except branch named raised.
Synced(a, next, raised) ==
    \/ Go(a, next) /\ UNCHANGED faults
    \/ faults < MaxFaults /\ faults' = faults + 1 /\ Go(a, raised)

-----------------------------------------------------------------------------
(* Before anything is written.                                             *)

\* candidate_bytes = candidate_file.read_bytes()
ReadCandidate(a) ==
    /\ At(a, "idle")
    /\ mem' = [mem EXCEPT ![a].buf = candidate]
    /\ Go(a, "hash")
    /\ UNCHANGED <<fileVars, linked, edits, faults>>

\* candidate_file_sha = sha256_file(candidate_file): a second read of the file.
HashCandidate(a) ==
    /\ At(a, "hash")
    /\ mem' = [mem EXCEPT ![a].sha = candidate]
    /\ Go(a, "validate")
    /\ UNCHANGED <<fileVars, linked, edits, faults>>

\* What validation demands of the record chain: the parsed candidate is the
\* committed one, its file digest, the publisher source identity and the
\* absence of destination and audit directory are those of the request.
Valid(a) ==
    /\ mem[a].buf \notin Malformed
    /\ mem[a].sha = Exact
    /\ sourceIntact
    /\ dest = NoBytes
    /\ WorkDir[a] \notin dirs

Validate(a) ==
    /\ At(a, "validate")
    /\ Go(a, CASE ~ Valid(a) -> "refused"
               [] Valid(a) /\ a \notin Authorized -> "withheld"
               [] OTHER -> "mkdir")
    /\ UNCHANGED <<fileVars, mem, linked, edits, faults>>

\* Mutant: audit_dir.mkdir(parents=True, exist_ok=True).
ConsumeAuditDirExistOk(a) ==
    /\ At(a, "mkdir")
    /\ Go(a, "claim")
    /\ dirs' = dirs \cup {WorkDir[a]}
    /\ UNCHANGED <<candidate, sourceIntact, parent, dest, files, trace, failure, sealed,
                   mem, linked, edits, faults>>

\* audit_dir.mkdir(parents=True, exist_ok=False): consumes the authorization.
ConsumeAuditDir(a) ==
    /\ At(a, "mkdir")
    /\ IF WorkDir[a] \in dirs
       THEN Go(a, "refused") /\ UNCHANGED dirs
       ELSE Go(a, "claim") /\ dirs' = dirs \cup {WorkDir[a]}
    /\ UNCHANGED <<candidate, sourceIntact, parent, dest, files, trace, failure, sealed,
                   mem, linked, edits, faults>>

-----------------------------------------------------------------------------
(* The try block.                                                          *)

\* Mutant: an error while the claim is written is swallowed.
PersistClaimBestEffort(a) ==
    /\ At(a, "claim")
    /\ Go(a, "publisher")
    /\ \/ /\ Put(WorkDir[a], "claim")
          /\ mem' = [mem EXCEPT ![a].claimed = TRUE, ![a].events = @ + 1]
          /\ UNCHANGED faults
       \/ /\ faults < MaxFaults /\ faults' = faults + 1
          /\ UNCHANGED <<files, mem>>
    /\ UNCHANGED <<candidate, sourceIntact, parent, dest, dirs, trace, failure, sealed,
                   linked, edits>>

PersistClaim(a) ==
    /\ At(a, "claim")
    /\ Put(WorkDir[a], "claim")
    /\ \/ /\ mem' = [mem EXCEPT ![a].claimed = TRUE, ![a].events = @ + 1]
          /\ Go(a, "publisher")
          /\ UNCHANGED faults
       \/ /\ faults < MaxFaults /\ faults' = faults + 1
          /\ Go(a, "except")
          /\ UNCHANGED mem
    /\ UNCHANGED <<candidate, sourceIntact, parent, dest, dirs, trace, failure, sealed,
                   linked, edits>>

VerifyPublisher(a) ==
    /\ At(a, "publisher")
    /\ IF sourceIntact
       THEN Record(a) /\ Go(a, "parent")
       ELSE Go(a, "except") /\ UNCHANGED mem
    /\ UNCHANGED <<fileVars, linked, edits, faults>>

\* Mutant: the parent is made without looking whether it exists.
CheckParentNever(a) ==
    /\ At(a, "parent")
    /\ Go(a, "mkparent")
    /\ UNCHANGED <<fileVars, mem, linked, edits, faults>>

\* _create_parent_chain: current.exists() first, current.mkdir() after.
CheckParent(a) ==
    /\ At(a, "parent")
    /\ IF parent
       THEN Record(a) /\ Go(a, "candidate")
       ELSE Go(a, "mkparent") /\ UNCHANGED mem
    /\ UNCHANGED <<fileVars, linked, edits, faults>>

\* current.mkdir() raises when another process made the directory meanwhile.
MakeParent(a) ==
    /\ At(a, "mkparent")
    /\ parent' = TRUE
    /\ IF parent
       THEN Go(a, "except") /\ UNCHANGED mem
       ELSE Record(a) /\ Go(a, "candidate")
    /\ UNCHANGED <<candidate, sourceIntact, dest, evidence, linked, edits, faults>>

\* sha256_file(candidate_file) again: a third read of the file.
VerifyCandidate(a) ==
    /\ At(a, "candidate")
    /\ IF candidate = Exact
       THEN Record(a) /\ Go(a, "absent")
       ELSE Go(a, "except") /\ UNCHANGED mem
    /\ UNCHANGED <<fileVars, linked, edits, faults>>

\* validate_intended_canonical_destination and the first line of
\* atomic_create_bytes_no_replace both raise if the destination exists.
CheckDestination(a) ==
    /\ At(a, "absent")
    /\ Go(a, IF dest = NoBytes THEN "link" ELSE "except")
    /\ UNCHANGED <<fileVars, mem, linked, edits, faults>>

\* Mutant: an existing destination counts as success, as if this were a retry.
LinkDestinationIdempotent(a) ==
    /\ At(a, "link")
    /\ Record(a) /\ Go(a, "verify")
    /\ IF dest = NoBytes
       THEN dest' = mem[a].buf /\ linked' = linked \cup {a}
       ELSE UNCHANGED <<dest, linked>>
    /\ UNCHANGED <<candidate, sourceIntact, parent, evidence, edits, faults>>

\* os.link(temporary, destination), then fsync_directory, then the event.  The
\* bytes are those read at the start, and os.link fails if the file exists.
LinkDestination(a) ==
    /\ At(a, "link")
    /\ \/ /\ dest # NoBytes
          /\ Go(a, "except")
          /\ UNCHANGED <<dest, linked, mem, faults>>
       \/ /\ dest = NoBytes
          /\ dest' = mem[a].buf
          /\ linked' = linked \cup {a}
          /\ \/ Record(a) /\ Go(a, "verify") /\ UNCHANGED faults
             \/ /\ faults < MaxFaults /\ faults' = faults + 1
                /\ Go(a, "except")
                /\ UNCHANGED mem
    /\ UNCHANGED <<candidate, sourceIntact, parent, evidence, edits>>

\* Mutant: the digest of the destination is taken but not compared.
HashDestinationUnchecked(a) ==
    /\ At(a, "verify")
    /\ mem' = [mem EXCEPT ![a].canonical = dest]
    /\ Go(a, "parse")
    /\ UNCHANGED <<fileVars, linked, edits, faults>>

\* canonical_sha is assigned before it is compared.
HashDestination(a) ==
    /\ At(a, "verify")
    /\ mem' = [mem EXCEPT ![a].canonical = dest]
    /\ Go(a, IF dest = Exact THEN "parse" ELSE "except")
    /\ UNCHANGED <<fileVars, linked, edits, faults>>

ParseDestination(a) ==
    /\ At(a, "parse")
    /\ IF dest \in Malformed
       THEN Go(a, "except") /\ UNCHANGED mem
       ELSE Record(a) /\ Go(a, "trace")
    /\ UNCHANGED <<fileVars, linked, edits, faults>>

WriteTrace(a) ==
    /\ At(a, "trace")
    /\ Put(WorkDir[a], "trace")
    /\ trace' = [trace EXCEPT ![WorkDir[a]] = [events |-> mem[a].events, failed |-> FALSE]]
    /\ Synced(a, "receipt", "except")
    /\ UNCHANGED <<candidate, sourceIntact, parent, dest, dirs, failure, sealed, mem,
                   linked, edits>>

\* The trace file is hashed, the receipt that carries the digest is written.
WriteReceipt(a) ==
    /\ At(a, "receipt")
    /\ Put(WorkDir[a], "receipt")
    /\ sealed' = [sealed EXCEPT ![WorkDir[a]] = trace[WorkDir[a]]]
    /\ Synced(a, "completed", "except")
    /\ UNCHANGED <<candidate, sourceIntact, parent, dest, dirs, trace, failure, mem,
                   linked, edits>>

-----------------------------------------------------------------------------
(* The except branch.                                                      *)

\* Mutant: the except branch deletes the canonical file as a rollback.
InspectDestinationRollsBack(a) ==
    /\ At(a, "except")
    /\ Go(a, "failure")
    /\ dest' = IF a \in linked THEN NoBytes ELSE dest
    /\ UNCHANGED <<candidate, sourceIntact, parent, evidence, mem, linked, edits, faults>>

\* A destination found on disk counts as this attempt's when canonical_sha was
\* never assigned; an error reading it is swallowed.
InspectDestination(a) ==
    /\ At(a, "except")
    /\ Go(a, "failure")
    /\ \/ /\ mem' = [mem EXCEPT ![a].canonical = IF @ = NoBytes THEN dest ELSE @]
          /\ UNCHANGED faults
       \/ /\ mem[a].canonical = NoBytes /\ dest # NoBytes
          /\ faults < MaxFaults /\ faults' = faults + 1
          /\ UNCHANGED mem
    /\ UNCHANGED <<fileVars, linked, edits>>

\* Mutant: any destination found counts as the created canonical file.
WriteFailureAnyBytes(a) ==
    /\ At(a, "failure")
    /\ Put(WorkDir[a], "failure")
    /\ failure' = [failure EXCEPT ![WorkDir[a]] =
                      [claimed |-> mem[a].claimed, created |-> mem[a].canonical # NoBytes]]
    /\ Synced(a, "failuretrace", "failed")
    /\ UNCHANGED <<candidate, sourceIntact, parent, dest, dirs, trace, sealed, mem,
                   linked, edits>>

\* Mutant: the failed trace is not written.
WriteFailureNoTrace(a) ==
    /\ At(a, "failure")
    /\ Put(WorkDir[a], "failure")
    /\ failure' = [failure EXCEPT ![WorkDir[a]] =
                      [claimed |-> mem[a].claimed, created |-> mem[a].canonical = Exact]]
    /\ Synced(a, "failed", "failed")
    /\ UNCHANGED <<candidate, sourceIntact, parent, dest, dirs, trace, sealed, mem,
                   linked, edits>>

\* canonical_file_created is whether the digest in hand is the authorized one.
\* receipt_persisted is always false here: nothing can raise after it is set.
WriteFailure(a) ==
    /\ At(a, "failure")
    /\ Put(WorkDir[a], "failure")
    /\ failure' = [failure EXCEPT ![WorkDir[a]] =
                      [claimed |-> mem[a].claimed, created |-> mem[a].canonical = Exact]]
    /\ Synced(a, "failuretrace", "failed")
    /\ UNCHANGED <<candidate, sourceIntact, parent, dest, dirs, trace, sealed, mem,
                   linked, edits>>

WriteFailureTrace(a) ==
    /\ At(a, "failuretrace")
    /\ Put(WorkDir[a], "trace")
    /\ trace' = [trace EXCEPT ![WorkDir[a]] = [events |-> mem[a].events, failed |-> TRUE]]
    /\ Synced(a, "failed", "failed")
    /\ UNCHANGED <<candidate, sourceIntact, parent, dest, dirs, failure, sealed, mem,
                   linked, edits>>

-----------------------------------------------------------------------------
(* Faults and the environment.                                             *)

\* An I/O call raises before it has an effect: before the try block the
\* exception leaves the executor, in it the except branch runs, and an error
\* while failure evidence is written ends the attempt.
IOError(a) ==
    /\ faults < MaxFaults /\ faults' = faults + 1
    /\ \/ pc[a] \in BeforeClaim /\ Go(a, "refused")
       \/ pc[a] \in TryBlock /\ Go(a, "except")
       \/ pc[a] \in {"failure", "failuretrace"} /\ Go(a, "failed")
    /\ UNCHANGED <<fileVars, mem, linked, edits>>

\* The process dies: its local variables are lost, its files stay.
Crash(a) ==
    /\ pc[a] \in Running
    /\ faults < MaxFaults /\ faults' = faults + 1
    /\ Go(a, "crashed")
    /\ UNCHANGED <<fileVars, mem, linked, edits>>

RewriteCandidate ==
    /\ edits < MaxEdits /\ edits' = edits + 1
    /\ candidate' \in Content \ {candidate}
    /\ UNCHANGED <<sourceIntact, parent, dest, evidence, pc, mem, linked, faults>>

EditPublisherSource ==
    /\ edits < MaxEdits /\ edits' = edits + 1
    /\ sourceIntact' = ~ sourceIntact
    /\ UNCHANGED <<candidate, parent, dest, evidence, pc, mem, linked, faults>>

-----------------------------------------------------------------------------

\* The step a started attempt takes next when nothing stops it.
Advance(a) ==
    \/ HashCandidate(a) \/ Validate(a) \/ ConsumeAuditDir(a)
    \/ PersistClaim(a) \/ VerifyPublisher(a) \/ CheckParent(a) \/ MakeParent(a)
    \/ VerifyCandidate(a) \/ CheckDestination(a) \/ LinkDestination(a)
    \/ HashDestination(a) \/ ParseDestination(a) \/ WriteTrace(a) \/ WriteReceipt(a)
    \/ InspectDestination(a) \/ WriteFailure(a) \/ WriteFailureTrace(a)

Next ==
    \/ \E a \in Attempt : ReadCandidate(a) \/ Advance(a) \/ IOError(a) \/ Crash(a)
    \/ RewriteCandidate
    \/ EditPublisherSource

Spec == Init /\ [][Next]_vars

\* A started process keeps running; nobody has to start an attempt.
FairSpec == Spec /\ \A a \in Attempt : WF_vars(Advance(a))

-----------------------------------------------------------------------------
(* Safety.                                                                 *)

\* An attempt holds its audit directory from the successful mkdir on; one that
\* crashed is recognised by the claim it wrote.
Holds(a) == pc[a] \in TryBlock \cup Handler \cup {"failed", "completed"}

\* The executable authorization is one-shot: the evidence in an audit directory
\* is never that of two attempts, however they interleave, and a crashed
\* attempt leaves its directory consumed (audit_dir.mkdir with exist_ok=False).
EvidenceHasOneAuthor ==
    \A a, b \in Attempt :
        (a # b /\ WorkDir[a] = WorkDir[b]) =>
            ~ ((Holds(a) \/ mem[a].claimed) /\ (Holds(b) \/ mem[b].claimed))

\* No artifact without a trail: whenever a canonical file exists, on disk there
\* is a persisted claim of the very attempt that created it, even if that
\* attempt crashed or failed right after the link.
ClaimPrecedesArtifact ==
    dest # NoBytes =>
        \E a \in linked : mem[a].claimed /\ "claim" \in files[WorkDir[a]]

\* A receipt on disk is the truth, whoever else was publishing: an attempt of
\* its request created the canonical file, the file holds exactly the
\* authorized bytes, the receipt is sealed over the complete trace, and that
\* trace is still the one on disk unless a failure was recorded after it.
ReceiptIsTruthful ==
    \A d \in AuditDir : "receipt" \in files[d] =>
        /\ dest = Exact
        /\ \E a \in linked : WorkDir[a] = d
        /\ {"claim", "trace"} \subseteq files[d]
        /\ sealed[d] = [events |-> CompletedEvents, failed |-> FALSE]
        /\ "failure" \notin files[d] => trace[d] = sealed[d]

\* A failure record that reports a canonical file is right that the authorized
\* bytes are at the destination (not that this attempt put them there).
FailureNeverOverclaims ==
    \A d \in AuditDir :
        ("failure" \in files[d] /\ failure[d].created) => dest = Exact

\* The canonical file is written once: no step of any attempt replaces or
\* removes it, and no second attempt succeeds in creating it.
NeverReplaced == [][dest # NoBytes => dest' = dest /\ linked' = linked]_vars

-----------------------------------------------------------------------------
(* Liveness.                                                               *)

\* The evidence a reviewer needs to tell how an attempt ended.
Concluded(a) ==
    \/ "receipt" \in files[WorkDir[a]]
    \/ {"failure", "trace"} \subseteq files[WorkDir[a]]

\* A consumed authorization does not stay silent: an attempt that consumed its
\* audit directory ends with a receipt, or with a failure record and a trace,
\* unless a crash or an I/O error got in the way.
ConsumedThenConcluded ==
    \A a \in Attempt : At(a, "claim") ~> (Concluded(a) \/ faults > 0)

\* Competing attempts do not defeat each other: once one has consumed its
\* directory, one of them completes, unless a file was edited meanwhile or a
\* fault struck.
SomeAttemptCompletes ==
    (\E a \in Attempt : At(a, "claim")) ~>
        ((\E a \in Attempt : At(a, "completed")) \/ edits + faults > 0)

=============================================================================

------------------------- MODULE OneShotPublication -------------------------
(***************************************************************************)
(* What the executor of an authorized canonical publication promises, with *)
(* no files, no faults and no order of steps: every authorization is       *)
(* claimed at most once, only the holder of a claim may create the         *)
(* canonical artifact, the artifact is created at most once and never      *)
(* changes, and only the attempt that created it, with exactly the         *)
(* authorized bytes, may complete.                                         *)
(***************************************************************************)
CONSTANTS Attempt, AuditDir, WorkDir, Bytes, Authentic, NoArtifact

VARIABLES
    artifact,  \* the canonical artifact, or NoArtifact
    claimed,   \* the audit directories whose authorization is consumed
    outcome    \* how far each attempt has come

avars == <<artifact, claimed, outcome>>

AbstractInit ==
    /\ artifact = NoArtifact
    /\ claimed = {}
    /\ outcome = [a \in Attempt |-> "pending"]

Claim(a) ==
    /\ outcome[a] = "pending"
    /\ WorkDir[a] \notin claimed
    /\ claimed' = claimed \cup {WorkDir[a]}
    /\ outcome' = [outcome EXCEPT ![a] = "claimed"]
    /\ UNCHANGED artifact

Create(a) ==
    /\ outcome[a] = "claimed"
    /\ artifact = NoArtifact
    /\ artifact' \in Bytes
    /\ outcome' = [outcome EXCEPT ![a] = "created"]
    /\ UNCHANGED claimed

Complete(a) ==
    /\ outcome[a] = "created"
    /\ artifact = Authentic
    /\ outcome' = [outcome EXCEPT ![a] = "completed"]
    /\ UNCHANGED <<artifact, claimed>>

\* The attempt is refused, withheld, fails or crashes, at any point before it
\* has completed.
End(a) ==
    /\ outcome[a] \in {"pending", "claimed", "created"}
    /\ outcome' = [outcome EXCEPT ![a] = "ended"]
    /\ UNCHANGED <<artifact, claimed>>

AbstractNext == \E a \in Attempt : Claim(a) \/ Create(a) \/ Complete(a) \/ End(a)

AbstractSpec == AbstractInit /\ [][AbstractNext]_avars

=============================================================================

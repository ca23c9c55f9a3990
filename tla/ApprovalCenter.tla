--------------------------- MODULE ApprovalCenter ---------------------------
(***************************************************************************)
(* internal/agent/approval.go: the in-memory map of approval records.      *)
(*                                                                         *)
(* Every method takes the mutex for its whole body, so each one is a       *)
(* single action on `center'.  What a record holds beyond its status and   *)
(* its RunID (proposal, snapshot, hash, texts) is fixed when the record is *)
(* created and is abstracted to the record's identity.                     *)
(***************************************************************************)

CONSTANTS
    Approvals,      \* the ids ids.New("apr") may return
    Runs,           \* the ids ids.New("run") may return
    NoRun           \* the empty RunID of a proposal made outside a run

ASSUME NoRunAssumption == NoRun \notin Runs

VARIABLES
    center,         \* a.approvals: the status of each record, "absent" if none
    owner           \* the RunID each record was created with, {} before that

centerVars == <<center, owner>>

ApprovalStatus == {"pending", "approved", "rejected"}

CenterTypeOK ==
    /\ center \in [Approvals -> ApprovalStatus \cup {"absent"}]
    /\ owner \in [Approvals -> {{}} \cup {{r} : r \in Runs \cup {NoRun}}]

CenterInit ==
    /\ center = [a \in Approvals |-> "absent"]
    /\ owner = [a \in Approvals |-> {}]

\* The id is new, in this process and in every earlier one.
Fresh(a) == owner[a] = {}

\* A mutant: a decision can be changed.
ResolvableAgain(a) == center[a] # "absent"

\* Create: a pending record attached to run r.
Create(a, r) ==
    /\ Fresh(a)
    /\ center' = [center EXCEPT ![a] = "pending"]
    /\ owner' = [owner EXCEPT ![a] = {r}]

\* resolve: only a pending record can be approved or rejected.
Resolvable(a) == center[a] = "pending"

resolve(a, approved) ==
    /\ Resolvable(a)
    /\ center' = [center EXCEPT ![a] = IF approved THEN "approved" ELSE "rejected"]
    /\ UNCHANGED owner

\* Hydrate: the given copy replaces whatever the map holds for the id.
Hydrate(a, status) ==
    /\ center' = [center EXCEPT ![a] = status]
    /\ UNCHANGED owner

\* A restart loses the map; the ids stay used.
CenterCrash ==
    /\ center' = [a \in Approvals |-> "absent"]
    /\ UNCHANGED owner

=============================================================================

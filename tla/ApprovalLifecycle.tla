------------------------- MODULE ApprovalLifecycle --------------------------
(***************************************************************************)
(* What the approval gate promises for one approval, whatever requests     *)
(* race for it: it is requested once, resolved once, and an approved       *)
(* action is executed at most once.  AgentRuntime is shown to implement    *)
(* this for as long as the process is not restarted.                       *)
(***************************************************************************)

CONSTANT Approvals

VARIABLE phase

Phases == {"none", "pending", "approved", "rejected", "executed"}

Move(a, from, to) ==
    /\ phase[a] = from
    /\ phase' = [phase EXCEPT ![a] = to]

Init == phase = [a \in Approvals |-> "none"]

Request(a) == Move(a, "none", "pending")
Approve(a) == Move(a, "pending", "approved")
Reject(a)  == Move(a, "pending", "rejected")
Execute(a) == Move(a, "approved", "executed")

Next == \E a \in Approvals :
            Request(a) \/ Approve(a) \/ Reject(a) \/ Execute(a)

Spec == Init /\ [][Next]_phase

=============================================================================

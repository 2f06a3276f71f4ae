-------------------------- MODULE ApprovalProtocol --------------------------
(***************************************************************************)
(* What the ledger promises of a run: it is opened once, closes once, and  *)
(* one that stopped for a human approval may be approved once.             *)
(***************************************************************************)
CONSTANT Runs

VARIABLE status

Init == status = [r \in Runs |-> "absent"]

Moves(r, from, to) == status[r] = from /\ status' = [status EXCEPT ![r] = to]

Open(r)    == Moves(r, "absent", "open")
Close(r)   == Moves(r, "open", "closed")
Await(r)   == Moves(r, "open", "awaiting")
Approve(r) == Moves(r, "awaiting", "approved")

Next == \E r \in Runs : Open(r) \/ Close(r) \/ Await(r) \/ Approve(r)

Spec == Init /\ [][Next]_status
=============================================================================

------------------------------ MODULE RpcCalls ------------------------------
(***************************************************************************)
(* What a remote call promises to its caller: it waits, then its handler   *)
(* is told once of a reply or an error, or it is given up and its handler  *)
(* is left alone for ever.                                                 *)
(***************************************************************************)
CONSTANT Id

VARIABLE status

Init == status = [id \in Id |-> "new"]

\* Calls are made, and sent or given up at once with all that go with them.
Call ==
    \A id \in Id :
        \/ status'[id] = status[id]
        \/ status[id] = "new" /\ status'[id] \in {"waiting", "gone"}
        \/ status[id] = "waiting" /\ status'[id] = "gone"

\* One handler is told.
Reply(id) ==
    /\ status[id] = "waiting"
    /\ status' = [status EXCEPT ![id] = "replied"]

Next == Call \/ \E id \in Id : Reply(id)

Spec == Init /\ [][Next]_status
=============================================================================

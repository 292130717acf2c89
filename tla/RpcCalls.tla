------------------------------ MODULE RpcCalls ------------------------------
(***************************************************************************)
(* What a client of a plugin process promises about its calls              *)
(* (protocol/v1/rpc.go, "Client owns one plugin subprocess"): a call acts  *)
(* at most once; it succeeds only if it acted; once it has returned, with  *)
(* an error too, it acts no more, unless the plugin broke the protocol;    *)
(* and nothing acts after the client was closed.                           *)
(***************************************************************************)
EXTENDS Naturals, Sequences

VARIABLES
    calls,      \* the calls in the order they were sent
    closed,     \* whether Close has returned
    loose       \* whether the plugin wrote to stdout what is no answer

New == [acted |-> FALSE, outcome |-> "pending"]

Init == calls = <<>> /\ closed = FALSE /\ loose \in BOOLEAN

Send == ~closed /\ calls' = Append(calls, New) /\ UNCHANGED <<closed, loose>>

Act(i) ==
    /\ ~closed /\ ~calls[i].acted
    /\ calls[i].outcome = "pending" \/ loose
    /\ calls' = [calls EXCEPT ![i].acted = TRUE]
    /\ UNCHANGED <<closed, loose>>

Return(i, outcome) ==
    /\ calls[i].outcome = "pending"
    /\ outcome = "ok" => calls[i].acted
    /\ calls' = [calls EXCEPT ![i].outcome = outcome]
    /\ UNCHANGED <<closed, loose>>

Close == closed' = TRUE /\ UNCHANGED <<calls, loose>>

Loosen == loose' = TRUE /\ UNCHANGED <<calls, closed>>

Next ==
    \/ Send \/ Close \/ Loosen
    \/ \E i \in DOMAIN calls :
          Act(i) \/ \E outcome \in {"ok", "error"} : Return(i, outcome)

Spec == Init /\ [][Next]_<<calls, closed, loose>>
=============================================================================

----------------------------- MODULE StateStore -----------------------------
(***************************************************************************)
(* What the lock and the state file promise together, without processes,   *)
(* plans or a platform: the file is only written by the client that holds  *)
(* it; a client carries at most one operation that the file does not show; *)
(* a commit enters exactly that operation, on top of the file as it is,    *)
(* and moves the serial by one; and a failure loses at most that operation *)
(* and nothing that was committed.                                         *)
(***************************************************************************)
EXTENDS Naturals

CONSTANTS
    Client, NoClient,
    Addr,       \* what the file has entries for
    Value,      \* what an entry may be
    Blank,      \* the entry of an address nothing was done for
    Nothing     \* no operation pending

VARIABLES
    file,       \* the file: a serial and the entries
    holder,     \* the client that may operate, or NoClient
    pending     \* its operation the file does not show yet, or Nothing

vars == <<file, holder, pending>>

Operation == [addr : Addr, value : Value]

Init ==
    /\ file = [serial |-> 0, res |-> [a \in Addr |-> Blank]]
    /\ holder = NoClient
    /\ pending = Nothing

Take(c) ==
    /\ holder = NoClient
    /\ holder' = c
    /\ UNCHANGED <<file, pending>>

Operate ==
    /\ holder \in Client
    /\ pending = Nothing
    /\ pending' \in Operation
    /\ UNCHANGED <<file, holder>>

Commit ==
    /\ holder \in Client
    /\ pending \in Operation
    /\ file' = [serial |-> file.serial + 1,
                res    |-> [file.res EXCEPT ![pending.addr] = pending.value]]
    /\ pending' = Nothing
    /\ UNCHANGED holder

Lose ==
    /\ holder \in Client
    /\ pending' = Nothing
    /\ UNCHANGED <<file, holder>>

(* Orderly or not. *)
Leave ==
    /\ holder \in Client
    /\ holder' = NoClient
    /\ pending' = Nothing
    /\ UNCHANGED file

Next ==
    \/ \E c \in Client : Take(c)
    \/ Operate \/ Commit \/ Lose \/ Leave

Spec == Init /\ [][Next]_vars
=============================================================================

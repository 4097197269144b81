------------------------------ MODULE WriteOnce ------------------------------
(***************************************************************************)
(* What an idempotency key promises its callers, without rows, locks,      *)
(* timeouts or crashes: during one lifetime of the key at most one run of  *)
(* the request commits its write, and only the expiry of the key lets a    *)
(* later run write again.                                                  *)
(***************************************************************************)
CONSTANTS Runs,     \* the runs (sends and resends) of one request
          Nobody    \* no run has written in the key's present lifetime

VARIABLE writer     \* the run whose write the key stands for

Init == writer = Nobody

(* A run commits its write; nobody may have written before it. *)
Write(r) ==
    /\ writer = Nobody
    /\ writer' = r

(* The lifetime of the key ends. *)
Expire ==
    /\ writer # Nobody
    /\ writer' = Nobody

Next == Expire \/ \E r \in Runs : Write(r)

Spec == Init /\ [][Next]_writer
=============================================================================

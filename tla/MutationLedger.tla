--------------------------- MODULE MutationLedger ---------------------------
(***************************************************************************)
(* What a client of the operator API may rely on: an idempotency key is    *)
(* for one mutation.  It is reserved for good, and what it was reserved    *)
(* for is sent to Home Assistant at most once, or never.                   *)
(***************************************************************************)
CONSTANT Keys

VARIABLE ledger

Entry == {"free", "reserved", "sent"}

Init == ledger = [k \in Keys |-> "free"]

Reserve(k) ==
    /\ ledger[k] = "free"
    /\ ledger' = [ledger EXCEPT ![k] = "reserved"]

Send(k) ==
    /\ ledger[k] = "reserved"
    /\ ledger' = [ledger EXCEPT ![k] = "sent"]

Next == \E k \in Keys : Reserve(k) \/ Send(k)

Spec == Init /\ [][Next]_ledger
=============================================================================

------------------------------ MODULE KeyLife ------------------------------
(***************************************************************************)
(* What the two key tables promise about a client API key: the gateway row *)
(* (client_api_keys) comes first, the owner's row (user_api_keys) is added *)
(* to an issued key at most once, both change status while they exist, and *)
(* a row that was withdrawn never comes back.                              *)
(***************************************************************************)
CONSTANTS Key

VARIABLES gate,  \* Key -> status of the gateway's row, "none" before, "gone" after
          row    \* Key -> status of the owner's row, likewise

vars == <<gate, row>>

GateStatus == {"active", "revoked"}
RowStatus == {"active", "revoked", "banned"}

Init ==
    /\ gate = [k \in Key |-> "none"]
    /\ row = [k \in Key |-> "none"]

Issue(k) ==
    /\ gate[k] = "none"
    /\ row[k] = "none"
    /\ gate' = [gate EXCEPT ![k] = "active"]
    /\ UNCHANGED row

List(k) ==
    /\ gate[k] # "none"
    /\ row[k] = "none"
    /\ row' = [row EXCEPT ![k] = "active"]
    /\ UNCHANGED gate

(* The gateway's row changes alone: the statements are separate.           *)
Switch(k, s) ==
    /\ gate[k] \in GateStatus
    /\ gate' = [gate EXCEPT ![k] = s]
    /\ UNCHANGED row

(* A toggle, a ban or an unban writes the owner's rows.                    *)
Mark(T, s) ==
    /\ \A k \in T : row[k] \in RowStatus
    /\ row' = [k \in Key |-> IF k \in T THEN s ELSE row[k]]
    /\ UNCHANGED gate

Withdraw(S, T) ==
    /\ \A k \in S : gate[k] \in GateStatus
    /\ \A k \in T : row[k] \in RowStatus
    /\ gate' = [k \in Key |-> IF k \in S THEN "gone" ELSE gate[k]]
    /\ row' = [k \in Key |-> IF k \in T THEN "gone" ELSE row[k]]

Next ==
    \/ \E k \in Key : Issue(k) \/ List(k)
    \/ \E k \in Key, s \in GateStatus : Switch(k, s)
    \/ \E T \in SUBSET Key, s \in RowStatus : Mark(T, s)
    \/ \E S, T \in SUBSET Key : Withdraw(S, T)

Spec == Init /\ [][Next]_vars
=============================================================================

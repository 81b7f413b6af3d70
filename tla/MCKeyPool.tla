----------------------------- MODULE MCKeyPool -----------------------------
(***************************************************************************)
(* KeyPool on a small instance: a general key, a key of the model's own    *)
(* and a fixed one.                                                        *)
(***************************************************************************)
EXTENDS KeyPool

CONSTANTS own

MCDedicated == [m \in Model |-> {own}]

(* Bound: some key is active and a request tries two keys.  Only an        *)
(* administrator and a failed attempt leave it, which need not happen.     *)
Small == active # {} /\ \A r \in Caller : \A k, l \in lookup[r].tried : k = l
=============================================================================

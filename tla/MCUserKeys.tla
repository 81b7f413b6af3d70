----------------------------- MODULE MCUserKeys ----------------------------
(***************************************************************************)
(* UserKeys on small instances, with a history of what may drive the two   *)
(* tables apart and of the users whose keys an unban brought back.         *)
(***************************************************************************)
EXTENDS UserKeys, TLC

VARIABLES upset,    \* keys whose two rows may disagree
          revived   \* users with keys reactivated by unban_user
hvars == <<vars, upset, revived>>

Symmetry == Permutations(Key) \cup Permutations(Req) \cup Permutations(Client)

Changed == {k \in Key : clientKey'[k] # clientKey[k] \/ userKey'[k] # userKey[k]}

(* Two handlers are in the same key at once.                               *)
Contended == {k \in Key : \E q, r \in Req : q # r /\ req[q].key = k /\ req[r].key = k}

(* Keys of a closing account that hang on another client than its own.     *)
Strays(r) == {k \in Key : /\ At(r, "close", "commit")
                          /\ owner[k] = req[r].user
                          /\ clientOf[k] # req[r].client}

(* Keys that are gone from both tables have no history to keep.            *)
Note(S) == upset' = {k \in (upset \cup S) \cap Key :
                        clientKey'[k] # "gone" \/ userKey'[k] # "gone"}

HInit == Init /\ upset = {} /\ revived = {}
HNext ==
    \/ \E r \in Req :
       \/ /\ Handler(r)
          /\ Note(Contended' \cup Strays(r) \cup
                  IF faults' = faults THEN {} ELSE Changed \cup {req[r].key})
          /\ UNCHANGED revived
       \/ /\ Admin(r)
          /\ Note(Changed)
          /\ revived' = IF At(r, "unban", "keys") /\ Changed # {} THEN revived \cup {req[r].user} ELSE revived
       \/ /\ Abandon(r)
          /\ Note({req[r].key})
          /\ UNCHANGED revived
    \/ /\ AdminOnce
       /\ Note(Changed)
       /\ UNCHANGED revived

(* Bound: statements fail in instances with one client, or a second client *)
(* appears in instances without failures, but not both.                    *)
FaultOrSecondClient ==
    faults = 0 \/ \E c \in Client : \A d \in Client : client[d] # "none" => d = c

HSpec == HInit /\ [][HNext]_hvars

-----------------------------------------------------------------------------
(* "最多 5 个活跃密钥" is checked before the insert (console.rs:198, 357),  *)
(* so it can be passed; but requests that overlap can exceed it only by    *)
(* their number less one, a failed count (which reads as zero) by one each,*)
(* and nothing else exceeds it except an unban, which reactivates keys the *)
(* owner had revoked.                                                      *)
LimitOvershoot ==
    \A u \in User \ revived :
        ActiveCount(u) + Cardinality(Adding(u)) <= LIMIT - 1 + Cardinality(Req) + faults

(* "客户端双表写入": once no handler is at work on a key, its two rows      *)
(* exist together and are active together, unless two handlers were in it  *)
(* at once, a statement failed or a handler was dropped half way, an admin *)
(* banned, unbanned or deleted, or the account was closed while the key    *)
(* hung on another client than the account's.                              *)
TablesAgree ==
    \A k \in Key \ upset :
        (owner[k] # NoUser /\ \A r \in Req : req[r].key # k) =>
            /\ clientKey[k] \in Live <=> userKey[k] \in Listed
            /\ Accepts(k) <=> userKey[k] = "active"
=============================================================================

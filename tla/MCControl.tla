----------------------------- MODULE MCControl ------------------------------
(***************************************************************************)
(* Control on small instances, with the number of tokens made in each      *)
(* second.                                                                 *)
(***************************************************************************)
EXTENDS Control

VARIABLE made  \* Half -> Second -> tokens made, two for more
hvars == <<vars, made>>

Makes(h, t) == \E a \in Admin :
    /\ admin[a].at \in {"out", "cut", "left"} /\ admin'[a].at \in {"insert", "in"}
    /\ admin'[a].half = h /\ admin'[a].token = t

HInit == Init /\ made = [h \in Half |-> [t \in Second |-> 0]]
Note == made' = [h \in Half |-> [t \in Second |->
          IF Makes(h, t) /\ made[h][t] < 2 THEN made[h][t] + 1 ELSE made[h][t]]]
HNext == Next /\ Note
HSpec == HInit /\ [][HNext]_hvars /\ Fairness

(* Bound: three logins, of which two can be of one second.  Only logins     *)
(* leave it, which need not happen.                                        *)
FewLogins ==
    made["platform"][0] + made["platform"][1] + made["gateway"][0] + made["gateway"][1] <= 3

(* Who has been answered that the login succeeded can act until the token  *)
(* expires, the user logs out or the process restarts, although the row    *)
(* and the CSRF token are written one after the other while others log in  *)
(* and out: as long as the half made no other token in that second and the *)
(* row could be written.                                                   *)
LoginWorks == \A a \in Admin :
    /\ At(a, "in") /\ Valid(Token(a))
    /\ faults = 0 /\ made[HalfOf(a)][Token(a)] = 1
    => CanAct(a)
=============================================================================

----------------------------- MODULE MCGateway -----------------------------
(***************************************************************************)
(* Gateway on small instances, with a history of what was sent.            *)
(***************************************************************************)
EXTENDS Gateway

CONSTANTS m1, r1, r2, k1, k2

OneModel == [r \in {r1, r2} |-> m1]

VARIABLE sent_open   \* Req -> upstream calls during the present Open phase

hvars == <<vars, sent_open>>

IsOpen(m) == CB!IsOpen(m)

HInit == Init /\ sent_open = [r \in Req |-> 0]

HNext ==
    /\ Next
    /\ sent_open' = [r \in Req |->
          IF ~IsOpen(ModelOf[r])' \/ job'[r].pc \in {"idle", "body", "stream"} \/ ~UsesBreaker(r)
          THEN 0
          ELSE IF job'[r].pc = "sent" /\ ~At(r, {"sent"})
               THEN sent_open[r] + 1 ELSE sent_open[r]]

HSpec == HInit /\ [][HNext]_hvars /\ Fairness

-----------------------------------------------------------------------------
(* An open breaker protects the upstream: during one Open phase a request  *)
(* reaches it at most once, with the attempt admitted before; its retries  *)
(* are stopped by can_request inside the loop.                             *)
OnceWhileOpen == \A r \in Req : sent_open[r] <= 1
=============================================================================

---------------------------- MODULE MCKeyBucket ----------------------------
(***************************************************************************)
(* KeyBucket on small instances, with a history of what disturbs the       *)
(* in-flight count.                                                        *)
(***************************************************************************)
EXTENDS KeyBucket

CONSTANTS r1, r2

Cool429 == <<1, 1, 2>>
Cool403 == <<1, 1, 2, 2, 2>>

VARIABLE drift  \* the in-flight count has been disturbed
hvars == <<vars, drift>>

InFlight ==
    {r \in Req : Counts(r) /\ At(r, {"out", "body", "stream", "end"})}

HInit == Init /\ drift = FALSE
HNext ==
    \/ /\ \/ \E r \in Req, kind \in Kinds : Choose(r, kind)
          \/ \E r \in Req : Commit(r) \/ Unusable(r) \/ Succeed(r)
          \/ \E r \in Req, s \in FailStatus : Fail(r, s)
          \/ SweepCollect
          \/ Tick
       /\ UNCHANGED drift
    \/ \E r \in Req : Finish(r) /\ drift' = (drift \/ job[r].kind = "multi")
    \/ \E r \in Req : Cancel(r) /\ drift' = (drift \/ Counts(r))
    \/ SweepRemove /\ drift' = (drift \/ InFlight # {})

HSpec == HInit /\ [][HNext]_hvars /\ Fairness

-----------------------------------------------------------------------------
(* begin_request and end_request pair up on every path through the chat    *)
(* handler, retries, races with the sweep and late responses included:     *)
(* until a client disconnects, a multi-protocol stream ends or the sweep   *)
(* drops a bucket in use, inflight is the number of chat attempts out.     *)
InflightExact == drift \/ Current.inflight = Cardinality(InFlight)
=============================================================================

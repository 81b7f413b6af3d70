-------------------------- MODULE MCCircuitBreaker --------------------------
(***************************************************************************)
(* CircuitBreaker on small instances, with a history variable.             *)
(***************************************************************************)
EXTENDS CircuitBreaker, Sequences

OneModel == [r \in Req |-> CHOOSE m \in Model : TRUE]

VARIABLE burst   \* Model -> ages of the last 5xx failures recorded while Closed

hvars == <<vars, burst>>

LastN(s, n) == IF Len(s) > n THEN SubSeq(s, Len(s) - n + 1, Len(s)) ELSE s

(* The history after one more server error, and after one unit of time.    *)
WithFailure(h) == LastN(Append(h, 0), FAILURE_THRESHOLD_5XX)
Older(h) == [i \in DOMAIN h |-> IF h[i] > WINDOW_DURATION THEN h[i] ELSE h[i] + 1]

HInit == Init /\ burst = [m \in Model |-> <<>>]

HFail(r, s) ==
    /\ RecordFailure(r, s)
    /\ burst' = IF s = "s5xx" /\ Entry(ModelOf[r]).state = "Closed"
                THEN [burst EXCEPT ![ModelOf[r]] = WithFailure(@)] ELSE burst

HTick ==
    /\ Tick
    /\ burst' = [m \in Model |-> Older(burst[m])]

HNext ==
    \/ \E r \in Req : CanRequest(r) /\ UNCHANGED burst
    \/ \E r \in Req : RecordSuccess(r) /\ UNCHANGED burst
    \/ \E r \in Req, s \in FailStatus : HFail(r, s)
    \/ \E r \in Req : Abandon(r) /\ UNCHANGED burst
    \/ \E m \in Model : ForeignSuccess(m) /\ UNCHANGED burst
    \/ HTick

HSpec == HInit /\ [][HNext]_hvars /\ Fairness

-----------------------------------------------------------------------------
(* record_failure trips a closed breaker only on a real burst: the last    *)
(* FAILURE_THRESHOLD_5XX server errors all fell into one counting window.  *)
(* The lazily reset, tumbling window never adds up older failures.         *)
TripsOnlyOnBurst ==
    [][\A m \in Model :
          Entry(m).state = "Closed" /\ breakers'[m] # NoEntry /\ breakers'[m].state = "Open"
          => /\ Len(burst'[m]) = FAILURE_THRESHOLD_5XX
             /\ \A i \in DOMAIN burst'[m] : burst'[m][i] <= WINDOW_DURATION]_hvars
=============================================================================

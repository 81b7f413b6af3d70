--------------------------- MODULE CircuitBreaker ---------------------------
(***************************************************************************)
(* The per-model circuit breaker of the gateway (src/gateway/circuit.rs)   *)
(* together with the callers that drive it: requests that ask can_request  *)
(* and later report record_success, record_failure, or nothing at all.     *)
(*                                                                         *)
(* Every operation holds the DashMap entry of its model from the read to   *)
(* the last write, so each is one atomic step.  Instants are modelled by   *)
(* their distance to the present: open_left is open_until - now (0 once    *)
(* due), window_age is now - window_start (it stops growing once the       *)
(* window has expired, which is all the code asks).  Time may therefore    *)
(* pass for ever in a finite state space.  fail429 is left out: the code   *)
(* only ever writes 0 to it and never reads it.                            *)
(***************************************************************************)
EXTENDS Naturals, FiniteSets

CONSTANTS Model,                    \* models with a breaker
          Req,                      \* concurrent callers
          ModelOf,                  \* the model each caller asks for
          NoEntry,                  \* a model the map holds no breaker for yet
          FAILURE_THRESHOLD_5XX,
          WINDOW_DURATION,
          OPEN_DURATION,
          HALF_OPEN_MAX_ATTEMPTS

State == {"Closed", "Open", "HalfOpen"}

ModelBreaker ==
    [state : State, fail5xx : Nat, window_age : 0 .. WINDOW_DURATION + 1,
     open_left : 0 .. OPEN_DURATION, half_open_attempts : Nat]

(* What record_failure is told: 0 is a connection error or timeout.        *)
FailStatus == {"conn", "s429", "s4xx", "s5xx"}

ASSUME BreakerConstants ==
    /\ ModelOf \in [Req -> Model]
    /\ IsFiniteSet(Req)
    /\ NoEntry \notin ModelBreaker
    /\ FAILURE_THRESHOLD_5XX \in Nat \ {0}
    /\ WINDOW_DURATION \in Nat
    /\ OPEN_DURATION \in Nat \ {0}
    /\ HALF_OPEN_MAX_ATTEMPTS \in Nat \ {0}

VARIABLES breakers,  \* Model -> ModelBreaker, or NoEntry
          call       \* Req -> "idle" | "plain" | "probe": an admission whose
                     \* outcome is still due; "probe" if the breaker was
                     \* HalfOpen and has been since

vars == <<breakers, call>>

-----------------------------------------------------------------------------
(* The operations on one breaker.                                          *)

NewBreaker ==
    [state |-> "Closed", fail5xx |-> 0, window_age |-> 0, open_left |-> 0,
     half_open_attempts |-> 0]

(* entry(model).or_insert_with(ModelBreaker::new)                          *)
Entry(m) == IF breakers[m] = NoEntry THEN NewBreaker ELSE breakers[m]

(* Mutation: an open breaker is never probed.                              *)
AdmitsWithoutProbe(b) ==
    \/ b.state = "Closed"
    \/ b.state = "HalfOpen" /\ b.half_open_attempts < HALF_OPEN_MAX_ATTEMPTS

(* can_request returns TRUE in exactly these states.                       *)
Admits(b) ==
    \/ b.state = "Closed"
    \/ b.state = "Open" /\ b.open_left = 0
    \/ b.state = "HalfOpen" /\ b.half_open_attempts < HALF_OPEN_MAX_ATTEMPTS

(* Mutation: the probe that half-opens the breaker is not counted.         *)
AfterUncountedAdmission(b) ==
    CASE b.state = "Closed" -> b
      [] b.state = "Open" ->
            [b EXCEPT !.state = "HalfOpen", !.half_open_attempts = 0]
      [] b.state = "HalfOpen" ->
            [b EXCEPT !.half_open_attempts = @ + 1]

AfterAdmission(b) ==
    CASE b.state = "Closed" -> b
      [] b.state = "Open" ->
            [b EXCEPT !.state = "HalfOpen", !.half_open_attempts = 1]
      [] b.state = "HalfOpen" ->
            [b EXCEPT !.half_open_attempts = @ + 1]

(* Mutation: the failures of before the trip are kept.                     *)
AfterSuccessKeepingCount(b) ==
    IF b.state = "HalfOpen"
    THEN [b EXCEPT !.state = "Closed", !.half_open_attempts = 0]
    ELSE b

AfterSuccess(b) ==
    IF b.state = "HalfOpen"
    THEN [b EXCEPT !.state = "Closed", !.fail5xx = 0, !.half_open_attempts = 0]
    ELSE b

Opened(b) == [b EXCEPT !.state = "Open", !.open_left = OPEN_DURATION]

(* Mutation: the counting window never ends.                               *)
WindowKept(b) == b

(* The counting window is reset lazily, by the first failure after it.     *)
WindowReset(b) ==
    IF b.window_age > WINDOW_DURATION
    THEN [b EXCEPT !.fail5xx = 0, !.window_age = 0]
    ELSE b

Counted(b, status) ==
    IF status = "s5xx" THEN [b EXCEPT !.fail5xx = @ + 1] ELSE b

AfterFailure(b, status) ==
    CASE b.state = "HalfOpen" -> Opened(b)
      [] b.state = "Closed" ->
            LET c == Counted(WindowReset(b), status)
            IN  IF c.fail5xx >= FAILURE_THRESHOLD_5XX THEN Opened(c) ELSE c
      [] b.state = "Open" -> b

-----------------------------------------------------------------------------
(* What a call leaves in the map, and what it means for the callers still  *)
(* out: once the breaker leaves HalfOpen no older admission is a probe.    *)

Put(m, b) == breakers' = [breakers EXCEPT ![m] = b]

CallsAfter(r, m, b) ==
    [q \in Req |-> IF q = r THEN "idle"
                   ELSE IF ModelOf[q] = m /\ b.state # "HalfOpen" /\ call[q] = "probe"
                        THEN "plain" ELSE call[q]]

(* can_request answered TRUE (a FALSE answer changes nothing).             *)
CanRequest(r) ==
    LET m == ModelOf[r]
        b == AfterAdmission(Entry(m))
    IN  /\ call[r] = "idle"
        /\ Admits(Entry(m))
        /\ Put(m, b)
        /\ call' = [call EXCEPT ![r] = IF b.state = "HalfOpen" THEN "probe" ELSE "plain"]

RecordSuccess(r) ==
    LET m == ModelOf[r]
        b == AfterSuccess(Entry(m))
    IN  /\ call[r] # "idle"
        /\ Put(m, b)
        /\ call' = CallsAfter(r, m, b)

RecordFailure(r, status) ==
    LET m == ModelOf[r]
        b == AfterFailure(Entry(m), status)
    IN  /\ call[r] # "idle"
        /\ Put(m, b)
        /\ call' = CallsAfter(r, m, b)

(* An admitted request that ends without telling the breaker: no key, an   *)
(* undecryptable key, a stream that breaks before [DONE], a cancelled      *)
(* handler.                                                                *)
Abandon(r) ==
    /\ call[r] # "idle"
    /\ call' = [call EXCEPT ![r] = "idle"]
    /\ UNCHANGED breakers

(* A stream of multi_protocol_handler or of a dedicated line reports its   *)
(* success without having asked can_request.                               *)
ForeignSuccess(m) ==
    /\ breakers[m] # NoEntry
    /\ Put(m, AfterSuccess(breakers[m]))
    /\ call' = [q \in Req |-> IF ModelOf[q] = m /\ call[q] = "probe"
                              THEN "plain" ELSE call[q]]

Aged(b) ==
    [b EXCEPT !.window_age = IF @ > WINDOW_DURATION THEN @ ELSE @ + 1,
              !.open_left = IF @ > 0 THEN @ - 1 ELSE 0]

Tick ==
    /\ breakers' = [m \in Model |-> IF breakers[m] = NoEntry THEN NoEntry
                                    ELSE Aged(breakers[m])]
    /\ UNCHANGED call

-----------------------------------------------------------------------------
Init ==
    /\ breakers = [m \in Model |-> NoEntry]
    /\ call = [r \in Req |-> "idle"]

Next ==
    \/ \E r \in Req : CanRequest(r)
    \/ \E r \in Req : RecordSuccess(r)
    \/ \E r \in Req, s \in FailStatus : RecordFailure(r, s)
    \/ \E r \in Req : Abandon(r)
    \/ \E m \in Model : ForeignSuccess(m)
    \/ Tick

Spec == Init /\ [][Next]_vars

(* An admitted request ends: reqwest and the idle watchdog time out, or    *)
(* the client goes away.                                                   *)
Ends(r) ==
    \/ RecordSuccess(r)
    \/ \E s \in FailStatus : RecordFailure(r, s)
    \/ Abandon(r)

(* The clock runs, clients keep asking, requests end one way or another;   *)
(* nothing is assumed of the outcomes.                                     *)
Fairness ==
    /\ WF_vars(Tick)
    /\ \A r \in Req : WF_vars(CanRequest(r)) /\ WF_vars(Ends(r))

-----------------------------------------------------------------------------
(* Properties.                                                             *)

TypeOK ==
    /\ breakers \in [Model -> ModelBreaker \cup {NoEntry}]
    /\ call \in [Req -> {"idle", "plain", "probe"}]

(* The counters and timers of a breaker agree with its state at all times, *)
(* whatever order admissions, late outcomes and ticks come in: a closed    *)
(* breaker is below the 5xx threshold and owes no probe; a tripped one     *)
(* still carries exactly the count that tripped it; only an open one has   *)
(* time left to serve; a half-open one has let through between one and     *)
(* HALF_OPEN_MAX_ATTEMPTS requests (can_request and both records).         *)
Consistent(b) ==
    /\ b.state = "Closed" => /\ b.fail5xx < FAILURE_THRESHOLD_5XX
                             /\ b.half_open_attempts = 0
    /\ b.state # "Closed" => b.fail5xx = FAILURE_THRESHOLD_5XX
    /\ b.open_left > 0 => b.state = "Open"
    /\ b.state = "HalfOpen" => b.half_open_attempts \in 1 .. HALF_OPEN_MAX_ATTEMPTS
    /\ b.half_open_attempts <= HALF_OPEN_MAX_ATTEMPTS

BreakersConsistent ==
    \A m \in Model : breakers[m] # NoEntry => Consistent(breakers[m])

Probes(m) == {r \in Req : ModelOf[r] = m /\ call[r] = "probe"}

(* A recovering upstream is hit by no more than the allowed probes: the    *)
(* requests admitted in the current half-open phase and still out never    *)
(* outnumber half_open_attempts, and there are none in any other phase     *)
(* (can_request's counting against record_success / record_failure of      *)
(* concurrent requests).                                                   *)
ProbesBounded ==
    \A m \in Model :
        /\ Probes(m) # {} => breakers[m] # NoEntry /\ breakers[m].state = "HalfOpen"
        /\ breakers[m] # NoEntry =>
               Cardinality(Probes(m)) <= breakers[m].half_open_attempts

(* An open breaker does not reject for ever: while clients keep asking, a  *)
(* probe is let through after its term (the automatic OPEN -> HALF_OPEN    *)
(* step of can_request), although failures of older requests keep coming.  *)
IsOpen(m) == breakers[m] # NoEntry /\ breakers[m].state = "Open"
OpenEnds == \A m \in {ModelOf[r] : r \in Req} : IsOpen(m) ~> ~IsOpen(m)
=============================================================================

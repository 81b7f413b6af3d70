----------------------- MODULE CircuitBreakerProofs -----------------------
(***************************************************************************)
(* What holds of the circuit breaker for any number of models and callers  *)
(* and for all thresholds and durations.                                   *)
(***************************************************************************)
EXTENDS MCCircuitBreaker, FiniteSetTheorems, SequenceTheorems, TLAPS

-----------------------------------------------------------------------------
(* The operations on one breaker keep its type.                            *)

(* The thresholds and durations are numbers, and where it matters positive.*)
LEMMA Numbers ==
    /\ FAILURE_THRESHOLD_5XX \in Nat /\ FAILURE_THRESHOLD_5XX >= 1
    /\ WINDOW_DURATION \in Nat
    /\ OPEN_DURATION \in Nat /\ OPEN_DURATION >= 1
    /\ HALF_OPEN_MAX_ATTEMPTS \in Nat /\ HALF_OPEN_MAX_ATTEMPTS >= 1
BY BreakerConstants

(* A freshly inserted breaker is well-typed (ModelBreaker::new).           *)
LEMMA NewBreakerType == NewBreaker \in ModelBreaker /\ Consistent(NewBreaker)
BY Numbers DEF NewBreaker, ModelBreaker, State, Consistent

(* can_request's change of a breaker keeps its type and its consistency.   *)
LEMMA AdmissionKeeps ==
    ASSUME NEW b \in ModelBreaker, Admits(b)
    PROVE  /\ AfterAdmission(b) \in ModelBreaker
           /\ Consistent(b) => Consistent(AfterAdmission(b))
<1> DEFINE c == AfterAdmission(b)
<1>1. CASE b.state = "Closed"
  BY <1>1 DEF AfterAdmission
<1>2. CASE b.state = "Open"
  <2>1. c = [b EXCEPT !.state = "HalfOpen", !.half_open_attempts = 1]
    BY <1>2 DEF AfterAdmission
  <2>2. c \in ModelBreaker
    BY <1>2 DEF AfterAdmission, ModelBreaker, State
  <2>3. /\ c.state = "HalfOpen" /\ c.half_open_attempts = 1
        /\ c.fail5xx = b.fail5xx /\ c.open_left = b.open_left
    BY <2>1 DEF ModelBreaker
  <2>4. Consistent(b) => Consistent(c)
    <3> HIDE DEF c
    <3> QED BY <1>2, <2>3, Numbers DEF ModelBreaker, State, Admits, Consistent
  <2> QED BY <2>2, <2>4
<1>3. CASE b.state = "HalfOpen"
  <2>1. c = [b EXCEPT !.half_open_attempts = @ + 1]
    BY <1>3 DEF AfterAdmission
  <2>2. c \in ModelBreaker
    BY <2>1 DEF ModelBreaker, State
  <2>3. /\ c.state = "HalfOpen" /\ c.half_open_attempts = b.half_open_attempts + 1
        /\ c.fail5xx = b.fail5xx /\ c.open_left = b.open_left
    BY <1>3, <2>1 DEF ModelBreaker
  <2>4. Consistent(b) => Consistent(c)
    <3> HIDE DEF c
    <3> QED BY <1>3, <2>3, Numbers DEF ModelBreaker, State, Admits, Consistent
  <2> QED BY <2>2, <2>4
<1> QED BY <1>1, <1>2, <1>3 DEF ModelBreaker, State

(* record_success keeps the type and the consistency of a breaker.         *)
LEMMA SuccessKeeps ==
    ASSUME NEW b \in ModelBreaker
    PROVE  /\ AfterSuccess(b) \in ModelBreaker
           /\ Consistent(b) => Consistent(AfterSuccess(b))
<1> DEFINE c == AfterSuccess(b)
<1>1. CASE b.state # "HalfOpen"
  BY <1>1 DEF AfterSuccess
<1>2. CASE b.state = "HalfOpen"
  <2>1. c = [b EXCEPT !.state = "Closed", !.fail5xx = 0, !.half_open_attempts = 0]
    BY <1>2 DEF AfterSuccess
  <2>2. c \in ModelBreaker
    BY <1>2 DEF AfterSuccess, ModelBreaker, State
  <2>3. /\ c.state = "Closed" /\ c.half_open_attempts = 0
        /\ c.fail5xx = 0 /\ c.open_left = b.open_left
    BY <2>1 DEF ModelBreaker
  <2>4. Consistent(b) => Consistent(c)
    <3> HIDE DEF c
    <3> QED BY <1>2, <2>3, Numbers DEF ModelBreaker, State, Consistent
  <2> QED BY <2>2, <2>4
<1> QED BY <1>1, <1>2

(* Opening a breaker whose count stands at the threshold.                  *)
LEMMA OpenedKeeps ==
    ASSUME NEW b \in ModelBreaker
    PROVE  /\ Opened(b) \in ModelBreaker
           /\ (/\ b.fail5xx = FAILURE_THRESHOLD_5XX
               /\ b.half_open_attempts <= HALF_OPEN_MAX_ATTEMPTS) => Consistent(Opened(b))
<1> DEFINE c == Opened(b)
<1>1. c \in ModelBreaker
  <2>1. OPEN_DURATION \in 0 .. OPEN_DURATION
    BY Numbers
  <2> QED BY <2>1 DEF Opened, ModelBreaker, State
<1>2. /\ c.state = "Open" /\ c.half_open_attempts = b.half_open_attempts
      /\ c.fail5xx = b.fail5xx /\ c.open_left = OPEN_DURATION
  BY DEF Opened, ModelBreaker
<1>3. (/\ b.fail5xx = FAILURE_THRESHOLD_5XX
       /\ b.half_open_attempts <= HALF_OPEN_MAX_ATTEMPTS) => Consistent(c)
  <2> HIDE DEF c
  <2> QED BY <1>2, Numbers DEF Consistent
<1> QED BY <1>1, <1>3

(* record_failure keeps the type and the consistency of a breaker: one     *)
(* call adds at most one failure, so a breaker that trips stands exactly   *)
(* at the threshold.                                                       *)
LEMMA FailureKeeps ==
    ASSUME NEW b \in ModelBreaker, NEW s \in FailStatus
    PROVE  /\ AfterFailure(b, s) \in ModelBreaker
           /\ Consistent(b) => Consistent(AfterFailure(b, s))
<1>1. CASE b.state = "Open"
  BY <1>1 DEF AfterFailure
<1>2. CASE b.state = "HalfOpen"
  <2>1. AfterFailure(b, s) = Opened(b)
    BY <1>2 DEF AfterFailure
  <2>2. Consistent(b) => /\ b.fail5xx = FAILURE_THRESHOLD_5XX
                         /\ b.half_open_attempts <= HALF_OPEN_MAX_ATTEMPTS
    BY <1>2 DEF Consistent
  <2> QED BY <2>1, <2>2, OpenedKeeps
<1>3. CASE b.state = "Closed"
  <2> DEFINE w == WindowReset(b)
             c == Counted(w, s)
  <2>1. /\ w \in ModelBreaker /\ w.state = "Closed"
        /\ w.fail5xx \in {0, b.fail5xx}
        /\ w.open_left = b.open_left /\ w.half_open_attempts = b.half_open_attempts
    <3>1. 0 \in 0 .. WINDOW_DURATION + 1
      BY Numbers
    <3> QED BY <1>3, <3>1 DEF WindowReset, ModelBreaker, State
  <2> HIDE DEF w
  <2>2. /\ c \in ModelBreaker /\ c.state = "Closed"
        /\ c.fail5xx \in {w.fail5xx, w.fail5xx + 1}
        /\ c.open_left = w.open_left /\ c.half_open_attempts = w.half_open_attempts
    BY <2>1, Numbers DEF Counted, ModelBreaker, State
  <2>3. AfterFailure(b, s) = IF c.fail5xx >= FAILURE_THRESHOLD_5XX THEN Opened(c) ELSE c
    BY <1>3 DEF AfterFailure, w
  <2> HIDE DEF c
  <2>4. AfterFailure(b, s) \in ModelBreaker
    BY <2>2, <2>3, OpenedKeeps
  <2>5. ASSUME Consistent(b) PROVE Consistent(AfterFailure(b, s))
    <3>1. /\ b.fail5xx \in Nat /\ b.fail5xx < FAILURE_THRESHOLD_5XX
          /\ b.half_open_attempts = 0 /\ b.open_left \in Nat /\ ~(b.open_left > 0)
      BY <1>3, <2>5, Numbers DEF Consistent, ModelBreaker
    <3>2. c.fail5xx \in Nat /\ c.fail5xx <= FAILURE_THRESHOLD_5XX
      BY <2>1, <2>2, <3>1, Numbers
    <3>3. CASE c.fail5xx >= FAILURE_THRESHOLD_5XX
      BY <2>1, <2>2, <2>3, <3>1, <3>2, <3>3, Numbers, OpenedKeeps
    <3>4. CASE ~(c.fail5xx >= FAILURE_THRESHOLD_5XX)
      BY <2>1, <2>2, <2>3, <3>1, <3>2, <3>4, Numbers DEF Consistent
    <3> QED BY <3>3, <3>4
  <2> QED BY <2>4, <2>5
<1> QED BY <1>1, <1>2, <1>3 DEF ModelBreaker, State

(* The passing of time keeps the type and the consistency of a breaker.    *)
LEMMA AgingKeeps ==
    ASSUME NEW b \in ModelBreaker
    PROVE  /\ Aged(b) \in ModelBreaker
           /\ Aged(b).state = b.state
           /\ Aged(b).half_open_attempts = b.half_open_attempts
           /\ Consistent(b) => Consistent(Aged(b))
<1> DEFINE c == Aged(b)
<1>1. c \in ModelBreaker
  <2>1. /\ b.window_age \in 0 .. WINDOW_DURATION + 1
        /\ b.open_left \in 0 .. OPEN_DURATION
    BY DEF ModelBreaker
  <2>2. /\ (IF b.window_age > WINDOW_DURATION THEN b.window_age ELSE b.window_age + 1)
            \in 0 .. WINDOW_DURATION + 1
        /\ (IF b.open_left > 0 THEN b.open_left - 1 ELSE 0) \in 0 .. OPEN_DURATION
    BY <2>1, Numbers
  <2> QED BY <2>2 DEF Aged, ModelBreaker
<1>2. /\ c.state = b.state /\ c.half_open_attempts = b.half_open_attempts
      /\ c.fail5xx = b.fail5xx /\ (c.open_left > 0 => b.open_left > 0)
  BY Numbers DEF Aged, ModelBreaker
<1>3. Consistent(b) => Consistent(c)
  <2> HIDE DEF c
  <2> QED BY <1>2 DEF Consistent
<1> QED BY <1>1, <1>2, <1>3

-----------------------------------------------------------------------------
(* Type correctness.                                                       *)

(* The entry an operation works on is well-typed.                          *)
LEMMA EntryType ==
    ASSUME TypeOK, NEW m \in Model
    PROVE  Entry(m) \in ModelBreaker
BY NewBreakerType DEF Entry, TypeOK

(* The bookkeeping of admissions stays well-typed.                         *)
LEMMA CallsAfterType ==
    ASSUME TypeOK, NEW r \in Req, NEW m, NEW b
    PROVE  CallsAfter(r, m, b) \in [Req -> {"idle", "plain", "probe"}]
BY DEF CallsAfter, TypeOK

(* The breakers and the callers' bookkeeping are well-typed in every       *)
(* reachable state of the circuit breaker.                                 *)
THEOREM TypeCorrect == Spec => []TypeOK
<1>1. Init => TypeOK
  BY DEF Init, TypeOK
<1>2. TypeOK /\ [Next]_vars => TypeOK'
  <2> SUFFICES ASSUME TypeOK, [Next]_vars PROVE TypeOK'
    OBVIOUS
  <2> USE DEF TypeOK
  <2>1. ASSUME NEW r \in Req, CanRequest(r) PROVE TypeOK'
    <3>1. ModelOf[r] \in Model
      BY BreakerConstants
    <3>2. AfterAdmission(Entry(ModelOf[r])) \in ModelBreaker
      BY <2>1, <3>1, EntryType, AdmissionKeeps DEF CanRequest
    <3> QED BY <2>1, <3>2 DEF CanRequest, Put
  <2>2. ASSUME NEW r \in Req, RecordSuccess(r) PROVE TypeOK'
    <3>1. ModelOf[r] \in Model
      BY BreakerConstants
    <3>2. AfterSuccess(Entry(ModelOf[r])) \in ModelBreaker
      BY <3>1, EntryType, SuccessKeeps
    <3> QED BY <2>2, <3>2, CallsAfterType DEF RecordSuccess, Put
  <2>3. ASSUME NEW r \in Req, NEW s \in FailStatus, RecordFailure(r, s) PROVE TypeOK'
    <3>1. ModelOf[r] \in Model
      BY BreakerConstants
    <3>2. AfterFailure(Entry(ModelOf[r]), s) \in ModelBreaker
      BY <3>1, EntryType, FailureKeeps
    <3> QED BY <2>3, <3>2, CallsAfterType DEF RecordFailure, Put
  <2>4. ASSUME NEW r \in Req, Abandon(r) PROVE TypeOK'
    BY <2>4 DEF Abandon
  <2>5. ASSUME NEW m \in Model, ForeignSuccess(m) PROVE TypeOK'
    <3>1. AfterSuccess(breakers[m]) \in ModelBreaker
      BY <2>5, SuccessKeeps DEF ForeignSuccess
    <3> QED BY <2>5, <3>1 DEF ForeignSuccess, Put
  <2>6. CASE Tick
    BY <2>6, AgingKeeps DEF Tick
  <2>7. CASE UNCHANGED vars
    BY <2>7 DEF vars
  <2> QED BY <2>1, <2>2, <2>3, <2>4, <2>5, <2>6, <2>7 DEF Next
<1> QED BY <1>1, <1>2, PTL DEF Spec

-----------------------------------------------------------------------------
(* Consistency of the breakers.                                            *)

(* The entry an operation works on is consistent.                          *)
LEMMA EntryConsistent ==
    ASSUME BreakersConsistent, NEW m \in Model
    PROVE  Consistent(Entry(m))
BY NewBreakerType DEF Entry, BreakersConsistent

(* Writing a consistent breaker keeps all of them consistent.              *)
LEMMA PutConsistent ==
    ASSUME TypeOK, BreakersConsistent, NEW m \in Model, NEW b, Consistent(b), Put(m, b)
    PROVE  BreakersConsistent'
BY DEF TypeOK, BreakersConsistent, Put

(* Counters, timers and state of every breaker agree in every reachable    *)
(* state: below the threshold while closed, exactly at it once tripped,    *)
(* between one and HALF_OPEN_MAX_ATTEMPTS admissions while half open.      *)
THEOREM ConsistentAlways == Spec => []BreakersConsistent
<1>1. Init => BreakersConsistent
  BY DEF Init, BreakersConsistent
<1>2. TypeOK /\ BreakersConsistent /\ [Next]_vars => BreakersConsistent'
  <2> SUFFICES ASSUME TypeOK, BreakersConsistent, [Next]_vars PROVE BreakersConsistent'
    OBVIOUS
  <2>1. ASSUME NEW r \in Req, CanRequest(r) PROVE BreakersConsistent'
    <3>1. ModelOf[r] \in Model
      BY BreakerConstants
    <3>2. Consistent(AfterAdmission(Entry(ModelOf[r])))
      BY <2>1, <3>1, EntryType, EntryConsistent, AdmissionKeeps DEF CanRequest
    <3> QED BY <2>1, <3>1, <3>2, PutConsistent DEF CanRequest
  <2>2. ASSUME NEW r \in Req, RecordSuccess(r) PROVE BreakersConsistent'
    <3>1. ModelOf[r] \in Model
      BY BreakerConstants
    <3>2. Consistent(AfterSuccess(Entry(ModelOf[r])))
      BY <3>1, EntryType, EntryConsistent, SuccessKeeps
    <3> QED BY <2>2, <3>1, <3>2, PutConsistent DEF RecordSuccess
  <2>3. ASSUME NEW r \in Req, NEW s \in FailStatus, RecordFailure(r, s)
        PROVE  BreakersConsistent'
    <3>1. ModelOf[r] \in Model
      BY BreakerConstants
    <3>2. Consistent(AfterFailure(Entry(ModelOf[r]), s))
      BY <3>1, EntryType, EntryConsistent, FailureKeeps
    <3> QED BY <2>3, <3>1, <3>2, PutConsistent DEF RecordFailure
  <2>4. ASSUME NEW r \in Req, Abandon(r) PROVE BreakersConsistent'
    BY <2>4 DEF Abandon, BreakersConsistent
  <2>5. ASSUME NEW m \in Model, ForeignSuccess(m) PROVE BreakersConsistent'
    <3>1. Consistent(AfterSuccess(breakers[m]))
      BY <2>5, SuccessKeeps DEF ForeignSuccess, TypeOK, BreakersConsistent
    <3> QED BY <2>5, <3>1, PutConsistent DEF ForeignSuccess
  <2>6. CASE Tick
    <3> SUFFICES ASSUME NEW m \in Model, breakers'[m] # NoEntry
                 PROVE  Consistent(breakers'[m])
      BY DEF BreakersConsistent
    <3>1. /\ breakers[m] \in ModelBreaker /\ Consistent(breakers[m])
          /\ breakers'[m] = Aged(breakers[m])
      BY <2>6 DEF Tick, TypeOK, BreakersConsistent
    <3> QED BY <3>1, AgingKeeps
  <2>7. CASE UNCHANGED vars
    BY <2>7 DEF vars, BreakersConsistent
  <2> QED BY <2>1, <2>2, <2>3, <2>4, <2>5, <2>6, <2>7 DEF Next
<1> QED BY <1>1, <1>2, TypeCorrect, PTL DEF Spec

-----------------------------------------------------------------------------
(* The bound on probes.                                                    *)

(* ProbesBounded for one model.                                            *)
ProbesBoundedFor(m) ==
    /\ Probes(m) # {} => breakers[m] # NoEntry /\ breakers[m].state = "HalfOpen"
    /\ breakers[m] # NoEntry =>
           Cardinality(Probes(m)) <= breakers[m].half_open_attempts

(* Probes form a finite set, Req being finite.                             *)
LEMMA ProbesFinite ==
    ASSUME NEW m
    PROVE  /\ IsFiniteSet(Probes(m)) /\ Cardinality(Probes(m)) \in Nat
           /\ IsFiniteSet(Probes(m)') /\ Cardinality(Probes(m)') \in Nat
<1>1. Probes(m) \in SUBSET Req /\ Probes(m)' \in SUBSET Req
  BY DEF Probes
<1> QED BY <1>1, BreakerConstants, FS_Subset, FS_CardinalityType

(* Either record ends the half-open phase.                                 *)
LEMMA RecordsLeaveHalfOpen ==
    ASSUME NEW b \in ModelBreaker
    PROVE  /\ AfterSuccess(b).state # "HalfOpen"
           /\ \A s \in FailStatus : AfterFailure(b, s).state # "HalfOpen"
<1>1. AfterSuccess(b).state # "HalfOpen"
  BY DEF AfterSuccess, ModelBreaker
<1>2. ASSUME NEW s \in FailStatus PROVE AfterFailure(b, s).state # "HalfOpen"
  <2>1. CASE b.state = "Open"
    BY <2>1 DEF AfterFailure
  <2>2. CASE b.state = "HalfOpen"
    BY <2>2 DEF AfterFailure, Opened, ModelBreaker
  <2>3. CASE b.state = "Closed"
    <3> DEFINE c == Counted(WindowReset(b), s)
    <3>1. c.state = "Closed" /\ Opened(c).state = "Open"
      BY <2>3 DEF Counted, WindowReset, Opened, ModelBreaker
    <3>2. AfterFailure(b, s) \in {c, Opened(c)}
      BY <2>3 DEF AfterFailure
    <3> QED BY <3>1, <3>2
  <2> QED BY <2>1, <2>2, <2>3 DEF ModelBreaker, State
<1> QED BY <1>1, <1>2

(* A breaker without probes satisfies the bound.                           *)
LEMMA NoProbesBounded ==
    ASSUME TypeOK', NEW m \in Model, Probes(m)' = {}
    PROVE  ProbesBoundedFor(m)'
BY FS_EmptySet DEF ProbesBoundedFor, TypeOK, ModelBreaker

(* An outcome recorded for any caller keeps the bound for every model.     *)
LEMMA RecordKeepsBound ==
    ASSUME TypeOK, TypeOK', NEW m \in Model, ProbesBoundedFor(m), NEW r \in Req, NEW b,
           b.state # "HalfOpen",
           Put(ModelOf[r], b), call' = CallsAfter(r, ModelOf[r], b)
    PROVE  ProbesBoundedFor(m)'
<1>1. CASE m = ModelOf[r]
  <2>1. Probes(m)' = {}
    BY <1>1 DEF Probes, CallsAfter
  <2> QED BY <2>1, NoProbesBounded
<1>2. CASE m # ModelOf[r]
  <2>1. Probes(m)' = Probes(m)
    BY <1>2 DEF Probes, CallsAfter
  <2>2. breakers'[m] = breakers[m]
    BY <1>2 DEF Put, TypeOK
  <2> QED BY <2>1, <2>2 DEF ProbesBoundedFor
<1> QED BY <1>1, <1>2

(* An admission keeps the bound: it adds one probe and counts one attempt. *)
LEMMA AdmissionKeepsBound ==
    ASSUME TypeOK, TypeOK', NEW m \in Model, ProbesBoundedFor(m), NEW r \in Req, CanRequest(r)
    PROVE  ProbesBoundedFor(m)'
<1> DEFINE e == Entry(m)
           b == AfterAdmission(e)
<1>1. CASE m # ModelOf[r]
  <2>1. Probes(m)' = Probes(m)
    BY <1>1 DEF Probes, CanRequest, TypeOK
  <2>2. breakers'[m] = breakers[m]
    BY <1>1 DEF CanRequest, Put, TypeOK
  <2> QED BY <2>1, <2>2 DEF ProbesBoundedFor
<1>2. CASE m = ModelOf[r]
  <2>1. e \in ModelBreaker
    BY EntryType
  <2>2. /\ breakers'[m] = b
        /\ call' = [call EXCEPT ![r] = IF b.state = "HalfOpen" THEN "probe" ELSE "plain"]
        /\ call[r] = "idle"
    BY <1>2 DEF CanRequest, Put, TypeOK
  <2>3. e.state # "HalfOpen" => Probes(m) = {}
    BY DEF ProbesBoundedFor, Entry, NewBreaker
  <2>4. CASE e.state = "Closed"
    <3>1. b.state = "Closed"
      BY <2>4 DEF AfterAdmission
    <3>2. Probes(m)' = Probes(m)
      BY <2>2, <3>1 DEF Probes, TypeOK
    <3> QED BY <2>3, <2>4, <3>2, NoProbesBounded
  <2>5. CASE e.state = "Open"
    <3>1. b.state = "HalfOpen" /\ b.half_open_attempts = 1
      BY <2>1, <2>5 DEF AfterAdmission, ModelBreaker
    <3>2. Probes(m)' = {r}
      BY <1>2, <2>2, <2>3, <2>5, <3>1 DEF Probes, TypeOK
    <3>3. Cardinality(Probes(m)') = 1
      BY <3>2, FS_Singleton
    <3>4. b \in ModelBreaker
      BY <1>2, <2>1, AdmissionKeeps DEF CanRequest
    <3> QED BY <2>2, <3>1, <3>3, <3>4, BreakerConstants DEF ProbesBoundedFor
  <2>6. CASE e.state = "HalfOpen"
    <3>1. b.state = "HalfOpen" /\ b.half_open_attempts = e.half_open_attempts + 1
      BY <2>1, <2>6 DEF AfterAdmission, ModelBreaker
    <3>2. Probes(m)' = Probes(m) \cup {r} /\ r \notin Probes(m)
      BY <1>2, <2>2, <3>1 DEF Probes, TypeOK
    <3>3. Cardinality(Probes(m)') = Cardinality(Probes(m)) + 1
      BY <3>2, ProbesFinite, FS_AddElement
    <3>4. breakers[m] = e /\ breakers[m] # NoEntry
      BY <2>1, <2>6, BreakerConstants DEF Entry, NewBreaker
    <3>5. Cardinality(Probes(m)) <= e.half_open_attempts /\ e.half_open_attempts \in Nat
      BY <2>1, <3>4 DEF ProbesBoundedFor, ModelBreaker
    <3>6. b \in ModelBreaker
      BY <1>2, <2>1, AdmissionKeeps DEF CanRequest
    <3>7. Cardinality(Probes(m)') <= b.half_open_attempts
      BY <3>1, <3>3, <3>5, ProbesFinite
    <3> QED BY <2>2, <3>1, <3>6, <3>7, BreakerConstants DEF ProbesBoundedFor
  <2> QED BY <2>1, <2>4, <2>5, <2>6 DEF ModelBreaker, State
<1> QED BY <1>1, <1>2

(* A recovering upstream never has more probes out than the half-open      *)
(* phase has admitted, and there are none in any other phase.              *)
THEOREM ProbesBoundedAlways == Spec => []ProbesBounded
<1>1. Init => ProbesBounded
  BY DEF Init, ProbesBounded, Probes
<1>2. TypeOK /\ TypeOK' /\ ProbesBounded /\ [Next]_vars => ProbesBounded'
  <2> SUFFICES ASSUME TypeOK, TypeOK', ProbesBounded, [Next]_vars, NEW m \in Model
               PROVE  ProbesBoundedFor(m)'
    BY DEF ProbesBounded, ProbesBoundedFor
  <2>0. ProbesBoundedFor(m)
    BY DEF ProbesBounded, ProbesBoundedFor
  <2>1. ASSUME NEW r \in Req, CanRequest(r) PROVE ProbesBoundedFor(m)'
    BY <2>0, <2>1, AdmissionKeepsBound
  <2>2. ASSUME NEW r \in Req, RecordSuccess(r) PROVE ProbesBoundedFor(m)'
    <3>1. Entry(ModelOf[r]) \in ModelBreaker
      BY BreakerConstants, EntryType
    <3>2. AfterSuccess(Entry(ModelOf[r])).state # "HalfOpen"
      BY <3>1, RecordsLeaveHalfOpen
    <3> QED BY <2>0, <2>2, <3>2, RecordKeepsBound DEF RecordSuccess
  <2>3. ASSUME NEW r \in Req, NEW s \in FailStatus, RecordFailure(r, s)
        PROVE  ProbesBoundedFor(m)'
    <3>1. Entry(ModelOf[r]) \in ModelBreaker
      BY BreakerConstants, EntryType
    <3>2. AfterFailure(Entry(ModelOf[r]), s).state # "HalfOpen"
      BY <3>1, RecordsLeaveHalfOpen
    <3> QED BY <2>0, <2>3, <3>2, RecordKeepsBound DEF RecordFailure
  <2>4. ASSUME NEW r \in Req, Abandon(r) PROVE ProbesBoundedFor(m)'
    <3>1. Probes(m)' \in SUBSET Probes(m) /\ breakers' = breakers
      BY <2>4 DEF Abandon, Probes, TypeOK
    <3>2. Cardinality(Probes(m)') <= Cardinality(Probes(m))
      BY <3>1, ProbesFinite, FS_Subset
    <3>3. breakers[m] # NoEntry => breakers[m].half_open_attempts \in Nat
      BY DEF TypeOK, ModelBreaker
    <3> QED BY <2>0, <3>1, <3>2, <3>3, ProbesFinite DEF ProbesBoundedFor
  <2>5. ASSUME NEW n \in Model, ForeignSuccess(n) PROVE ProbesBoundedFor(m)'
    <3>1. CASE m = n
      <4>1. Probes(m)' = {}
        BY <2>5, <3>1 DEF ForeignSuccess, Probes
      <4> QED BY <4>1, NoProbesBounded
    <3>2. CASE m # n
      <4>1. Probes(m)' = Probes(m) /\ breakers'[m] = breakers[m]
        BY <2>5, <3>2 DEF ForeignSuccess, Probes, Put, TypeOK
      <4> QED BY <2>0, <4>1 DEF ProbesBoundedFor
    <3> QED BY <3>1, <3>2
  <2>6. CASE Tick
    <3>1. Probes(m)' = Probes(m)
      BY <2>6 DEF Tick, Probes
    <3>2. breakers[m] = NoEntry => breakers'[m] = NoEntry
      BY <2>6 DEF Tick
    <3>3. breakers[m] # NoEntry =>
             /\ breakers'[m].state = breakers[m].state
             /\ breakers'[m].half_open_attempts = breakers[m].half_open_attempts
             /\ breakers'[m] # NoEntry
      BY <2>6, AgingKeeps, BreakerConstants DEF Tick, TypeOK
    <3> QED BY <2>0, <3>1, <3>2, <3>3 DEF ProbesBoundedFor
  <2>7. CASE UNCHANGED vars
    BY <2>0, <2>7 DEF vars, ProbesBoundedFor, Probes
  <2> QED BY <2>1, <2>2, <2>3, <2>4, <2>5, <2>6, <2>7 DEF Next
<1> QED BY <1>1, <1>2, TypeCorrect, PTL DEF Spec

-----------------------------------------------------------------------------
(* Trips happen on bursts only.                                            *)

Ages == Seq(0 .. WINDOW_DURATION + 1)

(* While the counting window runs, the failures counted are the last ones  *)
(* of the history, and none of them is older than the window.              *)
InWindow(b, h) ==
    b.state = "Closed" /\ b.window_age <= WINDOW_DURATION
    => /\ b.fail5xx <= Len(h)
       /\ \A i \in 1 .. Len(h) : i > Len(h) - b.fail5xx => h[i] <= b.window_age

HistoryOK(b, h) ==
    /\ h \in Ages
    /\ Len(h) <= FAILURE_THRESHOLD_5XX
    /\ InWindow(b, h)

BurstOK ==
    /\ burst \in [Model -> Ages]
    /\ \A m \in Model : HistoryOK(Entry(m), burst[m])

(* The elements of a history.                                              *)
LEMMA AgesType ==
    ASSUME NEW h \in Ages
    PROVE  /\ DOMAIN h = 1 .. Len(h) /\ Len(h) \in Nat
           /\ \A i \in 1 .. Len(h) : h[i] \in 0 .. WINDOW_DURATION + 1
BY ElementOfSeq, LenProperties DEF Ages

(* One more failure: the newest is at the end, the others move up, and at  *)
(* most FAILURE_THRESHOLD_5XX are kept.                                    *)
LEMMA HistoryGrows ==
    ASSUME NEW h \in Ages, Len(h) <= FAILURE_THRESHOLD_5XX
    PROVE  LET g == WithFailure(h)
           IN  /\ g \in Ages
               /\ Len(g) = (IF Len(h) = FAILURE_THRESHOLD_5XX THEN Len(h) ELSE Len(h) + 1)
               /\ g[Len(g)] = 0
               /\ \A i \in 1 .. Len(g) - 1 : i + (Len(h) + 1 - Len(g)) \in 1 .. Len(h)
                                             /\ g[i] = h[i + (Len(h) + 1 - Len(g))]
<1> DEFINE a == Append(h, 0)
           T == FAILURE_THRESHOLD_5XX
           g == WithFailure(h)
<1>1. 0 \in 0 .. WINDOW_DURATION + 1 /\ T \in Nat /\ T >= 1 /\ Len(h) \in Nat
  BY Numbers DEF Ages
<1>2. /\ a \in Ages /\ Len(a) = Len(h) + 1 /\ a[Len(h) + 1] = 0
      /\ \A i \in 1 .. Len(h) : a[i] = h[i]
  BY <1>1 DEF Ages
<1> HIDE DEF a
<1>3. CASE Len(h) < T
  <2>1. g = a
    BY <1>1, <1>2, <1>3 DEF WithFailure, LastN, a
  <2> QED BY <1>1, <1>2, <1>3, <2>1
<1>4. CASE Len(h) = T
  <2>1. g = SubSeq(a, 2, T + 1)
    BY <1>1, <1>2, <1>4 DEF WithFailure, LastN, a
  <2>2. /\ g \in Ages /\ Len(g) = T
        /\ \A i \in 1 .. T : g[i] = a[i + 1]
    <3>1. \A i \in 2 .. T + 1 : a[i] \in 0 .. WINDOW_DURATION + 1
      BY <1>1, <1>2, <1>4, AgesType
    <3>2. 2 \in Int /\ T + 1 \in Int /\ 2 <= T + 1 /\ T + 1 - 2 + 1 = T
      BY <1>1
    <3>3. /\ SubSeq(a, 2, T + 1) \in Ages /\ Len(SubSeq(a, 2, T + 1)) = T
          /\ \A i \in 1 .. T : SubSeq(a, 2, T + 1)[i] = a[2 + i - 1]
      <4> DEFINE n == T + 1
                 q == SubSeq(a, 2, n)
      <4>1. n \in Int /\ 2 \in Int /\ \A i \in 2 .. n : a[i] \in 0 .. WINDOW_DURATION + 1
        BY <3>1, <3>2
      <4>2. 2 <= n /\ n - 2 + 1 = T /\ 1 .. n - 2 + 1 = 1 .. T
        BY <1>1
      <4> HIDE DEF n
      <4>3. /\ q \in Seq(0 .. WINDOW_DURATION + 1)
            /\ Len(q) = IF 2 <= n THEN n - 2 + 1 ELSE 0
            /\ \A i \in 1 .. n - 2 + 1 : q[i] = a[2 + i - 1]
        BY <4>1, SubSeqProperties
      <4> QED BY <4>2, <4>3 DEF Ages, n
    <3> QED BY <1>1, <2>1, <3>3
  <2> QED BY <1>1, <1>2, <1>4, <2>2
<1> QED BY <1>1, <1>3, <1>4

(* Time makes every failure of the history older by one unit.              *)
LEMMA HistoryAges ==
    ASSUME NEW h \in Ages
    PROVE  /\ Older(h) \in Ages /\ Len(Older(h)) = Len(h)
           /\ \A i \in 1 .. Len(h) : Older(h)[i] = IF h[i] > WINDOW_DURATION
                                                   THEN h[i] ELSE h[i] + 1
<1>1. /\ DOMAIN h = 1 .. Len(h) /\ Len(h) \in Nat
      /\ \A i \in 1 .. Len(h) : h[i] \in 0 .. WINDOW_DURATION + 1
  BY AgesType
<1>2. \A i \in 1 .. Len(h) :
        (IF h[i] > WINDOW_DURATION THEN h[i] ELSE h[i] + 1) \in 0 .. WINDOW_DURATION + 1
  BY <1>1, Numbers
<1> QED BY <1>1, <1>2 DEF Older, Ages

(* The operations of a breaker keep the history in step.                   *)
LEMMA AdmissionKeepsHistory ==
    ASSUME NEW b \in ModelBreaker, NEW h, Admits(b), HistoryOK(b, h)
    PROVE  HistoryOK(AfterAdmission(b), h)
<1>1. AfterAdmission(b) = b \/ AfterAdmission(b).state = "HalfOpen"
  BY DEF AfterAdmission, ModelBreaker, State
<1> QED BY <1>1 DEF HistoryOK, InWindow

LEMMA SuccessKeepsHistory ==
    ASSUME NEW b \in ModelBreaker, NEW h, HistoryOK(b, h)
    PROVE  HistoryOK(AfterSuccess(b), h)
<1>1. AfterSuccess(b) = b \/ AfterSuccess(b).fail5xx = 0
  BY DEF AfterSuccess, ModelBreaker
<1>2. Len(h) \in Nat
  BY DEF HistoryOK, Ages
<1> QED BY <1>1, <1>2 DEF HistoryOK, InWindow

LEMMA AgingKeepsHistory ==
    ASSUME NEW b \in ModelBreaker, NEW h, HistoryOK(b, h)
    PROVE  HistoryOK(Aged(b), Older(h))
<1> DEFINE c == Aged(b)
           g == Older(h)
<1>1. /\ h \in Ages /\ g \in Ages /\ Len(g) = Len(h) /\ Len(h) \in Nat
      /\ \A i \in 1 .. Len(h) : /\ h[i] \in 0 .. WINDOW_DURATION + 1
                                /\ g[i] = IF h[i] > WINDOW_DURATION THEN h[i] ELSE h[i] + 1
  BY HistoryAges, AgesType DEF HistoryOK
<1>2. /\ c.state = b.state /\ c.fail5xx = b.fail5xx /\ b.fail5xx \in Nat
      /\ b.window_age \in 0 .. WINDOW_DURATION + 1
      /\ c.window_age = IF b.window_age > WINDOW_DURATION THEN b.window_age
                        ELSE b.window_age + 1
  BY DEF Aged, ModelBreaker
<1> HIDE DEF c, g
<1>3. InWindow(c, g)
  <2> SUFFICES ASSUME c.state = "Closed", c.window_age <= WINDOW_DURATION
               PROVE  /\ c.fail5xx <= Len(g)
                      /\ \A i \in 1 .. Len(g) : i > Len(g) - c.fail5xx => g[i] <= c.window_age
    BY DEF InWindow
  <2>1. b.window_age <= WINDOW_DURATION /\ c.window_age = b.window_age + 1
    BY <1>2, Numbers
  <2>2. /\ b.fail5xx <= Len(h)
        /\ \A i \in 1 .. Len(h) : i > Len(h) - b.fail5xx => h[i] <= b.window_age
    BY <1>2, <2>1 DEF HistoryOK, InWindow
  <2> QED BY <1>1, <1>2, <2>1, <2>2, Numbers
<1> QED BY <1>1, <1>3 DEF HistoryOK, c, g

(* What a server error, and any other failure, does to a closed breaker:   *)
(* the counted failures are within a window that has not ended.            *)
LEMMA FailureCounts ==
    ASSUME NEW b \in ModelBreaker, NEW h, NEW s \in FailStatus, b.state = "Closed",
           Consistent(b), HistoryOK(b, h)
    PROVE  LET c == Counted(WindowReset(b), s)
               g == IF s = "s5xx" THEN WithFailure(h) ELSE h
           IN  /\ g \in Ages /\ Len(g) <= FAILURE_THRESHOLD_5XX
               /\ c.window_age \in 0 .. WINDOW_DURATION /\ c.state = "Closed"
               /\ c.fail5xx \in Nat /\ c.fail5xx <= Len(g)
               /\ \A i \in 1 .. Len(g) : i > Len(g) - c.fail5xx => g[i] <= c.window_age
<1> DEFINE w == WindowReset(b)
           c == Counted(w, s)
           g == IF s = "s5xx" THEN WithFailure(h) ELSE h
<1>1. /\ b.window_age \in 0 .. WINDOW_DURATION + 1 /\ b.fail5xx \in Nat
      /\ b.fail5xx < FAILURE_THRESHOLD_5XX
      /\ h \in Ages /\ Len(h) \in Nat /\ Len(h) <= FAILURE_THRESHOLD_5XX
      /\ \A i \in 1 .. Len(h) : h[i] \in 0 .. WINDOW_DURATION + 1
  BY AgesType DEF ModelBreaker, Consistent, HistoryOK
<1>2. /\ w \in ModelBreaker /\ w.state = "Closed" /\ w.window_age \in 0 .. WINDOW_DURATION
      /\ w.fail5xx \in Nat /\ w.fail5xx <= Len(h) /\ w.fail5xx < FAILURE_THRESHOLD_5XX
      /\ \A i \in 1 .. Len(h) : i > Len(h) - w.fail5xx => h[i] <= w.window_age
  <2>1. CASE b.window_age > WINDOW_DURATION
    <3>1. w = [b EXCEPT !.fail5xx = 0, !.window_age = 0]
      BY <2>1 DEF WindowReset
    <3>2. 0 \in 0 .. WINDOW_DURATION /\ 0 \in 0 .. WINDOW_DURATION + 1
      BY Numbers
    <3>3. w \in ModelBreaker /\ w.state = "Closed" /\ w.fail5xx = 0 /\ w.window_age = 0
      <4> HIDE DEF w
      <4> QED BY <3>1, <3>2 DEF ModelBreaker, State
    <3> HIDE DEF w
    <3> QED BY <1>1, <3>2, <3>3, Numbers
  <2>2. CASE ~(b.window_age > WINDOW_DURATION)
    <3>1. w = b
      BY <2>2 DEF WindowReset
    <3>2. b.window_age <= WINDOW_DURATION /\ b.window_age \in 0 .. WINDOW_DURATION
      BY <1>1, <2>2, Numbers
    <3>3. /\ b.fail5xx <= Len(h)
          /\ \A i \in 1 .. Len(h) : i > Len(h) - b.fail5xx => h[i] <= b.window_age
      BY <3>2 DEF HistoryOK, InWindow
    <3> QED BY <1>1, <3>1, <3>2, <3>3
  <2> QED BY <2>1, <2>2
<1> HIDE DEF w
<1>3. CASE s # "s5xx"
  <2>1. c = w /\ g = h
    BY <1>3 DEF Counted
  <2> QED BY <1>1, <1>2, <2>1 DEF w
<1>4. CASE s = "s5xx"
  <2>1. c = [w EXCEPT !.fail5xx = @ + 1] /\ g = WithFailure(h)
    BY <1>4 DEF Counted
  <2>2. /\ c.state = "Closed" /\ c.window_age = w.window_age
        /\ c.fail5xx = w.fail5xx + 1
    BY <1>2, <2>1 DEF ModelBreaker
  <2>3. /\ g \in Ages
        /\ Len(g) = (IF Len(h) = FAILURE_THRESHOLD_5XX THEN Len(h) ELSE Len(h) + 1)
        /\ g[Len(g)] = 0
        /\ \A i \in 1 .. Len(g) - 1 : /\ i + (Len(h) + 1 - Len(g)) \in 1 .. Len(h)
                                      /\ g[i] = h[i + (Len(h) + 1 - Len(g))]
    BY <1>1, <2>1, HistoryGrows
  <2> HIDE DEF c, g
  <2>4. Len(g) <= FAILURE_THRESHOLD_5XX /\ c.fail5xx <= Len(g) /\ Len(g) \in Nat
    BY <1>1, <1>2, <2>2, <2>3, Numbers
  <2>5. ASSUME NEW i \in 1 .. Len(g), i > Len(g) - c.fail5xx PROVE g[i] <= c.window_age
    <3>1. CASE i = Len(g)
      BY <1>2, <2>2, <2>3, <3>1, Numbers
    <3>2. CASE i # Len(g)
      <4>1. i \in 1 .. Len(g) - 1
        BY <2>4, <3>2
      <4> DEFINE j == i + (Len(h) + 1 - Len(g))
      <4>2. j \in 1 .. Len(h) /\ g[i] = h[j]
        BY <2>3, <4>1
      <4>3. j > Len(h) - w.fail5xx
        BY <1>1, <1>2, <2>2, <2>4, <2>5
      <4> HIDE DEF j
      <4> QED BY <1>2, <2>2, <4>2, <4>3
    <3> QED BY <3>1, <3>2
  <2> QED BY <1>2, <2>2, <2>3, <2>4, <2>5 DEF c, g, w
<1> QED BY <1>3, <1>4

LEMMA FailureKeepsHistory ==
    ASSUME NEW b \in ModelBreaker, NEW h, NEW s \in FailStatus,
           Consistent(b), HistoryOK(b, h)
    PROVE  LET g == IF s = "s5xx" /\ b.state = "Closed" THEN WithFailure(h) ELSE h
           IN  /\ HistoryOK(AfterFailure(b, s), g)
               /\ b.state = "Closed" /\ AfterFailure(b, s).state = "Open"
                     => /\ Len(g) = FAILURE_THRESHOLD_5XX
                        /\ \A i \in 1 .. Len(g) : g[i] <= WINDOW_DURATION
<1> DEFINE g == IF s = "s5xx" /\ b.state = "Closed" THEN WithFailure(h) ELSE h
           d == AfterFailure(b, s)
<1>1. CASE b.state # "Closed"
  <2>1. g = h /\ (d = b \/ d.state = "Open")
    BY <1>1 DEF AfterFailure, Opened, ModelBreaker, State
  <2> QED BY <1>1, <2>1 DEF HistoryOK, InWindow
<1>2. CASE b.state = "Closed"
  <2> DEFINE c == Counted(WindowReset(b), s)
  <2>1. /\ g \in Ages /\ Len(g) <= FAILURE_THRESHOLD_5XX /\ Len(g) \in Nat
        /\ c.window_age \in 0 .. WINDOW_DURATION /\ c.state = "Closed"
        /\ c.fail5xx \in Nat /\ c.fail5xx <= Len(g)
        /\ \A i \in 1 .. Len(g) : i > Len(g) - c.fail5xx => g[i] <= c.window_age
        /\ \A i \in 1 .. Len(g) : g[i] \in 0 .. WINDOW_DURATION + 1
    BY <1>2, FailureCounts, AgesType
  <2>2. d = IF c.fail5xx >= FAILURE_THRESHOLD_5XX THEN Opened(c) ELSE c
    BY <1>2 DEF AfterFailure
  <2>3. WindowReset(b) \in ModelBreaker /\ c \in ModelBreaker
    <3>1. 0 \in 0 .. WINDOW_DURATION + 1
      BY Numbers
    <3>2. WindowReset(b) \in ModelBreaker
      BY <3>1 DEF WindowReset, ModelBreaker, State
    <3> HIDE DEF c
    <3> QED BY <3>2, Numbers DEF Counted, ModelBreaker, State, c
  <2> HIDE DEF c, d, g
  <2>4. CASE c.fail5xx >= FAILURE_THRESHOLD_5XX
    <3>1. d.state = "Open"
      BY <2>2, <2>3, <2>4 DEF Opened, ModelBreaker
    <3>2. HistoryOK(d, g)
      BY <2>1, <3>1 DEF HistoryOK, InWindow
    <3>3. Len(g) = FAILURE_THRESHOLD_5XX /\ c.fail5xx = Len(g)
      BY <2>1, <2>4, Numbers
    <3>4. ASSUME NEW i \in 1 .. Len(g) PROVE g[i] <= WINDOW_DURATION
      BY <2>1, <3>3, Numbers
    <3> QED BY <3>2, <3>3, <3>4 DEF d, g
  <2>5. CASE ~(c.fail5xx >= FAILURE_THRESHOLD_5XX)
    <3>1. d = c
      BY <2>2, <2>5
    <3> QED BY <2>1, <3>1 DEF HistoryOK, InWindow, d, g
  <2> QED BY <2>4, <2>5
<1> QED BY <1>1, <1>2

(* The entry of the model an operation wrote.                              *)
LEMMA EntryWritten ==
    ASSUME TypeOK, NEW m \in Model, NEW b \in ModelBreaker, Put(m, b)
    PROVE  Entry(m)' = b /\ breakers'[m] = b
BY BreakerConstants DEF TypeOK, Put, Entry

(* The history leaves the breaker alone.                                   *)
LEMMA HistorySpec == HSpec => Spec
<1>1. HInit => Init
  BY DEF HInit
<1>2. [HNext]_hvars => [Next]_vars
  BY DEF HNext, HFail, HTick, Next, hvars, vars
<1> QED BY <1>1, <1>2, PTL DEF HSpec, Spec

LEMMA HistoryStart == HInit => BurstOK
<1> SUFFICES ASSUME HInit, NEW m \in Model PROVE HistoryOK(Entry(m), burst[m])
  <2>1. <<>> \in Ages
    BY EmptySeq DEF Ages
  <2> QED BY <2>1 DEF HInit, BurstOK
<1>1. Entry(m) = NewBreaker /\ burst[m] = <<>>
  BY DEF HInit, Init, Entry
<1>2. <<>> \in Ages /\ Len(<<>>) = 0
  BY EmptySeq DEF Ages
<1> QED BY <1>1, <1>2, Numbers DEF HistoryOK, InWindow, NewBreaker

(* A step that writes one breaker, and the history of its model at most.   *)
LEMMA OneModelWritten ==
    ASSUME TypeOK, BurstOK, NEW m \in Model, NEW b \in ModelBreaker, Put(m, b), NEW h,
           HistoryOK(b, h), burst' = [burst EXCEPT ![m] = h]
    PROVE  /\ BurstOK'
           /\ \A n \in Model \ {m} : Entry(n)' = Entry(n) /\ breakers'[n] = breakers[n]
           /\ Entry(m)' = b /\ breakers'[m] = b /\ burst'[m] = h
<1>1. /\ burst' \in [Model -> Ages] /\ burst'[m] = h
      /\ \A n \in Model \ {m} : burst'[n] = burst[n] /\ breakers'[n] = breakers[n]
  BY DEF BurstOK, Put, TypeOK, HistoryOK
<1>2. Entry(m)' = b /\ breakers'[m] = b
  BY EntryWritten
<1>3. ASSUME NEW n \in Model \ {m} PROVE Entry(n)' = Entry(n)
  BY <1>1 DEF Entry
<1>4. ASSUME NEW n \in Model PROVE HistoryOK(Entry(n)', burst'[n])
  <2>1. CASE n = m
    BY <1>1, <1>2, <2>1
  <2>2. CASE n # m
    <3>1. HistoryOK(Entry(n), burst[n])
      BY DEF BurstOK
    <3>2. Entry(n)' = Entry(n) /\ burst'[n] = burst[n]
      BY <1>1, <1>3, <2>2
    <3> QED BY <3>1, <3>2
  <2> QED BY <2>1, <2>2
<1>5. BurstOK'
  BY <1>1, <1>4 DEF BurstOK, HistoryOK, InWindow
<1> QED BY <1>1, <1>2, <1>3, <1>5

(* A breaker that a step takes from closed to open does so on a burst.     *)
Trips(m) == Entry(m).state = "Closed" /\ breakers'[m] # NoEntry /\ breakers'[m].state = "Open"
OnBurst(m) == /\ Len(burst'[m]) = FAILURE_THRESHOLD_5XX
              /\ \A i \in DOMAIN burst'[m] : burst'[m][i] <= WINDOW_DURATION

(* A breaker nobody writes does not trip.                                  *)
LEMMA UntouchedStays ==
    ASSUME NEW m \in Model, breakers'[m] = breakers[m]
    PROVE  ~Trips(m)
BY DEF Trips, Entry

(* Every step keeps the history, and trips a breaker only on a burst.      *)
LEMMA HistoryStep ==
    ASSUME TypeOK, BreakersConsistent, BurstOK, [HNext]_hvars
    PROVE  BurstOK' /\ \A n \in Model : Trips(n) => OnBurst(n)
<1> DEFINE Goal == BurstOK' /\ \A n \in Model : Trips(n) => OnBurst(n)
<1>0. ASSUME NEW m \in Model
      PROVE  /\ HistoryOK(Entry(m), burst[m]) /\ Entry(m) \in ModelBreaker
             /\ Consistent(Entry(m)) /\ burst = [burst EXCEPT ![m] = burst[m]]
  BY EntryType, EntryConsistent DEF BurstOK
<1>1. ASSUME NEW r \in Req, CanRequest(r), UNCHANGED burst PROVE Goal
  <2> DEFINE m == ModelOf[r]
             b == AfterAdmission(Entry(m))
  <2>1. m \in Model /\ Admits(Entry(m)) /\ Put(m, b)
    BY <1>1, BreakerConstants DEF CanRequest
  <2>2. b \in ModelBreaker /\ HistoryOK(b, burst[m])
    BY <1>0, <2>1, AdmissionKeeps, AdmissionKeepsHistory
  <2>3. b.state # "Open" \/ b = Entry(m)
    BY <1>0, <2>1 DEF AfterAdmission, ModelBreaker, State
  <2> HIDE DEF m, b
  <2>4. /\ BurstOK' /\ breakers'[m] = b
        /\ \A n \in Model \ {m} : breakers'[n] = breakers[n]
    BY <1>0, <1>1, <2>1, <2>2, OneModelWritten
  <2> QED BY <2>3, <2>4, UntouchedStays DEF Trips
<1>2. ASSUME NEW m \in Model, Put(m, AfterSuccess(Entry(m))), UNCHANGED burst PROVE Goal
  <2> DEFINE b == AfterSuccess(Entry(m))
  <2>1. b \in ModelBreaker /\ HistoryOK(b, burst[m])
    BY <1>0, SuccessKeeps, SuccessKeepsHistory
  <2>2. b.state # "Open" \/ b = Entry(m)
    BY <1>0 DEF AfterSuccess, ModelBreaker, State
  <2> HIDE DEF b
  <2>3. /\ BurstOK' /\ breakers'[m] = b
        /\ \A n \in Model \ {m} : breakers'[n] = breakers[n]
    BY <1>0, <1>2, <2>1, OneModelWritten DEF b
  <2> QED BY <2>2, <2>3, UntouchedStays DEF Trips
<1>3. ASSUME NEW r \in Req, NEW s \in FailStatus, HFail(r, s) PROVE Goal
  <2> DEFINE m == ModelOf[r]
             e == Entry(m)
             b == AfterFailure(e, s)
             h == IF s = "s5xx" /\ e.state = "Closed" THEN WithFailure(burst[m]) ELSE burst[m]
  <2>1. m \in Model /\ Put(m, b)
    BY <1>3, BreakerConstants DEF HFail, RecordFailure
  <2>2. burst' = [burst EXCEPT ![m] = h]
    BY <1>0, <1>3, <2>1 DEF HFail
  <2>3. /\ b \in ModelBreaker /\ HistoryOK(b, h)
        /\ e.state = "Closed" /\ b.state = "Open"
              => /\ Len(h) = FAILURE_THRESHOLD_5XX
                 /\ \A i \in 1 .. Len(h) : h[i] <= WINDOW_DURATION
    BY <1>0, <2>1, FailureKeeps, FailureKeepsHistory
  <2>4. h \in Ages
    BY <2>3 DEF HistoryOK
  <2> HIDE DEF m, b, h
  <2>5. /\ BurstOK' /\ breakers'[m] = b /\ burst'[m] = h
        /\ \A n \in Model \ {m} : breakers'[n] = breakers[n]
    BY <2>1, <2>2, <2>3, OneModelWritten
  <2>6. Trips(m) => OnBurst(m)
    BY <2>3, <2>4, <2>5, AgesType DEF Trips, OnBurst
  <2> QED BY <2>5, <2>6, UntouchedStays
<1>4. ASSUME breakers' = breakers, burst' = burst PROVE Goal
  BY <1>4, UntouchedStays DEF BurstOK, Entry, HistoryOK, InWindow
<1>5. CASE HTick
  <2>1. ASSUME NEW n \in Model PROVE HistoryOK(Entry(n)', burst'[n]) /\ ~Trips(n)
    <3>1. burst'[n] = Older(burst[n])
      BY <1>5 DEF HTick
    <3>2. CASE breakers[n] = NoEntry
      <4>1. breakers'[n] = NoEntry /\ Entry(n)' = NewBreaker /\ Entry(n) = NewBreaker
        BY <1>5, <3>2 DEF HTick, Tick, Entry
      <4>2. burst[n] \in Ages /\ Len(burst[n]) <= FAILURE_THRESHOLD_5XX
        BY <1>0 DEF HistoryOK
      <4>3. Older(burst[n]) \in Ages /\ Len(Older(burst[n])) = Len(burst[n])
            /\ Len(burst[n]) \in Nat
        BY <4>2, HistoryAges, AgesType
      <4>4. NewBreaker.fail5xx = 0
        BY DEF NewBreaker
      <4>5. InWindow(NewBreaker, Older(burst[n]))
        BY <4>3, <4>4 DEF InWindow
      <4> QED BY <3>1, <4>1, <4>2, <4>3, <4>5 DEF HistoryOK, Trips
    <3>3. CASE breakers[n] # NoEntry
      <4>1. Entry(n) = breakers[n] /\ breakers'[n] = Aged(Entry(n))
        BY <1>5, <3>3 DEF HTick, Tick, Entry
      <4>2. /\ Aged(Entry(n)) \in ModelBreaker /\ Aged(Entry(n)).state = Entry(n).state
            /\ HistoryOK(Aged(Entry(n)), Older(burst[n]))
        BY <1>0, AgingKeeps, AgingKeepsHistory
      <4>3. Entry(n)' = Aged(Entry(n))
        BY <4>1, <4>2, BreakerConstants DEF Entry
      <4> QED BY <3>1, <4>1, <4>2, <4>3 DEF Trips
    <3> QED BY <3>2, <3>3
  <2>2. burst' \in [Model -> Ages]
    BY <1>5, <2>1 DEF HTick, HistoryOK
  <2> QED BY <2>1, <2>2 DEF BurstOK, HistoryOK, InWindow
<1>6. ASSUME NEW r \in Req, RecordSuccess(r), UNCHANGED burst PROVE Goal
  BY <1>2, <1>6, BreakerConstants DEF RecordSuccess
<1>7. ASSUME NEW m \in Model, ForeignSuccess(m), UNCHANGED burst PROVE Goal
  <2>1. Entry(m) = breakers[m]
    BY <1>7 DEF ForeignSuccess, Entry
  <2> QED BY <1>2, <1>7, <2>1 DEF ForeignSuccess
<1>8. ASSUME NEW r \in Req, Abandon(r), UNCHANGED burst PROVE Goal
  BY <1>4, <1>8 DEF Abandon
<1>9. CASE UNCHANGED hvars
  BY <1>4, <1>9 DEF hvars, vars
<1> QED BY <1>1, <1>3, <1>5, <1>6, <1>7, <1>8, <1>9 DEF HNext

(* A closed breaker trips only when its last FAILURE_THRESHOLD_5XX server  *)
(* errors all fell into one counting window, whatever order outcomes,      *)
(* probes and time come in (record_failure with the lazy window reset).    *)
THEOREM TripsOnlyOnBurstAlways == HSpec => TripsOnlyOnBurst
<1>1. HInit => BurstOK
  BY HistoryStart
<1>2. TypeOK /\ BreakersConsistent /\ BurstOK /\ [HNext]_hvars => BurstOK'
  BY HistoryStep
<1>3. TypeOK /\ BreakersConsistent /\ BurstOK /\ [HNext]_hvars
      => [\A m \in Model : Trips(m) => OnBurst(m)]_hvars
  BY HistoryStep
<1>4. HSpec => [][\A m \in Model : Trips(m) => OnBurst(m)]_hvars
  BY <1>1, <1>2, <1>3, HistorySpec, TypeCorrect, ConsistentAlways, PTL DEF HSpec
<1> QED BY <1>4 DEF TripsOnlyOnBurst, Trips, OnBurst
=============================================================================

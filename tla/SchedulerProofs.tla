-------------------------- MODULE SchedulerProofs --------------------------
(***************************************************************************)
(* Proofs about the key scheduler.                                         *)
(*                                                                         *)
(* KeyBucket: what holds of a key's bucket for any number of concurrent    *)
(* attempts, any cooldowns and limits and any response-time scores.        *)
(*                                                                         *)
(* KeyPool: how stale the keys can be that selections take, for any keys,  *)
(* any number of selections and any lengths of time.                       *)
(***************************************************************************)
EXTENDS MCKeyBucket, KeyPool, FiniteSetTheorems, TLAPS

(***************************************************************************)
(* KeyBucket.                                                              *)
(***************************************************************************)

(* Outcomes and requests of a bucket, and its score, for one bucket.       *)
Counted(b) == b.total_success + b.total_429 + b.total_5xx <= b.total_requests
Floored(b) == b.health_num >= 20 * b.health_den

-----------------------------------------------------------------------------
(* The operations on one bucket.                                           *)

(* A fresh bucket is well-typed, has counted nothing and has full health.  *)
LEMMA DefaultGood ==
    DefaultBucket \in BucketState /\ Counted(DefaultBucket) /\ Floored(DefaultBucket)
<1>1. STALE_AGE + 1 \in 0 .. STALE_AGE + 1 /\ SLIDE_WINDOW + 1 \in 0 .. SLIDE_WINDOW + 1
  BY BucketConstants
<1>2. DefaultBucket \in BucketState
  BY <1>1 DEF DefaultBucket, BucketState
<1> QED BY <1>2 DEF DefaultBucket, Counted, Floored

(* Counting a request adds one to total_requests and to no outcome, with   *)
(* or without the reset of the window.                                     *)
LEMMA CountRequestAdds ==
    ASSUME NEW b \in BucketState
    PROVE  /\ CountRequest(b) \in BucketState
           /\ CountRequest(b).total_requests = b.total_requests + 1
           /\ CountRequest(b).total_success = b.total_success
           /\ CountRequest(b).total_429 = b.total_429
           /\ CountRequest(b).total_5xx = b.total_5xx
<1> DEFINE c == [b EXCEPT !.total_requests = @ + 1, !.window_req = @ + 1]
<1>1. 0 \in 0 .. SLIDE_WINDOW + 1
  BY BucketConstants
<1>2. /\ c.total_requests = b.total_requests + 1 /\ c.total_success = b.total_success
      /\ c.total_429 = b.total_429 /\ c.total_5xx = b.total_5xx
  BY DEF BucketState
<1>3. c \in BucketState
  <2>1. b.total_requests + 1 \in Nat /\ b.window_req + 1 \in Nat
    BY DEF BucketState
  <2> QED BY <2>1 DEF BucketState
<1> HIDE DEF c
<1>4. CASE c.window_age > SLIDE_WINDOW
  <2> DEFINE d == [c EXCEPT !.window_429 = 0, !.window_req = 0, !.window_age = 0]
  <2>1. d \in BucketState
    BY <1>1, <1>3 DEF BucketState
  <2>2. /\ d.total_requests = c.total_requests /\ d.total_success = c.total_success
        /\ d.total_429 = c.total_429 /\ d.total_5xx = c.total_5xx
    BY <1>3 DEF BucketState
  <2>3. CountRequest(b) = d
    BY <1>4 DEF CountRequest, c
  <2> HIDE DEF d
  <2> QED BY <1>2, <2>1, <2>2, <2>3
<1>5. CASE ~(c.window_age > SLIDE_WINDOW)
  <2>1. CountRequest(b) = c
    BY <1>5 DEF CountRequest, c
  <2> QED BY <1>2, <1>3, <2>1
<1> QED BY <1>4, <1>5

(* The cooldown record_response sets is a duration.                        *)
LEMMA CooldownType ==
    ASSUME NEW n \in Nat
    PROVE  Cooldown429(n) \in Nat /\ Cooldown403(n + 1) \in Nat
<1>1. COOLDOWN_429 \in [1 .. 3 -> Nat] /\ COOLDOWN_403 \in [1 .. 5 -> Nat]
  BY BucketConstants
<1>2. (IF n >= LEVEL3_THRESHOLD THEN 3 ELSE IF n >= LEVEL2_THRESHOLD THEN 2 ELSE 1) \in 1 .. 3
  OBVIOUS
<1>3. (IF n + 1 < 5 THEN n + 1 ELSE 5) \in 1 .. 5
  OBVIOUS
<1> QED BY <1>1, <1>2, <1>3 DEF Cooldown429, Cooldown403

(* An outcome adds at most one to the outcomes counted and leaves          *)
(* total_requests alone.                                                   *)
LEMMA OutcomeAdds ==
    ASSUME NEW b \in BucketState, NEW s \in FailStatus \cup {"ok"}
    PROVE  /\ Outcome(b, s) \in BucketState
           /\ Outcome(b, s).total_requests = b.total_requests
           /\ Outcome(b, s).total_success + Outcome(b, s).total_429 + Outcome(b, s).total_5xx
                 <= b.total_success + b.total_429 + b.total_5xx + 1
<1>1. CASE s = "ok"
  <2>1. Outcome(b, s) = [b EXCEPT !.total_success = @ + 1]
    BY <1>1 DEF Outcome
  <2> QED BY <2>1 DEF BucketState
<1>2. CASE s = "s429"
  <2> DEFINE d == Cooldown429(b.window_429 + 1)
             a == [b EXCEPT !.total_429 = @ + 1, !.window_429 = @ + 1, !.cooldown_left = d]
  <2>1. Outcome(b, s) = a
    BY <1>2 DEF Outcome, Punish
  <2>2. d \in Nat /\ b.total_429 + 1 \in Nat /\ b.window_429 + 1 \in Nat
    BY CooldownType DEF BucketState
  <2> HIDE DEF d
  <2>3. a \in BucketState
    BY <2>2 DEF BucketState
  <2>4. /\ a.total_requests = b.total_requests /\ a.total_429 = b.total_429 + 1
        /\ a.total_success = b.total_success /\ a.total_5xx = b.total_5xx
    BY DEF BucketState
  <2>5. b.total_429 \in Nat /\ b.total_success \in Nat /\ b.total_5xx \in Nat
    BY DEF BucketState
  <2> HIDE DEF a
  <2> QED BY <2>1, <2>3, <2>4, <2>5
<1>3. CASE s = "s403"
  <2>1. Outcome(b, s) = [b EXCEPT !.cooldown_left = Cooldown403(b.total_429 + b.total_5xx + 1)]
    BY <1>3 DEF Outcome, Punish
  <2>2. Cooldown403(b.total_429 + b.total_5xx + 1) \in Nat
    <3>1. b.total_429 + b.total_5xx \in Nat
      BY DEF BucketState
    <3> QED BY <3>1, CooldownType
  <2> QED BY <2>1, <2>2 DEF BucketState
<1>4. CASE s = "s5xx"
  <2> DEFINE a == [b EXCEPT !.total_5xx = @ + 1, !.cooldown_left = COOLDOWN_5XX]
  <2>1. Outcome(b, s) = a
    BY <1>4 DEF Outcome, Punish
  <2>2. COOLDOWN_5XX \in Nat /\ b.total_5xx + 1 \in Nat
    BY BucketConstants DEF BucketState
  <2>3. a \in BucketState
    BY <2>2 DEF BucketState
  <2>4. /\ a.total_requests = b.total_requests /\ a.total_5xx = b.total_5xx + 1
        /\ a.total_success = b.total_success /\ a.total_429 = b.total_429
    BY DEF BucketState
  <2>5. b.total_429 \in Nat /\ b.total_success \in Nat /\ b.total_5xx \in Nat
    BY DEF BucketState
  <2> HIDE DEF a
  <2> QED BY <2>1, <2>3, <2>4, <2>5
<1>5. CASE s \in {"conn", "s4xx"}
  <2>1. PICK d \in {COOLDOWN_CONN_ERR, COOLDOWN_4XX} :
            Outcome(b, s) = [b EXCEPT !.cooldown_left = d]
    BY <1>5 DEF Outcome, Punish
  <2>2. d \in Nat
    BY BucketConstants
  <2> QED BY <2>1, <2>2 DEF BucketState
<1> QED BY <1>1, <1>2, <1>3, <1>4, <1>5 DEF FailStatus

(* update_health on a bucket that has counted a request: the score is      *)
(* well-defined and at least 20.                                           *)
LEMMA UpdateHealthFloor ==
    ASSUME NEW b \in BucketState, NEW rt \in RT_SCORES, b.total_requests >= 1
    PROVE  /\ UpdateHealth(b, rt) \in BucketState
           /\ Counted(b) => Counted(UpdateHealth(b, rt)) /\ Floored(UpdateHealth(b, rt))
<1> DEFINE u == UpdateHealth(b, rt)
           n == b.total_requests
<1>1. /\ n \in Nat /\ n >= 1
      /\ b.total_success \in Nat /\ b.total_429 \in Nat /\ b.total_5xx \in Nat
  BY DEF BucketState
<1>2. rt \in Nat
  BY BucketConstants
<1>3. rt * n \in Nat
  BY <1>1, <1>2
<1>4. /\ u.health_den = 5 * n
      /\ u.health_num = 200 * b.total_success + rt * n
                        + 100 * (n - b.total_429) + 100 * (n - b.total_5xx)
      /\ u.total_requests = n /\ u.total_success = b.total_success
      /\ u.total_429 = b.total_429 /\ u.total_5xx = b.total_5xx
  BY DEF UpdateHealth, BucketState
<1>5. u \in BucketState
  <2>1. 5 * n \in Nat \ {0}
    BY <1>1
  <2>2. 200 * b.total_success + rt * n
            + 100 * (n - b.total_429) + 100 * (n - b.total_5xx) \in Int
    BY <1>1, <1>3
  <2> QED BY <2>1, <2>2 DEF UpdateHealth, BucketState
<1> HIDE DEF u
<1>6. ASSUME Counted(b) PROVE Counted(u) /\ Floored(u)
  <2>1. b.total_success + b.total_429 + b.total_5xx <= n
    BY <1>6 DEF Counted
  <2> HIDE DEF n
  <2>2. \A p \in Nat : 200 * b.total_success + p + 100 * (n - b.total_429)
                         + 100 * (n - b.total_5xx) >= 100 * n
    BY <1>1, <2>1
  <2>3. u.health_num >= 100 * n
    BY <1>3, <1>4, <2>2
  <2>4. 20 * u.health_den = 100 * n
    BY <1>1, <1>4
  <2> QED BY <1>4, <2>1, <2>3, <2>4 DEF Counted, Floored
<1> QED BY <1>5, <1>6 DEF u

(* record_response as a whole.                                             *)
LEMMA RecordResponseGood ==
    ASSUME NEW b \in BucketState, NEW s \in FailStatus \cup {"ok"}, NEW rt \in RT_SCORES
    PROVE  LET a == UpdateHealth(Outcome(CountRequest(b), s), rt)
           IN  a \in BucketState /\ (Counted(b) => Counted(a) /\ Floored(a))
<1> DEFINE c == CountRequest(b)
           o == Outcome(c, s)
<1>1. /\ c \in BucketState /\ c.total_requests = b.total_requests + 1
      /\ c.total_success = b.total_success /\ c.total_429 = b.total_429
      /\ c.total_5xx = b.total_5xx
  BY CountRequestAdds
<1> HIDE DEF c
<1>2. /\ o \in BucketState /\ o.total_requests = c.total_requests
      /\ o.total_success + o.total_429 + o.total_5xx
            <= c.total_success + c.total_429 + c.total_5xx + 1
  BY <1>1, OutcomeAdds
<1> HIDE DEF o
<1>3. /\ b.total_requests \in Nat /\ b.total_success \in Nat
      /\ b.total_429 \in Nat /\ b.total_5xx \in Nat
      /\ o.total_success \in Nat /\ o.total_429 \in Nat /\ o.total_5xx \in Nat
  BY <1>2 DEF BucketState
<1>4. o.total_requests >= 1
  BY <1>1, <1>2, <1>3
<1>5. Counted(b) => Counted(o)
  BY <1>1, <1>2, <1>3 DEF Counted
<1> QED BY <1>2, <1>4, <1>5, UpdateHealthFloor DEF o, c

(* b and c agree on what record_response accounts for.                     *)
SameAccount(b, c) ==
    /\ c.health_num = b.health_num /\ c.health_den = b.health_den
    /\ c.total_requests = b.total_requests /\ c.total_success = b.total_success
    /\ c.total_429 = b.total_429 /\ c.total_5xx = b.total_5xx

(* Selecting, beginning and ending requests and the passing of time leave  *)
(* the account alone.                                                      *)
LEMMA TouchKeeps ==
    ASSUME NEW b \in BucketState, NEW age \in {0, b.last_used_age},
           NEW n \in {b.inflight, b.inflight + 1}
    PROVE  LET c == [b EXCEPT !.last_used_age = age, !.inflight = n]
           IN  c \in BucketState /\ SameAccount(b, c)
<1>1. age \in 0 .. STALE_AGE + 1 /\ n \in Nat
  BY BucketConstants DEF BucketState
<1>2. [b EXCEPT !.last_used_age = age, !.inflight = n] \in BucketState
  BY <1>1 DEF BucketState
<1>3. SameAccount(b, [b EXCEPT !.last_used_age = age, !.inflight = n])
  BY DEF SameAccount, BucketState
<1> QED BY <1>2, <1>3

(* end_request's decrement keeps the account.                              *)
LEMMA ReleaseKeeps ==
    ASSUME NEW b \in BucketState, b.inflight > 0
    PROVE  LET c == [b EXCEPT !.inflight = @ - 1]
           IN  c \in BucketState /\ SameAccount(b, c)
<1>1. b.inflight - 1 \in Nat
  BY DEF BucketState
<1>2. [b EXCEPT !.inflight = @ - 1] \in BucketState
  BY <1>1 DEF BucketState
<1>3. SameAccount(b, [b EXCEPT !.inflight = @ - 1])
  BY DEF SameAccount, BucketState
<1> QED BY <1>2, <1>3

(* The passing of time keeps the account.                                  *)
LEMMA AgingKeeps ==
    ASSUME NEW b \in BucketState
    PROVE  Aged(b) \in BucketState /\ SameAccount(b, Aged(b))
<1>1. /\ b.last_used_age \in 0 .. STALE_AGE + 1 /\ b.window_age \in 0 .. SLIDE_WINDOW + 1
      /\ b.cooldown_left \in Nat
  BY DEF BucketState
<1>2. /\ (IF b.last_used_age > STALE_AGE THEN b.last_used_age ELSE b.last_used_age + 1)
             \in 0 .. STALE_AGE + 1
      /\ (IF b.window_age > SLIDE_WINDOW THEN b.window_age ELSE b.window_age + 1)
             \in 0 .. SLIDE_WINDOW + 1
      /\ (IF b.cooldown_left > 0 THEN b.cooldown_left - 1 ELSE 0) \in Nat
  BY <1>1, BucketConstants
<1>3. Aged(b) \in BucketState
  BY <1>2 DEF Aged, BucketState
<1>4. SameAccount(b, Aged(b))
  BY DEF Aged, SameAccount, BucketState
<1> QED BY <1>3, <1>4

-----------------------------------------------------------------------------
(* Every step, seen from the bucket.                                       *)

(* One step leaves the bucket alone, drops it, records a response in it,   *)
(* or changes something other than its account.                            *)
BucketStep ==
    \/ UNCHANGED bucket
    \/ bucket' = NoBucket
    \/ \E s \in FailStatus \cup {"ok"} : RecordResponse(s)
    \/ bucket' \in BucketState /\ SameAccount(Current, bucket')

(* The bucket an operation works on is well-typed.                         *)
LEMMA CurrentType ==
    ASSUME TypeOK
    PROVE  Current \in BucketState
BY DefaultGood DEF Current, TypeOK

(* end_request, seen from the bucket.                                      *)
LEMMA EndRequestStep ==
    ASSUME TypeOK, EndRequest
    PROVE  BucketStep
<1>1. CASE bucket # NoBucket /\ bucket.inflight > 0
  BY <1>1, ReleaseKeeps DEF EndRequest, BucketStep, TypeOK, Current
<1>2. CASE ~(bucket # NoBucket /\ bucket.inflight > 0)
  BY <1>2 DEF EndRequest, BucketStep
<1> QED BY <1>1, <1>2

(* Every action of the specification is one of the four.                   *)
LEMMA NextBucketStep ==
    ASSUME TypeOK, [Next]_vars
    PROVE  BucketStep
<1>1. ASSUME NEW r \in Req, NEW kind \in Kinds, Choose(r, kind) PROVE BucketStep
  BY <1>1 DEF Choose, BucketStep
<1>2. ASSUME NEW r \in Req, Commit(r) PROVE BucketStep
  <2> DEFINE b == Current
             age == IF job[r].kind \in PoolKind THEN 0 ELSE b.last_used_age
             n == IF Counts(r) THEN b.inflight + 1 ELSE b.inflight
  <2>1. bucket' = [b EXCEPT !.last_used_age = age, !.inflight = n]
    BY <1>2 DEF Commit
  <2>2. age \in {0, b.last_used_age} /\ n \in {b.inflight, b.inflight + 1}
    OBVIOUS
  <2>3. b \in BucketState
    BY CurrentType
  <2> HIDE DEF b, age, n
  <2>4. bucket' \in BucketState /\ SameAccount(b, bucket')
    BY <2>1, <2>2, <2>3, TouchKeeps
  <2> QED BY <2>4 DEF BucketStep, b
<1>3. ASSUME NEW r \in Req, Unusable(r) PROVE BucketStep
  BY <1>3, EndRequestStep DEF Unusable, BucketStep
<1>4. ASSUME NEW r \in Req, Succeed(r) PROVE BucketStep
  BY <1>4 DEF Succeed, BucketStep
<1>5. ASSUME NEW r \in Req, NEW s \in FailStatus, Fail(r, s) PROVE BucketStep
  BY <1>5 DEF Fail, BucketStep
<1>6. ASSUME NEW r \in Req, Finish(r) PROVE BucketStep
  BY <1>6, EndRequestStep DEF Finish
<1>7. ASSUME NEW r \in Req, Cancel(r) PROVE BucketStep
  BY <1>7 DEF Cancel, BucketStep
<1>8. CASE SweepCollect \/ SweepRemove
  BY <1>8 DEF SweepCollect, SweepRemove, BucketStep
<1>9. CASE Tick
  BY <1>9, AgingKeeps DEF Tick, TypeOK, BucketStep, Current
<1>10. CASE UNCHANGED vars
  BY <1>10 DEF vars, BucketStep
<1> QED
  BY <1>1, <1>2, <1>3, <1>4, <1>5, <1>6, <1>7, <1>8, <1>9, <1>10 DEF Next

-----------------------------------------------------------------------------
(* Every step keeps the types.                                             *)
LEMMA TypeStep == TypeOK /\ [Next]_vars => TypeOK'
<1> SUFFICES ASSUME TypeOK, [Next]_vars PROVE TypeOK'
  OBVIOUS
<1>1. bucket' \in BucketState \cup {NoBucket}
  <2>1. CASE \E s \in FailStatus \cup {"ok"} : RecordResponse(s)
    BY <2>1, CurrentType, RecordResponseGood DEF RecordResponse
  <2> QED BY <2>1, NextBucketStep DEF BucketStep, TypeOK
<1>2. job' \in [Req -> [pc : Pc, kind : Kind \cup {"none"}]]
  <2> DEFINE J == [pc : Pc, kind : Kind \cup {"none"}]
  <2>1. job \in [Req -> J] /\ Idle \in J
    BY DEF TypeOK, Idle, Pc
  <2>2. ASSUME NEW r \in Req, NEW pc \in Pc, Goto(r, pc) PROVE job' \in [Req -> J]
    <3>1. [job[r] EXCEPT !.pc = pc] \in J
      BY <2>1
    <3> QED BY <2>1, <2>2, <3>1 DEF Goto
  <2>3. ASSUME NEW r \in Req, NEW kind \in Kinds, Choose(r, kind) PROVE job' \in [Req -> J]
    <3>1. [pc |-> "chosen", kind |-> kind] \in J
      BY BucketConstants DEF Pc
    <3> QED BY <2>1, <2>3, <3>1 DEF Choose
  <2>4. ASSUME NEW r \in Req,
               Commit(r) \/ Unusable(r) \/ Succeed(r) \/ Finish(r) \/ Cancel(r)
        PROVE  \E pc \in Pc : Goto(r, pc)
    BY <2>4 DEF Commit, Unusable, Succeed, Finish, Cancel, Pc
  <2>5. ASSUME NEW r \in Req, NEW s \in FailStatus, Fail(r, s)
        PROVE  \E pc \in Pc : Goto(r, pc)
    BY <2>5 DEF Fail, Pc
  <2>6. CASE SweepCollect \/ SweepRemove \/ Tick \/ UNCHANGED vars
    BY <2>1, <2>6 DEF SweepCollect, SweepRemove, Tick, vars
  <2> QED BY <2>2, <2>3, <2>4, <2>5, <2>6 DEF Next
<1>3. collected' \in BOOLEAN
  BY DEF TypeOK, Next, vars, Choose, Commit, Unusable, Succeed, Finish, Cancel, Fail,
         SweepCollect, SweepRemove, Tick
<1> QED BY <1>1, <1>2, <1>3 DEF TypeOK

(* The bucket, the attempts and the sweep are well-typed in every          *)
(* reachable state; in particular the score is always defined and the      *)
(* in-flight counter (a u64 in the code) never goes below zero.            *)
THEOREM TypeCorrect == Spec => []TypeOK
<1>1. Init => TypeOK
  <2>1. Idle \in [pc : Pc, kind : Kind \cup {"none"}]
    BY DEF Idle, Pc
  <2> QED BY <2>1 DEF Init, TypeOK
<1>2. TypeOK /\ [Next]_vars => TypeOK'
  BY TypeStep
<1> QED BY <1>1, <1>2, PTL DEF Spec

(* A bucket's outcomes never outnumber its requests, and its score never   *)
(* falls below 20: the inductive invariant behind the two theorems.        *)
BucketGood == bucket # NoBucket => Counted(bucket) /\ Floored(bucket)

(* The account of a bucket stays good in every step.                       *)
LEMMA GoodStep ==
    ASSUME TypeOK, BucketGood, [Next]_vars
    PROVE  BucketGood'
<1>1. Current \in BucketState /\ Counted(Current) /\ Floored(Current)
  BY CurrentType, DefaultGood DEF Current, BucketGood
<1>2. CASE UNCHANGED bucket \/ bucket' = NoBucket
  BY <1>2 DEF BucketGood
<1>3. CASE \E s \in FailStatus \cup {"ok"} : RecordResponse(s)
  <2>1. PICK s \in FailStatus \cup {"ok"}, rt \in RT_SCORES :
           bucket' = UpdateHealth(Outcome(CountRequest(Current), s), rt)
    BY <1>3 DEF RecordResponse
  <2>2. Counted(bucket') /\ Floored(bucket')
    BY <1>1, <2>1, RecordResponseGood
  <2> QED BY <2>2 DEF BucketGood
<1>4. CASE SameAccount(Current, bucket')
  BY <1>1, <1>4 DEF SameAccount, Counted, Floored, BucketGood
<1> QED BY <1>2, <1>3, <1>4, NextBucketStep DEF BucketStep

(* Every bucket the scheduler can reach is good.                           *)
THEOREM GoodAlways == Spec => []BucketGood
<1>1. Init => BucketGood
  BY DEF Init, BucketGood
<1>2. TypeOK /\ BucketGood /\ [Next]_vars => BucketGood'
  BY GoodStep
<1> QED BY <1>1, <1>2, TypeCorrect, PTL DEF Spec

(* The outcomes record_response counts never outnumber the requests it     *)
(* counts, through window resets, sweeps and late responses.               *)
THEOREM CountersCorrect == Spec => []CountersConsistent
<1>1. BucketGood => CountersConsistent
  BY DEF BucketGood, Counted, CountersConsistent
<1> QED BY <1>1, GoodAlways, PTL

(* No history of failures brings a key's health score below 20, so the     *)
(* score filters at HEALTH_SCORE_MIN = 10 never exclude a key.             *)
THEOREM HealthFloorHolds == Spec => []HealthFloor
<1>1. BucketGood => HealthFloor
  BY DEF BucketGood, Floored, HealthFloor
<1> QED BY <1>1, GoodAlways, PTL

(* The fallback of select_key, which only asks for health, can return the  *)
(* key in every reachable state, however badly it has been doing.          *)
THEOREM FallbackTakesAnyKey == Spec => []Healthy(Current)
<1>1. TypeOK /\ HealthFloor => Healthy(Current)
  <2> SUFFICES ASSUME TypeOK, HealthFloor PROVE Healthy(Current)
    OBVIOUS
  <2>1. Current \in BucketState /\ Floored(Current)
    BY CurrentType, DefaultGood DEF Current, HealthFloor, Floored
  <2>2. Current.health_num \in Int /\ Current.health_den \in Nat
    BY <2>1 DEF BucketState
  <2> QED BY <2>1, <2>2 DEF Floored, Healthy, HEALTH_SCORE_MIN
<1> QED BY <1>1, TypeCorrect, HealthFloorHolds, PTL

-----------------------------------------------------------------------------
(* The in-flight count, with its history.                                  *)

(* Who comes to an end of an attempt has counted, except that multi-       *)
(* protocol streams end there too.  Without this a request that was never  *)
(* counted could be subtracted.                                            *)
Entitled ==
    \A r \in Req : At(r, {"body", "stream", "end"}) => Counts(r) \/ job[r].kind = "multi"

CountInv == TypeOK /\ Entitled /\ InflightExact

(* Recording a response and aging leave the in-flight count alone.         *)
LEMMA InflightUntouched ==
    ASSUME NEW b \in BucketState, NEW s \in FailStatus \cup {"ok"}, NEW rt \in RT_SCORES
    PROVE  /\ UpdateHealth(Outcome(CountRequest(b), s), rt).inflight = b.inflight
           /\ Aged(b).inflight = b.inflight
<1> DEFINE c == CountRequest(b)
           o == Outcome(c, s)
<1>1. c \in BucketState
  BY CountRequestAdds
<1>2. c.inflight = b.inflight
  <2> DEFINE d == [b EXCEPT !.total_requests = @ + 1, !.window_req = @ + 1]
             e == [d EXCEPT !.window_429 = 0, !.window_req = 0, !.window_age = 0]
  <2>1. d.inflight = b.inflight /\ e.inflight = b.inflight
    BY DEF BucketState
  <2>2. c \in {d, e}
    BY DEF CountRequest
  <2> QED BY <2>1, <2>2
<1> HIDE DEF c
<1>3. o \in BucketState
  BY <1>1, OutcomeAdds
<1>4. o.inflight = c.inflight
  <2>1. CASE s = "ok"
    <3>1. o = [c EXCEPT !.total_success = @ + 1]
      BY <2>1 DEF Outcome
    <3> QED BY <1>1, <3>1 DEF BucketState
  <2>2. CASE s # "ok"
    <3>1. o = Punish(c, s)
      BY <2>2 DEF Outcome
    <3> QED BY <1>1, <2>2, <3>1 DEF Punish, FailStatus, BucketState
  <2> QED BY <2>1, <2>2
<1> HIDE DEF o
<1>5. UpdateHealth(o, rt).inflight = o.inflight
  BY <1>3 DEF UpdateHealth, BucketState
<1>6. Aged(b).inflight = b.inflight
  BY DEF Aged, BucketState
<1> QED BY <1>2, <1>4, <1>5, <1>6 DEF o, c

(* A set of attempts in flight has a size; entering and leaving it counts. *)
LEMMA InFlightSize ==
    /\ IsFiniteSet(InFlight) /\ Cardinality(InFlight) \in Nat
    /\ \A r \in Req : /\ r \notin InFlight =>
                            Cardinality(InFlight \cup {r}) = Cardinality(InFlight) + 1
                      /\ r \in InFlight =>
                            /\ Cardinality(InFlight \ {r}) = Cardinality(InFlight) - 1
                            /\ Cardinality(InFlight) > 0
<1>1. InFlight \in SUBSET Req
  BY DEF InFlight
<1>2. IsFiniteSet(InFlight) /\ Cardinality(InFlight) \in Nat
  BY <1>1, BucketConstants, FS_Subset, FS_CardinalityType
<1>3. ASSUME NEW r \in Req, r \notin InFlight
      PROVE  Cardinality(InFlight \cup {r}) = Cardinality(InFlight) + 1
  BY <1>2, <1>3, FS_AddElement
<1>4. ASSUME NEW r \in Req, r \in InFlight
      PROVE  /\ Cardinality(InFlight \ {r}) = Cardinality(InFlight) - 1
             /\ Cardinality(InFlight) > 0
  <2>1. Cardinality(InFlight \ {r}) = Cardinality(InFlight) - 1
    BY <1>2, <1>4, FS_RemoveElement
  <2>2. Cardinality(InFlight) # 0
    BY <1>2, <1>4, FS_EmptySet
  <2> QED BY <1>2, <2>1, <2>2
<1> QED BY <1>2, <1>3, <1>4

(* One attempt moves: the others stay in flight or out of it.              *)
LEMMA OneMoves ==
    ASSUME NEW r \in Req, \A q \in Req \ {r} : job'[q] = job[q]
    PROVE  InFlight' = IF (Counts(r) /\ At(r, {"out", "body", "stream", "end"}))'
                       THEN InFlight \cup {r} ELSE InFlight \ {r}
BY DEF InFlight, Counts, At

(* What Goto does to the attempt and leaves to the others.                 *)
LEMMA GotoFacts ==
    ASSUME TypeOK, NEW r \in Req, NEW pc \in Pc, Goto(r, pc)
    PROVE  /\ \A q \in Req \ {r} : job'[q] = job[q]
           /\ pc = "idle" => job'[r] = Idle
           /\ pc # "idle" => job'[r].pc = pc /\ job'[r].kind = job[r].kind
<1>1. job \in [Req -> [pc : Pc, kind : Kind \cup {"none"}]]
  BY DEF TypeOK
<1>2. [job[r] EXCEPT !.pc = pc].pc = pc /\ [job[r] EXCEPT !.pc = pc].kind = job[r].kind
  BY <1>1
<1> QED BY <1>1, <1>2 DEF Goto

(* An idle attempt is none of the counting ones.                           *)
LEMMA IdleUncounted == Idle.pc = "idle" /\ Idle.kind \notin Counting /\ Idle.kind # "multi"
BY DEF Idle, Counting

(* For the others everything stays as it was.                              *)
LEMMA OthersEntitled ==
    ASSUME Entitled, NEW r \in Req, \A q \in Req \ {r} : job'[q] = job[q],
           At(r, {"body", "stream", "end"})' => Counts(r)' \/ job'[r].kind = "multi"
    PROVE  Entitled'
BY DEF Entitled, At, Counts

(* begin_request for an attempt that counts, nothing for another.          *)
LEMMA CommitCounts ==
    ASSUME CountInv, NEW r \in Req, Commit(r), UNCHANGED drift
    PROVE  Entitled' /\ InflightExact'
<1>1. /\ \A q \in Req \ {r} : job'[q] = job[q]
      /\ job'[r].pc = "out" /\ job'[r].kind = job[r].kind /\ job[r].pc = "chosen"
  BY GotoFacts DEF Commit, Pc, CountInv, At
<1>2. r \notin InFlight
  BY <1>1 DEF InFlight, At
<1>3. InFlight' = IF Counts(r) THEN InFlight \cup {r} ELSE InFlight
  BY <1>1, <1>2, OneMoves DEF Counts, At
<1>4. Current'.inflight = IF Counts(r) THEN Current.inflight + 1 ELSE Current.inflight
  <2> DEFINE b == Current
             age == IF job[r].kind \in PoolKind THEN 0 ELSE b.last_used_age
             n == IF Counts(r) THEN b.inflight + 1 ELSE b.inflight
  <2>1. bucket' = [b EXCEPT !.last_used_age = age, !.inflight = n]
    BY DEF Commit
  <2>2. age \in {0, b.last_used_age} /\ n \in {b.inflight, b.inflight + 1}
    OBVIOUS
  <2>3. b \in BucketState
    BY CurrentType DEF CountInv
  <2>4. n = IF Counts(r) THEN Current.inflight + 1 ELSE Current.inflight
    OBVIOUS
  <2> HIDE DEF b, age, n
  <2>5. bucket' \in BucketState
    BY <2>1, <2>2, <2>3, TouchKeeps
  <2>6. Current' = bucket'
    BY <2>5, NoBucketAssumption DEF Current
  <2>7. bucket'.inflight = n
    BY <2>1, <2>3 DEF BucketState
  <2> QED BY <2>4, <2>6, <2>7
<1>5. Entitled'
  BY <1>1, OthersEntitled DEF CountInv, At
<1>6. Current.inflight = Cardinality(InFlight) => Current'.inflight = Cardinality(InFlight')
  BY <1>2, <1>3, <1>4, InFlightSize
<1> QED BY <1>5, <1>6 DEF CountInv, InflightExact

(* end_request for an attempt in flight.                                   *)
LEMMA ReleaseCounts ==
    ASSUME CountInv, NEW r \in Req, EndRequest, Goto(r, "idle"),
           Counts(r), At(r, {"out", "body", "stream", "end"}), ~drift
    PROVE  Current'.inflight = Cardinality(InFlight')
<1>1. job'[r] = Idle /\ \A q \in Req \ {r} : job'[q] = job[q]
  BY GotoFacts DEF CountInv, Pc
<1>2. r \in InFlight
  BY DEF InFlight
<1>3. InFlight' = InFlight \ {r}
  BY <1>1, IdleUncounted, OneMoves DEF Counts
<1>4. Current.inflight = Cardinality(InFlight) /\ Current.inflight > 0
  BY <1>2, InFlightSize DEF CountInv, InflightExact
<1>5. bucket # NoBucket /\ bucket \in BucketState /\ Current = bucket
  BY <1>4 DEF Current, DefaultBucket, CountInv, TypeOK
<1>6. bucket' = [bucket EXCEPT !.inflight = @ - 1] /\ bucket.inflight > 0
  BY <1>4, <1>5 DEF EndRequest
<1>7. bucket' \in BucketState
  BY <1>5, <1>6, ReleaseKeeps
<1>8. Current' = bucket'
  BY <1>7, NoBucketAssumption DEF Current
<1>9. bucket'.inflight = bucket.inflight - 1
  BY <1>5, <1>6 DEF BucketState
<1> QED BY <1>2, <1>3, <1>4, <1>5, <1>8, <1>9, InFlightSize

(* An attempt that does not count comes and goes unnoticed.                *)
LEMMA OthersUncounted ==
    ASSUME NEW r \in Req, ~Counts(r), ~Counts(r)', \A q \in Req \ {r} : job'[q] = job[q]
    PROVE  InFlight' = InFlight
BY OneMoves DEF InFlight

LEMMA UnusableCounts ==
    ASSUME CountInv, NEW r \in Req, Unusable(r), UNCHANGED drift
    PROVE  Entitled' /\ InflightExact'
<1>1. job'[r] = Idle /\ \A q \in Req \ {r} : job'[q] = job[q]
  BY GotoFacts DEF Unusable, CountInv, Pc
<1>2. Entitled'
  BY <1>1, IdleUncounted, OthersEntitled DEF CountInv, At
<1>3. CASE Counts(r)
  <2>1. At(r, {"out", "body", "stream", "end"}) /\ EndRequest /\ Goto(r, "idle")
    BY <1>3 DEF Unusable, At
  <2>2. ~drift => Current'.inflight = Cardinality(InFlight')
    BY <1>3, <2>1, ReleaseCounts
  <2> QED BY <1>2, <2>2 DEF InflightExact
<1>4. CASE ~Counts(r)
  <2>1. InFlight' = InFlight
    BY <1>1, <1>4, IdleUncounted, OthersUncounted DEF Counts
  <2>2. Current' = Current
    BY <1>4 DEF Unusable, Current
  <2> QED BY <1>2, <2>1, <2>2 DEF CountInv, InflightExact
<1> QED BY <1>3, <1>4

(* A response moves a counting attempt within those in flight.             *)
LEMMA ResponseCounts ==
    ASSUME CountInv, NEW r \in Req, NEW s \in FailStatus \cup {"ok"}, RecordResponse(s),
           At(r, {"out"}), NEW pc \in Pc, Goto(r, pc), UNCHANGED drift,
           IF Counts(r) THEN pc \in {"body", "stream", "end"}
           ELSE pc = "idle" \/ (pc = "stream" /\ job[r].kind = "multi")
    PROVE  Entitled' /\ InflightExact'
<1>1. /\ \A q \in Req \ {r} : job'[q] = job[q]
      /\ pc = "idle" => job'[r] = Idle
      /\ pc # "idle" => job'[r].pc = pc /\ job'[r].kind = job[r].kind
  BY GotoFacts DEF CountInv
<1>2. Entitled'
  <2>1. At(r, {"body", "stream", "end"})' => Counts(r)' \/ job'[r].kind = "multi"
    BY <1>1, IdleUncounted DEF At, Counts
  <2> QED BY <1>1, <2>1, OthersEntitled DEF CountInv
<1>3. InFlight' = InFlight
  <2>1. CASE Counts(r)
    <3>1. r \in InFlight /\ (Counts(r) /\ At(r, {"out", "body", "stream", "end"}))'
      BY <1>1, <2>1 DEF InFlight, At, Counts
    <3> QED BY <1>1, <3>1, OneMoves
  <2>2. CASE ~Counts(r)
    <3>1. ~Counts(r)'
      BY <1>1, <2>2, IdleUncounted DEF Counts
    <3> QED BY <1>1, <2>2, <3>1, OthersUncounted
  <2> QED BY <2>1, <2>2
<1>4. Current'.inflight = Current.inflight
  <2>1. PICK rt \in RT_SCORES : bucket' = UpdateHealth(Outcome(CountRequest(Current), s), rt)
    BY DEF RecordResponse
  <2>2. Current \in BucketState
    BY CurrentType DEF CountInv
  <2>3. bucket' \in BucketState /\ bucket'.inflight = Current.inflight
    BY <2>1, <2>2, RecordResponseGood, InflightUntouched
  <2> QED BY <2>3, NoBucketAssumption DEF Current
<1> QED BY <1>2, <1>3, <1>4 DEF CountInv, InflightExact

LEMMA FinishCounts ==
    ASSUME CountInv, NEW r \in Req, Finish(r), drift' = (drift \/ job[r].kind = "multi")
    PROVE  Entitled' /\ InflightExact'
<1>1. job'[r] = Idle /\ \A q \in Req \ {r} : job'[q] = job[q]
  BY GotoFacts DEF Finish, CountInv, Pc
<1>2. Entitled'
  BY <1>1, IdleUncounted, OthersEntitled DEF CountInv, At
<1>3. CASE ~drift /\ job[r].kind # "multi"
  <2>1. Counts(r)
    BY <1>3 DEF Finish, CountInv, Entitled
  <2> QED BY <1>2, <1>3, <2>1, ReleaseCounts DEF Finish, At, InflightExact
<1> QED BY <1>2, <1>3 DEF InflightExact

LEMMA CancelCounts ==
    ASSUME CountInv, NEW r \in Req, Cancel(r), drift' = (drift \/ Counts(r))
    PROVE  Entitled' /\ InflightExact'
<1>1. job'[r] = Idle /\ \A q \in Req \ {r} : job'[q] = job[q]
  BY GotoFacts DEF Cancel, CountInv, Pc
<1>2. Entitled'
  BY <1>1, IdleUncounted, OthersEntitled DEF CountInv, At
<1>3. CASE ~Counts(r)
  <2>1. InFlight' = InFlight
    BY <1>1, <1>3, IdleUncounted, OthersUncounted DEF Counts
  <2> QED BY <1>2, <1>3, <2>1 DEF Cancel, CountInv, InflightExact, Current
<1> QED BY <1>2, <1>3 DEF InflightExact

LEMMA ChooseCounts ==
    ASSUME CountInv, NEW r \in Req, NEW kind \in Kinds, Choose(r, kind), UNCHANGED drift
    PROVE  Entitled' /\ InflightExact'
<1>1. /\ \A q \in Req \ {r} : job'[q] = job[q]
      /\ job'[r].pc = "chosen" /\ job[r].pc = "idle"
  BY DEF Choose, At, CountInv, TypeOK
<1>2. Entitled'
  BY <1>1, OthersEntitled DEF CountInv, At
<1>3. InFlight' = InFlight
  BY <1>1, OneMoves DEF InFlight, At
<1> QED BY <1>2, <1>3 DEF Choose, CountInv, InflightExact, Current

(* The sweep and the clock.                                                *)
LEMMA BackgroundCounts ==
    ASSUME CountInv, \/ (SweepCollect \/ Tick) /\ UNCHANGED drift
                     \/ SweepRemove /\ drift' = (drift \/ InFlight # {})
                     \/ UNCHANGED hvars
    PROVE  Entitled' /\ InflightExact'
<1>1. UNCHANGED job
  BY DEF SweepCollect, Tick, SweepRemove, hvars, vars
<1>2. InFlight' = InFlight /\ Entitled'
  BY <1>1 DEF InFlight, CountInv, Entitled, At, Counts
<1>3. CASE UNCHANGED <<bucket, drift>>
  BY <1>2, <1>3 DEF CountInv, InflightExact, Current
<1>4. CASE Tick /\ UNCHANGED drift
  <2>1. bucket \in BucketState /\ Current = bucket /\ bucket' = Aged(bucket)
    BY <1>4 DEF Tick, CountInv, TypeOK, Current
  <2>2. Aged(bucket).inflight = bucket.inflight /\ Aged(bucket) \in BucketState
    <3>1. Aged(bucket).inflight = bucket.inflight
      BY <2>1 DEF Aged, BucketState
    <3> QED BY <2>1, <3>1, AgingKeeps
  <2>3. Current'.inflight = Current.inflight
    BY <2>1, <2>2, NoBucketAssumption DEF Current
  <2> QED BY <1>2, <1>4, <2>3 DEF CountInv, InflightExact
<1>5. CASE SweepRemove /\ drift' = (drift \/ InFlight # {})
  <2>1. Current'.inflight = 0
    BY <1>5 DEF SweepRemove, Current, DefaultBucket
  <2>2. CASE InFlight = {}
    BY <1>2, <2>1, <2>2, FS_EmptySet DEF InflightExact
  <2> QED BY <1>2, <1>5, <2>2 DEF InflightExact
<1> QED BY <1>3, <1>4, <1>5 DEF SweepCollect, hvars, vars

(* begin_request and end_request pair up on every path, retries, races     *)
(* with the sweep and late responses included: until a client disconnects, *)
(* a multi-protocol stream ends or the sweep drops a bucket in use, the    *)
(* in-flight counter is the number of chat attempts out.                   *)
THEOREM InflightExactAlways == HSpec => []InflightExact
<1>1. HInit => CountInv
  <2> SUFFICES ASSUME HInit PROVE CountInv
    OBVIOUS
  <2>1. TypeOK
    BY DefaultGood DEF HInit, Init, TypeOK, Idle, Pc
  <2>2. InFlight = {}
    BY IdleUncounted DEF HInit, Init, InFlight, Counts
  <2>3. InflightExact
    BY <2>2, FS_EmptySet DEF HInit, Init, InflightExact, Current, DefaultBucket
  <2>4. Entitled
    BY IdleUncounted DEF HInit, Init, Entitled, At
  <2> QED BY <2>1, <2>3, <2>4 DEF CountInv
<1>2. CountInv /\ [HNext]_hvars => CountInv'
  <2> SUFFICES ASSUME CountInv, [HNext]_hvars PROVE CountInv'
    OBVIOUS
  <2>1. TypeOK'
    <3>1. [Next]_vars
      BY DEF HNext, Next, hvars
    <3> QED BY <3>1, TypeStep DEF CountInv
  <2>2. ASSUME NEW r \in Req, Succeed(r), UNCHANGED drift
        PROVE  Entitled' /\ InflightExact'
    <3>1. At(r, {"out"}) /\ RecordResponse("ok")
      BY <2>2 DEF Succeed
    <3>2. PICK pc \in Pc : /\ Goto(r, pc)
                           /\ IF Counts(r) THEN pc \in {"body", "stream", "end"}
                              ELSE pc = "idle" \/ (pc = "stream" /\ job[r].kind = "multi")
      BY <2>2 DEF Succeed, Pc
    <3> QED BY <2>2, <3>1, <3>2, ResponseCounts
  <2>3. ASSUME NEW r \in Req, NEW s \in FailStatus, Fail(r, s), UNCHANGED drift
        PROVE  Entitled' /\ InflightExact'
    <3>1. At(r, {"out"}) /\ RecordResponse(s)
      BY <2>3 DEF Fail
    <3>2. PICK pc \in Pc : Goto(r, pc) /\ pc = IF Counts(r) THEN "end" ELSE "idle"
      BY <2>3 DEF Fail, Pc
    <3> QED BY <2>3, <3>1, <3>2, ResponseCounts
  <2>4. Entitled' /\ InflightExact'
    BY <2>2, <2>3, ChooseCounts, CommitCounts, UnusableCounts, FinishCounts, CancelCounts,
       BackgroundCounts DEF HNext
  <2> QED BY <2>1, <2>4 DEF CountInv
<1>3. CountInv => InflightExact
  BY DEF CountInv
<1> QED BY <1>1, <1>2, <1>3, PTL DEF HSpec

-----------------------------------------------------------------------------
(***************************************************************************)
(* KeyPool.                                                                *)
(***************************************************************************)
Lookup == [at : {"idle", "query", "pick", "out"}, model : Model \cup {NoModel},
           tried : SUBSET Key, rows : SUBSET Key, age : 0 .. QUERY_TIME,
           degraded : BOOLEAN, key : Key \cup {NoKey}]

(* Rows on their way are not older than the query; what a selection may    *)
(* choose from is within the bound; and only a selection that is out with  *)
(* a key holds one.                                                        *)
Sound(j) ==
    /\ j.at = "query" => \A k \in j.rows : lag[k] <= j.age
    /\ j.at = "pick" /\ ~j.degraded => \A k \in j.rows : lag[k] < TTL + QUERY_TIME
    /\ j.at = "out" <=> j.key # NoKey

PoolInv ==
    /\ PoolTypeOK
    /\ \A k \in active : lag[k] = 0
    /\ \A k \in cache.list : lag[k] <= cache.age + QUERY_TIME
    /\ \A w \in Worker : Sound(lookup[w])

LEMMA PoolNumbers ==
    ASSUME PoolTypeOK
    PROVE  /\ TTL \in Nat \ {0} /\ QUERY_TIME \in Nat /\ MaxLag = TTL + QUERY_TIME
           /\ \A k \in Key : lag[k] \in 0 .. MaxLag
           /\ cache.age \in 0 .. TTL + 1 /\ cache.list \subseteq Key
           /\ active \subseteq Key /\ NoKey \notin Key
           /\ lookup \in [Worker -> Lookup]
           /\ \A r \in Caller : r \in Worker /\ r # Task
           /\ Task \in Worker
BY PoolConstants DEF PoolTypeOK, Lookup, MaxLag, Worker

(* Setting one field of a selection.                                       *)
LEMMA LookupFields ==
    ASSUME NEW j \in Lookup, QUERY_TIME \in Nat
    PROVE  /\ \A pc \in {"idle", "query", "pick", "out"} : [j EXCEPT !.at = pc] \in Lookup
           /\ \A m \in Model \cup {NoModel} : [j EXCEPT !.model = m] \in Lookup
           /\ \A t \in SUBSET Key : [j EXCEPT !.tried = t] \in Lookup
           /\ \A t \in SUBSET Key : [j EXCEPT !.rows = t] \in Lookup
           /\ [j EXCEPT !.age = 0] \in Lookup
           /\ \A d \in BOOLEAN : [j EXCEPT !.degraded = d] \in Lookup
           /\ \A k \in Key \cup {NoKey} : [j EXCEPT !.key = k] \in Lookup
<1>1. 0 \in 0 .. QUERY_TIME
  OBVIOUS
<1> QED BY <1>1 DEF Lookup

LEMMA PoolInitially ==
    ASSUME PoolInit
    PROVE  PoolInv
<1>1. /\ TTL \in Nat \ {0} /\ QUERY_TIME \in Nat /\ MAX_FAULTS \in Nat
      /\ MaxLag \in Nat /\ NoKey \notin Key
  BY PoolConstants DEF MaxLag
<1>2. NoLookup \in Lookup
  BY <1>1 DEF NoLookup, Lookup
<1>3. lookup \in [Worker -> Lookup] /\ \A w \in Worker : lookup[w] = NoLookup
  BY <1>2 DEF PoolInit
<1>4. active \subseteq Key /\ lag = [k \in Key |-> IF k \in active THEN 0 ELSE MaxLag]
  BY DEF PoolInit
<1>5. lag \in [Key -> 0 .. MaxLag] /\ \A k \in active : lag[k] = 0
  BY <1>1, <1>4
<1>6. cache = [list |-> {}, age |-> TTL + 1] /\ faults = 0
  BY DEF PoolInit
<1>7. PoolTypeOK
  BY <1>1, <1>3, <1>4, <1>5, <1>6 DEF PoolTypeOK, Lookup
<1>8. Sound(NoLookup)
  BY DEF Sound, NoLookup
<1> QED BY <1>3, <1>5, <1>6, <1>7, <1>8 DEF PoolInv

(* A step of one selection that leaves the table alone.                    *)
LEMMA OneLookup ==
    ASSUME PoolInv, NEW w \in Worker, NEW j \in Lookup, Sound(j),
           lookup' = [lookup EXCEPT ![w] = j], UNCHANGED <<active, lag>>,
           cache' \in [list : SUBSET Key, age : 0 .. TTL + 1], faults' \in 0 .. MAX_FAULTS,
           \A k \in cache'.list : lag[k] <= cache'.age + QUERY_TIME
    PROVE  PoolInv'
<1>1. /\ PoolTypeOK /\ lookup \in [Worker -> Lookup] /\ \A v \in Worker : Sound(lookup[v])
      /\ \A k \in active : lag[k] = 0
  BY PoolNumbers DEF PoolInv
<1>2. lookup' \in [Worker -> Lookup]
  BY <1>1
<1>3. PoolTypeOK'
  BY <1>1, <1>2 DEF PoolTypeOK, Lookup
<1>4. ASSUME NEW v \in Worker PROVE Sound(lookup'[v])
  <2>1. CASE v = w
    BY <1>1, <2>1
  <2>2. CASE v # w
    BY <1>1, <2>2
  <2> QED BY <2>1, <2>2
<1>5. \A v \in Worker : Sound(lookup[v])'
  BY <1>4 DEF Sound
<1> QED BY <1>1, <1>3, <1>5 DEF PoolInv

(* load_active_keys serves a young list or asks the table.                 *)
LEMMA LoadKeeps ==
    ASSUME PoolInv, NEW w \in Worker, NEW model \in Model \cup {NoModel},
           NEW tried \in SUBSET Key, Load(w, model, tried),
           UNCHANGED <<active, lag, cache, faults>>
    PROVE  PoolInv'
<1>1. /\ TTL \in Nat \ {0} /\ QUERY_TIME \in Nat /\ cache.age \in 0 .. TTL + 1
      /\ cache.list \subseteq Key /\ active \subseteq Key /\ PoolTypeOK
      /\ \A k \in Key : lag[k] \in Nat
  BY PoolNumbers DEF PoolInv
<1>2. PICK pc, rows : /\ pc = IF CacheFresh THEN "pick" ELSE "query"
                      /\ rows = IF CacheFresh THEN cache.list ELSE active
  OBVIOUS
<1>3. PICK j : /\ j = [NoLookup EXCEPT !.model = model, !.tried = tried, !.at = pc, !.rows = rows]
               /\ lookup' = [lookup EXCEPT ![w] = j]
  BY <1>2 DEF Load
<1>4. j \in Lookup /\ j.at = pc /\ j.rows = rows /\ j.age = 0 /\ j.key = NoKey
  <2>1. NoLookup \in Lookup /\ NoLookup.age = 0 /\ NoLookup.key = NoKey
    BY <1>1 DEF NoLookup, Lookup
  <2>2. pc \in {"idle", "query", "pick", "out"} /\ rows \in SUBSET Key
    BY <1>1, <1>2
  <2>3. PICK a \in Lookup : a = [NoLookup EXCEPT !.model = model]
    BY <1>1, <2>1, LookupFields
  <2>4. PICK b \in Lookup : b = [a EXCEPT !.tried = tried]
    BY <1>1, LookupFields
  <2>5. PICK c \in Lookup : c = [b EXCEPT !.at = pc]
    BY <1>1, <2>2, LookupFields
  <2>6. PICK d \in Lookup : d = [c EXCEPT !.rows = rows]
    BY <1>1, <2>2, LookupFields
  <2>7. j = d
    BY <1>3, <2>3, <2>4, <2>5, <2>6
  <2>8. a.age = 0 /\ a.key = NoKey
    BY <2>1, <2>3 DEF Lookup
  <2>9. b.age = 0 /\ b.key = NoKey
    BY <2>4, <2>8 DEF Lookup
  <2>10. c.age = 0 /\ c.key = NoKey /\ c.at = pc
    BY <2>5, <2>9 DEF Lookup
  <2>11. d.age = 0 /\ d.key = NoKey /\ d.at = pc /\ d.rows = rows
    BY <2>6, <2>10 DEF Lookup
  <2> QED BY <2>7, <2>11
<1>5. Sound(j)
  <2>1. CASE CacheFresh
    <3>1. cache.age < TTL /\ \A k \in cache.list : lag[k] <= cache.age + QUERY_TIME
      BY <2>1 DEF CacheFresh, PoolInv
    <3> QED BY <1>1, <1>2, <1>4, <2>1, <3>1 DEF Sound
  <2>2. CASE ~CacheFresh
    <3>1. \A k \in active : lag[k] = 0
      BY DEF PoolInv
    <3> QED BY <1>2, <1>4, <2>2, <3>1 DEF Sound
  <2> QED BY <2>1, <2>2
<1> QED BY <1>1, <1>3, <1>4, <1>5, OneLookup DEF PoolInv, PoolTypeOK

(* A selection that ends.                                                  *)
LEMMA EndKeeps ==
    ASSUME PoolInv, NEW w \in Worker, End(w), UNCHANGED <<active, lag, faults>>,
           cache' \in [list : SUBSET Key, age : 0 .. TTL + 1],
           \A k \in cache'.list : lag[k] <= cache'.age + QUERY_TIME
    PROVE  PoolInv'
<1>1. NoLookup \in Lookup /\ Sound(NoLookup)
  BY PoolConstants DEF NoLookup, Lookup, Sound
<1>2. lookup' = [lookup EXCEPT ![w] = NoLookup] /\ faults' \in 0 .. MAX_FAULTS
  BY DEF End, PoolInv, PoolTypeOK
<1> QED BY <1>1, <1>2, OneLookup

(* Rows are stored, also over a list that is newer.                        *)
LEMMA StoreKeeps ==
    ASSUME PoolInv, NEW w \in Worker, Store(w)
    PROVE  PoolInv'
<1>1. /\ TTL \in Nat \ {0} /\ QUERY_TIME \in Nat /\ lookup[w] \in Lookup /\ PoolTypeOK
      /\ lookup \in [Worker -> Lookup] /\ \A k \in Key : lag[k] \in Nat
  BY PoolNumbers DEF PoolInv
<1>2. PICK j : j = [lookup[w] EXCEPT !.at = "pick", !.age = 0]
  OBVIOUS
<1>3. lookup[w].at = "query" /\ Sound(lookup[w])
  BY DEF Store, Stands, PoolInv
<1>4. /\ j \in Lookup /\ j.at = "pick" /\ j.rows = lookup[w].rows /\ j.key = lookup[w].key
  <2>1. PICK a \in Lookup : a = [lookup[w] EXCEPT !.at = "pick"]
    BY <1>1, LookupFields
  <2>2. PICK b \in Lookup : b = [a EXCEPT !.age = 0]
    BY <1>1, LookupFields
  <2>3. j = b
    BY <1>2, <2>1, <2>2
  <2>4. a.at = "pick" /\ a.rows = lookup[w].rows /\ a.key = lookup[w].key
    BY <1>1, <2>1 DEF Lookup
  <2>5. b.at = "pick" /\ b.rows = lookup[w].rows /\ b.key = lookup[w].key
    BY <2>2, <2>4 DEF Lookup
  <2> QED BY <2>3, <2>5
<1>5. lookup' = [lookup EXCEPT ![w] = j]
  BY <1>1, <1>2 DEF Store
<1>6. /\ lookup[w].age \in 0 .. QUERY_TIME /\ lookup[w].rows \subseteq Key
      /\ \A k \in lookup[w].rows : lag[k] <= QUERY_TIME
  BY <1>1, <1>3 DEF Lookup, Sound
<1>7. Sound(j)
  BY <1>1, <1>3, <1>4, <1>6 DEF Sound
<1>8. cache' = [list |-> lookup[w].rows, age |-> 0] /\ UNCHANGED <<active, lag, faults>>
  BY DEF Store
<1>9. cache' \in [list : SUBSET Key, age : 0 .. TTL + 1] /\ faults' \in 0 .. MAX_FAULTS
  BY <1>1, <1>6, <1>8 DEF PoolTypeOK
<1>10. \A k \in cache'.list : lag[k] <= cache'.age + QUERY_TIME
  BY <1>1, <1>6, <1>8
<1> QED BY <1>4, <1>5, <1>7, <1>8, <1>9, <1>10, OneLookup

(* The list in memory serves on: the one case the bound leaves out.        *)
LEMMA QueryFailsKeeps ==
    ASSUME PoolInv, NEW w \in Worker, QueryFails(w)
    PROVE  PoolInv'
<1>1. /\ QUERY_TIME \in Nat /\ lookup[w] \in Lookup /\ PoolTypeOK
      /\ lookup \in [Worker -> Lookup] /\ cache.list \subseteq Key
  BY PoolNumbers DEF PoolInv
<1>2. PICK j : j = [lookup[w] EXCEPT !.at = "pick", !.age = 0, !.rows = cache.list,
                                     !.degraded = TRUE]
  OBVIOUS
<1>3. lookup[w].at = "query" /\ Sound(lookup[w])
  BY DEF QueryFails, Stands, PoolInv
<1>4. j \in Lookup /\ j.at = "pick" /\ j.degraded /\ j.key = lookup[w].key
  <2>1. PICK a \in Lookup : a = [lookup[w] EXCEPT !.at = "pick"]
    BY <1>1, LookupFields
  <2>2. PICK b \in Lookup : b = [a EXCEPT !.age = 0]
    BY <1>1, LookupFields
  <2>3. PICK c \in Lookup : c = [b EXCEPT !.rows = cache.list]
    BY <1>1, LookupFields
  <2>4. PICK d \in Lookup : d = [c EXCEPT !.degraded = TRUE]
    BY <1>1, LookupFields
  <2>5. j = d
    BY <1>2, <2>1, <2>2, <2>3, <2>4
  <2>6. a.at = "pick" /\ a.key = lookup[w].key
    BY <1>1, <2>1 DEF Lookup
  <2>7. c.at = "pick" /\ c.key = lookup[w].key
    BY <2>2, <2>3, <2>6 DEF Lookup
  <2>8. d.at = "pick" /\ d.key = lookup[w].key /\ d.degraded
    BY <2>4, <2>7 DEF Lookup
  <2> QED BY <2>5, <2>8
<1>5. lookup' = [lookup EXCEPT ![w] = j]
  BY <1>1, <1>2 DEF QueryFails
<1>6. Sound(j)
  BY <1>3, <1>4 DEF Sound
<1>7. UNCHANGED <<active, lag, cache>> /\ faults' \in 0 .. MAX_FAULTS
  BY <1>1, PoolConstants DEF QueryFails, PoolTypeOK
<1> QED BY <1>1, <1>4, <1>5, <1>6, <1>7, OneLookup DEF PoolInv, PoolTypeOK

(* What is taken is one of the rows.                                       *)
LEMMA ChoicesOfRows ==
    ASSUME NEW r PROVE Choices(r) \subseteq lookup[r].rows
BY DEF Choices, Scope

LEMMA TakeKeeps ==
    ASSUME PoolInv, NEW r \in Caller, Take(r)
    PROVE  PoolInv'
<1>1. /\ lookup[r] \in Lookup /\ PoolTypeOK /\ lookup \in [Worker -> Lookup] /\ r \in Worker
      /\ NoKey \notin Key
  BY PoolNumbers DEF PoolInv
<1>2. PICK k \in Choices(r) : lookup' = [lookup EXCEPT ![r].at = "out", ![r].key = k,
                                                      ![r].rows = {}, ![r].degraded = FALSE]
  BY DEF Take
<1>3. k \in Key
  BY <1>1, ChoicesOfRows DEF Lookup
<1>4. PICK j : j = [lookup[r] EXCEPT !.at = "out", !.key = k, !.rows = {}, !.degraded = FALSE]
  OBVIOUS
<1>5. j \in Lookup /\ j.at = "out" /\ j.key = k
  BY <1>1, <1>3, <1>4 DEF Lookup
<1>6. lookup' = [lookup EXCEPT ![r] = j]
  BY <1>1, <1>2, <1>4
<1>7. Sound(j)
  BY <1>1, <1>3, <1>5 DEF Sound
<1>8. UNCHANGED <<active, lag, cache, faults>>
  BY DEF Take
<1> QED BY <1>1, <1>5, <1>6, <1>7, <1>8, OneLookup DEF PoolInv, PoolTypeOK

(* The administrator's writes reach no list.                               *)
LEMMA AdministrationKeeps ==
    ASSUME PoolInv, NEW k \in Key, Enable(k) \/ Disable(k)
    PROVE  PoolInv'
<1>1. /\ TTL \in Nat \ {0} /\ QUERY_TIME \in Nat /\ lookup \in [Worker -> Lookup] /\ PoolTypeOK
      /\ \A l \in Key : lag[l] \in Nat
      /\ cache.age \in Nat /\ cache.list \subseteq Key /\ active \subseteq Key
      /\ MaxLag \in Nat
  BY PoolNumbers DEF PoolInv
<1>2. UNCHANGED <<cache, lookup, faults>> /\ active' \subseteq Key
  BY <1>1 DEF Enable, Disable
<1>3. /\ lag' \in [Key -> 0 .. MaxLag]
      /\ \A l \in Key : lag'[l] <= lag[l] /\ lag'[l] \in Nat
      /\ \A l \in active' : lag'[l] = 0
  <2>1. lag \in [Key -> 0 .. MaxLag] /\ \A l \in active : lag[l] = 0
    BY DEF PoolInv, PoolTypeOK
  <2>2. CASE Enable(k)
    <3>1. lag' = [lag EXCEPT ![k] = 0] /\ active' = active \cup {k}
      BY <2>2 DEF Enable
    <3>2. \A l \in Key : lag'[l] = IF l = k THEN 0 ELSE lag[l]
      BY <2>1, <3>1
    <3> QED BY <1>1, <2>1, <3>1, <3>2
  <2>3. CASE Disable(k)
    BY <1>1, <2>1, <2>3 DEF Disable
  <2> QED BY <2>2, <2>3
<1>4. PoolTypeOK'
  BY <1>1, <1>2, <1>3 DEF PoolTypeOK
<1>5. \A l \in cache'.list : lag'[l] <= cache'.age + QUERY_TIME
  <2>1. \A l \in cache.list : lag[l] <= cache.age + QUERY_TIME
    BY DEF PoolInv
  <2> QED BY <1>1, <1>2, <1>3, <2>1
<1>6. ASSUME NEW w \in Worker PROVE Sound(lookup[w])'
  <2>1. Sound(lookup[w]) /\ lookup[w].rows \subseteq Key /\ lookup[w].age \in Nat
    BY <1>1 DEF PoolInv, Lookup
  <2>2. lookup[w].at = "query" => \A l \in lookup[w].rows : lag'[l] <= lookup[w].age
    BY <1>1, <1>3, <2>1 DEF Sound
  <2>3. lookup[w].at = "pick" /\ ~lookup[w].degraded =>
           \A l \in lookup[w].rows : lag'[l] < TTL + QUERY_TIME
    BY <1>1, <1>3, <2>1 DEF Sound
  <2> QED BY <1>2, <2>1, <2>2, <2>3 DEF Sound
<1> QED BY <1>3, <1>4, <1>5, <1>6 DEF PoolInv

(* Time passes alike for the list, for rows on their way and for the keys. *)
LEMMA PoolTickKeeps ==
    ASSUME PoolInv, PoolTick
    PROVE  PoolInv'
<1>1. /\ TTL \in Nat \ {0} /\ QUERY_TIME \in Nat /\ MaxLag = TTL + QUERY_TIME
      /\ lookup \in [Worker -> Lookup] /\ PoolTypeOK
      /\ \A l \in Key : lag[l] \in 0 .. MaxLag
      /\ cache.age \in 0 .. TTL + 1 /\ cache.list \subseteq Key /\ active \subseteq Key
  BY PoolNumbers DEF PoolInv
<1>2. /\ \A w \in Worker : lookup[w].at # "pick" /\ lookup[w].age < QUERY_TIME
      /\ cache' = [cache EXCEPT !.age = IF @ > TTL THEN @ ELSE @ + 1]
      /\ lag' = [k \in Key |-> IF k \in active \/ lag[k] = MaxLag THEN lag[k] ELSE lag[k] + 1]
      /\ lookup' = [w \in Worker |-> IF lookup[w].at = "query"
                                     THEN [lookup[w] EXCEPT !.age = @ + 1] ELSE lookup[w]]
      /\ UNCHANGED <<active, faults>>
  BY DEF PoolTick, Stands
<1>3. /\ lag' \in [Key -> 0 .. MaxLag]
      /\ \A l \in Key : lag'[l] \in 0 .. MaxLag /\ lag'[l] <= lag[l] + 1
      /\ \A l \in active' : lag'[l] = 0
  <2>1. \A l \in active : lag[l] = 0
    BY DEF PoolInv
  <2>2. \A l \in Key : lag'[l] = IF l \in active \/ lag[l] = MaxLag THEN lag[l] ELSE lag[l] + 1
    BY <1>2
  <2>3. \A l \in Key : lag'[l] \in 0 .. MaxLag /\ lag'[l] <= lag[l] + 1
    BY <1>1, <2>2
  <2> QED BY <1>1, <1>2, <2>1, <2>2, <2>3
<1>4. /\ cache' \in [list : SUBSET Key, age : 0 .. TTL + 1] /\ cache'.list = cache.list
      /\ cache'.age = IF cache.age > TTL THEN cache.age ELSE cache.age + 1
  <2>1. cache \in [list : SUBSET Key, age : 0 .. TTL + 1]
    BY <1>1 DEF PoolTypeOK
  <2> QED BY <1>1, <1>2, <2>1
<1>5. \A l \in cache'.list : lag'[l] <= cache'.age + QUERY_TIME
  <2>1. \A l \in cache.list : lag[l] <= cache.age + QUERY_TIME
    BY DEF PoolInv
  <2> QED BY <1>1, <1>3, <1>4, <2>1
<1>6. ASSUME NEW w \in Worker PROVE lookup'[w] \in Lookup /\ Sound(lookup[w])'
  <2>1. Sound(lookup[w]) /\ lookup[w] \in Lookup
    BY <1>1 DEF PoolInv
  <2>2. CASE lookup[w].at = "query"
    <3>1. lookup'[w] = [lookup[w] EXCEPT !.age = lookup[w].age + 1]
      BY <1>2, <2>2
    <3>2. lookup[w].age \in Nat /\ lookup[w].age + 1 \in 0 .. QUERY_TIME
      BY <1>1, <1>2, <2>1 DEF Lookup
    <3>3. /\ lookup'[w] \in Lookup /\ lookup'[w].at = "query"
          /\ lookup'[w].rows = lookup[w].rows /\ lookup'[w].rows \subseteq Key
          /\ lookup'[w].age = lookup[w].age + 1 /\ lookup'[w].key = lookup[w].key
      BY <2>1, <2>2, <3>1, <3>2 DEF Lookup
    <3>4. \A l \in lookup'[w].rows : lag'[l] <= lookup'[w].age
      <4>1. \A l \in lookup[w].rows : lag[l] <= lookup[w].age
        BY <2>1, <2>2 DEF Sound
      <4> QED BY <1>1, <1>3, <3>2, <3>3, <4>1
    <3> QED BY <2>1, <2>2, <3>3, <3>4 DEF Sound
  <2>3. CASE lookup[w].at # "query"
    <3>1. lookup'[w] = lookup[w] /\ lookup[w].at # "pick"
      BY <1>2, <2>3
    <3> QED BY <2>1, <2>3, <3>1 DEF Sound
  <2> QED BY <2>2, <2>3
<1>7. lookup' \in [Worker -> Lookup]
  BY <1>2, <1>6
<1>8. PoolTypeOK'
  BY <1>1, <1>2, <1>3, <1>4, <1>7 DEF PoolTypeOK, Lookup
<1> QED BY <1>3, <1>5, <1>6, <1>8 DEF PoolInv

LEMMA PoolInvKept ==
    ASSUME PoolInv, [PoolNext]_poolVars
    PROVE  PoolInv'
<1>1. /\ \A r \in Caller : r \in Worker
      /\ Task \in Worker /\ PoolTypeOK /\ lookup \in [Worker -> Lookup]
      /\ TTL \in Nat \ {0} /\ QUERY_TIME \in Nat /\ cache.age \in 0 .. TTL + 1
      /\ \A l \in Key : lag[l] \in 0 .. MaxLag
      /\ MaxLag = TTL + QUERY_TIME
  BY PoolNumbers DEF PoolInv
<1>2. /\ cache \in [list : SUBSET Key, age : 0 .. TTL + 1]
      /\ \A k \in cache.list : lag[k] <= cache.age + QUERY_TIME
  BY DEF PoolInv, PoolTypeOK
<1>3. ASSUME NEW r \in Caller, Arrive(r) PROVE PoolInv'
  BY <1>1, <1>3, LoadKeeps DEF Arrive
<1>4. ASSUME NEW r \in Caller, Take(r) PROVE PoolInv'
  BY <1>4, TakeKeeps
<1>5. ASSUME NEW r \in Caller, NoneLeft(r) \/ Served(r) PROVE PoolInv'
  <2>1. End(r) /\ UNCHANGED <<active, lag, cache, faults>>
    BY <1>5 DEF NoneLeft, Served
  <2> QED BY <1>1, <1>2, <2>1, EndKeeps
<1>6. ASSUME NEW r \in Caller, NextKey(r) PROVE PoolInv'
  <2>1. /\ lookup[r].at = "out" /\ UNCHANGED <<active, lag, cache, faults>>
        /\ Load(r, lookup[r].model, lookup[r].tried \cup {lookup[r].key})
    BY <1>6 DEF NextKey, Stands
  <2>2. Sound(lookup[r]) /\ lookup[r] \in Lookup
    BY <1>1 DEF PoolInv
  <2>3. lookup[r].model \in Model \cup {NoModel}
        /\ lookup[r].tried \cup {lookup[r].key} \in SUBSET Key
    BY <2>1, <2>2 DEF Sound, Lookup
  <2> QED BY <1>1, <2>1, <2>3, LoadKeeps
<1>7. ASSUME Wakes PROVE PoolInv'
  BY <1>1, <1>7, LoadKeeps DEF Wakes
<1>8. ASSUME Expire PROVE PoolInv'
  <2>1. cache' = [cache EXCEPT !.age = TTL + 1] /\ End(Task) /\ UNCHANGED <<active, lag, faults>>
    BY <1>8 DEF Expire
  <2>2. /\ cache' \in [list : SUBSET Key, age : 0 .. TTL + 1] /\ cache'.age = TTL + 1
        /\ cache'.list = cache.list /\ cache.list \subseteq Key
    BY <1>1, <1>2, <2>1
  <2>3. \A k \in cache'.list : lag[k] <= cache'.age + QUERY_TIME
    BY <1>1, <2>2
  <2> QED BY <1>1, <2>1, <2>2, <2>3, EndKeeps
<1>9. CASE UNCHANGED poolVars
  BY <1>9 DEF poolVars, PoolInv, PoolTypeOK, Sound
<1> QED
  BY <1>3, <1>4, <1>5, <1>6, <1>7, <1>8, <1>9, StoreKeeps, QueryFailsKeeps,
     AdministrationKeeps, PoolTickKeeps DEF PoolNext, Serve

THEOREM PoolInvariant == PoolSpec => []PoolInv
<1> QED BY PoolInitially, PoolInvKept, PTL DEF PoolSpec

(* The table, the list in memory, the lags and every selection keep their  *)
(* types, for any keys, selections and times.                              *)
THEOREM PoolTypeCorrect == PoolSpec => []PoolTypeOK
<1>1. PoolInv => PoolTypeOK
  BY DEF PoolInv
<1> QED BY <1>1, PoolInvariant, PTL

(* load_active_keys and the selections: a key that was taken out of the    *)
(* table is handed out no longer than the life of the list plus the time a *)
(* query may take, however selections, slow queries that overwrite a newer *)
(* list and administrators interleave, unless the own query failed.        *)
THEOREM StaleBoundHolds == PoolSpec => StaleBound
<1>1. ASSUME PoolInv, [PoolNext]_poolVars, NEW r \in Caller, Stands(r, "pick"),
             ~lookup[r].degraded, lookup'[r].key # NoKey
      PROVE  lag[lookup'[r].key] < TTL + QUERY_TIME
  <2>1. /\ lookup \in [Worker -> Lookup] /\ r \in Worker /\ r # Task /\ Sound(lookup[r])
        /\ Task \in Worker
    BY <1>1, PoolNumbers DEF PoolInv
  <2>2. lookup[r].at = "pick" /\ lookup[r].key = NoKey
    BY <1>1, <2>1 DEF Sound, Stands
  <2>3. lookup'[r] # lookup[r]
    BY <1>1, <2>2
  <2>4. ASSUME NEW w, NEW j, lookup' = [lookup EXCEPT ![w] = j] PROVE w = r /\ lookup'[r] = j
    BY <2>1, <2>3, <2>4
  <2>5. Take(r)
    <3>1. ASSUME NEW w \in Worker, NEW model, NEW tried, Load(w, model, tried) PROVE FALSE
      <4>1. PICK j : lookup' = [lookup EXCEPT ![w] = j] /\ j.key = NoKey
        <5>1. PICK pc, rows : /\ pc = IF CacheFresh THEN "pick" ELSE "query"
                              /\ rows = IF CacheFresh THEN cache.list ELSE active
          OBVIOUS
        <5>2. lookup' = [lookup EXCEPT ![w] = [NoLookup EXCEPT !.model = model, !.tried = tried,
                                                               !.at = pc, !.rows = rows]]
          BY <3>1, <5>1 DEF Load
        <5>3. [NoLookup EXCEPT !.model = model, !.tried = tried, !.at = pc, !.rows = rows].key
                 = NoKey
          BY DEF NoLookup
        <5> QED BY <5>2, <5>3
      <4> QED BY <1>1, <2>4, <4>1
    <3>2. ASSUME NEW w \in Worker, End(w) PROVE FALSE
      <4>1. PICK j : lookup' = [lookup EXCEPT ![w] = j] /\ j.key = NoKey
        <5>1. lookup' = [lookup EXCEPT ![w] = NoLookup]
          BY <3>2 DEF End
        <5>2. NoLookup.key = NoKey
          BY DEF NoLookup
        <5> QED BY <5>1, <5>2
      <4> QED BY <1>1, <2>4, <4>1
    <3>3. ASSUME NEW w \in Worker, Store(w) \/ QueryFails(w) PROVE FALSE
      <4>1. w # r /\ lookup'[r] = lookup[r]
        BY <2>1, <2>2, <3>3 DEF Store, QueryFails, Stands
      <4> QED BY <2>3, <4>1
    <3>4. ASSUME NEW q \in Caller, Take(q), q # r PROVE FALSE
      <4>1. lookup'[r] = lookup[r]
        BY <2>1, <3>4 DEF Take
      <4> QED BY <2>3, <4>1
    <3>5. ~PoolTick
      BY <1>1, <2>1 DEF PoolTick
    <3>6. \A q \in Caller : q \in Worker
      BY DEF Worker
    <3>7. ~(\E k \in Key : Enable(k) \/ Disable(k)) /\ ~(UNCHANGED poolVars)
      BY <2>3 DEF Enable, Disable, poolVars
    <3>8. ~(\E q \in Caller : Arrive(q) \/ NoneLeft(q) \/ Served(q) \/ NextKey(q))
      BY <3>1, <3>2, <3>6 DEF Arrive, NoneLeft, Served, NextKey
    <3>9. ~Wakes /\ ~Expire
      BY <2>1, <3>1, <3>2 DEF Wakes, Expire
    <3> QED BY <1>1, <3>3, <3>4, <3>5, <3>7, <3>8, <3>9 DEF PoolNext, Serve
  <2>6. PICK k \in Choices(r) : lookup' = [lookup EXCEPT ![r].at = "out", ![r].key = k,
                                                        ![r].rows = {}, ![r].degraded = FALSE]
    BY <2>5 DEF Take
  <2>7. lookup[r] \in Lookup
    BY <2>1
  <2>8. lookup'[r].key = k
    BY <2>1, <2>6, <2>7 DEF Lookup
  <2>9. lag[k] < TTL + QUERY_TIME
    BY <1>1, <2>1, <2>2, ChoicesOfRows DEF Sound
  <2> QED BY <2>8, <2>9
<1>2. PoolInv /\ [PoolNext]_poolVars =>
         [\A r \in Caller : (Stands(r, "pick") /\ ~lookup[r].degraded /\ lookup'[r].key # NoKey)
             => lag[lookup'[r].key] < TTL + QUERY_TIME]_poolVars
  BY <1>1
<1> QED BY <1>2, PoolInvariant, PTL DEF PoolSpec, StaleBound
=============================================================================

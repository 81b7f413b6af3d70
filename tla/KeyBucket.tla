----------------------------- MODULE KeyBucket -----------------------------
(***************************************************************************)
(* The bucket SurgeScheduler keeps for one upstream key                    *)
(* (src/gateway/scheduler.rs): response accounting, health score,          *)
(* cooldowns, the request window, the in-flight counter and the background *)
(* sweep, under concurrent attempts of the request handlers                *)
(* (src/gateway/handler/public.rs).  Buckets of different keys share no    *)
(* state; which key an attempt gets is KeyPool's subject, here an attempt  *)
(* may get this key whenever the selection can return it.                  *)
(*                                                                         *)
(* record_response, begin_request and end_request each run under the       *)
(* bucket's lock: one step each.  A selection decides from a copy of the   *)
(* bucket (Choose) and writes it later (Commit); the sweep collects the    *)
(* stale bucket first and removes it afterwards.                           *)
(*                                                                         *)
(* Instants are kept as distances to the present, saturated where the code *)
(* no longer tells them apart.  The health score is an exact fraction; the *)
(* window's mean response time is abstracted to the score it earns, any    *)
(* member of RT_SCORES.  warmup_progress is left out (it starts at         *)
(* WARMUP_FULL and is only ever changed when below), as are the counters   *)
(* that nothing but the admin page reads.                                  *)
(***************************************************************************)
EXTENDS Integers, FiniteSets

CONSTANTS Req,        \* concurrent attempts
          NoBucket,   \* the map holds no bucket for the key
          Kinds,      \* the kinds of attempts that may use the key
          RPM_LIMIT,  \* rpm_limit of the key, 0 for none
          PER_KEY_CONCURRENCY_CAP,
          SLIDE_WINDOW, STALE_AGE,
          COOLDOWN_429, LEVEL2_THRESHOLD, LEVEL3_THRESHOLD,
          COOLDOWN_403, COOLDOWN_5XX, COOLDOWN_CONN_ERR, COOLDOWN_4XX,
          ACU_PROBE_WINDOW,
          RT_SCORES,
          MAX_TOTAL,     \* bound of the model on total_requests
          MAX_INFLIGHT   \* bound of the model on inflight

PoolKind == {"chat", "embed", "multi"}  \* the key comes from select_key
FixedKind == {"fixed", "acu"}           \* from select_special/line/acu_key
Kind == PoolKind \cup FixedKind
Counting == {"chat", "fixed", "acu"}    \* chat_completions_handler

FailStatus == {"s429", "s403", "s5xx", "conn", "s4xx"}
HEALTH_SCORE_MIN == 10

ASSUME BucketConstants ==
    /\ IsFiniteSet(Req)
    /\ Kinds \subseteq Kind
    /\ RPM_LIMIT \in Nat
    /\ PER_KEY_CONCURRENCY_CAP \in Nat \ {0}
    /\ SLIDE_WINDOW \in Nat /\ STALE_AGE \in Nat
    /\ COOLDOWN_429 \in [1 .. 3 -> Nat] /\ COOLDOWN_403 \in [1 .. 5 -> Nat]
    /\ COOLDOWN_5XX \in Nat /\ COOLDOWN_CONN_ERR \in Nat /\ COOLDOWN_4XX \in Nat
    /\ LEVEL2_THRESHOLD \in Nat /\ LEVEL3_THRESHOLD \in Nat
    /\ RT_SCORES \subseteq 0 .. 100
    /\ MAX_TOTAL \in Nat /\ MAX_INFLIGHT \in Nat

(* The health score is health_num / health_den.                            *)
BucketState ==
    [last_used_age : 0 .. STALE_AGE + 1, cooldown_left : Nat,
     health_num : Int, health_den : Nat \ {0},
     total_requests : Nat, total_success : Nat, total_429 : Nat, total_5xx : Nat,
     window_429 : Nat, window_req : Nat, window_age : 0 .. SLIDE_WINDOW + 1,
     inflight : Nat]

ASSUME NoBucketAssumption == NoBucket \notin BucketState

VARIABLES bucket,     \* BucketState, or NoBucket
          job,        \* Req -> [pc, kind]: where the attempt stands
          collected   \* the running sweep has found the bucket stale

vars == <<bucket, job, collected>>

Pc == {"idle", "chosen", "out", "body", "stream", "end"}
Idle == [pc |-> "idle", kind |-> "none"]

-----------------------------------------------------------------------------
(* Reading the bucket.                                                     *)

DefaultBucket ==
    [last_used_age |-> STALE_AGE + 1, cooldown_left |-> 0,
     health_num |-> 100, health_den |-> 1,
     total_requests |-> 0, total_success |-> 0, total_429 |-> 0, total_5xx |-> 0,
     window_429 |-> 0, window_req |-> 0, window_age |-> SLIDE_WINDOW + 1,
     inflight |-> 0]

(* get(..).unwrap_or_default() and entry(..).or_default()                  *)
Current == IF bucket = NoBucket THEN DefaultBucket ELSE bucket

Healthy(b) == b.health_num >= HEALTH_SCORE_MIN * b.health_den
RpmFull(b) == RPM_LIMIT > 0 /\ b.window_req >= RPM_LIMIT

(* select_key's filters on the bucket.                                     *)
Candidate(b) ==
    /\ b.cooldown_left = 0
    /\ Healthy(b)
    /\ b.inflight < PER_KEY_CONCURRENCY_CAP
    /\ ~RpmFull(b)

(* Can the selection return this key?  select_key falls back on any        *)
(* healthy key when it has no candidate; the selection of a fixed key      *)
(* fails instead, except that acu is let through a short cooldown.         *)
Selectable(b, kind) ==
    CASE kind \in PoolKind -> Candidate(b) \/ Healthy(b)
      [] kind = "fixed" -> b.cooldown_left = 0 /\ Healthy(b)
      [] kind = "acu" -> b.cooldown_left <= ACU_PROBE_WINDOW

-----------------------------------------------------------------------------
(* record_response on a bucket.                                            *)

(* A request that finds the window expired resets it after it was counted. *)
CountRequest(b) ==
    LET c == [b EXCEPT !.total_requests = @ + 1, !.window_req = @ + 1]
    IN  IF c.window_age > SLIDE_WINDOW
        THEN [c EXCEPT !.window_429 = 0, !.window_req = 0, !.window_age = 0]
        ELSE c

Cooldown429(n) ==
    COOLDOWN_429[IF n >= LEVEL3_THRESHOLD THEN 3 ELSE IF n >= LEVEL2_THRESHOLD THEN 2 ELSE 1]

Cooldown403(n) == COOLDOWN_403[IF n < 5 THEN n ELSE 5]

(* Mutation: a 5xx is also counted as a 429.                               *)
PunishTwice(b, status) ==
    IF status = "s5xx"
    THEN [b EXCEPT !.total_429 = @ + 1, !.total_5xx = @ + 1, !.cooldown_left = COOLDOWN_5XX]
    ELSE [b EXCEPT !.cooldown_left = COOLDOWN_4XX]

(* cooldown_until is overwritten, even by a shorter one.                   *)
Punish(b, status) ==
    CASE status = "s429" ->
            [b EXCEPT !.total_429 = @ + 1, !.window_429 = @ + 1,
                      !.cooldown_left = Cooldown429(b.window_429 + 1)]
      [] status = "s403" ->
            [b EXCEPT !.cooldown_left = Cooldown403(b.total_429 + b.total_5xx + 1)]
      [] status = "s5xx" ->
            [b EXCEPT !.total_5xx = @ + 1, !.cooldown_left = COOLDOWN_5XX]
      [] status = "conn" -> [b EXCEPT !.cooldown_left = COOLDOWN_CONN_ERR]
      [] status = "s4xx" -> [b EXCEPT !.cooldown_left = COOLDOWN_4XX]

Outcome(b, status) ==
    IF status = "ok" THEN [b EXCEPT !.total_success = @ + 1] ELSE Punish(b, status)

(* update_health: 40% success rate, 20% response time, 20% each for the    *)
(* absence of 429 and of 5xx, over the life of the bucket; the fraction is *)
(* multiplied out by 5 * total_requests.                                   *)
UpdateHealth(b, rt) ==
    [b EXCEPT !.health_num = 200 * b.total_success + rt * b.total_requests
                             + 100 * (b.total_requests - b.total_429)
                             + 100 * (b.total_requests - b.total_5xx),
              !.health_den = 5 * b.total_requests]

RecordResponse(status) ==
    \E rt \in RT_SCORES :
        bucket' = UpdateHealth(Outcome(CountRequest(Current), status), rt)

EndRequest ==
    bucket' = IF bucket # NoBucket /\ bucket.inflight > 0
              THEN [bucket EXCEPT !.inflight = @ - 1] ELSE bucket

-----------------------------------------------------------------------------
(* The attempts.                                                           *)

At(r, pcs) == job[r].pc \in pcs
Counts(r) == job[r].kind \in Counting
Goto(r, pc) == job' = [job EXCEPT ![r] = IF pc = "idle" THEN Idle ELSE [@ EXCEPT !.pc = pc]]
Users == {r \in Req : job[r] # Idle}

(* Bounds of the model, not of the code.                                   *)
Bounded ==
    /\ Current.total_requests + Cardinality(Users) < MAX_TOTAL
    /\ Current.inflight + Cardinality(Users) < MAX_INFLIGHT

Choose(r, kind) ==
    /\ At(r, {"idle"}) /\ Bounded
    /\ Selectable(Current, kind)
    /\ job' = [job EXCEPT ![r] = [pc |-> "chosen", kind |-> kind]]
    /\ UNCHANGED <<bucket, collected>>

(* The last write of select_key and begin_request.                         *)
Commit(r) ==
    /\ At(r, {"chosen"})
    /\ bucket' = [Current EXCEPT
          !.last_used_age = IF job[r].kind \in PoolKind THEN 0 ELSE @,
          !.inflight = IF Counts(r) THEN @ + 1 ELSE @]
    /\ Goto(r, "out")
    /\ UNCHANGED collected

(* Mutation: the early continue forgets end_request.                       *)
UnusableNotEnded(r) ==
    /\ At(r, {"out"})
    /\ Goto(r, "idle")
    /\ UNCHANGED <<bucket, collected>>

(* The key cannot be decrypted or the request cannot be built.             *)
Unusable(r) ==
    /\ At(r, {"out"})
    /\ IF Counts(r) THEN EndRequest ELSE UNCHANGED bucket
    /\ Goto(r, "idle")
    /\ UNCHANGED collected

(* 2xx.  The chat handler goes on to read the body or to relay the stream; *)
(* so does a multi-protocol stream; the others are done with the key.      *)
Succeed(r) ==
    /\ At(r, {"out"})
    /\ RecordResponse("ok")
    /\ \/ Counts(r) /\ Goto(r, "body")
       \/ (Counts(r) \/ job[r].kind = "multi") /\ Goto(r, "stream")
       \/ ~Counts(r) /\ Goto(r, "idle")
    /\ UNCHANGED collected

Fail(r, status) ==
    /\ At(r, {"out"})
    /\ RecordResponse(status)
    /\ Goto(r, IF Counts(r) THEN "end" ELSE "idle")
    /\ UNCHANGED collected

(* end_request: after a failure, after the body, at the end of the stream  *)
(* task, which stream_response also runs for multi-protocol streams.       *)
Finish(r) ==
    /\ At(r, {"body", "stream", "end"})
    /\ EndRequest
    /\ Goto(r, "idle")
    /\ UNCHANGED collected

(* The client disconnects: the handler's future is dropped at its await    *)
(* and what it had begun is not ended.                                     *)
Cancel(r) ==
    /\ At(r, {"out", "body"})
    /\ Goto(r, "idle")
    /\ UNCHANGED <<bucket, collected>>

-----------------------------------------------------------------------------
(* run_background_tasks, every minute.                                     *)

(* Mutation: buckets with requests in flight are spared.                   *)
SweepCollectUnused ==
    /\ ~collected
    /\ bucket # NoBucket /\ bucket.last_used_age > STALE_AGE /\ bucket.inflight = 0
    /\ collected' = TRUE
    /\ UNCHANGED <<bucket, job>>

SweepCollect ==
    /\ ~collected
    /\ bucket # NoBucket /\ bucket.last_used_age > STALE_AGE
    /\ collected' = TRUE
    /\ UNCHANGED <<bucket, job>>

SweepRemove ==
    /\ collected
    /\ bucket' = NoBucket
    /\ collected' = FALSE
    /\ UNCHANGED job

Aged(b) ==
    [b EXCEPT !.last_used_age = IF @ > STALE_AGE THEN @ ELSE @ + 1,
              !.window_age = IF @ > SLIDE_WINDOW THEN @ ELSE @ + 1,
              !.cooldown_left = IF @ > 0 THEN @ - 1 ELSE 0]

Tick ==
    /\ bucket # NoBucket
    /\ bucket' = Aged(bucket)
    /\ UNCHANGED <<job, collected>>

-----------------------------------------------------------------------------
Init ==
    /\ bucket = NoBucket
    /\ job = [r \in Req |-> Idle]
    /\ collected = FALSE

Next ==
    \/ \E r \in Req, kind \in Kinds : Choose(r, kind)
    \/ \E r \in Req : Commit(r) \/ Unusable(r) \/ Succeed(r) \/ Finish(r) \/ Cancel(r)
    \/ \E r \in Req, s \in FailStatus : Fail(r, s)
    \/ SweepCollect \/ SweepRemove
    \/ Tick

Spec == Init /\ [][Next]_vars

(* tokio runs the sweep every minute and the clock runs; nothing is        *)
(* assumed of clients and upstreams.                                       *)
Fairness == WF_vars(Tick) /\ WF_vars(SweepCollect) /\ WF_vars(SweepRemove)

-----------------------------------------------------------------------------
(* Properties.                                                             *)

TypeOK ==
    /\ bucket \in BucketState \cup {NoBucket}
    /\ job \in [Req -> [pc : Pc, kind : Kind \cup {"none"}]]
    /\ collected \in BOOLEAN

(* The outcomes record_response counts never outnumber the requests it     *)
(* counts, through window resets, sweeps and the re-creation of the bucket *)
(* by a late response.                                                     *)
CountersConsistent ==
    bucket # NoBucket =>
        bucket.total_success + bucket.total_429 + bucket.total_5xx <= bucket.total_requests

(* No history of failures brings the health score below 20: a request      *)
(* costs at most one of the two 20-point error shares.  The score filters  *)
(* of select_key, of its fallback, of select_special_key and of            *)
(* select_line_key (HEALTH_SCORE_MIN = 10) therefore never exclude a key.  *)
HealthFloor == bucket # NoBucket => bucket.health_num >= 20 * bucket.health_den

(* The key is not lost to the pool for ever: cooldowns, a full request     *)
(* window that nothing resets, in-flight counts leaked by cancelled        *)
(* requests all end with the key being a candidate again, or else it is    *)
(* in use (record_response, end_request, run_background_tasks).            *)
KeyReturns == []<>(Candidate(Current) \/ Users # {})
=============================================================================

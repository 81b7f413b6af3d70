------------------------------ MODULE Gateway ------------------------------
(***************************************************************************)
(* The retry loop of chat_completions_handler and the single attempt of    *)
(* multi_protocol_handler (src/gateway/handler/public.rs) over the shared  *)
(* circuit breaker and the upstream keys, for concurrent requests.         *)
(*                                                                         *)
(* The breaker is CircuitBreaker's.  A key's bucket is KeyBucket's; here   *)
(* it matters in one way, that the selection of a fixed key fails while    *)
(* the key cools down.  select_key fails only for want of an untried key   *)
(* (it falls back on a cooling or full one, and HealthFloor in KeyBucket   *)
(* shows that health excludes none), so any untried key may be returned.   *)
(* How long a backoff, a cooldown or the wait budget lasts is left open,   *)
(* and a stream is told from a plain request when its response comes.      *)
(* Each shared object (a breaker, a bucket) is changed in a step of its    *)
(* own, in the order of the code; a client may disconnect wherever the     *)
(* handler awaits.                                                         *)
(***************************************************************************)
EXTENDS Naturals, FiniteSets

CONSTANTS Model, Req, ModelOf, NoEntry,
          FAILURE_THRESHOLD_5XX, WINDOW_DURATION, OPEN_DURATION,
          HALF_OPEN_MAX_ATTEMPTS,
          PoolKeys,    \* the keys select_key has for an ordinary model
          FixedKey,    \* the key of a special model, a line or acu
          NoKey,
          MAX_UPSTREAM_ATTEMPTS, LINE_MAX_UPSTREAM_ATTEMPTS

ASSUME GatewayConstants ==
    /\ IsFiniteSet(PoolKeys) /\ FixedKey \notin PoolKeys
    /\ NoKey \notin PoolKeys \cup {FixedKey}
    /\ MAX_UPSTREAM_ATTEMPTS \in Nat \ {0}
    /\ LINE_MAX_UPSTREAM_ATTEMPTS \in Nat \ {0}

VARIABLES lane,      \* Model -> "pool" | "special" | "acu", fixed by the catalog
          breakers, call,   \* CircuitBreaker's
          cooling,   \* cooldown_until of FixedKey lies ahead
          job        \* Req -> the handler's local state

vars == <<lane, breakers, call, cooling, job>>

CB == INSTANCE CircuitBreaker

ASSUME GatewayBreaker == CB!BreakerConstants

Key == PoolKeys \cup {FixedKey}
Lane == {"pool", "special", "acu"}
Kind == {"chat", "special", "line", "acu", "multi"}
(* s501 stands for the 5xx codes should_retry does not name.               *)
UpStatus == {"s429", "s4xx", "s5xx", "s501"}
Pc == {"idle", "gate", "select", "begun", "sent", "errbody", "settle",
       "report", "body", "stream", "retry", "asleep", "exhausted"}

-----------------------------------------------------------------------------
(* The handler's local state.                                              *)

Idle ==
    [pc |-> "idle", kind |-> "multi", attempt |-> 0,
     tried |-> {}, key |-> NoKey, status |-> "s4xx"]

At(r, pcs) == job[r].pc \in pcs
Goto(r, pc) == job' = [job EXCEPT ![r].pc = pc]
Done(r) == job' = [job EXCEPT ![r] = Idle]
(* The response is 2xx: the loop's variables are dead.                     *)
Relay(r, pc) == job' = [job EXCEPT ![r] = [Idle EXCEPT !.pc = pc, !.kind = job[r].kind]]

(* line_mode never consults or reports to the breaker; neither does        *)
(* multi_protocol_handler (but see StreamDone).                            *)
UsesBreaker(r) == job[r].kind \in {"chat", "special", "acu"}
(* Mutation: acu requests do not ask the breaker.                          *)
LoopTopAcuFree(kind) == IF kind \in {"line", "multi", "acu"} THEN "select" ELSE "gate"

LoopTop(kind) == IF kind \in {"line", "multi"} THEN "select" ELSE "gate"

(* line_mode and is_special / is_acu follow from the model and the caller. *)
KindsOf(l) ==
    CASE l = "pool" -> {"chat", "multi"}
      [] l = "special" -> {"special", "line", "multi"}
      [] l = "acu" -> {"acu", "multi"}

MaxAttempts(kind) ==
    CASE kind = "line" -> LINE_MAX_UPSTREAM_ATTEMPTS
      [] kind \in {"special", "multi"} -> 1
      [] OTHER -> MAX_UPSTREAM_ATTEMPTS

(* Mutations of NextAttempt: one attempt too many; the breaker is only     *)
(* asked before the first attempt; an attempt that failed is not counted.  *)
OneAttemptMore(r, fast) ==
    LET j == job[r]
        again == [j EXCEPT !.attempt = @ + 1, !.key = NoKey, !.status = Idle.status,
                           !.pc = IF fast THEN LoopTop(j.kind) ELSE "retry"]
    IN  IF j.attempt + 1 <= MaxAttempts(j.kind)
        THEN job' = [job EXCEPT ![r] = again]
        ELSE Goto(r, "exhausted")

NextAttemptUnasked(r, fast) ==
    LET j == job[r]
        again == [j EXCEPT !.attempt = @ + 1, !.key = NoKey, !.status = Idle.status,
                           !.pc = IF fast THEN "select" ELSE "retry"]
    IN  IF j.attempt + 1 < MaxAttempts(j.kind)
        THEN job' = [job EXCEPT ![r] = again]
        ELSE Goto(r, "exhausted")

NextAttemptUncounted(r, fast) ==
    job' = [job EXCEPT ![r].key = NoKey, ![r].status = Idle.status,
                       ![r].pc = IF fast THEN LoopTop(job[r].kind) ELSE "retry"]

(* The end of an attempt that may be followed by another one; fast_retry   *)
(* skips the wait budget and the backoff.                                  *)
NextAttempt(r, fast) ==
    LET j == job[r]
        again == [j EXCEPT !.attempt = @ + 1, !.key = NoKey, !.status = Idle.status,
                           !.pc = IF fast THEN LoopTop(j.kind) ELSE "retry"]
    IN  IF j.attempt + 1 < MaxAttempts(j.kind)
        THEN job' = [job EXCEPT ![r] = again]
        ELSE Goto(r, "exhausted")

-----------------------------------------------------------------------------
(* Selection.                                                              *)

(* Of FixedKey, whose cooldown record_response sets on any failure.        *)
CoolDown(r) == cooling' = (cooling \/ job[r].key = FixedKey)

(* The keys in scope: a key dedicated to the model displaces the rest.     *)
Scoped(r) == IF lane[ModelOf[r]] = "special" THEN {FixedKey} ELSE PoolKeys
Untried(r) == Scoped(r) \ job[r].tried

(* select_key returns an untried key; select_special_key and               *)
(* select_line_key refuse a cooling key; select_acu_key lets a request     *)
(* through the last 15 s of a cooldown, so both answers are possible.      *)
Selectable(r) ==
    CASE job[r].kind \in {"chat", "multi"} -> Untried(r)
      [] job[r].kind \in {"special", "line"} -> IF cooling THEN {} ELSE {FixedKey}
      [] job[r].kind = "acu" -> {FixedKey}

MayFail(r) ==
    \/ Selectable(r) = {}
    \/ job[r].kind = "acu" /\ cooling

-----------------------------------------------------------------------------
(* The steps of a request.                                                 *)

(* All checks before the loop have passed.                                 *)
Arrive(r, kind) ==
    /\ At(r, {"idle"}) /\ kind \in KindsOf(lane[ModelOf[r]])
    /\ job' = [job EXCEPT ![r] = [Idle EXCEPT !.pc = LoopTop(kind), !.kind = kind]]
    /\ UNCHANGED <<lane, breakers, call, cooling>>

(* Mutation: the answer of can_request is not waited for.                  *)
AdmittedBlindly(r) ==
    /\ At(r, {"gate"})
    /\ call' = [call EXCEPT ![r] = "plain"]
    /\ Goto(r, "select")
    /\ UNCHANGED <<lane, breakers, cooling>>

Admitted(r) ==
    /\ At(r, {"gate"})
    /\ CB!CanRequest(r)
    /\ Goto(r, "select")
    /\ UNCHANGED <<lane, cooling>>

Refused(r) ==
    /\ At(r, {"gate"})
    /\ ~CB!Admits(CB!Entry(ModelOf[r]))
    /\ Done(r)
    /\ UNCHANGED <<lane, breakers, call, cooling>>

(* The breaker is told nothing; an admission it gave is forgotten.         *)
Untold(r) == IF UsesBreaker(r) THEN CB!Abandon(r) ELSE UNCHANGED <<breakers, call>>

(* Mutation: the key is not entered in tried.                              *)
SelectUntracked(r, k) ==
    /\ At(r, {"select"})
    /\ k \in Selectable(r)
    /\ job' = [job EXCEPT ![r].pc = "begun", ![r].key = k]
    /\ UNCHANGED <<lane, breakers, call, cooling>>

Select(r, k) ==
    /\ At(r, {"select"})
    /\ k \in Selectable(r)
    /\ job' = [job EXCEPT ![r].pc = "begun", ![r].key = k, ![r].tried = @ \cup {k}]
    /\ UNCHANGED <<lane, breakers, call, cooling>>

NoneSelected(r) ==
    /\ At(r, {"select"})
    /\ MayFail(r)
    /\ Untold(r)
    /\ NextAttempt(r, FALSE)
    /\ UNCHANGED <<lane, cooling>>

(* The key cannot be decrypted or the request cannot be built.             *)
Unusable(r) ==
    /\ At(r, {"begun"})
    /\ Untold(r)
    /\ NextAttempt(r, FALSE)
    /\ UNCHANGED <<lane, cooling>>

Send(r) ==
    /\ At(r, {"begun"})
    /\ Goto(r, "sent")
    /\ UNCHANGED <<lane, breakers, call, cooling>>

(* 2xx: a stream's success is accounted for when it has ended.             *)
ReplyOk(r, is_stream) ==
    /\ At(r, {"sent"})
    /\ IF UsesBreaker(r) /\ ~is_stream
       THEN CB!RecordSuccess(r) ELSE UNCHANGED <<breakers, call>>
    /\ Relay(r, IF is_stream THEN "stream" ELSE "body")
    /\ UNCHANGED <<lane, cooling>>

BodyRead(r) ==
    /\ At(r, {"body"})
    /\ Done(r)
    /\ UNCHANGED <<lane, breakers, call, cooling>>

(* [DONE]: stream_response reports to the breaker for every kind.          *)
StreamDone(r) ==
    /\ At(r, {"stream"})
    /\ CASE UsesBreaker(r) -> CB!RecordSuccess(r)
         [] ~UsesBreaker(r) /\ breakers[ModelOf[r]] # NoEntry -> CB!ForeignSuccess(ModelOf[r])
         [] OTHER -> UNCHANGED <<breakers, call>>
    /\ Done(r)
    /\ UNCHANGED <<lane, cooling>>

(* End of file, read error or idle timeout before [DONE].                  *)
StreamCut(r) ==
    /\ At(r, {"stream"})
    /\ Untold(r)
    /\ Done(r)
    /\ UNCHANGED <<lane, cooling>>

(* An error status; the chat handler reads the error's body before it      *)
(* accounts for the failure, the multi-protocol handler afterwards.        *)
ReplyError(r, s) ==
    /\ At(r, {"sent"})
    /\ IF job[r].kind = "multi"
       THEN CoolDown(r) /\ Done(r)
       ELSE /\ job' = [job EXCEPT ![r].pc = "errbody", ![r].status = s]
            /\ UNCHANGED cooling
    /\ UNCHANGED <<lane, breakers, call>>

BreakerStatus(s) == IF s = "s501" THEN "s5xx" ELSE s

ErrorReported(r) ==
    /\ At(r, {"errbody"})
    /\ IF UsesBreaker(r) THEN CB!RecordFailure(r, BreakerStatus(job[r].status))
       ELSE UNCHANGED <<breakers, call>>
    /\ Goto(r, "settle")
    /\ UNCHANGED <<lane, cooling>>

ShouldRetry(s) == s \in {"s429", "s5xx"}

(* record_response, then: an exhausted quota or an error that cannot be    *)
(* retried ends the request.                                               *)
Settle(r) ==
    /\ At(r, {"settle"})
    /\ CoolDown(r)
    /\ \/ job[r].kind \in {"line", "special"} /\ Done(r)
       \/ IF job[r].kind # "line" /\ ~ShouldRetry(job[r].status)
          THEN Done(r) ELSE NextAttempt(r, FALSE)
    /\ UNCHANGED <<lane, breakers, call>>

(* A connection error or a timeout: here the key comes first.              *)
ConnError(r) ==
    /\ At(r, {"sent"})
    /\ CoolDown(r)
    /\ IF job[r].kind = "multi" THEN Done(r) ELSE Goto(r, "report")
    /\ UNCHANGED <<lane, breakers, call>>

ConnReported(r) ==
    /\ At(r, {"report"})
    /\ IF UsesBreaker(r) THEN CB!RecordFailure(r, "conn")
       ELSE UNCHANGED <<breakers, call>>
    /\ NextAttempt(r, TRUE)
    /\ UNCHANGED <<lane, cooling>>

(* After the loop: the failure is logged and answered with 503 or 402.     *)
Exhausted(r) ==
    /\ At(r, {"exhausted"})
    /\ Done(r)
    /\ UNCHANGED <<lane, breakers, call, cooling>>

OverBudget(r) ==
    /\ At(r, {"retry"})
    /\ Done(r)
    /\ UNCHANGED <<lane, breakers, call, cooling>>

Sleep(r) ==
    /\ At(r, {"retry"})
    /\ Goto(r, "asleep")
    /\ UNCHANGED <<lane, breakers, call, cooling>>

Wake(r) ==
    /\ At(r, {"asleep"})
    /\ Goto(r, LoopTop(job[r].kind))
    /\ UNCHANGED <<lane, breakers, call, cooling>>

(* The client disconnects and the handler's future is dropped at an await. *)
Cancel(r) ==
    /\ At(r, {"select", "asleep", "sent", "errbody", "body"})
    /\ IF call[r] # "idle" THEN CB!Abandon(r) ELSE UNCHANGED <<breakers, call>>
    /\ Done(r)
    /\ UNCHANGED <<lane, cooling>>

(* A cooldown ends, or the sweep drops the bucket.                         *)
CooldownEnds ==
    /\ cooling
    /\ cooling' = FALSE
    /\ UNCHANGED <<lane, breakers, call, job>>

Tick == CB!Tick /\ UNCHANGED <<lane, cooling, job>>

-----------------------------------------------------------------------------
Init ==
    /\ lane \in [Model -> Lane]
    /\ CB!Init
    /\ cooling = FALSE
    /\ job = [r \in Req |-> Idle]

(* What the handler, its stream task and the upstream do for a request.    *)
Upstream(r) ==
    \/ \E is_stream \in BOOLEAN : ReplyOk(r, is_stream)
    \/ ConnError(r)
    \/ \E s \in UpStatus : ReplyError(r, s)

Proceed(r) ==
    \/ Admitted(r) \/ Refused(r)
    \/ (\E k \in Key : Select(r, k)) \/ NoneSelected(r)
    \/ Unusable(r) \/ Send(r)
    \/ BodyRead(r) \/ StreamDone(r) \/ StreamCut(r)
    \/ ErrorReported(r) \/ Settle(r) \/ ConnReported(r)
    \/ Exhausted(r) \/ OverBudget(r) \/ Sleep(r) \/ Wake(r)

Next ==
    \/ \E r \in Req, kind \in Kind : Arrive(r, kind)
    \/ \E r \in Req : Proceed(r) \/ Upstream(r) \/ Cancel(r)
    \/ CooldownEnds
    \/ Tick

Spec == Init /\ [][Next]_vars

(* tokio runs the handlers, the clock runs, cooldowns end, and a request   *)
(* that is out comes back or its client gives up; clients keep asking.     *)
Fairness ==
    /\ WF_vars(Tick)
    /\ WF_vars(CooldownEnds)
    /\ \A r \in Req : /\ WF_vars(Proceed(r))
                      /\ WF_vars(Upstream(r) \/ Cancel(r))
                      /\ WF_vars(\E kind \in Kind : Arrive(r, kind))

-----------------------------------------------------------------------------
(* Properties.                                                             *)

TypeOK ==
    /\ lane \in [Model -> Lane]
    /\ CB!TypeOK
    /\ cooling \in BOOLEAN
    /\ job \in [Req -> [pc : Pc, kind : Kind, attempt : Nat,
                        tried : SUBSET Key, key : Key \cup {NoKey},
                        status : UpStatus]]
    /\ \A r \in Req : job[r].attempt < MaxAttempts(job[r].kind)

(* The handlers use the breaker as CircuitBreaker says its callers do:     *)
(* every outcome follows an admission of the same request, is reported     *)
(* once, and every retry asks again.                                       *)
BreakerProtocol == CB!Spec

(* No admission is left behind: a request the breaker has admitted and     *)
(* not heard of is between can_request and its outcome, on every path of   *)
(* the loop, continue, break and disconnect included.                      *)
AdmissionsOwned ==
    \A r \in Req :
        (call[r] # "idle") <=>
            /\ UsesBreaker(r)
            /\ At(r, {"select", "begun", "sent", "errbody", "report", "stream"})

(* Failover is complete: a pool request that gives up for want of further  *)
(* attempts has tried as many different keys as it may, or all there are   *)
(* (tried, the fallback of select_key and the loop's bound together).      *)
FailoverComplete ==
    \A r \in Req :
        (job[r].kind = "chat" /\ At(r, {"exhausted"})) =>
            \/ Cardinality(job[r].tried) = MAX_UPSTREAM_ATTEMPTS
            \/ PoolKeys \subseteq job[r].tried

(* Every request is answered: the loop ends, whatever the keys, the        *)
(* breaker and the other requests do.                                      *)
Answered == \A r \in Req : ~At(r, {"idle"}) ~> At(r, {"idle"})
=============================================================================

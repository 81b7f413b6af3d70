--------------------------- MODULE GatewayProofs ---------------------------
(***************************************************************************)
(* What is proved about the way of a request through the gateway.          *)
(*                                                                         *)
(* Gateway implements CircuitBreaker, and what follows from it: the        *)
(* theorems on the breaker hold under the retry loop, for any number of    *)
(* models, keys and concurrent requests.  Then what comes before the loop, *)
(* Validation and Admission: the parameters that validate_and_sanitize     *)
(* leaves, the answers the prompt cache gives, and the marks of the model  *)
(* health patrol.                                                          *)
(***************************************************************************)
EXTENDS MCGateway, MCAdmission, FiniteSetTheorems, TLAPS

P == INSTANCE CircuitBreakerProofs WITH burst <- <<>>

Calls == [Req -> {"idle", "plain", "probe"}]
Job == [pc : Pc, kind : Kind, attempt : Nat, tried : SUBSET Key, key : Key \cup {NoKey},
        status : UpStatus]

(* The states of a request in which an admission of the breaker is its own.*)
Owner(j) == /\ j.kind \in {"chat", "special", "acu"}
            /\ j.pc \in {"select", "begun", "sent", "errbody", "report", "stream"}

(* n different keys have been tried, or all there are.                     *)
TriedSome(j, n) == Cardinality(j.tried) = n \/ PoolKeys \subseteq j.tried

(* How far a pool request is: before its selection it has tried a key for  *)
(* every attempt behind it, after it one more.                             *)
Progress(j) ==
    j.kind = "chat" =>
        /\ j.pc \in {"gate", "select", "retry", "asleep"} => TriedSome(j, j.attempt)
        /\ j.pc \in {"begun", "sent", "errbody", "settle", "report"}
              => TriedSome(j, j.attempt + 1)
        /\ j.pc = "exhausted" => TriedSome(j, MAX_UPSTREAM_ATTEMPTS)

JobOK(j, l) ==
    /\ j \in Job
    /\ j.attempt < MaxAttempts(j.kind)
    /\ j.pc # "idle" => j.kind \in KindsOf(l)
    /\ j.pc = "gate" => j.kind \in {"chat", "special", "acu"}
    /\ Progress(j)

JobsOK ==
    /\ lane \in [Model -> Lane] /\ cooling \in BOOLEAN
    /\ job \in [Req -> Job]
    /\ \A r \in Req : JobOK(job[r], lane[ModelOf[r]])

Owned == \A r \in Req : (call[r] # "idle") <=> Owner(job[r])

IInv == JobsOK /\ call \in Calls /\ Owned

(* What a step does, seen from the breaker.                                *)
BreakerStep == CB!Next \/ UNCHANGED <<breakers, call>>

-----------------------------------------------------------------------------
(* Only r's job changes, to one that is right, and the admissions follow.  *)
Moves(r) ==
    /\ job' \in [Req -> Job]
    /\ \A q \in Req \ {r} : job'[q] = job[q]
    /\ JobOK(job'[r], lane[ModelOf[r]])

Told(r) ==
    /\ call' \in Calls
    /\ \A q \in Req \ {r} : (call'[q] # "idle") <=> (call[q] # "idle")

LEMMA Follows ==
    ASSUME IInv, NEW r \in Req, Moves(r), Told(r), UNCHANGED lane, cooling' \in BOOLEAN,
           (call'[r] # "idle") <=> Owner(job'[r])
    PROVE  IInv'
  <1>1. \A q \in Req : JobOK(job'[q], lane[ModelOf[q]])
    BY DEF Moves, IInv, JobsOK
  <1>2. JobsOK'
    <2>1. \A q \in Req : JobOK(job[q], lane[ModelOf[q]])'
      BY <1>1 DEF JobOK, Progress, TriedSome
    <2> QED BY <2>1 DEF Moves, IInv, JobsOK
  <1>3. Owned'
    BY DEF Moves, Told, IInv, Owned, Owner
  <1> QED BY <1>2, <1>3 DEF IInv, Told

LEMMA GatewayNumbers ==
    /\ MAX_UPSTREAM_ATTEMPTS \in Nat /\ MAX_UPSTREAM_ATTEMPTS >= 1
    /\ LINE_MAX_UPSTREAM_ATTEMPTS \in Nat /\ LINE_MAX_UPSTREAM_ATTEMPTS >= 1
    /\ \A kind \in Kind : MaxAttempts(kind) \in Nat /\ MaxAttempts(kind) >= 1
    /\ MaxAttempts("chat") = MAX_UPSTREAM_ATTEMPTS
  BY GatewayConstants DEF MaxAttempts

LEMMA ModelOfType == ModelOf \in [Req -> Model]
  BY GatewayBreaker DEF CB!BreakerConstants

(* Nobody is told anything.                                                *)
LEMMA Untelling ==
    ASSUME IInv, NEW r \in Req, UNCHANGED <<breakers, call>>
    PROVE  Told(r) /\ BreakerStep /\ call'[r] = call[r]
  BY DEF IInv, Told, BreakerStep

(* The breaker hears of a request's outcome, or never will.                *)
LEMMA Telling ==
    ASSUME IInv, NEW r \in Req,
           CB!Abandon(r) \/ CB!RecordSuccess(r) \/ \E s \in CB!FailStatus : CB!RecordFailure(r, s)
    PROVE  Told(r) /\ BreakerStep /\ call'[r] = "idle"
  <1>1. BreakerStep
    BY DEF BreakerStep, CB!Next
  <1>2. CASE CB!Abandon(r)
    BY <1>1, <1>2 DEF IInv, Told, Calls, CB!Abandon
  <1>3. ASSUME NEW m, NEW b, call' = CB!CallsAfter(r, m, b)
        PROVE  Told(r) /\ call'[r] = "idle"
    BY <1>3 DEF IInv, Told, Calls, CB!CallsAfter
  <1>4. CASE CB!RecordSuccess(r)
    BY <1>1, <1>3, <1>4 DEF CB!RecordSuccess
  <1>5. CASE \E s \in CB!FailStatus : CB!RecordFailure(r, s)
    BY <1>1, <1>3, <1>5 DEF CB!RecordFailure
  <1> QED BY <1>2, <1>4, <1>5

-----------------------------------------------------------------------------
(* The moves of a job.  It ends.                                           *)
LEMMA DoneMoves ==
    ASSUME IInv, NEW r \in Req, Done(r)
    PROVE  Moves(r) /\ ~Owner(job'[r])
  <1>1. Idle \in Job /\ Idle.pc = "idle" /\ Idle.kind = "multi" /\ Idle.attempt = 0
    BY DEF Idle, Job, Pc, Kind, UpStatus
  <1>2. job' \in [Req -> Job] /\ job'[r] = Idle /\ \A q \in Req \ {r} : job'[q] = job[q]
    BY <1>1 DEF Done, IInv, JobsOK
  <1>3. MaxAttempts("multi") = 1
    BY DEF MaxAttempts
  <1>4. JobOK(Idle, lane[ModelOf[r]])
    BY <1>1, <1>3 DEF JobOK, Progress
  <1> QED BY <1>1, <1>2, <1>4 DEF Moves, Owner

(* It goes to another place in which it has tried as many keys.            *)
LEMMA GotoMoves ==
    ASSUME IInv, NEW r \in Req, NEW pc \in Pc, Goto(r, pc), job[r].pc # "idle",
           pc = "gate" => job[r].kind \in {"chat", "special", "acu"},
           job[r].kind = "chat" => Progress([job[r] EXCEPT !.pc = pc])
    PROVE  /\ Moves(r)
           /\ job'[r].pc = pc /\ job'[r].kind = job[r].kind
  <1> DEFINE i == [job[r] EXCEPT !.pc = pc]
  <1>1. job[r] \in Job /\ JobOK(job[r], lane[ModelOf[r]])
    BY DEF IInv, JobsOK
  <1>2. i \in Job /\ i.pc = pc /\ i.kind = job[r].kind /\ i.attempt = job[r].attempt
    BY <1>1 DEF Job
  <1>3. job' = [job EXCEPT ![r] = i]
    BY DEF Goto
  <1>4. job[r].kind = "chat" => Progress(i)
    OBVIOUS
  <1> HIDE DEF i
  <1>5. job' \in [Req -> Job] /\ job'[r] = i /\ \A q \in Req \ {r} : job'[q] = job[q]
    BY <1>2, <1>3 DEF IInv, JobsOK
  <1>6. JobOK(i, lane[ModelOf[r]])
    BY <1>1, <1>2, <1>4 DEF JobOK, Progress
  <1> QED BY <1>2, <1>5, <1>6 DEF Moves

(* The response is relayed.                                                *)
LEMMA RelayMoves ==
    ASSUME IInv, NEW r \in Req, NEW pc \in {"body", "stream"}, Relay(r, pc),
           job[r].pc # "idle"
    PROVE  /\ Moves(r)
           /\ job'[r].pc = pc /\ job'[r].kind = job[r].kind
  <1> DEFINE i == [Idle EXCEPT !.pc = pc, !.kind = job[r].kind]
  <1>1. job[r] \in Job /\ JobOK(job[r], lane[ModelOf[r]])
    BY DEF IInv, JobsOK
  <1>2. i \in Job /\ i.pc = pc /\ i.kind = job[r].kind /\ i.attempt = 0
    BY <1>1 DEF Job, Idle, Pc, UpStatus
  <1>3. job' = [job EXCEPT ![r] = i]
    BY DEF Relay
  <1> HIDE DEF i
  <1>4. job' \in [Req -> Job] /\ job'[r] = i /\ \A q \in Req \ {r} : job'[q] = job[q]
    BY <1>2, <1>3 DEF IInv, JobsOK
  <1>5. JobOK(i, lane[ModelOf[r]])
    BY <1>1, <1>2, GatewayNumbers DEF JobOK, Progress, Job
  <1> QED BY <1>2, <1>4, <1>5 DEF Moves

(* The job as the next attempt finds it.                                   *)
Again(j, n, pc) ==
    [j EXCEPT !.attempt = n, !.key = NoKey, !.status = Idle.status, !.pc = pc]

LEMMA AgainType ==
    ASSUME NEW j \in Job, NEW n \in Nat, NEW pc \in Pc
    PROVE  /\ Again(j, n, pc) \in Job /\ Again(j, n, pc).pc = pc
           /\ Again(j, n, pc).kind = j.kind /\ Again(j, n, pc).attempt = n
           /\ Again(j, n, pc).tried = j.tried
  <1> DEFINE a == [j EXCEPT !.attempt = n, !.key = NoKey]
  <1>1. a \in Job /\ a.kind = j.kind /\ a.attempt = n /\ a.tried = j.tried
    BY DEF Job
  <1>2. Idle.status \in UpStatus
    BY DEF Idle, UpStatus
  <1> HIDE DEF a
  <1> DEFINE i == [a EXCEPT !.status = Idle.status, !.pc = pc]
  <1>3. i \in Job /\ i.pc = pc /\ i.kind = j.kind /\ i.attempt = n /\ i.tried = j.tried
    BY <1>1, <1>2 DEF Job
  <1> QED BY <1>3 DEF a, Again

(* The attempt is over, and every key it could have tried is in tried: the *)
(* next attempt begins, or the request has tried enough.                   *)
LEMMA NextMoves ==
    ASSUME IInv, NEW r \in Req, NEW fast, NextAttempt(r, fast), job[r].pc # "idle",
           job[r].kind = "chat" => TriedSome(job[r], job[r].attempt + 1)
    PROVE  Moves(r) /\ ~Owner(job'[r])
  <1> DEFINE j == job[r]
             to == IF fast THEN LoopTop(j.kind) ELSE "retry"
             i == Again(j, j.attempt + 1, to)
  <1>1. j \in Job /\ JobOK(j, lane[ModelOf[r]])
    BY DEF IInv, JobsOK
  <1>2. j.attempt \in Nat /\ MaxAttempts(j.kind) \in Nat /\ j.attempt < MaxAttempts(j.kind)
    BY <1>1, GatewayNumbers DEF JobOK, Job
  <1>3. CASE j.attempt + 1 < MaxAttempts(j.kind)
    <2>1. to \in {"select", "gate", "retry"}
      BY DEF LoopTop
    <2>2. (to = "gate" => j.kind \in {"chat", "special", "acu"})
          /\ (to = "select" => j.kind \in {"line", "multi"})
      BY <1>1 DEF LoopTop, Job, Kind
    <2> HIDE DEF to
    <2>3. /\ i \in Job /\ i.pc = to /\ i.kind = j.kind /\ i.attempt = j.attempt + 1
          /\ i.tried = j.tried
      <3>1. j.attempt + 1 \in Nat /\ to \in Pc
        BY <1>2, <2>1 DEF Pc
      <3> QED BY <1>1, <3>1, AgainType
    <2>4. job' = [job EXCEPT ![r] = i]
      BY <1>3 DEF NextAttempt, Again, to
    <2> HIDE DEF i
    <2>5. job' \in [Req -> Job] /\ job'[r] = i /\ \A q \in Req \ {r} : job'[q] = job[q]
      BY <2>3, <2>4 DEF IInv, JobsOK
    <2>6. Progress(i)
      BY <2>1, <2>3 DEF Progress, TriedSome
    <2>7. JobOK(i, lane[ModelOf[r]])
      BY <1>1, <1>3, <2>2, <2>3, <2>6 DEF JobOK
    <2> QED BY <2>1, <2>2, <2>3, <2>5, <2>7 DEF Moves, Owner
  <1>4. CASE ~(j.attempt + 1 < MaxAttempts(j.kind))
    <2>1. Goto(r, "exhausted") /\ "exhausted" \in Pc
      BY <1>4 DEF NextAttempt, Pc
    <2>2. j.kind = "chat" => TriedSome(j, MAX_UPSTREAM_ATTEMPTS)
      BY <1>2, <1>4, GatewayNumbers
    <2>3. j.kind = "chat" => Progress([j EXCEPT !.pc = "exhausted"])
      BY <1>1, <2>2 DEF Progress, TriedSome, Job
    <2>4. Moves(r) /\ job'[r].pc = "exhausted"
      BY <2>1, <2>3, GotoMoves
    <2> QED BY <2>4 DEF Owner
  <1> QED BY <1>3, <1>4

-----------------------------------------------------------------------------
(* A request comes and goes to the top of the loop.                        *)
LEMMA ArriveStep ==
    ASSUME IInv, NEW r \in Req, NEW kind \in Kind, Arrive(r, kind)
    PROVE  IInv' /\ BreakerStep
  <1> DEFINE i == [Idle EXCEPT !.pc = LoopTop(kind), !.kind = kind]
  <1>1. /\ job[r].pc = "idle" /\ kind \in KindsOf(lane[ModelOf[r]])
        /\ job' = [job EXCEPT ![r] = i]
        /\ UNCHANGED <<lane, breakers, call, cooling>>
    BY DEF Arrive, At
  <1>2. /\ i \in Job /\ i.pc = LoopTop(kind) /\ i.kind = kind /\ i.attempt = 0
        /\ i.tried = {}
    BY DEF Job, Idle, Pc, Kind, UpStatus, LoopTop
  <1>3. LoopTop(kind) = "gate" => kind \in {"chat", "special", "acu"}
    BY DEF LoopTop, Kind
  <1>4. LoopTop(kind) \in {"gate", "select"} /\ (LoopTop(kind) = "select" => kind \in {"line", "multi"})
    BY DEF LoopTop
  <1> HIDE DEF i
  <1>5. job' \in [Req -> Job] /\ job'[r] = i /\ \A q \in Req \ {r} : job'[q] = job[q]
    BY <1>1, <1>2 DEF IInv, JobsOK
  <1>6. Progress(i)
    BY <1>2, <1>4, FS_EmptySet DEF Progress, TriedSome
  <1>7. JobOK(i, lane[ModelOf[r]])
    BY <1>1, <1>2, <1>3, <1>6, GatewayNumbers DEF JobOK
  <1>8. Moves(r) /\ ~Owner(job'[r])
    BY <1>2, <1>4, <1>5, <1>7 DEF Moves, Owner
  <1>9. Told(r) /\ BreakerStep /\ call'[r] = call[r]
    BY <1>1, Untelling
  <1>10. call[r] = "idle"
    BY <1>1 DEF IInv, Owned, Owner
  <1> QED BY <1>1, <1>8, <1>9, <1>10, Follows DEF IInv, JobsOK

(* can_request admits it, or not.                                          *)
LEMMA AdmittedStep ==
    ASSUME IInv, NEW r \in Req, Admitted(r)
    PROVE  IInv' /\ BreakerStep
  <1>1. /\ job[r].pc = "gate" /\ CB!CanRequest(r) /\ Goto(r, "select")
        /\ UNCHANGED <<lane, cooling>>
    BY DEF Admitted, At
  <1>2. job[r] \in Job /\ JobOK(job[r], lane[ModelOf[r]])
    BY DEF IInv, JobsOK
  <1>3. Told(r) /\ call'[r] # "idle"
    BY <1>1 DEF CB!CanRequest, Told, IInv, Calls
  <1>4. job[r].kind = "chat" => Progress([job[r] EXCEPT !.pc = "select"])
    BY <1>1, <1>2 DEF JobOK, Progress, TriedSome, Job
  <1>5. Moves(r) /\ job'[r].pc = "select" /\ job'[r].kind = job[r].kind
    BY <1>1, <1>4, GotoMoves DEF Pc
  <1>6. Owner(job'[r])
    BY <1>1, <1>2, <1>5 DEF JobOK, Owner
  <1>7. BreakerStep
    BY <1>1 DEF BreakerStep, CB!Next
  <1> QED BY <1>1, <1>3, <1>5, <1>6, <1>7, Follows DEF IInv, JobsOK

LEMMA RefusedStep ==
    ASSUME IInv, NEW r \in Req, Refused(r)
    PROVE  IInv' /\ BreakerStep
  <1>1. job[r].pc = "gate" /\ Done(r) /\ UNCHANGED <<lane, breakers, call, cooling>>
    BY DEF Refused, At
  <1>2. call[r] = "idle"
    BY <1>1 DEF IInv, Owned, Owner
  <1>3. Moves(r) /\ ~Owner(job'[r])
    BY <1>1, DoneMoves
  <1>4. Told(r) /\ BreakerStep /\ call'[r] = call[r]
    BY <1>1, Untelling
  <1> QED BY <1>1, <1>2, <1>3, <1>4, Follows DEF IInv, JobsOK

-----------------------------------------------------------------------------
(* What is left to show of a step that tells the breaker nothing new.      *)
LEMMA Silent ==
    ASSUME IInv, NEW r \in Req, Moves(r), UNCHANGED <<lane, breakers, call>>,
           cooling' \in BOOLEAN, Owner(job'[r]) <=> Owner(job[r])
    PROVE  IInv' /\ BreakerStep
  <1>1. Told(r) /\ BreakerStep /\ call'[r] = call[r]
    BY Untelling
  <1>2. (call'[r] # "idle") <=> Owner(job'[r])
    BY <1>1 DEF IInv, Owned
  <1> QED BY <1>1, <1>2, Follows

(* The breaker is told nothing, for good.                                  *)
LEMMA UntoldTells ==
    ASSUME IInv, NEW r \in Req, Untold(r)
    PROVE  Told(r) /\ BreakerStep /\ call'[r] = "idle"
  <1>1. CASE UsesBreaker(r)
    BY <1>1, Telling DEF Untold
  <1>2. CASE ~UsesBreaker(r)
    <2>1. UNCHANGED <<breakers, call>>
      BY <1>2 DEF Untold
    <2>2. call[r] = "idle"
      BY <1>2 DEF IInv, Owned, Owner, UsesBreaker
    <2> QED BY <2>1, <2>2, Untelling
  <1> QED BY <1>1, <1>2

(* A failure is reported of a request that uses the breaker, and only then.*)
LEMMA FailureTells ==
    ASSUME IInv, NEW r \in Req, NEW s \in CB!FailStatus,
           IF UsesBreaker(r) THEN CB!RecordFailure(r, s) ELSE UNCHANGED <<breakers, call>>
    PROVE  Told(r) /\ BreakerStep /\ call'[r] = "idle"
  <1>1. CASE UsesBreaker(r)
    BY <1>1, Telling
  <1>2. CASE ~UsesBreaker(r)
    <2>1. call[r] = "idle"
      BY <1>2 DEF IInv, Owned, Owner, UsesBreaker
    <2> QED BY <1>2, <2>1, Untelling
  <1> QED BY <1>1, <1>2

LEMMA KeysFinite ==
    ASSUME NEW T \in SUBSET Key
    PROVE  IsFiniteSet(T) /\ Cardinality(T) \in Nat
  <1>1. IsFiniteSet(Key)
    BY GatewayConstants, FS_AddElement DEF Key
  <1> QED BY <1>1, FS_Subset, FS_CardinalityType

(* A key is selected, one that has not been tried.                         *)
LEMMA SelectStep ==
    ASSUME IInv, NEW r \in Req, NEW k \in Key, Select(r, k)
    PROVE  IInv' /\ BreakerStep
  <1> DEFINE j == job[r]
             i == [j EXCEPT !.pc = "begun", !.key = k, !.tried = @ \cup {k}]
  <1>1. /\ j.pc = "select" /\ k \in Selectable(r)
        /\ job' = [job EXCEPT ![r] = i]
        /\ UNCHANGED <<lane, breakers, call, cooling>>
    BY DEF Select, At
  <1>2. j \in Job /\ JobOK(j, lane[ModelOf[r]])
    BY DEF IInv, JobsOK
  <1>3. /\ i \in Job /\ i.pc = "begun" /\ i.kind = j.kind /\ i.attempt = j.attempt
        /\ i.tried = j.tried \cup {k}
    <2> DEFINE T == j.tried \cup {k}
    <2>1. T \in SUBSET Key /\ "begun" \in Pc
      BY <1>2 DEF Job, Pc
    <2>2. i = [j EXCEPT !.pc = "begun", !.key = k, !.tried = T]
      OBVIOUS
    <2> HIDE DEF T
    <2>3. LET h == [j EXCEPT !.pc = "begun", !.key = k, !.tried = T]
          IN  /\ h \in Job /\ h.pc = "begun" /\ h.kind = j.kind /\ h.attempt = j.attempt
              /\ h.tried = T
      BY <1>2, <2>1 DEF Job
    <2> QED BY <2>2, <2>3 DEF T
  <1>4. Progress(i)
    <2> SUFFICES ASSUME j.kind = "chat"
                 PROVE  TriedSome(i, j.attempt + 1)
      BY <1>3 DEF Progress
    <2>1. k \notin j.tried
      BY <1>1 DEF Selectable, Untried
    <2>2. TriedSome(j, j.attempt)
      BY <1>1, <1>2 DEF JobOK, Progress
    <2>3. j.tried \in SUBSET Key
      BY <1>2 DEF Job
    <2>4. Cardinality(j.tried \cup {k}) = Cardinality(j.tried) + 1
      BY <2>1, <2>3, KeysFinite, FS_AddElement
    <2> QED BY <1>3, <2>2, <2>4 DEF TriedSome
  <1> HIDE DEF i
  <1>5. job' \in [Req -> Job] /\ job'[r] = i /\ \A q \in Req \ {r} : job'[q] = job[q]
    BY <1>1, <1>3 DEF IInv, JobsOK
  <1>6. JobOK(i, lane[ModelOf[r]])
    BY <1>1, <1>2, <1>3, <1>4 DEF JobOK
  <1>7. Moves(r) /\ (Owner(job'[r]) <=> Owner(job[r]))
    BY <1>1, <1>3, <1>5, <1>6 DEF Moves, Owner
  <1> QED BY <1>1, <1>7, Silent DEF IInv, JobsOK

(* No key: all have been tried, if the pool was asked.                     *)
LEMMA NoneSelectedStep ==
    ASSUME IInv, NEW r \in Req, NoneSelected(r)
    PROVE  IInv' /\ BreakerStep
  <1>1. /\ job[r].pc = "select" /\ MayFail(r) /\ Untold(r) /\ NextAttempt(r, FALSE)
        /\ UNCHANGED <<lane, cooling>>
    BY DEF NoneSelected, At
  <1>2. JobOK(job[r], lane[ModelOf[r]]) /\ lane[ModelOf[r]] \in Lane
    BY ModelOfType DEF IInv, JobsOK
  <1>3. job[r].kind = "chat" => TriedSome(job[r], job[r].attempt + 1)
    <2> SUFFICES ASSUME job[r].kind = "chat" PROVE PoolKeys \subseteq job[r].tried
      BY DEF TriedSome
    <2>1. lane[ModelOf[r]] # "special"
      BY <1>1, <1>2 DEF JobOK, KindsOf
    <2>2. Untried(r) = {}
      BY <1>1 DEF MayFail, Selectable
    <2> QED BY <2>1, <2>2 DEF Untried, Scoped
  <1>4. Moves(r) /\ ~Owner(job'[r])
    BY <1>1, <1>3, NextMoves
  <1> QED BY <1>1, <1>4, UntoldTells, Follows DEF IInv, JobsOK

(* After the selection an attempt may be of no use, or be sent.            *)
LEMMA AttemptCounted ==
    ASSUME IInv, NEW r \in Req, job[r].pc \in {"begun", "sent", "errbody", "settle", "report"}
    PROVE  job[r].kind = "chat" => TriedSome(job[r], job[r].attempt + 1)
  BY DEF IInv, JobsOK, JobOK, Progress

LEMMA UnusableStep ==
    ASSUME IInv, NEW r \in Req, Unusable(r)
    PROVE  IInv' /\ BreakerStep
  <1>1. job[r].pc = "begun" /\ Untold(r) /\ NextAttempt(r, FALSE) /\ UNCHANGED <<lane, cooling>>
    BY DEF Unusable, At
  <1>2. Moves(r) /\ ~Owner(job'[r])
    BY <1>1, AttemptCounted, NextMoves
  <1> QED BY <1>1, <1>2, UntoldTells, Follows DEF IInv, JobsOK

(* A place in the same attempt.                                            *)
LEMMA Onward ==
    ASSUME IInv, NEW r \in Req,
           NEW pc \in {"begun", "sent", "errbody", "settle", "report"}, Goto(r, pc),
           job[r].pc \in {"begun", "sent", "errbody", "settle", "report"}
    PROVE  Moves(r) /\ job'[r].pc = pc /\ job'[r].kind = job[r].kind
  <1>1. pc \in Pc /\ pc # "gate"
    BY DEF Pc
  <1>2. job[r] \in Job
    BY DEF IInv, JobsOK
  <1>3. job[r].kind = "chat" => Progress([job[r] EXCEPT !.pc = pc])
    BY <1>2, AttemptCounted DEF Progress, TriedSome, Job
  <1> QED BY <1>1, <1>3, GotoMoves

LEMMA SendStep ==
    ASSUME IInv, NEW r \in Req, Send(r)
    PROVE  IInv' /\ BreakerStep
  <1>1. job[r].pc = "begun" /\ Goto(r, "sent") /\ UNCHANGED <<lane, breakers, call, cooling>>
    BY DEF Send, At
  <1>2. Moves(r) /\ job'[r].pc = "sent" /\ job'[r].kind = job[r].kind
    BY <1>1, Onward
  <1>3. Owner(job'[r]) <=> Owner(job[r])
    BY <1>1, <1>2 DEF Owner
  <1> QED BY <1>1, <1>2, <1>3, Silent DEF IInv, JobsOK

-----------------------------------------------------------------------------
(* A 2xx response: a plain one is a success at once, a stream at its end.  *)
LEMMA ReplyOkStep ==
    ASSUME IInv, NEW r \in Req, NEW is_stream \in BOOLEAN, ReplyOk(r, is_stream)
    PROVE  IInv' /\ BreakerStep
  <1> DEFINE pc == IF is_stream THEN "stream" ELSE "body"
  <1>1. /\ job[r].pc = "sent" /\ Relay(r, pc) /\ UNCHANGED <<lane, cooling>>
        /\ IF UsesBreaker(r) /\ ~is_stream
           THEN CB!RecordSuccess(r) ELSE UNCHANGED <<breakers, call>>
    BY DEF ReplyOk, At
  <1>2. pc \in {"body", "stream"} /\ (is_stream => pc = "stream") /\ (~is_stream => pc = "body")
    OBVIOUS
  <1> HIDE DEF pc
  <1>3. Moves(r) /\ job'[r].pc = pc /\ job'[r].kind = job[r].kind
    BY <1>1, <1>2, RelayMoves
  <1>4. CASE UsesBreaker(r) /\ ~is_stream
    <2>1. ~Owner(job'[r])
      BY <1>2, <1>3, <1>4 DEF Owner
    <2>2. Told(r) /\ BreakerStep /\ call'[r] = "idle"
      BY <1>1, <1>4, Telling
    <2> QED BY <1>1, <1>3, <2>1, <2>2, Follows DEF IInv, JobsOK
  <1>5. CASE ~(UsesBreaker(r) /\ ~is_stream)
    <2>1. Owner(job'[r]) <=> Owner(job[r])
      BY <1>1, <1>2, <1>3, <1>5 DEF Owner, UsesBreaker
    <2> QED BY <1>1, <1>3, <1>5, <2>1, Silent DEF IInv, JobsOK
  <1> QED BY <1>4, <1>5

(* The steps by which a request ends without a word to the breaker.        *)
LEMMA QuietEndStep ==
    ASSUME IInv, NEW r \in Req, BodyRead(r) \/ Exhausted(r) \/ OverBudget(r)
    PROVE  IInv' /\ BreakerStep
  <1>1. /\ job[r].pc \in {"body", "exhausted", "retry"} /\ Done(r)
        /\ UNCHANGED <<lane, breakers, call, cooling>>
    BY DEF BodyRead, Exhausted, OverBudget, At
  <1>2. Moves(r) /\ ~Owner(job'[r])
    BY <1>1, DoneMoves
  <1>3. ~Owner(job[r])
    BY <1>1 DEF Owner
  <1> QED BY <1>1, <1>2, <1>3, Silent DEF IInv, JobsOK

(* [DONE] reports to the breaker whoever asked.                            *)
LEMMA StreamDoneStep ==
    ASSUME IInv, NEW r \in Req, StreamDone(r)
    PROVE  IInv' /\ BreakerStep
  <1>1. /\ Done(r) /\ UNCHANGED <<lane, cooling>>
        /\ \/ CB!RecordSuccess(r)
           \/ ~UsesBreaker(r) /\ CB!ForeignSuccess(ModelOf[r])
           \/ ~UsesBreaker(r) /\ UNCHANGED <<breakers, call>>
    BY DEF StreamDone
  <1>2. Moves(r) /\ ~Owner(job'[r])
    BY <1>1, DoneMoves
  <1>3. ~UsesBreaker(r) => call[r] = "idle"
    BY DEF IInv, Owned, Owner, UsesBreaker
  <1>4. Told(r) /\ BreakerStep /\ call'[r] = "idle"
    <2>1. CASE CB!RecordSuccess(r)
      BY <2>1, Telling
    <2>2. CASE ~UsesBreaker(r) /\ CB!ForeignSuccess(ModelOf[r])
      <3>1. BreakerStep
        BY <2>2, ModelOfType DEF BreakerStep, CB!Next
      <3>2. call' = [q \in Req |-> IF ModelOf[q] = ModelOf[r] /\ call[q] = "probe"
                                   THEN "plain" ELSE call[q]]
        BY <2>2 DEF CB!ForeignSuccess
      <3> QED BY <1>3, <2>2, <3>1, <3>2 DEF IInv, Calls, Told
    <2>3. CASE ~UsesBreaker(r) /\ UNCHANGED <<breakers, call>>
      BY <1>3, <2>3, Untelling
    <2> QED BY <1>1, <2>1, <2>2, <2>3
  <1> QED BY <1>1, <1>2, <1>4, Follows DEF IInv, JobsOK

LEMMA StreamCutStep ==
    ASSUME IInv, NEW r \in Req, StreamCut(r)
    PROVE  IInv' /\ BreakerStep
  <1>1. Untold(r) /\ Done(r) /\ UNCHANGED <<lane, cooling>>
    BY DEF StreamCut
  <1> QED BY <1>1, UntoldTells, DoneMoves, Follows DEF IInv, JobsOK

(* The client leaves.                                                      *)
LEMMA CancelStep ==
    ASSUME IInv, NEW r \in Req, Cancel(r)
    PROVE  IInv' /\ BreakerStep
  <1>1. /\ Done(r) /\ UNCHANGED <<lane, cooling>>
        /\ IF call[r] # "idle" THEN CB!Abandon(r) ELSE UNCHANGED <<breakers, call>>
    BY DEF Cancel
  <1>2. Told(r) /\ BreakerStep /\ call'[r] = "idle"
    BY <1>1, Telling, Untelling
  <1> QED BY <1>1, <1>2, DoneMoves, Follows DEF IInv, JobsOK

-----------------------------------------------------------------------------
(* A failed attempt.  The cooldown of the fixed key is a flag.             *)
LEMMA CoolDownType ==
    ASSUME IInv, NEW r \in Req, CoolDown(r)
    PROVE  cooling' \in BOOLEAN
  BY DEF CoolDown, IInv, JobsOK

(* The status is kept while the error's body is read.                      *)
LEMMA StatusMoves ==
    ASSUME IInv, NEW r \in Req, NEW s \in UpStatus, job[r].pc = "sent",
           job' = [job EXCEPT ![r].pc = "errbody", ![r].status = s]
    PROVE  Moves(r) /\ job'[r].pc = "errbody" /\ job'[r].kind = job[r].kind
  <1> DEFINE i == [job[r] EXCEPT !.pc = "errbody", !.status = s]
  <1>1. job[r] \in Job /\ JobOK(job[r], lane[ModelOf[r]])
    BY DEF IInv, JobsOK
  <1>2. /\ i \in Job /\ i.pc = "errbody" /\ i.kind = job[r].kind
        /\ i.attempt = job[r].attempt /\ i.tried = job[r].tried
    BY <1>1 DEF Job, Pc
  <1>3. job' = [job EXCEPT ![r] = i]
    OBVIOUS
  <1> HIDE DEF i
  <1>4. job' \in [Req -> Job] /\ job'[r] = i /\ \A q \in Req \ {r} : job'[q] = job[q]
    BY <1>2, <1>3 DEF IInv, JobsOK
  <1>5. Progress(i)
    BY <1>2, AttemptCounted DEF Progress, TriedSome
  <1>6. JobOK(i, lane[ModelOf[r]])
    BY <1>1, <1>2, <1>5 DEF JobOK
  <1> QED BY <1>2, <1>4, <1>6 DEF Moves

LEMMA ReplyErrorStep ==
    ASSUME IInv, NEW r \in Req, NEW s \in UpStatus, ReplyError(r, s)
    PROVE  IInv' /\ BreakerStep
  <1>1. job[r].pc = "sent" /\ UNCHANGED <<lane, breakers, call>>
    BY DEF ReplyError, At
  <1>2. CASE job[r].kind = "multi"
    <2>1. CoolDown(r) /\ Done(r)
      BY <1>2 DEF ReplyError
    <2>2. ~Owner(job[r])
      BY <1>2 DEF Owner
    <2> QED BY <1>1, <2>1, <2>2, CoolDownType, DoneMoves, Silent
  <1>3. CASE job[r].kind # "multi"
    <2>1. job' = [job EXCEPT ![r].pc = "errbody", ![r].status = s] /\ UNCHANGED cooling
      BY <1>3 DEF ReplyError
    <2>2. Moves(r) /\ job'[r].pc = "errbody" /\ job'[r].kind = job[r].kind
      BY <1>1, <2>1, StatusMoves
    <2>3. Owner(job'[r]) <=> Owner(job[r])
      BY <1>1, <2>2 DEF Owner
    <2> QED BY <1>1, <2>1, <2>2, <2>3, Silent DEF IInv, JobsOK
  <1> QED BY <1>2, <1>3

LEMMA ErrorReportedStep ==
    ASSUME IInv, NEW r \in Req, ErrorReported(r)
    PROVE  IInv' /\ BreakerStep
  <1>1. /\ job[r].pc = "errbody" /\ Goto(r, "settle") /\ UNCHANGED <<lane, cooling>>
        /\ IF UsesBreaker(r) THEN CB!RecordFailure(r, BreakerStatus(job[r].status))
           ELSE UNCHANGED <<breakers, call>>
    BY DEF ErrorReported, At
  <1>2. job[r].status \in UpStatus
    BY DEF IInv, JobsOK, Job
  <1>3. BreakerStatus(job[r].status) \in CB!FailStatus
    BY <1>2 DEF BreakerStatus, UpStatus, CB!FailStatus
  <1>4. Told(r) /\ BreakerStep /\ call'[r] = "idle"
    BY <1>1, <1>3, FailureTells
  <1>5. Moves(r) /\ job'[r].pc = "settle"
    BY <1>1, Onward
  <1> QED BY <1>1, <1>4, <1>5, Follows DEF IInv, JobsOK, Owner

LEMMA SettleStep ==
    ASSUME IInv, NEW r \in Req, Settle(r)
    PROVE  IInv' /\ BreakerStep
  <1>1. /\ job[r].pc = "settle" /\ CoolDown(r) /\ UNCHANGED <<lane, breakers, call>>
        /\ Done(r) \/ NextAttempt(r, FALSE)
    BY DEF Settle, At
  <1>2. Moves(r) /\ ~Owner(job'[r])
    BY <1>1, DoneMoves, AttemptCounted, NextMoves
  <1>3. ~Owner(job[r])
    BY <1>1 DEF Owner
  <1> QED BY <1>1, <1>2, <1>3, CoolDownType, Silent

LEMMA ConnErrorStep ==
    ASSUME IInv, NEW r \in Req, ConnError(r)
    PROVE  IInv' /\ BreakerStep
  <1>1. /\ job[r].pc = "sent" /\ CoolDown(r) /\ UNCHANGED <<lane, breakers, call>>
        /\ IF job[r].kind = "multi" THEN Done(r) ELSE Goto(r, "report")
    BY DEF ConnError, At
  <1>2. CASE job[r].kind = "multi"
    <2>1. ~Owner(job[r])
      BY <1>2 DEF Owner
    <2> QED BY <1>1, <1>2, <2>1, CoolDownType, DoneMoves, Silent
  <1>3. CASE job[r].kind # "multi"
    <2>1. Moves(r) /\ job'[r].pc = "report" /\ job'[r].kind = job[r].kind
      BY <1>1, <1>3, Onward
    <2>2. Owner(job'[r]) <=> Owner(job[r])
      BY <1>1, <2>1 DEF Owner
    <2> QED BY <1>1, <2>1, <2>2, CoolDownType, Silent
  <1> QED BY <1>2, <1>3

LEMMA ConnReportedStep ==
    ASSUME IInv, NEW r \in Req, ConnReported(r)
    PROVE  IInv' /\ BreakerStep
  <1>1. /\ job[r].pc = "report" /\ NextAttempt(r, TRUE) /\ UNCHANGED <<lane, cooling>>
        /\ IF UsesBreaker(r) THEN CB!RecordFailure(r, "conn") ELSE UNCHANGED <<breakers, call>>
    BY DEF ConnReported, At
  <1>2. "conn" \in CB!FailStatus
    BY DEF CB!FailStatus
  <1>3. Told(r) /\ BreakerStep /\ call'[r] = "idle"
    BY <1>1, <1>2, FailureTells
  <1>4. Moves(r) /\ ~Owner(job'[r])
    BY <1>1, AttemptCounted, NextMoves
  <1> QED BY <1>1, <1>3, <1>4, Follows DEF IInv, JobsOK

(* The backoff.                                                            *)
LEMMA BackoffStep ==
    ASSUME IInv, NEW r \in Req, Sleep(r) \/ Wake(r)
    PROVE  IInv' /\ BreakerStep
  <1>1. PICK pc : /\ job[r].pc \in {"retry", "asleep"} /\ Goto(r, pc)
                  /\ pc = "asleep" \/ pc = LoopTop(job[r].kind)
                  /\ UNCHANGED <<lane, breakers, call, cooling>>
    BY DEF Sleep, Wake, At
  <1>2. job[r] \in Job /\ JobOK(job[r], lane[ModelOf[r]])
    BY DEF IInv, JobsOK
  <1>3. /\ pc \in Pc /\ pc \in {"asleep", "gate", "select"}
        /\ pc = "gate" => job[r].kind \in {"chat", "special", "acu"}
        /\ pc = "select" => job[r].kind \in {"line", "multi"}
    BY <1>1, <1>2 DEF LoopTop, Pc, Job, Kind
  <1>4. job[r].kind = "chat" => Progress([job[r] EXCEPT !.pc = pc])
    BY <1>1, <1>2, <1>3 DEF JobOK, Progress, TriedSome, Job
  <1>5. Moves(r) /\ job'[r].pc = pc /\ job'[r].kind = job[r].kind
    BY <1>1, <1>3, <1>4, GotoMoves
  <1>6. ~Owner(job'[r]) /\ ~Owner(job[r])
    BY <1>1, <1>3, <1>5 DEF Owner
  <1> QED BY <1>1, <1>5, <1>6, Silent DEF IInv, JobsOK

(* Time.                                                                   *)
LEMMA TimeStep ==
    ASSUME IInv, CooldownEnds \/ Tick \/ UNCHANGED vars
    PROVE  IInv' /\ BreakerStep
  <1>1. UNCHANGED <<lane, call, job>> /\ cooling' \in BOOLEAN
    BY DEF CooldownEnds, Tick, vars, CB!Tick, IInv, JobsOK
  <1>2. BreakerStep
    BY DEF CooldownEnds, Tick, vars, BreakerStep, CB!Next
  <1>3. JobsOK'
    BY <1>1 DEF IInv, JobsOK, JobOK, Progress, TriedSome
  <1>4. Owned' /\ call' \in Calls
    BY <1>1 DEF IInv, Owned, Owner
  <1> QED BY <1>2, <1>3, <1>4 DEF IInv

-----------------------------------------------------------------------------
LEMMA InitInv == Init => IInv /\ CB!Init
  <1> SUFFICES ASSUME Init
               PROVE  IInv /\ CB!Init
    OBVIOUS
  <1>1. /\ lane \in [Model -> Lane] /\ cooling = FALSE /\ job = [r \in Req |-> Idle]
        /\ CB!Init
    BY DEF Init
  <1>2. Idle \in Job /\ Idle.pc = "idle" /\ Idle.kind = "multi" /\ Idle.attempt = 0
    BY DEF Idle, Job, Pc, Kind, UpStatus
  <1>3. MaxAttempts("multi") = 1
    BY DEF MaxAttempts
  <1>4. \A l : JobOK(Idle, l)
    BY <1>2, <1>3 DEF JobOK, Progress
  <1>5. JobsOK
    BY <1>1, <1>2, <1>4 DEF JobsOK
  <1>6. call \in Calls /\ Owned
    BY <1>1, <1>2 DEF CB!Init, Calls, Owned, Owner
  <1> QED BY <1>1, <1>5, <1>6 DEF IInv

(* A step of the gateway keeps the invariant and is a step of the breaker. *)
LEMMA StepInv == IInv /\ [Next]_vars => IInv' /\ [CB!Next]_(CB!vars)
  <1> SUFFICES ASSUME IInv, [Next]_vars
               PROVE  IInv' /\ BreakerStep
    BY DEF BreakerStep, CB!vars
  <1>1. ASSUME NEW r \in Req, NEW kind \in Kind, Arrive(r, kind)
        PROVE  IInv' /\ BreakerStep
    BY <1>1, ArriveStep
  <1>2. ASSUME NEW r \in Req, Proceed(r)
        PROVE  IInv' /\ BreakerStep
    BY <1>2, AdmittedStep, RefusedStep, SelectStep, NoneSelectedStep, UnusableStep, SendStep,
       QuietEndStep, StreamDoneStep, StreamCutStep, ErrorReportedStep, SettleStep,
       ConnReportedStep, BackoffStep DEF Proceed
  <1>3. ASSUME NEW r \in Req, Upstream(r)
        PROVE  IInv' /\ BreakerStep
    BY <1>3, ReplyOkStep, ConnErrorStep, ReplyErrorStep DEF Upstream
  <1>4. ASSUME NEW r \in Req, Cancel(r)
        PROVE  IInv' /\ BreakerStep
    BY <1>4, CancelStep
  <1>5. CASE CooldownEnds \/ Tick \/ UNCHANGED vars
    BY <1>5, TimeStep
  <1> QED BY <1>1, <1>2, <1>3, <1>4, <1>5 DEF Next

LEMMA InvAlways == Spec => []IInv
  <1>1. Init => IInv
    BY InitInv
  <1>2. IInv /\ [Next]_vars => IInv'
    BY StepInv
  <1> QED BY <1>1, <1>2, PTL DEF Spec

(* The retry loop, the single attempt and the streams use the breaker as   *)
(* CircuitBreaker says its callers do: the composition implements it.      *)
THEOREM ProtocolKept == Spec => BreakerProtocol
  <1>1. Init => CB!Init
    BY InitInv
  <1>2. IInv /\ [Next]_vars => [CB!Next]_(CB!vars)
    BY StepInv
  <1> QED BY <1>1, <1>2, InvAlways, PTL DEF Spec, BreakerProtocol, CB!Spec

(* No path of the loop, continue, break and disconnect included, leaves an *)
(* admission behind or reports without one.                                *)
THEOREM AdmissionsOwnedAlways == Spec => []AdmissionsOwned
  <1>1. IInv => AdmissionsOwned
    BY DEF IInv, Owned, Owner, AdmissionsOwned, UsesBreaker, At
  <1> QED BY <1>1, InvAlways, PTL

(* A pool request that gives up has tried as many keys as it may, or all.  *)
THEOREM FailoverCompleteAlways == Spec => []FailoverComplete
  <1>1. IInv => FailoverComplete
    BY DEF IInv, JobsOK, JobOK, Progress, TriedSome, FailoverComplete, At
  <1> QED BY <1>1, InvAlways, PTL

-----------------------------------------------------------------------------
(* What CircuitBreakerProofs proves of the breaker and any callers is so   *)
(* for the handlers: P's breaker is CB's.                                  *)
LEMMA SameConstants == P!BreakerConstants
  BY GatewayBreaker DEF CB!BreakerConstants, P!BreakerConstants, CB!ModelBreaker,
     P!ModelBreaker, CB!State, P!State, CB!IsFiniteSet, P!IsFiniteSet, IsFiniteSet

LEMMA SameNext ==
    ASSUME [CB!Next]_(CB!vars)
    PROVE  [P!Next]_(P!vars)
  BY DEF CB!Next, P!Next, CB!vars, P!vars, CB!CanRequest, P!CanRequest,
     CB!RecordSuccess, P!RecordSuccess, CB!RecordFailure, P!RecordFailure, CB!Abandon,
     P!Abandon, CB!ForeignSuccess, P!ForeignSuccess, CB!Tick, P!Tick,
     CB!Put, P!Put, CB!CallsAfter, P!CallsAfter, CB!Entry, P!Entry, CB!NewBreaker,
     P!NewBreaker, CB!Admits, P!Admits, CB!AfterAdmission, P!AfterAdmission,
     CB!AfterSuccess, P!AfterSuccess, CB!AfterFailure, P!AfterFailure, CB!Opened,
     P!Opened, CB!WindowReset, P!WindowReset, CB!Counted, P!Counted, CB!Aged, P!Aged,
     CB!FailStatus, P!FailStatus

LEMMA SameBreaker == CB!Spec => P!Spec
  <1>1. CB!Init => P!Init
    BY DEF CB!Init, P!Init
  <1>2. [CB!Next]_(CB!vars) => [P!Next]_(P!vars)
    BY SameNext
  <1> QED BY <1>1, <1>2, PTL DEF CB!Spec, P!Spec

(* Every variable keeps its type, the breakers' by the breaker's theorem.  *)
THEOREM TypeCorrect == Spec => []TypeOK
  <1>1. P!Spec => []P!TypeOK
    BY SameConstants, P!TypeCorrect
  <1>2. P!TypeOK => CB!TypeOK
    BY DEF CB!TypeOK, P!TypeOK, CB!ModelBreaker, P!ModelBreaker, CB!State, P!State
  <1>3. IInv /\ CB!TypeOK => TypeOK
    BY DEF IInv, JobsOK, JobOK, Job, TypeOK
  <1> QED BY <1>1, <1>2, <1>3, InvAlways, ProtocolKept, SameBreaker, PTL DEF BreakerProtocol

(* Under the retry loop, too, a recovering upstream is hit by no more than *)
(* the allowed probes, and the breakers' counters, timers and states agree.*)
THEOREM BreakersGuard == Spec => [](CB!BreakersConsistent /\ CB!ProbesBounded)
  <1>1. P!Spec => []P!BreakersConsistent
    BY SameConstants, P!ConsistentAlways
  <1>2. P!Spec => []P!ProbesBounded
    BY SameConstants, P!ProbesBoundedAlways
  <1>3. P!BreakersConsistent => CB!BreakersConsistent
    BY DEF CB!BreakersConsistent, P!BreakersConsistent, CB!Consistent, P!Consistent
  <1>4. P!ProbesBounded => CB!ProbesBounded
    BY DEF CB!ProbesBounded, P!ProbesBounded, CB!Probes, P!Probes, CB!Cardinality,
       P!Cardinality, CB!IsFiniteSet, P!IsFiniteSet
  <1> QED BY <1>1, <1>2, <1>3, <1>4, ProtocolKept, SameBreaker, PTL DEF BreakerProtocol

-----------------------------------------------------------------------------
(* An open breaker and the retries of a request.                           *)

BreakerKinds == {"chat", "special", "acu"}

(* Where a step may take a request that uses the breaker: to the upstream  *)
(* only by way of can_request, which lets nobody through an open breaker.  *)
OnItsWay(r) ==
    \/ job'[r] = job[r]
    \/ job'[r].pc = "idle"
    \/ job[r].pc = "idle" /\ job'[r].pc \in {"gate", "select"}
    \/ /\ job'[r].kind = job[r].kind
       /\ \/ job'[r].pc \notin {"select", "begun", "sent"}
          \/ job[r].kind \notin BreakerKinds
          \/ job[r].pc = "gate" /\ job'[r].pc = "select" /\ ~IsOpen(ModelOf[r])'
          \/ job[r].pc = "select" /\ job'[r].pc = "begun"
          \/ job[r].pc = "begun" /\ job'[r].pc = "sent"

(* The four ways a job changes.                                            *)
LEMMA GotoPc ==
    ASSUME IInv, NEW r \in Req, NEW pc, Goto(r, pc)
    PROVE  job'[r].pc = pc /\ job'[r].kind = job[r].kind
  <1>1. job[r] \in Job /\ job' = [job EXCEPT ![r] = [job[r] EXCEPT !.pc = pc]]
    BY DEF Goto, IInv, JobsOK
  <1> QED BY <1>1 DEF Job, IInv, JobsOK

LEMMA RelayPc ==
    ASSUME IInv, NEW r \in Req, NEW pc, Relay(r, pc)
    PROVE  job'[r].pc = pc /\ job'[r].kind = job[r].kind
  BY DEF Relay, Idle, IInv, JobsOK

LEMMA DonePc ==
    ASSUME IInv, NEW r \in Req, Done(r)
    PROVE  job'[r].pc = "idle"
  BY DEF Done, Idle, IInv, JobsOK

LEMMA NextPc ==
    ASSUME IInv, NEW r \in Req, NEW fast \in BOOLEAN, NextAttempt(r, fast)
    PROVE  /\ job'[r].kind = job[r].kind
           /\ job'[r].pc \in {"exhausted", "retry", LoopTop(job[r].kind)}
  <1> DEFINE j == job[r]
             to == IF fast THEN LoopTop(j.kind) ELSE "retry"
  <1>1. CASE j.attempt + 1 < MaxAttempts(j.kind)
    <2>1. job' = [job EXCEPT ![r] = Again(j, j.attempt + 1, to)]
      BY <1>1 DEF NextAttempt, Again
    <2>2. job'[r] = Again(j, j.attempt + 1, to)
      BY <2>1 DEF IInv, JobsOK
    <2>3. j \in Job /\ j.attempt + 1 \in Nat /\ to \in Pc
      BY DEF IInv, JobsOK, Job, LoopTop, Pc
    <2> HIDE DEF j, to
    <2>4. job'[r].pc = to /\ job'[r].kind = j.kind
      BY <2>2, <2>3, AgainType
    <2> QED BY <2>4 DEF j, to
  <1>2. CASE ~(j.attempt + 1 < MaxAttempts(j.kind))
    <2>1. Goto(r, "exhausted")
      BY <1>2 DEF NextAttempt
    <2> QED BY <2>1, GotoPc
  <1> QED BY <1>1, <1>2

LEMMA LoopTopGates == \A kind \in BreakerKinds : LoopTop(kind) = "gate"
  BY DEF BreakerKinds, LoopTop

(* An attempt that ends does not begin the next one unasked.               *)
LEMMA NextOnItsWay ==
    ASSUME IInv, NEW r \in Req, NEW fast \in BOOLEAN, NextAttempt(r, fast)
    PROVE  OnItsWay(r)
  BY NextPc, LoopTopGates DEF OnItsWay

(* can_request answers TRUE in no step that leaves the breaker open.       *)
LEMMA AdmissionCloses ==
    ASSUME CB!TypeOK, NEW r \in Req, CB!CanRequest(r)
    PROVE  ~IsOpen(ModelOf[r])'
  <1> DEFINE m == ModelOf[r]
             e == CB!Entry(m)
             b == CB!AfterAdmission(e)
  <1>1. m \in Model
    BY ModelOfType
  <1>2. e \in CB!ModelBreaker
    <2>1. CB!NewBreaker \in CB!ModelBreaker
      BY GatewayBreaker DEF CB!NewBreaker, CB!ModelBreaker, CB!State, CB!BreakerConstants
    <2> QED BY <1>1, <2>1 DEF CB!Entry, CB!TypeOK
  <1>3. breakers'[m] = b
    BY <1>1 DEF CB!CanRequest, CB!Put, CB!TypeOK
  <1>4. b.state # "Open"
    BY <1>2 DEF CB!AfterAdmission, CB!ModelBreaker, CB!State
  <1> QED BY <1>3, <1>4 DEF IsOpen, CB!IsOpen

(* Every step takes every request on its way.                              *)
LEMMA ProceedOnItsWay ==
    ASSUME IInv, CB!TypeOK, NEW r \in Req, Proceed(r)
    PROVE  OnItsWay(r)
  <1>1. CASE Admitted(r)
    <2>1. Goto(r, "select") /\ job[r].pc = "gate" /\ ~IsOpen(ModelOf[r])'
      BY <1>1, AdmissionCloses DEF Admitted, At
    <2> QED BY <2>1, GotoPc DEF OnItsWay
  <1>2. ASSUME NEW k \in Key, Select(r, k) PROVE OnItsWay(r)
    <2> DEFINE a == [job[r] EXCEPT !.pc = "begun"]
               i == [[a EXCEPT !.key = k] EXCEPT !.tried = job[r].tried \cup {k}]
    <2>1. a \in Job /\ a.pc = "begun" /\ a.kind = job[r].kind /\ a.tried = job[r].tried
      BY DEF IInv, JobsOK, Job, Pc
    <2>2. job' = [job EXCEPT ![r].pc = "begun", ![r].key = k, ![r].tried = @ \cup {k}]
      BY <1>2 DEF Select
    <2>3. job'[r] = i
      BY <2>2 DEF IInv, JobsOK, Job
    <2> HIDE DEF a
    <2>4. i.pc = "begun" /\ i.kind = job[r].kind
      BY <2>1 DEF Job
    <2> QED BY <1>2, <2>3, <2>4 DEF OnItsWay, Select, At
  <1>3. CASE NoneSelected(r) \/ Unusable(r) \/ ConnReported(r)
    BY <1>3, NextOnItsWay DEF NoneSelected, Unusable, ConnReported
  <1>4. CASE Send(r)
    BY <1>4, GotoPc DEF Send, OnItsWay, At
  <1>5. CASE Refused(r) \/ BodyRead(r) \/ StreamDone(r) \/ StreamCut(r) \/ Exhausted(r)
             \/ OverBudget(r)
    <2>1. Done(r)
      BY <1>5 DEF Refused, BodyRead, StreamDone, StreamCut, Exhausted, OverBudget
    <2> QED BY <2>1, DonePc DEF OnItsWay
  <1>6. CASE ErrorReported(r)
    BY <1>6, GotoPc DEF ErrorReported, OnItsWay
  <1>7. CASE Settle(r)
    BY <1>7, DonePc, NextOnItsWay DEF Settle, OnItsWay
  <1>8. CASE Sleep(r)
    BY <1>8, GotoPc DEF Sleep, OnItsWay
  <1>9. CASE Wake(r)
    BY <1>9, GotoPc, LoopTopGates DEF Wake, OnItsWay
  <1> QED BY <1>1, <1>2, <1>3, <1>4, <1>5, <1>6, <1>7, <1>8, <1>9 DEF Proceed

LEMMA UpstreamOnItsWay ==
    ASSUME IInv, NEW r \in Req, Upstream(r) \/ Cancel(r)
    PROVE  OnItsWay(r)
  <1>1. ASSUME NEW is_stream \in BOOLEAN, ReplyOk(r, is_stream) PROVE OnItsWay(r)
    <2>1. PICK pc \in {"body", "stream"} : Relay(r, pc)
      BY <1>1 DEF ReplyOk
    <2> QED BY <2>1, RelayPc DEF OnItsWay
  <1>2. CASE ConnError(r)
    BY <1>2, DonePc, GotoPc DEF ConnError, OnItsWay
  <1>3. ASSUME NEW s \in UpStatus, ReplyError(r, s) PROVE OnItsWay(r)
    <2>1. CASE job[r].kind = "multi"
      BY <1>3, <2>1, DonePc DEF ReplyError, OnItsWay
    <2>2. CASE job[r].kind # "multi"
      <3>1. job' = [job EXCEPT ![r].pc = "errbody", ![r].status = s] /\ job[r].pc = "sent"
        BY <1>3, <2>2 DEF ReplyError, At
      <3>2. job'[r].pc = "errbody" /\ job'[r].kind = job[r].kind
        BY <3>1, StatusMoves
      <3> QED BY <3>2 DEF OnItsWay
    <2> QED BY <2>1, <2>2
  <1>4. CASE Cancel(r)
    BY <1>4, DonePc DEF Cancel, OnItsWay
  <1> QED BY <1>1, <1>2, <1>3, <1>4 DEF Upstream

LEMMA ArriveOnItsWay ==
    ASSUME IInv, NEW r \in Req, NEW kind \in Kind, Arrive(r, kind)
    PROVE  OnItsWay(r)
  <1>1. job' = [job EXCEPT ![r] = [Idle EXCEPT !.pc = LoopTop(kind), !.kind = kind]]
        /\ job[r].pc = "idle"
    BY DEF Arrive, At
  <1>2. [Idle EXCEPT !.pc = LoopTop(kind), !.kind = kind].pc = LoopTop(kind)
    BY DEF Idle
  <1>3. job'[r].pc = LoopTop(kind)
    BY <1>1, <1>2 DEF IInv, JobsOK
  <1> QED BY <1>1, <1>3 DEF OnItsWay, LoopTop

(* A request's step leaves the jobs of the others alone.                   *)
LEMMA OthersJobs ==
    ASSUME IInv, NEW q \in Req, NEW r \in Req, q # r,
           (\E kind \in Kind : Arrive(q, kind)) \/ Proceed(q) \/ Upstream(q) \/ Cancel(q)
    PROVE  job'[r] = job[r]
  <1> DEFINE Own == \E i : job' = [job EXCEPT ![q] = i]
  <1>a. /\ \A pc : Goto(q, pc) => Own
        /\ \A pc : Relay(q, pc) => Own
        /\ Done(q) => Own
        /\ \A fast \in BOOLEAN : NextAttempt(q, fast) => Own
    BY DEF Goto, Relay, Done, NextAttempt
  <1>1. Own
    <2>1. (\E kind \in Kind : Arrive(q, kind)) => Own
      BY DEF Arrive
    <2>2. \A k \in Key : Select(q, k) => Own
      <3> SUFFICES ASSUME NEW k \in Key, Select(q, k) PROVE Own
        OBVIOUS
      <3>1. job' = [job EXCEPT ![q] =
                      [job[q] EXCEPT !.pc = "begun", !.key = k, !.tried = @ \cup {k}]]
        BY DEF Select, IInv, JobsOK
      <3> QED BY <3>1
    <2>3. \A s \in UpStatus : ReplyError(q, s) => Own
      <3> SUFFICES ASSUME NEW s \in UpStatus, ReplyError(q, s) PROVE Own
        OBVIOUS
      <3>1. \/ Done(q)
            \/ job' = [job EXCEPT ![q] = [job[q] EXCEPT !.pc = "errbody", !.status = s]]
        BY DEF ReplyError
      <3> QED BY <1>a, <3>1
    <2>4. Cancel(q) \/ (Upstream(q) /\ ~\E s \in UpStatus : ReplyError(q, s)) => Own
      BY <1>a DEF Cancel, Upstream, ReplyOk, ConnError
    <2>5. Proceed(q) /\ ~(\E k \in Key : Select(q, k)) => Own
      BY <1>a DEF Proceed, Admitted, Refused, NoneSelected, Unusable, Send, BodyRead,
         StreamDone, StreamCut, ErrorReported, Settle, ConnReported, Exhausted, OverBudget,
         Sleep, Wake
    <2> QED BY <2>1, <2>2, <2>3, <2>4, <2>5 DEF Upstream
  <1> QED BY <1>1 DEF IInv, JobsOK

(* What was sent during the present Open phase was sent once, and whoever  *)
(* sent it is not on its way to another attempt before it has asked again. *)
SentOK ==
    /\ sent_open \in [Req -> 0 .. 1]
    /\ \A r \in Req : sent_open[r] = 1 =>
          /\ job[r].kind \in BreakerKinds
          /\ job[r].pc \notin {"idle", "select", "begun"}

LEMMA SentStep ==
    ASSUME IInv, IInv', CB!TypeOK, SentOK, HNext
    PROVE  SentOK'
  <1>1. ASSUME NEW r \in Req PROVE OnItsWay(r)
    <2>1. ASSUME NEW q \in Req,
                 (\E kind \in Kind : Arrive(q, kind)) \/ Proceed(q) \/ Upstream(q) \/ Cancel(q)
          PROVE  OnItsWay(r)
      <3>1. CASE q # r
        BY <2>1, <3>1, OthersJobs DEF OnItsWay
      <3>2. CASE q = r
        BY <2>1, <3>2, ProceedOnItsWay, UpstreamOnItsWay, ArriveOnItsWay
      <3> QED BY <3>1, <3>2
    <2>2. CASE CooldownEnds \/ Tick
      BY <2>2 DEF CooldownEnds, Tick, OnItsWay
    <2> QED BY <2>1, <2>2 DEF HNext, Next
  <1> DEFINE Quiet(r) == \/ ~IsOpen(ModelOf[r])'
                         \/ job'[r].pc \in {"idle", "body", "stream"}
                         \/ ~UsesBreaker(r)
             New(r) == IF Quiet(r) THEN 0
                       ELSE IF job'[r].pc = "sent" /\ ~At(r, {"sent"})
                            THEN sent_open[r] + 1 ELSE sent_open[r]
  <1>2. sent_open' = [r \in Req |-> New(r)]
    BY DEF HNext
  <1>3. ASSUME NEW r \in Req
        PROVE  /\ New(r) \in 0 .. 1
               /\ New(r) = 1 => /\ job'[r].kind \in BreakerKinds
                                /\ job'[r].pc \notin {"idle", "select", "begun"}
    <2>1. sent_open[r] \in 0 .. 1 /\ OnItsWay(r)
      BY <1>1 DEF SentOK
    <2>2. CASE Quiet(r)
      BY <2>2
    <2>3. CASE ~Quiet(r)
      <3>1. /\ IsOpen(ModelOf[r])' /\ job'[r].pc \notin {"idle", "body", "stream"}
            /\ job[r].kind \in BreakerKinds
        BY <2>3 DEF UsesBreaker, BreakerKinds
      <3>2. New(r) = IF job'[r].pc = "sent" /\ job[r].pc # "sent"
                     THEN sent_open[r] + 1 ELSE sent_open[r]
        BY <2>3 DEF At
      <3>3. sent_open[r] = 1 => job[r].pc \notin {"idle", "select", "begun"}
        BY DEF SentOK
      <3> HIDE DEF Quiet, New
      <3>4. CASE job'[r] = job[r]
        BY <2>1, <3>1, <3>2, <3>3, <3>4
      <3>5. CASE job[r].pc = "idle" /\ job'[r].pc \in {"gate", "select"}
        BY <2>1, <3>2, <3>3, <3>5
      <3>6. CASE /\ job'[r].kind = job[r].kind
                 /\ job'[r].pc \notin {"select", "begun", "sent"}
        BY <2>1, <3>1, <3>2, <3>6
      <3>7. CASE job[r].pc = "select" /\ job'[r].pc = "begun"
        BY <2>1, <3>2, <3>3, <3>7
      <3>8. CASE /\ job'[r].kind = job[r].kind
                 /\ job[r].pc = "begun" /\ job'[r].pc = "sent"
        BY <2>1, <3>1, <3>2, <3>3, <3>8
      <3> QED BY <2>1, <3>1, <3>4, <3>5, <3>6, <3>7, <3>8 DEF OnItsWay
    <2> QED BY <2>2, <2>3
  <1> QED BY <1>2, <1>3 DEF SentOK

(* The history leaves the gateway alone.                                   *)
LEMMA HistorySpec == HSpec => Spec
  <1>1. [HNext]_hvars => [Next]_vars
    BY DEF HNext, hvars
  <1> QED BY <1>1, PTL DEF HSpec, HInit, Spec

(* During one Open phase of its model's breaker a request reaches the      *)
(* upstream at most once, with the attempt admitted before.                *)
THEOREM OnceWhileOpenAlways == HSpec => []OnceWhileOpen
  <1>1. HInit => SentOK
    <2>1. Idle.pc = "idle"
      BY DEF Idle
    <2> QED BY <2>1 DEF HInit, SentOK
  <1>2. IInv /\ IInv' /\ TypeOK /\ SentOK /\ [HNext]_hvars => SentOK'
    <2> SUFFICES ASSUME IInv, IInv', TypeOK, SentOK, [HNext]_hvars
                 PROVE  SentOK'
      OBVIOUS
    <2>1. CASE HNext
      BY <2>1, SentStep DEF TypeOK
    <2>2. CASE UNCHANGED hvars
      BY <2>2 DEF hvars, vars, SentOK
    <2> QED BY <2>1, <2>2
  <1>3. SentOK => OnceWhileOpen
    <2> SUFFICES ASSUME SentOK, NEW r \in Req PROVE sent_open[r] <= 1
      BY DEF OnceWhileOpen
    <2>1. sent_open[r] \in 0 .. 1
      BY DEF SentOK
    <2> QED BY <2>1
  <1> QED BY <1>1, <1>2, <1>3, HistorySpec, InvAlways, TypeCorrect, PTL DEF HSpec

-----------------------------------------------------------------------------
(* The model of a request.                                                 *)

(* The first of the six attempts that finds something.                     *)
LEMMA FirstAttempt ==
    ASSUME NEW found, found \subseteq 1 .. 6, found # {}
    PROVE  Min(found) \in found /\ \A i \in found : Min(found) <= i
<1>1. \E i \in found : \A j \in found : i <= j
  <2>1. PICK i \in found : TRUE
    OBVIOUS
  <2>2. CASE 1 \in found
    BY <2>2
  <2>3. CASE 1 \notin found /\ 2 \in found
    <3>1. \A j \in found : 2 <= j
      BY <2>3
    <3> QED BY <2>3, <3>1
  <2>4. CASE found \subseteq 3 .. 6 /\ 3 \in found
    BY <2>4
  <2>5. CASE found \subseteq 4 .. 6 /\ 4 \in found
    BY <2>5
  <2>6. CASE found \subseteq 5 .. 6 /\ 5 \in found
    BY <2>6
  <2>7. CASE found = {6}
    BY <2>7
  <2> QED BY <2>1, <2>2, <2>3, <2>4, <2>5, <2>6, <2>7
<1> QED BY <1>1 DEF Min

(* validate_and_correct_model: a name is corrected to nothing but an id of *)
(* the catalogue, or stays as it is; and a name that is an id stays, even  *)
(* where it is also another model's alias or differs from another id in    *)
(* capitals or separators only.                                            *)
THEOREM IdsStay ==
    ASSUME NEW name
    PROVE  /\ Corrections(name) \subseteq Catalog \cup {name}
           /\ name \in Catalog => Corrections(name) = {name}
<1> DEFINE found == {i \in 1 .. 6 : Attempts(name)[i] # {}}
<1>1. Corrections(name) = IF name = <<>> \/ found = {} THEN {name} ELSE Attempts(name)[Min(found)]
  BY DEF Corrections
<1>2. \A i \in 1 .. 6 : Attempts(name)[i] \subseteq Catalog
  BY DEF Attempts
<1>3. name \in Catalog => Attempts(name)[1] = {name}
  BY DEF Attempts
<1>4. CASE name = <<>> \/ found = {}
  BY <1>1, <1>4
<1>5. CASE name # <<>> /\ found # {}
  <2>1. found \subseteq 1 .. 6
    OBVIOUS
  <2>2. \A i \in 1 .. 6 : i \in found <=> Attempts(name)[i] # {}
    OBVIOUS
  <2> HIDE DEF found
  <2>3. Min(found) \in found /\ \A i \in found : Min(found) <= i
    BY <1>5, <2>1, FirstAttempt
  <2>4. Corrections(name) = Attempts(name)[Min(found)]
    BY <1>1, <1>5
  <2>5. ASSUME name \in Catalog PROVE Min(found) = 1
    <3>1. 1 \in found
      BY <1>3, <2>2, <2>5
    <3>2. PICK n : n = Min(found)
      OBVIOUS
    <3>3. n \in 1 .. 6 /\ n <= 1
      BY <2>1, <2>3, <3>1, <3>2
    <3> QED BY <3>2, <3>3
  <2> QED BY <1>2, <1>3, <2>1, <2>3, <2>4, <2>5
<1> QED BY <1>4, <1>5

-----------------------------------------------------------------------------
(* The parameters of a request.  The bounds of max_tokens are large        *)
(* literals, which Zenon writes out in unary: where they are expanded, SMT *)
(* is asked for.                                                           *)

(* The extremes of two numbers.                                            *)
LEMMA Extremes ==
    ASSUME NEW a \in Int, NEW b \in Int
    PROVE  /\ Max({a, b}) = IF a >= b THEN a ELSE b
           /\ Min({a, b}) = IF a <= b THEN a ELSE b
<1>1. CASE a >= b
  <2>1. Max({a, b}) = a
    BY <1>1 DEF Max
  <2>2. Min({a, b}) = b
    BY <1>1 DEF Min
  <2> QED BY <1>1, <2>1, <2>2
<1>2. CASE a < b
  <2>1. Max({a, b}) = b
    BY <1>2 DEF Max
  <2>2. Min({a, b}) = a
    BY <1>2 DEF Min
  <2> QED BY <1>2, <2>1, <2>2
<1> QED BY <1>1, <1>2

(* Rounding towards zero keeps within bounds that are integers, and leaves *)
(* an integer alone.                                                       *)
LEMMA Truncated ==
    ASSUME NEW x \in Int, NEW a \in Int, NEW b \in Int, 2 * a <= x, x <= 2 * b
    PROVE  /\ Truncate(x) \in Int /\ Truncate(x) % 2 = 0
           /\ 2 * a <= Truncate(x) /\ Truncate(x) <= 2 * b
           /\ x % 2 = 0 => Truncate(x) = x
<1>1. PICK k \in Int, d \in {0, 1} : x = 2 * k + d /\ x % 2 = d
  <2>1. x = 2 * (x \div 2) + (x % 2) /\ x \div 2 \in Int /\ x % 2 \in {0, 1}
    OBVIOUS
  <2> QED BY <2>1
<1>2. Truncate(x) = 2 * k \/ (Truncate(x) = 2 * (k + 1) /\ x < 0 /\ d = 1)
  BY <1>1 DEF Truncate
<1>3. \A i \in Int : (2 * i) % 2 = 0
  OBVIOUS
<1>4. CASE Truncate(x) = 2 * k
  <2>1. a <= k /\ k <= b
    BY <1>1
  <2> QED BY <1>1, <1>3, <1>4, <2>1
<1>5. CASE Truncate(x) = 2 * (k + 1) /\ d = 1
  <2>1. a <= k + 1 /\ k + 1 <= b
    BY <1>1, <1>5
  <2> QED BY <1>1, <1>3, <1>5, <2>1
<1> QED BY <1>2, <1>4, <1>5

(* The limits of the number types.                                         *)
LEMMA Widths ==
    /\ MANTISSA \in Int /\ 1000 < MANTISSA
    /\ HUGE \in Int /\ HUGE = 16 * MANTISSA
    /\ I64_MAX \in Int /\ I64_MAX = 8 * MANTISSA - 2 /\ I64_MAX = 2 * (4 * MANTISSA - 1)
BY ValidationConstants, SMT DEF HUGE, I64_MAX

JsonNumber == -HUGE .. HUGE

LEMMA Grained ==
    ASSUME NEW x \in JsonNumber
    PROVE  /\ Grain(x) \in {1, 2, 4, 8, 16}
           /\ -MANTISSA <= x /\ x <= MANTISSA => Grain(x) = 1
           /\ -(2 * MANTISSA) <= x /\ x <= 2 * MANTISSA => Grain(x) \in {1, 2}
<1> DEFINE Fit(g) == /\ -(g * MANTISSA) <= x /\ x <= g * MANTISSA
                     /\ g = 1 \/ x < -((g \div 2) * MANTISSA) \/ (g \div 2) * MANTISSA < x
<1>1. x \in Int /\ -(16 * MANTISSA) <= x /\ x <= 16 * MANTISSA
  BY Widths DEF JsonNumber
<1>2. /\ Fit(1) <=> -MANTISSA <= x /\ x <= MANTISSA
      /\ Fit(2) <=> /\ -(2 * MANTISSA) <= x /\ x <= 2 * MANTISSA
                    /\ x < -MANTISSA \/ MANTISSA < x
      /\ Fit(4) <=> /\ -(4 * MANTISSA) <= x /\ x <= 4 * MANTISSA
                    /\ x < -(2 * MANTISSA) \/ 2 * MANTISSA < x
      /\ Fit(8) <=> /\ -(8 * MANTISSA) <= x /\ x <= 8 * MANTISSA
                    /\ x < -(4 * MANTISSA) \/ 4 * MANTISSA < x
      /\ Fit(16) <=> /\ -(16 * MANTISSA) <= x /\ x <= 16 * MANTISSA
                     /\ x < -(8 * MANTISSA) \/ 8 * MANTISSA < x
  BY <1>1, Widths, SMT
<1>3. Grain(x) = CHOOSE g \in {1, 2, 4, 8, 16} : Fit(g)
  BY DEF Grain
<1> HIDE DEF Fit
<1>4. \E g \in {1, 2, 4, 8, 16} : Fit(g)
  <2>1. Fit(1) \/ Fit(2) \/ Fit(4) \/ Fit(8) \/ Fit(16)
    BY <1>1, <1>2, Widths
  <2> QED BY <2>1
<1>5. Grain(x) \in {1, 2, 4, 8, 16} /\ Fit(Grain(x))
  BY <1>3, <1>4
<1>6. -MANTISSA <= x /\ x <= MANTISSA => Grain(x) = 1
  BY <1>1, <1>2, <1>5, Widths
<1>7. -(2 * MANTISSA) <= x /\ x <= 2 * MANTISSA => Grain(x) \in {1, 2}
  BY <1>1, <1>2, <1>5, Widths
<1> QED BY <1>5, <1>6, <1>7

(* The nearest multiple is near, and a multiple is its own.                *)
LEMMA Nearly ==
    ASSUME NEW x \in Int, NEW g \in {1, 2, 4, 8, 16}
    PROVE  /\ Nearest(x, g) \in Int
           /\ x - 16 <= Nearest(x, g) /\ Nearest(x, g) <= x + 16
           /\ x >= 0 => Nearest(x, g) >= 0
           /\ g = 1 \/ (g = 2 /\ x % 2 = 0) => Nearest(x, g) = x
<1>1. CASE g = 1
  <2>1. x \div 1 = x /\ x % 1 = 0
    OBVIOUS
  <2> QED BY <1>1, <2>1, SMT DEF Nearest
<1>2. CASE g = 2
  <2>1. x = 2 * (x \div 2) + (x % 2) /\ x \div 2 \in Int /\ x % 2 \in 0 .. 1
    OBVIOUS
  <2> QED BY <1>2, <2>1, SMT DEF Nearest
<1>3. CASE g = 4
  <2>1. x = 4 * (x \div 4) + (x % 4) /\ x \div 4 \in Int /\ x % 4 \in 0 .. 3
    OBVIOUS
  <2> QED BY <1>3, <2>1, SMT DEF Nearest
<1>4. CASE g = 8
  <2>1. x = 8 * (x \div 8) + (x % 8) /\ x \div 8 \in Int /\ x % 8 \in 0 .. 7
    OBVIOUS
  <2> QED BY <1>4, <2>1, SMT DEF Nearest
<1>5. CASE g = 16
  <2>1. x = 16 * (x \div 16) + (x % 16) /\ x \div 16 \in Int /\ x % 16 \in 0 .. 15
    OBVIOUS
  <2> QED BY <1>5, <2>1, SMT DEF Nearest
<1> QED BY <1>1, <1>2, <1>3, <1>4, <1>5

(* as_f64 moves no number far, none below zero, and none of at most 53     *)
(* bits.                                                                   *)
LEMMA Floated ==
    ASSUME NEW x \in JsonNumber
    PROVE  /\ x \in Int /\ Float(x) \in Int
           /\ x - 16 <= Float(x) /\ Float(x) <= x + 16
           /\ x >= 0 => Float(x) >= 0
           /\ -MANTISSA <= x /\ x <= MANTISSA => Float(x) = x
           /\ -(2 * MANTISSA) <= x /\ x <= 2 * MANTISSA /\ x % 2 = 0 => Float(x) = x
<1>1. x \in Int
  BY Widths DEF JsonNumber
<1>2. PICK g \in {1, 2, 4, 8, 16} : g = Grain(x) /\ Float(x) = Nearest(x, g)
  BY Grained DEF Float
<1>3. /\ -MANTISSA <= x /\ x <= MANTISSA => g = 1
      /\ -(2 * MANTISSA) <= x /\ x <= 2 * MANTISSA => g \in {1, 2}
  BY <1>2, Grained
<1>4. /\ Nearest(x, g) \in Int
      /\ x - 16 <= Nearest(x, g) /\ Nearest(x, g) <= x + 16
      /\ x >= 0 => Nearest(x, g) >= 0
      /\ g = 1 \/ (g = 2 /\ x % 2 = 0) => Nearest(x, g) = x
  BY <1>1, Nearly
<1> QED BY <1>1, <1>2, <1>3, <1>4

(* The bounds of a parameter are integers, all of them small but for those *)
(* of seed, which takes all that are not negative.                         *)
Small(range) == \E a, b \in Int : /\ a <= b /\ range.min = 2 * a /\ range.max = 2 * b
                                  /\ 16 - MANTISSA < 2 * a /\ 2 * b < MANTISSA - 16
Wide(range) == range.min = 0 /\ range.max = HUGE /\ range.is_int

LEMMA RangesFit ==
    ASSUME NEW f \in Param
    PROVE  (Small(PARAM_RANGES[f]) \/ Wide(PARAM_RANGES[f])) /\ f # "stream"
<1>1. ASSUME NEW range, NEW a \in Int, NEW b \in Int, -2 <= a, a <= b, b <= 200,
             range.min = 2 * a, range.max = 2 * b
      PROVE  Small(range)
  <2>1. 16 - MANTISSA < 2 * a /\ 2 * b < MANTISSA - 16
    BY <1>1, Widths
  <2> QED BY <1>1, <2>1 DEF Small
<1>2. ASSUME NEW range, range.min = 2 * 1, range.max = 2 * 131072
      PROVE  Small(range)
  <2>1. 16 - MANTISSA < 2 * 1 /\ 2 * 131072 < MANTISSA - 16 /\ 1 <= 131072
    BY ValidationConstants, SMT
  <2>2. 1 \in Int /\ 131072 \in Int
    BY SMT
  <2> QED BY <1>2, <2>1, <2>2, SMT DEF Small
<1>3. f \in {"temperature", "top_p", "top_k", "max_tokens", "max_completion_tokens",
             "frequency_penalty", "presence_penalty", "seed", "n"}
  BY SMT DEF Param, PARAM_RANGES
<1>4. f # "stream"
  BY <1>3
<1>5. Small(PARAM_RANGES.temperature)
  <2>1. PARAM_RANGES.temperature.min = 2 * 0 /\ PARAM_RANGES.temperature.max = 2 * 2
    BY SMT DEF PARAM_RANGES, ParamRange
  <2> QED BY <1>1, <2>1, SMT
<1>6. Small(PARAM_RANGES.top_p)
  <2>1. PARAM_RANGES.top_p.min = 2 * 0 /\ PARAM_RANGES.top_p.max = 2 * 1
    BY SMT DEF PARAM_RANGES, ParamRange
  <2> QED BY <1>1, <2>1, SMT
<1>7. Small(PARAM_RANGES.top_k)
  <2>1. PARAM_RANGES.top_k.min = 2 * (-1) /\ PARAM_RANGES.top_k.max = 2 * 200
    BY SMT DEF PARAM_RANGES, ParamRange
  <2> QED BY <1>1, <2>1, SMT
<1>8. Small(PARAM_RANGES.max_tokens)
  <2>1. PARAM_RANGES.max_tokens.min = 2 * 1 /\ PARAM_RANGES.max_tokens.max = 2 * 131072
    BY SMT DEF PARAM_RANGES, ParamRange
  <2> QED BY <1>2, <2>1, SMT
<1>9. Small(PARAM_RANGES.max_completion_tokens)
  <2>1. /\ PARAM_RANGES.max_completion_tokens.min = 2 * 1
        /\ PARAM_RANGES.max_completion_tokens.max = 2 * 131072
    BY SMT DEF PARAM_RANGES, ParamRange
  <2> QED BY <1>2, <2>1, SMT
<1>10. Small(PARAM_RANGES.frequency_penalty)
  <2>1. PARAM_RANGES.frequency_penalty.min = 2 * (-2) /\ PARAM_RANGES.frequency_penalty.max = 2 * 2
    BY SMT DEF PARAM_RANGES, ParamRange
  <2> QED BY <1>1, <2>1, SMT
<1>11. Small(PARAM_RANGES.presence_penalty)
  <2>1. PARAM_RANGES.presence_penalty.min = 2 * (-2) /\ PARAM_RANGES.presence_penalty.max = 2 * 2
    BY SMT DEF PARAM_RANGES, ParamRange
  <2> QED BY <1>1, <2>1, SMT
<1>12. Wide(PARAM_RANGES.seed)
  <2>1. /\ PARAM_RANGES.seed.min = 0 /\ PARAM_RANGES.seed.max = HUGE
        /\ PARAM_RANGES.seed.is_int = TRUE
    BY SMT DEF PARAM_RANGES
  <2> QED BY <2>1 DEF Wide
<1>13. Small(PARAM_RANGES.n)
  <2>1. PARAM_RANGES.n.min = 2 * 1 /\ PARAM_RANGES.n.max = 2 * 128
    BY SMT DEF PARAM_RANGES, ParamRange
  <2> QED BY <1>1, <2>1, SMT
<1> HIDE DEF Param
<1> QED BY <1>3, <1>4, <1>5, <1>6, <1>7, <1>8, <1>9, <1>10, <1>11, <1>12, <1>13, SMT

(* What Clamp cuts to, before it makes an integer of it.                   *)
Cut(x, range) == Min({Max({Float(x), range.min}), range.max})

LEMMA CutTo ==
    ASSUME NEW x \in JsonNumber, NEW range, NEW min \in Int, NEW max \in Int, min <= max,
           range.min = min, range.max = max
    PROVE  /\ Cut(x, range) \in Int /\ min <= Cut(x, range) /\ Cut(x, range) <= max
           /\ min <= Float(x) /\ Float(x) <= max => Cut(x, range) = Float(x)
<1>1. PICK y \in Int : y = Float(x)
  BY Floated
<1>2. PICK least : least = Max({y, min})
  OBVIOUS
<1>3. least \in Int /\ least = IF y >= min THEN y ELSE min
  BY <1>2, Extremes
<1>4. Min({least, max}) = IF least <= max THEN least ELSE max
  BY <1>3, Extremes
<1>5. Cut(x, range) = Min({least, max})
  BY <1>1, <1>2 DEF Cut
<1> QED BY <1>1, <1>3, <1>4, <1>5

Cutoff(x, range) == IF range.is_int THEN AsI64(Cut(x, range)) ELSE Cut(x, range)

(* Within the range it stays, also read again as a float; an integer up to *)
(* 2^53 that was there is the same.                                        *)
LEMMA Clamped ==
    ASSUME NEW range, Small(range) \/ Wide(range), NEW x \in JsonNumber
    PROVE  LET c == Clamp(x, range)
           IN  /\ range.min <= Float(c) /\ Float(c) <= range.max
               /\ range.is_int => c % 2 = 0
               /\ /\ range.min <= Float(x) /\ Float(x) <= range.max
                  /\ range.is_int => x % 2 = 0
                  /\ x <= 2 * MANTISSA
                  => c = x
<1>1. x \in Int /\ Float(x) \in Int /\ x - 16 <= Float(x) /\ Float(x) <= x + 16
      /\ (-MANTISSA <= x /\ x <= MANTISSA => Float(x) = x)
      /\ (-(2 * MANTISSA) <= x /\ x <= 2 * MANTISSA /\ x % 2 = 0 => Float(x) = x)
  BY Floated
<1>2. Clamp(x, range) = Cutoff(x, range)
  BY DEF Clamp, Cutoff, Cut
<1>3. ASSUME NEW t \in Int
      PROVE  Min({t, I64_MAX}) = IF t <= I64_MAX THEN t ELSE I64_MAX
  BY <1>3, Widths, Extremes
<1>4. CASE Small(range)
  <2>1. PICK a \in Int, b \in Int : /\ a <= b /\ range.min = 2 * a /\ range.max = 2 * b
                                    /\ 16 - MANTISSA < 2 * a /\ 2 * b < MANTISSA - 16
    BY <1>4 DEF Small
  <2>2. PICK c : c = Cut(x, range)
    OBVIOUS
  <2>3. /\ c \in Int /\ 2 * a <= c /\ c <= 2 * b
        /\ 2 * a <= Float(x) /\ Float(x) <= 2 * b => c = Float(x)
    <3>1. 2 * a \in Int /\ 2 * b \in Int /\ 2 * a <= 2 * b
      BY <2>1
    <3> QED BY <2>1, <2>2, <3>1, CutTo
  <2>4. /\ Truncate(c) \in Int /\ Truncate(c) % 2 = 0
        /\ 2 * a <= Truncate(c) /\ Truncate(c) <= 2 * b
        /\ c % 2 = 0 => Truncate(c) = c
    BY <2>3, Truncated
  <2>5. AsI64(c) = Truncate(c)
    <3>1. PICK t \in Int : t = Truncate(c)
      BY <2>4
    <3>2. t <= I64_MAX
      BY <2>1, <2>4, <3>1, Widths
    <3> QED BY <1>3, <3>1, <3>2 DEF AsI64
  <2>6. PICK d : d = Clamp(x, range)
    OBVIOUS
  <2>7. d = IF range.is_int THEN Truncate(c) ELSE c
    BY <1>2, <2>2, <2>5, <2>6 DEF Cutoff
  <2>8. d \in Int /\ 2 * a <= d /\ d <= 2 * b /\ (range.is_int => d % 2 = 0)
    BY <2>3, <2>4, <2>7
  <2>9. Float(d) = d
    <3>1. -MANTISSA <= d /\ d <= MANTISSA
      BY <2>1, <2>8, Widths
    <3>2. d \in JsonNumber
      BY <2>8, <3>1, Widths DEF JsonNumber
    <3> QED BY <3>1, <3>2, Floated
  <2>10. ASSUME 2 * a <= Float(x), Float(x) <= 2 * b, range.is_int => x % 2 = 0
         PROVE  d = x
    <3>1. -MANTISSA <= x /\ x <= MANTISSA
      BY <1>1, <2>1, <2>10, Widths
    <3>2. c = x
      BY <1>1, <2>3, <2>10, <3>1
    <3> QED BY <2>4, <2>7, <2>10, <3>2
  <2> QED BY <2>1, <2>6, <2>8, <2>9, <2>10
<1>5. CASE Wide(range)
  <2>1. range.min = 0 /\ range.max = HUGE /\ range.is_int
    BY <1>5 DEF Wide
  <2>2. PICK c : c = Cut(x, range)
    OBVIOUS
  <2>3. /\ c \in Int /\ 0 <= c /\ c <= HUGE
        /\ 0 <= Float(x) /\ Float(x) <= HUGE => c = Float(x)
    <3>1. 0 \in Int /\ HUGE \in Int /\ 0 <= HUGE
      BY Widths
    <3> QED BY <2>1, <2>2, <3>1, CutTo
  <2>4. /\ Truncate(c) \in Int /\ Truncate(c) % 2 = 0 /\ 0 <= Truncate(c)
        /\ c % 2 = 0 => Truncate(c) = c
    <3>1. PICK a \in Int, b \in Int : a = 0 /\ b = 8 * MANTISSA
      BY Widths
    <3>2. 2 * a <= c /\ c <= 2 * b /\ 2 * a = 0
      BY <2>3, <3>1, Widths
    <3>3. /\ Truncate(c) \in Int /\ Truncate(c) % 2 = 0
          /\ 2 * a <= Truncate(c)
          /\ c % 2 = 0 => Truncate(c) = c
      BY <2>3, <3>2, Truncated
    <3> QED BY <3>2, <3>3
  <2>5. PICK t \in Int : t = Truncate(c)
    BY <2>4
  <2>6. PICK d : d = Clamp(x, range)
    OBVIOUS
  <2>7. d = IF t <= I64_MAX THEN t ELSE I64_MAX
    <3>1. d = AsI64(c)
      BY <1>2, <2>1, <2>2, <2>6 DEF Cutoff
    <3> QED BY <1>3, <2>5, <3>1 DEF AsI64
  <2>8. d \in Int /\ 0 <= d /\ d <= I64_MAX /\ d % 2 = 0
    <3>1. I64_MAX % 2 = 0
      <4>1. \A i \in Int : (2 * i) % 2 = 0
        OBVIOUS
      <4>2. PICK i \in Int : i = 4 * MANTISSA - 1
        BY Widths
      <4> QED BY <4>1, <4>2, Widths
    <3> QED BY <2>4, <2>5, <2>7, <3>1, Widths
  <2>9. 0 <= Float(d) /\ Float(d) <= HUGE
    <3>1. d \in JsonNumber
      BY <2>8, Widths DEF JsonNumber
    <3>2. Float(d) \in Int /\ 0 <= Float(d) /\ Float(d) <= d + 16
      BY <2>8, <3>1, Floated
    <3> QED BY <2>8, <3>2, Widths
  <2>10. ASSUME 0 <= Float(x), Float(x) <= HUGE, x % 2 = 0, x <= 2 * MANTISSA
         PROVE  d = x
    <3>1. -(2 * MANTISSA) <= x
      BY <1>1, <2>10, Widths
    <3>2. c = x
      BY <1>1, <2>3, <2>10, <3>1
    <3>3. t = x /\ x <= I64_MAX
      BY <1>1, <2>4, <2>5, <2>10, <3>2, Widths
    <3> QED BY <2>7, <3>3
  <2> QED BY <2>1, <2>6, <2>8, <2>9, <2>10
<1> QED BY <1>4, <1>5

(* Whatever fields a body has and whatever numbers are in them, what       *)
(* validate_and_sanitize leaves of it passes the check of the same ranges  *)
(* that follows, which reads it as floats once more.                       *)
THEOREM SanitizingSuffices ==
    ASSUME NEW body,
           \A f \in DOMAIN body \cap Param : IsNumber(body[f]) => body[f].num \in JsonNumber
    PROVE  Accepted(Sanitized(body))
<1> DEFINE sane == Sanitized(body)
<1> SUFFICES ASSUME NEW f \in DOMAIN sane \cap Param, IsNumber(sane[f])
             PROVE  /\ PARAM_RANGES[f].min <= Float(sane[f].num)
                    /\ Float(sane[f].num) <= PARAM_RANGES[f].max
  BY DEF Accepted
<1>1. f \in DOMAIN body /\ f # "stream"
  BY RangesFit DEF Sanitized
<1>2. sane[f] = IF IsNumber(body[f]) THEN [num |-> Clamp(body[f].num, PARAM_RANGES[f])]
                ELSE body[f]
  BY <1>1 DEF Sanitized
<1>3. IsNumber(body[f])
  BY <1>2
<1>4. sane[f].num = Clamp(body[f].num, PARAM_RANGES[f])
  BY <1>2, <1>3
<1> QED BY <1>1, <1>3, <1>4, RangesFit, Clamped

LEMMA SampleAccepted ==
    ASSUME sample \in Sample
    PROVE  SanitizedIsAccepted
<1> SUFFICES ASSUME "param" \in DOMAIN sample
             PROVE  LET f == sample.param
                        body == [g \in {f} |-> Number(sample.number)]
                        sane == Sanitized(body)
                        right == Accepted(body)
                                 /\ (PARAM_RANGES[f].is_int => sample.number % 2 = 0)
                    IN  /\ Accepted(sane)
                        /\ PARAM_RANGES[f].is_int => sane[f].num % 2 = 0
                        /\ right /\ sample.number <= 2 * MANTISSA => sane = body
  BY DEF SanitizedIsAccepted
<1>1. PICK f \in Param : sample \in [param : {f}, number : Numbers(PARAM_RANGES[f])]
  <2>1. sample # NoSample
    <3>1. DOMAIN <<>> = {}
      OBVIOUS
    <3> QED BY <3>1 DEF NoSample
  <2>2. sample \notin [word : Words, other : Words]
    <3>1. \A s \in [word : Words, other : Words] : DOMAIN s = {"word", "other"}
      OBVIOUS
    <3> QED BY <3>1
  <2> QED BY <2>1, <2>2 DEF Sample
<1>2. sample.param = f /\ sample.number \in JsonNumber
  <2>1. Numbers(PARAM_RANGES[f]) \subseteq JsonNumber
    BY DEF Numbers, JsonNumber
  <2> QED BY <1>1, <2>1
<1> DEFINE x == sample.number
           body == [g \in {f} |-> Number(x)]
           sane == Sanitized(body)
           c == Clamp(x, PARAM_RANGES[f])
<1>3. /\ DOMAIN body = {f} /\ body[f] = [num |-> x] /\ IsNumber(body[f]) /\ body[f].num = x
  BY DEF Number, IsNumber
<1>4. Accepted(sane)
  <2> HIDE DEF body
  <2> QED BY <1>2, <1>3, SanitizingSuffices
<1>5. sane = [g \in {f} |-> [num |-> c]]
  <2>1. f \in Param /\ f # "stream"
    BY RangesFit
  <2> HIDE DEF body, c
  <2>2. sane[f] = [num |-> c] /\ sane = [g \in {f} |-> sane[g]]
    BY <1>3, <2>1 DEF Sanitized, c
  <2> HIDE DEF sane
  <2> QED BY <2>2
<1>6. /\ PARAM_RANGES[f].is_int => c % 2 = 0
      /\ /\ PARAM_RANGES[f].min <= Float(x) /\ Float(x) <= PARAM_RANGES[f].max
         /\ PARAM_RANGES[f].is_int => x % 2 = 0
         /\ x <= 2 * MANTISSA
         => c = x
  BY <1>2, RangesFit, Clamped
<1>7. sane[f].num = c
  BY <1>5
<1>8. Accepted(body) => PARAM_RANGES[f].min <= Float(x) /\ Float(x) <= PARAM_RANGES[f].max
  <2> HIDE DEF body
  <2> QED BY <1>3 DEF Accepted
<1>9. c = x => sane = body
  BY <1>5 DEF Number
<1> HIDE DEF sane, body, c
<1>10. /\ PARAM_RANGES[f].is_int => sane[f].num % 2 = 0
       /\ Accepted(body) /\ (PARAM_RANGES[f].is_int => x % 2 = 0) /\ x <= 2 * MANTISSA
             => sane = body
  BY <1>6, <1>7, <1>8, <1>9
<1> QED BY <1>2, <1>4, <1>10 DEF sane, body

(* Whatever the upstream, the patrol and the requests do, the parameters   *)
(* tried before their first step are cut to what is accepted (validator.rs,*)
(* validate_and_sanitize, validate_parameters), and those that were right  *)
(* and of at most 53 bits are as they were.                                *)
THEOREM ClampingSuffices == WatchSpec => []SanitizedIsAccepted
<1> DEFINE Tried == sample \in Sample
<1>1. WatchInit => Tried
  BY DEF WatchInit
<1>2. Tried /\ [WatchNext]_watchVars => Tried'
  BY DEF WatchNext, Dismiss, Go, watchVars, Sample
<1>3. Tried => SanitizedIsAccepted
  BY SampleAccepted
<1> QED BY <1>1, <1>2, <1>3, PTL DEF WatchSpec

-----------------------------------------------------------------------------
(* The prompt cache.                                                       *)

Visit == [at : {"idle", "wait", "evict", "send", "ok", "fail"},
          model : Models \cup {NoModel}, prompt : Prompt \cup {NoPrompt}]

(* A request under way has a model; one that evicts has a key.             *)
Directed(j) == /\ j.at # "idle" => j.model \in Models
               /\ j.at = "evict" => j.prompt # NoPrompt

VisitsOK == /\ req \in [Asker -> Visit]
            /\ \A r \in Asker : Directed(req[r])

KeptOK == cache \in [Models -> [Prompt -> Uncached .. TTL]]

LEMMA Span ==
    /\ Uncached = -1 /\ TTL \in Int /\ 1 <= TTL
    /\ \A age : age \in Uncached .. TTL <=> age \in Int /\ -1 <= age /\ age <= TTL
BY AdmissionConstants DEF Uncached
(* One request moves on.                                                   *)
LEMMA VisitStep ==
    ASSUME VisitsOK, NEW r \in Asker, NEW j \in Visit, Directed(j),
           req' = [req EXCEPT ![r] = j]
    PROVE  VisitsOK'
<1>1. req' \in [Asker -> Visit]
  BY DEF VisitsOK
<1>2. ASSUME NEW s \in Asker PROVE Directed(req'[s])
  <2>1. CASE s = r
    <3>1. req'[s] = j
      BY <2>1 DEF VisitsOK
    <3> QED BY <3>1
  <2>2. CASE s # r
    <3>1. req'[s] = req[s]
      BY <2>2 DEF VisitsOK
    <3> QED BY <3>1 DEF VisitsOK
  <2> QED BY <2>1, <2>2
<1> QED BY <1>1, <1>2 DEF VisitsOK

LEMMA IdleVisit == NoRequest \in Visit /\ Directed(NoRequest)
BY DEF NoRequest, Visit, Directed

LEMMA LeaveStep ==
    ASSUME VisitsOK, NEW r \in Asker, Leave(r)
    PROVE  VisitsOK'
<1> DEFINE j == NoRequest
<1>1. req' = [req EXCEPT ![r] = j]
  BY DEF Leave
<1>2. j \in Visit /\ Directed(j)
  BY IdleVisit
<1> HIDE DEF j
<1> QED BY <1>1, <1>2, VisitStep

LEMMA StageStep ==
    ASSUME VisitsOK, NEW r \in Asker, NEW pc, ~Stage(r, "idle"), ToStage(r, pc),
           pc \in {"send", "evict"}, pc = "evict" => Keyed(r)
    PROVE  VisitsOK'
<1>1. req[r] \in Visit /\ Directed(req[r])
  BY DEF VisitsOK
<1>2. PICK j : j = [req[r] EXCEPT !.at = pc]
  OBVIOUS
<1>3. j \in Visit /\ j.at = pc /\ j.model = req[r].model /\ j.prompt = req[r].prompt
  BY <1>1, <1>2 DEF Visit
<1>4. Directed(j)
  BY <1>1, <1>3 DEF Directed, Stage, Keyed
<1>5. req' = [req EXCEPT ![r] = j]
  BY <1>2 DEF ToStage
<1> QED BY <1>3, <1>4, <1>5, VisitStep

(* A request sent to the upstream gets its answer.                         *)
LEMMA AnsweredStep ==
    ASSUME VisitsOK, NEW r \in Asker, NEW pc \in {"ok", "fail"}, Stage(r, "send"),
           req' = [req EXCEPT ![r].at = pc, ![r].prompt = NoPrompt]
    PROVE  VisitsOK'
<1>1. req[r] \in Visit /\ Directed(req[r])
  BY DEF VisitsOK
<1>2. PICK i : i = [req[r] EXCEPT !.at = pc]
  OBVIOUS
<1>3. i \in Visit /\ i.at = pc /\ i.model = req[r].model
  BY <1>1, <1>2 DEF Visit
<1>4. PICK j : j = [i EXCEPT !.prompt = NoPrompt]
  OBVIOUS
<1>5. j \in Visit /\ j.at = pc /\ j.model = req[r].model
  BY <1>3, <1>4 DEF Visit
<1>6. Directed(j)
  BY <1>1, <1>5 DEF Directed, Stage
<1>7. req' = [req EXCEPT ![r] = j]
  BY <1>2, <1>4 DEF VisitsOK
<1> QED BY <1>5, <1>6, <1>7, VisitStep


(* What a step may make of an entry.                                       *)
Turns == /\ KeptOK'
         /\ \A m \in Models, p \in Prompt :
               cache'[m][p] \in {cache[m][p], Older(cache[m][p]), 0, Uncached}

(* Who is about to remove an entry was so before, or has just found it     *)
(* expired.                                                                *)
Looked(s) == /\ Entry(s) = TTL /\ UNCHANGED cache
             /\ req'[s].model = req[s].model /\ req'[s].prompt = req[s].prompt
Steady == \A s \in Asker : req'[s] = req[s] \/ req'[s].at # "evict" \/ Looked(s)

LEMMA Unturned ==
    ASSUME KeptOK, UNCHANGED cache
    PROVE  Turns
BY DEF Turns, KeptOK

LEMMA Unmoved ==
    ASSUME VisitsOK, NEW r \in Asker, NEW j, j.at # "evict" \/ Looked(r),
           req' = [req EXCEPT ![r] = j]
    PROVE  Steady
BY DEF Steady, VisitsOK

(* An entry is removed.                                                    *)
LEMMA RemoveTurns ==
    ASSUME KeptOK, NEW m \in Models, NEW p \in Prompt,
           cache' = [cache EXCEPT ![m][p] = Uncached]
    PROVE  Turns
<1>1. PICK none \in Uncached .. TTL : none = Uncached
  BY Span
<1>2. PICK row : row = [cache[m] EXCEPT ![p] = none]
  OBVIOUS
<1>3. cache[m] \in [Prompt -> Uncached .. TTL]
  BY DEF KeptOK
<1>4. row \in [Prompt -> Uncached .. TTL] /\ cache' = [cache EXCEPT ![m] = row]
  BY <1>1, <1>2, <1>3
<1>5. KeptOK'
  BY <1>4 DEF KeptOK
<1>6. ASSUME NEW n \in Models, NEW q \in Prompt
      PROVE  cache'[n][q] = cache[n][q] \/ cache'[n][q] = none
  <2>1. CASE n = m
    BY <1>2, <1>3, <1>4, <2>1 DEF KeptOK
  <2>2. CASE n # m
    BY <1>4, <2>2 DEF KeptOK
  <2> QED BY <2>1, <2>2
<1> QED BY <1>1, <1>5, <1>6 DEF Turns

(* Every entry turns.                                                      *)
LEMMA AllTurn ==
    ASSUME KeptOK, cache' = [m \in Models |-> [p \in Prompt |-> cache'[m][p]]],
           \A m \in Models, p \in Prompt :
              cache'[m][p] \in {cache[m][p], Older(cache[m][p]), 0, Uncached}
    PROVE  Turns
<1>1. ASSUME NEW age \in Uncached .. TTL
      PROVE  {age, Older(age), 0, Uncached} \subseteq Uncached .. TTL
  BY Span DEF Older
<1>2. \A m \in Models, p \in Prompt : cache[m][p] \in Uncached .. TTL
  BY DEF KeptOK
<1>3. \A m \in Models, p \in Prompt : cache'[m][p] \in Uncached .. TTL
  BY <1>1, <1>2
<1>4. KeptOK'
  BY <1>3 DEF KeptOK
<1> QED BY <1>4 DEF Turns

LEMMA PutTurns ==
    ASSUME KeptOK, NEW r \in Asker, Put(r)
    PROVE  Turns
<1>1. PICK full \in BOOLEAN :
         cache' = [m \in Models |-> [p \in Prompt |->
             IF m = req[r].model /\ p = req[r].prompt THEN 0 ELSE Kept(cache[m][p], full)]]
  BY DEF Put
<1> DEFINE G(m, p) == IF m = req[r].model /\ p = req[r].prompt THEN 0
                      ELSE Kept(cache[m][p], full)
<1>2. cache' = [m \in Models |-> [p \in Prompt |-> G(m, p)]]
  BY <1>1
<1>3. ASSUME NEW m \in Models, NEW p \in Prompt
      PROVE  G(m, p) \in {cache[m][p], Older(cache[m][p]), 0, Uncached}
  BY DEF Kept
<1> HIDE DEF G
<1>4. \A m \in Models, p \in Prompt : cache'[m][p] = G(m, p)
  BY <1>2
<1>5. cache' = [m \in Models |-> [p \in Prompt |-> cache'[m][p]]]
  BY <1>2
<1> QED BY <1>3, <1>4, <1>5, AllTurn

LEMMA AgeTurns ==
    ASSUME KeptOK, AdmissionTick
    PROVE  Turns
<1> DEFINE G(m, p) == Older(cache[m][p])
<1>1. cache' = [m \in Models |-> [p \in Prompt |-> G(m, p)]]
  BY DEF AdmissionTick
<1>2. \A m \in Models, p \in Prompt : G(m, p) \in {cache[m][p], Older(cache[m][p]), 0, Uncached}
  OBVIOUS
<1> HIDE DEF G
<1>3. \A m \in Models, p \in Prompt : cache'[m][p] = G(m, p)
  BY <1>1
<1>4. cache' = [m \in Models |-> [p \in Prompt |-> cache'[m][p]]]
  BY <1>1
<1> QED BY <1>2, <1>3, <1>4, AllTurn

LEMMA KeptHandler ==
    ASSUME VisitsOK, KeptOK, NEW r \in Asker, Handler(r)
    PROVE  VisitsOK' /\ Turns /\ Steady
<1>1. req[r] \in Visit /\ Directed(req[r])
  BY DEF VisitsOK
<1>2. ASSUME Leave(r), UNCHANGED cache PROVE VisitsOK' /\ Turns /\ Steady
  <2>1. PICK j : j = NoRequest
    OBVIOUS
  <2>2. req' = [req EXCEPT ![r] = j] /\ j.at # "evict"
    BY <1>2, <2>1 DEF Leave, NoRequest
  <2> QED BY <1>2, <2>2, LeaveStep, Unturned, Unmoved
<1>3. ASSUME NEW m \in Models, Direct(r, m) PROVE VisitsOK' /\ Turns /\ Steady
  <2>1. PICK j : j = [NoRequest EXCEPT !.at = "send", !.model = m]
    OBVIOUS
  <2>2. j = [at |-> "send", model |-> m, prompt |-> NoPrompt]
    BY <2>1 DEF NoRequest
  <2>3. j \in Visit /\ Directed(j) /\ j.at # "evict"
    BY <2>2 DEF Visit, Directed
  <2>4. req' = [req EXCEPT ![r] = j] /\ UNCHANGED cache
    BY <1>3, <2>1 DEF Direct
  <2> QED BY <2>3, <2>4, VisitStep, Unturned, Unmoved
<1>4. ASSUME NEW m \in Models, NEW p \in Prompt, NEW keyed \in BOOLEAN, Chat(r, m, p, keyed)
      PROVE  VisitsOK' /\ Turns /\ Steady
  <2>1. PICK j : j = Asked(m, p, keyed)
    OBVIOUS
  <2>2. j \in Visit /\ Directed(j) /\ j.at # "evict"
    <3>1. CASE keyed
      <4>1. j = [at |-> "wait", model |-> m, prompt |-> p]
        BY <2>1, <3>1 DEF Asked
      <4> QED BY <4>1 DEF Visit, Directed
    <3>2. CASE ~keyed
      <4>1. j = [at |-> "wait", model |-> m, prompt |-> NoPrompt]
        BY <2>1, <3>2 DEF Asked
      <4> QED BY <4>1 DEF Visit, Directed
    <3> QED BY <3>1, <3>2
  <2>3. req' = [req EXCEPT ![r] = j] /\ UNCHANGED cache
    BY <1>4, <2>1 DEF Chat
  <2> QED BY <2>2, <2>3, VisitStep, Unturned, Unmoved
<1>5. CASE TurnedAway(r)
  BY <1>2, <1>5 DEF TurnedAway
<1>6. CASE Lookup(r)
  <2>1. UNCHANGED cache /\ ~Stage(r, "idle")
    BY <1>6 DEF Lookup, Stage
  <2>2. CASE Hit(r)
    BY <1>2, <1>6, <2>1, <2>2 DEF Lookup
  <2>3. CASE ~Hit(r)
    <3>1. PICK pc : pc = IF Keyed(r) /\ Entry(r) # Uncached THEN "evict" ELSE "send"
      OBVIOUS
    <3>2. ToStage(r, pc) /\ Stage(r, "wait")
      BY <1>6, <2>3, <3>1 DEF Lookup
    <3>3. pc \in {"send", "evict"} /\ (pc = "evict" => Keyed(r))
      BY <3>1
    <3>4. VisitsOK'
      BY <2>1, <3>2, <3>3, StageStep
    <3>5. PICK j : j = [req[r] EXCEPT !.at = pc]
      OBVIOUS
    <3>6. j.at = pc /\ j.model = req[r].model /\ j.prompt = req[r].prompt
      BY <1>1, <3>5 DEF Visit
    <3>7. req' = [req EXCEPT ![r] = j] /\ req'[r] = j
      BY <3>2, <3>5 DEF ToStage, VisitsOK
    <3>8. CASE pc = "send"
      <4>1. j.at # "evict"
        BY <3>6, <3>8
      <4> QED BY <2>1, <3>4, <3>7, <4>1, Unturned, Unmoved
    <3>9. CASE pc = "evict"
      <4>1. Keyed(r) /\ Entry(r) # Uncached
        BY <3>1, <3>9
      <4>2. req[r].model \in Models /\ req[r].prompt \in Prompt
        BY <1>1, <3>2, <4>1 DEF Directed, Visit, Stage, Keyed
      <4>3. Entry(r) \in Uncached .. TTL
        BY <4>2 DEF Entry, KeptOK
      <4>4. ~(Entry(r) < TTL)
        BY <2>3, <3>2, <4>1 DEF Hit
      <4>5. Entry(r) = TTL
        BY <4>3, <4>4, Span
      <4>6. Looked(r)
        BY <2>1, <3>6, <3>7, <4>5 DEF Looked
      <4> QED BY <2>1, <3>4, <3>7, <4>6, Unturned, Unmoved
    <3> QED BY <3>3, <3>8, <3>9
  <2> QED BY <2>2, <2>3
<1>7. CASE Evict(r)
  <2>1. PICK pc : pc = "send"
    OBVIOUS
  <2>2. ~Stage(r, "idle") /\ ToStage(r, pc) /\ Stage(r, "evict")
    BY <1>7, <2>1 DEF Evict, Stage
  <2>3. VisitsOK'
    BY <2>1, <2>2, StageStep
  <2>4. req[r].model \in Models /\ req[r].prompt \in Prompt
    BY <1>1, <2>2 DEF Directed, Stage, Visit
  <2>5. cache' = [cache EXCEPT ![req[r].model][req[r].prompt] = Uncached]
    BY <1>7 DEF Evict
  <2>6. Turns
    <3>1. PICK m \in Models, p \in Prompt : m = req[r].model /\ p = req[r].prompt
      BY <2>4
    <3> QED BY <2>5, <3>1, RemoveTurns
  <2>7. PICK j : j = [req[r] EXCEPT !.at = pc]
    OBVIOUS
  <2>8. j.at # "evict" /\ req' = [req EXCEPT ![r] = j]
    BY <1>1, <2>1, <2>2, <2>7 DEF Visit, ToStage
  <2> QED BY <2>3, <2>6, <2>8, Unmoved
<1>8. ASSUME NEW pc \in {"ok", "fail"}, Stage(r, "send"),
             req' = [req EXCEPT ![r].at = pc, ![r].prompt = NoPrompt]
      PROVE  VisitsOK' /\ Steady
  <2>1. VisitsOK'
    BY <1>8, AnsweredStep
  <2>2. PICK i : i = [req[r] EXCEPT !.at = pc]
    OBVIOUS
  <2>3. i \in Visit /\ i.at = pc
    BY <1>1, <1>8, <2>2 DEF Visit
  <2>4. PICK j : j = [i EXCEPT !.prompt = NoPrompt]
    OBVIOUS
  <2>5. j.at # "evict"
    BY <1>8, <2>3, <2>4 DEF Visit
  <2>6. req' = [req EXCEPT ![r] = j]
    BY <1>8, <2>2, <2>4 DEF VisitsOK
  <2> QED BY <2>1, <2>5, <2>6, Unmoved
<1>9. CASE Succeed(r)
  <2>1. PICK pc : pc = "ok"
    OBVIOUS
  <2>2. Stage(r, "send") /\ req' = [req EXCEPT ![r].at = pc, ![r].prompt = NoPrompt]
    BY <1>9, <2>1 DEF Succeed
  <2>3. UNCHANGED cache \/ Put(r)
    BY <1>9 DEF Succeed
  <2>4. Turns
    BY <2>3, Unturned, PutTurns
  <2> QED BY <1>8, <2>1, <2>2, <2>4
<1>10. CASE Fail(r)
  <2>1. PICK pc : pc = "fail"
    OBVIOUS
  <2>2. Stage(r, "send") /\ req' = [req EXCEPT ![r].at = pc, ![r].prompt = NoPrompt]
        /\ UNCHANGED cache
    BY <1>10, <2>1 DEF Fail
  <2> QED BY <1>8, <2>1, <2>2, Unturned
<1>11. CASE Uncounted(r)
  BY <1>2, <1>11 DEF Uncounted
<1>12. CASE Log(r)
  BY <1>2, <1>12 DEF Log
<1> QED BY <1>3, <1>4, <1>5, <1>6, <1>7, <1>9, <1>10, <1>11, <1>12 DEF Handler

LEMMA KeptStep ==
    ASSUME VisitsOK, KeptOK, AdmissionNext
    PROVE  VisitsOK' /\ Turns /\ Steady
<1>1. ASSUME UNCHANGED req PROVE VisitsOK' /\ Steady
  BY <1>1 DEF VisitsOK, Steady
<1>2. ASSUME UNCHANGED <<cache, req>> PROVE VisitsOK' /\ Turns /\ Steady
  BY <1>1, <1>2, Unturned
<1>3. ASSUME NEW r \in Asker, Handler(r) PROVE VisitsOK' /\ Turns /\ Steady
  BY <1>3, KeptHandler
<1>4. ASSUME NEW m \in Models, Change(m) PROVE VisitsOK' /\ Turns /\ Steady
  BY <1>2, <1>4 DEF Change
<1>5. CASE Read
  BY <1>2, <1>5 DEF Read
<1>6. CASE Mark
  BY <1>2, <1>6 DEF Mark
<1>7. CASE Sync
  BY <1>2, <1>7 DEF Sync
<1>8. CASE ReadForce
  BY <1>2, <1>8 DEF ReadForce
<1>9. CASE AdmissionTick
  <2>1. UNCHANGED req
    BY <1>9 DEF AdmissionTick
  <2> QED BY <1>1, <1>9, <2>1, AgeTurns
<1> QED BY <1>3, <1>4, <1>5, <1>6, <1>7, <1>8, <1>9 DEF AdmissionNext

(* A request that was not overtaken still finds the entry old.             *)
LEMMA RemovalStep ==
    ASSUME VisitsOK, KeptOK, RemovesOldOnly, Overtake, Turns, Steady
    PROVE  RemovesOldOnly'
<1> SUFFICES ASSUME NEW r \in Asker, r \notin overtaken', req'[r].at = "evict"
             PROVE  cache'[req'[r].model][req'[r].prompt] \in {Uncached, TTL}
  BY DEF RemovesOldOnly, Evicting, Stage, Entry
<1>1. CASE req'[r] = req[r]
  <2>1. PICK m \in Models, p \in Prompt : m = req[r].model /\ p = req[r].prompt
    BY <1>1 DEF VisitsOK, Visit, Directed
  <2>2. r \notin overtaken /\ cache'[m][p] # 0
    BY <1>1, <2>1 DEF Overtake, Evicting, Stage, Entry
  <2>3. cache[m][p] \in {Uncached, TTL}
    BY <1>1, <2>1, <2>2 DEF RemovesOldOnly, Evicting, Stage, Entry
  <2>4. Older(cache[m][p]) = cache[m][p]
    BY <2>3 DEF Older
  <2>5. cache'[m][p] \in {cache[m][p], Older(cache[m][p]), 0, Uncached}
    BY DEF Turns
  <2> QED BY <1>1, <2>1, <2>2, <2>3, <2>4, <2>5
<1>2. CASE Looked(r)
  BY <1>2 DEF Looked, Entry
<1> QED BY <1>1, <1>2 DEF Steady

(* PromptCache::get: whatever is put, removed, cleaned up and aged between *)
(* its look and its removal, for every number of requests and keys and     *)
(* every TTL, it removes no answer within its TTL but one put meanwhile.   *)
THEOREM OnlyOldRemoved == WatchSpec => []RemovesOldOnly
<1> DEFINE Inv == VisitsOK /\ KeptOK /\ RemovesOldOnly
<1>1. WatchInit => Inv
  <2> SUFFICES ASSUME WatchInit PROVE Inv
    OBVIOUS
  <2>1. \A r \in Asker : req[r] = NoRequest
    BY DEF WatchInit, AdmissionInit
  <2>2. VisitsOK
    BY <2>1, IdleVisit DEF WatchInit, AdmissionInit, VisitsOK
  <2>3. KeptOK
    <3>1. PICK none \in Uncached .. TTL : none = Uncached
      BY Span
    <3>2. cache = [m \in Models |-> [p \in Prompt |-> none]]
      BY <3>1 DEF WatchInit, AdmissionInit
    <3> QED BY <3>2 DEF KeptOK
  <2>4. RemovesOldOnly
    BY <2>1 DEF RemovesOldOnly, Evicting, Stage, NoRequest
  <2> QED BY <2>2, <2>3, <2>4
<1>2. Inv /\ [WatchNext]_watchVars => Inv'
  <2> SUFFICES ASSUME Inv, [WatchNext]_watchVars PROVE Inv'
    OBVIOUS
  <2>1. ASSUME UNCHANGED <<admissionVars, overtaken>> PROVE Inv'
    BY <2>1 DEF admissionVars, VisitsOK, KeptOK, RemovesOldOnly, Evicting, Stage, Entry
  <2>2. CASE Dismiss
    BY <2>1, <2>2 DEF Dismiss
  <2>3. CASE UNCHANGED watchVars
    BY <2>1, <2>3 DEF watchVars
  <2>4. CASE Go
    <3>1. AdmissionNext /\ Overtake
      BY <2>4 DEF Go
    <3>2. VisitsOK' /\ Turns /\ Steady
      BY <3>1, KeptStep
    <3>3. KeptOK'
      BY <3>2 DEF Turns
    <3> QED BY <3>1, <3>2, <3>3, RemovalStep
  <2> QED BY <2>2, <2>3, <2>4 DEF WatchNext
<1>3. Inv => RemovesOldOnly
  OBVIOUS
<1> QED BY <1>1, <1>2, <1>3, PTL DEF WatchSpec

-----------------------------------------------------------------------------
(* The marks of the health patrol.                                         *)

(* The wait for the next patrol.                                           *)
PatrolOK == DOMAIN patrol = {"left", "read", "stats"} /\ patrol.left \in 0 .. PERIOD

(* A mark of this age, out of the list for so many ticks: it will be seen  *)
(* by the patrol before it is too old.                                     *)
Timely(age, ticks, left) ==
    IF age = Unmarked THEN ticks = 0 ELSE ticks <= age /\ age + left < LONG

MarksOK ==
    /\ mark \in [Models -> Unmarked .. LONG] /\ out \in [Models -> Nat]
    /\ \A m \in Models : Timely(mark[m], out[m], patrol.left)

LEMMA Ticks ==
    /\ PERIOD \in Nat /\ PERIOD > 0 /\ EXPIRY \in Nat /\ EXPIRY > 0
    /\ LONG = EXPIRY + PERIOD /\ Unmarked = -1
BY AdmissionConstants DEF LONG, Unmarked

(* What counts as an age.                                                  *)
LEMMA Ages ==
    ASSUME NEW age
    PROVE  age \in Unmarked .. LONG <=> age \in Int /\ -1 <= age /\ age <= LONG
BY Ticks

(* A step that leaves the marks and the patrol's wait alone.               *)
LEMMA MarksKept ==
    ASSUME PatrolOK, MarksOK, Note, UNCHANGED mark, DOMAIN patrol' = DOMAIN patrol,
           patrol'.left = patrol.left
    PROVE  PatrolOK' /\ MarksOK'
<1>1. PatrolOK'
  BY DEF PatrolOK
<1>2. ASSUME NEW m \in Models PROVE out'[m] \in Nat /\ Timely(mark'[m], out'[m], patrol'.left)
  <2>1. out'[m] = IF mark[m] = Unmarked THEN 0 ELSE out[m]
    <3>1. ~(patrol'.left < patrol.left)
      BY DEF PatrolOK
    <3> QED BY <3>1 DEF Note
  <2> QED BY <2>1 DEF MarksOK, Timely
<1>3. out' \in [Models -> Nat]
  <2>1. DOMAIN out' = Models /\ out' = [m \in Models |-> out'[m]]
    BY DEF Note
  <2> QED BY <1>2, <2>1
<1>4. mark' \in [Models -> Unmarked .. LONG]
  BY DEF MarksOK
<1> QED BY <1>1, <1>2, <1>3, <1>4 DEF MarksOK

(* The patrol judges every model, and drops the marks that are too old.    *)
LEMMA MarksJudged ==
    ASSUME PatrolOK, MarksOK, Note, Mark
    PROVE  PatrolOK' /\ MarksOK'
<1>1. patrol' = [left |-> PERIOD, read |-> FALSE, stats |-> [m \in Models |-> NoRows]]
  BY DEF Mark
<1>2. PatrolOK' /\ patrol'.left = PERIOD
  BY <1>1, Ticks DEF PatrolOK
<1>3. ASSUME NEW m \in Models
      PROVE  /\ mark'[m] = Unmarked \/ (mark'[m] \in 0 .. EXPIRY - 1
                                         /\ (mark'[m] = mark[m] \/ mark[m] = Unmarked))
             /\ mark'[m] \in Unmarked .. LONG
  <2>1. PICK age : age = Judged(m, patrol.stats[m])
    OBVIOUS
  <2>2. mark'[m] = Expired(age)
    BY <2>1 DEF Mark
  <2>3. mark[m] \in Int /\ -1 <= mark[m] /\ mark[m] <= LONG
    BY Ages DEF MarksOK
  <2>4. age = Unmarked \/ age = mark[m] \/ (age = 0 /\ mark[m] = Unmarked)
    BY <2>1 DEF Judged, Failed
  <2>5. CASE age < EXPIRY
    <3>1. mark'[m] = age
      BY <2>2, <2>5 DEF Expired
    <3>2. age = -1 \/ age \in 0 .. EXPIRY - 1
      BY <2>3, <2>4, <2>5, Ticks
    <3> QED BY <2>4, <3>1, <3>2, Ticks
  <2>6. CASE ~(age < EXPIRY)
    <3>1. mark'[m] = Unmarked
      BY <2>2, <2>6 DEF Expired
    <3> QED BY <3>1, Ticks
  <2> QED BY <2>5, <2>6
<1>4. ASSUME NEW m \in Models PROVE out'[m] \in Nat /\ Timely(mark'[m], out'[m], patrol'.left)
  <2>1. ~(patrol'.left < patrol.left)
    BY <1>2, Ticks DEF PatrolOK
  <2>2. out'[m] = IF mark[m] = Unmarked \/ mark'[m] = Unmarked THEN 0 ELSE out[m]
    BY <2>1 DEF Note
  <2>3. CASE mark'[m] = Unmarked
    BY <2>2, <2>3 DEF Timely
  <2>4. CASE mark'[m] # Unmarked
    <3>1. mark'[m] \in 0 .. EXPIRY - 1 /\ (mark'[m] = mark[m] \/ mark[m] = Unmarked)
      BY <1>3, <2>4
    <3>2. mark'[m] + patrol'.left < LONG
      BY <1>2, <3>1, Ticks
    <3>3. out'[m] \in Nat /\ out'[m] <= mark'[m]
      BY <2>2, <2>4, <3>1, Ticks DEF MarksOK, Timely
    <3> QED BY <2>4, <3>2, <3>3 DEF Timely
  <2> QED BY <2>3, <2>4
<1>5. out' \in [Models -> Nat]
  <2>1. DOMAIN out' = Models /\ out' = [m \in Models |-> out'[m]]
    BY DEF Note
  <2> QED BY <1>4, <2>1
<1>6. mark' \in [Models -> Unmarked .. LONG]
  <2>1. mark' = [m \in Models |-> mark'[m]]
    BY DEF Mark
  <2> QED BY <1>3, <2>1
<1> QED BY <1>2, <1>4, <1>5, <1>6 DEF MarksOK

(* A tick brings the patrol as much nearer as it makes the mark older.     *)
LEMMA MarksAge ==
    ASSUME PatrolOK, MarksOK, Note, AdmissionTick
    PROVE  PatrolOK' /\ MarksOK'
<1>1. /\ DOMAIN patrol' = DOMAIN patrol /\ patrol'.left = patrol.left - 1
      /\ patrol.left \in Nat /\ patrol.left > 0
  BY Ticks DEF AdmissionTick, PatrolOK
<1>2. PatrolOK'
  BY <1>1, Ticks DEF PatrolOK
<1>3. ASSUME NEW m \in Models
      PROVE  /\ mark'[m] \in Unmarked .. LONG
             /\ out'[m] \in Nat /\ Timely(mark'[m], out'[m], patrol'.left)
  <2>1. mark'[m] = IF mark[m] # Unmarked THEN mark[m] + 1 ELSE Unmarked
    BY DEF AdmissionTick, Failed
  <2>2. CASE mark[m] = Unmarked
    <3>1. mark'[m] = Unmarked /\ out'[m] = 0
      BY <2>1, <2>2 DEF Note
    <3> QED BY <3>1, Ticks DEF Timely
  <2>3. CASE mark[m] # Unmarked
    <3>1. mark[m] \in Int /\ -1 <= mark[m] /\ out[m] \in Nat
      BY Ages DEF MarksOK
    <3>2. out[m] <= mark[m] /\ mark[m] + patrol.left < LONG
      BY <2>3 DEF MarksOK, Timely
    <3>3. mark'[m] = mark[m] + 1 /\ mark'[m] # Unmarked
      BY <2>1, <2>3, <3>1, Ticks
    <3>4. out'[m] = out[m] + 1 \/ out'[m] = out[m]
      BY <2>3, <3>3 DEF Note
    <3>5. out'[m] \in Nat /\ out'[m] <= mark'[m]
      BY <3>1, <3>2, <3>3, <3>4
    <3>6. mark'[m] + patrol'.left < LONG /\ mark'[m] \in Unmarked .. LONG
      BY <1>1, <3>1, <3>2, <3>3, Ticks
    <3> QED BY <3>3, <3>5, <3>6 DEF Timely
  <2> QED BY <2>2, <2>3
<1>4. out' \in [Models -> Nat] /\ mark' \in [Models -> Unmarked .. LONG]
  <2>1. out' = [m \in Models |-> out'[m]] /\ mark' = [m \in Models |-> mark'[m]]
    BY DEF Note, AdmissionTick
  <2> QED BY <1>3, <2>1
<1> QED BY <1>2, <1>3, <1>4 DEF MarksOK

(* ModelHealthMonitor::refresh: whatever the statistics say, or fail to    *)
(* say, no model is out of the list for longer than the expiry of its mark *)
(* and the wait for the patrol after it.                                   *)
THEOREM MarksRunOut == WatchSpec => []ComesBack
<1>1. WatchInit => PatrolOK /\ MarksOK
  <2> SUFFICES ASSUME WatchInit PROVE PatrolOK /\ MarksOK
    OBVIOUS
  <2>1. patrol = [left |-> PERIOD, read |-> FALSE, stats |-> [m \in Models |-> NoRows]]
    BY DEF WatchInit, AdmissionInit
  <2>2. mark = [m \in Models |-> Unmarked] /\ out = [m \in Models |-> 0]
    BY DEF WatchInit, AdmissionInit
  <2>3. Unmarked \in Unmarked .. LONG
    BY Ticks
  <2>4. PatrolOK
    BY <2>1, Ticks DEF PatrolOK
  <2>5. MarksOK
    BY <2>2, <2>3 DEF MarksOK, Timely
  <2> QED BY <2>4, <2>5
<1>2. PatrolOK /\ MarksOK /\ [WatchNext]_watchVars => (PatrolOK /\ MarksOK)'
  <2> SUFFICES ASSUME PatrolOK, MarksOK, [WatchNext]_watchVars PROVE PatrolOK' /\ MarksOK'
    OBVIOUS
  <2>1. ASSUME UNCHANGED <<admissionVars, out>> PROVE PatrolOK' /\ MarksOK'
    BY <2>1 DEF admissionVars, PatrolOK, MarksOK
  <2>2. CASE Dismiss
    BY <2>1, <2>2 DEF Dismiss
  <2>3. CASE UNCHANGED watchVars
    BY <2>1, <2>3 DEF watchVars
  <2>4. CASE Go
    <3>1. Note /\ AdmissionNext
      BY <2>4 DEF Go
    <3>2. ASSUME UNCHANGED <<mark, patrol>> PROVE PatrolOK' /\ MarksOK'
      BY <3>1, <3>2, MarksKept
    <3>3. ASSUME NEW r \in Asker, Handler(r) PROVE PatrolOK' /\ MarksOK'
      <4>1. UNCHANGED <<mark, patrol>>
        BY <3>3 DEF Handler, Direct, Chat, TurnedAway, Lookup, Evict, Succeed, Fail,
                    Uncounted, Log
      <4> QED BY <3>2, <4>1
    <3>4. ASSUME NEW m \in Models, Change(m) PROVE PatrolOK' /\ MarksOK'
      BY <3>2, <3>4 DEF Change
    <3>5. CASE Read
      <4>1. UNCHANGED mark /\ DOMAIN patrol' = DOMAIN patrol /\ patrol'.left = patrol.left
        BY <3>5 DEF Read, PatrolOK
      <4> QED BY <3>1, <4>1, MarksKept
    <3>6. CASE Mark
      BY <3>1, <3>6, MarksJudged
    <3>7. CASE Sync
      BY <3>2, <3>7 DEF Sync
    <3>8. CASE ReadForce
      BY <3>2, <3>8 DEF ReadForce
    <3>9. CASE AdmissionTick
      BY <3>1, <3>9, MarksAge
    <3> QED BY <3>1, <3>3, <3>4, <3>5, <3>6, <3>7, <3>8, <3>9 DEF AdmissionNext
  <2> QED BY <2>2, <2>3, <2>4 DEF WatchNext
<1>3. PatrolOK /\ MarksOK => ComesBack
  <2> SUFFICES ASSUME PatrolOK, MarksOK, NEW m \in Models PROVE out[m] < LONG
    BY DEF ComesBack
  <2>1. mark[m] \in Int /\ out[m] \in Nat /\ patrol.left \in Nat
    BY Ages DEF MarksOK, PatrolOK
  <2>2. CASE mark[m] = Unmarked
    <3>1. out[m] = 0
      BY <2>2 DEF MarksOK, Timely
    <3> QED BY <3>1, Ticks
  <2>3. CASE mark[m] # Unmarked
    <3>1. out[m] <= mark[m] /\ mark[m] + patrol.left < LONG
      BY <2>3 DEF MarksOK, Timely
    <3> QED BY <2>1, <3>1, Ticks
  <2> QED BY <2>2, <2>3
<1> QED BY <1>1, <1>2, <1>3, PTL DEF WatchSpec
=============================================================================

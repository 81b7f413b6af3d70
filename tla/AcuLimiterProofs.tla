-------------------------- MODULE AcuLimiterProofs --------------------------
(***************************************************************************)
(* The buckets of AcuLimiter are what TokenBucket promises, and a wait is  *)
(* as long as it must be, for any number of requests, clients and buckets  *)
(* and all capacities and rates.                                           *)
(***************************************************************************)
EXTENDS MCAcuLimiter, TLAPS

Bucket == [tokens : Nat, idle : 0 .. EXPIRE]
Request == [client : Client \cup {NoClient}, pos : Nat \ {0},
            at : {"away", "ask", "sleep"}, left : 0 .. MAX_WAIT]
OnPath(q) == q.at # "away" => q.client \in Client /\ q.pos \in 1 .. Len(Path[q.client])

(* The smaller of two numbers is one of them.                              *)
LEMMA LeastFacts ==
    ASSUME NEW a \in Nat, NEW b \in Nat
    PROVE  /\ Least(a, b) \in Nat /\ Least(a, b) <= a /\ Least(a, b) <= b
           /\ a <= b => Least(a, b) = a
           /\ b <= a => Least(a, b) = b
  BY DEF Least

(* Products of naturals, as the refill needs them.                         *)
LEMMA Products ==
    ASSUME NEW a \in Nat, NEW b \in Nat
    PROVE  a * b \in Nat /\ (a + 1) * b = a * b + b /\ 0 * b = 0
  OBVIOUS

(* A request that is asking or asleep has a bucket it asks.                *)
LEMMA AskedIsKey ==
    ASSUME TypeOK, NEW r \in Req, req[r].at # "away"
    PROVE  Asked(r) \in Key
  <1>1. req[r].client \in Client /\ req[r].pos \in 1 .. Len(Path[req[r].client])
    BY DEF TypeOK
  <1>2. Path[req[r].client] \in Seq(Key)
    BY <1>1, LimiterConstants
  <1> QED BY <1>1, <1>2 DEF Asked

(* A level is a number of parts, at most the capacity.                     *)
LEMMA LevelType ==
    ASSUME TypeOK, NEW k \in Key
    PROVE  /\ Level(k) \in Nat /\ Level(k) <= Cap[k]
           /\ Cap[k] \in Nat /\ Rate[k] \in Nat \ {0}
           /\ bucket[k] \in Bucket /\ bucket[k].tokens <= Cap[k]
           /\ bucket[k].idle * Rate[k] \in Nat
  <1>1. Cap[k] \in Nat /\ Rate[k] \in Nat \ {0}
    BY LimiterConstants
  <1>2. bucket[k] \in Bucket /\ bucket[k].tokens <= Cap[k]
    BY DEF TypeOK, Bucket
  <1>3. bucket[k].idle \in Nat /\ bucket[k].tokens \in Nat
    BY <1>2, LimiterConstants DEF Bucket
  <1>4. bucket[k].idle * Rate[k] \in Nat
    BY <1>1, <1>3, Products
  <1>5. bucket[k].tokens + bucket[k].idle * Rate[k] \in Nat
    BY <1>3, <1>4
  <1> QED BY <1>1, <1>2, <1>4, <1>5, LeastFacts DEF Level

-----------------------------------------------------------------------------
(* Writing one bucket and one request keeps them well-typed.               *)
LEMMA SetTypes ==
    ASSUME TypeOK, NEW k \in Key, NEW n \in Nat, n <= Cap[k], Set(k, n)
    PROVE  /\ bucket' \in [Key -> Bucket]
           /\ \A x \in Key : bucket'[x].tokens <= Cap[x]
  <1>1. [tokens |-> n, idle |-> 0] \in Bucket
    BY LimiterConstants DEF Bucket
  <1>2. bucket \in [Key -> Bucket] /\ \A x \in Key : bucket[x].tokens <= Cap[x]
    BY DEF TypeOK, Bucket
  <1>3. bucket' = [bucket EXCEPT ![k] = [tokens |-> n, idle |-> 0]]
    BY DEF Set
  <1> QED BY <1>1, <1>2, <1>3

(* Away is where every request may be.                                     *)
LEMMA AwayType == Away \in Request /\ OnPath(Away) /\ Away.at = "away"
  BY LimiterConstants DEF Away, Request, OnPath

(* A request replaced by a well-typed one on its path.                     *)
LEMMA RequestSet ==
    ASSUME TypeOK, NEW r \in Req, NEW q \in Request, OnPath(q),
           req' = [req EXCEPT ![r] = q]
    PROVE  req' \in [Req -> Request] /\ \A x \in Req : OnPath(req'[x])
  <1>1. req \in [Req -> Request] /\ \A x \in Req : OnPath(req[x])
    BY DEF TypeOK, Request, OnPath
  <1> QED BY <1>1

(* The type invariant in the terms of this module.                         *)
LEMMA TypeParts ==
    TypeOK <=> /\ bucket \in [Key -> Bucket]
               /\ \A k \in Key : bucket[k].tokens <= Cap[k]
               /\ req \in [Req -> Request]
               /\ \A r \in Req : OnPath(req[r])
  BY DEF TypeOK, Bucket, Request, OnPath

(* Setting the fields a step changes, one at a time.                       *)
LEMMA FieldTypes ==
    ASSUME NEW q \in Request
    PROVE  /\ \A n \in Nat \ {0} : [q EXCEPT !.pos = n] \in Request
           /\ \A p \in {"ask", "sleep"} : [q EXCEPT !.at = p] \in Request
           /\ \A n \in 0 .. MAX_WAIT : [q EXCEPT !.left = n] \in Request
  BY DEF Request

(* Who goes on asks the next bucket of its path or leaves it.              *)
LEMMA ProceedTypes ==
    ASSUME TypeOK, NEW r \in Req, req[r].at # "away", Proceed(r)
    PROVE  req' \in [Req -> Request] /\ \A x \in Req : OnPath(req'[x])
  <1> DEFINE on == [req[r] EXCEPT !.pos = @ + 1, !.at = "ask"]
  <1>1. req[r] \in Request /\ OnPath(req[r])
    BY TypeParts
  <1>2. /\ req[r].client \in Client /\ req[r].pos \in 1 .. Len(Path[req[r].client])
        /\ Len(Path[req[r].client]) \in Nat
    BY <1>1, LimiterConstants DEF OnPath
  <1>3. CASE req[r].pos < Len(Path[req[r].client])
    <2> DEFINE up == [req[r] EXCEPT !.pos = @ + 1]
    <2>a. up \in Request
      <3>1. req[r].pos + 1 \in Nat \ {0}
        BY <1>1 DEF Request
      <3>2. \A n \in Nat \ {0} : [req[r] EXCEPT !.pos = n] \in Request
        BY <1>1, FieldTypes
      <3> QED BY <3>1, <3>2
    <2>1. on \in Request
      <3> HIDE DEF up
      <3>1. [up EXCEPT !.at = "ask"] \in Request
        BY <2>a, FieldTypes
      <3>2. on = [up EXCEPT !.at = "ask"]
        BY DEF up
      <3> QED BY <3>1, <3>2
    <2>2. on.at = "ask" /\ on.client = req[r].client /\ on.pos = req[r].pos + 1
      BY <1>1 DEF Request
    <2>3. OnPath(on)
      BY <1>2, <1>3, <2>2 DEF OnPath
    <2>4. req' = [req EXCEPT ![r] = on]
      BY <1>3 DEF Proceed
    <2> QED BY <2>1, <2>3, <2>4, RequestSet
  <1>4. CASE ~(req[r].pos < Len(Path[req[r].client]))
    <2>1. req' = [req EXCEPT ![r] = Away]
      BY <1>4 DEF Proceed
    <2> QED BY <2>1, AwayType, RequestSet
  <1> QED BY <1>3, <1>4

(* A wait is a number of ticks.                                            *)
LEMMA WaitType ==
    ASSUME TypeOK, NEW k \in Key, Level(k) < UNIT
    PROVE  Wait(k) \in Nat
  <1>1. Level(k) \in Nat /\ Rate[k] \in Nat \ {0} /\ UNIT \in Nat
    BY LevelType, LimiterConstants
  <1>2. UNIT - Level(k) + Rate[k] - 1 \in Nat
    BY <1>1
  <1> QED BY <1>1, <1>2 DEF Wait

(* Init establishes the types.                                             *)
LEMMA InitTypes == Init => TypeOK
  <1> SUFFICES ASSUME Init PROVE TypeOK
    OBVIOUS
  <1>1. \A k \in Key : Full(k) \in Bucket /\ Full(k).tokens <= Cap[k]
    BY LimiterConstants DEF Full, Bucket
  <1>2. bucket \in [Key -> Bucket] /\ \A k \in Key : bucket[k].tokens <= Cap[k]
    BY <1>1 DEF Init
  <1>3. req \in [Req -> Request] /\ \A r \in Req : OnPath(req[r])
    BY AwayType DEF Init
  <1> QED BY <1>2, <1>3, TypeParts

(* Every step keeps the types.                                             *)
LEMMA StepTypes == TypeOK /\ [Next]_vars => TypeOK'
  <1> SUFFICES ASSUME TypeOK, [Next]_vars PROVE TypeOK'
    OBVIOUS
  <1> DEFINE BucketsOK == /\ bucket \in [Key -> Bucket]
                          /\ \A k \in Key : bucket[k].tokens <= Cap[k]
             RequestsOK == /\ req \in [Req -> Request]
                           /\ \A r \in Req : OnPath(req[r])
  <1>0. BucketsOK /\ RequestsOK
    BY TypeParts
  <1>1. ASSUME NEW r \in Req, Arrive(r) PROVE BucketsOK' /\ RequestsOK'
    <2>1. PICK c \in Client :
            req' = [req EXCEPT ![r] = [Away EXCEPT !.client = c, !.at = "ask"]]
      BY <1>1 DEF Arrive
    <2> DEFINE q == [client |-> c, pos |-> 1, at |-> "ask", left |-> 0]
    <2>2. [Away EXCEPT !.client = c, !.at = "ask"] = q
      <3> DEFINE a == [Away EXCEPT !.client = c]
      <3>1. a = [client |-> c, pos |-> 1, at |-> "away", left |-> 0]
        BY DEF Away
      <3>2. [Away EXCEPT !.client = c, !.at = "ask"] = [a EXCEPT !.at = "ask"]
        OBVIOUS
      <3> HIDE DEF a
      <3> QED BY <3>1, <3>2
    <2>3. Path[c] \in Seq(Key) /\ Path[c] # <<>>
      BY LimiterConstants
    <2>4. 1 \in 1 .. Len(Path[c])
      BY <2>3
    <2>5. q \in Request /\ OnPath(q)
      BY <2>4, LimiterConstants DEF Request, OnPath
    <2>6. req' = [req EXCEPT ![r] = q]
      BY <2>1, <2>2
    <2>7. RequestsOK'
      BY <2>5, <2>6, RequestSet
    <2> QED BY <1>0, <1>1, <2>7 DEF Arrive
  <1>2. ASSUME NEW r \in Req, Take(r) PROVE BucketsOK' /\ RequestsOK'
    <2>1. Asked(r) \in Key
      BY <1>2, AskedIsKey DEF Take
    <2>2. Level(Asked(r)) \in Nat /\ Level(Asked(r)) <= Cap[Asked(r)] /\ Cap[Asked(r)] \in Nat
      BY <2>1, LevelType
    <2>3. Level(Asked(r)) - UNIT \in Nat /\ Level(Asked(r)) - UNIT <= Cap[Asked(r)]
      BY <1>2, <2>2, LimiterConstants DEF Take
    <2>4. BucketsOK'
      BY <1>2, <2>1, <2>3, SetTypes DEF Take
    <2>5. RequestsOK'
      BY <1>2, ProceedTypes DEF Take
    <2> QED BY <2>4, <2>5
  <1>3. ASSUME NEW r \in Req, Sleep(r) PROVE BucketsOK' /\ RequestsOK'
    <2>1. Asked(r) \in Key
      BY <1>3, AskedIsKey DEF Sleep
    <2>2. BucketsOK'
      BY <1>3, <2>1, LevelType, SetTypes DEF Sleep
    <2>3. Wait(Asked(r)) \in 0 .. MAX_WAIT
      BY <1>3, <2>1, WaitType, LimiterConstants DEF Sleep
    <2> DEFINE p == [req[r] EXCEPT !.at = "sleep"]
               q == [p EXCEPT !.left = Wait(Asked(r))]
    <2>4. p \in Request /\ p.client = req[r].client /\ p.pos = req[r].pos
      BY <1>0, FieldTypes DEF Request
    <2>5. q \in Request /\ q.client = p.client /\ q.pos = p.pos
      <3> HIDE DEF p
      <3> QED BY <2>3, <2>4, FieldTypes DEF Request
    <2>6. OnPath(q)
      BY <1>0, <1>3, <2>4, <2>5 DEF Sleep, OnPath
    <2>7. req' = [req EXCEPT ![r] = q]
      BY <1>3 DEF Sleep
    <2>8. RequestsOK'
      <3> HIDE DEF q
      <3> QED BY <2>5, <2>6, <2>7, RequestSet
    <2> QED BY <2>2, <2>8
  <1>4. ASSUME NEW r \in Req, Refuse(r) PROVE BucketsOK' /\ RequestsOK'
    <2>1. Asked(r) \in Key
      BY <1>4, AskedIsKey DEF Refuse
    <2>2. BucketsOK'
      BY <1>4, <2>1, LevelType, SetTypes DEF Refuse
    <2>3. RequestsOK'
      BY <1>4, AwayType, RequestSet DEF Refuse
    <2> QED BY <2>2, <2>3
  <1>5. ASSUME NEW r \in Req, Wake(r) PROVE BucketsOK' /\ RequestsOK'
    BY <1>0, <1>5, ProceedTypes DEF Wake
  <1>6. ASSUME NEW k \in Key, Drop(k) PROVE BucketsOK' /\ RequestsOK'
    <2>1. Full(k) \in Bucket /\ Full(k).tokens <= Cap[k]
      BY LimiterConstants DEF Full, Bucket
    <2> QED BY <1>0, <1>6, <2>1 DEF Drop
  <1>7. ASSUME Tick PROVE BucketsOK' /\ RequestsOK'
    <2>1. BucketsOK'
      <3>1. \A k \in Key : Least(EXPIRE, bucket[k].idle + 1) \in 0 .. EXPIRE
        BY <1>0, LimiterConstants DEF Bucket, Least
      <3>2. \A k \in Key : LET b == [bucket[k] EXCEPT !.idle = Least(EXPIRE, @ + 1)]
                           IN  b \in Bucket /\ b.tokens = bucket[k].tokens
        BY <1>0, <3>1 DEF Bucket
      <3> QED BY <1>0, <1>7, <3>2 DEF Tick
    <2>2. RequestsOK'
      <3> DEFINE next(r) == [req[r] EXCEPT !.left = IF @ = 0 THEN 0 ELSE @ - 1]
      <3>1. ASSUME NEW r \in Req PROVE next(r) \in Request /\ OnPath(next(r))
        <4>1. req[r] \in Request /\ OnPath(req[r])
          BY <1>0
        <4>2. (IF req[r].left = 0 THEN 0 ELSE req[r].left - 1) \in 0 .. MAX_WAIT
          BY <4>1, LimiterConstants DEF Request
        <4>3. next(r) \in Request
          BY <4>1, <4>2, FieldTypes
        <4>4. /\ next(r).at = req[r].at /\ next(r).client = req[r].client
              /\ next(r).pos = req[r].pos
          BY <4>1 DEF Request
        <4> HIDE DEF next
        <4> QED BY <4>1, <4>3, <4>4 DEF OnPath
      <3>2. req' = [r \in Req |-> next(r)]
        BY <1>7 DEF Tick
      <3> HIDE DEF next
      <3> QED BY <3>1, <3>2
    <2> QED BY <2>1, <2>2
  <1>8. ASSUME UNCHANGED vars PROVE BucketsOK' /\ RequestsOK'
    BY <1>0, <1>8 DEF vars
  <1>9. BucketsOK' /\ RequestsOK'
    BY <1>1, <1>2, <1>3, <1>4, <1>5, <1>6, <1>7, <1>8 DEF Next, Step
  <1> QED BY <1>9 DEF TypeOK, Bucket, Request, OnPath

(* TypeOK holds of every limiter: levels stay within their capacities, and *)
(* who asks or sleeps is at a bucket of its path.                          *)
THEOREM TypeCorrect == Spec => []TypeOK
  BY InitTypes, StepTypes, PTL DEF Spec

-----------------------------------------------------------------------------
(* The refinement.                                                         *)

(* A bucket that is written holds what was written and no more.            *)
LEMMA SetLevel ==
    ASSUME TypeOK, NEW k \in Key, NEW n \in Nat, n <= Cap[k], Set(k, n)
    PROVE  \A x \in Key : Level(x)' = IF x = k THEN n ELSE Level(x)
  <1>1. bucket' = [bucket EXCEPT ![k] = [tokens |-> n, idle |-> 0]]
    BY DEF Set
  <1>2. bucket \in [Key -> Bucket]
    BY TypeParts
  <1>3. bucket'[k].tokens = n /\ bucket'[k].idle = 0
    BY <1>1, <1>2
  <1>4. Level(k)' = n
    <2>1. Rate[k] \in Nat /\ Cap[k] \in Nat
      BY LevelType
    <2>2. bucket'[k].tokens + bucket'[k].idle * Rate[k] = n
      BY <1>3, <2>1, Products
    <2> QED BY <2>1, <2>2, LeastFacts DEF Level
  <1>5. ASSUME NEW x \in Key, x # k PROVE Level(x)' = Level(x)
    BY <1>1, <1>2, <1>5 DEF Level
  <1> QED BY <1>4, <1>5

(* A bucket unused for EXPIRE ticks is full, whatever it held.             *)
LEMMA IdleIsFull ==
    ASSUME TypeOK, NEW k \in Key, bucket[k].idle = EXPIRE
    PROVE  Level(k) = Cap[k]
  <1>1. bucket[k].idle * Rate[k] >= Cap[k]
    BY LimiterConstants
  <1>2. bucket[k].tokens \in Nat /\ bucket[k].idle * Rate[k] \in Nat /\ Cap[k] \in Nat
    BY LevelType DEF Bucket
  <1> QED BY <1>1, <1>2, LeastFacts DEF Level

(* A tick raises every level by its rate, up to the capacity.              *)
LEMMA TickLevel ==
    ASSUME TypeOK, Tick, NEW k \in Key
    PROVE  Level(k)' = Least(Cap[k], Level(k) + Rate[k])
  <1>1. /\ bucket[k] \in Bucket /\ bucket[k].tokens \in Nat
        /\ bucket[k].idle \in 0 .. EXPIRE /\ EXPIRE \in Nat
        /\ Cap[k] \in Nat /\ Rate[k] \in Nat
        /\ bucket[k].idle * Rate[k] \in Nat
    BY LevelType, LimiterConstants DEF Bucket
  <1>2. /\ bucket'[k].tokens = bucket[k].tokens
        /\ bucket'[k].idle = Least(EXPIRE, bucket[k].idle + 1)
    <2>1. bucket'[k] = [bucket[k] EXCEPT !.idle = Least(EXPIRE, @ + 1)]
      BY DEF Tick
    <2> QED BY <1>1, <2>1 DEF Bucket
  <1>3. CASE bucket[k].idle = EXPIRE
    <2>1. bucket'[k].idle = EXPIRE
      BY <1>1, <1>2, <1>3, LeastFacts
    <2>2. Level(k)' = Least(Cap[k], bucket[k].tokens + bucket[k].idle * Rate[k])
      BY <1>2, <1>3, <2>1 DEF Level
    <2>3. Level(k) = Cap[k] /\ Level(k)' = Cap[k]
      BY <1>3, <2>2, IdleIsFull DEF Level
    <2> QED BY <1>1, <2>3 DEF Least
  <1>4. CASE bucket[k].idle # EXPIRE
    <2>1. bucket'[k].idle = bucket[k].idle + 1
      BY <1>1, <1>2, <1>4 DEF Least
    <2>2. (bucket[k].idle + 1) * Rate[k] = bucket[k].idle * Rate[k] + Rate[k]
      BY <1>1, Products
    <2> DEFINE p == bucket[k].idle * Rate[k]
    <2>3. Level(k)' = Least(Cap[k], bucket[k].tokens + (p + Rate[k]))
      BY <1>2, <2>1, <2>2 DEF Level
    <2>4. Level(k) = Least(Cap[k], bucket[k].tokens + p) /\ p \in Nat
      BY <1>1 DEF Level
    <2> HIDE DEF p
    <2> QED BY <1>1, <2>3, <2>4 DEF Least
  <1> QED BY <1>3, <1>4

(* The buckets start full.                                                 *)
LEMMA InitRefines == Init => Eager!Init
  <1> SUFFICES ASSUME Init PROVE [k \in Key |-> Level(k)] = Cap
    BY DEF Eager!Init
  <1>1. ASSUME NEW k \in Key PROVE Level(k) = Cap[k]
    <2>1. Cap[k] \in Nat /\ Rate[k] \in Nat
      BY LimiterConstants
    <2>2. bucket[k].tokens + bucket[k].idle * Rate[k] = Cap[k]
      BY <2>1, Products DEF Init, Full
    <2> QED BY <2>1, <2>2, LeastFacts DEF Level
  <1>2. Cap = [k \in Key |-> Cap[k]]
    BY LimiterConstants
  <1> QED BY <1>1, <1>2

(* Every step takes a token, lets a tick pass or changes no level.         *)
LEMMA StepRefines ==
    TypeOK /\ [Next]_vars => [Eager!Next]_([k \in Key |-> Level(k)])
  <1> SUFFICES ASSUME TypeOK, [Next]_vars
               PROVE  [Eager!Next]_([k \in Key |-> Level(k)])
    OBVIOUS
  <1> DEFINE level == [k \in Key |-> Level(k)]
             Same == \A k \in Key : Level(k)' = Level(k)
  <1>0. Same => level' = level
    OBVIOUS
  <1>1. ASSUME NEW r \in Req, Arrive(r) \/ Wake(r) PROVE Same
    BY <1>1 DEF Arrive, Wake, Level
  <1>2. ASSUME NEW r \in Req, Take(r) PROVE Eager!Next
    <2> DEFINE k == Asked(r)
    <2>1. k \in Key
      BY <1>2, AskedIsKey DEF Take
    <2>2. Level(k) >= UNIT /\ Set(k, Level(k) - UNIT)
      BY <1>2 DEF Take
    <2>3. Level(k) \in Nat /\ Level(k) <= Cap[k] /\ Cap[k] \in Nat
      BY <2>1, LevelType
    <2>4. Level(k) - UNIT \in Nat /\ Level(k) - UNIT <= Cap[k]
      BY <2>2, <2>3, LimiterConstants
    <2> HIDE DEF k
    <2>5. \A x \in Key : Level(x)' = IF x = k THEN Level(k) - UNIT ELSE Level(x)
      BY <2>1, <2>2, <2>4, SetLevel
    <2>6. level' = [level EXCEPT ![k] = @ - UNIT]
      BY <2>1, <2>5
    <2>7. Eager!Take(k)
      BY <2>1, <2>2, <2>6 DEF Eager!Take
    <2> QED BY <2>1, <2>7 DEF Eager!Next
  <1>3. ASSUME NEW r \in Req, Sleep(r) \/ Refuse(r) PROVE Same
    <2> DEFINE k == Asked(r)
    <2>1. k \in Key
      BY <1>3, AskedIsKey DEF Sleep, Refuse
    <2>2. Set(k, Level(k))
      BY <1>3 DEF Sleep, Refuse
    <2>3. Level(k) \in Nat /\ Level(k) <= Cap[k]
      BY <2>1, LevelType
    <2> HIDE DEF k
    <2> QED BY <2>1, <2>2, <2>3, SetLevel
  <1>4. ASSUME NEW k \in Key, Drop(k) PROVE Same
    <2>1. bucket[k].idle = EXPIRE
      BY <1>4, LevelType, LimiterConstants DEF Drop, Bucket
    <2>2. bucket' = [bucket EXCEPT ![k] = [tokens |-> Cap[k], idle |-> 0]]
      BY <1>4 DEF Drop, Full
    <2>3. Cap[k] \in Nat /\ Set(k, Cap[k])
      BY <2>2, LevelType DEF Set
    <2> QED BY <2>1, <2>3, SetLevel, IdleIsFull
  <1>5. ASSUME Tick PROVE Eager!Next
    <2>1. level' = [k \in Key |-> Least(Cap[k], level[k] + Rate[k])]
      BY <1>5, TickLevel
    <2>2. Eager!Tick
      BY <2>1 DEF Eager!Tick, Eager!Least, Least
    <2> QED BY <2>2 DEF Eager!Next
  <1>6. ASSUME UNCHANGED vars PROVE Same
    BY <1>6 DEF vars, Level
  <1>7. Eager!Next \/ Same
    BY <1>1, <1>2, <1>3, <1>4, <1>5, <1>6 DEF Next, Step
  <1> QED BY <1>0, <1>7

(* The limiter implements buckets that a clock refills: asking late,       *)
(* forgetting idle owners and sleeping neither create nor lose tokens.     *)
THEOREM BucketsRefilled == Spec => EagerSpec
  BY TypeCorrect, InitRefines, StepRefines, PTL DEF Spec, EagerSpec, Eager!Spec

-----------------------------------------------------------------------------
(* A sleep is long enough.                                                 *)

(* Whoever sleeps will find a whole token if nobody takes from the bucket. *)
Enough(r) == Level(Asked(r)) + req[r].left * Rate[Asked(r)] >= UNIT
SleepsEnough == \A r \in Req : req[r].at = "sleep" /\ r \notin robbed => Enough(r)

(* A quotient rounded up covers the dividend.                              *)
LEMMA RoundedUp ==
    ASSUME NEW a \in Nat, NEW b \in Nat \ {0}
    PROVE  ((a + b - 1) \div b) * b >= a
  <1> DEFINE q == (a + b - 1) \div b
  <1>1. q \in Nat /\ b * q <= a + b - 1 /\ a + b - 1 < b * q + b
    OBVIOUS
  <1> HIDE DEF q
  <1>2. b * q = q * b /\ q * b \in Nat
    BY <1>1
  <1> QED BY <1>1, <1>2 DEF q

(* The wait a request is told covers what its bucket lacks.                *)
LEMMA WaitCovers ==
    ASSUME TypeOK, NEW k \in Key, Level(k) < UNIT
    PROVE  Level(k) + Wait(k) * Rate[k] >= UNIT
  <1>1. Level(k) \in Nat /\ Rate[k] \in Nat \ {0} /\ UNIT \in Nat
    BY LevelType, LimiterConstants
  <1> DEFINE a == UNIT - Level(k)
  <1>2. a \in Nat
    BY <1>1
  <1>3. ((a + Rate[k] - 1) \div Rate[k]) * Rate[k] >= a
    <2> HIDE DEF a
    <2> QED BY <1>1, <1>2, RoundedUp
  <1>4. Wait(k) * Rate[k] >= a
    BY <1>3 DEF Wait
  <1>5. Wait(k) * Rate[k] \in Nat
    BY <1>1, WaitType, Products
  <1> DEFINE w == Wait(k) * Rate[k]
  <1> HIDE DEF w
  <1> QED BY <1>1, <1>4, <1>5 DEF w

(* A level after a step.                                                   *)
LEMMA LevelTypePrime ==
    ASSUME TypeOK', NEW k \in Key
    PROVE  Level(k)' \in Nat
  <1>1. bucket'[k].tokens \in Nat /\ bucket'[k].idle \in Nat
    BY LimiterConstants DEF TypeOK
  <1>2. Cap[k] \in Nat /\ Rate[k] \in Nat
    BY LimiterConstants
  <1>3. bucket'[k].tokens + bucket'[k].idle * Rate[k] \in Nat
    BY <1>1, <1>2, Products
  <1> QED BY <1>2, <1>3, LeastFacts DEF Level

(* The bucket of r did not lose anything in this step.                     *)
Kept(r) == \E k \in {Asked(r)} : ~(Level(k)' < Level(k))

(* A request that stays asleep keeps its place and its time, and its       *)
(* bucket has not lost anything: what it needs is still to come.           *)
LEMMA StaysEnough ==
    ASSUME TypeOK, TypeOK', NEW r \in Req, req[r].at = "sleep", Enough(r), req'[r] = req[r],
           Kept(r)
    PROVE  Enough(r)'
  <1>1. PICK k \in Key : k = Asked(r)
    BY AskedIsKey
  <1>2. ~(Level(k)' < Level(k))
    BY <1>1 DEF Kept
  <1>3. Level(k) \in Nat /\ Level(k)' \in Nat /\ Rate[k] \in Nat /\ UNIT \in Nat
    BY LevelType, LimiterConstants, LevelTypePrime
  <1> DEFINE w == req[r].left * Rate[k]
  <1>4. w \in Nat
    <2>1. req[r].left \in Nat
      BY TypeParts, LimiterConstants DEF Request
    <2> QED BY <1>3, <2>1, Products
  <1>5. Level(k) + w >= UNIT
    BY <1>1 DEF Enough
  <1>6. Level(k)' + w >= UNIT
    <2> HIDE DEF w
    <2> QED BY <1>2, <1>3, <1>4, <1>5
  <1>7. Asked(r)' = k
    BY <1>1 DEF Asked
  <1> QED BY <1>6, <1>7 DEF Enough

(* A tick brings a sleeper's bucket as much as it takes from its wait.     *)
LEMMA TickEnough ==
    ASSUME TypeOK, Tick, NEW r \in Req, req[r].at = "sleep", Enough(r)
    PROVE  Enough(r)'
  <1>1. PICK k \in Key : k = Asked(r)
    BY AskedIsKey
  <1>2. /\ req'[r].left = IF req[r].left = 0 THEN 0 ELSE req[r].left - 1
        /\ req'[r].client = req[r].client /\ req'[r].pos = req[r].pos
        /\ req[r].left \in Nat
    <2>1. req'[r] = [req[r] EXCEPT !.left = IF @ = 0 THEN 0 ELSE @ - 1]
      BY DEF Tick
    <2>2. req[r] \in Request
      BY TypeParts
    <2> QED BY <2>1, <2>2, LimiterConstants DEF Request
  <1>3. Asked(r)' = k
    BY <1>1, <1>2 DEF Asked
  <1>4. /\ Level(k)' = Least(Cap[k], Level(k) + Rate[k])
        /\ Level(k) \in Nat /\ Rate[k] \in Nat /\ Cap[k] \in Nat /\ UNIT \in Nat
        /\ Cap[k] >= UNIT /\ Level(k) <= Cap[k]
    BY TickLevel, LevelType, LimiterConstants
  <1> DEFINE w == req[r].left * Rate[k]
             v == req'[r].left * Rate[k]
  <1>5. Level(k) + w >= UNIT
    BY <1>1 DEF Enough
  <1>6. w \in Nat /\ v \in Nat /\ (req[r].left = 0 => w = 0) /\ (req[r].left # 0 => w = v + Rate[k])
    <2>1. req'[r].left \in Nat /\ (req[r].left # 0 => req[r].left = req'[r].left + 1)
      <3> HIDE DEF w, v
      <3> QED BY <1>2
    <2>2. w \in Nat /\ v \in Nat
      BY <1>2, <1>4, <2>1, Products
    <2>3. (req'[r].left + 1) * Rate[k] = v + Rate[k] /\ 0 * Rate[k] = 0
      BY <1>4, <2>1, Products
    <2>4. CASE req[r].left = 0
      BY <2>2, <2>3, <2>4
    <2>5. CASE req[r].left # 0
      <3>1. req[r].left = req'[r].left + 1
        BY <2>1, <2>5
      <3>2. w = v + Rate[k]
        BY <2>3, <3>1
      <3> QED BY <2>2, <2>5, <3>2
    <2> QED BY <2>4, <2>5
  <1>7. Level(k)' + v >= UNIT
    <2> HIDE DEF w, v
    <2> QED BY <1>4, <1>5, <1>6 DEF Least
  <1> QED BY <1>3, <1>7 DEF Enough

(* Who goes on is not asleep.                                              *)
LEMMA GoesOnAwake ==
    ASSUME TypeOK, NEW r \in Req, Proceed(r)
    PROVE  req'[r].at # "sleep"
  <1> DEFINE up == [req[r] EXCEPT !.pos = @ + 1]
             on == [up EXCEPT !.at = "ask"]
  <1>1. req[r] \in Request /\ req \in [Req -> Request]
    BY TypeParts
  <1>2. req'[r] \in {on, Away}
    BY <1>1 DEF Proceed
  <1>3. DOMAIN up = {"client", "pos", "at", "left"}
    BY <1>1 DEF Request
  <1>4. on.at = "ask"
    <2> HIDE DEF up
    <2> QED BY <1>3
  <1>5. Away.at # "sleep"
    BY DEF Away
  <1> HIDE DEF on
  <1> QED BY <1>2, <1>4, <1>5

(* Who stays asleep and was not robbed is as it was, or a tick passed.     *)
LEMMA SleepersKept ==
    ASSUME TypeOK, TypeOK', [HNext]_hvars, NEW r \in Req, req[r].at = "sleep",
           r \notin robbed, Enough(r), req'[r].at = "sleep", r \notin robbed'
    PROVE  Enough(r)'
  <1>1. CASE UNCHANGED hvars
    BY <1>1 DEF hvars, vars, Enough, Asked, Level
  <1>2. CASE HNext
    <2>1. Kept(r)
      BY <1>2 DEF HNext, Rob, Asleep, Kept
    <2>2. CASE Tick
      BY <2>2, TickEnough
    <2>3. ASSUME NEW q \in Req, Step(q) PROVE req'[r] = req[r]
      <3>1. CASE q # r
        BY <2>3, <3>1, TypeParts DEF Step, Arrive, Take, Sleep, Refuse, Wake, Proceed
      <3>2. CASE q = r
        <4>1. Wake(r)
          BY <2>3, <3>2 DEF Step, Arrive, Take, Sleep, Refuse
        <4>2. req'[r].at # "sleep"
          BY <4>1, GoesOnAwake DEF Wake
        <4> QED BY <4>2
      <3> QED BY <3>1, <3>2
    <2>4. ASSUME NEW k \in Key, Drop(k) PROVE req'[r] = req[r]
      BY <2>4 DEF Drop
    <2> QED BY <1>2, <2>1, <2>2, <2>3, <2>4, StaysEnough DEF HNext, Next
  <1> QED BY <1>1, <1>2

(* Who goes to sleep is told a wait that covers what the bucket lacks.     *)
LEMMA SleepersTold ==
    ASSUME TypeOK, TypeOK', [Next]_vars, NEW r \in Req, req[r].at # "sleep",
           req'[r].at = "sleep"
    PROVE  Enough(r)'
  <1>1. Sleep(r)
    <2>1. ASSUME NEW q \in Req, Step(q), ~(q = r /\ Sleep(r)) PROVE FALSE
      <3>1. CASE q # r
        BY <2>1, <3>1, TypeParts DEF Step, Arrive, Take, Sleep, Refuse, Wake, Proceed
      <3>2. CASE q = r /\ Arrive(r)
        BY <3>2, TypeParts DEF Arrive, Away, Request
      <3>3. CASE q = r /\ (Take(r) \/ Wake(r))
        BY <3>3, GoesOnAwake DEF Take, Wake
      <3>4. CASE q = r /\ Refuse(r)
        BY <3>4, TypeParts DEF Refuse, Away
      <3> QED BY <2>1, <3>1, <3>2, <3>3, <3>4 DEF Step
    <2>2. ASSUME NEW k \in Key, Drop(k) PROVE FALSE
      BY <2>2 DEF Drop
    <2>3. CASE Tick
      BY <2>3, TypeParts DEF Tick, Request
    <2>4. CASE UNCHANGED vars
      BY <2>4 DEF vars
    <2> QED BY <2>1, <2>2, <2>3, <2>4 DEF Next
  <1>2. PICK k \in Key : k = Asked(r)
    BY <1>1, AskedIsKey DEF Sleep
  <1>3. Level(k) < UNIT /\ Set(k, Level(k))
    BY <1>1, <1>2 DEF Sleep
  <1>4. Level(k)' = Level(k)
    BY <1>2, <1>3, LevelType, SetLevel
  <1>5. req'[r].left = Wait(k) /\ req'[r].client = req[r].client /\ req'[r].pos = req[r].pos
    <2> DEFINE p == [req[r] EXCEPT !.at = "sleep"]
    <2>1. p \in Request /\ p.client = req[r].client /\ p.pos = req[r].pos
      BY TypeParts, FieldTypes DEF Request
    <2>2. req'[r] = [p EXCEPT !.left = Wait(k)]
      BY <1>1, <1>2, TypeParts DEF Sleep
    <2> HIDE DEF p
    <2> QED BY <2>1, <2>2 DEF Request
  <1>6. Asked(r)' = k
    BY <1>2, <1>5 DEF Asked
  <1>7. Level(k) + Wait(k) * Rate[k] >= UNIT
    BY <1>3, WaitCovers
  <1> QED BY <1>4, <1>5, <1>6, <1>7 DEF Enough

(* The history leaves the limiter alone.                                   *)
LEMMA HistorySpec == HSpec => Spec
  <1>1. [HNext]_hvars => [Next]_vars
    BY DEF HNext, hvars
  <1> QED BY <1>1, PTL DEF HSpec, HInit, Spec

(* A sleeper whose bucket nobody took from wakes up to a whole token,      *)
(* however the bucket was refilled, dropped and made anew in between.      *)
THEOREM WakeInTimeAlways == HSpec => []WakeInTime
  <1>1. HInit => SleepsEnough
    BY DEF HInit, Init, SleepsEnough, Away
  <1>2. TypeOK /\ TypeOK' /\ SleepsEnough /\ [HNext]_hvars => SleepsEnough'
    <2> SUFFICES ASSUME TypeOK, TypeOK', SleepsEnough, [HNext]_hvars,
                        NEW r \in Req, req'[r].at = "sleep", r \notin robbed'
                 PROVE  Enough(r)'
      BY DEF SleepsEnough
    <2>1. [Next]_vars
      BY DEF HNext, hvars
    <2>2. CASE req[r].at # "sleep"
      BY <2>1, <2>2, SleepersTold
    <2>3. CASE req[r].at = "sleep"
      <3>1. r \notin robbed
        BY <2>3 DEF HNext, Rob, Asleep, hvars
      <3>2. Enough(r)
        BY <2>3, <3>1 DEF SleepsEnough
      <3> QED BY <2>3, <3>1, <3>2, SleepersKept
    <2> QED BY <2>2, <2>3
  <1>3. TypeOK /\ SleepsEnough => WakeInTime
    <2> SUFFICES ASSUME TypeOK, NEW r \in Req, req[r].at = "sleep", Enough(r), req[r].left = 0
                 PROVE  Level(Asked(r)) >= UNIT
      BY DEF SleepsEnough, WakeInTime, Asleep
    <2>1. Asked(r) \in Key
      BY AskedIsKey
    <2>2. Rate[Asked(r)] \in Nat /\ Level(Asked(r)) \in Nat
      BY <2>1, LevelType
    <2>3. req[r].left * Rate[Asked(r)] = 0
      BY <2>2, Products
    <2> QED BY <2>2, <2>3 DEF Enough
  <1> QED BY <1>1, <1>2, <1>3, HistorySpec, TypeCorrect, PTL DEF HSpec
=============================================================================

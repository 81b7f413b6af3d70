---------------------------- MODULE AcugwProofs -----------------------------
(***************************************************************************)
(* Proofs about acugw and the tunnel it reaches its accounts through.      *)
(*                                                                         *)
(* AccountPool, for any number of accounts and clients: types, no busy     *)
(* account without a holder, and exclusive leases up to the race of        *)
(* heal_if_cooled with a mark.                                             *)
(*                                                                         *)
(* Tunnel, for any number of tunnels and connections: types, and no byte   *)
(* lost or doubled while a link holds.                                     *)
(*                                                                         *)
(* AcuRelay, for any capacities and any number of events: types, one       *)
(* [DONE] at most and last, and short streams that arrive whole.           *)
(***************************************************************************)
EXTENDS MCAccountPool, AcuRelay, Tunnel, FiniteSetTheorems, FunctionTheorems, SequenceTheorems,
        TLAPS

(***************************************************************************)
(* What a sequence holds and in which order, while it grows at its end and *)
(* shrinks at its head: the tunnel's wires and the relay's channels.       *)
(***************************************************************************)

(* A frame is in a sequence, how often, ...                                *)
On(s, f) == \E i \in 1 .. Len(s) : s[i] = f
Copies(s, f) == Cardinality({i \in 1 .. Len(s) : s[i] = f})
(* ... before every g, after every g, and once at most.                    *)
Leads(s, f, g) == \E i \in 1 .. Len(s) : s[i] = f /\ \A j \in 1 .. i : s[j] # g
Trails(s, f, g) == \A i, j \in 1 .. Len(s) : s[i] = f /\ s[j] = g => j < i
Once(s, f) == \A i, j \in 1 .. Len(s) : s[i] = f /\ s[j] = f => i = j

(* A sequence holds a frame a natural number of times.                     *)
LEMMA CopiesType ==
    ASSUME NEW F, NEW s \in Seq(F), NEW f
    PROVE  /\ Copies(s, f) \in Nat
           /\ IsFiniteSet({i \in 1 .. Len(s) : s[i] = f})
           /\ ~On(s, f) => Copies(s, f) = 0
<1> DEFINE I == {i \in 1 .. Len(s) : s[i] = f}
<1>1. IsFiniteSet(1 .. Len(s))
  BY FS_Interval, LenProperties
<1>2. IsFiniteSet(I) /\ Cardinality(I) \in Nat
  BY <1>1, FS_Subset, FS_CardinalityType
<1>3. ~On(s, f) => I = {}
  BY DEF On
<1> QED BY <1>2, <1>3, FS_EmptySet DEF Copies

(* What a sequence holds once it has grown, ...                            *)
LEMMA AppendFrames ==
    ASSUME NEW F, NEW s \in Seq(F), NEW e \in F
    PROVE  /\ Append(s, e) \in Seq(F)
           /\ \A f : On(Append(s, e), f) <=> On(s, f) \/ f = e
           /\ \A f : Copies(Append(s, e), f) = Copies(s, f) + (IF f = e THEN 1 ELSE 0)
<1> DEFINE r == Append(s, e)
<1>1. /\ r \in Seq(F) /\ Len(s) \in Nat /\ Len(r) = Len(s) + 1
      /\ r[Len(s) + 1] = e /\ \A i \in 1 .. Len(s) : r[i] = s[i]
  BY AppendProperties, LenProperties
<1> HIDE DEF r
<1>2. ASSUME NEW f PROVE On(r, f) <=> On(s, f) \/ f = e
  <2>1. On(r, f) => On(s, f) \/ f = e
    BY <1>1 DEF On
  <2>2. On(s, f) => On(r, f)
    BY <1>1 DEF On
  <2>3. f = e => On(r, f)
    BY <1>1 DEF On
  <2> QED BY <2>1, <2>2, <2>3
<1>3. ASSUME NEW f PROVE Copies(r, f) = Copies(s, f) + (IF f = e THEN 1 ELSE 0)
  <2> DEFINE I == {i \in 1 .. Len(s) : s[i] = f}
             J == {i \in 1 .. Len(r) : r[i] = f}
  <2>1. IsFiniteSet(I) /\ Cardinality(I) \in Nat
    BY CopiesType DEF Copies
  <2>2. CASE f = e
    <3>1. J = I \cup {Len(s) + 1} /\ Len(s) + 1 \notin I
      BY <1>1, <2>2
    <3>2. Cardinality(J) = Cardinality(I) + 1
      BY <2>1, <3>1, FS_AddElement
    <3> QED BY <2>2, <3>2 DEF Copies
  <2>3. CASE f # e
    <3>1. J = I
      BY <1>1, <2>3
    <3>2. Copies(r, f) = Copies(s, f)
      BY <3>1, Zenon DEF Copies
    <3> QED BY <2>1, <2>3, <3>2 DEF Copies
  <2> QED BY <2>2, <2>3
<1> QED BY <1>1, <1>2, <1>3 DEF r

(* ... and once it has shrunk.                                             *)
LEMMA TailFrames ==
    ASSUME NEW F, NEW s \in Seq(F), s # <<>>
    PROVE  /\ Tail(s) \in Seq(F) /\ Head(s) \in F /\ On(s, Head(s))
           /\ \A f : On(Tail(s), f) => On(s, f)
           /\ \A f : f # Head(s) /\ On(s, f) => On(Tail(s), f)
           /\ \A f : Copies(Tail(s), f) + (IF f = Head(s) THEN 1 ELSE 0) = Copies(s, f)
<1> DEFINE r == Tail(s)
<1>1. /\ r \in Seq(F) /\ Len(s) \in Nat \ {0} /\ Len(r) = Len(s) - 1 /\ Head(s) = s[1]
      /\ Head(s) \in F /\ \A i \in 1 .. Len(r) : r[i] = s[i + 1]
  BY HeadTailProperties, EmptySeq
<1> HIDE DEF r
<1>2. On(s, Head(s))
  BY <1>1 DEF On
<1>3. ASSUME NEW f, On(r, f) PROVE On(s, f)
  <2>1. PICK i \in 1 .. Len(r) : r[i] = f
    BY <1>3 DEF On
  <2>2. i + 1 \in 1 .. Len(s) /\ s[i + 1] = f
    BY <1>1, <2>1
  <2> QED BY <2>2 DEF On
<1>4. ASSUME NEW f, f # Head(s), On(s, f) PROVE On(r, f)
  <2>1. PICK i \in 1 .. Len(s) : s[i] = f
    BY <1>4 DEF On
  <2>2. i - 1 \in 1 .. Len(r) /\ r[i - 1] = f
    BY <1>1, <1>4, <2>1
  <2> QED BY <2>2 DEF On
<1>5. ASSUME NEW f PROVE Copies(r, f) + (IF f = Head(s) THEN 1 ELSE 0) = Copies(s, f)
  <2> DEFINE I == {i \in 1 .. Len(s) : s[i] = f}
             J == {i \in 1 .. Len(r) : r[i] = f}
             K == I \ {1}
             Shift == [i \in J |-> i + 1]
  <2>1. /\ IsFiniteSet(I) /\ Cardinality(I) \in Nat /\ IsFiniteSet(J)
        /\ Cardinality(J) \in Nat
    BY <1>1, CopiesType DEF Copies
  <2>2. Shift \in Bijection(J, K)
    <3>1. \A i \in J : i + 1 \in K
      BY <1>1
    <3>2. \A k \in K : k - 1 \in J /\ (k - 1) + 1 = k
      BY <1>1
    <3>3. Shift \in [J -> K]
      BY <3>1
    <3>4. \A k \in K : \E i \in J : Shift[i] = k
      BY <3>2
    <3>5. \A i, j \in J : Shift[i] = Shift[j] => i = j
      OBVIOUS
    <3> QED BY <3>3, <3>4, <3>5, Fun_IsBij
  <2>3. Cardinality(K) = Cardinality(J)
    BY <2>1, <2>2, FS_Bijection DEF ExistsBijection
  <2>4. CASE f = Head(s)
    <3>1. 1 \in I
      BY <1>1, <2>4
    <3>2. Cardinality(K) = Cardinality(I) - 1
      BY <2>1, <3>1, FS_RemoveElement
    <3> QED BY <2>1, <2>3, <2>4, <3>2 DEF Copies
  <2>5. CASE f # Head(s)
    <3>1. K = I
      BY <1>1, <2>5
    <3>2. Cardinality(J) = Cardinality(I)
      BY <2>3, <3>1
    <3> QED BY <2>1, <2>5, <3>2 DEF Copies
  <2> QED BY <2>4, <2>5
<1> QED BY <1>1, <1>2, <1>3, <1>4, <1>5 DEF r

(* The order of frames is kept.                                            *)
LEMMA AppendOrder ==
    ASSUME NEW F, NEW s \in Seq(F), NEW e \in F, NEW f, NEW g, f # g
    PROVE  /\ Leads(s, f, g) => Leads(Append(s, e), f, g)
           /\ e = f /\ ~On(s, g) => Leads(Append(s, e), f, g)
           /\ Trails(s, f, g) /\ (e = g => ~On(s, f)) => Trails(Append(s, e), f, g)
           /\ Once(s, f) /\ (e = f => ~On(s, f)) => Once(Append(s, e), f)
<1> DEFINE r == Append(s, e)
<1>1. /\ Len(s) \in Nat /\ Len(r) = Len(s) + 1
      /\ r[Len(s) + 1] = e /\ \A i \in 1 .. Len(s) : r[i] = s[i]
  BY AppendProperties, LenProperties
<1>2. \A i \in 1 .. Len(r) : i \in 1 .. Len(s) \/ i = Len(s) + 1
  BY <1>1
<1> HIDE DEF r
<1>3. ASSUME Leads(s, f, g) PROVE Leads(r, f, g)
  <2>1. PICK i \in 1 .. Len(s) : s[i] = f /\ \A j \in 1 .. i : s[j] # g
    BY <1>3 DEF Leads
  <2>2. i \in 1 .. Len(r) /\ r[i] = f /\ \A j \in 1 .. i : r[j] # g
    BY <1>1, <2>1
  <2> QED BY <2>2 DEF Leads
<1>4. ASSUME e = f, ~On(s, g) PROVE Leads(r, f, g)
  <2> DEFINE i == Len(s) + 1
  <2>1. i \in 1 .. Len(r) /\ r[i] = f
    BY <1>1, <1>4
  <2>2. \A j \in 1 .. i : r[j] # g
    BY <1>1, <1>2, <1>4 DEF On
  <2> QED BY <2>1, <2>2 DEF Leads
<1>5. ASSUME Trails(s, f, g), e = g => ~On(s, f) PROVE Trails(r, f, g)
  <2> SUFFICES ASSUME NEW i \in 1 .. Len(r), NEW j \in 1 .. Len(r), r[i] = f, r[j] = g
               PROVE  j < i
    BY DEF Trails
  <2>1. CASE i \in 1 .. Len(s) /\ j \in 1 .. Len(s)
    BY <1>1, <1>5, <2>1 DEF Trails
  <2>2. CASE i = Len(s) + 1
    BY <1>1, <1>2, <2>2
  <2>3. CASE j = Len(s) + 1 /\ i \in 1 .. Len(s)
    BY <1>1, <1>5, <2>3 DEF On
  <2> QED BY <1>2, <2>1, <2>2, <2>3
<1>6. ASSUME Once(s, f), e = f => ~On(s, f) PROVE Once(r, f)
  BY <1>1, <1>2, <1>6 DEF Once, On
<1> QED BY <1>3, <1>4, <1>5, <1>6 DEF r

LEMMA TailOrder ==
    ASSUME NEW F, NEW s \in Seq(F), s # <<>>, NEW f, NEW g, f # g
    PROVE  /\ Leads(s, f, g) => Head(s) # g
           /\ Leads(s, f, g) /\ Head(s) # f => Leads(Tail(s), f, g)
           /\ Trails(s, f, g) => Trails(Tail(s), f, g)
           /\ Trails(s, f, g) /\ Head(s) = f => ~On(Tail(s), g)
           /\ Once(s, f) => Once(Tail(s), f)
           /\ Once(s, f) /\ Head(s) = f => ~On(Tail(s), f)
<1> DEFINE r == Tail(s)
<1>1. /\ Len(s) \in Nat \ {0} /\ Len(r) = Len(s) - 1 /\ Head(s) = s[1]
      /\ \A i \in 1 .. Len(r) : r[i] = s[i + 1]
  BY HeadTailProperties, EmptySeq
<1>2. 1 \in 1 .. Len(s) /\ \A i \in 1 .. Len(r) : i + 1 \in 1 .. Len(s) /\ i + 1 # 1
  BY <1>1
<1> HIDE DEF r
<1>3. ASSUME Leads(s, f, g)
      PROVE  Head(s) # g /\ (Head(s) # f => Leads(r, f, g))
  <2>1. PICK i \in 1 .. Len(s) : s[i] = f /\ \A j \in 1 .. i : s[j] # g
    BY <1>3 DEF Leads
  <2>2. Head(s) # g
    BY <1>1, <2>1
  <2>3. ASSUME Head(s) # f PROVE Leads(r, f, g)
    <3> DEFINE k == i - 1
    <3>1. k \in 1 .. Len(r) /\ r[k] = f
      BY <1>1, <2>1, <2>3
    <3>2. \A j \in 1 .. k : r[j] # g
      BY <1>1, <2>1
    <3> QED BY <3>1, <3>2 DEF Leads
  <2> QED BY <2>2, <2>3
<1>4. ASSUME Trails(s, f, g) PROVE Trails(r, f, g)
  <2> SUFFICES ASSUME NEW i \in 1 .. Len(r), NEW j \in 1 .. Len(r), r[i] = f, r[j] = g
               PROVE  j < i
    BY DEF Trails
  <2>1. j + 1 < i + 1
    BY <1>1, <1>2, <1>4 DEF Trails
  <2> QED BY <1>1, <2>1
<1>5. ASSUME Trails(s, f, g), Head(s) = f, On(r, g) PROVE FALSE
  <2>1. PICK j \in 1 .. Len(r) : r[j] = g
    BY <1>5 DEF On
  <2>2. j + 1 < 1
    BY <1>1, <1>2, <1>5, <2>1 DEF Trails
  <2> QED BY <1>1, <2>2
<1>6. ASSUME Once(s, f) PROVE Once(r, f)
  <2> SUFFICES ASSUME NEW i \in 1 .. Len(r), NEW j \in 1 .. Len(r), r[i] = f, r[j] = f
               PROVE  i = j
    BY DEF Once
  <2>1. i + 1 = j + 1
    BY <1>1, <1>2, <1>6 DEF Once
  <2> QED BY <1>1, <2>1
<1>7. ASSUME Once(s, f), Head(s) = f, On(r, f) PROVE FALSE
  BY <1>1, <1>2, <1>7 DEF Once, On
<1> QED BY <1>3, <1>4, <1>5, <1>6, <1>7 DEF r

(* The empty sequence holds nothing.                                       *)
LEMMA EmptyWire ==
    ASSUME NEW f, NEW g
    PROVE  ~On(<<>>, f) /\ Copies(<<>>, f) = 0 /\ Trails(<<>>, f, g) /\ ~Leads(<<>>, f, g)
<1>1. Len(<<>>) = 0 /\ <<>> \in Seq({})
  BY EmptySeq
<1>2. ~On(<<>>, f) /\ Trails(<<>>, f, g) /\ ~Leads(<<>>, f, g)
  BY <1>1 DEF On, Trails, Leads
<1> QED BY <1>1, <1>2, CopiesType

-----------------------------------------------------------------------------
(* The wires.                                                              *)

-----------------------------------------------------------------------------
(***************************************************************************)
(* AccountPool.                                                            *)
(***************************************************************************)
Job == [pc : Pc, acc : Account \cup {NoAccount}, attempt : 0 .. MAX_ATTEMPTS - 1,
        todo : SUBSET Account, verdict : Verdict, next : {"drop", "nap", "cleanup"},
        over : BOOLEAN]
Work == [pc : {"none", "relay", "mark"}, acc : Account \cup {NoAccount}]

AccountsOK ==
    /\ state \in [Account -> AccountState]
    /\ cooling \in [Account -> BOOLEAN] /\ token \in [Account -> BOOLEAN]
    /\ errors \in [Account -> 0 .. MAX_ERROR_COUNT]
JobsOK == job \in [Req -> Job]
TasksOK == task \in [Req -> Work]

-----------------------------------------------------------------------------
(* Type correctness.                                                       *)

(* Setting one field of a handler to a value of its type.                  *)
LEMMA FieldTypes ==
    ASSUME NEW j \in Job
    PROVE  /\ \A p \in Pc : [j EXCEPT !.pc = p] \in Job
           /\ \A a \in Account \cup {NoAccount} : [j EXCEPT !.acc = a] \in Job
           /\ \A n \in 0 .. MAX_ATTEMPTS - 1 : [j EXCEPT !.attempt = n] \in Job
           /\ \A t \in SUBSET Account : [j EXCEPT !.todo = t] \in Job
           /\ \A v \in Verdict : [j EXCEPT !.verdict = v] \in Job
           /\ \A n \in {"drop", "nap", "cleanup"} : [j EXCEPT !.next = n] \in Job
           /\ \A o \in BOOLEAN : [j EXCEPT !.over = o] \in Job
BY DEF Job

(* A handler that is idle or begins a scan is well-typed.                  *)
LEMMA JobTypes ==
    /\ Idle \in Job
    /\ \A n \in 0 .. MAX_ATTEMPTS - 1 : Scanning(n) \in Job
<1>1. 0 \in 0 .. MAX_ATTEMPTS - 1
  BY PoolConstants
<1>2. Idle \in Job
  BY <1>1 DEF Job, Idle, Pc, Held, Verdict
<1>3. ASSUME NEW n \in 0 .. MAX_ATTEMPTS - 1 PROVE Scanning(n) \in Job
  <2> DEFINE j == [Idle EXCEPT !.pc = "scan"]
             k == [j EXCEPT !.attempt = n]
  <2>1. j \in Job
    BY <1>2, FieldTypes DEF Pc
  <2>2. Scanning(n) = [k EXCEPT !.todo = Account]
    BY DEF Scanning
  <2> HIDE DEF j
  <2>3. k \in Job
    BY <2>1, FieldTypes
  <2> HIDE DEF k
  <2> QED BY <2>2, <2>3, FieldTypes
<1> QED BY <1>2, <1>3

(* Counting an error stays below MAX_ERROR_COUNT.                          *)
LEMMA CountTypes ==
    \A n \in 0 .. MAX_ERROR_COUNT : OneMore(n) \in 0 .. MAX_ERROR_COUNT
BY PoolConstants DEF OneMore

(* Replacing one handler by a well-typed one.                              *)
LEMMA JobReplaced ==
    ASSUME JobsOK, NEW r \in Req, NEW j \in Job, job' = [job EXCEPT ![r] = j]
    PROVE  JobsOK'
BY DEF JobsOK

(* A handler goes on to another place ...                                  *)
LEMMA GotoTypes ==
    ASSUME JobsOK, NEW r \in Req, NEW p \in Pc, Goto(r, p)
    PROVE  JobsOK'
<1>1. [job[r] EXCEPT !.pc = p] \in Job
  BY FieldTypes DEF JobsOK
<1>2. job' = [job EXCEPT ![r] = [job[r] EXCEPT !.pc = p]]
  BY DEF Goto
<1> QED BY <1>1, <1>2, JobReplaced

(* ... with another account ...                                            *)
LEMMA GotoAccTypes ==
    ASSUME JobsOK, NEW r \in Req, NEW p \in Pc, NEW a \in Account \cup {NoAccount},
           job' = [job EXCEPT ![r].pc = p, ![r].acc = a]
    PROVE  JobsOK'
<1> DEFINE j == [job[r] EXCEPT !.pc = p]
<1>1. j \in Job
  BY FieldTypes DEF JobsOK
<1>2. job' = [job EXCEPT ![r] = [j EXCEPT !.acc = a]]
  OBVIOUS
<1> HIDE DEF j
<1>3. [j EXCEPT !.acc = a] \in Job
  BY <1>1, FieldTypes
<1> QED BY <1>2, <1>3, JobReplaced

(* ... with its answer ...                                                 *)
LEMMA GotoOverTypes ==
    ASSUME JobsOK, NEW r \in Req, NEW p \in Pc,
           job' = [job EXCEPT ![r].pc = p, ![r].over = TRUE]
    PROVE  JobsOK'
<1> DEFINE j == [job[r] EXCEPT !.pc = p]
<1>1. j \in Job
  BY FieldTypes DEF JobsOK
<1>2. job' = [job EXCEPT ![r] = [j EXCEPT !.over = TRUE]]
  OBVIOUS
<1> HIDE DEF j
<1>3. [j EXCEPT !.over = TRUE] \in Job
  BY <1>1, FieldTypes
<1> QED BY <1>2, <1>3, JobReplaced

(* ... or with a verdict on its account, from where it goes on to n.       *)
LEMMA GotoVerdictTypes ==
    ASSUME JobsOK, NEW r \in Req, NEW p \in Pc, NEW v \in Verdict,
           NEW n \in {"drop", "nap", "cleanup"},
           job' = [job EXCEPT ![r].pc = p, ![r].verdict = v, ![r].next = n]
    PROVE  JobsOK'
<1> DEFINE j == [job[r] EXCEPT !.pc = p]
           k == [j EXCEPT !.verdict = v]
<1>1. j \in Job
  BY FieldTypes DEF JobsOK
<1>2. job' = [job EXCEPT ![r] = [k EXCEPT !.next = n]]
  OBVIOUS
<1> HIDE DEF j
<1>3. k \in Job
  BY <1>1, FieldTypes
<1> HIDE DEF k
<1>4. [k EXCEPT !.next = n] \in Job
  BY <1>3, FieldTypes
<1> QED BY <1>2, <1>4, JobReplaced

(* Dropping the guard leaves a well-typed handler: attempt stays in range. *)
LEMMA FinishedTypes ==
    ASSUME JobsOK, NEW r \in Req, Finished(r)
    PROVE  JobsOK'
<1> DEFINE j == IF job[r].over \/ job[r].attempt + 1 >= MAX_ATTEMPTS THEN Idle
                ELSE Scanning(job[r].attempt + 1)
<1>1. job[r].attempt \in 0 .. MAX_ATTEMPTS - 1
  BY DEF JobsOK, Job
<1>2. j \in Job
  <2>1. CASE job[r].over \/ job[r].attempt + 1 >= MAX_ATTEMPTS
    BY <2>1, JobTypes
  <2>2. CASE ~(job[r].over \/ job[r].attempt + 1 >= MAX_ATTEMPTS)
    <3>1. job[r].attempt + 1 \in 0 .. MAX_ATTEMPTS - 1
      BY <1>1, <2>2, PoolConstants
    <3> QED BY <2>2, <3>1, JobTypes
  <2> QED BY <2>1, <2>2
<1>3. job' = [job EXCEPT ![r] = j]
  BY DEF Finished
<1> HIDE DEF j
<1> QED BY <1>2, <1>3, JobReplaced

(* A scan begins anew in the same attempt.                                 *)
LEMMA RescanTypes ==
    ASSUME JobsOK, NEW r \in Req, job' = [job EXCEPT ![r] = Scanning(@.attempt)]
    PROVE  JobsOK'
<1>1. Scanning(job[r].attempt) \in Job
  BY JobTypes DEF JobsOK, Job
<1> QED BY <1>1, JobReplaced

(* The accounts' maps keep their type when one entry is set.               *)
LEMMA EntryTypes ==
    ASSUME NEW S, NEW V, NEW f \in [S -> V], NEW x, NEW v \in V
    PROVE  [f EXCEPT ![x] = v] \in [S -> V]
BY Zenon

(* Every place a handler goes to.                                          *)
LEMMA Places ==
    /\ {"idle", "scan", "load", "store", "clear", "cas"} \subseteq Pc
    /\ {"login", "call", "parse", "strike", "count", "punish", "cleanup", "nap",
        "drop", "free"} \subseteq Pc
BY DEF Pc, Held

(* acquire preserves the handlers' types.                                  *)
LEMMA AcquireJobs ==
    ASSUME JobsOK, NEW r \in Req, Acquire(r)
    PROVE  JobsOK'
<1>1. ASSUME NEW a \in Account, HealRead(r, a) PROVE JobsOK'
  <2> DEFINE p == IF cooling[a] THEN "scan" ELSE "load"
             q == IF cooling[a] THEN NoAccount ELSE a
             j == [job[r] EXCEPT !.todo = @ \ {a}]
             k == [j EXCEPT !.pc = p]
  <2>0. job[r] \in Job /\ job[r].todo \ {a} \in SUBSET Account
    BY DEF JobsOK, Job
  <2>1. j \in Job
    BY <2>0, FieldTypes
  <2>2. p \in Pc /\ q \in Account \cup {NoAccount}
    BY Places
  <2>3. job' = [job EXCEPT ![r] = [k EXCEPT !.acc = q]]
    BY <1>1 DEF HealRead
  <2> HIDE DEF j, p, q
  <2>4. k \in Job
    BY <2>1, <2>2, FieldTypes
  <2> HIDE DEF k
  <2>5. [k EXCEPT !.acc = q] \in Job
    BY <2>2, <2>4, FieldTypes
  <2> QED BY <2>3, <2>5, JobReplaced
<1>2. ASSUME NEW a \in Account, Pick(r, a) PROVE JobsOK'
  BY <1>2, GotoAccTypes, Places DEF Pick
<1>3. CASE HealLoad(r)
  <2>1. CASE state[Acc(r)] = "ERROR"
    <3>1. Goto(r, "store")
      BY <1>3, <2>1 DEF HealLoad, Goto
    <3> QED BY <3>1, GotoTypes, Places
  <2>2. CASE state[Acc(r)] # "ERROR"
    BY <1>3, <2>2, GotoAccTypes, Places DEF HealLoad
  <2> QED BY <2>1, <2>2
<1>4. CASE HealStore(r)
  BY <1>4, GotoTypes, Places DEF HealStore
<1>5. CASE HealClear(r)
  BY <1>5, GotoAccTypes, Places DEF HealClear
<1>6. CASE NonePicked(r)
  BY <1>6, RescanTypes DEF NonePicked
<1>7. CASE TimedOut(r)
  BY <1>7, JobReplaced, JobTypes DEF TimedOut
<1>8. CASE Cas(r)
  <2>1. CASE state[Acc(r)] = "IDLE"
    BY <1>8, <2>1, GotoTypes, Places DEF Cas
  <2>2. CASE state[Acc(r)] # "IDLE"
    BY <1>8, <2>2, RescanTypes DEF Cas
  <2> QED BY <2>1, <2>2
<1> QED BY <1>1, <1>2, <1>3, <1>4, <1>5, <1>6, <1>7, <1>8 DEF Acquire

(* The first half of a mark preserves them ...                             *)
LEMMA MarkJobs ==
    ASSUME JobsOK, NEW r \in Req, NEW v \in Verdict,
           NEW n \in {"drop", "nap", "cleanup"}, Mark(r, v, n)
    PROVE  JobsOK'
BY GotoVerdictTypes, Places DEF Mark

(* ... and so do login, calls, marks and the guard's drop.                 *)
LEMMA UseJobs ==
    ASSUME JobsOK, NEW r \in Req, Use(r)
    PROVE  JobsOK'
<1>1. CASE Reuse(r)
  BY <1>1, GotoTypes, Places DEF Reuse
<1>2. CASE LoginOk(r)
  BY <1>2, GotoTypes, Places DEF LoginOk
<1>3. ASSUME NEW muted \in BOOLEAN, LoginFail(r, muted) PROVE JobsOK'
  <2> DEFINE v == IF muted THEN "cool" ELSE AfterError(errors[Acc(r)])
             n == IF job[r].attempt + 1 < MAX_ATTEMPTS THEN "nap" ELSE "drop"
  <2>1. v \in Verdict /\ n \in {"drop", "nap", "cleanup"}
    BY DEF AfterError, Verdict
  <2>2. Mark(r, v, n)
    BY <1>3 DEF LoginFail
  <2> HIDE DEF v, n
  <2> QED BY <2>1, <2>2, MarkJobs
<1>4. CASE UpErr(r)
  <2>1. CASE Muted(r, "drop")
    BY <2>1, MarkJobs DEF Muted, Verdict
  <2>2. CASE InvalidateToken(r)
    BY <2>2, GotoTypes, Places DEF InvalidateToken
  <2>3. CASE MarkTransient(r)
    BY <2>3, GotoTypes, Places DEF MarkTransient
  <2>4. CASE MarkError(r)
    BY <2>4, GotoTypes, Places DEF MarkError
  <2> QED BY <1>4, <2>1, <2>2, <2>3, <2>4 DEF UpErr, HandleUpErr
<1>5. CASE Strike(r)
  BY <1>5, GotoTypes, Places DEF Strike
<1>6. CASE Count(r)
  <2> DEFINE v == AfterError(errors[Acc(r)])
             j == [job[r] EXCEPT !.pc = "punish"]
  <2>1. v \in Verdict
    BY DEF AfterError, Verdict
  <2>2. job' = [job EXCEPT ![r] = [j EXCEPT !.verdict = v]]
    BY <1>6 DEF Count
  <2>3. j \in Job
    BY FieldTypes, Places DEF JobsOK
  <2> HIDE DEF v, j
  <2>4. [j EXCEPT !.verdict = v] \in Job
    BY <2>1, <2>3, FieldTypes
  <2> QED BY <2>2, <2>4, JobReplaced
<1>7. CASE Punish(r)
  <2>1. job[r].next \in Pc
    BY Places DEF JobsOK, Job
  <2> QED BY <1>7, <2>1, GotoVerdictTypes DEF Punish, Verdict
<1>8. CASE Answer(r)
  BY <1>8, GotoOverTypes, Places DEF Answer
<1>9. CASE RateLimited(r)
  BY <1>9, MarkJobs DEF RateLimited, Muted, Verdict
<1>10. CASE EmptyAnswer(r)
  BY <1>10, GotoTypes, Places DEF EmptyAnswer, MarkTransient
<1>11. CASE Stream(r)
  BY <1>11, GotoOverTypes, Places DEF Stream
<1>12. CASE Resume(r)
  BY <1>12, GotoTypes, Places DEF Resume
<1>13. CASE DropLoad(r)
  BY <1>13, GotoTypes, FinishedTypes, Places DEF DropLoad
<1>14. CASE DropStore(r)
  BY <1>14, FinishedTypes DEF DropStore
<1> QED BY <1>1, <1>2, <1>3, <1>4, <1>5, <1>6, <1>7, <1>8, <1>9, <1>10, <1>11, <1>12,
           <1>13, <1>14 DEF Use

(* Counting an error keeps the type of error_count.                        *)
LEMMA CountedTypes ==
    ASSUME NEW f \in [Account -> 0 .. MAX_ERROR_COUNT], NEW x
    PROVE  [f EXCEPT ![x] = OneMore(@)] \in [Account -> 0 .. MAX_ERROR_COUNT]
<1>1. ASSUME NEW y \in Account
      PROVE  (IF y = x THEN OneMore(f[x]) ELSE f[y]) \in 0 .. MAX_ERROR_COUNT
  BY CountTypes
<1> QED BY <1>1, Zenon

(* acquire preserves the accounts' types, ...                              *)
LEMMA AcquireAccounts ==
    ASSUME AccountsOK, NEW r \in Req, Acquire(r)
    PROVE  AccountsOK'
<1> USE DEF AccountsOK
<1>1. ASSUME NEW a \in Account, HealRead(r, a) \/ Pick(r, a) PROVE AccountsOK'
  BY <1>1 DEF HealRead, Pick
<1>2. CASE HealLoad(r) \/ NonePicked(r) \/ TimedOut(r)
  BY <1>2 DEF HealLoad, NonePicked, TimedOut
<1>3. CASE HealStore(r)
  BY <1>3, EntryTypes DEF HealStore, AccountState
<1>4. CASE HealClear(r)
  <2>1. 0 \in 0 .. MAX_ERROR_COUNT
    BY PoolConstants
  <2> QED BY <1>4, <2>1, EntryTypes DEF HealClear
<1>5. CASE Cas(r)
  BY <1>5, EntryTypes DEF Cas, AccountState
<1> QED BY <1>1, <1>2, <1>3, <1>4, <1>5 DEF Acquire

(* ... so do the handler's other steps ...                                 *)
LEMMA UseAccounts ==
    ASSUME AccountsOK, NEW r \in Req, Use(r)
    PROVE  AccountsOK'
<1> USE DEF AccountsOK
<1>0. 0 \in 0 .. MAX_ERROR_COUNT
  BY PoolConstants
<1>1. CASE Reuse(r) \/ Answer(r) \/ Stream(r) \/ Resume(r) \/ DropLoad(r)
  BY <1>1 DEF Reuse, Answer, Stream, Resume, DropLoad
<1>2. CASE LoginOk(r)
  BY <1>0, <1>2, EntryTypes DEF LoginOk
<1>3. ASSUME NEW muted \in BOOLEAN, LoginFail(r, muted) PROVE AccountsOK'
  BY <1>3, EntryTypes, CountedTypes DEF LoginFail, Mark, AccountState
<1>4. ASSUME NEW n, Muted(r, n) PROVE AccountsOK'
  BY <1>4, EntryTypes DEF Muted, Mark, AccountState
<1>5. CASE MarkTransient(r)
  BY <1>5, EntryTypes DEF MarkTransient
<1>6. CASE UpErr(r)
  BY <1>4, <1>5, <1>6, EntryTypes DEF UpErr, HandleUpErr, InvalidateToken, MarkError
<1>7. CASE Strike(r) \/ DropStore(r)
  BY <1>7, EntryTypes DEF Strike, DropStore, AccountState
<1>8. CASE Count(r)
  BY <1>8, CountedTypes DEF Count
<1>9. CASE Punish(r)
  BY <1>9, EntryTypes DEF Punish, AccountState
<1>10. CASE RateLimited(r) \/ EmptyAnswer(r)
  BY <1>4, <1>5, <1>10 DEF RateLimited, EmptyAnswer
<1> QED BY <1>1, <1>2, <1>3, <1>6, <1>7, <1>8, <1>9, <1>10 DEF Use

(* ... and the stream task's and the clock's.                              *)
LEMMA TaskAccounts ==
    ASSUME AccountsOK,
           (\E r \in Req : Task(r)) \/ (\E a \in Account : CooldownEnds(a))
    PROVE  AccountsOK' /\ job' = job
<1> USE DEF AccountsOK
<1>1. ASSUME NEW r \in Req, Task(r) PROVE AccountsOK' /\ job' = job
  BY <1>1, EntryTypes DEF Task, TaskMuted, TaskCools, TaskEnds, AccountState
<1>2. ASSUME NEW a \in Account, CooldownEnds(a) PROVE AccountsOK' /\ job' = job
  BY <1>2, EntryTypes DEF CooldownEnds
<1> QED BY <1>1, <1>2

(* Tasks: only Stream starts one, for the account of its handler.          *)
LEMMA TaskTypes ==
    ASSUME JobsOK, TasksOK, Next
    PROVE  TasksOK'
<1> USE DEF TasksOK
<1>1. ASSUME NEW r \in Req, Arrive(r) \/ Acquire(r) \/ Cancel(r) PROVE TasksOK'
  BY <1>1 DEF Arrive, Acquire, HealRead, Pick, HealLoad, HealStore, HealClear, NonePicked,
              TimedOut, Cas, Cancel
<1>2. ASSUME NEW r \in Req, Use(r) PROVE TasksOK'
  <2>1. CASE Stream(r)
    <3>1. job[r].acc \in Account \cup {NoAccount}
      BY DEF JobsOK, Job
    <3>2. [pc |-> "relay", acc |-> job[r].acc] \in Work
      BY <3>1 DEF Work
    <3> QED BY <2>1, <3>2, EntryTypes DEF Stream, Acc
  <2>2. CASE ~Stream(r)
    BY <1>2, <2>2 DEF Use, Reuse, LoginOk, LoginFail, UpErr, HandleUpErr, Muted, InvalidateToken,
        MarkTransient, MarkError, Strike, Count, Punish, Answer, RateLimited, EmptyAnswer,
        Resume, DropLoad, DropStore
  <2> QED BY <2>1, <2>2
<1>3. ASSUME NEW r \in Req, Task(r) PROVE TasksOK'
  <2>1. NoTask \in Work /\ [task[r] EXCEPT !.pc = "mark"] \in Work
    BY DEF NoTask, Work
  <2>2. CASE TaskMuted(r)
    <3>1. task' = [task EXCEPT ![r] = [task[r] EXCEPT !.pc = "mark"]]
      BY <2>2 DEF TaskMuted
    <3> QED BY <2>1, <3>1, EntryTypes
  <2>3. CASE TaskCools(r) \/ TaskEnds(r)
    BY <2>1, <2>3, EntryTypes DEF TaskCools, TaskEnds
  <2> QED BY <1>3, <2>2, <2>3 DEF Task
<1>4. ASSUME NEW a \in Account, CooldownEnds(a) PROVE TasksOK'
  BY <1>4 DEF CooldownEnds
<1> QED BY <1>1, <1>2, <1>3, <1>4 DEF Next

(* Types are an invariant of the specification.                            *)
LEMMA TypeInductive ==
    /\ Init => TypeOK
    /\ TypeOK /\ [Next]_vars => TypeOK'
<1>0. TypeOK <=> AccountsOK /\ JobsOK /\ TasksOK
  BY DEF TypeOK, AccountsOK, JobsOK, TasksOK, Job, Work
<1>00. TypeOK' <=> AccountsOK' /\ JobsOK' /\ TasksOK'
  BY DEF TypeOK, AccountsOK, JobsOK, TasksOK, Job, Work
<1>1. ASSUME Init PROVE TypeOK
  <2>1. AccountsOK
    BY <1>1, PoolConstants DEF Init, AccountsOK, AccountState
  <2>2. JobsOK
    BY <1>1, JobTypes DEF Init, JobsOK
  <2>3. NoTask \in Work
    BY DEF NoTask, Work
  <2>4. TasksOK
    BY <1>1, <2>3 DEF Init, TasksOK
  <2> QED BY <1>0, <2>1, <2>2, <2>4
<1>2. ASSUME TypeOK, [Next]_vars PROVE TypeOK'
  <2>0. AccountsOK /\ JobsOK /\ TasksOK
    BY <1>0, <1>2
  <2>1. CASE UNCHANGED vars
    BY <2>0, <2>1, <1>00 DEF vars, AccountsOK, JobsOK, TasksOK
  <2>2. CASE Next
    <3>1. TasksOK'
      BY <2>0, <2>2, TaskTypes
    <3>2. ASSUME NEW r \in Req, Arrive(r) PROVE AccountsOK' /\ JobsOK'
      <4>1. Scanning(0) \in Job
        BY JobTypes, PoolConstants
      <4>2. JobsOK'
        BY <2>0, <3>2, <4>1, JobReplaced DEF Arrive
      <4> QED BY <2>0, <3>2, <4>2 DEF Arrive, AccountsOK
    <3>3. ASSUME NEW r \in Req, Cancel(r) PROVE AccountsOK' /\ JobsOK'
      <4>1. JobsOK'
        BY <2>0, <3>3, JobTypes, JobReplaced, GotoOverTypes, Places DEF Cancel
      <4> QED BY <2>0, <3>3, <4>1 DEF Cancel, AccountsOK
    <3>4. ASSUME NEW r \in Req, Acquire(r) \/ Use(r) PROVE AccountsOK' /\ JobsOK'
      BY <2>0, <3>4, AcquireAccounts, UseAccounts, AcquireJobs, UseJobs
    <3>5. ASSUME (\E r \in Req : Task(r)) \/ (\E a \in Account : CooldownEnds(a))
          PROVE  AccountsOK' /\ JobsOK'
      <4>1. AccountsOK' /\ job' = job
        BY <2>0, <3>5, TaskAccounts
      <4> QED BY <2>0, <4>1 DEF JobsOK
    <3>6. AccountsOK' /\ JobsOK'
      BY <2>2, <3>2, <3>3, <3>4, <3>5 DEF Next
    <3> QED BY <1>00, <3>1, <3>6
  <2> QED BY <1>2, <2>1, <2>2
<1> QED BY <1>1, <1>2

(* The pool and its clients' bookkeeping are always well-typed: error      *)
(* counts stay within MAX_ERROR_COUNT and attempts within MAX_ATTEMPTS     *)
(* (pool.rs, api.rs:105).                                                  *)
THEOREM TypeCorrect == Spec => []TypeOK
BY TypeInductive, PTL DEF Spec

-----------------------------------------------------------------------------
(* What a client's step does to leases and states, in four classes.        *)

OthersStay(r) == \A s \in Req \ {r} : job'[s] = job[s]

(* It holds what it held, and accounts are at most marked.                 *)
Quiet(r) ==
    /\ job'[r].pc \in Held <=> job[r].pc \in Held
    /\ job'[r].pc \in Held => job'[r].acc = job[r].acc
    /\ \A a \in Account : state'[a] \in {state[a], "ERROR", "INVALID"}

(* It heals an account.                                                    *)
Freed(r) ==
    /\ At(r, "store") /\ job'[r].pc = "clear"
    /\ state' = [state EXCEPT ![Acc(r)] = "IDLE"]

(* It takes an idle account.                                               *)
Taken(r) ==
    /\ At(r, "cas") /\ job'[r].pc = "login" /\ job'[r].acc = job[r].acc
    /\ state[Acc(r)] = "IDLE"
    /\ state' = [state EXCEPT ![Acc(r)] = "BUSY"]

(* It gives its account up, free or marked by somebody.                    *)
Left(r) ==
    /\ job[r].pc \in {"drop", "free"} /\ job'[r].pc \notin Held
    /\ \/ state[Acc(r)] # "BUSY" /\ UNCHANGED state
       \/ state' = [state EXCEPT ![Acc(r)] = "IDLE"]

(* Ending and rescanning hold nothing.                                     *)
LEMMA Unheld == Idle.pc = "idle" /\ \A n : Scanning(n).pc = "scan"
BY DEF Idle, Scanning

(* A client that held nothing begins or ends a search.                     *)
LEMMA Restarted ==
    ASSUME TypeOK, NEW r \in Req, NEW j, j.pc \in {"idle", "scan"}, job[r].pc \notin Held,
           job' = [job EXCEPT ![r] = j], UNCHANGED state
    PROVE  OthersStay(r) /\ Quiet(r)
<1>0. job \in [Req -> Job]
  BY DEF TypeOK, Job
<1>1. job'[r] = j /\ \A s \in Req \ {r} : job'[s] = job[s]
  BY <1>0
<1> QED BY <1>1 DEF OthersStay, Quiet, Held

(* The steps of acquire fall into the first three.                         *)
LEMMA AcquireClasses ==
    ASSUME TypeOK, NEW r \in Req, Acquire(r)
    PROVE  OthersStay(r) /\ (Quiet(r) \/ Freed(r) \/ Taken(r))
<1>0. job \in [Req -> Job] /\ state \in [Account -> AccountState]
  BY DEF TypeOK, Job
<1>1. ASSUME NEW a \in Account, HealRead(r, a) \/ Pick(r, a) PROVE OthersStay(r) /\ Quiet(r)
  BY <1>0, <1>1 DEF HealRead, Pick, OthersStay, Quiet, At, Held, Job
<1>2. CASE HealLoad(r)
  BY <1>0, <1>2 DEF HealLoad, OthersStay, Quiet, At, Held, Job
<1>3. CASE HealStore(r)
  BY <1>0, <1>3 DEF HealStore, OthersStay, Freed, At, Goto, Job
<1>4. CASE HealClear(r)
  BY <1>0, <1>4 DEF HealClear, OthersStay, Quiet, At, Held, Job
<1>5. CASE NonePicked(r) \/ TimedOut(r)
  BY <1>5, Unheld, Restarted DEF NonePicked, TimedOut, At, Held
<1>6. CASE Cas(r)
  <2>1. CASE state[Acc(r)] = "IDLE"
    BY <1>0, <1>6, <2>1 DEF Cas, OthersStay, Taken, At, Acc, Goto, Job
  <2>2. CASE state[Acc(r)] # "IDLE"
    BY <1>6, <2>2, Unheld, Restarted DEF Cas, At, Held
  <2> QED BY <2>1, <2>2
<1> QED BY <1>1, <1>2, <1>3, <1>4, <1>5, <1>6 DEF Acquire

(* Those of a handler with its account are quiet until it gives it up.     *)
LEMMA UseClasses ==
    ASSUME TypeOK, NEW r \in Req, Use(r)
    PROVE  OthersStay(r) /\ (Quiet(r) \/ Left(r))
<1>0. job \in [Req -> Job] /\ state \in [Account -> AccountState]
  BY DEF TypeOK, Job
<1>1. CASE Reuse(r) \/ LoginOk(r) \/ Answer(r) \/ Stream(r) \/ Resume(r)
  BY <1>0, <1>1 DEF Reuse, LoginOk, Answer, Stream, Resume, Goto, OthersStay, Quiet, At, Held, Job
<1>2. ASSUME NEW v, NEW n, Mark(r, v, n), job[r].pc \in {"login", "call"}
      PROVE OthersStay(r) /\ Quiet(r)
  BY <1>0, <1>2 DEF Mark, OthersStay, Quiet, Acc, Held, Job
<1>3. ASSUME NEW muted \in BOOLEAN, LoginFail(r, muted) PROVE OthersStay(r) /\ Quiet(r)
  BY <1>2, <1>3 DEF LoginFail, At
<1>4. CASE UpErr(r) \/ RateLimited(r) \/ EmptyAnswer(r)
  <2>1. ASSUME NEW n, Muted(r, n), At(r, "call") PROVE OthersStay(r) /\ Quiet(r)
    BY <1>2, <2>1 DEF Muted, At
  <2>2. CASE At(r, "call") /\ (InvalidateToken(r) \/ MarkTransient(r) \/ MarkError(r))
    BY <1>0, <2>2 DEF InvalidateToken, MarkTransient, MarkError, Goto, OthersStay, Quiet, At,
                      Held, Job
  <2> QED BY <1>4, <2>1, <2>2 DEF UpErr, HandleUpErr, RateLimited, EmptyAnswer
<1>5. CASE Strike(r) \/ Count(r)
  BY <1>0, <1>5 DEF Strike, Count, Goto, OthersStay, Quiet, At, Acc, Held, Job
<1>6. CASE Punish(r)
  BY <1>0, <1>6 DEF Punish, OthersStay, Quiet, At, Acc, Held, Job
<1>7. ASSUME Finished(r) PROVE OthersStay(r) /\ job'[r].pc \notin Held
  BY <1>0, <1>7 DEF Finished, OthersStay, Idle, Scanning, Held, Job
<1>8. CASE DropLoad(r)
  <2>1. CASE state[Acc(r)] = "BUSY"
    BY <1>0, <1>8, <2>1 DEF DropLoad, Goto, OthersStay, Quiet, At, Held, Job
  <2>2. CASE state[Acc(r)] # "BUSY"
    BY <1>7, <1>8, <2>2 DEF DropLoad, Left, At
  <2> QED BY <2>1, <2>2
<1>9. CASE DropStore(r)
  BY <1>7, <1>9 DEF DropStore, Left, At
<1> QED BY <1>1, <1>3, <1>4, <1>5, <1>6, <1>8, <1>9 DEF Use

(* Those of a client that comes or leaves are quiet.                       *)
LEMMA ClientClasses ==
    ASSUME TypeOK, NEW r \in Req, Arrive(r) \/ Cancel(r)
    PROVE  OthersStay(r) /\ Quiet(r)
<1>0. job \in [Req -> Job]
  BY DEF TypeOK, Job
<1>1. CASE Arrive(r)
  <2>1. job' = [job EXCEPT ![r] = Scanning(0)] /\ UNCHANGED state
    BY <1>1 DEF Arrive
  <2>2. job[r].pc \notin Held /\ Scanning(0).pc \in {"idle", "scan"}
    BY <1>1, Unheld DEF Arrive, At, Held
  <2> QED BY <1>0, <2>1, <2>2, Unheld DEF OthersStay, Quiet, Held
<1>2. CASE Cancel(r) /\ At(r, "cas")
  <2>1. job' = [job EXCEPT ![r] = Idle] /\ UNCHANGED state
    BY <1>2 DEF Cancel, At
  <2>2. job[r].pc \notin Held /\ Idle.pc \in {"idle", "scan"}
    BY <1>2, Unheld DEF At, Held
  <2> QED BY <1>0, <2>1, <2>2, Unheld DEF OthersStay, Quiet, Held
<1>3. CASE Cancel(r) /\ ~At(r, "cas")
  BY <1>0, <1>3 DEF Cancel, OthersStay, Quiet, At, Held, Job
<1> QED BY <1>1, <1>2, <1>3

(* So every step is one of the four, or touches no lease at all.           *)
LEMMA StepClasses ==
    ASSUME TypeOK, [Next]_vars
    PROVE  \/ job' = job /\ \A a \in Account : state'[a] \in {state[a], "ERROR", "INVALID"}
           \/ \E r \in Req : OthersStay(r) /\ (Quiet(r) \/ Freed(r) \/ Taken(r) \/ Left(r))
<1>0. job \in [Req -> Job] /\ state \in [Account -> AccountState]
  BY DEF TypeOK, Job
<1>1. CASE UNCHANGED vars
  BY <1>1 DEF vars
<1>2. ASSUME NEW r \in Req, Arrive(r) \/ Cancel(r) PROVE OthersStay(r) /\ Quiet(r)
  BY <1>2, ClientClasses
<1>3. ASSUME NEW r \in Req, Task(r)
      PROVE job' = job /\ \A a \in Account : state'[a] \in {state[a], "ERROR", "INVALID"}
  BY <1>0, <1>3 DEF Task, TaskMuted, TaskCools, TaskEnds
<1>4. ASSUME NEW a \in Account, CooldownEnds(a) PROVE job' = job /\ state' = state
  BY <1>4 DEF CooldownEnds
<1>5. CASE Next
  BY <1>2, <1>3, <1>4, <1>5, AcquireClasses, UseClasses DEF Next
<1> QED BY <1>1, <1>5

-----------------------------------------------------------------------------
(* No busy account without a holder.                                       *)

(* Each class of steps keeps busy accounts held: only Taken makes one      *)
(* busy, and only Left ends a hold, with its account no longer busy.       *)
LEMMA BusyStep ==
    ASSUME TypeOK, BusyIsHeld, [Next]_vars
    PROVE  BusyIsHeld'
<1> SUFFICES ASSUME NEW a \in Account, state'[a] = "BUSY"
             PROVE  \E s \in Req : job'[s].pc \in Held /\ job'[s].acc = a
  BY DEF BusyIsHeld, Holders, Holds
<1>0. state \in [Account -> AccountState]
  BY DEF TypeOK
<1>1. ASSUME state[a] = "BUSY"
      PROVE  \E s \in Req : job[s].pc \in Held /\ job[s].acc = a
  BY <1>1 DEF BusyIsHeld, Holders, Holds
<1>2. CASE job' = job /\ \A b \in Account : state'[b] \in {state[b], "ERROR", "INVALID"}
  BY <1>1, <1>2
<1>3. ASSUME NEW r \in Req, OthersStay(r), Quiet(r)
      PROVE  \E s \in Req : job'[s].pc \in Held /\ job'[s].acc = a
  <2>1. state[a] = "BUSY"
    BY <1>3 DEF Quiet
  <2> QED BY <1>1, <1>3, <2>1 DEF OthersStay, Quiet
<1>4. ASSUME NEW r \in Req, OthersStay(r), Freed(r)
      PROVE  \E s \in Req : job'[s].pc \in Held /\ job'[s].acc = a
  <2>1. state[a] = "BUSY"
    BY <1>0, <1>4 DEF Freed
  <2> QED BY <1>1, <1>4, <2>1 DEF OthersStay, Freed, At, Held
<1>5. ASSUME NEW r \in Req, OthersStay(r), Taken(r)
      PROVE  \E s \in Req : job'[s].pc \in Held /\ job'[s].acc = a
  <2>1. CASE Acc(r) = a
    BY <1>5, <2>1 DEF Taken, Acc, Held
  <2>2. CASE Acc(r) # a
    <3>1. state[a] = "BUSY"
      BY <1>0, <1>5, <2>2 DEF Taken
    <3> QED BY <1>1, <1>5, <3>1 DEF OthersStay, Taken, At, Held
  <2> QED BY <2>1, <2>2
<1>6. ASSUME NEW r \in Req, OthersStay(r), Left(r)
      PROVE  \E s \in Req : job'[s].pc \in Held /\ job'[s].acc = a
  <2>1. state[a] = "BUSY" /\ Acc(r) # a
    BY <1>0, <1>6 DEF Left
  <2> QED BY <1>1, <1>6, <2>1 DEF OthersStay, Acc
<1> QED BY <1>2, <1>3, <1>4, <1>5, <1>6, StepClasses

(* No account is ever lost as ST_BUSY: in every reachable state a busy     *)
(* account is held by a request whose guard is still to be dropped         *)
(* (AccountGuard::drop, release), whatever errors, disconnects, healing    *)
(* and late marks there have been.                                         *)
THEOREM BusyHeldAlways == Spec => []BusyIsHeld
<1>1. Init => BusyIsHeld
  BY DEF Init, BusyIsHeld
<1>2. TypeOK /\ BusyIsHeld /\ [Next]_vars => BusyIsHeld'
  BY BusyStep
<1> QED BY <1>1, <1>2, TypeCorrect, PTL DEF Spec

-----------------------------------------------------------------------------
(* Exclusive leases.                                                       *)

(* While healing has not overtaken a holder there is one at most, and none *)
(* at all of an account that acquire may take.                             *)
Sole(a) ==
    /\ \A r, s \in Req : Holds(r, a) /\ Holds(s, a) => r = s
    /\ state[a] = "IDLE" => \A r \in Req : ~Holds(r, a)
LeasesSole == \A a \in Account : ~overtaken[a] => Sole(a)

(* A step keeps the leases sole: a second holder would need an idle        *)
(* account under a first, which only Freed makes, and that is recorded.    *)
LEMMA SoleStep ==
    ASSUME TypeOK, LeasesSole, [HNext]_hvars
    PROVE  LeasesSole'
<1>0. state \in [Account -> AccountState] /\ job \in [Req -> Job]
  BY DEF TypeOK, Job
<1>1. CASE UNCHANGED hvars
  BY <1>1 DEF hvars, vars, LeasesSole, Sole, Holds
<1>2. CASE HNext
  <2> SUFFICES ASSUME NEW a \in Account, ~overtaken'[a] PROVE Sole(a)'
    BY DEF LeasesSole
  <2>1. CASE \A r \in Req : ~Holds(r, a)'
    BY <2>1 DEF Sole
  <2>2. CASE ~(\A r \in Req : ~Holds(r, a)')
    <3>1. /\ ~overtaken[a]
          /\ \A r, s \in Req :
                ~(Holds(s, a) /\ Acc(r) = a /\ At(r, "store") /\ ~At(r, "store")')
      BY <1>2, <2>2 DEF HNext, Holders
    <3>2. /\ \A r, s \in Req : Holds(r, a) /\ Holds(s, a) => r = s
          /\ state[a] = "IDLE" => \A r \in Req : ~Holds(r, a)
      BY <3>1 DEF LeasesSole, Sole
    <3>3. CASE job' = job /\ \A b \in Account : state'[b] \in {state[b], "ERROR", "INVALID"}
      BY <3>2, <3>3 DEF Sole, Holds
    <3>4. ASSUME NEW r \in Req, OthersStay(r), Quiet(r) PROVE Sole(a)'
      <4>1. \A s \in Req : Holds(s, a)' => Holds(s, a)
        BY <3>4 DEF OthersStay, Quiet, Holds
      <4>2. state'[a] = "IDLE" => state[a] = "IDLE"
        BY <3>4 DEF Quiet
      <4> QED BY <3>2, <4>1, <4>2 DEF Sole
    <3>5. ASSUME NEW r \in Req, OthersStay(r), Freed(r) PROVE Sole(a)'
      <4>1. \A s \in Req : Holds(s, a)' => Holds(s, a)
        BY <3>5 DEF OthersStay, Freed, Holds, Held
      <4>2. CASE Acc(r) = a
        <5>1. \A s \in Req : ~Holds(s, a)
          BY <3>1, <3>5, <4>2 DEF Freed, At
        <5> QED BY <4>1, <5>1 DEF Sole
      <4>3. CASE Acc(r) # a
        <5>1. state'[a] = state[a]
          BY <1>0, <3>5, <4>3 DEF Freed
        <5> QED BY <3>2, <4>1, <5>1 DEF Sole
      <4> QED BY <4>2, <4>3
    <3>6. ASSUME NEW r \in Req, OthersStay(r), Taken(r) PROVE Sole(a)'
      <4>1. CASE Acc(r) = a
        <5>1. \A s \in Req : ~Holds(s, a)
          BY <3>2, <3>6, <4>1 DEF Taken
        <5>2. \A s \in Req \ {r} : ~Holds(s, a)'
          BY <3>6, <5>1 DEF OthersStay, Holds
        <5>3. state'[a] = "BUSY"
          BY <1>0, <3>6, <4>1 DEF Taken
        <5> QED BY <5>2, <5>3 DEF Sole
      <4>2. CASE Acc(r) # a
        <5>1. \A s \in Req : Holds(s, a)' => Holds(s, a)
          BY <3>6, <4>2 DEF OthersStay, Taken, Holds, Acc
        <5>2. state'[a] = state[a]
          BY <1>0, <3>6, <4>2 DEF Taken
        <5> QED BY <3>2, <5>1, <5>2 DEF Sole
      <4> QED BY <4>1, <4>2
    <3>7. ASSUME NEW r \in Req, OthersStay(r), Left(r) PROVE Sole(a)'
      <4>1. ~Holds(r, a)' /\ \A s \in Req : Holds(s, a)' => Holds(s, a)
        BY <3>7 DEF OthersStay, Left, Holds
      <4>2. CASE Acc(r) = a
        <5>1. Holds(r, a)
          BY <3>7, <4>2 DEF Left, Holds, Held, Acc
        <5>2. \A s \in Req : ~Holds(s, a)'
          BY <3>2, <4>1, <5>1
        <5> QED BY <5>2 DEF Sole
      <4>3. CASE Acc(r) # a
        <5>1. state'[a] = state[a]
          BY <1>0, <3>7, <4>3 DEF Left
        <5> QED BY <3>2, <4>1, <5>1 DEF Sole
      <4> QED BY <4>2, <4>3
    <3>8. [Next]_vars
      BY <1>2 DEF HNext
    <3> QED BY <3>3, <3>4, <3>5, <3>6, <3>7, <3>8, StepClasses
  <2> QED BY <2>1, <2>2
<1> QED BY <1>1, <1>2

(* A set whose members are all equal has one at most.                      *)
LEMMA AtMostOne ==
    ASSUME NEW S, \A x, y \in S : x = y
    PROVE  Cardinality(S) \in 0 .. 1
<1>1. CASE S = {}
  BY <1>1, FS_EmptySet
<1>2. CASE S # {}
  <2>1. PICK x \in S : S = {x}
    BY <1>2
  <2> QED BY <2>1, FS_Singleton
<1> QED BY <1>1, <1>2

(* The types and Sole are invariants of the specification with history.    *)
LEMMA LeasesSoleAlways == HSpec => [](TypeOK /\ LeasesSole)
<1>1. HInit => TypeOK /\ LeasesSole
  <2>1. HInit => TypeOK
    BY TypeInductive DEF HInit
  <2>2. HInit => \A r \in Req : job[r].pc = "idle"
    BY Unheld DEF HInit, Init
  <2>3. HInit => LeasesSole
    BY <2>2 DEF LeasesSole, Sole, Holds, Held
  <2> QED BY <2>1, <2>3
<1>2. [HNext]_hvars => [Next]_vars
  BY DEF HNext, hvars
<1>3. TypeOK /\ LeasesSole /\ [HNext]_hvars => (TypeOK /\ LeasesSole)'
  BY <1>2, TypeInductive, SoleStep
<1> QED BY <1>1, <1>3, PTL DEF HSpec

(* Leases are exclusive for any number of accounts and clients: an account *)
(* has a second holder only after heal_if_cooled has freed it under a      *)
(* present one (pool.rs:282 between the two halves of a mark), and then    *)
(* only until its holders have gone.                                       *)
THEOREM ExclusiveAlways == HSpec => []ExclusiveUnlessOvertaken
<1>1. LeasesSole => ExclusiveUnlessOvertaken
  <2> SUFFICES ASSUME LeasesSole, NEW a \in Account, ~overtaken[a]
               PROVE  ~(Cardinality(Holders(a)) > 1)
    BY Zenon DEF ExclusiveUnlessOvertaken
  <2>1. \A x, y \in Holders(a) : x = y
    BY DEF LeasesSole, Sole, Holders
  <2>2. Cardinality(Holders(a)) \in 0 .. 1
    BY <2>1, AtMostOne
  <2> QED BY <2>2
<1> QED BY <1>1, LeasesSoleAlways, PTL

-----------------------------------------------------------------------------
(***************************************************************************)
(* AcuRelay.                                                               *)
(***************************************************************************)
(* A patch with one fragment gives its piece.                              *)
LEMMA OneFragment ==
    ASSUME NEW f
    PROVE  Pieces(<<f>>) = Piece(f.kind, f.text) /\ Kinds(<<f>>) = <<f.kind>>
<1>1. DOMAIN <<f>> = 1 .. 1 /\ <<f>>[1] = f
  OBVIOUS
<1>2. Kinds(<<f>>) = <<f.kind>>
  <2>1. [i \in 1 .. 1 |-> <<f>>[i].kind] = <<f.kind>>
    OBVIOUS
  <2> QED BY <1>1, <2>1 DEF Kinds
<1>3. Pieces(<<f>>) = Piece(f.kind, f.text)
  <2> DEFINE s == [i \in 1 .. 1 |-> Piece(<<f>>[i].kind, <<f>>[i].text)]
             F(g) == [i \in 1 .. Len(s) |-> IF i = 1 THEN s[i] ELSE g[i - 1] \o s[i]]
             flat == CHOOSE g : g = F(g)
  <2>1. Len(s) = 1 /\ s[1] = Piece(f.kind, f.text)
    BY <1>1
  <2>2. Pieces(<<f>>) = flat[Len(s)]
    BY <1>1, <2>1 DEF Pieces, FlattenSeq
  <2>3. \E g : g = F(g)
    <3> HIDE DEF s
    <3> DEFINE g == [i \in 1 .. 1 |-> s[1]]
    <3>1. g = F(g)
      BY <2>1
    <3> QED BY <3>1
  <2>4. flat = F(flat)
    <3> HIDE DEF F
    <3> QED BY <2>3
  <2> HIDE DEF s, flat
  <2>5. flat[1] = s[1]
    BY <2>1, <2>4
  <2> QED BY <2>1, <2>2, <2>5
<1> QED BY <1>2, <1>3

(* What a child of a batch comes to.                                       *)
Applied(s, path, child) ==
    ApplyAt(s, ChildPath(path, child), IF Has(child, "o") THEN child.o ELSE "SET", child.v)

(* A batch of two applies its children in turn.                            *)
LEMMA BatchOfTwo ==
    ASSUME NEW s, NEW path, NEW x, NEW y
    PROVE  LET first == Applied(s, path, x)
               second == Applied(first.st, path, y)
           IN  Batch(s, path, <<x, y>>) = Result(second.st, (<<>> \o first.evs) \o second.evs)
<1> DEFINE Child(sofar, child) ==
               Result(Applied(sofar.st, path, child).st,
                      sofar.evs \o Applied(sofar.st, path, child).evs)
           base == Result(s, <<>>)
           F(g) == [I \in SUBSET (1 .. 2) |->
                       IF I = {} THEN base
                       ELSE Child(g[I \ {Max(I)}], <<x, y>>[Max(I)])]
           iter == CHOOSE g : g = F(g)
           one == Child(base, x)
           two == Child(one, y)
<1>1. DOMAIN <<x, y>> = 1 .. 2 /\ <<x, y>>[1] = x /\ <<x, y>>[2] = y
  OBVIOUS
<1>2. Batch(s, path, <<x, y>>) = iter[1 .. 2]
  BY <1>1 DEF Batch, FoldLeft, MapThenFoldSet, Applied
<1>3. Max({1}) = 1 /\ Max({2}) = 2 /\ Max({1, 2}) = 2
  BY DEF Max
<1>4. \E g : g = F(g)
  <2> HIDE DEF Child, base
  <2> DEFINE g == [I \in SUBSET (1 .. 2) |->
                     IF I = {} THEN base
                     ELSE IF I = {1} THEN Child(base, x)
                     ELSE IF I = {2} THEN Child(base, y)
                     ELSE Child(Child(base, x), y)]
  <2>1. ASSUME NEW I \in SUBSET (1 .. 2) PROVE I = {} \/ I = {1} \/ I = {2} \/ I = {1, 2}
    <3>1. \A i \in I : i = 1 \/ i = 2
      OBVIOUS
    <3>2. CASE 1 \in I /\ 2 \in I
      BY <3>1, <3>2, Zenon
    <3>3. CASE 1 \in I /\ 2 \notin I
      BY <3>1, <3>3, Zenon
    <3>4. CASE 1 \notin I /\ 2 \in I
      BY <3>1, <3>4, Zenon
    <3>5. CASE 1 \notin I /\ 2 \notin I
      BY <3>1, <3>5, Zenon
    <3> QED BY <3>2, <3>3, <3>4, <3>5, Zenon
  <2>2. ASSUME NEW I \in SUBSET (1 .. 2) PROVE g[I] = F(g)[I]
    <3>1. CASE I = {}
      BY <3>1
    <3>2. CASE I = {1}
      BY <1>1, <1>3, <3>2
    <3>3. CASE I = {2}
      BY <1>1, <1>3, <3>3
    <3>4. CASE I = {1, 2}
      BY <1>1, <1>3, <3>4
    <3> QED BY <2>1, <3>1, <3>2, <3>3, <3>4
  <2>3. g = F(g)
    BY <2>2
  <2> QED BY <2>3
<1>5. iter = F(iter)
  <2> HIDE DEF F
  <2> QED BY <1>4
<1> HIDE DEF iter
<1> HIDE DEF Child, base
<1>6. iter[{}] = base
  BY <1>5
<1>7. iter[{1}] = Child(base, x)
  <2>1. {1} \in SUBSET (1 .. 2) /\ {1} # {} /\ {1} \ {1} = {}
    OBVIOUS
  <2> QED BY <1>1, <1>3, <1>5, <1>6, <2>1
<1>8. iter[1 .. 2] = Child(iter[{1}], y)
  <2>1. 1 .. 2 = {1, 2} /\ 1 .. 2 # {} /\ (1 .. 2) \ {2} = {1}
    OBVIOUS
  <2>2. iter[1 .. 2] = Child(iter[(1 .. 2) \ {Max(1 .. 2)}], <<x, y>>[Max(1 .. 2)])
    BY <1>5, <2>1
  <2>3. Max(1 .. 2) = 2
    BY <1>3, <2>1
  <2> QED BY <1>1, <2>1, <2>2, <2>3
<1> QED BY <1>2, <1>7, <1>8 DEF Result, Child, base

-----------------------------------------------------------------------------
(* Events that end an answer, and the texts ahead of the first of them.    *)
Enders == {"finished", "hint"}
Ended(s) == \E i \in 1 .. Len(s) : s[i] \in Enders
LeadSet(s) == {i \in 1 .. Len(s) : s[i] = "text" /\ \A j \in 1 .. i : s[j] \notin Enders}
Lead(s) == Cardinality(LeadSet(s))

LEMMA LeadType ==
    ASSUME NEW F, NEW s \in Seq(F)
    PROVE  IsFiniteSet(LeadSet(s)) /\ Lead(s) \in Nat
<1>1. IsFiniteSet(1 .. Len(s))
  BY FS_Interval, LenProperties
<1> QED BY <1>1, FS_Subset, FS_CardinalityType DEF LeadSet, Lead

LEMMA AppendLead ==
    ASSUME NEW F, NEW s \in Seq(F), NEW e \in F
    PROVE  /\ Append(s, e) \in Seq(F)
           /\ Ended(Append(s, e)) <=> Ended(s) \/ e \in Enders
           /\ Lead(Append(s, e)) = IF e = "text" /\ ~Ended(s) THEN Lead(s) + 1 ELSE Lead(s)
<1> DEFINE r == Append(s, e)
           n == Len(s) + 1
<1>1. /\ r \in Seq(F) /\ Len(s) \in Nat /\ Len(r) = n
      /\ r[n] = e /\ \A i \in 1 .. Len(s) : r[i] = s[i]
  BY AppendProperties, LenProperties
<1> HIDE DEF r
<1>2. \A i \in 1 .. n : i \in 1 .. Len(s) \/ i = n
  BY <1>1
<1>3. Ended(r) <=> Ended(s) \/ e \in Enders
  <2>1. n \in 1 .. n /\ \A i \in 1 .. Len(s) : i \in 1 .. n
    BY <1>1
  <2> HIDE DEF n
  <2> QED BY <1>1, <1>2, <2>1 DEF Ended
<1>4. IsFiniteSet(LeadSet(s)) /\ Lead(s) \in Nat
  BY LeadType
<1>5. \A i \in 1 .. Len(s) : i \in LeadSet(r) <=> i \in LeadSet(s)
  BY <1>1 DEF LeadSet
<1>6. n \in LeadSet(r) <=> e = "text" /\ ~Ended(s)
  <2>1. n \in 1 .. n /\ 1 .. Len(s) = (1 .. n) \ {n}
    BY <1>1
  <2>2. n \in LeadSet(r) <=> e = "text" /\ \A j \in 1 .. n : r[j] \notin Enders
    BY <1>1, <2>1 DEF LeadSet
  <2>3. "text" \notin Enders
    BY DEF Enders
  <2> HIDE DEF n
  <2> QED BY <1>1, <2>1, <2>2, <2>3 DEF Ended
<1>7. CASE e = "text" /\ ~Ended(s)
  <2>1. LeadSet(r) = LeadSet(s) \cup {n} /\ n \notin LeadSet(s)
    BY <1>1, <1>2, <1>5, <1>6, <1>7 DEF LeadSet
  <2> QED BY <1>1, <1>3, <1>4, <1>7, <2>1, FS_AddElement DEF Lead, r
<1>8. CASE ~(e = "text" /\ ~Ended(s))
  <2>1. LeadSet(r) = LeadSet(s)
    BY <1>1, <1>2, <1>5, <1>6, <1>8 DEF LeadSet
  <2>2. Lead(r) = Lead(s)
    BY <2>1, Zenon DEF Lead
  <2> QED BY <1>1, <1>3, <1>8, <2>2 DEF r
<1> QED BY <1>7, <1>8

LEMMA TailLead ==
    ASSUME NEW F, NEW s \in Seq(F), s # <<>>
    PROVE  /\ Tail(s) \in Seq(F) /\ Head(s) \in F
           /\ Head(s) \in Enders => Lead(s) = 0 /\ Ended(s)
           /\ Head(s) \notin Enders =>
                 /\ Ended(Tail(s)) <=> Ended(s)
                 /\ Lead(s) = IF Head(s) = "text" THEN Lead(Tail(s)) + 1 ELSE Lead(Tail(s))
<1> DEFINE r == Tail(s)
<1>1. /\ r \in Seq(F) /\ Len(s) \in Nat \ {0} /\ Len(r) = Len(s) - 1 /\ Head(s) = s[1]
      /\ Head(s) \in F /\ \A i \in 1 .. Len(r) : r[i] = s[i + 1]
  BY HeadTailProperties, EmptySeq
<1> HIDE DEF r
<1>2. ASSUME Head(s) \in Enders PROVE Lead(s) = 0 /\ Ended(s)
  <2>1. 1 \in 1 .. Len(s) /\ \A i \in 1 .. Len(s) : 1 \in 1 .. i
    BY <1>1
  <2>2. LeadSet(s) = {}
    BY <1>1, <1>2, <2>1 DEF LeadSet
  <2> QED BY <1>1, <1>2, <2>1, <2>2, FS_EmptySet DEF Lead, Ended
<1>3. ASSUME Head(s) \notin Enders
      PROVE  /\ Ended(r) <=> Ended(s)
             /\ Lead(s) = IF Head(s) = "text" THEN Lead(r) + 1 ELSE Lead(r)
  <2> DEFINE K == LeadSet(s) \ {1}
             Shift == [i \in LeadSet(r) |-> i + 1]
  <2>1. Ended(r) <=> Ended(s)
    <3>1. ASSUME NEW i \in 1 .. Len(r), r[i] \in Enders PROVE Ended(s)
      <4>1. i + 1 \in 1 .. Len(s) /\ s[i + 1] \in Enders
        BY <1>1, <3>1
      <4> QED BY <4>1 DEF Ended
    <3>2. ASSUME NEW i \in 1 .. Len(s), s[i] \in Enders PROVE Ended(r)
      <4>1. i - 1 \in 1 .. Len(r) /\ r[i - 1] \in Enders
        BY <1>1, <1>3, <3>2
      <4> QED BY <4>1 DEF Ended
    <3> QED BY <3>1, <3>2 DEF Ended
  <2>2. /\ IsFiniteSet(LeadSet(s)) /\ Lead(s) \in Nat
        /\ IsFiniteSet(LeadSet(r)) /\ Lead(r) \in Nat
    BY <1>1, LeadType
  <2>3. \A i \in LeadSet(r) : i + 1 \in K
    <3> SUFFICES ASSUME NEW i \in LeadSet(r) PROVE i + 1 \in K
      OBVIOUS
    <3>1. i \in 1 .. Len(r) /\ r[i] = "text" /\ \A j \in 1 .. i : r[j] \notin Enders
      BY DEF LeadSet
    <3>2. i + 1 \in 1 .. Len(s) /\ s[i + 1] = "text" /\ i + 1 # 1
      BY <1>1, <3>1
    <3>3. ASSUME NEW j \in 1 .. i + 1 PROVE s[j] \notin Enders
      <4>1. CASE j = 1
        BY <1>1, <1>3, <4>1
      <4>2. CASE j # 1
        <5>1. j - 1 \in 1 .. i /\ j - 1 \in 1 .. Len(r) /\ (j - 1) + 1 = j
          BY <1>1, <3>1, <4>2
        <5>2. r[j - 1] = s[j] /\ r[j - 1] \notin Enders
          BY <1>1, <3>1, <5>1
        <5> QED BY <5>2
      <4> QED BY <4>1, <4>2
    <3> QED BY <3>2, <3>3 DEF LeadSet
  <2>4. \A k \in K : k - 1 \in LeadSet(r) /\ (k - 1) + 1 = k
    <3> SUFFICES ASSUME NEW k \in K PROVE k - 1 \in LeadSet(r) /\ (k - 1) + 1 = k
      OBVIOUS
    <3>1. /\ k \in 1 .. Len(s) /\ k # 1 /\ s[k] = "text"
          /\ \A j \in 1 .. k : s[j] \notin Enders
      BY DEF LeadSet
    <3>2. k - 1 \in 1 .. Len(r) /\ (k - 1) + 1 = k
      BY <1>1, <3>1
    <3>3. \A j \in 1 .. k - 1 : j \in 1 .. Len(r) /\ j + 1 \in 1 .. k
      BY <1>1, <3>1
    <3>4. \A j \in 1 .. k - 1 : r[j] \notin Enders
      BY <1>1, <3>1, <3>3
    <3>5. r[k - 1] = "text"
      BY <1>1, <3>1, <3>2
    <3> QED BY <3>2, <3>4, <3>5 DEF LeadSet
  <2>5. Shift \in Bijection(LeadSet(r), K)
    <3>1. Shift \in [LeadSet(r) -> K]
      BY <2>3
    <3>2. \A k \in K : \E i \in LeadSet(r) : Shift[i] = k
      BY <2>4
    <3>3. \A i, j \in LeadSet(r) : Shift[i] = Shift[j] => i = j
      BY DEF LeadSet
    <3> QED BY <3>1, <3>2, <3>3, Fun_IsBij
  <2>6. Cardinality(K) = Lead(r)
    BY <2>2, <2>5, FS_Bijection DEF ExistsBijection, Lead
  <2>7. 1 \in LeadSet(s) <=> Head(s) = "text"
    BY <1>1, <1>3 DEF LeadSet
  <2>8. CASE Head(s) = "text"
    <3>1. Cardinality(K) = Cardinality(LeadSet(s)) - 1
      BY <2>2, <2>7, <2>8, FS_RemoveElement
    <3> QED BY <2>1, <2>2, <2>6, <2>8, <3>1 DEF Lead
  <2>9. CASE Head(s) # "text"
    <3>1. K = LeadSet(s)
      BY <2>7, <2>9
    <3> QED BY <2>1, <2>6, <2>9, <3>1 DEF Lead
  <2> QED BY <2>8, <2>9
<1> QED BY <1>1, <1>2, <1>3 DEF r

LEMMA ShortLead ==
    /\ <<>> \in Seq(Event) /\ ~Ended(<<>>) /\ Lead(<<>>) = 0
    /\ \A e \in Event : /\ <<e>> \in Seq(Event) /\ (Ended(<<e>>) <=> e \in Enders)
                        /\ Lead(<<e>>) = IF e = "text" THEN 1 ELSE 0
<1>1. <<>> \in Seq(Event) /\ Len(<<>>) = 0
  BY EmptySeq
<1>2. ~Ended(<<>>)
  BY <1>1 DEF Ended
<1>3. Lead(<<>>) = 0
  <2>1. LeadSet(<<>>) = {}
    BY <1>1 DEF LeadSet
  <2> QED BY <2>1, FS_EmptySet DEF Lead
<1>4. ASSUME NEW e \in Event
      PROVE  /\ <<e>> \in Seq(Event) /\ (Ended(<<e>>) <=> e \in Enders)
             /\ Lead(<<e>>) = IF e = "text" THEN 1 ELSE 0
  <2>0. PICK s : s = <<>>
    OBVIOUS
  <2>1. s \in Seq(Event) /\ ~Ended(s) /\ Lead(s) = 0
    BY <1>1, <1>2, <1>3, <2>0
  <2>2. /\ Append(s, e) \in Seq(Event) /\ (Ended(Append(s, e)) <=> e \in Enders)
        /\ Lead(Append(s, e)) = IF e = "text" THEN 1 ELSE 0
    <3>1. /\ Append(s, e) \in Seq(Event)
          /\ Ended(Append(s, e)) <=> Ended(s) \/ e \in Enders
          /\ Lead(Append(s, e)) = IF e = "text" /\ ~Ended(s) THEN Lead(s) + 1 ELSE Lead(s)
      <4> QED BY <2>1, AppendLead
    <3> QED BY <2>1, <3>1
  <2>3. Append(s, e) = <<e>>
    BY <2>0
  <2> QED BY <2>2, <2>3, Zenon
<1> QED BY <1>1, <1>2, <1>3, <1>4

-----------------------------------------------------------------------------
(* What the parser makes of the patches the upstream writes.               *)

(* The state and the events that a piece of the document comes to.         *)
Yields(result, p, o, doc, pieces, ends) ==
    /\ result.st = [path |-> p, op |-> o, fragments |-> doc]
    /\ result.evs \in Seq(Event)
    /\ Lead(result.evs) = pieces
    /\ Ended(result.evs) <=> ends

Text == {"words", "blank"}

LEMMA PieceLead ==
    ASSUME NEW kind \in Kind, NEW text \in Text
    PROVE  /\ Piece(kind, text) \in Seq(Event)
           /\ Lead(Piece(kind, text)) = Counted(kind, text)
           /\ ~Ended(Piece(kind, text))
           /\ Counted(kind, text) \in {0, 1}
<1>1. CASE text = "blank"
  BY <1>1, ShortLead DEF Piece, Counted
<1>2. CASE text = "words"
  <2>1. PICK e \in Event : e = IF kind = "RESPONSE" THEN "text" ELSE "other"
    BY DEF Event
  <2>2. Piece(kind, text) = <<e>>
    BY <1>2, <2>1 DEF Piece
  <2>3. e \notin Enders
    BY <2>1 DEF Enders
  <2>4. Counted(kind, text) = IF e = "text" THEN 1 ELSE 0
    BY <1>2, <2>1 DEF Counted
  <2> QED BY <2>2, <2>3, <2>4, ShortLead
<1> QED BY <1>1, <1>2 DEF Text

(* A path or an op that stays away is the one the parser has kept.         *)
Known == st = [path |-> wire.p, op |-> wire.o, fragments |-> document]

LEMMA EncodingPersists ==
    ASSUME Known, NEW p, NEW o, NEW v, NEW json \in Encodings(p, o, v)
    PROVE  /\ Persist(st, json) = [path |-> p, op |-> o, fragments |-> document]
           /\ Has(json, "v") /\ json.v = v
<1> DEFINE full == [p |-> p, o |-> o, v |-> v]
<1>1. PICK omitted \in SUBSET {f \in {"p", "o"} : full[f] = wire[f]} :
         json = [f \in DOMAIN full \ omitted |-> full[f]]
  BY DEF Encodings
<1>2. DOMAIN full = {"p", "o", "v"} /\ full["p"] = p /\ full["o"] = o /\ full["v"] = v
  OBVIOUS
<1> HIDE DEF full
<1>3. Has(json, "v") /\ json.v = v
  BY <1>1, <1>2 DEF Has
<1>4. (IF Has(json, "p") THEN json.p ELSE wire.p) = p
  BY <1>1, <1>2 DEF Has
<1>5. (IF Has(json, "o") THEN json.o ELSE wire.o) = o
  BY <1>1, <1>2 DEF Has
<1>6. st.path = wire.p /\ st.op = wire.o /\ st.fragments = document
  BY DEF Known
<1>7. Persist(st, json) = [[st EXCEPT !.path = p] EXCEPT !.op = o]
  BY <1>4, <1>5, <1>6 DEF Persist, Known
<1>8. [[st EXCEPT !.path = p] EXCEPT !.op = o] = [path |-> p, op |-> o, fragments |-> document]
  <2>1. st \in [path : {wire.p}, op : {wire.o}, fragments : {document}]
    BY DEF Known
  <2> DEFINE k == [[st EXCEPT !.path = p] EXCEPT !.op = o]
  <2>2. k \in [path : {p}, op : {o}, fragments : {document}]
    BY <2>1
  <2> HIDE DEF k
  <2>3. k.path = p /\ k.op = o /\ k.fragments = document
    BY <2>2
  <2>4. k = [path |-> k.path, op |-> k.op, fragments |-> k.fragments]
    BY <2>2
  <2>5. k = [path |-> p, op |-> o, fragments |-> document]
    BY <2>3, <2>4
  <2> QED BY <2>5 DEF k
<1> QED BY <1>3, <1>7, <1>8

(* What is true of the next events, whatever the upstream writes.          *)
Progress ==
    /\ Known' /\ document' \in Seq(Kind)
    /\ evs' \in Seq(Event) /\ Lead(evs') \in {0, 1}
    /\ answers' = IF over THEN answers ELSE answers + Lead(evs')
    /\ over' = (over \/ Ended(evs'))

LEMMA WroteYields ==
    ASSUME NEW p, NEW o, NEW v, NEW doc \in Seq(Kind), NEW pieces \in {0, 1},
           NEW ends \in BOOLEAN,
           Wrote(p, o, v, doc, pieces, ends),
           \A json \in Encodings(p, o, v) :
              Yields(FlushEvent(st, "none", json), p, o, doc, pieces, ends)
    PROVE  Progress
<1>1. PICK json \in Encodings(p, o, v) :
         /\ st' = FlushEvent(st, "none", json).st /\ evs' = FlushEvent(st, "none", json).evs
         /\ Yields(FlushEvent(st, "none", json), p, o, doc, pieces, ends)
  BY DEF Wrote
<1>2. /\ wire' = [p |-> p, o |-> o] /\ document' = doc
      /\ answers' = (IF over THEN answers ELSE answers + pieces)
      /\ over' = (over \/ ends)
  BY DEF Wrote
<1>3. /\ st' = [path |-> p, op |-> o, fragments |-> doc]
      /\ evs' \in Seq(Event) /\ Lead(evs') = pieces /\ (Ended(evs') <=> ends)
  BY <1>1 DEF Yields
<1>4. Known'
  BY <1>2, <1>3 DEF Known
<1>5. over' = (over \/ Ended(evs'))
  <2>1. Ended(evs') \in BOOLEAN
    BY DEF Ended
  <2> QED BY <1>2, <1>3, <2>1
<1> QED BY <1>2, <1>3, <1>4, <1>5 DEF Progress

(* A patch without a batch is applied at its path.                         *)
LEMMA PatchApplied ==
    ASSUME Known, NEW p, NEW o, NEW v, NEW json \in Encodings(p, o, v),
           NEW s, s = [path |-> p, op |-> o, fragments |-> document]
    PROVE  /\ p # <<>> /\ o # "BATCH" =>
                 FlushEvent(st, "none", json) = ApplyAt(s, p, o, v)
           /\ p # <<>> /\ o = "BATCH" /\ Has(v, "items") =>
                 FlushEvent(st, "none", json) = Batch(s, p, v.items)
           /\ p = <<>> /\ Has(v, "response") /\ ~Has(v, "text") =>
                 FlushEvent(st, "none", json) = Snapshot(s, v.response)
           /\ p = <<>> /\ ~Has(v, "response") /\ Has(v, "text") =>
                 FlushEvent(st, "none", json) = Result(s, Piece("RESPONSE", v.text))
<1>1. Persist(st, json) = s /\ Has(json, "v") /\ json.v = v
  BY EncodingPersists
<1>2. s.path = p /\ s.op = o
  OBVIOUS
<1>3. FlushEvent(st, "none", json) = Apply(st, json)
  BY DEF FlushEvent
<1>4. CASE p = <<>>
  <2>1. Apply(st, json) =
           CASE Has(v, "response") -> Snapshot(s, v.response)
             [] Has(v, "text") -> Result(s, Piece("RESPONSE", v.text))
             [] OTHER -> Result(s, <<>>)
    BY <1>1, <1>2, <1>4, Zenon DEF Apply
  <2>2. Has(v, "response") /\ ~Has(v, "text") => Apply(st, json) = Snapshot(s, v.response)
    BY <2>1
  <2>3. ~Has(v, "response") /\ Has(v, "text") =>
           Apply(st, json) = Result(s, Piece("RESPONSE", v.text))
    BY <2>1
  <2> QED BY <1>3, <1>4, <2>2, <2>3
<1>5. CASE p # <<>> /\ o = "BATCH"
  BY <1>1, <1>2, <1>3, <1>5 DEF Apply
<1>6. CASE p # <<>> /\ o # "BATCH"
  BY <1>1, <1>2, <1>3, <1>6 DEF Apply
<1> QED BY <1>4, <1>5, <1>6

LEMMA SnapshotYields ==
    ASSUME Known, NEW f \in Fragment, WritesSnapshot(f)
    PROVE  Progress
<1> DEFINE v == [response |-> <<f>>]
           p == <<>>
           o == wire.o
           doc == <<f.kind>>
<1>1. f.kind \in Kind /\ f.text \in Text /\ doc \in Seq(Kind)
  BY DEF Fragment, Text
<1>2. Wrote(p, o, v, doc, Counted(f.kind, f.text), FALSE)
  BY DEF WritesSnapshot
<1>3. Has(v, "response") /\ ~Has(v, "text") /\ v.response = <<f>>
  BY DEF Has
<1>4. ASSUME NEW json \in Encodings(p, o, v)
      PROVE  Yields(FlushEvent(st, "none", json), p, o, doc, Counted(f.kind, f.text), FALSE)
  <2> DEFINE s == [path |-> p, op |-> o, fragments |-> document]
  <2>1. FlushEvent(st, "none", json) = Snapshot(s, <<f>>)
    <3> HIDE DEF v
    <3> QED BY <1>3, PatchApplied
  <2>2. Snapshot(s, <<f>>) = Result([path |-> p, op |-> o, fragments |-> doc],
                                    Piece(f.kind, f.text))
    BY OneFragment DEF Snapshot
  <2> QED BY <1>1, <2>1, <2>2, PieceLead DEF Yields, Result
<1> HIDE DEF v, p, o, doc
<1> QED BY <1>1, <1>2, <1>4, PieceLead, WroteYields

LEMMA PlainYields ==
    ASSUME Known, document \in Seq(Kind), NEW text \in Text, WritesPlain(text)
    PROVE  Progress
<1> DEFINE v == [text |-> text]
           p == <<>>
           o == wire.o
<1>1. Wrote(p, o, v, document, Counted("RESPONSE", text), FALSE)
  BY DEF WritesPlain
<1>2. ~Has(v, "response") /\ Has(v, "text") /\ v.text = text /\ "RESPONSE" \in Kind
  BY DEF Has, Kind
<1>3. ASSUME NEW json \in Encodings(p, o, v)
      PROVE  Yields(FlushEvent(st, "none", json), p, o, document,
                    Counted("RESPONSE", text), FALSE)
  <2> DEFINE s == [path |-> p, op |-> o, fragments |-> document]
  <2>1. FlushEvent(st, "none", json) = Result(s, Piece("RESPONSE", text))
    <3> HIDE DEF v
    <3> QED BY <1>2, PatchApplied
  <2> QED BY <1>2, <2>1, PieceLead DEF Yields, Result
<1> HIDE DEF v, p, o
<1> QED BY <1>1, <1>2, <1>3, PieceLead, WroteYields

LEMMA ContentYields ==
    ASSUME Known, document \in Seq(Kind), NEW text \in Text, WritesContent(text)
    PROVE  Progress
<1> DEFINE v == [text |-> text]
           p == <<"response", "content">>
           o == "APPEND"
<1>1. Wrote(p, o, v, document, Counted("RESPONSE", text), FALSE)
  BY DEF WritesContent
<1>2. Has(v, "text") /\ v.text = text /\ "RESPONSE" \in Kind /\ p # <<>> /\ o # "BATCH"
  BY DEF Has, Kind
<1>3. ASSUME NEW json \in Encodings(p, o, v)
      PROVE  Yields(FlushEvent(st, "none", json), p, o, document,
                    Counted("RESPONSE", text), FALSE)
  <2> DEFINE s == [path |-> p, op |-> o, fragments |-> document]
  <2>1. FlushEvent(st, "none", json) = ApplyAt(s, p, o, v)
    <3> HIDE DEF v, p, o
    <3> QED BY <1>2, PatchApplied
  <2>2. ApplyAt(s, p, o, v) = Result(s, Piece("RESPONSE", text))
    <3> HIDE DEF s, v
    <3> QED BY <1>2 DEF ApplyAt
  <2> QED BY <1>2, <2>1, <2>2, PieceLead DEF Yields, Result
<1> HIDE DEF v, p, o
<1> QED BY <1>1, <1>2, <1>3, PieceLead, WroteYields

LEMMA FragmentYields ==
    ASSUME Known, document \in Seq(Kind), NEW f \in Fragment, WritesFragment(f)
    PROVE  Progress
<1> DEFINE v == [items |-> <<f>>]
           p == <<"response", "fragments">>
           o == "APPEND"
           doc == Append(document, f.kind)
<1>1. f.kind \in Kind /\ f.text \in Text /\ doc \in Seq(Kind)
  BY DEF Fragment, Text
<1>2. Wrote(p, o, v, doc, Counted(f.kind, f.text), FALSE)
  BY DEF WritesFragment
<1>3. Has(v, "items") /\ ~Has(v, "text") /\ v.items = <<f>> /\ p # <<>> /\ o # "BATCH"
  BY DEF Has
<1>4. ASSUME NEW json \in Encodings(p, o, v)
      PROVE  Yields(FlushEvent(st, "none", json), p, o, doc, Counted(f.kind, f.text), FALSE)
  <2> DEFINE s == [path |-> p, op |-> o, fragments |-> document]
  <2>1. FlushEvent(st, "none", json) = ApplyAt(s, p, o, v)
    <3> HIDE DEF v, p, o
    <3> QED BY <1>3, PatchApplied
  <2>2. ApplyAt(s, p, o, v) = Appended(s, <<f>>)
    <3> HIDE DEF s, v
    <3> QED BY <1>3 DEF ApplyAt
  <2>3. Appended(s, <<f>>) = Result([path |-> p, op |-> o, fragments |-> doc],
                                    Piece(f.kind, f.text))
    <3>1. document \o <<f.kind>> = doc
      OBVIOUS
    <3>2. s \in [path : {p}, op : {o}, fragments : {document}]
      OBVIOUS
    <3>3. [s EXCEPT !.fragments = doc] = [path |-> p, op |-> o, fragments |-> doc]
      <4> HIDE DEF doc, p, o
      <4> QED OBVIOUS
    <3>4. Appended(s, <<f>>) = Result([s EXCEPT !.fragments = doc], Piece(f.kind, f.text))
      <4> HIDE DEF doc, p, o
      <4> QED BY <3>1, OneFragment DEF Appended
    <3> QED BY <3>3, <3>4
  <2> HIDE DEF doc, p, o, v
  <2> QED BY <1>1, <2>1, <2>2, <2>3, PieceLead DEF Yields, Result
<1> HIDE DEF v, p, o, doc
<1> QED BY <1>1, <1>2, <1>4, PieceLead, WroteYields

LEMMA MoreYields ==
    ASSUME Known, document \in Seq(Kind), NEW index \in {"-1", "0"}, NEW text \in Text,
           WritesMore(index, text)
    PROVE  Progress
<1> DEFINE v == [text |-> text]
           p == <<"response", "fragments", index, "content">>
           o == "APPEND"
           kind == document[IF index = "-1" THEN Len(document) ELSE 1]
<1>1. document # <<>> /\ Wrote(p, o, v, document, Counted(kind, text), FALSE)
  BY DEF WritesMore
<1>2. Has(v, "text") /\ v.text = text /\ p # <<>> /\ o # "BATCH"
  BY DEF Has
<1>3. /\ Len(document) \in Nat \ {0} /\ DOMAIN document = 1 .. Len(document)
      /\ kind \in Kind
  BY <1>1, EmptySeq, LenProperties
<1>4. ASSUME NEW json \in Encodings(p, o, v)
      PROVE  Yields(FlushEvent(st, "none", json), p, o, document, Counted(kind, text), FALSE)
  <2> DEFINE s == [path |-> p, op |-> o, fragments |-> document]
  <2>1. FlushEvent(st, "none", json) = ApplyAt(s, p, o, v)
    <3> HIDE DEF v, p, o
    <3> QED BY <1>2, PatchApplied
  <2>2. ApplyAt(s, p, o, v) = Increment(s, index, text)
    <3>1. Len(p) = 4 /\ p[2] = "fragments" /\ p[3] = index /\ p[4] = "content"
      OBVIOUS
    <3>2. /\ p # <<"response", "status">> /\ p # <<"response", "content">>
          /\ p # <<"response", "fragments">>
      OBVIOUS
    <3> HIDE DEF s, v, p
    <3> QED BY <1>2, <3>1, <3>2 DEF ApplyAt
  <2>3. Increment(s, index, text) = Result(s, Piece(kind, text))
    <3>1. s.fragments = document
      OBVIOUS
    <3> HIDE DEF s
    <3> QED BY <1>3, <3>1 DEF Increment, Slot
  <2> HIDE DEF p, o, v, kind
  <2> QED BY <1>3, <2>1, <2>2, <2>3, PieceLead DEF Yields, Result
<1> HIDE DEF v, p, o, kind
<1> QED BY <1>1, <1>3, <1>4, PieceLead, WroteYields

LEMMA StatusYields ==
    ASSUME Known, document \in Seq(Kind), NEW text \in {"FINISHED", "INCOMPLETE"},
           WritesStatus(text)
    PROVE  Progress
<1> DEFINE v == [text |-> text]
           p == <<"response", "status">>
           o == "SET"
<1>1. Wrote(p, o, v, document, 0, TRUE)
  BY DEF WritesStatus
<1>2. Has(v, "text") /\ v.text = text /\ p # <<>> /\ o # "BATCH"
  BY DEF Has
<1>3. ASSUME NEW json \in Encodings(p, o, v)
      PROVE  Yields(FlushEvent(st, "none", json), p, o, document, 0, TRUE)
  <2> DEFINE s == [path |-> p, op |-> o, fragments |-> document]
  <2>1. FlushEvent(st, "none", json) = ApplyAt(s, p, o, v)
    <3> HIDE DEF v, p, o
    <3> QED BY <1>2, PatchApplied
  <2>2. ApplyAt(s, p, o, v) = Result(s, <<"finished">>)
    <3> HIDE DEF s, v
    <3> QED BY <1>2 DEF ApplyAt
  <2>3. "finished" \in Event /\ "finished" \in Enders
    BY DEF Event, Enders
  <2>4. /\ FlushEvent(st, "none", json).st = s
        /\ FlushEvent(st, "none", json).evs = <<"finished">>
    BY <2>1, <2>2 DEF Result
  <2>5. /\ <<"finished">> \in Seq(Event) /\ Ended(<<"finished">>)
        /\ Lead(<<"finished">>) = 0
    BY <2>3, ShortLead
  <2> QED BY <2>4, <2>5 DEF Yields
<1> HIDE DEF v, p, o
<1> QED BY <1>1, <1>3, WroteYields

LEMMA MetadataYields ==
    ASSUME Known, document \in Seq(Kind), WritesMetadata
    PROVE  Progress
<1> DEFINE v == [text |-> "words"]
           p == <<"response", "accumulated_token_usage">>
           o == "SET"
<1>1. Wrote(p, o, v, document, 0, FALSE)
  BY DEF WritesMetadata
<1>2. p # <<>> /\ o # "BATCH"
  OBVIOUS
<1>3. ASSUME NEW json \in Encodings(p, o, v)
      PROVE  Yields(FlushEvent(st, "none", json), p, o, document, 0, FALSE)
  <2> DEFINE s == [path |-> p, op |-> o, fragments |-> document]
  <2>1. FlushEvent(st, "none", json) = ApplyAt(s, p, o, v)
    <3> HIDE DEF v, p, o
    <3> QED BY <1>2, PatchApplied
  <2>2. ApplyAt(s, p, o, v) = Result(s, <<>>)
    <3> HIDE DEF s, v
    <3> QED BY DEF ApplyAt
  <2>3. FlushEvent(st, "none", json).st = s /\ FlushEvent(st, "none", json).evs = <<>>
    BY <2>1, <2>2 DEF Result
  <2> QED BY <2>3, ShortLead DEF Yields
<1> HIDE DEF v, p, o
<1> QED BY <1>1, <1>3, WroteYields

(* The path of a child that is relative to the batch's.                    *)
LEMMA RelativePath == <<"response">> \o <<"fragments">> = <<"response", "fragments">>
<1> DEFINE S == {"response", "fragments"}
<1>0. \A x, y \in S : <<x>> \in Seq(S) /\ <<x, y>> \in Seq(S)
  <2> HIDE DEF S
  <2> QED OBVIOUS
<1>1. PICK a, b, c \in Seq(S) :
         a = <<"response">> /\ b = <<"fragments">> /\ c = <<"response", "fragments">>
  BY <1>0
<1>2. Len(a) = 1 /\ Len(b) = 1 /\ Len(c) = 2 /\ a[1] = c[1] /\ b[1] = c[2]
  BY <1>1
<1> HIDE DEF S
<1>3. /\ a \o b \in Seq(S) /\ Len(a \o b) = 2
      /\ (a \o b)[1] = a[1] /\ (a \o b)[2] = b[1]
  BY <1>2, ConcatProperties
<1>4. a \o b = c
  BY <1>2, <1>3, SeqEqual
<1> QED BY <1>1, <1>4

LEMMA BatchYields ==
    ASSUME Known, document \in Seq(Kind), NEW f \in Fragment, WritesBatch(f)
    PROVE  Progress
<1> DEFINE x == [p |-> <<"fragments">>, o |-> "APPEND", v |-> [items |-> <<f>>]]
           y == [p |-> <<"response", "status">>, v |-> [text |-> "FINISHED"]]
           v == [items |-> <<x, y>>]
           p == <<"response">>
           o == "BATCH"
           doc == Append(document, f.kind)
           piece == Piece(f.kind, f.text)
<1>1. f.kind \in Kind /\ f.text \in Text /\ doc \in Seq(Kind)
  BY DEF Fragment, Text
<1>2. Wrote(p, o, v, doc, Counted(f.kind, f.text), TRUE)
  BY DEF WritesBatch
<1>3. Has(v, "items") /\ v.items = <<x, y>> /\ p # <<>> /\ o = "BATCH"
  BY DEF Has
<1>4. /\ piece \in Seq(Event) /\ Lead(piece) = Counted(f.kind, f.text) /\ ~Ended(piece)
      /\ Counted(f.kind, f.text) \in {0, 1}
  BY <1>1, PieceLead
<1>5. ASSUME NEW json \in Encodings(p, o, v)
      PROVE  Yields(FlushEvent(st, "none", json), p, o, doc, Counted(f.kind, f.text), TRUE)
  <2> DEFINE s == [path |-> p, op |-> o, fragments |-> document]
             r == [path |-> p, op |-> o, fragments |-> doc]
  <2>1. FlushEvent(st, "none", json) = Batch(s, p, <<x, y>>)
    <3> HIDE DEF v, p, o, x, y
    <3> QED BY <1>3, PatchApplied
  <2>2. Applied(s, p, x) = Result(r, piece)
    <3>1. /\ ChildPath(p, x) = <<"response", "fragments">>
          /\ Has(x, "o") /\ x.o = "APPEND" /\ x.v = [items |-> <<f>>]
      <4>1. Has(x, "p") /\ x.p = <<"fragments">> /\ x.p[1] # "response"
        BY DEF Has
      <4>2. p \o x.p = <<"response", "fragments">>
        BY RelativePath
      <4>3. Has(x, "o") /\ x.o = "APPEND" /\ x.v = [items |-> <<f>>]
        BY DEF Has
      <4> HIDE DEF x, p
      <4> QED BY <4>1, <4>2, <4>3 DEF ChildPath
    <3>2. Applied(s, p, x) = ApplyAt(s, <<"response", "fragments">>, "APPEND",
                                     [items |-> <<f>>])
      <4> HIDE DEF x, p, s
      <4> QED BY <3>1 DEF Applied
    <3>3. /\ Has([items |-> <<f>>], "items") /\ ~Has([items |-> <<f>>], "text")
          /\ [items |-> <<f>>].items = <<f>>
      BY DEF Has
    <3>4. Applied(s, p, x) = Appended(s, <<f>>)
      <4> HIDE DEF x, p, s
      <4> QED BY <3>2, <3>3 DEF ApplyAt
    <3>5. document \o <<f.kind>> = doc
      OBVIOUS
    <3>6. [s EXCEPT !.fragments = doc] = r
      <4> HIDE DEF doc, p, o
      <4> QED OBVIOUS
    <3>7. Appended(s, <<f>>) = Result([s EXCEPT !.fragments = doc], piece)
      <4> HIDE DEF doc, p, o
      <4> QED BY <3>5, OneFragment DEF Appended
    <3> HIDE DEF s, r, x, p, doc, piece
    <3> QED BY <3>4, <3>6, <3>7
  <2>3. Applied(r, p, y) = Result(r, <<"finished">>)
    <3>1. /\ ChildPath(p, y) = <<"response", "status">>
          /\ ~Has(y, "o") /\ y.v = [text |-> "FINISHED"]
      <4>1. Has(y, "p") /\ y.p = <<"response", "status">> /\ y.p[1] = "response"
        BY DEF Has
      <4>2. ~Has(y, "o") /\ y.v = [text |-> "FINISHED"]
        BY DEF Has
      <4> HIDE DEF y, p
      <4> QED BY <4>1, <4>2 DEF ChildPath
    <3>2. Applied(r, p, y) = ApplyAt(r, <<"response", "status">>, "SET", [text |-> "FINISHED"])
      <4> HIDE DEF y, p, r
      <4> QED BY <3>1 DEF Applied
    <3>3. Has([text |-> "FINISHED"], "text") /\ [text |-> "FINISHED"].text = "FINISHED"
      BY DEF Has
    <3> HIDE DEF y, p, r
    <3> QED BY <3>2, <3>3 DEF ApplyAt
  <2> HIDE DEF x, y, v, p, o, r, s, doc, piece
  <2>4. Result(r, piece).st = r /\ Result(r, piece).evs = piece
    BY DEF Result
  <2>5. /\ Result(r, <<"finished">>).st = r
        /\ Result(r, <<"finished">>).evs = <<"finished">>
    BY DEF Result
  <2>6. Batch(s, p, <<x, y>>) = Result(r, (<<>> \o piece) \o <<"finished">>)
    BY <2>2, <2>3, <2>4, <2>5, BatchOfTwo
  <2>7. (<<>> \o piece) \o <<"finished">> = Append(piece, "finished")
    BY <1>4
  <2>8. "finished" \in Event /\ "finished" \in Enders /\ "finished" # "text"
    BY DEF Event, Enders
  <2>9. /\ Append(piece, "finished") \in Seq(Event) /\ Ended(Append(piece, "finished"))
        /\ Lead(Append(piece, "finished")) = Lead(piece)
    BY <1>4, <2>8, AppendLead
  <2>10. /\ FlushEvent(st, "none", json).st = r
         /\ FlushEvent(st, "none", json).evs = Append(piece, "finished")
    BY <2>1, <2>6, <2>7 DEF Result
  <2> QED BY <1>4, <2>9, <2>10 DEF Yields, r
<1> HIDE DEF x, y, v, p, o, doc, piece
<1> QED BY <1>1, <1>2, <1>4, <1>5, WroteYields

(* An event with a name.                                                   *)
LEMMA NamesYields ==
    ASSUME Known, document \in Seq(Kind), over \in BOOLEAN, answers \in Nat, Names
    PROVE  Progress
<1>1. PICK event \in {"ready", "hint", "close", "unknown", "none"} :
         /\ st' = FlushEvent(st, event, <<>>).st /\ evs' = FlushEvent(st, event, <<>>).evs
         /\ over' = (over \/ event = "hint")
         /\ UNCHANGED <<wire, document, answers>>
  BY DEF Names
<1>2. PICK r : /\ st' = st /\ evs' = r /\ r \in Seq(Event) /\ Lead(r) = 0
               /\ Ended(r) <=> event = "hint"
  <2>1. CASE event = "hint"
    <3>1. "hint" \in Event /\ "hint" \in Enders
      BY DEF Event, Enders
    <3>2. st' = st /\ evs' = <<"hint">>
      BY <1>1, <2>1 DEF FlushEvent, Result
    <3>3. <<"hint">> \in Seq(Event) /\ Lead(<<"hint">>) = 0 /\ Ended(<<"hint">>)
      BY <3>1, ShortLead
    <3> QED BY <2>1, <3>2, <3>3
  <2>2. CASE event \in {"ready", "unknown"}
    <3>1. "other" \in Event /\ "other" \notin Enders
      BY DEF Event, Enders
    <3>2. st' = st /\ evs' = <<"other">>
      BY <1>1, <2>2 DEF FlushEvent, Result
    <3>3. <<"other">> \in Seq(Event) /\ Lead(<<"other">>) = 0 /\ ~Ended(<<"other">>)
      BY <3>1, ShortLead
    <3> QED BY <2>2, <3>2, <3>3
  <2>3. CASE event = "close"
    <3>1. st' = st /\ evs' = <<>>
      BY <1>1, <2>3 DEF FlushEvent, Result
    <3> QED BY <2>3, <3>1, ShortLead
  <2>4. CASE event = "none"
    <3>1. ~Has(<<>>, "v") /\ ~Has(<<>>, "p") /\ ~Has(<<>>, "o")
      BY DEF Has
    <3>2. Persist(st, <<>>) = st
      <4>1. st \in [path : {wire.p}, op : {wire.o}, fragments : {document}]
        BY DEF Known
      <4> QED BY <3>1, <4>1 DEF Persist
    <3>3. FlushEvent(st, "none", <<>>) = Result(st, <<>>)
      BY <3>1, <3>2 DEF FlushEvent, Apply
    <3>4. st' = st /\ evs' = <<>>
      BY <1>1, <2>4, <3>3 DEF Result
    <3> QED BY <2>4, <3>4, ShortLead
  <2> QED BY <2>1, <2>2, <2>3, <2>4
<1>3. Known'
  BY <1>1, <1>2 DEF Known
<1>4. answers' = IF over THEN answers ELSE answers + Lead(evs')
  BY <1>1, <1>2
<1> QED BY <1>1, <1>2, <1>3, <1>4 DEF Progress

LEMMA ParseYields ==
    ASSUME Known, document \in Seq(Kind), over \in BOOLEAN, answers \in Nat, Parse
    PROVE  Progress
<1>1. Text = {"words", "blank"}
  BY DEF Text
<1> QED
  BY <1>1, SnapshotYields, PlainYields, ContentYields, FragmentYields, MoreYields,
     StatusYields, MetadataYields, BatchYields, NamesYields DEF Parse, Writes

-----------------------------------------------------------------------------
(* The chunks the client has read or can still read.                       *)
Seen == got \o body
NoDone(s) == \A i \in 1 .. Len(s) : s[i] # "done"
DoneLast(s) == \A i \in 1 .. Len(s) - 1 : s[i] # "done"
EndsDone(s) == s # <<>> /\ s[Len(s)] = "done"

LEMMA ChunkAppended ==
    ASSUME NEW s \in Seq(Chunk), NEW x \in Chunk
    PROVE  LET r == Append(s, x)
           IN  /\ r \in Seq(Chunk) /\ Len(r) = Len(s) + 1
               /\ NoDone(s) /\ x # "done" => NoDone(r)
               /\ NoDone(s) => DoneLast(r) /\ DoneLast(s)
               /\ x = "done" => EndsDone(r)
               /\ On(r, "text") <=> On(s, "text") \/ x = "text"
               /\ Copies(s, "text") \in Nat
               /\ Copies(r, "text") = IF x = "text" THEN Copies(s, "text") + 1
                                      ELSE Copies(s, "text")
<1> DEFINE r == Append(s, x)
<1>1. /\ r \in Seq(Chunk) /\ Len(s) \in Nat /\ Len(r) = Len(s) + 1
      /\ r[Len(s) + 1] = x /\ \A i \in 1 .. Len(s) : r[i] = s[i]
  BY AppendProperties, LenProperties
<1>2. /\ On(r, "text") <=> On(s, "text") \/ x = "text"
      /\ Copies(s, "text") \in Nat
      /\ Copies(r, "text") = IF x = "text" THEN Copies(s, "text") + 1 ELSE Copies(s, "text")
  <2> HIDE DEF r
  <2>1. /\ \A f : On(r, f) <=> On(s, f) \/ f = x
        /\ \A f : Copies(r, f) = Copies(s, f) + (IF f = x THEN 1 ELSE 0)
    BY AppendFrames, Zenon DEF r
  <2>2. /\ On(r, "text") <=> On(s, "text") \/ "text" = x
        /\ Copies(r, "text") = Copies(s, "text") + (IF "text" = x THEN 1 ELSE 0)
    BY <2>1, Zenon
  <2>3. Copies(s, "text") \in Nat
    BY CopiesType
  <2>4. (IF "text" = x THEN 1 ELSE 0) = IF x = "text" THEN 1 ELSE 0
    OBVIOUS
  <2> QED BY <2>2, <2>3, <2>4
<1> HIDE DEF r
<1>3. \A i \in 1 .. Len(r) : i \in 1 .. Len(s) \/ i = Len(s) + 1
  BY <1>1
<1>4. NoDone(s) /\ x # "done" => NoDone(r)
  BY <1>1, <1>3 DEF NoDone
<1>5. NoDone(s) => DoneLast(r) /\ DoneLast(s)
  BY <1>1 DEF NoDone, DoneLast
<1>6. x = "done" => EndsDone(r)
  <2>1. r # <<>>
    BY <1>1
  <2> QED BY <1>1, <2>1 DEF EndsDone
<1> QED BY <1>1, <1>2, <1>4, <1>5, <1>6 DEF r

(* What is appended to the body is appended to what is seen.               *)
LEMMA SeenAppended ==
    ASSUME NEW g \in Seq(Chunk), NEW b \in Seq(Chunk), NEW x \in Chunk
    PROVE  g \o Append(b, x) = Append(g \o b, x)
<1>1. <<x>> \in Seq(Chunk)
  OBVIOUS
<1>2. Append(b, x) = b \o <<x>> /\ g \o b \in Seq(Chunk)
  BY AppendIsConcat, ConcatProperties
<1>3. Append(g \o b, x) = (g \o b) \o <<x>>
  BY <1>2, AppendIsConcat
<1> QED BY <1>1, <1>2, <1>3, ConcatAssociative

(* try_send: what fits of up to two chunks.                                *)
LEMMA FirstChunks ==
    ASSUME NEW b \in Seq(Chunk), NEW x \in Chunk, NEW y \in Chunk
    PROVE  /\ b \o SubSeq(<<>>, 1, 0) = b
           /\ b \o SubSeq(<<x>>, 1, 0) = b /\ b \o SubSeq(<<x>>, 1, 1) = Append(b, x)
           /\ b \o SubSeq(<<x, y>>, 1, 0) = b /\ b \o SubSeq(<<x, y>>, 1, 1) = Append(b, x)
           /\ b \o SubSeq(<<x, y>>, 1, 2) = Append(Append(b, x), y)
<1>01. <<x>> \in Seq(Chunk) /\ <<x, y>> \in Seq(Chunk) /\ <<y>> \in Seq(Chunk)
  OBVIOUS
<1>0. PICK one \in Seq(Chunk), two \in Seq(Chunk), z \in Seq(Chunk) :
         one = <<x>> /\ two = <<x, y>> /\ z = <<y>>
  BY <1>01, Zenon
<1>1. b \o <<>> = b /\ b \o one = Append(b, x)
  BY <1>0, ConcatEmptySeq, AppendIsConcat
<1>2. \A s \in Seq(Chunk) : SubSeq(s, 1, 0) = <<>>
  BY SubSeqEmpty
<1>3. SubSeq(<<>>, 1, 0) = <<>>
  BY <1>2, EmptySeq
<1>4. SubSeq(one, 1, 1) = one /\ SubSeq(two, 1, 2) = two /\ SubSeq(two, 1, 1) = one
  <2>1. Len(one) = 1 /\ Len(two) = 2
    BY <1>0
  <2>2. SubSeq(one, 1, 1) = one /\ SubSeq(two, 1, 2) = two
    BY <2>1, SubSeqFull
  <2>3. /\ SubSeq(two, 1, 1) \in Seq(Chunk) /\ Len(SubSeq(two, 1, 1)) = 1
        /\ SubSeq(two, 1, 1)[1] = two[1]
    <3>1. two[1] \in Chunk
      BY <1>0
    <3>2. \A i \in 1 .. 1 : two[i] \in Chunk
      BY <3>1
    <3> QED BY <3>2, SubSeqProperties
  <2>4. two[1] = one[1]
    BY <1>0
  <2>5. SubSeq(two, 1, 1) = one
    BY <2>1, <2>3, <2>4, SeqEqual
  <2> QED BY <2>2, <2>5
<1>5. b \o two = Append(Append(b, x), y)
  <2>1. Append(one, y) = two
    <3>1. /\ Append(one, y) \in Seq(Chunk) /\ Len(Append(one, y)) = 2
          /\ Append(one, y)[1] = x /\ Append(one, y)[2] = y
      BY <1>0, AppendProperties
    <3>2. Len(two) = 2 /\ two[1] = x /\ two[2] = y
      BY <1>0
    <3> QED BY <3>1, <3>2, SeqEqual
  <2>3. two = one \o z
    BY <1>0, <2>1, AppendIsConcat
  <2>4. b \o (one \o z) = (b \o one) \o z
    BY ConcatAssociative
  <2>5. (b \o one) \o z = Append(b \o one, y)
    BY <1>0, AppendIsConcat, ConcatProperties
  <2> QED BY <1>1, <2>3, <2>4, <2>5
<1> QED BY <1>0, <1>1, <1>2, <1>3, <1>4, <1>5

-----------------------------------------------------------------------------
(* The inductive invariant.                                                *)

Bounded == RelayTypeOK /\ Known /\ answers <= emitted

Plain == body = <<>> /\ got = <<>> /\ reader \in {"run", "done"}

(* The stream task can still relay a text.                                 *)
Reading == reader \in {"start", "run"}

InOrder ==
    /\ Reading => ~finished
    /\ reader # "done" /\ ~finished => NoDone(Seen)
    /\ DoneLast(Seen)
    /\ On(Seen, "text") => sent_any

Emptied == reader # "done" /\ parser = "done" => evs = <<>>

(* The end of the answer is on its way to a task that waits for it; after  *)
(* that nothing is added to the answer.                                    *)
EndComes ==
    /\ Reading => (over <=> Ended(chan) \/ Ended(evs))
    /\ ~Reading => over \/ parser = "done"

(* Pieces of the answer on their way.                                      *)
Due == IF Ended(chan) THEN Lead(chan) ELSE Lead(chan) + Lead(evs)

Fits == client = "there" /\ offered <= BODY_CAP

Whole ==
    /\ Len(Seen) = offered
    /\ Reading => Copies(Seen, "text") + Due = answers
    /\ ~Reading => Copies(Seen, "text") = answers
    /\ reader = "closed" /\ finished => EndsDone(Seen)
    /\ reader = "done" /\ sent_any => EndsDone(Seen)

StreamOK == InOrder /\ Emptied /\ EndComes /\ (Fits => Whole)

RelayInv == Bounded /\ (~is_stream => Plain) /\ (is_stream => StreamOK)

-----------------------------------------------------------------------------
(* What the client will have seen after chunks were offered.               *)

Room == IF client = "there" THEN BODY_CAP - Len(body) ELSE 0

LEMMA RoomType ==
    ASSUME RelayTypeOK
    PROVE  /\ Room \in Nat /\ Len(body) + Room <= BODY_CAP /\ BODY_CAP \in Nat
           /\ Len(body) \in Nat /\ Len(got) \in Nat /\ offered \in Nat
           /\ Seen \in Seq(Chunk) /\ Len(Seen) = Len(got) + Len(body)
           /\ \A k \in Nat :
                 Fits /\ Len(Seen) = offered /\ offered + k <= BODY_CAP => k <= Room
<1>1. body \in Seq(Chunk) /\ got \in Seq(Chunk) /\ Len(body) <= BODY_CAP /\ offered \in Nat
  BY DEF RelayTypeOK
<1>2. BODY_CAP \in Nat
  BY RelayConstants
<1>3. Len(body) \in Nat /\ Len(got) \in Nat
  BY <1>1, LenProperties
<1>4. Seen \in Seq(Chunk) /\ Len(Seen) = Len(got) + Len(body)
  BY <1>1, ConcatProperties DEF Seen
<1>5. Room \in Nat /\ Len(body) + Room <= BODY_CAP
  BY <1>1, <1>2, <1>3 DEF Room
<1>6. ASSUME NEW k \in Nat, Fits, Len(Seen) = offered, offered + k <= BODY_CAP
      PROVE  k <= Room
  BY <1>1, <1>2, <1>3, <1>4, <1>6 DEF Room, Fits
<1> QED BY <1>1, <1>2, <1>3, <1>4, <1>5, <1>6

LEMMA NoneOffered ==
    ASSUME RelayTypeOK, Offer(<<>>)
    PROVE  body' = body /\ offered' = offered
<1>1. /\ body' = body \o SubSeq(<<>>, 1, IF Room < Len(<<>>) THEN Room ELSE Len(<<>>))
      /\ offered' = offered + Len(<<>>)
  BY DEF Offer, Room
<1>2. Len(<<>>) = 0 /\ offered \in Nat /\ body \in Seq(Chunk)
  BY EmptySeq DEF RelayTypeOK
<1>3. body' = body \o SubSeq(<<>>, 1, 0)
  BY <1>1, <1>2, RoomType
<1>4. PICK c \in Chunk : c = "role"
  BY DEF Chunk
<1>5. body \o SubSeq(<<>>, 1, 0) = body
  BY <1>2, <1>4, FirstChunks, Zenon
<1>6. offered' = offered
  BY <1>1, <1>2
<1> QED BY <1>3, <1>5, <1>6

LEMMA OneOffered ==
    ASSUME RelayTypeOK, NEW x \in Chunk, Offer(<<x>>), UNCHANGED got
    PROVE  /\ offered' = offered + 1
           /\ body' \in Seq(Chunk) /\ Len(body') <= BODY_CAP
           /\ \/ Seen' = Append(Seen, x)
              \/ Seen' = Seen /\ Room < 1
<1>1. Len(<<x>>) = 1
  OBVIOUS
<1> DEFINE n == IF Room < 1 THEN Room ELSE 1
<1>2. body' = body \o SubSeq(<<x>>, 1, n) /\ offered' = offered + 1
  BY <1>1 DEF Offer, Room
<1>3. body \in Seq(Chunk) /\ got \in Seq(Chunk)
  BY DEF RelayTypeOK
<1>4. (n = 0 /\ Room < 1) \/ n = 1
  BY RoomType
<1>5. CASE n = 0 /\ Room < 1
  <2>1. body' = body
    BY <1>2, <1>3, <1>5, FirstChunks
  <2> QED BY <1>2, <1>3, <1>5, <2>1 DEF Seen, RelayTypeOK
<1>6. CASE n = 1
  <2>1. body' = Append(body, x)
    BY <1>2, <1>3, <1>6, FirstChunks
  <2>2. body' \in Seq(Chunk) /\ Len(body') = Len(body) + 1
    BY <1>3, <2>1, AppendProperties
  <2>3. Seen' = Append(Seen, x)
    BY <1>3, <2>1, SeenAppended DEF Seen
  <2>4. Len(body') <= BODY_CAP
    BY <1>6, <2>2, RoomType
  <2> QED BY <1>2, <2>2, <2>3, <2>4
<1> QED BY <1>4, <1>5, <1>6

LEMMA TwoOffered ==
    ASSUME RelayTypeOK, NEW x \in Chunk, NEW y \in Chunk, Offer(<<x, y>>), UNCHANGED got
    PROVE  /\ offered' = offered + 2
           /\ body' \in Seq(Chunk) /\ Len(body') <= BODY_CAP
           /\ \/ Seen' = Append(Append(Seen, x), y)
              \/ Seen' = Append(Seen, x) /\ Room < 2
              \/ Seen' = Seen /\ Room < 2
<1>1. Len(<<x, y>>) = 2
  OBVIOUS
<1> DEFINE n == IF Room < 2 THEN Room ELSE 2
<1>2. body' = body \o SubSeq(<<x, y>>, 1, n) /\ offered' = offered + 2
  BY <1>1 DEF Offer, Room
<1>3. body \in Seq(Chunk) /\ got \in Seq(Chunk) /\ Append(body, x) \in Seq(Chunk)
  BY AppendProperties DEF RelayTypeOK
<1>4. (n = 0 /\ Room < 2) \/ (n = 1 /\ Room < 2) \/ n = 2
  BY RoomType
<1>5. CASE n = 0 /\ Room < 2
  <2>1. body' = body
    BY <1>2, <1>3, <1>5, FirstChunks
  <2> QED BY <1>2, <1>3, <1>5, <2>1 DEF Seen, RelayTypeOK
<1>6. CASE n = 1 /\ Room < 2
  <2>1. body' = Append(body, x)
    BY <1>2, <1>3, <1>6, FirstChunks
  <2>2. body' \in Seq(Chunk) /\ Len(body') = Len(body) + 1
    BY <1>3, <2>1, AppendProperties
  <2>3. Seen' = Append(Seen, x)
    BY <1>3, <2>1, SeenAppended DEF Seen
  <2>4. Len(body') <= BODY_CAP
    BY <1>6, <2>2, RoomType
  <2> QED BY <1>2, <1>6, <2>2, <2>3, <2>4
<1>7. CASE n = 2
  <2>1. body' = Append(Append(body, x), y)
    BY <1>2, <1>3, <1>7, FirstChunks
  <2>2. body' \in Seq(Chunk) /\ Len(body') = (Len(body) + 1) + 1
    BY <1>3, <2>1, AppendProperties
  <2>3. got \o Append(body, x) = Append(Seen, x)
    BY <1>3, SeenAppended DEF Seen
  <2>4. got \o Append(Append(body, x), y) = Append(got \o Append(body, x), y)
    BY <1>3, SeenAppended
  <2>5. Seen' = Append(Append(Seen, x), y)
    BY <2>1, <2>3, <2>4 DEF Seen
  <2>6. Len(body') <= BODY_CAP
    BY <1>7, <2>2, RoomType
  <2> QED BY <1>2, <2>2, <2>5, <2>6
<1> QED BY <1>4, <1>5, <1>6, <1>7

-----------------------------------------------------------------------------
(* The invariant holds of every state: the parser's steps.                 *)

LEMMA RelayInitially ==
    ASSUME RelayInit
    PROVE  RelayInv
<1>1. RelayTypeOK
  <2>1. st.fragments = <<>>
    BY DEF RelayInit, NewState
  <2>2. Len(<<>>) = 0 /\ <<>> \in Seq(Kind) /\ <<>> \in Seq(Event) /\ <<>> \in Seq(Chunk)
    BY EmptySeq
  <2>3. /\ is_stream \in BOOLEAN /\ sent_any = FALSE /\ finished = FALSE /\ parser = "run"
        /\ emitted = 0 /\ evs = <<>> /\ document = <<>> /\ answers = 0 /\ over = FALSE
        /\ chan = <<>> /\ reader \in {"start", "run"} /\ body = <<>>
        /\ handler = "await" /\ client = "there" /\ offered = 0 /\ got = <<>>
    BY DEF RelayInit
  <2>4. 0 \in 0 .. MAX_EVENTS /\ 0 <= CHAN_CAP /\ 0 <= BODY_CAP
    BY RelayConstants
  <2> QED BY <2>1, <2>2, <2>3, <2>4 DEF RelayTypeOK
<1>2. Known /\ answers <= emitted
  <2>1. Known
    BY DEF RelayInit, Known, NewState
  <2>2. answers = 0 /\ emitted = 0
    BY DEF RelayInit
  <2> QED BY <2>1, <2>2
<1>3. ~is_stream => Plain
  BY DEF RelayInit, Plain
<1>4. ASSUME is_stream PROVE StreamOK
  <2>1. Seen = <<>> /\ Len(Seen) = 0
    <3>1. <<>> \o <<>> = <<>>
      OBVIOUS
    <3> QED BY <3>1, EmptySeq DEF Seen, RelayInit
  <2>2. ~On(Seen, "text") /\ Copies(Seen, "text") = 0
    BY <2>1, EmptyWire
  <2>3. NoDone(Seen) /\ DoneLast(Seen)
    BY <2>1 DEF NoDone, DoneLast
  <2>4. /\ chan = <<>> /\ ~Ended(chan) /\ Lead(chan) = 0
        /\ evs = <<>> /\ ~Ended(evs) /\ Lead(evs) = 0
    BY ShortLead DEF RelayInit
  <2>5. reader = "start" /\ ~finished /\ ~over /\ answers = 0 /\ offered = 0
    BY <1>4 DEF RelayInit
  <2>6. Reading /\ Due = 0
    BY <2>4, <2>5 DEF Reading, Due
  <2>7. InOrder
    BY <2>2, <2>3, <2>5 DEF InOrder
  <2>8. Emptied /\ EndComes
    BY <2>4, <2>5, <2>6 DEF Emptied, EndComes
  <2>9. Whole
    BY <2>1, <2>2, <2>5, <2>6 DEF Whole
  <2> QED BY <2>7, <2>8, <2>9 DEF StreamOK
<1> QED BY <1>1, <1>2, <1>3, <1>4 DEF RelayInv, Bounded

(* A step that leaves the reader and the client as they are.               *)
LEMMA ReaderRests ==
    ASSUME RelayInv, UNCHANGED <<relay, outside>>
    PROVE  /\ Seen' = Seen /\ (Reading' <=> Reading) /\ (Fits' <=> Fits)
           /\ (~is_stream => Plain)' /\ (is_stream => InOrder)'
<1>1. UNCHANGED <<reader, sent_any, finished, body, offered, is_stream,
                   handler, client, got>>
  BY DEF relay, outside
<1>2. Seen' = Seen /\ (Reading' <=> Reading) /\ (Fits' <=> Fits)
  BY <1>1 DEF Seen, Reading, Fits
<1>3. (~is_stream => Plain)'
  BY <1>1 DEF RelayInv, Plain
<1>4. (is_stream => InOrder)'
  BY <1>1, <1>2 DEF RelayInv, StreamOK, InOrder
<1> QED BY <1>2, <1>3, <1>4

LEMMA ParseKeeps ==
    ASSUME RelayInv, Parse
    PROVE  RelayInv'
<1>1. /\ RelayTypeOK /\ Known /\ answers <= emitted
      /\ over \in BOOLEAN /\ answers \in Nat /\ emitted \in Nat /\ document \in Seq(Kind)
      /\ is_stream => StreamOK
  BY DEF RelayInv, Bounded, RelayTypeOK
<1>2. Progress
  BY <1>1, ParseYields
<1>3. /\ parser = "run" /\ evs = <<>> /\ emitted < MAX_EVENTS /\ emitted' = emitted + 1
      /\ UNCHANGED <<parser, chan, relay, outside>>
  BY DEF Parse
<1>4. UNCHANGED <<reader, sent_any, finished, body, offered, is_stream,
                   handler, client, got>>
  BY <1>3 DEF relay, outside
<1>5. /\ Seen' = Seen /\ (Reading' <=> Reading) /\ (Fits' <=> Fits)
      /\ (~is_stream => Plain)' /\ (is_stream => InOrder)'
  BY <1>3, ReaderRests
<1>6. ~Ended(evs) /\ Lead(evs) = 0
  BY <1>3, ShortLead
<1>7. Bounded'
  <2>1. /\ Known' /\ document' \in Seq(Kind) /\ evs' \in Seq(Event)
        /\ Lead(evs') \in {0, 1}
        /\ answers' = IF over THEN answers ELSE answers + Lead(evs')
        /\ over' = (over \/ Ended(evs'))
    BY <1>2 DEF Progress
  <2>2. st'.fragments \in Seq(Kind)
    BY <2>1 DEF Known
  <2>3. answers' \in Nat /\ answers' <= emitted' /\ emitted' \in 0 .. MAX_EVENTS
    BY <1>1, <1>3, <2>1, RelayConstants
  <2>4. answers' \in 0 .. MAX_EVENTS
    BY <2>3, RelayConstants
  <2>5. over' \in BOOLEAN
    BY <1>1, <2>1 DEF Ended
  <2>6. RelayTypeOK'
    BY <1>1, <1>3, <1>4, <2>1, <2>2, <2>3, <2>4, <2>5 DEF RelayTypeOK
  <2> QED BY <2>1, <2>3, <2>6 DEF Bounded
<1>8. ASSUME is_stream PROVE Emptied' /\ EndComes' /\ (Fits => Whole)'
  <2>1. EndComes /\ (Fits => Whole)
    BY <1>1, <1>8 DEF StreamOK
  <2>2. /\ Lead(evs') \in {0, 1} /\ over' = (over \/ Ended(evs'))
        /\ answers' = IF over THEN answers ELSE answers + Lead(evs')
        /\ chan' = chan /\ parser' = parser
    BY <1>2, <1>3 DEF Progress
  <2>3. Emptied'
    BY <1>3, <2>2 DEF Emptied
  <2>4. EndComes'
    BY <1>1, <1>3, <1>5, <1>6, <2>1, <2>2 DEF EndComes
  <2>5. Lead(chan) \in Nat
    BY <1>1, LeadType DEF RelayTypeOK
  <2>6. ASSUME Fits' PROVE Whole'
    <3>1. Whole
      BY <1>5, <2>1, <2>6
    <3>2. Reading => Copies(Seen, "text") + Due' = answers'
      <4> SUFFICES ASSUME Reading PROVE Copies(Seen, "text") + Due' = answers'
        OBVIOUS
      <4>1. over <=> Ended(chan)
        BY <1>6, <2>1 DEF EndComes
      <4>2. Copies(Seen, "text") \in Nat
        BY RoomType, CopiesType, <1>1
      <4>3. Due = Lead(chan) /\ Copies(Seen, "text") + Lead(chan) = answers
        BY <1>6, <2>5, <3>1 DEF Due, Whole
      <4>4. CASE over
        BY <2>2, <4>1, <4>3, <4>4 DEF Due
      <4>5. CASE ~over
        <5>1. Due' = Lead(chan) + Lead(evs') /\ answers' = answers + Lead(evs')
          BY <2>2, <4>1, <4>5 DEF Due
        <5> QED BY <2>2, <2>5, <4>2, <4>3, <5>1
      <4> QED BY <4>4, <4>5
    <3>3. ~Reading => answers' = answers
      BY <1>3, <2>1, <2>2 DEF EndComes
    <3> QED BY <1>4, <1>5, <3>1, <3>2, <3>3 DEF Whole
  <2> QED BY <2>3, <2>4, <2>6
<1> QED BY <1>4, <1>5, <1>7, <1>8 DEF RelayInv, StreamOK

LEMMA SentKeeps ==
    ASSUME RelayInv, Sent
    PROVE  RelayInv'
<1>1. /\ RelayTypeOK /\ Known /\ answers <= emitted /\ chan \in Seq(Event)
      /\ evs \in Seq(Event) /\ CHAN_CAP \in Nat /\ answers \in Nat
      /\ is_stream => StreamOK
  BY RelayConstants DEF RelayInv, Bounded, RelayTypeOK
<1>2. parser = "run" /\ evs # <<>> /\ UNCHANGED <<st, upstream, relay, outside>>
  BY DEF Sent
<1>3. /\ UNCHANGED <<reader, sent_any, finished, body, offered, is_stream,
                   handler, client, got>>
      /\ UNCHANGED <<st, emitted, wire, document, answers, over>>
  BY <1>2 DEF relay, outside, upstream
<1>4. /\ Seen' = Seen /\ (Reading' <=> Reading) /\ (Fits' <=> Fits)
      /\ (~is_stream => Plain)' /\ (is_stream => InOrder)'
  BY <1>2, ReaderRests
<1>5. Known' /\ answers' <= emitted'
  BY <1>1, <1>3 DEF Known
<1>6. CASE ReceiverGone /\ parser' = "done" /\ UNCHANGED <<chan, evs>>
  <2>1. RelayTypeOK'
    BY <1>1, <1>3, <1>6 DEF RelayTypeOK
  <2>2. ASSUME is_stream PROVE Emptied' /\ EndComes' /\ (Fits => Whole)'
    <3>1. reader = "done" /\ ~Reading
      BY <1>6, <2>2 DEF ReceiverGone, Reading
    <3>2. Emptied' /\ EndComes'
      BY <1>3, <1>4, <1>6, <3>1 DEF Emptied, EndComes
    <3>3. (Fits => Whole)'
      BY <1>1, <1>3, <1>4, <2>2, <3>1 DEF Whole, StreamOK
    <3> QED BY <3>2, <3>3
  <2> QED BY <1>3, <1>4, <1>5, <2>1, <2>2 DEF RelayInv, Bounded, StreamOK
<1>7. CASE /\ Len(chan) < CHAN_CAP
           /\ chan' = Append(chan, Head(evs)) /\ evs' = Tail(evs) /\ UNCHANGED parser
  <2> DEFINE e == Head(evs)
  <2>1. /\ Tail(evs) \in Seq(Event) /\ e \in Event
        /\ e \in Enders => Lead(evs) = 0 /\ Ended(evs)
        /\ e \notin Enders =>
              /\ Ended(Tail(evs)) <=> Ended(evs)
              /\ Lead(evs) = IF e = "text" THEN Lead(Tail(evs)) + 1 ELSE Lead(Tail(evs))
    BY <1>1, <1>2, TailLead
  <2>2. /\ Append(chan, e) \in Seq(Event)
        /\ Ended(Append(chan, e)) <=> Ended(chan) \/ e \in Enders
        /\ Lead(Append(chan, e)) = IF e = "text" /\ ~Ended(chan) THEN Lead(chan) + 1
                                   ELSE Lead(chan)
    BY <1>1, <2>1, AppendLead
  <2>3. Len(Append(chan, e)) = Len(chan) + 1 /\ Len(chan) \in Nat
    BY <1>1, <2>1, AppendProperties, LenProperties
  <2>4. /\ Lead(chan) \in Nat /\ Lead(Tail(evs)) \in Nat
    BY <1>1, <2>1, LeadType
  <2> HIDE DEF e
  <2>5. chan' = Append(chan, e) /\ evs' = Tail(evs) /\ parser' = parser /\ Len(chan) < CHAN_CAP
    BY <1>7 DEF e
  <2>6. RelayTypeOK'
    BY <1>1, <1>3, <2>1, <2>2, <2>3, <2>5 DEF RelayTypeOK
  <2>7. Due' = Due
    <3>1. "text" \notin Enders
      BY DEF Enders
    <3> QED BY <2>1, <2>2, <2>4, <2>5, <3>1 DEF Due
  <2>8. ASSUME is_stream PROVE Emptied' /\ EndComes' /\ (Fits => Whole)'
    <3>1. Emptied'
      BY <1>2, <2>5 DEF Emptied
    <3>2. EndComes'
      BY <1>1, <1>3, <1>4, <2>1, <2>2, <2>5, <2>8 DEF EndComes, StreamOK
    <3>3. (Fits => Whole)'
      BY <1>1, <1>3, <1>4, <2>7, <2>8 DEF Whole, StreamOK
    <3> QED BY <3>1, <3>2, <3>3
  <2> QED BY <1>3, <1>4, <1>5, <2>6, <2>8 DEF RelayInv, Bounded, StreamOK
<1> QED BY <1>6, <1>7 DEF Sent

LEMMA ParseEndsKeeps ==
    ASSUME RelayInv, ParseEnds
    PROVE  RelayInv'
<1>1. /\ evs = <<>> /\ parser' = "done"
      /\ UNCHANGED <<st, evs, upstream, chan, relay, outside>>
  BY DEF ParseEnds
<1>2. /\ UNCHANGED <<reader, sent_any, finished, body, offered, is_stream,
                   handler, client, got>>
      /\ UNCHANGED <<st, evs, emitted, wire, document, answers, over, chan>>
  BY <1>1 DEF relay, outside, upstream
<1>3. /\ Seen' = Seen /\ (Reading' <=> Reading) /\ (Fits' <=> Fits)
      /\ (~is_stream => Plain)' /\ (is_stream => InOrder)'
  BY <1>1, ReaderRests
<1>4. Bounded'
  BY <1>1, <1>2 DEF RelayInv, Bounded, RelayTypeOK, Known
<1>5. ASSUME is_stream PROVE Emptied' /\ EndComes' /\ (Fits => Whole)'
  <2>1. StreamOK
    BY <1>5 DEF RelayInv
  <2>2. Emptied'
    BY <1>1 DEF Emptied
  <2>3. EndComes'
    BY <1>1, <1>2, <1>3, <2>1 DEF EndComes, StreamOK
  <2>4. Due' = Due
    BY <1>2 DEF Due
  <2>5. (Fits => Whole)'
    BY <1>2, <1>3, <2>1, <2>4 DEF Whole, StreamOK
  <2> QED BY <2>2, <2>3, <2>5
<1> QED BY <1>2, <1>3, <1>4, <1>5 DEF RelayInv, StreamOK

-----------------------------------------------------------------------------
(* The stream task's steps.                                                *)

(* What is left untouched when only the stream task steps.                 *)
LEMMA OtherwiseKept ==
    ASSUME RelayInv, is_stream, UNCHANGED <<parser, st, evs, upstream, outside>>,
           chan' \in Seq(Event), Len(chan') <= CHAN_CAP,
           reader' \in {"start", "run", "closed", "done"}, sent_any' \in BOOLEAN,
           finished' \in BOOLEAN, body' \in Seq(Chunk), Len(body') <= BODY_CAP,
           offered' \in Nat, StreamOK'
    PROVE  RelayInv'
<1>1. UNCHANGED <<is_stream, parser, st, evs, emitted, wire, document, answers, over,
                  handler, client, got>>
  BY DEF upstream, outside
<1>2. RelayTypeOK' /\ Known' /\ answers' <= emitted'
  BY <1>1 DEF RelayInv, Bounded, RelayTypeOK, Known
<1> QED BY <1>1, <1>2 DEF RelayInv, Bounded

(* A chunk that is no [DONE].                                              *)
LEMMA ChunkKeeps ==
    ASSUME RelayInv, is_stream, Reading, Reading', NEW x \in Chunk, x # "done",
           Offer(<<x>>), UNCHANGED <<parser, st, evs, upstream, outside, finished>>,
           chan' \in Seq(Event), Len(chan') <= CHAN_CAP,
           reader' \in {"start", "run", "closed", "done"}, sent_any' \in BOOLEAN,
           sent_any \/ x = "text" => sent_any',
           Ended(chan') \/ Ended(evs) <=> Ended(chan) \/ Ended(evs),
           Due \in Nat, Due' \in Nat, Due = IF x = "text" THEN Due' + 1 ELSE Due'
    PROVE  RelayInv'
<1>1. /\ RelayTypeOK /\ StreamOK /\ finished \in BOOLEAN
  BY DEF RelayInv, Bounded, RelayTypeOK
<1>2. /\ UNCHANGED <<is_stream, parser, evs, answers, over, client, got, finished>>
  BY DEF upstream, outside
<1>3. /\ offered' = offered + 1 /\ body' \in Seq(Chunk) /\ Len(body') <= BODY_CAP
      /\ \/ Seen' = Append(Seen, x)
         \/ Seen' = Seen /\ Room < 1
  BY <1>1, <1>2, OneOffered
<1>4. /\ Seen \in Seq(Chunk) /\ offered \in Nat /\ BODY_CAP \in Nat
      /\ Fits /\ Len(Seen) = offered /\ offered + 1 <= BODY_CAP => 1 <= Room
      /\ Room \in Nat
  BY <1>1, RoomType
<1>5. /\ Len(Append(Seen, x)) = Len(Seen) + 1
      /\ NoDone(Seen) => NoDone(Append(Seen, x))
      /\ NoDone(Seen) => DoneLast(Append(Seen, x)) /\ DoneLast(Seen)
      /\ On(Append(Seen, x), "text") <=> On(Seen, "text") \/ x = "text"
      /\ Copies(Seen, "text") \in Nat
      /\ Copies(Append(Seen, x), "text") = IF x = "text" THEN Copies(Seen, "text") + 1
                                           ELSE Copies(Seen, "text")
  BY <1>4, ChunkAppended
<1>6. ~finished /\ NoDone(Seen) /\ reader # "done" /\ reader' # "done" /\ reader' # "closed"
  BY <1>1 DEF StreamOK, InOrder, Reading
<1>7. InOrder'
  <2>1. On(Seen, "text") => sent_any
    BY <1>1 DEF StreamOK, InOrder
  <2>2. NoDone(Seen') /\ DoneLast(Seen') /\ (On(Seen', "text") => sent_any')
    <3>1. CASE Seen' = Append(Seen, x)
      BY <1>5, <1>6, <2>1, <3>1
    <3>2. CASE Seen' = Seen
      BY <1>5, <1>6, <2>1, <3>2
    <3> QED BY <1>3, <3>1, <3>2
  <2> QED BY <1>2, <1>6, <2>2 DEF InOrder
<1>8. Emptied' /\ EndComes'
  BY <1>1, <1>2, <1>6 DEF Emptied, EndComes, StreamOK
<1>9. ASSUME Fits' PROVE Whole'
  <2>1. Fits /\ offered + 1 <= BODY_CAP
    BY <1>2, <1>3, <1>4, <1>9 DEF Fits
  <2>2. Whole
    BY <1>1, <2>1 DEF StreamOK
  <2>3. Len(Seen) = offered /\ Copies(Seen, "text") + Due = answers
    BY <2>2 DEF Whole
  <2>4. Seen' = Append(Seen, x)
    BY <1>3, <1>4, <2>1, <2>3
  <2>5. Len(Seen') = offered' /\ Copies(Seen', "text") + Due' = answers'
    <3>1. Copies(Seen', "text") = Copies(Append(Seen, x), "text")
      BY <2>4
    <3>2. Len(Seen') = offered'
      BY <1>3, <1>5, <2>3, <2>4
    <3>3. CASE x = "text"
      BY <1>2, <1>5, <2>3, <3>1, <3>2, <3>3
    <3>4. CASE x # "text"
      BY <1>2, <1>5, <2>3, <3>1, <3>2, <3>4
    <3> QED BY <3>3, <3>4
  <2> QED BY <1>6, <2>5 DEF Whole
<1>10. StreamOK'
  BY <1>7, <1>8, <1>9 DEF StreamOK
<1> QED BY <1>1, <1>2, <1>3, <1>4, <1>10, OtherwiseKept

(* The two chunks that end the answer.                                     *)
LEMMA EndKeeps ==
    ASSUME RelayInv, is_stream, reader # "done", ~finished, Offer(<<"stop", "done">>),
           UNCHANGED <<parser, st, evs, upstream, outside, sent_any>>,
           chan' \in Seq(Event), Len(chan') <= CHAN_CAP,
           reader' \in {"closed", "done"}, finished' \in BOOLEAN,
           reader' = "closed" => finished', over \/ parser = "done",
           Reading => Due = 0
    PROVE  RelayInv'
<1>1. /\ RelayTypeOK /\ StreamOK /\ sent_any \in BOOLEAN
  BY DEF RelayInv, Bounded, RelayTypeOK
<1>2. /\ UNCHANGED <<is_stream, parser, evs, answers, over, client, got, sent_any>>
  BY DEF upstream, outside
<1>3. PICK x \in Chunk, y \in Chunk : x = "stop" /\ y = "done"
  BY DEF Chunk
<1>4. /\ offered' = offered + 2 /\ body' \in Seq(Chunk) /\ Len(body') <= BODY_CAP
      /\ \/ Seen' = Append(Append(Seen, x), y)
         \/ Seen' = Append(Seen, x) /\ Room < 2
         \/ Seen' = Seen /\ Room < 2
  BY <1>1, <1>2, <1>3, TwoOffered
<1>5. /\ Seen \in Seq(Chunk) /\ offered \in Nat /\ BODY_CAP \in Nat
      /\ Fits /\ Len(Seen) = offered /\ offered + 2 <= BODY_CAP => 2 <= Room
      /\ Room \in Nat
  BY <1>1, RoomType
<1> DEFINE one == Append(Seen, x)
           two == Append(one, y)
<1>6. /\ one \in Seq(Chunk) /\ Len(one) = Len(Seen) + 1
      /\ NoDone(Seen) => NoDone(one)
      /\ NoDone(Seen) => DoneLast(one) /\ DoneLast(Seen)
      /\ On(one, "text") <=> On(Seen, "text")
      /\ Copies(one, "text") = Copies(Seen, "text") /\ Copies(Seen, "text") \in Nat
  BY <1>3, <1>5, ChunkAppended
<1> HIDE DEF one
<1>7. /\ Len(two) = Len(one) + 1
      /\ NoDone(one) => DoneLast(two)
      /\ EndsDone(two)
      /\ On(two, "text") <=> On(one, "text")
      /\ Copies(two, "text") = Copies(one, "text")
  BY <1>3, <1>6, ChunkAppended
<1> HIDE DEF two
<1>8. Seen' = two \/ ((Seen' = one \/ Seen' = Seen) /\ Room < 2)
  BY <1>4 DEF one, two
<1>9. NoDone(Seen) /\ (On(Seen, "text") => sent_any) /\ ~Reading'
  BY <1>1 DEF StreamOK, InOrder, Reading
<1>10. InOrder'
  BY <1>2, <1>6, <1>7, <1>8, <1>9 DEF InOrder
<1>11. Emptied' /\ EndComes'
  BY <1>1, <1>2, <1>9 DEF Emptied, EndComes, StreamOK
<1>12. ASSUME Fits' PROVE Whole'
  <2>1. Fits /\ offered + 2 <= BODY_CAP
    BY <1>2, <1>4, <1>5, <1>12 DEF Fits
  <2>2. Whole
    BY <1>1, <2>1 DEF StreamOK
  <2>3. Len(Seen) = offered /\ Copies(Seen, "text") = answers
    BY <1>6, <2>2 DEF Whole
  <2>4. Seen' = two
    BY <1>5, <1>8, <2>1, <2>3
  <2>5. Len(Seen') = offered' /\ Copies(Seen', "text") = answers' /\ EndsDone(Seen')
    BY <1>2, <1>4, <1>5, <1>6, <1>7, <2>3, <2>4
  <2> QED BY <1>9, <2>5 DEF Whole
<1>13. StreamOK'
  BY <1>10, <1>11, <1>12 DEF StreamOK
<1> QED BY <1>1, <1>2, <1>4, <1>5, <1>13, OtherwiseKept

LEMMA StreamStartsKeeps ==
    ASSUME RelayInv, StreamStarts
    PROVE  RelayInv'
<1>1. /\ is_stream /\ reader = "start" /\ Offer(<<"role">>) /\ reader' = "run"
      /\ UNCHANGED <<flow, sent_any, finished, outside>>
  BY DEF StreamStarts
<1>2. UNCHANGED <<parser, st, evs, upstream, chan>>
  BY <1>1 DEF flow
<1>3. PICK x \in Chunk : x = "role"
  BY DEF Chunk
<1>4. /\ chan \in Seq(Event) /\ Len(chan) <= CHAN_CAP /\ sent_any \in BOOLEAN
      /\ evs \in Seq(Event)
  BY DEF RelayInv, Bounded, RelayTypeOK
<1>5. Due \in Nat /\ Due' = Due /\ Reading /\ Reading'
  BY <1>1, <1>2, <1>4, LeadType DEF Due, Reading
<1>6. x # "done" /\ x # "text" /\ Offer(<<x>>)
  BY <1>1, <1>3
<1> QED BY <1>1, <1>2, <1>4, <1>5, <1>6, ChunkKeeps

(* What the task does with each event.                                     *)
LEMMA RelayParts ==
    ASSUME NEW e \in Event, Relay(e), sent_any \in BOOLEAN, finished \in BOOLEAN
    PROVE  /\ e = "text" => /\ Offer(<<"text">>) /\ reader' = "run" /\ sent_any' = TRUE
                            /\ finished' = finished
           /\ e = "other" => /\ Offer(<<>>) /\ reader' = "run" /\ sent_any' = sent_any
                             /\ finished' = finished
           /\ e \in Enders => /\ Offer(<<"stop", "done">>) /\ sent_any' = sent_any
                              /\ \/ reader' = "closed" /\ finished' = TRUE
                                 \/ reader' = "done" /\ finished' = finished
<1>1. e \in {"text", "other", "finished", "hint"}
  BY DEF Event
<1>2. CASE e = "text"
  BY <1>2 DEF Relay, Enders
<1>3. CASE e = "other"
  BY <1>3 DEF Relay, Enders
<1>4. CASE e = "finished"
  BY <1>4 DEF Relay, Enders
<1>5. CASE e = "hint"
  BY <1>5 DEF Relay, Enders
<1> QED BY <1>1, <1>2, <1>3, <1>4, <1>5

LEMMA StreamRelaysKeeps ==
    ASSUME RelayInv, StreamRelays
    PROVE  RelayInv'
<1>1. /\ is_stream /\ reader = "run" /\ chan # <<>> /\ Relay(Head(chan))
      /\ chan' = Tail(chan) /\ UNCHANGED <<parser, st, evs, upstream, outside>>
  BY DEF StreamRelays
<1>2. /\ chan \in Seq(Event) /\ Len(chan) <= CHAN_CAP /\ sent_any \in BOOLEAN
      /\ finished \in BOOLEAN /\ evs \in Seq(Event) /\ RelayTypeOK /\ StreamOK
      /\ Len(chan) \in Nat /\ CHAN_CAP \in Nat
  BY <1>1, LenProperties, RelayConstants DEF RelayInv, Bounded, RelayTypeOK
<1>3. PICK e : e = Head(chan)
  OBVIOUS
<1>4. /\ chan' \in Seq(Event) /\ e \in Event
      /\ e \in Enders => Lead(chan) = 0 /\ Ended(chan)
      /\ e \notin Enders =>
            /\ Ended(chan') <=> Ended(chan)
            /\ Lead(chan) = IF e = "text" THEN Lead(chan') + 1 ELSE Lead(chan')
  BY <1>1, <1>2, <1>3, TailLead
<1>5. Len(chan') <= CHAN_CAP
  <2>1. Len(chan') = Len(chan) - 1
    BY <1>1, <1>2, HeadTailProperties
  <2> QED BY <1>2, <2>1
<1>6. /\ Lead(chan) \in Nat /\ Lead(chan') \in Nat /\ Lead(evs) \in Nat
  BY <1>2, <1>4, LeadType
<1>7. /\ Due \in Nat /\ Due' \in Nat
      /\ e \in Enders => Due = 0
      /\ e \notin Enders => Due = IF e = "text" THEN Due' + 1 ELSE Due'
  BY <1>1, <1>4, <1>6 DEF Due
<1>8. Relay(e) /\ Reading /\ (reader' = "run" => Reading')
  BY <1>1, <1>3 DEF Reading
<1>9. ~finished
  BY <1>2, <1>8 DEF StreamOK, InOrder
<1>10. "text" \notin Enders /\ "other" \notin Enders
  BY DEF Enders
<1>11. CASE e = "text"
  <2>1. PICK x \in Chunk : x = "text"
    BY DEF Chunk
  <2>2. Offer(<<x>>) /\ reader' = "run" /\ sent_any' = TRUE /\ finished' = finished
    BY <1>2, <1>4, <1>8, <1>11, <2>1, RelayParts
  <2>3. /\ Ended(chan') \/ Ended(evs) <=> Ended(chan) \/ Ended(evs)
        /\ Due = IF x = "text" THEN Due' + 1 ELSE Due'
    BY <1>4, <1>7, <1>10, <1>11, <2>1
  <2>4. x # "done"
    BY <2>1
  <2> QED BY <1>1, <1>4, <1>5, <1>7, <1>8, <2>2, <2>3, <2>4, ChunkKeeps
<1>12. CASE e = "other"
  <2>1. Offer(<<>>) /\ reader' = "run" /\ sent_any' = sent_any /\ finished' = finished
    BY <1>2, <1>4, <1>8, <1>12, RelayParts
  <2>2. body' = body /\ offered' = offered
    BY <1>2, <2>1, NoneOffered
  <2>3. UNCHANGED <<is_stream, parser, evs, answers, over, client, got, finished, sent_any>>
    BY <1>1, <2>1 DEF upstream, outside
  <2>4. /\ Seen' = Seen /\ Reading' /\ (Fits' <=> Fits) /\ Due' = Due
        /\ Ended(chan') <=> Ended(chan)
    BY <1>4, <1>7, <1>8, <1>10, <1>12, <2>1, <2>2, <2>3 DEF Seen, Fits
  <2>5. InOrder' /\ Emptied' /\ EndComes'
    BY <1>1, <1>2, <1>8, <2>1, <2>3, <2>4 DEF StreamOK, InOrder, Emptied, EndComes
  <2>6. (Fits => Whole)'
    BY <1>2, <1>8, <2>1, <2>2, <2>3, <2>4 DEF StreamOK, Whole
  <2>7. StreamOK'
    BY <2>5, <2>6 DEF StreamOK
  <2>8. body \in Seq(Chunk) /\ Len(body) <= BODY_CAP /\ offered \in Nat
    BY <1>2 DEF RelayTypeOK
  <2> QED BY <1>1, <1>2, <1>4, <1>5, <2>1, <2>2, <2>7, <2>8, OtherwiseKept
<1>13. CASE e \in Enders
  <2>1. /\ Offer(<<"stop", "done">>) /\ sent_any' = sent_any
        /\ \/ reader' = "closed" /\ finished' = TRUE
           \/ reader' = "done" /\ finished' = finished
    BY <1>2, <1>4, <1>8, <1>13, RelayParts
  <2>2. over
    BY <1>2, <1>4, <1>8, <1>13 DEF StreamOK, EndComes
  <2>3. /\ reader' \in {"closed", "done"} /\ finished' \in BOOLEAN
        /\ reader' = "closed" => finished'
    BY <1>2, <2>1
  <2> QED BY <1>1, <1>4, <1>5, <1>7, <1>9, <1>13, <2>1, <2>2, <2>3, EndKeeps
<1> QED BY <1>4, <1>11, <1>12, <1>13 DEF Event, Enders

LEMMA ChannelClosesKeeps ==
    ASSUME RelayInv, ChannelCloses
    PROVE  RelayInv'
<1>1. /\ reader = "run" /\ chan = <<>> /\ parser = "done"
      /\ reader' = IF is_stream THEN "closed" ELSE "done"
      /\ UNCHANGED <<flow, sent_any, finished, body, offered, outside>>
  BY DEF ChannelCloses
<1>2. UNCHANGED <<parser, st, evs, emitted, wire, document, answers, over, chan, is_stream,
                  handler, client, got>>
  BY <1>1 DEF flow, upstream, outside
<1>3. Bounded'
  BY <1>1, <1>2 DEF RelayInv, Bounded, RelayTypeOK, Known
<1>4. (~is_stream => Plain)'
  BY <1>1, <1>2 DEF RelayInv, Plain
<1>5. ASSUME is_stream PROVE StreamOK'
  <2>1. StreamOK /\ Reading /\ ~Reading' /\ Seen' = Seen /\ (Fits' <=> Fits)
    BY <1>1, <1>2, <1>5 DEF RelayInv, Reading, Seen, Fits
  <2>2. evs = <<>> /\ Due = 0 /\ ~finished /\ reader' = "closed"
    <3>1. evs = <<>> /\ ~finished
      BY <1>1, <2>1 DEF StreamOK, Emptied, InOrder
    <3>2. ~Ended(chan) /\ Lead(chan) = 0 /\ Lead(evs) = 0
      BY <1>1, <3>1, ShortLead
    <3> QED BY <1>1, <1>5, <3>1, <3>2 DEF Due
  <2>3. InOrder'
    BY <1>1, <2>1, <2>2 DEF StreamOK, InOrder
  <2>4. Emptied' /\ EndComes'
    BY <1>1, <1>2, <2>1, <2>2 DEF Emptied, EndComes
  <2>5. (Fits => Whole)'
    <3> SUFFICES ASSUME Fits' PROVE Whole'
      OBVIOUS
    <3>1. Whole
      BY <2>1 DEF StreamOK
    <3>2. Len(Seen) = offered /\ Copies(Seen, "text") + 0 = answers
      BY <2>1, <2>2, <3>1 DEF Whole
    <3>3. Copies(Seen, "text") \in Nat
      BY CopiesType, RoomType DEF RelayInv, Bounded
    <3> QED BY <1>1, <1>2, <2>1, <2>2, <3>2, <3>3 DEF Whole
  <2> QED BY <2>3, <2>4, <2>5 DEF StreamOK
<1> QED BY <1>2, <1>3, <1>4, <1>5 DEF RelayInv

LEMMA StreamClosedKeeps ==
    ASSUME RelayInv, StreamClosed
    PROVE  RelayInv'
<1>1. /\ is_stream /\ reader = "closed" /\ reader' = "done"
      /\ Offer(IF ~finished /\ sent_any THEN <<"stop", "done">> ELSE <<>>)
      /\ UNCHANGED <<flow, sent_any, finished, outside>>
  BY DEF StreamClosed
<1>2. UNCHANGED <<parser, st, evs, upstream, chan>>
  BY <1>1 DEF flow
<1>3. /\ chan \in Seq(Event) /\ Len(chan) <= CHAN_CAP /\ sent_any \in BOOLEAN
      /\ finished \in BOOLEAN /\ RelayTypeOK /\ StreamOK
  BY <1>1 DEF RelayInv, Bounded, RelayTypeOK
<1>4. ~Reading /\ ~Reading' /\ (over \/ parser = "done")
  BY <1>1, <1>3 DEF StreamOK, EndComes, Reading
<1>5. CASE ~finished /\ sent_any
  <2>1. Offer(<<"stop", "done">>)
    BY <1>1, <1>5
  <2> QED BY <1>1, <1>2, <1>3, <1>4, <1>5, <2>1, EndKeeps
<1>6. CASE finished \/ ~sent_any
  <2>1. Offer(<<>>)
    BY <1>1, <1>6
  <2>2. body' = body /\ offered' = offered
    BY <1>3, <2>1, NoneOffered
  <2>3. UNCHANGED <<is_stream, parser, evs, answers, over, client, got, finished, sent_any>>
    BY <1>1, <1>2 DEF upstream, outside
  <2>4. Seen' = Seen /\ (Fits' <=> Fits)
    BY <2>2, <2>3 DEF Seen, Fits
  <2>5. InOrder' /\ Emptied' /\ EndComes'
    BY <1>1, <1>3, <1>4, <2>3, <2>4 DEF StreamOK, InOrder, Emptied, EndComes
  <2>6. (Fits => Whole)'
    BY <1>1, <1>3, <1>4, <1>6, <2>2, <2>3, <2>4 DEF StreamOK, Whole
  <2>7. StreamOK'
    BY <2>5, <2>6 DEF StreamOK
  <2>8. body \in Seq(Chunk) /\ Len(body) <= BODY_CAP /\ offered \in Nat
    BY <1>3 DEF RelayTypeOK
  <2> QED BY <1>1, <1>2, <1>3, <2>2, <2>7, <2>8, OtherwiseKept
<1> QED BY <1>3, <1>5, <1>6

LEMMA AggregateKeeps ==
    ASSUME RelayInv, Aggregate
    PROVE  RelayInv'
<1>1. /\ ~is_stream /\ reader = "run" /\ chan # <<>> /\ chan' = Tail(chan)
      /\ reader' \in {"done", "run"}
      /\ sent_any' = (sent_any \/ Head(chan) = "text")
      /\ finished' = (finished \/ Head(chan) = "finished")
      /\ UNCHANGED <<parser, st, evs, upstream, body, offered, outside>>
  BY DEF Aggregate
<1>2. UNCHANGED <<parser, st, evs, emitted, wire, document, answers, over, is_stream, body,
                  offered, handler, client, got>>
  BY <1>1 DEF upstream, outside
<1>3. /\ RelayTypeOK /\ chan \in Seq(Event) /\ Len(chan) <= CHAN_CAP /\ CHAN_CAP \in Nat
      /\ Len(chan) \in Nat
  BY LenProperties, RelayConstants DEF RelayInv, Bounded, RelayTypeOK
<1>4. chan' \in Seq(Event) /\ Len(chan') <= CHAN_CAP
  BY <1>1, <1>3, HeadTailProperties
<1>5. sent_any' \in BOOLEAN /\ finished' \in BOOLEAN
  BY <1>1, <1>3 DEF RelayTypeOK
<1>6. Bounded'
  BY <1>1, <1>2, <1>4, <1>5 DEF RelayInv, Bounded, RelayTypeOK, Known
<1>7. (~is_stream => Plain)' /\ is_stream' = is_stream
  BY <1>1, <1>2 DEF RelayInv, Plain
<1> QED BY <1>1, <1>6, <1>7 DEF RelayInv

-----------------------------------------------------------------------------
(* The handler's and the client's steps.                                   *)

LEMMA ReturnsKeeps ==
    ASSUME RelayInv, Returns
    PROVE  RelayInv'
<1>1. /\ handler' = "returned" /\ UNCHANGED <<is_stream, client, got, flow, relay>>
  BY DEF Returns
<1>2. UNCHANGED <<is_stream, client, got, parser, st, evs, emitted, wire, document, answers,
                  over, chan, reader, sent_any, finished, body, offered>>
  BY <1>1 DEF flow, relay, upstream
<1>3. Bounded'
  BY <1>1, <1>2 DEF RelayInv, Bounded, RelayTypeOK, Known
<1>4. Seen' = Seen /\ (Reading' <=> Reading) /\ (Fits' <=> Fits) /\ Due' = Due
  BY <1>2 DEF Seen, Reading, Fits, Due
<1>5. Plain => Plain'
  BY <1>2 DEF Plain
<1>6. StreamOK => StreamOK'
  BY <1>2, <1>4 DEF StreamOK, InOrder, Emptied, EndComes, Whole
<1> QED BY <1>2, <1>3, <1>5, <1>6 DEF RelayInv

(* What is read stays seen.                                                *)
LEMMA SeenRead ==
    ASSUME NEW g \in Seq(Chunk), NEW b \in Seq(Chunk), b # <<>>
    PROVE  /\ Append(g, Head(b)) \in Seq(Chunk) /\ Tail(b) \in Seq(Chunk)
           /\ Len(Tail(b)) <= Len(b)
           /\ Append(g, Head(b)) \o Tail(b) = g \o b
<1>1. /\ Head(b) \in Chunk /\ Tail(b) \in Seq(Chunk) /\ Len(b) \in Nat
      /\ Len(Tail(b)) = Len(b) - 1
  BY HeadTailProperties, LenProperties
<1>2. Append(g, Head(b)) \in Seq(Chunk) /\ Append(g, Head(b)) = g \o <<Head(b)>>
  BY <1>1, AppendProperties, AppendIsConcat
<1>3. <<Head(b)>> \in Seq(Chunk)
  BY <1>1
<1>4. b = <<Head(b)>> \o Tail(b)
  BY HeadTailProperties
<1>5. PICK one \in Seq(Chunk), tail \in Seq(Chunk) : one = <<Head(b)>> /\ tail = Tail(b)
  BY <1>1, <1>3
<1>6. (g \o one) \o tail = g \o (one \o tail)
  BY ConcatAssociative
<1>7. Append(g, Head(b)) \o Tail(b) = g \o b
  BY <1>2, <1>4, <1>5, <1>6, Zenon
<1> QED BY <1>1, <1>2, <1>7

LEMMA ClientReadsKeeps ==
    ASSUME RelayInv, ClientReads
    PROVE  RelayInv'
<1>1. /\ body # <<>> /\ got' = Append(got, Head(body)) /\ body' = Tail(body)
      /\ UNCHANGED <<is_stream, handler, client, flow, reader, sent_any, finished, offered>>
  BY DEF ClientReads
<1>2. UNCHANGED <<is_stream, handler, client, parser, st, evs, emitted, wire, document, answers,
                  over, chan, reader, sent_any, finished, offered>>
  BY <1>1 DEF flow, upstream
<1>3. /\ RelayTypeOK /\ got \in Seq(Chunk) /\ body \in Seq(Chunk) /\ Len(body) <= BODY_CAP
      /\ Len(body) \in Nat /\ BODY_CAP \in Nat
  BY LenProperties, RelayConstants DEF RelayInv, Bounded, RelayTypeOK
<1>4. /\ got' \in Seq(Chunk) /\ body' \in Seq(Chunk) /\ Len(body') <= Len(body) /\ Seen' = Seen
      /\ Len(body') \in Nat
  BY <1>1, <1>3, SeenRead, LenProperties DEF Seen
<1>5. Bounded'
  BY <1>2, <1>3, <1>4 DEF RelayInv, Bounded, RelayTypeOK, Known
<1>6. is_stream
  BY <1>1 DEF RelayInv, Plain
<1>7. (Reading' <=> Reading) /\ (Fits' <=> Fits) /\ Due' = Due
  BY <1>2 DEF Reading, Fits, Due
<1>8. StreamOK => StreamOK'
  BY <1>2, <1>4, <1>7 DEF StreamOK, InOrder, Emptied, EndComes, Whole
<1> QED BY <1>2, <1>5, <1>6, <1>8 DEF RelayInv

(* Of what was on its way, the client that leaves sees nothing more.       *)
LEMMA SeenCut ==
    ASSUME NEW g \in Seq(Chunk), NEW b \in Seq(Chunk)
    PROVE  /\ NoDone(g \o b) => NoDone(g \o <<>>)
           /\ DoneLast(g \o b) => DoneLast(g \o <<>>)
           /\ On(g \o <<>>, "text") => On(g \o b, "text")
<1>1. g \o <<>> = g /\ Len(g) \in Nat /\ Len(b) \in Nat
  BY ConcatEmptySeq, LenProperties
<1>2. PICK s : s = g \o b
  OBVIOUS
<1>3. Len(s) = Len(g) + Len(b) /\ \A i \in 1 .. Len(g) : s[i] = g[i]
  BY <1>2, ConcatProperties
<1>4. \A i \in 1 .. Len(g) : i \in 1 .. Len(s)
  BY <1>1, <1>3
<1>5. \A i \in 1 .. Len(g) - 1 : i \in 1 .. Len(g) /\ i \in 1 .. Len(s) - 1
  BY <1>1, <1>3
<1>6. NoDone(s) => NoDone(g)
  BY <1>3, <1>4 DEF NoDone
<1>7. DoneLast(s) => DoneLast(g)
  BY <1>3, <1>5 DEF DoneLast
<1>8. On(g, "text") => On(s, "text")
  BY <1>3, <1>4 DEF On
<1> QED BY <1>1, <1>2, <1>6, <1>7, <1>8

LEMMA ClientLeavesKeeps ==
    ASSUME RelayInv, ClientLeaves
    PROVE  RelayInv'
<1>1. /\ client' = "gone" /\ body' = <<>>
      /\ reader' = IF is_stream THEN reader ELSE "done"
      /\ UNCHANGED <<is_stream, handler, got, flow, sent_any, finished, offered>>
  BY DEF ClientLeaves
<1>2. UNCHANGED <<is_stream, handler, got, parser, st, evs, emitted, wire, document, answers,
                  over, chan, sent_any, finished, offered>>
  BY <1>1 DEF flow, upstream
<1>3. /\ RelayTypeOK /\ got \in Seq(Chunk) /\ body \in Seq(Chunk) /\ BODY_CAP \in Nat
      /\ <<>> \in Seq(Chunk) /\ Len(<<>>) = 0
  BY RelayConstants, EmptySeq DEF RelayInv, Bounded, RelayTypeOK
<1>4. Bounded'
  BY <1>1, <1>2, <1>3 DEF RelayInv, Bounded, RelayTypeOK, Known
<1>5. (~is_stream => Plain)'
  BY <1>1, <1>2 DEF RelayInv, Plain
<1>6. ASSUME is_stream PROVE StreamOK'
  <2>1. StreamOK /\ reader' = reader /\ (Reading' <=> Reading) /\ ~Fits'
    BY <1>1, <1>6 DEF RelayInv, Reading, Fits
  <2>2. /\ NoDone(Seen) => NoDone(Seen')
        /\ DoneLast(Seen) => DoneLast(Seen')
        /\ On(Seen', "text") => On(Seen, "text")
    BY <1>1, <1>2, <1>3, SeenCut DEF Seen
  <2>3. InOrder' /\ Emptied' /\ EndComes'
    BY <1>2, <2>1, <2>2 DEF StreamOK, InOrder, Emptied, EndComes
  <2> QED BY <2>1, <2>3 DEF StreamOK
<1> QED BY <1>2, <1>4, <1>5, <1>6 DEF RelayInv

-----------------------------------------------------------------------------
LEMMA RelayInvKept ==
    ASSUME RelayInv, [RelayNext]_relayVars
    PROVE  RelayInv'
<1>1. CASE Parser
  BY <1>1, ParseKeeps, SentKeeps, ParseEndsKeeps DEF Parser
<1>2. CASE Reader
  BY <1>2, StreamStartsKeeps, StreamRelaysKeeps, ChannelClosesKeeps, StreamClosedKeeps,
     AggregateKeeps DEF Reader
<1>3. CASE Returns
  BY <1>3, ReturnsKeeps
<1>4. CASE ClientReads
  BY <1>4, ClientReadsKeeps
<1>5. CASE ClientLeaves
  BY <1>5, ClientLeavesKeeps
<1>6. CASE UNCHANGED relayVars
  <2>1. UNCHANGED <<parser, st, evs, emitted, wire, document, answers, over, chan, reader,
                    sent_any, finished, body, offered, is_stream, handler, client, got>>
    BY <1>6 DEF relayVars
  <2>2. Bounded'
    BY <2>1 DEF RelayInv, Bounded, RelayTypeOK, Known
  <2>3. Seen' = Seen /\ (Reading' <=> Reading) /\ (Fits' <=> Fits) /\ Due' = Due
    BY <2>1 DEF Seen, Reading, Fits, Due
  <2>4. (StreamOK => StreamOK') /\ (Plain => Plain')
    BY <2>1, <2>3 DEF StreamOK, InOrder, Emptied, EndComes, Whole, Plain
  <2> QED BY <2>1, <2>2, <2>4 DEF RelayInv
<1> QED BY <1>1, <1>2, <1>3, <1>4, <1>5, <1>6 DEF RelayNext

THEOREM RelayInvariant == RelaySpec => []RelayInv
<1> QED BY RelayInitially, RelayInvKept, PTL DEF RelaySpec

(* Every variable of the relay keeps its type, both channels stay within   *)
(* their capacities, and every piece of the answer is counted once at most *)
(* for each event of the upstream.                                         *)
THEOREM RelayTypeCorrect == RelaySpec => []RelayTypeOK
<1>1. RelayInv => RelayTypeOK
  BY DEF RelayInv, Bounded
<1> QED BY <1>1, RelayInvariant, PTL

(* Whatever the upstream writes, however the two channels fill up and      *)
(* whenever the client leaves, [DONE] comes once at most and nothing       *)
(* follows it.                                                             *)
THEOREM DoneIsLast == RelaySpec => []DoneOnceAndLast
<1>1. ASSUME RelayInv PROVE DoneOnceAndLast
  <2>1. CASE is_stream
    BY <1>1, <2>1 DEF RelayInv, StreamOK, InOrder, DoneLast, Seen, DoneOnceAndLast
  <2>2. CASE ~is_stream
    <3>1. got = <<>> /\ body = <<>>
      BY <1>1, <2>2 DEF RelayInv, Plain
    <3>2. got \o body = <<>> /\ Len(<<>>) = 0
      <4>1. <<>> \o <<>> = <<>>
        OBVIOUS
      <4> QED BY <3>1, <4>1, EmptySeq
    <3> QED BY <3>2 DEF DoneOnceAndLast
  <2> QED BY <2>1, <2>2
<1> QED BY <1>1, RelayInvariant, PTL

(* A stream that fits the body channel, of a client that stays, arrives    *)
(* whole: as many pieces as the upstream wrote of its answer, in whichever *)
(* patches it wrote them, and [DONE] at the end if there was any.          *)
THEOREM ShortStreamsArrive == RelaySpec => []ShortStreamsComplete
<1>1. ASSUME RelayInv PROVE ShortStreamsComplete
  <2> SUFFICES ASSUME ReadToTheEnd, offered <= BODY_CAP
               PROVE  /\ Len(got) = offered
                      /\ Texts(got) > 0 => got[Len(got)] = "done"
                      /\ Texts(got) = answers
    BY DEF ShortStreamsComplete
  <2>1. is_stream /\ client = "there" /\ reader = "done" /\ body = <<>>
    BY DEF ReadToTheEnd
  <2>2. got \in Seq(Chunk) /\ StreamOK /\ Fits
    BY <1>1, <2>1 DEF RelayInv, Bounded, RelayTypeOK, Fits
  <2>3. Seen = got
    BY <2>1, <2>2, ConcatEmptySeq DEF Seen
  <2>4. Whole /\ ~Reading
    BY <2>1, <2>2 DEF StreamOK, Reading
  <2>5. Len(got) = offered /\ Copies(got, "text") = answers
    BY <2>3, <2>4 DEF Whole
  <2>6. Texts(got) = Copies(got, "text")
    BY DEF Texts, Copies
  <2>7. Copies(got, "text") > 0 => got[Len(got)] = "done"
    <3> SUFFICES ASSUME Copies(got, "text") > 0 PROVE got[Len(got)] = "done"
      OBVIOUS
    <3>1. On(got, "text")
      <4>1. ~On(got, "text") => Copies(got, "text") = 0
        BY <2>2, CopiesType
      <4> QED BY <4>1
    <3>2. sent_any
      BY <2>2, <2>3, <3>1 DEF StreamOK, InOrder
    <3> QED BY <2>1, <2>3, <2>4, <3>2 DEF Whole, EndsDone
  <2> QED BY <2>5, <2>6, <2>7
<1> QED BY <1>1, RelayInvariant, PTL

-----------------------------------------------------------------------------
(***************************************************************************)
(* Tunnel.                                                                 *)
(***************************************************************************)
ClientFrame == [cmd : {"CONNECT", "DATA", "CLOSE"}, conn : Conn]
ServerFrame == [cmd : {"OK", "FAIL", "DATA", "CLOSE"}, conn : Conn]
Socket == [at : {"none", "method", "greeted", "picked", "asking", "wait", "relay", "done"},
           tun : Tun \cup {NoTun}, event : BOOLEAN, reset : BOOLEAN]

Commands == {"CONNECT", "OK", "FAIL", "DATA", "CLOSE"}

(* Frames of connection c on a wire, and their order.                      *)
Carries(s, cmd, c) == On(s, Frame(cmd, c))
OkLeads(s, c) == Leads(s, Frame("OK", c), Frame("DATA", c))
CloseTrails(s, c) == Trails(s, Frame("CLOSE", c), Frame("DATA", c))
AsksOnce(s, c) == Once(s, Frame("CONNECT", c))

TunnelTypes ==
    /\ link \in [Tun -> {"off", "auth", "up", "broken", "closed"}]
    /\ toClient \in [Tun -> Seq(ClientFrame)]
    /\ toServer \in [Tun -> Seq(ServerFrame)]
    /\ pending \in [Tun -> SUBSET Conn]
    /\ streams \in [Tun -> SUBSET Conn]
    /\ sock \in [Conn -> Socket]
    /\ opening \in [Tun -> Conn \cup {NoConn}]
    /\ targets \in [Tun -> SUBSET Conn]
    /\ target \in [Conn -> {"none", "open", "shut", "ended", "reset"}]
    /\ down \in [Conn -> [sent : 0 .. MAX_DATA, got : Nat]]
    /\ up \in [Conn -> [sent : 0 .. MAX_DATA, got : Nat]]

(* Where the link is down nothing is under way.                            *)
LinkOK(t) ==
    link[t] # "up" => /\ toClient[t] = <<>> /\ toServer[t] = <<>>
                      /\ opening[t] = NoConn /\ targets[t] = {}

Before == {"none", "method", "greeted"}
Unasked == Before \cup {"picked", "asking"}

(* A handler has its tunnel once it has picked it, its target once it has  *)
(* asked for it, and data once it relays.                                  *)
ConnOK(c) ==
    /\ sock[c].at \in Before => sock[c].tun = NoTun
    /\ sock[c].at \in Before \cup {"picked"} => ~sock[c].event
    /\ sock[c].at \in {"picked", "asking", "wait", "relay"} => sock[c].tun \in Tun
    /\ target[c] # "none" => sock[c].at \notin Unasked /\ sock[c].tun \in Tun
    /\ target[c] = "none" => down[c].sent = 0
    /\ sock[c].at \notin {"relay", "done"} => up[c].sent = 0
    /\ sock[c].at = "relay" => sock[c].event /\ target[c] # "none"
    /\ sock[c].tun \notin Tun => down[c].got = 0 /\ up[c].got = 0

(* A tunnel that is not its own knows nothing of a connection.             *)
Clean(c, t) ==
    /\ \A x \in Commands : ~Carries(toClient[t], x, c) /\ ~Carries(toServer[t], x, c)
    /\ opening[t] # c
    /\ c \notin pending[t] /\ c \notin streams[t] /\ c \notin targets[t]

(* The request to connect is sent once and answered once.                  *)
Asked(c, t) ==
    /\ Carries(toClient[t], "CONNECT", c) => AsksOnce(toClient[t], c) /\ opening[t] # c
    /\ Carries(toClient[t], "CONNECT", c) \/ opening[t] = c =>
          /\ sock[c].at \notin Unasked /\ ~sock[c].event
          /\ target[c] = "none"
          /\ ~Carries(toServer[t], "FAIL", c)
    /\ Carries(toServer[t], "FAIL", c) => sock[c].at \notin Unasked /\ target[c] = "none"

(* The target that a frame of the client's side speaks for, and its table. *)
Targeted(c, t) ==
    /\ \A x \in {"OK", "DATA", "CLOSE"} : Carries(toServer[t], x, c) => target[c] # "none"
    /\ Carries(toServer[t], "CLOSE", c) => target[c] = "ended"
    /\ CloseTrails(toServer[t], c)
    /\ c \in streams[t] => target[c] # "none"
    /\ link[t] = "up" /\ target[c] = "open" => c \in targets[t]

(* The server's tables, from the registration to the end of the stream: a  *)
(* frame of data finds its stream, because the answer was ahead of it.     *)
Tabled(c, t) ==
    /\ c \in pending[t] =>
          /\ sock[c].at \in {"asking", "wait", "done"} /\ ~sock[c].event
          /\ c \notin streams[t]
    /\ c \in pending[t] /\ target[c] # "none" /\ link[t] = "up" => OkLeads(toServer[t], c)
    /\ link[t] = "up" =>
          /\ sock[c].at \in {"asking", "wait"} => c \in pending[t] \/ sock[c].event
          /\ sock[c].at = "asking" => ~sock[c].event
          /\ sock[c].at \in {"wait", "relay"} /\ sock[c].event /\ target[c] # "none" =>
                c \in streams[t] \/ (target[c] = "ended" /\ ~Carries(toServer[t], "DATA", c))

(* No frame is doubled, whatever becomes of the link, ...                  *)
NotDoubled(c, t) ==
    /\ down[c].got + OnWire(toServer, t, c) <= down[c].sent
    /\ up[c].got + OnWire(toClient, t, c) <= up[c].sent

(* ... and none is lost while it holds.                                    *)
NotLost(c, t) ==
    (sock[c].at \in {"wait", "relay"} /\ link[t] = "up") =>
        /\ target[c] # "none" /\ (sock[c].at = "relay" \/ c \in pending[t] \/ sock[c].event) =>
              down[c].got + OnWire(toServer, t, c) = down[c].sent
        /\ target[c] = "open" => up[c].got + OnWire(toClient, t, c) = up[c].sent

Proper(c, t) ==
    /\ link[t] \in {"up", "broken", "closed"}
    /\ Asked(c, t) /\ Targeted(c, t) /\ Tabled(c, t)
    /\ NotDoubled(c, t) /\ NotLost(c, t)

TunnelInv ==
    /\ TunnelTypes
    /\ \A t \in Tun : LinkOK(t)
    /\ \A c \in Conn : ConnOK(c)
    /\ \A c \in Conn, t \in Tun : IF t = ThisTun(c) THEN Proper(c, t) ELSE Clean(c, t)

-----------------------------------------------------------------------------

(* The frames of connection d on a wire of tunnel u, and their order, are  *)
(* what they were.                                                         *)
Kept(w, new, u, d) ==
    /\ \A x \in Commands : Carries(new[u], x, d) <=> Carries(w[u], x, d)
    /\ OnWire(new, u, d) = OnWire(w, u, d)
    /\ OkLeads(w[u], d) => OkLeads(new[u], d)
    /\ CloseTrails(w[u], d) => CloseTrails(new[u], d)
    /\ AsksOnce(w[u], d) => AsksOnce(new[u], d)

(* What becomes of the wires of one direction when a frame is sent, ...    *)
FrameSent(w, new, t, cmd, c) ==
    /\ link[t] # "up" => new = w
    /\ \A u \in Tun \ {t} : new[u] = w[u]
    /\ \A u \in Tun, d \in Conn : u # t \/ d # c => Kept(w, new, u, d)
    /\ link[t] = "up" =>
          /\ \A x \in Commands : Carries(new[t], x, c) <=> Carries(w[t], x, c) \/ x = cmd
          /\ OnWire(new, t, c) = IF cmd = "DATA" THEN OnWire(w, t, c) + 1
                                 ELSE OnWire(w, t, c)
          /\ OkLeads(w[t], c) \/ (cmd = "OK" /\ ~Carries(w[t], "DATA", c))
                => OkLeads(new[t], c)
          /\ CloseTrails(w[t], c) /\ (cmd = "DATA" => ~Carries(w[t], "CLOSE", c))
                => CloseTrails(new[t], c)
          /\ AsksOnce(w[t], c) /\ cmd # "CONNECT" => AsksOnce(new[t], c)
          /\ ~Carries(w[t], "CONNECT", c) => AsksOnce(new[t], c)

(* ... when the first one is read ...                                      *)
FrameRead(w, new, t, cmd, c) ==
    /\ w[t] # <<>>
    /\ \A u \in Tun \ {t} : new[u] = w[u]
    /\ \A u \in Tun, d \in Conn : u # t \/ d # c => Kept(w, new, u, d)
    /\ Carries(w[t], cmd, c)
    /\ \A x \in Commands : /\ Carries(new[t], x, c) => Carries(w[t], x, c)
                           /\ x # cmd /\ Carries(w[t], x, c) => Carries(new[t], x, c)
    /\ OnWire(w, t, c) = IF cmd = "DATA" THEN OnWire(new, t, c) + 1 ELSE OnWire(new, t, c)
    /\ OkLeads(w[t], c) /\ cmd # "OK" => OkLeads(new[t], c)
    /\ OkLeads(w[t], c) => cmd # "DATA"
    /\ CloseTrails(w[t], c) => CloseTrails(new[t], c)
    /\ CloseTrails(w[t], c) /\ cmd = "CLOSE" => ~Carries(new[t], "DATA", c)
    /\ AsksOnce(w[t], c) => AsksOnce(new[t], c)
    /\ AsksOnce(w[t], c) /\ cmd = "CONNECT" => ~Carries(new[t], "CONNECT", c)

(* ... and when a link breaks.                                             *)
WireLost(w, new, t) ==
    /\ new[t] = <<>>
    /\ \A u \in Tun \ {t} : new[u] = w[u]
    /\ \A u \in Tun, d \in Conn : u # t => Kept(w, new, u, d)
    /\ \A d \in Conn :
          /\ \A x \in Commands : ~Carries(new[t], x, d)
          /\ OnWire(new, t, d) = 0
          /\ CloseTrails(new[t], d)

(* A frame is its command and its connection.                              *)
LEMMA FramesDiffer ==
    \A x, y, c, d : Frame(x, c) = Frame(y, d) <=> x = y /\ c = d
BY DEF Frame

(* What OnWire counts are frames of data, ...                              *)
LEMMA OnWireCounts ==
    \A w, t, c : OnWire(w, t, c) = Copies(w[t], Frame("DATA", c))
BY DEF OnWire, Copies

(* ... of which there are a natural number.                                *)
LEMMA OnWireType ==
    ASSUME NEW F, NEW w \in [Tun -> Seq(F)], NEW t \in Tun, NEW c
    PROVE  OnWire(w, t, c) \in Nat
<1>1. w[t] \in Seq(F)
  OBVIOUS
<1>2. Copies(w[t], Frame("DATA", c)) \in Nat
  BY <1>1, CopiesType
<1> QED BY <1>2, OnWireCounts

(* The same sequence of frames.                                            *)
LEMMA Keeping ==
    ASSUME NEW w, NEW new, NEW u, new[u] = w[u], NEW d
    PROVE  Kept(w, new, u, d)
BY DEF Kept, OnWire

(* A frame that is sent is the last on its wire, if the link is up.        *)
LEMMA Sending ==
    ASSUME NEW F, NEW w \in [Tun -> Seq(F)], NEW t \in Tun, NEW cmd, NEW c,
           Frame(cmd, c) \in F,
           NEW new, new = Send(w, t, cmd, c)
    PROVE  new \in [Tun -> Seq(F)] /\ FrameSent(w, new, t, cmd, c)
<1> DEFINE e == Frame(cmd, c)
           s == w[t]
<1>1. CASE link[t] # "up"
  <2>1. new = w
    BY <1>1 DEF Send
  <2> QED BY <1>1, <2>1, Keeping DEF FrameSent
<1>2. CASE link[t] = "up"
  <2>1. s \in Seq(F) /\ e \in F
    OBVIOUS
  <2>2. /\ Append(s, e) \in Seq(F)
        /\ \A f : On(Append(s, e), f) <=> On(s, f) \/ f = e
        /\ \A f : Copies(Append(s, e), f) = Copies(s, f) + (IF f = e THEN 1 ELSE 0)
    <3> HIDE DEF e, s
    <3> QED BY <2>1, AppendFrames
  <2>3. \A f, g : f # g =>
           /\ Leads(s, f, g) => Leads(Append(s, e), f, g)
           /\ e = f /\ ~On(s, g) => Leads(Append(s, e), f, g)
           /\ Trails(s, f, g) /\ (e = g => ~On(s, f)) => Trails(Append(s, e), f, g)
           /\ Once(s, f) /\ (e = f => ~On(s, f)) => Once(Append(s, e), f)
    <3> HIDE DEF e, s
    <3> QED BY <2>1, AppendOrder
  <2>4. \A f : ~On(s, f) => Once(s, f)
    BY DEF Once, On
  <2>5. /\ new \in [Tun -> Seq(F)] /\ new[t] = Append(s, e) /\ w[t] = s
        /\ \A u \in Tun \ {t} : new[u] = w[u]
    BY <1>2, <2>2 DEF Send
  <2> HIDE DEF s
  <2>6. ASSUME NEW d
        PROVE  /\ \A x \in Commands : Carries(new[t], x, d) <=>
                                          Carries(w[t], x, d) \/ (x = cmd /\ d = c)
               /\ OkLeads(w[t], d) => OkLeads(new[t], d)
               /\ cmd = "OK" /\ d = c /\ ~Carries(w[t], "DATA", d) => OkLeads(new[t], d)
               /\ /\ CloseTrails(w[t], d)
                  /\ cmd = "DATA" /\ d = c => ~Carries(w[t], "CLOSE", d)
                  => CloseTrails(new[t], d)
               /\ AsksOnce(w[t], d) /\ ~(cmd = "CONNECT" /\ d = c) => AsksOnce(new[t], d)
               /\ ~Carries(w[t], "CONNECT", d) => AsksOnce(new[t], d)
    <3>1. \A x : Frame(x, d) = e <=> x = cmd /\ d = c
      BY FramesDiffer
    <3>2. /\ Frame("OK", d) # Frame("DATA", d) /\ Frame("CLOSE", d) # Frame("DATA", d)
          /\ Frame("CONNECT", d) # Frame("DATA", d)
      BY FramesDiffer
    <3> HIDE DEF e
    <3>3. \A x \in Commands : Carries(new[t], x, d) <=>
                                 Carries(w[t], x, d) \/ (x = cmd /\ d = c)
      BY <2>2, <2>5, <3>1 DEF Carries
    <3>4. /\ OkLeads(w[t], d) => OkLeads(new[t], d)
          /\ cmd = "OK" /\ d = c /\ ~Carries(w[t], "DATA", d) => OkLeads(new[t], d)
      BY <2>3, <2>5, <3>1, <3>2 DEF Carries, OkLeads
    <3>5. /\ CloseTrails(w[t], d)
          /\ cmd = "DATA" /\ d = c => ~Carries(w[t], "CLOSE", d)
          => CloseTrails(new[t], d)
      BY <2>3, <2>5, <3>1, <3>2 DEF Carries, CloseTrails
    <3>6. /\ AsksOnce(w[t], d) /\ ~(cmd = "CONNECT" /\ d = c) => AsksOnce(new[t], d)
          /\ ~Carries(w[t], "CONNECT", d) => AsksOnce(new[t], d)
      <4> DEFINE f == Frame("CONNECT", d)
      <4>1. Once(s, f) /\ (e = f => ~On(s, f)) => Once(Append(s, e), f)
        <5> HIDE DEF f
        <5> QED BY <2>3, <3>2 DEF f
      <4>2. (~On(s, f) => Once(s, f)) /\ (f = e <=> cmd = "CONNECT" /\ d = c)
        BY <2>4, <3>1
      <4>3. /\ (AsksOnce(w[t], d) <=> Once(s, f)) /\ (Carries(w[t], "CONNECT", d) <=> On(s, f))
            /\ (AsksOnce(new[t], d) <=> Once(Append(s, e), f))
        BY <2>5 DEF Carries, AsksOnce
      <4> HIDE DEF f
      <4> QED BY <4>1, <4>2, <4>3
    <3> QED BY <3>3, <3>4, <3>5, <3>6
  <2>7. ASSUME NEW d
        PROVE  OnWire(new, t, d) = OnWire(w, t, d) + (IF cmd = "DATA" /\ d = c THEN 1 ELSE 0)
    <3>1. Frame("DATA", d) = e <=> cmd = "DATA" /\ d = c
      BY FramesDiffer
    <3> HIDE DEF e
    <3>2. Copies(new[t], Frame("DATA", d)) =
             Copies(w[t], Frame("DATA", d)) + (IF Frame("DATA", d) = e THEN 1 ELSE 0)
      BY <2>2, <2>5
    <3> QED BY <3>1, <3>2, OnWireCounts
  <2>8. \A d : OnWire(w, t, d) \in Nat
    BY CopiesType, OnWireCounts
  <2>9. ASSUME NEW d \in Conn, d # c PROVE Kept(w, new, t, d)
    <3>1. OnWire(new, t, d) = OnWire(w, t, d)
      BY <2>7, <2>8, <2>9
    <3> QED BY <2>6, <2>9, <3>1 DEF Kept
  <2>10. ASSUME NEW u \in Tun, u # t, NEW d PROVE Kept(w, new, u, d)
    BY <2>5, <2>10, Keeping
  <2> HIDE DEF e
  <2>11. OnWire(new, t, c) = IF cmd = "DATA" THEN OnWire(w, t, c) + 1 ELSE OnWire(w, t, c)
    BY <2>7, <2>8
  <2> QED BY <1>2, <2>5, <2>6, <2>9, <2>10, <2>11 DEF FrameSent
<1> QED BY <1>1, <1>2

(* A frame that is read was the first on its wire.                         *)
LEMMA Receiving ==
    ASSUME NEW F, NEW w \in [Tun -> Seq(F)], NEW t \in Tun, NEW cmd, NEW c,
           Receives(w, t, cmd, c),
           NEW new, new = Consume(w, t)
    PROVE  new \in [Tun -> Seq(F)] /\ FrameRead(w, new, t, cmd, c)
<1> DEFINE e == Frame(cmd, c)
           s == w[t]
<1>1. s \in Seq(F) /\ s # <<>> /\ Head(s) = e
  BY DEF Receives
<1>2. /\ Tail(s) \in Seq(F) /\ On(s, e)
      /\ \A f : On(Tail(s), f) => On(s, f)
      /\ \A f : f # e /\ On(s, f) => On(Tail(s), f)
      /\ \A f : Copies(Tail(s), f) + (IF f = e THEN 1 ELSE 0) = Copies(s, f)
  <2> HIDE DEF e, s
  <2> QED BY <1>1, TailFrames
<1>3. \A f, g : f # g =>
         /\ Leads(s, f, g) => e # g
         /\ Leads(s, f, g) /\ e # f => Leads(Tail(s), f, g)
         /\ Trails(s, f, g) => Trails(Tail(s), f, g)
         /\ Trails(s, f, g) /\ e = f => ~On(Tail(s), g)
         /\ Once(s, f) => Once(Tail(s), f)
         /\ Once(s, f) /\ e = f => ~On(Tail(s), f)
  <2> HIDE DEF e, s
  <2> QED BY <1>1, TailOrder
<1>4. /\ new \in [Tun -> Seq(F)] /\ new[t] = Tail(s) /\ w[t] = s
      /\ \A u \in Tun \ {t} : new[u] = w[u]
  BY <1>2 DEF Consume
<1>5. w[t] # <<>> /\ Carries(w[t], cmd, c)
  BY <1>1, <1>2 DEF Carries
<1> HIDE DEF s
<1>6. ASSUME NEW d
      PROVE  /\ \A x \in Commands :
                   /\ Carries(new[t], x, d) => Carries(w[t], x, d)
                   /\ ~(x = cmd /\ d = c) /\ Carries(w[t], x, d) => Carries(new[t], x, d)
             /\ OkLeads(w[t], d) /\ ~(cmd = "OK" /\ d = c) => OkLeads(new[t], d)
             /\ OkLeads(w[t], d) => ~(cmd = "DATA" /\ d = c)
             /\ CloseTrails(w[t], d) => CloseTrails(new[t], d)
             /\ CloseTrails(w[t], d) /\ cmd = "CLOSE" /\ d = c
                   => ~Carries(new[t], "DATA", d)
             /\ AsksOnce(w[t], d) => AsksOnce(new[t], d)
             /\ AsksOnce(w[t], d) /\ cmd = "CONNECT" /\ d = c
                   => ~Carries(new[t], "CONNECT", d)
  <2>1. \A x : Frame(x, d) = e <=> x = cmd /\ d = c
    BY FramesDiffer
  <2>2. /\ Frame("OK", d) # Frame("DATA", d) /\ Frame("CLOSE", d) # Frame("DATA", d)
        /\ Frame("CONNECT", d) # Frame("DATA", d)
    BY FramesDiffer
  <2> HIDE DEF e
  <2>3. \A x \in Commands :
           /\ Carries(new[t], x, d) => Carries(w[t], x, d)
           /\ ~(x = cmd /\ d = c) /\ Carries(w[t], x, d) => Carries(new[t], x, d)
    BY <1>2, <1>4, <2>1 DEF Carries
  <2>4. /\ OkLeads(w[t], d) /\ ~(cmd = "OK" /\ d = c) => OkLeads(new[t], d)
        /\ OkLeads(w[t], d) => ~(cmd = "DATA" /\ d = c)
    BY <1>3, <1>4, <2>1, <2>2 DEF OkLeads
  <2>5. /\ CloseTrails(w[t], d) => CloseTrails(new[t], d)
        /\ CloseTrails(w[t], d) /\ cmd = "CLOSE" /\ d = c => ~Carries(new[t], "DATA", d)
    BY <1>3, <1>4, <2>1, <2>2 DEF Carries, CloseTrails
  <2>6. /\ AsksOnce(w[t], d) => AsksOnce(new[t], d)
        /\ AsksOnce(w[t], d) /\ cmd = "CONNECT" /\ d = c => ~Carries(new[t], "CONNECT", d)
    BY <1>3, <1>4, <2>1, <2>2 DEF Carries, AsksOnce
  <2> QED BY <2>3, <2>4, <2>5, <2>6
<1>7. ASSUME NEW d
      PROVE  /\ OnWire(w, t, d) = OnWire(new, t, d)
                                        + (IF cmd = "DATA" /\ d = c THEN 1 ELSE 0)
             /\ OnWire(new, t, d) \in Nat
  <2>1. Frame("DATA", d) = e <=> cmd = "DATA" /\ d = c
    BY FramesDiffer
  <2> HIDE DEF e
  <2>2. Copies(w[t], Frame("DATA", d)) =
           Copies(new[t], Frame("DATA", d)) + (IF Frame("DATA", d) = e THEN 1 ELSE 0)
    BY <1>2, <1>4
  <2>3. OnWire(new, t, d) \in Nat
    BY <1>4, CopiesType, OnWireCounts
  <2> QED BY <2>1, <2>2, <2>3, OnWireCounts
<1>8. ASSUME NEW d \in Conn, d # c PROVE Kept(w, new, t, d)
  <2>1. OnWire(new, t, d) = OnWire(w, t, d)
    BY <1>7, <1>8
  <2> QED BY <1>6, <1>8, <2>1 DEF Kept
<1>9. ASSUME NEW u \in Tun, u # t, NEW d PROVE Kept(w, new, u, d)
  BY <1>4, <1>9, Keeping
<1> HIDE DEF e
<1>10. OnWire(w, t, c) = IF cmd = "DATA" THEN OnWire(new, t, c) + 1 ELSE OnWire(new, t, c)
  BY <1>7
<1> QED BY <1>4, <1>5, <1>6, <1>8, <1>9, <1>10 DEF FrameRead

(* The frames of a wire that breaks are lost.                              *)
LEMMA Emptying ==
    ASSUME NEW F, NEW w \in [Tun -> Seq(F)], NEW t \in Tun,
           NEW new, new = [w EXCEPT ![t] = <<>>]
    PROVE  new \in [Tun -> Seq(F)] /\ WireLost(w, new, t)
<1>1. new \in [Tun -> Seq(F)] /\ new[t] = <<>> /\ \A u \in Tun \ {t} : new[u] = w[u]
  BY EmptySeq
<1>2. ASSUME NEW u \in Tun, u # t, NEW d PROVE Kept(w, new, u, d)
  BY <1>1, <1>2, Keeping
<1>3. \A d : /\ \A x : ~Carries(new[t], x, d)
             /\ OnWire(new, t, d) = 0
             /\ CloseTrails(new[t], d)
  BY <1>1, EmptyWire, OnWireCounts DEF Carries, CloseTrails
<1> QED BY <1>1, <1>2, <1>3 DEF WireLost

-----------------------------------------------------------------------------
(* What a step leaves alone.                                               *)
FramesKept(d, u) == Kept(toClient, toClient', u, d) /\ Kept(toServer, toServer', u, d)
TablesKept(d, u) ==
    /\ opening'[u] = d <=> opening[u] = d
    /\ d \in pending'[u] <=> d \in pending[u]
    /\ d \in streams'[u] <=> d \in streams[u]
    /\ d \in targets'[u] <=> d \in targets[u]
ConnKept(d) ==
    sock'[d] = sock[d] /\ target'[d] = target[d] /\ down'[d] = down[d] /\ up'[d] = up[d]

(* A tunnel still knows nothing of a connection, ...                       *)
LEMMA CleanKept ==
    ASSUME NEW d, NEW u, Clean(d, u), FramesKept(d, u), TablesKept(d, u)
    PROVE  Clean(d, u)'
BY DEF Clean, FramesKept, Kept, TablesKept

(* ... or still knows what it should, ...                                  *)
LEMMA ProperKept ==
    ASSUME NEW d, NEW u, Proper(d, u), FramesKept(d, u), TablesKept(d, u), ConnKept(d),
           link'[u] = link[u]
    PROVE  Proper(d, u)'
<1> USE DEF Proper, FramesKept, TablesKept, ConnKept
<1> USE DEF Commands, Kept
<1>1. Asked(d, u)'
  BY DEF Asked
<1>2. Targeted(d, u)'
  BY DEF Targeted
<1>3. Tabled(d, u)'
  BY DEF Tabled
<1>4. NotDoubled(d, u)' /\ NotLost(d, u)'
  BY DEF NotDoubled, NotLost
<1> QED BY <1>1, <1>2, <1>3, <1>4

(* ... as the handler is where it was.                                     *)
LEMMA ConnOKKept ==
    ASSUME NEW d, ConnOK(d), ConnKept(d)
    PROVE  ConnOK(d)'
BY DEF ConnOK, ConnKept

(* A step of one connection, in its tunnel.                                *)
LEMMA OneConnection ==
    ASSUME TunnelInv, NEW c \in Conn, NEW t, t = ThisTun(c),
           TunnelTypes', \A u \in Tun : LinkOK(u)',
           link' = link, sock'[c].tun = sock[c].tun,
           \A d \in Conn \ {c} : ConnKept(d),
           \A d \in Conn, u \in Tun :
              d # c \/ u # t => FramesKept(d, u) /\ TablesKept(d, u),
           ConnOK(c)',
           t \in Tun => Proper(c, t)'
    PROVE  TunnelInv'
<1>1. ASSUME NEW d \in Conn PROVE ConnOK(d)'
  BY ConnOKKept DEF TunnelInv
<1>2. ASSUME NEW d \in Conn, NEW u \in Tun
      PROVE  (IF u = ThisTun(d) THEN Proper(d, u) ELSE Clean(d, u))'
  <2>1. ThisTun(d)' = ThisTun(d)
    BY DEF ConnKept, ThisTun
  <2>2. CASE u = ThisTun(d) /\ d # c
    BY <2>1, <2>2, ProperKept DEF TunnelInv
  <2>3. CASE u # ThisTun(d)
    BY <2>1, <2>3, CleanKept DEF TunnelInv
  <2>4. CASE u = ThisTun(d) /\ d = c
    BY <2>1, <2>4
  <2> QED BY <2>2, <2>3, <2>4
<1> QED BY <1>1, <1>2 DEF TunnelInv

(* The socket of a handler that goes on.                                   *)
HandlerPlaces == {"none", "method", "greeted", "picked", "asking", "wait", "relay", "done"}
LEMMA SockMoves ==
    ASSUME TunnelTypes, NEW c \in Conn, NEW p \in HandlerPlaces, sock' = SockAt(c, p)
    PROVE  /\ sock' \in [Conn -> Socket]
           /\ sock'[c].at = p /\ sock'[c].tun = sock[c].tun
           /\ sock'[c].event = sock[c].event /\ sock'[c].reset = sock[c].reset
           /\ \A d \in Conn \ {c} : sock'[d] = sock[d]
<1> DEFINE k == [sock[c] EXCEPT !.at = p]
<1>1. sock \in [Conn -> Socket] /\ sock[c] \in Socket
  BY DEF TunnelTypes
<1>2. /\ k \in Socket /\ k.at = p /\ k.tun = sock[c].tun
      /\ k.event = sock[c].event /\ k.reset = sock[c].reset
  BY <1>1 DEF Socket, HandlerPlaces
<1>3. sock' = [sock EXCEPT ![c] = k]
  BY DEF SockAt
<1> HIDE DEF k
<1> QED BY <1>1, <1>2, <1>3

(* The handler asks for its target, once.                                  *)
LEMMA AskKeeps ==
    ASSUME TunnelInv, NEW c \in Conn, Ask(c)
    PROVE  TunnelInv'
<1> PICK t : t = ThisTun(c)
  OBVIOUS
<1> PICK p : p = IF Alive(t) THEN "wait" ELSE "done"
  OBVIOUS
<1>1. /\ sock[c].at = "asking" /\ toClient' = Send(toClient, t, "CONNECT", c)
      /\ sock' = SockAt(c, p) /\ p \in HandlerPlaces
      /\ UNCHANGED <<link, toServer, pending, streams, opening, targets, target, down, up>>
  BY DEF Ask, clientSide, HandlerPlaces
<1>2. t \in Tun /\ TunnelTypes /\ ConnOK(c) /\ Proper(c, t) /\ LinkOK(t)
  BY <1>1 DEF TunnelInv, ConnOK, ThisTun
<1>3. /\ sock' \in [Conn -> Socket]
      /\ sock'[c].at = p /\ sock'[c].tun = sock[c].tun
      /\ sock'[c].event = sock[c].event
      /\ \A d \in Conn \ {c} : sock'[d] = sock[d]
  BY <1>1, <1>2, SockMoves
<1>4. Frame("CONNECT", c) \in ClientFrame
  BY DEF Frame, ClientFrame
<1>5. toClient' \in [Tun -> Seq(ClientFrame)] /\ FrameSent(toClient, toClient', t, "CONNECT", c)
  BY <1>1, <1>2, <1>4, Sending DEF TunnelTypes
<1>6. TunnelTypes'
  BY <1>1, <1>3, <1>5 DEF TunnelTypes, TunnelInv
<1>7. \A u \in Tun : LinkOK(u)'
  BY <1>1, <1>5 DEF TunnelInv, LinkOK, FrameSent
<1>8. \A d \in Conn \ {c} : ConnKept(d)
  BY <1>1, <1>3 DEF ConnKept
<1>9. \A d \in Conn, u \in Tun :
         d # c \/ u # t => FramesKept(d, u) /\ TablesKept(d, u)
  BY <1>1, <1>5, Keeping DEF FramesKept, TablesKept, FrameSent
<1>10. ConnOK(c)'
  BY <1>1, <1>2, <1>3 DEF ConnOK, Before, Unasked, Alive
<1>11. Proper(c, t)'
  <2> USE DEF FrameSent, Commands, Proper
  <2>1. Asked(c, t)'
    BY <1>1, <1>2, <1>3, <1>5
       DEF Asked, Targeted, Tabled, Unasked, Before, Alive, ConnOK
  <2>2. Targeted(c, t)'
    BY <1>1, <1>2, <1>3, <1>5 DEF Targeted
  <2>3. Tabled(c, t)'
    BY <1>1, <1>2, <1>3, <1>5 DEF Tabled, ConnOK, Unasked
  <2>4. NotDoubled(c, t)'
    BY <1>1, <1>2, <1>3, <1>5 DEF NotDoubled
  <2>5. NotLost(c, t)'
    BY <1>1, <1>2, <1>3, <1>5 DEF NotLost, ConnOK, Unasked
  <2> QED BY <1>1, <1>2, <2>1, <2>2, <2>3, <2>4, <2>5
<1> QED BY <1>1, <1>3, <1>6, <1>7, <1>8, <1>9, <1>10, <1>11, OneConnection

(* A handler reads a request, is refused, or gets its answer.              *)
LEMMA GoesOnKeeps ==
    ASSUME TunnelInv, NEW c \in Conn,
           NEW q \in HandlerPlaces, sock' = SockAt(c, q),
           \/ sock[c].at = "none" /\ q \in {"method", "done"}
           \/ sock[c].at = "method" /\ q \in {"greeted", "done"}
           \/ sock[c].at = "greeted" /\ q = "done"
           \/ /\ sock[c].at = "wait" /\ sock[c].event
              /\ q = IF c \in streams[ThisTun(c)] THEN "relay" ELSE "done",
           UNCHANGED <<link, toClient, toServer, pending, streams, clientSide, down, up>>
    PROVE  TunnelInv'
<1> PICK t : t = ThisTun(c)
  OBVIOUS
<1>1. UNCHANGED <<link, toClient, toServer, pending, streams, opening, targets, target, down, up>>
  BY DEF clientSide
<1>2. TunnelTypes /\ ConnOK(c) /\ (t \in Tun => Proper(c, t))
  BY DEF TunnelInv
<1>3. /\ sock' \in [Conn -> Socket]
      /\ sock'[c].at = q /\ sock'[c].tun = sock[c].tun
      /\ sock'[c].event = sock[c].event
      /\ \A d \in Conn \ {c} : sock'[d] = sock[d]
  BY <1>1, <1>2, SockMoves
<1>4. TunnelTypes'
  BY <1>1, <1>2, <1>3 DEF TunnelTypes
<1>5. \A u \in Tun : LinkOK(u)'
  BY <1>1 DEF TunnelInv, LinkOK
<1>6. \A d \in Conn \ {c} : ConnKept(d)
  BY <1>1, <1>3 DEF ConnKept
<1>7. \A d \in Conn, u \in Tun : FramesKept(d, u) /\ TablesKept(d, u)
  BY <1>1, Keeping DEF FramesKept, TablesKept
<1>8. ASSUME t \in Tun PROVE Targeted(c, t)
  BY <1>2, <1>8 DEF Proper
<1>9. ConnOK(c)'
  BY <1>1, <1>2, <1>3, <1>8 DEF ConnOK, Before, Unasked, Targeted, ThisTun
<1>10. ASSUME t \in Tun PROVE Proper(c, t)'
  <2> USE DEF Proper
  <2>1. Asked(c, t)'
    BY <1>1, <1>2, <1>3, <1>10 DEF Asked, Unasked, Before, ConnOK, ThisTun
  <2>2. Targeted(c, t)'
    BY <1>1, <1>2, <1>10 DEF Targeted
  <2>3. Tabled(c, t)'
    BY <1>1, <1>2, <1>3, <1>10 DEF Tabled, ConnOK, Before, ThisTun
  <2>4. NotDoubled(c, t)' /\ NotLost(c, t)'
    BY <1>1, <1>2, <1>3, <1>10 DEF NotDoubled, NotLost
  <2> QED BY <1>1, <1>2, <1>10, <2>1, <2>2, <2>3, <2>4
<1> QED BY <1>1, <1>3, <1>4, <1>5, <1>6, <1>7, <1>9, <1>10, OneConnection

(* The handler's own steps.                                               *)
LEMMA RegisterKeeps ==
    ASSUME TunnelInv, NEW c \in Conn, Register(c)
    PROVE  TunnelInv'
<1> PICK t : t = ThisTun(c)
  OBVIOUS
<1>1. /\ sock[c].at = "picked"
      /\ pending' = [pending EXCEPT ![t] = @ \cup {c}]
      /\ sock' = SockAt(c, "asking")
      /\ UNCHANGED <<link, toClient, toServer, streams, opening, targets, target, down, up>>
  BY DEF Register, serverSide, clientSide
<1>2. t \in Tun /\ TunnelTypes /\ ConnOK(c) /\ Proper(c, t) /\ LinkOK(t)
  BY <1>1 DEF TunnelInv, ConnOK, ThisTun
<1>3. /\ sock' \in [Conn -> Socket]
      /\ sock'[c].at = "asking" /\ sock'[c].tun = sock[c].tun
      /\ sock'[c].event = sock[c].event
      /\ \A d \in Conn \ {c} : sock'[d] = sock[d]
  BY <1>1, <1>2, SockMoves DEF HandlerPlaces
<1>4. OnWire(toClient, t, c) \in Nat /\ OnWire(toServer, t, c) \in Nat
  BY <1>2, OnWireType DEF TunnelTypes
<1>5. TunnelTypes'
  BY <1>1, <1>2, <1>3 DEF TunnelTypes
<1>6. \A u \in Tun : LinkOK(u)'
  BY <1>1, <1>2, <1>3 DEF TunnelInv, LinkOK
<1>7. \A d \in Conn \ {c} : ConnKept(d)
  BY <1>1, <1>2, <1>3 DEF ConnKept, TunnelTypes
<1>8. \A d \in Conn, u \in Tun :
         d # c \/ u # t => FramesKept(d, u) /\ TablesKept(d, u)
  BY <1>1, <1>2, <1>3, Keeping, TunnelConstants DEF FramesKept, TablesKept, TunnelTypes
<1>9. ConnOK(c)'
  BY <1>1, <1>2, <1>3 DEF ConnOK, TunnelTypes, Before, Unasked
<1>10. Proper(c, t)'
  <2> USE DEF Proper
  <2>1. Asked(c, t)'
    BY <1>1, <1>2, <1>3, TunnelConstants DEF Asked, TunnelTypes, Unasked, Before, ConnOK
  <2>2. Targeted(c, t)'
    BY <1>1, <1>2, <1>3 DEF Targeted, TunnelTypes
  <2>3. Tabled(c, t)'
    BY <1>1, <1>2, <1>3 DEF Tabled, TunnelTypes, ConnOK, Targeted, Unasked, Before
  <2>4. NotDoubled(c, t)'
    BY <1>1, <1>2, <1>3, <1>4 DEF NotDoubled, TunnelTypes
  <2>5. NotLost(c, t)'
    BY <1>1, <1>2, <1>3, <1>4 DEF NotLost, TunnelTypes
  <2> QED BY <1>1, <1>2, <1>3, <2>1, <2>2, <2>3, <2>4, <2>5
<1> QED BY <1>1, <1>2, <1>3, <1>5, <1>6, <1>7, <1>8, <1>9, <1>10, OneConnection
           DEF ThisTun

(* It leaves the table: a late answer finds nobody.                        *)
LEMMA GiveUpKeeps ==
    ASSUME TunnelInv, NEW c \in Conn, GiveUp(c)
    PROVE  TunnelInv'
<1> PICK t : t = ThisTun(c)
  OBVIOUS
<1>1. /\ sock[c].at = "wait" /\ ~sock[c].event
      /\ pending' = [pending EXCEPT ![t] = @ \ {c}]
      /\ sock' = SockAt(c, "done")
      /\ UNCHANGED <<link, toClient, toServer, streams, opening, targets, target, down, up>>
  BY DEF GiveUp, serverSide, clientSide
<1>2. t \in Tun /\ TunnelTypes /\ ConnOK(c) /\ Proper(c, t) /\ LinkOK(t)
  BY <1>1 DEF TunnelInv, ConnOK, ThisTun
<1>3. /\ sock' \in [Conn -> Socket]
      /\ sock'[c].at = "done" /\ sock'[c].tun = sock[c].tun
      /\ sock'[c].event = sock[c].event
      /\ \A d \in Conn \ {c} : sock'[d] = sock[d]
  BY <1>1, <1>2, SockMoves DEF HandlerPlaces
<1>4. OnWire(toClient, t, c) \in Nat /\ OnWire(toServer, t, c) \in Nat
  BY <1>2, OnWireType DEF TunnelTypes
<1>5. TunnelTypes'
  BY <1>1, <1>2, <1>3 DEF TunnelTypes
<1>6. \A u \in Tun : LinkOK(u)'
  BY <1>1, <1>2, <1>3 DEF TunnelInv, LinkOK
<1>7. \A d \in Conn \ {c} : ConnKept(d)
  BY <1>1, <1>2, <1>3 DEF ConnKept, TunnelTypes
<1>8. \A d \in Conn, u \in Tun :
         d # c \/ u # t => FramesKept(d, u) /\ TablesKept(d, u)
  BY <1>1, <1>2, <1>3, Keeping, TunnelConstants DEF FramesKept, TablesKept, TunnelTypes
<1>9. ConnOK(c)'
  BY <1>1, <1>2, <1>3 DEF ConnOK, TunnelTypes, Before, Unasked
<1>10. Proper(c, t)'
  <2> USE DEF Proper
  <2>1. Asked(c, t)'
    BY <1>1, <1>2, <1>3, TunnelConstants DEF Asked, TunnelTypes, Unasked, Before
  <2>2. Targeted(c, t)'
    BY <1>1, <1>2, <1>3 DEF Targeted, TunnelTypes
  <2>3. Tabled(c, t)'
    BY <1>1, <1>2, <1>3 DEF Tabled, TunnelTypes
  <2>4. NotDoubled(c, t)'
    BY <1>1, <1>2, <1>3, <1>4 DEF NotDoubled, TunnelTypes
  <2>5. NotLost(c, t)'
    BY <1>1, <1>2, <1>3, <1>4 DEF NotLost, TunnelTypes
  <2> QED BY <1>1, <1>2, <1>3, <2>1, <2>2, <2>3, <2>4, <2>5
<1> QED BY <1>1, <1>2, <1>3, <1>5, <1>6, <1>7, <1>8, <1>9, <1>10, OneConnection
           DEF ThisTun

(* The reset is seen by no frame and no table.                             *)
LEMMA ResetWaitingKeeps ==
    ASSUME TunnelInv, NEW c \in Conn, ResetWaiting(c)
    PROVE  TunnelInv'
<1> PICK t : t = ThisTun(c)
  OBVIOUS
<1>1. /\ sock[c].at = "wait" /\ ~sock[c].event
      /\ sock' = [sock EXCEPT ![c].reset = TRUE]
      /\ UNCHANGED <<link, toClient, toServer, pending, streams, opening, targets, target,
                down, up>>
  BY DEF ResetWaiting, serverSide, clientSide
<1>2. t \in Tun /\ TunnelTypes /\ ConnOK(c) /\ Proper(c, t) /\ LinkOK(t)
  BY <1>1 DEF TunnelInv, ConnOK, ThisTun
<1>3. /\ sock' \in [Conn -> Socket]
      /\ sock'[c].at = sock[c].at /\ sock'[c].tun = sock[c].tun
      /\ sock'[c].event = sock[c].event
      /\ \A d \in Conn \ {c} : sock'[d] = sock[d]
  BY <1>1, <1>2 DEF TunnelTypes, Socket
<1>4. OnWire(toClient, t, c) \in Nat /\ OnWire(toServer, t, c) \in Nat
  BY <1>2, OnWireType DEF TunnelTypes
<1>5. TunnelTypes'
  BY <1>1, <1>2, <1>3 DEF TunnelTypes
<1>6. \A u \in Tun : LinkOK(u)'
  BY <1>1, <1>2, <1>3 DEF TunnelInv, LinkOK
<1>7. \A d \in Conn \ {c} : ConnKept(d)
  BY <1>1, <1>2, <1>3 DEF ConnKept, TunnelTypes
<1>8. \A d \in Conn, u \in Tun :
         d # c \/ u # t => FramesKept(d, u) /\ TablesKept(d, u)
  BY <1>1, <1>2, <1>3, Keeping, TunnelConstants DEF FramesKept, TablesKept, TunnelTypes
<1>9. ConnOK(c)'
  BY <1>1, <1>2, <1>3 DEF ConnOK, TunnelTypes, Before, Unasked
<1>10. Proper(c, t)'
  <2> USE DEF Proper
  <2>1. Asked(c, t)'
    BY <1>1, <1>2, <1>3, TunnelConstants DEF Asked, TunnelTypes, Unasked, Before
  <2>2. Targeted(c, t)'
    BY <1>1, <1>2, <1>3 DEF Targeted, TunnelTypes
  <2>3. Tabled(c, t)'
    BY <1>1, <1>2, <1>3 DEF Tabled, TunnelTypes
  <2>4. NotDoubled(c, t)'
    BY <1>1, <1>2, <1>3, <1>4 DEF NotDoubled, TunnelTypes
  <2>5. NotLost(c, t)'
    BY <1>1, <1>2, <1>3, <1>4 DEF NotLost, TunnelTypes
  <2> QED BY <1>1, <1>2, <1>3, <2>1, <2>2, <2>3, <2>4, <2>5
<1> QED BY <1>1, <1>2, <1>3, <1>5, <1>6, <1>7, <1>8, <1>9, <1>10, OneConnection
           DEF ThisTun

(* Data on its way to the target.                                          *)
LEMMA ForwardKeeps ==
    ASSUME TunnelInv, NEW c \in Conn, Forward(c)
    PROVE  TunnelInv'
<1> PICK t : t = ThisTun(c)
  OBVIOUS
<1>1. /\ sock[c].at = "relay" /\ up[c].sent < MAX_DATA
      /\ toClient' = Send(toClient, t, "DATA", c)
      /\ up' = [up EXCEPT ![c].sent = @ + 1]
      /\ UNCHANGED <<link, toServer, pending, streams, sock, opening, targets, target, down>>
  BY DEF Forward, serverSide, clientSide
<1>2. t \in Tun /\ TunnelTypes /\ ConnOK(c) /\ Proper(c, t) /\ LinkOK(t)
  BY <1>1 DEF TunnelInv, ConnOK, ThisTun
<1>3. Frame("DATA", c) \in ClientFrame
  BY DEF Frame, ClientFrame
<1>4. toClient' \in [Tun -> Seq(ClientFrame)] /\ FrameSent(toClient, toClient', t, "DATA", c)
  BY <1>1, <1>2, <1>3, Sending DEF TunnelTypes
<1>5. OnWire(toClient, t, c) \in Nat /\ OnWire(toServer, t, c) \in Nat
  BY <1>2, OnWireType DEF TunnelTypes
<1>6. TunnelTypes'
  <2>1. /\ up[c] \in [sent : 0 .. MAX_DATA, got : Nat]
        /\ up[c].sent + 1 \in 0 .. MAX_DATA
    BY <1>1, <1>2, TunnelConstants DEF TunnelTypes
  <2>2. up' \in [Conn -> [sent : 0 .. MAX_DATA, got : Nat]]
    BY <1>1, <1>2, <2>1 DEF TunnelTypes
  <2> QED BY <1>1, <1>2, <1>4, <2>2 DEF TunnelTypes
<1>7. \A u \in Tun : LinkOK(u)'
  BY <1>1, <1>2, <1>4 DEF TunnelInv, LinkOK, FrameSent
<1>8. \A d \in Conn \ {c} : ConnKept(d)
  BY <1>1, <1>2, <1>4 DEF ConnKept, TunnelTypes
<1>9. \A d \in Conn, u \in Tun :
         d # c \/ u # t => FramesKept(d, u) /\ TablesKept(d, u)
  BY <1>1, <1>2, <1>4, Keeping, TunnelConstants
     DEF FramesKept, TablesKept, TunnelTypes, FrameSent
<1>10. ConnOK(c)'
  BY <1>1, <1>2, <1>4 DEF ConnOK, TunnelTypes, Before, Unasked, FrameSent, Commands
<1>11. Proper(c, t)'
  <2> USE DEF Proper, FrameSent, Commands
  <2>1. Asked(c, t)'
    BY <1>1, <1>2, <1>4, TunnelConstants DEF Asked, TunnelTypes, Unasked, Before, ConnOK
  <2>2. Targeted(c, t)'
    BY <1>1, <1>2, <1>4 DEF Targeted, TunnelTypes
  <2>3. Tabled(c, t)'
    BY <1>1, <1>2, <1>4 DEF Tabled, TunnelTypes
  <2>4. NotDoubled(c, t)'
    BY <1>1, <1>2, <1>4, <1>5 DEF NotDoubled, TunnelTypes
  <2>5. NotLost(c, t)'
    BY <1>1, <1>2, <1>4, <1>5 DEF NotLost, TunnelTypes
  <2> QED BY <1>1, <1>2, <1>4, <2>1, <2>2, <2>3, <2>4, <2>5
<1> QED BY <1>1, <1>2, <1>4, <1>6, <1>7, <1>8, <1>9, <1>10, <1>11, OneConnection
           DEF ThisTun

(* What is still on the way to a handler that is done need not arrive.     *)
LEMMA HangUpKeeps ==
    ASSUME TunnelInv, NEW c \in Conn, HangUp(c)
    PROVE  TunnelInv'
<1> PICK t : t = ThisTun(c)
  OBVIOUS
<1>1. /\ sock[c].at = "relay"
      /\ toClient' = Send(toClient, t, "CLOSE", c)
      /\ sock' = SockAt(c, "done")
      /\ UNCHANGED <<link, toServer, pending, streams, opening, targets, target, down, up>>
  BY DEF HangUp, serverSide, clientSide
<1>2. t \in Tun /\ TunnelTypes /\ ConnOK(c) /\ Proper(c, t) /\ LinkOK(t)
  BY <1>1 DEF TunnelInv, ConnOK, ThisTun
<1>3. /\ sock' \in [Conn -> Socket]
      /\ sock'[c].at = "done" /\ sock'[c].tun = sock[c].tun
      /\ sock'[c].event = sock[c].event
      /\ \A d \in Conn \ {c} : sock'[d] = sock[d]
  BY <1>1, <1>2, SockMoves DEF HandlerPlaces
<1>4. Frame("CLOSE", c) \in ClientFrame
  BY DEF Frame, ClientFrame
<1>5. toClient' \in [Tun -> Seq(ClientFrame)] /\ FrameSent(toClient, toClient', t, "CLOSE", c)
  BY <1>1, <1>2, <1>4, Sending DEF TunnelTypes
<1>6. OnWire(toClient, t, c) \in Nat /\ OnWire(toServer, t, c) \in Nat
  BY <1>2, OnWireType DEF TunnelTypes
<1>7. TunnelTypes'
  BY <1>1, <1>2, <1>3, <1>5 DEF TunnelTypes
<1>8. \A u \in Tun : LinkOK(u)'
  BY <1>1, <1>2, <1>3, <1>5 DEF TunnelInv, LinkOK, FrameSent
<1>9. \A d \in Conn \ {c} : ConnKept(d)
  BY <1>1, <1>2, <1>3, <1>5 DEF ConnKept, TunnelTypes
<1>10. \A d \in Conn, u \in Tun :
         d # c \/ u # t => FramesKept(d, u) /\ TablesKept(d, u)
  BY <1>1, <1>2, <1>3, <1>5, Keeping, TunnelConstants
     DEF FramesKept, TablesKept, TunnelTypes, FrameSent
<1>11. ConnOK(c)'
  BY <1>1, <1>2, <1>3, <1>5 DEF ConnOK, TunnelTypes, Before, Unasked, FrameSent, Commands
<1>12. Proper(c, t)'
  <2> USE DEF Proper, FrameSent, Commands
  <2>1. Asked(c, t)'
    BY <1>1, <1>2, <1>3, <1>5, TunnelConstants DEF Asked, TunnelTypes, Unasked, Before
  <2>2. Targeted(c, t)'
    BY <1>1, <1>2, <1>3, <1>5 DEF Targeted, TunnelTypes
  <2>3. Tabled(c, t)'
    BY <1>1, <1>2, <1>3, <1>5 DEF Tabled, TunnelTypes
  <2>4. NotDoubled(c, t)'
    BY <1>1, <1>2, <1>3, <1>5, <1>6 DEF NotDoubled, TunnelTypes
  <2>5. NotLost(c, t)'
    BY <1>1, <1>2, <1>3, <1>5, <1>6 DEF NotLost, TunnelTypes
  <2> QED BY <1>1, <1>2, <1>3, <1>5, <2>1, <2>2, <2>3, <2>4, <2>5
<1> QED BY <1>1, <1>2, <1>3, <1>5, <1>7, <1>8, <1>9, <1>10, <1>11, <1>12, OneConnection
           DEF ThisTun

(* The relay task of a target.                                            *)
LEMMA RelayTargetKeeps ==
    ASSUME TunnelInv, NEW c \in Conn, RelayTarget(c)
    PROVE  TunnelInv'
<1> PICK t : t = ThisTun(c)
  OBVIOUS
<1>1. /\ target[c] = "open" /\ down[c].sent < MAX_DATA
      /\ toServer' = Send(toServer, t, "DATA", c)
      /\ down' = [down EXCEPT ![c].sent = @ + 1]
      /\ UNCHANGED <<link, toClient, pending, streams, sock, opening, targets, target, up>>
  BY DEF RelayTarget, serverSide, clientSide
<1>2. t \in Tun /\ TunnelTypes /\ ConnOK(c) /\ Proper(c, t) /\ LinkOK(t)
  BY <1>1 DEF TunnelInv, ConnOK, ThisTun
<1>3. Frame("DATA", c) \in ServerFrame
  BY DEF Frame, ServerFrame
<1>4. toServer' \in [Tun -> Seq(ServerFrame)] /\ FrameSent(toServer, toServer', t, "DATA", c)
  BY <1>1, <1>2, <1>3, Sending DEF TunnelTypes
<1>5. OnWire(toClient, t, c) \in Nat /\ OnWire(toServer, t, c) \in Nat
  BY <1>2, OnWireType DEF TunnelTypes
<1>6. TunnelTypes'
  <2>1. /\ down[c] \in [sent : 0 .. MAX_DATA, got : Nat]
        /\ down[c].sent + 1 \in 0 .. MAX_DATA
    BY <1>1, <1>2, TunnelConstants DEF TunnelTypes
  <2>2. down' \in [Conn -> [sent : 0 .. MAX_DATA, got : Nat]]
    BY <1>1, <1>2, <2>1 DEF TunnelTypes
  <2> QED BY <1>1, <1>2, <1>4, <2>2 DEF TunnelTypes
<1>7. \A u \in Tun : LinkOK(u)'
  BY <1>1, <1>2, <1>4 DEF TunnelInv, LinkOK, FrameSent
<1>8. \A d \in Conn \ {c} : ConnKept(d)
  BY <1>1, <1>2, <1>4 DEF ConnKept, TunnelTypes
<1>9. \A d \in Conn, u \in Tun :
         d # c \/ u # t => FramesKept(d, u) /\ TablesKept(d, u)
  BY <1>1, <1>2, <1>4, Keeping, TunnelConstants
     DEF FramesKept, TablesKept, TunnelTypes, FrameSent
<1>10. ConnOK(c)'
  BY <1>1, <1>2, <1>4 DEF ConnOK, TunnelTypes, Before, Unasked, FrameSent, Commands
<1>11. Proper(c, t)'
  <2> USE DEF Proper, FrameSent, Commands
  <2>1. Asked(c, t)'
    BY <1>1, <1>2, <1>4, TunnelConstants DEF Asked, TunnelTypes, Unasked, Before
  <2>2. Targeted(c, t)'
    BY <1>1, <1>2, <1>4 DEF Targeted, TunnelTypes
  <2>3. Tabled(c, t)'
    BY <1>1, <1>2, <1>4 DEF Tabled, TunnelTypes
  <2>4. NotDoubled(c, t)'
    BY <1>1, <1>2, <1>4, <1>5 DEF NotDoubled, TunnelTypes
  <2>5. NotLost(c, t)'
    BY <1>1, <1>2, <1>4, <1>5 DEF NotLost, TunnelTypes
  <2> QED BY <1>1, <1>2, <1>4, <2>1, <2>2, <2>3, <2>4, <2>5
<1> QED BY <1>1, <1>2, <1>4, <1>6, <1>7, <1>8, <1>9, <1>10, <1>11, OneConnection
           DEF ThisTun

(* The close is behind all of the data.                                    *)
LEMMA RelayEndsKeeps ==
    ASSUME TunnelInv, NEW c \in Conn, RelayEnds(c)
    PROVE  TunnelInv'
<1> PICK t : t = ThisTun(c)
  OBVIOUS
<1>1. /\ target[c] \in {"open", "shut"}
      /\ toServer' = Send(toServer, t, "CLOSE", c)
      /\ target' = [target EXCEPT ![c] = "ended"]
      /\ UNCHANGED <<link, toClient, pending, streams, sock, opening, targets, down, up>>
  BY DEF RelayEnds, serverSide, clientSide
<1>2. t \in Tun /\ TunnelTypes /\ ConnOK(c) /\ Proper(c, t) /\ LinkOK(t)
  BY <1>1 DEF TunnelInv, ConnOK, ThisTun
<1>3. Frame("CLOSE", c) \in ServerFrame
  BY DEF Frame, ServerFrame
<1>4. toServer' \in [Tun -> Seq(ServerFrame)] /\ FrameSent(toServer, toServer', t, "CLOSE", c)
  BY <1>1, <1>2, <1>3, Sending DEF TunnelTypes
<1>5. OnWire(toClient, t, c) \in Nat /\ OnWire(toServer, t, c) \in Nat
  BY <1>2, OnWireType DEF TunnelTypes
<1>6. TunnelTypes'
  BY <1>1, <1>2, <1>4 DEF TunnelTypes
<1>7. \A u \in Tun : LinkOK(u)'
  BY <1>1, <1>2, <1>4 DEF TunnelInv, LinkOK, FrameSent
<1>8. \A d \in Conn \ {c} : ConnKept(d)
  BY <1>1, <1>2, <1>4 DEF ConnKept, TunnelTypes
<1>9. \A d \in Conn, u \in Tun :
         d # c \/ u # t => FramesKept(d, u) /\ TablesKept(d, u)
  BY <1>1, <1>2, <1>4, Keeping, TunnelConstants
     DEF FramesKept, TablesKept, TunnelTypes, FrameSent
<1>10. ConnOK(c)'
  BY <1>1, <1>2, <1>4 DEF ConnOK, TunnelTypes, Before, Unasked, FrameSent, Commands
<1>11. Proper(c, t)'
  <2> USE DEF Proper, FrameSent, Commands
  <2>1. Asked(c, t)'
    BY <1>1, <1>2, <1>4, TunnelConstants DEF Asked, TunnelTypes, Unasked, Before
  <2>2. Targeted(c, t)'
    BY <1>1, <1>2, <1>4 DEF Targeted, TunnelTypes
  <2>3. Tabled(c, t)'
    BY <1>1, <1>2, <1>4 DEF Tabled, TunnelTypes
  <2>4. NotDoubled(c, t)'
    BY <1>1, <1>2, <1>4, <1>5 DEF NotDoubled, TunnelTypes
  <2>5. NotLost(c, t)'
    BY <1>1, <1>2, <1>4, <1>5 DEF NotLost, TunnelTypes
  <2> QED BY <1>1, <1>2, <1>4, <2>1, <2>2, <2>3, <2>4, <2>5
<1> QED BY <1>1, <1>2, <1>4, <1>6, <1>7, <1>8, <1>9, <1>10, <1>11, OneConnection
           DEF ThisTun

(* A target that resets takes no more data.                                *)
LEMMA RelayFailsKeeps ==
    ASSUME TunnelInv, NEW c \in Conn, RelayFails(c)
    PROVE  TunnelInv'
<1> PICK t : t = ThisTun(c)
  OBVIOUS
<1>1. /\ target[c] = "open"
      /\ target' = [target EXCEPT ![c] = "reset"]
      /\ UNCHANGED <<link, toClient, toServer, pending, streams, sock, opening, targets,
                down, up>>
  BY DEF RelayFails, serverSide, clientSide
<1>2. t \in Tun /\ TunnelTypes /\ ConnOK(c) /\ Proper(c, t) /\ LinkOK(t)
  BY <1>1 DEF TunnelInv, ConnOK, ThisTun
<1>3. OnWire(toClient, t, c) \in Nat /\ OnWire(toServer, t, c) \in Nat
  BY <1>2, OnWireType DEF TunnelTypes
<1>4. TunnelTypes'
  BY <1>1, <1>2 DEF TunnelTypes
<1>5. \A u \in Tun : LinkOK(u)'
  BY <1>1, <1>2 DEF TunnelInv, LinkOK
<1>6. \A d \in Conn \ {c} : ConnKept(d)
  BY <1>1, <1>2 DEF ConnKept, TunnelTypes
<1>7. \A d \in Conn, u \in Tun :
         d # c \/ u # t => FramesKept(d, u) /\ TablesKept(d, u)
  BY <1>1, <1>2, Keeping, TunnelConstants DEF FramesKept, TablesKept, TunnelTypes
<1>8. ConnOK(c)'
  BY <1>1, <1>2 DEF ConnOK, TunnelTypes, Before, Unasked
<1>9. Proper(c, t)'
  <2> USE DEF Proper
  <2>1. Asked(c, t)'
    BY <1>1, <1>2, TunnelConstants DEF Asked, TunnelTypes, Unasked, Before
  <2>2. Targeted(c, t)'
    BY <1>1, <1>2 DEF Targeted, TunnelTypes
  <2>3. Tabled(c, t)'
    BY <1>1, <1>2 DEF Tabled, TunnelTypes
  <2>4. NotDoubled(c, t)'
    BY <1>1, <1>2, <1>3 DEF NotDoubled, TunnelTypes
  <2>5. NotLost(c, t)'
    BY <1>1, <1>2, <1>3 DEF NotLost, TunnelTypes
  <2> QED BY <1>1, <1>2, <2>1, <2>2, <2>3, <2>4, <2>5
<1> QED BY <1>1, <1>2, <1>4, <1>5, <1>6, <1>7, <1>8, <1>9, OneConnection DEF ThisTun

(* A frame that is read is one of the tunnel's own connections.            *)
LEMMA ServerReadsOwn ==
    ASSUME TunnelInv, NEW t \in Tun, NEW c \in Conn, NEW cmd \in Commands,
           Receives(toServer, t, cmd, c), toServer' = Consume(toServer, t)
    PROVE  /\ t = ThisTun(c) /\ link[t] = "up"
           /\ toServer' \in [Tun -> Seq(ServerFrame)]
           /\ FrameRead(toServer, toServer', t, cmd, c)
<1>1. toServer \in [Tun -> Seq(ServerFrame)]
  BY DEF TunnelInv, TunnelTypes
<1>2. /\ toServer' \in [Tun -> Seq(ServerFrame)]
      /\ FrameRead(toServer, toServer', t, cmd, c)
  BY <1>1, Receiving
<1>3. Carries(toServer[t], cmd, c) /\ toServer[t] # <<>>
  BY <1>2 DEF FrameRead
<1>4. t = ThisTun(c) /\ link[t] = "up"
  BY <1>3 DEF TunnelInv, Clean, LinkOK
<1> QED BY <1>2, <1>4

(* The same at the other end.                                              *)
LEMMA ClientReadsOwn ==
    ASSUME TunnelInv, NEW t \in Tun, NEW c \in Conn, NEW cmd \in Commands,
           Receives(toClient, t, cmd, c), toClient' = Consume(toClient, t)
    PROVE  /\ t = ThisTun(c) /\ link[t] = "up"
           /\ toClient' \in [Tun -> Seq(ClientFrame)]
           /\ FrameRead(toClient, toClient', t, cmd, c)
<1>1. toClient \in [Tun -> Seq(ClientFrame)]
  BY DEF TunnelInv, TunnelTypes
<1>2. /\ toClient' \in [Tun -> Seq(ClientFrame)]
      /\ FrameRead(toClient, toClient', t, cmd, c)
  BY <1>1, Receiving
<1>3. Carries(toClient[t], cmd, c) /\ toClient[t] # <<>>
  BY <1>2 DEF FrameRead
<1>4. t = ThisTun(c) /\ link[t] = "up"
  BY <1>3 DEF TunnelInv, Clean, LinkOK
<1> QED BY <1>2, <1>4

(* The client's reader.                                                    *)
LEMMA OpenKeeps ==
    ASSUME TunnelInv, NEW t \in Tun, NEW c \in Conn, Open(t, c)
    PROVE  TunnelInv'
<1>1. /\ opening[t] = NoConn /\ Receives(toClient, t, "CONNECT", c)
      /\ opening' = [opening EXCEPT ![t] = c]
      /\ toClient' = Consume(toClient, t)
      /\ UNCHANGED <<link, toServer, pending, streams, sock, targets, target, down, up>>
  BY DEF Open, ClientFree, serverSide, clientSide
<1>2. /\ t = ThisTun(c) /\ link[t] = "up"
      /\ toClient' \in [Tun -> Seq(ClientFrame)]
      /\ FrameRead(toClient, toClient', t, "CONNECT", c)
  BY <1>1, ClientReadsOwn DEF Commands
<1>3. TunnelTypes /\ ConnOK(c) /\ Proper(c, t) /\ LinkOK(t)
  BY <1>2 DEF TunnelInv
<1>4. OnWire(toClient, t, c) \in Nat /\ OnWire(toServer, t, c) \in Nat
  BY <1>3, OnWireType DEF TunnelTypes
<1>5. TunnelTypes'
  BY <1>1, <1>3, <1>2 DEF TunnelTypes
<1>6. \A u \in Tun : LinkOK(u)'
  BY <1>1, <1>3, <1>2 DEF TunnelInv, LinkOK, FrameRead
<1>7. \A d \in Conn \ {c} : ConnKept(d)
  BY <1>1, <1>3, <1>2 DEF ConnKept, TunnelTypes
<1>8. \A d \in Conn, u \in Tun :
         d # c \/ u # t => FramesKept(d, u) /\ TablesKept(d, u)
  BY <1>1, <1>3, <1>2, Keeping, TunnelConstants
     DEF FramesKept, TablesKept, TunnelTypes, FrameRead
<1>9. ConnOK(c)'
  BY <1>1, <1>3, <1>2 DEF ConnOK, TunnelTypes, Before, Unasked, FrameRead, Commands
<1>10. Proper(c, t)'
  <2> USE DEF Proper, FrameRead, Commands
  <2>1. Asked(c, t)'
    BY <1>1, <1>3, <1>2, TunnelConstants DEF Asked, TunnelTypes, Unasked, Before
  <2>2. Targeted(c, t)'
    BY <1>1, <1>3, <1>2 DEF Targeted, TunnelTypes
  <2>3. Tabled(c, t)'
    BY <1>1, <1>3, <1>2 DEF Tabled, TunnelTypes
  <2>4. NotDoubled(c, t)'
    BY <1>1, <1>3, <1>2, <1>4 DEF NotDoubled, TunnelTypes
  <2>5. NotLost(c, t)'
    BY <1>1, <1>3, <1>2, <1>4 DEF NotLost, TunnelTypes
  <2> QED BY <1>1, <1>3, <1>2, <2>1, <2>2, <2>3, <2>4, <2>5
<1> QED BY <1>1, <1>3, <1>2, <1>5, <1>6, <1>7, <1>8, <1>9, <1>10, OneConnection
           DEF ThisTun

(* The answer is on the wire before any data.                              *)
LEMMA OpenedKeeps ==
    ASSUME TunnelInv, NEW t \in Tun, NEW c \in Conn, Opened(t, c)
    PROVE  TunnelInv'
<1>1. /\ opening[t] = c
      /\ opening' = [opening EXCEPT ![t] = NoConn]
      /\ targets' = [targets EXCEPT ![t] = @ \cup {c}]
      /\ target' = [target EXCEPT ![c] = "open"]
      /\ toServer' = Send(toServer, t, "OK", c)
      /\ UNCHANGED <<link, toClient, pending, streams, sock, down, up>>
  BY DEF Opened, serverSide, clientSide
<1>2. t = ThisTun(c) /\ link[t] = "up"
  BY <1>1, TunnelConstants DEF TunnelInv, Clean, LinkOK
<1>3. TunnelTypes /\ ConnOK(c) /\ Proper(c, t) /\ LinkOK(t)
  BY <1>2 DEF TunnelInv
<1>4. Frame("OK", c) \in ServerFrame
  BY DEF Frame, ServerFrame
<1>5. toServer \in [Tun -> Seq(ServerFrame)]
  BY <1>3 DEF TunnelTypes
<1>6. toServer' \in [Tun -> Seq(ServerFrame)] /\ FrameSent(toServer, toServer', t, "OK", c)
  BY <1>1, <1>3, <1>4, <1>5, Sending
<1>7. OnWire(toClient, t, c) \in Nat /\ OnWire(toServer, t, c) \in Nat
  BY <1>3, OnWireType DEF TunnelTypes
<1>8. TunnelTypes'
  BY <1>1, <1>3, <1>2, <1>6 DEF TunnelTypes
<1>9. \A u \in Tun : LinkOK(u)'
  BY <1>1, <1>3, <1>2, <1>6 DEF TunnelInv, LinkOK, FrameSent
<1>10. \A d \in Conn \ {c} : ConnKept(d)
  BY <1>1, <1>3, <1>2, <1>6 DEF ConnKept, TunnelTypes
<1>11. \A d \in Conn, u \in Tun :
         d # c \/ u # t => FramesKept(d, u) /\ TablesKept(d, u)
  BY <1>1, <1>3, <1>2, <1>6, Keeping, TunnelConstants
     DEF FramesKept, TablesKept, TunnelTypes, FrameSent
<1>12. ConnOK(c)'
  BY <1>1, <1>3, <1>2, <1>6
     DEF ConnOK, TunnelTypes, Before, Unasked, FrameSent, Commands, Proper, Asked, ThisTun
<1>13. Proper(c, t)'
  <2> USE DEF Proper, FrameSent, Commands
  <2>1. Asked(c, t)'
    BY <1>1, <1>3, <1>2, <1>6, TunnelConstants DEF Asked, TunnelTypes, Unasked, Before
  <2>2. Targeted(c, t)'
    BY <1>1, <1>3, <1>2, <1>6 DEF Targeted, TunnelTypes, Asked
  <2>3. Tabled(c, t)'
    BY <1>1, <1>3, <1>2, <1>6 DEF Tabled, TunnelTypes, Asked, Targeted
  <2>4. NotDoubled(c, t)'
    BY <1>1, <1>3, <1>2, <1>6, <1>7 DEF NotDoubled, TunnelTypes
  <2>5. NotLost(c, t)'
    BY <1>1, <1>3, <1>2, <1>6, <1>7 DEF NotLost, TunnelTypes, NotDoubled, Asked, ConnOK
  <2> QED BY <1>1, <1>3, <1>2, <1>6, <2>1, <2>2, <2>3, <2>4, <2>5
<1> QED BY <1>1, <1>3, <1>2, <1>6, <1>8, <1>9, <1>10, <1>11, <1>12, <1>13, OneConnection
           DEF ThisTun

(* There is no target, and will be none.                                   *)
LEMMA OpenFailsKeeps ==
    ASSUME TunnelInv, NEW t \in Tun, NEW c \in Conn, OpenFails(t, c)
    PROVE  TunnelInv'
<1>1. /\ opening[t] = c
      /\ opening' = [opening EXCEPT ![t] = NoConn]
      /\ toServer' = Send(toServer, t, "FAIL", c)
      /\ UNCHANGED <<link, toClient, pending, streams, sock, targets, target, down, up>>
  BY DEF OpenFails, serverSide, clientSide
<1>2. t = ThisTun(c) /\ link[t] = "up"
  BY <1>1, TunnelConstants DEF TunnelInv, Clean, LinkOK
<1>3. TunnelTypes /\ ConnOK(c) /\ Proper(c, t) /\ LinkOK(t)
  BY <1>2 DEF TunnelInv
<1>4. Frame("FAIL", c) \in ServerFrame
  BY DEF Frame, ServerFrame
<1>5. toServer \in [Tun -> Seq(ServerFrame)]
  BY <1>3 DEF TunnelTypes
<1>6. toServer' \in [Tun -> Seq(ServerFrame)] /\ FrameSent(toServer, toServer', t, "FAIL", c)
  BY <1>1, <1>3, <1>4, <1>5, Sending
<1>7. OnWire(toClient, t, c) \in Nat /\ OnWire(toServer, t, c) \in Nat
  BY <1>3, OnWireType DEF TunnelTypes
<1>8. TunnelTypes'
  BY <1>1, <1>3, <1>2, <1>6 DEF TunnelTypes
<1>9. \A u \in Tun : LinkOK(u)'
  BY <1>1, <1>3, <1>2, <1>6 DEF TunnelInv, LinkOK, FrameSent
<1>10. \A d \in Conn \ {c} : ConnKept(d)
  BY <1>1, <1>3, <1>2, <1>6 DEF ConnKept, TunnelTypes
<1>11. \A d \in Conn, u \in Tun :
         d # c \/ u # t => FramesKept(d, u) /\ TablesKept(d, u)
  BY <1>1, <1>3, <1>2, <1>6, Keeping, TunnelConstants
     DEF FramesKept, TablesKept, TunnelTypes, FrameSent
<1>12. ConnOK(c)'
  BY <1>1, <1>3, <1>2, <1>6 DEF ConnOK, TunnelTypes, Before, Unasked, FrameSent, Commands
<1>13. Proper(c, t)'
  <2> USE DEF Proper, FrameSent, Commands
  <2>1. Asked(c, t)'
    BY <1>1, <1>3, <1>2, <1>6, TunnelConstants DEF Asked, TunnelTypes, Unasked, Before
  <2>2. Targeted(c, t)'
    BY <1>1, <1>3, <1>2, <1>6 DEF Targeted, TunnelTypes
  <2>3. Tabled(c, t)'
    BY <1>1, <1>3, <1>2, <1>6 DEF Tabled, TunnelTypes
  <2>4. NotDoubled(c, t)'
    BY <1>1, <1>3, <1>2, <1>6, <1>7 DEF NotDoubled, TunnelTypes
  <2>5. NotLost(c, t)'
    BY <1>1, <1>3, <1>2, <1>6, <1>7 DEF NotLost, TunnelTypes
  <2> QED BY <1>1, <1>3, <1>2, <1>6, <2>1, <2>2, <2>3, <2>4, <2>5
<1> QED BY <1>1, <1>3, <1>2, <1>6, <1>8, <1>9, <1>10, <1>11, <1>12, <1>13, OneConnection
           DEF ThisTun

(* Data finds its target in the table.                                     *)
LEMMA WriteKeeps ==
    ASSUME TunnelInv, NEW t \in Tun, NEW c \in Conn, Write(t, c)
    PROVE  TunnelInv'
<1>1. /\ opening[t] = NoConn /\ Receives(toClient, t, "DATA", c)
      /\ toClient' = Consume(toClient, t)
      /\ IF target[c] = "reset"
         THEN targets' = [targets EXCEPT ![t] = @ \ {c}] /\ up' = up
         ELSE /\ up' = [up EXCEPT ![c].got = IF c \in targets[t] THEN @ + 1 ELSE @]
              /\ targets' = targets
      /\ UNCHANGED <<link, toServer, pending, streams, sock, opening, target, down>>
  BY DEF Write, ClientFree, serverSide, clientSide
<1>2. /\ t = ThisTun(c) /\ link[t] = "up"
      /\ toClient' \in [Tun -> Seq(ClientFrame)]
      /\ FrameRead(toClient, toClient', t, "DATA", c)
  BY <1>1, ClientReadsOwn DEF Commands
<1>3. TunnelTypes /\ ConnOK(c) /\ Proper(c, t) /\ LinkOK(t)
  BY <1>2 DEF TunnelInv
<1>4. /\ up' \in [Conn -> [sent : 0 .. MAX_DATA, got : Nat]]
      /\ \A d \in Conn \ {c} : up'[d] = up[d]
      /\ up'[c].sent = up[c].sent
      /\ up'[c].got = IF target[c] # "reset" /\ c \in targets[t] THEN up[c].got + 1 ELSE up[c].got
  <2>1. up \in [Conn -> [sent : 0 .. MAX_DATA, got : Nat]]
    BY <1>3 DEF TunnelTypes
  <2>2. CASE target[c] # "reset" /\ c \in targets[t]
    <3>1. up' = [up EXCEPT ![c].got = @ + 1]
      BY <1>1, <2>2
    <3> QED BY <2>1, <2>2, <3>1
  <2>3. CASE ~(target[c] # "reset" /\ c \in targets[t])
    <3>1. up' = up
      BY <1>1, <2>1, <2>3
    <3> QED BY <2>1, <2>3, <3>1
  <2> QED BY <2>2, <2>3
<1>5. /\ targets' \in [Tun -> SUBSET Conn]
      /\ \A u \in Tun \ {t} : targets'[u] = targets[u]
      /\ targets'[t] = IF target[c] = "reset" THEN targets[t] \ {c} ELSE targets[t]
  <2>1. targets \in [Tun -> SUBSET Conn]
    BY <1>3 DEF TunnelTypes
  <2>2. CASE target[c] = "reset"
    <3>1. targets' = [targets EXCEPT ![t] = @ \ {c}]
      BY <1>1, <2>2
    <3> QED BY <2>1, <2>2, <3>1
  <2>3. CASE ~(target[c] = "reset")
    <3>1. targets' = targets
      BY <1>1, <2>1, <2>3
    <3> QED BY <2>1, <2>3, <3>1
  <2> QED BY <2>2, <2>3
<1>6. opening[t] = NoConn /\ UNCHANGED <<link, toServer, pending, streams, sock, opening, target, down>>
  BY <1>1
<1>7. OnWire(toClient', t, c) \in Nat
  BY <1>2, OnWireType
<1>8. OnWire(toClient, t, c) \in Nat /\ OnWire(toServer, t, c) \in Nat
  BY <1>3, OnWireType DEF TunnelTypes
<1>9. TunnelTypes'
  BY <1>3, <1>2, <1>4, <1>5, <1>6 DEF TunnelTypes
<1>10. \A u \in Tun : LinkOK(u)'
  BY <1>3, <1>2, <1>4, <1>5, <1>6 DEF TunnelInv, LinkOK, FrameRead
<1>11. \A d \in Conn \ {c} : ConnKept(d)
  BY <1>3, <1>2, <1>4, <1>5, <1>6 DEF ConnKept, TunnelTypes
<1>12. \A d \in Conn, u \in Tun :
         d # c \/ u # t => FramesKept(d, u) /\ TablesKept(d, u)
  BY <1>3, <1>2, <1>4, <1>5, <1>6, Keeping, TunnelConstants
     DEF FramesKept, TablesKept, TunnelTypes, FrameRead
<1>13. ConnOK(c)'
  BY <1>3, <1>2, <1>4, <1>5, <1>6
     DEF ConnOK, TunnelTypes, Before, Unasked, FrameRead, Commands, ThisTun
<1>14. Proper(c, t)'
  <2> USE DEF Proper, FrameRead, Commands
  <2>1. Asked(c, t)'
    BY <1>3, <1>2, <1>4, <1>5, <1>6, TunnelConstants
       DEF Asked, TunnelTypes, Unasked, Before
  <2>2. Targeted(c, t)'
    BY <1>3, <1>2, <1>4, <1>5, <1>6 DEF Targeted, TunnelTypes
  <2>3. Tabled(c, t)'
    BY <1>3, <1>2, <1>4, <1>5, <1>6 DEF Tabled, TunnelTypes
  <2>4. NotDoubled(c, t)'
    BY <1>3, <1>2, <1>4, <1>5, <1>6, <1>8, <1>7 DEF NotDoubled, TunnelTypes
  <2>5. NotLost(c, t)'
    BY <1>3, <1>2, <1>4, <1>5, <1>6, <1>8, <1>7 DEF NotLost, TunnelTypes, Targeted
  <2> QED BY <1>3, <1>2, <1>4, <1>5, <1>6, <2>1, <2>2, <2>3, <2>4, <2>5
<1> QED BY <1>2, <1>6, <1>9, <1>10, <1>11, <1>12, <1>13, <1>14, OneConnection
           DEF ThisTun

(* A target that is closed takes no more data.                             *)
LEMMA ClientClosesKeeps ==
    ASSUME TunnelInv, NEW t \in Tun, NEW c \in Conn, ClientCloses(t, c)
    PROVE  TunnelInv'
<1>1. /\ opening[t] = NoConn /\ Receives(toClient, t, "CLOSE", c)
      /\ toClient' = Consume(toClient, t)
      /\ target' = [target EXCEPT ![c] = IF c \in targets[t] /\ @ = "open" THEN "shut" ELSE @]
      /\ targets' = [targets EXCEPT ![t] = @ \ {c}]
      /\ UNCHANGED <<link, toServer, pending, streams, sock, opening, down, up>>
  BY DEF ClientCloses, ClientFree, serverSide, clientSide
<1>2. /\ t = ThisTun(c) /\ link[t] = "up"
      /\ toClient' \in [Tun -> Seq(ClientFrame)]
      /\ FrameRead(toClient, toClient', t, "CLOSE", c)
  BY <1>1, ClientReadsOwn DEF Commands
<1>3. TunnelTypes /\ ConnOK(c) /\ Proper(c, t) /\ LinkOK(t)
  BY <1>2 DEF TunnelInv
<1>4. OnWire(toClient, t, c) \in Nat /\ OnWire(toServer, t, c) \in Nat
  BY <1>3, OnWireType DEF TunnelTypes
<1>5. TunnelTypes'
  BY <1>1, <1>3, <1>2 DEF TunnelTypes
<1>6. \A u \in Tun : LinkOK(u)'
  BY <1>1, <1>3, <1>2 DEF TunnelInv, LinkOK, FrameRead
<1>7. \A d \in Conn \ {c} : ConnKept(d)
  BY <1>1, <1>3, <1>2 DEF ConnKept, TunnelTypes
<1>8. \A d \in Conn, u \in Tun :
         d # c \/ u # t => FramesKept(d, u) /\ TablesKept(d, u)
  BY <1>1, <1>3, <1>2, Keeping, TunnelConstants
     DEF FramesKept, TablesKept, TunnelTypes, FrameRead
<1>9. ConnOK(c)'
  BY <1>1, <1>3, <1>2 DEF ConnOK, TunnelTypes, Before, Unasked, FrameRead, Commands
<1>10. Proper(c, t)'
  <2> USE DEF Proper, FrameRead, Commands
  <2>1. Asked(c, t)'
    BY <1>1, <1>3, <1>2, TunnelConstants DEF Asked, TunnelTypes, Unasked, Before
  <2>2. Targeted(c, t)'
    BY <1>1, <1>3, <1>2 DEF Targeted, TunnelTypes
  <2>3. Tabled(c, t)'
    BY <1>1, <1>3, <1>2 DEF Tabled, TunnelTypes
  <2>4. NotDoubled(c, t)'
    BY <1>1, <1>3, <1>2, <1>4 DEF NotDoubled, TunnelTypes
  <2>5. NotLost(c, t)'
    BY <1>1, <1>3, <1>2, <1>4 DEF NotLost, TunnelTypes
  <2> QED BY <1>1, <1>3, <1>2, <2>1, <2>2, <2>3, <2>4, <2>5
<1> QED BY <1>1, <1>3, <1>2, <1>5, <1>6, <1>7, <1>8, <1>9, <1>10, OneConnection
           DEF ThisTun

(* The server's reader.                                                    *)
LEMMA ReplyLateKeeps ==
    ASSUME TunnelInv, NEW t \in Tun, NEW c \in Conn, ReplyLate(t, c)
    PROVE  TunnelInv'
<1>1. PICK cmd \in {"OK", "FAIL"} :
      /\ Receives(toServer, t, cmd, c) /\ c \notin pending[t]
      /\ toServer' = Consume(toServer, t)
      /\ UNCHANGED <<link, toClient, pending, streams, sock, opening, targets, target, down,
                up>>
  BY DEF ReplyLate, serverSide, clientSide
<1>2. /\ t = ThisTun(c) /\ link[t] = "up"
      /\ toServer' \in [Tun -> Seq(ServerFrame)]
      /\ FrameRead(toServer, toServer', t, cmd, c)
  BY <1>1, ServerReadsOwn DEF Commands
<1>3. TunnelTypes /\ ConnOK(c) /\ Proper(c, t) /\ LinkOK(t)
  BY <1>2 DEF TunnelInv
<1>4. OnWire(toClient, t, c) \in Nat /\ OnWire(toServer, t, c) \in Nat
  BY <1>3, OnWireType DEF TunnelTypes
<1>5. TunnelTypes'
  BY <1>1, <1>3, <1>2 DEF TunnelTypes
<1>6. \A u \in Tun : LinkOK(u)'
  BY <1>1, <1>3, <1>2 DEF TunnelInv, LinkOK, FrameRead
<1>7. \A d \in Conn \ {c} : ConnKept(d)
  BY <1>1, <1>3, <1>2 DEF ConnKept, TunnelTypes
<1>8. \A d \in Conn, u \in Tun :
         d # c \/ u # t => FramesKept(d, u) /\ TablesKept(d, u)
  BY <1>1, <1>3, <1>2, Keeping, TunnelConstants
     DEF FramesKept, TablesKept, TunnelTypes, FrameRead
<1>9. ConnOK(c)'
  BY <1>1, <1>3, <1>2 DEF ConnOK, TunnelTypes, Before, Unasked, FrameRead, Commands
<1>10. Proper(c, t)'
  <2> USE DEF Proper, FrameRead, Commands
  <2>1. Asked(c, t)'
    BY <1>1, <1>3, <1>2, TunnelConstants DEF Asked, TunnelTypes, Unasked, Before
  <2>2. Targeted(c, t)'
    BY <1>1, <1>3, <1>2 DEF Targeted, TunnelTypes
  <2>3. Tabled(c, t)'
    BY <1>1, <1>3, <1>2 DEF Tabled, TunnelTypes
  <2>4. NotDoubled(c, t)'
    BY <1>1, <1>3, <1>2, <1>4 DEF NotDoubled, TunnelTypes
  <2>5. NotLost(c, t)'
    BY <1>1, <1>3, <1>2, <1>4 DEF NotLost, TunnelTypes
  <2> QED BY <1>1, <1>3, <1>2, <2>1, <2>2, <2>3, <2>4, <2>5
<1> QED BY <1>1, <1>3, <1>2, <1>5, <1>6, <1>7, <1>8, <1>9, <1>10, OneConnection
           DEF ThisTun

(* Data finds its stream in the table.                                     *)
LEMMA DeliverKeeps ==
    ASSUME TunnelInv, NEW t \in Tun, NEW c \in Conn, Deliver(t, c)
    PROVE  TunnelInv'
<1>1. /\ Receives(toServer, t, "DATA", c)
      /\ toServer' = Consume(toServer, t)
      /\ streams' = [streams EXCEPT ![t] = IF sock[c].at = "done" THEN @ \ {c} ELSE @]
      /\ down' = [down EXCEPT ![c].got =
                    IF c \in streams[t] /\ sock[c].at # "done" THEN @ + 1 ELSE @]
      /\ UNCHANGED <<link, toClient, pending, sock, opening, targets, target, up>>
  BY DEF Deliver, serverSide, clientSide
<1>2. /\ t = ThisTun(c) /\ link[t] = "up"
      /\ toServer' \in [Tun -> Seq(ServerFrame)]
      /\ FrameRead(toServer, toServer', t, "DATA", c)
  BY <1>1, ServerReadsOwn DEF Commands
<1>3. TunnelTypes /\ ConnOK(c) /\ Proper(c, t) /\ LinkOK(t)
  BY <1>2 DEF TunnelInv
<1>4. /\ down' \in [Conn -> [sent : 0 .. MAX_DATA, got : Nat]]
      /\ \A d \in Conn \ {c} : down'[d] = down[d]
      /\ down'[c].sent = down[c].sent
      /\ down'[c].got = IF sock[c].at # "done" /\ c \in streams[t] THEN down[c].got + 1 ELSE down[c].got
  <2>1. down \in [Conn -> [sent : 0 .. MAX_DATA, got : Nat]]
    BY <1>3 DEF TunnelTypes
  <2>2. CASE sock[c].at # "done" /\ c \in streams[t]
    <3>1. down' = [down EXCEPT ![c].got = @ + 1]
      BY <1>1, <2>2
    <3> QED BY <2>1, <2>2, <3>1
  <2>3. CASE ~(sock[c].at # "done" /\ c \in streams[t])
    <3>1. down' = down
      BY <1>1, <2>1, <2>3
    <3> QED BY <2>1, <2>3, <3>1
  <2> QED BY <2>2, <2>3
<1>5. /\ streams' \in [Tun -> SUBSET Conn]
      /\ \A u \in Tun \ {t} : streams'[u] = streams[u]
      /\ streams'[t] = IF sock[c].at = "done" THEN streams[t] \ {c} ELSE streams[t]
  <2>1. streams \in [Tun -> SUBSET Conn]
    BY <1>3 DEF TunnelTypes
  <2>2. CASE sock[c].at = "done"
    <3>1. streams' = [streams EXCEPT ![t] = @ \ {c}]
      BY <1>1, <2>2
    <3> QED BY <2>1, <2>2, <3>1
  <2>3. CASE ~(sock[c].at = "done")
    <3>1. streams' = streams
      BY <1>1, <2>1, <2>3
    <3> QED BY <2>1, <2>3, <3>1
  <2> QED BY <2>2, <2>3
<1>6. UNCHANGED <<link, toClient, pending, sock, opening, targets, target, up>>
  BY <1>1
<1>7. OnWire(toServer', t, c) \in Nat
  BY <1>2, OnWireType
<1>8. OnWire(toClient, t, c) \in Nat /\ OnWire(toServer, t, c) \in Nat
  BY <1>3, OnWireType DEF TunnelTypes
<1>9. TunnelTypes'
  BY <1>3, <1>2, <1>4, <1>5, <1>6 DEF TunnelTypes
<1>10. \A u \in Tun : LinkOK(u)'
  BY <1>3, <1>2, <1>4, <1>5, <1>6 DEF TunnelInv, LinkOK, FrameRead
<1>11. \A d \in Conn \ {c} : ConnKept(d)
  BY <1>3, <1>2, <1>4, <1>5, <1>6 DEF ConnKept, TunnelTypes
<1>12. \A d \in Conn, u \in Tun :
         d # c \/ u # t => FramesKept(d, u) /\ TablesKept(d, u)
  BY <1>3, <1>2, <1>4, <1>5, <1>6, Keeping, TunnelConstants
     DEF FramesKept, TablesKept, TunnelTypes, FrameRead
<1>13. ConnOK(c)'
  BY <1>3, <1>2, <1>4, <1>5, <1>6
     DEF ConnOK, TunnelTypes, Before, Unasked, FrameRead, Commands, ThisTun
<1>14. Proper(c, t)'
  <2> USE DEF Proper, FrameRead, Commands
  <2>1. Asked(c, t)'
    BY <1>3, <1>2, <1>4, <1>5, <1>6, TunnelConstants
       DEF Asked, TunnelTypes, Unasked, Before
  <2>2. Targeted(c, t)'
    BY <1>3, <1>2, <1>4, <1>5, <1>6 DEF Targeted, TunnelTypes
  <2>3. Tabled(c, t)'
    BY <1>3, <1>2, <1>4, <1>5, <1>6 DEF Tabled, TunnelTypes, Targeted
  <2>4. NotDoubled(c, t)'
    BY <1>3, <1>2, <1>4, <1>5, <1>6, <1>8, <1>7 DEF NotDoubled, TunnelTypes
  <2>5. NotLost(c, t)'
    BY <1>3, <1>2, <1>4, <1>5, <1>6, <1>8, <1>7
       DEF NotLost, TunnelTypes, Targeted, Tabled, ConnOK
  <2> QED BY <1>3, <1>2, <1>4, <1>5, <1>6, <2>1, <2>2, <2>3, <2>4, <2>5
<1> QED BY <1>2, <1>6, <1>9, <1>10, <1>11, <1>12, <1>13, <1>14, OneConnection
           DEF ThisTun

(* No data is behind a close.                                              *)
LEMMA ServerClosesKeeps ==
    ASSUME TunnelInv, NEW t \in Tun, NEW c \in Conn, ServerCloses(t, c)
    PROVE  TunnelInv'
<1>1. /\ Receives(toServer, t, "CLOSE", c)
      /\ toServer' = Consume(toServer, t)
      /\ streams' = [streams EXCEPT ![t] = @ \ {c}]
      /\ UNCHANGED <<link, toClient, pending, sock, opening, targets, target, down, up>>
  BY DEF ServerCloses, serverSide, clientSide
<1>2. /\ t = ThisTun(c) /\ link[t] = "up"
      /\ toServer' \in [Tun -> Seq(ServerFrame)]
      /\ FrameRead(toServer, toServer', t, "CLOSE", c)
  BY <1>1, ServerReadsOwn DEF Commands
<1>3. TunnelTypes /\ ConnOK(c) /\ Proper(c, t) /\ LinkOK(t)
  BY <1>2 DEF TunnelInv
<1>4. OnWire(toClient, t, c) \in Nat /\ OnWire(toServer, t, c) \in Nat
  BY <1>3, OnWireType DEF TunnelTypes
<1>5. TunnelTypes'
  BY <1>1, <1>3, <1>2 DEF TunnelTypes
<1>6. \A u \in Tun : LinkOK(u)'
  BY <1>1, <1>3, <1>2 DEF TunnelInv, LinkOK, FrameRead
<1>7. \A d \in Conn \ {c} : ConnKept(d)
  BY <1>1, <1>3, <1>2 DEF ConnKept, TunnelTypes
<1>8. \A d \in Conn, u \in Tun :
         d # c \/ u # t => FramesKept(d, u) /\ TablesKept(d, u)
  BY <1>1, <1>3, <1>2, Keeping, TunnelConstants
     DEF FramesKept, TablesKept, TunnelTypes, FrameRead
<1>9. ConnOK(c)'
  BY <1>1, <1>3, <1>2 DEF ConnOK, TunnelTypes, Before, Unasked, FrameRead, Commands
<1>10. Proper(c, t)'
  <2> USE DEF Proper, FrameRead, Commands
  <2>1. Asked(c, t)'
    BY <1>1, <1>3, <1>2, TunnelConstants DEF Asked, TunnelTypes, Unasked, Before
  <2>2. Targeted(c, t)'
    BY <1>1, <1>3, <1>2 DEF Targeted, TunnelTypes
  <2>3. Tabled(c, t)'
    BY <1>1, <1>3, <1>2 DEF Tabled, TunnelTypes, Targeted
  <2>4. NotDoubled(c, t)'
    BY <1>1, <1>3, <1>2, <1>4 DEF NotDoubled, TunnelTypes
  <2>5. NotLost(c, t)'
    BY <1>1, <1>3, <1>2, <1>4 DEF NotLost, TunnelTypes
  <2> QED BY <1>1, <1>3, <1>2, <2>1, <2>2, <2>3, <2>4, <2>5
<1> QED BY <1>1, <1>3, <1>2, <1>5, <1>6, <1>7, <1>8, <1>9, <1>10, OneConnection
           DEF ThisTun

(* The answer opens the stream before the data behind it is read.          *)
LEMMA ReplyKeeps ==
    ASSUME TunnelInv, NEW t \in Tun, NEW c \in Conn, Reply(t, c)
    PROVE  TunnelInv'
<1>1. PICK cmd \in {"OK", "FAIL"} :
      /\ Receives(toServer, t, cmd, c) /\ c \in pending[t]
      /\ toServer' = Consume(toServer, t)
      /\ streams' = [streams EXCEPT ![t] = IF cmd = "OK" THEN @ \cup {c} ELSE @]
      /\ pending' = [pending EXCEPT ![t] = @ \ {c}]
      /\ sock' = [sock EXCEPT ![c].event = TRUE]
      /\ UNCHANGED <<link, toClient, opening, targets, target, down, up>>
  BY DEF Reply, serverSide, clientSide
<1>2. /\ t = ThisTun(c) /\ link[t] = "up"
      /\ toServer' \in [Tun -> Seq(ServerFrame)]
      /\ FrameRead(toServer, toServer', t, cmd, c)
  BY <1>1, ServerReadsOwn DEF Commands
<1>3. TunnelTypes /\ ConnOK(c) /\ Proper(c, t) /\ LinkOK(t)
  BY <1>2 DEF TunnelInv
<1>4. /\ sock' \in [Conn -> Socket]
      /\ sock'[c].at = sock[c].at /\ sock'[c].tun = sock[c].tun
      /\ sock'[c].event
      /\ \A d \in Conn \ {c} : sock'[d] = sock[d]
  BY <1>1, <1>3 DEF TunnelTypes, Socket
<1>5. OnWire(toClient, t, c) \in Nat /\ OnWire(toServer, t, c) \in Nat
  BY <1>3, OnWireType DEF TunnelTypes
<1>6. TunnelTypes'
  BY <1>1, <1>3, <1>2, <1>4 DEF TunnelTypes
<1>7. \A u \in Tun : LinkOK(u)'
  BY <1>1, <1>3, <1>2, <1>4 DEF TunnelInv, LinkOK, FrameRead
<1>8. \A d \in Conn \ {c} : ConnKept(d)
  BY <1>1, <1>3, <1>2, <1>4 DEF ConnKept, TunnelTypes
<1>9. \A d \in Conn, u \in Tun :
         d # c \/ u # t => FramesKept(d, u) /\ TablesKept(d, u)
  BY <1>1, <1>3, <1>2, <1>4, Keeping, TunnelConstants
     DEF FramesKept, TablesKept, TunnelTypes, FrameRead
<1>10. ConnOK(c)'
  BY <1>1, <1>3, <1>2, <1>4
     DEF ConnOK, TunnelTypes, Before, Unasked, FrameRead, Commands, Proper, Tabled
<1>11. Proper(c, t)'
  <2> USE DEF Proper, FrameRead, Commands
  <2>1. Asked(c, t)'
    BY <1>1, <1>3, <1>2, <1>4, TunnelConstants
       DEF Asked, TunnelTypes, Unasked, Before, Targeted
  <2>2. Targeted(c, t)'
    BY <1>1, <1>3, <1>2, <1>4 DEF Targeted, TunnelTypes
  <2>3. Tabled(c, t)'
    BY <1>1, <1>3, <1>2, <1>4 DEF Tabled, TunnelTypes, ConnOK, Unasked, Asked, Targeted
  <2>4. NotDoubled(c, t)'
    BY <1>1, <1>3, <1>2, <1>4, <1>5 DEF NotDoubled, TunnelTypes
  <2>5. NotLost(c, t)'
    BY <1>1, <1>3, <1>2, <1>4, <1>5 DEF NotLost, TunnelTypes, Asked, Targeted, Tabled
  <2> QED BY <1>1, <1>3, <1>2, <1>4, <2>1, <2>2, <2>3, <2>4, <2>5
<1> QED BY <1>1, <1>3, <1>2, <1>4, <1>6, <1>7, <1>8, <1>9, <1>10, <1>11, OneConnection
           DEF ThisTun

(* A tunnel that knows nothing of a connection has none of its data.       *)
LEMMA CleanWires ==
    ASSUME TunnelTypes, NEW c \in Conn, NEW t \in Tun, Clean(c, t)
    PROVE  /\ OnWire(toClient, t, c) = 0 /\ OnWire(toServer, t, c) = 0
           /\ CloseTrails(toServer[t], c)
<1>1. toClient[t] \in Seq(ClientFrame) /\ toServer[t] \in Seq(ServerFrame)
  BY DEF TunnelTypes
<1>2. ~On(toClient[t], Frame("DATA", c)) /\ ~On(toServer[t], Frame("DATA", c))
  BY DEF Clean, Commands, Carries
<1>3. CloseTrails(toServer[t], c)
  BY <1>2 DEF CloseTrails, Trails, On
<1> QED BY <1>1, <1>2, <1>3, CopiesType, OnWireCounts

(* The tunnel that is picked knows nothing of the connection yet.          *)
LEMMA PickTunnelKeeps ==
    ASSUME TunnelInv, NEW c \in Conn, PickTunnel(c)
    PROVE  TunnelInv'
<1>1. /\ sock[c].at = "greeted"
      /\ UNCHANGED <<link, toClient, toServer, pending, streams, clientSide, down, up>>
  BY DEF PickTunnel
<1>2. CASE \A t \in Tun : ~Alive(t)
  <2>1. sock' = SockAt(c, "done")
    BY <1>2 DEF PickTunnel
  <2> QED BY <1>1, <2>1, GoesOnKeeps DEF HandlerPlaces
<1>3. CASE \E t \in Tun : Alive(t)
  <2>1. PICK t \in Tun : /\ Alive(t)
                         /\ sock' = [sock EXCEPT ![c].at = "picked", ![c].tun = t]
    BY <1>3 DEF PickTunnel
  <2>2. UNCHANGED <<link, toClient, toServer, pending, streams, opening, targets, target, down, up>>
    BY <1>1 DEF clientSide
  <2>3. TunnelTypes /\ ConnOK(c) /\ ThisTun(c) = NoTun
    BY <1>1 DEF TunnelInv, ConnOK, Before, ThisTun
  <2>4. /\ sock' \in [Conn -> Socket]
        /\ sock'[c].at = "picked" /\ sock'[c].tun = t /\ sock'[c].event = sock[c].event
        /\ \A d \in Conn \ {c} : sock'[d] = sock[d]
    <3> DEFINE k == [[sock[c] EXCEPT !.at = "picked"] EXCEPT !.tun = t]
    <3>1. sock \in [Conn -> Socket] /\ sock[c] \in Socket
      BY <2>3 DEF TunnelTypes
    <3>2. k \in Socket /\ k.at = "picked" /\ k.tun = t /\ k.event = sock[c].event
      BY <3>1 DEF Socket
    <3>3. sock' = [sock EXCEPT ![c] = k]
      BY <2>1, <3>1
    <3> HIDE DEF k
    <3> QED BY <3>1, <3>2, <3>3
  <2>5. TunnelTypes'
    BY <2>2, <2>3, <2>4 DEF TunnelTypes
  <2>6. \A u \in Tun : LinkOK(u)'
    BY <2>2 DEF TunnelInv, LinkOK
  <2>7. \A d \in Conn \ {c} : ConnKept(d)
    BY <2>2, <2>4 DEF ConnKept
  <2>8. \A d \in Conn, u \in Tun : FramesKept(d, u) /\ TablesKept(d, u)
    BY <2>2, Keeping DEF FramesKept, TablesKept
  <2>9. ConnOK(c)'
    BY <1>1, <2>2, <2>3, <2>4 DEF ConnOK, Before, Unasked
  <2>10. \A u \in Tun : Clean(c, u)
    BY <2>3, TunnelConstants DEF TunnelInv
  <2>11. Proper(c, t)'
    <3>1. /\ Clean(c, t) /\ CloseTrails(toServer[t], c)
          /\ OnWire(toClient, t, c) = 0 /\ OnWire(toServer, t, c) = 0
      BY <2>3, <2>10, CleanWires
    <3>2. Asked(c, t)'
      BY <2>2, <3>1 DEF Asked, Clean, Commands
    <3>3. Targeted(c, t)'
      BY <1>1, <2>2, <2>3, <3>1 DEF Targeted, Clean, Commands, ConnOK, Unasked, Before
    <3>4. Tabled(c, t)'
      BY <2>2, <2>4, <3>1 DEF Tabled, Clean
    <3>5. NotDoubled(c, t)'
      <4>1. down[c].got = 0 /\ up[c].got = 0 /\ down[c].sent \in Nat /\ up[c].sent \in Nat
        BY <2>3, TunnelConstants DEF ConnOK, ThisTun, TunnelTypes
      <4>2. (OnWire(toClient, t, c) = 0 /\ OnWire(toServer, t, c) = 0)'
        BY <2>2, <3>1 DEF OnWire
      <4> QED BY <2>2, <4>1, <4>2 DEF NotDoubled
    <3>6. NotLost(c, t)'
      BY <2>4 DEF NotLost
    <3> QED BY <2>1, <2>2, <3>2, <3>3, <3>4, <3>5, <3>6 DEF Proper, Alive
  <2>12. ASSUME NEW d \in Conn PROVE ConnOK(d)'
    BY <2>7, <2>9, ConnOKKept DEF TunnelInv
  <2>13. ASSUME NEW d \in Conn, NEW u \in Tun
         PROVE  (IF u = ThisTun(d) THEN Proper(d, u) ELSE Clean(d, u))'
    <3>1. CASE d = c /\ u = t
      BY <2>4, <2>11, <3>1 DEF ThisTun
    <3>2. CASE d = c /\ u # t
      BY <2>4, <2>8, <2>10, <3>2, CleanKept DEF ThisTun
    <3>3. CASE d # c
      <4>1. ThisTun(d)' = ThisTun(d)
        BY <2>7, <3>3 DEF ConnKept, ThisTun
      <4>2. CASE u = ThisTun(d)
        BY <2>2, <2>7, <2>8, <3>3, <4>1, <4>2, ProperKept DEF TunnelInv
      <4>3. CASE u # ThisTun(d)
        BY <2>8, <4>1, <4>3, CleanKept DEF TunnelInv
      <4> QED BY <4>2, <4>3
    <3> QED BY <3>1, <3>2, <3>3
  <2> QED BY <2>5, <2>6, <2>12, <2>13 DEF TunnelInv
<1> QED BY <1>2, <1>3

-----------------------------------------------------------------------------
(* Links.                                                                  *)

(* A step of a link, which moves no connection to another tunnel.          *)
LEMMA OneLink ==
    ASSUME TunnelInv, NEW t \in Tun,
           TunnelTypes', \A u \in Tun : LinkOK(u)',
           \A u \in Tun \ {t} : link'[u] = link[u],
           \A d \in Conn : /\ sock'[d].tun = sock[d].tun
                           /\ sock[d].tun # t => ConnKept(d),
           \A d \in Conn, u \in Tun : u # t => FramesKept(d, u) /\ TablesKept(d, u),
           \A d \in Conn : /\ ThisTun(d) = t => ConnOK(d)' /\ Proper(d, t)'
                           /\ ThisTun(d) # t => Clean(d, t)'
    PROVE  TunnelInv'
<1>1. ASSUME NEW d \in Conn PROVE ConnOK(d)'
  BY ConnOKKept DEF TunnelInv, ThisTun
<1>2. ASSUME NEW d \in Conn, NEW u \in Tun
      PROVE  (IF u = ThisTun(d) THEN Proper(d, u) ELSE Clean(d, u))'
  <2>1. ThisTun(d)' = ThisTun(d)
    BY DEF ThisTun
  <2>2. CASE u = t
    BY <2>1, <2>2
  <2>3. CASE u # t /\ u = ThisTun(d)
    <3>1. ConnKept(d) /\ Proper(d, u)
      BY <2>3 DEF TunnelInv, ThisTun
    <3> QED BY <2>1, <2>3, <3>1, ProperKept
  <2>4. CASE u # t /\ u # ThisTun(d)
    BY <2>1, <2>4, CleanKept DEF TunnelInv
  <2> QED BY <2>2, <2>3, <2>4
<1> QED BY <1>1, <1>2 DEF TunnelInv

(* Connect, Join and Refuse: no connection has picked the tunnel yet.      *)
LEMMA JoinKeeps ==
    ASSUME TunnelInv, NEW t \in Tun, link[t] \in {"off", "auth"},
           NEW q \in {"off", "auth", "up"}, link' = [link EXCEPT ![t] = q],
           UNCHANGED <<toClient, toServer, serverSide, clientSide, down, up>>
    PROVE  TunnelInv'
<1>1. UNCHANGED <<toClient, toServer, pending, streams, sock, opening, targets, target, down, up>>
  BY DEF serverSide, clientSide
<1>2. TunnelTypes'
  BY <1>1 DEF TunnelInv, TunnelTypes
<1>3. \A u \in Tun \ {t} : link'[u] = link[u]
  BY DEF TunnelInv, TunnelTypes
<1>4. \A u \in Tun : LinkOK(u)'
  BY <1>1, <1>3 DEF TunnelInv, LinkOK
<1>5. \A d \in Conn : ThisTun(d) # t
  BY DEF TunnelInv, Proper
<1>6. \A d \in Conn : ConnKept(d) /\ sock'[d].tun = sock[d].tun
  BY <1>1 DEF ConnKept
<1>7. \A d \in Conn, u \in Tun : FramesKept(d, u) /\ TablesKept(d, u)
  BY <1>1, Keeping DEF FramesKept, TablesKept
<1>8. ASSUME NEW d \in Conn PROVE Clean(d, t)'
  BY <1>5, <1>7, CleanKept DEF TunnelInv
<1> QED BY <1>2, <1>3, <1>4, <1>5, <1>6, <1>7, <1>8, OneLink

(* Break and ReplyFails: nothing is under way any more.                    *)
LEMMA BreakKeeps ==
    ASSUME TunnelInv, NEW t \in Tun, NEW P \in SUBSET Conn,
           link[t] = "up", link' = [link EXCEPT ![t] = "broken"],
           pending' = [pending EXCEPT ![t] = @ \ P],
           toClient' = [toClient EXCEPT ![t] = <<>>],
           toServer' = [toServer EXCEPT ![t] = <<>>],
           opening' = [opening EXCEPT ![t] = NoConn],
           targets' = [targets EXCEPT ![t] = {}],
           UNCHANGED <<streams, sock, target, down, up>>
    PROVE  TunnelInv'
<1>1. TunnelTypes
  BY DEF TunnelInv
<1>2. /\ toClient' \in [Tun -> Seq(ClientFrame)] /\ WireLost(toClient, toClient', t)
      /\ toServer' \in [Tun -> Seq(ServerFrame)] /\ WireLost(toServer, toServer', t)
  BY <1>1, Emptying DEF TunnelTypes
<1>3. TunnelTypes'
  BY <1>1, <1>2 DEF TunnelTypes
<1>4. /\ link'[t] = "broken" /\ pending'[t] = pending[t] \ P
      /\ opening'[t] = NoConn /\ targets'[t] = {}
      /\ \A u \in Tun \ {t} : /\ link'[u] = link[u] /\ pending'[u] = pending[u]
                              /\ opening'[u] = opening[u] /\ targets'[u] = targets[u]
  BY <1>1 DEF TunnelTypes
<1>5. \A u \in Tun : LinkOK(u)'
  BY <1>2, <1>4 DEF TunnelInv, LinkOK, WireLost
<1>6. \A d \in Conn : ConnKept(d) /\ sock'[d].tun = sock[d].tun
  BY DEF ConnKept
<1>7. \A d \in Conn, u \in Tun : u # t => FramesKept(d, u) /\ TablesKept(d, u)
  BY <1>2, <1>4 DEF FramesKept, TablesKept, WireLost
<1>8. ASSUME NEW d \in Conn, ThisTun(d) # t PROVE Clean(d, t)'
  BY <1>2, <1>4, <1>8, TunnelConstants DEF TunnelInv, Clean, WireLost
<1>9. ASSUME NEW d \in Conn, ThisTun(d) = t PROVE ConnOK(d)' /\ Proper(d, t)'
  <2>1. ConnOK(d) /\ Proper(d, t)
    BY <1>9 DEF TunnelInv
  <2>2. /\ \A x \in Commands : ~Carries(toClient'[t], x, d) /\ ~Carries(toServer'[t], x, d)
        /\ OnWire(toClient', t, d) = 0 /\ OnWire(toServer', t, d) = 0
        /\ CloseTrails(toServer'[t], d)
    BY <1>2 DEF WireLost
  <2>3. OnWire(toClient, t, d) \in Nat /\ OnWire(toServer, t, d) \in Nat
    BY <1>1, OnWireType DEF TunnelTypes
  <2>4. Asked(d, t)'
    BY <1>4, <2>2, TunnelConstants DEF Asked, Commands
  <2>5. Targeted(d, t)'
    BY <1>4, <2>1, <2>2 DEF Targeted, Commands, Proper
  <2>6. Tabled(d, t)'
    BY <1>4, <2>1 DEF Tabled, Proper
  <2>7. NotDoubled(d, t)'
    <3>1. NotDoubled(d, t)
      BY <2>1 DEF Proper
    <3>2. /\ down[d].got \in Nat /\ up[d].got \in Nat
          /\ down[d].sent \in Nat /\ up[d].sent \in Nat
      BY <1>1, TunnelConstants DEF TunnelTypes
    <3> QED BY <2>2, <2>3, <3>1, <3>2 DEF NotDoubled
  <2>8. NotLost(d, t)'
    BY <1>4 DEF NotLost
  <2>9. ConnOK(d)'
    BY <1>6, <2>1, ConnOKKept
  <2> QED BY <1>4, <2>4, <2>5, <2>6, <2>7, <2>8, <2>9 DEF Proper
<1> QED BY <1>3, <1>4, <1>5, <1>6, <1>7, <1>8, <1>9, OneLink

(* The handlers that wait are woken, the tables emptied.                   *)
LEMMA DiscardKeeps ==
    ASSUME TunnelInv, NEW t \in Tun, Discard(t)
    PROVE  TunnelInv'
<1>1. /\ link[t] = "broken" /\ link' = [link EXCEPT ![t] = "closed"]
      /\ sock' = [c \in Conn |-> IF c \in pending[t] THEN [sock[c] EXCEPT !.event = TRUE]
                                 ELSE sock[c]]
      /\ pending' = [pending EXCEPT ![t] = {}]
      /\ streams' = [streams EXCEPT ![t] = {}]
      /\ UNCHANGED <<toClient, toServer, opening, targets, target, down, up>>
  BY DEF Discard, clientSide
<1>2. TunnelTypes
  BY DEF TunnelInv
<1>3. ASSUME NEW d \in Conn
      PROVE  /\ sock'[d] \in Socket
             /\ sock'[d].at = sock[d].at /\ sock'[d].tun = sock[d].tun
             /\ d \in pending[t] => sock'[d].event
             /\ d \notin pending[t] => sock'[d] = sock[d]
  <2>1. sock[d] \in Socket
    BY <1>2 DEF TunnelTypes
  <2>2. CASE d \in pending[t]
    <3>1. sock'[d] = [sock[d] EXCEPT !.event = TRUE]
      BY <1>1, <2>2
    <3> QED BY <2>1, <2>2, <3>1 DEF Socket
  <2>3. CASE d \notin pending[t]
    BY <1>1, <2>1, <2>3
  <2> QED BY <2>2, <2>3
<1>4. sock' \in [Conn -> Socket]
  BY <1>1, <1>3
<1>5. TunnelTypes'
  BY <1>1, <1>2, <1>4 DEF TunnelTypes
<1>6. /\ link'[t] = "closed" /\ pending'[t] = {} /\ streams'[t] = {}
      /\ \A u \in Tun \ {t} : /\ link'[u] = link[u] /\ pending'[u] = pending[u]
                              /\ streams'[u] = streams[u]
  BY <1>1, <1>2 DEF TunnelTypes
<1>7. LinkOK(t) /\ toClient[t] = <<>> /\ toServer[t] = <<>>
  BY <1>1 DEF TunnelInv, LinkOK
<1>8. \A u \in Tun : LinkOK(u)'
  BY <1>1, <1>6, <1>7 DEF TunnelInv, LinkOK
<1>9. ASSUME NEW d \in Conn, ThisTun(d) # t PROVE ConnKept(d) /\ Clean(d, t)'
  <2>1. Clean(d, t)
    BY <1>9 DEF TunnelInv
  <2> QED BY <1>1, <1>3, <1>6, <2>1 DEF Clean, ConnKept
<1>10. \A d \in Conn, u \in Tun : u # t => FramesKept(d, u) /\ TablesKept(d, u)
  BY <1>1, <1>6, Keeping DEF FramesKept, TablesKept
<1>11. ASSUME NEW d \in Conn, ThisTun(d) = t PROVE ConnOK(d)' /\ Proper(d, t)'
  <2>1. ConnOK(d) /\ Proper(d, t)
    BY <1>11 DEF TunnelInv
  <2>2. \A x : ~Carries(toClient[t], x, d) /\ ~Carries(toServer[t], x, d)
    BY <1>7, EmptyWire DEF Carries
  <2>3. opening[t] = NoConn
    BY <1>1, <1>7 DEF LinkOK
  <2>4. ConnOK(d)'
    BY <1>1, <1>3, <2>1 DEF ConnOK, Proper, Tabled, Before, Unasked
  <2>5. Asked(d, t)'
    BY <1>1, <2>2, <2>3, TunnelConstants DEF Asked
  <2>6. Targeted(d, t)'
    BY <1>1, <1>6, <2>1, <2>2 DEF Targeted, Proper
  <2>7. Tabled(d, t)'
    BY <1>6 DEF Tabled
  <2>8. NotDoubled(d, t)'
    BY <1>1, <2>1 DEF NotDoubled, Proper, OnWire
  <2>9. NotLost(d, t)'
    BY <1>6 DEF NotLost
  <2> QED BY <1>6, <2>4, <2>5, <2>6, <2>7, <2>8, <2>9 DEF Proper
<1> QED BY <1>3, <1>5, <1>6, <1>8, <1>9, <1>10, <1>11, OneLink DEF ThisTun

-----------------------------------------------------------------------------
(* A reader's drain ends; the table may lose a connection that is over.    *)
LEMMA DrainedKeeps ==
    ASSUME TunnelInv, NEW t \in Tun, DrainedAtServer(t) \/ DrainedAtClient(t)
    PROVE  TunnelInv'
<1>1. UNCHANGED <<link, toClient, toServer, pending, sock, opening, target, down, up>>
  BY DEF DrainedAtServer, DrainedAtClient, serverSide, clientSide
<1>2. TunnelTypes
  BY DEF TunnelInv
<1>3. /\ streams' \in [Tun -> SUBSET Conn] /\ targets' \in [Tun -> SUBSET Conn]
      /\ \A u \in Tun \ {t} : streams'[u] = streams[u] /\ targets'[u] = targets[u]
      /\ \A d \in Conn : /\ d \in streams'[t] => d \in streams[t]
                         /\ d \in streams[t] /\ sock[d].at # "done" => d \in streams'[t]
                         /\ d \in targets'[t] => d \in targets[t]
                         /\ d \in targets[t] /\ target[d] # "reset" => d \in targets'[t]
  <2>1. CASE DrainedAtServer(t)
    <3>1. PICK c : c = blocked[t].socks
      OBVIOUS
    <3>2. /\ UNCHANGED targets
          /\ UNCHANGED streams \/ (sock[c].at = "done"
                                   /\ streams' = [streams EXCEPT ![t] = @ \ {c}])
      BY <2>1, <3>1 DEF DrainedAtServer, clientSide
    <3>3. CASE UNCHANGED streams
      BY <1>2, <3>2, <3>3 DEF TunnelTypes
    <3>4. CASE sock[c].at = "done" /\ streams' = [streams EXCEPT ![t] = @ \ {c}]
      BY <1>2, <3>2, <3>4 DEF TunnelTypes
    <3> QED BY <3>2, <3>3, <3>4
  <2>2. CASE DrainedAtClient(t)
    <3>1. PICK c : c = blocked[t].target
      OBVIOUS
    <3>2. /\ UNCHANGED streams
          /\ UNCHANGED targets \/ (target[c] = "reset"
                                   /\ targets' = [targets EXCEPT ![t] = @ \ {c}])
      BY <2>2, <3>1 DEF DrainedAtClient, serverSide
    <3>3. CASE UNCHANGED targets
      BY <1>2, <3>2, <3>3 DEF TunnelTypes
    <3>4. CASE target[c] = "reset" /\ targets' = [targets EXCEPT ![t] = @ \ {c}]
      BY <1>2, <3>2, <3>4 DEF TunnelTypes
    <3> QED BY <3>2, <3>3, <3>4
  <2> QED BY <2>1, <2>2
<1>4. TunnelTypes'
  BY <1>1, <1>2, <1>3 DEF TunnelTypes
<1>5. \A u \in Tun : LinkOK(u)'
  BY <1>1, <1>2, <1>3 DEF TunnelInv, LinkOK, TunnelTypes
<1>6. \A d \in Conn : ConnKept(d) /\ sock'[d].tun = sock[d].tun
  BY <1>1 DEF ConnKept
<1>7. \A d \in Conn, u \in Tun : FramesKept(d, u) /\ (u # t => TablesKept(d, u))
  BY <1>1, <1>3, Keeping DEF FramesKept, TablesKept
<1>8. ASSUME NEW d \in Conn, ThisTun(d) # t PROVE Clean(d, t)'
  <2>1. Clean(d, t)
    BY <1>8 DEF TunnelInv
  <2> QED BY <1>1, <1>3, <2>1 DEF Clean
<1>9. ASSUME NEW d \in Conn, ThisTun(d) = t PROVE ConnOK(d)' /\ Proper(d, t)'
  <2>1. ConnOK(d) /\ Proper(d, t)
    BY <1>9 DEF TunnelInv
  <2>2. ConnOK(d)'
    BY <1>6, <2>1, ConnOKKept
  <2>3. Asked(d, t)'
    BY <1>1, <2>1 DEF Asked, Proper
  <2>4. Targeted(d, t)'
    BY <1>1, <1>3, <2>1 DEF Targeted, Proper
  <2>5. Tabled(d, t)'
    BY <1>1, <1>3, <2>1 DEF Tabled, Proper
  <2>6. NotDoubled(d, t)' /\ NotLost(d, t)'
    BY <1>1, <2>1 DEF NotDoubled, NotLost, Proper, OnWire
  <2> QED BY <1>1, <2>1, <2>2, <2>3, <2>4, <2>5, <2>6 DEF Proper
<1> QED BY <1>1, <1>4, <1>5, <1>6, <1>7, <1>8, <1>9, OneLink

(* Whom the readers wait for.                                              *)
BlockedOK == blocked \in [Tun -> [socks : Conn \cup {NoConn}, target : Conn \cup {NoConn}]]

LEMMA BlockedInit == TunnelInit => BlockedOK
BY DEF TunnelInit, BlockedOK

LEMMA BlockedKept == BlockedOK /\ [TunnelNext]_tunnelVars => BlockedOK'
<1> SUFFICES ASSUME BlockedOK, [TunnelNext]_tunnelVars PROVE BlockedOK'
  OBVIOUS
<1>1. ASSUME NEW t \in Tun, NEW c \in Conn \cup {NoConn},
             \/ blocked' = [blocked EXCEPT ![t].socks = c]
             \/ blocked' = [blocked EXCEPT ![t].target = c]
      PROVE  BlockedOK'
  BY <1>1 DEF BlockedOK
<1>2. ASSUME UNCHANGED blocked PROVE BlockedOK'
  BY <1>2 DEF BlockedOK
<1>3. ASSUME NEW t \in Tun,
             \/ Connect(t) \/ Join(t) \/ Refuse(t) \/ Break(t) \/ Discard(t)
             \/ DrainedAtServer(t) \/ DrainedAtClient(t)
      PROVE  BlockedOK'
  BY <1>1, <1>2, <1>3 DEF Connect, Join, Refuse, Break, Discard, DrainedAtServer,
     DrainedAtClient
<1>4. ASSUME NEW t \in Tun, ReadsAtServer(t) PROVE BlockedOK'
  BY <1>1, <1>2, <1>4 DEF ReadsAtServer, Reply, ReplyFails, ReplyLate, Deliver, ServerCloses
<1>5. ASSUME NEW t \in Tun, ReadsAtClient(t) PROVE BlockedOK'
  BY <1>1, <1>2, <1>5 DEF ReadsAtClient, Open, Opened, OpenFails, Write, ClientCloses
<1>6. ASSUME NEW c \in Conn,
             \/ Greet(c) \/ Request(c) \/ PickTunnel(c) \/ Register(c) \/ Ask(c)
             \/ GiveUp(c) \/ Answered(c) \/ ResetWaiting(c) \/ Forward(c) \/ HangUp(c)
             \/ RelayTarget(c) \/ RelayEnds(c) \/ RelayFails(c)
      PROVE  BlockedOK'
  BY <1>2, <1>6 DEF Greet, Request, PickTunnel, Register, Ask, GiveUp, Answered,
     ResetWaiting, Forward, HangUp, RelayTarget, RelayEnds, RelayFails
<1>7. ASSUME UNCHANGED tunnelVars PROVE BlockedOK'
  BY <1>2, <1>7 DEF tunnelVars
<1> QED BY <1>3, <1>4, <1>5, <1>6, <1>7 DEF TunnelNext

-----------------------------------------------------------------------------
(* The invariant holds at first ...                                        *)
LEMMA TunnelInvInit == TunnelInit => TunnelInv
<1> SUFFICES ASSUME TunnelInit PROVE TunnelInv
  OBVIOUS
<1> USE DEF TunnelInit
<1>1. <<>> \in Seq(ClientFrame) /\ <<>> \in Seq(ServerFrame)
  BY EmptySeq
<1>2. TunnelTypes
  BY <1>1, TunnelConstants DEF TunnelTypes, Socket, NoSock
<1>3. \A t \in Tun : LinkOK(t)
  BY DEF LinkOK
<1>4. \A c \in Conn : ConnOK(c)
  BY TunnelConstants DEF ConnOK, NoSock, Before, Unasked
<1>5. \A c \in Conn, t \in Tun : Clean(c, t) /\ t # ThisTun(c)
  BY TunnelConstants, EmptyWire DEF Clean, Carries, ThisTun, NoSock
<1> QED BY <1>2, <1>3, <1>4, <1>5 DEF TunnelInv

(* ... and every step keeps it.                                            *)
LEMMA TunnelInvNext == TunnelInv /\ [TunnelNext]_tunnelVars => TunnelInv'
<1> SUFFICES ASSUME TunnelInv, [TunnelNext]_tunnelVars PROVE TunnelInv'
  OBVIOUS
<1>1. ASSUME NEW t \in Tun, Connect(t) \/ Join(t) \/ Refuse(t) PROVE TunnelInv'
  <2>1. PICK q \in {"off", "auth", "up"} :
           /\ link[t] \in {"off", "auth"} /\ link' = [link EXCEPT ![t] = q]
           /\ UNCHANGED <<toClient, toServer, serverSide, clientSide, down, up>>
    BY <1>1 DEF Connect, Join, Refuse
  <2> QED BY <2>1, JoinKeeps
<1>2. ASSUME NEW t \in Tun, Break(t) PROVE TunnelInv'
  <2>1. PICK P \in SUBSET Conn : P = {}
    OBVIOUS
  <2>2. pending' = [pending EXCEPT ![t] = @ \ P]
    BY <1>2, <2>1 DEF Break, serverSide, TunnelInv, TunnelTypes
  <2>3. /\ link[t] = "up" /\ link' = [link EXCEPT ![t] = "broken"]
        /\ toClient' = [toClient EXCEPT ![t] = <<>>]
        /\ toServer' = [toServer EXCEPT ![t] = <<>>]
        /\ opening' = [opening EXCEPT ![t] = NoConn]
        /\ targets' = [targets EXCEPT ![t] = {}]
        /\ UNCHANGED <<streams, sock, target, down, up>>
    BY <1>2 DEF Break, serverSide
  <2> QED BY <2>2, <2>3, BreakKeeps
<1>3. ASSUME NEW t \in Tun, Discard(t) PROVE TunnelInv'
  BY <1>3, DiscardKeeps
<1>4. ASSUME NEW t \in Tun, NEW c \in Conn, ReplyFails(t, c) PROVE TunnelInv'
  <2>1. toServer[t] # <<>>
    BY <1>4 DEF ReplyFails, Receives
  <2>2. link[t] = "up"
    BY <2>1 DEF TunnelInv, LinkOK
  <2> QED BY <1>4, <2>2, BreakKeeps DEF ReplyFails
<1>5. ASSUME NEW t \in Tun, ReadsAtServer(t) PROVE TunnelInv'
  BY <1>4, <1>5, ReplyKeeps, ReplyLateKeeps, DeliverKeeps, ServerClosesKeeps
     DEF ReadsAtServer
<1>6. ASSUME NEW t \in Tun, ReadsAtClient(t) PROVE TunnelInv'
  BY <1>6, OpenKeeps, OpenedKeeps, OpenFailsKeeps, WriteKeeps, ClientClosesKeeps
     DEF ReadsAtClient
<1>7. ASSUME NEW c \in Conn, Greet(c) PROVE TunnelInv'
  <2>1. PICK q \in {"method", "done"} : sock' = SockAt(c, q)
    BY <1>7 DEF Greet
  <2> QED BY <1>7, <2>1, GoesOnKeeps DEF Greet, HandlerPlaces
<1>8. ASSUME NEW c \in Conn, Request(c) PROVE TunnelInv'
  <2>1. PICK q \in {"greeted", "done"} : sock' = SockAt(c, q)
    BY <1>8 DEF Request
  <2> QED BY <1>8, <2>1, GoesOnKeeps DEF Request, HandlerPlaces
<1>9. ASSUME NEW c \in Conn, Answered(c) PROVE TunnelInv'
  <2>1. PICK q \in HandlerPlaces : q = IF c \in streams[ThisTun(c)] THEN "relay" ELSE "done"
    BY DEF HandlerPlaces
  <2> QED BY <1>9, <2>1, GoesOnKeeps DEF Answered
<1>10. ASSUME NEW c \in Conn,
              \/ PickTunnel(c) \/ Register(c) \/ Ask(c) \/ GiveUp(c) \/ ResetWaiting(c)
              \/ Forward(c) \/ HangUp(c) \/ RelayTarget(c) \/ RelayEnds(c) \/ RelayFails(c)
       PROVE  TunnelInv'
  BY <1>10, PickTunnelKeeps, RegisterKeeps, AskKeeps, GiveUpKeeps, ResetWaitingKeeps,
     ForwardKeeps, HangUpKeeps, RelayTargetKeeps, RelayEndsKeeps, RelayFailsKeeps
<1>11. ASSUME UNCHANGED tunnelVars PROVE TunnelInv'
  <2>1. UNCHANGED <<link, toClient, toServer, pending, streams, sock, opening, targets, target,
                    down, up>>
    BY <1>11 DEF tunnelVars, serverSide, clientSide
  <2>2. TunnelTypes' /\ \A t \in Tun : LinkOK(t)'
    BY <2>1 DEF TunnelInv, TunnelTypes, LinkOK
  <2>3. ASSUME NEW d \in Conn PROVE ConnOK(d)' /\ ConnKept(d) /\ ThisTun(d)' = ThisTun(d)
    BY <2>1, ConnOKKept DEF ConnKept, TunnelInv, ThisTun
  <2>4. \A d \in Conn, u \in Tun : FramesKept(d, u) /\ TablesKept(d, u)
    BY <2>1, Keeping DEF FramesKept, TablesKept
  <2>5. ASSUME NEW d \in Conn, NEW u \in Tun
        PROVE  (IF u = ThisTun(d) THEN Proper(d, u) ELSE Clean(d, u))'
    <3>1. CASE u = ThisTun(d)
      BY <2>1, <2>3, <2>4, <3>1, ProperKept DEF TunnelInv
    <3>2. CASE u # ThisTun(d)
      BY <2>3, <2>4, <3>2, CleanKept DEF TunnelInv
    <3> QED BY <3>1, <3>2
  <2> QED BY <2>2, <2>3, <2>5 DEF TunnelInv
<1>12. ASSUME NEW t \in Tun, DrainedAtServer(t) \/ DrainedAtClient(t) PROVE TunnelInv'
  BY <1>12, DrainedKeeps
<1> QED BY <1>1, <1>2, <1>3, <1>5, <1>6, <1>7, <1>8, <1>9, <1>10, <1>11, <1>12 DEF TunnelNext

(* Every frame, table and handler is of its type: a connection is never    *)
(* both waited for and open at the server, and neither end writes more     *)
(* data than the other has sent, whatever becomes of the link.             *)
THEOREM TunnelTypeCorrect == TunnelSpec => []TunnelTypeOK
<1>1. TunnelInv /\ BlockedOK => TunnelTypeOK
  <2> SUFFICES ASSUME TunnelInv, BlockedOK PROVE TunnelTypeOK
    OBVIOUS
  <2>1. TunnelTypes
    BY DEF TunnelInv
  <2>2. ASSUME NEW t \in Tun PROVE pending[t] \cap streams[t] = {}
    <3>1. \A c \in Conn : c \in pending[t] => c \notin streams[t]
      BY <2>2 DEF TunnelInv, Proper, Tabled, Clean
    <3> QED BY <2>1, <3>1 DEF TunnelTypes
  <2>3. ASSUME NEW c \in Conn
        PROVE  /\ down[c] \in [sent : 0 .. MAX_DATA, got : 0 .. MAX_DATA]
               /\ up[c] \in [sent : 0 .. MAX_DATA, got : 0 .. MAX_DATA]
    <3>1. /\ down[c] \in [sent : 0 .. MAX_DATA, got : Nat]
          /\ up[c] \in [sent : 0 .. MAX_DATA, got : Nat]
      BY <2>1 DEF TunnelTypes
    <3>2. down[c].got <= down[c].sent /\ up[c].got <= up[c].sent
      <4>1. CASE ThisTun(c) \in Tun
        <5> PICK t \in Tun : t = ThisTun(c)
          BY <4>1
        <5>1. NotDoubled(c, t)
          BY DEF TunnelInv, Proper
        <5>2. OnWire(toClient, t, c) \in Nat /\ OnWire(toServer, t, c) \in Nat
          BY <2>1, OnWireType DEF TunnelTypes
        <5> QED BY <3>1, <5>1, <5>2, TunnelConstants DEF NotDoubled
      <4>2. CASE ThisTun(c) \notin Tun
        BY <3>1, <4>2, TunnelConstants DEF TunnelInv, ConnOK, ThisTun
      <4> QED BY <4>1, <4>2
    <3>3. down[c].got \in 0 .. MAX_DATA /\ up[c].got \in 0 .. MAX_DATA
      BY <3>1, <3>2, TunnelConstants
    <3> QED BY <3>1, <3>3
  <2>4. /\ down \in [Conn -> [sent : 0 .. MAX_DATA, got : 0 .. MAX_DATA]]
        /\ up \in [Conn -> [sent : 0 .. MAX_DATA, got : 0 .. MAX_DATA]]
    BY <2>1, <2>3 DEF TunnelTypes
  <2> QED BY <2>1, <2>2, <2>4
             DEF TunnelTypeOK, TunnelTypes, BlockedOK, ClientFrame, ServerFrame, Socket
<1> QED BY <1>1, TunnelInvInit, TunnelInvNext, BlockedInit, BlockedKept, PTL DEF TunnelSpec

(* While the link holds nothing of an established connection is lost or    *)
(* doubled in either direction: what one end sent was written to the other *)
(* or is on its wire, for any number of connections and tunnels, although  *)
(* each end fills its tables while frames are under way.                   *)
THEOREM NothingLost == TunnelSpec => []Accounted
<1>1. TunnelInv => Accounted
  <2> SUFFICES ASSUME TunnelInv, NEW c \in Conn, NEW t, t = ThisTun(c),
                      sock[c].at \in {"wait", "relay"}, link[t] = "up"
               PROVE  /\ target[c] # "none"
                         /\ (sock[c].at = "relay" \/ c \in pending[t] \/ sock[c].event) =>
                            down[c].got + OnWire(toServer, t, c) = down[c].sent
                      /\ target[c] = "open" => up[c].got + OnWire(toClient, t, c) = up[c].sent
    BY DEF Accounted
  <2>1. t \in Tun
    BY DEF TunnelInv, ConnOK, ThisTun
  <2>2. NotLost(c, t)
    BY <2>1 DEF TunnelInv, Proper
  <2> QED BY <2>2 DEF NotLost
<1> QED BY <1>1, TunnelInvInit, TunnelInvNext, PTL DEF TunnelSpec

=============================================================================

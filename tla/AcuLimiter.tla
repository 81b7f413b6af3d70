----------------------------- MODULE AcuLimiter -----------------------------
(***************************************************************************)
(* The soft limit in front of the acu channel: the token buckets of        *)
(* gateway/ratelimit.rs and their use by chat_completions_handler          *)
(* (gateway/handler/public.rs).  A request asks the global bucket, then    *)
(* that of its user, then, when its agent looks like a script, a third     *)
(* one.  A bucket is refilled when it is asked, and its owner is dropped   *)
(* after a while without use.  Who finds no token sleeps for the time one  *)
(* needs and goes on; it is not asked again.                               *)
(*                                                                         *)
(* Tokens are counted in parts and time in ticks; a wait is rounded up.    *)
(***************************************************************************)
EXTENDS Naturals, Sequences

CONSTANTS Req, Client, NoClient,
          Key, Global,
          Script,      \* buckets that refuse at once (check_script)
          Path,        \* Client -> the buckets it asks, in order
          UNIT,        \* parts of a token
          Cap, Rate,   \* Key -> capacity, and refill in a tick, in parts
          MAX_WAIT,    \* ACU_MAX_WAIT_SECS
          EXPIRE       \* a bucket unused for that long is dropped (600 s)

(* The longest of the code's buckets to fill takes 90 s.                   *)
ASSUME LimiterConstants ==
    /\ Global \in Key /\ Script \subseteq Key /\ NoClient \notin Client
    /\ Path \in [Client -> Seq(Key)] /\ \A c \in Client : Path[c] # <<>>
    /\ UNIT \in Nat \ {0} /\ MAX_WAIT \in Nat /\ EXPIRE \in Nat
    /\ Cap \in [Key -> Nat] /\ Rate \in [Key -> Nat \ {0}]
    /\ \A k \in Key : Cap[k] >= UNIT /\ EXPIRE * Rate[k] >= Cap[k]

VARIABLES bucket,   \* Key -> tokens when it was last asked, and time since then
          req       \* Req -> where the request is on its path, and its sleep

vars == <<bucket, req>>

Least(a, b) == IF a < b THEN a ELSE b
Full(k) == [tokens |-> Cap[k], idle |-> 0]
Away == [client |-> NoClient, pos |-> 1, at |-> "away", left |-> 0]

TypeOK ==
    /\ bucket \in [Key -> [tokens : Nat, idle : 0 .. EXPIRE]]
    /\ \A k \in Key : bucket[k].tokens <= Cap[k]
    /\ req \in [Req -> [client : Client \cup {NoClient}, pos : Nat \ {0},
                        at : {"away", "ask", "sleep"}, left : 0 .. MAX_WAIT]]
    /\ \A r \in Req : req[r].at # "away" =>
          req[r].client \in Client /\ req[r].pos \in 1 .. Len(Path[req[r].client])

Init ==
    /\ bucket = [k \in Key |-> Full(k)]
    /\ req = [r \in Req |-> Away]

Arrive(r) ==
    /\ req[r].at = "away"
    /\ \E c \in Client : req' = [req EXCEPT ![r] = [Away EXCEPT !.client = c, !.at = "ask"]]
    /\ UNCHANGED bucket

-----------------------------------------------------------------------------
(* TokenBucket::try_take refills first.                                    *)
Level(k) == Least(Cap[k], bucket[k].tokens + bucket[k].idle * Rate[k])
Asked(r) == Path[req[r].client][req[r].pos]

(* Mutation: the wait is rounded down.                                     *)
WaitShort(k) == (UNIT - Level(k)) \div Rate[k]

Wait(k) == (UNIT - Level(k) + Rate[k] - 1) \div Rate[k]

Set(k, n) == bucket' = [bucket EXCEPT ![k] = [tokens |-> n, idle |-> 0]]

(* To the next bucket, or on to the choice of a key.                       *)
Proceed(r) ==
    req' = [req EXCEPT ![r] =
        IF req[r].pos < Len(Path[req[r].client])
        THEN [req[r] EXCEPT !.pos = @ + 1, !.at = "ask"] ELSE Away]

Take(r) ==
    /\ req[r].at = "ask"
    /\ Level(Asked(r)) >= UNIT
    /\ Set(Asked(r), Level(Asked(r)) - UNIT)
    /\ Proceed(r)

Sleep(r) ==
    LET k == Asked(r) IN
    /\ req[r].at = "ask"
    /\ Level(k) < UNIT /\ k \notin Script /\ Wait(k) <= MAX_WAIT
    /\ Set(k, Level(k))
    /\ req' = [req EXCEPT ![r].at = "sleep", ![r].left = Wait(k)]

(* Too long to wait, or a script: 429.  Tokens of earlier buckets are gone.*)
Refuse(r) ==
    LET k == Asked(r) IN
    /\ req[r].at = "ask"
    /\ Level(k) < UNIT /\ (k \in Script \/ Wait(k) > MAX_WAIT)
    /\ Set(k, Level(k))
    /\ req' = [req EXCEPT ![r] = Away]

(* The sleeper goes on without taking a token.                             *)
Wake(r) ==
    /\ req[r].at = "sleep" /\ req[r].left = 0
    /\ Proceed(r)
    /\ UNCHANGED bucket

(* Mutation: every bucket is dropped.                                      *)
DropAnyway(k) ==
    /\ k # Global
    /\ bucket' = [bucket EXCEPT ![k] = Full(k)]
    /\ UNCHANGED req

(* The task of AcuRateLimiter::new; a dropped bucket is made anew, full,   *)
(* when it is next asked.                                                  *)
Drop(k) ==
    /\ k # Global
    /\ bucket[k].idle >= EXPIRE
    /\ bucket' = [bucket EXCEPT ![k] = Full(k)]
    /\ UNCHANGED req

(* Asking takes no time; a sleep may end late, never early.                *)
Tick ==
    /\ \A r \in Req : req[r].at # "ask"
    /\ bucket' = [k \in Key |-> [bucket[k] EXCEPT !.idle = Least(EXPIRE, @ + 1)]]
    /\ req' = [r \in Req |-> [req[r] EXCEPT !.left = IF @ = 0 THEN 0 ELSE @ - 1]]

Step(r) == Arrive(r) \/ Take(r) \/ Sleep(r) \/ Refuse(r) \/ Wake(r)
Next == (\E r \in Req : Step(r)) \/ (\E k \in Key : Drop(k)) \/ Tick

Spec == Init /\ [][Next]_vars

-----------------------------------------------------------------------------
(* Refilling when asked, forgetting idle buckets and sleeping instead of   *)
(* taking amount to buckets that a clock refills.                          *)
Eager == INSTANCE TokenBucket WITH level <- [k \in Key |-> Level(k)]
EagerSpec == Eager!Spec
=============================================================================

---------------------------- MODULE AccountPool ----------------------------
(***************************************************************************)
(* The account pool of acugw (acugw/src/pool.rs) and the chat handler that *)
(* leases from it (acugw/src/api.rs): acquire with healing, the guard that *)
(* releases on drop, ensure_login, the marks for failed accounts, and the  *)
(* stream task, which keeps the account but not the lease.                 *)
(*                                                                         *)
(* Tests and stores of an account's atomics are separate steps, for other  *)
(* threads can come between them: healing reads cooldown_until, loads      *)
(* state, stores it and clears error_count; a mark stores ST_ERROR first   *)
(* and sets the cooldown (or ST_INVALID) afterwards; mark_error also tests *)
(* the state before and counts in between; the release loads and stores.   *)
(*                                                                         *)
(* How long a cooldown, a throttle or a call lasts is left open (see       *)
(* CooldownEnds), with it muted_count, which only chooses the length.      *)
(* Which candidate acquire takes depends on last_released, last_used and   *)
(* a random throttle: any may be taken.  error_count is kept up to         *)
(* MAX_ERROR_COUNT, all that the code compares it with.                    *)
(***************************************************************************)
EXTENDS Naturals, FiniteSets

CONSTANTS Account, NoAccount,
          Req,               \* clients, each with one request at a time
          MAX_ERROR_COUNT,
          MAX_ATTEMPTS       \* of chat_completions

ASSUME PoolConstants ==
    /\ NoAccount \notin Account
    /\ IsFiniteSet(Req)
    /\ MAX_ERROR_COUNT \in Nat \ {0}
    /\ MAX_ATTEMPTS \in Nat \ {0}

VARIABLES state,    \* Account -> ST_IDLE, ST_BUSY, ST_ERROR or ST_INVALID
          cooling,  \* Account -> cooldown_until lies ahead
          errors,   \* Account -> error_count
          token,    \* Account -> is there a session token?
          job,      \* Req -> the handler's local state
          task      \* Req -> the stream task of the client's last stream

vars == <<state, cooling, errors, token, job, task>>

AccountState == {"IDLE", "BUSY", "ERROR", "INVALID"}

(* "drop" and "free" are the two halves of release.                        *)
Held == {"login", "call", "parse", "strike", "count", "punish", "cleanup", "nap",
         "drop", "free"}
Pc == Held \cup {"idle", "scan", "load", "store", "clear", "cas"}
Verdict == {"none", "cool", "invalid"}

Idle ==
    [pc |-> "idle", acc |-> NoAccount, attempt |-> 0, todo |-> {},
     verdict |-> "none", next |-> "drop", over |-> FALSE]
NoTask == [pc |-> "none", acc |-> NoAccount]

At(r, pc) == job[r].pc = pc
Acc(r) == job[r].acc
Goto(r, pc) == job' = [job EXCEPT ![r].pc = pc]
Holds(r, a) == job[r].pc \in Held /\ job[r].acc = a
Holders(a) == {r \in Req : Holds(r, a)}

-----------------------------------------------------------------------------
(* acquire                                                                 *)

Scanning(attempt) == [Idle EXCEPT !.pc = "scan", !.attempt = attempt, !.todo = Account]

(* One stream task per client is a bound of the model.                     *)
Arrive(r) ==
    /\ At(r, "idle") /\ task[r] = NoTask
    /\ job' = [job EXCEPT ![r] = Scanning(0)]
    /\ UNCHANGED <<state, cooling, errors, token, task>>

(* heal_if_cooled for the next account: the cooldown is read first ...     *)
HealRead(r, a) ==
    /\ At(r, "scan") /\ a \in job[r].todo
    /\ job' = [job EXCEPT ![r].todo = @ \ {a},
                          ![r].pc = IF cooling[a] THEN "scan" ELSE "load",
                          ![r].acc = IF cooling[a] THEN NoAccount ELSE a]
    /\ UNCHANGED <<state, cooling, errors, token, task>>

(* Mutation: only accounts with counted errors are healed.                 *)
HealLoadCounted(r) ==
    /\ At(r, "load")
    /\ job' = IF state[Acc(r)] = "ERROR" /\ errors[Acc(r)] > 0
              THEN [job EXCEPT ![r].pc = "store"]
              ELSE [job EXCEPT ![r].pc = "scan", ![r].acc = NoAccount]
    /\ UNCHANGED <<state, cooling, errors, token, task>>

(* ... then the state ...                                                  *)
HealLoad(r) ==
    /\ At(r, "load")
    /\ job' = IF state[Acc(r)] = "ERROR"
              THEN [job EXCEPT ![r].pc = "store"]
              ELSE [job EXCEPT ![r].pc = "scan", ![r].acc = NoAccount]
    /\ UNCHANGED <<state, cooling, errors, token, task>>

(* ... and the account goes back to the pool ...                           *)
HealStore(r) ==
    /\ At(r, "store")
    /\ state' = [state EXCEPT ![Acc(r)] = "IDLE"]
    /\ Goto(r, "clear")
    /\ UNCHANGED <<cooling, errors, token, task>>

(* ... with a clean record.                                                *)
HealClear(r) ==
    /\ At(r, "clear")
    /\ errors' = [errors EXCEPT ![Acc(r)] = 0]
    /\ job' = [job EXCEPT ![r].pc = "scan", ![r].acc = NoAccount]
    /\ UNCHANGED <<state, cooling, token, task>>

Candidate(a) == state[a] = "IDLE" /\ ~cooling[a]

(* The candidate may have to be waited for before the CAS.                 *)
Pick(r, a) ==
    /\ At(r, "scan") /\ job[r].todo = {}
    /\ Candidate(a)
    /\ job' = [job EXCEPT ![r].pc = "cas", ![r].acc = a]
    /\ UNCHANGED <<state, cooling, errors, token, task>>

NonePicked(r) ==
    /\ At(r, "scan") /\ job[r].todo = {}
    /\ \A a \in Account : ~Candidate(a)
    /\ job' = [job EXCEPT ![r] = Scanning(@.attempt)]
    /\ UNCHANGED <<state, cooling, errors, token, task>>

(* No account within 30 s: 503.                                            *)
TimedOut(r) ==
    /\ At(r, "scan") /\ job[r].todo = {}
    /\ job' = [job EXCEPT ![r] = Idle]
    /\ UNCHANGED <<state, cooling, errors, token, task>>

(* Mutation: a plain store instead of the compare-and-exchange.            *)
CasUnchecked(r) ==
    /\ At(r, "cas")
    /\ state' = [state EXCEPT ![Acc(r)] = "BUSY"]
    /\ Goto(r, "login")
    /\ UNCHANGED <<cooling, errors, token, task>>

Cas(r) ==
    /\ At(r, "cas")
    /\ IF state[Acc(r)] = "IDLE"
       THEN /\ state' = [state EXCEPT ![Acc(r)] = "BUSY"]
            /\ Goto(r, "login")
       ELSE /\ job' = [job EXCEPT ![r] = Scanning(@.attempt)]
            /\ UNCHANGED state
    /\ UNCHANGED <<cooling, errors, token, task>>

-----------------------------------------------------------------------------
(* ensure_login                                                            *)

Reuse(r) ==
    /\ At(r, "login") /\ token[Acc(r)]
    /\ Goto(r, "call")
    /\ UNCHANGED <<state, cooling, errors, token, task>>

LoginOk(r) ==
    /\ At(r, "login") /\ ~token[Acc(r)]
    /\ token' = [token EXCEPT ![Acc(r)] = TRUE]
    /\ cooling' = [cooling EXCEPT ![Acc(r)] = FALSE]
    /\ errors' = [errors EXCEPT ![Acc(r)] = 0]
    /\ Goto(r, "call")
    /\ UNCHANGED <<state, task>>

OneMore(n) == IF n < MAX_ERROR_COUNT THEN n + 1 ELSE n
AfterError(n) == IF n + 1 >= MAX_ERROR_COUNT THEN "invalid" ELSE "cool"

(* The first half of a mark; Punish is the second.                         *)
Mark(r, verdict, next) ==
    /\ state' = [state EXCEPT ![Acc(r)] = "ERROR"]
    /\ job' = [job EXCEPT ![r].pc = "punish", ![r].verdict = verdict, ![r].next = next]

(* The error is counted in both cases; a muted account only cools down.    *)
(* Unless it was the last attempt the handler naps with its guard in hand. *)
LoginFail(r, muted) ==
    /\ At(r, "login") /\ ~token[Acc(r)]
    /\ errors' = [errors EXCEPT ![Acc(r)] = OneMore(@)]
    /\ Mark(r, IF muted THEN "cool" ELSE AfterError(errors[Acc(r)]),
               IF job[r].attempt + 1 < MAX_ATTEMPTS THEN "nap" ELSE "drop")
    /\ UNCHANGED <<cooling, token, task>>

Punish(r) ==
    /\ At(r, "punish")
    /\ IF job[r].verdict = "cool"
       THEN cooling' = [cooling EXCEPT ![Acc(r)] = TRUE] /\ UNCHANGED state
       ELSE state' = [state EXCEPT ![Acc(r)] = "INVALID"] /\ UNCHANGED cooling
    /\ job' = [job EXCEPT ![r].pc = job[r].next, ![r].verdict = "none", ![r].next = "drop"]
    /\ UNCHANGED <<errors, token, task>>

-----------------------------------------------------------------------------
(* The calls to the upstream: create_session, the proof of work and chat   *)
(* fail alike, by handle_up_err.                                           *)

MarkTransient(r) ==
    /\ cooling' = [cooling EXCEPT ![Acc(r)] = TRUE]
    /\ Goto(r, "drop")
    /\ UNCHANGED <<state, errors, token, task>>

Muted(r, next) == Mark(r, "cool", next) /\ UNCHANGED <<cooling, errors, token, task>>

InvalidateToken(r) ==
    /\ token' = [token EXCEPT ![Acc(r)] = FALSE]
    /\ Goto(r, "drop")
    /\ UNCHANGED <<state, cooling, errors, task>>

(* mark_error does nothing to an account that is no longer ST_BUSY.        *)
MarkError(r) ==
    /\ Goto(r, IF state[Acc(r)] = "BUSY" THEN "strike" ELSE "drop")
    /\ UNCHANGED <<state, cooling, errors, token, task>>

Strike(r) ==
    /\ At(r, "strike")
    /\ state' = [state EXCEPT ![Acc(r)] = "ERROR"]
    /\ Goto(r, "count")
    /\ UNCHANGED <<cooling, errors, token, task>>

Count(r) ==
    /\ At(r, "count")
    /\ errors' = [errors EXCEPT ![Acc(r)] = OneMore(@)]
    /\ job' = [job EXCEPT ![r].pc = "punish", ![r].verdict = AfterError(errors[Acc(r)])]
    /\ UNCHANGED <<state, cooling, token, task>>

(* classify_up_err searches the message for words; any class may come out. *)
HandleUpErr(r) == Muted(r, "drop") \/ InvalidateToken(r) \/ MarkTransient(r) \/ MarkError(r)

(* The session that was created is deleted first: a client that leaves     *)
(* meanwhile (Cancel) leaves the account unmarked.                         *)
UpErr(r) == At(r, "call") /\ HandleUpErr(r)

(* A plain response: text, a rate-limit hint, or nothing.                  *)
Answer(r) ==
    /\ At(r, "call")
    /\ job' = [job EXCEPT ![r].pc = "drop", ![r].over = TRUE]
    /\ UNCHANGED <<state, cooling, errors, token, task>>

RateLimited(r) == At(r, "call") /\ Muted(r, "cleanup")
EmptyAnswer(r) == At(r, "call") /\ MarkTransient(r)

(* A stream: a task of its own relays the events while the handler waits   *)
(* for the parser; the parser may end before the task has read its last    *)
(* event.                                                                  *)
Stream(r) ==
    /\ At(r, "call")
    /\ task' = [task EXCEPT ![r] = [pc |-> "relay", acc |-> Acc(r)]]
    /\ job' = [job EXCEPT ![r].pc = "parse", ![r].over = TRUE]
    /\ UNCHANGED <<state, cooling, errors, token>>

(* The parser ends, the session is deleted, the nap is over.               *)
Resume(r) ==
    /\ job[r].pc \in {"parse", "cleanup", "nap"}
    /\ Goto(r, "drop")
    /\ UNCHANGED <<state, cooling, errors, token, task>>

-----------------------------------------------------------------------------
(* The guard is dropped: release, then the next attempt or the end.        *)

Finished(r) ==
    job' = [job EXCEPT ![r] =
               IF @.over \/ @.attempt + 1 >= MAX_ATTEMPTS THEN Idle
               ELSE Scanning(@.attempt + 1)]

(* Mutation: a handler that has its answer does not release.               *)
DropLoadLeaky(r) ==
    /\ At(r, "drop")
    /\ IF state[Acc(r)] = "BUSY" /\ ~job[r].over THEN Goto(r, "free") ELSE Finished(r)
    /\ UNCHANGED <<state, cooling, errors, token, task>>

DropLoad(r) ==
    /\ At(r, "drop")
    /\ IF state[Acc(r)] = "BUSY" THEN Goto(r, "free") ELSE Finished(r)
    /\ UNCHANGED <<state, cooling, errors, token, task>>

DropStore(r) ==
    /\ At(r, "free")
    /\ state' = [state EXCEPT ![Acc(r)] = "IDLE"]
    /\ Finished(r)
    /\ UNCHANGED <<cooling, errors, token, task>>

(* The client disconnects: the handler's future is dropped at an await,    *)
(* the guard with it; the stream task goes on.                             *)
Cancel(r) ==
    /\ \/ At(r, "cas") /\ job' = [job EXCEPT ![r] = Idle]
       \/ /\ job[r].pc \in {"login", "call", "parse", "cleanup", "nap"}
          /\ job' = [job EXCEPT ![r].pc = "drop", ![r].over = TRUE]
    /\ UNCHANGED <<state, cooling, errors, token, task>>

-----------------------------------------------------------------------------
(* The stream task.                                                        *)

TaskMuted(r) ==
    /\ task[r].pc = "relay"
    /\ state' = [state EXCEPT ![task[r].acc] = "ERROR"]
    /\ task' = [task EXCEPT ![r].pc = "mark"]
    /\ UNCHANGED <<cooling, errors, token, job>>

(* The cooldown of a mute, or that of a hint without a rate limit.         *)
TaskCools(r) ==
    /\ task[r].pc \in {"mark", "relay"}
    /\ cooling' = [cooling EXCEPT ![task[r].acc] = TRUE]
    /\ task' = [task EXCEPT ![r] = NoTask]
    /\ UNCHANGED <<state, errors, token, job>>

TaskEnds(r) ==
    /\ task[r].pc = "relay"
    /\ task' = [task EXCEPT ![r] = NoTask]
    /\ UNCHANGED <<state, cooling, errors, token, job>>

(* Cooldowns last 20 s and more (300 s after a mute; after a failed login  *)
(* what humanize::backoff, which is not in the repository, makes of 30 s): *)
(* longer than the nap, the deletion of a session and the drop that follow *)
(* in the handler that has set one.                                        *)
CooldownEnds(a) ==
    /\ cooling[a]
    /\ \A r \in Req : ~(Holds(r, a) /\ job[r].pc \in {"nap", "cleanup", "drop", "free"})
    /\ cooling' = [cooling EXCEPT ![a] = FALSE]
    /\ UNCHANGED <<state, errors, token, job, task>>

-----------------------------------------------------------------------------
Init ==
    /\ state = [a \in Account |-> "IDLE"]
    /\ cooling = [a \in Account |-> FALSE]
    /\ errors = [a \in Account |-> 0]
    /\ token = [a \in Account |-> FALSE]
    /\ job = [r \in Req |-> Idle]
    /\ task = [r \in Req |-> NoTask]

Acquire(r) ==
    \/ \E a \in Account : HealRead(r, a) \/ Pick(r, a)
    \/ HealLoad(r) \/ HealStore(r) \/ HealClear(r)
    \/ NonePicked(r) \/ TimedOut(r) \/ Cas(r)
Use(r) ==
    \/ Reuse(r) \/ LoginOk(r) \/ (\E muted \in BOOLEAN : LoginFail(r, muted))
    \/ UpErr(r) \/ Strike(r) \/ Count(r) \/ Punish(r) \/ Answer(r) \/ RateLimited(r) \/ EmptyAnswer(r)
    \/ Stream(r) \/ Resume(r) \/ DropLoad(r) \/ DropStore(r)
Task(r) == TaskMuted(r) \/ TaskCools(r) \/ TaskEnds(r)

Next ==
    \/ \E r \in Req : Arrive(r) \/ Acquire(r) \/ Use(r) \/ Cancel(r) \/ Task(r)
    \/ \E a \in Account : CooldownEnds(a)

Spec == Init /\ [][Next]_vars

(* tokio runs handlers and tasks, calls return or time out, cooldowns end, *)
(* and clients keep asking: only acquire heals accounts.                   *)
Fairness ==
    /\ \A r \in Req : /\ WF_vars(Arrive(r)) /\ WF_vars(Acquire(r))
                      /\ WF_vars(Use(r)) /\ WF_vars(Task(r))
    /\ \A a \in Account : WF_vars(CooldownEnds(a))

-----------------------------------------------------------------------------
(* Properties.                                                             *)

TypeOK ==
    /\ state \in [Account -> AccountState]
    /\ cooling \in [Account -> BOOLEAN] /\ token \in [Account -> BOOLEAN]
    /\ errors \in [Account -> 0 .. MAX_ERROR_COUNT]
    /\ job \in [Req -> [pc : Pc, acc : Account \cup {NoAccount},
                        attempt : 0 .. MAX_ATTEMPTS - 1, todo : SUBSET Account,
                        verdict : Verdict, next : {"drop", "nap", "cleanup"},
                        over : BOOLEAN]]
    /\ task \in [Req -> [pc : {"none", "relay", "mark"}, acc : Account \cup {NoAccount}]]

(* No account is lost to the pool as ST_BUSY: one that is busy is held by  *)
(* a request that will drop its guard, through errors on every path,       *)
(* disconnects, healing by others and late marks of stream tasks.          *)
BusyIsHeld == \A a \in Account : state[a] = "BUSY" => Holders(a) # {}

(* A failed account comes back or is found invalid: as long as requests    *)
(* come, acquire heals it when its cooldown is over, whatever marked it    *)
(* and however late.                                                       *)
AccountReturns == \A a \in Account : (state[a] = "ERROR") ~> (state[a] \in {"IDLE", "INVALID"})
=============================================================================

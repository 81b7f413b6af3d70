# aqua-rust: specification and verification

TLA+ modules for the aqua API gateway (`src/src`), its companion account gateway
`acugw` (`src/acugw`) and its tunnel (`src/tunnel`), with TLC runs on small
instances and TLAPS proofs for every value of the constants.  Paths below are
relative to the repository; `gateway/…` and `platform/…` stand for
`src/src/gateway/…` and `src/src/platform/…`.

## 1. The system

aqua is an OpenAI-compatible gateway.  A request is authenticated, checked, and
forwarded to an upstream with a key the scheduler chooses; failures are retried
with other keys; a per-model circuit breaker refuses requests while an upstream
is down.  Models under `acu/` go to `acugw`, a second process that multiplexes
them over a pool of upstream accounts.  A platform (accounts, API keys,
administration) shares the database; a SOCKS5 tunnel lets a server reach targets
through clients elsewhere.

The servers run as tokio tasks on several threads, the tunnel as asyncio tasks.
Shared state is in memory (`DashMap`s, mutexes, atomics) and in PostgreSQL; there
are hardly any transactions around check-then-act sequences, and a handler's future
is dropped at its current `await` when the client disconnects.

### Inventory

| component | state | operations | interacts with | what makes it correct |
|---|---|---|---|---|
| circuit breaker (`gateway/circuit.rs`) | one `ModelBreaker` per model: state, counters, window start, end of the open term | `can_request`, `record_success`, `record_failure` | the request handlers, and the stream tasks they leave behind | trips only on a burst, bounded probing, recovers by itself |
| key buckets (`gateway/scheduler.rs`) | one `BucketState` per key: cooldown, window, lifetime counters, health score, in-flight count | `record_response`, `begin_request`, `end_request`, four selections, `run_background_tasks` | handlers, the sweep task, the admin page | counters agree, begin and end pair up, a key always comes back |
| choice among keys (`gateway/scheduler.rs`) | sticky mark, round-robin index, key list (30 s), decrypted keys (5 min) | `select_key`, `load_active_keys`, the minute task | database, upstream administration | a disabled key falls out of use in bounded time |
| request handlers (`gateway/handler/public.rs`) | locals of the retry loop: attempt, tried keys, backoff | chat completions, embeddings, three further protocols; body and stream relays | all of the above | every request answered, failover complete, each admission answered for at most once |
| admission (`public.rs`, `gateway/validator.rs`, `model/upstream.rs`) | list of upstream models | name correction, parameter repair, availability | catalogue, health patrol, prompt cache | what is repaired is accepted, a refused model comes back |
| model health (`gateway/model_health.rs`) | failed models with the time of their mark | `refresh` from the request log | chat handler, models page, request log | sick models are delisted, well ones come back |
| prompt cache (`gateway/prompt_cache.rs`) | map with expiry | `build_key`, `get`, `put` | chat handler | old answers go, fresh ones stay |
| acu rate limiter (`gateway/ratelimit.rs`) | token buckets: global, user, super user, script | `check_*`, `cleanup` | chat handler, which sleeps outside the bucket | buckets behave as if a clock refilled them |
| platform accounts (`platform/handler/auth.rs`, `console.rs`, `platform/service.rs`) | users, sessions, mail codes; login limits in memory | login, logout, reset, change of mail | database, SMTP | a reset ends old sessions, a code is used once |
| client addresses (four functions) | none | read the address off the headers | limits and blocks of both halves | one client, one address |
| platform console (`platform/handler/console.rs`) | API keys in two tables | create, toggle, delete, close account | gateway authentication, both administrations | at most five active keys, the two tables agree |
| administration (`*/handler/admin*.rs`, `security/admin_token.rs`, `gateway/detect.rs`) | session rows, two CSRF maps, blocked addresses and their copy | logins, logout, bans, releases, upstream keys | database, the other process of a hot update | a login works, a logout ends, the copy follows its table |
| account pool (`acugw/src/pool.rs`, `api.rs`) | per account: state, token, cooldown, error and mute counts | `acquire`, guard drop, `ensure_login`, marks, healing | handlers and stream tasks | one holder per account, no account lost |
| account stream relay (`acugw/src/api.rs`, `sse.rs`) | the parser's patch state, two bounded channels between parser, relay task and client | parse, relay, aggregate | account pool | a stream that carried text ends properly |
| tunnel (`tunnel/tunnel.py`) | pool of tunnels, pending and open connections and a lock at the server, targets at the client | SOCKS connect, frames, heartbeat, teardown | SOCKS clients, targets | nothing is lost, and nothing left open for ever while all read |
| signing, the platform's chat (but for its list of models), SSE proxy, translation, cryptography, configuration, web pages, deployment | none that steps could disturb, or out of use | | | not modelled, see section 8 |

### What is hard here

- outcomes of concurrent requests reach a breaker or a bucket late, out of order,
  from detached tasks, or never (client gone, stream cut);
- decisions are taken on a copy of the state and written afterwards;
- counters are reset lazily, by the next event;
- background tasks replace or drop state that is in use, from reads made earlier;
- tests followed by separate atomic stores, in `acugw`;
- check-then-insert, and writes to two tables one after the other, whose errors are
  discarded;
- two processes with separate memory and one database during a hot update;
- frames of many connections on one ordered wire, against tables filled meanwhile.

`PROJECT.json` lists these hazards at their lines, with the properties on them.

## 2. Modules and the code

| module | models | checked by | proved in |
|---|---|---|---|
| `CircuitBreaker` | `gateway/circuit.rs` | `breaker` | `CircuitBreakerProofs` |
| `KeyBucket` | a bucket of `gateway/scheduler.rs` and the attempts that use it | `bucket` | `SchedulerProofs` |
| `Gateway` | the retry loop and the streams of `gateway/handler/public.rs`, over `CircuitBreaker` | `gateway` | `GatewayProofs` |
| `KeyPool` | the key list of `gateway/scheduler.rs` and its selections, upstream administration | `keypool` | `SchedulerProofs` |
| `Validation`, `Admission` | checks before the loop, health patrol, request log, prompt cache | `admission` | `GatewayProofs` |
| `TokenBucket`, `AcuLimiter` | `gateway/ratelimit.rs` and its use | `limiter` | `AcuLimiterProofs` |
| `ClientAddress`, `Accounts` | platform accounts, sessions, mail codes, login limits | `accounts` | `AccountsProofs` |
| `KeyLife`, `UserKeys` | the two tables of API keys | `keys` | `UserKeysProofs` |
| `Control` | administrators' logins and sessions, blocked addresses | `control` | `ControlProofs` |
| `AccountPool` | `acugw/src/pool.rs` and its use in `acugw/src/api.rs` | `pool` | `AcugwProofs` |
| `PatchParser`, `AcuRelay` | parser, relay and aggregation in `acugw/src/sse.rs`, `api.rs` | `relay` | `AcugwProofs` |
| `Tunnel` | `tunnel/tunnel.py`, both ends | `tunnel` | `AcugwProofs` |

`MC…` modules extend a component with a small instance and, where a property
speaks of the past, with history variables that no action reads.  `PROJECT.json`
maps every definition to its lines.  Three modules are abstract specifications that
another is shown to implement: `CircuitBreaker` for `Gateway` (`BreakerProtocol`),
`KeyLife` for `UserKeys` (`LifeSpec`) and `TokenBucket` for `AcuLimiter`
(`EagerSpec`).

**CircuitBreaker.**  `breakers` is the `DashMap` (`NoEntry`: no entry yet), one
record per model with the fields of `ModelBreaker`; instants are kept as the time
left (`open_left`) or the age, saturated, and advanced by `Tick`.  Each of the three
operations runs under the entry's lock and is one action: `CanRequest`,
`RecordSuccess`, `RecordFailure`.  `call` is the caller's side: whether a request is
out, and whether it was admitted as a probe.  `Abandon` is the caller that never
reports (client gone, no key), `ForeignSuccess` the one that reports without having
asked (streams of dedicated lines).

**KeyBucket.**  `bucket` has the fields of `BucketState` that anything but the admin
page reads; the health score is an exact fraction, the window's mean response time is
the score it earns.  `job` is an attempt's place in the handler.  `record_response`,
`begin_request` and `end_request` are atomic under the bucket's lock; a selection is
two steps (`Choose` decides on a copy, `Commit` writes), and so is the sweep
(`SweepCollect`, `SweepRemove`), as in the code.

**Gateway.**  `job[r]` is the loop of one request: place, kind (shared chat, special,
line, acu, multi-protocol), attempt, tried keys.  Actions are the stretches between
two accesses to shared state: `LoopTop` (`Admitted`/`Refused`), `Select`/`NoneSelected`,
`Unusable`, `Send`, the replies, `ErrorReported`, `Settle`, `ConnError`, `Exhausted`,
`Sleep`, `Wake`; `StreamDone` and `StreamCut` are the relay task.  The breaker is
`CB == INSTANCE CircuitBreaker` on the same variables, and `CB!Spec` is the abstract
specification that the handlers are shown to implement (`BreakerProtocol`).  What the
keys' buckets do is reduced to the one effect the loop sees, a fixed key's cooldown;
that any untried key may be selected rests on `HealthFloor` and on the fallback of
`select_key` (theorem `FallbackTakesAnyKey`).

**AccountPool.**  `state`, `cooling`, `errors`, `token` are an account's atomics and
mutexes.  Every load and store that another thread can come between is a step:
healing is four (`HealRead`, `HealLoad`, `HealStore`, `HealClear`), `mark_error` four
(`MarkError`, `Strike`, `Count`, `Punish`), the other marks two, the release two.
`job` is the handler with its guard (`Held` are the places where it has one), `task`
the stream task, which keeps the account without a guard.

**AcuRelay.**  One request after `chat` has succeeded.  The upstream writes a document
in patches, in every form the parser knows (this end is taken: the upstream is not in
the repository); `PatchParser` makes events of them, with the path and operation that
shortened patches inherit.  `chan` and `body` are the two bounded channels with the
blocking `send` of the parser and the dropping `try_send` of the relay task; `handler`,
`reader`, `parser` and `client` are the four parties.

**KeyPool.**  `active` is what the table says, `cache` the list in memory with its age.
A query has two steps, the moment its rows are read and the moment they are stored;
other selections and the minute task run in between.  A failed query falls back as in
`load_active_keys`.  `lag` says for how long a key has been inactive, which no action
reads.  Which key of the right scope is taken is left open: the health of keys is
`KeyBucket`'s subject.

**Validation, Admission.**  `Validation` holds the pure parts: the ways to find a model
by a name (exact, alias, normalised, similar by Levenshtein distance), the ranges of
parameters with the repair and the check.  `Admission` extends it with state: `listed`
(the models received from the upstream, before that all but the known retired), `rows`
(the counted rows of the request log by age), `mark` (the failed models), `patrol`
(statistics read and not yet written), `cache`.  A chat request tests the marks, may sleep,
looks into the cache, and is answered; its log row is written by a task that may fail.

**TokenBucket, AcuLimiter.**  A bucket is the tokens it had when last asked and the time
since.  Whoever asks has it refilled, and takes a token, sleeps for the time one needs, or
is refused (`Take`, `Sleep`, `Refuse`); `Drop` forgets an idle bucket.  `TokenBucket` is the
same with a clock that refills all buckets; the refinement mapping is the level a bucket
would have if it were asked now (`Level`).

**ClientAddress, Accounts.**  `ClientAddress` has the four functions that read an
address off the headers.  In `Accounts` a password is a generation number; `session`,
`code`, `status`, `password`, `email` are rows, `tries` and `fails` the login limits in
memory, keyed by what `ClientAddress` returns.  Each SQL statement of login, reset and
change of mail is a step.

**KeyLife, UserKeys.**  A key has a row in `client_api_keys` (`clientKey`) and one in
`user_api_keys` (`userKey`).  Every SQL statement of the handlers that write twice is a
step; a statement may fail, or succeed and lose its answer, and handlers are dropped.
`KeyLife` is the life of one key over its two rows: issued, listed, switched, marked,
withdrawn, never back.

**Control.**  `sess` are the rows of `admin_sessions`, `csrf` the two maps in memory, by
the second in which the token expires, for a token holds nothing else.  `old` and
`overlap` are the process that a hot update leaves for its last requests; a logout
during a hot update is taken to reach the new one.  `ip_blocked` is the table, `blocked`
the monitor's copy, rebuilt by `ReadBlocked`, `Clear` and `Enter`.

**Tunnel.**  Both ends with their links and tables: the server's handler of a SOCKS
connection, its reader and ping per tunnel, the client's reader and its task per target.
Frames are on two ordered wires per tunnel, which take `ROOM` frames; whoever waits in
`drain` for room on a wire has not sent (`Full`), the server's handlers with the tunnel's
lock (`LockFree`), and `blocked` has the SOCKS client and the target that the two readers wait
for.  A link breaks at any moment and each end finds out by itself.

## 3. The runs

| run | what it shows |
|---|---|
| `breaker` | State, counters and timers agree under every order of admissions and late outcomes (`BreakersConsistent`); probes are bounded (`ProbesBounded`); only a burst of 5xx inside one window trips it (`TripsOnlyOnBurst`); an open breaker is probed again (`OpenEnds`). |
| `bucket` | The health score never falls below 20 (`HealthFloor`), the in-flight count is exact until something disturbs it (`InflightExact`), a key always comes back (`KeyReturns`). |
| `gateway` | Each admission is owned and answered once (`AdmissionsOwned`), an open breaker stops retries (`OnceWhileOpen`), failover is complete (`FailoverComplete`), every request is answered (`Answered`), and the handlers implement the caller's side of the breaker (`BreakerProtocol`). |
| `pool` | No account is lost as busy (`BusyIsHeld`), leases are exclusive unless healing overtakes a mark (`ExclusiveUnlessOvertaken`), failed accounts return (`AccountReturns`). |
| `relay` | At most one `[DONE]`, and last (`DoneOnceAndLast`); answers that fit the body channel arrive as the upstream wrote them, whatever form the patches had (`ShortStreamsComplete`); the handler returns (`HandlerReturns`). |
| `keys` | The limit of active keys is passed by overlapping requests, faults and unbans only (`LimitOvershoot`); the tables agree when nothing failed (`TablesAgree`); every key lives `KeyLife` (`LifeSpec`). |
| `accounts` | A reset ends the sessions of the old password but for a login under way (`ResetEndsSessions`); a code makes one change unless two handlers had read it (`CodeSpentOnce`); behind the proxies the repository sets up each of the four address functions returns what section 4 says of it, the client's address in all cases but those named there (`AddressRight`). |
| `keypool` | A disabled key is handed out only within the life of the list plus the time of a query (`StaleBound`), and falls out of use in the end (`DisabledLeaves`). |
| `limiter` | Lazily refilled and forgotten buckets behave as buckets a clock refills (`EagerSpec`); a waiter wakes to a whole token if nobody used the bucket meanwhile (`WakeInTime`). |
| `tunnel` | What one end sent was written at the other or is on the wire (`Accounted`); the end of one side reaches the other, unless the tunnel stands still for good (`EndReaches`). |
| `admission` | The row-by-row edit distance is the least number of edits (`DistanceRight`); repaired parameters pass the check (`SanitizedIsAccepted`); no model is out for longer than the expiry (`ComesBack`), and one the upstream serves for good is offered for good on both lists of models (`Recovers`); looking into the prompt cache removes no fresh answer, unless it was put there meanwhile (`RemovesOldOnly`). |
| `control` | A login that was answered works (`LoginWorks`), a logout ends its token (`LogoutEnds`), the copy of the blocked addresses follows its table (`CacheFollows`). |

Several properties carry an exception that is part of the result:

- `ExclusiveUnlessOvertaken`: the race of `heal_if_cooled` with the two halves of a mark
  is real, and an account can then have two holders;
- `InflightExact`: a disconnect, the end of a multi-protocol stream and the sweep
  disturb the count;
- `HandlerReturns`: a plain request blocks when more events than the channel holds
  follow the one that ended the aggregation;
- `LimitOvershoot`: by the overlapping requests less one, by one for each failed count,
  and by any number after an unban;
- `ResetEndsSessions`: a login that had verified the old password opens its session
  after the reset cleared them;
- `CodeSpentOnce`: two handlers that read a code before either marks it both use it;
- `EndReaches`: a tunnel stands still while its reader waits for a SOCKS client, or the
  other end's for a target, that does not read, or while both wires are full;
- `RemovesOldOnly`: `get` tests an entry and removes it in two steps, and what another
  request puts there between them is removed with it;
- `SanitizedIsAccepted`: a seed above 2^53 is changed although it was in its range;
- `StaleBound`: a selection whose own query failed goes on with what it has;
- `LoginWorks`, `LogoutEnds`: two logins of one second have the same token; a failed
  statement leaves no trace.

For every property `PROJECT.json` names a mutant: a plausible slip in one definition,
kept beside it with a comment "Mutation", that breaks the property.

Deadlock is checked except in `relay`, `tunnel`, `keys`, `accounts` and `keypool`, whose
instances have a last request, connection, key or fault and then stop.

## 4. Where the code does not do what it says

Met while modelling; the models follow the code.

**Retries and breakers.**  A probe's 429 or connection error reopens the breaker,
although `gateway/circuit.rs:105-109` says 5xx only.  Abandoned probes exhaust the
half-open phase, and the model is then refused for ever (`circuit.rs:1`, `:53` promise
recovery).  A key's rate window is reset by a response only (`gateway/scheduler.rs:234`
says 60 s).  A late 5xx shortens a ten-minute 429 cooldown (`scheduler.rs:416`).  Of
dedicated lines, which this commit has none of (`LINE_MODEL_PREFIXES` is empty): retries
never reach the upstream (`public.rs:409`, its only key is cooling), and a finished
stream closes the shared breaker (`public.rs:508`, `:801`).  Errors of the further
protocols whose body is JSON are returned with status 200 (`public.rs`, about 1049),
and those handlers skip the marks, blocks, limiter and (embeddings) the breaker.

**Admission.**  A chat request whose retries are used up logs 503 without an upstream
key (`public.rs:593`), so such failures never count for the patrol; a comment says a
model is out below 50 % success (`public.rs:222`), the code at 70 % failures.
`force_stream_default` is read every six minutes (`model/catalog.rs:1582` says 60 s) and
a failed read counts as false.  The platform's `GET /v1/models` offers marked models
(`platform/handler/public.rs:74`), the gateway's does not.  The prompt cache's key leaves out the temperature
(its header, line 3, says otherwise), `top_p`, `seed` and `stop`, so that requests which
differ in nothing else (a temperature of 0 or none) share an answer; `get` may remove an
entry stored after it looked.  A `seed` above 2^53 is rounded to a double and one above
the largest `i64` becomes that (`validator.rs:176-179`), although both are in the range.  `normalize_model_id` keeps nothing but separators
(`validator.rs:9` says it removes them).  `validate_parameters` after
`validate_and_sanitize` never refuses.

**Limits.**  A throttled request sleeps and goes on without taking a token
(`public.rs:341`, `gateway/ratelimit.rs:11`).  The lockout after failed logins never
happens, the rate limit of the same size refuses first (`platform/handler/mod.rs:202`).

**Addresses.**  `get_real_client_ip` (`public.rs:46`) takes every 172.* for private, so
that a public client in 172.* behind a proxy that only adds to X-Forwarded-For is taken for
that proxy; it takes link local addresses for public.
`docs/M6_ACCEPTANCE.md:39` and `docs/api_contract.md:199` have one order for all
(CF-Connecting-IP, X-Forwarded-For, X-Real-IP); both administrations ask X-Real-IP first,
which behind a CDN is the CDN's address.

**Tunnel.**  The readers of both ends, and the server's handlers with the tunnel's lock,
wait in `drain` without a limit (`tunnel.py:340`, `:438`, `:463`, `:246`): one SOCKS client
or target that stops reading holds up every connection of its tunnel, and when both wires
are full each end waits for the other until the link breaks.  A read that times out (30 s)
in the middle of a frame loses what it had read; the next read finds bad magic, and the
tunnel ends (`tunnel.py:70-80`, `:209`, `:305`; part of `Break`).

**acugw.**  Three failures never make an account invalid, healing clears the count
(`acugw/src/api.rs:381`, `pool.rs:284`).  A full body channel drops `[DONE]`
(`api.rs:325`, `:273`).  `acquire` takes an account that began to cool during its wait
(`pool.rs:175`, `:295`).  `sanitize_content` trims every delta; increments to a fragment
that does not exist are dropped (`sse.rs`).

**Keys and administration.**  Two first creations can leave a client that no user
refers to (`console.rs:203-222`); `delete_client` leaves a user's `gw_client_id`
pointing nowhere; a ban does not reach `client_api_keys`, an unban reactivates keys that
the owner had revoked.  Logins of one second share a token: the second overwrites the
CSRF entry, its INSERT fails unseen, and after a logout it stays revoked.  A logout at
the platform does not end the token at the gateway.  A restart empties the CSRF maps; a
login answered by the old process of a hot update is lost.  `system_ip_unblock` needs a
user session only.  `update_client` binds the id as text against a BIGINT and ignores
the error.

## 5. Bounds

Every limit is reached, every pair of actors that can meet does.

- **breaker**: one model (breakers of different models share nothing) and three
  callers: one to trip it, one to be a probe, one that is late.  Threshold, window,
  term and allowance are 2, so that each counter has an inner and a boundary value.
- **bucket**: one key, two attempts of every kind.  `RPM_LIMIT` and the concurrency cap
  are 2; `SLIDE_WINDOW = 1 < STALE_AGE = 2` keeps their order; the 429 levels are
  reached at 2 and 3.  `MAX_TOTAL = 3` and `MAX_INFLIGHT = 3` bound the model, in the
  guards; the window and level logic repeats beyond them.  `RT_SCORES = {0}` is the
  lowest score, which is where a floor could break; the proofs take any.
- **gateway**: two requests, two pool keys, two attempts, so that failover, exhaustion
  and a second request's interference occur; the failure threshold is 1 and the window
  0 because counting is `breaker`'s subject.
- **pool**: one account and two clients with a stream task each, the real limits of
  three errors and three attempts.  The race of healing needs a mark, a healer and a new
  holder, which two clients and their tasks provide; the proofs cover more.
- **relay**: event channel 2, body channel 4 (64 and 64 in the code), four patches: both
  channels fill and overflow, and answers shorter and longer than the body channel occur.
- **keys**: one user, two clients and two keys, two requests, limit 1 (5 in the code), one
  fault: two requests are enough to pass a limit and to be in one key at once.  A fault
  and a second client do not occur in one behaviour (`FaultOrSecondClient`).
- **accounts**: one user, two mail addresses, sessions, codes and requests, one password
  change, one fault; rates of one; four clients and the CDN's own address.
- **keypool**: a general, a dedicated and a fixed key, one request and the minute task,
  list and query of one tick, one fault: the task is the second party of every race on
  the list.  Some key is always active and a request tries two keys (`Small`).
- **limiter**: two requests over a global, a user's and a script bucket; a token is 3
  parts, capacities 4, 5 and 3 and rates 2, 1 and 1 keep remainders and caps apart.
- **tunnel**: two connections on one tunnel, one frame of data a side and connection, and
  wires that take two frames (`ROOM`), so that both can be full at once.
- **admission**: one catalogue id of seven characters and seven names, one for each way to
  find it; two prompts and two requests; window 2, period 1, expiry 3 ticks; at most two
  counted rows a tick; one fault; words of up to three letters for the edit distance.  Numbers are counted in
  halves, doubles are exact up to 2^18 instead of 2^53 (`MANTISSA`, above every bound of a
  parameter but `seed`'s), and the largest `i64` and the largest double lie beyond in their
  real order; the theorems take any `MANTISSA` above the bounds.
- **control**: two administrators, one address, two seconds, tokens that expire with their
  second, one fault, one restart or hot update, three logins (`FewLogins`).

Each of the three state constraints is left only by steps that need not happen, so that
no fair behaviour inside it is cut off.  `keys`, `accounts` and `limiter` use symmetry;
they check safety only (`LifeSpec` and `EagerSpec` have no fairness).  `accounts` and
`admission` try a sample input on the pure operators before the first step (`sample`).

## 6. Fairness

- **breaker**: the clock ticks, clients keep asking, an admitted request ends somehow
  (timeouts of the HTTP client, or the client leaves).  Nothing is assumed of outcomes.
  Without requests an open breaker stays open: the code has no timer.
- **bucket**: the clock and the sweep task run (`run_background_tasks` is a tokio
  interval); nothing is assumed of clients and upstreams.
- **gateway**: tokio polls ready handlers; the clock runs and cooldowns end; a request
  that is out comes back or its client gives up; clients keep asking.  The next to last
  is an assumption for streams: the streaming client has no header timeout.
- **pool**: tokio polls handlers and tasks, calls return or time out (acugw's HTTP
  client is not in the repository: an assumption), cooldowns end, and clients keep
  asking, for only `acquire` heals.
- **relay**: tokio polls the tasks, and the upstream goes on sending or closes.  A
  client that stays keeps reading; it may leave at any time.
- **keypool**: queries and calls to the upstream end.  The clock is strongly fair, the one
  place where that is needed: steps that take no time may be pending again and again.  The
  minute task may sleep.
- **admission**: the clock, the patrol's read and write and the log task go on; nobody
  need send requests.
- **control**: the monitor's task goes on (`ReadBlocked`, `Clear`, `Enter`).
- **tunnel**: a reader reads while nothing holds it, handlers go on when the lock is free,
  waits end (`GiveUp`), a dead link is found by the next ping (`Discard`).  Nobody need
  close, and neither SOCKS clients nor targets need read: a `drain` that waits
  (`DrainedAtServer`, `DrainedAtClient`) is owed no end.
- **keys, accounts, limiter**: none, their properties are safety.

## 7. Proofs

`CircuitBreakerProofs` (any number of models and callers, thresholds positive):
`TypeCorrect`; `ConsistentAlways`, by induction on the per-breaker facts of
`Consistent`, with one lemma per operation on a record (`AfterAdmission`,
`AfterSuccess`, `AfterFailure`); `ProbesBoundedAlways`, which needs both and an
argument on cardinalities: an admission adds one probe and one to the count, any
outcome leaves the half-open phase; `TripsOnlyOnBurstAlways`, that a closed breaker opens
only on `FAILURE_THRESHOLD_5XX` server errors of one counting window.  The window restarts
lazily, so that the breaker itself does not say when its failures were; `BurstOK` ties its
counter to the history `burst`: as long as the window lasts, at least as many of the
newest failures as are counted are no older than the window.

`GatewayProofs` (any models, keys and concurrent requests): `ProtocolKept`, that `Gateway`
implements `CircuitBreaker`.  The inductive invariant has three parts: `JobsOK` (types,
which kinds of request a lane has, and how many keys a pool request has tried at each
place of the loop), the type of `call`, and `Owned`, which is `AdmissionsOwned`.  They give
`AdmissionsOwnedAlways` and `FailoverCompleteAlways`: before its selection a pool request
has tried as many keys as attempts lie behind it, after it one more, unless it has tried
all.  Since the composition implements the breaker, the breaker's own theorems carry over
(`BreakersGuard`, and the breakers' part of `TypeCorrect`) through an instance of
`CircuitBreakerProofs`, whose assumptions are `Gateway`'s `GatewayBreaker`.
`OnceWhileOpenAlways`: during one Open phase each request reaches the upstream once at
most.  `SentOK` adds where such a request can be, not between its selection and its sending;
`OnItsWay` shows that a step of the loop leads back there only through `can_request`, which
admits nobody and leaves the breaker open.

What comes before the loop (any catalogue, names, bodies, prompts, concurrent requests and
periods of the patrol):

- `IdsStay`: `Corrections` gives ids of the catalogue or the name itself, and an id is
  never corrected to another; the first attempt that finds something is taken, and for an
  id that is the first.
- `SanitizingSuffices`: what `Sanitized` leaves of any body is `Accepted`; with it
  `ClampingSuffices` (`SanitizedIsAccepted`).  Rounding to a double and towards zero cannot
  leave a range whose bounds are integers that doubles hold, and those of `PARAM_RANGES`
  are, or the range is `seed`'s, which no rounding leaves (`RangesFit`); numbers up to 2^53
  are doubles as they are.
- `OnlyOldRemoved` (`RemovesOldOnly`): a request between the two steps of `get` found an entry
  past its life, and from there an entry does not get younger but by a `put`, which the
  history `overtaken` records; other removals and the clean-up of `put` leave nothing, and
  the clock stops at the end of the life (`VisitsOK`, `KeptOK`).
- `MarksRunOut` (`ComesBack`): a model has not been out for longer than its mark is old, and
  the age of a mark plus the wait for the next patrol stays below expiry and period
  (`Timely`); a tick adds to the one what it takes from the other, and the patrol, which
  makes the wait longest, keeps only marks below the expiry, whatever it has read.

`SchedulerProofs`, `KeyBucket` (any number of attempts and any limits): `TypeCorrect`;
`GoodAlways`, the inductive invariant that joins types, the order of the counters and
the score's floor, because the floor is an inequality between lifetime counters that
holds only while their sum is bounded by the requests; from it `CountersCorrect`,
`HealthFloorHolds`, and `FallbackTakesAnyKey`, that the fallback's health filter never
excludes a key.  `InflightExactAlways`: an attempt's place in its handler does not say that
it was counted; `Entitled` does (whoever reaches `end_request` was counted or is of a
multi-protocol stream), and the rest is an argument on cardinalities, one attempt entering
or leaving the set of those in flight.

`SchedulerProofs`, `KeyPool` (any keys, scopes, requests, queries and lives of the list):
`PoolTypeCorrect`, and `StaleBoundHolds` for the action property `StaleBound`.  `PoolInv`
follows the age of what is known of a key from the table to a selection: an active key has
no lag, rows read by a query no more lag than the query is old, the list no more than its age
and a query together, and what a selection chooses from less than the bound, unless its own
query failed.

`AcugwProofs`, `AccountPool` (any number of accounts and clients, positive limits):
`TypeCorrect`; then every step is shown to be of one of four classes (quiet, frees by
healing, takes, leaves), from which `BusyHeldAlways` follows directly, and
`ExclusiveAlways` with the strengthening `LeasesSole`: while an account has not been
overtaken it has one holder at most *and none while it is idle*; the second half is
what the compare-and-exchange relies on.

`AcugwProofs`, `AcuRelay` (any capacities of both channels, any number of patches):
`RelayTypeCorrect`, `DoneIsLast` (`DoneOnceAndLast`) and `ShortStreamsArrive`
(`ShortStreamsComplete`), from the invariant `RelayInv`.

- The parser: path, operation and fragments in its state are those of the upstream's last
  patch (`Known`), so that every form a patch may be written in yields the piece the
  upstream meant, once: each shortened form is a case of its own.
- The order: there is no `[DONE]` before the stream task has finished the answer, it has not
  while it reads, and no chunk follows one (`InOrder`).
- Completeness: as long as what was offered fits the body channel, nothing was dropped, and
  the pieces the client has or will find there plus those still due are the ones the
  upstream wrote (`Whole`).  Only pieces ahead of the first event that ends the answer are
  `Due`: what follows it is never read, and the upstream's pieces stop counting at the same
  event (`EndComes`).

`AcugwProofs`, `Tunnel` (any number of tunnels and connections): `TunnelTypeCorrect` and
`NothingLost` (`Accounted`).  `TunnelInv` says of every connection and tunnel either that the
tunnel is the connection's own and `Proper`, or that it knows nothing of the connection
(`Clean`), so that tunnels cannot disturb each other's connections.  `Proper` adds to the
counts what makes them inductive: the request to connect is on the wire once and answered
once (`Asked`); while the answer is awaited the `OK` is ahead of all data on its wire
(`OkLeads`), and a `CLOSE` is behind the last (`CloseTrails`), without which data would meet
a table without its connection and be dropped (`Targeted`, `Tabled`).

`AcuLimiterProofs` (any buckets, capacities and rates): `TypeCorrect`; `BucketsRefilled`,
that `AcuLimiter` implements `TokenBucket`: initial levels are full, a tick of the
limiter raises each mapped level as the clock of `TokenBucket` does (the saturated idle time is
no loss, and a forgotten bucket is full already: this is what the assumption
`EXPIRE * Rate[k] >= Cap[k]` is for), a successful question is a `Take`, everything else
a stutter.  `WakeInTimeAlways`: who slept and was not robbed wakes to a whole token.
Its invariant `SleepsEnough` speaks of everyone asleep: the bucket's level plus what the
rest of the sleep will bring is a token.  The rounding of the wait up to a tick establishes
it, a tick moves the same amount from one side to the other, and the cap is never in the way
because a capacity is a token at least.

`ControlProofs` (any number of administrators, seconds, restarts): `TypeCorrect`;
`LogoutEndsAlways`.
`LogoutEnds` is not inductive, for it does not say why the row of a token stays revoked
when another login makes the same one.  The strengthening `RowsFollow` ties each row to
what the administrators have done: the row of an answered logout is revoked, and whoever
is past the insert has a row, so that none can be entered, live, after the logout.
`LoginWorksAlways` (without the bound `FewLogins`) turns on the count `made`: a token made
once has one holder, before it is made there is no row, and so whoever makes it finds the
row free, and no other login or logout can touch the row or the map's entry (`OneHolder`,
`RowsCounted`, `LoginsKept`).

`UserKeysProofs` (any number of users, clients, keys, overlapping requests and faults):
`TypeCorrect`; `LivesKept`, that `UserKeys` implements `KeyLife`.  A create is the hard
case: its second insert is a `List` of `KeyLife` only if the key's row is still missing,
and between the two inserts anything may happen.  `RowsDue` says that a request past its
first insert works on an issued key without an owner's row, `RowsSole` that no other
request is about to insert the same; the updates and deletes of the other handlers never
make a row (`NoNews`), which keeps both.  Two more, without the bound
`FaultOrSecondClient`:

- `LimitOvershootAlways`.  `LimitOvershoot` is inductive once the requests are known to
  work on keys of their own user (`JobsFine`).  A count of the active keys lets one in only
  below the limit, so that all that can be on the way with it are the other requests; the
  cardinalities of the active keys and of the requests past their count are compared step
  by step.  This needs `ConnectionsFinite`.
- `TablesAgreeAlways`.  `TablesAgree` speaks of keys at rest, `Steady` of the others too:
  a key that nothing upset is gone, or has one request at most in it, agrees if it has none,
  and otherwise disagrees only as the stage of that one request makes it (`Stage`: the first
  row is inserted and the second not, the gateway's row is switched and the owner's not).
  Each statement of a handler moves its key from one stage to the next (`HandsOn`) and
  leaves the rest alone (`Elsewhere`); what an administrator changes is upset.  Closing an
  account deletes by client in one table and by user in the other, and agrees only because a
  client is one user's: `ClientsOwned`, an invariant of its own over the users' columns, the
  requests and the keys.

`AccountsProofs` (any number of users, sessions, codes, overlapping requests, password
changes and faults): `TypeCorrect`; `ResetEndsSessionsAlways`.  `ResetEndsSessions` speaks
of sessions, and a session is made by a login that read the password some statements
earlier: the strengthening `LoginsCovered` says the same of the logins between their two
statements (the verified password is the current one, or the login is excused).  Most
steps are `Quiet`; three are not: opening a session hands its login's case on, setting a
password leaves the user's sessions to the pending statement (`Pending`) and excuses the logins,
and clearing removes what was pending or, failed, excuses it.  `CodeSpentOnceAlways`: a code
that no two handlers shared has one request at most past its look-up (`OneHolder`), and
neither such a request nor a change made with it leaves the row readable as unused
(`HeldUnspent`, `SpentMarked`), which is what the look-up of the next one tests.

Histories (`burst`, `sent_open`, `robbed`, `shared`, `made`, `upset`, `revived`, `overtaken`) are variables
of the MC modules, which the proof modules therefore extend; no action of the model reads
them.  The assumptions are the named `ASSUME`s of the modules (finite sets of requests and
connections, positive limits, distinct sentinels), evaluated by TLC in the passing runs.

Only model-checked: all liveness (`OpenEnds`, `KeyReturns`, `Answered`, `AccountReturns`,
`HandlerReturns`, `DisabledLeaves`, `EndReaches`, `Recovers`, `CacheFollows`: out of the
prover's reach under fairness); `AddressRight`, whose functions filter a list of addresses
with `SelectSeq`, which the prover does not expand; `DistanceRight`, computed row by row and
compared with a reference over all short words, and the type of the sums the patrol reads
(`AdmissionTypeOK`), which would take induction over data.

## 8. Not modelled

- Out of use in this commit: client signing (`SigningManager` is never constructed),
  `gateway/cache.rs`, `AnomalyGuard.check_anomaly`, `RpmBucket`, `is_ip_banned`,
  `cleanup_old_logs` and the count of a client's requests in flight
  (`record_client_request`; no callers), `RegistrationGuard` (`register` answers 403),
  completions and history of `platform/handler/chat.rs` and the SSE proxy they use (routes
  removed), `MAINTENANCE_MODE`, the penalty columns.
- Stateless or plain I/O: protocol translation, cryptography, configuration, database pool,
  errors, the data of the model catalogue, read-only pages of console and monitoring, web
  pages, `browser_proxy.py`, watchdog and deployment scripts.  `load_trusted_clients` runs
  at the start only.
- Inside the modelled parts: durations of cooldowns, backoffs and throttles (any order of
  their ends is allowed); token counts, headers and JSON; the sticky mark and the order of
  the rotation, the five-minute cache of decrypted keys; how many entries the prompt cache has
  (`put` may find it full at any time); deletion of upstream sessions; pings and the ten
  bytes of a SOCKS reply in the tunnel, which are taken to find room.  The account picked by `acquire` is any
  candidate.  `acugw`'s `ds`, `client`, `humanize` and `prompt` modules are not in the
  repository.

## 9. What could come next

1. The sticky mark under its three locks and the rotation, composed with `KeyBucket`.
2. The health patrol composed with the retry loop, so that the rows of the log come from
   `Gateway` instead of an upstream that answers as it likes.

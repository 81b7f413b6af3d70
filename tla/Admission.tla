------------------------------ MODULE Admission -----------------------------
(***************************************************************************)
(* What decides, before any key is chosen, whether a request goes to the   *)
(* upstream: chat_completions_handler's checks (gateway/handler/public.rs),*)
(* the list of upstream models (model/upstream.rs), the marks of the model *)
(* health patrol (gateway/model_health.rs) with the request log it reads   *)
(* (gateway/handler/logging.rs), and the prompt cache                      *)
(* (gateway/prompt_cache.rs).  embeddings_handler and                      *)
(* multi_protocol_handler ask only for the list.                           *)
(*                                                                         *)
(* A chat request tests the marks first; then it authenticates and may     *)
(* sleep for the rate limit, and only then looks into the cache.  Whom     *)
(* authentication, the blocked addresses and the rate limit refuse is left *)
(* open here, and so are the retries of one request, which write one row.  *)
(*                                                                         *)
(* build_key takes the model, the messages and max_tokens.  Temperature (0 *)
(* or none), top_p, seed and stop are not in the key: requests that differ *)
(* in nothing else ask the same Prompt here.                               *)
(***************************************************************************)
EXTENDS Validation, FiniteSets

CONSTANTS Asker,
          Prompt,         \* what a key of the cache is made of besides the model
          Name,           \* names that requests ask for
          Body,           \* their parameters
          Retired,        \* DEPRECATED_MODELS
          NoModel, NoPrompt,
          WINDOW,         \* ticks of the statistics (1 h)
          PERIOD,         \* ticks between two patrols (6 min)
          EXPIRY,         \* ticks until a mark is dropped (6 h)
          TTL,            \* ticks of the cache (10 min)
          FAILED_MIN, RECOVER_MIN,  \* FAILED_MIN_REQUESTS, RECOVER_MIN_REQUESTS
          TRAFFIC,        \* bound: rows of a model in a tick
          MAX_FAULTS      \* bound: patrol queries that fail, and rows lost

ASSUME AdmissionConstants ==
    /\ Catalog # {} /\ IsFiniteSet(Catalog) /\ NoModel \notin Catalog /\ NoPrompt \notin Prompt
    /\ {WINDOW, PERIOD, EXPIRY, TTL, FAILED_MIN, RECOVER_MIN} \subseteq Nat \ {0}
    /\ TRAFFIC \in Nat /\ MAX_FAULTS \in Nat

(* The ids of the table NIMMODEL_CATALOG.                                  *)
Models == Catalog

(* Before the first answer of the upstream, all but the models known to be *)
(* retired ("避免误删", model/upstream.rs:3).                                  *)
Unsynced == Models \ Retired

VARIABLES works,    \* models that the upstream serves at present
          listed,   \* models on the list last received from the upstream
          force,    \* force_stream, as last read
          rows,     \* Models -> the log's counted rows, by ticks of age
          mark,     \* Models -> age of its mark in the set failed, or Unmarked
          patrol,   \* the patrol task and the statistics it has read
          cache,    \* Models -> Prompt -> age of the answer kept for it, or Uncached
          req, faults

admissionVars == <<works, listed, force, rows, mark, patrol, cache, req, faults>>

Unmarked == -1
NoRows == [ok |-> 0, fail |-> 0]
Uncached == -1
NoRequest == [at |-> "idle", model |-> NoModel, prompt |-> NoPrompt]
Count == [ok : Nat, fail : Nat]

AdmissionTypeOK ==
    /\ works \subseteq Models /\ listed \subseteq Models /\ force \in BOOLEAN
    /\ rows \in [Models -> [1 .. WINDOW -> Count]]
    /\ mark \in [Models -> Unmarked .. EXPIRY + PERIOD]
    /\ patrol \in [left : 0 .. PERIOD, read : BOOLEAN, stats : [Models -> Count]]
    /\ cache \in [Models -> [Prompt -> Uncached .. TTL]]
    /\ req \in [Asker -> [at : {"idle", "wait", "evict", "send", "ok", "fail"},
                          model : Models \cup {NoModel}, prompt : Prompt \cup {NoPrompt}]]
    /\ faults \in 0 .. MAX_FAULTS

AdmissionInit ==
    /\ works \in SUBSET Models
    /\ listed = Unsynced
    /\ force \in BOOLEAN
    /\ rows = [m \in Models |-> [i \in 1 .. WINDOW |-> NoRows]]
    /\ mark = [m \in Models |-> Unmarked]
    /\ patrol = [left |-> PERIOD, read |-> FALSE, stats |-> [m \in Models |-> NoRows]]
    /\ cache = [m \in Models |-> [p \in Prompt |-> Uncached]]
    /\ req = [r \in Asker |-> NoRequest]
    /\ faults = 0

Stage(r, pc) == req[r].at = pc
ToStage(r, pc) == req' = [req EXCEPT ![r].at = pc]
Leave(r) == req' = [req EXCEPT ![r] = NoRequest]
Failed(m) == mark[m] # Unmarked

(* is_available_upstream: on the upstream's list or, until there is one,   *)
(* Unsynced.  An acu model is on it whatever the upstream says.            *)
AvailableUpstream(m) == m \in listed
Deprecated(m) == ~AvailableUpstream(m)
Keyed(r) == req[r].prompt # NoPrompt

(* Requests under way and rows written, against the bound.                 *)
Room(m) == rows[m][1].ok + rows[m][1].fail
             + Cardinality({r \in Asker : req[r].model = m}) < TRAFFIC

-----------------------------------------------------------------------------
(* The models that names are corrected to; any other name is refused.      *)
Named == (UNION {Corrections(name) : name \in Name}) \cap Models

(* What every endpoint asks first: the name leads to a model, and the      *)
(* upstream has it.                                                        *)
Servable(m) == m \in Named /\ ~Deprecated(m)

(* What validate_parameters makes of what validate_and_sanitize has left.  *)
Valid == {Sanitized(body) : body \in Body}
Keyable == [on \in BOOLEAN |-> {Cacheable(Forced(body, on)) : body \in {b \in Valid : Accepted(b)}}]

Asked(m, p, keyed) == [at |-> "wait", model |-> m, prompt |-> IF keyed THEN p ELSE NoPrompt]

(* Mutation: the refusal of a marked model counts as a failure of it.      *)
ChatRefusalsCounted(r, m, p, keyed) ==
    /\ Stage(r, "idle")
    /\ Servable(m)
    /\ Room(m)
    /\ IF Failed(m)
       THEN rows' = [rows EXCEPT ![m][1].fail = @ + 1] /\ UNCHANGED req
       ELSE /\ req' = [req EXCEPT ![r] = Asked(m, p, keyed)]
            /\ UNCHANGED rows
    /\ UNCHANGED <<works, listed, force, mark, patrol, cache, faults>>

Chat(r, m, p, keyed) ==
    /\ Stage(r, "idle")
    /\ Servable(m) /\ ~Failed(m)
    /\ keyed \in Keyable[force]
    /\ Room(m)
    /\ req' = [req EXCEPT ![r] = Asked(m, p, keyed)]
    /\ UNCHANGED <<works, listed, force, rows, mark, patrol, cache, faults>>

(* embeddings_handler, multi_protocol_handler.                             *)
Direct(r, m) ==
    /\ Stage(r, "idle")
    /\ Servable(m)
    /\ Room(m)
    /\ req' = [req EXCEPT ![r] = [NoRequest EXCEPT !.at = "send", !.model = m]]
    /\ UNCHANGED <<works, listed, force, rows, mark, patrol, cache, faults>>

(* Refused by authentication, a block or the rate limit, or gone.          *)
TurnedAway(r) ==
    /\ Stage(r, "wait")
    /\ Leave(r)
    /\ UNCHANGED <<works, listed, force, rows, mark, patrol, cache, faults>>

Entry(r) == cache[req[r].model][req[r].prompt]

(* Mutation: the last tick of the TTL is cut off.                          *)
HitShort(r) ==
    Stage(r, "wait") /\ Keyed(r) /\ Entry(r) # Uncached /\ Entry(r) + 1 < TTL

(* PromptCache::get; the row of a hit names no upstream key.               *)
Hit(r) == Stage(r, "wait") /\ Keyed(r) /\ Entry(r) # Uncached /\ Entry(r) < TTL

Lookup(r) ==
    /\ Stage(r, "wait")
    /\ IF Hit(r) THEN Leave(r)
       ELSE ToStage(r, IF Keyed(r) /\ Entry(r) # Uncached THEN "evict" ELSE "send")
    /\ UNCHANGED <<works, listed, force, rows, mark, patrol, cache, faults>>

(* The entry was seen to be old; it may have been replaced meanwhile.      *)
Evict(r) ==
    /\ Stage(r, "evict")
    /\ cache' = [cache EXCEPT ![req[r].model][req[r].prompt] = Uncached]
    /\ ToStage(r, "send")
    /\ UNCHANGED <<works, listed, force, rows, mark, patrol, faults>>

(* PromptCache::put: a cache of CACHE_MAX_ENTRIES loses its old answers.   *)
Kept(age, full) == IF full /\ age = TTL THEN Uncached ELSE age
Put(r) == \E full \in BOOLEAN :
    cache' = [m \in Models |-> [p \in Prompt |->
        IF m = req[r].model /\ p = req[r].prompt THEN 0 ELSE Kept(cache[m][p], full)]]

(* The upstream answers; non_stream_response puts the answer into the      *)
(* cache if it is JSON.                                                    *)
Succeed(r) ==
    /\ Stage(r, "send")
    /\ req[r].model \in works
    /\ UNCHANGED cache \/ (Keyed(r) /\ Put(r))
    /\ req' = [req EXCEPT ![r].at = "ok", ![r].prompt = NoPrompt]
    /\ UNCHANGED <<works, listed, force, rows, mark, patrol, faults>>

(* An error of the upstream that is passed on, or a stream or a body cut   *)
(* short.                                                                  *)
Fail(r) ==
    /\ Stage(r, "send")
    /\ req[r].model \notin works
    /\ req' = [req EXCEPT ![r].at = "fail", ![r].prompt = NoPrompt]
    /\ UNCHANGED <<works, listed, force, rows, mark, patrol, cache, faults>>

(* The request's own fault (400, 404, 410, 422), or no key at all, or a    *)
(* chat request that has used up its retries, whose 503 names no upstream  *)
(* key either: none of them counts.                                        *)
Uncounted(r) ==
    /\ Stage(r, "send")
    /\ Leave(r)
    /\ UNCHANGED <<works, listed, force, rows, mark, patrol, cache, faults>>

(* ReqLog::build, of what the patrol will count: rows with an upstream key.*)
Row(r) == IF Stage(r, "ok") THEN [ok |-> 1, fail |-> 0] ELSE [ok |-> 0, fail |-> 1]
Plus(a, b) == [ok |-> a.ok + b.ok, fail |-> a.fail + b.fail]

(* log_request's task; nobody looks at its error.                          *)
Log(r) == \E lost \in {FALSE} \cup IF faults < MAX_FAULTS THEN {TRUE} ELSE {} :
    /\ req[r].at \in {"ok", "fail"}
    /\ rows' = IF lost THEN rows
               ELSE [rows EXCEPT ![req[r].model][1] = Plus(@, Row(r))]
    /\ faults' = IF lost THEN faults + 1 ELSE faults
    /\ Leave(r)
    /\ UNCHANGED <<works, listed, force, mark, patrol, cache>>

-----------------------------------------------------------------------------
(* ModelHealthMonitor::refresh reads the last hour; a failed query reads   *)
(* as no rows.                                                             *)
Total(m) == [ok |-> MapThenSumSet(LAMBDA i : rows[m][i].ok, 1 .. WINDOW),
             fail |-> MapThenSumSet(LAMBDA i : rows[m][i].fail, 1 .. WINDOW)]

Read == \E failing \in {FALSE} \cup IF faults < MAX_FAULTS THEN {TRUE} ELSE {} :
    /\ patrol.left = 0 /\ ~patrol.read
    /\ patrol' = [patrol EXCEPT
          !.read = TRUE,
          !.stats = [m \in Models |-> IF failing THEN NoRows ELSE Total(m)]]
    /\ faults' = IF failing THEN faults + 1 ELSE faults
    /\ UNCHANGED <<works, listed, force, rows, mark, cache, req>>

(* FAILED_RATE_THRESHOLD 70 %, RECOVER_RATE_THRESHOLD 60 %.                *)
Bad(s) == s.ok + s.fail >= FAILED_MIN /\ 10 * s.fail > 7 * (s.ok + s.fail)
Good(s) == s.ok + s.fail >= RECOVER_MIN /\ 10 * s.ok >= 6 * (s.ok + s.fail)

(* Mutation: every patrol that sees the failures renews the mark.          *)
JudgedAnew(m, s) == IF Bad(s) THEN 0 ELSE IF Good(s) THEN Unmarked ELSE mark[m]

Judged(m, s) ==
    IF Bad(s) THEN (IF Failed(m) THEN mark[m] ELSE 0)
    ELSE IF Good(s) THEN Unmarked ELSE mark[m]

Expired(age) == IF age < EXPIRY THEN age ELSE Unmarked

Mark ==
    /\ patrol.read
    /\ mark' = [m \in Models |-> Expired(Judged(m, patrol.stats[m]))]
    /\ patrol' = [left |-> PERIOD, read |-> FALSE, stats |-> [m \in Models |-> NoRows]]
    /\ UNCHANGED <<works, listed, force, rows, cache, req, faults>>

(* sync_upstream_models: a list that is not empty replaces the one before; *)
(* a failed attempt leaves it.                                             *)
Sync ==
    /\ listed' \in (SUBSET Models) \ {listed}
    /\ UNCHANGED <<works, force, rows, mark, patrol, cache, req, faults>>

(* The patrol's task reads admin_settings too; what it cannot read is off. *)
ReadForce ==
    /\ force' = ~force
    /\ UNCHANGED <<works, listed, rows, mark, patrol, cache, req, faults>>

(* The upstream of a model breaks down or comes back.                      *)
Change(m) ==
    /\ works' = IF m \in works THEN works \ {m} ELSE works \cup {m}
    /\ UNCHANGED <<listed, force, rows, mark, patrol, cache, req, faults>>

Older(age) == IF age = Uncached \/ age = TTL THEN age ELSE age + 1

(* A patrol takes no time, the wait between two is at least a minute six   *)
(* times.                                                                  *)
AdmissionTick ==
    /\ patrol.left > 0
    /\ patrol' = [patrol EXCEPT !.left = @ - 1]
    /\ rows' = [m \in Models |-> [i \in 1 .. WINDOW |-> IF i = 1 THEN NoRows ELSE rows[m][i - 1]]]
    /\ mark' = [m \in Models |-> IF Failed(m) THEN mark[m] + 1 ELSE Unmarked]
    /\ cache' = [m \in Models |-> [p \in Prompt |-> Older(cache[m][p])]]
    /\ UNCHANGED <<works, listed, force, req, faults>>

Handler(r) ==
    \/ \E m \in Models : Direct(r, m) \/ \E p \in Prompt, keyed \in BOOLEAN :
                                           Chat(r, m, p, keyed)
    \/ TurnedAway(r) \/ Lookup(r) \/ Evict(r) \/ Succeed(r) \/ Fail(r) \/ Uncounted(r) \/ Log(r)

AdmissionNext ==
    \/ \E r \in Asker : Handler(r)
    \/ \E m \in Models : Change(m)
    \/ Read \/ Mark \/ Sync \/ ReadForce \/ AdmissionTick

(* Time passes, the patrol goes its rounds and rows are written; nobody    *)
(* need send requests, and the upstream owes no answer.                    *)
AdmissionFairness ==
    /\ WF_admissionVars(AdmissionTick) /\ WF_admissionVars(Read) /\ WF_admissionVars(Mark)
    /\ \A r \in Asker : WF_admissionVars(Log(r))

AdmissionSpec == AdmissionInit /\ [][AdmissionNext]_admissionVars /\ AdmissionFairness

-----------------------------------------------------------------------------
(* models_handler: the models on offer.                                    *)
Shown == {m \in Models : ~Deprecated(m) /\ ~Failed(m)}

(* The platform's lists: api_models knows nothing of the marks, the models *)
(* of the chat page keep a marked model, greyed out.                       *)
Offered == {m \in Models : ~Deprecated(m)}
Available == [m \in Offered |-> ~Failed(m)]

(* "避免自证循环误杀" (model_health.rs:3): a model that the upstream lists and  *)
(* serves again for good is on both lists again for good, although a marked*)
(* model gets no chat traffic that could prove it: its own refusals must   *)
(* not count, and a mark without statistics must run out.                  *)
Recovers == \A m \in Models : <>[](m \in works \cap listed) => <>[](m \in Shown /\ Available[m])
=============================================================================

------------------------------ MODULE KeyPool ------------------------------
(***************************************************************************)
(* Which upstream keys the scheduler knows (gateway/scheduler.rs): the     *)
(* cached list of active keys, the selections that read it and the minute  *)
(* task that lets it expire; with the upstream administration of           *)
(* gateway/handler/admin.rs, which writes the table and tells nobody.      *)
(*                                                                         *)
(* A query takes effect when its rows are read; they are stored later, and *)
(* other selections go on meanwhile.  What a bucket says of its key is     *)
(* KeyBucket's matter, and which candidate the rotation takes is left      *)
(* open: here any key of the right scope may be taken, or none.            *)
(***************************************************************************)
EXTENDS Naturals

CONSTANTS Key, Model, Caller,
          Task,         \* the minute task of main.rs
          Fixed,        \* keys of a special, line or acu upstream
          Dedicated,    \* Model -> keys whose model_scope names the model
          NoKey, NoModel,
          TTL,          \* ACTIVE_KEYS_CACHE_TTL_SECS
          QUERY_TIME,   \* bound: how long rows are on their way
          MAX_FAULTS    \* bound: queries that fail

ASSUME PoolConstants ==
    /\ Fixed \subseteq Key /\ Dedicated \in [Model -> SUBSET (Key \ Fixed)]
    /\ NoKey \notin Key /\ NoModel \notin Model
    /\ Task \notin Caller
    /\ TTL \in Nat \ {0} /\ QUERY_TIME \in Nat /\ MAX_FAULTS \in Nat

VARIABLES active,   \* keys with status 'active' in upstream_keys
          lag,      \* Key -> time since it was last active, up to MaxLag
          cache,    \* the list in memory and its age, up to TTL + 1
          lookup,   \* Caller and Task -> its local state
          faults

poolVars == <<active, lag, cache, lookup, faults>>

MaxLag == TTL + QUERY_TIME
Worker == Caller \cup {Task}
NoLookup == [at |-> "idle", model |-> NoModel, tried |-> {}, rows |-> {}, age |-> 0,
         degraded |-> FALSE, key |-> NoKey]

PoolTypeOK ==
    /\ active \subseteq Key
    /\ lag \in [Key -> 0 .. MaxLag]
    /\ cache \in [list : SUBSET Key, age : 0 .. TTL + 1]
    /\ lookup \in [Worker -> [at : {"idle", "query", "pick", "out"}, model : Model \cup {NoModel},
                              tried : SUBSET Key, rows : SUBSET Key, age : 0 .. QUERY_TIME,
                              degraded : BOOLEAN, key : Key \cup {NoKey}]]
    /\ faults \in 0 .. MAX_FAULTS

(* SurgeScheduler::new starts with an expired, empty list.                 *)
PoolInit ==
    /\ active \in SUBSET Key
    /\ lag = [k \in Key |-> IF k \in active THEN 0 ELSE MaxLag]
    /\ cache = [list |-> {}, age |-> TTL + 1]
    /\ lookup = [w \in Worker |-> NoLookup]
    /\ faults = 0

Stands(w, pc) == lookup[w].at = pc
End(w) == lookup' = [lookup EXCEPT ![w] = NoLookup]

-----------------------------------------------------------------------------
(* load_active_keys: from memory, unless the list is old or empty.         *)
(* Mutation: a list exactly TTL old still serves.                          *)
CacheFreshLate == cache.age <= TTL /\ cache.list # {}

(* Mutation: a list serves as long as it is not empty.                     *)
CacheFreshAlways == cache.list # {}

CacheFresh == cache.age < TTL /\ cache.list # {}

Load(w, model, tried) ==
    lookup' = [lookup EXCEPT ![w] =
        [NoLookup EXCEPT !.model = model, !.tried = tried,
                         !.at = IF CacheFresh THEN "pick" ELSE "query",
                         !.rows = IF CacheFresh THEN cache.list ELSE active]]

(* A request for a model of the shared keys, or (NoModel) for a fixed key. *)
Arrive(r) ==
    /\ Stands(r, "idle")
    /\ \E m \in Model \cup {NoModel} : Load(r, m, {})
    /\ UNCHANGED <<active, lag, cache, faults>>

Wakes ==
    /\ Stands(Task, "idle")
    /\ Load(Task, NoModel, {})
    /\ UNCHANGED <<active, lag, cache, faults>>

(* The rows arrive and replace the list, whatever it has become meanwhile. *)
Store(w) ==
    /\ Stands(w, "query")
    /\ cache' = [list |-> lookup[w].rows, age |-> 0]
    /\ lookup' = [lookup EXCEPT ![w].at = "pick", ![w].age = 0]
    /\ UNCHANGED <<active, lag, faults>>

(* The query fails: the list in memory serves on, however old.             *)
QueryFails(w) ==
    /\ Stands(w, "query")
    /\ faults < MAX_FAULTS
    /\ faults' = faults + 1
    /\ lookup' = [lookup EXCEPT ![w].at = "pick", ![w].age = 0, ![w].rows = cache.list,
                                ![w].degraded = TRUE]
    /\ UNCHANGED <<active, lag, cache>>

(* run_background_tasks ends by setting the list's time back.              *)
Expire ==
    /\ Stands(Task, "pick")
    /\ cache' = [cache EXCEPT !.age = TTL + 1]
    /\ End(Task)
    /\ UNCHANGED <<active, lag, faults>>

-----------------------------------------------------------------------------
(* select_key leaves a model with keys of its own to them, and keeps the   *)
(* keys of other models and the fixed ones out.                            *)
Scope(r) ==
    LET its == lookup[r].rows \cap Dedicated[lookup[r].model] IN
    IF its # {} THEN its ELSE lookup[r].rows \ (Fixed \cup UNION {Dedicated[m] : m \in Model})

(* select_special_key, select_line_key and select_acu_key try no other.    *)
Choices(r) ==
    IF lookup[r].model = NoModel THEN lookup[r].rows \cap Fixed ELSE Scope(r) \ lookup[r].tried

Take(r) ==
    /\ Stands(r, "pick")
    /\ \E k \in Choices(r) : lookup' = [lookup EXCEPT ![r].at = "out", ![r].key = k,
                                                      ![r].rows = {}, ![r].degraded = FALSE]
    /\ UNCHANGED <<active, lag, cache, faults>>

(* No key may serve: an error, and the request ends.                       *)
NoneLeft(r) ==
    /\ Stands(r, "pick")
    /\ End(r)
    /\ UNCHANGED <<active, lag, cache, faults>>

Served(r) ==
    /\ Stands(r, "out")
    /\ End(r)
    /\ UNCHANGED <<active, lag, cache, faults>>

(* The attempt failed: the request tries another key (a fixed one may be   *)
(* tried again), and ends when it has tried enough.                        *)
NextKey(r) ==
    /\ Stands(r, "out")
    /\ lookup[r].key \notin lookup[r].tried
    /\ Load(r, lookup[r].model, lookup[r].tried \cup {lookup[r].key})
    /\ UNCHANGED <<active, lag, cache, faults>>

-----------------------------------------------------------------------------
(* create_upstream, update_upstream, unfreeze_upstream.                    *)
Enable(k) ==
    /\ k \notin active
    /\ active' = active \cup {k}
    /\ lag' = [lag EXCEPT ![k] = 0]
    /\ UNCHANGED <<cache, lookup, faults>>

(* update_upstream, delete_upstream.                                       *)
Disable(k) ==
    /\ k \in active
    /\ active' = active \ {k}
    /\ UNCHANGED <<lag, cache, lookup, faults>>

(* Time passes for the list, for the keys that are not active and for rows *)
(* on their way; a selection that has its rows waits for nothing.          *)
PoolTick ==
    /\ \A w \in Worker : ~Stands(w, "pick") /\ lookup[w].age < QUERY_TIME
    /\ cache' = [cache EXCEPT !.age = IF @ > TTL THEN @ ELSE @ + 1]
    /\ lag' = [k \in Key |-> IF k \in active \/ lag[k] = MaxLag THEN lag[k] ELSE lag[k] + 1]
    /\ lookup' = [w \in Worker |-> IF Stands(w, "query") THEN [lookup[w] EXCEPT !.age = @ + 1]
                                   ELSE lookup[w]]
    /\ UNCHANGED <<active, faults>>

Serve(r) == Take(r) \/ NoneLeft(r) \/ Served(r)

PoolNext ==
    \/ \E r \in Caller : Arrive(r) \/ Serve(r) \/ NextKey(r)
    \/ \E w \in Worker : Store(w) \/ QueryFails(w)
    \/ \E k \in Key : Enable(k) \/ Disable(k)
    \/ Wakes \/ Expire \/ PoolTick

(* Code that has the processor runs on, and queries and upstream calls end.*)
(* Time passes however busy the gateway is: a step that takes none may be  *)
(* pending again and again, hence SF.  Nobody need send requests, and the  *)
(* minute task may sleep.                                                  *)
PoolFairness ==
    /\ \A r \in Caller : WF_poolVars(Serve(r))
    /\ \A w \in Worker : WF_poolVars(Store(w))
    /\ WF_poolVars(Expire) /\ SF_poolVars(PoolTick)

PoolSpec == PoolInit /\ [][PoolNext]_poolVars /\ PoolFairness

-----------------------------------------------------------------------------
(* main.rs:109 promises that a change of the table takes effect within     *)
(* 30 s: a selection takes only keys that were active within the life of   *)
(* the list plus the time its rows were on their way, also when a slow     *)
(* query replaces a newer list, and unless its own query failed.           *)
StaleBound ==
    [][\A r \in Caller : (Stands(r, "pick") /\ ~lookup[r].degraded /\ lookup'[r].key # NoKey)
          => lag[lookup'[r].key] < TTL + QUERY_TIME]_poolVars

(* A key that stays disabled is out of use in the end, although nobody     *)
(* tells the scheduler and queries fail now and then.                      *)
DisabledLeaves ==
    \A k \in Key : <>[](k \notin active) => <>[](\A r \in Caller : lookup[r].key # k)
=============================================================================

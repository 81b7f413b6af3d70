----------------------------- MODULE MCAdmission ----------------------------
(***************************************************************************)
(* Admission on small instances, with the time a model has been out of the *)
(* list without a break, the removals from the cache that were overtaken,  *)
(* and the corrections of names and parameters against reference           *)
(* definitions.                                                            *)
(***************************************************************************)
EXTENDS Admission

VARIABLES out,    \* Models -> ticks it has been marked for
          overtaken, \* requests about to remove an entry put since they looked
          sample  \* an input to the corrections, tried before the first step
watchVars == <<admissionVars, out, overtaken, sample>>

(* One id, and a name for each of the ways to find it, and one that fails. *)
MCId == <<"a", "/", "b", "-", "c", ".", "d">>
MCCatalog == {MCId}
MCAliases == [id \in MCCatalog |-> {<<"e">>}]
MCLowerCase == [c \in {"A"} |-> "a"]
MCAlnum == {"a", "b", "c", "d", "e", "A"}
MCName ==
    {MCId, <<"e">>, <<"A", "/", "b", "-", "c", ".", "d">>, <<"d", "/", "-", ".">>,
     <<"/", "-", ".", "e", "-">>, <<"a", "/", "b", "-", "c", "/", "d">>, <<"e", "-", "e">>}

Number(x) == [num |-> x]
Word(w) == [str |-> w]
Flag(b) == [bool |-> b]
MCBody ==
    {<<>>, [stream |-> Flag(TRUE)], [stream |-> Word("yes"), temperature |-> Number(-1)],
     [temperature |-> Number(5)], [stream |-> Flag(FALSE), n |-> Number(0)],
     [stream |-> Flag(FALSE), tools |-> Word("list")], [functions |-> Word("list")]}

(* The reference definition of the distance between two words:            *)
(* the fewest characters inserted, removed or replaced.                    *)
WORD_LENGTH == 3
Words == UNION {[1 .. n -> {"a", "b"}] : n \in 0 .. WORD_LENGTH}
Edits(w) ==
    {w} \cup {RemoveAt(w, i) : i \in DOMAIN w}
        \cup {ReplaceAt(w, i, c) : i \in DOMAIN w, c \in {"a", "b"}}
        \cup {InsertAt(w, i, c) : i \in 1 .. Len(w) + 1, c \in {"a", "b"}}
Near[n \in 0 .. WORD_LENGTH] ==
    [w \in Words |->
        IF n = 0 THEN {w} ELSE (UNION {Edits(v) : v \in Near[n - 1][w]}) \cap Words]

(* "编辑距离（Levenshtein）" (validator.rs:14): the row by row computation finds   *)
(* the least number of edits between two names, empty ones included, which *)
(* is what "相似度阈值 0.85" (validator.rs:80) is measured by.                  *)
DistanceRight == "word" \in DOMAIN sample =>
    Levenshtein(sample.word, sample.other) =
        Min({n \in 0 .. WORD_LENGTH : sample.other \in Near[n][sample.word]})

(* Numbers of JSON: none is beyond the largest f64.                        *)
Edges(range) == {range.min, range.max, 0, MANTISSA, 2 * MANTISSA, I64_MAX}
Numbers(range) == (UNION {x - 5 .. x + 5 : x \in Edges(range)}) \cap (-HUGE .. HUGE)

(* "越界截断，不报错" (validator.rs:159): whatever number a parameter has, near   *)
(* its bounds, below them, between two integers or where an f64 or an i64  *)
(* is at its limit, cutting it leaves one that the check of the same ranges*)
(* accepts, and an integer where integers are asked for.  A number that was*)
(* right is not moved, provided it is at most 2^53: of the parameters only *)
(* seed may be more, and is then rounded, or becomes the largest i64.      *)
SanitizedIsAccepted == "param" \in DOMAIN sample =>
    LET f == sample.param
        body == [g \in {f} |-> Number(sample.number)]
        sane == Sanitized(body)
        right == Accepted(body) /\ (PARAM_RANGES[f].is_int => sample.number % 2 = 0)
    IN  /\ Accepted(sane)
        /\ PARAM_RANGES[f].is_int => sane[f].num % 2 = 0
        /\ right /\ sample.number <= 2 * MANTISSA => sane = body

NoSample == <<>>
Sample == {NoSample} \cup [word : Words, other : Words]
                     \cup UNION {[param : {f}, number : Numbers(PARAM_RANGES[f])] : f \in Param}

LONG == EXPIRY + PERIOD

(* Only AdmissionTick brings the next patrol nearer.                       *)
WatchInit == AdmissionInit /\ out = [m \in Models |-> 0] /\ overtaken = {} /\ sample \in Sample
Note == out' = [m \in Models |->
          IF mark[m] = Unmarked \/ mark'[m] = Unmarked THEN 0
          ELSE IF patrol'.left < patrol.left /\ out[m] < LONG THEN out[m] + 1
          ELSE out[m]]

(* Only Put makes an entry new.                                            *)
Evicting(r) == Stage(r, "evict")
Overtake == overtaken' = {r \in Asker : /\ Evicting(r) /\ Evicting(r)'
                                        /\ r \in overtaken \/ Entry(r)' = 0}

Dismiss == /\ sample # NoSample /\ sample' = NoSample
           /\ UNCHANGED <<admissionVars, out, overtaken>>
Go == sample = NoSample /\ AdmissionNext /\ Note /\ Overtake /\ UNCHANGED sample
WatchNext == Dismiss \/ Go
WatchSpec == WatchInit /\ [][WatchNext]_watchVars /\ AdmissionFairness

(* "故障标记超过 6h 强制清除" (model_health.rs:59): whatever the statistics say,  *)
(* a model is never out of the list for longer than the expiry and the     *)
(* wait for the patrol that follows it, so that chat requests can try it   *)
(* again.                                                                  *)
ComesBack == \A m \in Models : out[m] < LONG

(* PromptCache::get tests the age of an entry, gives up its guard and then *)
(* removes what is there (prompt_cache.rs:53-58): a request about to do so *)
(* finds an answer still within its TTL only if that was put between its   *)
(* two steps; neither the gets and evictions of others, nor the clean-up   *)
(* of put, nor time lets it remove one.                                    *)
RemovesOldOnly ==
    \A r \in Asker \ overtaken : Evicting(r) => Entry(r) \in {Uncached, TTL}
=============================================================================

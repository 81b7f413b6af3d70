---------------------------- MODULE Validation -----------------------------
(***************************************************************************)
(* What gateway/validator.rs makes of a request before it is admitted: the *)
(* model its name is corrected to, its parameters forced into their        *)
(* ranges, and the check of the same ranges that follows.                  *)
(*                                                                         *)
(* A name is a sequence of characters, trimmed.  The catalogue is a        *)
(* HashMap: which of several ids that fit is found first is left open.     *)
(* Numbers are counted in halves, so that there are some that are no       *)
(* integers.  An f64 counts them exactly up to MANTISSA (2^53 halves), then*)
(* in ever larger grains.  A body is a record of the fields it has, each of*)
(* them a number [num |-> x], a Boolean [bool |-> b] or a string           *)
(* [str |-> s].                                                            *)
(***************************************************************************)
EXTENDS Integers, SequencesExt, FiniteSetsExt

CONSTANTS Catalog,    \* the ids of NIMMODEL_CATALOG
          Aliases,    \* Catalog -> their extra_aliases
          Alnum,      \* the characters that are letters or digits
          LowerCase,  \* capital letter -> small letter
          MANTISSA    \* numbers up to here are exact, in halves

ASSUME ValidationConstants == MANTISSA \in Nat /\ 3 * 131072 <= MANTISSA

Lower(s) == [i \in DOMAIN s |-> IF s[i] \in DOMAIN LowerCase THEN LowerCase[s[i]] ELSE s[i]]

(* What it drops are not the separators but all else.                      *)
NormalizeModelId(s) == SelectSeq(s, LAMBDA c : c \notin Alnum)

(* Mutation: a replaced character costs two.                               *)
CostTwo(x, y) == IF x = y THEN 0 ELSE 2

Cost(x, y) == IF x = y THEN 0 ELSE 1

(* The row of i characters of a, from the row of i - 1.                    *)
NextRow(a, b, prev, i) ==
    LET Push(cur, j) ==
            Append(cur, Min({prev[j + 1] + 1, cur[j] + 1, prev[j] + Cost(a[i], b[j])}))
    IN  FoldLeftDomain(Push, <<i>>, b)

Levenshtein(a, b) ==
    Last(FoldLeftDomain(LAMBDA prev, i : NextRow(a, b, prev, i),
                        [k \in 1 .. Len(b) + 1 |-> k - 1], a))

(* similarity_ratio(a, b) > 0.85.                                          *)
Longer(a, b) == Max({Len(a), Len(b)})
Similar(a, b) == a = b \/ 20 * Levenshtein(a, b) < 3 * Longer(a, b)

(* a is at least as similar to m as b is.                                  *)
AsSimilar(m, a, b) == Levenshtein(m, a) * Longer(m, b) <= Levenshtein(m, b) * Longer(m, a)

(* The six attempts of validate_and_correct_model: the ids each may find.  *)
Attempts(m) ==
    LET norm == NormalizeModelId(m)
    IN  << {id \in Catalog : id = m},
           {id \in Catalog : m \in Aliases[id]},
           {id \in Catalog : Lower(id) = Lower(m)},
           {id \in Catalog : NormalizeModelId(id) = norm},
           {id \in Catalog : /\ Len(norm) >= 4
                             /\ \/ norm \in SubSeqs(NormalizeModelId(id))
                                \/ NormalizeModelId(id) \in SubSeqs(norm)},
           {id \in Catalog : /\ Similar(m, id)
                             /\ \A other \in Catalog :
                                   Similar(m, other) => AsSimilar(m, id, other)} >>

Corrections(m) ==
    LET found == {i \in 1 .. 6 : Attempts(m)[i] # {}}
    IN  IF m = <<>> \/ found = {} THEN {m} ELSE Attempts(m)[Min(found)]

-----------------------------------------------------------------------------
(* The largest i64, the largest f64: fewer grains beyond MANTISSA than the *)
(* real ones, in the same order.                                           *)
I64_MAX == 8 * MANTISSA - 2
HUGE == 16 * MANTISSA

(* as_f64: the nearest multiple of the grain, of two the even one.         *)
Grain(x) == CHOOSE g \in {1, 2, 4, 8, 16} :
                /\ -(g * MANTISSA) <= x /\ x <= g * MANTISSA
                /\ g = 1 \/ x < -((g \div 2) * MANTISSA) \/ (g \div 2) * MANTISSA < x
Nearest(x, g) ==
    LET k == x \div g
        over == 2 * (x % g)
    IN  g * (IF over < g \/ (over = g /\ k % 2 = 0) THEN k ELSE k + 1)
Float(x) == Nearest(x, Grain(x))

ParamRange(min, max, is_int) == [min |-> 2 * min, max |-> 2 * max, is_int |-> is_int]
PARAM_RANGES ==
    [temperature |-> ParamRange(0, 2, FALSE), top_p |-> ParamRange(0, 1, FALSE),
     top_k |-> ParamRange(-1, 200, TRUE), max_tokens |-> ParamRange(1, 131072, TRUE),
     max_completion_tokens |-> ParamRange(1, 131072, TRUE),
     frequency_penalty |-> ParamRange(-2, 2, FALSE),
     presence_penalty |-> ParamRange(-2, 2, FALSE),
     seed |-> [min |-> 0, max |-> HUGE, is_int |-> TRUE], n |-> ParamRange(1, 128, TRUE)]
Param == DOMAIN PARAM_RANGES

(* as i64 rounds towards zero and stops at the largest.                    *)
Truncate(x) == IF x >= 0 THEN x - (x % 2) ELSE x + (x % 2)
AsI64(x) == Min({Truncate(x), I64_MAX})

(* Mutation: integers are made u64, so that the -1 of top_k is lost.       *)
ClampUnsigned(x, range) ==
    LET clamped == Min({Max({Float(x), range.min}), range.max})
    IN  IF range.is_int THEN AsI64(Max({clamped, 0})) ELSE clamped

Clamp(x, range) ==
    LET clamped == Min({Max({Float(x), range.min}), range.max})
    IN  IF range.is_int THEN AsI64(clamped) ELSE clamped

(* What is no number stays; a stream that is no Boolean is off.            *)
IsNumber(value) == "num" \in DOMAIN value
Sanitized(body) ==
    [f \in DOMAIN body |->
        CASE f \in Param /\ IsNumber(body[f]) -> [num |-> Clamp(body[f].num, PARAM_RANGES[f])]
          [] f = "stream" /\ "bool" \notin DOMAIN body[f] -> [bool |-> FALSE]
          [] OTHER -> body[f]]

(* validate_parameters.                                                    *)
Accepted(body) ==
    \A f \in DOMAIN body \cap Param : IsNumber(body[f]) =>
        PARAM_RANGES[f].min <= Float(body[f].num) /\ Float(body[f].num) <= PARAM_RANGES[f].max

(* PromptCache::build_key: no stream, no temperature above 0, no tools.    *)
Cacheable(body) ==
    /\ "stream" \in DOMAIN body => body.stream # [bool |-> TRUE]
    /\ "temperature" \in DOMAIN body /\ IsNumber(body.temperature) => body.temperature.num <= 0
    /\ {"tools", "tool_calls", "functions"} \cap DOMAIN body = {}

(* Who leaves "stream" open streams if force_stream says so.               *)
Forced(body, force) ==
    IF force /\ "stream" \notin DOMAIN body
    THEN [f \in DOMAIN body \cup {"stream"} |-> IF f = "stream" THEN [bool |-> TRUE] ELSE body[f]]
    ELSE body
=============================================================================

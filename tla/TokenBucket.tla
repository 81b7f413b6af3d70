---------------------------- MODULE TokenBucket ----------------------------
(***************************************************************************)
(* What a set of token buckets promises, as if a clock refilled all of     *)
(* them: a level rises with time up to its capacity, and only a taker,     *)
(* which finds a whole token there, lowers it.                             *)
(***************************************************************************)
EXTENDS Naturals

CONSTANTS Key,
          UNIT,        \* parts of a token
          Cap, Rate    \* Key -> capacity, and refill in a tick, in parts

VARIABLE level

Least(a, b) == IF a < b THEN a ELSE b

Init == level = Cap

Tick == level' = [k \in Key |-> Least(Cap[k], level[k] + Rate[k])]

Take(k) ==
    /\ level[k] >= UNIT
    /\ level' = [level EXCEPT ![k] = @ - UNIT]

Next == Tick \/ \E k \in Key : Take(k)

Spec == Init /\ [][Next]_level
=============================================================================

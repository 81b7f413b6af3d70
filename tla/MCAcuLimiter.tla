---------------------------- MODULE MCAcuLimiter ----------------------------
(***************************************************************************)
(* AcuLimiter with a fast global bucket, the slow bucket of a user and the *)
(* script bucket of the same user, and what happened to the buckets while  *)
(* requests slept.                                                         *)
(***************************************************************************)
EXTENDS AcuLimiter, TLC

CONSTANTS user, script, human, robot

MCPath == human :> <<Global, user>> @@ robot :> <<Global, user, script>>
MCCap == Global :> 4 @@ user :> 5 @@ script :> 3
MCRate == Global :> 2 @@ user :> 1 @@ script :> 1

VARIABLE robbed   \* sleepers whose bucket another request took from
hvars == <<vars, robbed>>

Symmetry == Permutations(Req)

Asleep == {r \in Req : req[r].at = "sleep"}

HInit == Init /\ robbed = {}
Rob == robbed' = {r \in Asleep' :
           \/ r \in robbed
           \/ r \in Asleep /\ \E k \in {Asked(r)} : Level(k)' < Level(k)}
HNext == Next /\ Rob
HSpec == HInit /\ [][HNext]_hvars

-----------------------------------------------------------------------------
(* A sleeper whose bucket nobody used meanwhile wakes up to a whole token: *)
(* the time it was told to wait is right, however the bucket was refilled  *)
(* or dropped in between.                                                  *)
WakeInTime ==
    \A r \in Asleep \ robbed : req[r].left = 0 => Level(Asked(r)) >= UNIT
=============================================================================

--------------------------- MODULE MCAccountPool ---------------------------
(***************************************************************************)
(* AccountPool on small instances, with a history of overtaken holders.    *)
(***************************************************************************)
EXTENDS AccountPool

CONSTANTS a1, r1, r2

VARIABLE overtaken  \* Account -> healing has freed it under a present holder
hvars == <<vars, overtaken>>

HInit == Init /\ overtaken = [a \in Account |-> FALSE]

HNext ==
    /\ Next
    /\ overtaken' = [a \in Account |->
          /\ Holders(a)' # {}
          /\ \/ overtaken[a]
             \/ Holders(a) # {} /\ \E r \in Req : Acc(r) = a /\ At(r, "store") /\ ~At(r, "store")']

HSpec == HInit /\ [][HNext]_hvars /\ Fairness

-----------------------------------------------------------------------------
(* One holder per account (the guard of acquire): the compare-and-exchange *)
(* and the two-step release keep leases exclusive, also when stream tasks  *)
(* mark accounts they no longer hold.  The one way to a second holder is   *)
(* heal_if_cooled between the two halves of a mark, and it closes again    *)
(* when the holders are gone.                                              *)
ExclusiveUnlessOvertaken ==
    \A a \in Account : Cardinality(Holders(a)) > 1 => overtaken[a]
=============================================================================

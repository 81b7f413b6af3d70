--------------------------- MODULE ClientAddress ---------------------------
(***************************************************************************)
(* Whose request it is: the four functions that take the client's address  *)
(* from the headers, one for the platform and one for its administration   *)
(* (platform/handler/mod.rs), one for the gateway's requests               *)
(* (gateway/handler/public.rs) and one for its administration              *)
(* (gateway/handler/admin.rs).                                             *)
(*                                                                         *)
(* Headers are a record: cf (CF-Connecting-IP), xff (X-Forwarded-For, a    *)
(* sequence, empty when there is no such header) and real (X-Real-IP).     *)
(* Blank is a header that is missing or empty, and what remains if none    *)
(* tells: every caller passes a constant as the last resort.               *)
(***************************************************************************)
EXTENDS SequencesExt

CONSTANTS Blank,
          Private,       \* private, loopback and link local addresses
          PrefixPrivate  \* those that start with 10., 127., 172. or 192.168.

FirstGiven(s) ==
    LET given == SelectSeq(s, LAMBDA a : a # Blank) IN
    IF given = <<>> THEN Blank ELSE Head(given)

First(s) == SubSeq(s, 1, 1)

(* Mutation: the list is read from its other end.                          *)
PublicReversed(xff) == Reverse(SelectSeq(xff, LAMBDA a : a \notin Private))

Public(xff) == SelectSeq(xff, LAMBDA a : a \notin Private)

ClientIp(h) == FirstGiven(<<h.cf>> \o Public(h.xff) \o First(h.xff) \o <<h.real>>)

(* A list whose first part is empty ends the search.                       *)
AdminClientIp(h) ==
    IF h.real = Blank /\ h.xff # <<>>
    THEN FirstGiven(Reverse(Public(h.xff)) \o First(h.xff))
    ELSE FirstGiven(<<h.real, ClientIp(h)>>)

GatewayAdminIp(h) ==
    FirstGiven(<<h.real>> \o Reverse(Public(h.xff)) \o First(h.xff) \o <<h.cf>>)

GetRealClientIp(h) ==
    FirstGiven(<<h.cf>> \o SelectSeq(First(h.xff), LAMBDA a : a \notin PrefixPrivate)
                 \o <<h.real>>)
=============================================================================

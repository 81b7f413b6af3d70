----------------------------- MODULE MCAccounts ----------------------------
(***************************************************************************)
(* Accounts on small instances, with a history of the sessions that may    *)
(* outlive a reset and of what was done with the codes.                    *)
(***************************************************************************)
EXTENDS Accounts, TLC

(* A public address, one of a private network, a link local one and a      *)
(* public one that starts with 172., and the CDN's own.                    *)
CONSTANTS world, lan, linked, p172, edge
Client == {world, lan, linked, p172}
MCPrivate == {lan, linked}
MCPrefixPrivate == {lan, p172}

(* nginx adds the peer to the list and reports it as X-Real-IP.            *)
Nginx(cf, xff, peer) == [cf |-> cf, xff |-> Append(xff, peer), real |-> peer]
MCHeader == {Nginx(Blank, <<>>, world), Nginx(world, <<lan>>, edge)}

VARIABLES excused,   \* sessions, and logins under way, a reset may miss
          uses,      \* Code -> changes made with it, up to 2
          shared,    \* codes two handlers had read as unused at once
          sample     \* a client whose address is read before the first step
hvars == <<vars, excused, uses, shared, sample>>

Symmetry == Permutations(Req) \cup Permutations(Session) \cup
            Permutations(Code) \cup Permutations(Email)

(* Logins that have verified the password and not yet opened a session.    *)
Verified(u) == {r \in Req : At(r, "login", "insert") /\ req[r].user = u}
Spending(c) == {r \in Req : req[r].at = "spend" /\ req[r].code = c}
Opened == {s \in Session : session[s] = NoSession /\ session'[s] # NoSession}

HInit == /\ Init
         /\ excused = {}
         /\ uses = [c \in Code |-> 0]
         /\ shared = {}
         /\ sample \in Client \cup {NoIp}

(* A login is excused when the password changes before its session opens,  *)
(* and so is the session; all sessions are when a statement of a reset     *)
(* fails or its handler is dropped.                                        *)
Excuse ==
    LET passed == UNION {Verified(u) : u \in {v \in User : password'[v] # password[v]}}
        missed == IF /\ faults' # faults
                     /\ \E r \in Req : At(r, "reset", "clear") /\ req'[r] = Idle
                  THEN {s \in Session : session'[s] # NoSession} ELSE {}
        opened == IF \E r \in excused \cap Req : req'[r] = Idle THEN Opened ELSE {}
    IN excused' = {x \in excused \cup passed \cup missed \cup opened :
                      \/ x \in Session /\ session'[x] # NoSession
                      \/ x \in Req /\ req'[x].op = "login"}

Use ==
    /\ shared' = {c \in Code : \/ c \in shared \/ Cardinality(Spending(c)') > 1
                               \/ /\ faults' # faults
                                  /\ \E r \in Spending(c) : req'[r].at \in {"find", "set"}}
    /\ uses' = [c \in Code |->
           IF \E r \in Req : /\ req[r].code = c
                             /\ At(r, "reset", "set") \/ At(r, "email", "set")
                             /\ faults' = faults /\ req'[r].at # "set"
           THEN IF uses[c] < 2 THEN uses[c] + 1 ELSE 2 ELSE uses[c]]

Dismiss == sample # NoIp /\ sample' = NoIp /\ UNCHANGED <<vars, excused, uses, shared>>
Go == sample = NoIp /\ Next /\ Excuse /\ Use /\ UNCHANGED sample
HNext == Dismiss \/ Go

HSpec == HInit /\ [][HNext]_hvars

-----------------------------------------------------------------------------
(* reset_password clears the user's sessions after it has set the new      *)
(* password: once it has answered, a session that can be used was opened   *)
(* with the current password, except by a login that had verified the old  *)
(* one when the new one was stored.                                        *)
ResetEndsSessions ==
    \A s \in Session : Usable(s) =>
        LET u == session[s].user IN
        \/ session[s].gen = password[u]
        \/ s \in excused
        \/ \E r \in Req : At(r, "reset", "clear") /\ req[r].user = u

(* A code is selected as unused and marked afterwards without a test: it   *)
(* makes one change, unless two handlers had read it at once or the mark   *)
(* failed.                                                                 *)
CodeSpentOnce == \A c \in Code \ shared : uses[c] <= 1

(* docs/M6_ACCEPTANCE.md:39 and docs/api_contract.md:199 have one order    *)
(* for a client's real address: CF-Connecting-IP, X-Forwarded-For,         *)
(* X-Real-IP.  The code has four functions, which differ in order and in   *)
(* what they call private.  Both services still take every client for what *)
(* it is behind nginx (deploy/nginx-aqua.conf:43-44) and behind a CDN in   *)
(* front of it.  Behind a proxy that only adds to the list the platform    *)
(* does so for every public client, but the gateway takes one whose        *)
(* address starts with 172. for the proxy: those behind it share a limit.  *)
(* Administration goes, against that order but as its two functions say,   *)
(* by who reaches nginx, whatever the other headers claim.                 *)
AddressRight == sample # NoIp =>
    LET a == sample IN
    /\ \A h \in {Nginx(Blank, <<>>, a), Nginx(a, <<a>>, edge), Nginx(a, <<>>, edge)} :
          ClientIp(h) = a /\ GetRealClientIp(h) = a
    /\ a \notin Private =>
          LET h == Nginx(Blank, <<a>>, edge) IN
          /\ ClientIp(h) = a
          /\ GetRealClientIp(h) = IF a \in PrefixPrivate THEN edge ELSE a
    /\ \A h \in {Nginx(Blank, <<>>, a), Nginx(Blank, <<edge>>, a), Nginx(edge, <<edge>>, a)} :
          AdminClientIp(h) = a /\ GatewayAdminIp(h) = a
=============================================================================

------------------------------ MODULE Control -------------------------------
(***************************************************************************)
(* How an administrator comes to act, and what one of the acts does:       *)
(* login, logout and the checks of the platform half                       *)
(* (platform/handler/admin.rs) and of the gateway half                     *)
(* (gateway/handler/admin.rs), the token both make                         *)
(* (security/admin_token.rs), the blocked addresses (gateway/detect.rs)    *)
(* and their lifting (gateway/handler/admin_monitoring.rs,                 *)
(* platform/handler/console.rs).                                           *)
(*                                                                         *)
(* The halves sign with one secret but keep a map of CSRF tokens each, in  *)
(* memory; only the platform half keeps sessions in the database.  A token *)
(* is the second it expires in and the word "admin": two logins of one     *)
(* second get the same one.  Wrong passwords, addresses outside the        *)
(* allowed ones and the limit of attempts are logins that do not happen.   *)
(***************************************************************************)
EXTENDS Integers, FiniteSets

CONSTANTS Admin,      \* browsers, each with the cookies of one login
          Address,    \* client addresses
          NoAdmin,
          TTL,        \* seconds a token is good for (8 h)
          LAST,       \* bound: the last second
          MAX_FAULTS, \* bound: queries that fail
          MAX_RESTARTS

ASSUME ControlConstants ==
    /\ NoAdmin \notin Admin
    /\ {TTL, LAST, MAX_FAULTS, MAX_RESTARTS} \subseteq Nat

Half == {"platform", "gateway"}
Second == 0 .. LAST

VARIABLES now,
          sess,     \* Second -> the row in admin_sessions of that token
          csrf,     \* Half -> Second -> whose CSRF token the map holds
          admin,    \* Admin -> what it does or has done
          ip_blocked, blocked,  \* the table, and the monitor's copy
          monitor,  \* the refresh under way and the rows it has yet to enter
          old,      \* admins whose request the process before still serves
          overlap,  \* is that process still there?
          faults, restarts

vars == <<now, sess, csrf, admin, ip_blocked, blocked, monitor, old, overlap, faults,
          restarts>>
logins == <<now, sess, csrf, admin, old, overlap>>
blocks == <<ip_blocked, blocked, monitor>>

TypeOK ==
    /\ now \in Second
    /\ sess \in [Second -> {"none", "live", "revoked"}]
    /\ csrf \in [Half -> [Second -> Admin \cup {NoAdmin}]]
    /\ admin \in [Admin -> [at : {"out", "insert", "map", "in", "cut", "revoke", "left"},
                            half : Half, token : Second]]
    /\ ip_blocked \subseteq Address /\ blocked \subseteq Address
    /\ monitor \in [at : {"sleep", "clear", "enter"}, rows : SUBSET Address]
    /\ old \subseteq Admin /\ overlap \in BOOLEAN
    /\ faults \in 0 .. MAX_FAULTS /\ restarts \in 0 .. MAX_RESTARTS

Init ==
    /\ now = 0
    /\ sess = [t \in Second |-> "none"]
    /\ csrf = [h \in Half |-> [t \in Second |-> NoAdmin]]
    /\ admin = [a \in Admin |-> [at |-> "out", half |-> "platform", token |-> 0]]
    /\ ip_blocked \in SUBSET Address
    /\ blocked = {}
    /\ monitor = [at |-> "clear", rows |-> ip_blocked]
    /\ old = {} /\ overlap = FALSE
    /\ faults = 0 /\ restarts = 0

At(a, pc) == admin[a].at = pc
Goto(a, pc) == admin' = [admin EXCEPT ![a].at = pc]
Token(a) == admin[a].token
HalfOf(a) == admin[a].half

(* A query's failure is seen by nobody.                                    *)
Fault == faults < MAX_FAULTS /\ faults' = faults + 1

-----------------------------------------------------------------------------
(* Both processes listen (SO_REUSEPORT) while they overlap: either may get *)
(* a login; a logout is taken to reach the new one.                        *)
Lands(a) == old' \in {old \ {a}} \cup (IF overlap THEN {old \cup {a}} ELSE {})

(* Mutation: the platform answers before the session is in the database.   *)
PrepareAnswered(a) ==
    /\ admin[a].at \in {"out", "cut", "left"}
    /\ admin' = [admin EXCEPT ![a] = [at |-> "in", half |-> "platform", token |-> now]]
    /\ csrf' = [csrf EXCEPT !["platform"][now] = a]
    /\ UNCHANGED <<now, sess, blocks, old, overlap, faults, restarts>>

(* do_login: the password is right and the token made; a browser that was  *)
(* cut off or has left logs in again with new cookies.                     *)
Prepare(a) ==
    /\ admin[a].at \in {"out", "cut", "left"}
    /\ admin' = [admin EXCEPT ![a] = [at |-> "insert", half |-> "platform", token |-> now]]
    /\ Lands(a)
    /\ UNCHANGED <<now, sess, csrf, blocks, overlap, faults, restarts>>

(* Mutation: a second login of the same token renews the row.              *)
RowAfterRenewed(row) == "live"

(* token_hash is UNIQUE: a row that is there stays as it is.               *)
RowAfter(row) == IF row = "none" THEN "live" ELSE row

Insert(a) ==
    /\ At(a, "insert")
    /\ \/ sess' = [sess EXCEPT ![Token(a)] = RowAfter(@)] /\ UNCHANGED faults
       \/ UNCHANGED sess /\ Fault
    /\ Goto(a, "map")
    /\ UNCHANGED <<now, csrf, blocks, old, overlap, restarts>>

(* What the process before puts into its map is lost with it.              *)
Remember(a) ==
    /\ At(a, "map")
    /\ IF a \in old
       THEN Goto(a, "cut") /\ UNCHANGED csrf
       ELSE Goto(a, "in") /\ csrf' = [csrf EXCEPT !["platform"][Token(a)] = a]
    /\ old' = old \ {a}
    /\ UNCHANGED <<now, sess, blocks, overlap, faults, restarts>>

(* The gateway's login never waits.                                        *)
GatewayLogin(a) ==
    /\ admin[a].at \in {"out", "cut", "left"}
    /\ \/ /\ admin' = [admin EXCEPT ![a] = [at |-> "in", half |-> "gateway", token |-> now]]
          /\ csrf' = [csrf EXCEPT !["gateway"][now] = a]
       \/ /\ overlap
          /\ admin' = [admin EXCEPT ![a] = [at |-> "cut", half |-> "gateway", token |-> now]]
          /\ UNCHANGED csrf
    /\ UNCHANGED <<now, sess, blocks, old, overlap, faults, restarts>>

(* logout takes any cookie; the gateway has none.                          *)
Logout(a) ==
    /\ admin[a].at \in {"in", "cut"} /\ HalfOf(a) = "platform"
    /\ csrf' = [csrf EXCEPT !["platform"][Token(a)] = NoAdmin]
    /\ Goto(a, "revoke")
    /\ UNCHANGED <<now, sess, blocks, old, overlap, faults, restarts>>

Revoke(a) ==
    /\ At(a, "revoke")
    /\ \/ /\ sess' = [sess EXCEPT ![Token(a)] = IF @ = "none" THEN @ ELSE "revoked"]
          /\ UNCHANGED faults
       \/ UNCHANGED sess /\ Fault
    /\ Goto(a, "left")
    /\ old' = old \ {a}
    /\ UNCHANGED <<now, csrf, blocks, overlap, restarts>>

Valid(t) == now <= t + TTL

(* is_admin_authed asks for the row too; the gateway's require_admin is    *)
(* content with the token.                                                 *)
Authed(h, t) == Valid(t) /\ (h = "platform" => sess[t] = "live")

(* require_admin_csrf.                                                     *)
CanAct(a) == Authed(HalfOf(a), Token(a)) /\ csrf[HalfOf(a)][Token(a)] = a

(* A new process: its maps are empty; the blocked addresses are read       *)
(* before it listens.                                                      *)
Fresh ==
    /\ restarts < MAX_RESTARTS
    /\ restarts' = restarts + 1
    /\ csrf' = [h \in Half |-> [t \in Second |-> NoAdmin]]
    /\ blocked' = {}
    /\ monitor' = [at |-> "clear", rows |-> ip_blocked]

Interrupted(at) ==
    CASE at \in {"insert", "map"} -> "out"
      [] at \in {"in", "revoke"} -> "cut"
      [] OTHER -> at

(* The process dies before another starts: requests are cut off.           *)
Restart ==
    /\ Fresh
    /\ admin' = [a \in Admin |-> [admin[a] EXCEPT !.at = Interrupted(@)]]
    /\ old' = {} /\ overlap' = FALSE
    /\ UNCHANGED <<now, sess, ip_blocked, faults>>

(* A hot update: the new process starts to listen beside the old one,      *)
(* which goes on with what it has begun.  The state is that of the newer   *)
(* process.                                                                *)
TakeOver ==
    /\ Fresh
    /\ old' = {a \in Admin : admin[a].at \in {"insert", "map", "revoke"}}
    /\ overlap' = TRUE
    /\ admin' = [a \in Admin |-> [admin[a] EXCEPT !.at = IF @ = "in" THEN "cut" ELSE @]]
    /\ UNCHANGED <<now, sess, ip_blocked, faults>>

(* It is signalled and drains, or is forced to exit after 30 s.            *)
OldExits ==
    /\ overlap
    /\ overlap' = FALSE /\ old' = {}
    /\ admin' = [a \in Admin |-> IF a \in old THEN [admin[a] EXCEPT !.at = Interrupted(@)]
                                 ELSE admin[a]]
    /\ UNCHANGED <<now, sess, csrf, blocks, faults, restarts>>

Tick == /\ now < LAST /\ now' = now + 1
        /\ UNCHANGED <<sess, csrf, admin, blocks, old, overlap, faults, restarts>>

-----------------------------------------------------------------------------
(* Rows of ip_blocked are written from outside this program.               *)
Block(ip) ==
    /\ ip \notin ip_blocked
    /\ ip_blocked' = ip_blocked \cup {ip}
    /\ UNCHANGED <<logins, blocked, monitor, faults, restarts>>

(* unblock_ip by an administrator at the gateway, system_ip_unblock by any *)
(* user who is logged in to the platform: the table only.                  *)
Unblock(ip) ==
    /\ ip \in ip_blocked
    /\ ip_blocked' = ip_blocked \ {ip}
    /\ UNCHANGED <<logins, blocked, monitor, faults, restarts>>

(* refresh_blocked_cache reads, clears and enters one row at a time while  *)
(* requests are served; a query that failed reads as no rows.              *)
ReadBlocked ==
    /\ monitor.at = "sleep"
    /\ \/ monitor' = [at |-> "clear", rows |-> ip_blocked] /\ UNCHANGED faults
       \/ monitor' = [at |-> "clear", rows |-> {}] /\ Fault
    /\ UNCHANGED <<logins, ip_blocked, blocked, restarts>>

(* Mutation: the rows are entered without emptying the map first.          *)
ClearNothing ==
    /\ monitor.at = "clear"
    /\ monitor' = [monitor EXCEPT !.at = "enter"]
    /\ UNCHANGED <<logins, ip_blocked, blocked, faults, restarts>>

Clear ==
    /\ monitor.at = "clear"
    /\ blocked' = {}
    /\ monitor' = [monitor EXCEPT !.at = "enter"]
    /\ UNCHANGED <<logins, ip_blocked, faults, restarts>>

Enter ==
    /\ monitor.at = "enter"
    /\ \/ \E ip \in monitor.rows :
             /\ blocked' = blocked \cup {ip}
             /\ monitor' = [monitor EXCEPT !.rows = @ \ {ip}]
       \/ /\ monitor.rows = {}
          /\ monitor' = [monitor EXCEPT !.at = "sleep"]
          /\ UNCHANGED blocked
    /\ UNCHANGED <<logins, ip_blocked, faults, restarts>>

Next ==
    \/ \E a \in Admin : \/ Prepare(a) \/ Insert(a) \/ Remember(a) \/ GatewayLogin(a)
                        \/ Logout(a) \/ Revoke(a)
    \/ Restart \/ TakeOver \/ OldExits \/ Tick
    \/ \E ip \in Address : Block(ip) \/ Unblock(ip)
    \/ ReadBlocked \/ Clear \/ Enter

(* Only the monitor's task need go on.                                     *)
Fairness == WF_vars(ReadBlocked) /\ WF_vars(Clear) /\ WF_vars(Enter)

Spec == Init /\ [][Next]_vars /\ Fairness

-----------------------------------------------------------------------------
(* After an answered logout at the platform nobody is let in there with    *)
(* that token again, not even by a later login of the same second that     *)
(* makes the same one; as long as no statement fails, for logout ignores   *)
(* the error of its UPDATE, and the gateway does not look at the rows.     *)
LogoutEnds == \A a \in Admin :
    At(a, "left") /\ faults = 0 => ~Authed("platform", Token(a))

(* The monitor's copy follows the table, although it is rebuilt row by row *)
(* from an older read and may have been built from a failed one: an        *)
(* address that stays blocked is refused again whenever no refresh is      *)
(* under way, one that stays lifted is refused no more.                    *)
CacheFollows == \A ip \in Address :
    /\ <>[](ip \in ip_blocked) => <>[](monitor.at = "sleep" => ip \in blocked)
    /\ <>[](ip \notin ip_blocked) => <>[](ip \notin blocked)
=============================================================================

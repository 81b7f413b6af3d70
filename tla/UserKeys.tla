------------------------------ MODULE UserKeys -----------------------------
(***************************************************************************)
(* The API keys of the platform's users (platform/handler/console.rs) and  *)
(* what the two administrations do to them (platform/handler/admin.rs,     *)
(* gateway/handler/admin.rs).  A key has a row in client_api_keys, which   *)
(* the gateway authenticates by, and one in user_api_keys, which its owner *)
(* sees; clients and users are the rows they refer to.                     *)
(*                                                                         *)
(* Every SQL statement of a handler that writes twice is a step of its own:*)
(* no transaction is used, except by delete_account.  A statement can fail *)
(* (the handlers discard most errors), or take effect while its answer is  *)
(* lost; a handler is dropped at its await when its client disconnects or  *)
(* the server stops.  Labels, ciphertexts, last_used_at and the penalty *)
(* columns (written by unban_user, read by no request) are left out.  A    *)
(* session is valid while its user is active, which only the start of a    *)
(* handler tests.                                                          *)
(***************************************************************************)
EXTENDS Naturals, FiniteSets

CONSTANTS User, Client, Key, Req,
          NoUser, NoClient, NoKey,
          LIMIT,        \* active keys per user: 5
          MAX_FAULTS    \* bound: statements that fail or lose their answer,
                        \* and handlers dropped half way

ASSUME KeyConstants ==
    /\ NoUser \notin User /\ NoClient \notin Client /\ NoKey \notin Key
    /\ LIMIT \in Nat \ {0} /\ MAX_FAULTS \in Nat

(* A server has finitely many connections.                                 *)
ASSUME ConnectionsFinite == IsFiniteSet(Req)

VARIABLES account,    \* User -> users.status; "none" before, "gone" after
          clientId,   \* User -> users.gw_client_id
          client,     \* Client -> is there a row of clients?
          clientKey,  \* Key -> client_api_keys.status
          userKey,    \* Key -> user_api_keys.status
          owner,      \* Key -> user_api_keys.user_id, once its row is due
          clientOf,   \* Key -> client_api_keys.client_id
          req,        \* Req -> the handler a connection is in
          faults

keyVars == <<clientKey, userKey, owner, clientOf>>
vars == <<account, clientId, client, keyVars, req, faults>>

Live == {"active", "revoked"}               \* client_api_keys rows
Listed == {"active", "revoked", "banned"}   \* user_api_keys rows
Op == {"none", "create", "toggle", "delete", "close", "ban", "unban", "adduser"}
Pc == {"none", "read", "count", "client", "fallback", "newclient", "bind", "gate",
       "row", "undo", "keys", "commit"}
Idle == [op |-> "none", at |-> "none", user |-> NoUser, key |-> NoKey,
         client |-> NoClient, to |-> "none"]
At(r, op, at) == req[r].op = op /\ req[r].at = at

TypeOK ==
    /\ account \in [User -> {"none", "active", "banned", "gone"}]
    /\ clientId \in [User -> Client \cup {NoClient}]
    /\ client \in [Client -> {"none", "present", "gone"}]
    /\ clientKey \in [Key -> Live \cup {"none", "gone"}]
    /\ userKey \in [Key -> Listed \cup {"none", "gone"}]
    /\ owner \in [Key -> User \cup {NoUser}]
    /\ clientOf \in [Key -> Client \cup {NoClient}]
    /\ req \in [Req -> [op : Op, at : Pc, user : User \cup {NoUser},
                        key : Key \cup {NoKey}, client : Client \cup {NoClient},
                        to : Live \cup {"none"}]]
    /\ faults \in Nat

(* Users created before the two halves were joined have no client.         *)
Init ==
    /\ account \in [User -> {"none", "active"}]
    /\ clientId \in [User -> Client \cup {NoClient}]
    /\ client = [c \in Client |-> IF \E u \in User : clientId[u] = c THEN "present" ELSE "none"]
    /\ \A u \in User : account[u] = "none" => clientId[u] = NoClient
    /\ \A u, v \in User : clientId[u] = clientId[v] => u = v \/ clientId[u] = NoClient
    /\ clientKey = [k \in Key |-> "none"]
    /\ userKey = [k \in Key |-> "none"]
    /\ owner = [k \in Key |-> NoUser]
    /\ clientOf = [k \in Key |-> NoClient]
    /\ req = [r \in Req |-> Idle]
    /\ faults = 0

Exists(u) == account[u] \in {"active", "banned"}
KeysOf(u) == {k \in Key : owner[k] = u /\ userKey[k] \in Listed}
ActiveCount(u) == Cardinality({k \in KeysOf(u) : userKey[k] = "active"})
Unissued(c) == /\ client[c] = "none"
               /\ \A u \in User : clientId[u] # c
               /\ \A r \in Req : req[r].client # c
Fresh(k) == clientKey[k] = "none" /\ userKey[k] = "none"

(* The outcomes of a statement: "lost" takes effect and reports an error.  *)
Outcome == {"ok"} \cup IF faults < MAX_FAULTS THEN {"failed", "lost"} ELSE {}
ReadOutcome == Outcome \ {"lost"}
Applied(o) == o # "failed"
Spend(o) == faults' = IF o = "ok" THEN faults ELSE faults + 1

Goto(r, at) == req' = [req EXCEPT ![r].at = at]
Answer(r) == req' = [req EXCEPT ![r] = Idle]
Begin(r, job) == req[r] = Idle /\ req' = [req EXCEPT ![r] = job]

(* DELETE FROM client_api_keys, for the keys in S that have a row, and the *)
(* same for user_api_keys.                                                 *)
DropGates(S) == clientKey' = [k \in Key |-> IF k \in S /\ clientKey[k] \in Live
                                            THEN "gone" ELSE clientKey[k]]
DropRows(S) == userKey' = [k \in Key |-> IF k \in S /\ userKey[k] \in Listed
                                         THEN "gone" ELSE userKey[k]]
MarkRows(S, s) == userKey' = [k \in Key |-> IF k \in S THEN s ELSE userKey[k]]

-----------------------------------------------------------------------------
(* Handlers that need a session begin for an active user.                  *)
Start(r) == \E u \in {v \in User : account[v] = "active"} :
    /\ \/ Begin(r, [Idle EXCEPT !.op = "create", !.at = "count", !.user = u])
       \/ Begin(r, [Idle EXCEPT !.op = "close", !.at = "read", !.user = u])
       \/ \E k \in KeysOf(u), op \in {"toggle", "delete"} :
             Begin(r, [Idle EXCEPT !.op = op, !.at = "read", !.user = u, !.key = k])
    /\ UNCHANGED <<account, clientId, client, keyVars, faults>>

(* Mutation: the limit itself still passes.                                *)
CountKeysLate(r) == \E o \in ReadOutcome :
    LET n == IF o = "ok" THEN ActiveCount(req[r].user) ELSE 0 IN
    /\ req[r].at = "count"
    /\ IF n > LIMIT THEN Answer(r)
       ELSE Goto(r, IF req[r].op = "create" THEN "client" ELSE "gate")
    /\ Spend(o)
    /\ UNCHANGED <<account, clientId, client, keyVars>>

(* create_key_handler and toggle_key count before they add; a count that   *)
(* fails counts zero.                                                      *)
CountKeys(r) == \E o \in ReadOutcome :
    LET n == IF o = "ok" THEN ActiveCount(req[r].user) ELSE 0 IN
    /\ req[r].at = "count"
    /\ IF n >= LIMIT THEN Answer(r)
       ELSE Goto(r, IF req[r].op = "create" THEN "client" ELSE "gate")
    /\ Spend(o)
    /\ UNCHANGED <<account, clientId, client, keyVars>>

(* user_gateway_client_id: the user's own column, then any of his keys; an *)
(* error reads as "no client".                                             *)
FindClient(r) == \E o \in ReadOutcome :
    LET u == req[r].user
        c == IF o = "ok" /\ Exists(u) THEN clientId[u] ELSE NoClient IN
    /\ At(r, "create", "client")
    /\ req' = [req EXCEPT ![r].client = c,
                          ![r].at = IF c = NoClient THEN "fallback" ELSE "gate"]
    /\ Spend(o)
    /\ UNCHANGED <<account, clientId, client, keyVars>>

FallbackClient(r) == \E o \in ReadOutcome :
    LET found == IF o = "ok" THEN {clientOf[k] : k \in KeysOf(req[r].user)} ELSE {} IN
    /\ At(r, "create", "fallback")
    /\ IF found = {} THEN Goto(r, "newclient")
       ELSE \E c \in found : req' = [req EXCEPT ![r].client = c, ![r].at = "gate"]
    /\ Spend(o)
    /\ UNCHANGED <<account, clientId, client, keyVars>>

NewClient(r) == \E o \in Outcome, c \in Client :
    /\ At(r, "create", "newclient")
    /\ Unissued(c)
    /\ client' = IF Applied(o) THEN [client EXCEPT ![c] = "present"] ELSE client
    /\ IF o = "ok" THEN req' = [req EXCEPT ![r].client = c, ![r].at = "bind"]
       ELSE Answer(r)
    /\ Spend(o)
    /\ UNCHANGED <<account, clientId, keyVars>>

BindClient(r) == \E o \in Outcome :
    LET u == req[r].user IN
    /\ At(r, "create", "bind")
    /\ clientId' = IF Applied(o) /\ Exists(u)
                   THEN [clientId EXCEPT ![u] = req[r].client] ELSE clientId
    /\ Goto(r, "gate")
    /\ Spend(o)
    /\ UNCHANGED <<account, client, keyVars>>

(* The gateway's row; the foreign key asks for the client.                 *)
InsertGate(r) == \E o \in Outcome, k \in {j \in Key : Fresh(j)} :
    LET c == req[r].client
        done == Applied(o) /\ client[c] = "present" IN
    /\ At(r, "create", "gate")
    /\ clientKey' = IF done THEN [clientKey EXCEPT ![k] = "active"] ELSE clientKey
    /\ clientOf' = IF done THEN [clientOf EXCEPT ![k] = c] ELSE clientOf
    /\ owner' = IF done THEN [owner EXCEPT ![k] = req[r].user] ELSE owner
    /\ IF o = "ok" /\ done
       THEN req' = [req EXCEPT ![r].key = k, ![r].at = "row"] ELSE Answer(r)
    /\ Spend(o)
    /\ UNCHANGED <<account, clientId, client, userKey>>

(* Mutation: a refused row is not answered by taking the gateway's back.   *)
InsertRowNoUndo(r) == \E o \in Outcome :
    LET done == Applied(o) /\ Exists(req[r].user) IN
    /\ At(r, "create", "row")
    /\ userKey' = IF done THEN [userKey EXCEPT ![req[r].key] = "active"] ELSE userKey
    /\ Answer(r)
    /\ Spend(o)
    /\ UNCHANGED <<account, clientId, client, clientKey, owner, clientOf>>

(* The owner's row; the foreign key asks for the user, banned or not.      *)
InsertRow(r) == \E o \in Outcome :
    LET done == Applied(o) /\ Exists(req[r].user) IN
    /\ At(r, "create", "row")
    /\ userKey' = IF done THEN [userKey EXCEPT ![req[r].key] = "active"] ELSE userKey
    /\ IF o = "ok" /\ done THEN Answer(r) ELSE Goto(r, "undo")
    /\ Spend(o)
    /\ UNCHANGED <<account, clientId, client, clientKey, owner, clientOf>>

UndoGate(r) == \E o \in Outcome :
    /\ At(r, "create", "undo")
    /\ IF Applied(o) THEN DropGates({req[r].key}) ELSE UNCHANGED clientKey
    /\ Answer(r)
    /\ Spend(o)
    /\ UNCHANGED <<account, clientId, client, userKey, owner, clientOf>>

(* Mutation: a banned key is toggled to what it is.                        *)
ReadKeyUnchecked(r) == \E o \in ReadOutcome :
    LET k == req[r].key
        found == o = "ok" /\ userKey[k] \in Listed IN
    /\ At(r, "toggle", "read") \/ At(r, "delete", "read")
    /\ req' = [req EXCEPT ![r] = IF found THEN [@ EXCEPT !.to = userKey[k], !.at = "gate"]
                                 ELSE Idle]
    /\ Spend(o)
    /\ UNCHANGED <<account, clientId, client, keyVars>>

(* toggle_key and delete_key read the owner's row; a banned key cannot be  *)
(* toggled.                                                                *)
ReadKey(r) == \E o \in ReadOutcome :
    LET k == req[r].key
        found == o = "ok" /\ userKey[k] \in Listed
        toggling == req[r].op = "toggle" IN
    /\ At(r, "toggle", "read") \/ At(r, "delete", "read")
    /\ IF ~found \/ (toggling /\ userKey[k] = "banned") THEN Answer(r)
       ELSE IF ~toggling THEN Goto(r, "gate")
       ELSE IF userKey[k] = "active"
       THEN req' = [req EXCEPT ![r].to = "revoked", ![r].at = "gate"]
       ELSE req' = [req EXCEPT ![r].to = "active", ![r].at = "count"]
    /\ Spend(o)
    /\ UNCHANGED <<account, clientId, client, keyVars>>

SetGate(r) == \E o \in Outcome :
    LET k == req[r].key IN
    /\ At(r, "toggle", "gate")
    /\ clientKey' = IF Applied(o) /\ clientKey[k] \in Live
                    THEN [clientKey EXCEPT ![k] = req[r].to] ELSE clientKey
    /\ Goto(r, "row")
    /\ Spend(o)
    /\ UNCHANGED <<account, clientId, client, userKey, owner, clientOf>>

(* Mutation: the row is written whether it is there or not.                *)
SetRowUpsert(r) == \E o \in Outcome :
    LET k == req[r].key IN
    /\ At(r, "toggle", "row")
    /\ IF Applied(o) THEN MarkRows({k}, req[r].to) ELSE UNCHANGED userKey
    /\ Answer(r)
    /\ Spend(o)
    /\ UNCHANGED <<account, clientId, client, clientKey, owner, clientOf>>

SetRow(r) == \E o \in Outcome :
    LET k == req[r].key IN
    /\ At(r, "toggle", "row")
    /\ IF Applied(o) /\ userKey[k] \in Listed
       THEN MarkRows({k}, req[r].to) ELSE UNCHANGED userKey
    /\ Answer(r)
    /\ Spend(o)
    /\ UNCHANGED <<account, clientId, client, clientKey, owner, clientOf>>

DeleteGate(r) == \E o \in Outcome :
    /\ At(r, "delete", "gate")
    /\ IF Applied(o) THEN DropGates({req[r].key}) ELSE UNCHANGED clientKey
    /\ Goto(r, "row")
    /\ Spend(o)
    /\ UNCHANGED <<account, clientId, client, userKey, owner, clientOf>>

DeleteRow(r) == \E o \in Outcome :
    /\ At(r, "delete", "row")
    /\ IF Applied(o) THEN DropRows({req[r].key}) ELSE UNCHANGED userKey
    /\ Answer(r)
    /\ Spend(o)
    /\ UNCHANGED <<account, clientId, client, clientKey, owner, clientOf>>

-----------------------------------------------------------------------------
(* delete_account reads the client id, then deletes in one transaction the *)
(* keys of that client, the client, the user's rows and the user.          *)
ReadAccount(r) == \E o \in ReadOutcome :
    LET u == req[r].user IN
    /\ At(r, "close", "read")
    /\ IF o = "ok" /\ Exists(u)
       THEN req' = [req EXCEPT ![r].client = clientId[u], ![r].at = "commit"]
       ELSE Answer(r)
    /\ Spend(o)
    /\ UNCHANGED <<account, clientId, client, keyVars>>

CloseAccount(r) == \E o \in Outcome :
    LET u == req[r].user
        c == req[r].client IN
    /\ At(r, "close", "commit")
    /\ IF Applied(o)
       THEN /\ DropGates({k \in Key : c # NoClient /\ clientOf[k] = c})
            /\ DropRows({k \in Key : owner[k] = u})
            /\ client' = [d \in Client |-> IF d = c /\ client[d] = "present"
                                           THEN "gone" ELSE client[d]]
            /\ account' = [account EXCEPT ![u] = "gone"]
            /\ clientId' = [clientId EXCEPT ![u] = NoClient]
       ELSE UNCHANGED <<account, clientId, client, clientKey, userKey>>
    /\ Answer(r)
    /\ Spend(o)
    /\ UNCHANGED <<owner, clientOf>>

(* ban_user and unban_user: the user first, his keys in user_api_keys      *)
(* afterwards; client_api_keys is not written.                             *)
BanUser(r, u) == \E o \in Outcome, op \in {"ban", "unban"} :
    /\ req[r] = Idle
    /\ Exists(u)
    /\ account' = IF ~Applied(o) THEN account
                  ELSE [account EXCEPT ![u] = IF op = "ban" THEN "banned" ELSE "active"]
    /\ IF o = "ok"
       THEN Begin(r, [Idle EXCEPT !.op = op, !.at = "keys", !.user = u])
       ELSE UNCHANGED req
    /\ Spend(o)
    /\ UNCHANGED <<clientId, client, keyVars>>

BanKeys(r) == \E o \in Outcome :
    LET u == req[r].user IN
    /\ req[r].at = "keys"
    /\ IF ~Applied(o) THEN UNCHANGED userKey
       ELSE IF req[r].op = "ban" THEN MarkRows(KeysOf(u), "banned")
       ELSE MarkRows({k \in KeysOf(u) : userKey[k] = "banned"}, "active")
    /\ Answer(r)
    /\ Spend(o)
    /\ UNCHANGED <<account, clientId, client, clientKey, owner, clientOf>>

(* create_user: the user with a client id from the sequence, then the      *)
(* client's row.                                                           *)
AddUser(r, u) == \E o \in Outcome, c \in Client :
    /\ req[r] = Idle
    /\ account[u] = "none"
    /\ Unissued(c)
    /\ IF Applied(o)
       THEN /\ account' = [account EXCEPT ![u] = "active"]
            /\ clientId' = [clientId EXCEPT ![u] = c]
       ELSE UNCHANGED <<account, clientId>>
    /\ IF o = "ok"
       THEN Begin(r, [Idle EXCEPT !.op = "adduser", !.at = "client", !.client = c])
       ELSE UNCHANGED req
    /\ Spend(o)
    /\ UNCHANGED <<client, keyVars>>

AddClient(r) == \E o \in Outcome :
    /\ At(r, "adduser", "client")
    /\ client' = IF Applied(o) /\ client[req[r].client] = "none"
                 THEN [client EXCEPT ![req[r].client] = "present"] ELSE client
    /\ Answer(r)
    /\ Spend(o)
    /\ UNCHANGED <<account, clientId, keyVars>>

(* delete_user_handler: one statement, which cascades to user_api_keys.    *)
RemoveUser(u) == \E o \in Outcome :
    /\ Exists(u)
    /\ Applied(o)
    /\ account' = [account EXCEPT ![u] = "gone"]
    /\ clientId' = [clientId EXCEPT ![u] = NoClient]
    /\ DropRows({k \in Key : owner[k] = u})
    /\ Spend(o)
    /\ UNCHANGED <<client, clientKey, owner, clientOf, req>>

(* delete_client: the client's keys, then the client, whose deletion       *)
(* cascades to keys added in between; the second statement may fail.       *)
DropClient(c) == \E o \in Outcome :
    /\ client[c] = "present"
    /\ client' = IF Applied(o) THEN [client EXCEPT ![c] = "gone"] ELSE client
    /\ DropGates({k \in Key : clientOf[k] = c})
    /\ Spend(o)
    /\ UNCHANGED <<account, clientId, userKey, owner, clientOf, req>>

(* create_client_key; the foreign key repeats its test for the client.     *)
AddClientKey(k, c) ==
    /\ client[c] = "present"
    /\ Fresh(k)
    /\ clientKey' = [clientKey EXCEPT ![k] = "active"]
    /\ clientOf' = [clientOf EXCEPT ![k] = c]
    /\ UNCHANGED <<account, clientId, client, userKey, owner, req, faults>>

DropClientKey(k) ==
    /\ clientKey[k] \in Live
    /\ DropGates({k})
    /\ UNCHANGED <<account, clientId, client, userKey, owner, clientOf, req, faults>>

(* The connection closes or the server stops between two statements.       *)
Abandon(r) ==
    /\ req[r] # Idle
    /\ faults < MAX_FAULTS
    /\ Answer(r)
    /\ faults' = faults + 1
    /\ UNCHANGED <<account, clientId, client, keyVars>>

Handler(r) ==
    \/ Start(r) \/ CountKeys(r) \/ FindClient(r) \/ FallbackClient(r) \/ NewClient(r)
    \/ BindClient(r) \/ InsertGate(r) \/ InsertRow(r) \/ UndoGate(r) \/ ReadKey(r)
    \/ SetGate(r) \/ SetRow(r) \/ DeleteGate(r) \/ DeleteRow(r)
    \/ ReadAccount(r) \/ CloseAccount(r)

Admin(r) ==
    \/ \E u \in User : BanUser(r, u) \/ AddUser(r, u)
    \/ BanKeys(r) \/ AddClient(r)

AdminOnce ==
    \/ \E u \in User : RemoveUser(u)
    \/ \E c \in Client : DropClient(c) \/ \E k \in Key : AddClientKey(k, c)
    \/ \E k \in Key : DropClientKey(k)

Next == (\E r \in Req : Handler(r) \/ Admin(r) \/ Abandon(r)) \/ AdminOnce

Spec == Init /\ [][Next]_vars

-----------------------------------------------------------------------------
(* authenticate_client: the gateway takes a key by its own row alone.      *)
Accepts(k) == clientKey[k] = "active"

(* Requests that have passed the count and are yet to add an active key.   *)
Adding(u) == {r \in Req : /\ req[r].user = u
                          /\ \/ /\ req[r].op = "create"
                                /\ req[r].at \in {"client", "fallback", "newclient",
                                                  "bind", "gate", "row"}
                             \/ req[r].op = "toggle" /\ req[r].to = "active"
                                /\ req[r].at \in {"gate", "row"}}

Life == INSTANCE KeyLife WITH gate <- clientKey, row <- userKey

(* The handlers, whatever their order and whichever statement fails, treat *)
(* the two tables as KeyLife promises: no owner's row without a gateway    *)
(* row before it, no late UPDATE of a toggle that brings a deleted key     *)
(* back, no key created twice.                                             *)
LifeSpec == Life!Spec
=============================================================================

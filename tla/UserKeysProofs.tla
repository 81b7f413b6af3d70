--------------------------- MODULE UserKeysProofs ---------------------------
(***************************************************************************)
(* UserKeys implements KeyLife, its limit is passed by overlapping         *)
(* requests, faults and unbans only, and its two tables agree, for any     *)
(* number of users, clients, keys, overlapping requests and faults.        *)
(***************************************************************************)
EXTENDS MCUserKeys, FiniteSetTheorems, TLAPS

Gate == Live \cup {"none", "gone"}
Row == Listed \cup {"none", "gone"}
Job == [op : Op, at : Pc, user : User \cup {NoUser}, key : Key \cup {NoKey},
        client : Client \cup {NoClient}, to : Live \cup {"none"}]

(* A request that has inserted the gateway's row and not yet the owner's.  *)
Owing(r) == At(r, "create", "row")

(* For whom and on which key a request works, and what a toggle is about to*)
(* write.                                                                  *)
JobOK(j) ==
    /\ j.op \in {"create", "close"} => j.user \in User
    /\ j.op \in {"toggle", "delete"} \/ (j.op = "create" /\ j.at = "row") => j.key \in Key
    /\ j.op = "toggle" /\ j.at \in {"count", "gate", "row"} => j.to \in Live
JobsOK == \A r \in Req : JobOK(req[r])

(* The owner's row of such a request is not there yet, and no other        *)
(* request is about to insert it: without this the row could be inserted   *)
(* twice, or before the gateway's.                                         *)
RowsDue == \A r \in Req : Owing(r) => /\ clientKey[req[r].key] # "none"
                                      /\ userKey[req[r].key] = "none"
RowsSole == \A q, r \in Req : Owing(q) /\ Owing(r) /\ req[q].key = req[r].key => q = r

IInv == TypeOK /\ JobsOK /\ RowsDue /\ RowsSole

(* What a step does to the two tables, seen from KeyLife.                  *)
LifeStep == Life!Next \/ UNCHANGED <<clientKey, userKey>>

(* No row appears from nothing: the keys not yet listed stay so, and issued*)
(* keys do not return to nothing.                                          *)
NoNews == \A k \in Key : /\ clientKey[k] # "none" => clientKey'[k] # "none"
                         /\ userKey[k] = "none" => userKey'[k] = "none"
NoneOwes == \A q \in Req : Owing(q)' => Owing(q) /\ req'[q].key = req[q].key

-----------------------------------------------------------------------------
(* Steps in which nobody comes to owe a row keep the invariant.            *)
LEMMA Quiet ==
    ASSUME IInv, TypeOK', JobsOK', NoNews, NoneOwes
    PROVE  IInv'
  <1>1. RowsDue'
    <2> SUFFICES ASSUME NEW r \in Req, Owing(r)'
                 PROVE  clientKey'[req'[r].key] # "none" /\ userKey'[req'[r].key] = "none"
      BY DEF RowsDue
    <2>1. Owing(r) /\ req'[r].key = req[r].key
      BY DEF NoneOwes
    <2>2. req[r].key \in Key
      BY <2>1 DEF IInv, JobsOK, JobOK, Owing, At
    <2> QED BY <2>1, <2>2 DEF IInv, RowsDue, NoNews
  <1>2. RowsSole'
    BY DEF IInv, RowsSole, NoneOwes
  <1> QED BY <1>1, <1>2 DEF IInv

(* A request moves on to another statement.                                *)
LEMMA GotoFacts ==
    ASSUME req \in [Req -> Job], NEW r \in Req, NEW pc \in Pc, Goto(r, pc)
    PROVE  /\ req' \in [Req -> Job]
           /\ \A q \in Req \ {r} : req'[q] = req[q]
           /\ req'[r].at = pc /\ req'[r].op = req[r].op /\ req'[r].key = req[r].key
           /\ req'[r].to = req[r].to /\ req'[r].user = req[r].user
           /\ req'[r].client = req[r].client
  <1> DEFINE i == [req[r] EXCEPT !.at = pc]
  <1>1. req[r] \in Job
    OBVIOUS
  <1>2. i \in Job /\ i.at = pc /\ i.op = req[r].op /\ i.key = req[r].key
      /\ i.to = req[r].to /\ i.user = req[r].user /\ i.client = req[r].client
    BY <1>1 DEF Job
  <1>3. req' = [req EXCEPT ![r] = i]
    BY DEF Goto
  <1> HIDE DEF i
  <1> QED BY <1>2, <1>3

(* The same, with a client noted.                                          *)
LEMMA ClientFacts ==
    ASSUME req \in [Req -> Job], NEW r \in Req, NEW pc \in Pc,
           NEW c \in Client \cup {NoClient},
           req' = [req EXCEPT ![r].client = c, ![r].at = pc]
    PROVE  /\ req' \in [Req -> Job]
           /\ \A q \in Req \ {r} : req'[q] = req[q]
           /\ req'[r].at = pc /\ req'[r].op = req[r].op /\ req'[r].key = req[r].key
           /\ req'[r].to = req[r].to /\ req'[r].user = req[r].user
           /\ req'[r].client = c
  <1> DEFINE i == [req[r] EXCEPT !.client = c, !.at = pc]
  <1>1. req[r] \in Job
    OBVIOUS
  <1>2. i \in Job /\ i.at = pc /\ i.op = req[r].op /\ i.key = req[r].key
      /\ i.to = req[r].to /\ i.user = req[r].user /\ i.client = c
    BY <1>1 DEF Job
  <1>3. req' = [req EXCEPT ![r] = i]
    OBVIOUS
  <1> HIDE DEF i
  <1> QED BY <1>2, <1>3

(* A handler ends.                                                         *)
LEMMA AnswerFacts ==
    ASSUME req \in [Req -> Job], NEW r \in Req, Answer(r)
    PROVE  /\ req' \in [Req -> Job]
           /\ \A q \in Req \ {r} : req'[q] = req[q]
           /\ req'[r] = Idle
  <1>1. Idle \in Job
    BY DEF Idle, Job, Op, Pc
  <1> QED BY <1>1 DEF Answer

(* A handler begins.                                                       *)
LEMMA BeginFacts ==
    ASSUME req \in [Req -> Job], NEW r \in Req, NEW j \in Job, Begin(r, j)
    PROVE  /\ req' \in [Req -> Job]
           /\ \A q \in Req \ {r} : req'[q] = req[q]
           /\ req'[r] = j
  BY DEF Begin
(* Removing rows is a withdrawal.                                          *)
LEMMA Dropped ==
    ASSUME TypeOK, NEW S, NEW T, DropGates(S), DropRows(T)
    PROVE  /\ clientKey' \in [Key -> Gate] /\ userKey' \in [Key -> Row]
           /\ NoNews /\ Life!Next
  <1> DEFINE G == {k \in Key : k \in S /\ clientKey[k] \in Live}
             R == {k \in Key : k \in T /\ userKey[k] \in Listed}
  <1>1. clientKey' = [k \in Key |-> IF k \in G THEN "gone" ELSE clientKey[k]]
    BY DEF DropGates
  <1>2. userKey' = [k \in Key |-> IF k \in R THEN "gone" ELSE userKey[k]]
    BY DEF DropRows
  <1>3. \A k \in G : clientKey[k] \in Life!GateStatus
    BY DEF Live, Life!GateStatus
  <1>4. \A k \in R : userKey[k] \in Life!RowStatus
    BY DEF Listed, Life!RowStatus
  <1>5. G \in SUBSET Key /\ R \in SUBSET Key
    OBVIOUS
  <1>6. \A k \in R : userKey[k] # "none"
    BY DEF Listed
  <1> HIDE DEF G, R
  <1>7. Life!Withdraw(G, R)
    BY <1>1, <1>2, <1>3, <1>4 DEF Life!Withdraw
  <1>8. Life!Next
    BY <1>5, <1>7 DEF Life!Next
  <1>9. clientKey' \in [Key -> Gate] /\ userKey' \in [Key -> Row] /\ NoNews
    BY <1>1, <1>2, <1>6 DEF TypeOK, Gate, Row, NoNews
  <1> QED BY <1>8, <1>9

(* No rows to remove: a table is left as it is.                            *)
LEMMA NothingDropped ==
    ASSUME TypeOK
    PROVE  /\ UNCHANGED clientKey => DropGates({})
           /\ UNCHANGED userKey => DropRows({})
  BY DEF TypeOK, DropGates, DropRows

(* Writing one status to listed rows.                                      *)
LEMMA Marked ==
    ASSUME TypeOK, NEW S \in SUBSET Key, \A k \in S : userKey[k] \in Listed,
           NEW s \in Listed, MarkRows(S, s), UNCHANGED clientKey
    PROVE  /\ clientKey' \in [Key -> Gate] /\ userKey' \in [Key -> Row]
           /\ NoNews /\ Life!Next
  <1>1. userKey' = [k \in Key |-> IF k \in S THEN s ELSE userKey[k]]
    BY DEF MarkRows
  <1>2. Life!Mark(S, s) /\ s \in Life!RowStatus
    BY <1>1 DEF Life!Mark, Life!RowStatus, Listed
  <1>3. Life!Next
    BY <1>2 DEF Life!Next
  <1>4. \A k \in S : userKey[k] # "none"
    BY DEF Listed
  <1> QED BY <1>1, <1>3, <1>4 DEF TypeOK, Gate, Row, NoNews, Listed

(* Tables that nobody wrote.                                               *)
LEMMA Untouched ==
    ASSUME TypeOK, UNCHANGED <<clientKey, userKey>>
    PROVE  clientKey' \in [Key -> Gate] /\ userKey' \in [Key -> Row] /\ NoNews /\ LifeStep
  BY DEF TypeOK, Gate, Row, NoNews, LifeStep

(* The count of faults stays a number.                                     *)
LEMMA SpendType ==
    ASSUME faults \in Nat, NEW o, Spend(o)
    PROVE  faults' \in Nat
  BY DEF Spend
(* What is left to show of a step that leaves the tables alone, or drops   *)
(* or marks rows.                                                          *)
LEMMA Closing ==
    ASSUME IInv, NoNews, NoneOwes, JobsOK',
           clientKey' \in [Key -> Gate], userKey' \in [Key -> Row], req' \in [Req -> Job],
           account' \in [User -> {"none", "active", "banned", "gone"}],
           clientId' \in [User -> Client \cup {NoClient}],
           client' \in [Client -> {"none", "present", "gone"}],
           owner' \in [Key -> User \cup {NoUser}],
           clientOf' \in [Key -> Client \cup {NoClient}],
           faults' \in Nat
    PROVE  IInv'
  <1>1. TypeOK'
    BY DEF TypeOK, Gate, Row, Job
  <1> QED BY <1>1, Quiet

(* The parts of the types, each by its name.                               *)
LEMMA Parts ==
    ASSUME TypeOK
    PROVE  /\ account \in [User -> {"none", "active", "banned", "gone"}]
           /\ clientId \in [User -> Client \cup {NoClient}]
           /\ client \in [Client -> {"none", "present", "gone"}]
           /\ clientKey \in [Key -> Gate] /\ userKey \in [Key -> Row]
           /\ owner \in [Key -> User \cup {NoUser}]
           /\ clientOf \in [Key -> Client \cup {NoClient}]
           /\ req \in [Req -> Job] /\ faults \in Nat
  BY DEF TypeOK, Gate, Row, Job

(* Who does not move on to the owner's row does not come to owe it.        *)
LEMMA Moved ==
    ASSUME IInv, NEW r \in Req, \A q \in Req \ {r} : req'[q] = req[q],
           JobOK(req'[r]), ~(req'[r].op = "create" /\ req'[r].at = "row")
    PROVE  JobsOK' /\ NoneOwes
  <1>1. JobsOK'
    BY DEF IInv, JobsOK
  <1>2. NoneOwes
    BY DEF NoneOwes, Owing, At
  <1> QED BY <1>1, <1>2

(* A handler that ends keeps nothing.                                      *)
LEMMA Ended ==
    ASSUME IInv, NEW r \in Req, Answer(r)
    PROVE  req' \in [Req -> Job] /\ JobsOK' /\ NoneOwes
  <1>1. req' \in [Req -> Job] /\ (\A q \in Req \ {r} : req'[q] = req[q]) /\ req'[r] = Idle
    BY Parts, AnswerFacts DEF IInv
  <1>2. JobOK(req'[r]) /\ ~(req'[r].op = "create" /\ req'[r].at = "row")
    BY <1>1 DEF JobOK, Idle
  <1> QED BY <1>1, <1>2, Moved

(* So does one that goes on to a statement other than the owner's row, and,*)
(* in a toggle, not to one that writes.                                    *)
LEMMA WentOn ==
    ASSUME IInv, NEW r \in Req, NEW pc \in Pc, Goto(r, pc),
           ~(req[r].op = "create" /\ pc = "row"),
           req[r].op = "toggle" /\ pc \in {"count", "gate", "row"} => req[r].to \in Live
    PROVE  req' \in [Req -> Job] /\ JobsOK' /\ NoneOwes
  <1>1. /\ req' \in [Req -> Job] /\ (\A q \in Req \ {r} : req'[q] = req[q])
        /\ req'[r].at = pc /\ req'[r].op = req[r].op /\ req'[r].key = req[r].key
        /\ req'[r].to = req[r].to /\ req'[r].user = req[r].user
    BY Parts, GotoFacts DEF IInv
  <1>2. JobOK(req[r])
    BY DEF IInv, JobsOK
  <1>3. JobOK(req'[r]) /\ ~(req'[r].op = "create" /\ req'[r].at = "row")
    BY <1>1, <1>2 DEF JobOK
  <1> QED BY <1>1, <1>3, Moved

(* And one that notes a client and goes on.                                *)
LEMMA WentOnWith ==
    ASSUME IInv, NEW r \in Req, NEW pc \in Pc, NEW c \in Client \cup {NoClient},
           req' = [req EXCEPT ![r].client = c, ![r].at = pc],
           req[r].op # "toggle", ~(req[r].op = "create" /\ pc = "row")
    PROVE  req' \in [Req -> Job] /\ JobsOK' /\ NoneOwes
  <1>1. /\ req' \in [Req -> Job] /\ (\A q \in Req \ {r} : req'[q] = req[q])
        /\ req'[r].at = pc /\ req'[r].op = req[r].op /\ req'[r].key = req[r].key
        /\ req'[r].to = req[r].to /\ req'[r].user = req[r].user
    BY Parts, ClientFacts DEF IInv
  <1>2. JobOK(req[r])
    BY DEF IInv, JobsOK
  <1>3. JobOK(req'[r]) /\ ~(req'[r].op = "create" /\ req'[r].at = "row")
    BY <1>1, <1>2 DEF JobOK
  <1> QED BY <1>1, <1>3, Moved

(* And one that begins.                                                    *)
LEMMA Began ==
    ASSUME IInv, NEW r \in Req, NEW j \in Job, Begin(r, j), JobOK(j), j.at # "row"
    PROVE  req' \in [Req -> Job] /\ JobsOK' /\ NoneOwes
  <1>1. req' \in [Req -> Job] /\ (\A q \in Req \ {r} : req'[q] = req[q]) /\ req'[r] = j
    BY Parts, BeginFacts DEF IInv
  <1> QED BY <1>1, Moved

(* Requests that nobody moved.                                             *)
LEMMA Stayed ==
    ASSUME IInv, UNCHANGED req
    PROVE  req' \in [Req -> Job] /\ JobsOK' /\ NoneOwes
  <1>1. req' \in [Req -> Job]
    BY Parts DEF IInv
  <1>2. JobsOK'
    BY DEF IInv, JobsOK
  <1>3. NoneOwes
    BY DEF NoneOwes, Owing, At
  <1> QED BY <1>1, <1>2, <1>3
-----------------------------------------------------------------------------
(* The steps that read, or write neither table of keys.                    *)
LEMMA StartStep ==
    ASSUME IInv, NEW r \in Req, Start(r)
    PROVE  IInv' /\ LifeStep
  <1>1. UNCHANGED <<account, clientId, client, clientKey, userKey, owner, clientOf, faults>>
    BY DEF Start, keyVars
  <1>2. req' \in [Req -> Job] /\ JobsOK' /\ NoneOwes
    <2>1. PICK u \in User :
            \/ Begin(r, [Idle EXCEPT !.op = "create", !.at = "count", !.user = u])
            \/ Begin(r, [Idle EXCEPT !.op = "close", !.at = "read", !.user = u])
            \/ \E k \in KeysOf(u), op \in {"toggle", "delete"} :
                  Begin(r, [Idle EXCEPT !.op = op, !.at = "read", !.user = u, !.key = k])
      BY DEF Start
    <2>2. CASE Begin(r, [Idle EXCEPT !.op = "create", !.at = "count", !.user = u])
      <3> DEFINE j == [Idle EXCEPT !.op = "create", !.at = "count", !.user = u]
      <3>1. j \in Job /\ JobOK(j) /\ j.at # "row"
        BY DEF Idle, Job, Op, Pc, JobOK
      <3> HIDE DEF j
      <3> QED BY <2>2, <3>1, Began DEF j
    <2>3. CASE Begin(r, [Idle EXCEPT !.op = "close", !.at = "read", !.user = u])
      <3> DEFINE j == [Idle EXCEPT !.op = "close", !.at = "read", !.user = u]
      <3>1. j \in Job /\ JobOK(j) /\ j.at # "row"
        BY DEF Idle, Job, Op, Pc, JobOK
      <3> HIDE DEF j
      <3> QED BY <2>3, <3>1, Began DEF j
    <2>4. ASSUME NEW k \in KeysOf(u), NEW op \in {"toggle", "delete"},
                 Begin(r, [Idle EXCEPT !.op = op, !.at = "read", !.user = u, !.key = k])
          PROVE  req' \in [Req -> Job] /\ JobsOK' /\ NoneOwes
      <3> DEFINE j == [Idle EXCEPT !.op = op, !.at = "read", !.user = u, !.key = k]
      <3>1. j \in Job /\ JobOK(j) /\ j.at # "row"
        BY DEF KeysOf, Idle, Job, Op, Pc, JobOK
      <3> HIDE DEF j
      <3> QED BY <2>4, <3>1, Began DEF j
    <2> QED BY <2>1, <2>2, <2>3, <2>4
  <1> QED BY <1>1, <1>2, Parts, Untouched, Closing DEF IInv

(* The count, and the search for a client.                                 *)
LEMMA CountStep ==
    ASSUME IInv, NEW r \in Req, CountKeys(r)
    PROVE  IInv' /\ LifeStep
  <1>1. PICK o : Spend(o)
    BY DEF CountKeys
  <1>2. UNCHANGED <<account, clientId, client, clientKey, userKey, owner, clientOf>>
    BY DEF CountKeys, keyVars
  <1>3. req[r].at = "count"
    BY DEF CountKeys
  <1>4. Answer(r) \/ Goto(r, IF req[r].op = "create" THEN "client" ELSE "gate")
    BY DEF CountKeys
  <1>5. req[r].op = "toggle" => req[r].to \in Live
    BY <1>3 DEF IInv, JobsOK, JobOK
  <1>6. req' \in [Req -> Job] /\ JobsOK' /\ NoneOwes
    <2>1. CASE Answer(r)
      BY <2>1, Ended
    <2>2. CASE Goto(r, IF req[r].op = "create" THEN "client" ELSE "gate")
      <3>1. "client" \in Pc /\ "gate" \in Pc
        BY DEF Pc
      <3> QED BY <1>5, <2>2, <3>1, WentOn
    <2> QED BY <1>4, <2>1, <2>2
  <1>7. faults' \in Nat
    BY <1>1, Parts, SpendType DEF IInv
  <1> QED BY <1>2, <1>6, <1>7, Parts, Untouched, Closing DEF IInv

(* user_gateway_client_id and its two statements.                          *)
LEMMA FindStep ==
    ASSUME IInv, NEW r \in Req, FindClient(r) \/ FallbackClient(r)
    PROVE  IInv' /\ LifeStep
  <1>1. PICK o : Spend(o)
    BY DEF FindClient, FallbackClient
  <1>2. UNCHANGED <<account, clientId, client, clientKey, userKey, owner, clientOf>>
    BY DEF FindClient, FallbackClient, keyVars
  <1>3. req[r].op = "create"
    BY DEF FindClient, FallbackClient, At
  <1>4. {"fallback", "gate", "newclient"} \subseteq Pc
    BY DEF Pc
  <1>5. req' \in [Req -> Job] /\ JobsOK' /\ NoneOwes
    <2>1. CASE FindClient(r)
      <3> DEFINE Found(ans) == IF ans = "ok" /\ Exists(req[r].user)
                               THEN clientId[req[r].user] ELSE NoClient
                 Then(ans) == IF Found(ans) = NoClient THEN "fallback" ELSE "gate"
      <3>1. PICK ans : req' = [req EXCEPT ![r].client = Found(ans), ![r].at = Then(ans)]
        BY <2>1 DEF FindClient
      <3>2. req[r].user \in User
        BY <1>3 DEF IInv, JobsOK, JobOK
      <3>3. Found(ans) \in Client \cup {NoClient}
        BY <3>2, Parts DEF IInv
      <3>4. Then(ans) \in Pc /\ Then(ans) # "row"
        BY <1>4
      <3> HIDE DEF Found, Then
      <3> QED BY <1>3, <3>1, <3>3, <3>4, WentOnWith
    <2>2. CASE FallbackClient(r)
      <3>1. PICK F : /\ F = {} \/ F = {clientOf[k] : k \in KeysOf(req[r].user)}
                     /\ IF F = {} THEN Goto(r, "newclient")
                        ELSE \E c \in F : req' = [req EXCEPT ![r].client = c, ![r].at = "gate"]
        BY <2>2 DEF FallbackClient
      <3>2. \A c \in F : c \in Client \cup {NoClient}
        BY <3>1, Parts DEF KeysOf, IInv
      <3>3. CASE Goto(r, "newclient")
        BY <1>3, <1>4, <3>3, WentOn
      <3>4. ASSUME NEW c \in F, req' = [req EXCEPT ![r].client = c, ![r].at = "gate"]
            PROVE  req' \in [Req -> Job] /\ JobsOK' /\ NoneOwes
        BY <1>3, <1>4, <3>2, <3>4, WentOnWith
      <3> QED BY <3>1, <3>3, <3>4
    <2> QED BY <2>1, <2>2
  <1>6. faults' \in Nat
    BY <1>1, Parts, SpendType DEF IInv
  <1> QED BY <1>2, <1>5, <1>6, Parts, Untouched, Closing DEF IInv
(* A client of the user's own.                                             *)
LEMMA NewClientStep ==
    ASSUME IInv, NEW r \in Req, NewClient(r)
    PROVE  IInv' /\ LifeStep
  <1>1. PICK o \in Outcome, c \in Client :
          /\ At(r, "create", "newclient")
          /\ client' = IF Applied(o) THEN [client EXCEPT ![c] = "present"] ELSE client
          /\ IF o = "ok" THEN req' = [req EXCEPT ![r].client = c, ![r].at = "bind"]
             ELSE Answer(r)
          /\ Spend(o)
    BY DEF NewClient
  <1>2. UNCHANGED <<account, clientId, clientKey, userKey, owner, clientOf>>
    BY DEF NewClient, keyVars
  <1>3. client' \in [Client -> {"none", "present", "gone"}]
    BY <1>1, Parts DEF IInv
  <1>4. req' \in [Req -> Job] /\ JobsOK' /\ NoneOwes
    <2>1. CASE Answer(r)
      BY <2>1, Ended
    <2>2. CASE req' = [req EXCEPT ![r].client = c, ![r].at = "bind"]
      <3>1. "bind" \in Pc /\ req[r].op = "create"
        BY <1>1 DEF Pc, At
      <3> QED BY <2>2, <3>1, WentOnWith
    <2> QED BY <1>1, <2>1, <2>2
  <1>5. faults' \in Nat
    BY <1>1, Parts, SpendType DEF IInv
  <1> QED BY <1>2, <1>3, <1>4, <1>5, Parts, Untouched, Closing DEF IInv

(* It is noted with the user.                                              *)
LEMMA BindStep ==
    ASSUME IInv, NEW r \in Req, BindClient(r)
    PROVE  IInv' /\ LifeStep
  <1>1. PICK o :
          /\ At(r, "create", "bind")
          /\ \/ clientId' = [clientId EXCEPT ![req[r].user] = req[r].client]
             \/ clientId' = clientId
          /\ Goto(r, "gate")
          /\ Spend(o)
    BY DEF BindClient
  <1>2. UNCHANGED <<account, client, clientKey, userKey, owner, clientOf>>
    BY DEF BindClient, keyVars
  <1>3. req[r].client \in Client \cup {NoClient}
    BY Parts DEF IInv, Job
  <1>4. clientId' \in [User -> Client \cup {NoClient}]
    BY <1>1, <1>3, Parts DEF IInv
  <1>5. req' \in [Req -> Job] /\ JobsOK' /\ NoneOwes
    <2>1. "gate" \in Pc /\ req[r].op = "create"
      BY <1>1 DEF Pc, At
    <2> QED BY <1>1, <2>1, WentOn
  <1>6. faults' \in Nat
    BY <1>1, Parts, SpendType DEF IInv
  <1> QED BY <1>2, <1>4, <1>5, <1>6, Parts, Untouched, Closing DEF IInv

(* toggle_key notes what it will write.                                    *)
LEMMA ToggleFacts ==
    ASSUME IInv, NEW r \in Req, NEW s \in Live, NEW pc \in Pc, req[r].op = "toggle",
           req' = [req EXCEPT ![r].to = s, ![r].at = pc]
    PROVE  req' \in [Req -> Job] /\ JobsOK' /\ NoneOwes
  <1> DEFINE i == [req[r] EXCEPT !.to = s, !.at = pc]
  <1>1. req[r] \in Job /\ req \in [Req -> Job]
    BY Parts DEF IInv
  <1>2. /\ i \in Job /\ i.at = pc /\ i.op = req[r].op /\ i.key = req[r].key
        /\ i.to = s /\ i.user = req[r].user
    BY <1>1 DEF Job
  <1>3. req' = [req EXCEPT ![r] = i]
    OBVIOUS
  <1> HIDE DEF i
  <1>4. /\ req' \in [Req -> Job] /\ req'[r] = i
        /\ \A q \in Req \ {r} : req'[q] = req[q]
    BY <1>1, <1>2, <1>3
  <1>5. JobOK(req[r])
    BY DEF IInv, JobsOK
  <1>6. JobOK(req'[r]) /\ ~(req'[r].op = "create" /\ req'[r].at = "row")
    BY <1>2, <1>4, <1>5 DEF JobOK
  <1> QED BY <1>4, <1>6, Moved

(* toggle_key and delete_key read the owner's row.                         *)
LEMMA ReadKeyStep ==
    ASSUME IInv, NEW r \in Req, ReadKey(r)
    PROVE  IInv' /\ LifeStep
  <1>1. PICK o : Spend(o)
    BY DEF ReadKey
  <1>2. UNCHANGED <<account, clientId, client, clientKey, userKey, owner, clientOf>>
    BY DEF ReadKey, keyVars
  <1>3. /\ req[r].op \in {"toggle", "delete"}
        /\ \/ Answer(r)
           \/ req[r].op # "toggle" /\ Goto(r, "gate")
           \/ req[r].op = "toggle" /\ req' = [req EXCEPT ![r].to = "revoked", ![r].at = "gate"]
           \/ req[r].op = "toggle" /\ req' = [req EXCEPT ![r].to = "active", ![r].at = "count"]
    BY DEF ReadKey, At
  <1>4. {"gate", "count"} \subseteq Pc /\ {"active", "revoked"} \subseteq Live
    BY DEF Pc, Live
  <1>5. req' \in [Req -> Job] /\ JobsOK' /\ NoneOwes
    <2>1. CASE Answer(r)
      BY <2>1, Ended
    <2>2. CASE req[r].op # "toggle" /\ Goto(r, "gate")
      BY <1>4, <2>2, WentOn
    <2>3. CASE req[r].op = "toggle" /\ req' = [req EXCEPT ![r].to = "revoked", ![r].at = "gate"]
      BY <1>4, <2>3, ToggleFacts
    <2>4. CASE req[r].op = "toggle" /\ req' = [req EXCEPT ![r].to = "active", ![r].at = "count"]
      BY <1>4, <2>4, ToggleFacts
    <2> QED BY <1>3, <2>1, <2>2, <2>3, <2>4
  <1>6. faults' \in Nat
    BY <1>1, Parts, SpendType DEF IInv
  <1> QED BY <1>2, <1>5, <1>6, Parts, Untouched, Closing DEF IInv

(* delete_account reads the client.                                        *)
LEMMA ReadAccountStep ==
    ASSUME IInv, NEW r \in Req, ReadAccount(r)
    PROVE  IInv' /\ LifeStep
  <1>1. PICK o : Spend(o)
    BY DEF ReadAccount
  <1>2. UNCHANGED <<account, clientId, client, clientKey, userKey, owner, clientOf>>
    BY DEF ReadAccount, keyVars
  <1>3. /\ req[r].op = "close"
        /\ \/ Answer(r)
           \/ req' = [req EXCEPT ![r].client = clientId[req[r].user], ![r].at = "commit"]
    BY DEF ReadAccount, At
  <1>4. clientId[req[r].user] \in Client \cup {NoClient} /\ "commit" \in Pc
    BY <1>3, Parts DEF IInv, JobsOK, JobOK, Pc
  <1>5. req' \in [Req -> Job] /\ JobsOK' /\ NoneOwes
    <2>1. CASE Answer(r)
      BY <2>1, Ended
    <2>2. CASE req' = [req EXCEPT ![r].client = clientId[req[r].user], ![r].at = "commit"]
      BY <1>3, <1>4, <2>2, WentOnWith
    <2> QED BY <1>3, <2>1, <2>2
  <1>6. faults' \in Nat
    BY <1>1, Parts, SpendType DEF IInv
  <1> QED BY <1>2, <1>5, <1>6, Parts, Untouched, Closing DEF IInv
(* ban_user and unban_user write the user first.                           *)
LEMMA BanUserStep ==
    ASSUME IInv, NEW r \in Req, NEW u \in User, BanUser(r, u)
    PROVE  IInv' /\ LifeStep
  <1>1. PICK o \in Outcome, op \in {"ban", "unban"} :
          /\ account' = IF ~Applied(o) THEN account
                        ELSE [account EXCEPT ![u] = IF op = "ban" THEN "banned" ELSE "active"]
          /\ IF o = "ok"
             THEN Begin(r, [Idle EXCEPT !.op = op, !.at = "keys", !.user = u])
             ELSE UNCHANGED req
          /\ Spend(o)
    BY DEF BanUser
  <1>2. UNCHANGED <<clientId, client, clientKey, userKey, owner, clientOf>>
    BY DEF BanUser, keyVars
  <1>3. account' \in [User -> {"none", "active", "banned", "gone"}]
    BY <1>1, Parts DEF IInv
  <1>4. req' \in [Req -> Job] /\ JobsOK' /\ NoneOwes
    <2> DEFINE j == [Idle EXCEPT !.op = op, !.at = "keys", !.user = u]
    <2>1. j \in Job /\ JobOK(j) /\ j.at # "row"
      BY DEF Idle, Job, Op, Pc, JobOK
    <2> HIDE DEF j
    <2>2. CASE Begin(r, j)
      BY <2>1, <2>2, Began
    <2>3. CASE UNCHANGED req
      BY <2>3, Stayed
    <2> QED BY <1>1, <2>2, <2>3 DEF j
  <1>5. faults' \in Nat
    BY <1>1, Parts, SpendType DEF IInv
  <1> QED BY <1>2, <1>3, <1>4, <1>5, Parts, Untouched, Closing DEF IInv

(* create_user.                                                            *)
LEMMA AddUserStep ==
    ASSUME IInv, NEW r \in Req, NEW u \in User, AddUser(r, u)
    PROVE  IInv' /\ LifeStep
  <1>1. PICK o \in Outcome, c \in Client :
          /\ IF Applied(o)
             THEN /\ account' = [account EXCEPT ![u] = "active"]
                  /\ clientId' = [clientId EXCEPT ![u] = c]
             ELSE UNCHANGED <<account, clientId>>
          /\ IF o = "ok"
             THEN Begin(r, [Idle EXCEPT !.op = "adduser", !.at = "client", !.client = c])
             ELSE UNCHANGED req
          /\ Spend(o)
    BY DEF AddUser
  <1>2. UNCHANGED <<client, clientKey, userKey, owner, clientOf>>
    BY DEF AddUser, keyVars
  <1>3. /\ account' \in [User -> {"none", "active", "banned", "gone"}]
        /\ clientId' \in [User -> Client \cup {NoClient}]
    BY <1>1, Parts DEF IInv
  <1>4. req' \in [Req -> Job] /\ JobsOK' /\ NoneOwes
    <2> DEFINE j == [Idle EXCEPT !.op = "adduser", !.at = "client", !.client = c]
    <2>1. j \in Job /\ JobOK(j) /\ j.at # "row"
      BY DEF Idle, Job, Op, Pc, JobOK
    <2> HIDE DEF j
    <2>2. CASE Begin(r, j)
      BY <2>1, <2>2, Began
    <2>3. CASE UNCHANGED req
      BY <2>3, Stayed
    <2> QED BY <1>1, <2>2, <2>3 DEF j
  <1>5. faults' \in Nat
    BY <1>1, Parts, SpendType DEF IInv
  <1> QED BY <1>2, <1>3, <1>4, <1>5, Parts, Untouched, Closing DEF IInv

(* Its client's row.                                                       *)
LEMMA AddClientStep ==
    ASSUME IInv, NEW r \in Req, AddClient(r)
    PROVE  IInv' /\ LifeStep
  <1>1. PICK o : /\ \/ client' = [client EXCEPT ![req[r].client] = "present"]
                    \/ client' = client
                 /\ Answer(r)
                 /\ Spend(o)
    BY DEF AddClient
  <1>2. UNCHANGED <<account, clientId, clientKey, userKey, owner, clientOf>>
    BY DEF AddClient, keyVars
  <1>3. client' \in [Client -> {"none", "present", "gone"}]
    BY <1>1, Parts DEF IInv
  <1>4. req' \in [Req -> Job] /\ JobsOK' /\ NoneOwes
    BY <1>1, Ended
  <1>5. faults' \in Nat
    BY <1>1, Parts, SpendType DEF IInv
  <1> QED BY <1>2, <1>3, <1>4, <1>5, Parts, Untouched, Closing DEF IInv

(* A connection closes between two statements.                             *)
LEMMA AbandonStep ==
    ASSUME IInv, NEW r \in Req, Abandon(r)
    PROVE  IInv' /\ LifeStep
  <1>1. UNCHANGED <<account, clientId, client, clientKey, userKey, owner, clientOf>>
    BY DEF Abandon, keyVars
  <1>2. req' \in [Req -> Job] /\ JobsOK' /\ NoneOwes
    BY Ended DEF Abandon
  <1>3. faults' \in Nat
    BY Parts DEF Abandon, IInv
  <1> QED BY <1>1, <1>2, <1>3, Parts, Untouched, Closing DEF IInv

-----------------------------------------------------------------------------
(* The steps that write a table of keys.  The gateway's row comes first:   *)
(* the request that inserts it owes the owner's, of a key nobody else has. *)
LEMMA InsertGateStep ==
    ASSUME IInv, NEW r \in Req, InsertGate(r)
    PROVE  IInv' /\ LifeStep
  <1>1. PICK o \in Outcome, k \in Key :
          /\ Fresh(k)
          /\ At(r, "create", "gate")
          /\ \/ /\ clientKey' = [clientKey EXCEPT ![k] = "active"]
                /\ clientOf' = [clientOf EXCEPT ![k] = req[r].client]
                /\ owner' = [owner EXCEPT ![k] = req[r].user]
             \/ UNCHANGED <<clientKey, clientOf, owner>>
          /\ \/ Answer(r)
             \/ /\ req' = [req EXCEPT ![r].key = k, ![r].at = "row"]
                /\ clientKey' = [clientKey EXCEPT ![k] = "active"]
          /\ Spend(o)
    BY DEF InsertGate
  <1>2. UNCHANGED <<account, clientId, client, userKey>>
    BY DEF InsertGate
  <1>3. req[r] \in Job /\ req \in [Req -> Job]
    BY Parts DEF IInv
  <1>4. /\ clientKey' \in [Key -> Gate] /\ userKey' \in [Key -> Row]
        /\ owner' \in [Key -> User \cup {NoUser}]
        /\ clientOf' \in [Key -> Client \cup {NoClient}]
    BY <1>1, <1>2, <1>3, Parts DEF IInv, Gate, Live, Job
  <1>5. faults' \in Nat
    BY <1>1, Parts, SpendType DEF IInv
  <1>6. NoNews
    BY <1>1, <1>2, Parts DEF IInv, NoNews, Fresh
  <1>7. LifeStep
    BY <1>1, <1>2 DEF LifeStep, Life!Next, Life!Issue, Fresh
  <1>8. CASE Answer(r)
    BY <1>2, <1>4, <1>5, <1>6, <1>7, <1>8, Ended, Parts, Closing DEF IInv
  <1>9. ASSUME req' = [req EXCEPT ![r].key = k, ![r].at = "row"],
               clientKey' = [clientKey EXCEPT ![k] = "active"]
        PROVE  IInv'
    <2> DEFINE i == [req[r] EXCEPT !.key = k, !.at = "row"]
    <2>1. /\ i \in Job /\ i.at = "row" /\ i.op = "create" /\ i.key = k
          /\ i.user = req[r].user
      BY <1>1, <1>3 DEF Job, Pc, At
    <2>2. req' = [req EXCEPT ![r] = i]
      BY <1>9
    <2> HIDE DEF i
    <2>3. /\ req' \in [Req -> Job] /\ req'[r] = i
          /\ \A q \in Req \ {r} : req'[q] = req[q]
      BY <1>3, <2>1, <2>2
    <2>4. req[r].user \in User
      BY <1>1 DEF IInv, JobsOK, JobOK, At
    <2>5. JobsOK'
      BY <2>1, <2>3, <2>4 DEF IInv, JobsOK, JobOK
    <2>6. \A q \in Req \ {r} : Owing(q)' => /\ Owing(q) /\ req'[q].key = req[q].key
                                            /\ req[q].key \in Key /\ req[q].key # k
      BY <1>1, <2>3 DEF Owing, At, IInv, RowsDue, JobsOK, JobOK, Fresh
    <2>7. clientKey'[k] # "none" /\ userKey'[k] = "none"
      BY <1>1, <1>2, <1>9, Parts DEF IInv, Fresh
    <2>8. RowsDue'
      BY <1>6, <2>1, <2>3, <2>6, <2>7 DEF IInv, RowsDue, NoNews
    <2>9. RowsSole'
      BY <2>1, <2>3, <2>6 DEF IInv, RowsSole
    <2>10. TypeOK'
      BY <1>2, <1>4, <1>5, <2>3, Parts DEF IInv, TypeOK, Gate, Row, Job
    <2> QED BY <2>5, <2>8, <2>9, <2>10 DEF IInv
  <1> QED BY <1>1, <1>7, <1>8, <1>9

(* The owner's row follows, once: of another request that owes one, the key*)
(* is another.                                                             *)
LEMMA InsertRowStep ==
    ASSUME IInv, NEW r \in Req, InsertRow(r)
    PROVE  IInv' /\ LifeStep
  <1> DEFINE k == req[r].key
  <1>1. PICK o :
          /\ At(r, "create", "row")
          /\ userKey' = [userKey EXCEPT ![k] = "active"] \/ UNCHANGED userKey
          /\ Answer(r) \/ Goto(r, "undo")
          /\ Spend(o)
    BY DEF InsertRow
  <1>2. UNCHANGED <<account, clientId, client, clientKey, owner, clientOf>>
    BY DEF InsertRow
  <1>3. k \in Key /\ clientKey[k] # "none" /\ userKey[k] = "none"
    BY <1>1 DEF IInv, JobsOK, JobOK, RowsDue, Owing, At
  <1>4. userKey' \in [Key -> Row]
    BY <1>1, Parts DEF IInv, Row, Listed
  <1>5. req' \in [Req -> Job] /\ JobsOK' /\ NoneOwes
    <2>1. "undo" \in Pc /\ req[r].op = "create"
      BY <1>1 DEF Pc, At
    <2> QED BY <1>1, <2>1, Ended, WentOn
  <1>6. ~Owing(r)'
    <2>1. CASE Answer(r)
      BY <2>1, Parts, AnswerFacts DEF IInv, Owing, At, Idle
    <2>2. CASE Goto(r, "undo")
      <3>1. "undo" \in Pc
        BY DEF Pc
      <3> QED BY <2>2, <3>1, Parts, GotoFacts DEF IInv, Owing, At
    <2> QED BY <1>1, <2>1, <2>2
  <1>7. RowsDue'
    <2> SUFFICES ASSUME NEW q \in Req, Owing(q)'
                 PROVE  clientKey'[req'[q].key] # "none" /\ userKey'[req'[q].key] = "none"
      BY DEF RowsDue
    <2>1. q # r /\ Owing(q) /\ req'[q].key = req[q].key
      BY <1>5, <1>6 DEF NoneOwes
    <2>2. Owing(r)
      BY <1>1 DEF Owing
    <2>3. req[q].key # k
      BY <2>1, <2>2 DEF IInv, RowsSole
    <2>4. /\ req[q].key \in Key /\ clientKey[req[q].key] # "none"
          /\ userKey[req[q].key] = "none"
      BY <2>1 DEF IInv, RowsDue, JobsOK, JobOK, Owing, At
    <2> QED BY <1>1, <1>2, <2>1, <2>3, <2>4, Parts DEF IInv
  <1>8. RowsSole'
    BY <1>5 DEF IInv, RowsSole, NoneOwes
  <1>9. faults' \in Nat
    BY <1>1, Parts, SpendType DEF IInv
  <1>10. TypeOK'
    BY <1>2, <1>4, <1>5, <1>9, Parts DEF IInv, TypeOK, Gate, Row, Job
  <1>11. LifeStep
    BY <1>1, <1>2, <1>3 DEF LifeStep, Life!Next, Life!List
  <1> QED BY <1>5, <1>7, <1>8, <1>10, <1>11 DEF IInv

(* Without it, the gateway's is taken back; delete_key starts with it too. *)
LEMMA DropGateStep ==
    ASSUME IInv, NEW r \in Req, UndoGate(r) \/ DeleteGate(r)
    PROVE  IInv' /\ LifeStep
  <1>1. PICK o :
          /\ DropGates({req[r].key}) \/ UNCHANGED clientKey
          /\ Answer(r) \/ (req[r].op = "delete" /\ Goto(r, "row"))
          /\ Spend(o)
    BY DEF UndoGate, DeleteGate, At
  <1>2. UNCHANGED <<account, clientId, client, userKey, owner, clientOf>>
    BY DEF UndoGate, DeleteGate
  <1>3. /\ clientKey' \in [Key -> Gate] /\ userKey' \in [Key -> Row]
        /\ NoNews /\ LifeStep
    BY <1>1, <1>2, NothingDropped, Dropped DEF IInv, LifeStep
  <1>4. req' \in [Req -> Job] /\ JobsOK' /\ NoneOwes
    <2>1. "row" \in Pc
      BY DEF Pc
    <2> QED BY <1>1, <2>1, Ended, WentOn
  <1>5. faults' \in Nat
    BY <1>1, Parts, SpendType DEF IInv
  <1> QED BY <1>2, <1>3, <1>4, <1>5, Parts, Closing DEF IInv

(* toggle_key writes the gateway's row.                                    *)
LEMMA SetGateStep ==
    ASSUME IInv, NEW r \in Req, SetGate(r)
    PROVE  IInv' /\ LifeStep
  <1> DEFINE k == req[r].key
  <1>1. PICK o :
          /\ At(r, "toggle", "gate")
          /\ \/ clientKey[k] \in Live /\ clientKey' = [clientKey EXCEPT ![k] = req[r].to]
             \/ UNCHANGED clientKey
          /\ Goto(r, "row")
          /\ Spend(o)
    BY DEF SetGate
  <1>2. UNCHANGED <<account, clientId, client, userKey, owner, clientOf>>
    BY DEF SetGate
  <1>3. k \in Key /\ req[r].to \in Live /\ req[r].op = "toggle"
    BY <1>1 DEF IInv, JobsOK, JobOK, At
  <1>4. clientKey' \in [Key -> Gate] /\ userKey' \in [Key -> Row] /\ NoNews
    BY <1>1, <1>2, <1>3, Parts DEF IInv, Gate, Live, NoNews
  <1>5. LifeStep
    BY <1>1, <1>2, <1>3 DEF LifeStep, Life!Next, Life!Switch, Life!GateStatus, Live
  <1>6. req' \in [Req -> Job] /\ JobsOK' /\ NoneOwes
    <2>1. "row" \in Pc
      BY DEF Pc
    <2> QED BY <1>1, <1>3, <2>1, WentOn
  <1>7. faults' \in Nat
    BY <1>1, Parts, SpendType DEF IInv
  <1> QED BY <1>2, <1>4, <1>5, <1>6, <1>7, Parts, Closing DEF IInv

(* And the owner's, if it is there.                                        *)
LEMMA SetRowStep ==
    ASSUME IInv, NEW r \in Req, SetRow(r)
    PROVE  IInv' /\ LifeStep
  <1>1. PICK o :
          /\ At(r, "toggle", "row")
          /\ \/ userKey[req[r].key] \in Listed /\ MarkRows({req[r].key}, req[r].to)
             \/ UNCHANGED userKey
          /\ Answer(r)
          /\ Spend(o)
    BY DEF SetRow
  <1>2. UNCHANGED <<account, clientId, client, clientKey, owner, clientOf>>
    BY DEF SetRow
  <1>3. {req[r].key} \in SUBSET Key /\ req[r].to \in Listed
    BY <1>1 DEF IInv, JobsOK, JobOK, At, Live, Listed
  <1>4. /\ clientKey' \in [Key -> Gate] /\ userKey' \in [Key -> Row]
        /\ NoNews /\ LifeStep
    <2>1. CASE UNCHANGED userKey
      BY <1>2, <2>1, Untouched DEF IInv
    <2>2. CASE userKey[req[r].key] \in Listed /\ MarkRows({req[r].key}, req[r].to)
      BY <1>2, <1>3, <2>2, Marked DEF IInv, LifeStep
    <2> QED BY <1>1, <2>1, <2>2
  <1>5. req' \in [Req -> Job] /\ JobsOK' /\ NoneOwes
    BY <1>1, Ended
  <1>6. faults' \in Nat
    BY <1>1, Parts, SpendType DEF IInv
  <1> QED BY <1>2, <1>4, <1>5, <1>6, Parts, Closing DEF IInv

(* delete_key ends with the owner's row.                                   *)
LEMMA DeleteRowStep ==
    ASSUME IInv, NEW r \in Req, DeleteRow(r)
    PROVE  IInv' /\ LifeStep
  <1>1. PICK o :
          /\ DropRows({req[r].key}) \/ UNCHANGED userKey
          /\ Answer(r)
          /\ Spend(o)
    BY DEF DeleteRow
  <1>2. UNCHANGED <<account, clientId, client, clientKey, owner, clientOf>>
    BY DEF DeleteRow
  <1>3. /\ clientKey' \in [Key -> Gate] /\ userKey' \in [Key -> Row]
        /\ NoNews /\ LifeStep
    BY <1>1, <1>2, NothingDropped, Dropped DEF IInv, LifeStep
  <1>4. req' \in [Req -> Job] /\ JobsOK' /\ NoneOwes
    BY <1>1, Ended
  <1>5. faults' \in Nat
    BY <1>1, Parts, SpendType DEF IInv
  <1> QED BY <1>2, <1>3, <1>4, <1>5, Parts, Closing DEF IInv

(* delete_account commits.                                                 *)
LEMMA CloseAccountStep ==
    ASSUME IInv, NEW r \in Req, CloseAccount(r)
    PROVE  IInv' /\ LifeStep
  <1>1. PICK o, S, T :
          /\ \/ /\ DropGates(S) /\ DropRows(T)
                /\ client' = [d \in Client |-> IF d = req[r].client /\ client[d] = "present"
                                               THEN "gone" ELSE client[d]]
                /\ account' = [account EXCEPT ![req[r].user] = "gone"]
                /\ clientId' = [clientId EXCEPT ![req[r].user] = NoClient]
             \/ UNCHANGED <<account, clientId, client, clientKey, userKey>>
          /\ Answer(r)
          /\ Spend(o)
    BY DEF CloseAccount
  <1>2. UNCHANGED <<owner, clientOf>>
    BY DEF CloseAccount
  <1>3. /\ account' \in [User -> {"none", "active", "banned", "gone"}]
        /\ clientId' \in [User -> Client \cup {NoClient}]
        /\ client' \in [Client -> {"none", "present", "gone"}]
    BY <1>1, Parts DEF IInv
  <1>4. /\ clientKey' \in [Key -> Gate] /\ userKey' \in [Key -> Row]
        /\ NoNews /\ LifeStep
    <2>1. CASE DropGates(S) /\ DropRows(T)
      BY <2>1, Dropped DEF IInv, LifeStep
    <2>2. CASE UNCHANGED <<clientKey, userKey>>
      BY <2>2, Untouched DEF IInv
    <2> QED BY <1>1, <2>1, <2>2
  <1>5. req' \in [Req -> Job] /\ JobsOK' /\ NoneOwes
    BY <1>1, Ended
  <1>6. faults' \in Nat
    BY <1>1, Parts, SpendType DEF IInv
  <1> QED BY <1>2, <1>3, <1>4, <1>5, <1>6, Parts, Closing DEF IInv

(* ban_user and unban_user write the rows of the user's keys.              *)
LEMMA BanKeysStep ==
    ASSUME IInv, NEW r \in Req, BanKeys(r)
    PROVE  IInv' /\ LifeStep
  <1>1. PICK o, S, s :
          /\ \/ UNCHANGED userKey
             \/ /\ S \subseteq KeysOf(req[r].user) /\ s \in {"banned", "active"}
                /\ MarkRows(S, s)
          /\ Answer(r)
          /\ Spend(o)
    <2> DEFINE u == req[r].user
    <2>1. KeysOf(u) \subseteq KeysOf(u)
          /\ {k \in KeysOf(u) : userKey[k] = "banned"} \subseteq KeysOf(u)
      OBVIOUS
    <2>2. PICK o : /\ \/ UNCHANGED userKey
                      \/ MarkRows(KeysOf(u), "banned")
                      \/ MarkRows({k \in KeysOf(u) : userKey[k] = "banned"}, "active")
                   /\ Answer(r)
                   /\ Spend(o)
      BY DEF BanKeys
    <2> QED BY <2>1, <2>2
  <1>2. UNCHANGED <<account, clientId, client, clientKey, owner, clientOf>>
    BY DEF BanKeys
  <1>3. /\ clientKey' \in [Key -> Gate] /\ userKey' \in [Key -> Row]
        /\ NoNews /\ LifeStep
    <2>1. CASE UNCHANGED userKey
      BY <1>2, <2>1, Untouched DEF IInv
    <2>2. CASE /\ S \subseteq KeysOf(req[r].user) /\ s \in {"banned", "active"}
               /\ MarkRows(S, s)
      <3>1. S \in SUBSET Key /\ (\A k \in S : userKey[k] \in Listed) /\ s \in Listed
        BY <2>2 DEF KeysOf, Listed
      <3> QED BY <1>2, <2>2, <3>1, Marked DEF IInv, LifeStep
    <2> QED BY <1>1, <2>1, <2>2
  <1>4. req' \in [Req -> Job] /\ JobsOK' /\ NoneOwes
    BY <1>1, Ended
  <1>5. faults' \in Nat
    BY <1>1, Parts, SpendType DEF IInv
  <1> QED BY <1>2, <1>3, <1>4, <1>5, Parts, Closing DEF IInv

(* The administration's single statements.                                 *)
LEMMA RemoveUserStep ==
    ASSUME IInv, NEW u \in User, RemoveUser(u)
    PROVE  IInv' /\ LifeStep
  <1>1. PICK o : /\ account' = [account EXCEPT ![u] = "gone"]
                 /\ clientId' = [clientId EXCEPT ![u] = NoClient]
                 /\ DropRows({k \in Key : owner[k] = u})
                 /\ Spend(o)
    BY DEF RemoveUser
  <1>2. UNCHANGED <<client, clientKey, owner, clientOf, req>>
    BY DEF RemoveUser
  <1>3. /\ clientKey' \in [Key -> Gate] /\ userKey' \in [Key -> Row]
        /\ NoNews /\ LifeStep
    BY <1>1, <1>2, NothingDropped, Dropped DEF IInv, LifeStep
  <1>4. /\ account' \in [User -> {"none", "active", "banned", "gone"}]
        /\ clientId' \in [User -> Client \cup {NoClient}]
    BY <1>1, Parts DEF IInv
  <1>5. faults' \in Nat
    BY <1>1, Parts, SpendType DEF IInv
  <1> QED BY <1>2, <1>3, <1>4, <1>5, Stayed, Parts, Closing DEF IInv

LEMMA DropClientStep ==
    ASSUME IInv, NEW c \in Client, DropClient(c)
    PROVE  IInv' /\ LifeStep
  <1>1. PICK o : /\ client' = IF Applied(o) THEN [client EXCEPT ![c] = "gone"] ELSE client
                 /\ DropGates({k \in Key : clientOf[k] = c})
                 /\ Spend(o)
    BY DEF DropClient
  <1>2. UNCHANGED <<account, clientId, userKey, owner, clientOf, req>>
    BY DEF DropClient
  <1>3. /\ clientKey' \in [Key -> Gate] /\ userKey' \in [Key -> Row]
        /\ NoNews /\ LifeStep
    BY <1>1, <1>2, NothingDropped, Dropped DEF IInv, LifeStep
  <1>4. client' \in [Client -> {"none", "present", "gone"}]
    BY <1>1, Parts DEF IInv
  <1>5. faults' \in Nat
    BY <1>1, Parts, SpendType DEF IInv
  <1> QED BY <1>2, <1>3, <1>4, <1>5, Stayed, Parts, Closing DEF IInv

LEMMA AddClientKeyStep ==
    ASSUME IInv, NEW c \in Client, NEW k \in Key, AddClientKey(k, c)
    PROVE  IInv' /\ LifeStep
  <1>1. /\ Fresh(k)
        /\ clientKey' = [clientKey EXCEPT ![k] = "active"]
        /\ clientOf' = [clientOf EXCEPT ![k] = c]
        /\ UNCHANGED <<account, clientId, client, userKey, owner, req, faults>>
    BY DEF AddClientKey
  <1>2. /\ clientKey' \in [Key -> Gate] /\ userKey' \in [Key -> Row]
        /\ clientOf' \in [Key -> Client \cup {NoClient}]
    BY <1>1, Parts DEF IInv, Gate, Live
  <1>3. NoNews
    BY <1>1, Parts DEF IInv, NoNews, Fresh
  <1>4. LifeStep
    BY <1>1 DEF LifeStep, Life!Next, Life!Issue, Fresh
  <1> QED BY <1>1, <1>2, <1>3, <1>4, Stayed, Parts, Closing DEF IInv

LEMMA DropClientKeyStep ==
    ASSUME IInv, NEW k \in Key, DropClientKey(k)
    PROVE  IInv' /\ LifeStep
  <1>1. DropGates({k}) /\ UNCHANGED <<account, clientId, client, userKey, owner, clientOf,
                                      req, faults>>
    BY DEF DropClientKey
  <1>2. /\ clientKey' \in [Key -> Gate] /\ userKey' \in [Key -> Row]
        /\ NoNews /\ LifeStep
    BY <1>1, NothingDropped, Dropped DEF IInv, LifeStep
  <1> QED BY <1>1, <1>2, Stayed, Parts, Closing DEF IInv

-----------------------------------------------------------------------------
(* The tables begin empty.                                                 *)
LEMMA InitInv == Init => IInv /\ Life!Init
  <1> SUFFICES ASSUME Init
               PROVE  IInv /\ Life!Init
    OBVIOUS
  <1>1. Idle \in Job
    BY DEF Idle, Job, Op, Pc
  <1>2. req \in [Req -> Job] /\ \A r \in Req : req[r] = Idle
    BY <1>1 DEF Init
  <1>3. /\ account \in [User -> {"none", "active", "banned", "gone"}]
        /\ clientId \in [User -> Client \cup {NoClient}]
        /\ client \in [Client -> {"none", "present", "gone"}]
        /\ clientKey \in [Key -> Gate] /\ userKey \in [Key -> Row]
        /\ owner \in [Key -> User \cup {NoUser}]
        /\ clientOf \in [Key -> Client \cup {NoClient}]
        /\ faults \in Nat
    BY DEF Init, Gate, Row
  <1>4. TypeOK
    BY <1>2, <1>3 DEF TypeOK, Gate, Row, Job
  <1>5. JobsOK /\ RowsDue /\ RowsSole
    BY <1>2 DEF JobsOK, JobOK, RowsDue, RowsSole, Owing, At, Idle
  <1>6. Life!Init
    BY DEF Init, Life!Init
  <1> QED BY <1>4, <1>5, <1>6 DEF IInv

(* A step of UserKeys keeps the invariant and is a step of KeyLife.        *)
LEMMA StepInv == IInv /\ [Next]_vars => IInv' /\ [Life!Next]_Life!vars
  <1> SUFFICES ASSUME IInv, [Next]_vars
               PROVE  IInv' /\ LifeStep
    BY DEF LifeStep, Life!vars
  <1>1. CASE UNCHANGED vars
    <2>1. UNCHANGED <<account, clientId, client, clientKey, userKey, owner, clientOf, req,
                      faults>>
      BY <1>1 DEF vars, keyVars
    <2> QED BY <2>1, Stayed, Untouched, Parts, Closing DEF IInv
  <1>2. ASSUME NEW r \in Req, Handler(r)
        PROVE  IInv' /\ LifeStep
    BY <1>2, StartStep, CountStep, FindStep, NewClientStep, BindStep, InsertGateStep,
       InsertRowStep, DropGateStep, ReadKeyStep, SetGateStep, SetRowStep, DeleteRowStep,
       ReadAccountStep, CloseAccountStep DEF Handler
  <1>3. ASSUME NEW r \in Req, Admin(r)
        PROVE  IInv' /\ LifeStep
    BY <1>3, BanUserStep, AddUserStep, BanKeysStep, AddClientStep DEF Admin
  <1>4. CASE AdminOnce
    BY <1>4, RemoveUserStep, DropClientStep, AddClientKeyStep, DropClientKeyStep DEF AdminOnce
  <1> QED BY <1>1, <1>2, <1>3, <1>4, AbandonStep DEF Next

(* The invariant holds for ever, whatever statements fail in between.      *)
LEMMA InvAlways == Spec => []IInv
  <1>1. Init => IInv
    BY InitInv
  <1>2. IInv /\ [Next]_vars => IInv'
    BY StepInv
  <1> QED BY <1>1, <1>2, PTL DEF Spec

(* Every variable keeps its type.                                          *)
THEOREM TypeCorrect == Spec => []TypeOK
  <1>1. IInv => TypeOK
    BY DEF IInv
  <1> QED BY <1>1, InvAlways, PTL

(* The handlers of console.rs and of the two administrations, interleaved  *)
(* statement by statement and with any of them failing, implement the life *)
(* of a key: the gateway's row first, the owner's row once, no return of a *)
(* deleted one.                                                            *)
THEOREM LivesKept == Spec => LifeSpec
  <1>1. Init => Life!Init
    BY InitInv
  <1>2. IInv /\ [Next]_vars => [Life!Next]_Life!vars
    BY StepInv
  <1> QED BY <1>1, <1>2, InvAlways, PTL DEF Spec, LifeSpec, Life!Spec

-----------------------------------------------------------------------------
(* Beyond KeyLife: the limit of active keys, and the agreement of the two  *)
(* tables.  The handlers' requests, with what they work on:                *)

(* a request with a key in hand works for the key's owner, at a statement  *)
(* of one of three operations; the statements before have found a client.  *)
Works(r) ==
    \/ req[r].op = "create" /\ req[r].at \in {"row", "undo"}
    \/ req[r].op = "toggle" /\ req[r].at \in {"read", "count", "gate", "row"}
    \/ req[r].op = "delete" /\ req[r].at \in {"read", "gate", "row"}
JobFine(r) ==
    /\ req[r].at = "keys" => req[r].op \in {"ban", "unban"}
    /\ req[r].key # NoKey => /\ Works(r) /\ req[r].user \in User
                             /\ owner[req[r].key] = req[r].user
    /\ req[r].op = "create" /\ req[r].at \in {"bind", "gate"} => req[r].client \in Client
JobsFine == \A r \in Req : JobFine(r)

(* An owned key was issued, for a client that is or was there.             *)
KeysKnown == \A k \in Key : owner[k] # NoUser =>
    clientKey[k] # "none" /\ clientOf[k] \in Client /\ client[clientOf[k]] # "none"

(* A client is one user's: his column, requests and keys have no other's,  *)
(* so that an account closed with its client takes nobody else's keys.     *)
Uses(c, u) ==
    \/ clientId[u] = c
    \/ \E r \in Req : req[r].op \in {"create", "close"} /\ req[r].user = u /\ req[r].client = c
    \/ \E k \in Key : owner[k] = u /\ clientOf[k] = c
ClientsOwned == \A c \in Client : \A u, v \in User : Uses(c, u) /\ Uses(c, v) => u = v

JInv == JobsFine /\ KeysKnown /\ ClientsOwned

(* Owners and accounts that are gone are settled.                          *)
OwnersKept == \A k \in Key : owner[k] # NoUser => owner'[k] = owner[k]
ClosedStay == \A u \in User : account[u] = "gone" => account'[u] = "gone"
OthersStay(r) == \A q \in Req \ {r} : req'[q] = req[q]

(* A request that has ended, or is further on in the same job.             *)
GoneOn(r) == \/ req'[r] = Idle
             \/ /\ req'[r].op = req[r].op /\ req'[r].user = req[r].user
                /\ req'[r].key = req[r].key /\ req'[r].client = req[r].client
Onward(r) == OthersStay(r) /\ GoneOn(r)

(* Jobs stay fine when the one that moved is.                              *)
LEMMA FineKept ==
    ASSUME TypeOK, JobsFine, NEW r \in Req, OthersStay(r), JobFine(r)', OwnersKept
    PROVE  JobsFine'
  <1> SUFFICES ASSUME NEW q \in Req \ {r}
               PROVE  JobFine(q)'
    BY DEF JobsFine
  <1>1. JobFine(q) /\ req'[q] = req[q]
    BY DEF JobsFine, OthersStay
  <1>2. req[q].key # NoKey => owner'[req[q].key] = owner[req[q].key]
    <2>1. req[q].key \in Key \cup {NoKey}
      BY Parts DEF Job
    <2> QED BY <1>1, <2>1, KeyConstants DEF JobFine, OwnersKept
  <1> QED BY <1>1, <1>2 DEF JobFine, Works

(* A request that has ended holds nothing.                                 *)
LEMMA IdleFine ==
    ASSUME NEW r \in Req, req'[r] = Idle
    PROVE  JobFine(r)'
  BY DEF JobFine, Idle

(* A client comes to be used by one user at a time.                        *)
LEMMA OwnedKept ==
    ASSUME ClientsOwned, NEW d \in Client \cup {NoClient}, NEW w,
           d \in Client => \A u \in User : ~Uses(d, u),
           \A c \in Client, u \in User : Uses(c, u)' => Uses(c, u) \/ (c = d /\ u = w)
    PROVE  ClientsOwned'
  BY DEF ClientsOwned

(* Who goes on uses no other client.                                       *)
LEMMA NoNewUse ==
    ASSUME ClientsOwned, NEW r \in Req, Onward(r), UNCHANGED <<owner, clientOf>>,
           \A u \in User : clientId'[u] \in {clientId[u], NoClient}
    PROVE  ClientsOwned'
  <1>1. \A c \in Client, u \in User : Uses(c, u)' => Uses(c, u)
    <2> SUFFICES ASSUME NEW c \in Client, NEW u \in User, Uses(c, u)' PROVE Uses(c, u)
      OBVIOUS
    <2>1. CASE clientId'[u] = c
      BY <2>1, KeyConstants DEF Uses
    <2>2. CASE \E k \in Key : owner'[k] = u /\ clientOf'[k] = c
      BY <2>2 DEF Uses
    <2>3. ASSUME NEW q \in Req, req'[q].op \in {"create", "close"}, req'[q].user = u,
                 req'[q].client = c
          PROVE  Uses(c, u)
      BY <2>3 DEF Uses, Onward, OthersStay, GoneOn, Idle
    <2> QED BY <2>1, <2>2, <2>3 DEF Uses
  <1> QED BY <1>1 DEF ClientsOwned

(* The same when no request moves.                                         *)
LEMMA NoUseWithout ==
    ASSUME ClientsOwned, UNCHANGED <<req, owner>>,
           \A k \in Key : owner[k] # NoUser => clientOf'[k] = clientOf[k],
           \A u \in User : clientId'[u] \in {clientId[u], NoClient}
    PROVE  ClientsOwned'
  <1>1. \A c \in Client, u \in User : Uses(c, u)' => Uses(c, u)
    <2> SUFFICES ASSUME NEW c \in Client, NEW u \in User, Uses(c, u)' PROVE Uses(c, u)
      OBVIOUS
    <2>1. CASE clientId'[u] = c
      BY <2>1, KeyConstants DEF Uses
    <2>2. CASE \E k \in Key : owner'[k] = u /\ clientOf'[k] = c
      BY <2>2, KeyConstants DEF Uses
    <2>3. CASE \E q \in Req : /\ req'[q].op \in {"create", "close"} /\ req'[q].user = u
                              /\ req'[q].client = c
      BY <2>3 DEF Uses
    <2> QED BY <2>1, <2>2, <2>3 DEF Uses
  <1> QED BY <1>1 DEF ClientsOwned

(* Whatever is done to the tables is a step of KeyLife: the gateway's rows *)
(* do not return to nothing, and what is gone stays so.                    *)
RowsStay == \A k \in Key : /\ clientKey[k] # "none" => clientKey'[k] # "none"
                           /\ clientKey[k] = "gone" => clientKey'[k] = "gone"
                           /\ userKey[k] = "gone" => userKey'[k] = "gone"
LEMMA LifeKeeps ==
    ASSUME TypeOK, LifeStep
    PROVE  RowsStay
  <1>1. CASE \E k \in Key : Life!Issue(k) \/ Life!List(k)
    BY <1>1 DEF Life!Issue, Life!List, TypeOK, RowsStay
  <1>2. CASE \E k \in Key, s \in Life!GateStatus : Life!Switch(k, s)
    BY <1>2 DEF Life!Switch, Life!GateStatus, TypeOK, RowsStay
  <1>3. CASE \E T \in SUBSET Key, s \in Life!RowStatus : Life!Mark(T, s)
    BY <1>3 DEF Life!Mark, Life!RowStatus, TypeOK, RowsStay
  <1>4. CASE \E S, T \in SUBSET Key : Life!Withdraw(S, T)
    BY <1>4 DEF Life!Withdraw, TypeOK, RowsStay
  <1>5. CASE UNCHANGED <<clientKey, userKey>>
    BY <1>5 DEF RowsStay
  <1> QED BY <1>1, <1>2, <1>3, <1>4, <1>5 DEF LifeStep, Life!Next

(* Keys stay known.                                                        *)
LEMMA KnownKept ==
    ASSUME KeysKnown, RowsStay, UNCHANGED owner,
           \A k \in Key : owner[k] # NoUser => clientOf'[k] = clientOf[k],
           \A c \in Client : client[c] # "none" => client'[c] # "none"
    PROVE  KeysKnown'
  BY DEF KeysKnown, RowsStay

(* A step of a request that issues no key and finds no client.             *)
LEMMA OnwardFine ==
    ASSUME TypeOK, JInv, NEW r \in Req, Onward(r), JobFine(r)', RowsStay,
           UNCHANGED <<owner, clientOf>>,
           \A u \in User : clientId'[u] \in {clientId[u], NoClient},
           \A c \in Client : client[c] # "none" => client'[c] # "none"
    PROVE  JInv'
  <1>1. OwnersKept /\ OthersStay(r)
    BY DEF OwnersKept, Onward
  <1> QED BY <1>1, FineKept, NoNewUse, KnownKept DEF JInv

(* Such a step, by an answer or to another statement.                      *)
LEMMA AnswerOn ==
    ASSUME TypeOK, NEW r \in Req, Answer(r)
    PROVE  Onward(r) /\ JobFine(r)' /\ req'[r] = Idle
  <1>1. req'[r] = Idle /\ OthersStay(r)
    BY AnswerFacts, Parts DEF OthersStay
  <1> QED BY <1>1, IdleFine DEF Onward, GoneOn

LEMMA GotoOn ==
    ASSUME TypeOK, JobsFine, NEW r \in Req, NEW pc \in Pc, Goto(r, pc), UNCHANGED owner,
           pc # "keys",
           req[r].key # NoKey =>
              \/ req[r].op = "create" /\ pc \in {"row", "undo"}
              \/ req[r].op = "toggle" /\ pc \in {"read", "count", "gate", "row"}
              \/ req[r].op = "delete" /\ pc \in {"read", "gate", "row"},
           req[r].op = "create" /\ pc \in {"bind", "gate"} => req[r].client \in Client
    PROVE  Onward(r) /\ JobFine(r)'
  <1>1. /\ OthersStay(r) /\ req'[r].at = pc
        /\ req'[r].op = req[r].op /\ req'[r].user = req[r].user
        /\ req'[r].key = req[r].key /\ req'[r].client = req[r].client
    BY GotoFacts, Parts DEF OthersStay
  <1>2. JobFine(r)
    BY DEF JobsFine
  <1> QED BY <1>1, <1>2 DEF Onward, GoneOn, JobFine, Works

(* toggle_key notes what it will write, and goes on.                       *)
LEMMA ToggleOn ==
    ASSUME TypeOK, JobsFine, NEW r \in Req, NEW s \in Live, NEW pc \in {"gate", "count"},
           req[r].op = "toggle", UNCHANGED owner,
           req' = [req EXCEPT ![r].to = s, ![r].at = pc]
    PROVE  /\ Onward(r) /\ JobFine(r)'
           /\ req'[r].to = s /\ req'[r].at = pc /\ req'[r].op = "toggle"
           /\ req'[r].key = req[r].key /\ req'[r].user = req[r].user
  <1> DEFINE i == [req[r] EXCEPT !.to = s, !.at = pc]
  <1>1. req[r] \in Job /\ req \in [Req -> Job]
    BY Parts
  <1>2. /\ i.at = pc /\ i.op = req[r].op /\ i.key = req[r].key
        /\ i.to = s /\ i.user = req[r].user /\ i.client = req[r].client
    BY <1>1 DEF Job
  <1>3. req' = [req EXCEPT ![r] = i]
    OBVIOUS
  <1> HIDE DEF i
  <1>4. req'[r] = i /\ OthersStay(r)
    BY <1>1, <1>3 DEF OthersStay
  <1>5. JobFine(r)
    BY DEF JobsFine
  <1> QED BY <1>2, <1>4, <1>5 DEF Onward, GoneOn, JobFine, Works

-----------------------------------------------------------------------------
(* One by one, first the statements that issue no key and find no client.  *)
LEMMA OnwardSteps ==
    ASSUME IInv, JInv, NEW r \in Req,
           \/ CountKeys(r) \/ InsertRow(r) \/ UndoGate(r) \/ ReadKey(r) \/ SetGate(r)
           \/ SetRow(r) \/ DeleteGate(r) \/ DeleteRow(r) \/ CloseAccount(r)
           \/ BanKeys(r) \/ AddClient(r) \/ Abandon(r)
    PROVE  Onward(r) /\ JobFine(r)' /\ UNCHANGED <<owner, clientOf>>
  <1>1. TypeOK /\ JobsFine /\ JobFine(r)
    BY DEF IInv, JInv, JobsFine
  <1>2. {"client", "gate", "row", "undo", "count"} \subseteq Pc
    BY DEF Pc
  <1>3. UNCHANGED <<owner, clientOf>>
    BY DEF CountKeys, InsertRow, UndoGate, ReadKey, SetGate, SetRow, DeleteGate, DeleteRow,
       CloseAccount, BanKeys, AddClient, Abandon, keyVars
  <1>4. CASE Answer(r)
    BY <1>1, <1>3, <1>4, AnswerOn
  <1>5. CASE CountKeys(r)
    <2>1. /\ req[r].at = "count"
          /\ Answer(r) \/ Goto(r, IF req[r].op = "create" THEN "client" ELSE "gate")
      BY <1>5 DEF CountKeys
    <2>2. req[r].key # NoKey => req[r].op = "toggle"
      BY <1>1, <2>1 DEF JobFine, Works
    <2>3. CASE req[r].op = "create" /\ Goto(r, "client")
      BY <1>1, <1>2, <1>3, <2>2, <2>3, GotoOn
    <2>4. CASE req[r].op # "create" /\ Goto(r, "gate")
      BY <1>1, <1>2, <1>3, <2>2, <2>4, GotoOn
    <2> QED BY <1>4, <2>1, <2>3, <2>4
  <1>6. CASE InsertRow(r)
    <2>1. req[r].op = "create" /\ (Answer(r) \/ Goto(r, "undo"))
      BY <1>6 DEF InsertRow, At
    <2> QED BY <1>1, <1>2, <1>3, <1>4, <2>1, GotoOn
  <1>7. CASE ReadKey(r)
    <2>1. \/ Answer(r)
          \/ req[r].op # "toggle" /\ Goto(r, "gate")
          \/ req[r].op = "toggle" /\ req' = [req EXCEPT ![r].to = "revoked", ![r].at = "gate"]
          \/ req[r].op = "toggle" /\ req' = [req EXCEPT ![r].to = "active", ![r].at = "count"]
      BY <1>7 DEF ReadKey
    <2>2. req[r].op = "toggle" \/ req[r].op = "delete"
      BY <1>7 DEF ReadKey, At
    <2>3. "active" \in Live /\ "revoked" \in Live
      BY DEF Live
    <2>4. CASE req[r].op = "delete" /\ Goto(r, "gate")
      BY <1>1, <1>2, <1>3, <2>4, GotoOn
    <2> QED BY <1>1, <1>3, <1>4, <2>1, <2>2, <2>3, <2>4, ToggleOn
  <1>8. CASE SetGate(r)
    <2>1. req[r].op = "toggle" /\ Goto(r, "row")
      BY <1>8 DEF SetGate, At
    <2> QED BY <1>1, <1>2, <1>3, <2>1, GotoOn
  <1>9. CASE DeleteGate(r)
    <2>1. req[r].op = "delete" /\ Goto(r, "row")
      BY <1>9 DEF DeleteGate, At
    <2> QED BY <1>1, <1>2, <1>3, <2>1, GotoOn
  <1>10. CASE \/ UndoGate(r) \/ SetRow(r) \/ DeleteRow(r) \/ CloseAccount(r)
              \/ BanKeys(r) \/ AddClient(r) \/ Abandon(r)
    BY <1>4, <1>10 DEF UndoGate, SetRow, DeleteRow, CloseAccount, BanKeys, AddClient, Abandon
  <1> QED BY <1>5, <1>6, <1>7, <1>8, <1>9, <1>10

LEMMA OnwardJobs ==
    ASSUME IInv, JInv, RowsStay, NEW r \in Req,
           \/ CountKeys(r) \/ InsertRow(r) \/ UndoGate(r) \/ ReadKey(r) \/ SetGate(r)
           \/ SetRow(r) \/ DeleteGate(r) \/ DeleteRow(r) \/ CloseAccount(r)
           \/ BanKeys(r) \/ AddClient(r) \/ Abandon(r)
    PROVE  JInv'
  <1>1. Onward(r) /\ JobFine(r)' /\ UNCHANGED <<owner, clientOf>>
    BY OnwardSteps
  <1>2. \A u \in User : clientId'[u] \in {clientId[u], NoClient}
    <2>1. CASE CloseAccount(r)
      BY <2>1, Parts DEF CloseAccount, IInv
    <2> QED BY <2>1 DEF CountKeys, InsertRow, UndoGate, ReadKey, SetGate, SetRow, DeleteGate,
                        DeleteRow, BanKeys, AddClient, Abandon
  <1>3. \A c \in Client : client[c] # "none" => client'[c] # "none"
    <2>1. CASE CloseAccount(r)
      BY <2>1, Parts DEF CloseAccount, IInv
    <2>2. CASE AddClient(r)
      BY <2>2, Parts DEF AddClient, IInv
    <2> QED BY <2>1, <2>2 DEF CountKeys, InsertRow, UndoGate, ReadKey, SetGate, SetRow,
                              DeleteGate, DeleteRow, BanKeys, Abandon
  <1> QED BY <1>1, <1>2, <1>3, OnwardFine DEF IInv

(* Requests, columns and keys that come to a client its user already uses, *)
(* or to one nobody uses.                                                  *)
LEMMA MovedUse ==
    ASSUME ClientsOwned, NEW r \in Req, OthersStay(r),
           NEW d \in Client \cup {NoClient}, NEW w,
           d \in Client => \A u \in User : ~Uses(d, u),
           req'[r].op \in {"create", "close"} /\ req'[r].client \in Client =>
              \/ Uses(req'[r].client, req'[r].user)
              \/ req'[r].client = d /\ req'[r].user = w,
           \A u \in User : clientId'[u] \in Client =>
              Uses(clientId'[u], u) \/ (clientId'[u] = d /\ u = w),
           \A k \in Key : owner'[k] \in User /\ clientOf'[k] \in Client =>
              Uses(clientOf'[k], owner'[k])
    PROVE  ClientsOwned'
  <1>1. \A c \in Client, u \in User : Uses(c, u)' => Uses(c, u) \/ (c = d /\ u = w)
    <2> SUFFICES ASSUME NEW c \in Client, NEW u \in User, Uses(c, u)'
                 PROVE  Uses(c, u) \/ (c = d /\ u = w)
      OBVIOUS
    <2>1. CASE clientId'[u] = c
      BY <2>1
    <2>2. CASE \E k \in Key : owner'[k] = u /\ clientOf'[k] = c
      BY <2>2
    <2>3. ASSUME NEW q \in Req, req'[q].op \in {"create", "close"}, req'[q].user = u,
                 req'[q].client = c
          PROVE  Uses(c, u) \/ (c = d /\ u = w)
      <3>1. CASE q = r
        BY <2>3, <3>1
      <3>2. CASE q # r
        BY <2>3, <3>2 DEF OthersStay, Uses
      <3> QED BY <3>1, <3>2
    <2> QED BY <2>1, <2>2, <2>3 DEF Uses
  <1> QED BY <1>1, OwnedKept

(* What is used now: a user's column, his keys, a request's client.        *)
LEMMA UsedNow ==
    /\ \A u \in User : Uses(clientId[u], u)
    /\ \A k \in Key : Uses(clientOf[k], owner[k])
    /\ \A r \in Req : req[r].op \in {"create", "close"} => Uses(req[r].client, req[r].user)
  BY DEF Uses

(* Handlers begin without a client, and with a key only of their user's.   *)
LEMMA StartFacts ==
    ASSUME NEW r \in Req, Start(r)
    PROVE  \E j \in Job : /\ Begin(r, j) /\ j.client = NoClient /\ j.at \in {"count", "read"}
                          /\ j.key # NoKey => /\ j.op \in {"toggle", "delete"} /\ j.at = "read"
                                              /\ j.user \in User /\ owner[j.key] = j.user
  <1>1. PICK u \in User :
          \/ Begin(r, [Idle EXCEPT !.op = "create", !.at = "count", !.user = u])
          \/ Begin(r, [Idle EXCEPT !.op = "close", !.at = "read", !.user = u])
          \/ \E k \in KeysOf(u), op \in {"toggle", "delete"} :
                Begin(r, [Idle EXCEPT !.op = op, !.at = "read", !.user = u, !.key = k])
    BY DEF Start
  <1>2. ASSUME NEW op \in {"create", "close"}, NEW pc \in {"count", "read"},
               Begin(r, [Idle EXCEPT !.op = op, !.at = pc, !.user = u])
        PROVE  \E j \in Job : /\ Begin(r, j) /\ j.client = NoClient
                              /\ j.at \in {"count", "read"} /\ j.key = NoKey
    <2> DEFINE j == [Idle EXCEPT !.op = op, !.at = pc, !.user = u]
    <2>1. j \in Job /\ j.client = NoClient /\ j.at = pc /\ j.key = NoKey
      BY DEF Idle, Job, Op, Pc
    <2> QED BY <1>2, <2>1
  <1>3. ASSUME NEW k \in KeysOf(u), NEW op \in {"toggle", "delete"},
               Begin(r, [Idle EXCEPT !.op = op, !.at = "read", !.user = u, !.key = k])
        PROVE  \E j \in Job : /\ Begin(r, j) /\ j.client = NoClient
                              /\ j.at = "read" /\ j.op \in {"toggle", "delete"}
                              /\ j.user \in User /\ owner[j.key] = j.user
    <2> DEFINE j == [Idle EXCEPT !.op = op, !.at = "read", !.user = u, !.key = k]
    <2>1. /\ j \in Job /\ j.client = NoClient /\ j.at = "read" /\ j.op = op /\ j.user = u
          /\ j.key = k /\ owner[k] = u
      BY DEF Idle, Job, Op, Pc, KeysOf
    <2> HIDE DEF j
    <2> QED BY <1>3, <2>1 DEF j
  <1> QED BY <1>1, <1>2, <1>3

(* So do the administrations' jobs, with no key.                           *)
LEMMA AdminBegins ==
    ASSUME NEW r \in Req, NEW u \in User, BanUser(r, u) \/ AddUser(r, u)
    PROVE  /\ req[r] = Idle
           /\ \/ UNCHANGED req
              \/ \E j \in Job : /\ Begin(r, j) /\ j.key = NoKey
                                 /\ j.op \in {"ban", "unban", "adduser"}
  <1>1. CASE BanUser(r, u)
    <2>1. PICK op \in {"ban", "unban"} :
            \/ Begin(r, [Idle EXCEPT !.op = op, !.at = "keys", !.user = u])
            \/ UNCHANGED req
      BY <1>1 DEF BanUser
    <2> DEFINE j == [Idle EXCEPT !.op = op, !.at = "keys", !.user = u]
    <2>2. j \in Job /\ j.op = op /\ j.key = NoKey
      BY DEF Idle, Job, Op, Pc
    <2> HIDE DEF j
    <2> QED BY <1>1, <2>1, <2>2 DEF j, BanUser
  <1>2. CASE AddUser(r, u)
    <2>1. PICK c \in Client :
            \/ Begin(r, [Idle EXCEPT !.op = "adduser", !.at = "client", !.client = c])
            \/ UNCHANGED req
      BY <1>2 DEF AddUser
    <2> DEFINE j == [Idle EXCEPT !.op = "adduser", !.at = "client", !.client = c]
    <2>2. j \in Job /\ j.op = "adduser" /\ j.key = NoKey
      BY DEF Idle, Job, Op, Pc
    <2> HIDE DEF j
    <2> QED BY <1>2, <2>1, <2>2 DEF j, AddUser
  <1> QED BY <1>1, <1>2

(* The first handlers have no client.                                      *)
LEMMA StartJobs ==
    ASSUME IInv, JInv, RowsStay, NEW r \in Req, Start(r)
    PROVE  JInv' /\ OthersStay(r)
  <1>1. UNCHANGED <<account, clientId, client, clientKey, userKey, owner, clientOf, faults>>
    BY DEF Start, keyVars
  <1>2. PICK j \in Job : /\ Begin(r, j) /\ j.client = NoClient /\ j.at \in {"count", "read"}
                         /\ j.key # NoKey => /\ j.op \in {"toggle", "delete"} /\ j.at = "read"
                                             /\ j.user \in User /\ owner[j.key] = j.user
    BY StartFacts
  <1>3. OthersStay(r) /\ req'[r] = j
    BY <1>2, BeginFacts, Parts DEF IInv, OthersStay
  <1>4. JobFine(r)'
    BY <1>1, <1>2, <1>3 DEF JobFine, Works
  <1>5. ClientsOwned'
    <2>1. NoClient \notin Client
      BY KeyConstants
    <2> QED BY <1>1, <1>2, <1>3, <2>1, MovedUse, UsedNow DEF JInv
  <1> QED BY <1>1, <1>3, <1>4, <1>5, FineKept, KnownKept DEF JInv, IInv, OwnersKept

(* A handler notes a client its user already uses, or a new one.           *)
LEMMA NotedJobs ==
    ASSUME IInv, JInv, RowsStay, NEW r \in Req, NEW pc \in {"fallback", "gate", "bind", "commit"},
           NEW c \in Client \cup {NoClient},
           req' = [req EXCEPT ![r].client = c, ![r].at = pc],
           UNCHANGED <<owner, clientOf, clientId>>,
           \A e \in Client : client[e] # "none" => client'[e] # "none",
           req[r].op \in {"create", "close"}, req[r].user \in User, req[r].key = NoKey,
           pc \in {"gate", "bind"} => c \in Client,
           c \in Client => Uses(c, req[r].user) \/ \A u \in User : ~Uses(c, u)
    PROVE  JInv' /\ OthersStay(r)
  <1>1. /\ OthersStay(r) /\ req'[r].at = pc /\ req'[r].op = req[r].op
        /\ req'[r].key = NoKey /\ req'[r].user = req[r].user /\ req'[r].client = c
    <2>1. pc \in Pc /\ req \in [Req -> Job]
      BY Parts DEF IInv, Pc
    <2> DEFINE i == [req[r] EXCEPT !.client = c, !.at = pc]
    <2>2. /\ i.at = pc /\ i.op = req[r].op /\ i.key = req[r].key
          /\ i.user = req[r].user /\ i.client = c
      BY <2>1 DEF Job
    <2>3. req' = [req EXCEPT ![r] = i]
      OBVIOUS
    <2> HIDE DEF i
    <2> QED BY <2>1, <2>2, <2>3 DEF OthersStay
  <1>2. JobFine(r)'
    BY <1>1 DEF JobFine
  <1>3. ClientsOwned'
    <2>1. CASE c \in Client /\ \A u \in User : ~Uses(c, u)
      BY <1>1, <2>1, MovedUse, UsedNow DEF JInv
    <2>2. CASE c \in Client => Uses(c, req[r].user)
      <3>1. NoClient \notin Client
        BY KeyConstants
      <3> QED BY <1>1, <2>2, <3>1, MovedUse, UsedNow DEF JInv
    <2> QED BY <2>1, <2>2
  <1> QED BY <1>1, <1>2, <1>3, FineKept, KnownKept DEF JInv, IInv, OwnersKept

(* A handler goes on, without a client, or with the one it has.            *)
LEMMA WentJobs ==
    ASSUME IInv, JInv, RowsStay, NEW r \in Req, NEW pc \in {"newclient", "gate"}, Goto(r, pc),
           req[r].op = "create", req[r].user \in User, req[r].key = NoKey,
           pc = "gate" => req[r].client \in Client,
           UNCHANGED <<owner, clientOf, client>>,
           \A u \in User : \/ clientId'[u] = clientId[u]
                           \/ u = req[r].user /\ clientId'[u] = req[r].client
    PROVE  JInv' /\ OthersStay(r)
  <1>1. pc \in Pc /\ pc # "keys"
    BY DEF Pc
  <1>2. Onward(r) /\ JobFine(r)'
    BY <1>1, GotoOn DEF JInv, IInv
  <1>3. ClientsOwned'
    <2>1. /\ OthersStay(r) /\ req'[r].op = req[r].op /\ req'[r].user = req[r].user
          /\ req'[r].client = req[r].client
      BY <1>1, GotoFacts, Parts DEF IInv, OthersStay
    <2>2. NoClient \notin Client
      BY KeyConstants
    <2> QED BY <2>1, <2>2, MovedUse, UsedNow DEF JInv
  <1> QED BY <1>2, <1>3, FineKept, KnownKept DEF JInv, IInv, OwnersKept, Onward

(* An answer.                                                              *)
LEMMA AnsweredJobs ==
    ASSUME IInv, JInv, RowsStay, NEW r \in Req, Answer(r),
           UNCHANGED <<owner, clientOf, clientId>>,
           \A e \in Client : client[e] # "none" => client'[e] # "none"
    PROVE  JInv' /\ OthersStay(r)
  <1>1. Onward(r) /\ JobFine(r)'
    BY AnswerOn DEF IInv
  <1> QED BY <1>1, OnwardFine DEF IInv, Onward

(* A client id that was not issued is nobody's.                            *)
LEMMA UnusedClient ==
    ASSUME KeysKnown, NEW c \in Client, Unissued(c)
    PROVE  \A v \in User : ~Uses(c, v)
  <1>1. \A k \in Key, v \in User : ~(owner[k] = v /\ clientOf[k] = c)
    BY KeyConstants DEF Unissued, KeysKnown
  <1> QED BY <1>1 DEF Unissued, Uses

(* user_gateway_client_id, and a client if there is none.                  *)
LEMMA FindJobs ==
    ASSUME IInv, JInv, RowsStay, NEW r \in Req,
           FindClient(r) \/ FallbackClient(r) \/ NewClient(r) \/ BindClient(r)
    PROVE  JInv' /\ OthersStay(r)
  <1>1. req[r].op = "create" /\ req[r].at \in {"client", "fallback", "newclient", "bind"}
    BY DEF FindClient, FallbackClient, NewClient, BindClient, At
  <1>2. req[r].key = NoKey /\ req[r].user \in User
    <2>1. JobFine(r) /\ JobOK(req[r])
      BY DEF JInv, JobsFine, IInv, JobsOK
    <2> QED BY <1>1, <2>1 DEF JobFine, Works, JobOK
  <1> DEFINE u == req[r].user
  <1>3. UNCHANGED <<owner, clientOf>>
    BY DEF FindClient, FallbackClient, NewClient, BindClient, keyVars
  <1>4. CASE FindClient(r)
    <2> DEFINE Then(c) == IF c = NoClient THEN "fallback" ELSE "gate"
    <2>1. PICK c \in {clientId[u], NoClient} :
             req' = [req EXCEPT ![r].client = c, ![r].at = Then(c)]
      BY <1>4 DEF FindClient
    <2>2. c \in Client \cup {NoClient} /\ UNCHANGED <<clientId, client>>
      <3>1. clientId[u] \in Client \cup {NoClient}
        BY <1>2, Parts DEF IInv
      <3> QED BY <1>4, <2>1, <3>1 DEF FindClient
    <2>3. c \in Client => Uses(c, u)
      BY <1>2, <2>1, UsedNow, KeyConstants
    <2>4. Then(c) \in {"fallback", "gate"} /\ (Then(c) = "gate" => c \in Client)
      BY <2>2
    <2>5. Then(c) # "bind"
      OBVIOUS
    <2> HIDE DEF Then
    <2> QED BY <1>1, <1>2, <1>3, <2>1, <2>2, <2>3, <2>4, <2>5, NotedJobs
  <1>5. CASE FallbackClient(r)
    <2>1. UNCHANGED <<clientId, client>>
      BY <1>5 DEF FallbackClient
    <2>2. PICK F : /\ F = {} \/ F = {clientOf[k] : k \in KeysOf(u)}
                   /\ IF F = {} THEN Goto(r, "newclient")
                      ELSE \E c \in F : req' = [req EXCEPT ![r].client = c, ![r].at = "gate"]
      BY <1>5 DEF FallbackClient
    <2>3. \A c \in F : c \in Client /\ Uses(c, u)
      <3>1. \A k \in KeysOf(u) : k \in Key /\ owner[k] = u /\ u # NoUser
        BY <1>2, KeyConstants DEF KeysOf
      <3>2. \A k \in KeysOf(u) : clientOf[k] \in Client
        BY <3>1 DEF JInv, KeysKnown
      <3> QED BY <2>2, <3>1, <3>2, UsedNow
    <2>4. CASE Goto(r, "newclient")
      BY <1>1, <1>2, <1>3, <2>1, <2>4, WentJobs
    <2>5. ASSUME NEW c \in F, req' = [req EXCEPT ![r].client = c, ![r].at = "gate"]
          PROVE  JInv' /\ OthersStay(r)
      BY <1>1, <1>2, <1>3, <2>1, <2>3, <2>5, NotedJobs
    <2> QED BY <2>2, <2>4, <2>5
  <1>6. CASE NewClient(r)
    <2>1. PICK o, c \in Client :
            /\ Unissued(c) /\ UNCHANGED clientId
            /\ client' = [client EXCEPT ![c] = "present"] \/ client' = client
            /\ \/ req' = [req EXCEPT ![r].client = c, ![r].at = "bind"]
               \/ Answer(r)
      BY <1>6 DEF NewClient
    <2>2. \A e \in Client : client[e] # "none" => client'[e] # "none"
      BY <2>1, Parts DEF IInv
    <2>3. \A v \in User : ~Uses(c, v)
      BY <2>1, UnusedClient DEF JInv
    <2> QED BY <1>1, <1>2, <1>3, <2>1, <2>2, <2>3, NotedJobs, AnsweredJobs
  <1>7. CASE BindClient(r)
    <2>1. /\ At(r, "create", "bind") /\ Goto(r, "gate") /\ UNCHANGED client
          /\ \/ clientId' = clientId
             \/ clientId' = [clientId EXCEPT ![u] = req[r].client]
      BY <1>7 DEF BindClient
    <2>2. req[r].client \in Client
      BY <2>1 DEF JInv, JobsFine, JobFine, At
    <2>3. \A v \in User : \/ clientId'[v] = clientId[v]
                          \/ v = u /\ clientId'[v] = req[r].client
      BY <2>1, Parts DEF IInv
    <2> QED BY <1>1, <1>2, <1>3, <2>1, <2>2, <2>3, WentJobs
  <1> QED BY <1>4, <1>5, <1>6, <1>7

(* delete_account reads the client it will take with it.                   *)
LEMMA ReadAccountJobs ==
    ASSUME IInv, JInv, RowsStay, NEW r \in Req, ReadAccount(r)
    PROVE  JInv' /\ OthersStay(r)
  <1>1. req[r].op = "close" /\ req[r].key = NoKey /\ req[r].user \in User
    BY DEF ReadAccount, At, JInv, JobsFine, JobFine, Works, IInv, JobsOK, JobOK
  <1>2. /\ UNCHANGED <<owner, clientOf, clientId, client>>
        /\ \/ Answer(r)
           \/ req' = [req EXCEPT ![r].client = clientId[req[r].user], ![r].at = "commit"]
    BY DEF ReadAccount, keyVars
  <1>3. clientId[req[r].user] \in Client \cup {NoClient}
    BY <1>1, Parts DEF IInv
  <1>4. Uses(clientId[req[r].user], req[r].user)
    BY <1>1, UsedNow
  <1> QED BY <1>1, <1>2, <1>3, <1>4, NotedJobs, AnsweredJobs

(* The key that create_key_handler issues: what it is and whose.           *)
LEMMA IssueFacts ==
    ASSUME IInv, JInv, NEW r \in Req, InsertGate(r)
    PROVE  \E k \in Key :
             /\ Fresh(k) /\ owner[k] = NoUser
             /\ req[r].op = "create" /\ req[r].user \in User /\ req[r].client \in Client
             /\ req[r].key = NoKey /\ req[r].at = "gate"
             /\ UNCHANGED <<account, clientId, client, userKey>>
             /\ \/ UNCHANGED <<clientKey, clientOf, owner>> /\ Answer(r)
                \/ /\ clientKey' = [clientKey EXCEPT ![k] = "active"]
                   /\ clientOf' = [clientOf EXCEPT ![k] = req[r].client]
                   /\ owner' = [owner EXCEPT ![k] = req[r].user]
                   /\ client[req[r].client] = "present"
                   /\ \/ Answer(r) /\ faults' # faults
                      \/ /\ req' = [req EXCEPT ![r].key = k, ![r].at = "row"]
                         /\ faults' = faults
  <1>1. PICK o \in Outcome, k \in Key :
          /\ Fresh(k)
          /\ At(r, "create", "gate")
          /\ \/ /\ clientKey' = [clientKey EXCEPT ![k] = "active"]
                /\ clientOf' = [clientOf EXCEPT ![k] = req[r].client]
                /\ owner' = [owner EXCEPT ![k] = req[r].user]
                /\ client[req[r].client] = "present"
                /\ IF o = "ok" THEN req' = [req EXCEPT ![r].key = k, ![r].at = "row"]
                   ELSE Answer(r)
             \/ UNCHANGED <<clientKey, clientOf, owner>> /\ Answer(r)
          /\ Spend(o)
    BY DEF InsertGate
  <1>2. owner[k] = NoUser
    BY <1>1 DEF Fresh, JInv, KeysKnown
  <1>3. req[r].user \in User /\ req[r].client \in Client /\ req[r].key = NoKey
    BY <1>1 DEF At, JInv, JobsFine, JobFine, Works, IInv, JobsOK, JobOK
  <1>4. o # "ok" => faults' # faults
    BY <1>1, Parts DEF Spend, IInv
  <1>5. o = "ok" => faults' = faults
    BY <1>1 DEF Spend
  <1> QED BY <1>1, <1>2, <1>3, <1>4, <1>5 DEF InsertGate, At

(* Whoever issues it goes on with it in hand.                              *)
LEMMA KeyInHand ==
    ASSUME IInv, NEW r \in Req, NEW k \in Key,
           req' = [req EXCEPT ![r].key = k, ![r].at = "row"]
    PROVE  /\ OthersStay(r) /\ req'[r].at = "row" /\ req'[r].key = k
           /\ req'[r].op = req[r].op /\ req'[r].user = req[r].user
           /\ req'[r].client = req[r].client
  <1> DEFINE i == [req[r] EXCEPT !.key = k, !.at = "row"]
  <1>1. req[r] \in Job /\ req \in [Req -> Job]
    BY Parts DEF IInv
  <1>2. /\ i.at = "row" /\ i.op = req[r].op /\ i.key = k
        /\ i.user = req[r].user /\ i.client = req[r].client
    BY <1>1 DEF Job
  <1>3. req' = [req EXCEPT ![r] = i]
    OBVIOUS
  <1> HIDE DEF i
  <1> QED BY <1>1, <1>2, <1>3 DEF OthersStay

LEMMA IssueJobs ==
    ASSUME IInv, JInv, RowsStay, NEW r \in Req, InsertGate(r)
    PROVE  JInv' /\ OthersStay(r)
  <1>1. PICK k \in Key :
             /\ Fresh(k) /\ owner[k] = NoUser
             /\ req[r].op = "create" /\ req[r].user \in User /\ req[r].client \in Client
             /\ UNCHANGED <<account, clientId, client, userKey>>
             /\ \/ UNCHANGED <<clientKey, clientOf, owner>> /\ Answer(r)
                \/ /\ clientKey' = [clientKey EXCEPT ![k] = "active"]
                   /\ clientOf' = [clientOf EXCEPT ![k] = req[r].client]
                   /\ owner' = [owner EXCEPT ![k] = req[r].user]
                   /\ client[req[r].client] = "present"
                   /\ Answer(r) \/ req' = [req EXCEPT ![r].key = k, ![r].at = "row"]
    BY IssueFacts
  <1>2. CASE UNCHANGED <<clientKey, clientOf, owner>> /\ Answer(r)
    BY <1>1, <1>2, AnsweredJobs
  <1>3. CASE /\ clientKey' = [clientKey EXCEPT ![k] = "active"]
             /\ clientOf' = [clientOf EXCEPT ![k] = req[r].client]
             /\ owner' = [owner EXCEPT ![k] = req[r].user]
             /\ client[req[r].client] = "present"
    <2>1. /\ clientKey'[k] = "active" /\ clientOf'[k] = req[r].client /\ owner'[k] = req[r].user
          /\ \A j \in Key \ {k} : /\ clientKey'[j] = clientKey[j] /\ clientOf'[j] = clientOf[j]
                                  /\ owner'[j] = owner[j]
      BY <1>3, Parts DEF IInv
    <2>2. OwnersKept
      BY <1>1, <2>1 DEF OwnersKept
    <2>3. KeysKnown'
      BY <1>1, <1>3, <2>1 DEF JInv, KeysKnown
    <2>4. /\ OthersStay(r) /\ JobFine(r)'
          /\ req'[r] = Idle \/ (req'[r].client = req[r].client /\ req'[r].user = req[r].user)
      <3>1. CASE Answer(r)
        BY <3>1, AnswerOn DEF IInv, Onward
      <3>2. CASE req' = [req EXCEPT ![r].key = k, ![r].at = "row"]
        BY <1>1, <2>1, <3>2, KeyInHand DEF JobFine, Works
      <3> QED BY <1>1, <2>1, <3>1, <3>2, Parts, KeyConstants DEF Fresh, IInv
    <2>5. ClientsOwned'
      <3>1. Uses(req[r].client, req[r].user)
        BY <1>1, UsedNow
      <3>2. req'[r].op \in {"create", "close"} /\ req'[r].client \in Client =>
               Uses(req'[r].client, req'[r].user)
        BY <2>4, <3>1, KeyConstants DEF Idle
      <3>3. \A j \in Key : Uses(clientOf'[j], owner'[j])
        BY <2>1, <3>1, UsedNow
      <3>4. \A u \in User : Uses(clientId'[u], u)
        BY <1>1, UsedNow
      <3>5. NoClient \notin Client /\ ClientsOwned /\ OthersStay(r)
        BY <2>4, KeyConstants DEF JInv
      <3> QED BY <3>2, <3>3, <3>4, <3>5, MovedUse
    <2> QED BY <2>2, <2>3, <2>4, <2>5, FineKept DEF JInv, IInv
  <1> QED BY <1>1, <1>2, <1>3

(* The administrations: ban_user, unban_user, create_user.                 *)
LEMMA BanJobs ==
    ASSUME IInv, JInv, RowsStay, NEW r \in Req, NEW u \in User, BanUser(r, u)
    PROVE  JInv' /\ OthersStay(r) /\ req'[r].key = NoKey
  <1>1. PICK op \in {"ban", "unban"} :
          /\ req[r] = Idle
          /\ \/ Begin(r, [Idle EXCEPT !.op = op, !.at = "keys", !.user = u])
             \/ UNCHANGED req
    BY DEF BanUser
  <1>2. UNCHANGED <<clientId, client, clientKey, userKey, owner, clientOf>>
    BY DEF BanUser, keyVars
  <1>3. /\ OthersStay(r) /\ JobFine(r)' /\ req'[r].key = NoKey
        /\ req'[r].op \notin {"create", "close"}
    <2> DEFINE j == [Idle EXCEPT !.op = op, !.at = "keys", !.user = u]
    <2>1. j \in Job /\ j.op = op /\ j.at = "keys" /\ j.key = NoKey
      BY DEF Idle, Job, Op, Pc
    <2> HIDE DEF j
    <2>2. CASE Begin(r, j)
      BY <2>1, <2>2, BeginFacts, Parts DEF IInv, OthersStay, JobFine
    <2>3. CASE UNCHANGED req
      BY <1>1, <2>3 DEF OthersStay, JobFine, Idle
    <2> QED BY <1>1, <2>2, <2>3 DEF j
  <1>4. ClientsOwned'
    <2>1. /\ \A v \in User : Uses(clientId'[v], v)
          /\ \A k \in Key : Uses(clientOf'[k], owner'[k])
      BY <1>2, UsedNow
    <2>2. NoClient \notin Client
      BY KeyConstants
    <2> QED BY <1>3, <2>1, <2>2, MovedUse DEF JInv
  <1> QED BY <1>2, <1>3, <1>4, FineKept, KnownKept DEF JInv, IInv, OwnersKept

LEMMA AddUserJobs ==
    ASSUME IInv, JInv, RowsStay, NEW r \in Req, NEW u \in User, AddUser(r, u)
    PROVE  JInv' /\ OthersStay(r) /\ req'[r].key = NoKey
  <1>1. PICK c \in Client :
          /\ req[r] = Idle /\ Unissued(c)
          /\ clientId' = [clientId EXCEPT ![u] = c] \/ UNCHANGED clientId
          /\ \/ Begin(r, [Idle EXCEPT !.op = "adduser", !.at = "client", !.client = c])
             \/ UNCHANGED req
    BY DEF AddUser
  <1>2. UNCHANGED <<client, clientKey, userKey, owner, clientOf>>
    BY DEF AddUser, keyVars
  <1>3. /\ OthersStay(r) /\ JobFine(r)' /\ req'[r].key = NoKey
        /\ req'[r].op \notin {"create", "close"}
    <2> DEFINE j == [Idle EXCEPT !.op = "adduser", !.at = "client", !.client = c]
    <2>1. j \in Job /\ j.op = "adduser" /\ j.at = "client" /\ j.key = NoKey
      BY DEF Idle, Job, Op, Pc
    <2> HIDE DEF j
    <2>2. CASE Begin(r, j)
      BY <2>1, <2>2, BeginFacts, Parts DEF IInv, OthersStay, JobFine
    <2>3. CASE UNCHANGED req
      BY <1>1, <2>3 DEF OthersStay, JobFine, Idle
    <2> QED BY <1>1, <2>2, <2>3 DEF j
  <1>4. \A v \in User : ~Uses(c, v)
    BY <1>1, UnusedClient DEF JInv
  <1>5. \A v \in User : clientId'[v] = clientId[v] \/ (clientId'[v] = c /\ v = u)
    BY <1>1, Parts DEF IInv
  <1>6. ClientsOwned'
    <2>1. \A v \in User : Uses(clientId'[v], v) \/ (clientId'[v] = c /\ v = u)
      BY <1>5, UsedNow
    <2>2. \A k \in Key : Uses(clientOf'[k], owner'[k])
      BY <1>2, UsedNow
    <2> QED BY <1>3, <1>4, <2>1, <2>2, MovedUse DEF JInv
  <1> QED BY <1>2, <1>3, <1>6, FineKept, KnownKept DEF JInv, IInv, OwnersKept

(* And their single statements.                                            *)
LEMMA OnceJobs ==
    ASSUME IInv, JInv, RowsStay, AdminOnce
    PROVE  JInv' /\ UNCHANGED <<req, owner>>
  <1>1. UNCHANGED <<req, owner>>
    BY DEF AdminOnce, RemoveUser, DropClient, AddClientKey, DropClientKey
  <1>2. \A k \in Key : owner[k] # NoUser => clientOf'[k] = clientOf[k]
    <2>1. ASSUME NEW c \in Client, NEW k \in Key, AddClientKey(k, c)
          PROVE  \A j \in Key : owner[j] # NoUser => clientOf'[j] = clientOf[j]
      <3>1. owner[k] = NoUser
        BY <2>1 DEF AddClientKey, Fresh, JInv, KeysKnown
      <3> QED BY <2>1, <3>1, Parts DEF IInv, AddClientKey
    <2> QED BY <2>1 DEF AdminOnce, RemoveUser, DropClient, DropClientKey
  <1>3. \A u \in User : clientId'[u] \in {clientId[u], NoClient}
    <2>1. ASSUME NEW u \in User, RemoveUser(u)
          PROVE  \A v \in User : clientId'[v] \in {clientId[v], NoClient}
      BY <2>1, Parts DEF IInv, RemoveUser
    <2> QED BY <2>1 DEF AdminOnce, DropClient, AddClientKey, DropClientKey
  <1>4. \A c \in Client : client[c] # "none" => client'[c] # "none"
    <2>1. ASSUME NEW c \in Client, DropClient(c)
          PROVE  \A e \in Client : client[e] # "none" => client'[e] # "none"
      BY <2>1, Parts DEF IInv, DropClient
    <2> QED BY <2>1 DEF AdminOnce, RemoveUser, AddClientKey, DropClientKey
  <1>5. JobsFine'
    BY <1>1 DEF JInv, JobsFine, JobFine, Works
  <1> QED BY <1>1, <1>2, <1>3, <1>4, <1>5, NoUseWithout, KnownKept DEF JInv

-----------------------------------------------------------------------------
(* Together: every step keeps what the requests, keys and clients are.     *)
LEMMA JobsInit == Init => JInv
  <1> SUFFICES ASSUME Init PROVE JInv
    OBVIOUS
  <1>1. JobsFine /\ KeysKnown
    BY DEF Init, JobsFine, JobFine, Idle, KeysKnown
  <1>2. ClientsOwned
    BY KeyConstants DEF Init, ClientsOwned, Uses, Idle
  <1> QED BY <1>1, <1>2 DEF JInv

LEMMA JobsStep == IInv /\ JInv /\ [Next]_vars => JInv'
  <1> SUFFICES ASSUME IInv, JInv, [Next]_vars PROVE JInv'
    OBVIOUS
  <1>1. RowsStay
    <2>1. LifeStep
      BY StepInv DEF LifeStep, Life!vars
    <2> QED BY <2>1, LifeKeeps DEF IInv
  <1>2. CASE UNCHANGED vars
    BY <1>2 DEF vars, keyVars, JInv, JobsFine, JobFine, Works, KeysKnown, ClientsOwned, Uses
  <1>3. ASSUME NEW r \in Req, Handler(r) PROVE JInv'
    BY <1>1, <1>3, OnwardJobs, StartJobs, FindJobs, ReadAccountJobs, IssueJobs DEF Handler
  <1>4. ASSUME NEW r \in Req, Admin(r) PROVE JInv'
    BY <1>1, <1>4, OnwardJobs, BanJobs, AddUserJobs DEF Admin
  <1>5. ASSUME NEW r \in Req, Abandon(r) PROVE JInv'
    BY <1>1, <1>5, OnwardJobs
  <1>6. CASE AdminOnce
    BY <1>1, <1>6, OnceJobs
  <1> QED BY <1>2, <1>3, <1>4, <1>5, <1>6 DEF Next

-----------------------------------------------------------------------------
(* The limit.  Every active key was added by a request that counted fewer  *)
(* than LIMIT before it, or whose count failed; what it may add is counted *)
(* from that moment on, so that the sum grows with the count alone.        *)
Active(u) == {k \in KeysOf(u) : userKey[k] = "active"}
LimitFor(u) == /\ IsFiniteSet(Active(u))
               /\ ActiveCount(u) + Cardinality(Adding(u)) <= LIMIT - 1 + Cardinality(Req) + faults

(* No key and no request is added; a request exchanges its place for its   *)
(* key; a request takes a place after a count, or a failed one.            *)
NoMore(u) == Active(u)' \subseteq Active(u) /\ Adding(u)' \subseteq Adding(u)
Exchange(u, r, k) == /\ r \in Adding(u) /\ Active(u)' \subseteq Active(u) \cup {k}
                     /\ Adding(u)' \subseteq Adding(u) \ {r}
Joins(u, r) == /\ Active(u)' = Active(u) /\ Adding(u)' \subseteq Adding(u) \cup {r}
               /\ ActiveCount(u) < LIMIT \/ faults' = faults + 1

(* The sum moves accordingly.                                              *)
LEMMA LimitStays ==
    ASSUME TypeOK, NEW u \in User, LimitFor(u), faults' \in {faults, faults + 1},
           \/ NoMore(u)
           \/ \E r \in Req, k \in Key : Exchange(u, r, k)
           \/ \E r \in Req : Joins(u, r)
    PROVE  LimitFor(u)'
  <1>1. /\ IsFiniteSet(Req) /\ Cardinality(Req) \in Nat
        /\ \A S \in SUBSET Req : /\ IsFiniteSet(S) /\ Cardinality(S) \in Nat
                                /\ Cardinality(S) <= Cardinality(Req)
    BY ConnectionsFinite, FS_CardinalityType, FS_Subset
  <1>2. Adding(u) \in SUBSET Req /\ Adding(u)' \in SUBSET Req
    BY DEF Adding
  <1>3. /\ IsFiniteSet(Active(u)) /\ Cardinality(Active(u)) \in Nat
        /\ \A S : S \subseteq Active(u) => /\ IsFiniteSet(S) /\ Cardinality(S) \in Nat
                                          /\ Cardinality(S) <= Cardinality(Active(u))
    BY FS_CardinalityType, FS_Subset DEF LimitFor
  <1>4. /\ ActiveCount(u) = Cardinality(Active(u))
        /\ ActiveCount(u)' = Cardinality(Active(u)')
    BY DEF ActiveCount, Active
  <1>5. /\ faults \in Nat /\ faults' \in Nat /\ faults <= faults' /\ LIMIT \in Nat
    BY Parts, KeyConstants
  <1>6. Cardinality(Active(u)) + Cardinality(Adding(u)) <= LIMIT - 1 + Cardinality(Req) + faults
    BY <1>4 DEF LimitFor
  <1>7. CASE NoMore(u)
    <2>1. /\ IsFiniteSet(Active(u)') /\ Cardinality(Active(u)') \in Nat
          /\ Cardinality(Active(u)') <= Cardinality(Active(u))
      BY <1>3, <1>7 DEF NoMore
    <2>2. /\ Cardinality(Adding(u)') \in Nat /\ Cardinality(Adding(u)) \in Nat
          /\ Cardinality(Adding(u)') <= Cardinality(Adding(u))
      BY <1>1, <1>2, <1>7, FS_Subset DEF NoMore
    <2>3. Cardinality(Active(u)') + Cardinality(Adding(u)') <= LIMIT - 1 + Cardinality(Req) + faults'
      BY <1>1, <1>3, <1>5, <1>6, <2>1, <2>2
    <2> QED BY <1>4, <2>1, <2>3 DEF LimitFor
  <1>8. ASSUME NEW r \in Req, NEW k \in Key, Exchange(u, r, k) PROVE LimitFor(u)'
    <2>1. /\ IsFiniteSet(Active(u) \cup {k}) /\ Cardinality(Active(u) \cup {k}) \in Nat
          /\ Cardinality(Active(u) \cup {k}) <= Cardinality(Active(u)) + 1
      <3>1. IsFiniteSet(Active(u)) /\ Cardinality(Active(u)) \in Nat
        BY <1>3
      <3>2. /\ IsFiniteSet(Active(u) \cup {k})
            /\ Cardinality(Active(u) \cup {k}) \in {Cardinality(Active(u)), Cardinality(Active(u)) + 1}
        BY <3>1, FS_AddElement
      <3> QED BY <3>1, <3>2
    <2>2. /\ IsFiniteSet(Active(u)') /\ Cardinality(Active(u)') \in Nat
          /\ Cardinality(Active(u)') <= Cardinality(Active(u)) + 1
      <3>1. Active(u)' \in SUBSET (Active(u) \cup {k})
        BY <1>8 DEF Exchange
      <3>2. /\ IsFiniteSet(Active(u)')
            /\ Cardinality(Active(u)') <= Cardinality(Active(u) \cup {k})
        BY <2>1, <3>1, FS_Subset
      <3>3. Cardinality(Active(u)') \in Nat
        BY <3>2, FS_CardinalityType
      <3> QED BY <1>3, <2>1, <3>2, <3>3
    <2>3. /\ Cardinality(Adding(u)) \in Nat
          /\ Cardinality(Adding(u) \ {r}) = Cardinality(Adding(u)) - 1
          /\ Adding(u) \ {r} \in SUBSET Req
      BY <1>1, <1>2, <1>8, FS_RemoveElement DEF Exchange
    <2>4. /\ Cardinality(Adding(u)') \in Nat
          /\ Cardinality(Adding(u)') <= Cardinality(Adding(u)) - 1
      BY <1>1, <1>2, <1>8, <2>3, FS_Subset DEF Exchange
    <2>5. Cardinality(Active(u)') + Cardinality(Adding(u)') <= LIMIT - 1 + Cardinality(Req) + faults'
      BY <1>1, <1>3, <1>5, <1>6, <2>2, <2>3, <2>4
    <2> QED BY <1>4, <2>2, <2>5 DEF LimitFor
  <1>9. ASSUME NEW r \in Req, Joins(u, r) PROVE LimitFor(u)'
    <2>1. /\ Cardinality(Adding(u) \cup {r}) \in Nat /\ Adding(u) \cup {r} \in SUBSET Req
          /\ Cardinality(Adding(u) \cup {r}) <= Cardinality(Adding(u)) + 1
          /\ Cardinality(Adding(u)) \in Nat
      BY <1>1, <1>2, FS_AddElement
    <2>2. /\ Cardinality(Adding(u)') \in Nat
          /\ Cardinality(Adding(u)') <= Cardinality(Adding(u)) + 1
          /\ Cardinality(Adding(u)') <= Cardinality(Req)
      BY <1>1, <1>2, <1>9, <2>1, FS_Subset DEF Joins
    <2>3. Active(u)' = Active(u)
      BY <1>9 DEF Joins
    <2>4. CASE ActiveCount(u) < LIMIT
      <3>1. Cardinality(Active(u)) <= LIMIT - 1
        BY <1>3, <1>4, <1>5, <2>4
      <3>2. Cardinality(Active(u)') + Cardinality(Adding(u)') <= LIMIT - 1 + Cardinality(Req) + faults'
        BY <1>1, <1>3, <1>5, <2>2, <2>3, <3>1
      <3> QED BY <1>3, <1>4, <2>3, <3>2 DEF LimitFor
    <2>5. CASE faults' = faults + 1
      <3>1. Cardinality(Active(u)') + Cardinality(Adding(u)') <= LIMIT - 1 + Cardinality(Req) + faults'
        BY <1>1, <1>3, <1>5, <1>6, <2>1, <2>2, <2>3, <2>5
      <3> QED BY <1>3, <1>4, <2>3, <3>1 DEF LimitFor
    <2> QED BY <1>9, <2>4, <2>5 DEF Joins
  <1> QED BY <1>7, <1>8, <1>9

(* Which of the two a step enlarges shows in the request that moves and in *)
(* the keys it makes active.                                               *)
LEMMA FewerAdding ==
    ASSUME NEW u, NEW r \in Req, OthersStay(r)
    PROVE  /\ (r \in Adding(u)' => r \in Adding(u)) => Adding(u)' \subseteq Adding(u)
           /\ r \notin Adding(u)' => Adding(u)' \subseteq Adding(u) \ {r}
           /\ Adding(u)' \subseteq Adding(u) \cup {r}
  BY DEF Adding, OthersStay

LEMMA FewerActive ==
    ASSUME NEW u,
           \A k \in Key : owner'[k] = u /\ userKey'[k] = "active" =>
                          owner[k] = u /\ userKey[k] = "active"
    PROVE  Active(u)' \subseteq Active(u)
  BY DEF Active, KeysOf, Listed

(* An answer, and the statements that only drop or read.                   *)
LEMMA LimitAnswer ==
    ASSUME TypeOK, NEW u, NEW r \in Req, Answer(r), Active(u)' \subseteq Active(u)
    PROVE  NoMore(u)
  <1>1. req'[r] = Idle /\ OthersStay(r)
    BY AnswerFacts, Parts DEF OthersStay
  <1>2. r \notin Adding(u)'
    BY <1>1 DEF Adding, Idle
  <1> QED BY <1>1, <1>2, FewerAdding DEF NoMore

LEMMA LimitGoto ==
    ASSUME TypeOK, NEW u, NEW r \in Req, NEW pc \in Pc, Goto(r, pc),
           Active(u)' \subseteq Active(u),
           \/ req[r].op = "create" /\ (r \in Adding(req[r].user) \/ pc = "undo")
           \/ req[r].op = "toggle" /\ (r \in Adding(req[r].user) \/ req[r].to # "active")
           \/ req[r].op \notin {"create", "toggle"}
    PROVE  NoMore(u)
  <1>1. OthersStay(r) /\ req'[r].at = pc /\ req'[r].op = req[r].op
        /\ req'[r].user = req[r].user /\ req'[r].to = req[r].to
    BY GotoFacts, Parts DEF OthersStay
  <1>2. r \in Adding(u)' => r \in Adding(u)
    BY <1>1 DEF Adding
  <1> QED BY <1>1, <1>2, FewerAdding DEF NoMore

(* The count.                                                              *)
LEMMA LimitCount ==
    ASSUME IInv, JInv, NEW u \in User, LimitFor(u), NEW r \in Req, CountKeys(r)
    PROVE  NoMore(u) \/ Joins(u, r)
  <1>1. PICK o \in ReadOutcome :
          LET n == IF o = "ok" THEN ActiveCount(req[r].user) ELSE 0 IN
          /\ IF n >= LIMIT THEN Answer(r)
             ELSE Goto(r, IF req[r].op = "create" THEN "client" ELSE "gate")
          /\ Spend(o)
    BY DEF CountKeys
  <1>2. UNCHANGED <<clientKey, userKey, owner>>
    BY DEF CountKeys, keyVars
  <1>3. Active(u)' = Active(u)
    BY <1>2 DEF Active, KeysOf
  <1>4. CASE Answer(r)
    BY <1>3, <1>4, LimitAnswer DEF IInv
  <1>5. CASE Goto(r, IF req[r].op = "create" THEN "client" ELSE "gate")
    <2>1. OthersStay(r) /\ req'[r].user = req[r].user
      <3>1. {"client", "gate"} \subseteq Pc
        BY DEF Pc
      <3> QED BY <1>5, <3>1, GotoFacts, Parts DEF IInv, OthersStay
    <2>2. CASE req[r].user # u
      <3>1. r \notin Adding(u)'
        BY <2>1, <2>2 DEF Adding
      <3> QED BY <1>3, <2>1, <3>1, FewerAdding DEF NoMore
    <2>3. CASE req[r].user = u /\ o = "ok"
      <3>1. Answer(r) \/ ActiveCount(u) < LIMIT
        <4>1. ActiveCount(u) >= LIMIT => Answer(r)
          BY <1>1, <2>3
        <4>2. ActiveCount(u) \in Nat
          BY FS_CardinalityType DEF LimitFor, ActiveCount, Active
        <4> QED BY <4>1, <4>2, KeyConstants
      <3> QED BY <1>3, <1>4, <2>1, <3>1, FewerAdding DEF Joins
    <2>4. CASE o # "ok"
      <3>1. faults' = faults + 1
        BY <1>1, <2>4 DEF Spend
      <3> QED BY <1>3, <2>1, <3>1, FewerAdding DEF Joins
    <2> QED BY <2>2, <2>3, <2>4
  <1> QED BY <1>1, <1>4, <1>5

(* create_key_handler from the count on, and the toggle: who adds a key    *)
(* gives up the place.                                                     *)
LEMMA LimitWrites ==
    ASSUME IInv, JInv, NEW u \in User, NEW r \in Req, InsertRow(r) \/ SetRow(r)
    PROVE  NoMore(u) \/ \E k \in Key : Exchange(u, r, k)
  <1> DEFINE k == req[r].key
  <1>1. /\ UNCHANGED owner
        /\ \/ UNCHANGED userKey
           \/ At(r, "create", "row") /\ userKey' = [userKey EXCEPT ![k] = "active"]
           \/ At(r, "toggle", "row") /\ MarkRows({k}, req[r].to)
        /\ At(r, "create", "row") \/ At(r, "toggle", "row")
        /\ Answer(r) \/ (At(r, "create", "row") /\ Goto(r, "undo"))
    BY DEF InsertRow, SetRow
  <1>2. k \in Key /\ owner[k] = req[r].user /\ req[r].user \in User
    <2>1. JobOK(req[r]) /\ JobFine(r)
      BY DEF JInv, JobsFine, IInv, JobsOK
    <2> QED BY <1>1, <2>1, KeyConstants DEF JobOK, JobFine, At
  <1>3. OthersStay(r) /\ r \notin Adding(u)'
    <2>1. CASE Answer(r)
      BY <2>1, AnswerFacts, Parts DEF IInv, OthersStay, Adding, Idle
    <2>2. CASE Goto(r, "undo") /\ req[r].op = "create"
      <3>1. "undo" \in Pc
        BY DEF Pc
      <3>2. OthersStay(r) /\ req'[r].at = "undo" /\ req'[r].op = "create"
        BY <2>2, <3>1, GotoFacts, Parts DEF IInv, OthersStay
      <3> QED BY <3>2 DEF Adding
    <2> QED BY <1>1, <2>1, <2>2 DEF At
  <1>4. Adding(u)' \subseteq Adding(u) \ {r}
    BY <1>3, FewerAdding
  <1>5. \A j \in Key : userKey'[j] = "active" =>
           \/ userKey[j] = "active"
           \/ j = k /\ (At(r, "create", "row") \/ req[r].to = "active")
    BY <1>1, Parts DEF MarkRows, IInv
  <1>6. CASE /\ u = req[r].user
             /\ At(r, "create", "row") \/ (At(r, "toggle", "row") /\ req[r].to = "active")
    <2>1. r \in Adding(u)
      BY <1>6 DEF Adding, At
    <2>2. Active(u)' \subseteq Active(u) \cup {k}
      BY <1>1, <1>5 DEF Active, KeysOf, Listed
    <2> QED BY <1>2, <1>4, <2>1, <2>2 DEF Exchange
  <1>7. CASE u # req[r].user
    <2>1. Active(u)' \subseteq Active(u)
      BY <1>1, <1>2, <1>5, <1>7, FewerActive
    <2> QED BY <1>4, <2>1 DEF NoMore
  <1>8. CASE At(r, "toggle", "row") /\ req[r].to # "active"
    <2>1. ~At(r, "create", "row")
      BY <1>8 DEF At
    <2>2. Active(u)' \subseteq Active(u)
      BY <1>1, <1>5, <1>8, <2>1, FewerActive
    <2> QED BY <1>4, <2>2 DEF NoMore
  <1> QED BY <1>1, <1>6, <1>7, <1>8

(* What a handler keeps while it looks for a client, or for the account's. *)
LEMMA SearchKeeps ==
    ASSUME IInv, NEW r \in Req,
           \/ FindClient(r) \/ FallbackClient(r) \/ NewClient(r) \/ BindClient(r)
           \/ ReadAccount(r)
    PROVE  \/ req'[r] = Idle
           \/ /\ req'[r].op = req[r].op /\ req'[r].user = req[r].user
              /\ req'[r].key = req[r].key
  <1>1. \/ Answer(r)
        \/ \E pc \in {"fallback", "gate", "bind", "commit", "newclient"} : \E c :
              \/ Goto(r, pc)
              \/ req' = [req EXCEPT ![r].client = c, ![r].at = pc]
    <2>1. CASE FindClient(r)
      <3> DEFINE Found(o) == IF o = "ok" /\ Exists(req[r].user)
                             THEN clientId[req[r].user] ELSE NoClient
                 Then(c) == IF c = NoClient THEN "fallback" ELSE "gate"
      <3>1. \E c : req' = [req EXCEPT ![r].client = c, ![r].at = Then(c)]
        BY <2>1 DEF FindClient
      <3>2. \A c : Then(c) \in {"fallback", "gate", "bind", "commit", "newclient"}
        OBVIOUS
      <3> HIDE DEF Then
      <3> QED BY <3>1, <3>2
    <2> QED BY <2>1 DEF FallbackClient, NewClient, BindClient, ReadAccount
  <1>2. req[r] \in Job /\ req \in [Req -> Job]
    BY Parts DEF IInv
  <1>3. CASE Answer(r)
    BY <1>2, <1>3, AnswerFacts
  <1>4. ASSUME NEW pc \in {"fallback", "gate", "bind", "commit", "newclient"}, NEW c,
               Goto(r, pc) \/ req' = [req EXCEPT ![r].client = c, ![r].at = pc]
        PROVE  /\ req'[r].op = req[r].op /\ req'[r].user = req[r].user
               /\ req'[r].key = req[r].key
    <2> DEFINE i == [req[r] EXCEPT !.client = c, !.at = pc]
               j == [req[r] EXCEPT !.at = pc]
    <2>1. /\ i.op = req[r].op /\ i.user = req[r].user /\ i.key = req[r].key
          /\ j.op = req[r].op /\ j.user = req[r].user /\ j.key = req[r].key
      BY <1>2 DEF Job
    <2>2. req' = [req EXCEPT ![r] = i] \/ req' = [req EXCEPT ![r] = j]
      BY <1>4 DEF Goto
    <2> HIDE DEF i, j
    <2> QED BY <1>2, <2>1, <2>2
  <1> QED BY <1>1, <1>3, <1>4

(* The statements that add nothing.                                        *)
LEMMA ActiveQuiet ==
    ASSUME IInv, JInv, NEW u \in User, NEW r \in Req,
           \/ Start(r) \/ FindClient(r) \/ FallbackClient(r) \/ NewClient(r) \/ BindClient(r)
           \/ UndoGate(r) \/ ReadKey(r) \/ SetGate(r) \/ DeleteGate(r) \/ DeleteRow(r)
           \/ ReadAccount(r) \/ CloseAccount(r) \/ InsertGate(r) \/ AddClient(r) \/ Abandon(r)
           \/ \E v \in User : BanUser(r, v) \/ AddUser(r, v)
    PROVE  Active(u)' \subseteq Active(u)
  <1>1. CASE InsertGate(r)
    <2>1. UNCHANGED userKey /\ \A k \in Key : owner'[k] = owner[k] \/ userKey[k] = "none"
      BY <1>1, IssueFacts, Parts DEF IInv, Fresh
    <2> QED BY <2>1, FewerActive
  <1>2. CASE DeleteRow(r) \/ CloseAccount(r)
    <2>1. UNCHANGED owner /\ (UNCHANGED userKey \/ \E T : DropRows(T))
      BY <1>2 DEF DeleteRow, CloseAccount
    <2>2. \A k \in Key : userKey'[k] = "active" => userKey[k] = "active"
      BY <2>1 DEF DropRows
    <2> QED BY <2>1, <2>2, FewerActive
  <1>3. CASE UNCHANGED <<owner, userKey>>
    BY <1>3, FewerActive
  <1> QED BY <1>1, <1>2, <1>3 DEF Start, FindClient, FallbackClient, NewClient, BindClient,
             UndoGate, ReadKey, SetGate, DeleteGate, ReadAccount, AddClient, Abandon,
             BanUser, AddUser, keyVars

LEMMA LimitQuiet ==
    ASSUME IInv, JInv, NEW u \in User, NEW r \in Req,
           \/ Start(r) \/ FindClient(r) \/ FallbackClient(r) \/ NewClient(r) \/ BindClient(r)
           \/ UndoGate(r) \/ ReadKey(r) \/ SetGate(r) \/ DeleteGate(r) \/ DeleteRow(r)
           \/ ReadAccount(r) \/ CloseAccount(r) \/ InsertGate(r) \/ AddClient(r) \/ Abandon(r)
           \/ \E v \in User : BanUser(r, v) \/ AddUser(r, v)
    PROVE  NoMore(u)
  <1>1. Active(u)' \subseteq Active(u)
    BY ActiveQuiet
  <1>2. TypeOK /\ req \in [Req -> Job]
    BY Parts DEF IInv
  <1>3. ASSUME OthersStay(r), r \in Adding(u)' => r \in Adding(u) PROVE NoMore(u)
    BY <1>1, <1>3, FewerAdding DEF NoMore
  <1>4. CASE Answer(r)
    BY <1>1, <1>2, <1>4, LimitAnswer
  <1>5. CASE Start(r)
    <2>1. req'[r].at \in {"count", "read"}
      <3>1. \E j : j.at \in {"count", "read"} /\ Begin(r, j)
        BY <1>5, StartFacts
      <3> QED BY <1>2, <3>1 DEF Begin
    <2>2. OthersStay(r)
      BY <1>2, <1>5, StartFacts DEF Begin, OthersStay
    <2> QED BY <1>3, <2>1, <2>2 DEF Adding
  <1>6. CASE \/ FindClient(r) \/ FallbackClient(r) \/ NewClient(r) \/ BindClient(r)
             \/ ReadAccount(r)
    <2>1. \/ req'[r] = Idle
          \/ req'[r].op = req[r].op /\ req'[r].user = req[r].user
      BY <1>6, SearchKeeps
    <2>2. OthersStay(r)
      BY <1>2, <1>6 DEF FindClient, FallbackClient, NewClient, BindClient, ReadAccount, Goto,
                        Answer, OthersStay
    <2>3. \/ req[r].op = "close"
          \/ req[r].op = "create" /\ req[r].at \in {"client", "fallback", "newclient", "bind"}
      BY <1>6 DEF FindClient, FallbackClient, NewClient, BindClient, ReadAccount, At
    <2>4. r \in Adding(u)' => r \in Adding(u)
      BY <2>1, <2>3 DEF Adding, Idle
    <2> QED BY <1>3, <2>2, <2>4
  <1>7. CASE ReadKey(r)
    <2>1. \/ Answer(r)
          \/ req[r].op = "delete" /\ Goto(r, "gate")
          \/ req[r].op = "toggle" /\ req' = [req EXCEPT ![r].to = "revoked", ![r].at = "gate"]
          \/ req[r].op = "toggle" /\ req' = [req EXCEPT ![r].to = "active", ![r].at = "count"]
      BY <1>7 DEF ReadKey, At
    <2>2. ASSUME NEW s \in Live, NEW pc \in {"gate", "count"}, s = "revoked" \/ pc = "count",
                 req[r].op = "toggle", req' = [req EXCEPT ![r].to = s, ![r].at = pc]
          PROVE  NoMore(u)
      <3>1. UNCHANGED owner
        BY <1>7 DEF ReadKey, keyVars
      <3>2. Onward(r) /\ req'[r].to = s /\ req'[r].at = pc /\ req'[r].op = "toggle"
        BY <1>2, <2>2, <3>1, ToggleOn DEF JInv
      <3> QED BY <1>3, <2>2, <3>2 DEF Adding, Onward
    <2>3. CASE req[r].op = "delete" /\ Goto(r, "gate")
      <3>1. "gate" \in Pc
        BY DEF Pc
      <3> QED BY <1>1, <1>2, <2>3, <3>1, LimitGoto
    <2>4. "active" \in Live /\ "revoked" \in Live
      BY DEF Live
    <2> QED BY <1>4, <2>1, <2>2, <2>3, <2>4
  <1>8. CASE SetGate(r) \/ DeleteGate(r)
    <2>1. "row" \in Pc /\ Goto(r, "row")
      BY <1>8 DEF SetGate, DeleteGate, Pc
    <2>2. \/ req[r].op = "toggle" /\ req[r].at = "gate"
          \/ req[r].op = "delete"
      BY <1>8 DEF SetGate, DeleteGate, At
    <2>3. \/ req[r].op = "toggle" /\ (r \in Adding(req[r].user) \/ req[r].to # "active")
          \/ req[r].op \notin {"create", "toggle"}
      BY <2>2 DEF Adding
    <2> QED BY <1>1, <1>2, <2>1, <2>3, LimitGoto
  <1>9. CASE InsertGate(r)
    <2>1. PICK k \in Key : Answer(r) \/ req' = [req EXCEPT ![r].key = k, ![r].at = "row"]
      BY <1>9, IssueFacts
    <2>2. r \in Adding(req[r].user) /\ req[r].op = "create"
      BY <1>9 DEF InsertGate, At, Adding
    <2>3. CASE req' = [req EXCEPT ![r].key = k, ![r].at = "row"]
      <3>1. OthersStay(r) /\ req'[r].op = req[r].op /\ req'[r].user = req[r].user
        BY <2>3, KeyInHand
      <3> QED BY <1>3, <2>2, <3>1 DEF Adding
    <2> QED BY <1>4, <2>1, <2>3
  <1>10. CASE \E v \in User : BanUser(r, v) \/ AddUser(r, v)
    <2>1. \/ UNCHANGED req
          \/ \E j : j.op \in {"ban", "unban", "adduser"} /\ Begin(r, j)
      BY <1>10, AdminBegins
    <2>2. CASE UNCHANGED req
      BY <1>3, <2>2 DEF OthersStay, Adding
    <2>3. ASSUME NEW j, j.op \in {"ban", "unban", "adduser"}, Begin(r, j) PROVE NoMore(u)
      <3>1. OthersStay(r) /\ req'[r] = j
        BY <1>2, <2>3 DEF Begin, OthersStay
      <3> QED BY <1>3, <2>3, <3>1 DEF Adding
    <2> QED BY <2>1, <2>2, <2>3
  <1> QED BY <1>4, <1>5, <1>6, <1>7, <1>8, <1>9, <1>10
          DEF UndoGate, DeleteRow, CloseAccount, AddClient, Abandon

(* A ban and an unban write the rows of one user's keys; after an unban    *)
(* that brought keys back, that user is left out of account.               *)
LEMMA LimitBanKeys ==
    ASSUME IInv, JInv, NEW r \in Req, BanKeys(r), NEW u \in User,
           At(r, "unban", "keys") /\ Changed # {} => u # req[r].user
    PROVE  NoMore(u)
  <1> DEFINE v == req[r].user
  <1>1. /\ UNCHANGED <<clientKey, owner>> /\ Answer(r) /\ req[r].at = "keys"
        /\ \/ UNCHANGED userKey
           \/ MarkRows(KeysOf(v), "banned")
           \/ req[r].op # "ban" /\ MarkRows({k \in KeysOf(v) : userKey[k] = "banned"}, "active")
    BY DEF BanKeys
  <1>2. CASE UNCHANGED userKey \/ MarkRows(KeysOf(v), "banned")
    <2>1. \A k \in Key : userKey'[k] = "active" => userKey[k] = "active"
      BY <1>2 DEF MarkRows
    <2> QED BY <1>1, <2>1, FewerActive, LimitAnswer DEF IInv
  <1>3. CASE req[r].op # "ban" /\ MarkRows({k \in KeysOf(v) : userKey[k] = "banned"}, "active")
    <2>1. At(r, "unban", "keys")
      BY <1>1, <1>3 DEF At, JInv, JobsFine, JobFine
    <2>2. CASE Changed = {}
      <3>1. \A k \in Key : userKey'[k] = userKey[k]
        BY <2>2 DEF Changed
      <3> QED BY <1>1, <3>1, FewerActive, LimitAnswer DEF IInv
    <2>3. CASE u # v
      <3>1. \A k \in Key : owner[k] = u => userKey'[k] = userKey[k]
        BY <1>3, <2>3 DEF MarkRows, KeysOf
      <3> QED BY <1>1, <3>1, FewerActive, LimitAnswer DEF IInv
    <2> QED BY <2>1, <2>2, <2>3
  <1> QED BY <1>1, <1>2, <1>3

LEMMA LimitOnce ==
    ASSUME IInv, JInv, AdminOnce, NEW u \in User
    PROVE  NoMore(u)
  <1>1. UNCHANGED <<req, owner>> /\ (UNCHANGED userKey \/ \E T : DropRows(T))
    BY DEF AdminOnce, RemoveUser, DropClient, AddClientKey, DropClientKey
  <1>2. \A k \in Key : userKey'[k] = "active" => userKey[k] = "active"
    BY <1>1 DEF DropRows
  <1>3. Adding(u)' = Adding(u)
    BY <1>1 DEF Adding
  <1> QED BY <1>1, <1>2, <1>3, FewerActive DEF NoMore

(* A step fails at most one statement.                                     *)
LEMMA FaultStep ==
    ASSUME IInv, Next
    PROVE  faults' \in {faults, faults + 1}
  <1>1. \A o : Spend(o) => faults' \in {faults, faults + 1}
    BY DEF Spend
  <1>2. ASSUME NEW r \in Req, Handler(r) \/ Admin(r) PROVE faults' \in {faults, faults + 1}
    BY <1>1, <1>2 DEF Handler, Admin, Start, CountKeys, FindClient, FallbackClient, NewClient,
       BindClient, InsertGate, InsertRow, UndoGate, ReadKey, SetGate, SetRow, DeleteGate,
       DeleteRow, ReadAccount, CloseAccount, BanUser, AddUser, BanKeys, AddClient
  <1>3. CASE AdminOnce
    BY <1>1, <1>3 DEF AdminOnce, RemoveUser, DropClient, AddClientKey, DropClientKey
  <1> QED BY <1>2, <1>3 DEF Next, Abandon

Limited == \A u \in User \ revived : LimitFor(u)

LEMMA LimitStep == IInv /\ JInv /\ Limited /\ [HNext]_hvars => Limited'
  <1> SUFFICES ASSUME IInv, JInv, Limited, [HNext]_hvars, NEW u \in User \ revived'
               PROVE  LimitFor(u)'
    BY DEF Limited
  <1>1. CASE UNCHANGED hvars
    <2>1. UNCHANGED <<userKey, owner, req, faults, revived>>
      BY <1>1 DEF hvars, vars, keyVars
    <2> QED BY <2>1 DEF Limited, LimitFor, Active, ActiveCount, KeysOf, Adding
  <1>2. ASSUME HNext PROVE LimitFor(u)'
    <2>1. revived \subseteq revived' /\ Next
      BY <1>2 DEF HNext, Next
    <2>2. LimitFor(u) /\ faults' \in {faults, faults + 1}
      BY <2>1, FaultStep DEF Limited
    <2>3. ASSUME NEW r \in Req, Handler(r)
          PROVE  NoMore(u) \/ (\E k \in Key : Exchange(u, r, k)) \/ Joins(u, r)
      BY <2>2, <2>3, LimitCount, LimitWrites, LimitQuiet DEF Handler
    <2>4. ASSUME NEW r \in Req, Admin(r),
                 revived' = IF At(r, "unban", "keys") /\ Changed # {}
                            THEN revived \cup {req[r].user} ELSE revived
          PROVE  NoMore(u)
      BY <2>4, LimitQuiet, LimitBanKeys DEF Admin
    <2>5. ASSUME NEW r \in Req, Abandon(r) PROVE NoMore(u)
      BY <2>5, LimitQuiet
    <2>6. CASE AdminOnce
      BY <2>6, <2>2, LimitOnce, LimitStays DEF IInv
    <2> QED BY <1>2, <2>2, <2>3, <2>4, <2>5, <2>6, LimitStays DEF HNext, IInv
  <1> QED BY <1>1, <1>2

(* LimitOvershoot, for any number of users, keys, connections and faults   *)
(* at once.                                                                *)
THEOREM LimitOvershootAlways == HSpec => []LimitOvershoot
  <1>1. HInit => IInv /\ JInv /\ Limited
    <2>1. ASSUME Init, NEW u \in User PROVE LimitFor(u)
      <3>1. Active(u) = {} /\ Adding(u) = {}
        BY <2>1 DEF Init, Active, KeysOf, Listed, Adding, Idle
      <3>2. Cardinality(Req) \in Nat
        BY ConnectionsFinite, FS_CardinalityType
      <3>3. /\ IsFiniteSet(Active(u)) /\ Cardinality(Active(u)) = 0
            /\ Cardinality(Adding(u)) = 0
        BY <3>1, FS_EmptySet
      <3>4. ActiveCount(u) = Cardinality(Active(u))
        BY DEF ActiveCount, Active
      <3>5. faults = 0 /\ LIMIT \in Nat \ {0}
        BY <2>1, KeyConstants DEF Init
      <3> QED BY <3>2, <3>3, <3>4, <3>5 DEF LimitFor
    <2> QED BY <2>1, InitInv, JobsInit DEF HInit, Limited
  <1>2. IInv /\ JInv /\ Limited /\ [HNext]_hvars => IInv' /\ JInv' /\ Limited'
    <2>1. [HNext]_hvars => [Next]_vars
      BY DEF HNext, Next, hvars
    <2> QED BY <2>1, StepInv, JobsStep, LimitStep
  <1>3. Limited => LimitOvershoot
    BY DEF Limited, LimitFor, LimitOvershoot
  <1> QED BY <1>1, <1>2, <1>3, PTL DEF HSpec

-----------------------------------------------------------------------------
(* The tables.  A key that nothing drove apart has at most one request in  *)
(* it, and its two rows are where that request's statements left them; a   *)
(* row that is missing between the two is then known to follow or, because *)
(* the account was closed, to be taken back.                               *)
In(r, k) == req[r].key = k
KeyGone(k) == clientKey[k] = "gone" /\ userKey[k] = "gone"
Paired(k) == clientKey[k] \in Live <=> userKey[k] \in Listed
Agree(k) == Paired(k) /\ (Accepts(k) <=> userKey[k] = "active")
Stage(r, k) ==
    \/ At(r, "create", "row") /\ (clientKey[k] = "active" \/ account[req[r].user] = "gone")
    \/ At(r, "create", "undo") /\ userKey[k] \notin Listed
    \/ req[r].op = "toggle" /\ req[r].at \in {"read", "count", "gate"} /\ Agree(k)
    \/ At(r, "toggle", "row") /\ Paired(k) /\ (clientKey[k] \in Live => clientKey[k] = req[r].to)
    \/ req[r].op = "delete" /\ req[r].at \in {"read", "gate"} /\ Agree(k)
    \/ At(r, "delete", "row") /\ clientKey[k] \notin Live
Single(k) == \A q, r \in Req : In(q, k) /\ In(r, k) => q = r
KeySteady(k) ==
    \/ KeyGone(k)
    \/ /\ Single(k)
       /\ (\A r \in Req : ~In(r, k)) => Agree(k)
       /\ \A r \in Req : In(r, k) => Stage(r, k)
Steady == \A k \in Key \ upset : owner[k] # NoUser => KeySteady(k)

SameRows(k) == clientKey'[k] = clientKey[k] /\ userKey'[k] = userKey[k]

(* Keys that are gone from both tables leave the history, and need none.   *)
LEMMA Covered ==
    ASSUME NEW S, Note(S), NEW k \in Key \ upset', ~KeyGone(k)'
    PROVE  k \notin upset /\ k \notin S
  BY DEF Note, KeyGone

(* Where neither the rows nor the requests move, nothing changes.          *)
LEMMA StillSteady ==
    ASSUME JobsFine, ClosedStay, NEW k \in Key, KeySteady(k), SameRows(k),
           \A q \in Req : In(q, k) \/ In(q, k)' => req'[q] = req[q]
    PROVE  KeySteady(k)'
  <1>1. CASE KeyGone(k)
    BY <1>1 DEF SameRows, KeySteady, KeyGone
  <1>2. CASE ~KeyGone(k)
    <2>1. \A q \in Req : In(q, k)' => In(q, k)
      BY DEF In
    <2>2. \A q \in Req : In(q, k) => In(q, k)'
      BY DEF In
    <2>3. Single(k)'
      BY <1>2, <2>1 DEF KeySteady, Single
    <2>4. Agree(k)' <=> Agree(k)
      BY DEF SameRows, Agree, Paired, Accepts
    <2>5. ASSUME NEW q \in Req, In(q, k)' PROVE Stage(q, k)'
      <3>1. Stage(q, k) /\ req'[q] = req[q]
        BY <1>2, <2>1, <2>5 DEF KeySteady
      <3>2. req[q].user \in User
        BY <2>1, <2>5, KeyConstants DEF JobsFine, JobFine, In
      <3> QED BY <2>4, <3>1, <3>2 DEF Stage, SameRows, At, Paired, ClosedStay
    <2>6. (\A q \in Req : ~In(q, k)') => Agree(k)'
      BY <1>2, <2>2, <2>4 DEF KeySteady
    <2> QED BY <2>3, <2>5, <2>6 DEF KeySteady
  <1> QED BY <1>1, <1>2

(* A handler's statement that does not fail: the key it is in is handed on *)
(* from stage to stage, one it enters was at rest, others are left alone.  *)
LEMMA HandedOn ==
    ASSUME JobsFine, ClosedStay, RowsStay, NEW r \in Req, OthersStay(r),
           NEW k \in Key, KeySteady(k), ~KeyGone(k)', k \notin Contended',
           ~In(r, k) => SameRows(k),
           ~In(r, k) /\ In(r, k)' /\ Agree(k) => Stage(r, k)',
           In(r, k) /\ Stage(r, k) /\ In(r, k)' => Stage(r, k)',
           In(r, k) /\ Stage(r, k) /\ ~In(r, k)' => Agree(k)'
    PROVE  KeySteady(k)'
  <1>1. Single(k)'
    BY DEF Contended, Single, In
  <1>2. ~KeyGone(k)
    BY DEF KeyGone, RowsStay
  <1>3. \A q \in Req \ {r} : req'[q] = req[q] /\ (In(q, k)' <=> In(q, k))
    BY DEF OthersStay, In
  <1>4. CASE In(r, k)
    <2>1. \A q \in Req \ {r} : ~In(q, k)'
      BY <1>2, <1>3, <1>4 DEF KeySteady, Single
    <2>2. Stage(r, k)
      BY <1>2, <1>4 DEF KeySteady
    <2> QED BY <1>1, <1>4, <2>1, <2>2 DEF KeySteady
  <1>5. CASE ~In(r, k) /\ In(r, k)'
    <2>1. \A q \in Req \ {r} : ~In(q, k)'
      BY <1>1, <1>5 DEF Single
    <2>2. \A q \in Req : ~In(q, k)
      BY <1>3, <1>5, <2>1
    <2>3. Agree(k)
      BY <1>2, <2>2 DEF KeySteady
    <2> QED BY <1>1, <1>5, <2>1, <2>3 DEF KeySteady
  <1>6. CASE ~In(r, k) /\ ~In(r, k)'
    <2>1. \A q \in Req : In(q, k) \/ In(q, k)' => req'[q] = req[q]
      BY <1>3, <1>6
    <2> QED BY <1>6, <2>1, StillSteady
  <1> QED BY <1>4, <1>5, <1>6

(* Accounts that are gone are not brought back.                            *)
LEMMA GoneForGood ==
    ASSUME TypeOK, Next
    PROVE  ClosedStay
  <1>1. account \in [User -> {"none", "active", "banned", "gone"}]
    BY DEF TypeOK
  <1>2. ASSUME NEW r \in Req, NEW u \in User, BanUser(r, u) PROVE ClosedStay
    BY <1>1, <1>2 DEF BanUser, Exists, ClosedStay
  <1>3. ASSUME NEW r \in Req, NEW u \in User, AddUser(r, u) PROVE ClosedStay
    BY <1>1, <1>3 DEF AddUser, ClosedStay
  <1>4. ASSUME NEW r \in Req, CloseAccount(r) PROVE ClosedStay
    BY <1>1, <1>4 DEF CloseAccount, ClosedStay
  <1>5. ASSUME NEW u \in User, RemoveUser(u) PROVE ClosedStay
    BY <1>1, <1>5 DEF RemoveUser, ClosedStay
  <1>6. CASE UNCHANGED account
    BY <1>6 DEF ClosedStay
  <1>7. ASSUME NEW r \in Req, Handler(r) PROVE ClosedStay
    BY <1>4, <1>6, <1>7 DEF Handler, Start, CountKeys, FindClient, FallbackClient, NewClient,
       BindClient, InsertGate, InsertRow, UndoGate, ReadKey, SetGate, SetRow, DeleteGate,
       DeleteRow, ReadAccount
  <1>8. ASSUME NEW r \in Req, Admin(r) \/ Abandon(r) PROVE ClosedStay
    BY <1>2, <1>3, <1>6, <1>8 DEF Admin, BanKeys, AddClient, Abandon
  <1>9. CASE AdminOnce
    BY <1>5, <1>6, <1>9 DEF AdminOnce, DropClient, AddClientKey, DropClientKey
  <1> QED BY <1>7, <1>8, <1>9 DEF Next

(* Without a fault, the statement took effect and said so.                 *)
LEMMA NoFault ==
    ASSUME TypeOK, faults' = faults, NEW o, Spend(o)
    PROVE  o = "ok"
  BY DEF Spend, TypeOK

(* How a statement of r that does not fail treats k, if r is, was or will  *)
(* be in it.                                                               *)
HandsOn(r, k) ==
    /\ ~In(r, k) => SameRows(k)
    /\ ~In(r, k) /\ In(r, k)' /\ Agree(k) => Stage(r, k)'
    /\ In(r, k) /\ Stage(r, k) /\ In(r, k)' => Stage(r, k)'
    /\ In(r, k) /\ Stage(r, k) /\ ~In(r, k)' => Agree(k)'

(* The statements of a request with no key.                                *)
LEMMA SearchHands ==
    ASSUME IInv, JInv, NEW r \in Req, NEW k \in Key,
           \/ FindClient(r) \/ FallbackClient(r) \/ NewClient(r) \/ BindClient(r)
           \/ ReadAccount(r)
    PROVE  HandsOn(r, k)
  <1>1. /\ req[r].op \in {"create", "close"} /\ UNCHANGED <<clientKey, userKey>>
        /\ req[r].op = "create" => req[r].at \in {"client", "fallback", "newclient", "bind"}
    BY DEF FindClient, FallbackClient, NewClient, BindClient, ReadAccount, At, keyVars
  <1>2. req[r].key = NoKey
    BY <1>1 DEF JInv, JobsFine, JobFine, Works
  <1>3. req'[r].key = NoKey
    BY <1>2, SearchKeeps DEF Idle
  <1> QED BY <1>1, <1>2, <1>3, KeyConstants DEF HandsOn, In, SameRows

(* A key that is entered was at rest: toggle_key and delete_key begin.     *)
LEMMA StartHands ==
    ASSUME IInv, NEW r \in Req, NEW k \in Key, Start(r)
    PROVE  HandsOn(r, k)
  <1>1. UNCHANGED <<clientKey, userKey>>
    BY DEF Start, keyVars
  <1>2. PICK j \in Job : /\ Begin(r, j)
                         /\ j.key # NoKey => j.op \in {"toggle", "delete"} /\ j.at = "read"
    BY StartFacts
  <1>3. req[r] = Idle /\ req'[r] = j
    BY <1>2, BeginFacts, Parts DEF IInv, Begin
  <1>4. ~In(r, k)
    BY <1>3, KeyConstants DEF In, Idle
  <1>5. ASSUME In(r, k)', Agree(k) PROVE Stage(r, k)'
    <2>1. j.key # NoKey
      BY <1>3, <1>5, KeyConstants DEF In
    <2> QED BY <1>1, <1>2, <1>3, <1>5, <2>1 DEF Stage, Agree, Paired, Accepts
  <1> QED BY <1>1, <1>4, <1>5 DEF HandsOn, SameRows

(* The reads of a request on a key change nothing.                         *)
LEMMA ReadHands ==
    ASSUME IInv, JInv, NEW r \in Req, NEW k \in Key, CountKeys(r) \/ ReadKey(r)
    PROVE  HandsOn(r, k)
  <1>1. UNCHANGED <<clientKey, userKey>>
    BY DEF CountKeys, ReadKey, keyVars
  <1>2. JobFine(r) /\ TypeOK /\ req \in [Req -> Job] /\ Onward(r)
    BY Parts, OnwardSteps DEF JInv, JobsFine, IInv
  <1>3. Agree(k)' <=> Agree(k)
    BY <1>1 DEF Agree, Paired, Accepts
  <1>4. In(r, k)' => In(r, k) /\ req'[r].key = req[r].key
    BY <1>2, KeyConstants DEF Onward, GoneOn, In, Idle
  <1>5. In(r, k) /\ Stage(r, k) => Agree(k) /\ req[r].op \in {"toggle", "delete"}
    BY <1>2, KeyConstants DEF In, CountKeys, ReadKey, At, JobFine, Works, Stage
  <1>6. ASSUME In(r, k)', req[r].op \in {"toggle", "delete"}
        PROVE  /\ req'[r].op = req[r].op
               /\ req'[r].at = "gate" \/ (req'[r].at = "count" /\ req'[r].op = "toggle")
    <2>1. ~Answer(r)
      BY <1>2, <1>6, AnswerFacts, KeyConstants DEF In, Idle
    <2>2. {"gate", "count"} \subseteq Pc /\ {"active", "revoked"} \subseteq Live
      BY DEF Pc, Live
    <2>3. CASE Goto(r, "gate")
      BY <1>2, <2>2, <2>3, GotoFacts
    <2>4. CASE /\ req[r].op = "toggle"
               /\ \/ req' = [req EXCEPT ![r].to = "revoked", ![r].at = "gate"]
                  \/ req' = [req EXCEPT ![r].to = "active", ![r].at = "count"]
      <3>1. UNCHANGED owner /\ JobsFine
        BY DEF CountKeys, ReadKey, keyVars, JInv
      <3> QED BY <1>2, <2>2, <2>4, <3>1, ToggleOn
    <2> QED BY <1>6, <2>1, <2>3, <2>4 DEF CountKeys, ReadKey, At
  <1>7. In(r, k) /\ Stage(r, k) /\ In(r, k)' => Stage(r, k)'
    BY <1>3, <1>5, <1>6 DEF Stage
  <1> QED BY <1>1, <1>3, <1>4, <1>5, <1>7 DEF HandsOn, SameRows

(* create_key_handler lists the key it has issued, or takes it back.       *)
LEMMA CreateHands ==
    ASSUME IInv, JInv, NEW r \in Req, NEW k \in Key, InsertRow(r) \/ UndoGate(r),
           faults' = faults
    PROVE  HandsOn(r, k)
  <1>1. TypeOK /\ req \in [Req -> Job] /\ userKey \in [Key -> Row] /\ clientKey \in [Key -> Gate]
    BY Parts DEF IInv
  <1>2. req[r].op = "create" /\ req[r].at \in {"row", "undo"} /\ "undo" \in Pc
    BY DEF InsertRow, UndoGate, At, Pc
  <1>3. CASE InsertRow(r)
    <2>1. /\ req[r].at = "row" /\ UNCHANGED <<clientKey, account>>
          /\ IF Exists(req[r].user)
             THEN userKey' = [userKey EXCEPT ![req[r].key] = "active"] /\ Answer(r)
             ELSE UNCHANGED userKey /\ Goto(r, "undo")
      BY <1>1, <1>3, NoFault DEF InsertRow, Applied, At
    <2>2. userKey[req[r].key] = "none" /\ req[r].key \in Key
      BY <1>2, <2>1 DEF IInv, RowsDue, Owing, At, JobsOK, JobOK
    <2>3. CASE Exists(req[r].user)
      <3>1. ~In(r, k)'
        BY <1>1, <2>1, <2>3, AnswerFacts, KeyConstants DEF In, Idle
      <3>2. In(r, k) /\ Stage(r, k) => Agree(k)'
        BY <1>1, <1>2, <2>1, <2>3
           DEF In, Stage, At, Exists, Agree, Paired, Accepts, Live, Listed
      <3>3. ~In(r, k) => SameRows(k)
        BY <1>1, <2>1, <2>3 DEF In, SameRows
      <3> QED BY <3>1, <3>2, <3>3 DEF HandsOn
    <2>4. CASE ~Exists(req[r].user)
      <3>1. /\ req'[r].at = "undo" /\ req'[r].op = "create" /\ req'[r].key = req[r].key
        BY <1>1, <1>2, <2>1, <2>4, GotoFacts
      <3>2. UNCHANGED <<clientKey, userKey>>
        BY <2>1, <2>4
      <3> QED BY <2>2, <3>1, <3>2 DEF HandsOn, In, SameRows, Stage, At, Listed
    <2> QED BY <2>3, <2>4
  <1>4. CASE UndoGate(r)
    <2>1. /\ req[r].at = "undo" /\ UNCHANGED userKey
          /\ DropGates({req[r].key}) /\ Answer(r)
      BY <1>1, <1>4, NoFault DEF UndoGate, Applied, At
    <2>2. ~In(r, k)'
      BY <1>1, <2>1, AnswerFacts, KeyConstants DEF In, Idle
    <2>3. In(r, k) /\ Stage(r, k) => Agree(k)'
      BY <1>1, <1>2, <2>1 DEF In, Stage, At, DropGates, Agree, Paired, Accepts, Live, Listed
    <2>4. ~In(r, k) => SameRows(k)
      BY <1>1, <2>1 DEF In, SameRows, DropGates
    <2> QED BY <2>2, <2>3, <2>4 DEF HandsOn
  <1> QED BY <1>3, <1>4

(* toggle_key sets the gateway's row, then the owner's.                    *)
LEMMA ToggleHands ==
    ASSUME IInv, JInv, NEW r \in Req, NEW k \in Key, SetGate(r) \/ SetRow(r),
           faults' = faults
    PROVE  HandsOn(r, k)
  <1>1. TypeOK /\ req \in [Req -> Job] /\ userKey \in [Key -> Row] /\ clientKey \in [Key -> Gate]
    BY Parts DEF IInv
  <1>2. /\ req[r].op = "toggle" /\ req[r].at \in {"gate", "row"} /\ "row" \in Pc
        /\ req[r].key \in Key /\ req[r].to \in Live
    BY DEF SetGate, SetRow, At, Pc, IInv, JobsOK, JobOK
  <1>3. CASE SetGate(r)
    <2>1. /\ req[r].at = "gate" /\ UNCHANGED userKey /\ Goto(r, "row")
          /\ clientKey' = IF clientKey[req[r].key] \in Live
                          THEN [clientKey EXCEPT ![req[r].key] = req[r].to] ELSE clientKey
      BY <1>1, <1>3, NoFault DEF SetGate, Applied, At
    <2>2. /\ req'[r].at = "row" /\ req'[r].op = "toggle" /\ req'[r].key = req[r].key
          /\ req'[r].to = req[r].to
      BY <1>1, <1>2, <2>1, GotoFacts
    <2>3. In(r, k) /\ Stage(r, k) => Stage(r, k)'
      <3>1. In(r, k) /\ Stage(r, k) => Paired(k)
        BY <1>2, <2>1 DEF Stage, At, Agree
      <3> QED BY <1>1, <1>2, <2>1, <2>2, <3>1 DEF In, Stage, At, Paired
    <2>4. ~In(r, k) => SameRows(k)
      BY <1>1, <2>1 DEF In, SameRows
    <2>5. In(r, k)' <=> In(r, k)
      BY <2>2 DEF In
    <2> QED BY <2>3, <2>4, <2>5 DEF HandsOn
  <1>4. CASE SetRow(r)
    <2>1. /\ req[r].at = "row" /\ UNCHANGED clientKey /\ Answer(r)
          /\ IF userKey[req[r].key] \in Listed
             THEN MarkRows({req[r].key}, req[r].to) ELSE UNCHANGED userKey
      BY <1>1, <1>4, NoFault DEF SetRow, Applied, At
    <2>2. ~In(r, k)'
      BY <1>1, <2>1, AnswerFacts, KeyConstants DEF In, Idle
    <2>3. In(r, k) /\ Stage(r, k) => Agree(k)'
      <3>1. ASSUME In(r, k), Stage(r, k) PROVE Agree(k)'
        <4>1. Paired(k) /\ (clientKey[k] \in Live => clientKey[k] = req[r].to)
          BY <1>2, <2>1, <3>1 DEF Stage, At
        <4>2. userKey'[k] = IF userKey[k] \in Listed THEN req[r].to ELSE userKey[k]
          BY <1>1, <2>1, <3>1 DEF In, MarkRows
        <4> QED BY <1>2, <2>1, <4>1, <4>2 DEF Agree, Paired, Accepts, Live, Listed
      <3> QED BY <3>1
    <2>4. ~In(r, k) => SameRows(k)
      BY <1>1, <2>1 DEF In, SameRows, MarkRows
    <2> QED BY <2>2, <2>3, <2>4 DEF HandsOn
  <1> QED BY <1>3, <1>4

(* delete_key deletes the gateway's row, then the owner's.                 *)
LEMMA DeleteHands ==
    ASSUME IInv, JInv, NEW r \in Req, NEW k \in Key, DeleteGate(r) \/ DeleteRow(r),
           faults' = faults
    PROVE  HandsOn(r, k)
  <1>1. TypeOK /\ req \in [Req -> Job] /\ userKey \in [Key -> Row] /\ clientKey \in [Key -> Gate]
    BY Parts DEF IInv
  <1>2. req[r].op = "delete" /\ req[r].at \in {"gate", "row"} /\ "row" \in Pc
    BY DEF DeleteGate, DeleteRow, At, Pc
  <1>3. CASE DeleteGate(r)
    <2>1. UNCHANGED userKey /\ Goto(r, "row") /\ DropGates({req[r].key})
      BY <1>1, <1>3, NoFault DEF DeleteGate, Applied
    <2>2. /\ req'[r].at = "row" /\ req'[r].op = "delete" /\ req'[r].key = req[r].key
      BY <1>1, <1>2, <2>1, GotoFacts
    <2>3. In(r, k) => Stage(r, k)'
      BY <1>1, <1>2, <2>1, <2>2 DEF In, Stage, At, DropGates, Live
    <2>4. ~In(r, k) => SameRows(k)
      BY <1>1, <2>1 DEF In, SameRows, DropGates
    <2>5. In(r, k)' <=> In(r, k)
      BY <2>2 DEF In
    <2> QED BY <2>3, <2>4, <2>5 DEF HandsOn
  <1>4. CASE DeleteRow(r)
    <2>1. /\ req[r].at = "row" /\ UNCHANGED clientKey /\ Answer(r) /\ DropRows({req[r].key})
      BY <1>1, <1>4, NoFault DEF DeleteRow, Applied, At
    <2>2. ~In(r, k)'
      BY <1>1, <2>1, AnswerFacts, KeyConstants DEF In, Idle
    <2>3. In(r, k) /\ Stage(r, k) => Agree(k)'
      BY <1>1, <1>2, <2>1 DEF In, Stage, At, DropRows, Agree, Paired, Accepts, Live, Listed
    <2>4. ~In(r, k) => SameRows(k)
      BY <1>1, <2>1 DEF In, SameRows, DropRows
    <2> QED BY <2>2, <2>3, <2>4 DEF HandsOn
  <1> QED BY <1>3, <1>4

(* delete_account takes both rows of the user's keys that hang on the      *)
(* client it has read; requests still in them find the account gone.       *)
LEMMA CloseSteady ==
    ASSUME IInv, JInv, ClosedStay, NEW r \in Req, CloseAccount(r), faults' = faults,
           NEW k \in Key, owner[k] # NoUser, KeySteady(k), ~KeyGone(k), k \notin Strays(r)
    PROVE  KeySteady(k)'
  <1> DEFINE u == req[r].user
             c == req[r].client
  <1>1. /\ TypeOK /\ userKey \in [Key -> Row] /\ clientKey \in [Key -> Gate]
        /\ account \in [User -> {"none", "active", "banned", "gone"}]
        /\ clientOf \in [Key -> Client \cup {NoClient}] /\ owner \in [Key -> User \cup {NoUser}]
        /\ JobsFine
    BY Parts DEF IInv, JInv
  <1>2. /\ At(r, "close", "commit") /\ Answer(r) /\ UNCHANGED <<owner, clientOf>>
        /\ DropGates({j \in Key : c # NoClient /\ clientOf[j] = c})
        /\ DropRows({j \in Key : owner[j] = u})
        /\ account' = [account EXCEPT ![u] = "gone"]
    BY <1>1, NoFault DEF CloseAccount, Applied
  <1>3. u \in User /\ req[r].key = NoKey
    BY <1>2 DEF At, IInv, JobsOK, JobOK, JInv, JobsFine, JobFine, Works
  <1>4. OthersStay(r) /\ req'[r].key = NoKey
    BY <1>1, <1>2, AnswerOn DEF Onward, Idle
  <1>5. \A q \in Req : In(q, k) \/ In(q, k)' => req'[q] = req[q] /\ q # r
    BY <1>3, <1>4, KeyConstants DEF In, OthersStay
  <1>6. CASE owner[k] = u
    <2>1. clientOf[k] = c /\ c # NoClient
      BY <1>2, <1>6, KeyConstants DEF Strays, JInv, KeysKnown
    <2>2. clientKey'[k] \notin Live /\ userKey'[k] \notin Listed /\ account'[u] = "gone"
      BY <1>1, <1>2, <1>3, <1>6, <2>1 DEF DropGates, DropRows, Live, Listed
    <2>3. Paired(k)' /\ Agree(k)'
      BY <2>2 DEF Paired, Agree, Accepts, Live, Listed
    <2>4. Single(k)'
      BY <1>5 DEF KeySteady, Single, In
    <2>5. ASSUME NEW q \in Req, In(q, k)' PROVE Stage(q, k)'
      <3>1. req'[q] = req[q] /\ In(q, k)
        BY <1>5, <2>5 DEF In
      <3>2. req[q].user = u /\ Stage(q, k)
        BY <1>6, <3>1, KeyConstants DEF In, JInv, JobsFine, JobFine, KeySteady
      <3> QED BY <2>2, <2>3, <3>1, <3>2 DEF Stage, At
    <2> QED BY <2>3, <2>4, <2>5 DEF KeySteady
  <1>7. CASE owner[k] # u
    <2>1. owner[k] \in User
      BY <1>1
    <2>2. ~(clientOf[k] = c /\ c # NoClient)
      <3>1. Uses(clientOf[k], owner[k]) /\ Uses(c, u)
        BY <1>2, UsedNow DEF At
      <3>2. clientOf[k] \in Client
        BY DEF JInv, KeysKnown
      <3> QED BY <1>3, <1>7, <2>1, <3>1, <3>2 DEF JInv, ClientsOwned
    <2>3. SameRows(k)
      BY <1>1, <1>2, <1>7, <2>2 DEF DropGates, DropRows, SameRows
    <2> QED BY <1>1, <1>5, <2>3, StillSteady
  <1> QED BY <1>6, <1>7

(* create_key_handler issues a key that nobody is in.                      *)
LEMMA IssueSteady ==
    ASSUME IInv, JInv, ClosedStay, NEW r \in Req, InsertGate(r),
           NEW k \in Key, owner'[k] # NoUser, owner[k] # NoUser => KeySteady(k),
           k \notin Contended', faults' = faults \/ k \notin Changed
    PROVE  KeySteady(k)'
  <1>1. PICK j \in Key :
             /\ Fresh(j) /\ owner[j] = NoUser /\ req[r].key = NoKey /\ UNCHANGED userKey
             /\ req[r].op = "create"
             /\ \/ UNCHANGED <<clientKey, clientOf, owner>> /\ Answer(r)
                \/ /\ clientKey' = [clientKey EXCEPT ![j] = "active"]
                   /\ owner' = [owner EXCEPT ![j] = req[r].user]
                   /\ \/ Answer(r) /\ faults' # faults
                      \/ /\ req' = [req EXCEPT ![r].key = j, ![r].at = "row"]
                         /\ faults' = faults
    BY IssueFacts
  <1>2. /\ TypeOK /\ clientKey \in [Key -> Gate] /\ owner \in [Key -> User \cup {NoUser}]
        /\ JobsFine
    BY Parts DEF IInv, JInv
  <1>3. /\ OthersStay(r)
        /\ \/ req'[r].key = NoKey
           \/ /\ req'[r].key = j /\ req'[r].op = "create" /\ req'[r].at = "row"
              /\ clientKey' = [clientKey EXCEPT ![j] = "active"]
    BY <1>1, <1>2, AnswerOn, KeyInHand DEF Onward, Idle
  <1>4. CASE k # j \/ (UNCHANGED <<clientKey, owner>> /\ Answer(r))
    <2>1. SameRows(k) /\ owner'[k] = owner[k]
      BY <1>1, <1>2, <1>4 DEF SameRows
    <2>2. ~In(r, k) /\ ~In(r, k)'
      <3>1. CASE Answer(r)
        BY <1>1, <1>2, <3>1, AnswerOn, KeyConstants DEF In, Idle
      <3>2. CASE k # j
        BY <1>1, <1>3, <3>2, KeyConstants DEF In
      <3> QED BY <1>4, <3>1, <3>2
    <2>3. \A q \in Req : In(q, k) \/ In(q, k)' => req'[q] = req[q]
      BY <1>3, <2>2 DEF OthersStay
    <2> QED BY <1>2, <2>1, <2>3, StillSteady
  <1>5. CASE k = j /\ clientKey' = [clientKey EXCEPT ![j] = "active"]
    <2>1. k \in Changed /\ clientKey'[k] = "active"
      BY <1>1, <1>2, <1>5 DEF Changed, Fresh
    <2>2. req' = [req EXCEPT ![r].key = j, ![r].at = "row"]
      BY <1>1, <1>2, <1>5, <2>1 DEF Fresh
    <2>3. In(r, k)' /\ Stage(r, k)'
      BY <1>1, <1>2, <1>5, <2>1, <2>2, KeyInHand DEF In, Stage, At
    <2>4. Single(k)'
      BY DEF Contended, Single, In
    <2> QED BY <2>3, <2>4 DEF KeySteady, Single
  <1> QED BY <1>1, <1>4, <1>5

(* Steps that leave the rows of a key and the requests in it alone.        *)
LEMMA Elsewhere ==
    ASSUME JInv, ClosedStay, NEW r \in Req, OthersStay(r), NEW k \in Key, KeySteady(k),
           k \notin Changed, ~In(r, k), ~In(r, k)'
    PROVE  KeySteady(k)'
  <1>1. \A q \in Req : In(q, k) \/ In(q, k)' => req'[q] = req[q]
    BY DEF OthersStay
  <1> QED BY <1>1, StillSteady DEF JInv, SameRows, Changed

(* All handlers but these two hand on; a failing statement takes up no key.*)
LEMMA EnterKeys ==
    ASSUME IInv, JInv, RowsStay, NEW r \in Req, Handler(r), ~InsertGate(r), NEW k \in Key
    PROVE  /\ OthersStay(r) /\ UNCHANGED owner
           /\ faults' # faults /\ In(r, k)' => In(r, k)
  <1>1. CASE Start(r)
    BY <1>1, StartJobs DEF Start, keyVars
  <1>2. CASE \/ FindClient(r) \/ FallbackClient(r) \/ NewClient(r) \/ BindClient(r)
             \/ ReadAccount(r)
    <2>1. OthersStay(r)
      BY <1>2, FindJobs, ReadAccountJobs
    <2>2. UNCHANGED owner
      BY <1>2 DEF FindClient, FallbackClient, NewClient, BindClient, ReadAccount, keyVars
    <2> QED BY <1>2, <2>1, <2>2, SearchKeeps, KeyConstants DEF In, Idle
  <1>3. CASE \/ CountKeys(r) \/ InsertRow(r) \/ UndoGate(r) \/ ReadKey(r) \/ SetGate(r)
             \/ SetRow(r) \/ DeleteGate(r) \/ DeleteRow(r) \/ CloseAccount(r)
    BY <1>3, OnwardSteps, KeyConstants DEF Onward, GoneOn, In, Idle
  <1> QED BY <1>1, <1>2, <1>3 DEF Handler

LEMMA HandlerSteady ==
    ASSUME IInv, JInv, RowsStay, ClosedStay, NEW r \in Req, Handler(r),
           NEW k \in Key, ~KeyGone(k)', owner'[k] # NoUser, owner[k] # NoUser => KeySteady(k),
           k \notin Contended', k \notin Strays(r),
           faults' = faults \/ (k \notin Changed /\ ~In(r, k))
    PROVE  KeySteady(k)'
  <1>1. CASE InsertGate(r)
    BY <1>1, IssueSteady
  <1>2. CASE ~InsertGate(r)
    <2>1. OthersStay(r) /\ owner[k] # NoUser /\ KeySteady(k)
      BY <1>2, EnterKeys
    <2>2. CASE faults' # faults
      BY <1>2, <2>1, <2>2, EnterKeys, Elsewhere
    <2>3. CASE faults' = faults /\ CloseAccount(r)
      BY <2>1, <2>3, CloseSteady DEF KeyGone, RowsStay
    <2>4. CASE faults' = faults /\ ~CloseAccount(r)
      <3>1. HandsOn(r, k)
        BY <1>2, <2>4, SearchHands, StartHands, ReadHands, CreateHands, ToggleHands, DeleteHands
           DEF Handler
      <3> QED BY <2>1, <3>1, HandedOn DEF HandsOn, JInv
    <2> QED BY <2>2, <2>3, <2>4
  <1> QED BY <1>1, <1>2

(* The administrations are in no key, and answer for the rows they change. *)
LEMMA AdminSteady ==
    ASSUME IInv, JInv, RowsStay, ClosedStay, NEW r \in Req, Admin(r),
           NEW k \in Key, owner'[k] # NoUser, owner[k] # NoUser => KeySteady(k),
           k \notin Changed
    PROVE  KeySteady(k)'
  <1>1. /\ OthersStay(r) /\ UNCHANGED owner /\ req[r].key = NoKey /\ req'[r].key = NoKey
    <2>1. ASSUME NEW u \in User, BanUser(r, u) \/ AddUser(r, u)
          PROVE  /\ OthersStay(r) /\ UNCHANGED owner
                 /\ req[r].key = NoKey /\ req'[r].key = NoKey
      <3>1. UNCHANGED owner
        BY <2>1 DEF BanUser, AddUser, keyVars
      <3>2. req[r] = Idle
        BY <2>1, AdminBegins
      <3>3. OthersStay(r) /\ req'[r].key = NoKey
        BY <2>1, BanJobs, AddUserJobs
      <3> QED BY <3>1, <3>2, <3>3 DEF Idle
    <2>2. CASE BanKeys(r) \/ AddClient(r)
      <3>1. Onward(r) /\ UNCHANGED owner /\ Answer(r)
        BY <2>2, OnwardSteps DEF BanKeys, AddClient
      <3>2. req[r].key = NoKey
        BY <2>2 DEF BanKeys, AddClient, At, JInv, JobsFine, JobFine, Works
      <3> QED BY <3>1, <3>2, AnswerOn DEF Onward, IInv, Idle
    <2> QED BY <2>1, <2>2 DEF Admin
  <1> QED BY <1>1, Elsewhere, KeyConstants DEF In

(* Every step keeps the keys' rows where their requests left them.         *)
LEMMA SteadyStep == IInv /\ JInv /\ Steady /\ [HNext]_hvars => Steady'
  <1> SUFFICES ASSUME IInv, JInv, Steady, [HNext]_hvars,
                      NEW k \in Key \ upset', owner'[k] # NoUser
               PROVE  KeySteady(k)'
    BY DEF Steady
  <1>1. CASE UNCHANGED hvars
    <2>1. UNCHANGED <<account, clientKey, userKey, owner, req, upset>>
      BY <1>1 DEF hvars, vars, keyVars
    <2> QED BY <2>1 DEF Steady, KeySteady, KeyGone, Single, Stage, In, At, Agree, Paired, Accepts
  <1>2. CASE KeyGone(k)'
    BY <1>2 DEF KeySteady
  <1>3. CASE HNext /\ ~KeyGone(k)'
    <2>1. Next
      BY <1>3 DEF HNext, Next
    <2>2. RowsStay
      <3>1. LifeStep
        BY <2>1, StepInv DEF LifeStep, Life!vars
      <3> QED BY <3>1, LifeKeeps DEF IInv
    <2>3. ClosedStay
      BY <2>1, GoneForGood DEF IInv
    <2>4. ASSUME NEW r \in Req, Handler(r),
                 Note(Contended' \cup Strays(r) \cup
                         IF faults' = faults THEN {} ELSE Changed \cup {req[r].key})
          PROVE  KeySteady(k)'
      <3>1. /\ k \notin upset /\ k \notin Contended' /\ k \notin Strays(r)
            /\ faults' = faults \/ (k \notin Changed /\ k # req[r].key)
        BY <1>3, <2>4, Covered
      <3> QED BY <1>3, <2>2, <2>3, <2>4, <3>1, HandlerSteady DEF Steady, In
    <2>5. ASSUME NEW r \in Req, Admin(r), Note(Changed)
          PROVE  KeySteady(k)'
      <3>1. k \notin upset /\ k \notin Changed
        BY <1>3, <2>5, Covered
      <3> QED BY <2>2, <2>3, <2>5, <3>1, AdminSteady DEF Steady
    <2>6. ASSUME NEW r \in Req, Abandon(r), Note({req[r].key})
          PROVE  KeySteady(k)'
      <3>1. k \notin upset /\ k # req[r].key
        BY <1>3, <2>6, Covered
      <3>2. OthersStay(r) /\ UNCHANGED <<owner, clientKey, userKey>> /\ req'[r] = Idle
        BY <2>6, AnswerOn DEF Abandon, Onward, IInv, keyVars
      <3>3. ~In(r, k) /\ ~In(r, k)' /\ k \notin Changed
        BY <3>1, <3>2, KeyConstants DEF In, Idle, Changed
      <3> QED BY <2>3, <3>1, <3>2, <3>3, Elsewhere DEF Steady
    <2>7. CASE AdminOnce /\ Note(Changed)
      <3>1. k \notin upset /\ k \notin Changed
        BY <1>3, <2>7, Covered
      <3>2. UNCHANGED <<req, owner>>
        BY <2>2, <2>7, OnceJobs
      <3>3. KeySteady(k) /\ SameRows(k)
        BY <3>1, <3>2 DEF Steady, SameRows, Changed
      <3> QED BY <2>3, <3>2, <3>3, StillSteady DEF JInv
    <2> QED BY <1>3, <2>4, <2>5, <2>6, <2>7 DEF HNext
  <1> QED BY <1>1, <1>2, <1>3

(* TablesAgree, for any number of users, keys, connections and faults.     *)
THEOREM TablesAgreeAlways == HSpec => []TablesAgree
  <1>1. HInit => IInv /\ JInv /\ Steady
    <2>1. Init => Steady
      BY DEF Init, Steady
    <2> QED BY <2>1, InitInv, JobsInit DEF HInit
  <1>2. IInv /\ JInv /\ Steady /\ [HNext]_hvars => IInv' /\ JInv' /\ Steady'
    <2>1. [HNext]_hvars => [Next]_vars
      BY DEF HNext, Next, hvars
    <2> QED BY <2>1, StepInv, JobsStep, SteadyStep
  <1>3. Steady => TablesAgree
    <2> SUFFICES ASSUME Steady, NEW k \in Key \ upset, owner[k] # NoUser,
                        \A r \in Req : req[r].key # k
                 PROVE  Agree(k)
      BY DEF TablesAgree, Agree, Paired
    <2>1. CASE KeyGone(k)
      BY <2>1 DEF KeyGone, Agree, Paired, Accepts, Live, Listed
    <2>2. CASE ~KeyGone(k)
      BY <2>2 DEF Steady, KeySteady, In
    <2> QED BY <2>1, <2>2
  <1> QED BY <1>1, <1>2, <1>3, PTL DEF HSpec
=============================================================================

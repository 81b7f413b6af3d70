--------------------------- MODULE AccountsProofs ---------------------------
(***************************************************************************)
(* A reset ends the sessions of the old password, and a mailed code makes  *)
(* one change, for any number of users, sessions, codes, overlapping       *)
(* requests, password changes and faults.                                  *)
(***************************************************************************)
EXTENDS MCAccounts, FiniteSetTheorems, TLAPS

Job == [op : {"none", "login", "reset", "email"},
        at : {"none", "lookup", "insert", "code", "spend", "find", "set", "clear"},
        user : User \cup {NoUser}, gen : Gen, ip : Ip \cup {NoIp},
        email : Email \cup {NoEmail}, code : Code \cup {NoCode}]
Pc == {"none", "lookup", "insert", "code", "spend", "find", "set", "clear"}
Open == [user : User \cup {NoUser}, gen : Gen]
Row == [state : {"none", "valid", "used", "gone"}, email : Email \cup {NoEmail},
        purpose : {"none", "reset_password", "change_email"}]
Entry == [count : 0 .. MAX_LOGIN_FAILS, locked : BOOLEAN]

(* A reset of the session's user has its statement on the sessions before it.*)
Clearing(r) == At(r, "reset", "clear")
Pending(s) == \E r \in Req : Clearing(r) /\ req[r].user = session[s].user

(* The sessions, and the logins that have verified a password, are of the  *)
(* current one or accounted for.  The property says this of the sessions   *)
(* only; a login under way becomes one.                                    *)
Covered(s) == session[s].user # NoUser =>
    \/ session[s].gen = password[session[s].user]
    \/ s \in excused
    \/ Pending(s)
SessionsCovered == \A s \in Session : Covered(s)
LoginsCovered == \A r \in Req : At(r, "login", "insert") =>
    req[r].gen = password[req[r].user] \/ r \in excused

(* What a login or a change of address was begun with.                     *)
Named == \A r \in Req : /\ req[r].op = "login" => req[r].user \in User /\ req[r].ip \in Ip
                        /\ req[r].op = "email" => req[r].email \in Email
CodesAddressed == \A c \in Code : code[c].purpose # "none" => code[c].email \in Email

(* A step changes the password that a login has just verified.             *)
Outdated(r) == /\ At(r, "login", "insert") /\ req[r].user \in User
               /\ password'[req[r].user] # password[req[r].user]

IInv == TypeOK /\ Named /\ CodesAddressed /\ SessionsCovered /\ LoginsCovered

-----------------------------------------------------------------------------
(* A request moves on to another statement.                                *)
LEMMA GotoFacts ==
    ASSUME req \in [Req -> Job], NEW r \in Req, NEW pc \in Pc, Goto(r, pc)
    PROVE  /\ req' \in [Req -> Job]
           /\ \A q \in Req \ {r} : req'[q] = req[q]
           /\ req'[r].at = pc /\ req'[r].op = req[r].op
           /\ req'[r].user = req[r].user /\ req'[r].gen = req[r].gen
           /\ req'[r].ip = req[r].ip /\ req'[r].email = req[r].email
           /\ req'[r].code = req[r].code
  <1> DEFINE i == [req[r] EXCEPT !.at = pc]
  <1>1. req[r] \in Job
    OBVIOUS
  <1>2. i \in Job /\ i.at = pc /\ i.op = req[r].op
      /\ i.user = req[r].user /\ i.gen = req[r].gen /\ i.ip = req[r].ip
      /\ i.email = req[r].email /\ i.code = req[r].code
    BY <1>1 DEF Job, Pc
  <1>3. req' = [req EXCEPT ![r] = i]
    BY DEF Goto
  <1> HIDE DEF i
  <1> QED BY <1>2, <1>3

(* A reset has found its user.                                             *)
LEMMA FoundFacts ==
    ASSUME req \in [Req -> Job], NEW r \in Req, NEW u \in User,
           req' = [req EXCEPT ![r].user = u, ![r].at = "set"]
    PROVE  /\ req' \in [Req -> Job]
           /\ \A q \in Req \ {r} : req'[q] = req[q]
           /\ req'[r].at = "set" /\ req'[r].op = req[r].op
           /\ req'[r].code = req[r].code
  <1> DEFINE i == [req[r] EXCEPT !.user = u, !.at = "set"]
  <1>1. req[r] \in Job
    OBVIOUS
  <1>2. i \in Job /\ i.at = "set" /\ i.op = req[r].op /\ i.code = req[r].code
    BY <1>1 DEF Job
  <1>3. req' = [req EXCEPT ![r] = i]
    OBVIOUS
  <1> HIDE DEF i
  <1> QED BY <1>2, <1>3

(* An idle request, and the answer of a handler.                           *)
LEMMA IdleJob == Idle \in Job /\ Idle.at = "none" /\ Idle.op = "none"
  <1>1. 0 \in Gen
    BY AccountConstants DEF Gen
  <1> QED BY <1>1 DEF Idle, Job

LEMMA AnswerFacts ==
    ASSUME req \in [Req -> Job], NEW r \in Req, Answer(r)
    PROVE  /\ req' \in [Req -> Job]
           /\ \A q \in Req \ {r} : req'[q] = req[q]
           /\ req'[r] = Idle
  BY IdleJob DEF Answer

(* What a step may add to the history and takes from it.                   *)
LEMMA ExcuseFacts ==
    ASSUME Excuse
    PROVE  /\ \A s \in Session : s \in excused /\ session'[s] # NoSession => s \in excused'
           /\ \A r \in Req : r \in excused /\ req'[r].op = "login" => r \in excused'
           /\ \A r \in Req : faults' # faults /\ Clearing(r) /\ req'[r] = Idle =>
                 \A s \in Session : session'[s] # NoSession => s \in excused'
           /\ \A r \in Req : r \in excused /\ req'[r] = Idle =>
                 \A s \in Opened : s \in excused'
           /\ \A r \in Req : Outdated(r) /\ req'[r].op = "login" => r \in excused'
  <1> DEFINE passed == UNION {Verified(u) : u \in {v \in User : password'[v] # password[v]}}
             missed == IF /\ faults' # faults
                          /\ \E r \in Req : At(r, "reset", "clear") /\ req'[r] = Idle
                       THEN {s \in Session : session'[s] # NoSession} ELSE {}
             opened == IF \E r \in excused \cap Req : req'[r] = Idle THEN Opened ELSE {}
  <1>1. excused' = {x \in excused \cup passed \cup missed \cup opened :
                      \/ x \in Session /\ session'[x] # NoSession
                      \/ x \in Req /\ req'[x].op = "login"}
    BY DEF Excuse
  <1>2. \A r \in Req : Outdated(r) => r \in passed
    BY DEF Verified, Outdated
  <1>3. \A r \in Req : faults' # faults /\ Clearing(r) /\ req'[r] = Idle =>
                 \A s \in Session : session'[s] # NoSession => s \in missed
    BY DEF Clearing
  <1>4. \A r \in Req : r \in excused /\ req'[r] = Idle => \A s \in Opened : s \in opened
    OBVIOUS
  <1>5. \A s \in Opened : s \in Session /\ session'[s] # NoSession
    BY DEF Opened
  <1> HIDE DEF passed, missed, opened
  <1>6. \A s \in Session :
           session'[s] # NoSession /\ (s \in excused \/ s \in missed \/ s \in opened)
           => s \in excused'
    BY <1>1
  <1>7. \A r \in Req : req'[r].op = "login" /\ (r \in excused \/ r \in passed)
                      => r \in excused'
    BY <1>1
  <1>8. \A r \in Req : r \in excused /\ req'[r] = Idle => \A s \in Opened : s \in excused'
    BY <1>4, <1>5, <1>6
  <1>9. \A r \in Req : faults' # faults /\ Clearing(r) /\ req'[r] = Idle =>
                 \A s \in Session : session'[s] # NoSession => s \in excused'
    BY <1>3, <1>6
  <1>10. \A r \in Req : Outdated(r) /\ req'[r].op = "login" => r \in excused'
    BY <1>2, <1>7
  <1> QED BY <1>6, <1>7, <1>8, <1>9, <1>10

(* Nobody opens a session or changes a password, and a reset leaves before *)
(* it has cleared the sessions only by a fault.                            *)
LEMMA SessionsKept ==
    ASSUME TypeOK, SessionsCovered, Excuse, password' = password,
           \A s \in Session : session'[s] \in {session[s], NoSession},
           \A r \in Req : Clearing(r) => \/ Clearing(r)' /\ req'[r].user = req[r].user
                                         \/ faults' # faults /\ req'[r] = Idle
    PROVE  SessionsCovered'
  <1> SUFFICES ASSUME NEW s \in Session, session'[s].user # NoUser
               PROVE  Covered(s)'
    BY DEF SessionsCovered, Covered
  <1>1. session'[s] # NoSession /\ session'[s] = session[s]
    BY DEF NoSession
  <1>2. CASE s \in excused
    BY <1>1, <1>2, ExcuseFacts DEF Covered
  <1>3. CASE Pending(s)
    <2>1. PICK r \in Req : Clearing(r) /\ req[r].user = session[s].user
      BY <1>3 DEF Pending
    <2>2. CASE faults' # faults /\ req'[r] = Idle
      BY <1>1, <2>1, <2>2, ExcuseFacts DEF Covered
    <2>3. CASE Clearing(r)' /\ req'[r].user = req[r].user
      BY <1>1, <2>1, <2>3 DEF Pending, Covered
    <2> QED BY <2>1, <2>2, <2>3
  <1> QED BY <1>1, <1>2, <1>3 DEF SessionsCovered, Covered

(* A login that has verified a password had done so before, or finds it    *)
(* current.                                                                *)
LEMMA LoginsKept ==
    ASSUME LoginsCovered, Excuse, password' = password,
           \A r \in Req : At(r, "login", "insert")' =>
               \/ req'[r] = req[r]
               \/ req'[r].gen = password[req'[r].user]
    PROVE  LoginsCovered'
  BY ExcuseFacts DEF LoginsCovered, At

-----------------------------------------------------------------------------
(* The parts of the type, each by its name.                                *)
TablesOK == /\ status \in [User -> {"active", "banned", "gone"}]
            /\ password \in [User -> Gen] /\ email \in [User -> Email]
RowsOK == session \in [Session -> Open] /\ code \in [Code -> Row]
LimitsOK == tries \in [Ip -> 0 .. LOGIN_RATE] /\ fails \in [Ip -> Entry]
JobsOK == req \in [Req -> Job] /\ faults \in 0 .. MAX_FAULTS

LEMMA TypeParts ==
    /\ TypeOK <=> TablesOK /\ RowsOK /\ LimitsOK /\ JobsOK
    /\ TypeOK' <=> TablesOK' /\ RowsOK' /\ LimitsOK' /\ JobsOK'
  <1>1. TypeOK <=> TablesOK /\ RowsOK /\ LimitsOK /\ JobsOK
    BY DEF TypeOK, TablesOK, RowsOK, LimitsOK, JobsOK, Open, Row, Entry, Job
  <1>2. TypeOK' <=> TablesOK' /\ RowsOK' /\ LimitsOK' /\ JobsOK'
    BY DEF TypeOK, TablesOK, RowsOK, LimitsOK, JobsOK, Open, Row, Entry, Job
  <1> QED BY <1>1, <1>2

LEMMA EmptyRows == NoSession \in Open /\ NoEntry \in Entry /\ NoRow \in Row
  BY AccountConstants DEF NoSession, Open, NoEntry, Entry, NoRow, Row, Gen

(* A failed statement counts among the faults.                             *)
LEMMA SpendFacts ==
    ASSUME faults \in 0 .. MAX_FAULTS, NEW ok \in Works, Spend(ok)
    PROVE  ok \in BOOLEAN /\ faults' \in 0 .. MAX_FAULTS /\ (~ok => faults' # faults)
  <1>1. CASE ok = TRUE
    BY <1>1 DEF Spend
  <1>2. CASE ok = FALSE
    <2>1. faults < MAX_FAULTS
      BY <1>2 DEF Works
    <2>2. faults' = faults + 1
      BY <1>2 DEF Spend
    <2>3. faults' \in 0 .. MAX_FAULTS /\ faults' # faults
      BY <2>1, <2>2, AccountConstants
    <2> QED BY <1>2, <2>3
  <1>3. ok \in BOOLEAN
    BY DEF Works
  <1> QED BY <1>1, <1>2, <1>3

(* A code changes its state only.                                          *)
LEMMA CodeFacts ==
    ASSUME code \in [Code -> Row], NEW c, NEW st \in {"used", "gone"}
    PROVE  /\ [code EXCEPT ![c].state = st] \in [Code -> Row]
           /\ \A d \in Code : /\ [code EXCEPT ![c].state = st][d].purpose = code[d].purpose
                              /\ [code EXCEPT ![c].state = st][d].email = code[d].email
  <1>1. CASE c \notin Code
    <2>1. [code EXCEPT ![c].state = st] = code
      BY <1>1
    <2> QED BY <2>1
  <1>2. CASE c \in Code
    <2> DEFINE j == [code[c] EXCEPT !.state = st]
    <2>1. code[c] \in Row
      BY <1>2
    <2>2. j \in Row /\ j.email = code[c].email /\ j.purpose = code[c].purpose
      BY <2>1 DEF Row
    <2>3. [code EXCEPT ![c].state = st] = [code EXCEPT ![c] = j]
      OBVIOUS
    <2> HIDE DEF j
    <2> QED BY <1>2, <2>2, <2>3
  <1> QED BY <1>1, <1>2

(* A login failure is counted up to the limit, which locks.                *)
LEMMA RecordedTyped ==
    ASSUME fails \in [Ip -> Entry], NEW i \in Ip
    PROVE  Recorded(fails, i) \in [Ip -> Entry]
  <1> DEFINE f == Retained(fails)
             n == IF f[i].count < MAX_LOGIN_FAILS THEN f[i].count + 1 ELSE f[i].count
             b == f[i].count + 1 >= MAX_LOGIN_FAILS
  <1>1. f \in [Ip -> Entry]
    BY EmptyRows DEF Retained
  <1>2. f[i] \in Entry /\ f[i].count \in 0 .. MAX_LOGIN_FAILS
    BY <1>1 DEF Entry
  <1>3. n \in 0 .. MAX_LOGIN_FAILS /\ b \in BOOLEAN
    BY <1>2, AccountConstants
  <1>4. Recorded(fails, i) = [f EXCEPT ![i].count = n, ![i].locked = b]
    BY <1>1 DEF Recorded
  <1> HIDE DEF n, b, f
  <1>5. [f[i] EXCEPT !.count = n, !.locked = b] \in Entry
    BY <1>2, <1>3 DEF Entry
  <1>6. [f EXCEPT ![i].count = n, ![i].locked = b]
        = [f EXCEPT ![i] = [f[i] EXCEPT !.count = n, !.locked = b]]
    BY <1>1
  <1> QED BY <1>1, <1>4, <1>5, <1>6

(* Every action keeps the types: first the handlers.                       *)
LEMMA LoginTypes ==
    ASSUME TypeOK, NEW r \in Req, NEW i \in Ip, NEW u \in User, NEW g \in Gen,
           Login(r, i, u, g)
    PROVE  /\ TypeOK'
           /\ req' = req \/ (req'[r].at = "lookup" /\ req'[r].user = u /\ req'[r].ip = i)
           /\ \A q \in Req \ {r} : req'[q] = req[q]
  <1> DEFINE j == [Idle EXCEPT !.op = "login", !.at = "lookup",
                               !.user = u, !.gen = g, !.ip = i]
  <1>1. j \in Job /\ j.at = "lookup" /\ j.user = u /\ j.ip = i
    BY DEF Idle, Job
  <1>2. tries' \in [Ip -> 0 .. LOGIN_RATE]
    BY TypeParts, AccountConstants DEF LimitsOK, Login
  <1>3. req' = req \/ req' = [req EXCEPT ![r] = j]
    BY DEF Login
  <1> HIDE DEF j
  <1>4. req' \in [Req -> Job] /\ (req' = req \/ req'[r] = j)
    BY <1>1, <1>3, TypeParts DEF JobsOK
  <1>6. JobsOK'
    BY <1>4, TypeParts DEF Login, JobsOK
  <1>5. \A q \in Req \ {r} : req'[q] = req[q]
    BY <1>3, TypeParts DEF JobsOK
  <1> QED BY <1>1, <1>2, <1>4, <1>5, <1>6, TypeParts DEF Login, TablesOK, RowsOK, LimitsOK

LEMMA LookupTypes ==
    ASSUME TypeOK, NEW r \in Req, req[r].op = "login" => req[r].ip \in Ip, Lookup(r)
    PROVE  TypeOK'
  <1>1. PICK ok \in Works : Spend(ok)
    BY DEF Lookup
  <1>2. JobsOK'
    BY <1>1, TypeParts, SpendFacts, GotoFacts, AnswerFacts DEF JobsOK, Lookup, Pc
  <1>3. LimitsOK'
    <2>1. [fails EXCEPT ![req[r].ip] = NoEntry] \in [Ip -> Entry]
      BY TypeParts, EmptyRows DEF LimitsOK
    <2>2. Recorded(fails, req[r].ip) \in [Ip -> Entry]
      BY TypeParts, RecordedTyped DEF LimitsOK, Lookup, At
    <2> QED BY <2>1, <2>2, TypeParts DEF LimitsOK, Lookup
  <1> QED BY <1>2, <1>3, TypeParts DEF Lookup, TablesOK, RowsOK

(* A handler begins with the code of a mail.                               *)
LEMMA BeginFacts ==
    ASSUME TypeOK, CodesAddressed, NEW r \in Req, NEW c \in Code,
           Reset(r, c) \/ \E u \in User : ChangeEmail(r, c, u)
    PROVE  /\ TypeOK'
           /\ req'[r].op = "reset" \/ (req'[r].op = "email" /\ req'[r].email \in Email)
           /\ req'[r].at = "code"
           /\ \A q \in Req \ {r} : req'[q] = req[q]
  <1>1. code[c].email \in Email \cup {NoEmail}
    BY TypeParts DEF RowsOK, Row
  <1>2. CASE Reset(r, c)
    <2> DEFINE j == [Idle EXCEPT !.op = "reset", !.at = "code",
                                 !.code = c, !.email = code[c].email]
    <2>1. j \in Job /\ j.op = "reset" /\ j.at = "code"
      BY <1>1, IdleJob DEF Idle, Job
    <2>2. req' = [req EXCEPT ![r] = j] /\ UNCHANGED faults
      BY <1>2 DEF Reset
    <2> HIDE DEF j
    <2>3. JobsOK' /\ req'[r] = j /\ \A q \in Req \ {r} : req'[q] = req[q]
      BY <2>1, <2>2, TypeParts DEF JobsOK
    <2> QED BY <1>2, <2>1, <2>3, TypeParts DEF Reset, TablesOK, RowsOK, LimitsOK
  <1>3. ASSUME NEW u \in User, ChangeEmail(r, c, u)
        PROVE  /\ TypeOK' /\ req'[r].op = "email" /\ req'[r].email \in Email
               /\ req'[r].at = "code" /\ \A q \in Req \ {r} : req'[q] = req[q]
    <2> DEFINE j == [Idle EXCEPT !.op = "email", !.at = "code", !.user = u,
                                 !.code = c, !.email = code[c].email]
    <2>1. code[c].email \in Email
      BY <1>3 DEF CodesAddressed, ChangeEmail
    <2>2. j \in Job /\ j.op = "email" /\ j.email \in Email /\ j.at = "code"
      BY <2>1, IdleJob DEF Idle, Job
    <2>3. req' = [req EXCEPT ![r] = j] /\ UNCHANGED faults
      BY <1>3 DEF ChangeEmail
    <2> HIDE DEF j
    <2>4. JobsOK' /\ req'[r] = j /\ \A q \in Req \ {r} : req'[q] = req[q]
      BY <2>2, <2>3, TypeParts DEF JobsOK
    <2> QED BY <1>3, <2>2, <2>4, TypeParts DEF ChangeEmail, TablesOK, RowsOK, LimitsOK
  <1> QED BY <1>2, <1>3

LEMMA OpenTypes ==
    ASSUME TypeOK, NEW r \in Req, req[r].user \in User, OpenSession(r)
    PROVE  TypeOK'
  <1>1. PICK ok \in Works : Spend(ok)
    BY DEF OpenSession
  <1>2. JobsOK'
    BY <1>1, TypeParts, SpendFacts, AnswerFacts DEF JobsOK, OpenSession
  <1>3. session' \in [Session -> Open]
    <2>1. req[r].gen \in Gen
      BY TypeParts DEF JobsOK, Job
    <2>2. [user |-> req[r].user, gen |-> req[r].gen] \in Open
      BY <2>1 DEF Open
    <2> QED BY <2>2, TypeParts DEF OpenSession, Created, RowsOK
  <1> QED BY <1>2, <1>3, TypeParts DEF OpenSession, TablesOK, RowsOK, LimitsOK

LEMMA CodeTypes ==
    ASSUME TypeOK, CodesAddressed, NEW r \in Req, ReadCode(r) \/ SpendCode(r)
    PROVE  TypeOK' /\ CodesAddressed'
  <1>1. CASE ReadCode(r)
    <2>1. PICK ok \in Works : Spend(ok)
      BY <1>1 DEF ReadCode
    <2>2. JobsOK'
      BY <1>1, <2>1, TypeParts, SpendFacts, GotoFacts, AnswerFacts DEF JobsOK, ReadCode, Pc
    <2> QED BY <1>1, <2>2, TypeParts DEF ReadCode, CodesAddressed, TablesOK, RowsOK, LimitsOK
  <1>2. CASE SpendCode(r)
    <2>1. PICK ok \in Works : Spend(ok)
      BY <1>2 DEF SpendCode
    <2>2. JobsOK'
      BY <1>2, <2>1, TypeParts, SpendFacts, GotoFacts DEF JobsOK, SpendCode, Pc
    <2> DEFINE c == req[r].code
               marked == [code EXCEPT ![c].state = "used"]
    <2>3. code' = code \/ code' = marked
      BY <1>2 DEF SpendCode
    <2>4. /\ marked \in [Code -> Row]
          /\ \A d \in Code : marked[d].purpose = code[d].purpose /\ marked[d].email = code[d].email
      <3> HIDE DEF c
      <3> QED BY TypeParts, CodeFacts DEF RowsOK
    <2> HIDE DEF marked
    <2>5. code' \in [Code -> Row] /\ CodesAddressed'
      BY <2>3, <2>4, TypeParts DEF RowsOK, CodesAddressed
    <2> QED BY <1>2, <2>2, <2>5, TypeParts DEF SpendCode, TablesOK, RowsOK, LimitsOK
  <1> QED BY <1>1, <1>2

LEMMA ResetTypes ==
    ASSUME TypeOK, Named, NEW r \in Req,
           FindUser(r) \/ SetPassword(r) \/ ClearSessions(r) \/ SetEmail(r)
    PROVE  TypeOK'
  <1>1. CASE FindUser(r)
    <2>1. PICK ok \in Works : Spend(ok)
      BY <1>1 DEF FindUser
    <2>2. JobsOK'
      BY <1>1, <2>1, TypeParts, SpendFacts, FoundFacts, AnswerFacts DEF JobsOK, FindUser
    <2> QED BY <1>1, <2>2, TypeParts DEF FindUser, TablesOK, RowsOK, LimitsOK
  <1>2. CASE SetPassword(r)
    <2>1. PICK ok \in Works : Spend(ok)
      BY <1>2 DEF SetPassword
    <2>2. JobsOK'
      BY <1>2, <2>1, TypeParts, SpendFacts, GotoFacts DEF JobsOK, SetPassword, Pc
    <2>3. password' \in [User -> Gen]
      <3> DEFINE u == req[r].user
      <3>1. password \in [User -> Gen] /\ password[u] < MAX_GEN
        BY <1>2, TypeParts DEF SetPassword, TablesOK
      <3>2. u \in User => password[u] + 1 \in Gen
        BY <3>1, AccountConstants DEF Gen
      <3>3. password' = password \/ password' = [password EXCEPT ![u] = password[u] + 1]
        BY <1>2 DEF SetPassword
      <3> QED BY <3>1, <3>2, <3>3
    <2> QED BY <1>2, <2>2, <2>3, TypeParts DEF SetPassword, TablesOK, RowsOK, LimitsOK
  <1>3. CASE ClearSessions(r)
    <2>1. PICK ok \in Works : Spend(ok)
      BY <1>3 DEF ClearSessions
    <2>2. JobsOK'
      BY <1>3, <2>1, TypeParts, SpendFacts, AnswerFacts DEF JobsOK, ClearSessions
    <2>3. session' \in [Session -> Open]
      BY <1>3, TypeParts, EmptyRows DEF ClearSessions, RowsOK
    <2> QED BY <1>3, <2>2, <2>3, TypeParts DEF ClearSessions, TablesOK, RowsOK, LimitsOK
  <1>4. CASE SetEmail(r)
    <2>1. PICK ok \in Works : Spend(ok)
      BY <1>4 DEF SetEmail
    <2>2. JobsOK'
      BY <1>4, <2>1, TypeParts, SpendFacts, AnswerFacts DEF JobsOK, SetEmail
    <2>3. email' \in [User -> Email]
      <3>1. CASE email' = email
        BY <3>1, TypeParts DEF TablesOK
      <3>2. CASE email' = [email EXCEPT ![req[r].user] = req[r].email]
        <4>1. req[r].email \in Email
          BY <1>4 DEF SetEmail, At, Named
        <4> QED BY <3>2, <4>1, TypeParts DEF TablesOK
      <3> QED BY <1>4, <3>1, <3>2 DEF SetEmail
    <2> QED BY <1>4, <2>2, <2>3, TypeParts DEF SetEmail, TablesOK, RowsOK, LimitsOK
  <1> QED BY <1>1, <1>2, <1>3, <1>4

(* Then what happens around the handlers.                                  *)
LEMMA EnvironmentTypes ==
    ASSUME TypeOK, CodesAddressed, Environment
    PROVE  /\ TypeOK' /\ CodesAddressed'
           /\ UNCHANGED <<password, req, faults>>
           /\ \A s \in Session : session'[s] \in {session[s], NoSession}
  <1>1. ASSUME NEW c \in Code, NEW e \in Email, NEW p \in {"reset_password", "change_email"},
               SendCode(c, e, p)
        PROVE  TypeOK' /\ CodesAddressed' /\ UNCHANGED <<password, req, faults, session>>
    <2> DEFINE row == [state |-> "valid", email |-> e, purpose |-> p]
    <2>1. row \in Row /\ row.email \in Email
      BY DEF Row
    <2>2. code' = [code EXCEPT ![c] = row]
      BY <1>1 DEF SendCode
    <2> HIDE DEF row
    <2>3. code' \in [Code -> Row] /\ CodesAddressed'
      BY <2>1, <2>2, TypeParts DEF RowsOK, CodesAddressed
    <2> QED BY <1>1, <2>3, TypeParts DEF SendCode, TablesOK, RowsOK, LimitsOK, JobsOK
  <1>2. ASSUME NEW c \in Code, CodeExpires(c)
        PROVE  TypeOK' /\ CodesAddressed' /\ UNCHANGED <<password, req, faults, session>>
    <2>1. code' \in [Code -> Row] /\ CodesAddressed'
      BY <1>2, TypeParts, CodeFacts DEF CodeExpires, RowsOK, CodesAddressed
    <2> QED BY <1>2, <2>1, TypeParts DEF CodeExpires, TablesOK, RowsOK, LimitsOK, JobsOK
  <1>3. ASSUME NEW s \in Session, CloseSession(s)
        PROVE  /\ TypeOK' /\ CodesAddressed' /\ UNCHANGED <<password, req, faults>>
               /\ \A t \in Session : session'[t] \in {session[t], NoSession}
    <2>1. session' = [session EXCEPT ![s] = NoSession]
      BY <1>3 DEF CloseSession, Deleted
    <2>2. /\ session' \in [Session -> Open]
          /\ \A t \in Session : session'[t] \in {session[t], NoSession}
      BY <2>1, TypeParts, EmptyRows DEF RowsOK
    <2> QED BY <1>3, <2>2, TypeParts
            DEF CloseSession, CodesAddressed, TablesOK, RowsOK, LimitsOK, JobsOK
  <1>4. ASSUME NEW u \in User, Ban(u)
        PROVE  TypeOK' /\ CodesAddressed' /\ UNCHANGED <<password, req, faults, session>>
    <2>1. status' \in [User -> {"active", "banned", "gone"}]
      BY <1>4, TypeParts DEF Ban, TablesOK
    <2> QED BY <1>4, <2>1, TypeParts
            DEF Ban, CodesAddressed, TablesOK, RowsOK, LimitsOK, JobsOK
  <1>5. ASSUME NEW u \in User, NEW closing \in BOOLEAN, RemoveUser(u, closing)
        PROVE  /\ TypeOK' /\ CodesAddressed' /\ UNCHANGED <<password, req, faults>>
               /\ \A t \in Session : session'[t] \in {session[t], NoSession}
    <2>1. status' \in [User -> {"active", "banned", "gone"}]
      BY <1>5, TypeParts DEF RemoveUser, TablesOK
    <2>2. /\ session' \in [Session -> Open]
          /\ \A t \in Session : session'[t] \in {session[t], NoSession}
      BY <1>5, TypeParts, EmptyRows DEF RemoveUser, RowsOK
    <2>3. \A c \in Code : LET j == [code[c] EXCEPT !.state = "gone"] IN
              j \in Row /\ j.email = code[c].email /\ j.purpose = code[c].purpose
      BY TypeParts DEF RowsOK, Row
    <2>4. /\ code' \in [Code -> Row]
          /\ \A c \in Code : code'[c].email = code[c].email /\ code'[c].purpose = code[c].purpose
      BY <1>5, <2>3, TypeParts DEF RemoveUser, RowsOK
    <2> QED BY <1>5, <2>1, <2>2, <2>4, TypeParts
            DEF RemoveUser, CodesAddressed, TablesOK, RowsOK, LimitsOK, JobsOK
  <1>6. ASSUME NEW i \in Ip, WindowSlides(i)
        PROVE  TypeOK' /\ CodesAddressed' /\ UNCHANGED <<password, req, faults, session>>
    <2>1. tries' \in [Ip -> 0 .. LOGIN_RATE]
      BY <1>6, TypeParts, AccountConstants DEF WindowSlides, LimitsOK
    <2> QED BY <1>6, <2>1, TypeParts
            DEF WindowSlides, CodesAddressed, TablesOK, RowsOK, LimitsOK, JobsOK
  <1>7. ASSUME NEW i \in Ip, LockEnds(i)
        PROVE  TypeOK' /\ CodesAddressed' /\ UNCHANGED <<password, req, faults, session>>
    <2>1. fails' \in [Ip -> Entry]
      BY <1>7, TypeParts, EmptyRows DEF LockEnds, LimitsOK
    <2> QED BY <1>7, <2>1, TypeParts
            DEF LockEnds, CodesAddressed, TablesOK, RowsOK, LimitsOK, JobsOK
  <1> QED BY <1>1, <1>2, <1>3, <1>4, <1>5, <1>6, <1>7 DEF Environment

(* A handler is dropped, or all are in a restart.                          *)
LEMMA LossTypes ==
    ASSUME TypeOK, Restart \/ \E r \in Req : Abandon(r)
    PROVE  /\ TypeOK' /\ faults' # faults
           /\ \A r \in Req : req'[r] \in {req[r], Idle}
           /\ UNCHANGED <<password, session, code>>
  <1>1. faults' = faults + 1 /\ faults < MAX_FAULTS /\ UNCHANGED <<password, session, code>>
    BY DEF Restart, Abandon
  <1>2. faults' \in 0 .. MAX_FAULTS /\ faults' # faults
    BY <1>1, TypeParts, AccountConstants DEF JobsOK
  <1>3. CASE Restart
    <2>1. req' \in [Req -> Job] /\ \A r \in Req : req'[r] \in {req[r], Idle}
      BY <1>3, IdleJob DEF Restart
    <2>2. LimitsOK'
      BY <1>3, EmptyRows, AccountConstants DEF Restart, LimitsOK
    <2> QED BY <1>1, <1>2, <1>3, <2>1, <2>2, TypeParts DEF Restart, TablesOK, RowsOK, JobsOK
  <1>4. ASSUME NEW r \in Req, Abandon(r)
        PROVE  TypeOK' /\ \A q \in Req : req'[q] \in {req[q], Idle}
    <2>1. req' \in [Req -> Job] /\ \A q \in Req : req'[q] \in {req[q], Idle}
      BY <1>4, AnswerFacts, TypeParts DEF Abandon, JobsOK
    <2> QED BY <1>1, <1>2, <1>4, <2>1, TypeParts DEF Abandon, TablesOK, RowsOK, LimitsOK, JobsOK
  <1> QED BY <1>1, <1>2, <1>3, <1>4

-----------------------------------------------------------------------------
(* Most steps are quiet: they change no password, open no session, and     *)
(* what becomes of each request harms neither part.                        *)
Tame(q) ==
    /\ Clearing(q) => \/ Clearing(q)' /\ req'[q].user = req[q].user
                      \/ faults' # faults /\ req'[q] = Idle
    /\ At(q, "login", "insert")' => req'[q] = req[q] \/ req'[q].gen = password[req'[q].user]
    /\ req'[q].op = "login" => req'[q].user \in User /\ req'[q].ip \in Ip
    /\ req'[q].op = "email" => req'[q].email \in Email

LEMMA Quiet ==
    ASSUME IInv, TypeOK', CodesAddressed', Excuse, password' = password,
           \A s \in Session : session'[s] \in {session[s], NoSession},
           \A q \in Req : Tame(q)
    PROVE  IInv'
  <1>1. SessionsCovered'
    BY SessionsKept DEF IInv, Tame
  <1>2. LoginsCovered'
    BY LoginsKept DEF IInv, Tame
  <1>3. Named'
    BY DEF Named, Tame
  <1> QED BY <1>1, <1>2, <1>3 DEF IInv

(* A request that stays as it is, or ends at another place than before the *)
(* clearing statement, is tame.                                            *)
LEMMA StaysTame ==
    ASSUME IInv, NEW q \in Req, req'[q] = req[q]
    PROVE  Tame(q)
  BY DEF IInv, Tame, Named, Clearing, At

LEMMA AnswerTame ==
    ASSUME IInv, NEW q \in Req, ~Clearing(q), req'[q] = Idle
    PROVE  Tame(q)
  BY IdleJob DEF Tame, At

LEMMA LossTame ==
    ASSUME IInv, NEW q \in Req, faults' # faults, req'[q] = Idle
    PROVE  Tame(q)
  BY IdleJob DEF Tame, At

LEMMA GotoTame ==
    ASSUME IInv, NEW q \in Req, ~Clearing(q), NEW pc \in Pc, Goto(q, pc),
           pc = "insert" => req[q].gen = password[req[q].user]
    PROVE  Tame(q)
  <1>1. req \in [Req -> Job]
    BY TypeParts DEF IInv, JobsOK
  <1>2. /\ req'[q].at = pc /\ req'[q].op = req[q].op
        /\ req'[q].user = req[q].user /\ req'[q].gen = req[q].gen
        /\ req'[q].ip = req[q].ip /\ req'[q].email = req[q].email
    BY <1>1, GotoFacts
  <1> QED BY <1>2 DEF Tame, IInv, Named, At

(* A request that moves or is answered leaves the others alone.            *)
LEMMA OthersTame ==
    ASSUME IInv, NEW r \in Req, Answer(r) \/ \E pc \in Pc : Goto(r, pc)
    PROVE  \A q \in Req \ {r} : Tame(q)
  <1>1. req \in [Req -> Job]
    BY TypeParts DEF IInv, JobsOK
  <1> QED BY <1>1, AnswerFacts, GotoFacts, StaysTame

-----------------------------------------------------------------------------
(* The steps, one by one.                                                  *)
LEMMA LoginStep ==
    ASSUME IInv, Excuse, NEW r \in Req, NEW i \in Ip, NEW u \in User, NEW g \in Gen,
           Login(r, i, u, g)
    PROVE  IInv'
  <1>1. /\ TypeOK'
        /\ req' = req \/ (req'[r].at = "lookup" /\ req'[r].user = u /\ req'[r].ip = i)
        /\ \A q \in Req \ {r} : req'[q] = req[q]
    BY LoginTypes DEF IInv
  <1>2. UNCHANGED <<password, session, code>>
    BY DEF Login
  <1>3. ~Clearing(r)
    BY IdleJob DEF Login, Clearing, At
  <1>4. req' = req \/ req'[r].op = "login"
    <2>1. CASE req' = [req EXCEPT ![r] = [Idle EXCEPT !.op = "login", !.at = "lookup",
                                                   !.user = u, !.gen = g, !.ip = i]]
      BY <2>1, TypeParts DEF Idle, IInv, JobsOK
    <2> QED BY <2>1 DEF Login
  <1>5. Tame(r)
    BY <1>1, <1>3, <1>4, StaysTame DEF Tame, At
  <1>6. \A q \in Req : Tame(q)
    BY <1>1, <1>5, StaysTame
  <1>7. CodesAddressed'
    BY <1>2 DEF IInv, CodesAddressed
  <1> QED BY <1>1, <1>2, <1>6, <1>7, Quiet

LEMMA BeginStep ==
    ASSUME IInv, Excuse, NEW r \in Req, NEW c \in Code,
           Reset(r, c) \/ \E u \in User : ChangeEmail(r, c, u)
    PROVE  IInv'
  <1>1. /\ TypeOK'
        /\ req'[r].op = "reset" \/ (req'[r].op = "email" /\ req'[r].email \in Email)
        /\ req'[r].at = "code"
        /\ \A q \in Req \ {r} : req'[q] = req[q]
    BY BeginFacts DEF IInv
  <1>2. UNCHANGED <<password, session, code>>
    BY DEF Reset, ChangeEmail
  <1>3. ~Clearing(r)
    BY IdleJob DEF Reset, ChangeEmail, Clearing, At
  <1>4. Tame(r)
    BY <1>1, <1>3 DEF Tame, At
  <1>5. \A q \in Req : Tame(q)
    BY <1>1, <1>4, StaysTame
  <1>6. CodesAddressed'
    BY <1>2 DEF IInv, CodesAddressed
  <1> QED BY <1>1, <1>2, <1>5, <1>6, Quiet

LEMMA LookupStep ==
    ASSUME IInv, Excuse, NEW r \in Req, Lookup(r)
    PROVE  IInv'
  <1>1. TypeOK'
    BY LookupTypes DEF IInv, Named
  <1>2. UNCHANGED <<password, session, code>> /\ ~Clearing(r)
    BY DEF Lookup, Clearing, At
  <1>3. Answer(r) \/ (Goto(r, "insert") /\ req[r].gen = password[req[r].user])
    BY DEF Lookup
  <1>4. Tame(r)
    <2>1. CASE Answer(r)
      BY <1>2, <2>1, AnswerTame, AnswerFacts, TypeParts DEF IInv, JobsOK
    <2>2. CASE Goto(r, "insert") /\ req[r].gen = password[req[r].user]
      BY <1>2, <2>2, GotoTame DEF Pc
    <2> QED BY <1>3, <2>1, <2>2
  <1>5. \A q \in Req : Tame(q)
    BY <1>3, <1>4, OthersTame DEF Pc
  <1>6. CodesAddressed'
    BY <1>2 DEF IInv, CodesAddressed
  <1> QED BY <1>1, <1>2, <1>5, <1>6, Quiet

(* A new session has the password its login verified.                      *)
LEMMA OpenStep ==
    ASSUME IInv, Excuse, NEW r \in Req, OpenSession(r)
    PROVE  IInv'
  <1>1. At(r, "login", "insert") /\ req[r].user \in User /\ Answer(r)
    BY DEF OpenSession, IInv, Named, At
  <1>2. TypeOK'
    BY <1>1, OpenTypes DEF IInv
  <1>3. UNCHANGED <<password, code>> /\ ~Clearing(r)
    BY <1>1 DEF OpenSession, Clearing, At
  <1>4. req'[r] = Idle
    BY <1>1, AnswerFacts, TypeParts DEF IInv, JobsOK
  <1>5. \A q \in Req : Tame(q)
    BY <1>1, <1>3, <1>4, AnswerTame, OthersTame
  <1>6. LoginsCovered'
    BY <1>3, <1>5, LoginsKept DEF IInv, Tame
  <1>7. SessionsCovered'
    <2> SUFFICES ASSUME NEW s \in Session
                 PROVE  Covered(s)'
      BY DEF SessionsCovered
    <2>1. CASE session'[s] = session[s]
      <3>1. CASE Pending(s)
        <4>1. PICK q \in Req : Clearing(q) /\ req[q].user = session[s].user
          BY <3>1 DEF Pending
        <4>2. q # r
          BY <1>3, <4>1
        <4>3. req'[q] = req[q]
          BY <1>1, <4>2, AnswerFacts, TypeParts DEF IInv, JobsOK
        <4> QED BY <2>1, <4>1, <4>3 DEF Covered, Pending, Clearing, At
      <3>2. CASE s \in excused /\ session[s].user # NoUser
        BY <2>1, <3>2, ExcuseFacts DEF Covered, NoSession
      <3> QED BY <1>3, <2>1, <3>1, <3>2 DEF IInv, SessionsCovered, Covered
    <2>2. CASE session'[s] # session[s]
      <3>1. PICK t \in Session : /\ session[t] = NoSession
                                 /\ session' = session \/ session' =
                                      [session EXCEPT ![t] = [user |-> req[r].user,
                                                              gen |-> req[r].gen]]
        BY DEF OpenSession, Created
      <3>2. s = t /\ session'[s] = [user |-> req[r].user, gen |-> req[r].gen]
        BY <2>2, <3>1, TypeParts DEF IInv, RowsOK
      <3>3. session[s] = NoSession /\ session'[s].user = req[r].user
          /\ session'[s].gen = req[r].gen
        BY <3>1, <3>2
      <3>4. session'[s] # NoSession
        BY <1>1, <3>3, AccountConstants DEF NoSession
      <3>5. s \in Opened
        BY <3>3, <3>4 DEF Opened
      <3>6. CASE r \in excused
        BY <1>4, <3>5, <3>6, ExcuseFacts DEF Covered
      <3>7. CASE req[r].gen = password[req[r].user]
        BY <1>3, <3>3, <3>7 DEF Covered
      <3> QED BY <1>1, <3>6, <3>7 DEF IInv, LoginsCovered
    <2> QED BY <2>1, <2>2
  <1>8. CodesAddressed' /\ Named'
    BY <1>3, <1>5 DEF IInv, CodesAddressed, Named, Tame
  <1> QED BY <1>2, <1>6, <1>7, <1>8 DEF IInv

LEMMA CodeStep ==
    ASSUME IInv, Excuse, NEW r \in Req, ReadCode(r) \/ SpendCode(r)
    PROVE  IInv'
  <1>1. TypeOK' /\ CodesAddressed'
    BY CodeTypes DEF IInv
  <1>2. UNCHANGED <<password, session>> /\ ~Clearing(r)
    BY DEF ReadCode, SpendCode, Clearing, At
  <1>3. Answer(r) \/ \E pc \in Pc \ {"insert"} : Goto(r, pc)
    BY DEF ReadCode, SpendCode, Pc
  <1>4. Tame(r)
    <2>1. CASE Answer(r)
      BY <1>2, <2>1, AnswerTame, AnswerFacts, TypeParts DEF IInv, JobsOK
    <2>2. ASSUME NEW pc \in Pc \ {"insert"}, Goto(r, pc)
          PROVE  Tame(r)
      BY <1>2, <2>2, GotoTame
    <2> QED BY <1>3, <2>1, <2>2
  <1>5. \A q \in Req : Tame(q)
    BY <1>3, <1>4, OthersTame
  <1> QED BY <1>1, <1>2, <1>5, Quiet

LEMMA FindStep ==
    ASSUME IInv, Excuse, NEW r \in Req, FindUser(r)
    PROVE  IInv'
  <1>1. TypeOK'
    BY ResetTypes DEF IInv
  <1>2. UNCHANGED <<password, session, code>> /\ At(r, "reset", "find") /\ ~Clearing(r)
    BY DEF FindUser, Clearing, At
  <1>3. Answer(r) \/ \E u \in User : req' = [req EXCEPT ![r].user = u, ![r].at = "set"]
    BY DEF FindUser
  <1>4. CodesAddressed'
    BY <1>2 DEF IInv, CodesAddressed
  <1>5. CASE Answer(r)
    <2>1. Tame(r)
      BY <1>2, <1>5, AnswerTame, AnswerFacts, TypeParts DEF IInv, JobsOK
    <2>2. \A q \in Req : Tame(q)
      BY <1>5, <2>1, OthersTame
    <2> QED BY <1>1, <1>2, <1>4, <2>2, Quiet
  <1>6. ASSUME NEW u \in User, req' = [req EXCEPT ![r].user = u, ![r].at = "set"]
        PROVE  IInv'
    <2>1. /\ \A q \in Req \ {r} : req'[q] = req[q]
          /\ req'[r].at = "set" /\ req'[r].op = req[r].op
      BY <1>6, FoundFacts, TypeParts DEF IInv, JobsOK
    <2>2. Tame(r)
      BY <1>2, <2>1 DEF Tame, At
    <2>3. \A q \in Req : Tame(q)
      BY <2>1, <2>2, StaysTame
    <2> QED BY <1>1, <1>2, <1>4, <2>3, Quiet
  <1> QED BY <1>3, <1>5, <1>6

(* The sessions of the old password wait for the statement on them; the    *)
(* logins that verified it are excused.                                    *)
LEMMA SetPasswordStep ==
    ASSUME IInv, Excuse, NEW r \in Req, SetPassword(r)
    PROVE  IInv'
  <1> DEFINE u == req[r].user
  <1>1. TypeOK'
    BY ResetTypes DEF IInv
  <1>2. UNCHANGED <<session, code>> /\ At(r, "reset", "set") /\ Goto(r, "clear")
    BY DEF SetPassword
  <1>3. /\ req'[r].at = "clear" /\ req'[r].op = "reset" /\ req'[r].user = u
        /\ \A q \in Req \ {r} : req'[q] = req[q]
    <2>1. req'[r].at = "clear" /\ req'[r].op = req[r].op /\ req'[r].user = u
      BY <1>2, GotoFacts, TypeParts DEF IInv, JobsOK, Pc
    <2>2. \A q \in Req \ {r} : req'[q] = req[q]
      BY <1>2, GotoFacts, TypeParts DEF IInv, JobsOK, Pc
    <2> QED BY <1>2, <2>1, <2>2 DEF At
  <1>4. \A v \in User : v # u => password'[v] = password[v]
    <2>1. password' = password \/ password' = [password EXCEPT ![u] = password[u] + 1]
      BY DEF SetPassword
    <2> QED BY <2>1, TypeParts DEF IInv, TablesOK
  <1>5. SessionsCovered'
    <2> SUFFICES ASSUME NEW s \in Session, session[s].user # NoUser
                 PROVE  Covered(s)'
      BY <1>2 DEF SessionsCovered, Covered
    <2>1. session[s].user \in User
      BY TypeParts DEF IInv, RowsOK, Open
    <2>2. CASE session[s].user = u
      BY <1>2, <1>3, <2>2 DEF Covered, Pending, Clearing, At
    <2>3. CASE s \in excused
      BY <1>2, <2>3, ExcuseFacts DEF Covered, NoSession
    <2>4. CASE Pending(s)
      <3>1. PICK q \in Req : Clearing(q) /\ req[q].user = session[s].user
        BY <2>4 DEF Pending
      <3>2. req'[q] = req[q]
        BY <1>2, <1>3, <3>1 DEF Clearing, At
      <3> QED BY <1>2, <3>1, <3>2 DEF Covered, Pending, Clearing, At
    <2>5. CASE session[s].gen = password[session[s].user] /\ session[s].user # u
      BY <1>2, <1>4, <2>1, <2>5 DEF Covered
    <2> QED BY <2>2, <2>3, <2>4, <2>5 DEF IInv, SessionsCovered, Covered
  <1>6. LoginsCovered'
    <2> SUFFICES ASSUME NEW q \in Req, At(q, "login", "insert")'
                 PROVE  req'[q].gen = password'[req'[q].user] \/ q \in excused'
      BY DEF LoginsCovered
    <2>1. req'[q] = req[q] /\ At(q, "login", "insert") /\ req'[q].op = "login"
      BY <1>3 DEF At
    <2>2. req[q].user \in User
      BY <2>1 DEF IInv, Named, At
    <2>3. CASE q \in excused
      BY <2>1, <2>3, ExcuseFacts
    <2>4. CASE password'[req[q].user] # password[req[q].user]
      BY <2>1, <2>2, <2>4, ExcuseFacts DEF Outdated
    <2> QED BY <2>1, <2>3, <2>4 DEF IInv, LoginsCovered
  <1>7. Named'
    BY <1>3 DEF IInv, Named
  <1>8. CodesAddressed'
    BY <1>2 DEF IInv, CodesAddressed
  <1> QED BY <1>1, <1>5, <1>6, <1>7, <1>8 DEF IInv

(* The statement removes the sessions, or its failure excuses them.        *)
LEMMA ClearStep ==
    ASSUME IInv, Excuse, NEW r \in Req, ClearSessions(r)
    PROVE  IInv'
  <1>1. TypeOK'
    BY ResetTypes DEF IInv
  <1>2. UNCHANGED <<password, code>> /\ Clearing(r) /\ Answer(r)
    BY DEF ClearSessions, Clearing
  <1>3. req'[r] = Idle /\ \A q \in Req \ {r} : req'[q] = req[q]
    BY <1>2, AnswerFacts, TypeParts DEF IInv, JobsOK
  <1>4. PICK ok \in Works :
           /\ Spend(ok)
           /\ session' = [s \in Session |-> IF ok /\ session[s].user = req[r].user
                                            THEN NoSession ELSE session[s]]
    BY DEF ClearSessions
  <1>5. ok \in BOOLEAN /\ (~ok => faults' # faults)
    BY <1>4, SpendFacts, TypeParts DEF IInv, JobsOK
  <1>6. CASE ~ok
    <2>1. Tame(r)
      BY <1>3, <1>5, <1>6, LossTame
    <2>2. \A q \in Req : Tame(q)
      BY <1>3, <2>1, StaysTame
    <2>3. \A s \in Session : session'[s] \in {session[s], NoSession}
      BY <1>4
    <2>4. CodesAddressed'
      BY <1>2 DEF IInv, CodesAddressed
    <2> QED BY <1>1, <1>2, <2>2, <2>3, <2>4, Quiet
  <1>7. CASE ok
    <2>1. \A q \in Req : /\ At(q, "login", "insert")' => req'[q] = req[q]
                         /\ req'[q].op # "none" => req'[q] = req[q]
      BY <1>3, IdleJob DEF At
    <2>2. LoginsCovered'
      BY <1>2, <2>1, LoginsKept DEF IInv
    <2>3. Named'
      BY <2>1 DEF IInv, Named
    <2>4. CodesAddressed'
      BY <1>2 DEF IInv, CodesAddressed
    <2>5. SessionsCovered'
      <3> SUFFICES ASSUME NEW s \in Session, session'[s].user # NoUser
                   PROVE  Covered(s)'
        BY DEF SessionsCovered, Covered
      <3>1. session'[s] = session[s] /\ session[s].user # req[r].user /\ session'[s] # NoSession
        BY <1>4, <1>7 DEF NoSession
      <3>2. CASE Pending(s)
        <4>1. PICK q \in Req : Clearing(q) /\ req[q].user = session[s].user
          BY <3>2 DEF Pending
        <4>2. req'[q] = req[q]
          BY <1>3, <3>1, <4>1
        <4> QED BY <3>1, <4>1, <4>2 DEF Covered, Pending, Clearing, At
      <3>3. CASE s \in excused
        BY <3>1, <3>3, ExcuseFacts DEF Covered
      <3> QED BY <1>2, <3>1, <3>2, <3>3 DEF IInv, SessionsCovered, Covered
    <2> QED BY <1>1, <2>2, <2>3, <2>4, <2>5 DEF IInv
  <1> QED BY <1>5, <1>6, <1>7

LEMMA SetEmailStep ==
    ASSUME IInv, Excuse, NEW r \in Req, SetEmail(r)
    PROVE  IInv'
  <1>1. TypeOK'
    BY ResetTypes DEF IInv
  <1>2. UNCHANGED <<password, session, code>> /\ ~Clearing(r) /\ Answer(r)
    BY DEF SetEmail, Clearing, At
  <1>3. Tame(r)
    BY <1>2, AnswerTame, AnswerFacts, TypeParts DEF IInv, JobsOK
  <1>4. \A q \in Req : Tame(q)
    BY <1>2, <1>3, OthersTame
  <1>5. CodesAddressed'
    BY <1>2 DEF IInv, CodesAddressed
  <1> QED BY <1>1, <1>2, <1>4, <1>5, Quiet

LEMMA EnvironmentStep ==
    ASSUME IInv, Excuse, Environment
    PROVE  IInv'
  <1>1. /\ TypeOK' /\ CodesAddressed' /\ UNCHANGED <<password, req, faults>>
        /\ \A s \in Session : session'[s] \in {session[s], NoSession}
    BY EnvironmentTypes DEF IInv
  <1>2. \A q \in Req : Tame(q)
    BY <1>1, StaysTame
  <1> QED BY <1>1, <1>2, Quiet

LEMMA LossStep ==
    ASSUME IInv, Excuse, Restart \/ \E r \in Req : Abandon(r)
    PROVE  IInv'
  <1>1. /\ TypeOK' /\ faults' # faults /\ UNCHANGED <<password, session, code>>
        /\ \A q \in Req : req'[q] \in {req[q], Idle}
    BY LossTypes DEF IInv
  <1>2. \A q \in Req : Tame(q)
    BY <1>1, StaysTame, LossTame
  <1>3. CodesAddressed'
    BY <1>1 DEF IInv, CodesAddressed
  <1> QED BY <1>1, <1>2, <1>3, Quiet

-----------------------------------------------------------------------------
LEMMA Start == HInit => IInv
  <1> SUFFICES ASSUME HInit PROVE IInv
    OBVIOUS
  <1>1. 0 \in Gen
    BY AccountConstants DEF Gen
  <1>2. TablesOK /\ RowsOK
    BY <1>1, EmptyRows DEF HInit, Init, TablesOK, RowsOK
  <1>3. LimitsOK
    BY EmptyRows, AccountConstants DEF HInit, Init, LimitsOK
  <1>4. JobsOK
    BY IdleJob, AccountConstants DEF HInit, Init, JobsOK
  <1>5. TypeOK
    BY <1>2, <1>3, <1>4, TypeParts
  <1>6. Named /\ CodesAddressed
    BY IdleJob DEF HInit, Init, Named, CodesAddressed, NoRow
  <1>7. SessionsCovered
    BY DEF HInit, Init, SessionsCovered, Covered, NoSession
  <1>8. LoginsCovered
    BY IdleJob DEF HInit, Init, LoginsCovered, At
  <1> QED BY <1>5, <1>6, <1>7, <1>8 DEF IInv

LEMMA Kept == IInv /\ [HNext]_hvars => IInv'
  <1>1. CASE UNCHANGED <<vars, excused>>
    BY <1>1 DEF vars, IInv, TypeOK, Named, CodesAddressed, SessionsCovered, Covered, Pending,
                Clearing, LoginsCovered, At
  <1>2. ASSUME IInv, Next, Excuse
        PROVE  IInv'
    <2>1. ASSUME NEW r \in Req, Handler(r)
          PROVE  IInv'
      BY <1>2, <2>1, LoginStep, BeginStep, LookupStep, OpenStep, CodeStep, FindStep,
         SetPasswordStep, ClearStep, SetEmailStep DEF Handler
    <2> QED BY <1>2, <2>1, EnvironmentStep, LossStep DEF Next
  <1> QED BY <1>1, <1>2 DEF HNext, hvars, Dismiss, Go

(* Users, tables, login limits and requests under way are well-typed.      *)
THEOREM TypeCorrect == HSpec => []TypeOK
  <1>1. IInv => TypeOK
    BY DEF IInv
  <1> QED BY <1>1, Start, Kept, PTL DEF HSpec

(* Once a reset has answered, a session that can be used was opened with   *)
(* the current password, or excused: by a login that had verified the old  *)
(* one in the moment of the change, or by a statement that failed.         *)
THEOREM ResetEndsSessionsAlways == HSpec => []ResetEndsSessions
  <1>1. IInv => ResetEndsSessions
    <2> SUFFICES ASSUME IInv, NEW s \in Session, Usable(s)
                 PROVE  \/ session[s].gen = password[session[s].user]
                        \/ s \in excused
                        \/ \E r \in Req : At(r, "reset", "clear") /\ req[r].user = session[s].user
      BY DEF ResetEndsSessions
    <2> QED BY DEF IInv, SessionsCovered, Covered, Usable, Pending, Clearing
  <1> QED BY <1>1, Start, Kept, PTL DEF HSpec

-----------------------------------------------------------------------------
(* A code makes one change.                                                *)

(* A request that has read c as unused and has its change before it.       *)
Holds(r, c) == req[r].code = c /\ req[r].at \in {"spend", "find", "set"}
Marked(c) == code[c].state \in {"used", "gone"}

(* One request at most holds a code; past its statement on the code, and   *)
(* after the change, the row can no longer be read as unused.              *)
OneHolder(c) == \A q, r \in Req : Holds(q, c) /\ Holds(r, c) => q = r
HeldUnspent(c) == \A r \in Req : Holds(r, c) =>
    /\ code[c].state # "none" /\ uses[c] = 0
    /\ req[r].at # "spend" => Marked(c)
SpentMarked(c) == uses[c] \in 0 .. 1 /\ (uses[c] = 1 => Marked(c))

SpentOK(c) == c \notin shared => OneHolder(c) /\ HeldUnspent(c) /\ SpentMarked(c)
CodesSpent == \A c \in Code : SpentOK(c)

(* What a step does to the rows: a code that was sent stays marked.        *)
RowsMove == \A c \in Code : \/ code'[c].state = code[c].state
                            \/ code[c].state = "none"
                            \/ code'[c].state \in {"used", "gone"}

(* A request stays where it is or comes to hold no code.                   *)
Resting(r) == req'[r] = req[r] \/ req'[r].at \notin {"spend", "find", "set"}

(* The history counts a change at most, and only for a request that held   *)
(* the code.                                                               *)
LEMMA UsesFacts ==
    ASSUME Use, NEW c \in Code, uses[c] \in 0 .. 1
    PROVE  \/ uses'[c] = uses[c]
           \/ /\ uses'[c] = uses[c] + 1
              /\ \E r \in Req : req[r].code = c /\ req[r].at = "set" /\ req'[r].at # "set"
BY DEF Use, At

(* Codes that two requests had read at once stay shared; so does one whose *)
(* statement failed.                                                       *)
LEMMA SharedFacts ==
    ASSUME Use, NEW c \in Code, c \notin shared'
    PROVE  /\ c \notin shared
           /\ ~(Cardinality(Spending(c)') > 1)
           /\ \A r \in Req : req[r].at = "spend" /\ req[r].code = c
                             /\ req'[r].at \in {"find", "set"} => faults' = faults
BY DEF Use, Spending

(* Nobody takes up a code.                                                 *)
LEMMA RestingKeeps ==
    ASSUME CodesSpent, Use, RowsMove, \A r \in Req : Resting(r), NEW c \in Code
    PROVE  SpentOK(c)'
  <1> SUFFICES ASSUME c \notin shared'
               PROVE  (OneHolder(c) /\ HeldUnspent(c) /\ SpentMarked(c))'
    BY DEF SpentOK
  <1>1. OneHolder(c) /\ HeldUnspent(c) /\ SpentMarked(c)
    BY SharedFacts DEF CodesSpent, SpentOK
  <1>2. ASSUME NEW r \in Req, Holds(r, c)' PROVE Holds(r, c) /\ req'[r] = req[r]
    BY <1>2 DEF Holds, Resting
  <1>3. Marked(c) => Marked(c)'
    BY DEF RowsMove, Marked
  <1>4. OneHolder(c)'
    BY <1>1, <1>2 DEF OneHolder
  <1>5. CASE uses'[c] = uses[c]
    <2>1. HeldUnspent(c)'
      BY <1>1, <1>2, <1>3, <1>5 DEF HeldUnspent, RowsMove, Marked
    <2>2. SpentMarked(c)'
      BY <1>1, <1>3, <1>5 DEF SpentMarked
    <2> QED BY <1>4, <2>1, <2>2
  <1>6. ASSUME NEW r \in Req, req[r].code = c, req[r].at = "set", req'[r].at # "set",
               uses'[c] = uses[c] + 1
        PROVE  (OneHolder(c) /\ HeldUnspent(c) /\ SpentMarked(c))'
    <2>1. Holds(r, c) /\ uses[c] = 0 /\ Marked(c)
      BY <1>1, <1>6 DEF Holds, HeldUnspent
    <2>2. \A q \in Req : ~Holds(q, c)'
      BY <1>1, <1>2, <1>6, <2>1 DEF OneHolder
    <2>3. SpentMarked(c)'
      BY <1>3, <1>6, <2>1 DEF SpentMarked
    <2> QED BY <1>4, <2>2, <2>3 DEF HeldUnspent
  <1> QED BY <1>1, <1>5, <1>6, UsesFacts DEF SpentMarked

(* A handler reads a code as unused: nobody has got further with it.       *)
LEMMA ReadKeeps ==
    ASSUME CodesSpent, Use, NEW r \in Req, req[r].at = "code",
           code[req[r].code].state = "valid", UNCHANGED code,
           req'[r].at = "spend", req'[r].code = req[r].code,
           \A q \in Req \ {r} : req'[q] = req[q], NEW c \in Code
    PROVE  SpentOK(c)'
  <1> SUFFICES ASSUME c \notin shared'
               PROVE  (OneHolder(c) /\ HeldUnspent(c) /\ SpentMarked(c))'
    BY DEF SpentOK
  <1>1. OneHolder(c) /\ HeldUnspent(c) /\ SpentMarked(c)
    BY SharedFacts DEF CodesSpent, SpentOK
  <1>2. Marked(c)' <=> Marked(c)
    BY DEF Marked
  <1>3. CASE req[r].code # c
    <2>1. \A q \in Req : Holds(q, c)' <=> Holds(q, c)
      BY <1>3 DEF Holds
    <2>2. \A q \in Req : Holds(q, c) => q # r /\ req'[q] = req[q]
      BY <1>3 DEF Holds
    <2>3. OneHolder(c)'
      BY <1>1, <2>1 DEF OneHolder
    <2>4. uses'[c] = uses[c]
      BY <1>1, <1>3, UsesFacts DEF SpentMarked
    <2>5. HeldUnspent(c)'
      BY <1>1, <1>2, <2>1, <2>2, <2>4 DEF HeldUnspent
    <2>6. SpentMarked(c)'
      BY <1>1, <1>2, <2>4 DEF SpentMarked
    <2> QED BY <2>3, <2>5, <2>6
  <1>4. CASE req[r].code = c
    <2>1. ~Marked(c) /\ code'[c].state = "valid"
      BY <1>4 DEF Marked
    <2>2. \A q \in Req : Holds(q, c) => req[q].at = "spend" /\ q # r
      BY <1>1, <2>1 DEF HeldUnspent, Holds
    <2>3. uses[c] = 0 /\ uses'[c] = uses[c]
      <3>1. uses[c] = 0
        BY <1>1, <2>1 DEF SpentMarked
      <3>2. \A q \in Req : ~(req[q].code = c /\ req[q].at = "set")
        BY <2>2 DEF Holds
      <3> QED BY <3>1, <3>2, <1>1, UsesFacts DEF SpentMarked
    <2>4. ASSUME NEW q \in Req, Holds(q, c) PROVE FALSE
      <3>1. \A p \in Req : Holds(p, c) => p = q
        BY <1>1, <2>4 DEF OneHolder
      <3>2. Spending(c)' = {q} \cup {r}
        BY <1>4, <2>2, <2>4, <3>1 DEF Spending, Holds
      <3>3. q # r
        BY <2>2, <2>4
      <3>4. IsFiniteSet({q}) /\ Cardinality({q}) = 1 /\ r \notin {q}
        BY <3>3, FS_Singleton
      <3>5. Cardinality({q} \cup {r}) = Cardinality({q}) + 1
        BY <3>4, FS_AddElement
      <3>6. Cardinality({q} \cup {r}) > 1
        BY <3>4, <3>5
      <3> QED BY <3>2, <3>6, SharedFacts
    <2>5. \A q \in Req : Holds(q, c)' => q = r
      BY <2>4 DEF Holds
    <2>6. OneHolder(c)'
      BY <2>5 DEF OneHolder
    <2>7. HeldUnspent(c)'
      BY <2>1, <2>3, <2>5 DEF HeldUnspent
    <2>8. SpentMarked(c)'
      BY <2>3 DEF SpentMarked
    <2> QED BY <2>6, <2>7, <2>8
  <1> QED BY <1>3, <1>4

(* The holder of a code goes on with it, and leaves it marked or shared.   *)
LEMMA HolderKeeps ==
    ASSUME CodesSpent, Use, RowsMove, NEW r \in Req, req[r].at \in {"spend", "find"},
           req'[r].at \in {"find", "set"}, req'[r].code = req[r].code,
           req[r].at = "spend" /\ req[r].code \in Code /\ code[req[r].code].state # "none" =>
               faults' # faults \/ code'[req[r].code].state \in {"used", "gone"},
           \A q \in Req \ {r} : req'[q] = req[q], NEW c \in Code
    PROVE  SpentOK(c)'
  <1> SUFFICES ASSUME c \notin shared'
               PROVE  (OneHolder(c) /\ HeldUnspent(c) /\ SpentMarked(c))'
    BY DEF SpentOK
  <1>1. OneHolder(c) /\ HeldUnspent(c) /\ SpentMarked(c)
    BY SharedFacts DEF CodesSpent, SpentOK
  <1>2. Marked(c) => Marked(c)'
    BY DEF RowsMove, Marked
  <1>3. \A q \in Req : Holds(q, c)' <=> Holds(q, c)
    BY DEF Holds
  <1>4. OneHolder(c)'
    BY <1>1, <1>3 DEF OneHolder
  <1>5. uses'[c] = uses[c]
    <2>1. \A q \in Req : req[q].at = "set" => req'[q] = req[q]
      OBVIOUS
    <2> QED BY <1>1, <2>1, UsesFacts DEF SpentMarked
  <1>6. SpentMarked(c)'
    BY <1>1, <1>2, <1>5 DEF SpentMarked
  <1>7. ASSUME NEW q \in Req, Holds(q, c)
        PROVE  code'[c].state # "none" /\ uses'[c] = 0 /\ (req'[q].at # "spend" => Marked(c)')
    <2>1. code[c].state # "none" /\ uses[c] = 0 /\ (req[q].at # "spend" => Marked(c))
      BY <1>1, <1>7 DEF HeldUnspent
    <2>2. code'[c].state # "none"
      BY <2>1 DEF RowsMove
    <2>3. CASE q # r
      BY <1>2, <1>5, <2>1, <2>2, <2>3
    <2>4. CASE q = r
      <3>1. CASE req[r].at = "find"
        BY <1>2, <1>5, <2>1, <2>2, <2>4, <3>1
      <3>2. CASE req[r].at = "spend"
        <4>1. faults' = faults /\ req[r].code = c
          BY <1>7, <2>4, <3>2, SharedFacts DEF Holds
        <4>2. Marked(c)'
          BY <2>1, <3>2, <4>1 DEF Marked
        <4> QED BY <1>5, <2>1, <2>2, <4>2
      <3> QED BY <3>1, <3>2
    <2> QED BY <2>3, <2>4
  <1>8. HeldUnspent(c)'
    BY <1>3, <1>7 DEF HeldUnspent
  <1> QED BY <1>4, <1>6, <1>8

-----------------------------------------------------------------------------
(* Every step of the accounts is one of these.                             *)

(* The handlers that leave the codes alone.                                *)
LEMMA OtherHandlers ==
    ASSUME IInv, NEW r \in Req, Handler(r), ~(ReadCode(r) \/ SpendCode(r) \/ FindUser(r))
    PROVE  RowsMove /\ \A q \in Req : Resting(q)
  <1>1. req \in [Req -> Job]
    BY TypeParts DEF IInv, JobsOK
  <1>2. CASE Answer(r) /\ UNCHANGED code
    BY <1>1, <1>2, AnswerFacts, IdleJob DEF RowsMove, Resting
  <1>3. ASSUME NEW pc \in {"insert", "clear"}, Goto(r, pc), UNCHANGED code
        PROVE  RowsMove /\ \A q \in Req : Resting(q)
    BY <1>1, <1>3, GotoFacts DEF RowsMove, Resting, Pc
  <1>4. ASSUME NEW i \in Ip, NEW u \in User, NEW g \in Gen, Login(r, i, u, g)
        PROVE  RowsMove /\ \A q \in Req : Resting(q)
    BY <1>4, LoginTypes DEF IInv, Login, RowsMove, Resting
  <1>5. ASSUME NEW c \in Code, Reset(r, c) \/ \E u \in User : ChangeEmail(r, c, u)
        PROVE  RowsMove /\ \A q \in Req : Resting(q)
    BY <1>5, BeginFacts DEF IInv, Reset, ChangeEmail, RowsMove, Resting
  <1>6. CASE Lookup(r)
    BY <1>2, <1>3, <1>6 DEF Lookup
  <1>7. CASE OpenSession(r) \/ ClearSessions(r) \/ SetEmail(r)
    BY <1>2, <1>7 DEF OpenSession, ClearSessions, SetEmail
  <1>8. CASE SetPassword(r)
    BY <1>3, <1>8 DEF SetPassword
  <1> QED BY <1>4, <1>5, <1>6, <1>7, <1>8 DEF Handler

(* Mails, ends of terms and administration; and what is lost.              *)
LEMMA EnvironmentRows ==
    ASSUME IInv, Environment
    PROVE  RowsMove /\ \A q \in Req : Resting(q)
  <1>0. code \in [Code -> Row]
    BY TypeParts DEF IInv, RowsOK
  <1>1. UNCHANGED req
    BY EnvironmentTypes DEF IInv
  <1>2. ASSUME NEW c \in Code, NEW e \in Email, NEW p \in {"reset_password", "change_email"},
               SendCode(c, e, p)
        PROVE  RowsMove
    BY <1>0, <1>2 DEF SendCode, RowsMove, NoRow
  <1>3. ASSUME NEW c \in Code, CodeExpires(c) PROVE RowsMove
    <2>1. code' = [code EXCEPT ![c] = [code[c] EXCEPT !.state = "gone"]]
      BY <1>3 DEF CodeExpires
    <2> QED BY <1>0, <2>1 DEF RowsMove, Row
  <1>4. ASSUME NEW u \in User, NEW closing \in BOOLEAN, RemoveUser(u, closing) PROVE RowsMove
    BY <1>0, <1>4 DEF RemoveUser, RowsMove, Row
  <1>5. UNCHANGED code => RowsMove
    BY DEF RowsMove
  <1>6. RowsMove
    BY <1>2, <1>3, <1>4, <1>5 DEF Environment, CloseSession, Ban, WindowSlides, LockEnds
  <1> QED BY <1>1, <1>6 DEF Resting

LEMMA SpentStep ==
    ASSUME IInv, CodesSpent, Use, Next, NEW c \in Code
    PROVE  SpentOK(c)'
  <1>1. /\ req \in [Req -> Job] /\ code \in [Code -> Row] /\ faults \in 0 .. MAX_FAULTS
    BY TypeParts DEF IInv, JobsOK, RowsOK
  <1>2. ASSUME NEW r \in Req, ReadCode(r) PROVE SpentOK(c)'
    <2>1. CASE Answer(r)
      <3>1. RowsMove /\ \A q \in Req : Resting(q)
        BY <1>1, <1>2, <2>1, AnswerFacts, IdleJob DEF ReadCode, RowsMove, Resting
      <3> QED BY <3>1, RestingKeeps
    <2>2. CASE Goto(r, "spend") /\ code[req[r].code].state = "valid"
      <3>1. /\ req'[r].at = "spend" /\ req'[r].code = req[r].code
            /\ \A q \in Req \ {r} : req'[q] = req[q]
        BY <1>1, <2>2, GotoFacts DEF Pc
      <3> QED BY <1>2, <2>2, <3>1, ReadKeeps DEF ReadCode
    <2> QED BY <1>2, <2>1, <2>2 DEF ReadCode
  <1>3. ASSUME NEW r \in Req, SpendCode(r) PROVE SpentOK(c)'
    <2> DEFINE d == req[r].code
    <2>1. PICK ok \in Works :
            /\ req[r].at = "spend"
            /\ code' = IF ok /\ code[d].state = "valid" THEN [code EXCEPT ![d].state = "used"]
                       ELSE code
            /\ Goto(r, IF req[r].op = "reset" THEN "find" ELSE "set")
            /\ Spend(ok)
      BY <1>3 DEF SpendCode
    <2>2. ok \in BOOLEAN /\ (~ok => faults' # faults)
      BY <1>1, <2>1, SpendFacts
    <2>3. /\ req'[r].at \in {"find", "set"} /\ req'[r].code = d
          /\ \A q \in Req \ {r} : req'[q] = req[q]
      BY <1>1, <2>1, GotoFacts DEF Pc
    <2>4. d \in Code \cup {NoCode}
      BY <1>1 DEF Job
    <2>5. RowsMove /\ (d \in Code /\ ok /\ code[d].state # "none"
                       => code'[d].state \in {"used", "gone"})
      <3>1. CASE ok /\ code[d].state = "valid"
        <4>1. code' = [code EXCEPT ![d] = [code[d] EXCEPT !.state = "used"]]
          BY <2>1, <3>1
        <4> QED BY <1>1, <4>1 DEF RowsMove, Row
      <3>2. CASE ~(ok /\ code[d].state = "valid")
        BY <1>1, <2>1, <3>2 DEF RowsMove, Row
      <3> QED BY <3>1, <3>2
    <2> HIDE DEF d
    <2>6. d \in Code /\ code[d].state # "none"
          => faults' # faults \/ code'[d].state \in {"used", "gone"}
      BY <2>2, <2>5
    <2> QED BY <2>1, <2>3, <2>5, <2>6, HolderKeeps DEF d
  <1>4. ASSUME NEW r \in Req, FindUser(r) PROVE SpentOK(c)'
    <2>1. UNCHANGED code /\ req[r].at = "find"
      BY <1>4 DEF FindUser, At
    <2>2. CASE Answer(r)
      <3>1. RowsMove /\ \A q \in Req : Resting(q)
        BY <1>1, <2>1, <2>2, AnswerFacts, IdleJob DEF RowsMove, Resting
      <3> QED BY <3>1, RestingKeeps
    <2>3. ASSUME NEW u \in User, req' = [req EXCEPT ![r].user = u, ![r].at = "set"]
          PROVE  SpentOK(c)'
      <3>1. /\ req'[r].at = "set" /\ req'[r].code = req[r].code
            /\ \A q \in Req \ {r} : req'[q] = req[q]
        BY <1>1, <2>3, FoundFacts
      <3>2. RowsMove
        BY <2>1 DEF RowsMove
      <3> QED BY <2>1, <3>1, <3>2, HolderKeeps
    <2> QED BY <1>4, <2>2, <2>3 DEF FindUser
  <1>5. ASSUME NEW r \in Req, Handler(r), ~(ReadCode(r) \/ SpendCode(r) \/ FindUser(r))
        PROVE  SpentOK(c)'
    BY <1>5, OtherHandlers, RestingKeeps
  <1>6. CASE Environment
    BY <1>6, EnvironmentRows, RestingKeeps
  <1>7. CASE Restart \/ \E r \in Req : Abandon(r)
    <2>1. UNCHANGED code /\ \A q \in Req : req'[q] \in {req[q], Idle}
      BY <1>7, LossTypes DEF IInv
    <2>2. RowsMove /\ \A q \in Req : Resting(q)
      BY <2>1, IdleJob DEF RowsMove, Resting
    <2> QED BY <2>2, RestingKeeps
  <1> QED BY <1>2, <1>3, <1>4, <1>5, <1>6, <1>7 DEF Next

(* A code that no two handlers had read at once, and whose mark did not    *)
(* fail, makes one change at most, although it is selected as unused and   *)
(* marked in statements of their own.                                      *)
THEOREM CodeSpentOnceAlways == HSpec => []CodeSpentOnce
  <1>1. HInit => CodesSpent
    BY IdleJob DEF HInit, Init, CodesSpent, SpentOK, OneHolder, HeldUnspent, SpentMarked, Holds
  <1>2. IInv /\ CodesSpent /\ [HNext]_hvars => CodesSpent'
    <2> SUFFICES ASSUME IInv, CodesSpent, [HNext]_hvars, NEW c \in Code
                 PROVE  SpentOK(c)'
      BY DEF CodesSpent
    <2>1. CASE UNCHANGED <<vars, uses, shared>>
      BY <2>1 DEF vars, CodesSpent, SpentOK, OneHolder, HeldUnspent, SpentMarked, Holds, Marked
    <2>2. CASE Next /\ Use
      BY <2>2, SpentStep
    <2> QED BY <2>1, <2>2 DEF HNext, hvars, Dismiss, Go
  <1>3. CodesSpent => CodeSpentOnce
    <2> SUFFICES ASSUME CodesSpent, NEW c \in Code \ shared PROVE uses[c] <= 1
      BY DEF CodeSpentOnce
    <2>1. uses[c] \in 0 .. 1
      BY DEF CodesSpent, SpentOK, SpentMarked
    <2> QED BY <2>1
  <1> QED BY <1>1, <1>2, <1>3, Start, Kept, PTL DEF HSpec
=============================================================================

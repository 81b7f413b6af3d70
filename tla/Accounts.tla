------------------------------ MODULE Accounts -----------------------------
(***************************************************************************)
(* Sessions, passwords and mail codes of the platform (platform/handler/   *)
(* auth.rs, the account handlers of console.rs, platform/service.rs) with  *)
(* the login limits kept in memory (platform/handler/mod.rs).              *)
(*                                                                         *)
(* Each SQL statement of login, reset_password and change_email is a step; *)
(* most of their errors are discarded.  A handler is dropped when its      *)
(* client disconnects.  Passwords are numbered by generation: a reset sets *)
(* the next one, a client may offer any.  Time is not counted: what is kept*)
(* for a while (a session, a code, a lock, an entry of a rate window) may  *)
(* end at any moment.  Bans, removals and the closing of an account appear *)
(* as single steps; UserKeys has their statements.                         *)
(***************************************************************************)
EXTENDS ClientAddress, Naturals, FiniteSets

CONSTANTS User, Email, Session, Code, Req,
          Header,           \* headers of login requests
          NoUser, NoEmail, NoCode, NoIp,
          LOGIN_RATE,       \* logins per address and minute: 5
          MAX_LOGIN_FAILS,  \* failures that lock an address: 5
          MAX_GEN,          \* bound: password changes
          MAX_FAULTS        \* bound: failed statements and dropped handlers

(* The addresses that logins are counted by.                               *)
Ip == {ClientIp(h) : h \in Header}

ASSUME AccountConstants ==
    /\ NoUser \notin User /\ NoEmail \notin Email
    /\ NoCode \notin Code /\ NoIp \notin Ip
    /\ LOGIN_RATE \in Nat \ {0} /\ MAX_LOGIN_FAILS \in Nat \ {0}
    /\ MAX_GEN \in Nat /\ MAX_FAULTS \in Nat

VARIABLES status,    \* User -> users.status, "gone" when the row is deleted
          password,  \* User -> generation of users.password_hash
          email,     \* User -> users.email
          session,   \* Session -> its row: user and the password it was opened with
          code,      \* Code -> its row of email_verification
          tries,     \* Ip -> entries in the window of LOGIN_RATE
          fails,     \* Ip -> its entry of LOGIN_FAIL_GUARD; count 0: no entry
          req, faults

vars == <<status, password, email, session, code, tries, fails, req, faults>>

Gen == 0 .. MAX_GEN
NoSession == [user |-> NoUser, gen |-> 0]
NoRow == [state |-> "none", email |-> NoEmail, purpose |-> "none"]
NoEntry == [count |-> 0, locked |-> FALSE]
Idle == [op |-> "none", at |-> "none", user |-> NoUser, gen |-> 0, ip |-> NoIp,
         email |-> NoEmail, code |-> NoCode]
At(r, op, at) == req[r].op = op /\ req[r].at = at

TypeOK ==
    /\ status \in [User -> {"active", "banned", "gone"}]
    /\ password \in [User -> Gen]
    /\ email \in [User -> Email]
    /\ session \in [Session -> [user : User \cup {NoUser}, gen : Gen]]
    /\ code \in [Code -> [state : {"none", "valid", "used", "gone"},
                          email : Email \cup {NoEmail},
                          purpose : {"none", "reset_password", "change_email"}]]
    /\ tries \in [Ip -> 0 .. LOGIN_RATE]
    /\ fails \in [Ip -> [count : 0 .. MAX_LOGIN_FAILS, locked : BOOLEAN]]
    /\ req \in [Req -> [op : {"none", "login", "reset", "email"},
                        at : {"none", "lookup", "insert", "code", "spend", "find", "set",
                              "clear"},
                        user : User \cup {NoUser}, gen : Gen, ip : Ip \cup {NoIp},
                        email : Email \cup {NoEmail}, code : Code \cup {NoCode}]]
    /\ faults \in 0 .. MAX_FAULTS

Init ==
    /\ status = [u \in User |-> "active"]
    /\ password = [u \in User |-> 0]
    /\ email \in [User -> Email]
    /\ \A u, v \in User : email[u] = email[v] => u = v
    /\ session = [s \in Session |-> NoSession]
    /\ code = [c \in Code |-> NoRow]
    /\ tries = [i \in Ip |-> 0]
    /\ fails = [i \in Ip |-> NoEntry]
    /\ req = [r \in Req |-> Idle]
    /\ faults = 0

Exists(u) == status[u] # "gone"
SessionsOf(u) == {s \in Session : session[s].user = u}

(* SessionManager.get: the row is there and its user active.               *)
Usable(s) == session[s].user # NoUser /\ status[session[s].user] = "active"

(* A statement works, or fails without the handler looking at the error.   *)
Works == {TRUE} \cup IF faults < MAX_FAULTS THEN {FALSE} ELSE {}
Spend(ok) == faults' = IF ok THEN faults ELSE faults + 1

Goto(r, at) == req' = [req EXCEPT ![r].at = at]
Answer(r) == req' = [req EXCEPT ![r] = Idle]

-----------------------------------------------------------------------------
(* RateLimiter.allow counts the attempt; login_locked comes second.        *)
Login(r, i, u, g) ==
    /\ req[r] = Idle
    /\ tries[i] < LOGIN_RATE
    /\ tries' = [tries EXCEPT ![i] = @ + 1]
    /\ req' = IF fails[i].locked THEN req
              ELSE [req EXCEPT ![r] = [Idle EXCEPT !.op = "login", !.at = "lookup",
                                                   !.user = u, !.gen = g, !.ip = i]]
    /\ UNCHANGED <<status, password, email, session, code, fails, faults>>

(* record_login_failure first drops every entry without a running lock, of *)
(* all addresses.                                                          *)
Retained(f) == [i \in Ip |-> IF f[i].locked THEN f[i] ELSE NoEntry]
Recorded(f, i) == [Retained(f) EXCEPT
    ![i].count = IF @ < MAX_LOGIN_FAILS THEN @ + 1 ELSE @,
    ![i].locked = Retained(f)[i].count + 1 >= MAX_LOGIN_FAILS]

Lookup(r) == \E ok \in Works :
    LET u == req[r].user
        i == req[r].ip
        found == ok /\ Exists(u)
        right == found /\ req[r].gen = password[u] IN
    /\ At(r, "login", "lookup")
    /\ fails' = IF found /\ status[u] = "banned" THEN fails
                ELSE IF right THEN [fails EXCEPT ![i] = NoEntry]
                ELSE Recorded(fails, i)
    /\ IF right /\ status[u] = "active" THEN Goto(r, "insert") ELSE Answer(r)
    /\ Spend(ok)
    /\ UNCHANGED <<status, password, email, session, code, tries>>

(* SessionManager.create, delete.                                          *)
Created(s, u, g) == [session EXCEPT ![s] = [user |-> u, gen |-> g]]
Deleted(s) == [session EXCEPT ![s] = NoSession]

(* The foreign key asks for the user.                                      *)
OpenSession(r) == \E ok \in Works, s \in {t \in Session : session[t] = NoSession} :
    /\ At(r, "login", "insert")
    /\ session' = IF ok /\ Exists(req[r].user)
                  THEN Created(s, req[r].user, req[r].gen)
                  ELSE session
    /\ Answer(r)
    /\ Spend(ok)
    /\ UNCHANGED <<status, password, email, code, tries, fails>>

(* logout, or the end of a session's seven days.                           *)
CloseSession(s) ==
    /\ session[s] # NoSession
    /\ session' = Deleted(s)
    /\ UNCHANGED <<status, password, email, code, tries, fails, req, faults>>

-----------------------------------------------------------------------------
(* send_code: a reset code goes to any address, a change code only to one  *)
(* that no active user has, from a session.                                *)
SendCode(c, e, p) ==
    /\ code[c] = NoRow
    /\ p = "change_email" => /\ \E s \in Session : Usable(s)
                             /\ \A u \in User : email[u] = e => status[u] # "active"
    /\ code' = [code EXCEPT ![c] = [state |-> "valid", email |-> e, purpose |-> p]]
    /\ UNCHANGED <<status, password, email, session, tries, fails, req, faults>>

(* The ten minutes of a code are over.                                     *)
CodeExpires(c) ==
    /\ code[c].state = "valid"
    /\ code' = [code EXCEPT ![c].state = "gone"]
    /\ UNCHANGED <<status, password, email, session, tries, fails, req, faults>>

(* reset_password with the code of a mail.                                 *)
Reset(r, c) ==
    /\ req[r] = Idle
    /\ code[c].purpose = "reset_password"
    /\ req' = [req EXCEPT ![r] = [Idle EXCEPT !.op = "reset", !.at = "code",
                                              !.code = c, !.email = code[c].email]]
    /\ UNCHANGED <<status, password, email, session, code, tries, fails, faults>>

(* change_email, after the address was seen to be free.                    *)
ChangeEmail(r, c, u) ==
    /\ req[r] = Idle
    /\ code[c].purpose = "change_email"
    /\ \E s \in SessionsOf(u) : Usable(s)
    /\ \A v \in User : email[v] = code[c].email => status[v] # "active"
    /\ req' = [req EXCEPT ![r] = [Idle EXCEPT !.op = "email", !.at = "code", !.user = u,
                                              !.code = c, !.email = code[c].email]]
    /\ UNCHANGED <<status, password, email, session, code, tries, fails, faults>>

(* Mutation: a used code is found again.                                   *)
ReadCodeAny(r) == \E ok \in Works :
    /\ req[r].at = "code"
    /\ IF ok /\ code[req[r].code].state \in {"valid", "used"} THEN Goto(r, "spend")
       ELSE Answer(r)
    /\ Spend(ok)
    /\ UNCHANGED <<status, password, email, session, code, tries, fails>>

(* Both select the code as unused, and mark it in a statement of its own.  *)
ReadCode(r) == \E ok \in Works :
    /\ req[r].at = "code"
    /\ IF ok /\ code[req[r].code].state = "valid" THEN Goto(r, "spend") ELSE Answer(r)
    /\ Spend(ok)
    /\ UNCHANGED <<status, password, email, session, code, tries, fails>>

SpendCode(r) == \E ok \in Works :
    LET c == req[r].code IN
    /\ req[r].at = "spend"
    /\ code' = IF ok /\ code[c].state = "valid" THEN [code EXCEPT ![c].state = "used"]
               ELSE code
    /\ Goto(r, IF req[r].op = "reset" THEN "find" ELSE "set")
    /\ Spend(ok)
    /\ UNCHANGED <<status, password, email, session, tries, fails>>

FindUser(r) == \E ok \in Works :
    LET found == {u \in User : ok /\ Exists(u) /\ email[u] = req[r].email} IN
    /\ At(r, "reset", "find")
    /\ IF found = {} THEN Answer(r)
       ELSE \E u \in found : req' = [req EXCEPT ![r].user = u, ![r].at = "set"]
    /\ Spend(ok)
    /\ UNCHANGED <<status, password, email, session, code, tries, fails>>

(* Mutation: the handler ends with the new password.                       *)
SetPasswordOnly(r) == \E ok \in Works :
    LET u == req[r].user IN
    /\ At(r, "reset", "set")
    /\ password[u] < MAX_GEN
    /\ password' = IF ok /\ Exists(u) THEN [password EXCEPT ![u] = @ + 1] ELSE password
    /\ Answer(r)
    /\ Spend(ok)
    /\ UNCHANGED <<status, email, session, code, tries, fails>>

SetPassword(r) == \E ok \in Works :
    LET u == req[r].user IN
    /\ At(r, "reset", "set")
    /\ password[u] < MAX_GEN
    /\ password' = IF ok /\ Exists(u) THEN [password EXCEPT ![u] = @ + 1] ELSE password
    /\ Goto(r, "clear")
    /\ Spend(ok)
    /\ UNCHANGED <<status, email, session, code, tries, fails>>

(* clear_user_sessions                                                     *)
ClearSessions(r) == \E ok \in Works :
    /\ At(r, "reset", "clear")
    /\ session' = [s \in Session |-> IF ok /\ session[s].user = req[r].user
                                     THEN NoSession ELSE session[s]]
    /\ Answer(r)
    /\ Spend(ok)
    /\ UNCHANGED <<status, password, email, code, tries, fails>>

(* The column is unique: the statement fails, unseen, if the address has   *)
(* been taken.                                                             *)
SetEmail(r) == \E ok \in Works :
    LET u == req[r].user
        e == req[r].email IN
    /\ At(r, "email", "set")
    /\ email' = IF ok /\ Exists(u) /\ \A v \in User : Exists(v) => email[v] # e
                THEN [email EXCEPT ![u] = e] ELSE email
    /\ Answer(r)
    /\ Spend(ok)
    /\ UNCHANGED <<status, password, session, code, tries, fails>>

-----------------------------------------------------------------------------
(* ban_user and unban_user: sessions stay, and count again after an unban. *)
Ban(u) ==
    /\ Exists(u)
    /\ \E s \in {"active", "banned"} : status' = [status EXCEPT ![u] = s]
    /\ UNCHANGED <<password, email, session, code, tries, fails, req, faults>>

(* delete_user_handler, or delete_account, which takes the codes sent to   *)
(* the user's address along.                                               *)
RemoveUser(u, closing) ==
    /\ Exists(u)
    /\ status' = [status EXCEPT ![u] = "gone"]
    /\ session' = [s \in Session |-> IF session[s].user = u THEN NoSession ELSE session[s]]
    /\ code' = [c \in Code |-> IF closing /\ code[c].email = email[u]
                               THEN [code[c] EXCEPT !.state = "gone"] ELSE code[c]]
    /\ UNCHANGED <<password, email, tries, fails, req, faults>>

(* An entry leaves the rate window; a lock runs out.                       *)
WindowSlides(i) ==
    /\ tries[i] > 0
    /\ tries' = [tries EXCEPT ![i] = @ - 1]
    /\ UNCHANGED <<status, password, email, session, code, fails, req, faults>>

LockEnds(i) ==
    /\ fails[i].locked
    /\ fails' = [fails EXCEPT ![i] = NoEntry]
    /\ UNCHANGED <<status, password, email, session, code, tries, req, faults>>

Abandon(r) ==
    /\ req[r] # Idle
    /\ faults < MAX_FAULTS
    /\ Answer(r)
    /\ faults' = faults + 1
    /\ UNCHANGED <<status, password, email, session, code, tries, fails>>

(* A restart of the server: handlers and limits are lost, the tables stay. *)
Restart ==
    /\ faults < MAX_FAULTS
    /\ req' = [r \in Req |-> Idle]
    /\ tries' = [i \in Ip |-> 0]
    /\ fails' = [i \in Ip |-> NoEntry]
    /\ faults' = faults + 1
    /\ UNCHANGED <<status, password, email, session, code>>

Handler(r) ==
    \/ \E i \in Ip, u \in User, g \in Gen : Login(r, i, u, g)
    \/ \E c \in Code : Reset(r, c) \/ \E u \in User : ChangeEmail(r, c, u)
    \/ Lookup(r) \/ OpenSession(r) \/ ReadCode(r) \/ SpendCode(r) \/ FindUser(r)
    \/ SetPassword(r) \/ ClearSessions(r) \/ SetEmail(r)

Environment ==
    \/ \E c \in Code, e \in Email, p \in {"reset_password", "change_email"} : SendCode(c, e, p)
    \/ \E c \in Code : CodeExpires(c)
    \/ \E s \in Session : CloseSession(s)
    \/ \E u \in User : Ban(u) \/ \E closing \in BOOLEAN : RemoveUser(u, closing)
    \/ \E i \in Ip : WindowSlides(i) \/ LockEnds(i)

Next == (\E r \in Req : Handler(r) \/ Abandon(r)) \/ Environment \/ Restart

Spec == Init /\ [][Next]_vars
=============================================================================

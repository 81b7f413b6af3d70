---------------------------- MODULE ControlProofs ----------------------------
(***************************************************************************)
(* Types are kept, logging out is final, and a login that was answered     *)
(* works, for any number of administrators, seconds, faults and restarts.  *)
(***************************************************************************)
EXTENDS MCControl, TLAPS

Place == {"out", "insert", "map", "in", "cut", "revoke", "left"}
Browser == [at : Place, half : Half, token : Second]

SessionsOK == sess \in [Second -> {"none", "live", "revoked"}]
BrowsersOK == admin \in [Admin -> Browser]

(* An administrator past the insert has a row, whoever else made the same  *)
(* token, and it is revoked once the logout has been answered: without     *)
(* this, the row could still be entered, live, after the logout.           *)
RowsFollow == faults = 0 =>
    \A a \in Admin :
        /\ At(a, "left") => sess[Token(a)] = "revoked"
        /\ admin[a].at \in {"map", "in", "cut", "revoke"} /\ HalfOf(a) = "platform" =>
              sess[Token(a)] # "none"
        /\ At(a, "revoke") => HalfOf(a) = "platform"
        /\ At(a, "map") => HalfOf(a) = "platform"
        /\ At(a, "insert") => HalfOf(a) = "platform"

IInv == SessionsOK /\ BrowsersOK /\ now \in Second /\ faults \in Nat /\ RowsFollow

(* Moving one browser on.                                                  *)
LEMMA GotoTypes ==
    ASSUME BrowsersOK, NEW a \in Admin, NEW pc \in Place, Goto(a, pc)
    PROVE  /\ BrowsersOK'
           /\ \A b \in Admin : /\ admin'[b].token = admin[b].token
                               /\ admin'[b].half = admin[b].half
                               /\ admin'[b].at = IF b = a THEN pc ELSE admin[b].at
  <1>1. \A q \in Browser : LET p == [q EXCEPT !.at = pc]
                           IN  /\ p \in Browser /\ p.at = pc
                               /\ p.half = q.half /\ p.token = q.token
    BY DEF Browser
  <1>2. admin' = [admin EXCEPT ![a] = [admin[a] EXCEPT !.at = pc]]
    BY DEF Goto
  <1> QED BY <1>1, <1>2 DEF BrowsersOK

(* A login begins with a new token of the second.                          *)
LEMMA BeginTypes ==
    ASSUME BrowsersOK, now \in Second, NEW a \in Admin, NEW pc \in Place, NEW h \in Half,
           admin' = [admin EXCEPT ![a] = [at |-> pc, half |-> h, token |-> now]]
    PROVE  /\ BrowsersOK'
           /\ admin'[a] = [at |-> pc, half |-> h, token |-> now]
           /\ \A b \in Admin \ {a} : admin'[b] = admin[b]
  <1>1. [at |-> pc, half |-> h, token |-> now] \in Browser
    BY DEF Browser
  <1> QED BY <1>1 DEF BrowsersOK

(* The invariant holds at the start.                                       *)
LEMMA InitInv == Init => IInv
  BY ControlConstants
     DEF Init, IInv, SessionsOK, BrowsersOK, Browser, Place, Half, Second, RowsFollow, At

(* Every step keeps it.                                                    *)
LEMMA StepInv == IInv /\ [Next]_vars => IInv'
  <1> SUFFICES ASSUME IInv, [Next]_vars PROVE IInv'
    OBVIOUS
  <1> USE DEF IInv
  <1>0. \A a \in Admin : /\ admin[a] \in Browser
                         /\ admin[a].at \in Place /\ HalfOf(a) \in Half /\ Token(a) \in Second
    BY DEF BrowsersOK, Browser, HalfOf, Token
  <1>1. ASSUME NEW a \in Admin, Prepare(a) PROVE IInv'
    <2>1. admin' = [admin EXCEPT ![a] = [at |-> "insert", half |-> "platform", token |-> now]]
      BY <1>1 DEF Prepare
    <2>2. /\ BrowsersOK'
          /\ admin'[a] = [at |-> "insert", half |-> "platform", token |-> now]
          /\ \A b \in Admin \ {a} : admin'[b] = admin[b]
      <3> "insert" \in Place /\ "platform" \in Half
        BY DEF Place, Half
      <3> QED BY <2>1, BeginTypes
    <2>3. UNCHANGED <<sess, now, faults>>
      BY <1>1 DEF Prepare
    <2> QED BY <2>2, <2>3 DEF SessionsOK, RowsFollow, At, Token, HalfOf
  <1>2. ASSUME NEW a \in Admin, Insert(a) PROVE IInv'
    <2>1. /\ BrowsersOK'
          /\ \A b \in Admin : /\ admin'[b].token = admin[b].token
                              /\ admin'[b].half = admin[b].half
                              /\ admin'[b].at = IF b = a THEN "map" ELSE admin[b].at
      BY <1>2, GotoTypes DEF Insert, Place
    <2>2. CASE sess' = [sess EXCEPT ![Token(a)] = RowAfter(@)] /\ UNCHANGED faults
      <3>1. SessionsOK'
        BY <1>0, <2>2 DEF SessionsOK, RowAfter
      <3>2. \A t \in Second : /\ sess[t] # "none" => sess'[t] = sess[t]
                              /\ t = Token(a) => sess'[t] # "none"
        BY <2>2 DEF SessionsOK, RowAfter
      <3>3. RowsFollow'
        BY <1>0, <1>2, <2>1, <2>2, <3>2 DEF RowsFollow, Insert, At, Token, HalfOf
      <3> QED BY <1>2, <2>1, <2>2, <3>1, <3>3 DEF Insert
    <2>3. CASE UNCHANGED sess /\ Fault
      BY <1>2, <2>1, <2>3 DEF Fault, SessionsOK, RowsFollow, Insert
    <2> QED BY <1>2, <2>2, <2>3 DEF Insert
  <1>3. ASSUME NEW a \in Admin, Remember(a) PROVE IInv'
    <2>1. UNCHANGED <<sess, now, faults>> /\ At(a, "map")
      BY <1>3 DEF Remember
    <2>2. PICK pc \in {"cut", "in"} : Goto(a, pc)
      BY <1>3 DEF Remember
    <2>3. /\ BrowsersOK'
          /\ \A b \in Admin : /\ admin'[b].token = admin[b].token
                              /\ admin'[b].half = admin[b].half
                              /\ admin'[b].at = IF b = a THEN pc ELSE admin[b].at
      <3> pc \in Place
        BY DEF Place
      <3> QED BY <2>2, GotoTypes
    <2> QED BY <2>1, <2>3 DEF SessionsOK, RowsFollow, At, Token, HalfOf
  <1>4. ASSUME NEW a \in Admin, GatewayLogin(a) PROVE IInv'
    <2>1. UNCHANGED <<sess, now, faults>>
      BY <1>4 DEF GatewayLogin
    <2>2. PICK pc \in {"cut", "in"} :
            admin' = [admin EXCEPT ![a] = [at |-> pc, half |-> "gateway", token |-> now]]
      BY <1>4 DEF GatewayLogin
    <2>3. /\ BrowsersOK'
          /\ admin'[a] = [at |-> pc, half |-> "gateway", token |-> now]
          /\ \A b \in Admin \ {a} : admin'[b] = admin[b]
      <3> pc \in Place /\ "gateway" \in Half
        BY DEF Place, Half
      <3> QED BY <2>2, BeginTypes
    <2> QED BY <2>1, <2>3 DEF SessionsOK, RowsFollow, At, Token, HalfOf
  <1>5. ASSUME NEW a \in Admin, Logout(a) PROVE IInv'
    <2>1. UNCHANGED <<sess, now, faults>>
      BY <1>5 DEF Logout
    <2>2. /\ BrowsersOK'
          /\ \A b \in Admin : /\ admin'[b].token = admin[b].token
                              /\ admin'[b].half = admin[b].half
                              /\ admin'[b].at = IF b = a THEN "revoke" ELSE admin[b].at
      BY <1>5, GotoTypes DEF Logout, Place
    <2> QED BY <1>5, <2>1, <2>2 DEF Logout, SessionsOK, RowsFollow, At, Token, HalfOf
  <1>6. ASSUME NEW a \in Admin, Revoke(a) PROVE IInv'
    <2>1. /\ BrowsersOK'
          /\ \A b \in Admin : /\ admin'[b].token = admin[b].token
                              /\ admin'[b].half = admin[b].half
                              /\ admin'[b].at = IF b = a THEN "left" ELSE admin[b].at
      BY <1>6, GotoTypes DEF Revoke, Place
    <2>2. CASE /\ sess' = [sess EXCEPT ![Token(a)] = IF @ = "none" THEN @ ELSE "revoked"]
               /\ UNCHANGED faults
      <3>1. SessionsOK'
        BY <1>0, <2>2 DEF SessionsOK
      <3>2. \A t \in Second : /\ sess[t] = "revoked" => sess'[t] = "revoked"
                              /\ sess[t] # "none" => sess'[t] # "none"
                              /\ t = Token(a) /\ sess[t] # "none" => sess'[t] = "revoked"
        BY <2>2 DEF SessionsOK
      <3>3. RowsFollow'
        BY <1>0, <1>6, <2>1, <2>2, <3>2 DEF RowsFollow, Revoke, At, Token, HalfOf
      <3> QED BY <1>6, <2>1, <2>2, <3>1, <3>3 DEF Revoke
    <2>3. CASE UNCHANGED sess /\ Fault
      BY <1>6, <2>1, <2>3 DEF Fault, SessionsOK, RowsFollow, Revoke
    <2> QED BY <1>6, <2>2, <2>3 DEF Revoke
  <1>7. ASSUME NEW cutOff, cutOff \subseteq Admin,
               UNCHANGED <<sess, now, faults>>,
               admin' = [a \in Admin |-> IF a \in cutOff
                            THEN [admin[a] EXCEPT !.at = Interrupted(@)] ELSE admin[a]]
        PROVE  IInv'
    <2>1. \A q \in Browser : LET p == [q EXCEPT !.at = Interrupted(@)]
                             IN  /\ p \in Browser /\ p.at = Interrupted(q.at)
                                 /\ p.half = q.half /\ p.token = q.token
      BY DEF Browser, Interrupted, Place
    <2>2. /\ BrowsersOK'
          /\ \A b \in Admin : /\ admin'[b].token = admin[b].token
                              /\ admin'[b].half = admin[b].half
                              /\ admin'[b].at \in {admin[b].at, Interrupted(admin[b].at)}
      BY <1>0, <1>7, <2>1 DEF BrowsersOK
    <2> QED BY <1>0, <1>7, <2>2
            DEF SessionsOK, RowsFollow, At, Token, HalfOf, Interrupted, Place
  <1>8. ASSUME Restart PROVE IInv'
    <2>1. /\ UNCHANGED <<sess, now, faults>>
          /\ admin' = [a \in Admin |-> IF a \in Admin
                          THEN [admin[a] EXCEPT !.at = Interrupted(@)] ELSE admin[a]]
      BY <1>8 DEF Restart
    <2> QED BY <1>7, <2>1
  <1>9. ASSUME TakeOver PROVE IInv'
    <2>1. /\ UNCHANGED <<sess, now, faults>>
          /\ admin' = [a \in Admin |-> [admin[a] EXCEPT !.at = IF @ = "in" THEN "cut" ELSE @]]
      BY <1>9 DEF TakeOver
    <2>2. \A q \in Browser : LET p == [q EXCEPT !.at = IF @ = "in" THEN "cut" ELSE @]
                             IN  /\ p \in Browser
                                 /\ p.at = IF q.at = "in" THEN "cut" ELSE q.at
                                 /\ p.half = q.half /\ p.token = q.token
      BY DEF Browser, Place
    <2>3. /\ BrowsersOK'
          /\ \A b \in Admin : /\ admin'[b].token = admin[b].token
                              /\ admin'[b].half = admin[b].half
                              /\ admin'[b].at = IF admin[b].at = "in" THEN "cut"
                                                ELSE admin[b].at
      BY <1>0, <2>1, <2>2 DEF BrowsersOK
    <2> QED BY <2>1, <2>3 DEF SessionsOK, RowsFollow, At, Token, HalfOf
  <1>10. ASSUME OldExits PROVE IInv'
    <2> DEFINE cutOff == {a \in Admin : a \in old}
    <2>1. /\ UNCHANGED <<sess, now, faults>>
          /\ admin' = [a \in Admin |-> IF a \in cutOff
                          THEN [admin[a] EXCEPT !.at = Interrupted(@)] ELSE admin[a]]
      BY <1>10 DEF OldExits
    <2>2. cutOff \subseteq Admin
      OBVIOUS
    <2> HIDE DEF cutOff
    <2> QED BY <1>7, <2>1, <2>2
  <1>11. ASSUME Tick PROVE IInv'
    BY <1>11, ControlConstants
       DEF Tick, Second, SessionsOK, BrowsersOK, RowsFollow, At, Token, HalfOf
  <1>12. ASSUME UNCHANGED <<sess, admin, now>>, faults' \in Nat, faults' = 0 => faults = 0
         PROVE  IInv'
    BY <1>12 DEF SessionsOK, BrowsersOK, RowsFollow, At, Token, HalfOf
  <1>13. ASSUME \/ \E ip \in Address : Block(ip) \/ Unblock(ip)
                \/ ReadBlocked \/ Clear \/ Enter \/ UNCHANGED vars
         PROVE  IInv'
    <2>1. UNCHANGED <<sess, admin, now>> /\ faults' \in Nat /\ (faults' = 0 => faults = 0)
      BY <1>13 DEF Block, Unblock, ReadBlocked, Clear, Enter, Fault, vars, logins
    <2> QED BY <1>12, <2>1
  <1>14. ASSUME NEW a \in Admin,
                \/ Prepare(a) \/ Insert(a) \/ Remember(a) \/ GatewayLogin(a)
                \/ Logout(a) \/ Revoke(a)
         PROVE  IInv'
    BY <1>1, <1>2, <1>3, <1>4, <1>5, <1>6, <1>14
  <1> HIDE DEF IInv
  <1> QED BY <1>8, <1>9, <1>10, <1>11, <1>13, <1>14 DEF Next

(* LogoutEnds, also against later logins of the same second, processes     *)
(* that restart or overlap and any other administrator.                    *)
THEOREM LogoutEndsAlways == Spec => []LogoutEnds
  <1>1. IInv => LogoutEnds
    BY DEF IInv, RowsFollow, LogoutEnds, Authed
  <1> QED BY <1>1, InitInv, StepInv, PTL DEF Spec

-----------------------------------------------------------------------------
(* Types of what LogoutEnds does not speak of.                             *)

MapsOK == csrf \in [Half -> [Second -> Admin \cup {NoAdmin}]]
MonitorOK == /\ ip_blocked \subseteq Address /\ blocked \subseteq Address
             /\ monitor \in [at : {"sleep", "clear", "enter"}, rows : SUBSET Address]
ProcessOK == /\ old \subseteq Admin /\ overlap \in BOOLEAN
             /\ faults \in 0 .. MAX_FAULTS /\ restarts \in 0 .. MAX_RESTARTS

LEMMA MapsStep == IInv /\ MapsOK /\ [Next]_vars => MapsOK'
  <1> SUFFICES ASSUME IInv, MapsOK, [Next]_vars PROVE MapsOK'
    OBVIOUS
  <1>1. ASSUME NEW h \in Half, NEW t \in Second, NEW b \in Admin \cup {NoAdmin},
               csrf' = [csrf EXCEPT ![h][t] = b]
        PROVE  MapsOK'
    BY <1>1 DEF MapsOK
  <1>2. ASSUME UNCHANGED csrf PROVE MapsOK'
    BY <1>2 DEF MapsOK
  <1>3. \A a \in Admin : Token(a) \in Second
    BY DEF IInv, BrowsersOK, Browser, Token
  <1>4. now \in Second /\ "platform" \in Half /\ "gateway" \in Half
    BY DEF IInv, Half
  <1>5. ASSUME NEW a \in Admin, Prepare(a) \/ Insert(a) \/ Revoke(a) PROVE MapsOK'
    BY <1>2, <1>5 DEF Prepare, Insert, Revoke
  <1>6. ASSUME NEW a \in Admin, Remember(a) PROVE MapsOK'
    <2>1. UNCHANGED csrf \/ csrf' = [csrf EXCEPT !["platform"][Token(a)] = a]
      BY <1>6 DEF Remember
    <2> QED BY <1>1, <1>2, <1>3, <1>4, <2>1
  <1>7. ASSUME NEW a \in Admin, GatewayLogin(a) PROVE MapsOK'
    <2>1. UNCHANGED csrf \/ csrf' = [csrf EXCEPT !["gateway"][now] = a]
      BY <1>7 DEF GatewayLogin
    <2> QED BY <1>1, <1>2, <1>4, <2>1
  <1>8. ASSUME NEW a \in Admin, Logout(a) PROVE MapsOK'
    <2>1. csrf' = [csrf EXCEPT !["platform"][Token(a)] = NoAdmin]
      BY <1>8 DEF Logout
    <2> QED BY <1>1, <1>3, <1>4, <2>1
  <1>9. CASE Restart \/ TakeOver
    BY <1>9 DEF Restart, TakeOver, Fresh, MapsOK
  <1>10. CASE OldExits \/ Tick \/ UNCHANGED vars
    BY <1>2, <1>10 DEF OldExits, Tick, vars
  <1>11. ASSUME NEW ip \in Address, Block(ip) \/ Unblock(ip) PROVE MapsOK'
    BY <1>2, <1>11 DEF Block, Unblock, logins
  <1>12. CASE ReadBlocked \/ Clear \/ Enter
    BY <1>2, <1>12 DEF ReadBlocked, Clear, Enter, logins
  <1> QED BY <1>5, <1>6, <1>7, <1>8, <1>9, <1>10, <1>11, <1>12 DEF Next

LEMMA MonitorStep == MonitorOK /\ [Next]_vars => MonitorOK'
  <1> SUFFICES ASSUME MonitorOK, [Next]_vars PROVE MonitorOK'
    OBVIOUS
  <1>1. ASSUME UNCHANGED blocks PROVE MonitorOK'
    BY <1>1 DEF MonitorOK, blocks
  <1>2. ASSUME NEW a \in Admin,
               \/ Prepare(a) \/ Insert(a) \/ Remember(a) \/ GatewayLogin(a)
               \/ Logout(a) \/ Revoke(a)
        PROVE  MonitorOK'
    BY <1>1, <1>2 DEF Prepare, Insert, Remember, GatewayLogin, Logout, Revoke
  <1>3. CASE OldExits \/ Tick \/ UNCHANGED vars
    BY <1>1, <1>3 DEF OldExits, Tick, vars, blocks
  <1>4. CASE Restart \/ TakeOver
    BY <1>4 DEF Restart, TakeOver, Fresh, MonitorOK
  <1>5. ASSUME NEW ip \in Address, Block(ip) \/ Unblock(ip) PROVE MonitorOK'
    BY <1>5 DEF Block, Unblock, MonitorOK
  <1>6. CASE ReadBlocked
    BY <1>6 DEF ReadBlocked, MonitorOK
  <1>7. CASE Clear
    BY <1>7 DEF Clear, MonitorOK
  <1>8. CASE Enter
    BY <1>8 DEF Enter, MonitorOK
  <1> QED BY <1>2, <1>3, <1>4, <1>5, <1>6, <1>7, <1>8 DEF Next

LEMMA ProcessStep == ProcessOK /\ [Next]_vars => ProcessOK'
  <1> SUFFICES ASSUME ProcessOK, [Next]_vars PROVE ProcessOK'
    OBVIOUS
  <1> USE ControlConstants
  <1>1. MAX_FAULTS \in Nat /\ MAX_RESTARTS \in Nat
    OBVIOUS
  <1>2. faults' \in 0 .. MAX_FAULTS
    <2>1. UNCHANGED faults \/ Fault
      BY DEF Next, Prepare, Insert, Remember, GatewayLogin, Logout, Revoke, Restart, TakeOver,
             OldExits, Tick, Block, Unblock, ReadBlocked, Clear, Enter, vars
    <2> QED BY <1>1, <2>1 DEF Fault, ProcessOK
  <1>3. restarts' \in 0 .. MAX_RESTARTS
    <2>1. UNCHANGED restarts \/ (restarts < MAX_RESTARTS /\ restarts' = restarts + 1)
      BY DEF Next, Prepare, Insert, Remember, GatewayLogin, Logout, Revoke, Restart, TakeOver,
             Fresh, OldExits, Tick, Block, Unblock, ReadBlocked, Clear, Enter, vars
    <2> QED BY <1>1, <2>1 DEF ProcessOK
  <1>4. old' \subseteq Admin /\ overlap' \in BOOLEAN
    <2>1. ASSUME NEW a \in Admin, Prepare(a) PROVE old' \subseteq Admin /\ UNCHANGED overlap
      BY <2>1 DEF Prepare, Lands, ProcessOK
    <2>2. ASSUME NEW a \in Admin,
                 \/ Insert(a) \/ Remember(a) \/ GatewayLogin(a) \/ Logout(a) \/ Revoke(a)
          PROVE  old' \subseteq old /\ UNCHANGED overlap
      BY <2>2 DEF Insert, Remember, GatewayLogin, Logout, Revoke
    <2>3. CASE Restart \/ TakeOver \/ OldExits
      BY <2>3 DEF Restart, TakeOver, OldExits
    <2>4. CASE \/ Tick \/ (\E ip \in Address : Block(ip) \/ Unblock(ip))
               \/ ReadBlocked \/ Clear \/ Enter \/ UNCHANGED vars
      BY <2>4 DEF Tick, Block, Unblock, ReadBlocked, Clear, Enter, logins, vars, ProcessOK
    <2> QED BY <2>1, <2>2, <2>3, <2>4 DEF Next, ProcessOK
  <1> QED BY <1>2, <1>3, <1>4 DEF ProcessOK

(* Sessions, CSRF maps, browsers, the copy of the blocked addresses and the*)
(* refresh under way keep their types, through restarts and hot updates    *)
(* (platform/handler/admin.rs, gateway/handler/admin.rs, gateway/detect.rs)*)
THEOREM TypeCorrect == Spec => []TypeOK
  <1> DEFINE Typed == IInv /\ MapsOK /\ MonitorOK /\ ProcessOK
  <1>1. Init => Typed
    <2> SUFFICES ASSUME Init PROVE Typed
      OBVIOUS
    <2>1. MapsOK
      BY DEF Init, MapsOK
    <2>2. MonitorOK
      BY DEF Init, MonitorOK
    <2>3. ProcessOK
      <3>1. MAX_FAULTS \in Nat /\ MAX_RESTARTS \in Nat
        BY ControlConstants
      <3>2. faults \in 0 .. MAX_FAULTS /\ restarts \in 0 .. MAX_RESTARTS
        BY <3>1 DEF Init
      <3>3. old \subseteq Admin /\ overlap \in BOOLEAN
        BY Zenon DEF Init
      <3> QED BY <3>2, <3>3 DEF ProcessOK
    <2> QED BY <2>1, <2>2, <2>3, InitInv
  <1>2. Typed /\ [Next]_vars => Typed'
    BY StepInv, MapsStep, MonitorStep, ProcessStep
  <1>3. Typed => TypeOK
    BY DEF IInv, SessionsOK, BrowsersOK, Browser, Place, MapsOK, MonitorOK, ProcessOK, TypeOK
  <1> QED BY <1>1, <1>2, <1>3, PTL DEF Spec

-----------------------------------------------------------------------------
(* What a login that was answered rests on: the number of tokens its half  *)
(* made in its second.                                                     *)

(* Browsers whose token was made by the half they are at; one that logged  *)
(* in at the gateway's process before is not counted.                      *)
Counted(a) == ~At(a, "out") /\ (HalfOf(a) = "platform" \/ At(a, "in"))
MadeOf(a) == made[HalfOf(a)][Token(a)]
SameToken(a, b) == HalfOf(a) = HalfOf(b) /\ Token(a) = Token(b)

MadeOK == made \in [Half -> [Second -> 0 .. 2]]
Sided == \A a \in Admin :
    admin[a].at \in {"insert", "map", "revoke", "left"} => HalfOf(a) = "platform"
TokensCounted == \A a \in Admin : Counted(a) => MadeOf(a) >= 1

(* A token made once has one holder, and before the first there is no row: *)
(* who makes it finds the row free, and nobody else can write the row or   *)
(* the map's entry, or revoke them.                                        *)
OneHolder == \A a, b \in Admin :
    Counted(a) /\ Counted(b) /\ SameToken(a, b) /\ MadeOf(a) = 1 => a = b
RowsCounted == \A t \in Second : made["platform"][t] = 0 => sess[t] = "none"

(* How far the holder of such a token has come.                            *)
Kept(a) ==
    /\ At(a, "insert") => sess[Token(a)] = "none"
    /\ admin[a].at \in {"map", "in"} /\ HalfOf(a) = "platform" => sess[Token(a)] = "live"
    /\ At(a, "in") => csrf[HalfOf(a)][Token(a)] = a
LoginsKept == faults = 0 => \A a \in Admin : Counted(a) /\ MadeOf(a) = 1 => Kept(a)

LInv == MadeOK /\ MapsOK /\ Sided /\ TokensCounted /\ OneHolder /\ RowsCounted /\ LoginsKept

(* A step in which nobody makes a token leaves the counts alone.           *)
LEMMA NothingMade ==
    ASSUME MadeOK, Note, \A h \in Half, t \in Second : ~Makes(h, t)
    PROVE  made' = made
  <1>1. made = [h \in Half |-> [t \in Second |-> made[h][t]]]
    BY DEF MadeOK
  <1> QED BY <1>1 DEF Note

(* A login makes the token of its second and nothing else.                 *)
LEMMA OneMade ==
    ASSUME BrowsersOK, MadeOK, now \in Second, Note,
           NEW a \in Admin, NEW h \in Half, admin[a].at \in {"out", "cut", "left"},
           admin'[a].at \in {"insert", "in"}, admin'[a].half = h, admin'[a].token = now,
           \A b \in Admin \ {a} : admin'[b] = admin[b]
    PROVE  /\ MadeOK'
           /\ made'[h][now] = IF made[h][now] < 2 THEN made[h][now] + 1 ELSE made[h][now]
           /\ \A g \in Half, t \in Second :
                 <<g, t>> # <<h, now>> => made'[g][t] = made[g][t]
  <1>1. Makes(h, now)
    BY DEF Makes
  <1>2. \A g \in Half, t \in Second : <<g, t>> # <<h, now>> => ~Makes(g, t)
    BY DEF Makes
  <1>3. \A g \in Half, t \in Second :
           made'[g][t] = IF Makes(g, t) /\ made[g][t] < 2 THEN made[g][t] + 1 ELSE made[g][t]
    BY DEF Note
  <1>4. \A g \in Half, t \in Second : made[g][t] \in 0 .. 2
    BY DEF MadeOK
  <1>5. \A g \in Half, t \in Second :
           (IF Makes(g, t) /\ made[g][t] < 2 THEN made[g][t] + 1 ELSE made[g][t]) \in 0 .. 2
    BY <1>4
  <1>6. MadeOK'
    BY <1>5 DEF Note, MadeOK
  <1> QED BY <1>1, <1>2, <1>3, <1>6

(* Steps that make no token, after which whoever still holds one has what  *)
(* it had.                                                                 *)
LEMMA QuietStep ==
    ASSUME LInv, UNCHANGED made, MapsOK', Sided', RowsCounted',
           faults' = 0 => faults = 0,
           \A a \in Admin : Counted(a)' => /\ Counted(a)
                                           /\ admin'[a].token = admin[a].token
                                           /\ admin'[a].half = admin[a].half,
           faults' = 0 =>
              \A a \in Admin : Counted(a)' /\ MadeOf(a) = 1 /\ Kept(a) => Kept(a)'
    PROVE  LInv'
  <1>1. \A a \in Admin : Counted(a)' => /\ MadeOf(a)' = MadeOf(a)
                                        /\ HalfOf(a)' = HalfOf(a) /\ Token(a)' = Token(a)
    BY DEF MadeOf, HalfOf, Token
  <1>2. MadeOK'
    BY DEF LInv, MadeOK
  <1>3. TokensCounted'
    BY <1>1 DEF LInv, TokensCounted
  <1>4. OneHolder'
    BY <1>1 DEF LInv, OneHolder, SameToken
  <1>5. LoginsKept'
    BY <1>1 DEF LInv, LoginsKept
  <1> QED BY <1>2, <1>3, <1>4, <1>5 DEF LInv

(* Nobody else holds a token that was made once.                           *)
LEMMA Alone ==
    ASSUME LInv, NEW a \in Admin, NEW b \in Admin, Counted(a), Counted(b), a # b,
           MadeOf(b) = 1
    PROVE  ~SameToken(b, a)
  BY DEF LInv, OneHolder

(* A login, at either half: before it nobody held its token, or it was     *)
(* made before and is from now on made more than once.                     *)
LEMMA LoginStep ==
    ASSUME IInv, BrowsersOK', LInv, Note, NEW a \in Admin, NEW h \in Half,
           admin[a].at \in {"out", "cut", "left"},
           \/ /\ h = "platform" /\ admin'[a].at = "insert" /\ UNCHANGED csrf
           \/ /\ h = "gateway" /\ admin'[a].at = "in"
              /\ csrf' = [csrf EXCEPT ![h][now] = a],
           admin'[a].half = h, admin'[a].token = now,
           \A b \in Admin \ {a} : admin'[b] = admin[b],
           UNCHANGED <<sess, faults>>
    PROVE  LInv'
  <1> USE DEF IInv
  <1>1. /\ MadeOK'
        /\ made'[h][now] = IF made[h][now] < 2 THEN made[h][now] + 1 ELSE made[h][now]
        /\ \A g \in Half, t \in Second :
              <<g, t>> # <<h, now>> => made'[g][t] = made[g][t]
    BY OneMade DEF LInv
  <1>2. \A g \in Half, t \in Second : made[g][t] \in 0 .. 2
    BY DEF LInv, MadeOK
  <1>3. \A b \in Admin : HalfOf(b) \in Half /\ Token(b) \in Second
    BY DEF BrowsersOK, Browser, HalfOf, Token
  <1>4. \A b \in Admin \ {a} : /\ HalfOf(b)' = HalfOf(b) /\ Token(b)' = Token(b)
                                /\ admin'[b].at = admin[b].at
                                /\ Counted(b)' = Counted(b)
    BY DEF HalfOf, Token, Counted, At
  <1>5. HalfOf(a)' = h /\ Token(a)' = now /\ MadeOf(a)' = made'[h][now]
    BY DEF HalfOf, Token, MadeOf
  <1>6. ASSUME NEW b \in Admin \ {a}, Counted(b)
        PROVE  \/ MadeOf(b)' = 2
               \/ /\ MadeOf(b)' = MadeOf(b)
                  /\ <<HalfOf(b), Token(b)>> # <<h, now>>
    <2>1. MadeOf(b)' = made'[HalfOf(b)][Token(b)] /\ MadeOf(b) = made[HalfOf(b)][Token(b)]
      BY <1>4 DEF MadeOf, HalfOf, Token
    <2>2. CASE <<HalfOf(b), Token(b)>> = <<h, now>>
      <3>1. made[h][now] \in 1 .. 2
        BY <1>2, <1>3, <1>6, <2>1, <2>2 DEF LInv, TokensCounted
      <3> QED BY <1>1, <2>1, <2>2, <3>1
    <2>3. CASE <<HalfOf(b), Token(b)>> # <<h, now>>
      BY <1>1, <1>3, <2>1, <2>3
    <2> QED BY <2>2, <2>3
  <1>7. h \in Half /\ now \in Second /\ made'[h][now] \in 1 .. 2
    BY <1>1, <1>2
  <1>8. TokensCounted'
    BY <1>4, <1>5, <1>6, <1>7 DEF LInv, TokensCounted
  <1>9. OneHolder'
    <2> SUFFICES ASSUME NEW b \in Admin, NEW c \in Admin, b # c,
                        Counted(b)', Counted(c)', SameToken(b, c)', MadeOf(b)' = 1
                 PROVE  FALSE
      BY DEF OneHolder
    <2>1. MadeOf(c)' = 1
      BY DEF SameToken, MadeOf
    <2>2. CASE b = a
      <3>1. HalfOf(c) = h /\ Token(c) = now /\ Counted(c) /\ c \in Admin \ {a}
        BY <1>4, <1>5, <2>2 DEF SameToken
      <3>2. MadeOf(c)' = 2
        BY <1>6, <3>1
      <3> QED BY <2>1, <3>2
    <2>3. CASE c = a
      BY <1>4, <1>5, <1>6, <2>3 DEF SameToken
    <2>4. CASE b # a /\ c # a
      BY <1>4, <1>6, <2>4 DEF LInv, OneHolder, SameToken
    <2> QED BY <2>2, <2>3, <2>4
  <1>10. RowsCounted'
    BY <1>1, <1>7 DEF LInv, RowsCounted, Half
  <1>11. MapsOK'
    BY DEF LInv, MapsOK
  <1>12. Sided'
    BY <1>4, <1>5 DEF LInv, Sided
  <1>13. LoginsKept'
    <2> SUFFICES ASSUME faults = 0, NEW b \in Admin, Counted(b)', MadeOf(b)' = 1
                 PROVE  Kept(b)'
      BY DEF LoginsKept
    <2>1. CASE b = a
      <3>1. h = "platform" => made[h][now] = 0
        BY <1>1, <1>2, <1>5, <2>1
      <3>2. h = "platform" => sess[now] = "none"
        BY <1>7, <3>1 DEF LInv, RowsCounted
      <3>3. h = "gateway" => csrf'[h][now] = a
        BY <1>7 DEF LInv, MapsOK
      <3> QED BY <1>5, <2>1, <3>2, <3>3 DEF Kept, At
    <2>2. CASE b # a
      <3>1. Counted(b) /\ MadeOf(b) = 1 /\ <<HalfOf(b), Token(b)>> # <<h, now>>
        BY <1>4, <1>6, <2>2
      <3>2. Kept(b)
        BY <3>1 DEF LInv, LoginsKept
      <3>3. csrf'[HalfOf(b)][Token(b)] = csrf[HalfOf(b)][Token(b)]
        BY <1>3, <1>7, <3>1 DEF LInv, MapsOK
      <3> QED BY <1>4, <2>2, <3>2, <3>3 DEF Kept, At
    <2> QED BY <2>1, <2>2
  <1> QED BY <1>1, <1>8, <1>9, <1>10, <1>11, <1>12, <1>13 DEF LInv

-----------------------------------------------------------------------------
(* Nobody holds a token at the start.                                      *)
LEMMA LInit == HInit => LInv
  BY ControlConstants
     DEF HInit, Init, LInv, MadeOK, MapsOK, Sided, TokensCounted, OneHolder, RowsCounted,
         LoginsKept, Counted, At, Half, Second

(* Only logins make tokens.                                                *)
LEMMA NoLogin ==
    ASSUME BrowsersOK,
           \/ \E a \in Admin : Insert(a) \/ Remember(a) \/ Logout(a) \/ Revoke(a)
           \/ Restart \/ TakeOver \/ OldExits \/ Tick
           \/ \E ip \in Address : Block(ip) \/ Unblock(ip)
           \/ ReadBlocked \/ Clear \/ Enter
    PROVE  \A h \in Half, t \in Second : ~Makes(h, t)
  <1> SUFFICES ASSUME NEW b \in Admin, admin[b].at \in {"out", "cut", "left"},
                      admin'[b].at \in {"insert", "in"}
               PROVE  FALSE
    BY DEF Makes
  <1>1. ASSUME NEW a \in Admin, Insert(a) \/ Remember(a) \/ Logout(a) \/ Revoke(a)
        PROVE  FALSE
    <2>1. \A pc \in Place : Goto(a, pc) => admin'[b].at = IF b = a THEN pc ELSE admin[b].at
      BY GotoTypes
    <2>2. \/ Goto(a, "map") \/ Goto(a, "cut") \/ Goto(a, "revoke") \/ Goto(a, "left")
          \/ At(a, "map") /\ Goto(a, "in")
      BY <1>1 DEF Insert, Remember, Logout, Revoke
    <2> QED BY <2>1, <2>2 DEF At, Place
  <1>2. CASE Restart \/ TakeOver \/ OldExits
    <2>1. admin[b] \in Browser
      BY DEF BrowsersOK
    <2>2. admin'[b].at \in {admin[b].at, Interrupted(admin[b].at), "cut"}
      BY <1>2, <2>1 DEF Restart, TakeOver, OldExits, Browser
    <2> QED BY <2>2 DEF Interrupted
  <1>3. CASE \/ Tick \/ ReadBlocked \/ Clear \/ Enter
             \/ \E ip \in Address : Block(ip) \/ Unblock(ip)
    BY <1>3 DEF Tick, ReadBlocked, Clear, Enter, Block, Unblock, logins
  <1> QED BY <1>1, <1>2, <1>3

(* One step per action, and under it what it may take from a holder.       *)
LEMMA LStep == IInv /\ IInv' /\ LInv /\ [HNext]_hvars => LInv'
  <1> SUFFICES ASSUME IInv, IInv', LInv, [HNext]_hvars PROVE LInv'
    OBVIOUS
  <1>0. \A a \in Admin : /\ HalfOf(a) \in Half /\ Token(a) \in Second
                         /\ admin[a] \in Browser /\ admin[a].at \in Place
    BY DEF IInv, BrowsersOK, Browser, HalfOf, Token
  <1>1. MapsOK /\ Sided /\ RowsCounted /\ MadeOK
    BY DEF LInv
  <1>2. SessionsOK /\ BrowsersOK /\ BrowsersOK' /\ now \in Second
    BY DEF IInv
  <1>3. ASSUME NEW a \in Admin, Prepare(a), Note PROVE LInv'
    <2>1. /\ admin'[a] = [at |-> "insert", half |-> "platform", token |-> now]
          /\ \A b \in Admin \ {a} : admin'[b] = admin[b]
      <3> "insert" \in Place /\ "platform" \in Half
        BY DEF Place, Half
      <3> QED BY <1>2, <1>3, BeginTypes DEF Prepare
    <2>2. UNCHANGED <<sess, csrf, faults>> /\ admin[a].at \in {"out", "cut", "left"}
      BY <1>3 DEF Prepare
    <2> QED BY <1>2, <1>3, <2>1, <2>2, LoginStep DEF Half
  <1>4. ASSUME NEW a \in Admin, Insert(a), UNCHANGED made PROVE LInv'
    <2>1. \A b \in Admin : /\ admin'[b].token = admin[b].token
                           /\ admin'[b].half = admin[b].half
                           /\ admin'[b].at = IF b = a THEN "map" ELSE admin[b].at
      BY <1>2, <1>4, GotoTypes DEF Insert, Place
    <2>2. At(a, "insert") /\ UNCHANGED csrf
      BY <1>4 DEF Insert
    <2>3. HalfOf(a) = "platform" /\ Counted(a)
      BY <1>1, <2>2 DEF Sided, At, Counted
    <2>4. \A b \in Admin : Counted(b)' => Counted(b)
      BY <2>1, <2>3 DEF Counted, At, HalfOf
    <2>5. MapsOK'
      BY <1>1, <2>2 DEF MapsOK
    <2>6. Sided'
      BY <1>1, <2>1, <2>3 DEF Sided, HalfOf
    <2>7. CASE sess' = [sess EXCEPT ![Token(a)] = RowAfter(@)] /\ UNCHANGED faults
      <3>1. made["platform"][Token(a)] # 0
        BY <2>3 DEF LInv, TokensCounted, MadeOf
      <3>2. \A t \in Second : t # Token(a) => sess'[t] = sess[t]
        BY <1>2, <2>7 DEF SessionsOK
      <3>3. RowsCounted'
        BY <1>1, <1>4, <3>1, <3>2 DEF RowsCounted
      <3>4. ASSUME NEW b \in Admin, Counted(b)', MadeOf(b) = 1, Kept(b) PROVE Kept(b)'
        <4>1. CASE b = a
          <5>1. sess[Token(a)] = "none"
            BY <2>2, <3>4, <4>1 DEF Kept
          <5>2. sess'[Token(a)] = "live"
            BY <1>0, <1>2, <2>7, <5>1 DEF SessionsOK, RowAfter
          <5> QED BY <2>1, <4>1, <5>2 DEF Kept, At, Token
        <4>2. CASE b # a
          <5>1. ~SameToken(b, a)
            BY <2>3, <2>4, <3>4, <4>2, Alone
          <5>2. HalfOf(b) = "platform" => sess'[Token(b)] = sess[Token(b)]
            BY <1>0, <2>3, <3>2, <5>1 DEF SameToken
          <5>3. At(b, "insert") => HalfOf(b) = "platform"
            BY <1>1 DEF Sided, At
          <5> QED BY <2>1, <2>2, <3>4, <4>2, <5>2, <5>3 DEF Kept, At, Token, HalfOf
        <4> QED BY <4>1, <4>2
      <3> QED BY <1>4, <2>1, <2>4, <2>5, <2>6, <2>7, <3>3, <3>4, QuietStep
    <2>8. CASE UNCHANGED sess /\ Fault
      <3>1. faults' # 0
        BY <2>8 DEF Fault, IInv
      <3>2. RowsCounted'
        BY <1>1, <1>4, <2>8 DEF RowsCounted
      <3> QED BY <1>4, <2>1, <2>4, <2>5, <2>6, <3>1, <3>2, QuietStep
    <2> QED BY <1>4, <2>7, <2>8 DEF Insert
  <1>5. ASSUME NEW a \in Admin, Remember(a), UNCHANGED made PROVE LInv'
    <2>1. At(a, "map") /\ UNCHANGED <<sess, faults>>
      BY <1>5 DEF Remember
    <2>2. HalfOf(a) = "platform" /\ Counted(a)
      BY <1>1, <2>1 DEF Sided, At, Counted
    <2>3. PICK pc \in {"cut", "in"} :
             /\ Goto(a, pc)
             /\ \/ pc = "cut" /\ UNCHANGED csrf
                \/ pc = "in" /\ csrf' = [csrf EXCEPT !["platform"][Token(a)] = a]
      BY <1>5 DEF Remember
    <2>4. \A b \in Admin : /\ admin'[b].token = admin[b].token
                           /\ admin'[b].half = admin[b].half
                           /\ admin'[b].at = IF b = a THEN pc ELSE admin[b].at
      <3> pc \in Place
        BY DEF Place
      <3> QED BY <1>2, <2>3, GotoTypes
    <2>5. \A b \in Admin : Counted(b)' => Counted(b)
      BY <2>2, <2>4 DEF Counted, At, HalfOf
    <2>6. MapsOK'
      BY <1>1, <2>3 DEF MapsOK
    <2>7. Sided' /\ RowsCounted'
      BY <1>1, <1>5, <2>1, <2>3, <2>4 DEF Sided, RowsCounted, HalfOf
    <2>8. \A h \in Half, t \in Second :
             <<h, t>> # <<"platform", Token(a)>> => csrf'[h][t] = csrf[h][t]
      BY <1>1, <2>3 DEF MapsOK
    <2>9. ASSUME NEW b \in Admin, Counted(b)', MadeOf(b) = 1, Kept(b) PROVE Kept(b)'
      <3>1. CASE b = a
        <4>1. sess[Token(a)] = "live"
          BY <2>1, <2>2, <2>9, <3>1 DEF Kept, At
        <4>2. pc = "in" => csrf'["platform"][Token(a)] = a
          BY <1>0, <1>1, <2>3 DEF MapsOK, Half
        <4> QED BY <2>1, <2>2, <2>3, <2>4, <3>1, <4>1, <4>2 DEF Kept, At, Token, HalfOf
      <3>2. CASE b # a
        <4>1. ~SameToken(b, a)
          BY <2>2, <2>5, <2>9, <3>2, Alone
        <4>2. csrf'[HalfOf(b)][Token(b)] = csrf[HalfOf(b)][Token(b)]
          BY <1>0, <2>2, <2>8, <4>1 DEF SameToken
        <4> QED BY <2>1, <2>4, <2>9, <3>2, <4>2 DEF Kept, At, Token, HalfOf
      <3> QED BY <3>1, <3>2
    <2> QED BY <1>5, <2>1, <2>4, <2>5, <2>6, <2>7, <2>9, QuietStep
  <1>6. ASSUME NEW a \in Admin, GatewayLogin(a), Note PROVE LInv'
    <2>1. UNCHANGED <<sess, faults>> /\ admin[a].at \in {"out", "cut", "left"}
      BY <1>6 DEF GatewayLogin
    <2>2. PICK pc \in {"cut", "in"} :
             /\ admin' = [admin EXCEPT ![a] = [at |-> pc, half |-> "gateway", token |-> now]]
             /\ pc = "in" => csrf' = [csrf EXCEPT !["gateway"][now] = a]
             /\ pc = "cut" => UNCHANGED csrf
      BY <1>6 DEF GatewayLogin
    <2>3. /\ admin'[a] = [at |-> pc, half |-> "gateway", token |-> now]
          /\ \A b \in Admin \ {a} : admin'[b] = admin[b]
      <3> pc \in Place /\ "gateway" \in Half
        BY DEF Place, Half
      <3> QED BY <1>2, <2>2, BeginTypes
    <2>4. CASE pc = "in"
      BY <1>2, <1>6, <2>1, <2>2, <2>3, <2>4, LoginStep DEF Half
    <2>5. CASE pc = "cut"
      <3>1. \A h \in Half, t \in Second : ~Makes(h, t)
        BY <2>3, <2>5 DEF Makes
      <3>2. UNCHANGED made
        BY <1>1, <1>6, <3>1, NothingMade
      <3>3. \A b \in Admin : Counted(b)' => b # a /\ Counted(b) /\ admin'[b] = admin[b]
        BY <2>3, <2>5 DEF Counted, At, HalfOf
      <3>4. MapsOK' /\ Sided' /\ RowsCounted'
        BY <1>1, <2>1, <2>2, <2>3, <2>5, <3>2 DEF MapsOK, Sided, RowsCounted, HalfOf
      <3>5. \A b \in Admin : Counted(b)' /\ Kept(b) => Kept(b)'
        BY <2>1, <2>2, <2>5, <3>3 DEF Kept, At, Token, HalfOf
      <3> QED BY <2>1, <3>2, <3>3, <3>4, <3>5, QuietStep
    <2> QED BY <2>4, <2>5
  <1>7. ASSUME NEW a \in Admin, Logout(a), UNCHANGED made PROVE LInv'
    <2>1. /\ admin[a].at \in {"in", "cut"} /\ HalfOf(a) = "platform"
          /\ csrf' = [csrf EXCEPT !["platform"][Token(a)] = NoAdmin]
          /\ UNCHANGED <<sess, faults>>
      BY <1>7 DEF Logout
    <2>2. \A b \in Admin : /\ admin'[b].token = admin[b].token
                           /\ admin'[b].half = admin[b].half
                           /\ admin'[b].at = IF b = a THEN "revoke" ELSE admin[b].at
      BY <1>2, <1>7, GotoTypes DEF Logout, Place
    <2>3. Counted(a) /\ \A b \in Admin : Counted(b)' => Counted(b)
      BY <2>1, <2>2 DEF Counted, At, HalfOf
    <2>4. MapsOK' /\ Sided' /\ RowsCounted'
      BY <1>1, <1>7, <2>1, <2>2 DEF MapsOK, Sided, RowsCounted, HalfOf
    <2>5. \A h \in Half, t \in Second :
             <<h, t>> # <<"platform", Token(a)>> => csrf'[h][t] = csrf[h][t]
      BY <1>1, <2>1 DEF MapsOK
    <2>6. ASSUME NEW b \in Admin, Counted(b)', MadeOf(b) = 1, Kept(b) PROVE Kept(b)'
      <3>1. CASE b = a
        BY <2>2, <3>1 DEF Kept, At
      <3>2. CASE b # a
        <4>1. ~SameToken(b, a)
          BY <2>3, <2>6, <3>2, Alone
        <4>2. csrf'[HalfOf(b)][Token(b)] = csrf[HalfOf(b)][Token(b)]
          BY <1>0, <2>1, <2>5, <4>1 DEF SameToken
        <4> QED BY <2>1, <2>2, <2>6, <3>2, <4>2 DEF Kept, At, Token, HalfOf
      <3> QED BY <3>1, <3>2
    <2> QED BY <1>7, <2>1, <2>2, <2>3, <2>4, <2>6, QuietStep
  <1>8. ASSUME NEW a \in Admin, Revoke(a), UNCHANGED made PROVE LInv'
    <2>1. At(a, "revoke") /\ UNCHANGED csrf /\ (faults' = 0 => faults = 0)
      BY <1>8 DEF Revoke, Fault, IInv
    <2>2. PICK row \in {sess[Token(a)], "revoked"} :
             /\ sess' = [sess EXCEPT ![Token(a)] = row]
             /\ sess[Token(a)] = "none" => row = "none"
      BY <1>0, <1>2, <1>8 DEF Revoke, SessionsOK
    <2>3. \A b \in Admin : /\ admin'[b].token = admin[b].token
                           /\ admin'[b].half = admin[b].half
                           /\ admin'[b].at = IF b = a THEN "left" ELSE admin[b].at
      BY <1>2, <1>8, GotoTypes DEF Revoke, Place
    <2>4. HalfOf(a) = "platform" /\ Counted(a)
      BY <1>1, <2>1 DEF Sided, At, Counted
    <2>5. \A b \in Admin : Counted(b)' => Counted(b)
      BY <2>3, <2>4 DEF Counted, At, HalfOf
    <2>6. \A t \in Second : /\ sess[t] = "none" => sess'[t] = "none"
                            /\ t # Token(a) => sess'[t] = sess[t]
      BY <1>2, <2>2 DEF SessionsOK
    <2>7. MapsOK' /\ Sided' /\ RowsCounted'
      BY <1>1, <1>8, <2>1, <2>3, <2>4, <2>6 DEF MapsOK, Sided, RowsCounted, HalfOf
    <2>8. ASSUME NEW b \in Admin, Counted(b)', MadeOf(b) = 1, Kept(b) PROVE Kept(b)'
      <3>1. CASE b = a
        BY <2>3, <3>1 DEF Kept, At
      <3>2. CASE b # a
        <4>1. ~SameToken(b, a)
          BY <2>4, <2>5, <2>8, <3>2, Alone
        <4>2. HalfOf(b) = "platform" => sess'[Token(b)] = sess[Token(b)]
          BY <1>0, <2>4, <2>6, <4>1 DEF SameToken
        <4>3. At(b, "insert") => HalfOf(b) = "platform"
          BY <1>1 DEF Sided, At
        <4> QED BY <2>1, <2>3, <2>8, <3>2, <4>2, <4>3 DEF Kept, At, Token, HalfOf
      <3> QED BY <3>1, <3>2
    <2> QED BY <1>8, <2>1, <2>3, <2>5, <2>7, <2>8, QuietStep
  <1>9. ASSUME UNCHANGED <<sess, faults, made>>, MapsOK',
               \A b \in Admin : /\ admin'[b].token = admin[b].token
                                /\ admin'[b].half = admin[b].half
                                /\ \/ admin'[b].at = admin[b].at
                                   \/ admin'[b].at = "out"
                                   \/ admin'[b].at = "cut" /\ admin[b].at \in {"in", "revoke"}
                                /\ admin'[b].at = "in" => UNCHANGED csrf
        PROVE  LInv'
    <2>1. \A b \in Admin : admin'[b].at = "cut" /\ admin[b].at = "revoke" =>
                              HalfOf(b) = "platform"
      BY <1>1 DEF Sided
    <2>2. \A b \in Admin : Counted(b)' => Counted(b)
      BY <1>9, <2>1 DEF Counted, At, HalfOf
    <2>3. Sided' /\ RowsCounted'
      BY <1>1, <1>9 DEF Sided, RowsCounted, HalfOf
    <2>4. \A b \in Admin : Kept(b) => Kept(b)'
      BY <1>9 DEF Kept, At, Token, HalfOf
    <2> QED BY <1>9, <2>2, <2>3, <2>4, QuietStep
  <1>10. ASSUME Restart, UNCHANGED made PROVE LInv'
    <2>1. \A b \in Admin : /\ admin'[b].token = admin[b].token
                           /\ admin'[b].half = admin[b].half
                           /\ admin'[b].at = Interrupted(admin[b].at)
      BY <1>0, <1>10 DEF Restart, Browser
    <2>2. \A b \in Admin : /\ admin'[b].at # "in"
                           /\ \/ admin'[b].at = admin[b].at
                              \/ admin'[b].at = "out"
                              \/ admin'[b].at = "cut" /\ admin[b].at \in {"in", "revoke"}
      BY <1>0, <2>1 DEF Interrupted, Place
    <2>3. UNCHANGED <<sess, faults>> /\ MapsOK'
      BY <1>10 DEF Restart, Fresh, MapsOK
    <2> QED BY <1>9, <1>10, <2>1, <2>2, <2>3
  <1>11. ASSUME TakeOver, UNCHANGED made PROVE LInv'
    <2>1. \A b \in Admin : /\ admin'[b].token = admin[b].token
                           /\ admin'[b].half = admin[b].half
                           /\ admin'[b].at = IF admin[b].at = "in" THEN "cut"
                                             ELSE admin[b].at
      BY <1>0, <1>11 DEF TakeOver, Browser
    <2>2. UNCHANGED <<sess, faults>> /\ MapsOK'
      BY <1>11 DEF TakeOver, Fresh, MapsOK
    <2> QED BY <1>9, <1>11, <2>1, <2>2
  <1>12. ASSUME OldExits, UNCHANGED made PROVE LInv'
    <2>1. \A b \in Admin : /\ admin'[b].token = admin[b].token
                           /\ admin'[b].half = admin[b].half
                           /\ admin'[b].at \in {admin[b].at, Interrupted(admin[b].at)}
      BY <1>0, <1>12 DEF OldExits, Browser
    <2>2. \A b \in Admin : \/ admin'[b].at = admin[b].at
                           \/ admin'[b].at = "out"
                           \/ admin'[b].at = "cut" /\ admin[b].at \in {"in", "revoke"}
      BY <1>0, <2>1 DEF Interrupted, Place
    <2>3. UNCHANGED <<sess, faults, csrf>> /\ MapsOK'
      BY <1>1, <1>12 DEF OldExits, MapsOK
    <2> QED BY <1>9, <1>12, <2>1, <2>2, <2>3
  <1>13. ASSUME UNCHANGED <<sess, csrf, admin, made>>, faults' = 0 => faults = 0 PROVE LInv'
    <2>1. MapsOK' /\ Sided' /\ RowsCounted'
      BY <1>1, <1>13 DEF MapsOK, Sided, RowsCounted, HalfOf
    <2>2. \A b \in Admin : /\ Counted(b)' => Counted(b)
                           /\ Kept(b) => Kept(b)'
      BY <1>13 DEF Counted, Kept, At, Token, HalfOf
    <2> QED BY <1>13, <2>1, <2>2, QuietStep
  <1>14. ASSUME \/ \E ip \in Address : Block(ip) \/ Unblock(ip)
                \/ Tick \/ ReadBlocked \/ Clear \/ Enter, UNCHANGED made
         PROVE  LInv'
    <2>1. UNCHANGED <<sess, csrf, admin>> /\ (faults' = 0 => faults = 0)
      BY <1>14 DEF Block, Unblock, Tick, ReadBlocked, Clear, Enter, Fault, logins, IInv
    <2> QED BY <1>13, <1>14, <2>1
  <1>15. CASE UNCHANGED hvars
    BY <1>13, <1>15 DEF hvars, vars
  <1>16. CASE HNext
    <2>1. Next /\ Note
      BY <1>16 DEF HNext
    <2>2. CASE \E a \in Admin : Prepare(a) \/ GatewayLogin(a)
      BY <1>3, <1>6, <2>1, <2>2
    <2>3. ASSUME \/ \E a \in Admin : Insert(a) \/ Remember(a) \/ Logout(a) \/ Revoke(a)
                 \/ Restart \/ TakeOver \/ OldExits \/ Tick
                 \/ \E ip \in Address : Block(ip) \/ Unblock(ip)
                 \/ ReadBlocked \/ Clear \/ Enter
          PROVE  UNCHANGED made
      BY <1>1, <2>1, <2>3, NothingMade, NoLogin DEF IInv
    <2> QED BY <1>4, <1>5, <1>7, <1>8, <1>10, <1>11, <1>12, <1>14, <2>1, <2>2, <2>3 DEF Next
  <1> QED BY <1>15, <1>16

(* LoginWorks, whoever else logs in or out in between, at either half, and *)
(* whatever processes restart or overlap.                                  *)
THEOREM LoginWorksAlways == HSpec => []LoginWorks
  <1>1. HInit => IInv /\ LInv
    BY InitInv, LInit DEF HInit
  <1>2. IInv /\ LInv /\ [HNext]_hvars => IInv' /\ LInv'
    <2>1. [HNext]_hvars => [Next]_vars
      BY DEF HNext, hvars, vars
    <2> QED BY <2>1, StepInv, LStep
  <1>3. IInv /\ LInv => LoginWorks
    <2> SUFFICES ASSUME IInv, LInv, NEW a \in Admin, At(a, "in"), Valid(Token(a)),
                        faults = 0, MadeOf(a) = 1
                 PROVE  CanAct(a)
      BY DEF LoginWorks, MadeOf
    <2>1. Counted(a) /\ HalfOf(a) \in Half
      BY DEF IInv, BrowsersOK, Browser, Counted, HalfOf, At, Half
    <2>2. Kept(a)
      BY <2>1 DEF LInv, LoginsKept
    <2> QED BY <2>1, <2>2 DEF Kept, CanAct, Authed, At
  <1> QED BY <1>1, <1>2, <1>3, PTL DEF HSpec
=============================================================================

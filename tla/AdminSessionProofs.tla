------------------------ MODULE AdminSessionProofs ------------------------
(* The sessions of operators, for every number of browsers, requests, logins and     *)
(* clock steps, every ttl and every drift: the type invariant, and what a check may   *)
(* accept and refuse.                                                                 *)
EXTENDS AdminSession, FiniteSetTheorems, TLAPS

-----------------------------------------------------------------------------
(* The inductive invariant. *)

\* The logins that have read the clock and not drawn a number yet.
Timed == {b \in Browser : login[b].pc = "timed"}

\* The numbers that are drawn, to be drawn and left stay within MaxLogins.
Drawn ==
    /\ IsFiniteSet(Timed)
    /\ counter + Cardinality(Timed) + logins <= MaxLogins + 1

\* A login that goes on has a token.
HasToken(b) == login[b].pc # "none" => login[b].token \in Tokens

\* No two logins of a process draw the same number, and none draws it twice: the token
\* of a login that has not stored it yet is not in use, and was not before.
Fresh ==
    /\ \A t \in DOMAIN born : t[2] \in 1..(counter - 1)
    /\ \A b \in Browser :
          login[b].pc = "numbered" => login[b].token[2] \in 1..(counter - 1)
                                      /\ login[b].token \notin DOMAIN born
    /\ \A b, c \in Browser :
          b # c /\ login[b].pc = "numbered" /\ login[c].pc = "numbered"
             => login[b].token[2] # login[c].token[2]

\* a and b differ by MaxDrift at most.
Near(a, b) == a - b <= MaxDrift /\ b - a <= MaxDrift

\* The times that are stored and compared are those of the wall clock, which was never
\* far from true time.
Dated ==
    /\ \A t \in DOMAIN sessions : Near(sessions[t], born[t])
    /\ \A t \in DOMAIN born : born[t] \in 0..MaxNow
    /\ \A r \in Request : request[r].pc = "checking" => Near(request[r].wall, request[r].at)

IInv == TypeOK /\ Drawn /\ (\A b \in Browser : HasToken(b)) /\ Fresh /\ Dated

-----------------------------------------------------------------------------
(* Types. *)

\* The actions of Next, one by one.
LEMMA Steps ==
    ASSUME [Next]_vars
    PROVE  \/ TimePasses \/ ClockStepped \/ Restart
           \/ \E b \in Browser : LoginSubmit(b)
           \/ \E b \in Browser : DrawNumber(b)
           \/ \E b \in Browser : StoreSession(b)
           \/ \E b \in Browser : LoginAnswered(b)
           \/ \E b \in Browser : Logout(b)
           \/ \E r \in Request : CheckStarts(r)
           \/ \E r \in Request : Check(r)
           \/ UNCHANGED vars
BY DEF Next, BrowserStep, RequestStep

\* The bounds are numbers, and the wall clock shows what Wall allows.
LEMMA Clock ==
    ASSUME TypeOK
    PROVE  /\ Ttl \in Nat /\ MaxNow \in Nat /\ MaxDrift \in Nat /\ MaxSteps \in Nat
           /\ MaxLogins \in Nat
           /\ unix_now \in Wall /\ 0 \in Wall /\ 0 \in 0..MaxNow /\ 0 \in 0..MaxLogins
           /\ NoToken \notin Tokens
BY AdminAssumption DEF TypeOK, unix_now, Wall, Tokens

\* The records of the logins and of the requests.
LoginRec == [pc : {"none", "timed", "numbered", "stored"}, token : Tokens \cup {NoToken}]
RequestRec == [pc : {"none", "checking", "accepted", "refused"},
               token : Tokens \cup {NoToken}, wall : Wall, at : 0..MaxNow]

\* The token of a login that has read the clock and draws a number.
LEMMA Numbered ==
    ASSUME TypeOK, NEW b \in Browser, HasToken(b), login[b].pc = "timed",
           counter \in 0..MaxLogins,
           login' = [login EXCEPT ![b] = [pc |-> "numbered",
                                          token |-> <<login[b].token[1], counter>>]]
    PROVE  /\ login' \in [Browser -> LoginRec]
           /\ login'[b].pc = "numbered" /\ login'[b].token \in Tokens
           /\ login'[b].token[2] = counter
           /\ \A c \in Browser \ {b} : login'[c] = login[c]
<1> DEFINE new == <<login[b].token[1], counter>>
           rec == [pc |-> "numbered", token |-> new]
<1>1. login \in [Browser -> LoginRec]
  BY DEF TypeOK, LoginRec
<1>2. login[b].token \in Wall \X (0..MaxLogins)
  BY DEF HasToken, Tokens
<1>3. new \in Tokens /\ new[2] = counter
  BY <1>2 DEF Tokens
<1>4. rec \in LoginRec
  BY <1>3 DEF LoginRec
<1> QED
  BY <1>1, <1>3, <1>4

\* No number is drawn beyond MaxLogins.
LEMMA NumberLeft ==
    ASSUME TypeOK, Drawn, NEW b \in Browser, login[b].pc = "timed"
    PROVE  counter \in 1..MaxLogins /\ Cardinality(Timed) \in Nat \ {0}
<1>1. b \in Timed
  BY DEF Timed
<1>2. Cardinality(Timed) \in Nat /\ Cardinality(Timed) # 0
  BY <1>1, FS_CardinalityType, FS_EmptySet DEF Drawn
<1>3. counter \in Nat \ {0} /\ logins \in Nat /\ MaxLogins \in Nat
  BY Clock DEF TypeOK
<1>4. counter + Cardinality(Timed) + logins <= MaxLogins + 1
  BY DEF Drawn
<1> HIDE DEF Timed
<1> QED
  BY <1>2, <1>3, <1>4

\* TypeOK, and a token for every login that goes on.
Types == TypeOK /\ \A b \in Browser : HasToken(b)

\* Every step leaves every variable in its type; a token that is stored is fresh.
LEMMA TypesKept ==
    ASSUME Types, Drawn, Fresh, [Next]_vars
    PROVE  Types'
<1>0. TypeOK /\ \A b \in Browser : HasToken(b)
  BY DEF Types
<1> USE <1>0, Clock
<1>1. CASE TimePasses
  BY <1>1 DEF TimePasses, Types, TypeOK, HasToken, serverVars, budget
<1>2. CASE ClockStepped
  BY <1>2 DEF ClockStepped, Types, TypeOK, HasToken, serverVars
<1>3. CASE Restart
  <2>1. NoLogin \in LoginRec /\ NoRequest \in RequestRec
    BY DEF NoLogin, NoRequest, LoginRec, RequestRec
  <2>2. login' \in [Browser -> LoginRec] /\ request' \in [Request -> RequestRec]
    BY <1>3, <2>1 DEF Restart
  <2>3. \A b \in Browser : login'[b].pc = "none"
    BY <1>3 DEF Restart, NoLogin
  <2>4. DOMAIN sessions' = {} /\ DOMAIN born' = {} /\ ended' = {}
    BY <1>3 DEF Restart
  <2> QED
    BY SMTT(30), <1>3, <2>2, <2>3, <2>4 DEF Restart, Types, TypeOK, HasToken, LoginRec, RequestRec
<1>4. ASSUME NEW b \in Browser, LoginSubmit(b) PROVE Types'
  <2> DEFINE rec == [pc |-> "timed", token |-> <<unix_now, 0>>]
  <2>1. <<unix_now, 0>> \in Tokens
    BY DEF Tokens
  <2>2. rec \in LoginRec
    BY <2>1 DEF LoginRec
  <2>3. login' = [login EXCEPT ![b] = rec] /\ login' \in [Browser -> LoginRec]
    BY <1>4, <2>2 DEF LoginSubmit, TypeOK, LoginRec
  <2>4. \A c \in Browser : HasToken(c)'
    BY <2>1, <2>3 DEF HasToken, TypeOK
  <2>5. logins' \in 0..MaxLogins
    BY <1>4 DEF LoginSubmit, TypeOK
  <2> QED
    BY <1>4, <2>3, <2>4, <2>5
    DEF LoginSubmit, Types, TypeOK, LoginRec, clockVars, serverVars
<1>5. ASSUME NEW b \in Browser, DrawNumber(b) PROVE Types'
  <2>1. counter \in 1..MaxLogins
    BY <1>5, NumberLeft DEF DrawNumber
  <2>2. /\ login' \in [Browser -> LoginRec]
        /\ login'[b].token \in Tokens
        /\ \A c \in Browser \ {b} : login'[c] = login[c]
    <3>1. counter \in 0..MaxLogins
      BY <2>1
    <3> QED
      BY <1>5, <3>1, Numbered DEF DrawNumber
  <2>3. \A c \in Browser : HasToken(c)'
    BY <2>2 DEF HasToken
  <2>4. counter' \in 1..(MaxLogins + 1)
    BY <1>5, <2>1 DEF DrawNumber
  <2> QED
    BY <1>5, <2>2, <2>3, <2>4 DEF DrawNumber, Types, TypeOK, LoginRec, clockVars
<1>6. ASSUME NEW b \in Browser, StoreSession(b) PROVE Types'
  <2> DEFINE t == login[b].token
  <2>1. t \in Tokens /\ t \notin DOMAIN born
    BY <1>6 DEF StoreSession, HasToken, Fresh
  <2>2. login' \in [Browser -> LoginRec] /\ \A c \in Browser : login'[c].token = login[c].token
    BY <1>6 DEF StoreSession, TypeOK, LoginRec
  <2>3. \A c \in Browser : HasToken(c)'
    BY <1>6, <2>1, <2>2 DEF StoreSession, HasToken, TypeOK
  <2>4. /\ DOMAIN sessions' = DOMAIN sessions \cup {t}
        /\ \A u \in DOMAIN sessions' : sessions'[u] \in Wall
        /\ DOMAIN born' = DOMAIN born \cup {t}
    BY <1>6 DEF StoreSession, With, TypeOK
  <2> QED
    BY <1>6, <2>1, <2>2, <2>3, <2>4 DEF StoreSession, Types, TypeOK, LoginRec, clockVars
<1>7. ASSUME NEW b \in Browser, LoginAnswered(b) PROVE Types'
  <2>1. NoLogin \in LoginRec /\ NoLogin.pc = "none"
    BY DEF NoLogin, LoginRec
  <2>2. login' \in [Browser -> LoginRec] /\ \A c \in Browser : HasToken(c)'
    BY <1>7, <2>1 DEF LoginAnswered, TypeOK, LoginRec, HasToken
  <2>3. cookie' \in [Browser -> Tokens \cup {NoToken}]
    BY <1>7 DEF LoginAnswered, TypeOK, HasToken
  <2> QED
    BY <1>7, <2>2, <2>3
    DEF LoginAnswered, Types, TypeOK, LoginRec, clockVars, serverVars
<1>8. ASSUME NEW b \in Browser, Logout(b) PROVE Types'
  <2>1. cookie' \in [Browser -> Tokens \cup {NoToken}]
    BY <1>8 DEF Logout, TypeOK
  <2>2. /\ DOMAIN sessions' = DOMAIN sessions \ {cookie[b]}
        /\ \A u \in DOMAIN sessions' : sessions'[u] = sessions[u]
    BY <1>8 DEF Logout, Removed, Without
  <2> QED
    BY <1>8, <2>1, <2>2 DEF Logout, Types, TypeOK, HasToken, clockVars
<1>9. ASSUME NEW r \in Request, CheckStarts(r) PROVE Types'
  <2>1. PICK b \in Browser : /\ cookie[b] # NoToken
                             /\ request' = [request EXCEPT ![r] =
                                   [pc |-> "checking", token |-> cookie[b],
                                    wall |-> unix_now, at |-> now]]
    BY <1>9 DEF CheckStarts
  <2>2. [pc |-> "checking", token |-> cookie[b], wall |-> unix_now, at |-> now] \in RequestRec
    BY DEF RequestRec, TypeOK
  <2>3. request' \in [Request -> RequestRec]
    BY <2>1, <2>2 DEF TypeOK, RequestRec
  <2> QED
    BY <1>9, <2>3 DEF CheckStarts, Types, TypeOK, RequestRec, HasToken, clockVars, serverVars
<1>10. ASSUME NEW r \in Request, Check(r) PROVE Types'
  <2>1. \A pc \in {"accepted", "refused"} : [NoRequest EXCEPT !.pc = pc] \in RequestRec
    BY DEF NoRequest, RequestRec
  <2>2. request' \in [Request -> RequestRec]
    BY <1>10, <2>1 DEF Check, TypeOK, RequestRec
  <2>3. /\ DOMAIN sessions' \subseteq DOMAIN sessions
        /\ \A u \in DOMAIN sessions' : sessions'[u] = sessions[u]
        /\ DOMAIN sessions' \cup ended' = DOMAIN sessions \cup ended
        /\ DOMAIN sessions' \cap ended' = {}
    BY <1>10 DEF Check, Kept, Without, TypeOK
  <2> QED
    BY <1>10, <2>2, <2>3 DEF Check, Types, TypeOK, RequestRec, HasToken, clockVars
<1>11. CASE UNCHANGED vars
  BY <1>11 DEF vars, Types, TypeOK, HasToken
<1> QED
  BY <1>1, <1>2, <1>3, <1>4, <1>5, <1>6, <1>7, <1>8, <1>9, <1>10, <1>11, Steps

-----------------------------------------------------------------------------
(* Numbers and times. *)

\* Every step keeps the numbers within the bound.
LEMMA DrawnKept ==
    ASSUME Types, Drawn, [Next]_vars
    PROVE  Drawn'
<1>0. TypeOK /\ \A b \in Browser : HasToken(b)
  BY DEF Types
<1>n. counter \in Nat /\ logins \in Nat /\ logins <= MaxLogins /\ MaxLogins \in Nat
  BY <1>0, Clock DEF TypeOK
<1>c. /\ IsFiniteSet(Timed) /\ Cardinality(Timed) \in Nat
      /\ counter + Cardinality(Timed) + logins <= MaxLogins + 1
  BY FS_CardinalityType DEF Drawn
<1>s. SUFFICES \/ Timed' = Timed /\ counter' = counter /\ logins' = logins
               \/ Drawn'
  BY <1>c DEF Drawn
<1>1. CASE Restart
  <2>1. Timed' = {}
    BY <1>1 DEF Restart, NoLogin, Timed
  <2>2. counter' = 1 /\ logins' = logins
    BY <1>1 DEF Restart
  <2>3. IsFiniteSet(Timed') /\ Cardinality(Timed') = 0
    BY <2>1, FS_EmptySet
  <2>4. counter' + Cardinality(Timed') + logins' <= MaxLogins + 1
    BY <1>n, <2>2, <2>3
  <2> QED
    BY <2>3, <2>4 DEF Drawn
<1>2. ASSUME NEW b \in Browser, LoginSubmit(b) PROVE Drawn'
  <2>1. Timed' = Timed \cup {b} /\ b \notin Timed
    BY <1>0, <1>2 DEF LoginSubmit, Timed, TypeOK
  <2>2. counter' = counter /\ logins' = logins - 1
    BY <1>2 DEF LoginSubmit, serverVars
  <2>3. IsFiniteSet(Timed') /\ Cardinality(Timed') = Cardinality(Timed) + 1
    BY <1>c, <2>1, FS_AddElement
  <2>4. counter' + Cardinality(Timed') + logins' <= MaxLogins + 1
    <3> HIDE DEF Timed
    <3> QED
      BY <1>n, <1>c, <2>2, <2>3
  <2> QED
    BY <2>3, <2>4 DEF Drawn
<1>3. ASSUME NEW b \in Browser, DrawNumber(b) PROVE Drawn'
  <2>1. Timed' = Timed \ {b} /\ b \in Timed
    BY <1>0, <1>3 DEF DrawNumber, Timed, TypeOK
  <2>2. counter' = counter + 1 /\ logins' = logins
    BY <1>3 DEF DrawNumber
  <2>3. IsFiniteSet(Timed') /\ Cardinality(Timed') = Cardinality(Timed) - 1
    BY <1>c, <2>1, FS_RemoveElement
  <2>4. counter' + Cardinality(Timed') + logins' <= MaxLogins + 1
    <3> HIDE DEF Timed
    <3> QED
      BY <1>n, <1>c, <2>2, <2>3
  <2> QED
    BY <2>3, <2>4 DEF Drawn
<1>4. ASSUME NEW b \in Browser, StoreSession(b)
      PROVE  Timed' = Timed /\ counter' = counter /\ logins' = logins
  BY <1>0, <1>4 DEF StoreSession, Timed, TypeOK
<1>5. ASSUME NEW b \in Browser, LoginAnswered(b)
      PROVE  Timed' = Timed /\ counter' = counter /\ logins' = logins
  BY <1>0, <1>5 DEF LoginAnswered, NoLogin, Timed, TypeOK, serverVars
<1>6. CASE TimePasses
  BY <1>6 DEF TimePasses, Timed, serverVars, budget
<1>7. CASE ClockStepped
  BY <1>7 DEF ClockStepped, Timed, serverVars
<1>8. ASSUME NEW b \in Browser, Logout(b)
      PROVE  Timed' = Timed /\ counter' = counter /\ logins' = logins
  BY <1>8 DEF Logout, Timed
<1>9. ASSUME NEW r \in Request, CheckStarts(r)
      PROVE  Timed' = Timed /\ counter' = counter /\ logins' = logins
  BY <1>9 DEF CheckStarts, Timed, serverVars
<1>10. ASSUME NEW r \in Request, Check(r)
       PROVE  Timed' = Timed /\ counter' = counter /\ logins' = logins
  BY <1>10 DEF Check, Timed
<1>11. CASE UNCHANGED vars
  BY <1>11 DEF vars, Timed
<1> QED
  BY <1>1, <1>2, <1>3, <1>4, <1>5, <1>6, <1>7, <1>8, <1>9, <1>10, <1>11, Steps

\* Every step keeps the numbers of the process apart.
LEMMA FreshKept ==
    ASSUME Types, Drawn, Fresh, [Next]_vars
    PROVE  Fresh'
<1>0. TypeOK /\ \A b \in Browser : HasToken(b)
  BY DEF Types
<1>n. counter \in Nat /\ Tokens = Wall \X (0..MaxLogins)
  BY <1>0 DEF TypeOK, Tokens
<1>1. CASE Restart
  BY <1>1 DEF Restart, NoLogin, Fresh
<1>2. ASSUME NEW b \in Browser, LoginSubmit(b) PROVE Fresh'
  <2>1. /\ login'[b].pc = "timed"
        /\ \A c \in Browser \ {b} : login'[c] = login[c]
        /\ counter' = counter /\ born' = born
    BY <1>0, <1>2 DEF LoginSubmit, TypeOK, serverVars
  <2> QED
    BY <2>1 DEF Fresh
<1>3. ASSUME NEW b \in Browser, DrawNumber(b) PROVE Fresh'
  <2>1. counter \in 1..MaxLogins
    BY <1>0, <1>3, NumberLeft DEF DrawNumber
  <2>2. counter \in 0..MaxLogins
    BY <2>1
  <2>3. /\ login'[b].token[2] = counter
        /\ \A c \in Browser \ {b} : login'[c] = login[c]
    BY <1>0, <1>3, <2>2, Numbered DEF DrawNumber
  <2>4. counter' = counter + 1 /\ born' = born
    BY <1>3 DEF DrawNumber
  <2>5. \A n \in 1..(counter - 1) : n \in 1..(counter' - 1) /\ n # counter
    BY <1>n, <2>4
  <2>6. counter \in 1..(counter' - 1)
    BY <2>1, <2>4
  <2> QED
    BY <2>3, <2>4, <2>5, <2>6 DEF Fresh
<1>4. ASSUME NEW b \in Browser, StoreSession(b) PROVE Fresh'
  <2>1. /\ login'[b].pc = "stored"
        /\ \A c \in Browser \ {b} : login'[c] = login[c]
        /\ counter' = counter
    BY <1>0, <1>4 DEF StoreSession, TypeOK
  <2>2. DOMAIN born' = DOMAIN born \cup {login[b].token} /\ login[b].pc = "numbered"
    BY <1>4 DEF StoreSession, With
  <2> QED
    BY <2>1, <2>2 DEF Fresh
<1>5. ASSUME NEW b \in Browser, LoginAnswered(b) PROVE Fresh'
  <2>1. /\ login'[b].pc = "none"
        /\ \A c \in Browser \ {b} : login'[c] = login[c]
        /\ counter' = counter /\ born' = born
    BY <1>0, <1>5 DEF LoginAnswered, NoLogin, TypeOK, serverVars
  <2> QED
    BY <2>1 DEF Fresh
<1>6. CASE TimePasses
  BY <1>6 DEF TimePasses, Fresh, serverVars
<1>7. CASE ClockStepped
  BY <1>7 DEF ClockStepped, Fresh, serverVars
<1>8. ASSUME NEW b \in Browser, Logout(b) PROVE Fresh'
  BY <1>8 DEF Logout, Fresh
<1>9. ASSUME NEW r \in Request, CheckStarts(r) PROVE Fresh'
  BY <1>9 DEF CheckStarts, Fresh, serverVars
<1>10. ASSUME NEW r \in Request, Check(r) PROVE Fresh'
  BY <1>10 DEF Check, Fresh
<1>11. CASE UNCHANGED vars
  BY <1>11 DEF vars, Fresh
<1> QED
  BY <1>1, <1>2, <1>3, <1>4, <1>5, <1>6, <1>7, <1>8, <1>9, <1>10, <1>11, Steps

\* Every step keeps the stored times near true time.
LEMMA DatedKept ==
    ASSUME Types, Fresh, Dated, [Next]_vars
    PROVE  Dated'
<1>0. TypeOK /\ \A b \in Browser : HasToken(b)
  BY DEF Types
<1>n. Near(unix_now, now) /\ now \in 0..MaxNow
  BY <1>0, Clock DEF TypeOK, Near, unix_now
<1>1. CASE Restart
  <2>1. DOMAIN sessions' = {} /\ DOMAIN born' = {}
    BY <1>1 DEF Restart
  <2>2. \A r \in Request : request'[r].pc = "none"
    BY <1>1 DEF Restart, NoRequest
  <2> QED
    BY <2>1, <2>2 DEF Dated
<1>2. ASSUME NEW b \in Browser, LoginSubmit(b) PROVE Dated'
  BY <1>2 DEF LoginSubmit, Dated, Near, serverVars
<1>3. ASSUME NEW b \in Browser, DrawNumber(b) PROVE Dated'
  BY <1>3 DEF DrawNumber, Dated, Near
<1>4. ASSUME NEW b \in Browser, StoreSession(b) PROVE Dated'
  <2> DEFINE t == login[b].token
  <2>1. t \notin DOMAIN born /\ DOMAIN sessions \subseteq DOMAIN born
    BY <1>0, <1>4 DEF StoreSession, Fresh, TypeOK
  <2>2. /\ DOMAIN sessions' = DOMAIN sessions \cup {t} /\ sessions'[t] = unix_now
        /\ DOMAIN born' = DOMAIN born \cup {t} /\ born'[t] = now
    BY <1>4 DEF StoreSession, With
  <2>3. /\ \A u \in DOMAIN sessions : sessions'[u] = sessions[u]
        /\ \A u \in DOMAIN born : born'[u] = born[u]
    BY <1>4, <2>1 DEF StoreSession, With
  <2>4. request' = request
    BY <1>4 DEF StoreSession
  <2> QED
    BY <1>n, <2>1, <2>2, <2>3, <2>4 DEF Dated, Near
<1>5. ASSUME NEW b \in Browser, LoginAnswered(b) PROVE Dated'
  BY <1>5 DEF LoginAnswered, Dated, Near, serverVars
<1>6. CASE TimePasses
  BY <1>6 DEF TimePasses, Dated, Near, serverVars
<1>7. CASE ClockStepped
  BY <1>7 DEF ClockStepped, Dated, Near, serverVars
<1>8. ASSUME NEW b \in Browser, Logout(b) PROVE Dated'
  <2>1. /\ DOMAIN sessions' \subseteq DOMAIN sessions
        /\ \A u \in DOMAIN sessions' : sessions'[u] = sessions[u]
    BY <1>8 DEF Logout, Removed, Without
  <2> QED
    BY <1>8, <2>1 DEF Logout, Dated, Near
<1>9. ASSUME NEW r \in Request, CheckStarts(r) PROVE Dated'
  <2>1. /\ request'[r].wall = unix_now /\ request'[r].at = now
        /\ \A q \in Request \ {r} : request'[q] = request[q]
    BY <1>0, <1>9 DEF CheckStarts, TypeOK
  <2> QED
    BY <1>9, <1>n, <2>1 DEF CheckStarts, Dated, Near, serverVars
<1>10. ASSUME NEW r \in Request, Check(r) PROVE Dated'
  <2>1. /\ DOMAIN sessions' \subseteq DOMAIN sessions
        /\ \A u \in DOMAIN sessions' : sessions'[u] = sessions[u]
        /\ born' = born
    BY <1>10 DEF Check, Kept, Without
  <2>2. /\ request'[r].pc \in {"accepted", "refused"}
        /\ \A q \in Request \ {r} : request'[q] = request[q]
    BY <1>0, <1>10 DEF Check, NoRequest, TypeOK
  <2> QED
    BY <2>1, <2>2 DEF Dated, Near
<1>11. CASE UNCHANGED vars
  BY <1>11 DEF vars, Dated, Near
<1> QED
  BY <1>1, <1>2, <1>3, <1>4, <1>5, <1>6, <1>7, <1>8, <1>9, <1>10, <1>11, Steps

-----------------------------------------------------------------------------
(* The theorems. *)

\* The invariant holds at the start.
LEMMA AtTheStart == Init => IInv
<1> SUFFICES ASSUME Init PROVE IInv
  OBVIOUS
<1>1. /\ \A b \in Browser : login[b].pc = "none"
      /\ DOMAIN sessions = {} /\ DOMAIN born = {} /\ ended = {}
      /\ \A r \in Request : request[r].pc = "none"
  BY DEF Init, NoLogin, NoRequest
<1>2. TypeOK
  BY <1>1, AdminAssumption DEF Init, TypeOK, NoLogin, NoRequest, Wall
<1>3. Timed = {}
  BY <1>1 DEF Timed
<1>4. Drawn
  BY <1>3, FS_EmptySet, AdminAssumption DEF Init, Drawn
<1> QED
  BY <1>1, <1>2, <1>4 DEF IInv, HasToken, Fresh, Dated

\* The invariant is inductive.
THEOREM Invariance == Spec => []IInv
<1>1. IInv /\ [Next]_vars => IInv'
  <2> SUFFICES ASSUME IInv, [Next]_vars PROVE IInv'
    OBVIOUS
  <2>1. Types /\ Drawn /\ Fresh /\ Dated
    BY DEF IInv, Types
  <2> QED
    BY <2>1, TypesKept, DrawnKept, FreshKept, DatedKept DEF IInv, Types
<1> QED
  BY AtTheStart, <1>1, PTL DEF Spec

\* Every variable keeps its type, and a token is in use or ended, never both.
THEOREM TypeCorrect == Spec => []TypeOK
BY Invariance, PTL DEF IInv

\* A check that runs ends in a step of its own, or with the process.
LEMMA Verdict ==
    ASSUME TypeOK, [Next]_vars, NEW r \in Request, request[r].pc = "checking",
           request'[r].pc \in {"accepted", "refused"}
    PROVE  Check(r)
<1>1. ~UNCHANGED request
  BY DEF TypeOK
<1>2. ~Restart
  BY DEF Restart, NoRequest
<1>3. \A q \in Request \ {r} : ~CheckStarts(q) /\ ~Check(q)
  BY DEF CheckStarts, Check, TypeOK
<1>4. ~CheckStarts(r)
  BY DEF CheckStarts
<1> QED
  BY <1>1, <1>2, <1>3, <1>4, Steps
  DEF TimePasses, ClockStepped, LoginSubmit, DrawNumber, StoreSession, LoginAnswered, Logout, vars

\* A token that was removed is not accepted by any check of this process again, also
\* when the clock goes back and when the check was running at the logout.
THEOREM EndedIsFinal == Spec => EndedStaysEnded
<1>1. IInv /\ [Next]_vars
         => [\A r \in Request :
               request[r].pc = "checking" /\ request[r].token \in ended
                  => request'[r].pc # "accepted"]_vars
  <2> SUFFICES ASSUME IInv, [Next]_vars, NEW r \in Request,
                      request[r].pc = "checking", request[r].token \in ended,
                      request'[r].pc = "accepted"
               PROVE  FALSE
    OBVIOUS
  <2>1. Check(r)
    BY Verdict DEF IInv
  <2>2. request[r].token \in DOMAIN sessions
    BY <2>1 DEF Check, IInv, TypeOK, NoRequest
  <2> QED
    BY <2>2 DEF IInv, TypeOK
<1> QED
  BY <1>1, Invariance, PTL DEF Spec, EndedStaysEnded

\* The session that a check accepts began no longer ago than its ttl and twice the drift.
THEOREM AcceptedAge == Spec => AcceptedIsYoung
<1>1. IInv /\ [Next]_vars
         => [\A r \in Request :
               request[r].pc = "checking" /\ request'[r].pc = "accepted"
                  => request[r].at - born[request[r].token] <= Ttl + 2 * MaxDrift]_vars
  <2> SUFFICES ASSUME IInv, [Next]_vars, NEW r \in Request,
                      request[r].pc = "checking", request'[r].pc = "accepted"
               PROVE  request[r].at - born[request[r].token] <= Ttl + 2 * MaxDrift
    OBVIOUS
  <2> DEFINE t == request[r].token
  <2>1. Check(r)
    BY Verdict DEF IInv
  <2>2. t \in DOMAIN sessions /\ ~(Age(request[r].wall, sessions[t]) > Ttl)
    BY <2>1 DEF Check, IInv, TypeOK, NoRequest
  <2>3. /\ request[r].wall \in Int /\ request[r].at \in Int /\ sessions[t] \in Int
        /\ born[t] \in Int /\ Ttl \in Nat /\ MaxDrift \in Nat
    BY <2>2, Clock DEF IInv, TypeOK, Wall, Dated
  <2>4. Near(request[r].wall, request[r].at) /\ Near(sessions[t], born[t])
    BY <2>2 DEF IInv, Dated
  <2> HIDE DEF t
  <2> QED
    BY <2>2, <2>3, <2>4 DEF Age, Near, t
<1> QED
  BY <1>1, Invariance, PTL DEF Spec, AcceptedIsYoung

\* A session that is refused although nobody removed it began at least its ttl less
\* twice the drift ago.
THEOREM RefusedAge == Spec => HonouredWithinTtl
<1>1. IInv /\ [Next]_vars
         => [\A r \in Request :
               request[r].pc = "checking" /\ request'[r].pc = "refused"
                  /\ request[r].token \in DOMAIN sessions
                  => request[r].at - born[request[r].token] > Ttl - 2 * MaxDrift]_vars
  <2> SUFFICES ASSUME IInv, [Next]_vars, NEW r \in Request,
                      request[r].pc = "checking", request'[r].pc = "refused",
                      request[r].token \in DOMAIN sessions
               PROVE  request[r].at - born[request[r].token] > Ttl - 2 * MaxDrift
    OBVIOUS
  <2> DEFINE t == request[r].token
  <2>1. Check(r)
    BY Verdict DEF IInv
  <2>2. Age(request[r].wall, sessions[t]) > Ttl
    BY <2>1 DEF Check, IInv, TypeOK, NoRequest
  <2>3. /\ request[r].wall \in Int /\ request[r].at \in Int /\ sessions[t] \in Int
        /\ born[t] \in Int /\ Ttl \in Nat /\ MaxDrift \in Nat
    BY Clock DEF IInv, TypeOK, Wall, Dated
  <2>4. Near(request[r].wall, request[r].at) /\ Near(sessions[t], born[t])
    BY DEF IInv, Dated
  <2> HIDE DEF t
  <2> QED
    BY <2>2, <2>3, <2>4 DEF Age, Near, t
<1> QED
  BY <1>1, Invariance, PTL DEF Spec, HonouredWithinTtl
===========================================================================

---------------------------- MODULE AdminSession ----------------------------
(***************************************************************************)
(* The sessions of operators: AppState.admin_sessions with the login and   *)
(* logout handlers of console.rs and the check that every page and every   *)
(* API request makes (require_console_session, require_admin_session).     *)
(*                                                                         *)
(* The server measures the age of a session on the wall clock, which may   *)
(* run off true time in both directions and jump back.  A login reads the  *)
(* clock, draws a number and inserts in three steps, and a check reads the *)
(* clock before it takes the lock, so both interleave with everything      *)
(* else.  A login with wrong credentials changes nothing and is left out.  *)
(***************************************************************************)
EXTENDS Integers, FiniteSets

CONSTANTS Browser,
          Request,        \* bound: requests that are checked at the same time
          NoToken,
          Ttl,            \* admin_session_ttl_secs
          MaxNow,         \* bound: true time
          MaxDrift,       \* the wall clock is never further than this from true time
          MaxSteps,       \* bound: how often the clock is set or the server restarts
          MaxLogins       \* bound: logins

ASSUME AdminAssumption ==
    /\ {Ttl, MaxNow, MaxDrift, MaxSteps, MaxLogins} \subseteq Nat
    /\ NoToken \notin Int \X Nat

VARIABLES
    now,        \* true time
    drift,      \* unix_now() - now
    counter,    \* AppState.admin_session_counter
    sessions,   \* AppState.admin_sessions: created_at of each token
    login,      \* create_admin_session running for a browser
    cookie,     \* ru_admin_session in each browser
    request,    \* has_valid_admin_session running
    born,       \* history: true time of the insertion of each token of this process
    ended,      \* history: tokens that this process removed
    steps, logins   \* what is left of MaxSteps and MaxLogins

vars == <<now, drift, counter, sessions, login, cookie, request, born, ended, steps, logins>>
serverVars == <<counter, sessions, born, ended>>
clockVars  == <<now, drift, steps>>
budget     == <<steps, logins>>

Token == Int \X Nat      \* format!("{:x}-{:x}", unix_now(), counter)
Wall  == -MaxDrift..(MaxNow + MaxDrift)

unix_now == now + drift

NoLogin   == [pc |-> "none", token |-> NoToken]
NoRequest == [pc |-> "none", token |-> NoToken, wall |-> 0, at |-> 0]

\* The function f without the argument x.
Without(f, x) == [y \in DOMAIN f \ {x} |-> f[y]]
With(f, x, v) == [y \in DOMAIN f \cup {x} |-> IF y = x THEN v ELSE f[y]]

Tokens == Wall \X (0..MaxLogins)

TypeOK ==
    /\ now \in 0..MaxNow /\ drift \in -MaxDrift..MaxDrift
    /\ counter \in 1..(MaxLogins + 1)
    /\ DOMAIN sessions \subseteq Tokens /\ \A t \in DOMAIN sessions : sessions[t] \in Wall
    /\ DOMAIN born = DOMAIN sessions \cup ended /\ ended \cap DOMAIN sessions = {}
    /\ login \in [Browser -> [pc : {"none", "timed", "numbered", "stored"},
                              token : Tokens \cup {NoToken}]]
    /\ cookie \in [Browser -> Tokens \cup {NoToken}]
    /\ request \in [Request -> [pc : {"none", "checking", "accepted", "refused"},
                                token : Tokens \cup {NoToken}, wall : Wall, at : 0..MaxNow]]
    /\ steps \in 0..MaxSteps /\ logins \in 0..MaxLogins

Init ==
    /\ now = 0 /\ drift \in -MaxDrift..MaxDrift /\ counter = 1
    /\ sessions = <<>> /\ born = <<>> /\ ended = {}
    /\ login = [b \in Browser |-> NoLogin]
    /\ cookie = [b \in Browser |-> NoToken]
    /\ request = [r \in Request |-> NoRequest]
    /\ steps = MaxSteps /\ logins = MaxLogins

-----------------------------------------------------------------------------
(* The clocks. *)

TimePasses ==
    /\ now < MaxNow /\ now' = now + 1
    /\ UNCHANGED <<drift, budget, serverVars, login, cookie, request>>

ClockStepped ==
    /\ steps > 0 /\ steps' = steps - 1
    /\ drift' \in -MaxDrift..MaxDrift /\ drift' # drift
    /\ UNCHANGED <<now, logins, serverVars, login, cookie, request>>

-----------------------------------------------------------------------------
(* Login: create_admin_session and the cookie it ends in. *)

\* login_submit: the credentials are right; unix_now() of the token is read.
LoginSubmit(b) ==
    /\ login[b].pc = "none"
    /\ logins > 0 /\ logins' = logins - 1
    /\ login' = [login EXCEPT ![b] = [pc |-> "timed", token |-> <<unix_now, 0>>]]
    /\ UNCHANGED <<clockVars, serverVars, cookie, request>>

\* admin_session_counter.fetch_add(1)
DrawNumber(b) ==
    /\ login[b].pc = "timed"
    /\ login' = [login EXCEPT ![b] = [pc |-> "numbered",
                                      token |-> <<login[b].token[1], counter>>]]
    /\ counter' = counter + 1
    /\ UNCHANGED <<clockVars, logins, sessions, born, ended, cookie, request>>

\* sessions.insert(token, unix_now())
StoreSession(b) ==
    /\ login[b].pc = "numbered"
    /\ sessions' = With(sessions, login[b].token, unix_now)
    /\ born' = With(born, login[b].token, now)
    /\ login' = [login EXCEPT ![b].pc = "stored"]
    /\ UNCHANGED <<clockVars, logins, counter, ended, cookie, request>>

\* The answer of login_submit sets the cookie, or is lost on its way.
LoginAnswered(b) ==
    /\ login[b].pc = "stored"
    /\ cookie' \in {cookie, [cookie EXCEPT ![b] = login[b].token]}
    /\ login' = [login EXCEPT ![b] = NoLogin]
    /\ UNCHANGED <<clockVars, logins, serverVars, request>>

-----------------------------------------------------------------------------
(* Checks. *)

\* extract_cookie and unix_now(), before the lock is taken.
CheckStarts(r) ==
    /\ request[r].pc # "checking"
    /\ \E b \in Browser :
          /\ cookie[b] # NoToken
          /\ request' = [request EXCEPT ![r] = [pc |-> "checking", token |-> cookie[b],
                                                wall |-> unix_now, at |-> now]]
    /\ UNCHANGED <<clockVars, logins, serverVars, login, cookie>>

\* Mutant of Age: now - created_at of u64 wraps around.
AgeWrapping(wall, created) == IF wall < created THEN Ttl + 1 ELSE wall - created

\* now.saturating_sub(created_at)
Age(wall, created) == IF wall < created THEN 0 ELSE wall - created

\* Mutant of Kept: every accepted request renews the session.
Renewed(r) == With(sessions, request[r].token, request[r].wall)

\* An accepted request leaves the session as it is.
Kept(r) == sessions

\* has_valid_admin_session under the lock of admin_sessions.
Check(r) ==
    /\ request[r].pc = "checking"
    /\ LET token   == request[r].token
           known   == token \in DOMAIN sessions
           expired == known /\ Age(request[r].wall, sessions[token]) > Ttl
       IN  /\ request' = [request EXCEPT ![r] =
                              [NoRequest EXCEPT !.pc = IF known /\ ~expired THEN "accepted"
                                                       ELSE "refused"]]
           /\ sessions' = IF expired THEN Without(sessions, token)
                          ELSE IF known THEN Kept(r) ELSE sessions
           /\ ended' = IF expired THEN ended \cup {token} ELSE ended
    /\ UNCHANGED <<clockVars, logins, counter, born, login, cookie>>

-----------------------------------------------------------------------------
(* Logout, and the end of the process. *)

\* Mutant of Removed: only the browser's cookie is cleared.
RemovedNothing(token) == sessions

\* remove_admin_session
Removed(token) == Without(sessions, token)

\* logout: no check comes first; the answer that clears the cookie may be lost.
Logout(b) ==
    /\ cookie[b] # NoToken
    /\ sessions' = Removed(cookie[b])
    /\ ended' = ended \cup ({cookie[b]} \cap DOMAIN sessions)
    /\ cookie' \in {cookie, [cookie EXCEPT ![b] = NoToken]}
    /\ UNCHANGED <<clockVars, logins, counter, born, login, request>>

\* The sessions are in memory only; browsers keep their cookies.
Restart ==
    /\ steps > 0 /\ steps' = steps - 1
    /\ counter' = 1 /\ sessions' = <<>> /\ born' = <<>> /\ ended' = {}
    /\ login' = [b \in Browser |-> NoLogin]
    /\ request' = [r \in Request |-> NoRequest]
    /\ UNCHANGED <<now, drift, logins, cookie>>

-----------------------------------------------------------------------------
BrowserStep(b) ==
    LoginSubmit(b) \/ DrawNumber(b) \/ StoreSession(b) \/ LoginAnswered(b) \/ Logout(b)

RequestStep(r) == CheckStarts(r) \/ Check(r)

Next ==
    \/ TimePasses \/ ClockStepped \/ Restart
    \/ \E b \in Browser : BrowserStep(b)
    \/ \E r \in Request : RequestStep(r)

Spec == Init /\ [][Next]_vars

-----------------------------------------------------------------------------
(* Properties. *)

\* A token that was logged out or has expired is never accepted again by this process:
\* not by a check that had begun before, not when the clock is set back, and not
\* because the answer that clears the cookie was lost.
EndedStaysEnded ==
    [][\A r \in Request :
          request[r].pc = "checking" /\ request[r].token \in ended
             => request'[r].pc # "accepted"]_vars

\* A session is accepted for no longer than its ttl and what the clock was set back
\* since it began, in true time, however often it is used.
AcceptedIsYoung ==
    [][\A r \in Request :
          request[r].pc = "checking" /\ request'[r].pc = "accepted"
             => request[r].at - born[request[r].token] <= Ttl + 2 * MaxDrift]_vars

\* A session that nobody logged out is not refused before its ttl has passed, less
\* what the clock was set ahead since it began; a clock set back refuses nothing.
HonouredWithinTtl ==
    [][\A r \in Request :
          request[r].pc = "checking" /\ request'[r].pc = "refused"
             /\ request[r].token \in DOMAIN sessions
             => request[r].at - born[request[r].token] > Ttl - 2 * MaxDrift]_vars
=============================================================================

---------------------------- MODULE ClientSession ----------------------------
(***************************************************************************)
(* The session of a browser tab: the access token that services/api.ts     *)
(* keeps in memory, the user that AuthProvider shows, and the refresh      *)
(* cookie, which the tab shares with other tabs.  Requests of pages, the   *)
(* renewal of the session, logins and logouts are in flight at once; an    *)
(* answer 401 makes a request wait for one refresh that all share, and go  *)
(* out again.  An access token is the account it was issued for: it may    *)
(* expire at any time, so that any request may be answered 401.            *)
(*                                                                         *)
(* Of the server there is what a refresh cookie is worth: it is presented  *)
(* once, for a successor; presented again, its family is revoked.          *)
(***************************************************************************)
EXTENDS Naturals, Sequences

CONSTANTS None, Accounts, Tasks, MaxSessions

VARIABLES
  sessions,     \* the server's sessions, by the number of their cookie
  jar,          \* the browser's cookie, or 0
  token, user, isLoading,
  refresh,      \* the refresh in flight, if any
  tasks,        \* what the tab has begun
  crossed,      \* why the tab's halves may disagree
  disturbed,    \* a cookie may have been spent behind the tab's back
  reused        \* a spent cookie has been presented

sessionVars == <<sessions, jar, token, user, isLoading, refresh, tasks, crossed, disturbed, reused>>

Renewals == [cookie : Nat, served : BOOLEAN, successor : Nat]
Begun    == [kind : {"page", "session", "login", "logout"},
             stage : {"sent", "waiting", "waiting again", "again", "served"},
             for : Accounts \cup {None}, as : Accounts \cup {None}, cookie : Nat]

Free(t) == tasks[t] = None
Task(kind, stage, cookie) == [kind |-> kind, stage |-> stage, for |-> user, as |-> None, cookie |-> cookie]
----------------------------------------------------------------------------
(* The server.                                                             *)

Created(rows, who, family) == Append(rows, [who |-> who, live |-> TRUE, family |-> family])

Ended(ns) == [n \in DOMAIN sessions |-> IF n \in ns THEN [sessions[n] EXCEPT !.live = FALSE] ELSE sessions[n]]

\* A live session is rotated.  One that was, while its family lives on, ends the family.
Spent(n)     == n # 0 /\ ~sessions[n].live /\ \E m \in DOMAIN sessions : sessions[m].live /\ sessions[m].family = sessions[n].family
Presented(n) ==
  IF n # 0 /\ sessions[n].live
  THEN Created(Ended({n}), sessions[n].who, sessions[n].family)
  ELSE Ended({m \in DOMAIN sessions : Spent(n) /\ sessions[m].family = sessions[n].family})
Accepted(n)  == n # 0 /\ sessions[n].live
----------------------------------------------------------------------------
(* services/api.ts                                                         *)

\* Mutant: everyone who needs a refresh starts one.
refreshAnew == [cookie |-> jar, served |-> FALSE, successor |-> 0]

\* Everyone who needs a refresh waits for the one in flight.
refreshAccessToken == IF refresh = None THEN [cookie |-> jar, served |-> FALSE, successor |-> 0] ELSE refresh

RefreshServed ==
  /\ refresh # None /\ ~refresh.served /\ Len(sessions) < MaxSessions
  /\ sessions' = Presented(refresh.cookie)
  /\ refresh' = [refresh EXCEPT !.served = TRUE, !.successor = IF Accepted(refresh.cookie) THEN Len(sessions) + 1 ELSE 0]
  /\ reused' = (reused \/ Spent(refresh.cookie))
  /\ UNCHANGED <<jar, token, user, isLoading, tasks, crossed, disturbed>>

Waiting == {t \in Tasks : ~Free(t) /\ tasks[t].stage \in {"waiting", "waiting again"}}
Late(ts) == {why \in {"late"} : \E t \in ts : tasks[t].for # user}

\* Success: the requests that wait go out (again) with the new token, the renewal of the
\* session asks who the user is.
RefreshAnswered ==
  /\ refresh # None /\ refresh.successor # 0
  /\ jar' = refresh.successor
  /\ token' = sessions[refresh.successor].who
  /\ tasks' = [t \in Tasks |->
       IF t \notin Waiting THEN tasks[t]
       ELSE [tasks[t] EXCEPT !.as = token', !.stage = IF tasks[t].kind = "session" /\ @ = "waiting" THEN "sent" ELSE "again"]]
  /\ refresh' = None
  /\ crossed' = crossed \cup Late(Waiting)
  /\ UNCHANGED <<sessions, user, isLoading, disturbed, reused>>

\* A refusal, or an answer that is lost: the token goes, and everyone who waited clears
\* the user.
RefreshFailed ==
  /\ refresh # None
  /\ disturbed' = (disturbed \/ refresh.successor # 0)
  /\ token' = None /\ user' = None /\ refresh' = None
  /\ isLoading' = (isLoading /\ \A t \in Waiting : tasks[t].kind # "session")
  /\ tasks' = [t \in Tasks |-> IF t \in Waiting THEN None ELSE tasks[t]]
  /\ crossed' = crossed \cup Late(Waiting)
  /\ UNCHANGED <<sessions, jar, reused>>

\* A page asks for something.
Ask(t) ==
  /\ Free(t) /\ user # None
  /\ tasks' = [tasks EXCEPT ![t] = Task("page", "sent", 0)]
  /\ UNCHANGED <<sessions, jar, token, user, isLoading, refresh, crossed, disturbed, reused>>

\* 401: the request waits for a refresh, once.
Unauthorized(t) ==
  /\ ~Free(t) /\ tasks[t].kind \in {"page", "session"} /\ tasks[t].stage = "sent"
  /\ tasks' = [tasks EXCEPT ![t].stage = "waiting again", ![t].as = None]
  /\ refresh' = refreshAccessToken
  /\ crossed' = crossed \cup Late({t})
  /\ UNCHANGED <<sessions, jar, token, user, isLoading, disturbed, reused>>

\* The page gets its answer, or an error that it tells.
PageAnswered(t) ==
  /\ ~Free(t) /\ tasks[t].kind = "page" /\ tasks[t].stage \in {"sent", "again"}
  /\ tasks' = [tasks EXCEPT ![t] = None]
  /\ UNCHANGED <<sessions, jar, token, user, isLoading, refresh, crossed, disturbed, reused>>
----------------------------------------------------------------------------
(* AuthProvider                                                            *)

\* A password reset revokes every session of the account whose link it was; if somebody
\* is signed in, the tab then renews its session.
ResetPassword(t, a) ==
  /\ Free(t) /\ user # None
  /\ sessions' = Ended({n \in DOMAIN sessions : sessions[n].who = a})
  /\ tasks' = [tasks EXCEPT ![t] = Task("session", "waiting", 0)]
  /\ refresh' = refreshAccessToken
  /\ UNCHANGED <<jar, token, user, isLoading, crossed, disturbed, reused>>

\* The renewal ends with the user the server names, or with nobody.
refreshSession(t) ==
  /\ ~Free(t) /\ tasks[t].kind = "session" /\ tasks[t].stage \in {"sent", "again"}
  /\ \/ user' = tasks[t].as /\ UNCHANGED token
     \/ user' = None /\ token' = None
  /\ tasks' = [tasks EXCEPT ![t] = None]
  /\ isLoading' = FALSE
  /\ crossed' = crossed \cup Late({t})
  /\ UNCHANGED <<sessions, jar, refresh, disturbed, reused>>

\* The login page is for guests.  A second factor and a registration end alike.
login(t, a) ==
  /\ Free(t) /\ user = None /\ ~isLoading
  /\ tasks' = [tasks EXCEPT ![t] = [Task("login", "sent", 0) EXCEPT !.as = a]]
  /\ UNCHANGED <<sessions, jar, token, user, isLoading, refresh, crossed, disturbed, reused>>

LoginAnswered(t) ==
  /\ ~Free(t) /\ tasks[t].kind = "login"
  /\ tasks' = [tasks EXCEPT ![t] = None]
  /\ \/ /\ Len(sessions) < MaxSessions
        /\ sessions' = Created(sessions, tasks[t].as, Len(sessions) + 1)
        /\ jar' = Len(sessions) + 1
        /\ token' = tasks[t].as /\ user' = tasks[t].as
     \/ UNCHANGED <<sessions, jar, token, user>>
  /\ UNCHANGED <<isLoading, refresh, crossed, disturbed, reused>>

logout(t) ==
  /\ Free(t) /\ user # None
  /\ tasks' = [tasks EXCEPT ![t] = Task("logout", "sent", jar)]
  /\ UNCHANGED <<sessions, jar, token, user, isLoading, refresh, crossed, disturbed, reused>>

LogoutServed(t) ==
  /\ ~Free(t) /\ tasks[t].kind = "logout" /\ tasks[t].stage = "sent"
  /\ sessions' = Ended({tasks[t].cookie})
  /\ tasks' = [tasks EXCEPT ![t].stage = "served"]
  /\ UNCHANGED <<jar, token, user, isLoading, refresh, crossed, disturbed, reused>>

\* A failure is ignored, and then the cookie stays.
LogoutAnswered(t) ==
  /\ ~Free(t) /\ tasks[t].kind = "logout"
  /\ jar' \in {jar} \cup {c \in {0} : tasks[t].stage = "served"}
  /\ token' = None /\ user' = None
  /\ tasks' = [tasks EXCEPT ![t] = None]
  /\ UNCHANGED <<sessions, isLoading, refresh, crossed, disturbed, reused>>
----------------------------------------------------------------------------
(* Around the tab.                                                         *)

\* The page is loaded anew: what was in memory is gone, what disagreed with it, what was
\* in flight has been served or never is, and the tab begins by renewing its session.
Mounted == [t \in Tasks |-> IF t = CHOOSE first \in Tasks : TRUE
                            THEN [kind |-> "session", stage |-> "waiting", for |-> None, as |-> None, cookie |-> 0]
                            ELSE None]
Renewal == [cookie |-> jar, served |-> FALSE, successor |-> 0]

Reload ==
  /\ ~isLoading
  /\ token' = None /\ user' = None /\ isLoading' = TRUE
  /\ tasks' = Mounted /\ refresh' = Renewal
  /\ disturbed' = (disturbed \/ refresh # None)
  /\ crossed' = {}
  /\ UNCHANGED <<sessions, jar, reused>>

\* Another tab renews, ends or changes the session of the browser.
OtherTabRefreshes ==
  /\ jar # 0 /\ Len(sessions) < MaxSessions
  /\ sessions' = Presented(jar)
  /\ jar' = IF Accepted(jar) THEN Len(sessions) + 1 ELSE jar
  /\ reused' = (reused \/ Spent(jar))
  /\ disturbed' = TRUE
  /\ UNCHANGED <<token, user, isLoading, refresh, tasks, crossed>>

OtherTabSignsIn(a) ==
  /\ Len(sessions) < MaxSessions
  /\ sessions' = Created(sessions, a, Len(sessions) + 1)
  /\ jar' = Len(sessions) + 1
  /\ crossed' = crossed \cup {why \in {"other tab"} : user # a}
  /\ UNCHANGED <<token, user, isLoading, refresh, tasks, disturbed, reused>>

OtherTabSignsOut ==
  /\ jar # 0
  /\ sessions' = Ended({jar})
  /\ jar' = 0
  /\ UNCHANGED <<token, user, isLoading, refresh, tasks, crossed, disturbed, reused>>
----------------------------------------------------------------------------
Init ==
  /\ sessions \in {<< >>, Created(<< >>, CHOOSE a \in Accounts : TRUE, 1)}
  /\ jar = Len(sessions)
  /\ token = None /\ user = None /\ isLoading = TRUE
  /\ tasks = Mounted /\ refresh = Renewal
  /\ crossed = {} /\ disturbed = FALSE /\ reused = FALSE

\* Bound: when the halves of the tab may disagree, nothing begins before it is reloaded.
Next ==
  \/ RefreshServed \/ RefreshAnswered \/ RefreshFailed \/ Reload
  \/ \E t \in Tasks : Unauthorized(t) \/ PageAnswered(t) \/ refreshSession(t)
                      \/ LoginAnswered(t) \/ LogoutServed(t) \/ LogoutAnswered(t)
  \/ /\ crossed = {}
     /\ \/ \E t \in Tasks : Ask(t) \/ logout(t) \/ \E a \in Accounts : ResetPassword(t, a) \/ login(t, a)
        \/ OtherTabRefreshes \/ OtherTabSignsOut \/ \E a \in Accounts : OtherTabSignsIn(a)

Spec == Init /\ [][Next]_sessionVars
----------------------------------------------------------------------------
TypeOK ==
  /\ \A n \in DOMAIN sessions : sessions[n] \in [who : Accounts, live : BOOLEAN, family : 1..MaxSessions]
  /\ jar \in 0..Len(sessions)
  /\ token \in Accounts \cup {None} /\ user \in Accounts \cup {None}
  /\ {isLoading, disturbed, reused} \subseteq BOOLEAN
  /\ refresh # None => refresh \in [cookie : 0..Len(sessions), served : BOOLEAN, successor : 0..Len(sessions)]
  /\ \A t \in Tasks : ~Free(t) => tasks[t].kind \in {"page", "session", "login", "logout"}
  /\ crossed \subseteq {"late", "other tab"}

\* The account that is shown is the one that requests are made for, and a request that
\* goes out again does so for the account it was made for; but not when an answer for an
\* earlier user arrives late, or another tab has changed the account.
Asking == \E t \in Tasks : ~Free(t) /\ tasks[t].kind = "session" /\ tasks[t].stage # "waiting"
SessionAgrees ==
  crossed = {} =>
    /\ token = user \/ (token # None /\ Asking)
    /\ \A t \in Tasks : ~Free(t) /\ tasks[t].kind = "page" /\ tasks[t].stage = "again" => tasks[t].as = tasks[t].for

\* A tab by itself presents no cookie twice, however many of its requests are refused at
\* once, unless the answer of a refresh was lost on it.
PresentsOnce == reused => disturbed
=============================================================================

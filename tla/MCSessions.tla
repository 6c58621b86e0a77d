----------------------------- MODULE MCSessions -----------------------------
(***************************************************************************)
(* Small instances of sessions at both ends: the rows of the server, and   *)
(* the tab of a browser.  A behaviour exercises one of them, chosen in the *)
(* initial state.  RefreshSessions is extended, so that its properties are *)
(* the very formulas SessionsProofs proves.                         *)
(***************************************************************************)
EXTENDS RefreshSessions

CONSTANTS Accounts, Tasks, MaxSessions

VARIABLES part, sessions, jar, token, user, isLoading, refresh, tasks, crossed, disturbed, reused

tabVars == <<sessions, jar, token, user, isLoading, refresh, tasks, crossed, disturbed, reused>>

Tab == INSTANCE ClientSession

ASSUME AccountsAssumption == Accounts # {} /\ None \notin Accounts
ASSUME TabAssumption == Tasks # {} /\ MaxSessions \in Nat \ {0}

\* A refresh in flight, and what the tab has begun, are something.
ASSUME SomethingAssumption == None \notin Tab!Renewals /\ None \notin Tab!Begun

BothInit == part \in {"server", "tab"} /\ Init /\ Tab!Init /\ (part = "server" => sessions = << >>)

\* Out of session ids and revocations, the server is at rest; that is no deadlock.
AtRest == part = "server" /\ UNCHANGED <<part, vars, tabVars>>

BothNext ==
  \/ part = "server" /\ Next /\ UNCHANGED <<part, tabVars>>
  \/ part = "tab" /\ Tab!Next /\ UNCHANGED <<part, vars>>
  \/ AtRest

\* A tab needs no fairness, and in the initial state nothing of the server that is treated
\* fairly is enabled.
BothSpec == BothInit /\ [][BothNext]_<<part, vars, tabVars>> /\ Fairness

\* The type invariant of the part that is exercised: the other does not move.
SessionTypeOK == IF part = "server" THEN TypeOK ELSE Tab!TypeOK

\* Token and user of a tab name the same account, also when a request is sent again, and
\* no cookie is presented twice, but for late answers and other tabs (ClientSession).
TabAgrees == part = "tab" => Tab!SessionAgrees /\ Tab!PresentsOnce
=============================================================================

----------------------------- MODULE Lifecycle -----------------------------
(***************************************************************************)
(* The server process from start to exit (server/src/lifecycle.ts).  The   *)
(* start waits for the database and then listens; a signal or an uncaught  *)
(* error starts one shutdown, which closes the server, waits for the       *)
(* requests in progress, disconnects the database and exits.  A timer      *)
(* forces the exit when the requests do not end.                           *)
(* Handlers run one at a time; every await and every timer is a point      *)
(* where another may run.  Time is left out: a timer that is set may fire  *)
(* at any moment, so it may fire early, which the code survives as well.   *)
(***************************************************************************)
EXTENDS Naturals

CONSTANT MaxBusy  \* bound on the requests in progress

ExitCodes == {0, 1}

VARIABLES startup,     \* "checking" the database, "serving" or "failed"
          server,      \* "none" attached, "open", "closing" or "closed"
          busy,        \* requests in progress
          stopping,    \* shuttingDown
          exitCode,
          forceTimer,  \* "off" or "set"
          disconnect,  \* who first waits for the database to disconnect
          exited,
          status,      \* what the process exited with
          worst        \* the gravest code any handler asked for (history)

lifecycleVars == <<startup, server, busy, stopping, exitCode, forceTimer, disconnect, exited, status, worst>>

TypeOK ==
  /\ startup \in {"checking", "serving", "failed"}
  /\ server \in {"none", "open", "closing", "closed"}
  /\ busy \in Nat
  /\ stopping \in BOOLEAN
  /\ exitCode \in ExitCodes /\ worst \in ExitCodes
  /\ forceTimer \in {"off", "set"}
  /\ disconnect \in {"nobody", "shutdown", "force"}
  /\ exited \in BOOLEAN /\ status \in ExitCodes

Init ==
  /\ startup = "checking" /\ server = "none" /\ busy = 0
  /\ stopping = FALSE /\ exitCode = 0 /\ forceTimer = "off"
  /\ disconnect = "nobody" /\ exited = FALSE /\ status = 0 /\ worst = 0

Larger(a, b) == IF a > b THEN a ELSE b

\* The first caller starts the disconnect; the others wait for the same one.
disconnectOnce(caller) ==
  disconnect' = IF disconnect = "nobody" THEN caller ELSE disconnect

\* Without a server to close, a shutdown gets as far as the disconnect.
CloseServer == IF server = "open"
                 THEN server' = "closing" /\ UNCHANGED disconnect
                 ELSE disconnectOnce("shutdown") /\ UNCHANGED server

\* Faulty: no timer bounds the wait for requests in progress.
BeginShutdownUnbounded(code) ==
  /\ ~stopping
  /\ stopping' = TRUE /\ exitCode' = code /\ UNCHANGED forceTimer
  /\ CloseServer

\* shutdown(reason, code) up to its first await.
BeginShutdown(code) ==
  /\ ~stopping
  /\ stopping' = TRUE /\ exitCode' = code /\ forceTimer' = "set"
  /\ CloseServer

\* Faulty: a shutdown in progress ignores whatever comes.
EscalateNever(code) == stopping /\ UNCHANGED <<exitCode, stopping, forceTimer, server, disconnect>>

\* shutdown(reason, code) while one is in progress: only the code may change.
Escalate(code) ==
  /\ stopping
  /\ exitCode' = Larger(code, exitCode)
  /\ UNCHANGED <<stopping, forceTimer, server, disconnect>>

shutdown(code) == /\ BeginShutdown(code) \/ Escalate(code)
                  /\ worst' = Larger(code, worst)

\* SIGTERM and SIGINT ask for 0, an unhandled rejection or exception for 1.
ProcessEvent == /\ ~exited
                /\ \E code \in ExitCodes : shutdown(code)
                /\ UNCHANGED <<startup, busy, exited, status>>

\* The check of the database answered: listen, whatever happened meanwhile.
CheckPasses == /\ ~exited /\ startup = "checking"
               /\ startup' = "serving" /\ server' = "open"
               /\ UNCHANGED <<busy, stopping, exitCode, forceTimer, disconnect, exited, status, worst>>

\* The check failed or timed out.
CheckFails == /\ ~exited /\ startup = "checking"
              /\ startup' = "failed" /\ shutdown(1)
              /\ UNCHANGED <<busy, exited, status>>

\* Clients begin requests while the server accepts them, and some end.
BeginRequest == /\ ~exited /\ server = "open" /\ busy < MaxBusy
                /\ busy' = busy + 1
                /\ UNCHANGED <<startup, server, stopping, exitCode, forceTimer, disconnect, exited, status, worst>>

EndRequest == /\ ~exited /\ busy > 0
              /\ busy' = busy - 1
              /\ UNCHANGED <<startup, server, stopping, exitCode, forceTimer, disconnect, exited, status, worst>>

\* server.close calls back once no request is in progress.
Drained == /\ ~exited /\ server = "closing" /\ busy = 0
           /\ server' = "closed" /\ disconnectOnce("shutdown")
           /\ UNCHANGED <<startup, busy, stopping, exitCode, forceTimer, exited, status, worst>>

\* forceShutdown up to its await.
forceShutdown == /\ ~exited /\ forceTimer = "set"
                 /\ forceTimer' = "off" /\ disconnectOnce("force")
                 /\ UNCHANGED <<startup, server, busy, stopping, exitCode, exited, status, worst>>

\* Faulty: the exit that the timer forces looks like a clean one.
ForcedCodeAsAsked == exitCode

ForcedCode == IF exitCode # 0 THEN exitCode ELSE 1

\* The disconnect ended, failed or timed out.  Whoever waited first resumes first
\* and finishes, which ends the process.
finish == /\ ~exited /\ disconnect # "nobody"
          /\ exited' = TRUE
          /\ status' = IF disconnect = "shutdown" THEN exitCode ELSE ForcedCode
          /\ UNCHANGED <<startup, server, busy, stopping, exitCode, forceTimer, disconnect, worst>>

Next == ProcessEvent \/ CheckPasses \/ CheckFails \/ BeginRequest \/ EndRequest
          \/ Drained \/ forceShutdown \/ finish

\* A timer that is set fires, and withTimeout bounds the disconnect.  Nothing
\* is assumed of clients: a request may never end.
Fairness == WF_lifecycleVars(forceShutdown) /\ WF_lifecycleVars(finish)

Spec == Init /\ [][Next]_lifecycleVars /\ Fairness

-----------------------------------------------------------------------------
(* Properties.                                                             *)

\* The process exits with the gravest code that was asked of it: an error that
\* is reported while a signal's shutdown is under way is not lost, however the
\* shutdown ends (finish reads exitCode when it exits, not when it began).
GravestCode == exited => status >= worst

\* Exit code 0 means that every request was answered: the exit was not forced
\* while one was in progress.  The exception is a server that was attached after
\* the shutdown began, which the shutdown does not know of.
CleanMeansDrained == exited /\ status = 0 => busy = 0 \/ server = "open"

\* Once a shutdown has begun the process exits, whether or not requests end.
ShutdownFinishes == stopping ~> exited
=============================================================================
